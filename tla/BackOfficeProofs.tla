-------------------------- MODULE BackOfficeProofs --------------------------
(***************************************************************************)
(* Theorems about BackOffice: about the staff list, the tabs and the admin *)
(* pages, and, with the theorems about its other parts, about all seven    *)
(* together.                                                               *)
(*                                                                         *)
(* Each part has an inductive invariant of its own.  StaffInv adds what a  *)
(* request under way still owes to its checks: whom it may be about, and   *)
(* that an actor who is not an administrator was never let near one.       *)
(*                                                                         *)
(* TabsInv follows what each tab knows of the session.  A tab counts from  *)
(* the moment an answer reaches it, so its clock is late by exactly the    *)
(* time the answer took: the session ends by until + lag of each tab that  *)
(* heard everything.  That is why the late answer to a touch does no harm  *)
(* even where it sets until back.                                          *)
(*                                                                         *)
(* PagesInv says for which answers a page waits: at most for those to what *)
(* it was asked last.                                                      *)
(***************************************************************************)
EXTENDS BackOffice, OrderDeskProofs, OrderAutomationProofs, ReviewBoardProofs,
        CustomerRecordsProofs, TLAPS

-----------------------------------------------------------------------------
(* The staff list. *)

\* What the checks leave true of a request until it is written.
Sound(u) ==
  LET d == deed[u] IN
  /\ d.kind \in {"ROLE", "ACTIVE", "RESET"} => d.target # u
  /\ d.kind \in {"NAME", "ROLE", "ACTIVE", "RESET"} =>
       /\ d.actor.active /\ d.actor.password = "OWN"
       /\ d.actor.role = "ADMIN" \/ d.was # "ADMIN"
       /\ member[d.target].listed
  /\ d.kind = "NAME" => d.to = d.was
  /\ d.kind = "PASSWORD" => d.to = "OWN"
  /\ d.kind \in {"NAME", "ROLE", "CREATE"} => d.to \in Role
  /\ d.kind = "RESET" => d.to = "TEMPORARY"

\* Only members on the list are active.
ActiveAreListed == \A u \in Member : member[u].active => member[u].listed

\* The inductive invariant of the staff list.
StaffInv ==
  /\ StaffTypeOK /\ ActiveAreListed /\ (\A u \in Member : Sound(u)) /\ ControlStays
-----------------------------------------------------------------------------
LEMMA StaffRows ==
  ASSUME NEW row \in Row
  PROVE  /\ row.listed \in BOOLEAN /\ row.role \in Role /\ row.active \in BOOLEAN
         /\ row.password \in PasswordState /\ row.signedIn \in BOOLEAN
BY DEF Row

LEMMA StaffStarts == StaffInit => StaffInv
<1>. SUFFICES ASSUME StaffInit PROVE StaffInv
  OBVIOUS
<1>. DEFINE FirstRow == [listed |-> TRUE, role |-> "ADMIN", active |-> TRUE,
                         password |-> "OWN", signedIn |-> FALSE]
<1>1. PICK first \in Member :
        member = [u \in Member |-> IF u # first THEN NotListed ELSE FirstRow]
  BY DEF StaffInit
<1>2. NotListed \in Row /\ FirstRow \in Row
  BY DEF NotListed, Row, Role, PasswordState
<1>3. deed = [u \in Member |-> NoDeed(u)] /\ superseded = FALSE /\ overridden = FALSE
  BY DEF StaffInit
<1>4. StaffTypeOK
  BY <1>1, <1>2, <1>3 DEF StaffTypeOK, NoDeed, Role, PasswordState
<1>5. ActiveAreListed
  BY <1>1 DEF ActiveAreListed, NotListed
<1>6. \A u \in Member : Sound(u)
  BY <1>3 DEF Sound, NoDeed
<1>7. InControl(member[first])
  BY <1>1 DEF InControl
<1>. QED  BY <1>3, <1>4, <1>5, <1>6, <1>7 DEF StaffInv, ControlStays, AnAdminRemains

\* Changes of sessions and lapses leave every row as it was for the checks.
Alike(old, new) ==
  /\ new \in Row /\ new.listed = old.listed /\ new.role = old.role /\ new.active = old.active
  /\ new.password = old.password \/ old.password # "OWN"

LEMMA AlikeKeeps ==
  ASSUME StaffInv, NEW u \in Member, NEW row, Alike(member[u], row),
         member' = [member EXCEPT ![u] = row], UNCHANGED <<deed, superseded, overridden>>
  PROVE  StaffInv'
<1>1. member \in [Member -> Row] /\ row \in Row
  BY DEF StaffInv, StaffTypeOK, Alike
<1>2. StaffTypeOK'
  BY <1>1 DEF StaffInv, StaffTypeOK
<1>3. \A v \in Member : member'[v].listed = member[v].listed /\ member'[v].active = member[v].active
  BY <1>1 DEF Alike
<1>4. ActiveAreListed'
  BY <1>3 DEF StaffInv, ActiveAreListed
<1>5. \A v \in Member : Sound(v)'
  BY <1>3 DEF StaffInv, Sound, StaffTypeOK
<1>6. \A v \in Member : InControl(member[v]) => InControl(member'[v])
  BY <1>1 DEF InControl, Alike
<1>7. ControlStays'
  BY <1>6 DEF StaffInv, ControlStays, AnAdminRemains
<1>. QED  BY <1>2, <1>4, <1>5, <1>7 DEF StaffInv

LEMMA SessionsKeep ==
  ASSUME StaffInv, NEW u \in Member, SignIn(u) \/ SignOutOf(u) \/ PasswordLapses(u)
  PROVE  StaffInv'
<1>1. member[u] \in Row
  BY DEF StaffInv, StaffTypeOK
<1>2. CASE SignIn(u)
  <2>. DEFINE row == [member[u] EXCEPT !.signedIn = TRUE]
  <2>1. Alike(member[u], row)
    BY <1>1 DEF Alike, Row
  <2>. QED  BY <2>1, <1>2, AlikeKeeps DEF SignIn
<1>3. CASE SignOutOf(u)
  <2>. DEFINE row == [member[u] EXCEPT !.signedIn = FALSE]
  <2>1. Alike(member[u], row)
    BY <1>1 DEF Alike, Row
  <2>. QED  BY <2>1, <1>3, AlikeKeeps DEF SignOutOf
<1>4. CASE PasswordLapses(u)
  <2>. DEFINE row == [member[u] EXCEPT !.password = "LAPSED"]
  <2>1. Alike(member[u], row)
    BY <1>1, <1>4 DEF Alike, Row, PasswordState, PasswordLapses
  <2>. QED  BY <2>1, <1>4, AlikeKeeps DEF PasswordLapses
<1>. QED  BY <1>2, <1>3, <1>4
-----------------------------------------------------------------------------
\* A request that passes its checks is sound from then on.
LEMMA AsksKeeps ==
  ASSUME StaffInv, NEW u \in Member, NEW v \in Member,
         NEW kind \in {"NAME", "ROLE", "ACTIVE", "RESET", "PASSWORD", "CREATE"}, NEW to,
         Asks(u, kind, v, to),
         to \in Role \cup PasswordState \cup {"ACTIVE", "SUSPENDED"},
         kind \in {"ROLE", "ACTIVE", "RESET"} => v # u,
         kind \in {"NAME", "ROLE", "ACTIVE", "RESET"} =>
           /\ Operational(u) /\ member[v].listed
           /\ u = v \/ MayManage(u, v),
         kind = "NAME" => to = member[v].role,
         kind = "PASSWORD" => to = "OWN",
         kind \in {"NAME", "ROLE", "CREATE"} => to \in Role,
         kind = "RESET" => to = "TEMPORARY"
  PROVE  StaffInv'
<1>. DEFINE d == [kind |-> kind, target |-> v, to |-> to, actor |-> member[u],
                  was |-> member[v].role, current |-> TRUE]
<1>1. /\ deed' = [deed EXCEPT ![u] = d] /\ UNCHANGED <<member, superseded, overridden>>
      /\ member \in [Member -> Row]
  BY DEF Asks, StaffInv, StaffTypeOK
<1>2. member[u] \in Row /\ member[v].role \in Role
  BY <1>1, StaffRows
<1>3. StaffTypeOK'
  BY <1>1, <1>2 DEF StaffInv, StaffTypeOK
<1>4. deed'[u] = d /\ \A w \in Member \ {u} : deed'[w] = deed[w]
  BY <1>1 DEF StaffInv, StaffTypeOK
<1>5. Sound(u)'
  BY <1>1, <1>2, <1>4 DEF Sound, Operational, Validated, MayManage
<1>6. \A w \in Member : Sound(w)'
  BY <1>1, <1>4, <1>5 DEF Sound, StaffInv
<1>. QED  BY <1>1, <1>3, <1>6 DEF StaffInv, ActiveAreListed, ControlStays, AnAdminRemains

LEMMA StaffBeginsKeep ==
  ASSUME StaffInv, NEW u \in Member, NEW v \in Member,
         \/ BeginPassword(u) \/ BeginReset(u, v) \/ BeginName(u, v)
         \/ \E to \in {"ACTIVE", "SUSPENDED"} : BeginActive(u, v, to)
         \/ \E role \in Role : BeginRole(u, v, role) \/ BeginCreate(u, v, role)
  PROVE  StaffInv'
<1>1. member[v] \in Row /\ member[v].role \in Role /\ (member[v].active => member[v].listed)
  BY StaffRows DEF StaffInv, StaffTypeOK, ActiveAreListed
<1>2. CASE BeginPassword(u)
  BY <1>2, AsksKeeps DEF BeginPassword, PasswordState
<1>3. CASE BeginReset(u, v)
  BY <1>1, <1>3, AsksKeeps DEF BeginReset, PasswordState
<1>4. CASE BeginName(u, v)
  BY <1>1, <1>4, AsksKeeps DEF BeginName
<1>5. ASSUME NEW to \in {"ACTIVE", "SUSPENDED"}, BeginActive(u, v, to) PROVE StaffInv'
  BY <1>5, AsksKeeps DEF BeginActive, MaySuspend
<1>6. ASSUME NEW role \in Role, BeginRole(u, v, role) PROVE StaffInv'
  BY <1>6, AsksKeeps DEF BeginRole
<1>7. ASSUME NEW role \in Role, BeginCreate(u, v, role) PROVE StaffInv'
  BY <1>7, AsksKeeps DEF BeginCreate
<1>. QED  BY <1>2, <1>3, <1>4, <1>5, <1>6, <1>7

LEMMA GiveUpKeeps ==
  ASSUME StaffInv, NEW u \in Member, GiveUp(u)
  PROVE  StaffInv'
<1>1. UNCHANGED <<member, superseded, overridden>> /\ deed' = [deed EXCEPT ![u] = NoDeed(u)]
  BY DEF GiveUp
<1>2. NotListed \in Row
  BY DEF NotListed, Row, Role, PasswordState
<1>3. StaffTypeOK'
  BY <1>1, <1>2 DEF StaffInv, StaffTypeOK, NoDeed, Role
<1>4. \A w \in Member : deed'[w] = IF w = u THEN NoDeed(u) ELSE deed[w]
  BY <1>1 DEF StaffInv, StaffTypeOK
<1>5. \A w \in Member : Sound(w)'
  BY <1>1, <1>4 DEF StaffInv, Sound, NoDeed
<1>. QED  BY <1>1, <1>3, <1>5 DEF StaffInv, ActiveAreListed, ControlStays, AnAdminRemains
-----------------------------------------------------------------------------
\* What a write makes of the row it is about.
LEMMA RowsAfter ==
  ASSUME StaffInv, NEW u \in Member, MayWrite(deed[u]),
         NEW row, row = RowAfter(deed[u].kind, deed[u].to, member[deed[u].target])
  PROVE  /\ row \in Row
         /\ row.active => row.listed
         /\ member[deed[u].target].listed => row.listed
<1>. DEFINE d == deed[u]
<1>1. /\ d.kind \in {"NAME", "ROLE", "ACTIVE", "RESET", "PASSWORD", "CREATE"}
      /\ d.target \in Member /\ member[d.target] \in Row
      /\ member[d.target].active => member[d.target].listed
  BY DEF StaffInv, StaffTypeOK, MayWrite, ActiveAreListed
<1>2. Sound(u)
  BY DEF StaffInv
<1>. QED  BY <1>1, <1>2 DEF RowAfter, Sound, Row, PasswordState

\* The heart of it: whoever loses control by a write was not the last one, or
\* the request had been overtaken.
LEMMA ControlSurvives ==
  ASSUME StaffInv, NEW u \in Member, Finish(u), NEW v \in Member, InControl(member[v])
  PROVE  superseded' \/ \E w \in Member : InControl(member'[w])
<1>. DEFINE d == deed[u]
            row == RowAfter(d.kind, d.to, member[d.target])
<1>1. /\ member \in [Member -> Row] /\ d.target \in Member /\ MayWrite(d)
      /\ member' = [member EXCEPT ![d.target] = row]
      /\ d.kind \in {"NAME", "ROLE", "ACTIVE", "RESET", "PASSWORD", "CREATE"}
  BY DEF StaffInv, StaffTypeOK, Finish, MayWrite
<1>2. superseded' \/ d.kind = "PASSWORD" \/ ~OvertakenBy(d, u)
  BY DEF Finish
<1>3. CASE v # d.target
  BY <1>1, <1>3
<1>4. CASE v = d.target /\ d.kind = "PASSWORD"
  BY <1>1, <1>4 DEF RowAfter, InControl, Row, StaffInv, Sound
<1>5. CASE v = d.target /\ d.kind = "CREATE"
  BY <1>1, <1>5 DEF MayWrite, InControl, StaffInv, ActiveAreListed
<1>6. CASE v = d.target /\ d.kind = "NAME" /\ ~OvertakenBy(d, u)
  <2>1. d.to = "ADMIN"
    BY <1>6 DEF OvertakenBy, InControl, StaffInv, Sound
  <2>. QED  BY <1>1, <1>6, <2>1 DEF RowAfter, InControl, Row
<1>7. CASE v = d.target /\ d.kind \in {"ROLE", "ACTIVE", "RESET"} /\ ~OvertakenBy(d, u)
  <2>1. d.was = "ADMIN"
    BY <1>7 DEF OvertakenBy, InControl
  <2>2. InControl(d.actor) /\ d.target # u
    BY <2>1, <1>7 DEF InControl, StaffInv, Sound
  <2>3. InControl(member[u])
    BY <2>2, <1>7 DEF OvertakenBy
  <2>. QED  BY <1>1, <2>2, <2>3
<1>. QED  BY <1>1, <1>2, <1>3, <1>4, <1>5, <1>6, <1>7

LEMMA FinishKeeps ==
  ASSUME StaffInv, NEW u \in Member, Finish(u)
  PROVE  StaffInv'
<1>. DEFINE d == deed[u]
            row == RowAfter(d.kind, d.to, member[d.target])
<1>1. /\ member \in [Member -> Row] /\ d.target \in Member /\ MayWrite(d)
      /\ member' = [member EXCEPT ![d.target] = row]
  BY DEF StaffInv, StaffTypeOK, Finish
<1>2. /\ row \in Row /\ (row.active => row.listed)
      /\ member[d.target].listed => row.listed
  BY <1>1, RowsAfter
<1>3. member' \in [Member -> Row] /\ \A w \in Member : member[w].listed => member'[w].listed
  BY <1>1, <1>2
<1>4. ActiveAreListed'
  BY <1>1, <1>2 DEF StaffInv, ActiveAreListed
<1>. DEFINE Holds(w) == deed[w].current /\ ~(w = d.target /\ d.kind \in {"RESET", "PASSWORD"})
            Deeds == [kind : {"NONE", "NAME", "ROLE", "ACTIVE", "RESET", "PASSWORD", "CREATE"},
                      target : Member, actor : Row, was : Role, current : BOOLEAN,
                      to : Role \cup PasswordState \cup {"ACTIVE", "SUSPENDED"}]
<1>5. deed' = [w \in Member |-> IF w = u THEN NoDeed(u)
                               ELSE [deed[w] EXCEPT !.current = Holds(w)]]
  BY DEF Finish
<1>. HIDE DEF Holds
<1>6. NotListed \in Row
  BY DEF NotListed, Row, Role, PasswordState
<1>7. StaffTypeOK'
  <2>1. deed' \in [Member -> Deeds]
    <3>1. NoDeed(u) \in Deeds
      BY <1>6 DEF NoDeed, Role
    <3>2. ASSUME NEW w \in Member PROVE [deed[w] EXCEPT !.current = Holds(w)] \in Deeds
      <4>1. deed[w] \in Deeds /\ Holds(w) \in BOOLEAN
        BY DEF StaffInv, StaffTypeOK, Holds
      <4>. HIDE DEF Holds
      <4>. QED  BY <4>1
    <3>. QED  BY <1>5, <3>1, <3>2
  <2>2. superseded' \in BOOLEAN /\ overridden' \in BOOLEAN
    BY DEF Finish, StaffInv, StaffTypeOK
  <2>. QED  BY <1>3, <2>1, <2>2 DEF StaffTypeOK
<1>8. \A w \in Member : Sound(w)'
  <2>. SUFFICES ASSUME NEW w \in Member PROVE Sound(w)'
    OBVIOUS
  <2>1. CASE w = u
    BY <1>5, <2>1 DEF Sound, NoDeed
  <2>2. CASE w # u
    <3>1. /\ deed'[w].kind = deed[w].kind /\ deed'[w].target = deed[w].target
          /\ deed'[w].to = deed[w].to /\ deed'[w].actor = deed[w].actor
          /\ deed'[w].was = deed[w].was /\ deed[w].target \in Member
      <4>1. deed[w] \in Deeds
        BY DEF StaffInv, StaffTypeOK
      <4>2. deed'[w] = [deed[w] EXCEPT !.current = Holds(w)]
        BY <1>5, <2>2
      <4>. QED  BY <4>1, <4>2
    <3>. QED  BY <3>1, <1>3 DEF StaffInv, Sound
  <2>. QED  BY <2>1, <2>2
<1>9. ~overridden'
  BY <1>1 DEF Finish, MayWrite, StaffInv, ControlStays
<1>10. AnAdminRemains'
  BY ControlSurvives DEF StaffInv, ControlStays, AnAdminRemains, Finish
<1>. QED  BY <1>4, <1>7, <1>8, <1>9, <1>10 DEF StaffInv, ControlStays
-----------------------------------------------------------------------------
LEMMA StaffStep == StaffInv /\ [StaffNext]_staffVars => StaffInv'
<1>. SUFFICES ASSUME StaffInv, [StaffNext]_staffVars PROVE StaffInv'
  OBVIOUS
<1>1. CASE UNCHANGED staffVars
  BY <1>1 DEF staffVars, StaffInv, StaffTypeOK, ActiveAreListed, Sound, ControlStays, AnAdminRemains
<1>2. CASE StaffNext
  BY <1>2, SessionsKeep, StaffBeginsKeep, FinishKeeps, GiveUpKeeps DEF StaffNext
<1>. QED  BY <1>1, <1>2

\* However the requests of the members of staff interleave, somebody stays in
\* control of the staff list, unless a request had been overtaken between its
\* checks and its write; and no change of password undoes one that staff issued
\* (admin-user-actions.ts).
THEOREM ControlIsKept == StaffSpec => []ControlStays
<1>1. StaffInv => ControlStays
  BY DEF StaffInv
<1>. QED  BY StaffStarts, StaffStep, <1>1, PTL DEF StaffSpec
-----------------------------------------------------------------------------
(* The tabs of a session. *)

\* What SessionsTypeOK says of a tab and of an event.
TabRow == [until : Expiries, lag : Expiries, by : {"NOBODY", "ANSWER", "EVENT"},
           left : BOOLEAN, leaving : BOOLEAN]
Event == [to : Tab, type : {"TOUCHED", "REVOKED"}, until : Expiries]

\* An answer is on its way; the tab will commit it, and it names an expiry.
Pending(request) == request.phase = "ANSWERED"
Stands(request) == Pending(request) /\ request.latest /\ request.until > 0

\* The expiry that a touch at a tick gives the session.
Capped(tick) == IF tick + IdleTicks < Lifetime THEN tick + IdleTicks ELSE Lifetime

\* Nobody was told of a later end than the session has, unless it is gone.
NobodyToldMore ==
  session # 0 =>
    /\ \A t \in Tab :
         tab[t].until <= session /\ asked[t].until <= session /\ touched[t].until <= session
    /\ \A e \in news : e.until <= session

\* A refusal was given after the session's end, and the end is final.
RefusalsAreFinal ==
  \A t \in Tab : \A request \in {asked[t], touched[t]} :
    Pending(request) => request.at <= clock /\ (request.until = 0 => ~Honoured)

\* A tab that touched knows the session, waits for no status that counts, and
\* will hear of the prolongation its touch made.
TouchesAreKnown ==
  \A t \in Tab : Pending(touched[t]) =>
    /\ Knows(t)
    /\ touched[t].until \in {0, Capped(touched[t].at)}
    /\ ~Stands(asked[t])

\* A status that counts is no older than the answer before it.
StatusIsNewer ==
  \A t \in Tab : session # 0 /\ Stands(asked[t]) /\ tab[t].by = "ANSWER" =>
    tab[t].until <= asked[t].until

\* Word of the session's end has still to reach a tab, or was lost on the way.
WordUnderWay(t) ==
  \/ t \in missed
  \/ \E u \in Tab : Pending(touched[u]) /\ session <= touched[u].until
  \/ \E e \in news : e.to = t /\ e.type = "TOUCHED" /\ session <= e.until

\* A tab waits for the session's end, by its own clock, or word is under way.
TabsKnowTheEnd ==
  \A t \in Tab : Knows(t) => session <= tab[t].until + tab[t].lag \/ WordUnderWay(t)

\* So will it once a status has come; what a tab heard of another one's touch is
\* then overruled, and counted as missed.
StatusKnowsTheEnd ==
  \A t \in Tab : Stands(asked[t]) =>
    \/ session <= asked[t].until
    \/ tab[t].by = "EVENT" /\ session <= tab[t].until
    \/ WordUnderWay(t)

\* Nobody leaves, and nobody is told to, while the session lasts.
NoFalseAlarm ==
  (\E t \in Tab : tab[t].left) \/ (\E e \in news : e.type = "REVOKED") =>
    (Honoured => excused)

\* The inductive invariant of the tabs.
TabsInv ==
  /\ SessionsTypeOK
  /\ session <= Capped(clock)
  /\ NobodyToldMore /\ RefusalsAreFinal /\ TouchesAreKnown /\ StatusIsNewer
  /\ TabsKnowTheEnd /\ StatusKnowsTheEnd /\ NoFalseAlarm

LEMMA Caps ==
  /\ \A tick \in Nat : Capped(tick) \in Expiries \ {0}
  /\ \A a, b \in Nat : a <= b => Capped(a) <= Capped(b) /\ Capped(b) <= Capped(a) + (b - a)
  /\ Prolonged = Capped(clock)
BY SessionConstants DEF Capped, Prolonged, Expiries

LEMMA SessionRows ==
  /\ Fresh \in TabRow /\ NoRequest \in Request
  /\ Fresh.until = 0 /\ Fresh.lag = 0 /\ Fresh.by = "NOBODY" /\ ~Fresh.left /\ ~Fresh.leaving
  /\ NoRequest.phase = "NONE" /\ NoRequest.until = 0
BY SessionConstants DEF Fresh, NoRequest, TabRow, Request, Expiries

LEMMA SessionTypes ==
  ASSUME SessionsTypeOK
  PROVE  /\ clock \in Nat /\ session \in Nat /\ session \in Expiries /\ Expiries \subseteq Nat
         /\ tab \in [Tab -> TabRow] /\ asked \in [Tab -> Request] /\ touched \in [Tab -> Request]
         /\ \A t \in Tab : /\ tab[t].until \in Expiries /\ tab[t].lag \in Expiries
                           /\ asked[t].until \in Expiries /\ asked[t].at \in Expiries
                           /\ touched[t].until \in Expiries /\ touched[t].at \in Expiries
         /\ news \subseteq Event /\ \A e \in news : e.to \in Tab /\ e.until \in Expiries
BY DEF SessionsTypeOK, TabRow, Request, Event, Expiries

LEMMA TabsStart == SessionsInit => TabsInv
<1>. SUFFICES ASSUME SessionsInit PROVE TabsInv
  OBVIOUS
<1>1. /\ clock = 0 /\ session = IdleTicks /\ news = {} /\ missed = {} /\ excused = FALSE
      /\ tab \in [Tab -> TabRow] /\ asked \in [Tab -> Request] /\ touched \in [Tab -> Request]
      /\ \A t \in Tab : tab[t] = Fresh /\ asked[t] = NoRequest /\ touched[t] = NoRequest
  BY SessionRows DEF SessionsInit
<1>2. SessionsTypeOK
  <2>1. clock \in 0..Lifetime /\ session \in Expiries
    BY <1>1, SessionConstants DEF Expiries
  <2>. QED  BY <1>1, <2>1 DEF SessionsTypeOK, TabRow
<1>3. session <= Capped(clock)
  BY <1>1, SessionConstants DEF Capped
<1>4. NobodyToldMore
  BY <1>1, SessionRows, SessionConstants DEF NobodyToldMore
<1>5. RefusalsAreFinal /\ TouchesAreKnown /\ StatusIsNewer /\ StatusKnowsTheEnd
  BY <1>1, SessionRows
  DEF RefusalsAreFinal, TouchesAreKnown, StatusIsNewer, StatusKnowsTheEnd, Pending, Stands
<1>6. TabsKnowTheEnd /\ NoFalseAlarm
  BY <1>1, SessionRows DEF TabsKnowTheEnd, NoFalseAlarm, Knows
<1>. QED  BY <1>2, <1>3, <1>4, <1>5, <1>6 DEF TabsInv

\* One tab changes, and nothing at the server: what is left to show.
LEMMA OneTabChanges ==
  ASSUME TabsInv, NEW t \in Tab, NEW row \in TabRow,
         NEW status \in {asked[t], NoRequest}, NEW touch \in {touched[t], NoRequest},
         tab' = [tab EXCEPT ![t] = row],
         asked' = [asked EXCEPT ![t] = status], touched' = [touched EXCEPT ![t] = touch],
         UNCHANGED <<clock, session>>,
         news' \subseteq Event, missed' \subseteq Tab, excused' \in BOOLEAN,
         excused => excused',
         session # 0 => row.until <= session /\ \A e \in news' : e.until <= session,
         Pending(touch) => row.by # "NOBODY",
         session # 0 /\ Stands(status) /\ row.by = "ANSWER" => row.until <= status.until,
         \A u \in Tab \ {t} : WordUnderWay(u) => WordUnderWay(u)',
         row.by # "NOBODY" => session <= row.until + row.lag \/ WordUnderWay(t)',
         Stands(status) => \/ session <= status.until
                           \/ row.by = "EVENT" /\ session <= row.until
                           \/ WordUnderWay(t)',
         row.left \/ (\E e \in news' : e.type = "REVOKED" /\ e \notin news) =>
           tab[t].left \/ (Honoured => excused')
  PROVE  TabsInv'
<1>1. /\ tab \in [Tab -> TabRow] /\ asked \in [Tab -> Request] /\ touched \in [Tab -> Request]
      /\ SessionsTypeOK /\ status \in Request /\ touch \in Request
  BY SessionTypes, SessionRows DEF TabsInv
<1>2. \A u \in Tab : /\ tab'[u] = IF u = t THEN row ELSE tab[u]
                     /\ asked'[u] = IF u = t THEN status ELSE asked[u]
                     /\ touched'[u] = IF u = t THEN touch ELSE touched[u]
  BY <1>1
<1>3. SessionsTypeOK'
  <2>1. tab' \in [Tab -> TabRow] /\ asked' \in [Tab -> Request] /\ touched' \in [Tab -> Request]
    BY <1>1
  <2>. QED  BY <1>1, <2>1 DEF SessionsTypeOK, TabRow, Event
<1>4. session' <= Capped(clock')
  BY DEF TabsInv
<1>5. NobodyToldMore'
  BY <1>2, SessionRows, SessionTypes, <1>1 DEF TabsInv, NobodyToldMore, Expiries
<1>6. RefusalsAreFinal'
  BY <1>2, SessionRows DEF TabsInv, RefusalsAreFinal, Pending, Honoured
<1>7. TouchesAreKnown'
  BY <1>2, SessionRows DEF TabsInv, TouchesAreKnown, Pending, Stands, Knows
<1>8. StatusIsNewer'
  BY <1>2 DEF TabsInv, StatusIsNewer, Stands, Pending
<1>9. TabsKnowTheEnd'
  BY <1>2 DEF TabsInv, TabsKnowTheEnd, Knows
<1>10. StatusKnowsTheEnd'
  BY <1>2 DEF TabsInv, StatusKnowsTheEnd, Stands, Pending
<1>11. NoFalseAlarm'
  BY <1>2 DEF TabsInv, NoFalseAlarm, Honoured
<1>. QED  BY <1>3, <1>4, <1>5, <1>6, <1>7, <1>8, <1>9, <1>10, <1>11 DEF TabsInv

\* Events that are told say when the session ends, or that it is over.
LEMMA ToldEvents ==
  ASSUME NEW t \in Tab, NEW type \in {"TOUCHED", "REVOKED"}, NEW until \in Expiries
  PROVE  /\ TellOthers(t, type, until) \subseteq Event
         /\ \A e \in TellOthers(t, type, until) : e.type = type /\ e.until = until /\ e.to # t
         /\ Knows(t) => \A u \in Tab \ {t} :
              \E e \in TellOthers(t, type, until) : e.to = u /\ e.type = type /\ e.until = until
<1>. DEFINE told(u) == [to |-> u, type |-> type, until |-> until]
<1>1. \A u \in Tab : told(u) \in Event /\ told(u).type = type /\ told(u).until = until
                    /\ told(u).to = u
  BY DEF Event
<1>2. TellOthers(t, type, until) = {told(u) : u \in IF Knows(t) THEN Tab \ {t} ELSE {}}
  BY DEF TellOthers
<1>. HIDE DEF told
<1>. QED  BY <1>1, <1>2

\* A tab leaves: no word is lost that the others are not said to have missed.
LEMMA LeavesKeeps ==
  ASSUME TabsInv, NEW t \in Tab, NEW leaving \in BOOLEAN,
         NEW events \in {news, news \cup TellOthers(t, "REVOKED", 0)},
         Leaves(t, events, leaving), UNCHANGED <<clock, session>>,
         excused' \in BOOLEAN, excused => excused', Honoured => excused'
  PROVE  TabsInv'
<1>. DEFINE row == [Fresh EXCEPT !.left = TRUE, !.leaving = leaving]
<1>1. /\ tab' = [tab EXCEPT ![t] = row] /\ asked' = [asked EXCEPT ![t] = NoRequest]
      /\ touched' = [touched EXCEPT ![t] = NoRequest]
      /\ missed' = (IF touched[t].phase = "ANSWERED" THEN Tab ELSE missed)
      /\ news' = {e \in events : e.to # t}
  BY DEF Leaves
<1>2. row \in TabRow /\ row.until = 0 /\ row.by = "NOBODY" /\ row.left
  BY SessionRows DEF TabRow, Fresh
<1>. HIDE DEF row
<1>3. 0 \in Expiries
  BY SessionConstants DEF Expiries
<1>4. /\ news \subseteq Event /\ missed \subseteq Tab /\ session \in Nat
      /\ events \subseteq Event /\ \A e \in events \ news : e.until = 0
  BY <1>3, SessionTypes, ToldEvents DEF TabsInv, SessionsTypeOK
<1>5. session # 0 => row.until <= session /\ \A e \in news' : e.until <= session
  BY <1>1, <1>2, <1>4 DEF TabsInv, NobodyToldMore
<1>6. touched \in [Tab -> Request]
  BY SessionTypes DEF TabsInv
<1>7. ASSUME NEW u \in Tab \ {t}, WordUnderWay(u) PROVE WordUnderWay(u)'
  <2>1. missed \subseteq missed'
    BY <1>1, <1>4
  <2>2. CASE \E e \in news : e.to = u /\ e.type = "TOUCHED" /\ session <= e.until
    BY <1>1, <2>2 DEF WordUnderWay
  <2>3. CASE \E w \in Tab : Pending(touched[w]) /\ session <= touched[w].until
    <3>1. PICK w \in Tab : Pending(touched[w]) /\ session <= touched[w].until
      BY <2>3
    <3>2. CASE w = t
      BY <1>1, <3>1, <3>2 DEF WordUnderWay, Pending
    <3>3. CASE w # t
      BY <1>1, <1>6, <3>1, <3>3 DEF WordUnderWay
    <3>. QED  BY <3>2, <3>3
  <2>. QED  BY <1>7, <2>1, <2>2, <2>3 DEF WordUnderWay
<1>8. ~Pending(NoRequest) /\ ~Stands(NoRequest)
  BY SessionRows DEF Pending, Stands
<1>. QED  BY <1>1, <1>2, <1>4, <1>5, <1>7, <1>8, OneTabChanges

LEMMA RefusedKeeps ==
  ASSUME TabsInv, NEW t \in Tab, Refused(t)
  PROVE  TabsInv'
<1>1. ~Honoured
  BY DEF Refused, TabsInv, RefusalsAreFinal, Pending
<1>2. excused \in BOOLEAN
  BY DEF TabsInv, SessionsTypeOK
<1>. QED  BY <1>1, <1>2, LeavesKeeps DEF Refused

LEMMA SignOutKeeps ==
  ASSUME TabsInv, NEW t \in Tab, SignOut(t)
  PROVE  TabsInv'
BY LeavesKeeps DEF SignOut

\* The timer of a tab that has heard everything ends with the session, however
\* late the last answer was.
LEMMA TickKeeps ==
  ASSUME TabsInv, NEW t \in Tab, Tick(t)
  PROVE  TabsInv'
<1>1. excused \in BOOLEAN /\ Unheard(t) \in BOOLEAN
  BY DEF TabsInv, SessionsTypeOK, Unheard
<1>2. Honoured => Unheard(t)
  <2>. SUFFICES ASSUME session <= tab[t].until + tab[t].lag \/ WordUnderWay(t), Honoured
                PROVE  Unheard(t)
    BY DEF TabsInv, TabsKnowTheEnd, Tick
  <2>1. /\ clock \in Nat /\ session \in Nat /\ tab[t].until \in Nat /\ tab[t].lag \in Nat
        /\ \A u \in Tab : touched[u].until \in Nat
        /\ \A e \in news : e.until \in Nat
    BY SessionTypes DEF TabsInv
  <2>2. tab[t].until + tab[t].lag <= clock /\ clock < session
    BY <2>1 DEF Tick, TabTime, Honoured
  <2>3. WordUnderWay(t) /\ tab[t].until < session
    BY <2>1, <2>2
  <2>. QED  BY <2>1, <2>3 DEF WordUnderWay, Unheard, Pending
<1>. QED  BY <1>1, <1>2, LeavesKeeps DEF Tick

LEMMA HearRevokedKeeps ==
  ASSUME TabsInv, NEW e \in news, HearRevoked(e)
  PROVE  TabsInv'
<1>1. e.to \in Tab /\ excused \in BOOLEAN /\ (Honoured => excused)
  BY SessionTypes DEF TabsInv, NoFalseAlarm, HearRevoked, SessionsTypeOK
<1>. QED  BY <1>1, LeavesKeeps DEF HearRevoked

\* A tab hears of a touch: what it knows grows, or it finds the session over
\* while this very event was still under way.
LEMMA HearTouchedKeeps ==
  ASSUME TabsInv, NEW e \in news, HearTouched(e)
  PROVE  TabsInv'
<1>. DEFINE t == e.to
<1>1. t \in Tab /\ e.type = "TOUCHED" /\ Knows(t) /\ e.until > tab[t].until
      /\ UNCHANGED <<clock, session>>
  BY SessionTypes DEF TabsInv, HearTouched
<1>2. CASE Leaves(t, news \cup TellOthers(t, "REVOKED", 0), FALSE)
           /\ excused' = (excused \/ Unheard(t))
  <2>1. Unheard(t)
    BY <1>1 DEF Unheard
  <2>. QED  BY <1>1, <1>2, <2>1, LeavesKeeps
<1>3. CASE /\ tab' = [tab EXCEPT ![t].until = e.until, ![t].by = "EVENT"]
           /\ news' = news \ {e}
           /\ UNCHANGED <<asked, touched, missed, excused>>
  <2>. DEFINE row == [tab[t] EXCEPT !.until = e.until, !.by = "EVENT"]
  <2>1. /\ tab \in [Tab -> TabRow] /\ asked \in [Tab -> Request] /\ touched \in [Tab -> Request]
        /\ news \subseteq Event /\ missed \subseteq Tab /\ session \in Nat /\ excused \in BOOLEAN
        /\ e.until \in Expiries /\ Expiries \subseteq Nat /\ tab[t].until \in Nat
    BY <1>1, SessionTypes DEF TabsInv, SessionsTypeOK
  <2>2. /\ row \in TabRow /\ row.until = e.until /\ row.by = "EVENT" /\ row.lag = tab[t].lag
        /\ row.left = tab[t].left /\ tab' = [tab EXCEPT ![t] = row] /\ row.lag \in Nat
    <3>1. tab[t] \in TabRow
      BY <1>1, <2>1
    <3>2. tab' = [tab EXCEPT ![t] = row]
      BY <1>3
    <3>. QED  BY <2>1, <3>1, <3>2 DEF TabRow
  <2>3. asked' = [asked EXCEPT ![t] = asked[t]] /\ touched' = [touched EXCEPT ![t] = touched[t]]
    BY <1>1, <1>3, <2>1
  <2>. HIDE DEF row
  <2>4. session # 0 => row.until <= session /\ \A f \in news' : f.until <= session
    BY <1>3, <2>2 DEF TabsInv, NobodyToldMore
  <2>5. \A u \in Tab \ {t} : WordUnderWay(u) => WordUnderWay(u)'
    BY <1>1, <1>3 DEF WordUnderWay
  <2>6. WordUnderWay(t) => WordUnderWay(t)' \/ session <= e.until
    BY <1>1, <1>3, <2>1 DEF WordUnderWay, Pending
  <2>7. session <= row.until + row.lag \/ WordUnderWay(t)'
    <3>1. session <= tab[t].until + tab[t].lag \/ WordUnderWay(t)
      BY <1>1 DEF TabsInv, TabsKnowTheEnd
    <3>2. e.until \in Nat /\ tab[t].lag \in Nat
      BY <2>1, <2>2
    <3>. QED  BY <1>1, <2>1, <2>2, <2>6, <3>1, <3>2
  <2>8. Stands(asked[t]) => \/ session <= asked[t].until
                            \/ row.by = "EVENT" /\ session <= row.until
                            \/ WordUnderWay(t)'
    <3>1. Stands(asked[t]) => \/ session <= asked[t].until
                              \/ session <= tab[t].until
                              \/ WordUnderWay(t)
      BY <1>1 DEF TabsInv, StatusKnowsTheEnd
    <3>2. e.until \in Nat
      BY <2>1
    <3>. QED  BY <1>1, <2>1, <2>2, <2>6, <3>1, <3>2
  <2>9. row.left \/ (\E f \in news' : f.type = "REVOKED" /\ f \notin news) => tab[t].left
    BY <1>3, <2>2
  <2>10. news' \subseteq Event /\ missed' \subseteq Tab /\ excused' = excused
    BY <1>3, <2>1
  <2>. QED  BY <1>1, <2>1, <2>2, <2>3, <2>4, <2>5, <2>7, <2>8, <2>9, <2>10, OneTabChanges
<1>. QED  BY <1>1, <1>2, <1>3 DEF HearTouched

\* What a tab does not know the session by, it misses; what it knows better
\* already, it need not hear.
LEMMA HearNothingKeeps ==
  ASSUME TabsInv, NEW e \in news, HearNothing(e)
  PROVE  TabsInv'
<1>. DEFINE t == e.to
<1>1. /\ t \in Tab /\ tab \in [Tab -> TabRow] /\ asked \in [Tab -> Request]
      /\ touched \in [Tab -> Request] /\ news \subseteq Event /\ missed \subseteq Tab
      /\ session \in Nat /\ excused \in BOOLEAN /\ e.until \in Nat
      /\ tab[t].until \in Nat /\ tab[t].lag \in Nat /\ asked[t].until \in Nat
      /\ tab[t].by \in {"NOBODY", "ANSWER", "EVENT"}
  BY SessionTypes DEF TabsInv, SessionsTypeOK, TabRow
<1>2. /\ news' = news \ {e} /\ UNCHANGED <<clock, session, tab, asked, touched, excused>>
      /\ missed \subseteq missed' /\ missed' \subseteq Tab
      /\ ~Knows(t) \/ (e.type = "TOUCHED" /\ e.until <= tab[t].until)
      /\ ~Knows(t) /\ e.type = "TOUCHED" => t \in missed'
  BY <1>1 DEF HearNothing
<1>3. /\ tab' = [tab EXCEPT ![t] = tab[t]] /\ asked' = [asked EXCEPT ![t] = asked[t]]
      /\ touched' = [touched EXCEPT ![t] = touched[t]]
  BY <1>1, <1>2
<1>4. session # 0 => tab[t].until <= session /\ \A f \in news' : f.until <= session
  BY <1>1, <1>2 DEF TabsInv, NobodyToldMore
<1>5. \A u \in Tab \ {t} : WordUnderWay(u) => WordUnderWay(u)'
  BY <1>2 DEF WordUnderWay
<1>6. WordUnderWay(t) => WordUnderWay(t)' \/ (Knows(t) /\ session <= tab[t].until)
  BY <1>1, <1>2 DEF WordUnderWay
<1>7. tab[t].by # "NOBODY" => session <= tab[t].until + tab[t].lag \/ WordUnderWay(t)'
  BY <1>1, <1>6 DEF TabsInv, TabsKnowTheEnd, Knows
<1>8. Stands(asked[t]) => \/ session <= asked[t].until
                          \/ tab[t].by = "EVENT" /\ session <= tab[t].until
                          \/ WordUnderWay(t)'
  BY <1>1, <1>6 DEF TabsInv, StatusKnowsTheEnd, StatusIsNewer, Knows
<1>9. Pending(touched[t]) => tab[t].by # "NOBODY"
  BY <1>1 DEF TabsInv, TouchesAreKnown, Knows
<1>10. session # 0 /\ Stands(asked[t]) /\ tab[t].by = "ANSWER" => tab[t].until <= asked[t].until
  BY <1>1 DEF TabsInv, StatusIsNewer
<1>11. tab[t] \in TabRow
  BY <1>1
<1>12. tab[t].left \/ (\E f \in news' : f.type = "REVOKED" /\ f \notin news) => tab[t].left
  BY <1>2
<1>. QED  BY <1>1, <1>2, <1>3, <1>4, <1>5, <1>7, <1>8, <1>9, <1>10, <1>11, <1>12, OneTabChanges

\* What the invariant says of one tab, in the words of OneTabChanges.
LEMMA TabFacts ==
  ASSUME TabsInv, NEW t \in Tab
  PROVE  /\ tab \in [Tab -> TabRow] /\ asked \in [Tab -> Request] /\ touched \in [Tab -> Request]
         /\ tab[t] \in TabRow /\ asked[t] \in Request /\ touched[t] \in Request
         /\ news \subseteq Event /\ missed \subseteq Tab /\ excused \in BOOLEAN
         /\ clock \in Nat /\ session \in Nat /\ tab[t].until \in Nat /\ tab[t].lag \in Nat
         /\ asked[t].until \in Nat /\ asked[t].at \in Nat
         /\ touched[t].until \in Nat /\ touched[t].at \in Nat
         /\ session # 0 => /\ tab[t].until <= session /\ asked[t].until <= session
                           /\ touched[t].until <= session
                           /\ \A e \in news : e.until <= session
         /\ Pending(touched[t]) => tab[t].by # "NOBODY" /\ ~Stands(asked[t])
         /\ session # 0 /\ Stands(asked[t]) /\ tab[t].by = "ANSWER" =>
              tab[t].until <= asked[t].until
         /\ tab[t].by # "NOBODY" => session <= tab[t].until + tab[t].lag \/ WordUnderWay(t)
         /\ Stands(asked[t]) => \/ session <= asked[t].until
                                \/ tab[t].by = "EVENT" /\ session <= tab[t].until
                                \/ WordUnderWay(t)
<1>1. SessionsTypeOK
  BY DEF TabsInv
<1>2. missed \subseteq Tab /\ excused \in BOOLEAN
  BY <1>1 DEF SessionsTypeOK
<1>3. session # 0 => /\ tab[t].until <= session /\ asked[t].until <= session
                     /\ touched[t].until <= session
                     /\ \A e \in news : e.until <= session
  BY DEF TabsInv, NobodyToldMore
<1>4. /\ Pending(touched[t]) => tab[t].by # "NOBODY" /\ ~Stands(asked[t])
      /\ session # 0 /\ Stands(asked[t]) /\ tab[t].by = "ANSWER" =>
           tab[t].until <= asked[t].until
  BY DEF TabsInv, TouchesAreKnown, StatusIsNewer, Knows
<1>5. tab[t].by # "NOBODY" => session <= tab[t].until + tab[t].lag \/ WordUnderWay(t)
  BY DEF TabsInv, TabsKnowTheEnd, Knows
<1>6. Stands(asked[t]) => \/ session <= asked[t].until
                          \/ tab[t].by = "EVENT" /\ session <= tab[t].until
                          \/ WordUnderWay(t)
  BY DEF TabsInv, StatusKnowsTheEnd
<1>. QED  BY <1>1, <1>2, <1>3, <1>4, <1>5, <1>6, SessionTypes

\* An answer is committed: the tab then knows the session as the answer told it,
\* with a clock that runs late by the answer's delay.
LEMMA CommitRow ==
  ASSUME TabsInv, NEW t \in Tab, NEW answer \in {asked[t], touched[t]}, Pending(answer)
  PROVE  \E row \in TabRow :
           /\ Commits(t, answer) <=> tab' = [tab EXCEPT ![t] = row]
           /\ row.until = answer.until /\ row.lag = clock - answer.at /\ row.by = "ANSWER"
           /\ row.left = tab[t].left /\ row.lag \in Nat
<1>. DEFINE row == [tab[t] EXCEPT !.until = answer.until, !.lag = clock - answer.at,
                                  !.by = "ANSWER"]
<1>1. answer.at <= clock
  BY DEF TabsInv, RefusalsAreFinal
<1>2. clock - answer.at \in Expiries /\ answer.until \in Expiries
  <2>1. clock \in 0..Lifetime /\ answer.at \in Nat /\ answer.until \in Expiries
    BY SessionTypes DEF TabsInv, SessionsTypeOK, Expiries
  <2>. QED  BY <1>1, <2>1, SessionConstants DEF Expiries
<1>3. tab[t] \in TabRow
  BY TabFacts
<1>4. row \in TabRow
  BY <1>2, <1>3 DEF TabRow
<1>5. Commits(t, answer) <=> tab' = [tab EXCEPT ![t] = row]
  BY DEF Commits
<1>6. /\ row.until = answer.until /\ row.lag = clock - answer.at /\ row.by = "ANSWER"
      /\ row.left = tab[t].left /\ row.lag \in Nat
  BY <1>2, <1>3 DEF TabRow, Expiries
<1>. QED  BY <1>4, <1>5, <1>6

LEMMA ReceiveStatusKeeps ==
  ASSUME TabsInv, NEW t \in Tab, ReceiveStatus(t)
  PROVE  TabsInv'
<1>. DEFINE answer == asked[t]
<1>1. /\ Pending(answer) /\ answer.until > 0 /\ asked' = [asked EXCEPT ![t] = NoRequest]
      /\ UNCHANGED <<clock, session, touched, news, excused>>
  BY DEF ReceiveStatus, Pending
<1>2. touched' = [touched EXCEPT ![t] = touched[t]] /\ ~Stands(NoRequest)
  BY <1>1, TabFacts, SessionRows DEF Stands, Pending
<1>3. CASE answer.latest /\ touched[t].phase = "NONE"
  <2>1. /\ Commits(t, answer)
        /\ missed' = IF tab[t].by = "EVENT" /\ answer.until < tab[t].until
                       THEN missed \cup {t} ELSE missed
    BY <1>3 DEF ReceiveStatus
  <2>2. PICK row \in TabRow :
          /\ tab' = [tab EXCEPT ![t] = row]
          /\ row.until = answer.until /\ row.lag \in Nat /\ row.by = "ANSWER"
          /\ row.left = tab[t].left
    BY <1>1, <2>1, CommitRow
  <2>3. missed \subseteq missed' /\ missed' \subseteq Tab
    BY <2>1, TabFacts
  <2>4. \A u \in Tab : WordUnderWay(u) => WordUnderWay(u)'
    BY <1>1, <2>3 DEF WordUnderWay, Pending
  <2>5. Stands(answer)
    BY <1>1, <1>3 DEF Stands
  <2>6. session <= row.until + row.lag \/ WordUnderWay(t)'
    <3>1. CASE session <= answer.until
      BY <2>2, <3>1, TabFacts
    <3>2. CASE tab[t].by = "EVENT" /\ session <= tab[t].until /\ ~(session <= answer.until)
      <4>1. answer.until < tab[t].until
        BY <3>2, TabFacts
      <4>. QED  BY <2>1, <3>2, <4>1 DEF WordUnderWay
    <3>3. CASE WordUnderWay(t)
      BY <2>4, <3>3
    <3>. QED  BY <2>5, <3>1, <3>2, <3>3, TabFacts
  <2>7. session # 0 => row.until <= session /\ \A e \in news' : e.until <= session
    BY <1>1, <2>2, TabFacts
  <2>8. news' = news /\ excused' = excused /\ news \subseteq Event /\ excused \in BOOLEAN
    BY <1>1, TabFacts
  <2>9. row.left \/ (\E e \in news' : e.type = "REVOKED" /\ e \notin news) => tab[t].left
    BY <2>2, <2>8
  <2>10. news' \subseteq Event /\ excused' \in BOOLEAN
    BY <2>8
  <2>11. UNCHANGED <<clock, session>> /\ asked' = [asked EXCEPT ![t] = NoRequest]
    BY <1>1
  <2>. QED  BY <1>2, <2>2, <2>3, <2>4, <2>6, <2>7, <2>8, <2>9, <2>10, <2>11, OneTabChanges
<1>4. CASE ~(answer.latest /\ touched[t].phase = "NONE")
  <2>1. UNCHANGED <<tab, missed>>
    BY <1>4 DEF ReceiveStatus
  <2>2. tab' = [tab EXCEPT ![t] = tab[t]]
    BY <2>1, TabFacts
  <2>3. \A u \in Tab : WordUnderWay(u) => WordUnderWay(u)'
    BY <1>1, <2>1 DEF WordUnderWay, Pending
  <2>. QED  BY <1>1, <1>2, <2>1, <2>2, <2>3, TabFacts, OneTabChanges
<1>. QED  BY <1>3, <1>4

\* The answer to a tab's own touch: the session may have been touched since, but
\* by no more than the answer was on its way, and so much the tab's clock is late.
LEMMA ReceiveTouchKeeps ==
  ASSUME TabsInv, NEW t \in Tab, ReceiveTouch(t)
  PROVE  TabsInv'
<1>. DEFINE answer == touched[t]
            told == TellOthers(t, "TOUCHED", answer.until)
<1>1. /\ Pending(answer) /\ answer.until > 0 /\ touched' = [touched EXCEPT ![t] = NoRequest]
      /\ Commits(t, answer) /\ news' = news \cup told
      /\ UNCHANGED <<clock, session, asked, missed, excused>>
  BY DEF ReceiveTouch, Pending
<1>2. asked' = [asked EXCEPT ![t] = asked[t]] /\ ~Pending(NoRequest)
  BY <1>1, TabFacts, SessionRows DEF Pending
<1>3. PICK row \in TabRow :
        /\ tab' = [tab EXCEPT ![t] = row]
        /\ row.until = answer.until /\ row.lag = clock - answer.at /\ row.by = "ANSWER"
        /\ row.left = tab[t].left
  BY <1>1, CommitRow
<1>4. answer.until \in Expiries
  BY SessionTypes DEF TabsInv
<1>5. /\ told \subseteq Event /\ \A e \in told : e.type = "TOUCHED" /\ e.until = answer.until
      /\ \A u \in Tab \ {t} : \E e \in told : e.to = u /\ e.type = "TOUCHED"
                                              /\ e.until = answer.until
  BY <1>1, <1>4, ToldEvents, TabFacts DEF Knows
<1>. HIDE DEF told
<1>6. session <= row.until + row.lag
  <2>1. answer.until = Capped(answer.at) /\ answer.at <= clock /\ session <= Capped(clock)
    BY <1>1 DEF TabsInv, TouchesAreKnown, RefusalsAreFinal
  <2>2. Capped(clock) <= Capped(answer.at) + (clock - answer.at)
    BY <2>1, Caps, TabFacts
  <2>3. Capped(clock) \in Nat /\ Capped(answer.at) \in Nat
    BY Caps, TabFacts DEF Expiries
  <2>. QED  BY <1>3, <2>1, <2>2, <2>3, TabFacts
<1>7. ASSUME NEW u \in Tab \ {t}, WordUnderWay(u) PROVE WordUnderWay(u)'
  <2>1. CASE u \in missed \/ \E e \in news : e.to = u /\ e.type = "TOUCHED" /\ session <= e.until
    BY <1>1, <2>1 DEF WordUnderWay
  <2>2. CASE \E w \in Tab : Pending(touched[w]) /\ session <= touched[w].until
    <3>1. PICK w \in Tab : Pending(touched[w]) /\ session <= touched[w].until
      BY <2>2
    <3>2. CASE w = t
      BY <1>1, <1>5, <3>1, <3>2 DEF WordUnderWay
    <3>3. touched \in [Tab -> Request]
      BY TabFacts
    <3>4. CASE w # t
      BY <1>1, <3>1, <3>3, <3>4 DEF WordUnderWay
    <3>. QED  BY <3>2, <3>4
  <2>. QED  BY <1>7, <2>1, <2>2 DEF WordUnderWay
<1>8. session # 0 => row.until <= session /\ \A e \in news' : e.until <= session
  BY <1>1, <1>3, <1>5, TabFacts
<1>9. ~Stands(asked[t])
  BY <1>1, TabFacts
<1>10. ~ \E e \in news' : e.type = "REVOKED" /\ e \notin news
  BY <1>1, <1>5
<1>11. news' \subseteq Event /\ missed' \subseteq Tab /\ excused' \in BOOLEAN /\ excused' = excused
  BY <1>1, <1>5, TabFacts
<1>12. UNCHANGED <<clock, session>> /\ touched' = [touched EXCEPT ![t] = NoRequest]
  BY <1>1
<1>. QED  BY <1>2, <1>3, <1>6, <1>7, <1>8, <1>9, <1>10, <1>11, <1>12, OneTabChanges

LEMMA LossesKeep ==
  ASSUME TabsInv, NEW t \in Tab, StatusLost(t) \/ TouchLost(t)
  PROVE  TabsInv'
<1>1. /\ UNCHANGED <<clock, session, tab, news, excused>>
      /\ tab' = [tab EXCEPT ![t] = tab[t]] /\ missed' \in {missed, Tab}
      /\ \/ /\ asked' = [asked EXCEPT ![t] = NoRequest] /\ missed' = missed /\ touched' = touched
            /\ touched' = [touched EXCEPT ![t] = touched[t]]
         \/ /\ touched' = [touched EXCEPT ![t] = NoRequest] /\ missed' = Tab
            /\ asked' = [asked EXCEPT ![t] = asked[t]]
  BY TabFacts DEF StatusLost, TouchLost
<1>2. \A u \in Tab : WordUnderWay(u) => WordUnderWay(u)'
  BY <1>1 DEF WordUnderWay, Pending
<1>3. ~Stands(NoRequest) /\ ~Pending(NoRequest)
  BY SessionRows DEF Stands, Pending
<1>. QED  BY <1>1, <1>2, <1>3, TabFacts, OneTabChanges

LEMMA RemountKeeps ==
  ASSUME TabsInv, NEW t \in Tab, Remount(t)
  PROVE  TabsInv'
<1>1. /\ tab' = [tab EXCEPT ![t] = Fresh] /\ asked' = [asked EXCEPT ![t] = NoRequest]
      /\ touched' = [touched EXCEPT ![t] = NoRequest]
      /\ missed' = (IF Pending(touched[t]) THEN Tab ELSE missed \ {t})
      /\ UNCHANGED <<clock, session, news, excused>>
  BY DEF Remount, Pending
<1>2. ~Stands(NoRequest) /\ ~Pending(NoRequest)
  BY SessionRows DEF Stands, Pending
<1>3. missed' \subseteq Tab /\ touched \in [Tab -> Request] /\ news' \subseteq Event
  BY <1>1, TabFacts
<1>4. ASSUME NEW u \in Tab \ {t}, WordUnderWay(u) PROVE WordUnderWay(u)'
  <2>1. u \in missed => u \in missed'
    BY <1>1
  <2>2. CASE \E e \in news : e.to = u /\ e.type = "TOUCHED" /\ session <= e.until
    BY <1>1, <2>2 DEF WordUnderWay
  <2>3. CASE \E w \in Tab : Pending(touched[w]) /\ session <= touched[w].until
    <3>1. PICK w \in Tab : Pending(touched[w]) /\ session <= touched[w].until
      BY <2>3
    <3>2. CASE w = t
      BY <1>1, <3>1, <3>2 DEF WordUnderWay
    <3>3. CASE w # t
      BY <1>1, <1>3, <3>1, <3>3 DEF WordUnderWay
    <3>. QED  BY <3>2, <3>3
  <2>. QED  BY <1>4, <2>1, <2>2, <2>3 DEF WordUnderWay
<1>5. session # 0 => Fresh.until <= session /\ \A e \in news' : e.until <= session
  BY <1>1, SessionRows, TabFacts
<1>6. excused' = excused /\ excused \in BOOLEAN
  BY <1>1, TabFacts
<1>7. Fresh \in TabRow /\ Fresh.by = "NOBODY" /\ ~Fresh.left
  BY SessionRows
<1>8. ~ \E e \in news' : e.type = "REVOKED" /\ e \notin news
  BY <1>1
<1>9. /\ tab' = [tab EXCEPT ![t] = Fresh] /\ asked' = [asked EXCEPT ![t] = NoRequest]
      /\ touched' = [touched EXCEPT ![t] = NoRequest] /\ UNCHANGED <<clock, session>>
  BY <1>1
<1>. QED  BY <1>2, <1>3, <1>4, <1>5, <1>6, <1>7, <1>8, <1>9, OneTabChanges

\* The server's end of it: nobody is told more than the session has.
LEMMA ServeSignOutKeeps ==
  ASSUME TabsInv, NEW t \in Tab, ServeSignOut(t)
  PROVE  TabsInv'
<1>1. /\ session' = 0 /\ tab' = [tab EXCEPT ![t] = [tab[t] EXCEPT !.leaving = FALSE]]
      /\ UNCHANGED <<clock, asked, touched, news, missed, excused>>
  BY DEF ServeSignOut
<1>2. tab \in [Tab -> TabRow] /\ clock \in Nat /\ 0 \in Expiries /\ Expiries \subseteq Nat
  BY TabFacts, SessionTypes, SessionConstants DEF TabsInv, Expiries
<1>3. [tab[t] EXCEPT !.leaving = FALSE] \in TabRow
  BY <1>2 DEF TabRow
<1>4. tab' \in [Tab -> TabRow] /\ ~Honoured'
  BY <1>1, <1>2, <1>3 DEF Honoured
<1>5. SessionsTypeOK'
  BY <1>1, <1>2, <1>4 DEF TabsInv, SessionsTypeOK, TabRow
<1>6. session' <= Capped(clock')
  BY <1>1, <1>2, Caps
<1>7. NobodyToldMore' /\ StatusIsNewer' /\ NoFalseAlarm'
  BY <1>1, <1>4 DEF NobodyToldMore, StatusIsNewer, NoFalseAlarm
<1>8. RefusalsAreFinal'
  BY <1>1, <1>4 DEF TabsInv, RefusalsAreFinal, Pending
<1>9. \A u \in Tab : tab'[u].by = tab[u].by
  BY <1>1, <1>2 DEF TabRow
<1>10. TouchesAreKnown'
  BY <1>1, <1>9 DEF TabsInv, TouchesAreKnown, Pending, Stands, Knows
<1>11. TabsKnowTheEnd' /\ StatusKnowsTheEnd'
  <2>1. \A u \in Tab : tab'[u].until + tab'[u].lag \in Nat /\ asked'[u].until \in Nat
    BY <1>4, <1>5, SessionTypes DEF SessionsTypeOK, TabRow, Request, Expiries
  <2>. QED  BY <1>1, <2>1 DEF TabsKnowTheEnd, StatusKnowsTheEnd
<1>. QED  BY <1>5, <1>6, <1>7, <1>8, <1>10, <1>11 DEF TabsInv

LEMMA AdvanceKeeps ==
  ASSUME TabsInv, Advance
  PROVE  TabsInv'
<1>1. /\ clock' = clock + 1 /\ clock < Lifetime
      /\ UNCHANGED <<session, tab, asked, touched, news, missed, excused>>
  BY DEF Advance
<1>2. clock \in Nat /\ session \in Nat /\ (Honoured' => Honoured)
  BY <1>1, SessionTypes DEF TabsInv, Honoured
<1>3. SessionsTypeOK'
  BY <1>1, <1>2, SessionConstants DEF TabsInv, SessionsTypeOK
<1>4. session' <= Capped(clock')
  <2>1. Capped(clock) <= Capped(clock') /\ Capped(clock) \in Nat /\ Capped(clock') \in Nat
    BY <1>1, <1>2, Caps DEF Expiries
  <2>. QED  BY <1>1, <1>2, <2>1 DEF TabsInv
<1>5. NobodyToldMore' /\ TouchesAreKnown' /\ StatusIsNewer'
  BY <1>1 DEF TabsInv, NobodyToldMore, TouchesAreKnown, StatusIsNewer, Pending, Stands, Knows
<1>6. RefusalsAreFinal'
  BY <1>1, <1>2, SessionTypes DEF TabsInv, RefusalsAreFinal, Pending
<1>7. \A u \in Tab : WordUnderWay(u) <=> WordUnderWay(u)'
  BY <1>1 DEF WordUnderWay, Pending
<1>8. TabsKnowTheEnd' /\ StatusKnowsTheEnd'
  BY <1>1, <1>7 DEF TabsInv, TabsKnowTheEnd, StatusKnowsTheEnd, Stands, Pending, Knows
<1>9. NoFalseAlarm'
  BY <1>1, <1>2 DEF TabsInv, NoFalseAlarm
<1>. QED  BY <1>3, <1>4, <1>5, <1>6, <1>8, <1>9 DEF TabsInv

\* What the server answers.
LEMMA Answered ==
  ASSUME TabsInv, NEW until \in Expiries \ {0}
  PROVE  /\ Answer(until) \in Request /\ Pending(Answer(until)) /\ Answer(until).at = clock
         /\ Answer(until).latest = TRUE
         /\ Answer(until).until = IF Honoured THEN until ELSE 0
<1>1. clock \in Expiries /\ 0 \in Expiries
  BY SessionConstants DEF TabsInv, SessionsTypeOK, Expiries
<1>. QED  BY <1>1 DEF Answer, Request, Pending

LEMMA RefreshStatusKeeps ==
  ASSUME TabsInv, NEW t \in Tab, RefreshStatus(t)
  PROVE  TabsInv'
<1>. DEFINE a == Answer(session)
<1>1. /\ asked' = [asked EXCEPT ![t] = a] /\ touched[t].phase = "NONE"
      /\ UNCHANGED <<clock, session, tab, touched, news, missed, excused>>
  BY DEF RefreshStatus
<1>2. /\ a \in Request /\ Pending(a) /\ a.at = clock /\ a.latest = TRUE
      /\ a.until = IF Honoured THEN session ELSE 0
  <2>1. session \in Expiries /\ clock \in Expiries
    BY DEF TabsInv, SessionsTypeOK, Expiries
  <2>. QED  BY <2>1, SessionConstants DEF Answer, Request, Pending, Expiries
<1>3. /\ asked \in [Tab -> Request] /\ clock \in Nat /\ session \in Nat
      /\ Honoured => session # 0
  BY TabFacts DEF Honoured
<1>. HIDE DEF a
<1>4. \A u \in Tab : asked'[u] = IF u = t THEN a ELSE asked[u]
  BY <1>1, <1>3
<1>5. SessionsTypeOK' /\ session' <= Capped(clock')
  BY <1>1, <1>2, <1>3 DEF TabsInv, SessionsTypeOK
<1>6. NobodyToldMore'
  BY <1>1, <1>2, <1>3, <1>4 DEF TabsInv, NobodyToldMore
<1>7. RefusalsAreFinal'
  BY <1>1, <1>2, <1>3, <1>4 DEF TabsInv, RefusalsAreFinal, Honoured, Pending
<1>8. TouchesAreKnown'
  BY <1>1, <1>4 DEF TabsInv, TouchesAreKnown, Pending, Stands, Knows
<1>9. StatusIsNewer'
  <2>1. session # 0 => tab[t].until <= session
    BY TabFacts
  <2>2. Stands(a) => a.until = session
    BY <1>2 DEF Stands
  <2>. QED  BY <1>1, <1>4, <2>1, <2>2 DEF TabsInv, StatusIsNewer, Stands, Pending
<1>10. \A u \in Tab : WordUnderWay(u) <=> WordUnderWay(u)'
  BY <1>1 DEF WordUnderWay, Pending
<1>11. TabsKnowTheEnd'
  BY <1>1, <1>10 DEF TabsInv, TabsKnowTheEnd, Knows
<1>12. StatusKnowsTheEnd'
  <2>1. Stands(a) => session <= a.until
    BY <1>2, <1>3 DEF Stands
  <2>. QED  BY <1>1, <1>4, <1>10, <2>1 DEF TabsInv, StatusKnowsTheEnd, Stands, Pending
<1>13. NoFalseAlarm'
  BY <1>1 DEF TabsInv, NoFalseAlarm, Honoured
<1>. QED  BY <1>5, <1>6, <1>7, <1>8, <1>9, <1>11, <1>12, <1>13 DEF TabsInv

\* A touch: everybody else will hear of it, or the answer is lost and they all
\* have missed it.
LEMMA TouchSessionKeeps ==
  ASSUME TabsInv, NEW t \in Tab, TouchSession(t)
  PROVE  TabsInv'
<1>. DEFINE a == Answer(Prolonged)
            status == AfterTouch(asked[t])
<1>1. /\ touched' = [touched EXCEPT ![t] = a] /\ asked' = [asked EXCEPT ![t] = status]
      /\ touched[t].phase = "NONE" /\ Knows(t)
      /\ session' = IF Honoured THEN Prolonged ELSE session
      /\ UNCHANGED <<clock, tab, news, missed, excused>>
  BY DEF TouchSession
<1>2. /\ asked \in [Tab -> Request] /\ touched \in [Tab -> Request] /\ asked[t] \in Request
      /\ clock \in Nat /\ session \in Nat
  BY TabFacts
<1>3. /\ Prolonged = Capped(clock) /\ Prolonged \in Expiries \ {0} /\ Prolonged \in Nat
      /\ session <= Prolonged
  BY <1>2, Caps DEF TabsInv, Expiries
<1>4. /\ a \in Request /\ Pending(a) /\ a.at = clock
      /\ a.until = IF Honoured THEN Prolonged ELSE 0
  BY <1>3, Answered
<1>5. /\ status \in Request /\ ~Stands(status) /\ status.until = asked[t].until
      /\ status.at = asked[t].at /\ (Pending(status) <=> Pending(asked[t]))
  BY <1>2 DEF AfterTouch, Request, Stands, Pending
<1>. HIDE DEF a, status
<1>6. \A u \in Tab : /\ touched'[u] = IF u = t THEN a ELSE touched[u]
                     /\ asked'[u] = IF u = t THEN status ELSE asked[u]
  BY <1>1, <1>2
<1>7. session' \in Nat /\ session <= session' /\ (Honoured' => Honoured)
      /\ (session' # 0 => session # 0)
  BY <1>1, <1>2, <1>3 DEF Honoured
<1>8. SessionsTypeOK'
  <2>1. asked' \in [Tab -> Request] /\ touched' \in [Tab -> Request]
    BY <1>1, <1>2, <1>4, <1>5
  <2>2. session' \in Expiries
    BY <1>1, <1>3 DEF TabsInv, SessionsTypeOK
  <2>. QED  BY <1>1, <2>1, <2>2 DEF TabsInv, SessionsTypeOK
<1>9. session' <= Capped(clock')
  BY <1>1, <1>2, <1>3
<1>10. NobodyToldMore'
  <2>1. a.until <= session' \/ ~Honoured
    BY <1>1, <1>3, <1>4
  <2>2. a.until <= session'
    BY <1>2, <1>4, <1>7, <2>1
  <2>3. ASSUME session' # 0, NEW u \in Tab
        PROVE  tab'[u].until <= session' /\ asked'[u].until <= session'
               /\ touched'[u].until <= session'
    <3>1. /\ tab[u].until <= session /\ asked[u].until <= session /\ touched[u].until <= session
          /\ tab[u].until \in Nat /\ asked[u].until \in Nat /\ touched[u].until \in Nat
      BY <1>7, <2>3, TabFacts
    <3>2. tab'[u] = tab[u] /\ asked'[u].until = asked[u].until
          /\ touched'[u].until \in {touched[u].until, a.until}
      BY <1>1, <1>5, <1>6
    <3>. QED  BY <1>2, <1>7, <2>2, <3>1, <3>2
  <2>4. ASSUME session' # 0, NEW e \in news PROVE e.until <= session'
    <3>1. e.until <= session /\ e.until \in Nat
      BY <1>7, <2>4, TabFacts, SessionTypes DEF TabsInv
    <3>. QED  BY <1>2, <1>7, <3>1
  <2>. QED  BY <1>1, <2>3, <2>4 DEF NobodyToldMore
<1>11. RefusalsAreFinal'
  BY <1>1, <1>2, <1>3, <1>4, <1>5, <1>6, <1>7 DEF TabsInv, RefusalsAreFinal, Pending
<1>12. TouchesAreKnown'
  BY <1>1, <1>3, <1>4, <1>5, <1>6 DEF TabsInv, TouchesAreKnown, Pending, Stands, Knows
<1>13. StatusIsNewer'
  BY <1>1, <1>5, <1>6, <1>7 DEF TabsInv, StatusIsNewer, Stands, Pending
<1>14. ASSUME Honoured, NEW u \in Tab PROVE WordUnderWay(u)'
  <2>1. Pending(touched'[t]) /\ session' <= touched'[t].until
    BY <1>1, <1>3, <1>4, <1>6, <1>14
  <2>. QED  BY <2>1 DEF WordUnderWay, Pending
<1>15. ASSUME ~Honoured, NEW u \in Tab, WordUnderWay(u) PROVE WordUnderWay(u)'
  <2>1. session' = session /\ missed' = missed /\ news' = news
    BY <1>1, <1>15
  <2>2. CASE \E w \in Tab : Pending(touched[w]) /\ session <= touched[w].until
    BY <1>1, <1>6, <2>1, <2>2 DEF WordUnderWay, Pending
  <2>. QED  BY <1>15, <2>1, <2>2 DEF WordUnderWay
<1>16. TabsKnowTheEnd' /\ StatusKnowsTheEnd'
  <2>1. CASE Honoured
    BY <1>14, <2>1 DEF TabsKnowTheEnd, StatusKnowsTheEnd
  <2>2. CASE ~Honoured
    <3>1. session' = session
      BY <1>1, <2>2
    <3>2. TabsKnowTheEnd'
      BY <1>1, <1>15, <2>2, <3>1 DEF TabsInv, TabsKnowTheEnd, Knows
    <3>3. StatusKnowsTheEnd'
      BY <1>1, <1>5, <1>6, <1>15, <2>2, <3>1 DEF TabsInv, StatusKnowsTheEnd, Stands, Pending
    <3>. QED  BY <3>2, <3>3
  <2>. QED  BY <2>1, <2>2
<1>17. NoFalseAlarm'
  BY <1>1, <1>7 DEF TabsInv, NoFalseAlarm
<1>. QED  BY <1>8, <1>9, <1>10, <1>11, <1>12, <1>13, <1>16, <1>17 DEF TabsInv

LEMMA TabsStep == TabsInv /\ [SessionsNext]_tabVars => TabsInv'
<1>. SUFFICES ASSUME TabsInv, [SessionsNext]_tabVars PROVE TabsInv'
  OBVIOUS
<1>1. CASE UNCHANGED tabVars
  <2>1. UNCHANGED <<clock, session, tab, asked, touched, news, missed, excused>>
    BY <1>1 DEF tabVars
  <2>2. SessionsTypeOK' /\ session' <= Capped(clock')
    BY <2>1 DEF TabsInv, SessionsTypeOK
  <2>3. NobodyToldMore' /\ RefusalsAreFinal' /\ TouchesAreKnown'
    BY <2>1 DEF TabsInv, NobodyToldMore, RefusalsAreFinal, TouchesAreKnown, Pending, Stands,
                Knows, Honoured
  <2>4. StatusIsNewer' /\ NoFalseAlarm'
    BY <2>1 DEF TabsInv, StatusIsNewer, NoFalseAlarm, Pending, Stands, Honoured
  <2>5. TabsKnowTheEnd' /\ StatusKnowsTheEnd'
    BY <2>1 DEF TabsInv, TabsKnowTheEnd, StatusKnowsTheEnd, WordUnderWay, Pending, Stands, Knows
  <2>. QED  BY <2>2, <2>3, <2>4, <2>5 DEF TabsInv
<1>2. ASSUME NEW t \in Tab,
             \/ ServeSignOut(t)
             \/ RefreshStatus(t) \/ TouchSession(t) \/ SignOut(t) \/ Tick(t)
             \/ ReceiveStatus(t) \/ ReceiveTouch(t) \/ Refused(t)
             \/ StatusLost(t) \/ TouchLost(t) \/ Remount(t)
      PROVE  TabsInv'
  BY <1>2, ServeSignOutKeeps, RefreshStatusKeeps, TouchSessionKeeps, SignOutKeeps, TickKeeps,
     ReceiveStatusKeeps, ReceiveTouchKeeps, RefusedKeeps, LossesKeep, RemountKeeps
<1>3. ASSUME NEW e \in news, HearRevoked(e) \/ HearTouched(e) \/ HearNothing(e)
      PROVE  TabsInv'
  BY <1>3, HearRevokedKeeps, HearTouchedKeeps, HearNothingKeeps
<1>4. CASE Advance
  BY <1>4, AdvanceKeeps
<1>. QED  BY <1>1, <1>2, <1>3, <1>4 DEF SessionsNext

\* What the tabs know of the session holds throughout.
LEMMA TabsAlways == SessionsSpec => []TabsInv
BY TabsStart, TabsStep, PTL DEF SessionsSpec

\* However requests and events of any number of tabs overtake each other, and
\* however late answers are, no tab goes to the login page while the session
\* lasts, unless somebody signed out or word of a touch was lost or still on
\* its way.
THEOREM NobodyLeavesEarly == SessionsSpec => []NoEarlyGoodbye
<1>1. TabsInv => NoEarlyGoodbye
  BY DEF TabsInv, NoFalseAlarm, NoEarlyGoodbye
<1>. QED  BY TabsAlways, <1>1, PTL
-----------------------------------------------------------------------------
(* The admin pages. *)

\* The types of the three kinds of pages.
ProfileRows ==
  [selected : Shown, shown : Shown, asked : SUBSET Entry, loading : BOOLEAN,
   failed : BOOLEAN, listed : SUBSET Entry, refreshing : SUBSET Entry,
   named : Shown, calm : BOOLEAN]
InspectorRows ==
  [order : Shown, detail : Shown, timer : BOOLEAN, asked : SUBSET Entry,
   acting : BOOLEAN, noting : SUBSET Entry, reloads : SUBSET Entry,
   named : Shown, stray : BOOLEAN]
ListRows ==
  [kind : {None, "ORDERS", "REVIEWS", "PRODUCTS", "REPORTS"}, query : Asked,
   timer : BOOLEAN, asked : SUBSET Query, shown : Asked, failed : BOOLEAN,
   last : Asked, bulk : Asked]

\* The customers page waits for one profile at most, that of the selected
\* customer unless a chip emptied the selection; a calm dialog was opened, and
\* stays, over a page that waits for nothing.
ProfilesKeep ==
  /\ profiles \in ProfileRows
  /\ \A c, d \in profiles.asked : c = d
  /\ \A c \in profiles.asked : profiles.selected \in {c, None}
  /\ ~profiles.loading => profiles.asked = {}
  /\ ~profiles.loading /\ ~profiles.failed /\ profiles.selected # None =>
       profiles.shown = profiles.selected
  /\ ~NoDialog /\ profiles.calm =>
       /\ profiles.shown = profiles.named
       /\ ~profiles.loading /\ profiles.refreshing = {} /\ ~SelectionIsDue

\* The inspector waits for the order it was moved to; only a note or a reload
\* that was under way as it moved on can be about another.
InspectorKeeps ==
  /\ inspector \in InspectorRows
  /\ inspector.asked \subseteq {inspector.order}
  /\ inspector = NoInspector \/ inspector.order \in Entry
  /\ inspector.timer => inspector.named = None
  /\ ~inspector.stray =>
       /\ inspector.noting \subseteq {inspector.order}
       /\ inspector.reloads \subseteq {inspector.order}
  /\ InspectorKeepsItsTitle

\* A list waits for what it asked for last, and shows it when it waits for
\* nothing.
ListKeeps ==
  /\ list \in ListRows
  /\ list = NoList \/ list.query \in Query
  /\ list.asked \subseteq {list.last}
  /\ ~list.timer /\ list.asked = {} /\ ~list.failed => list.shown = list.last

\* The inductive invariant of the pages.
PagesInv ==
  /\ page \in {None, "CUSTOMERS", "INSPECTOR", "LIST"}
  /\ ProfilesKeep /\ InspectorKeeps /\ ListKeeps

LEMMA LoadingRow ==
  ASSUME NEW p \in ProfileRows, NEW c \in Entry, p.named = None \/ ~p.calm,
         profiles' = Loading(p, c)
  PROVE  ProfilesKeep'
<1>1. /\ profiles' \in ProfileRows
      /\ profiles'.asked = {c} /\ profiles'.selected = c /\ profiles'.loading = TRUE
      /\ profiles'.named = p.named /\ profiles'.calm = p.calm
  BY DEF ProfileRows, Loading, Abandon, Shown
<1>. QED  BY <1>1 DEF ProfilesKeep, NoDialog

LEMMA EmptyPages ==
  /\ NoProfiles \in ProfileRows /\ NoInspector \in InspectorRows /\ NoList \in ListRows
  /\ profiles' = NoProfiles => ProfilesKeep'
  /\ inspector' = NoInspector => InspectorKeeps'
  /\ list' = NoList => ListKeeps'
<1>1. NoProfiles \in ProfileRows /\ NoInspector \in InspectorRows /\ NoList \in ListRows
  BY DEF NoProfiles, NoInspector, NoList, ProfileRows, InspectorRows, ListRows, Shown, Asked
<1>2. profiles' = NoProfiles => ProfilesKeep'
  BY <1>1 DEF NoProfiles, ProfilesKeep, NoDialog
<1>3. inspector' = NoInspector => InspectorKeeps'
  BY <1>1 DEF NoInspector, InspectorKeeps, InspectorKeepsItsTitle
<1>4. list' = NoList => ListKeeps'
  BY <1>1 DEF NoList, ListKeeps
<1>. QED  BY <1>1, <1>2, <1>3, <1>4

LEMMA PagesStart == PagesInit => PagesInv
<1>. SUFFICES ASSUME PagesInit PROVE PagesInv
  OBVIOUS
<1>1. profiles = NoProfiles /\ inspector = NoInspector /\ list = NoList /\ page = None
  BY DEF PagesInit
<1>2. NoProfiles \in ProfileRows /\ NoInspector \in InspectorRows /\ NoList \in ListRows
  BY EmptyPages
<1>3. ProfilesKeep
  BY <1>1, <1>2 DEF NoProfiles, ProfilesKeep, NoDialog
<1>4. InspectorKeeps
  BY <1>1, <1>2 DEF NoInspector, InspectorKeeps, InspectorKeepsItsTitle
<1>5. ListKeeps
  BY <1>1, <1>2 DEF NoList, ListKeeps
<1>. QED  BY <1>1, <1>3, <1>4, <1>5 DEF PagesInv

\* The customers page.
LEMMA CustomersPageKeeps ==
  ASSUME ProfilesKeep, CustomersPage
  PROVE  ProfilesKeep'
<1>1. profiles \in ProfileRows
  BY DEF ProfilesKeep
<1>2. ASSUME NEW c \in Entry, PickCustomer(c) PROVE ProfilesKeep'
  BY <1>1, <1>2, LoadingRow DEF PickCustomer, NoDialog
<1>3. ASSUME NEW c \in Entry, SelectFirst(c) PROVE ProfilesKeep'
  BY <1>1, <1>3, LoadingRow DEF SelectFirst, ProfilesKeep, NoDialog
<1>4. ASSUME NEW c \in Entry, ProfileArrives(c) PROVE ProfilesKeep'
  BY <1>1, <1>4 DEF ProfileArrives, ProfilesKeep, NoDialog, SelectionIsDue, ProfileRows, Shown
<1>5. ASSUME NEW c \in Entry, ProfileFails(c) PROVE ProfilesKeep'
  BY <1>1, <1>5 DEF ProfileFails, ProfilesKeep, NoDialog, SelectionIsDue, ProfileRows
<1>6. ASSUME NEW c \in Entry, RefreshFails(c) PROVE ProfilesKeep'
  BY <1>1, <1>6 DEF RefreshFails, ProfilesKeep, NoDialog, SelectionIsDue, ProfileRows
<1>7. ASSUME NEW c \in Entry, NEW listed \in SUBSET Entry, RefreshArrives(c, listed)
      PROVE  ProfilesKeep'
  <2>. DEFINE p == [profiles EXCEPT !.refreshing = @ \ {c}, !.listed = listed]
  <2>1. p \in ProfileRows /\ p.named = profiles.named /\ p.calm = profiles.calm
    BY <1>1 DEF ProfileRows
  <2>2. profiles.named = None \/ ~profiles.calm
    BY <1>7 DEF RefreshArrives, ProfilesKeep, NoDialog
  <2>3. profiles' = Loading(p, c)
    BY <1>7 DEF RefreshArrives
  <2>. QED  BY <2>1, <2>2, <2>3, LoadingRow
<1>8. ASSUME NEW listed \in SUBSET Entry, SearchCustomers(listed) \/ ChooseChip(listed)
      PROVE  ProfilesKeep'
  BY <1>1, <1>8 DEF SearchCustomers, ChooseChip, ProfilesKeep, NoDialog, SelectionIsDue,
                    ProfileRows, Shown
<1>9. CASE ChangeCustomer
  BY <1>1, <1>9 DEF ChangeCustomer, ProfilesKeep, NoDialog, SelectionIsDue, ProfileRows, Shown
<1>10. CASE StartAnonymization
  BY <1>1, <1>10 DEF StartAnonymization, ProfilesKeep, NoDialog, SelectionIsDue, ProfileRows
<1>11. CASE CancelAnonymization
  BY <1>1, <1>11 DEF CancelAnonymization, ProfilesKeep, NoDialog, SelectionIsDue, ProfileRows,
                     Shown
<1>12. CASE ConfirmAnonymization
  BY <1>1, <1>12 DEF ConfirmAnonymization, ProfilesKeep, NoDialog, SelectionIsDue, ProfileRows,
                     Shown
<1>. QED  BY <1>2, <1>3, <1>4, <1>5, <1>6, <1>7, <1>8, <1>9, <1>10, <1>11, <1>12
          DEF CustomersPage

\* The order inspector.
LEMMA InspectorFields ==
  ASSUME InspectorKeeps
  PROVE  /\ inspector.order \in Shown /\ inspector.detail \in Shown /\ inspector.named \in Shown
         /\ inspector.asked \subseteq Entry /\ inspector.noting \subseteq Entry
         /\ inspector.reloads \subseteq Entry
         /\ inspector.timer \in BOOLEAN /\ inspector.acting \in BOOLEAN
         /\ inspector.stray \in BOOLEAN
         /\ \/ inspector.order \in Entry
            \/ /\ inspector.order = None /\ inspector.detail = None /\ inspector.named = None
               /\ ~inspector.timer /\ ~inspector.acting
               /\ inspector.asked = {} /\ inspector.noting = {} /\ inspector.reloads = {}
BY DEF InspectorKeeps, InspectorRows, NoInspector

\* A row of the inspector that names an order keeps the invariant if its fields do.
LEMMA InspectorRow ==
  ASSUME NEW order \in Entry, NEW detail \in Shown, NEW timer \in BOOLEAN,
         NEW waits \in SUBSET Entry, NEW acting \in BOOLEAN, NEW noting \in SUBSET Entry,
         NEW reloads \in SUBSET Entry, NEW named \in Shown, NEW stray \in BOOLEAN,
         inspector' = [order |-> order, detail |-> detail, timer |-> timer, asked |-> waits,
                       acting |-> acting, noting |-> noting, reloads |-> reloads,
                       named |-> named, stray |-> stray],
         waits \subseteq {order}, timer => named = None,
         ~stray => noting \subseteq {order} /\ reloads \subseteq {order},
         ~timer /\ ~stray => detail \in {None, order} /\ named \in {None, order}
  PROVE  InspectorKeeps'
<1>1. inspector' \in InspectorRows
  BY DEF InspectorRows, Shown
<1>2. /\ inspector'.order = order /\ inspector'.detail = detail /\ inspector'.timer = timer
      /\ inspector'.asked = waits /\ inspector'.noting = noting /\ inspector'.reloads = reloads
      /\ inspector'.named = named /\ inspector'.stray = stray
  OBVIOUS
<1>. QED  BY <1>1, <1>2 DEF InspectorKeeps, InspectorKeepsItsTitle

LEMMA InspectorPageKeeps ==
  ASSUME InspectorKeeps, InspectorPage
  PROVE  InspectorKeeps'
<1>. DEFINE i == inspector
            Panel(order, detail, timer, waits, acting, noting, reloads, named, stray) ==
              [order |-> order, detail |-> detail, timer |-> timer, asked |-> waits,
               acting |-> acting, noting |-> noting, reloads |-> reloads,
               named |-> named, stray |-> stray]
<1>0. i = Panel(i.order, i.detail, i.timer, i.asked, i.acting, i.noting, i.reloads, i.named, i.stray)
  BY DEF InspectorKeeps, InspectorRows
<1>f. /\ i.order \in Shown /\ i.detail \in Shown /\ i.named \in Shown
      /\ i.asked \subseteq Entry /\ i.noting \subseteq Entry /\ i.reloads \subseteq Entry
      /\ i.timer \in BOOLEAN /\ i.acting \in BOOLEAN /\ i.stray \in BOOLEAN
      /\ \/ i.order \in Entry
         \/ /\ i.order = None /\ i.detail = None /\ i.named = None
            /\ ~i.timer /\ ~i.acting /\ i.asked = {} /\ i.noting = {} /\ i.reloads = {}
  BY InspectorFields
<1>k. /\ i.asked \subseteq {i.order} /\ (i.timer => i.named = None)
      /\ ~i.stray => i.noting \subseteq {i.order} /\ i.reloads \subseteq {i.order}
      /\ ~i.timer /\ ~i.stray => i.detail \in {None, i.order} /\ i.named \in {None, i.order}
  BY DEF InspectorKeeps, InspectorKeepsItsTitle
<1>. DEFINE strays == i.stray \/ i.noting # {} \/ i.reloads # {}
<1>1. ASSUME NEW o \in Entry, MoveTo(o) PROVE InspectorKeeps'
  <2>. DEFINE j == Panel(o, i.detail, TRUE, {}, i.acting, i.noting, i.reloads, i.named, strays)
  <2>1. inspector' = j /\ i.named = None
    BY <1>0, <1>1 DEF MoveTo, Abandon
  <2>2. strays \in BOOLEAN
    BY <1>f
  <2>3. j \in InspectorRows
    BY <1>f, <2>2 DEF InspectorRows, Shown
  <2>4. j.order = o /\ j.asked = {} /\ j.timer = TRUE /\ j.named = None /\ j.stray = strays
        /\ j.noting = i.noting /\ j.reloads = i.reloads
    BY <2>1
  <2>. QED  BY <2>1, <2>3, <2>4 DEF InspectorKeeps, InspectorKeepsItsTitle
<1>2. CASE LoadOrder
  <2>. DEFINE j == Panel(i.order, None, FALSE, i.asked \cup {i.order}, i.acting, i.noting,
                         i.reloads, i.named, i.stray)
  <2>1. inspector' = j /\ i.order \in Entry /\ i.named = None
    BY <1>0, <1>2, <1>f, <1>k DEF LoadOrder
  <2>2. j \in InspectorRows
    BY <1>f, <2>1 DEF InspectorRows, Shown
  <2>3. /\ j.order = i.order /\ j.asked = i.asked \cup {i.order} /\ j.timer = FALSE
        /\ j.named = None /\ j.detail = None /\ j.stray = i.stray
        /\ j.noting = i.noting /\ j.reloads = i.reloads
    BY <2>1
  <2>. QED  BY <1>k, <2>1, <2>2, <2>3 DEF InspectorKeeps, InspectorKeepsItsTitle
<1>3. ASSUME NEW o \in Entry, DetailArrives(o) \/ DetailFails(o) PROVE InspectorKeeps'
  <2>1. o = i.order /\ i.order \in Entry
    BY <1>3, <1>k DEF DetailArrives, DetailFails
  <2>2. PICK d \in {i.detail, o} :
          inspector' = Panel(i.order, d, i.timer, i.asked \ {o}, i.acting, i.noting, i.reloads,
                             i.named, i.stray)
    BY <1>0, <1>3 DEF DetailArrives, DetailFails
  <2>3. d \in Shown /\ (~i.timer /\ ~i.stray => d \in {None, i.order})
    BY <1>f, <1>k, <2>1, <2>2 DEF Shown
  <2>4. i.asked \ {o} \in SUBSET Entry /\ i.asked \ {o} \subseteq {i.order}
    BY <1>f, <1>k
  <2>. HIDE DEF i
  <2>. QED  BY <1>f, <1>k, <2>1, <2>2, <2>3, <2>4, InspectorRow
<1>4. ASSUME NEW named \in Shown, NEW acting \in BOOLEAN, i.order \in Entry,
             inspector' = Panel(i.order, i.detail, i.timer, i.asked, acting, i.noting, i.reloads,
                                named, i.stray),
             named \in {None, i.named} \/ (~i.timer /\ named = i.detail)
      PROVE  InspectorKeeps'
  <2>. HIDE DEF i
  <2>. QED  BY <1>4, <1>f, <1>k, InspectorRow
<1>5. CASE ChooseTransition
  <2>1. inspector' = Panel(i.order, i.detail, i.timer, i.asked, i.acting, i.noting, i.reloads,
                           i.detail, i.stray) /\ i.order \in Entry /\ ~i.timer
    BY <1>0, <1>f, <1>5 DEF ChooseTransition
  <2>. HIDE DEF i
  <2>. QED  BY <1>4, <1>f, <2>1
<1>6. CASE CancelTransition
  <2>1. inspector' = Panel(i.order, i.detail, i.timer, i.asked, i.acting, i.noting, i.reloads,
                           None, i.stray) /\ i.order \in Entry /\ None \in Shown
    BY <1>0, <1>f, <1>6 DEF CancelTransition, Shown
  <2>. HIDE DEF i
  <2>. QED  BY <1>4, <1>f, <2>1
<1>7. CASE ConfirmTransition
  <2>1. inspector' = Panel(i.order, i.detail, i.timer, i.asked, TRUE, i.noting, i.reloads,
                           i.named, i.stray) /\ i.order \in Entry
    BY <1>0, <1>f, <1>7 DEF ConfirmTransition
  <2>. HIDE DEF i
  <2>. QED  BY <1>4, <1>f, <2>1
<1>8. ASSUME NEW noting \in SUBSET (i.noting \cup {i.order}),
             NEW reloads \in SUBSET (i.reloads \cup i.noting \cup {i.order}), NEW acting \in BOOLEAN,
             NEW named \in {None, i.named}, NEW detail \in {i.detail} \cup i.reloads,
             i.order \in Entry,
             inspector' = Panel(i.order, detail, i.timer, i.asked, acting, noting, reloads, named,
                                i.stray)
      PROVE  InspectorKeeps'
  <2>1. /\ noting \in SUBSET Entry /\ reloads \in SUBSET Entry /\ detail \in Shown
        /\ named \in Shown
    BY <1>8, <1>f DEF Shown
  <2>2. ~i.stray => noting \subseteq {i.order} /\ reloads \subseteq {i.order}
    BY <1>8, <1>k
  <2>3. ~i.timer /\ ~i.stray => detail \in {None, i.order} /\ named \in {None, i.order}
    BY <1>8, <1>k
  <2>. HIDE DEF i
  <2>. QED  BY <1>8, <1>f, <1>k, <2>1, <2>2, <2>3, InspectorRow
<1>9. CASE TransitionAnswered
  <2>1. PICK reloads \in {i.reloads, i.reloads \cup {i.order}} :
          inspector' = Panel(i.order, i.detail, i.timer, i.asked, FALSE, i.noting, reloads, None,
                             i.stray)
    BY <1>0, <1>9 DEF TransitionAnswered
  <2>2. i.order \in Entry
    BY <1>f, <1>9 DEF TransitionAnswered
  <2>. HIDE DEF i, Panel
  <2>. QED  BY <1>8, <2>1, <2>2
<1>10. CASE AddNote
  <2>1. /\ inspector' = Panel(i.order, i.detail, i.timer, i.asked, i.acting, i.noting \cup {i.order},
                              i.reloads, i.named, i.stray)
        /\ i.order \in Entry
    BY <1>0, <1>f, <1>10 DEF AddNote
  <2>. HIDE DEF i, Panel
  <2>. QED  BY <1>8, <1>f, <2>1
<1>11. ASSUME NEW o \in Entry, NoteAnswered(o) PROVE InspectorKeeps'
  <2>1. PICK reloads \in {i.reloads, i.reloads \cup {o}} :
          inspector' = Panel(i.order, i.detail, i.timer, i.asked, i.acting, i.noting \ {o}, reloads,
                             i.named, i.stray)
    BY <1>0, <1>11 DEF NoteAnswered
  <2>2. o \in i.noting /\ i.order \in Entry
    BY <1>f, <1>11 DEF NoteAnswered
  <2>. HIDE DEF i, Panel
  <2>. QED  BY <1>8, <1>f, <2>1, <2>2
<1>12. ASSUME NEW o \in Entry, ReloadArrives(o) \/ ReloadFails(o) PROVE InspectorKeeps'
  <2>1. PICK detail \in {i.detail, o} :
          inspector' = Panel(i.order, detail, i.timer, i.asked, i.acting, i.noting, i.reloads \ {o},
                             i.named, i.stray)
    BY <1>0, <1>12 DEF ReloadArrives, ReloadFails
  <2>2. o \in i.reloads /\ i.order \in Entry
    BY <1>f, <1>12 DEF ReloadArrives, ReloadFails
  <2>. HIDE DEF i, Panel
  <2>. QED  BY <1>8, <1>f, <2>1, <2>2
<1>. QED  BY <1>1, <1>2, <1>3, <1>5, <1>6, <1>7, <1>9, <1>10, <1>11, <1>12 DEF InspectorPage

\* The lists.
LEMMA ListFields ==
  ASSUME ListKeeps
  PROVE  /\ list \in ListRows
         /\ list.timer \in BOOLEAN /\ list.failed \in BOOLEAN /\ list.asked \subseteq Query
         /\ list.bulk \in Query \cup {None}
         /\ list.timer \/ list.kind # None => list.query \in Query
BY DEF ListKeeps, ListRows, NoList, Asked

\* A list that asks, now waits for what it asked for.
LEMMA AskingKeeps ==
  ASSUME NEW l \in ListRows, l.query \in Query, NEW q \in Query,
         list' = Asking(l, q) \/ \E timer \in BOOLEAN : list' = [Asking(l, q) EXCEPT !.timer = timer]
  PROVE  ListKeeps'
<1>. DEFINE ask == Asking(l, q)
<1>1. /\ ask \in ListRows
      /\ ask.query = l.query /\ ask.asked = {q} /\ ask.last = q /\ ask.timer = FALSE
  BY DEF Asking, Abandon, ListRows, Asked
<1>. HIDE DEF ask
<1>2. /\ list' \in ListRows
      /\ list'.query = l.query /\ list'.asked = {q} /\ list'.last = q
  BY <1>1 DEF ListRows, ask
<1>. QED  BY <1>2 DEF ListKeeps

LEMMA ListPageKeeps ==
  ASSUME ListKeeps, ListPage
  PROVE  ListKeeps'
<1>1. list \in ListRows /\ list.timer \in BOOLEAN
  BY ListFields
\* A change of the query leaves the timer running.
<1>2. ASSUME NEW q \in Query, NEW waits \in {list.asked, {}},
             list' = [list EXCEPT !.query = q, !.timer = TRUE, !.asked = waits]
      PROVE  ListKeeps'
  <2>1. /\ list' \in ListRows /\ list'.query = q /\ list'.timer = TRUE /\ list'.asked = waits
        /\ list'.last = list.last
    BY <1>1, <1>2 DEF ListRows, Asked
  <2>. QED  BY <2>1 DEF ListKeeps
<1>3. ASSUME NEW q \in Query, ChangeOrders(q) \/ ChangeReport(q) PROVE ListKeeps'
  <2>1. list' = [list EXCEPT !.query = q, !.timer = TRUE, !.asked = list.asked]
    BY <1>1, <1>3 DEF ChangeOrders, ChangeReport, ListRows
  <2>. QED  BY <1>2, <2>1
<1>4. ASSUME NEW q \in Query, ChangeReviews(q) PROVE ListKeeps'
  BY <1>2, <1>4 DEF ChangeReviews, Abandon
<1>5. ASSUME NEW q \in Query, ChangeProducts(q) PROVE ListKeeps'
  <2>. DEFINE l == [list EXCEPT !.query = q]
  <2>1. l \in ListRows /\ l.query = q
    BY <1>1 DEF ListRows, Asked
  <2>2. list' = Asking(l, q)
    BY <1>1, <1>5 DEF ChangeProducts, Asking, ListRows
  <2>. HIDE DEF l
  <2>. QED  BY <2>1, <2>2, AskingKeeps
<1>6. CASE TimerEnds
  BY <1>6, ListFields, AskingKeeps DEF TimerEnds
<1>7. CASE AskAgain
  <2>1. list.query \in Query
    BY <1>7, ListFields DEF AskAgain, None
  <2>. QED  BY <1>1, <1>7, <2>1, AskingKeeps DEF AskAgain
<1>8. ASSUME NEW q \in Query, ListArrives(q) PROVE ListKeeps'
  <2>1. /\ list' \in ListRows /\ list'.shown = q /\ list'.asked = list.asked \ {q}
        /\ list'.last = list.last /\ list'.query = list.query
    BY <1>1, <1>8 DEF ListArrives, ListRows, Asked
  <2>2. q = list.last /\ list.query \in Query
    BY <1>8 DEF ListArrives, ListKeeps, NoList
  <2>. QED  BY <2>1, <2>2 DEF ListKeeps
<1>9. ASSUME NEW q \in Query, ListFails(q) PROVE ListKeeps'
  <2>1. /\ list' \in ListRows /\ list'.failed = TRUE /\ list'.asked = list.asked \ {q}
        /\ list'.last = list.last /\ list'.query = list.query
    BY <1>1, <1>9 DEF ListFails, ListRows
  <2>2. list.query \in Query
    BY <1>9 DEF ListFails, ListKeeps, NoList
  <2>. QED  BY <2>1, <2>2 DEF ListKeeps
\* The selection to archive is all that changes.
<1>10. ASSUME NEW bulk \in Asked, list' = [list EXCEPT !.bulk = bulk], list.query \in Query
       PROVE  ListKeeps'
  <2>1. /\ list' \in ListRows /\ list'.shown = list.shown /\ list'.asked = list.asked
        /\ list'.last = list.last /\ list'.query = list.query /\ list'.timer = list.timer
        /\ list'.failed = list.failed
    BY <1>1, <1>10 DEF ListRows
  <2>. QED  BY <1>10, <2>1 DEF ListKeeps
<1>11. CASE ArchiveOrders
  <2>1. list.query \in Query
    BY <1>11, ListFields DEF ArchiveOrders, None
  <2>. QED  BY <1>10, <1>11, <2>1 DEF ArchiveOrders, Asked
<1>12. CASE ArchiveAnswered
  <2>1. list.query \in Query /\ list.bulk \in Query
    BY <1>12, ListFields DEF ArchiveAnswered, ListKeeps, NoList
  <2>2. CASE list' = [list EXCEPT !.bulk = None]
    BY <1>10, <2>1, <2>2 DEF Asked
  <2>3. CASE list' = [Asking(list, list.bulk) EXCEPT !.bulk = None, !.timer = list.timer]
    <3>. DEFINE l == [list EXCEPT !.bulk = None]
    <3>1. l \in ListRows /\ l.query = list.query
      BY <1>1 DEF ListRows, Asked
    <3>2. list' = [Asking(l, list.bulk) EXCEPT !.timer = list.timer]
      BY <1>1, <2>3 DEF Asking, ListRows
    <3>. HIDE DEF l
    <3>. QED  BY <1>1, <2>1, <3>1, <3>2, AskingKeeps
  <2>. QED  BY <1>12, <2>2, <2>3 DEF ArchiveAnswered
<1>. QED  BY <1>3, <1>4, <1>5, <1>6, <1>7, <1>8, <1>9, <1>11, <1>12 DEF ListPage

\* A page that opens waits for what staff picked, and nothing else.
LEMMA NavigateKeeps ==
  ASSUME Navigate
  PROVE  PagesInv'
<1>1. CASE page' = "CUSTOMERS" /\ inspector' = NoInspector /\ list' = NoList
           /\ \E c \in Entry : profiles' = OpenedProfiles(c)
  <2>1. PICK c \in Entry : profiles' = Loading([NoProfiles EXCEPT !.listed = Entry], c)
    BY <1>1 DEF OpenedProfiles
  <2>. DEFINE p == [NoProfiles EXCEPT !.listed = Entry]
  <2>2. p \in ProfileRows /\ p.named = None
    BY DEF NoProfiles, ProfileRows, Shown
  <2>. HIDE DEF p
  <2>3. ProfilesKeep'
    BY <2>1, <2>2, LoadingRow DEF p
  <2>. QED  BY <1>1, <2>3, EmptyPages DEF PagesInv
<1>2. CASE page' = "INSPECTOR" /\ profiles' = NoProfiles /\ list' = NoList
           /\ \E o \in Entry : inspector' = OpenedInspector(o)
  <2>1. PICK o \in Entry : inspector' = [NoInspector EXCEPT !.order = o, !.timer = TRUE]
    BY <1>2 DEF OpenedInspector
  <2>2. inspector' \in InspectorRows /\ inspector'.order = o /\ inspector'.timer = TRUE
        /\ inspector'.asked = {} /\ inspector'.named = None /\ inspector'.noting = {}
        /\ inspector'.reloads = {}
    BY <2>1 DEF NoInspector, InspectorRows, Shown
  <2>3. InspectorKeeps'
    BY <2>2 DEF InspectorKeeps, InspectorKeepsItsTitle
  <2>. QED  BY <1>2, <2>3, EmptyPages DEF PagesInv
<1>3. CASE page' = "LIST" /\ profiles' = NoProfiles /\ inspector' = NoInspector
           /\ \E kind \in {"ORDERS", "REVIEWS", "PRODUCTS", "REPORTS"}, q \in Query :
                list' = OpenedList(kind, q)
  <2>1. PICK kind \in {"ORDERS", "REVIEWS", "PRODUCTS", "REPORTS"}, q \in Query :
          list' = OpenedList(kind, q)
    BY <1>3
  <2>. DEFINE opened == [NoList EXCEPT !.kind = kind, !.query = q]
  <2>2. opened \in ListRows /\ opened.query = q
    BY DEF NoList, ListRows, Asked
  <2>3. ASSUME list' = Asking(opened, q) PROVE ListKeeps'
    <3>. HIDE DEF opened
    <3>. QED  BY <2>1, <2>2, <2>3, AskingKeeps
  <2>4. ASSUME list' = [opened EXCEPT !.timer = TRUE] PROVE ListKeeps'
    <3>1. list' \in ListRows /\ list'.query = q /\ list'.timer = TRUE /\ list'.asked = {}
      BY <2>2, <2>4 DEF NoList, ListRows
    <3>. QED  BY <2>1, <3>1 DEF ListKeeps
  <2>5. ListKeeps'
    BY <2>1, <2>3, <2>4 DEF OpenedList
  <2>. QED  BY <1>3, <2>5, EmptyPages DEF PagesInv
<1>. QED  BY <1>1, <1>2, <1>3 DEF Navigate

LEMMA PagesStep == PagesInv /\ [PagesNext]_pageVars => PagesInv'
<1>. SUFFICES ASSUME PagesInv, [PagesNext]_pageVars PROVE PagesInv'
  OBVIOUS
<1>1. ASSUME UNCHANGED profiles PROVE ProfilesKeep'
  BY <1>1 DEF PagesInv, ProfilesKeep, NoDialog, SelectionIsDue
<1>2. ASSUME UNCHANGED inspector PROVE InspectorKeeps'
  BY <1>2 DEF PagesInv, InspectorKeeps, InspectorKeepsItsTitle
<1>3. ASSUME UNCHANGED list PROVE ListKeeps'
  BY <1>3 DEF PagesInv, ListKeeps
<1>4. CASE UNCHANGED pageVars
  BY <1>1, <1>2, <1>3, <1>4 DEF pageVars, PagesInv
<1>5. CASE Navigate
  BY <1>5, NavigateKeeps
<1>6. CASE CustomersPage /\ UNCHANGED <<page, inspector, list>>
  BY <1>2, <1>3, <1>6, CustomersPageKeeps DEF PagesInv
<1>7. CASE InspectorPage /\ UNCHANGED <<page, profiles, list>>
  BY <1>1, <1>3, <1>7, InspectorPageKeeps DEF PagesInv
<1>8. CASE ListPage /\ UNCHANGED <<page, profiles, inspector>>
  BY <1>1, <1>2, <1>8, ListPageKeeps DEF PagesInv
<1>. QED  BY <1>4, <1>5, <1>6, <1>7, <1>8 DEF PagesNext

\* What the pages wait for is so throughout.
LEMMA PagesAlways == PagesSpec => []PagesInv
BY PagesStart, PagesStep, PTL DEF PagesSpec

LEMMA PagesTyped == PagesInv => PagesTypeOK
BY DEF PagesInv, PagesTypeOK, ProfilesKeep, InspectorKeeps, ListKeeps, ProfileRows,
       InspectorRows, ListRows

\* Whatever order answers come in, however staff click meanwhile, a page at rest
\* shows what was picked last, and a dialog acts on what it named.
THEOREM PagesFollow == PagesSpec => []PagesFollowStaff
<1>1. PagesInv => PagesFollowStaff
  <2>. SUFFICES ASSUME PagesInv PROVE PagesFollowStaff
    OBVIOUS
  <2>1. DialogKeepsItsName
    BY DEF PagesInv, ProfilesKeep, DialogKeepsItsName
  <2>2. ProfileIsSelected
    BY PagesConstants DEF PagesInv, ProfilesKeep, ProfileIsSelected, ProfileRows
  <2>3. InspectorKeepsItsTitle
    BY DEF PagesInv, InspectorKeeps
  <2>4. ListIsAskedFor
    BY DEF PagesInv, ListKeeps, ListIsAskedFor
  <2>. QED  BY <2>1, <2>2, <2>3, <2>4 DEF PagesFollowStaff
<1>. QED  BY PagesAlways, <1>1, PTL
-----------------------------------------------------------------------------
(* The parts together. *)

\* Every step of the office is a step, or a pause, of each of its parts.
LEMMA PartsStep ==
  [OfficeNext]_officeVars =>
    /\ [DeskNext]_deskVars /\ [AutomationNext]_autoVars /\ [ReviewNext]_reviewVars
    /\ [CustomersNext]_customerVars /\ [SessionsNext]_tabVars /\ [StaffNext]_staffVars
    /\ [PagesNext]_pageVars
BY DEF OfficeNext, officeVars

\* The office runs each of its parts as it is specified on its own, so that all
\* that is proved of a part holds of the part among the others.
THEOREM OfficeRunsItsParts ==
  OfficeSpec =>
    /\ DeskSpec /\ AutomationSpec /\ ReviewSpec /\ CustomersSpec /\ SessionsSpec /\ StaffSpec
    /\ PagesSpec
<1>1. OfficeInit => /\ DeskInit /\ AutomationInit /\ ReviewInit /\ CustomersInit
                    /\ SessionsInit /\ StaffInit /\ PagesInit
  BY DEF OfficeInit
<1>. QED  BY <1>1, PartsStep, PTL
          DEF OfficeSpec, DeskSpec, AutomationSpec, ReviewSpec, CustomersSpec, SessionsSpec,
              StaffSpec, PagesSpec

\* Each part's invariant holds its types.
LEMMA PartsAreTyped ==
  /\ DeskInv => DeskTypeOK
  /\ ReviewInv => ReviewTypeOK
  /\ CustomersInv => CustomersTypeOK
  /\ TabsInv => SessionsTypeOK
  /\ StaffInv => StaffTypeOK
  /\ PagesInv => PagesTypeOK
<1>1. DeskInv => DeskTypeOK
  BY DEF DeskInv
<1>2. ReviewInv => ReviewTypeOK
  BY DEF ReviewInv
<1>3. CustomersInv => CustomersTypeOK
  BY DEF CustomersInv
<1>4. TabsInv => SessionsTypeOK
  BY DEF TabsInv
<1>5. StaffInv => StaffTypeOK
  BY DEF StaffInv
<1>. QED  BY <1>1, <1>2, <1>3, <1>4, <1>5, PagesTyped

\* Orders, runs, reviews, customers, sessions, members and pages keep their
\* types, whichever part is in focus.
THEOREM OfficeTyped == OfficeSpec => []OfficeTypeOK
<1>1. DeskSpec => []DeskTypeOK
  BY DeskStarts, DeskStep, PartsAreTyped, PTL DEF DeskSpec
<1>2. ReviewSpec => []ReviewTypeOK
  BY ReviewStarts, ReviewStep, PartsAreTyped, PTL DEF ReviewSpec
<1>3. CustomersSpec => []CustomersTypeOK
  BY CustomersStart, CustomersStep, PartsAreTyped, PTL DEF CustomersSpec
<1>4. SessionsSpec => []SessionsTypeOK
  BY TabsAlways, PartsAreTyped, PTL
<1>5. StaffSpec => []StaffTypeOK
  BY StaffStarts, StaffStep, PartsAreTyped, PTL DEF StaffSpec
<1>6. PagesSpec => []PagesTypeOK
  BY PagesAlways, PartsAreTyped, PTL
<1>7. /\ DeskTypeOK /\ AutomationTypeOK /\ ReviewTypeOK /\ CustomersTypeOK /\ SessionsTypeOK
      /\ StaffTypeOK /\ PagesTypeOK
      => OfficeTypeOK
  BY DEF OfficeTypeOK
<1>. QED  BY OfficeRunsItsParts, AutomationTyped, <1>1, <1>2, <1>3, <1>4, <1>5, <1>6, <1>7, PTL

\* What the runs of the office check holds of it for any number of members of
\* staff, tabs, orders, reviews and customers.
THEOREM OfficeIsSafe ==
  OfficeSpec =>
    /\ [](PageShowsTruth /\ BooksBalance /\ HandoverIsPriced)
    /\ []RemindersAreQueued /\ PicksWhatIsDue
    /\ [](PublicIsCleared /\ RollupTells)
    /\ []OrdersKeepCustomer /\ RetentionRechecks
    /\ [](NoEarlyGoodbye /\ ControlStays /\ PagesFollowStaff)
BY OfficeRunsItsParts, PageTruth, BooksTell, HandoverPriced, RemindersQueued, PicksOnlyWhatIsDue,
   PublicReviewsCleared, RatingTells, OrdersStayWithCustomers, RetentionIsSafe,
   NobodyLeavesEarly, ControlIsKept, PagesFollow, PTL
=============================================================================
