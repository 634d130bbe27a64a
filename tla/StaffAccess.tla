----------------------------- MODULE StaffAccess -----------------------------
(***************************************************************************)
(* The staff list (src/src/domain/admin-user-actions.ts, access.ts): who   *)
(* is active, in which role, with which password.  A request reads its     *)
(* actor, then its target, checks the one against the other and writes in  *)
(* a transaction of its own, so two members of staff who act at once act   *)
(* on what they were before.  Anybody may have been granted the permission *)
(* to manage users; the grants themselves are left out, and the role       *)
(* CONTENT_CREATOR, which these checks treat as they treat STAFF.          *)
(***************************************************************************)
CONSTANT Member

Role == {"ADMIN", "MANAGER", "STAFF"}

\* OWN: chosen by the member.  TEMPORARY: issued, to be changed within a day.
\* LAPSED: it was not.
PasswordState == {"OWN", "TEMPORARY", "LAPSED"}

VARIABLES
  member,      \* member[u]: the row in users, the credential, the sessions
  deed,        \* deed[u]: the request of u between its checks and its write
  superseded,  \* history: a request was written by an actor changed meanwhile,
               \* or on a target made an administrator meanwhile
  overridden   \* history: a change of password undid one issued meanwhile

staffVars == <<member, deed, superseded, overridden>>

NotListed == [listed |-> FALSE, role |-> "STAFF", active |-> FALSE,
              password |-> "LAPSED", signedIn |-> FALSE]

\* actor is the row of u, and was the target's role, as the request read them.
NoDeed(u) == [kind |-> "NONE", target |-> u, to |-> "STAFF", actor |-> NotListed,
              was |-> "STAFF", current |-> FALSE]

InControl(row) == row.active /\ row.role = "ADMIN" /\ row.password = "OWN"

\* The shop starts with the administrator that its set-up script adds.
StaffInit ==
  /\ \E first \in Member :
       member = [u \in Member |-> IF u # first THEN NotListed ELSE
         [listed |-> TRUE, role |-> "ADMIN", active |-> TRUE, password |-> "OWN",
          signedIn |-> FALSE]]
  /\ deed = [u \in Member |-> NoDeed(u)]
  /\ superseded = FALSE /\ overridden = FALSE

-----------------------------------------------------------------------------
\* The hook of better-auth before a session is made.
SignIn(u) ==
  /\ member[u].active /\ member[u].password # "LAPSED"
  /\ member' = [member EXCEPT ![u].signedIn = TRUE]
  /\ UNCHANGED <<deed, superseded, overridden>>

\* The member signs out, or revokeSingleSession and revokeUserSessions do it.
SignOutOf(u) ==
  /\ member[u].signedIn
  /\ member' = [member EXCEPT ![u].signedIn = FALSE]
  /\ UNCHANGED <<deed, superseded, overridden>>

\* A day passes since the password was issued.
PasswordLapses(u) ==
  /\ member[u].password = "TEMPORARY"
  /\ member' = [member EXCEPT ![u].password = "LAPSED"]
  /\ UNCHANGED <<deed, superseded, overridden>>

\* currentAuthContext, then assertOperationalAccess for all but a change of
\* the own password.
Validated(u) == member[u].signedIn /\ member[u].active /\ member[u].password # "LAPSED"
Operational(u) == Validated(u) /\ member[u].password = "OWN"

\* The checks of actor against target that the operations share.
MayManage(u, v) ==
  \/ member[u].role = "ADMIN"
  \/ member[v].role # "ADMIN"
     /\ ~(member[u].role = "MANAGER" /\ member[v].role = "MANAGER")

Asks(u, kind, v, to) ==
  /\ deed[u].kind = "NONE"
  /\ deed' = [deed EXCEPT ![u] =
       [kind |-> kind, target |-> v, to |-> to, actor |-> member[u],
        was |-> member[v].role, current |-> TRUE]]
  /\ UNCHANGED <<member, superseded, overridden>>

\* updateUserProfileAndRole.
BeginRole(u, v, role) ==
  /\ Operational(u) /\ member[v].listed /\ u # v /\ MayManage(u, v)
  /\ role # member[v].role
  /\ role = "ADMIN" => member[u].role = "ADMIN"
  /\ Asks(u, "ROLE", v, role)

\* updateUserProfileAndRole for a new name alone, one's own too: it keeps the
\* role that it read.
BeginName(u, v) ==
  /\ Operational(u) /\ member[v].listed /\ (u = v \/ MayManage(u, v))
  /\ Asks(u, "NAME", v, member[v].role)

\* Mutant of MaySuspend: one's own account too.
MaySuspendAny(u, v) == MayManage(u, v)

MaySuspend(u, v) == u # v /\ MayManage(u, v)

\* toggleUserActive.
BeginActive(u, v, to) ==
  /\ Operational(u) /\ member[v].listed /\ MaySuspend(u, v)
  /\ member[v].active # (to = "ACTIVE")
  /\ Asks(u, "ACTIVE", v, to)

\* resetAdminUserPassword.
BeginReset(u, v) ==
  /\ Operational(u) /\ member[v].active /\ u # v /\ MayManage(u, v)
  /\ Asks(u, "RESET", v, "TEMPORARY")

\* changeOwnPassword: the password given is the member's.
BeginPassword(u) ==
  /\ Validated(u)
  /\ Asks(u, "PASSWORD", u, "OWN")

\* createUser, in one transaction that fails when the address is taken.
BeginCreate(u, v, role) ==
  /\ Operational(u) /\ ~member[v].listed
  /\ role = "ADMIN" => member[u].role = "ADMIN"
  /\ Asks(u, "CREATE", v, role)

\* What each write makes of the target's row; but for a name, it ends the
\* target's sessions.
RowAfter(kind, to, row) ==
  CASE kind = "NAME" -> [row EXCEPT !.role = to]
    [] kind = "ROLE" -> [row EXCEPT !.role = to, !.signedIn = FALSE]
    [] kind = "ACTIVE" -> [row EXCEPT !.active = (to = "ACTIVE"), !.signedIn = FALSE]
    [] kind \in {"RESET", "PASSWORD"} -> [row EXCEPT !.password = to, !.signedIn = FALSE]
    [] kind = "CREATE" -> [listed |-> TRUE, role |-> to, active |-> TRUE,
                           password |-> "TEMPORARY", signedIn |-> FALSE]

\* The conditions of the update statements: a reset needs an active row, a
\* change the hash it verified, and an address is unique.
MayWrite(d) ==
  /\ d.kind # "NONE"
  /\ d.kind = "RESET" => member[d.target].active
  /\ d.kind = "PASSWORD" => d.current
  /\ d.kind = "CREATE" => ~member[d.target].listed

\* The actor was in control when checked and no more; or the target was not an
\* administrator when checked, and now is.
OvertakenBy(d, u) ==
  \/ InControl(d.actor) /\ ~InControl(member[u])
  \/ d.was # "ADMIN" /\ member[d.target].role = "ADMIN"

Finish(u) ==
  LET d == deed[u] IN
  /\ MayWrite(d)
  /\ member' = [member EXCEPT ![d.target] = RowAfter(d.kind, d.to, @)]
  /\ deed' = [w \in Member |->
       IF w = u THEN NoDeed(u)
       ELSE [deed[w] EXCEPT !.current = @ /\ ~(w = d.target /\ d.kind \in {"RESET", "PASSWORD"})]]
  /\ superseded' = (superseded \/ (d.kind # "PASSWORD" /\ OvertakenBy(d, u)))
  /\ overridden' = (overridden \/ (d.kind = "PASSWORD" /\ ~d.current))

\* The write is refused, or the request is given up.
GiveUp(u) ==
  /\ deed[u].kind # "NONE"
  /\ deed' = [deed EXCEPT ![u] = NoDeed(u)]
  /\ UNCHANGED <<member, superseded, overridden>>

StaffNext ==
  \E u \in Member :
    \/ SignIn(u) \/ SignOutOf(u) \/ PasswordLapses(u) \/ BeginPassword(u)
    \/ Finish(u) \/ GiveUp(u)
    \/ \E v \in Member :
         \/ BeginReset(u, v) \/ BeginName(u, v)
         \/ \E to \in {"ACTIVE", "SUSPENDED"} : BeginActive(u, v, to)
         \/ \E role \in Role : BeginRole(u, v, role) \/ BeginCreate(u, v, role)

StaffSpec == StaffInit /\ [][StaffNext]_staffVars
-----------------------------------------------------------------------------
Row == [listed : BOOLEAN, role : Role, active : BOOLEAN, password : PasswordState,
        signedIn : BOOLEAN]

StaffTypeOK ==
  /\ member \in [Member -> Row]
  /\ deed \in [Member -> [kind : {"NONE", "NAME", "ROLE", "ACTIVE", "RESET", "PASSWORD", "CREATE"},
                          target : Member, actor : Row, was : Role, current : BOOLEAN,
                          to : Role \cup PasswordState \cup {"ACTIVE", "SUSPENDED"}]]
  /\ superseded \in BOOLEAN /\ overridden \in BOOLEAN

\* The staff list cannot lose everybody who controls it: some active ADMIN
\* with a password of their own remains, unless a request of an administrator
\* was written after that administrator had been suspended, demoted or reset,
\* or a request on somebody who had been made an administrator since it was
\* checked.
AnAdminRemains == (\E u \in Member : InControl(member[u])) \/ superseded

\* Control of the list stays where it was given: with an administrator, and a
\* password that staff issued is never undone by a change verified before it.
ControlStays == AnAdminRemains /\ ~overridden
=============================================================================
