--------------------------- MODULE OrderAutomation ---------------------------
(***************************************************************************)
(* The daily automation (runAutomation, src/src/domain/operations.ts) and  *)
(* the notifications it raises (notifications.ts).  A button of the        *)
(* dashboard starts it; nothing else does, so that two runs may overlap,   *)
(* each statement of a run is a step among those of staff, and a run may   *)
(* end anywhere.  What staff do to an order meanwhile is reduced to its    *)
(* status, its date and the version that every such change counts up.      *)
(***************************************************************************)
EXTENDS Naturals, OrderLifecycle

CONSTANTS
  DayOrder,  \* orders
  Runner,    \* runs of the automation
  Reader     \* members of staff that read notifications

VARIABLES
  dayOrder,  \* dayOrder[o]: its status, whether it is due today, whether it
             \* has been NEW for fifteen minutes
  hour,      \* the time of the day: "NIGHT", from ten "DAY", from 19 "EVENING"
  run,       \* run[r]: where r is, with the orders it listed
  raised,    \* the event keys of the notifications
  queued,    \* the event keys of the outbox jobs
  unread,    \* the notifications not yet read
  listing,   \* listing[m]: the unread notifications a bulk read has listed
  wentBy     \* history: wentBy[r]: the event keys r has gone by

autoVars == <<dayOrder, hour, run, raised, queued, unread, listing, wentBy>>

Keys == DayOrder \X {"OVERDUE", "READY"}

\* stale: orders changed since the listing, so that the version r holds of
\* them is not the row's.
Idle == [at |-> "IDLE", hour |-> "NIGHT", todo |-> {}, stale |-> {}, key |-> {}]

AutomationInit ==
  /\ dayOrder \in [DayOrder -> [status : {"NEW", "CONFIRMED"}, due : {TRUE}, waits : {FALSE}]]
  /\ hour = "NIGHT"
  /\ run = [r \in Runner |-> Idle]
  /\ raised = {} /\ queued = {} /\ unread = {}
  /\ listing = [m \in Reader |-> {}]
  /\ wentBy = [r \in Runner |-> {}]

-----------------------------------------------------------------------------
(* Time and staff. *)

\* Every change of o makes the version that runs hold of it stale.
Changed(o, row) ==
  /\ dayOrder' = [dayOrder EXCEPT ![o] = row]
  /\ run' = [r \in Runner |-> [run[r] EXCEPT !.stale = @ \cup ({o} \cap run[r].todo)]]

HourPasses ==
  /\ hour' = IF hour = "NIGHT" THEN "DAY" ELSE "EVENING"
  /\ hour # "EVENING"
  /\ UNCHANGED <<dayOrder, run, raised, queued, unread, listing, wentBy>>

\* Fifteen minutes have passed since o was placed; its row is untouched.
Waits(o) ==
  /\ dayOrder[o].status = "NEW" /\ ~dayOrder[o].waits
  /\ dayOrder' = [dayOrder EXCEPT ![o].waits = TRUE]
  /\ UNCHANGED <<hour, run, raised, queued, unread, listing, wentBy>>

\* The moves of staff the automation can tell apart: confirmed, picked, on.
StaffMoves(o, to) ==
  /\ to \in Transitions[dayOrder[o].status] \cap {"CONFIRMED", "PICKING", "READY", "CANCELLED"}
  /\ Changed(o, [dayOrder[o] EXCEPT !.status = to])
  /\ UNCHANGED <<hour, raised, queued, unread, listing, wentBy>>

\* An edit takes the order to another day, or back.
StaffReschedules(o) ==
  /\ dayOrder[o].status \in Live
  /\ Changed(o, [dayOrder[o] EXCEPT !.due = ~@])
  /\ UNCHANGED <<hour, raised, queued, unread, listing, wentBy>>

-----------------------------------------------------------------------------
(* A run. *)

At(r, at) == run[r].at = at

Goes(r, at, todo) ==
  run' = [run EXCEPT ![r].at = at, ![r].todo = todo, ![r].stale = {}, ![r].key = {}]

Due(status) == {o \in DayOrder : dayOrder[o].status = status /\ dayOrder[o].due}

\* From ten on, the confirmed orders of the day are listed.
StartRun(r) ==
  /\ At(r, "IDLE")
  /\ run' = [run EXCEPT ![r] = [Idle EXCEPT !.at = "PICK", !.hour = hour,
               !.todo = IF hour = "NIGHT" THEN {} ELSE Due("CONFIRMED")]]
  /\ wentBy' = [wentBy EXCEPT ![r] = {}]
  /\ UNCHANGED <<dayOrder, hour, raised, queued, unread, listing>>

\* Mutant of MayPick: the version is not compared.
MayPickAny(r, o) == dayOrder[o].status = "CONFIRMED"

MayPick(r, o) == o \notin run[r].stale /\ dayOrder[o].status = "CONFIRMED"

\* transitionOrder of one listed order, with the version listed.
PickOne(r, o) ==
  /\ At(r, "PICK") /\ o \in run[r].todo /\ MayPick(r, o)
  /\ dayOrder' = [dayOrder EXCEPT ![o].status = "PICKING"]
  /\ run' = [q \in Runner |-> IF q = r THEN [run[r] EXCEPT !.todo = @ \ {o}]
             ELSE [run[q] EXCEPT !.stale = @ \cup ({o} \cap run[q].todo)]]
  /\ UNCHANGED <<hour, raised, queued, unread, listing, wentBy>>

\* It throws for an order that has changed, and the run is over; or the run
\* stops for another reason.
RunEnds(r) ==
  /\ ~At(r, "IDLE")
  /\ run' = [run EXCEPT ![r] = Idle]
  /\ wentBy' = [wentBy EXCEPT ![r] = @ \ run[r].key]
  /\ UNCHANGED <<dayOrder, hour, raised, queued, unread, listing>>

ListOverdue(r) ==
  /\ At(r, "PICK") /\ run[r].todo = {}
  /\ Goes(r, "OVERDUE", {o \in DayOrder : dayOrder[o].status = "NEW" /\ dayOrder[o].waits})
  /\ UNCHANGED <<dayOrder, hour, raised, queued, unread, listing, wentBy>>

\* In the evening, what is still being picked.
ListReady(r) ==
  /\ At(r, "OVERDUE") /\ run[r].todo = {} /\ run[r].key = {}
  /\ Goes(r, "READY", IF run[r].hour = "EVENING" THEN Due("PICKING") ELSE {})
  /\ UNCHANGED <<dayOrder, hour, raised, queued, unread, listing, wentBy>>

\* Mutant of JobsOf: a job only for a notification that is new.
JobsOfNew(k) == {k} \ raised

\* notify enqueues a job for the key whether the notification was new or not.
JobsOf(k) == {k}

\* notify: the notification, unless its event key is there already.
Raise(r, o) ==
  /\ run[r].at \in {"OVERDUE", "READY"} /\ run[r].key = {} /\ o \in run[r].todo
  /\ LET k == <<o, run[r].at>> IN
       /\ raised' = raised \cup {k}
       /\ unread' = IF k \in raised THEN unread ELSE unread \cup {k}
       /\ run' = [run EXCEPT ![r].key = JobsOf(k), ![r].todo = @ \ {o}]
       /\ wentBy' = [wentBy EXCEPT ![r] = @ \cup {k}]
  /\ UNCHANGED <<dayOrder, hour, queued, listing>>

\* enqueue: the outbox job, unless its event key is there already.
Enqueue(r) ==
  /\ run[r].key # {}
  /\ queued' = queued \cup run[r].key
  /\ run' = [run EXCEPT ![r].key = {}]
  /\ UNCHANGED <<dayOrder, hour, raised, unread, listing, wentBy>>

RunCompletes(r) ==
  /\ At(r, "READY") /\ run[r].todo = {} /\ run[r].key = {}
  /\ run' = [run EXCEPT ![r] = Idle]
  /\ UNCHANGED <<dayOrder, hour, raised, queued, unread, listing, wentBy>>

-----------------------------------------------------------------------------
(* Reading. *)

\* markNotificationReadState.
MarkOne(k, read) ==
  /\ k \in raised
  /\ unread' = IF read THEN unread \ {k} ELSE unread \cup {k}
  /\ UNCHANGED <<dayOrder, hour, run, raised, queued, listing, wentBy>>

\* markFilteredNotificationsRead lists the ids, by category or all,
ListUnread(m, category) ==
  /\ listing[m] = {}
  /\ listing' = [listing EXCEPT ![m] = {k \in unread : category \in {k[2], "ALL"}}]
  /\ UNCHANGED <<dayOrder, hour, run, raised, queued, unread, wentBy>>

\* and marks those, whatever has come in between.
MarkListed(m) ==
  /\ listing[m] # {}
  /\ unread' = unread \ listing[m]
  /\ listing' = [listing EXCEPT ![m] = {}]
  /\ UNCHANGED <<dayOrder, hour, run, raised, queued, wentBy>>

AutomationNext ==
  \/ HourPasses
  \/ \E o \in DayOrder : Waits(o) \/ StaffReschedules(o) \/ \E to \in Status : StaffMoves(o, to)
  \/ \E r \in Runner :
       \/ StartRun(r) \/ ListOverdue(r) \/ ListReady(r)
       \/ \E o \in DayOrder : PickOne(r, o) \/ Raise(r, o)
       \/ Enqueue(r) \/ RunCompletes(r) \/ RunEnds(r)
  \/ \E k \in Keys, read \in BOOLEAN : MarkOne(k, read)
  \/ \E m \in Reader :
       \/ \E category \in {"OVERDUE", "READY", "ALL"} : ListUnread(m, category)
       \/ MarkListed(m)

AutomationSpec == AutomationInit /\ [][AutomationNext]_autoVars
-----------------------------------------------------------------------------
AutomationTypeOK ==
  /\ dayOrder \in [DayOrder -> [status : Status, due : BOOLEAN, waits : BOOLEAN]]
  /\ hour \in {"NIGHT", "DAY", "EVENING"}
  /\ run \in [Runner -> [at : {"IDLE", "PICK", "OVERDUE", "READY"},
                         hour : {"NIGHT", "DAY", "EVENING"}, todo : SUBSET DayOrder,
                         stale : SUBSET DayOrder, key : SUBSET Keys]]
  /\ raised \subseteq Keys /\ queued \subseteq Keys /\ unread \subseteq raised
  /\ listing \in [Reader -> SUBSET Keys] /\ wentBy \in [Runner -> SUBSET Keys]

\* The automation starts the picking of an order only on its day: an order
\* that staff take to another day, cancel or pick themselves after it was
\* listed is left alone, whatever other runs do.
PicksWhatIsDue ==
  [][\A r \in Runner, o \in DayOrder :
       At(r, "PICK") /\ o \in run[r].todo \ run'[r].todo /\ run'[r].at = "PICK" =>
         dayOrder[o].due /\ dayOrder[o].status = "CONFIRMED"]_autoVars

\* A run that has gone by an order leaves both its reminder and the job that
\* sends it, even when an earlier run stopped between the two; and no job is
\* without its reminder.
RemindersAreQueued ==
  /\ \A r \in Runner : wentBy[r] \ run[r].key \subseteq queued
  /\ queued \subseteq raised
=============================================================================
