------------------------ MODULE OrderAutomationProofs ------------------------
(***************************************************************************)
(* Theorems about OrderAutomation, for any orders, any number of runs that *)
(* overlap and any readers.                                                *)
(*                                                                         *)
(* AutomationInv is the inductive invariant: what a run has raised but not *)
(* queued is the one key it holds, and an order that it listed for picking *)
(* is either due or known to have changed.                                 *)
(***************************************************************************)
EXTENDS OrderAutomation, TLAPS

DayRows == [status : Status, due : BOOLEAN, waits : BOOLEAN]
Runs == [at : {"IDLE", "PICK", "OVERDUE", "READY"}, hour : {"NIGHT", "DAY", "EVENING"},
         todo : SUBSET DayOrder, stale : SUBSET DayOrder, key : SUBSET Keys]

\* The columns the proofs need; unread and listing follow none of them.
RunsTyped ==
  /\ dayOrder \in [DayOrder -> DayRows] /\ run \in [Runner -> Runs]
  /\ hour \in {"NIGHT", "DAY", "EVENING"} /\ wentBy \in [Runner -> SUBSET Keys]

KeysHeld ==
  \A r \in Runner :
    /\ run[r].at \in {"IDLE", "PICK"} => run[r].key = {}
    /\ run[r].key \subseteq raised

ListedAreDue ==
  \A r \in Runner : run[r].at = "PICK" =>
    \A o \in run[r].todo \ run[r].stale : dayOrder[o].due

AutomationInv == RunsTyped /\ KeysHeld /\ ListedAreDue /\ RemindersAreQueued
-----------------------------------------------------------------------------
LEMMA AutomationStarts == AutomationInit => AutomationInv
<1>. SUFFICES ASSUME AutomationInit PROVE AutomationInv
  OBVIOUS
<1>1. dayOrder \in [DayOrder -> DayRows]
  BY DEF AutomationInit, DayRows, Status, Live, Closed
<1>2. Idle \in Runs /\ Idle.at = "IDLE" /\ Idle.key = {}
  BY DEF Idle, Runs
<1>3. run = [r \in Runner |-> Idle] /\ wentBy = [r \in Runner |-> {}] /\ hour = "NIGHT"
      /\ raised = {} /\ queued = {}
  BY DEF AutomationInit
<1>4. RunsTyped
  BY <1>1, <1>2, <1>3 DEF RunsTyped
<1>5. KeysHeld /\ ListedAreDue /\ RemindersAreQueued
  BY <1>2, <1>3 DEF KeysHeld, ListedAreDue, RemindersAreQueued
<1>. QED  BY <1>4, <1>5 DEF AutomationInv

\* A change of an order makes every listing of it stale.
LEMMA ChangesKeep ==
  ASSUME AutomationInv, NEW o \in DayOrder, NEW row \in DayRows, Changed(o, row),
         UNCHANGED <<hour, raised, queued, wentBy>>
  PROVE  AutomationInv'
<1>1. /\ dayOrder' = [dayOrder EXCEPT ![o] = row]
      /\ run' = [r \in Runner |-> [run[r] EXCEPT !.stale = run[r].stale \cup ({o} \cap run[r].todo)]]
  BY DEF Changed
<1>2. \A r \in Runner :
        /\ run[r] \in Runs /\ run'[r] \in Runs
        /\ run'[r].at = run[r].at /\ run'[r].todo = run[r].todo /\ run'[r].key = run[r].key
        /\ run'[r].stale = run[r].stale \cup ({o} \cap run[r].todo)
  BY <1>1 DEF AutomationInv, RunsTyped, Runs
<1>3. RunsTyped'
  <2>1. dayOrder' \in [DayOrder -> DayRows]
    BY <1>1 DEF AutomationInv, RunsTyped
  <2>2. run' \in [Runner -> Runs]
    <3>1. DOMAIN run' = Runner /\ run' = [r \in Runner |-> run'[r]]
      BY <1>1
    <3>. QED  BY <1>2, <3>1
  <2>. QED  BY <2>1, <2>2 DEF AutomationInv, RunsTyped
<1>4. KeysHeld' /\ RemindersAreQueued'
  BY <1>2 DEF AutomationInv, KeysHeld, RemindersAreQueued
<1>5. ASSUME NEW r \in Runner, run'[r].at = "PICK", NEW p \in run'[r].todo \ run'[r].stale
      PROVE  dayOrder'[p].due
  <2>1. p \in run[r].todo \ run[r].stale /\ p # o /\ run[r].at = "PICK"
    BY <1>2, <1>5
  <2>2. p \in DayOrder
    BY <1>2, <2>1 DEF Runs
  <2>3. dayOrder'[p] = dayOrder[p]
    BY <1>1, <2>1, <2>2 DEF AutomationInv, RunsTyped
  <2>. QED  BY <2>1, <2>3 DEF AutomationInv, ListedAreDue
<1>6. ListedAreDue'
  BY <1>5 DEF ListedAreDue
<1>. QED  BY <1>3, <1>4, <1>6 DEF AutomationInv

LEMMA StaffKeep ==
  ASSUME AutomationInv, NEW o \in DayOrder,
         StaffReschedules(o) \/ \E to \in Status : StaffMoves(o, to)
  PROVE  AutomationInv'
<1>1. dayOrder[o] \in DayRows
  BY DEF AutomationInv, RunsTyped
<1>2. CASE StaffReschedules(o)
  <2>. DEFINE row == [dayOrder[o] EXCEPT !.due = ~dayOrder[o].due]
  <2>1. row \in DayRows
    BY <1>1 DEF DayRows
  <2>. QED  BY <1>2, <2>1, ChangesKeep DEF StaffReschedules
<1>3. ASSUME NEW to \in Status, StaffMoves(o, to) PROVE AutomationInv'
  <2>. DEFINE row == [dayOrder[o] EXCEPT !.status = to]
  <2>1. row \in DayRows
    BY <1>1 DEF DayRows
  <2>. QED  BY <1>3, <2>1, ChangesKeep DEF StaffMoves
<1>. QED  BY <1>2, <1>3

LEMMA TimeKeeps ==
  ASSUME AutomationInv, HourPasses \/ \E o \in DayOrder : Waits(o)
  PROVE  AutomationInv'
<1>1. CASE HourPasses
  BY <1>1 DEF HourPasses, AutomationInv, RunsTyped, KeysHeld, ListedAreDue, RemindersAreQueued
<1>2. ASSUME NEW o \in DayOrder, Waits(o) PROVE AutomationInv'
  <2>1. /\ dayOrder' \in [DayOrder -> DayRows]
        /\ \A p \in DayOrder : dayOrder'[p].due = dayOrder[p].due
    <3>. DEFINE row == [dayOrder[o] EXCEPT !.waits = TRUE]
    <3>1. dayOrder[o] \in DayRows /\ dayOrder' = [dayOrder EXCEPT ![o] = row]
      BY <1>2 DEF Waits, AutomationInv, RunsTyped
    <3>2. row \in DayRows /\ row.due = dayOrder[o].due
      BY <3>1 DEF DayRows
    <3>. HIDE DEF row
    <3>. QED  BY <3>1, <3>2 DEF AutomationInv, RunsTyped
  <2>2. UNCHANGED <<hour, run, raised, queued, wentBy>>
    BY <1>2 DEF Waits
  <2>3. RunsTyped'
    BY <2>1, <2>2 DEF AutomationInv, RunsTyped
  <2>4. ListedAreDue'
    BY <2>1, <2>2 DEF AutomationInv, ListedAreDue, RunsTyped, Runs
  <2>. QED  BY <2>2, <2>3, <2>4 DEF AutomationInv, KeysHeld, RemindersAreQueued
<1>. QED  BY <1>1, <1>2

LEMMA PickKeeps ==
  ASSUME AutomationInv, NEW r \in Runner, NEW o \in DayOrder, PickOne(r, o)
  PROVE  AutomationInv'
<1>1. /\ dayOrder' \in [DayOrder -> DayRows]
      /\ \A p \in DayOrder : dayOrder'[p].due = dayOrder[p].due
  BY DEF PickOne, AutomationInv, RunsTyped, DayRows, Status, Live
<1>2. run' = [q \in Runner |->
        IF q = r THEN [run[r] EXCEPT !.todo = run[r].todo \ {o}]
        ELSE [run[q] EXCEPT !.stale = run[q].stale \cup ({o} \cap run[q].todo)]]
  BY DEF PickOne
<1>3. \A q \in Runner :
        /\ run[q] \in Runs /\ run'[q] \in Runs
        /\ run'[q].at = run[q].at /\ run'[q].todo \subseteq run[q].todo /\ run'[q].key = run[q].key
        /\ run[q].stale \subseteq run'[q].stale
  BY <1>2 DEF AutomationInv, RunsTyped, Runs
<1>4. UNCHANGED <<hour, raised, queued, wentBy>>
  BY DEF PickOne
<1>5. RunsTyped'
  BY <1>1, <1>2, <1>3, <1>4 DEF AutomationInv, RunsTyped
<1>6. KeysHeld' /\ RemindersAreQueued'
  BY <1>3, <1>4 DEF AutomationInv, KeysHeld, RemindersAreQueued
<1>7. ListedAreDue'
  BY <1>1, <1>3 DEF AutomationInv, ListedAreDue, Runs
<1>. QED  BY <1>5, <1>6, <1>7 DEF AutomationInv

\* The steps of a run from one stage to another.
LEMMA RunsKeep ==
  ASSUME AutomationInv, NEW r \in Runner, NEW new \in Runs,
         run' = [run EXCEPT ![r] = new], UNCHANGED <<dayOrder, hour>>,
         wentBy' \in [Runner -> SUBSET Keys],
         \A q \in Runner \ {r} : wentBy'[q] = wentBy[q],
         wentBy'[r] \ new.key \subseteq queued',
         raised \subseteq raised', queued \subseteq queued', queued' \subseteq raised',
         new.key \subseteq raised', new.at \in {"IDLE", "PICK"} => new.key = {},
         new.at = "PICK" => \A o \in new.todo : dayOrder[o].due
  PROVE  AutomationInv'
<1>1. \A q \in Runner : run'[q] = IF q = r THEN new ELSE run[q]
  BY DEF AutomationInv, RunsTyped
<1>2. RunsTyped'
  BY DEF AutomationInv, RunsTyped
<1>3. KeysHeld'
  BY <1>1 DEF AutomationInv, KeysHeld
<1>4. ListedAreDue'
  BY <1>1 DEF AutomationInv, ListedAreDue
<1>5. RemindersAreQueued'
  BY <1>1 DEF AutomationInv, RemindersAreQueued
<1>. QED  BY <1>2, <1>3, <1>4, <1>5 DEF AutomationInv

LEMMA StagesKeep ==
  ASSUME AutomationInv, NEW r \in Runner,
         StartRun(r) \/ ListOverdue(r) \/ ListReady(r) \/ RunCompletes(r) \/ RunEnds(r)
  PROVE  AutomationInv'
<1>1. /\ run[r] \in Runs /\ Idle \in Runs /\ wentBy[r] \subseteq Keys
      /\ run[r].at \in {"IDLE", "PICK"} => run[r].key = {}
      /\ wentBy[r] \ run[r].key \subseteq queued /\ queued \subseteq raised
      /\ Idle.key = {} /\ Idle.at = "IDLE"
  BY DEF AutomationInv, RunsTyped, KeysHeld, RemindersAreQueued, Idle, Runs
<1>2. CASE StartRun(r)
  <2>. DEFINE new == [Idle EXCEPT !.at = "PICK", !.hour = hour,
                        !.todo = IF hour = "NIGHT" THEN {} ELSE Due("CONFIRMED")]
  <2>1. new \in Runs /\ new.key = {} /\ \A o \in new.todo : dayOrder[o].due
    BY <1>1 DEF Idle, Runs, Due, AutomationInv, RunsTyped
  <2>2. run' = [run EXCEPT ![r] = new] /\ wentBy' = [wentBy EXCEPT ![r] = {}]
        /\ UNCHANGED <<dayOrder, hour, raised, queued>>
    BY <1>2 DEF StartRun
  <2>3. wentBy' \in [Runner -> SUBSET Keys] /\ wentBy'[r] = {}
        /\ \A q \in Runner \ {r} : wentBy'[q] = wentBy[q]
    BY <2>2 DEF AutomationInv, RunsTyped
  <2>. HIDE DEF new
  <2>. QED  BY <2>1, <2>2, <2>3, <1>1, RunsKeep
<1>3. ASSUME NEW at \in {"OVERDUE", "READY"}, NEW todo \in SUBSET DayOrder, Goes(r, at, todo),
             run[r].key = {}, UNCHANGED <<dayOrder, hour, raised, queued, wentBy>>
      PROVE  AutomationInv'
  <2>. DEFINE new == [run[r] EXCEPT !.at = at, !.todo = todo, !.stale = {}, !.key = {}]
  <2>1. new \in Runs /\ new.key = {} /\ new.at = at
    BY <1>1 DEF Runs
  <2>2. run' = [run EXCEPT ![r] = new]
    BY <1>3 DEF Goes
  <2>. HIDE DEF new
  <2>. QED  BY <2>1, <2>2, <1>1, <1>3, RunsKeep DEF AutomationInv, RunsTyped
<1>4. CASE ListOverdue(r)
  BY <1>1, <1>3, <1>4 DEF ListOverdue, At
<1>5. CASE ListReady(r)
  <2>1. Due("PICKING") \subseteq DayOrder
    BY DEF Due
  <2>. QED  BY <1>3, <1>5, <2>1 DEF ListReady
<1>6. CASE RunCompletes(r)
  BY <1>1, <1>6, RunsKeep DEF RunCompletes, AutomationInv, RunsTyped
<1>7. CASE RunEnds(r)
  <2>1. run' = [run EXCEPT ![r] = Idle] /\ wentBy' = [wentBy EXCEPT ![r] = wentBy[r] \ run[r].key]
        /\ UNCHANGED <<dayOrder, hour, raised, queued>>
    BY <1>7 DEF RunEnds
  <2>2. wentBy' \in [Runner -> SUBSET Keys] /\ wentBy'[r] = wentBy[r] \ run[r].key
        /\ \A q \in Runner \ {r} : wentBy'[q] = wentBy[q]
    BY <2>1 DEF AutomationInv, RunsTyped
  <2>. QED  BY <2>1, <2>2, <1>1, RunsKeep
<1>. QED  BY <1>2, <1>4, <1>5, <1>6, <1>7

\* Notification and job: the key is held from the one to the other.
LEMMA RemindersKeep ==
  ASSUME AutomationInv, NEW r \in Runner, Enqueue(r) \/ \E o \in DayOrder : Raise(r, o)
  PROVE  AutomationInv'
<1>1. /\ run[r] \in Runs /\ wentBy[r] \subseteq Keys /\ run[r].key \subseteq raised
      /\ run[r].at \in {"IDLE", "PICK"} => run[r].key = {}
      /\ wentBy[r] \ run[r].key \subseteq queued /\ queued \subseteq raised
  BY DEF AutomationInv, RunsTyped, KeysHeld, RemindersAreQueued
<1>2. CASE Enqueue(r)
  <2>. DEFINE new == [run[r] EXCEPT !.key = {}]
  <2>1. new \in Runs /\ new.key = {} /\ new.at \notin {"IDLE", "PICK"}
    BY <1>1, <1>2 DEF Runs, Enqueue
  <2>2. run' = [run EXCEPT ![r] = new] /\ queued' = queued \cup run[r].key
        /\ UNCHANGED <<dayOrder, hour, raised, wentBy>>
    BY <1>2 DEF Enqueue
  <2>. HIDE DEF new
  <2>. QED  BY <2>1, <2>2, <1>1, RunsKeep DEF AutomationInv, RunsTyped
<1>3. ASSUME NEW o \in DayOrder, Raise(r, o) PROVE AutomationInv'
  <2>. DEFINE k == <<o, run[r].at>>
              new == [run[r] EXCEPT !.key = {k}, !.todo = run[r].todo \ {o}]
  <2>1. k \in Keys
    BY <1>3 DEF Keys, Raise
  <2>2. new \in Runs /\ new.key = {k} /\ new.at \in {"OVERDUE", "READY"}
    BY <1>1, <1>3, <2>1 DEF Runs, Raise
  <2>3. /\ run' = [run EXCEPT ![r] = new] /\ raised' = raised \cup {k}
        /\ wentBy' = [wentBy EXCEPT ![r] = wentBy[r] \cup {k}]
        /\ run[r].key = {} /\ UNCHANGED <<dayOrder, hour, queued>>
    BY <1>3 DEF Raise, JobsOf
  <2>4. wentBy' \in [Runner -> SUBSET Keys] /\ wentBy'[r] = wentBy[r] \cup {k}
        /\ \A q \in Runner \ {r} : wentBy'[q] = wentBy[q]
    BY <2>1, <2>3 DEF AutomationInv, RunsTyped
  <2>. HIDE DEF new, k
  <2>. QED  BY <2>2, <2>3, <2>4, <1>1, RunsKeep
<1>. QED  BY <1>2, <1>3

LEMMA ReadsKeep ==
  ASSUME AutomationInv, UNCHANGED <<dayOrder, hour, run, raised, queued, wentBy>>
  PROVE  AutomationInv'
BY DEF AutomationInv, RunsTyped, KeysHeld, ListedAreDue, RemindersAreQueued

LEMMA AutomationStep == AutomationInv /\ [AutomationNext]_autoVars => AutomationInv'
<1>. SUFFICES ASSUME AutomationInv, [AutomationNext]_autoVars PROVE AutomationInv'
  OBVIOUS
<1>1. CASE UNCHANGED autoVars
  BY <1>1, ReadsKeep DEF autoVars
<1>2. CASE AutomationNext
  BY <1>2, TimeKeeps, StaffKeep, PickKeeps, StagesKeep, RemindersKeep, ReadsKeep
     DEF AutomationNext, MarkOne, ListUnread, MarkListed
<1>. QED  BY <1>1, <1>2

\* What readers see follows the reminders, and changes nothing a run depends on.
ReadersTyped ==
  /\ raised \subseteq Keys /\ queued \subseteq Keys /\ unread \subseteq raised
  /\ listing \in [Reader -> SUBSET Keys]

LEMMA ReadersStep ==
  ASSUME AutomationInv, ReadersTyped, [AutomationNext]_autoVars
  PROVE  ReadersTyped'
<1>1. \A r \in Runner : run[r] \in Runs /\ run[r].key \subseteq Keys
  BY DEF AutomationInv, RunsTyped, Runs
<1>2. ASSUME UNCHANGED <<raised, queued, unread, listing>> PROVE ReadersTyped'
  BY <1>2 DEF ReadersTyped
<1>3. ASSUME NEW r \in Runner, NEW o \in DayOrder, Raise(r, o) PROVE ReadersTyped'
  <2>1. <<o, run[r].at>> \in Keys
    BY <1>3 DEF Raise, Keys
  <2>. QED  BY <1>3, <2>1 DEF Raise, ReadersTyped
<1>4. ASSUME NEW r \in Runner, Enqueue(r) PROVE ReadersTyped'
  BY <1>1, <1>4 DEF Enqueue, ReadersTyped
<1>5. ASSUME NEW k \in Keys, NEW read \in BOOLEAN, MarkOne(k, read) PROVE ReadersTyped'
  BY <1>5 DEF MarkOne, ReadersTyped
<1>6. ASSUME NEW m \in Reader, NEW category \in {"OVERDUE", "READY", "ALL"},
             ListUnread(m, category)
      PROVE  ReadersTyped'
  BY <1>6 DEF ListUnread, ReadersTyped
<1>7. ASSUME NEW m \in Reader, MarkListed(m) PROVE ReadersTyped'
  BY <1>7 DEF MarkListed, ReadersTyped
<1>8. CASE UNCHANGED autoVars
  BY <1>2, <1>8 DEF autoVars
<1>. QED  BY <1>2, <1>3, <1>4, <1>5, <1>6, <1>7, <1>8
          DEF AutomationNext, HourPasses, Waits, StaffReschedules, StaffMoves, Changed, StartRun,
              ListOverdue, ListReady, Goes, PickOne, RunCompletes, RunEnds

\* Runs, reminders, jobs and what readers listed keep their types, and no
\* reminder is unread that was never raised.
THEOREM AutomationTyped == AutomationSpec => []AutomationTypeOK
<1>1. AutomationInit => ReadersTyped
  BY DEF AutomationInit, ReadersTyped
<1>2. AutomationInv /\ ReadersTyped => AutomationTypeOK
  BY DEF AutomationInv, RunsTyped, DayRows, Runs, ReadersTyped, AutomationTypeOK
<1>. QED  BY AutomationStarts, AutomationStep, ReadersStep, <1>1, <1>2, PTL DEF AutomationSpec

\* However many runs overlap and wherever they stop, an order a run has gone by
\* has its reminder and the job that sends it (notify, notifications.ts).
THEOREM RemindersQueued == AutomationSpec => []RemindersAreQueued
<1>1. AutomationInv => RemindersAreQueued
  BY DEF AutomationInv
<1>. QED  BY AutomationStarts, AutomationStep, <1>1, PTL DEF AutomationSpec
-----------------------------------------------------------------------------
\* An order leaves a run's list for picking only by being picked.
LEMMA PicksStep ==
  ASSUME AutomationInv, AutomationNext, NEW r \in Runner, NEW o \in DayOrder,
         At(r, "PICK"), o \in run[r].todo \ run'[r].todo, run'[r].at = "PICK"
  PROVE  dayOrder[o].due /\ dayOrder[o].status = "CONFIRMED"
<1>0. run \in [Runner -> Runs]
  BY DEF AutomationInv, RunsTyped
<1>1. ASSUME NEW p \in DayOrder, NEW row, Changed(p, row) PROVE FALSE
  BY <1>1, <1>0 DEF Changed, Runs
<1>2. run' # run
  OBVIOUS
<1>3. ASSUME NEW q \in Runner, q # r, NEW new, run' = [run EXCEPT ![q] = new] PROVE FALSE
  BY <1>3
<1>4. ASSUME NEW new, run' = [run EXCEPT ![r] = new] PROVE run'[r] = new
  BY <1>4, <1>0
<1>5. ~StartRun(r) /\ ~RunEnds(r) /\ ~RunCompletes(r)
  BY <1>4 DEF StartRun, RunEnds, RunCompletes, At, Idle
<1>6. ~ListOverdue(r) /\ ~ListReady(r)
  BY <1>0 DEF ListOverdue, ListReady, At
<1>7. ~Enqueue(r) /\ \A p \in DayOrder : ~Raise(r, p)
  <2>1. run[r].key = {}
    BY DEF AutomationInv, KeysHeld, At
  <2>. QED  BY <2>1 DEF Enqueue, Raise, At
<1>8. \A q \in Runner : q # r =>
        /\ ~StartRun(q) /\ ~RunEnds(q) /\ ~RunCompletes(q) /\ ~ListOverdue(q) /\ ~ListReady(q)
        /\ ~Enqueue(q) /\ \A p \in DayOrder : ~Raise(q, p)
  BY <1>0 DEF StartRun, RunEnds, RunCompletes, ListOverdue, ListReady, Goes, Enqueue, Raise
<1>9. ~HourPasses /\ (\A p \in DayOrder : ~Waits(p))
      /\ (\A k \in Keys, read \in BOOLEAN : ~MarkOne(k, read))
      /\ (\A m \in Reader : ~MarkListed(m) /\ \A c \in {"OVERDUE", "READY", "ALL"} : ~ListUnread(m, c))
  BY DEF HourPasses, Waits, MarkOne, MarkListed, ListUnread
<1>10. \A p \in DayOrder : ~StaffReschedules(p) /\ \A to \in Status : ~StaffMoves(p, to)
  BY <1>1 DEF StaffReschedules, StaffMoves
<1>11. PICK q \in Runner, p \in DayOrder : PickOne(q, p)
  BY <1>5, <1>6, <1>7, <1>8, <1>9, <1>10 DEF AutomationNext
<1>12. q = r /\ p = o
  BY <1>0, <1>11 DEF PickOne, Runs
<1>13. o \notin run[r].stale /\ dayOrder[o].status = "CONFIRMED"
  BY <1>11, <1>12 DEF PickOne, MayPick
<1>. QED  BY <1>13 DEF AutomationInv, ListedAreDue, At

\* A run starts the picking only of an order that is confirmed and due at that
\* moment, whatever changed since the list was made (operations.ts).
THEOREM PicksOnlyWhatIsDue == AutomationSpec => PicksWhatIsDue
<1>1. AutomationInv /\ [AutomationNext]_autoVars =>
        [\A r \in Runner, o \in DayOrder :
           At(r, "PICK") /\ o \in run[r].todo \ run'[r].todo /\ run'[r].at = "PICK" =>
             dayOrder[o].due /\ dayOrder[o].status = "CONFIRMED"]_autoVars
  BY PicksStep
<1>. QED  BY AutomationStarts, AutomationStep, <1>1, PTL DEF AutomationSpec, PicksWhatIsDue
=============================================================================
