-------------------------- MODULE CapacityPlanner --------------------------
(***************************************************************************)
(* The availability planner (app/admin/availability): staff change a row   *)
(* from the copy their page holds, while orders, other staff and edits of  *)
(* the product change the row itself.  A save sends back every flag of the *)
(* copy, so what keeps it from undoing the work of others is the version   *)
(* of the row, which a save must name.  One product and one date.          *)
(*                                                                         *)
(* Versions only grow: a copy is refused for good once its version has     *)
(* passed, so such a copy is Passed, whatever it shows, and no number is   *)
(* kept.  A dialog of the page keeps the copy it was opened on, which is   *)
(* the page's before its next answer came.  Cutoff overrides are left out. *)
(***************************************************************************)
EXTENDS Naturals

CONSTANTS
  Planner,      \* members of staff with the planner open
  MostCapacity  \* bound of a date's capacity

ASSUME PlannerConstants == MostCapacity \in Nat

VARIABLES
  plannedRow,  \* the availability row; soldOut names who closed it
  dateInside,  \* whether the date is inside the product's window
  copy,        \* copy[s]: the row as the page of s shows it
  answer       \* answer[s]: what the page of s waits for

plannerVars == <<plannedRow, dateInside, copy, answer>>

Rows == [capacity : 0..MostCapacity, reserved : 0..MostCapacity,
         accepts : BOOLEAN, soldOut : {"NO", "STAFF", "WINDOW"}]

EmptyRow == [capacity |-> 0, reserved |-> 0, accepts |-> FALSE, soldOut |-> "NO"]

\* A copy that is HELD may be saved.  History: "unseen" says that an edit of the product
\* has rewritten the row's flags, and left its version, since the copy was read.
Copies == [is : {"NONE", "ASKED", "PASSED", "HELD"}, row : Rows, unseen : BOOLEAN]
No(is) == [is |-> is, row |-> EmptyRow, unseen |-> FALSE]
None == No("NONE")
Asked == No("ASKED")
Passed == No("PASSED")
CopyOf(r) == [is |-> "HELD", row |-> r, unseen |-> FALSE]

Sells(r) == r.accepts /\ r.soldOut = "NO"

\* getAvailabilityWorkspace: how a page marks the date.
MarkedSoldOut(r) == ~Sells(r) \/ r.capacity <= r.reserved

PlannerInit ==
  /\ plannedRow = [capacity |-> MostCapacity, reserved |-> 0, accepts |-> TRUE, soldOut |-> "NO"]
  /\ dateInside = TRUE
  /\ copy = [s \in Planner |-> None] /\ answer = [s \in Planner |-> None]
-----------------------------------------------------------------------------
(* The page: the last request is the one it hears. *)

\* Asked again within two seconds, the page is given the answer it already had.
AskRows(s) ==
  /\ \E a \in {Asked, copy[s]} : answer' = [answer EXCEPT ![s] = a]
  /\ UNCHANGED <<plannedRow, dateInside, copy>>

ReadRows(s) ==
  /\ answer[s] = Asked
  /\ answer' = [answer EXCEPT ![s] = CopyOf(plannedRow)]
  /\ UNCHANGED <<plannedRow, dateInside, copy>>

ShowRows(s) ==
  /\ answer[s].is \in {"PASSED", "HELD"}
  /\ copy' = [copy EXCEPT ![s] = answer[s]] /\ answer' = [answer EXCEPT ![s] = None]
  /\ UNCHANGED <<plannedRow, dateInside>>

RowsLost(s) ==
  /\ answer[s] # None
  /\ answer' = [answer EXCEPT ![s] = None]
  /\ UNCHANGED <<plannedRow, dateInside, copy>>
-----------------------------------------------------------------------------
(* Writes that count the version up. *)

\* Mutant of Outdated: a write leaves the version.
OutdatedNever(c) == c

Outdated(c) == IF c.is = "HELD" THEN Passed ELSE c

\* The row becomes r, and no copy read before may be saved any more.  The page that
\* wrote it then asks for the rows, or has lost the answer and does not know.
Write(r, askers) ==
  /\ plannedRow' = r
  /\ copy' = [s \in Planner |-> Outdated(copy[s])]
  /\ answer' \in {[s \in Planner |-> IF s \in asking THEN a ELSE Outdated(answer[s])] :
                    asking \in SUBSET askers, a \in {Asked, Passed}}
  /\ UNCHANGED dateInside

\* updateAvailability, from the page of s.
Save(s, r) ==
  /\ dateInside
  /\ plannedRow.reserved <= r.capacity
  /\ Write([r EXCEPT !.reserved = plannedRow.reserved], {s})

Current(s) == copy[s].is = "HELD"
Shown(s) == copy[s].row

\* The buttons for five litres more and less.
AdjustCapacity(s, capacity) ==
  /\ Current(s)
  /\ capacity + 1 = Shown(s).capacity \/ capacity = Shown(s).capacity + 1
  /\ Shown(s).reserved <= capacity
  /\ Save(s, [Shown(s) EXCEPT !.capacity = capacity])

\* The dialog for the capacity says nothing of whether the row accepts orders.
SaveCapacity(s, capacity) ==
  /\ Current(s)
  /\ Shown(s).reserved <= capacity
  /\ Save(s, [Shown(s) EXCEPT !.capacity = capacity, !.accepts = plannedRow.accepts])

FreezeDate(s) ==
  /\ Current(s) /\ ~MarkedSoldOut(Shown(s))
  /\ Save(s, [Shown(s) EXCEPT !.accepts = FALSE, !.soldOut = "STAFF"])

ReopenDate(s) ==
  /\ Current(s) /\ MarkedSoldOut(Shown(s))
  /\ Shown(s).reserved < Shown(s).capacity
  /\ Save(s, [Shown(s) EXCEPT !.accepts = TRUE, !.soldOut = "NO"])

\* The override itself is left out: the flags it sends back are not.
OverrideCutoff(s) == Current(s) /\ Save(s, Shown(s))

\* planAvailability reads the row again; of the preview before it, which changes
\* nothing, it takes the capacity alone.
PlanDate(s, capacity) ==
  /\ dateInside
  /\ plannedRow.reserved <= capacity
  /\ Write([plannedRow EXCEPT !.capacity = capacity, !.soldOut = "NO"], {s})

\* Intake, with its override, which disregards whether the row accepts orders.
ReserveVolume ==
  /\ plannedRow.soldOut = "NO"
  /\ plannedRow.reserved < plannedRow.capacity
  /\ Write([plannedRow EXCEPT !.reserved = @ + 1], {})

\* A cancelled, deleted or moved order.
ReleaseVolume ==
  /\ plannedRow.reserved > 0
  /\ Write([plannedRow EXCEPT !.reserved = @ - 1], {})
-----------------------------------------------------------------------------
(* The write that does not. *)

Unseen(c) == [c EXCEPT !.unseen = (c.is = "HELD")]

ShutByWindow(r) == ~r.accepts /\ r.soldOut = "WINDOW"

AfterEdit(r, inside) ==
  IF ~inside THEN [r EXCEPT !.accepts = FALSE, !.soldOut = "WINDOW"]
  ELSE IF ShutByWindow(r) THEN [r EXCEPT !.accepts = TRUE, !.soldOut = "NO"] ELSE r

\* updateProduct, which may leave the date inside its window or not; here it is one
\* step, ProductWindow has its statements apart.
EditProduct(inside) ==
  /\ ~inside => plannedRow.reserved = 0
  /\ dateInside' = inside
  /\ plannedRow' = AfterEdit(plannedRow, inside)
  /\ IF plannedRow' = plannedRow THEN UNCHANGED <<copy, answer>>
     ELSE /\ copy' = [s \in Planner |-> Unseen(copy[s])]
          /\ answer' = [s \in Planner |-> Unseen(answer[s])]

PlannerNext ==
  \/ \E s \in Planner :
       \/ AskRows(s) \/ ReadRows(s) \/ ShowRows(s) \/ RowsLost(s)
       \/ FreezeDate(s) \/ ReopenDate(s) \/ OverrideCutoff(s)
       \/ \E capacity \in 0..MostCapacity :
            AdjustCapacity(s, capacity) \/ SaveCapacity(s, capacity) \/ PlanDate(s, capacity)
  \/ ReserveVolume \/ ReleaseVolume
  \/ \E inside \in BOOLEAN : EditProduct(inside)

PlannerSpec == PlannerInit /\ [][PlannerNext]_plannerVars
-----------------------------------------------------------------------------
PlannerTypeOK ==
  /\ plannedRow \in Rows /\ plannedRow.reserved <= plannedRow.capacity
  /\ dateInside \in BOOLEAN
  /\ copy \in [Planner -> Copies] /\ answer \in [Planner -> Copies]

\* A copy tells the row's volumes, and its flags but for an edit of the product.
Tells(c) ==
  c.is = "HELD" =>
    /\ c.row.capacity = plannedRow.capacity /\ c.row.reserved = plannedRow.reserved
    /\ ~c.unseen => c.row = plannedRow

\* What a page can still save from is the row as it stands, whoever changed it in
\* between; the flags are excepted after an edit of the product, which leaves the
\* version.
CopiesTell == \A s \in Planner : Tells(copy[s]) /\ Tells(answer[s])

\* A date that is shut sells again only by the hand of somebody who saw it sold out,
\* by a plan, or by an edit of the product; and a date on sale is shut only by a
\* freeze, by an edit of the product, or from a page that has not seen such an edit.
\* Changes of capacity, however old their page, do neither.
FlagsByHand ==
  /\ ~Sells(plannedRow) /\ Sells(plannedRow') =>
       \/ \E s \in Planner : ReopenDate(s)
       \/ \E s \in Planner, capacity \in 0..MostCapacity : PlanDate(s, capacity)
       \/ EditProduct(TRUE)
  /\ Sells(plannedRow) /\ ~Sells(plannedRow') =>
       \/ \E s \in Planner : FreezeDate(s) \/ copy[s].unseen
       \/ EditProduct(FALSE)

\* Staff act on the row as it is, not as it was.
PlannersActOnTruth == [][CopiesTell' /\ FlagsByHand]_plannerVars
=============================================================================
