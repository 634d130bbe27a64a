---------------------------- MODULE ProductWindow ----------------------------
(***************************************************************************)
(* The edit of a product's availability window, updateProduct              *)
(* (src/src/domain/products.ts), statement by statement: OrderCapacity     *)
(* takes it as one step.  It has no transaction, so orders are taken and   *)
(* rows planned between its reads and its writes, another member of staff  *)
(* may edit the same product, and the process may stop in the middle.      *)
(* One product, whose dates all have an availability row; an order takes   *)
(* one unit.                                                               *)
(***************************************************************************)
EXTENDS Naturals, FiniteSets

CONSTANTS
  LastDay,      \* the dates are 1..LastDay
  WindowOrder,  \* orders
  WindowEditor, \* members of staff that edit the product
  RowUnits      \* capacity of a row

ASSUME WindowConstants == LastDay \in Nat \ {0} /\ RowUnits \in Nat

Day == 1..LastDay
Windows == {w \in [from : Day, through : Day] : w.from <= w.through}

\* Mutant of InWindow: the day after the last one counts as inside.
InWindowAfter(d, w) == w.from <= d /\ d <= w.through + 1

InWindow(d, w) == w.from <= d /\ d <= w.through

VARIABLES
  shopWindow,   \* the product's availableFrom and availableThrough
  dayRow,       \* dayRow[d]: accepts, soldOut (NO, STAFF or WINDOW), reserved
  windowOrder,  \* windowOrder[o]: the date a live order is on, 0 for none
  edit,         \* edit[e]: where e's updateProduct is, with what it read
  byStaff,      \* history: dates whose last word from staff is "sold out"
  windowRaced,  \* history: two edits, or an edit and an intake, overlapped
  tidy          \* history: the last edit ran to its end and since then no
                \* edit has begun

windowVars == <<shopWindow, dayRow, windowOrder, edit, byStaff, windowRaced, tidy>>

Resting == [at |-> "REST", window |-> [from |-> 1, through |-> 1], reopen |-> {}]
Editing(at, w, reopen) == [at |-> at, window |-> w, reopen |-> reopen]
SomeoneEdits == \E e \in WindowEditor : edit[e].at # "REST"

OpenRow == [accepts |-> TRUE, soldOut |-> "NO", reserved |-> 0]

WindowInit ==
  /\ shopWindow \in Windows
  /\ dayRow = [d \in Day |-> OpenRow]
  /\ windowOrder = [o \in WindowOrder |-> 0]
  /\ edit = [e \in WindowEditor |-> Resting]
  /\ byStaff = {} /\ windowRaced = FALSE /\ tidy = FALSE

-----------------------------------------------------------------------------
(* Orders and planning, each one transaction. *)

\* intakeOrderCore without an override.
TakeOrder(o, d) ==
  /\ windowOrder[o] = 0
  /\ InWindow(d, shopWindow)
  /\ dayRow[d].accepts /\ dayRow[d].soldOut = "NO"
  /\ dayRow[d].reserved < RowUnits
  /\ windowOrder' = [windowOrder EXCEPT ![o] = d]
  /\ dayRow' = [dayRow EXCEPT ![d].reserved = @ + 1]
  /\ windowRaced' = (windowRaced \/ SomeoneEdits)
  /\ UNCHANGED <<shopWindow, edit, byStaff, tidy>>

\* Mutant of DropOrder: the order's new status is not saved.
DropOrderUnsaved(o) ==
  /\ windowOrder[o] # 0
  /\ dayRow' = [dayRow EXCEPT ![windowOrder[o]].reserved = @ - 1]
  /\ UNCHANGED <<windowOrder, shopWindow, edit, byStaff, windowRaced, tidy>>

\* transitionOrder to a cancelled status.
DropOrder(o) ==
  /\ windowOrder[o] # 0
  /\ dayRow' = [dayRow EXCEPT ![windowOrder[o]].reserved = @ - 1]
  /\ windowOrder' = [windowOrder EXCEPT ![o] = 0]
  /\ UNCHANGED <<shopWindow, edit, byStaff, windowRaced, tidy>>

\* updateAvailability: staff mark a date sold out or not, and whether it
\* accepts orders.
MarkRow(d, soldOut, accepts) ==
  /\ InWindow(d, shopWindow)
  /\ dayRow' = [dayRow EXCEPT ![d].soldOut = IF soldOut THEN "STAFF" ELSE "NO",
                              ![d].accepts = accepts]
  /\ byStaff' = IF soldOut THEN byStaff \cup {d} ELSE byStaff \ {d}
  /\ UNCHANGED <<shopWindow, windowOrder, edit, windowRaced, tidy>>
-----------------------------------------------------------------------------
(* updateProduct. *)

Leaves(e, from, to) ==
  /\ edit[e].at = from
  /\ edit' = [edit EXCEPT ![e].at = to]

\* The read of the active orders, and its check.
BeginEdit(e, w) ==
  /\ edit[e] = Resting
  /\ \A o \in WindowOrder : windowOrder[o] # 0 => InWindow(windowOrder[o], w)
  /\ edit' = [edit EXCEPT ![e] = Editing("ROWS", w, {})]
  /\ windowRaced' = (windowRaced \/ SomeoneEdits)
  /\ tidy' = FALSE
  /\ UNCHANGED <<shopWindow, dayRow, windowOrder, byStaff>>

\* The read of the reserved rows, and its check.
CheckRows(e) ==
  /\ \A d \in Day : dayRow[d].reserved > 0 => InWindow(d, edit[e].window)
  /\ Leaves(e, "ROWS", "LIST")
  /\ UNCHANGED <<shopWindow, dayRow, windowOrder, byStaff, windowRaced, tidy>>

\* "Only reopen rows explicitly closed by a previous product-window
\* contraction": told by the reason they carry.
ClosedByWindow(d, w) ==
  InWindow(d, w) /\ ~dayRow[d].accepts /\ dayRow[d].soldOut = "WINDOW"

ListRows(e) ==
  /\ edit[e].at = "LIST"
  /\ edit' = [edit EXCEPT ![e] = Editing("SAVE", edit[e].window,
                {d \in Day : ClosedByWindow(d, edit[e].window)})]
  /\ UNCHANGED <<shopWindow, dayRow, windowOrder, byStaff, windowRaced, tidy>>

SaveWindow(e) ==
  /\ Leaves(e, "SAVE", "CLOSE")
  /\ shopWindow' = edit[e].window
  /\ UNCHANGED <<dayRow, windowOrder, byStaff, windowRaced, tidy>>

\* Every row outside is closed, those staff had closed for a reason of their
\* own included: their reason is overwritten.
CloseRows(e) ==
  /\ Leaves(e, "CLOSE", "REOPEN")
  /\ dayRow' = [d \in Day |->
       IF InWindow(d, edit[e].window) THEN dayRow[d]
       ELSE [dayRow[d] EXCEPT !.accepts = FALSE, !.soldOut = "WINDOW"]]
  /\ UNCHANGED <<shopWindow, windowOrder, byStaff, windowRaced, tidy>>

\* Mutant of Reopens: the rows that the last edit closed stay closed.
ReopensNone(e, d) == FALSE

\* The reopening repeats the list's condition, if the list had any row.
Reopens(e, d) == edit[e].reopen # {} /\ ClosedByWindow(d, edit[e].window)

ReopenRows(e) ==
  /\ edit[e].at = "REOPEN"
  /\ dayRow' = [d \in Day |->
       IF Reopens(e, d) THEN [dayRow[d] EXCEPT !.accepts = TRUE, !.soldOut = "NO"]
       ELSE dayRow[d]]
  /\ edit' = [edit EXCEPT ![e] = Resting]
  /\ tidy' = ~\E f \in WindowEditor \ {e} : edit[f].at # "REST"
  /\ UNCHANGED <<shopWindow, windowOrder, byStaff, windowRaced>>

\* A refused check, an error or a crash ends the call where it is.
AbandonEdit(e) ==
  /\ edit[e].at # "REST"
  /\ edit' = [edit EXCEPT ![e] = Resting]
  /\ UNCHANGED <<shopWindow, dayRow, windowOrder, byStaff, windowRaced, tidy>>

WindowNext ==
  \/ \E o \in WindowOrder : DropOrder(o) \/ \E d \in Day : TakeOrder(o, d)
  \/ \E d \in Day, soldOut, accepts \in BOOLEAN : MarkRow(d, soldOut, accepts)
  \/ \E e \in WindowEditor :
       \/ \E w \in Windows : BeginEdit(e, w)
       \/ CheckRows(e) \/ ListRows(e) \/ SaveWindow(e)
       \/ CloseRows(e) \/ ReopenRows(e) \/ AbandonEdit(e)

WindowSpec == WindowInit /\ [][WindowNext]_windowVars
-----------------------------------------------------------------------------
WindowTypeOK ==
  /\ shopWindow \in Windows
  /\ dayRow \in [Day -> [accepts : BOOLEAN, soldOut : {"NO", "STAFF", "WINDOW"},
                         reserved : Nat]]
  /\ windowOrder \in [WindowOrder -> Day \cup {0}]
  /\ edit \in [WindowEditor -> [at : {"REST", "ROWS", "LIST", "SAVE", "CLOSE", "REOPEN"},
                                window : [from : Day, through : Day], reopen : SUBSET Day]]
  /\ byStaff \subseteq Day
  /\ windowRaced \in BOOLEAN /\ tidy \in BOOLEAN

\* "Availability window would exclude an active order": as long as nothing
\* overlaps an edit, no order is left outside its product's window, even
\* when edits die between two of their statements.
OrdersInWindow ==
  \A o \in WindowOrder : windowOrder[o] # 0 =>
    windowOrder[o] \in shopWindow.from..shopWindow.through \/ windowRaced

\* An edit that runs to its end puts in order what edits that died before it
\* left behind: outside the window every row is closed, inside none is still
\* closed on account of a window that is gone.
EditRepairs ==
  tidy /\ ~windowRaced =>
    \A d \in Day : ~InWindow(d, shopWindow) <=> dayRow[d].soldOut = "WINDOW"

\* "Staff closures must remain closed when the product window is expanded"
\* (products.ts:170).
StaffClosuresRemain == \A d \in byStaff : dayRow[d].soldOut # "NO"
=============================================================================
