------------------------------ MODULE OrderDesk ------------------------------
(***************************************************************************)
(* One order at the desk: its price, its payments and refunds, its way to  *)
(* the customer, and the pages of the members of staff who work on it      *)
(* (src/src/domain/orders.ts, operations.ts, admin-order-actions.ts and    *)
(* the order's page).  Every operation is one transaction; what happens to *)
(* capacity is OrderCapacity's.  Notes and delivery exceptions only add    *)
(* rows that nothing else reads, and are left out.                         *)
(***************************************************************************)
EXTENDS Integers, OrderLifecycle

CONSTANTS
  Clerk,        \* members of staff with the order's page open
  MaxItems,     \* bound: prices of the items are 0..MaxItems
  MaxFee,       \* bound: delivery fees are 0..MaxFee
  CatalogPrice  \* what the catalog asks for the items

ASSUME DeskConstants ==
  MaxItems \in Nat /\ MaxFee \in Nat /\ CatalogPrice \in 0..MaxItems

\* A fee or a total that is "to be agreed", null in the columns.
Unset == -1
Fees == (0..MaxFee) \cup {Unset}
TotalOf(items, fee) == IF fee = Unset THEN Unset ELSE items + fee

VARIABLES
  deskOrder,  \* the order's row, with the sums of its payments and refunds
  deskPage,   \* deskPage[c]: how c's page stands to the row
  till,       \* history: money received for the order less money given back
  feeTaken,   \* history: the fee was taken back after dispatch, or never set
              \* on a delivery entered afterwards
  repriced    \* history: the price changed, or was not checked, after money
              \* had been received

deskVars == <<deskOrder, deskPage, till, feeTaken, repriced>>

DeskStatus == Status \cup {"ABSENT", "DELETED"}
InTheBooks == deskOrder.status \in Status

\* CURRENT: the version and what is shown are the row's.  OLD: the version is
\* not.  WRONG: the version is, what is shown is not.
PageState == {"CLOSED", "CURRENT", "OLD", "WRONG"}

Blank == [status |-> "ABSENT", method |-> "PICKUP", items |-> 0, fee |-> 0,
          total |-> 0, paid |-> 0, refunded |-> 0, historical |-> FALSE,
          archived |-> FALSE, confirmed |-> FALSE]

DeskInit ==
  /\ deskOrder = Blank
  /\ deskPage = [c \in Clerk |-> "CLOSED"]
  /\ till = 0 /\ feeTaken = FALSE /\ repriced = FALSE

-----------------------------------------------------------------------------
(* The order's page. *)

\* The page loads the order, at first or to refresh.
OpenPage(c) ==
  /\ InTheBooks
  /\ deskPage' = [deskPage EXCEPT ![c] = "CURRENT"]
  /\ UNCHANGED <<deskOrder, till, feeTaken, repriced>>

\* The expectedVersion that c's page sends is the row's.
VersionHolds(c) == InTheBooks /\ deskPage[c] \in {"CURRENT", "WRONG"}

\* The pages after a write that counts the version up, and after one that
\* changes what they show without doing so.
PagesOutdated == [c \in Clerk |-> IF deskPage[c] = "CLOSED" THEN "CLOSED" ELSE "OLD"]
PagesMisled == [c \in Clerk |-> IF deskPage[c] = "CURRENT" THEN "WRONG" ELSE deskPage[c]]

Priced(o, items, fee) ==
  [o EXCEPT !.items = items, !.fee = fee, !.total = TotalOf(items, fee)]

\* Bookkeeping of the histories when the price becomes that of o.
NotesPrice(o) ==
  /\ feeTaken' = (feeTaken \/ (o.status \in {"OUT_FOR_DELIVERY", "DELIVERED", "REFUNDED"}
                               /\ o.total = Unset))
  /\ repriced' = (repriced \/ (o.total # deskOrder.total /\ deskOrder.paid > 0))

-----------------------------------------------------------------------------
(* Where orders come from. *)

\* intakeOrderCore: the form, or staff for a caller, who may know the fee.
PlaceOrder(method, items, fee, status) ==
  /\ deskOrder.status = "ABSENT"
  /\ status \in {"NEW", "CONFIRMED"}
  /\ method = "PICKUP" => fee = 0
  /\ deskOrder' = [Priced(Blank, items, fee) EXCEPT !.method = method, !.status = status]
  /\ UNCHANGED <<deskPage, till, feeTaken, repriced>>

\* createHistoricalOrder: a sale of the past, its payment taken as told.
EnterHistorical(method, items, fee, paid) ==
  /\ deskOrder.status = "ABSENT"
  /\ method = "PICKUP" => fee = 0
  /\ deskOrder' = [Priced(Blank, items, fee) EXCEPT
       !.method = method, !.paid = paid, !.historical = TRUE,
       !.status = IF method = "PICKUP" THEN "PICKED_UP" ELSE "DELIVERED",
       !.confirmed = method = "PICKUP"]
  /\ till' = paid
  /\ feeTaken' = (fee = Unset)
  /\ repriced' = (paid > 0)
  /\ UNCHANGED deskPage

-----------------------------------------------------------------------------
(* Changes of the order. *)

\* updateManagerOrder: the core of a closed order is locked.
EditOrder(c, method, items, fee) ==
  /\ VersionHolds(c)
  /\ deskOrder.status \in Closed =>
       method = deskOrder.method /\ items = deskOrder.items /\ fee = deskOrder.fee
  /\ method = "PICKUP" => fee = 0
  /\ deskOrder' = [Priced(deskOrder, items, fee) EXCEPT !.method = method]
  /\ deskPage' = PagesOutdated
  /\ NotesPrice(deskOrder')
  /\ UNCHANGED till

\* setDeliveryFee.
SetFee(c, fee) ==
  /\ VersionHolds(c)
  /\ deskOrder.method = "DELIVERY" /\ deskOrder.status # "CANCELLED"
  /\ fee # Unset
  /\ deskOrder' = Priced(deskOrder, deskOrder.items, fee)
  /\ deskPage' = PagesOutdated
  /\ NotesPrice(deskOrder')
  /\ UNCHANGED till

\* updateAdminOrderPricing: of closed orders too.
SetPrice(c, items, fee) ==
  /\ VersionHolds(c)
  /\ deskOrder.method = "PICKUP" => fee = 0
  /\ deskOrder' = Priced(deskOrder, items, fee)
  /\ deskPage' = PagesOutdated
  /\ NotesPrice(deskOrder')
  /\ UNCHANGED till

\* Mutant of MayMove: a handover does not wait for the total.
MayMoveUnpriced(to) == to \in LegalTransitions(deskOrder.status, deskOrder.method, TRUE)

MayMove(to) ==
  to \in LegalTransitions(deskOrder.status, deskOrder.method, deskOrder.total # Unset)

\* transitionOrder, for a page or for a caller that names no version and gets
\* the row's.
Move(to) ==
  /\ InTheBooks /\ MayMove(to)
  /\ deskOrder' = [deskOrder EXCEPT !.status = to, !.confirmed = @ \/ to = "PICKED_UP"]
  /\ deskPage' = PagesOutdated
  /\ UNCHANGED <<till, feeTaken, repriced>>

\* confirmPickup: noted before the handover, which is a transition.
ConfirmPickup(c) ==
  /\ VersionHolds(c)
  /\ deskOrder.method = "PICKUP" /\ deskOrder.status = "CONFIRMED" /\ ~deskOrder.confirmed
  /\ deskOrder' = [deskOrder EXCEPT !.confirmed = TRUE]
  /\ deskPage' = PagesOutdated
  /\ UNCHANGED <<till, feeTaken, repriced>>

\* archiveManagerOrder and unarchiveManagerOrder: the version stays.
Archive(archived) ==
  /\ InTheBooks
  /\ archived => deskOrder.status \in Closed
  /\ deskOrder' = [deskOrder EXCEPT !.archived = archived]
  /\ UNCHANGED <<deskPage, till, feeTaken, repriced>>

-----------------------------------------------------------------------------
(* Money. *)

\* A historical order entered without a price gets the catalog's with its
\* first payment, and keeps its version.
GetsPriced == deskOrder.historical /\ deskOrder.total = 0

EffectiveTotal == IF GetsPriced THEN CatalogPrice ELSE deskOrder.total

\* recordPayment.
RecordPayment(amount) ==
  /\ InTheBooks /\ deskOrder.status # "CANCELLED" /\ deskOrder.total # Unset
  /\ deskOrder.paid + amount <= EffectiveTotal
  /\ deskOrder' = [deskOrder EXCEPT
       !.items = IF GetsPriced THEN EffectiveTotal ELSE @,
       !.total = EffectiveTotal, !.paid = @ + amount]
  /\ deskPage' = IF deskOrder'.items # deskOrder.items THEN PagesMisled ELSE deskPage
  /\ till' = till + amount
  /\ UNCHANGED <<feeTaken, repriced>>

\* Mutant of PagesAfterRefund: the version stays.
PagesAfterRefundMisled(status) == IF status # deskOrder.status THEN PagesMisled ELSE deskPage

PagesAfterRefund(status) == IF status # deskOrder.status THEN PagesOutdated ELSE deskPage

\* recordRefund: the last cent makes the order REFUNDED.
RecordRefund(amount) ==
  /\ deskOrder.status \in {"PICKED_UP", "DELIVERED", "REFUNDED"} /\ deskOrder.total # Unset
  /\ deskOrder.refunded + amount <= deskOrder.paid
  /\ deskOrder' = [deskOrder EXCEPT
       !.refunded = @ + amount,
       !.status = IF deskOrder.refunded + amount >= deskOrder.paid THEN "REFUNDED" ELSE @]
  /\ deskPage' = PagesAfterRefund(deskOrder'.status)
  /\ till' = till - amount
  /\ UNCHANGED <<feeTaken, repriced>>

\* Mutant of MayDelete: an order that was refunded at all may go.
MayDeleteRefunded == deskOrder.paid = 0 \/ deskOrder.refunded > 0

MayDelete == deskOrder.paid - deskOrder.refunded <= 0

\* deleteManagerOrder: its payments go with it.
DeleteOrder ==
  /\ InTheBooks /\ MayDelete
  /\ deskOrder' = [Blank EXCEPT !.status = "DELETED"]
  /\ deskPage' = PagesOutdated
  /\ UNCHANGED <<till, feeTaken, repriced>>

Prices == (0..MaxItems) \X Fees
Amounts == 1..(MaxItems + MaxFee)

DeskNext ==
  \/ \E method \in Method, p \in Prices :
       \/ \E status \in Live : PlaceOrder(method, p[1], p[2], status)
       \/ \E paid \in Amounts \cup {0} : EnterHistorical(method, p[1], p[2], paid)
       \/ \E c \in Clerk : EditOrder(c, method, p[1], p[2])
  \/ \E c \in Clerk :
       \/ OpenPage(c) \/ ConfirmPickup(c)
       \/ \E fee \in Fees : SetFee(c, fee)
       \/ \E p \in Prices : SetPrice(c, p[1], p[2])
  \/ \E to \in Status : Move(to)
  \/ \E archived \in BOOLEAN : Archive(archived)
  \/ \E amount \in Amounts : RecordPayment(amount) \/ RecordRefund(amount)
  \/ DeleteOrder

DeskSpec == DeskInit /\ [][DeskNext]_deskVars
-----------------------------------------------------------------------------
DeskTypeOK ==
  /\ deskOrder \in [status : DeskStatus, method : Method, items : Nat, fee : Fees,
                    total : Nat \cup {Unset}, paid : Nat, refunded : Nat,
                    historical : BOOLEAN, archived : BOOLEAN, confirmed : BOOLEAN]
  /\ deskPage \in [Clerk -> PageState]
  /\ till \in Nat /\ feeTaken \in BOOLEAN /\ repriced \in BOOLEAN

\* The version stands for everything a page shows: whoever still holds the
\* row's version sees the row's status and price, unless it is a historical
\* order that a payment priced in the meantime.
PageShowsTruth ==
  (\E c \in Clerk : deskPage[c] = "WRONG") => deskOrder.historical

\* "Mutable order operations use orders.version/expectedVersion; stale writes
\* return STALE_VERSION" (docs/domain/invariants.md): no page that shows an old
\* price passes for current.  The first payment of a historical order breaks it.
StaleIsRefused == \A c \in Clerk : deskPage[c] # "WRONG"

\* The books tell the money: what is recorded is what was received less what
\* was given back, never negative, and an order that still holds money of a
\* customer is never deleted.
BooksBalance ==
  IF InTheBooks THEN till = deskOrder.paid - deskOrder.refunded /\ till >= 0
  ELSE till = 0

\* Nothing is handed over without a price, whatever was edited on the way:
\* goods picked up belong to a pickup order with its total, and a delivery
\* out or done has one unless staff took the fee back later; nobody has paid
\* more than the total unless the price changed after the payment.
HandoverIsPriced ==
  /\ deskOrder.status = "PICKED_UP" => deskOrder.method = "PICKUP" /\ deskOrder.total # Unset
  /\ deskOrder.status = "DELIVERED" => deskOrder.method = "DELIVERY"
  /\ deskOrder.status \in {"OUT_FOR_DELIVERY", "DELIVERED"} /\ deskOrder.total = Unset => feeTaken
  /\ deskOrder.paid > 0 /\ deskOrder.paid > deskOrder.total => repriced
=============================================================================
