--------------------------- MODULE OrderDeskProofs ---------------------------
(***************************************************************************)
(* Theorems about OrderDesk, for any members of staff and any prices.      *)
(*                                                                         *)
(* DeskInv is the inductive invariant: beside what the runs check, the     *)
(* total is always the sum of items and fee, a pickup has no fee, and no   *)
(* page shows an order that does not exist yet.                            *)
(***************************************************************************)
EXTENDS OrderDesk, TLAPS

PriceAddsUp ==
  /\ deskOrder.total = TotalOf(deskOrder.items, deskOrder.fee)
  /\ deskOrder.method = "PICKUP" => deskOrder.fee = 0

NothingToShow ==
  deskOrder.status = "ABSENT" => \A c \in Clerk : deskPage[c] = "CLOSED"

DeskInv ==
  /\ DeskTypeOK /\ PriceAddsUp /\ NothingToShow
  /\ PageShowsTruth /\ BooksBalance /\ HandoverIsPriced

DeskRow == [status : DeskStatus, method : Method, items : Nat, fee : Fees,
            total : Nat \cup {Unset}, paid : Nat, refunded : Nat,
            historical : BOOLEAN, archived : BOOLEAN, confirmed : BOOLEAN]
-----------------------------------------------------------------------------
USE DeskConstants

\* A total is agreed exactly when the fee is.
LEMMA Totals ==
  ASSUME NEW items \in Nat, NEW fee \in Fees
  PROVE  /\ TotalOf(items, fee) \in Nat \cup {Unset}
         /\ TotalOf(items, fee) = Unset <=> fee = Unset
         /\ TotalOf(items, 0) = items
BY DEF TotalOf, Fees, Unset

\* A price replaces the items, the fee and the total, and nothing else.
LEMMA PricedRow ==
  ASSUME NEW o \in DeskRow, NEW items \in Nat, NEW fee \in Fees
  PROVE  /\ Priced(o, items, fee) \in DeskRow
         /\ Priced(o, items, fee).items = items
         /\ Priced(o, items, fee).fee = fee
         /\ Priced(o, items, fee).total = TotalOf(items, fee)
         /\ \A f \in {"status", "method", "paid", "refunded", "historical", "archived", "confirmed"} :
              Priced(o, items, fee)[f] = o[f]
BY Totals DEF Priced, DeskRow

LEMMA BlankRow == Blank \in DeskRow
BY DEF Blank, DeskRow, DeskStatus, Fees, Method

\* The prices that the actions choose from.
LEMMA PriceTypes ==
  /\ \A p \in Prices : p[1] \in Nat /\ p[2] \in Fees
  /\ \A a \in Amounts : a \in Nat \ {0}
  /\ 0 \in Fees /\ Unset \notin Nat /\ CatalogPrice \in Nat
BY DEF Prices, Amounts, Fees, Unset

\* Pages go out of date or stay; only a wrong one needs an excuse.
LEMMA PageTypes ==
  ASSUME deskPage \in [Clerk -> PageState]
  PROVE  /\ PagesOutdated \in [Clerk -> PageState]
         /\ PagesMisled \in [Clerk -> PageState]
         /\ \A c \in Clerk : PagesOutdated[c] \in {"CLOSED", "OLD"}
BY DEF PagesOutdated, PagesMisled, PageState

-----------------------------------------------------------------------------
LEMMA DeskStarts == DeskInit => DeskInv
<1>. SUFFICES ASSUME DeskInit PROVE DeskInv
  OBVIOUS
<1>1. /\ deskOrder \in DeskRow /\ deskOrder.status = "ABSENT" /\ deskOrder.total = 0
      /\ deskOrder.items = 0 /\ deskOrder.fee = 0 /\ deskOrder.paid = 0
  BY BlankRow DEF DeskInit, Blank
<1>2. deskPage = [c \in Clerk |-> "CLOSED"] /\ till = 0 /\ feeTaken = FALSE /\ repriced = FALSE
  BY DEF DeskInit
<1>3. DeskTypeOK
  BY <1>1, <1>2 DEF DeskTypeOK, DeskRow, PageState
<1>4. PriceAddsUp /\ NothingToShow /\ PageShowsTruth
  BY <1>1, <1>2, Totals, PriceTypes DEF PriceAddsUp, NothingToShow, PageShowsTruth
<1>5. BooksBalance /\ HandoverIsPriced
  BY <1>1, <1>2 DEF BooksBalance, HandoverIsPriced, InTheBooks, Status, Live, Closed
<1>. QED  BY <1>3, <1>4, <1>5 DEF DeskInv

LEMMA OpenPageKeeps ==
  ASSUME DeskInv, NEW c \in Clerk, OpenPage(c)
  PROVE  DeskInv'
<1>1. deskPage' \in [Clerk -> PageState]
  BY DEF OpenPage, DeskInv, DeskTypeOK, PageState
<1>2. PageShowsTruth' /\ NothingToShow'
  BY DEF OpenPage, DeskInv, DeskTypeOK, PageShowsTruth, NothingToShow, InTheBooks, Status, Live, Closed
<1>. QED  BY <1>1, <1>2 DEF OpenPage, DeskInv, DeskTypeOK, PriceAddsUp, BooksBalance,
             HandoverIsPriced, InTheBooks

LEMMA PlaceOrderKeeps ==
  ASSUME DeskInv, NEW method \in Method, NEW items \in Nat, NEW fee \in Fees, NEW status,
         PlaceOrder(method, items, fee, status)
  PROVE  DeskInv'
<1>. DEFINE p == Priced(Blank, items, fee)
<1>1. p \in DeskRow /\ p.items = items /\ p.fee = fee /\ p.total = TotalOf(items, fee)
      /\ p.paid = 0 /\ p.refunded = 0
  BY BlankRow, PricedRow DEF Blank
<1>2. deskOrder' = [p EXCEPT !.method = method, !.status = status]
  BY DEF PlaceOrder
<1>3. status \in {"NEW", "CONFIRMED"} /\ (method = "PICKUP" => fee = 0)
  BY DEF PlaceOrder
<1>4. deskOrder' \in DeskRow
  BY <1>1, <1>2, <1>3 DEF DeskRow, DeskStatus, Status, Live
<1>5. /\ deskOrder'.status = status /\ deskOrder'.method = method /\ deskOrder'.paid = 0
      /\ deskOrder'.refunded = 0 /\ deskOrder'.items = items /\ deskOrder'.fee = fee
      /\ deskOrder'.total = TotalOf(items, fee)
  BY <1>1, <1>2 DEF DeskRow
<1>6. till = 0 /\ deskPage' = deskPage /\ till' = till
  BY DEF PlaceOrder, DeskInv, BooksBalance, InTheBooks, Status, Live, Closed
<1>7. \A c \in Clerk : deskPage[c] = "CLOSED"
  BY DEF PlaceOrder, DeskInv, NothingToShow
<1>8. DeskTypeOK'
  BY <1>4 DEF PlaceOrder, DeskInv, DeskTypeOK, DeskRow
<1>9. PriceAddsUp' /\ NothingToShow' /\ PageShowsTruth'
  BY <1>3, <1>5, <1>6, <1>7 DEF PriceAddsUp, NothingToShow, PageShowsTruth
<1>10. BooksBalance' /\ HandoverIsPriced'
  BY <1>3, <1>5, <1>6 DEF BooksBalance, HandoverIsPriced, InTheBooks, Status, Live, Closed
<1>. QED  BY <1>8, <1>9, <1>10 DEF DeskInv

LEMMA EnterHistoricalKeeps ==
  ASSUME DeskInv, NEW method \in Method, NEW items \in Nat, NEW fee \in Fees, NEW paid \in Nat,
         EnterHistorical(method, items, fee, paid)
  PROVE  DeskInv'
<1>. DEFINE p == Priced(Blank, items, fee)
            status == IF method = "PICKUP" THEN "PICKED_UP" ELSE "DELIVERED"
<1>1. p \in DeskRow /\ p.items = items /\ p.fee = fee /\ p.total = TotalOf(items, fee)
      /\ p.refunded = 0
  BY BlankRow, PricedRow DEF Blank
<1>2. deskOrder' = [p EXCEPT !.method = method, !.paid = paid, !.historical = TRUE,
                             !.status = status, !.confirmed = method = "PICKUP"]
  BY DEF EnterHistorical
<1>3. method = "PICKUP" => fee = 0
  BY DEF EnterHistorical
<1>4. deskOrder' \in DeskRow
  BY <1>1, <1>2 DEF DeskRow, DeskStatus, Status, Live, Closed
<1>5. /\ deskOrder'.status = status /\ deskOrder'.method = method /\ deskOrder'.paid = paid
      /\ deskOrder'.refunded = 0 /\ deskOrder'.items = items /\ deskOrder'.fee = fee
      /\ deskOrder'.total = TotalOf(items, fee)
  BY <1>1, <1>2 DEF DeskRow
<1>6. till' = paid /\ feeTaken' = (fee = Unset) /\ repriced' = (paid > 0) /\ deskPage' = deskPage
  BY DEF EnterHistorical
<1>7. \A c \in Clerk : deskPage[c] = "CLOSED"
  BY DEF EnterHistorical, DeskInv, NothingToShow
<1>8. DeskTypeOK'
  BY <1>4, <1>6 DEF DeskInv, DeskTypeOK, DeskRow
<1>9. PriceAddsUp' /\ NothingToShow' /\ PageShowsTruth'
  BY <1>3, <1>5, <1>6, <1>7 DEF PriceAddsUp, NothingToShow, PageShowsTruth
<1>10. method \in {"PICKUP", "DELIVERY"}
  BY DEF Method
<1>11. BooksBalance'
  BY <1>5, <1>6 DEF BooksBalance, InTheBooks, Status, Live, Closed
<1>12. (fee = Unset => feeTaken') /\ (paid > 0 => repriced')
  BY <1>6
<1>13. method = "PICKUP" => deskOrder'.total # Unset
  BY <1>3, <1>5, Totals DEF Unset
<1>14. HandoverIsPriced'
  BY <1>5, <1>10, <1>12, <1>13, Totals DEF HandoverIsPriced
<1>. QED  BY <1>8, <1>9, <1>11, <1>14 DEF DeskInv

\* What the three operations that change a price have in common.
LEMMA RepricingKeeps ==
  ASSUME DeskInv, InTheBooks, NEW method \in Method, NEW items \in Nat, NEW fee \in Fees,
         method = "PICKUP" => fee = 0,
         deskOrder.status \in Closed => method = deskOrder.method,
         deskOrder' = [Priced(deskOrder, items, fee) EXCEPT !.method = method],
         deskPage' = PagesOutdated, NotesPrice(deskOrder'), till' = till
  PROVE  DeskInv'
<1>. DEFINE p == Priced(deskOrder, items, fee)
<1>1. deskOrder \in DeskRow /\ deskPage \in [Clerk -> PageState]
  BY DEF DeskInv, DeskTypeOK, DeskRow
<1>2. /\ p \in DeskRow /\ p.items = items /\ p.fee = fee /\ p.total = TotalOf(items, fee)
      /\ p.status = deskOrder.status /\ p.paid = deskOrder.paid
      /\ p.refunded = deskOrder.refunded /\ p.historical = deskOrder.historical
  BY <1>1, PricedRow
<1>3. /\ deskOrder' \in DeskRow /\ deskOrder'.items = items /\ deskOrder'.fee = fee
      /\ deskOrder'.total = TotalOf(items, fee) /\ deskOrder'.method = method
      /\ deskOrder'.status = deskOrder.status /\ deskOrder'.paid = deskOrder.paid
      /\ deskOrder'.refunded = deskOrder.refunded /\ deskOrder'.historical = deskOrder.historical
  BY <1>2 DEF DeskRow
<1>4. feeTaken' \in BOOLEAN /\ repriced' \in BOOLEAN
  BY <1>1 DEF NotesPrice, DeskInv, DeskTypeOK
<1>5. DeskTypeOK'
  BY <1>1, <1>3, <1>4, PageTypes DEF DeskInv, DeskTypeOK, DeskRow
<1>6. PriceAddsUp' /\ NothingToShow' /\ PageShowsTruth'
  BY <1>1, <1>3, PageTypes
     DEF DeskInv, PriceAddsUp, NothingToShow, PageShowsTruth, InTheBooks, Status, Live, Closed
<1>7. BooksBalance'
  BY <1>3 DEF DeskInv, BooksBalance, InTheBooks
<1>8. /\ deskOrder'.status \in {"OUT_FOR_DELIVERY", "DELIVERED"} /\ deskOrder'.total = Unset => feeTaken'
      /\ deskOrder'.total # deskOrder.total /\ deskOrder.paid > 0 => repriced'
      /\ repriced => repriced'
  BY DEF NotesPrice
<1>9. method = "PICKUP" => deskOrder'.total # Unset
  BY <1>3, Totals, PriceTypes DEF Unset
<1>10. HandoverIsPriced'
  BY <1>3, <1>8, <1>9 DEF DeskInv, HandoverIsPriced, Closed
<1>. QED  BY <1>5, <1>6, <1>7, <1>10 DEF DeskInv

LEMMA EditOrderKeeps ==
  ASSUME DeskInv, NEW c \in Clerk, NEW method \in Method, NEW items \in Nat, NEW fee \in Fees,
         EditOrder(c, method, items, fee)
  PROVE  DeskInv'
BY RepricingKeeps DEF EditOrder, VersionHolds

\* A new price under the method the order has.
LEMMA SameMethodPriced ==
  ASSUME DeskInv, NEW items \in Nat, NEW fee \in Fees
  PROVE  /\ deskOrder.method \in Method
         /\ Priced(deskOrder, items, fee)
              = [Priced(deskOrder, items, fee) EXCEPT !.method = deskOrder.method]
<1>1. deskOrder \in DeskRow
  BY DEF DeskInv, DeskTypeOK, DeskRow
<1>2. Priced(deskOrder, items, fee) \in DeskRow
      /\ Priced(deskOrder, items, fee).method = deskOrder.method
  BY <1>1, PricedRow
<1>. QED  BY <1>1, <1>2 DEF DeskRow

LEMMA SetFeeKeeps ==
  ASSUME DeskInv, NEW c \in Clerk, NEW fee \in Fees, SetFee(c, fee)
  PROVE  DeskInv'
<1>1. deskOrder.items \in Nat
  BY DEF DeskInv, DeskTypeOK
<1>. QED  BY <1>1, SameMethodPriced, RepricingKeeps DEF SetFee, VersionHolds

LEMMA SetPriceKeeps ==
  ASSUME DeskInv, NEW c \in Clerk, NEW items \in Nat, NEW fee \in Fees, SetPrice(c, items, fee)
  PROVE  DeskInv'
BY SameMethodPriced, RepricingKeeps DEF SetPrice, VersionHolds
-----------------------------------------------------------------------------
\* The status machine, as far as the invariant needs it.
LEMMA Moves ==
  ASSUME NEW from \in Status, NEW method, NEW resolved \in BOOLEAN, NEW to \in Status,
         to \in LegalTransitions(from, method, resolved)
  PROVE  /\ to = "PICKED_UP" => method = "PICKUP" /\ resolved
         /\ to = "DELIVERED" => method = "DELIVERY" /\ from = "OUT_FOR_DELIVERY"
         /\ to = "OUT_FOR_DELIVERY" => resolved
<1>1. /\ to \in Transitions[from]
      /\ to = "PICKED_UP" => method = "PICKUP"
      /\ to \in {"OUT_FOR_DELIVERY", "DELIVERED"} => method = "DELIVERY"
      /\ to \in HandoverStatuses => resolved
  BY DEF LegalTransitions
<1>2. to = "DELIVERED" => from = "OUT_FOR_DELIVERY"
  BY <1>1 DEF Transitions, Status, Live, Closed
<1>. QED  BY <1>1, <1>2 DEF HandoverStatuses

LEMMA MoveKeeps ==
  ASSUME DeskInv, NEW to \in Status, Move(to)
  PROVE  DeskInv'
<1>1. deskOrder \in DeskRow /\ deskPage \in [Clerk -> PageState] /\ InTheBooks
  BY DEF DeskInv, DeskTypeOK, DeskRow, Move
<1>2. to \in LegalTransitions(deskOrder.status, deskOrder.method, deskOrder.total # Unset)
  BY DEF Move, MayMove
<1>3. /\ to = "PICKED_UP" => deskOrder.method = "PICKUP" /\ deskOrder.total # Unset
      /\ to = "DELIVERED" => deskOrder.method = "DELIVERY" /\ deskOrder.status = "OUT_FOR_DELIVERY"
      /\ to = "OUT_FOR_DELIVERY" => deskOrder.total # Unset
  BY <1>1, <1>2, Moves DEF InTheBooks
<1>4. /\ deskOrder' \in DeskRow /\ deskOrder'.status = to /\ deskOrder'.method = deskOrder.method
      /\ deskOrder'.items = deskOrder.items /\ deskOrder'.fee = deskOrder.fee
      /\ deskOrder'.total = deskOrder.total /\ deskOrder'.paid = deskOrder.paid
      /\ deskOrder'.refunded = deskOrder.refunded /\ deskOrder'.historical = deskOrder.historical
  BY <1>1 DEF Move, DeskRow, DeskStatus
<1>5. deskPage' = PagesOutdated /\ UNCHANGED <<till, feeTaken, repriced>>
  BY DEF Move
<1>6. DeskTypeOK'
  BY <1>1, <1>4, <1>5, PageTypes DEF DeskInv, DeskTypeOK, DeskRow
<1>7. PriceAddsUp' /\ NothingToShow' /\ PageShowsTruth'
  BY <1>1, <1>4, <1>5, PageTypes
     DEF DeskInv, PriceAddsUp, NothingToShow, PageShowsTruth, Status, Live, Closed
<1>8. BooksBalance'
  BY <1>1, <1>4, <1>5 DEF DeskInv, BooksBalance, InTheBooks
<1>9. HandoverIsPriced'
  BY <1>3, <1>4, <1>5 DEF DeskInv, HandoverIsPriced
<1>. QED  BY <1>6, <1>7, <1>8, <1>9 DEF DeskInv

\* Flags that nothing of the invariant reads.
LEMMA FlagsKeep ==
  ASSUME DeskInv, InTheBooks, UNCHANGED <<till, feeTaken, repriced>>,
         deskPage' \in {deskPage, PagesOutdated}, NEW flag \in BOOLEAN,
         \/ deskOrder' = [deskOrder EXCEPT !.archived = flag]
         \/ deskOrder' = [deskOrder EXCEPT !.confirmed = flag]
  PROVE  DeskInv'
<1>1. deskOrder \in DeskRow /\ deskPage \in [Clerk -> PageState]
  BY DEF DeskInv, DeskTypeOK, DeskRow
<1>2. /\ deskOrder' \in DeskRow /\ deskOrder'.status = deskOrder.status
      /\ deskOrder'.method = deskOrder.method
      /\ deskOrder'.items = deskOrder.items /\ deskOrder'.fee = deskOrder.fee
      /\ deskOrder'.total = deskOrder.total /\ deskOrder'.paid = deskOrder.paid
      /\ deskOrder'.refunded = deskOrder.refunded /\ deskOrder'.historical = deskOrder.historical
  BY <1>1 DEF DeskRow
<1>3. DeskTypeOK'
  BY <1>1, <1>2, PageTypes DEF DeskInv, DeskTypeOK, DeskRow
<1>4. PriceAddsUp' /\ NothingToShow' /\ PageShowsTruth'
  BY <1>1, <1>2, PageTypes
     DEF DeskInv, PriceAddsUp, NothingToShow, PageShowsTruth, InTheBooks, Status, Live, Closed
<1>5. BooksBalance' /\ HandoverIsPriced'
  BY <1>2 DEF DeskInv, BooksBalance, HandoverIsPriced, InTheBooks
<1>. QED  BY <1>3, <1>4, <1>5 DEF DeskInv

LEMMA ConfirmPickupKeeps ==
  ASSUME DeskInv, NEW c \in Clerk, ConfirmPickup(c)
  PROVE  DeskInv'
BY FlagsKeep DEF ConfirmPickup, VersionHolds

LEMMA ArchiveKeeps ==
  ASSUME DeskInv, NEW archived \in BOOLEAN, Archive(archived)
  PROVE  DeskInv'
BY FlagsKeep DEF Archive
-----------------------------------------------------------------------------
\* A payment leaves what is still to pay at least at zero, and the sum intact.
LEMMA PaymentKeeps ==
  ASSUME DeskInv, NEW amount \in Nat, RecordPayment(amount)
  PROVE  DeskInv'
<1>1. /\ deskOrder \in DeskRow /\ deskPage \in [Clerk -> PageState] /\ InTheBooks
      /\ deskOrder.total \in Nat /\ deskOrder.paid \in Nat /\ till \in Nat
  BY DEF DeskInv, DeskTypeOK, DeskRow, RecordPayment
<1>2. EffectiveTotal \in Nat /\ (deskOrder.total > 0 => EffectiveTotal = deskOrder.total)
  BY <1>1, PriceTypes DEF EffectiveTotal, GetsPriced
<1>3. /\ deskOrder' \in DeskRow /\ deskOrder'.status = deskOrder.status
      /\ deskOrder'.method = deskOrder.method /\ deskOrder'.fee = deskOrder.fee
      /\ deskOrder'.items = (IF GetsPriced THEN EffectiveTotal ELSE deskOrder.items)
      /\ deskOrder'.total = EffectiveTotal /\ deskOrder'.paid = deskOrder.paid + amount
      /\ deskOrder'.refunded = deskOrder.refunded /\ deskOrder'.historical = deskOrder.historical
  <2>. DEFINE items == IF GetsPriced THEN EffectiveTotal ELSE deskOrder.items
  <2>1. items \in Nat /\ deskOrder.paid + amount \in Nat
    BY <1>1, <1>2 DEF DeskRow
  <2>2. deskOrder' = [deskOrder EXCEPT !.items = items, !.total = EffectiveTotal,
                                       !.paid = deskOrder.paid + amount]
    BY DEF RecordPayment
  <2>. HIDE DEF items
  <2>3. /\ deskOrder' \in DeskRow /\ deskOrder'.status = deskOrder.status
        /\ deskOrder'.method = deskOrder.method /\ deskOrder'.fee = deskOrder.fee
        /\ deskOrder'.items = items
        /\ deskOrder'.total = EffectiveTotal /\ deskOrder'.paid = deskOrder.paid + amount
        /\ deskOrder'.refunded = deskOrder.refunded /\ deskOrder'.historical = deskOrder.historical
    BY <1>1, <1>2, <2>1, <2>2 DEF DeskRow
  <2>. QED  BY <2>3 DEF items
<1>4. /\ till' = till + amount /\ UNCHANGED <<feeTaken, repriced>>
      /\ deskPage' = IF deskOrder'.items # deskOrder.items THEN PagesMisled ELSE deskPage
      /\ deskOrder.paid + amount <= EffectiveTotal
  BY DEF RecordPayment
<1>5. DeskTypeOK'
  BY <1>1, <1>3, <1>4, PageTypes DEF DeskInv, DeskTypeOK, DeskRow
<1>6. GetsPriced => deskOrder.fee = 0 /\ deskOrder.items = 0
  <2>1. deskOrder.items \in Nat /\ deskOrder.fee \in Fees
    BY <1>1 DEF DeskRow
  <2>2. deskOrder.total = TotalOf(deskOrder.items, deskOrder.fee)
    BY DEF DeskInv, PriceAddsUp
  <2>. QED  BY <2>1, <2>2 DEF GetsPriced, TotalOf, Fees, Unset
<1>7. deskOrder'.total = TotalOf(deskOrder'.items, deskOrder'.fee)
  <2>1. CASE GetsPriced
    <3>1. deskOrder'.items = EffectiveTotal /\ deskOrder'.fee = 0 /\ EffectiveTotal \in Nat
      BY <2>1, <1>2, <1>3, <1>6
    <3>. QED  BY <3>1, <1>3, Totals, PriceTypes
  <2>2. CASE ~GetsPriced
    BY <2>2, <1>3 DEF EffectiveTotal, DeskInv, PriceAddsUp
  <2>. QED  BY <2>1, <2>2
<1>8. PriceAddsUp' /\ NothingToShow'
  BY <1>1, <1>3, <1>7
     DEF DeskInv, PriceAddsUp, NothingToShow, InTheBooks, Status, Live, Closed
<1>9. PageShowsTruth'
  BY <1>3, <1>4 DEF DeskInv, PageShowsTruth, GetsPriced
<1>10. BooksBalance'
  <2>1. till = deskOrder.paid - deskOrder.refunded /\ deskOrder.refunded \in Nat
    BY <1>1 DEF DeskInv, BooksBalance, DeskRow
  <2>. QED  BY <2>1, <1>1, <1>3, <1>4 DEF BooksBalance, InTheBooks
<1>11. HandoverIsPriced'
  BY <1>1, <1>2, <1>3, <1>4 DEF DeskInv, HandoverIsPriced, Unset
<1>. QED  BY <1>5, <1>8, <1>9, <1>10, <1>11 DEF DeskInv

LEMMA RefundKeeps ==
  ASSUME DeskInv, NEW amount \in Nat, RecordRefund(amount)
  PROVE  DeskInv'
<1>1. /\ deskOrder \in DeskRow /\ deskPage \in [Clerk -> PageState] /\ InTheBooks
      /\ deskOrder.refunded \in Nat /\ deskOrder.paid \in Nat /\ till \in Nat
  BY DEF DeskInv, DeskTypeOK, DeskRow, RecordRefund, InTheBooks, Status, Closed
<1>2. deskOrder.refunded + amount <= deskOrder.paid
  BY DEF RecordRefund
<1>3. /\ deskOrder' \in DeskRow /\ deskOrder'.status \in {deskOrder.status, "REFUNDED"}
      /\ deskOrder'.method = deskOrder.method /\ deskOrder'.fee = deskOrder.fee
      /\ deskOrder'.items = deskOrder.items /\ deskOrder'.total = deskOrder.total
      /\ deskOrder'.paid = deskOrder.paid /\ deskOrder'.refunded = deskOrder.refunded + amount
      /\ deskOrder'.historical = deskOrder.historical
  <2>. DEFINE status == IF deskOrder.refunded + amount >= deskOrder.paid THEN "REFUNDED"
                        ELSE deskOrder.status
              back == deskOrder.refunded + amount
  <2>1. back \in Nat /\ status \in {deskOrder.status, "REFUNDED"} /\ status \in DeskStatus
    BY <1>1 DEF DeskRow, DeskStatus, Status, Closed
  <2>2. deskOrder' = [deskOrder EXCEPT !.refunded = back, !.status = status]
    BY DEF RecordRefund
  <2>. HIDE DEF status, back
  <2>3. /\ deskOrder' \in DeskRow /\ deskOrder'.status = status
        /\ deskOrder'.method = deskOrder.method /\ deskOrder'.fee = deskOrder.fee
        /\ deskOrder'.items = deskOrder.items /\ deskOrder'.total = deskOrder.total
        /\ deskOrder'.paid = deskOrder.paid /\ deskOrder'.refunded = back
        /\ deskOrder'.historical = deskOrder.historical
    BY <1>1, <2>1, <2>2 DEF DeskRow
  <2>. QED  BY <2>1, <2>3 DEF back
<1>4. till' = till - amount /\ UNCHANGED <<feeTaken, repriced>>
      /\ deskPage' \in {PagesOutdated, deskPage}
  BY DEF RecordRefund, PagesAfterRefund
<1>5. till = deskOrder.paid - deskOrder.refunded
  BY <1>1 DEF DeskInv, BooksBalance
<1>6. till' \in Nat /\ till' = deskOrder'.paid - deskOrder'.refunded
  BY <1>1, <1>2, <1>3, <1>4, <1>5
<1>7. DeskTypeOK'
  BY <1>1, <1>3, <1>4, <1>6, PageTypes DEF DeskInv, DeskTypeOK, DeskRow
<1>8. PriceAddsUp' /\ NothingToShow' /\ PageShowsTruth'
  BY <1>1, <1>3, <1>4, PageTypes
     DEF DeskInv, PriceAddsUp, NothingToShow, PageShowsTruth, InTheBooks, Status, Live, Closed
<1>9. BooksBalance' /\ HandoverIsPriced'
  BY <1>1, <1>3, <1>4, <1>6
     DEF DeskInv, BooksBalance, HandoverIsPriced, InTheBooks, Status, Closed
<1>. QED  BY <1>7, <1>8, <1>9 DEF DeskInv

\* An order may go only when nothing of the customer's money is left.
LEMMA DeleteKeeps ==
  ASSUME DeskInv, DeleteOrder
  PROVE  DeskInv'
<1>1. deskOrder.refunded \in Nat /\ deskOrder.paid \in Nat /\ till \in Nat
      /\ deskPage \in [Clerk -> PageState] /\ InTheBooks
  BY DEF DeskInv, DeskTypeOK, DeleteOrder
<1>2. till = 0
  BY <1>1 DEF DeskInv, BooksBalance, DeleteOrder, MayDelete
<1>3. /\ deskOrder' \in DeskRow /\ deskOrder'.status = "DELETED" /\ deskOrder'.fee = 0
      /\ deskOrder'.items = 0 /\ deskOrder'.total = 0 /\ deskOrder'.paid = 0
  BY BlankRow DEF DeleteOrder, Blank, DeskRow, DeskStatus
<1>4. deskPage' = PagesOutdated /\ UNCHANGED <<till, feeTaken, repriced>>
  BY DEF DeleteOrder
<1>5. DeskTypeOK'
  BY <1>1, <1>3, <1>4, PageTypes DEF DeskInv, DeskTypeOK, DeskRow
<1>6. PriceAddsUp' /\ NothingToShow' /\ PageShowsTruth'
  BY <1>1, <1>3, <1>4, PageTypes, Totals, PriceTypes
     DEF PriceAddsUp, NothingToShow, PageShowsTruth
<1>7. BooksBalance' /\ HandoverIsPriced'
  BY <1>2, <1>3, <1>4 DEF BooksBalance, HandoverIsPriced, InTheBooks, Status, Live, Closed
<1>. QED  BY <1>5, <1>6, <1>7 DEF DeskInv
-----------------------------------------------------------------------------
LEMMA DeskStep == DeskInv /\ [DeskNext]_deskVars => DeskInv'
<1>. SUFFICES ASSUME DeskInv, [DeskNext]_deskVars PROVE DeskInv'
  OBVIOUS
<1>1. CASE UNCHANGED deskVars
  BY <1>1 DEF deskVars, DeskInv, DeskTypeOK, PriceAddsUp, NothingToShow, PageShowsTruth,
              BooksBalance, HandoverIsPriced, InTheBooks
<1>2. ASSUME NEW method \in Method, NEW p \in Prices, NEW status \in Live,
             PlaceOrder(method, p[1], p[2], status)
      PROVE  DeskInv'
  BY <1>2, PlaceOrderKeeps, PriceTypes
<1>3. ASSUME NEW method \in Method, NEW p \in Prices, NEW paid \in Amounts \cup {0},
             EnterHistorical(method, p[1], p[2], paid)
      PROVE  DeskInv'
  BY <1>3, EnterHistoricalKeeps, PriceTypes
<1>4. ASSUME NEW method \in Method, NEW p \in Prices, NEW c \in Clerk,
             EditOrder(c, method, p[1], p[2])
      PROVE  DeskInv'
  BY <1>4, EditOrderKeeps, PriceTypes
<1>5. ASSUME NEW c \in Clerk,
             \/ OpenPage(c) \/ ConfirmPickup(c)
             \/ \E fee \in Fees : SetFee(c, fee)
             \/ \E p \in Prices : SetPrice(c, p[1], p[2])
      PROVE  DeskInv'
  BY <1>5, OpenPageKeeps, ConfirmPickupKeeps, SetFeeKeeps, SetPriceKeeps, PriceTypes
<1>6. ASSUME NEW to \in Status, Move(to) PROVE DeskInv'
  BY <1>6, MoveKeeps
<1>7. ASSUME NEW archived \in BOOLEAN, Archive(archived) PROVE DeskInv'
  BY <1>7, ArchiveKeeps
<1>8. ASSUME NEW amount \in Amounts, RecordPayment(amount) \/ RecordRefund(amount) PROVE DeskInv'
  BY <1>8, PaymentKeeps, RefundKeeps, PriceTypes
<1>9. CASE DeleteOrder
  BY <1>9, DeleteKeeps
<1>. QED  BY <1>1, <1>2, <1>3, <1>4, <1>5, <1>6, <1>7, <1>8, <1>9 DEF DeskNext

LEMMA DeskAlways == DeskSpec => []DeskInv
BY DeskStarts, DeskStep, PTL DEF DeskSpec

\* A page that passes for current shows the order's status and price, for
\* every member of staff and every price, but for a historical order priced by
\* its first payment (the version check of orders.ts).
THEOREM PageTruth == DeskSpec => []PageShowsTruth
<1>1. DeskInv => PageShowsTruth
  BY DEF DeskInv
<1>. QED  BY DeskAlways, <1>1, PTL

\* The books tell the money: payments less refunds is what the till holds,
\* and no order is deleted with money of the customer in it.
THEOREM BooksTell == DeskSpec => []BooksBalance
<1>1. DeskInv => BooksBalance
  BY DEF DeskInv
<1>. QED  BY DeskAlways, <1>1, PTL

\* Nothing is handed over without the price that its way asks for, and nobody
\* pays more than the total, whatever is edited, repriced and moved between.
THEOREM HandoverPriced == DeskSpec => []HandoverIsPriced
<1>1. DeskInv => HandoverIsPriced
  BY DEF DeskInv
<1>. QED  BY DeskAlways, <1>1, PTL
-----------------------------------------------------------------------------
(* Orders move forward. *)

\* How far along its way a status is.
Progress(status) ==
  CASE status = "ABSENT" -> 0
    [] status = "NEW" -> 1
    [] status = "CONFIRMED" -> 2
    [] status = "PICKING" -> 3
    [] status = "READY" -> 4
    [] status = "OUT_FOR_DELIVERY" -> 5
    [] status \in Closed \ {"REFUNDED"} -> 6
    [] status = "REFUNDED" -> 7
    [] status = "DELETED" -> 8

\* The transition table has no way back.
LEMMA TransitionsGoForward ==
  \A from \in Status : \A to \in Transitions[from] : Progress(from) < Progress(to)
<1>. SUFFICES ASSUME NEW from \in Status, NEW to \in Transitions[from]
              PROVE  Progress(from) < Progress(to)
  OBVIOUS
<1>1. CASE from \in Live
  BY <1>1 DEF Transitions, Live, Closed, Progress
<1>2. CASE from \in Closed
  BY <1>2 DEF Transitions, Closed, Progress
<1>. QED  BY <1>1, <1>2 DEF Status

\* An order that changes its status, by a transition, a full refund or a
\* deletion, never returns to an earlier one: no operation of the desk reopens
\* an order that is closed, and nothing brings a deleted one back
\* (order-transitions.ts, recordRefund, deleteManagerOrder).
THEOREM OrdersMoveForward ==
  DeskSpec => [][deskOrder'.status # deskOrder.status =>
                   Progress(deskOrder.status) < Progress(deskOrder'.status)]_deskVars
<1>1. DeskInv /\ [DeskNext]_deskVars =>
        [deskOrder'.status # deskOrder.status =>
           Progress(deskOrder.status) < Progress(deskOrder'.status)]_deskVars
  <2>. SUFFICES ASSUME DeskInv, DeskNext, deskOrder'.status # deskOrder.status
                PROVE  Progress(deskOrder.status) < Progress(deskOrder'.status)
    OBVIOUS
  <2>0. deskOrder \in DeskRow
    BY DEF DeskInv, DeskTypeOK, DeskRow
  <2>1. ASSUME NEW method, NEW p \in Prices, NEW status, PlaceOrder(method, p[1], p[2], status)
        PROVE  Progress(deskOrder.status) < Progress(deskOrder'.status)
    <3>1. deskOrder.status = "ABSENT" /\ deskOrder'.status \in {"NEW", "CONFIRMED"}
      BY <2>1 DEF PlaceOrder, Priced, Blank
    <3>. QED  BY <3>1 DEF Progress, Closed
  <2>2. ASSUME NEW method, NEW p \in Prices, NEW paid,
               EnterHistorical(method, p[1], p[2], paid)
        PROVE  Progress(deskOrder.status) < Progress(deskOrder'.status)
    <3>1. deskOrder.status = "ABSENT" /\ deskOrder'.status \in {"PICKED_UP", "DELIVERED"}
      BY <2>2 DEF EnterHistorical, Priced, Blank
    <3>. QED  BY <3>1 DEF Progress, Closed
  <2>3. ASSUME NEW to \in Status, Move(to)
        PROVE  Progress(deskOrder.status) < Progress(deskOrder'.status)
    <3>1. deskOrder'.status = to
      BY <2>0, <2>3 DEF Move, DeskRow
    <3>2. deskOrder.status \in Status /\ to \in Transitions[deskOrder.status]
      BY <2>3 DEF Move, InTheBooks, MayMove, LegalTransitions
    <3>. QED  BY <3>1, <3>2, TransitionsGoForward
  <2>4. ASSUME NEW amount, RecordRefund(amount)
        PROVE  Progress(deskOrder.status) < Progress(deskOrder'.status)
    <3>1. /\ deskOrder.status \in {"PICKED_UP", "DELIVERED", "REFUNDED"}
          /\ deskOrder'.status \in {deskOrder.status, "REFUNDED"}
      BY <2>0, <2>4 DEF RecordRefund, DeskRow
    <3>. QED  BY <3>1 DEF Progress, Closed
  <2>5. CASE DeleteOrder
    <3>1. deskOrder.status \in Status /\ deskOrder'.status = "DELETED"
      BY <2>5 DEF DeleteOrder, Blank, InTheBooks
    <3>. QED  BY <3>1 DEF Progress, Status, Live, Closed
  <2>6. ASSUME NEW c \in Clerk, NEW method, NEW p \in Prices,
               EditOrder(c, method, p[1], p[2]) \/ SetPrice(c, p[1], p[2])
        PROVE  deskOrder'.status = deskOrder.status
    BY <2>0, <2>6 DEF EditOrder, SetPrice, Priced, DeskRow
  <2>7. ASSUME NEW archived, NEW amount, Archive(archived) \/ RecordPayment(amount)
        PROVE  deskOrder'.status = deskOrder.status
    BY <2>0, <2>7 DEF Archive, RecordPayment, DeskRow
  <2>8. ASSUME NEW c \in Clerk, OpenPage(c) \/ ConfirmPickup(c) \/ \E fee \in Fees : SetFee(c, fee)
        PROVE  deskOrder'.status = deskOrder.status
    BY <2>0, <2>8 DEF OpenPage, ConfirmPickup, SetFee, Priced, DeskRow
  <2>. QED  BY <2>1, <2>2, <2>3, <2>4, <2>5, <2>6, <2>7, <2>8 DEF DeskNext
<1>. QED  BY DeskAlways, <1>1, PTL DEF DeskSpec
=============================================================================
