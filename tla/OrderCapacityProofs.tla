------------------------- MODULE OrderCapacityProofs -------------------------
(***************************************************************************)
(* Theorems about OrderCapacity, for any number of orders, products,       *)
(* packages, seasons, dates and capacities.                                *)
(***************************************************************************)
EXTENDS OrderCapacity, FiniteSetTheorems, TLAPS

-----------------------------------------------------------------------------
(* The operators the actions are built from. *)

\* There are four stages.
LEMMA StageValues == Stage = {"OPEN", "PREPARING", "OUT", "CLOSED"}
<1>1. \A status \in Status : StageOf(status) \in {"OPEN", "PREPARING", "OUT", "CLOSED"}
  BY DEF StageOf
<1>2. /\ "NEW" \in Status /\ StageOf("NEW") = "OPEN"
      /\ "PICKING" \in Status /\ StageOf("PICKING") = "PREPARING"
      /\ "OUT_FOR_DELIVERY" \in Status /\ StageOf("OUT_FOR_DELIVERY") = "OUT"
      /\ "PICKED_UP" \in Status /\ StageOf("PICKED_UP") = "CLOSED"
  BY DEF Status, Live, Closed, StageOf
<1> QED BY <1>1, <1>2 DEF Stage

CellType == [capacity : Nat, reserved : Int, accepts : BOOLEAN,
             soldOut : {"NO", "STAFF", "WINDOW"}]
OrderType == [stage : Stage \cup {"NONE", "DELETED"}, package : Package,
              date : Date, volume : Volume \cup {0},
              season : SeasonId \cup {NoSeason}, historical : BOOLEAN]
HeldType == [row : Row \cup {NoRow}, ml : Volume \cup {0}]
SeasonType == [product : Product, start : Date, end : Date, status : SeasonStatus]
WindowType == [from : Date, through : Date]

\* A row is named by a product, a season or none, and a date.
LEMMA RowAtType ==
  ASSUME NEW p \in Product, NEW s \in SeasonId \cup {NoSeason}, NEW d \in Date
  PROVE  /\ RowAt(p, s, d) \in Row
         /\ RowAt(p, s, d).product = p
         /\ RowAt(p, s, d).season = s
         /\ RowAt(p, s, d).date = d
BY DEF RowAt, Row

\* The seasons an operation finds are seasons that exist.
LEMMA SeasonsFound ==
  ASSUME TypeOK, NEW p, NEW d
  PROVE  /\ SeasonsOn(p, d) \subseteq SeasonId
         /\ IntakeSeasons(p, d) \subseteq SeasonId \cup {NoSeason}
         /\ SoleSeason(p, d) \in SeasonId \cup {NoSeason}
<1>1. SeasonsOn(p, d) \subseteq SeasonId
  BY DEF TypeOK, SeasonsOn
<1>2. IntakeSeasons(p, d) \subseteq SeasonId \cup {NoSeason}
  BY <1>1 DEF IntakeSeasons
<1>3. SoleSeason(p, d) \in SeasonId \cup {NoSeason}
  <2>1. CASE SeasonsOn(p, d) = {}
    BY <2>1 DEF SoleSeason
  <2>2. CASE SeasonsOn(p, d) # {}
    <3>1. (CHOOSE s \in SeasonsOn(p, d) : TRUE) \in SeasonsOn(p, d)
      BY <2>2
    <3> QED BY <1>1, <2>2, <3>1 DEF SoleSeason
  <2> QED BY <2>1, <2>2
<1> QED BY <1>1, <1>2, <1>3

\* An operation adds to or takes from the reserved column only.
LEMMA TakeGiveType ==
  ASSUME NEW cells \in [Row -> CellType], NEW r \in Row, NEW ml \in Int
  PROVE  /\ Take(cells, r, ml) \in [Row -> CellType]
         /\ Give(cells, r, ml) \in [Row -> CellType]
         /\ \A q \in Row :
              /\ Take(cells, r, ml)[q].capacity = cells[q].capacity
              /\ Give(cells, r, ml)[q].capacity = cells[q].capacity
              /\ Take(cells, r, ml)[q].reserved =
                   IF q = r THEN cells[q].reserved + ml ELSE cells[q].reserved
              /\ Give(cells, r, ml)[q].reserved =
                   IF q = r THEN cells[q].reserved - ml ELSE cells[q].reserved
BY DEF Take, Give, CellType

\* A blank order, a new one, and the volumes in them.
LEMMA FreshType == Fresh \in OrderType /\ Gone \in OrderType
<1>1. (CHOOSE k \in Package : TRUE) \in Package
  BY CapacityConstants
<1>2. 1 \in Date
  BY CapacityConstants DEF Date
<1> QED BY <1>1, <1>2 DEF Fresh, Gone, OrderType

LEMMA NewOrderType ==
  ASSUME TypeOK, NEW k \in Package, NEW d \in Date, NEW s \in SeasonId \cup {NoSeason}
  PROVE  NewOrder(k, s, d) \in OrderType
BY FreshType, StageValues DEF NewOrder, OrderType, TypeOK

-----------------------------------------------------------------------------
(* What holds whatever the staff do: BaseInv. *)

\* TypeOK with its sets named.
LEMMA TypeOKParts ==
  TypeOK <=> /\ today \in Date
             /\ window \in [Product -> WindowType]
             /\ seasons \subseteq SeasonId
             /\ season \in [SeasonId -> SeasonType]
             /\ size \in [Package -> Volume]
             /\ rows \subseteq Row
             /\ cell \in [Row -> CellType]
             /\ order \in [OrderId -> OrderType]
             /\ held \in [OrderId -> HeldType]
BY DEF TypeOK, WindowType, SeasonType, CellType, OrderType, HeldType

\* BaseInv from the next state, part by part.
LEMMA BaseParts ==
  ASSUME today' \in Date,
         window' \in [Product -> WindowType],
         seasons' \subseteq SeasonId,
         season' \in [SeasonId -> SeasonType],
         size' \in [Package -> Volume],
         rows' \subseteq Row,
         cell' \in [Row -> CellType],
         order' \in [OrderId -> OrderType],
         held' \in [OrderId -> HeldType],
         ReservedWithinCapacity', AbsentRowsEmpty'
  PROVE  BaseInv'
BY DEF BaseInv, TypeOK, WindowType, SeasonType, CellType, OrderType, HeldType

\* Volumes are natural numbers, positive for a package.
LEMMA VolumeNat ==
  /\ \A v \in Volume \cup {0} : v \in Nat
  /\ \A v \in Volume : v \in Nat \ {0}
BY CapacityConstants

LEMMA HoldingType ==
  /\ Nothing \in HeldType
  /\ \A r \in Row, v \in Volume : Holding(r, v) \in HeldType
BY DEF Nothing, Holding, HeldType

\* The row an order's product, date and a season name is a row.
LEMMA OrderRowType ==
  ASSUME TypeOK, NEW o \in OrderId, NEW s \in SeasonId \cup {NoSeason}
  PROVE  /\ OrderProduct(o) \in Product
         /\ order[o].date \in Date
         /\ RowAt(OrderProduct(o), s, order[o].date) \in Row
<1>1. order[o] \in OrderType
  BY TypeOKParts
<1>2. OrderProduct(o) \in Product
  BY <1>1, CapacityConstants DEF OrderProduct, OrderType
<1>3. order[o].date \in Date
  BY <1>1 DEF OrderType
<1> QED BY <1>2, <1>3, RowAtType

\* A table of cells in which no row is overcommitted, and how the two updates
\* of the reserved column keep it so.
Sound(cells) ==
  \A q \in Row : 0 <= cells[q].reserved /\ cells[q].reserved <= cells[q].capacity

LEMMA TakeSound ==
  ASSUME NEW cells \in [Row -> CellType], Sound(cells),
         NEW r \in Row, NEW ml \in Nat, ml <= Free(cells[r])
  PROVE  Sound(Take(cells, r, ml))
<1> SUFFICES ASSUME NEW q \in Row
             PROVE  /\ 0 <= Take(cells, r, ml)[q].reserved
                    /\ Take(cells, r, ml)[q].reserved <= Take(cells, r, ml)[q].capacity
  BY DEF Sound
<1>1. /\ Take(cells, r, ml)[q].capacity = cells[q].capacity
      /\ Take(cells, r, ml)[q].reserved =
           IF q = r THEN cells[q].reserved + ml ELSE cells[q].reserved
  BY TakeGiveType
<1>2. cells[q].reserved \in Int /\ cells[q].capacity \in Nat
  BY DEF CellType
<1>3. 0 <= cells[q].reserved /\ cells[q].reserved <= cells[q].capacity
  BY DEF Sound
<1>4. q = r => ml <= cells[q].capacity - cells[q].reserved
  BY DEF Free
<1> QED BY <1>1, <1>2, <1>3, <1>4

LEMMA GiveSound ==
  ASSUME NEW cells \in [Row -> CellType], Sound(cells),
         NEW r \in Row, NEW ml \in Nat, ml <= cells[r].reserved
  PROVE  Sound(Give(cells, r, ml))
<1> SUFFICES ASSUME NEW q \in Row
             PROVE  /\ 0 <= Give(cells, r, ml)[q].reserved
                    /\ Give(cells, r, ml)[q].reserved <= Give(cells, r, ml)[q].capacity
  BY DEF Sound
<1>1. /\ Give(cells, r, ml)[q].capacity = cells[q].capacity
      /\ Give(cells, r, ml)[q].reserved =
           IF q = r THEN cells[q].reserved - ml ELSE cells[q].reserved
  BY TakeGiveType
<1>2. cells[q].reserved \in Int /\ cells[q].capacity \in Nat
  BY DEF CellType
<1>3. 0 <= cells[q].reserved /\ cells[q].reserved <= cells[q].capacity
  BY DEF Sound
<1> QED BY <1>1, <1>2, <1>3

\* Both updates leave every other row alone.
LEMMA OtherRows ==
  ASSUME NEW cells \in [Row -> CellType], NEW r \in Row, NEW q \in Row, q # r, NEW ml
  PROVE  Take(cells, r, ml)[q] = cells[q] /\ Give(cells, r, ml)[q] = cells[q]
BY DEF Take, Give

LEMMA BaseInit == Init => BaseInv
<1> SUFFICES ASSUME Init PROVE BaseInv
  OBVIOUS
<1>1. today \in Date /\ 1 \in Date
  BY CapacityConstants DEF Init, Date
<1>2. window \in [Product -> WindowType]
  BY DEF Init, WindowType
<1>3. Product # {}
  BY CapacityConstants
<1>4. season \in [SeasonId -> SeasonType]
  <2>1. NoSuchSeason \in SeasonType
    <3>1. (CHOOSE p \in Product : TRUE) \in Product
      BY <1>3
    <3>2. (CHOOSE status \in SeasonStatus : TRUE) \in SeasonStatus
      BY CapacityConstants
    <3> QED BY <3>1, <3>2, <1>1 DEF NoSuchSeason, SeasonType
  <2> QED BY <2>1 DEF Init
<1>5. cell \in [Row -> CellType]
  BY DEF Init, NoCell, CellType
<1>6. order \in [OrderId -> OrderType]
  BY FreshType DEF Init
<1>7. held \in [OrderId -> HeldType]
  BY HoldingType DEF Init
<1>8. ReservedWithinCapacity /\ AbsentRowsEmpty
  BY DEF Init, NoCell, ReservedWithinCapacity, AbsentRowsEmpty
<1> QED BY <1>1, <1>2, <1>4, <1>5, <1>6, <1>7, <1>8, TypeOKParts DEF Init, BaseInv

\* A step that leaves rows and cells alone only has its own types to show.
LEMMA CellsAlone ==
  ASSUME BaseInv, UNCHANGED <<rows, cell>>
  PROVE  ReservedWithinCapacity' /\ AbsentRowsEmpty'
BY DEF BaseInv, ReservedWithinCapacity, AbsentRowsEmpty

LEMMA BaseIntake ==
  ASSUME BaseInv, NEW o \in OrderId, NEW k \in Package, NEW d \in Date,
         IntakeOrder(o, k, d)
  PROVE  BaseInv'
<1> USE DEF BaseInv
<1>1. PICK s \in IntakeSeasons(ProductOf[k], d) :
        LET r == RowAt(ProductOf[k], s, d) IN
          /\ r \in rows
          /\ Accepting(cell[r])
          /\ size[k] <= Free(cell[r])
          /\ cell' = Take(cell, r, size[k])
          /\ order' = [order EXCEPT ![o] = NewOrder(k, s, d)]
          /\ held' = [held EXCEPT ![o] = Holding(r, size[k])]
  BY DEF IntakeOrder
<1> DEFINE r == RowAt(ProductOf[k], s, d)
<1>2. s \in SeasonId \cup {NoSeason} /\ ProductOf[k] \in Product
  BY <1>1, SeasonsFound, CapacityConstants
<1>3. r \in Row
  BY <1>2, RowAtType
<1>4. size[k] \in Volume /\ size[k] \in Nat
  BY TypeOKParts, VolumeNat
<1>5. cell \in [Row -> CellType]
  BY TypeOKParts
<1>6. cell' \in [Row -> CellType]
  BY <1>1, <1>3, <1>4, <1>5, TakeGiveType
<1>7. order' \in [OrderId -> OrderType]
  BY <1>1, <1>2, NewOrderType, TypeOKParts
<1>8. held' \in [OrderId -> HeldType]
  BY <1>1, <1>3, <1>4, HoldingType, TypeOKParts
<1>9. ReservedWithinCapacity'
  BY <1>1, <1>3, <1>4, <1>5, TakeSound DEF ReservedWithinCapacity, Sound
<1>10. AbsentRowsEmpty'
  <2> SUFFICES ASSUME NEW q \in Row \ rows PROVE cell'[q] = NoCell
    BY DEF AbsentRowsEmpty, IntakeOrder
  <2>1. q # r
    BY <1>1
  <2> QED BY <2>1, <1>1, <1>3, <1>5, OtherRows DEF AbsentRowsEmpty
<1> QED BY <1>6, <1>7, <1>8, <1>9, <1>10, TypeOKParts, BaseParts DEF IntakeOrder, catalog

LEMMA BaseOverride ==
  ASSUME BaseInv, NEW o \in OrderId, NEW k \in Package, NEW d \in Date,
         IntakeOverride(o, k, d)
  PROVE  BaseInv'
<1> USE DEF BaseInv
<1> DEFINE r(s) == RowAt(ProductOf[k], s, d)
           c(s) == IF r(s) \in rows THEN cell[r(s)] ELSE NewCell(ProvisionedMl, "NO")
           cells(s) == [cell EXCEPT ![r(s)] = c(s)]
<1>1. PICK s \in IntakeSeasons(ProductOf[k], d) :
        /\ size[k] <= Free(c(s))
        /\ rows' = rows \cup {r(s)}
        /\ cell' = Take(cells(s), r(s), size[k])
        /\ order' = [order EXCEPT ![o] = NewOrder(k, s, d)]
        /\ held' = [held EXCEPT ![o] = Holding(r(s), size[k])]
  BY DEF IntakeOverride
<1>2. s \in SeasonId \cup {NoSeason} /\ ProductOf[k] \in Product
  BY <1>1, SeasonsFound, CapacityConstants
<1>3. r(s) \in Row
  BY <1>2, RowAtType
<1>4. size[k] \in Volume /\ size[k] \in Nat
  BY TypeOKParts, VolumeNat
<1>5. cell \in [Row -> CellType]
  BY TypeOKParts
<1>6. c(s) \in CellType /\ 0 <= c(s).reserved /\ c(s).reserved <= c(s).capacity
  <2>1. CASE r(s) \in rows
    BY <2>1, <1>3, <1>5 DEF ReservedWithinCapacity
  <2>2. CASE r(s) \notin rows
    BY <2>2, CapacityConstants DEF NewCell, CellType
  <2> QED BY <2>1, <2>2
<1>7. cells(s) \in [Row -> CellType] /\ cells(s)[r(s)] = c(s)
  BY <1>3, <1>5, <1>6
<1>8. Sound(cells(s))
  BY <1>3, <1>5, <1>6 DEF Sound, ReservedWithinCapacity
<1> HIDE DEF r, c, cells
<1>9. cell' \in [Row -> CellType]
  BY <1>1, <1>3, <1>4, <1>7, TakeGiveType
<1>10. order' \in [OrderId -> OrderType]
  BY <1>1, <1>2, NewOrderType, TypeOKParts
<1>11. held' \in [OrderId -> HeldType]
  BY <1>1, <1>3, <1>4, HoldingType, TypeOKParts
<1>12. ReservedWithinCapacity'
  <2>1. Sound(Take(cells(s), r(s), size[k]))
    BY <1>1, <1>3, <1>4, <1>7, <1>8, TakeSound
  <2> QED BY <2>1, <1>1 DEF ReservedWithinCapacity, Sound
<1>13. AbsentRowsEmpty'
  <2> SUFFICES ASSUME NEW q \in Row, q \notin rows' PROVE cell'[q] = NoCell
    BY DEF AbsentRowsEmpty
  <2>1. q # r(s) /\ q \notin rows
    BY <1>1
  <2>2. cells(s)[q] = cell[q]
    BY <2>1, <1>5 DEF cells
  <2> QED BY <2>1, <2>2, <1>1, <1>3, <1>7, OtherRows DEF AbsentRowsEmpty
<1>14. rows' \subseteq Row
  BY <1>1, <1>3, TypeOKParts
<1> QED BY <1>9, <1>10, <1>11, <1>12, <1>13, <1>14, TypeOKParts, BaseParts
        DEF IntakeOverride, catalog

LEMMA EditedType ==
  ASSUME TypeOK, NEW o \in OrderId, NEW k \in Package, NEW d \in Date
  PROVE  /\ Edited(o, k, d) \in OrderType
         /\ Edited(o, k, d).stage = order[o].stage
         /\ Edited(o, k, d).package = k
         /\ Edited(o, k, d).date = d
         /\ Edited(o, k, d).volume = size[k]
         /\ Edited(o, k, d).season = SoleSeason(ProductOf[k], d)
         /\ Edited(o, k, d).historical = order[o].historical
<1>1. order[o] \in OrderType /\ size[k] \in Volume
  BY TypeOKParts
<1>2. SoleSeason(ProductOf[k], d) \in SeasonId \cup {NoSeason}
  BY SeasonsFound
<1> QED BY <1>1, <1>2 DEF Edited, OrderType

LEMMA BaseEdit ==
  ASSUME BaseInv, NEW o \in OrderId, NEW k \in Package, NEW d \in Date,
         EditOrder(o, k, d)
  PROVE  BaseInv'
<1>1. order' \in [OrderId -> OrderType]
  BY EditedType, TypeOKParts DEF BaseInv, EditOrder
<1> QED BY <1>1, CellsAlone, TypeOKParts, BaseParts DEF BaseInv, EditOrder, catalog

\* The rows updateManagerOrder works on exist, hence are rows.
LEMMA BaseMove ==
  ASSUME BaseInv, NEW o \in OrderId, NEW k \in Package, NEW d \in Date,
         MoveOrder(o, k, d)
  PROVE  BaseInv'
<1> USE DEF BaseInv
<1> DEFINE p == OrderProduct(o)
           from == ResolvedRow(p, SoleSeason(p, order[o].date), order[o].date)
           to == ResolvedRow(ProductOf[k], SoleSeason(ProductOf[k], d), d)
           released == Give(cell, from, order[o].volume)
<1>1. /\ from \in rows /\ order[o].volume <= cell[from].reserved
      /\ to \in rows
      /\ size[k] <= Free(released[to])
      /\ cell' = Take(released, to, size[k])
      /\ held' = [held EXCEPT ![o] = Holding(to, size[k])]
      /\ order' = [order EXCEPT ![o] = Edited(o, k, d)]
  BY DEF MoveOrder
<1> HIDE DEF from, to
<1>2. from \in Row /\ to \in Row
  BY <1>1, TypeOKParts
<1>3. size[k] \in Volume /\ size[k] \in Nat /\ order[o].volume \in Nat
  BY TypeOKParts, VolumeNat DEF OrderType
<1>4. cell \in [Row -> CellType]
  BY TypeOKParts
<1>5. released \in [Row -> CellType]
  BY <1>2, <1>3, <1>4, TakeGiveType
<1>6. Sound(released)
  BY <1>1, <1>2, <1>3, <1>4, GiveSound DEF ReservedWithinCapacity, Sound
<1> HIDE DEF released
<1>7. cell' \in [Row -> CellType] /\ Sound(cell')
  BY <1>1, <1>2, <1>3, <1>5, <1>6, TakeGiveType, TakeSound
<1>8. ReservedWithinCapacity'
  BY <1>7 DEF ReservedWithinCapacity, Sound
<1>9. AbsentRowsEmpty'
  <2> SUFFICES ASSUME NEW q \in Row \ rows PROVE cell'[q] = NoCell
    BY DEF AbsentRowsEmpty, MoveOrder
  <2>1. q # from /\ q # to
    BY <1>1
  <2>2. released[q] = cell[q]
    BY <2>1, <1>2, <1>4, OtherRows DEF released
  <2> QED BY <2>1, <2>2, <1>1, <1>2, <1>5, OtherRows DEF AbsentRowsEmpty
<1>10. order' \in [OrderId -> OrderType]
  BY <1>1, EditedType, TypeOKParts
<1>11. held' \in [OrderId -> HeldType]
  BY <1>1, <1>2, <1>3, HoldingType, TypeOKParts
<1> QED BY <1>7, <1>8, <1>9, <1>10, <1>11, TypeOKParts, BaseParts DEF MoveOrder, catalog

LEMMA BaseAdvance ==
  ASSUME BaseInv, NEW o \in OrderId, NEW to \in Stage, AdvanceOrder(o, to)
  PROVE  BaseInv'
<1>1. order' \in [OrderId -> OrderType]
  BY TypeOKParts DEF BaseInv, AdvanceOrder, OrderType
<1> QED BY <1>1, CellsAlone, TypeOKParts, BaseParts DEF BaseInv, AdvanceOrder, catalog

\* Giving an order's volume back on a row that carries it.
LEMMA BaseGive ==
  ASSUME BaseInv, NEW o \in OrderId, NEW r \in rows, Releasable(o, r),
         cell' = Give(cell, r, order[o].volume), rows' = rows
  PROVE  cell' \in [Row -> CellType] /\ ReservedWithinCapacity' /\ AbsentRowsEmpty'
<1> USE DEF BaseInv
<1>1. r \in Row /\ order[o].volume \in Nat
  BY TypeOKParts, VolumeNat DEF OrderType
<1>2. cell \in [Row -> CellType]
  BY TypeOKParts
<1>3. Sound(cell')
  BY <1>1, <1>2, GiveSound DEF Releasable, ReservedWithinCapacity, Sound
<1>4. AbsentRowsEmpty'
  <2> SUFFICES ASSUME NEW q \in Row \ rows PROVE cell'[q] = NoCell
    BY DEF AbsentRowsEmpty
  <2>1. q # r
    OBVIOUS
  <2> QED BY <2>1, <1>1, <1>2, OtherRows DEF AbsentRowsEmpty
<1> QED BY <1>1, <1>2, <1>3, <1>4, TakeGiveType DEF ReservedWithinCapacity, Sound

\* The seasons a release looks in.
LEMMA ReleaseSeasonsType ==
  ASSUME TypeOK, NEW o \in OrderId
  PROVE  ReleaseSeasons(o) \subseteq SeasonId \cup {NoSeason}
<1>1. order[o].season \in SeasonId \cup {NoSeason}
  BY TypeOKParts DEF OrderType
<1> QED BY <1>1, SeasonsFound DEF ReleaseSeasons

LEMMA BaseRelease ==
  ASSUME BaseInv, NEW o \in OrderId, NEW to \in Stage, ReleaseOrder(o, to)
  PROVE  BaseInv'
<1>1. PICK s \in ReleaseSeasons(o) :
        LET r == RowAt(OrderProduct(o), s, order[o].date) IN
          /\ Releasable(o, r)
          /\ cell' = Give(cell, r, order[o].volume)
  BY DEF ReleaseOrder
<1>2. cell' \in [Row -> CellType] /\ ReservedWithinCapacity' /\ AbsentRowsEmpty'
  BY <1>1, BaseGive DEF ReleaseOrder, Releasable
<1>3. order' \in [OrderId -> OrderType]
  BY TypeOKParts DEF BaseInv, ReleaseOrder, OrderType
<1>4. held' \in [OrderId -> HeldType]
  BY TypeOKParts, HoldingType DEF BaseInv, ReleaseOrder
<1> QED BY <1>2, <1>3, <1>4, TypeOKParts, BaseParts DEF BaseInv, ReleaseOrder, catalog

LEMMA BaseDelete ==
  ASSUME BaseInv, NEW o \in OrderId, DeleteOrder(o)
  PROVE  BaseInv'
<1>1. order' \in [OrderId -> OrderType]
  BY TypeOKParts, FreshType DEF BaseInv, DeleteOrder
<1>2. CASE UNCHANGED <<cell, held>>
  BY <1>1, <1>2, CellsAlone, TypeOKParts, BaseParts DEF BaseInv, DeleteOrder, catalog
<1>3. CASE \E s \in ReleaseSeasons(o) :
             LET r == RowAt(OrderProduct(o), s, order[o].date) IN
               /\ Releasable(o, r)
               /\ cell' = Give(cell, r, order[o].volume)
               /\ held' = [held EXCEPT ![o] = Nothing]
  <2>1. cell' \in [Row -> CellType] /\ ReservedWithinCapacity' /\ AbsentRowsEmpty'
    BY <1>3, BaseGive DEF DeleteOrder, Releasable
  <2>2. held' \in [OrderId -> HeldType]
    BY <1>3, TypeOKParts, HoldingType DEF BaseInv
  <2> QED BY <1>1, <2>1, <2>2, TypeOKParts, BaseParts DEF BaseInv, DeleteOrder, catalog
<1> QED BY <1>2, <1>3 DEF DeleteOrder

LEMMA BaseHistorical ==
  ASSUME BaseInv, NEW o \in OrderId, NEW k \in Package, NEW d \in Date,
         CreateHistorical(o, k, d)
  PROVE  BaseInv'
<1>1. NewOrder(k, NoSeason, d) \in OrderType
  BY NewOrderType DEF BaseInv
<1>2. [NewOrder(k, NoSeason, d) EXCEPT !.stage = "CLOSED", !.historical = TRUE] \in OrderType
  BY <1>1, StageValues DEF OrderType
<1>3. order' \in [OrderId -> OrderType]
  BY <1>2, TypeOKParts DEF BaseInv, CreateHistorical
<1> QED BY <1>3, CellsAlone, TypeOKParts, BaseParts DEF BaseInv, CreateHistorical, catalog

LEMMA BaseUpdateAvailability ==
  ASSUME BaseInv, NEW r \in rows, NEW c \in CapacityChoice, NEW closed \in BOOLEAN,
         NEW accepts \in BOOLEAN, UpdateAvailability(r, c, closed, accepts)
  PROVE  BaseInv'
<1> USE DEF BaseInv
<1>1. r \in Row /\ cell \in [Row -> CellType] /\ c \in Nat
  BY TypeOKParts, CapacityConstants
<1>2. SoldOutAs(closed) \in {"NO", "STAFF"}
  BY DEF SoldOutAs
<1> DEFINE new == [cell[r] EXCEPT !.capacity = c, !.accepts = accepts,
                                  !.soldOut = SoldOutAs(closed)]
<1>3. new \in CellType /\ new.capacity = c /\ new.reserved = cell[r].reserved
  BY <1>1, <1>2 DEF CellType
<1>4. cell' = [cell EXCEPT ![r] = new]
  BY <1>1 DEF UpdateAvailability
<1> HIDE DEF new
<1>5. cell' \in [Row -> CellType]
  BY <1>1, <1>3, <1>4
<1>6. ReservedWithinCapacity'
  BY <1>1, <1>3, <1>4 DEF ReservedWithinCapacity, UpdateAvailability
<1>7. AbsentRowsEmpty'
  BY <1>1, <1>4 DEF AbsentRowsEmpty, UpdateAvailability
<1> QED BY <1>5, <1>6, <1>7, TypeOKParts, BaseParts DEF UpdateAvailability, catalog

LEMMA BasePlan ==
  ASSUME BaseInv, NEW p \in Product, NEW dates \in (SUBSET Date) \ {{}},
         NEW c \in CapacityChoice, NEW closed \in BOOLEAN,
         PlanAvailability(p, dates, c, closed)
  PROVE  BaseInv'
<1> USE DEF BaseInv
<1> DEFINE planned == {RowAt(p, SoleSeason(p, d), d) : d \in dates}
           new(r) == IF r \notin planned THEN cell[r]
                     ELSE IF r \in rows
                          THEN [cell[r] EXCEPT !.capacity = c, !.soldOut = SoldOutAs(closed)]
                          ELSE NewCell(c, SoldOutAs(closed))
<1>1. cell \in [Row -> CellType] /\ c \in Nat /\ rows \subseteq Row
  BY TypeOKParts, CapacityConstants
<1>2. SoldOutAs(closed) \in {"NO", "STAFF"}
  BY DEF SoldOutAs
<1>3. planned \subseteq Row
  BY SeasonsFound, RowAtType
<1>4. /\ \A r \in planned \cap rows : cell[r].reserved <= c
      /\ rows' = rows \cup planned
      /\ cell' = [r \in Row |-> new(r)]
  BY DEF PlanAvailability
<1> HIDE DEF planned
<1>5. ASSUME NEW r \in Row
      PROVE  new(r) \in CellType /\ 0 <= new(r).reserved /\ new(r).reserved <= new(r).capacity
  <2>1. cell[r] \in CellType /\ 0 <= cell[r].reserved /\ cell[r].reserved <= cell[r].capacity
    BY <1>1 DEF ReservedWithinCapacity
  <2>2. CASE r \notin planned
    BY <2>1, <2>2
  <2>3. CASE r \in planned /\ r \in rows
    <3>1. new(r) = [cell[r] EXCEPT !.capacity = c, !.soldOut = SoldOutAs(closed)]
      BY <2>3
    <3>2. cell[r].reserved <= c
      BY <2>3, <1>4
    <3> QED BY <3>1, <3>2, <2>1, <1>1, <1>2 DEF CellType
  <2>4. CASE r \in planned /\ r \notin rows
    <3>1. new(r) = NewCell(c, SoldOutAs(closed))
      BY <2>4
    <3> HIDE DEF new
    <3>2. /\ NewCell(c, SoldOutAs(closed)) \in CellType
          /\ NewCell(c, SoldOutAs(closed)).reserved = 0
          /\ NewCell(c, SoldOutAs(closed)).capacity = c
      BY <1>1, <1>2 DEF CellType, NewCell
    <3> QED BY <3>1, <3>2, <1>1
  <2> QED BY <2>2, <2>3, <2>4
<1>6. AbsentRowsEmpty'
  <2> SUFFICES ASSUME NEW r \in Row, r \notin rows' PROVE cell'[r] = NoCell
    BY DEF AbsentRowsEmpty
  <2>1. r \notin planned /\ r \notin rows
    BY <1>4
  <2> QED BY <2>1, <1>4 DEF AbsentRowsEmpty
<1> HIDE DEF new
<1>7. cell' \in [Row -> CellType] /\ ReservedWithinCapacity'
  BY <1>4, <1>5 DEF ReservedWithinCapacity
<1> QED BY <1>1, <1>3, <1>4, <1>6, <1>7, TypeOKParts, BaseParts DEF PlanAvailability, catalog

\* Every season edit ends with SyncWindow, whose dates are those of a season.
LEMMA SyncWindowType ==
  ASSUME window \in [Product -> WindowType], seasons' \subseteq SeasonId,
         season' \in [SeasonId -> SeasonType], NEW p \in Product, SyncWindow(p)
  PROVE  window' \in [Product -> WindowType]
<1> DEFINE chosen == LegacyWindowSeasons(p, seasons', season', today)
<1>1. CASE chosen = {}
  BY <1>1 DEF SyncWindow
<1>2. CASE chosen # {}
  <2>1. PICK s \in chosen :
          window' = [window EXCEPT ![p] = [from |-> season'[s].start,
                                           through |-> season'[s].end]]
    BY <1>2 DEF SyncWindow
  <2>2. s \in SeasonId
    BY <2>1 DEF LegacyWindowSeasons
  <2>3. season'[s].start \in Date /\ season'[s].end \in Date
    BY <2>2 DEF SeasonType
  <2> QED BY <2>1, <2>3 DEF WindowType
<1> QED BY <1>1, <1>2

LEMMA BaseSeasonEdit ==
  ASSUME BaseInv, seasons' \subseteq SeasonId, season' \in [SeasonId -> SeasonType],
         NEW p \in Product, SeasonEdit(p)
  PROVE  BaseInv'
<1>1. window' \in [Product -> WindowType]
  BY SyncWindowType, TypeOKParts DEF BaseInv, SeasonEdit
<1> QED BY <1>1, CellsAlone, TypeOKParts, BaseParts DEF BaseInv, SeasonEdit

LEMMA BaseCreateSeason ==
  ASSUME BaseInv, NEW s \in SeasonId, NEW p \in Product, NEW a \in Date, NEW b \in Date,
         NEW status \in SeasonStatus, CreateSeason(s, p, a, b, status)
  PROVE  BaseInv'
<1>1. seasons' \subseteq SeasonId /\ season' \in [SeasonId -> SeasonType]
  BY TypeOKParts DEF BaseInv, CreateSeason, SeasonType
<1> QED BY <1>1, BaseSeasonEdit DEF CreateSeason

LEMMA BaseUpdateSeason ==
  ASSUME BaseInv, NEW s \in SeasonId, NEW a \in Date, NEW b \in Date,
         NEW status \in SeasonStatus, UpdateSeason(s, a, b, status)
  PROVE  BaseInv'
<1>1. season[s] \in SeasonType
  BY TypeOKParts DEF BaseInv
<1>2. [season[s] EXCEPT !.start = a, !.end = b, !.status = status] \in SeasonType
  BY <1>1 DEF SeasonType
<1>3. seasons' \subseteq SeasonId /\ season' \in [SeasonId -> SeasonType]
  BY <1>2, TypeOKParts DEF BaseInv, UpdateSeason
<1>4. season[s].product \in Product
  BY <1>1 DEF SeasonType
<1> QED BY <1>3, <1>4, BaseSeasonEdit DEF UpdateSeason

LEMMA BaseDeleteSeason ==
  ASSUME BaseInv, NEW s \in SeasonId, DeleteSeason(s)
  PROVE  BaseInv'
<1>1. season[s].product \in Product
  BY TypeOKParts DEF BaseInv, SeasonType
<1>2. NoSuchSeason \in SeasonType
  <2>1. (CHOOSE p \in Product : TRUE) \in Product
    BY CapacityConstants
  <2>2. (CHOOSE status \in SeasonStatus : TRUE) \in SeasonStatus
    BY CapacityConstants
  <2>3. 1 \in Date
    BY CapacityConstants DEF Date
  <2> QED BY <2>1, <2>2, <2>3 DEF NoSuchSeason, SeasonType
<1>3. seasons' \subseteq SeasonId /\ season' \in [SeasonId -> SeasonType]
  BY <1>2, TypeOKParts DEF BaseInv, DeleteSeason
<1> QED BY <1>1, <1>3, BaseSeasonEdit DEF DeleteSeason

LEMMA BaseUpdateProduct ==
  ASSUME BaseInv, NEW p \in Product, NEW a \in Date, NEW b \in Date, UpdateProduct(p, a, b)
  PROVE  BaseInv'
<1> USE DEF BaseInv
<1> DEFINE w == [from |-> a, through |-> b]
           mine == {r \in rows : r.product = p}
           new(r) == IF r \in mine /\ ~Within(r.date, w)
                     THEN [cell[r] EXCEPT !.accepts = FALSE, !.soldOut = "WINDOW"]
                     ELSE IF r \in mine /\ ~cell[r].accepts /\ cell[r].soldOut = "WINDOW"
                          THEN [cell[r] EXCEPT !.accepts = TRUE, !.soldOut = "NO"]
                          ELSE cell[r]
<1>1. cell \in [Row -> CellType]
  BY TypeOKParts
<1>2. cell' = [r \in Row |-> new(r)]
  BY DEF UpdateProduct
<1>3. ASSUME NEW r \in Row
      PROVE  /\ new(r) \in CellType
             /\ new(r).reserved = cell[r].reserved
             /\ new(r).capacity = cell[r].capacity
  <2>1. cell[r] \in CellType
    BY <1>1
  <2> QED BY <2>1 DEF CellType
<1>4. ASSUME NEW r \in Row, r \notin rows PROVE new(r) = cell[r]
  BY <1>4
<1> HIDE DEF new
<1>5. cell' \in [Row -> CellType]
  BY <1>2, <1>3
<1>6. ReservedWithinCapacity'
  BY <1>2, <1>3 DEF ReservedWithinCapacity
<1>7. AbsentRowsEmpty'
  BY <1>2, <1>4 DEF AbsentRowsEmpty, UpdateProduct
<1>8. window' \in [Product -> WindowType]
  BY TypeOKParts DEF UpdateProduct, WindowType
<1> QED BY <1>5, <1>6, <1>7, <1>8, TypeOKParts, BaseParts DEF UpdateProduct

LEMMA BaseResize ==
  ASSUME BaseInv, NEW k \in Package, NEW v \in Volume, ResizePackage(k, v)
  PROVE  BaseInv'
<1>1. size' \in [Package -> Volume]
  BY TypeOKParts DEF BaseInv, ResizePackage
<1> QED BY <1>1, CellsAlone, TypeOKParts, BaseParts DEF BaseInv, ResizePackage

LEMMA BaseMidnight ==
  ASSUME BaseInv, Midnight
  PROVE  BaseInv'
<1>1. today' \in Date
  BY TypeOKParts, CapacityConstants DEF BaseInv, Midnight, Date
<1> QED BY <1>1, CellsAlone, TypeOKParts, BaseParts DEF BaseInv, Midnight, catalog

LEMMA BaseStutter ==
  ASSUME BaseInv, UNCHANGED vars
  PROVE  BaseInv'
BY CellsAlone, TypeOKParts, BaseParts DEF BaseInv, vars

\* Every step of the code keeps BaseInv.
LEMMA BaseNext ==
  ASSUME BaseInv, [Next]_vars
  PROVE  BaseInv'
<1>1. ASSUME NEW o \in OrderId, OrderStep(o) PROVE BaseInv'
  BY <1>1, BaseIntake, BaseOverride, BaseHistorical, BaseEdit, BaseMove, BaseAdvance,
     BaseRelease, BaseDelete DEF OrderStep
<1>2. CASE PlanningStep
  BY <1>2, BaseUpdateAvailability, BasePlan DEF PlanningStep
<1>3. CASE CatalogStep
  BY <1>3, BaseCreateSeason, BaseUpdateSeason, BaseDeleteSeason, BaseUpdateProduct,
     BaseResize DEF CatalogStep
<1>4. CASE Midnight
  BY <1>4, BaseMidnight
<1>5. CASE UNCHANGED vars
  BY <1>5, BaseStutter
<1> QED BY <1>1, <1>2, <1>3, <1>4, <1>5 DEF Next

THEOREM BaseInvariant == Spec => []BaseInv
BY BaseInit, BaseNext, PTL DEF Spec

\* Every variable always has a value its column can hold: no operation, on
\* any catalog, writes a malformed order, row or season.
THEOREM TypeCorrect == Spec => []TypeOK
<1>1. BaseInv => TypeOK
  BY DEF BaseInv
<1> QED BY <1>1, BaseInvariant, PTL

\* The reserved column stays between zero and the capacity column, whatever
\* orders and staff do and however seasons and packages are edited under them:
\* the CHECK constraint of the availability table is never what stops a step.
THEOREM CapacityRespected == Spec => []ReservedWithinCapacity
<1>1. BaseInv => ReservedWithinCapacity
  BY DEF BaseInv
<1> QED BY <1>1, BaseInvariant, PTL

-----------------------------------------------------------------------------
(* Counting what is held. *)

\* A table of holdings with one entry rewritten.
Put(hold, o, h) == [hold EXCEPT ![o] = h]

\* What an order that holds v millilitres on row r holds on row q.
Part(v, r, q) == IF q = r THEN v ELSE 0

Own(hold, o, q) == IF hold[o].row = q THEN {o} \X (1..hold[o].ml) ELSE {}
OwnMl(hold, o, q) == IF hold[o].row = q THEN hold[o].ml ELSE 0

\* An order's own claims number its millilitres.
LEMMA OwnCardinality ==
  ASSUME NEW o, NEW n \in Nat
  PROVE  IsFiniteSet({o} \X (1..n)) /\ Cardinality({o} \X (1..n)) = n
<1>1. IsFiniteSet(1..n) /\ Cardinality(1..n) = n
  BY FS_Interval
<1>2. IsFiniteSet({o}) /\ Cardinality({o}) = 1
  BY FS_Singleton
<1>3. Cardinality({o} \X (1..n)) = Cardinality({o}) * Cardinality(1..n)
  BY <1>1, <1>2, FS_Product
<1> QED BY <1>1, <1>2, <1>3, FS_Product

\* There are finitely many claims: finitely many orders, each with finitely many.
LEMMA ClaimsFinite ==
  ASSUME NEW hold \in [OrderId -> HeldType], NEW q
  PROVE  IsFiniteSet(Ledger!Claims(hold, q))
<1> DEFINE X == {x \in OrderId : hold[x].row = q}
           mine(h) == {h} \X (1..hold[h].ml)
           S == {mine(h) : h \in X}
           f == [h \in X |-> mine(h)]
<1>1. IsFiniteSet(X)
  BY CapacityConstants, FS_Subset
<1>2. f \in Surjection(X, S)
  BY DEF Surjection
<1>3. IsFiniteSet(S)
  BY <1>1, <1>2, FS_Surjection
<1>4. \A T \in S : IsFiniteSet(T)
  <2> SUFFICES ASSUME NEW h \in X PROVE IsFiniteSet(mine(h))
    OBVIOUS
  <2>1. hold[h].ml \in Nat
    BY VolumeNat DEF HeldType
  <2> QED BY <2>1, OwnCardinality
<1> HIDE DEF S
<1>5. IsFiniteSet(UNION S)
  BY <1>3, <1>4, FS_UNION
<1> QED BY <1>5 DEF Ledger!Claims, S

\* The claims on a row are the order's own and everybody else's.
LEMMA ClaimsSplit ==
  ASSUME NEW hold \in [OrderId -> HeldType], NEW o \in OrderId, NEW q \in Row
  PROVE  LET rest == [hold EXCEPT ![o] = Nothing] IN
         /\ Ledger!Claims(hold, q) = Ledger!Claims(rest, q) \cup Own(hold, o, q)
         /\ Ledger!Claims(rest, q) \cap Own(hold, o, q) = {}
<1> DEFINE rest == [hold EXCEPT ![o] = Nothing]
<1>1. rest[o].row = NoRow /\ NoRow # q
  BY CapacityConstants DEF Nothing, Holding
<1>2. \A x \in OrderId : x # o => rest[x] = hold[x]
  OBVIOUS
<1>3. ASSUME NEW c PROVE c \in Ledger!Claims(hold, q) <=>
                         c \in Ledger!Claims(rest, q) \/ c \in Own(hold, o, q)
  BY <1>1, <1>2 DEF Ledger!Claims, Own
<1>4. ASSUME NEW c \in Ledger!Claims(rest, q), c \in Own(hold, o, q) PROVE FALSE
  BY <1>1, <1>4 DEF Ledger!Claims, Own
<1> QED BY <1>3, <1>4

\* Hence what is held on a row is what the others hold plus the order's own.
LEMMA HeldSplit ==
  ASSUME NEW hold \in [OrderId -> HeldType], NEW o \in OrderId, NEW q \in Row
  PROVE  /\ Ledger!HeldMl(hold, q) \in Nat
         /\ Ledger!HeldMl([hold EXCEPT ![o] = Nothing], q) \in Nat
         /\ Ledger!HeldMl(hold, q) =
              Ledger!HeldMl([hold EXCEPT ![o] = Nothing], q) + OwnMl(hold, o, q)
<1> DEFINE rest == [hold EXCEPT ![o] = Nothing]
           A == Ledger!Claims(hold, q)
           R == Ledger!Claims(rest, q)
           N == Own(hold, o, q)
<1>1. A = R \cup N /\ R \cap N = {}
  BY ClaimsSplit
<1>2. hold[o].ml \in Nat
  BY VolumeNat DEF HeldType
<1>3. IsFiniteSet(N) /\ Cardinality(N) = OwnMl(hold, o, q)
  BY <1>2, OwnCardinality, FS_EmptySet DEF Own, OwnMl
<1>4. rest \in [OrderId -> HeldType]
  BY HoldingType
<1>5. IsFiniteSet(A) /\ IsFiniteSet(R)
  BY <1>4, ClaimsFinite
<1> HIDE DEF A, R, N
<1>6. Cardinality(A) = Cardinality(R) + Cardinality(N)
  <2>1. Cardinality(R \cup N) = Cardinality(R) + Cardinality(N) - Cardinality(R \cap N)
    BY <1>3, <1>5, FS_Union
  <2>2. Cardinality(R \cap N) = 0
    BY <1>1, FS_EmptySet
  <2>3. Cardinality(R) \in Nat /\ Cardinality(N) \in Nat
    BY <1>3, <1>5, FS_CardinalityType
  <2> QED BY <1>1, <2>1, <2>2, <2>3
<1>7. Cardinality(A) \in Nat /\ Cardinality(R) \in Nat
  BY <1>5, FS_CardinalityType
<1>8. Ledger!HeldMl(hold, q) = Cardinality(A)
  BY DEF Ledger!HeldMl, Ledger!Cardinality, Cardinality, A
<1>9. Ledger!HeldMl(rest, q) = Cardinality(R)
  BY DEF Ledger!HeldMl, Ledger!Cardinality, Cardinality, R
<1> QED BY <1>3, <1>6, <1>7, <1>8, <1>9

\* A new holding adds its millilitres to its row, and to no other.
LEMMA HeldAdd ==
  ASSUME NEW hold \in [OrderId -> HeldType], NEW o \in OrderId, hold[o] = Nothing,
         NEW r \in Row, NEW v \in Volume, NEW after,
         after = Put(hold, o, Holding(r, v)), NEW q \in Row
  PROVE  /\ Ledger!HeldMl(hold, q) \in Nat
         /\ Ledger!HeldMl(after, q) = Ledger!HeldMl(hold, q) + Part(v, r, q)
<1>1. after \in [OrderId -> HeldType]
  BY HoldingType DEF Put
<1>2. [after EXCEPT ![o] = Nothing] = hold
  BY DEF Put
<1>3. OwnMl(after, o, q) = Part(v, r, q)
  BY DEF OwnMl, Holding, Part, Put
<1>4. /\ Ledger!HeldMl([after EXCEPT ![o] = Nothing], q) \in Nat
      /\ Ledger!HeldMl(after, q) =
           Ledger!HeldMl([after EXCEPT ![o] = Nothing], q) + OwnMl(after, o, q)
  BY <1>1, HeldSplit
<1> QED BY <1>2, <1>3, <1>4

\* Giving a holding back takes its millilitres from its row, and from no other.
LEMMA HeldRemove ==
  ASSUME NEW hold \in [OrderId -> HeldType], NEW o \in OrderId,
         NEW r \in Row, NEW v \in Volume, hold[o] = Holding(r, v), NEW after,
         after = Put(hold, o, Nothing), NEW q \in Row
  PROVE  /\ Ledger!HeldMl(after, q) \in Nat
         /\ Ledger!HeldMl(after, q) = Ledger!HeldMl(hold, q) - Part(v, r, q)
<1>1. OwnMl(hold, o, q) = Part(v, r, q)
  BY DEF OwnMl, Holding, Part
<1>2. Part(v, r, q) \in Nat
  BY VolumeNat DEF Part
<1>3. /\ Ledger!HeldMl(hold, q) \in Nat
      /\ Ledger!HeldMl([hold EXCEPT ![o] = Nothing], q) \in Nat
      /\ Ledger!HeldMl(hold, q) =
           Ledger!HeldMl([hold EXCEPT ![o] = Nothing], q) + OwnMl(hold, o, q)
  BY HeldSplit
<1> QED BY <1>1, <1>2, <1>3 DEF Put

-----------------------------------------------------------------------------
(* What a careful team gets: CarefulInv. *)

\* The reserved columns are what a table of holdings says.
Carried(cells, hold) == \A q \in Row : cells[q].reserved = Ledger!HeldMl(hold, q)

\* Reserving and holding stay in balance,
LEMMA BalanceTake ==
  ASSUME NEW hold \in [OrderId -> HeldType], NEW cells \in [Row -> CellType],
         Carried(cells, hold), NEW o \in OrderId, hold[o] = Nothing,
         NEW r \in Row, NEW v \in Volume, NEW after,
         after = Put(hold, o, Holding(r, v))
  PROVE  Carried(Take(cells, r, v), after)
<1> SUFFICES ASSUME NEW q \in Row
             PROVE  Take(cells, r, v)[q].reserved = Ledger!HeldMl(after, q)
  BY DEF Carried
<1>1. v \in Nat
  BY VolumeNat
<1>2. Take(cells, r, v)[q].reserved =
        IF q = r THEN cells[q].reserved + v ELSE cells[q].reserved
  BY <1>1, TakeGiveType
<1>3. /\ Ledger!HeldMl(hold, q) \in Nat
      /\ Ledger!HeldMl(after, q) = Ledger!HeldMl(hold, q) + Part(v, r, q)
  BY HeldAdd
<1>4. cells[q].reserved = Ledger!HeldMl(hold, q)
  BY DEF Carried
<1> QED BY <1>1, <1>2, <1>3, <1>4 DEF Part

\* and so do giving back and letting go.
LEMMA BalanceGive ==
  ASSUME NEW hold \in [OrderId -> HeldType], NEW cells \in [Row -> CellType],
         Carried(cells, hold), NEW o \in OrderId, NEW r \in Row, NEW v \in Volume,
         hold[o] = Holding(r, v), NEW after, after = Put(hold, o, Nothing)
  PROVE  Carried(Give(cells, r, v), after)
<1> SUFFICES ASSUME NEW q \in Row
             PROVE  Give(cells, r, v)[q].reserved = Ledger!HeldMl(after, q)
  BY DEF Carried
<1>1. v \in Nat
  BY VolumeNat
<1>2. Give(cells, r, v)[q].reserved =
        IF q = r THEN cells[q].reserved - v ELSE cells[q].reserved
  BY <1>1, TakeGiveType
<1>3. /\ Ledger!HeldMl(after, q) \in Nat
      /\ Ledger!HeldMl(after, q) = Ledger!HeldMl(hold, q) - Part(v, r, q)
  BY HeldRemove
<1>4. cells[q].reserved = Ledger!HeldMl(hold, q) /\ cells[q].reserved \in Int
  BY DEF CellType, Carried
<1> QED BY <1>1, <1>2, <1>3, <1>4 DEF Part

\* A step that rewrites one order and its holding, and drops no row.
LEMMA OneOrder ==
  ASSUME CarefulInv, NEW o \in OrderId, NEW rec \in OrderType, NEW h \in HeldType,
         order' = Put(order, o, rec), held' = Put(held, o, h),
         rows \subseteq rows', size' = size,
         rec.stage \in LiveStages =>
           /\ RowAt(ProductOf[rec.package], rec.season, rec.date) \in rows'
           /\ h = Holding(RowAt(ProductOf[rec.package], rec.season, rec.date), rec.volume),
         rec.stage \in Stage => rec.volume = size[rec.package],
         h = Nothing \/ h.row \in rows',
         rec.stage = "NONE" => h = Nothing,
         rec.historical => h = Nothing
  PROVE  SizesKept' /\ HeldOnRows' /\ OnRecord'
<1> USE DEF CarefulInv
<1>1. order \in [OrderId -> OrderType] /\ held \in [OrderId -> HeldType]
  BY TypeOKParts DEF BaseInv
<1>2. order'[o] = rec /\ held'[o] = h
  BY <1>1 DEF Put
<1>3. \A x \in OrderId : x # o => order'[x] = order[x] /\ held'[x] = held[x]
  BY <1>1 DEF Put
<1>4. SizesKept'
  BY <1>2, <1>3 DEF SizesKept, Existing
<1>5. HeldOnRows'
  BY <1>2, <1>3 DEF HeldOnRows
<1>6. OnRecord'
  BY <1>2, <1>3 DEF OnRecord, IsLive, KeyRow, OrderProduct
<1> QED BY <1>4, <1>5, <1>6

\* A step that leaves the orders alone and drops no row.
LEMMA OrdersAlone ==
  ASSUME CarefulInv, UNCHANGED <<order, held>>, rows \subseteq rows',
         \A o \in OrderId : Existing(o) => size'[order[o].package] = size[order[o].package]
  PROVE  SizesKept' /\ HeldOnRows' /\ OnRecord'
<1> USE DEF CarefulInv
<1>1. SizesKept'
  BY DEF SizesKept, Existing
<1>2. HeldOnRows'
  BY DEF HeldOnRows
<1>3. OnRecord'
  BY DEF OnRecord, IsLive, KeyRow, OrderProduct
<1> QED BY <1>1, <1>2, <1>3

\* The calendar only changes with the seasons.
LEMMA CalendarAlone ==
  ASSUME UNCHANGED <<seasons, season>>
  PROVE  \A p, d : SeasonsOn(p, d)' = SeasonsOn(p, d)
BY DEF SeasonsOn

LEMMA LegacyAlone ==
  ASSUME CarefulInv, UNCHANGED <<rows, seasons, season>>
  PROVE  LegacyRowsOffSeason'
BY CalendarAlone DEF CarefulInv, LegacyRowsOffSeason

\* No season is found exactly where none stands.
LEMMA NoSeasonFound ==
  ASSUME TypeOK, NEW p, NEW d
  PROVE  /\ NoSeason \in IntakeSeasons(p, d) => SeasonsOn(p, d) = {}
         /\ SoleSeason(p, d) = NoSeason => SeasonsOn(p, d) = {}
<1>1. SeasonsOn(p, d) \subseteq SeasonId /\ NoSeason \notin SeasonsOn(p, d)
  BY SeasonsFound, CapacityConstants
<1>2. NoSeason \in IntakeSeasons(p, d) => SeasonsOn(p, d) = {}
  BY <1>1 DEF IntakeSeasons
<1>3. ASSUME SeasonsOn(p, d) # {} PROVE SoleSeason(p, d) # NoSeason
  <2>1. (CHOOSE s \in SeasonsOn(p, d) : TRUE) \in SeasonsOn(p, d)
    BY <1>3
  <2> QED BY <1>1, <1>3, <2>1 DEF SoleSeason
<1> QED BY <1>2, <1>3

\* What a live order's record says of where its volume is.
LEMMA LiveOrder ==
  ASSUME CarefulInv, NEW o \in OrderId, IsLive(o)
  PROVE  /\ KeyRow(o) \in rows /\ KeyRow(o) \in Row
         /\ order[o].volume \in Volume
         /\ held[o] = Holding(KeyRow(o), order[o].volume)
         /\ ~order[o].historical
         /\ order[o].season = NoSeason => SeasonsOn(OrderProduct(o), order[o].date) = {}
<1> USE DEF CarefulInv, BaseInv
<1>1. order[o] \in OrderType
  BY TypeOKParts
<1>2. KeyRow(o) \in rows /\ held[o] = Holding(KeyRow(o), order[o].volume)
  BY DEF OnRecord
<1>3. KeyRow(o) \in Row
  BY <1>2, TypeOKParts
<1>4. order[o].volume \in Volume
  <2>1. order[o].package \in Package
    BY <1>1 DEF OrderType
  <2>2. Existing(o)
    BY StageValues DEF IsLive, LiveStages, Existing
  <2> QED BY <2>1, <2>2, TypeOKParts DEF SizesKept
<1>5. ~order[o].historical
  <2>1. held[o] # Nothing
    BY <1>2, <1>3, CapacityConstants DEF Holding, Nothing
  <2> QED BY <2>1 DEF HeldOnRows
<1>6. order[o].season = NoSeason => SeasonsOn(OrderProduct(o), order[o].date) = {}
  <2>1. /\ KeyRow(o).season = order[o].season
        /\ KeyRow(o).product = OrderProduct(o)
        /\ KeyRow(o).date = order[o].date
    BY DEF KeyRow, RowAt
  <2> QED BY <1>2, <2>1 DEF LegacyRowsOffSeason
<1> QED BY <1>2, <1>3, <1>4, <1>5, <1>6

\* So a release looks for exactly the row the volume is on,
LEMMA ReleaseFindsKey ==
  ASSUME CarefulInv, NEW o \in OrderId, IsLive(o), NEW s \in ReleaseSeasons(o)
  PROVE  /\ s = order[o].season
         /\ RowAt(OrderProduct(o), s, order[o].date) = KeyRow(o)
<1>1. s = order[o].season
  BY LiveOrder DEF ReleaseSeasons, IntakeSeasons
<1> QED BY <1>1 DEF KeyRow

\* and so does an edit.
LEMMA EditFindsKey ==
  ASSUME CarefulInv, NEW o \in OrderId, IsLive(o),
         Resolves(OrderProduct(o), order[o].date, order[o].season)
  PROVE  /\ SoleSeason(OrderProduct(o), order[o].date) = order[o].season
         /\ ResolvedRow(OrderProduct(o), SoleSeason(OrderProduct(o), order[o].date),
                        order[o].date) = KeyRow(o)
<1>1. SoleSeason(OrderProduct(o), order[o].date) = order[o].season
  <2>1. CASE order[o].season = NoSeason
    BY <2>1, LiveOrder DEF SoleSeason
  <2>2. CASE order[o].season # NoSeason
    <3>1. SeasonsOn(OrderProduct(o), order[o].date) = {order[o].season}
      BY <2>2 DEF Resolves
    <3>2. (CHOOSE s \in {order[o].season} : TRUE) = order[o].season
      OBVIOUS
    <3> QED BY <3>1, <3>2 DEF SoleSeason
  <2> QED BY <2>1, <2>2
<1>2. RowAt(OrderProduct(o), order[o].season, order[o].date) \in rows
  BY LiveOrder DEF KeyRow
<1> QED BY <1>1, <1>2 DEF ResolvedRow, KeyRow

\* What CarefulInv adds to BaseInv.
CarefulPart == LegacyRowsOffSeason /\ SizesKept /\ HeldOnRows /\ OnRecord /\ Balanced

LEMMA BalancedIsCarried ==
  (Balanced <=> Carried(cell, held)) /\ (Balanced' <=> Carried(cell', held'))
BY DEF Balanced, Carried

\* A step that leaves cells and holdings alone keeps the balance.
LEMMA BalanceAlone ==
  ASSUME Balanced, UNCHANGED held,
         \A q \in Row : cell'[q].reserved = cell[q].reserved
  PROVE  Balanced'
BY BalancedIsCarried DEF Carried

\* A new order with a volume, on a row that is found or opened for it.
LEMMA CarefulNew ==
  ASSUME CarefulInv, NEW o \in OrderId, order[o].stage = "NONE",
         NEW k \in Package, NEW d \in Date, NEW s \in IntakeSeasons(ProductOf[k], d),
         NEW cells \in [Row -> CellType],
         \A q \in Row : cells[q].reserved = cell[q].reserved,
         cell' = Take(cells, RowAt(ProductOf[k], s, d), size[k]),
         rows' = rows \cup {RowAt(ProductOf[k], s, d)},
         order' = Put(order, o, NewOrder(k, s, d)),
         held' = Put(held, o, Holding(RowAt(ProductOf[k], s, d), size[k])),
         UNCHANGED <<size, seasons, season>>
  PROVE  CarefulPart'
<1> USE DEF CarefulInv, BaseInv
<1> DEFINE r == RowAt(ProductOf[k], s, d)
<1>1. s \in SeasonId \cup {NoSeason} /\ ProductOf[k] \in Product
  BY SeasonsFound, CapacityConstants
<1>2. r \in Row /\ r.product = ProductOf[k] /\ r.season = s /\ r.date = d
  BY <1>1, RowAtType
<1>3. size[k] \in Volume
  BY TypeOKParts
<1>4. held \in [OrderId -> HeldType] /\ held[o] = Nothing
  BY TypeOKParts DEF HeldOnRows
<1>5. Balanced'
  <2>1. Carried(cells, held)
    BY BalancedIsCarried DEF Carried
  <2>2. held' = Put(held, o, Holding(r, size[k]))
    OBVIOUS
  <2> HIDE DEF r
  <2>3. Carried(Take(cells, r, size[k]), held')
    BY <1>2, <1>3, <1>4, <2>1, <2>2, BalanceTake
  <2> QED BY <2>3, BalancedIsCarried DEF r
<1>6. LegacyRowsOffSeason'
  <2> SUFFICES ASSUME NEW q \in rows', q.season = NoSeason
               PROVE  SeasonsOn(q.product, q.date)' = {}
    BY DEF LegacyRowsOffSeason
  <2>1. SeasonsOn(q.product, q.date)' = SeasonsOn(q.product, q.date)
    BY CalendarAlone
  <2>2. CASE q \in rows
    BY <2>1, <2>2 DEF LegacyRowsOffSeason
  <2>3. CASE q = r
    BY <2>1, <2>3, <1>2, NoSeasonFound
  <2> QED BY <2>2, <2>3
<1>7. SizesKept' /\ HeldOnRows' /\ OnRecord'
  <2>1. /\ NewOrder(k, s, d) \in OrderType
        /\ NewOrder(k, s, d).stage = "OPEN"
        /\ NewOrder(k, s, d).package = k
        /\ NewOrder(k, s, d).date = d
        /\ NewOrder(k, s, d).season = s
        /\ NewOrder(k, s, d).volume = size[k]
        /\ NewOrder(k, s, d).historical = FALSE
    <3>1. NewOrder(k, s, d) \in OrderType
      BY <1>1, NewOrderType
    <3> QED BY <3>1 DEF NewOrder, Fresh
  <2>2. Holding(r, size[k]) \in HeldType /\ Holding(r, size[k]).row = r
    BY <1>2, <1>3, HoldingType DEF Holding
  <2>3. r \in rows'
    OBVIOUS
  <2> HIDE DEF r
  <2>4. held' = Put(held, o, Holding(r, size[k]))
    BY DEF r
  <2>5. RowAt(ProductOf[NewOrder(k, s, d).package], NewOrder(k, s, d).season,
              NewOrder(k, s, d).date) = r
    BY <2>1 DEF r
  <2> QED BY <2>1, <2>2, <2>3, <2>4, <2>5, OneOrder
<1> QED BY <1>5, <1>6, <1>7 DEF CarefulPart

LEMMA CarefulIntake ==
  ASSUME CarefulInv, NEW o \in OrderId, NEW k \in Package, NEW d \in Date,
         IntakeOrder(o, k, d)
  PROVE  CarefulPart'
<1>1. PICK s \in IntakeSeasons(ProductOf[k], d) :
        LET r == RowAt(ProductOf[k], s, d) IN
          /\ r \in rows
          /\ cell' = Take(cell, r, size[k])
          /\ order' = Put(order, o, NewOrder(k, s, d))
          /\ held' = Put(held, o, Holding(r, size[k]))
  BY DEF IntakeOrder, Put
<1>2. cell \in [Row -> CellType]
  BY TypeOKParts DEF CarefulInv, BaseInv
<1>3. rows' = rows \cup {RowAt(ProductOf[k], s, d)}
  BY <1>1 DEF IntakeOrder
<1>4. order[o].stage = "NONE" /\ UNCHANGED <<size, seasons, season>>
  BY DEF IntakeOrder, catalog
<1> QED BY <1>1, <1>2, <1>3, <1>4, CarefulNew

LEMMA CarefulOverride ==
  ASSUME CarefulInv, NEW o \in OrderId, NEW k \in Package, NEW d \in Date,
         IntakeOverride(o, k, d)
  PROVE  CarefulPart'
<1> DEFINE r(s) == RowAt(ProductOf[k], s, d)
           c(s) == IF r(s) \in rows THEN cell[r(s)] ELSE NewCell(ProvisionedMl, "NO")
           cells(s) == [cell EXCEPT ![r(s)] = c(s)]
<1>1. PICK s \in IntakeSeasons(ProductOf[k], d) :
        /\ rows' = rows \cup {r(s)}
        /\ cell' = Take(cells(s), r(s), size[k])
        /\ order' = Put(order, o, NewOrder(k, s, d))
        /\ held' = Put(held, o, Holding(r(s), size[k]))
  BY DEF IntakeOverride, Put
<1>2. cell \in [Row -> CellType]
  BY TypeOKParts DEF CarefulInv, BaseInv
<1>3. s \in SeasonId \cup {NoSeason} /\ ProductOf[k] \in Product
  BY SeasonsFound, CapacityConstants DEF CarefulInv, BaseInv
<1>4. r(s) \in Row
  BY <1>3, RowAtType
<1>5. c(s) \in CellType /\ c(s).reserved = cell[r(s)].reserved
  <2>1. CASE r(s) \in rows
    BY <2>1, <1>2, <1>4
  <2>2. CASE r(s) \notin rows
    <3>1. cell[r(s)] = NoCell
      BY <2>2, <1>4 DEF CarefulInv, BaseInv, AbsentRowsEmpty
    <3>2. c(s) = NewCell(ProvisionedMl, "NO")
      BY <2>2
    <3> HIDE DEF c, r
    <3> QED BY <3>1, <3>2, CapacityConstants DEF NewCell, NoCell, CellType
  <2> QED BY <2>1, <2>2
<1> HIDE DEF c
<1>6. cells(s) \in [Row -> CellType]
  BY <1>2, <1>4, <1>5
<1>7. \A q \in Row : cells(s)[q].reserved = cell[q].reserved
  BY <1>2, <1>4, <1>5
<1>8. order[o].stage = "NONE" /\ UNCHANGED <<size, seasons, season>>
  BY DEF IntakeOverride, catalog
<1> HIDE DEF cells
<1> QED BY <1>1, <1>6, <1>7, <1>8, CarefulNew

LEMMA CarefulHistorical ==
  ASSUME CarefulInv, NEW o \in OrderId, NEW k \in Package, NEW d \in Date,
         CreateHistorical(o, k, d)
  PROVE  CarefulPart'
<1> USE DEF CarefulInv, BaseInv
<1> DEFINE rec == [NewOrder(k, NoSeason, d) EXCEPT !.stage = "CLOSED", !.historical = TRUE]
<1>1. /\ NewOrder(k, NoSeason, d) \in OrderType
      /\ NewOrder(k, NoSeason, d).package = k
      /\ NewOrder(k, NoSeason, d).volume = size[k]
  <2>1. NewOrder(k, NoSeason, d) \in OrderType
    BY CapacityConstants, NewOrderType
  <2> QED BY <2>1 DEF NewOrder, Fresh
<1>2. /\ rec \in OrderType /\ rec.stage = "CLOSED" /\ rec.package = k
      /\ rec.volume = size[k]
  BY <1>1, StageValues DEF OrderType
<1> HIDE DEF rec
<1>3. held \in [OrderId -> HeldType] /\ held[o] = Nothing /\ Nothing \in HeldType
  BY TypeOKParts, HoldingType DEF HeldOnRows, CreateHistorical
<1>4. held' = Put(held, o, Nothing)
  BY <1>3 DEF CreateHistorical, Put
<1>5. order' = Put(order, o, rec)
  BY DEF CreateHistorical, rec, Put
<1>6. SizesKept' /\ HeldOnRows' /\ OnRecord'
  BY <1>2, <1>3, <1>4, <1>5, OneOrder DEF LiveStages, CreateHistorical, catalog
<1>7. LegacyRowsOffSeason'
  BY LegacyAlone DEF CreateHistorical, catalog
<1>8. Balanced'
  BY BalanceAlone DEF CreateHistorical
<1> QED BY <1>6, <1>7, <1>8 DEF CarefulPart

\* An order keeps its volume in the row it is on: the record changes, the
\* holding does not.
LEMMA CarefulEdit ==
  ASSUME CarefulInv, NEW o \in OrderId, NEW k \in Package, NEW d \in Date,
         EditOrder(o, k, d)
  PROVE  CarefulPart'
<1> USE DEF CarefulInv, BaseInv
<1> DEFINE rec == Edited(o, k, d)
<1>1. Edited(o, k, d) \in OrderType /\ order[o] \in OrderType
  BY EditedType, TypeOKParts
<1>2. /\ rec \in OrderType /\ rec.stage = order[o].stage /\ rec.package = k
      /\ rec.date = d /\ rec.volume = size[k]
      /\ rec.season = SoleSeason(ProductOf[k], d)
      /\ rec.historical = order[o].historical
  BY <1>1 DEF Edited, OrderType
<1> HIDE DEF rec
<1>3. held \in [OrderId -> HeldType] /\ held[o] \in HeldType
  BY TypeOKParts
<1>4. held' = Put(held, o, held[o])
  BY <1>3 DEF EditOrder, Put
<1>5. order' = Put(order, o, rec)
  BY DEF EditOrder, rec, Put
<1>6. ASSUME IsLive(o)
      PROVE  /\ RowAt(ProductOf[k], SoleSeason(ProductOf[k], d), d) = KeyRow(o)
             /\ held[o] = Holding(KeyRow(o), size[k])
  <2>1. ~order[o].historical /\ held[o] = Holding(KeyRow(o), order[o].volume)
    BY <1>6, LiveOrder
  <2>2. ProductOf[k] = OrderProduct(o) /\ d = order[o].date /\ size[k] = order[o].volume
    BY <2>1 DEF EditOrder, CapacityChanged
  <2>3. Resolves(OrderProduct(o), order[o].date, order[o].season)
    BY DEF EditOrder, MayEdit
  <2>4. SoleSeason(OrderProduct(o), order[o].date) = order[o].season
    BY <1>6, <2>3, EditFindsKey
  <2> QED BY <2>1, <2>2, <2>4 DEF KeyRow
<1>7. IsLive(o) => KeyRow(o) \in rows
  BY LiveOrder
<1>8. rows' = rows /\ size' = size /\ cell' = cell /\ UNCHANGED <<seasons, season>>
  BY DEF EditOrder, catalog
<1>9. /\ held[o] = Nothing \/ held[o].row \in rows
      /\ order[o].historical => held[o] = Nothing
  BY DEF HeldOnRows
<1>10. order[o].stage # "NONE"
  BY StageValues DEF EditOrder, MayEdit, Existing
<1>11. SizesKept' /\ HeldOnRows' /\ OnRecord'
  <2>1. IsLive(o) <=> rec.stage \in LiveStages
    BY <1>2 DEF IsLive
  <2> QED BY <1>2, <1>3, <1>4, <1>5, <1>6, <1>7, <1>8, <1>9, <1>10, <2>1, OneOrder
<1>12. LegacyRowsOffSeason'
  BY <1>8, LegacyAlone
<1>13. Balanced'
  BY <1>8, BalanceAlone DEF EditOrder
<1> QED BY <1>11, <1>12, <1>13 DEF CarefulPart

\* The row an edit moves a volume to is the row of its sole season.
LEMMA MoveFindsRow ==
  ASSUME CarefulInv, NEW p, NEW d, ResolvedRow(p, SoleSeason(p, d), d) \in rows
  PROVE  ResolvedRow(p, SoleSeason(p, d), d) = RowAt(p, SoleSeason(p, d), d)
<1>1. CASE RowAt(p, SoleSeason(p, d), d) \in rows
  BY <1>1 DEF ResolvedRow
<1>2. CASE RowAt(p, SoleSeason(p, d), d) \notin rows
  <2>1. RowAt(p, NoSeason, d) \in rows
    BY <1>2 DEF ResolvedRow
  <2>2. SeasonsOn(p, d) = {}
    BY <2>1 DEF CarefulInv, LegacyRowsOffSeason, RowAt
  <2>3. SoleSeason(p, d) = NoSeason
    BY <2>2 DEF SoleSeason
  <2> QED BY <2>1, <2>3 DEF ResolvedRow
<1> QED BY <1>1, <1>2

\* Only a live order's volume moves: a completed one is what its package measures.
LEMMA MovesAreLive ==
  ASSUME CarefulInv, NEW o \in OrderId, NEW k \in Package, NEW d \in Date,
         MayEdit(o, k, d), CapacityChanged(o, k, d)
  PROVE  IsLive(o)
<1>1. order[o].stage # "CLOSED"
  <2> SUFFICES ASSUME order[o].stage = "CLOSED" PROVE FALSE
    OBVIOUS
  <2>1. k = order[o].package /\ d = order[o].date /\ Existing(o)
    BY DEF MayEdit
  <2>2. order[o].volume = size[k]
    BY <2>1 DEF CarefulInv, SizesKept
  <2> QED BY <2>1, <2>2 DEF CapacityChanged, OrderProduct
<1> QED BY <1>1, StageValues DEF MayEdit, Existing, IsLive, LiveStages

LEMMA CarefulMove ==
  ASSUME CarefulInv, NEW o \in OrderId, NEW k \in Package, NEW d \in Date,
         MoveOrder(o, k, d)
  PROVE  CarefulPart'
<1> USE DEF CarefulInv, BaseInv
<1> DEFINE p == OrderProduct(o)
           from == ResolvedRow(p, SoleSeason(p, order[o].date), order[o].date)
           to == ResolvedRow(ProductOf[k], SoleSeason(ProductOf[k], d), d)
           released == Give(cell, from, order[o].volume)
           rest == Put(held, o, Nothing)
           rec == Edited(o, k, d)
<1>1. /\ to \in rows
      /\ cell' = Take(released, to, size[k])
      /\ held' = Put(held, o, Holding(to, size[k]))
      /\ order' = Put(order, o, rec)
  BY DEF MoveOrder, Put
<1>2. rows' = rows /\ size' = size /\ UNCHANGED <<seasons, season>>
  BY DEF MoveOrder, catalog
<1>3. MayEdit(o, k, d) /\ CapacityChanged(o, k, d)
  BY DEF MoveOrder
<1>4. IsLive(o)
  BY <1>3, MovesAreLive
<1>5. from = KeyRow(o)
  <2>1. Resolves(OrderProduct(o), order[o].date, order[o].season)
    BY <1>3 DEF MayEdit
  <2> QED BY <1>4, <2>1, EditFindsKey
<1>6. to = RowAt(ProductOf[k], SoleSeason(ProductOf[k], d), d)
  BY <1>1, MoveFindsRow
<1> HIDE DEF from, to
<1>7. to \in Row /\ from \in Row
  BY <1>1, <1>4, <1>5, LiveOrder, TypeOKParts
<1>8. /\ order[o].volume \in Volume /\ ~order[o].historical
      /\ held[o] = Holding(from, order[o].volume)
  BY <1>4, <1>5, LiveOrder
<1>9. size[k] \in Volume
  BY TypeOKParts
<1>10. cell \in [Row -> CellType] /\ held \in [OrderId -> HeldType]
  BY TypeOKParts
<1>11. Balanced'
  <2>1. released \in [Row -> CellType]
    BY <1>7, <1>8, <1>10, VolumeNat, TakeGiveType
  <2>2. rest \in [OrderId -> HeldType] /\ rest[o] = Nothing
    BY <1>10, HoldingType DEF Put
  <2>3. Carried(cell, held)
    BY BalancedIsCarried
  <2>4. Put(rest, o, Holding(to, size[k])) = held'
    BY <1>1, <1>10 DEF Put
  <2> HIDE DEF released, rest
  <2>5. Carried(released, rest)
    BY <1>7, <1>8, <1>10, <2>3, BalanceGive DEF released, rest
  <2>6. Carried(Take(released, to, size[k]), held')
    BY <1>7, <1>9, <2>1, <2>2, <2>4, <2>5, BalanceTake
  <2> QED BY <1>1, <2>6, BalancedIsCarried
<1> HIDE DEF released, rest
<1>12. SizesKept' /\ HeldOnRows' /\ OnRecord'
  <2>1. Edited(o, k, d) \in OrderType /\ order[o] \in OrderType
    BY EditedType, TypeOKParts
  <2>2. /\ rec \in OrderType /\ rec.stage = order[o].stage /\ rec.package = k
        /\ rec.date = d /\ rec.volume = size[k]
        /\ rec.season = SoleSeason(ProductOf[k], d)
        /\ rec.historical = order[o].historical
    BY <2>1 DEF Edited, OrderType
  <2> HIDE DEF rec
  <2>3. Holding(to, size[k]) \in HeldType /\ Holding(to, size[k]).row = to
    BY <1>7, <1>9, HoldingType DEF Holding
  <2>4. order[o].stage # "NONE"
    BY <1>4 DEF IsLive, LiveStages
  <2> QED BY <1>1, <1>2, <1>6, <1>8, <2>2, <2>3, <2>4, OneOrder
<1>13. LegacyRowsOffSeason'
  BY <1>2, LegacyAlone
<1> QED BY <1>11, <1>12, <1>13 DEF CarefulPart

\* What the status machine says of stages: a completed order never comes back
\* to life, and only an open one is given back, which completes it.
LEMMA ClosedStaysClosed ==
  ASSUME NEW releasing \in BOOLEAN, NEW a, NEW b, <<a, b>> \in StageMoves(releasing),
         b \in LiveStages
  PROVE  a \in LiveStages
<1>1. PICK from \in Status, to \in Status :
        /\ StageOf(from) = a /\ StageOf(to) = b
        /\ \E m \in Method : to \in LegalTransitions(from, m, TRUE)
  BY DEF StageMoves
<1>2. to \in Transitions[from]
  BY <1>1 DEF LegalTransitions
<1>3. to \notin Closed
  BY <1>1 DEF StageOf, LiveStages
<1>4. from \notin Closed
  BY <1>2, <1>3 DEF Transitions, Closed
<1> QED BY <1>1, <1>4 DEF StageOf, LiveStages

LEMMA OnlyOpenReleases ==
  ASSUME NEW a, NEW b, <<a, b>> \in ReleasingMoves
  PROVE  a = "OPEN" /\ b = "CLOSED"
<1>1. PICK from \in Status, to \in Status :
        /\ StageOf(from) = a /\ StageOf(to) = b
        /\ ReleasesCapacity(from, to) = TRUE
  BY DEF ReleasingMoves, StageMoves
<1>2. to \in ReleasingStatuses /\ from \in {"NEW", "CONFIRMED"}
  BY <1>1 DEF ReleasesCapacity
<1> QED BY <1>1, <1>2 DEF StageOf, ReleasingStatuses, Closed

LEMMA DeletionStages ==
  {StageOf(status) : status \in DeletionReleases} = {"OPEN", "PREPARING"}
<1>1. /\ StageOf("NEW") = "OPEN" /\ StageOf("CONFIRMED") = "OPEN"
      /\ StageOf("PICKING") = "PREPARING" /\ StageOf("READY") = "PREPARING"
  BY DEF StageOf, Closed
<1> QED BY <1>1 DEF DeletionReleases

LEMMA CarefulAdvance ==
  ASSUME CarefulInv, NEW o \in OrderId, NEW to \in Stage, AdvanceOrder(o, to)
  PROVE  CarefulPart'
<1> USE DEF CarefulInv, BaseInv
<1> DEFINE rec == [order[o] EXCEPT !.stage = to]
<1>1. order[o] \in OrderType /\ held \in [OrderId -> HeldType] /\ held[o] \in HeldType
  BY TypeOKParts
<1>2. /\ rec \in OrderType /\ rec.stage = to /\ rec.package = order[o].package
      /\ rec.date = order[o].date /\ rec.volume = order[o].volume
      /\ rec.season = order[o].season /\ rec.historical = order[o].historical
  BY <1>1 DEF OrderType
<1>3. order' = Put(order, o, rec) /\ held' = Put(held, o, held[o])
  BY <1>1, TypeOKParts DEF AdvanceOrder, Put, OrderType
<1> HIDE DEF rec
<1>4. to \in LiveStages => IsLive(o)
  BY ClosedStaysClosed DEF AdvanceOrder, KeepingMoves, IsLive
<1>5. IsLive(o) => /\ KeyRow(o) \in rows
                   /\ held[o] = Holding(KeyRow(o), order[o].volume)
  BY LiveOrder
<1>6. RowAt(ProductOf[rec.package], rec.season, rec.date) = KeyRow(o)
  BY <1>2 DEF KeyRow, OrderProduct
<1>7. /\ held[o] = Nothing \/ held[o].row \in rows
      /\ order[o].historical => held[o] = Nothing
  BY DEF HeldOnRows
<1>8. order[o].volume = size[order[o].package]
  BY DEF AdvanceOrder, SizesKept
<1>9. rows' = rows /\ size' = size /\ UNCHANGED <<seasons, season>>
  BY DEF AdvanceOrder, catalog
<1>10. to # "NONE"
  BY StageValues
<1>11. SizesKept' /\ HeldOnRows' /\ OnRecord'
  BY <1>1, <1>2, <1>3, <1>4, <1>5, <1>6, <1>7, <1>8, <1>9, <1>10, OneOrder
<1>12. LegacyRowsOffSeason'
  BY <1>9, LegacyAlone
<1>13. Balanced'
  BY BalanceAlone DEF AdvanceOrder
<1> QED BY <1>11, <1>12, <1>13 DEF CarefulPart

\* Giving a live order's volume back, and what is left of the order.
LEMMA CarefulGive ==
  ASSUME CarefulInv, NEW o \in OrderId, IsLive(o), NEW s \in ReleaseSeasons(o),
         cell' = Give(cell, RowAt(OrderProduct(o), s, order[o].date), order[o].volume),
         NEW rec \in OrderType, rec.stage \notin LiveStages, rec.stage # "NONE",
         rec.stage \in Stage => rec.volume = size[rec.package],
         order' = Put(order, o, rec), held' = Put(held, o, Nothing),
         UNCHANGED <<rows, size, seasons, season>>
  PROVE  CarefulPart'
<1> USE DEF CarefulInv, BaseInv
<1>1. RowAt(OrderProduct(o), s, order[o].date) = KeyRow(o)
  BY ReleaseFindsKey
<1>2. /\ KeyRow(o) \in Row /\ order[o].volume \in Volume
      /\ held[o] = Holding(KeyRow(o), order[o].volume)
  BY LiveOrder
<1>3. cell \in [Row -> CellType] /\ held \in [OrderId -> HeldType]
  BY TypeOKParts
<1>4. Balanced'
  <2>1. Carried(cell, held)
    BY BalancedIsCarried
  <2>2. Carried(Give(cell, KeyRow(o), order[o].volume), held')
    BY <1>2, <1>3, <2>1, BalanceGive
  <2> QED BY <1>1, <2>2, BalancedIsCarried
<1>5. SizesKept' /\ HeldOnRows' /\ OnRecord'
  BY HoldingType, OneOrder
<1>6. LegacyRowsOffSeason'
  BY LegacyAlone
<1> QED BY <1>4, <1>5, <1>6 DEF CarefulPart

LEMMA CarefulRelease ==
  ASSUME CarefulInv, NEW o \in OrderId, NEW to \in Stage, ReleaseOrder(o, to)
  PROVE  CarefulPart'
<1> DEFINE rec == [order[o] EXCEPT !.stage = to]
<1>1. PICK s \in ReleaseSeasons(o) :
        cell' = Give(cell, RowAt(OrderProduct(o), s, order[o].date), order[o].volume)
  BY DEF ReleaseOrder
<1>2. order[o].stage = "OPEN" /\ to = "CLOSED"
  BY OnlyOpenReleases DEF ReleaseOrder
<1>3. IsLive(o)
  BY <1>2 DEF IsLive, LiveStages
<1>4. order[o] \in OrderType
  BY TypeOKParts DEF CarefulInv, BaseInv
<1>5. /\ rec \in OrderType /\ rec.stage = to /\ rec.package = order[o].package
      /\ rec.volume = order[o].volume
  BY <1>4 DEF OrderType
<1>6. order[o].volume = size[order[o].package]
  BY DEF ReleaseOrder, CarefulInv, SizesKept
<1>7. order' = Put(order, o, rec) /\ held' = Put(held, o, Nothing)
  BY <1>4, TypeOKParts DEF ReleaseOrder, Put, OrderType, CarefulInv, BaseInv
<1>8. UNCHANGED <<rows, size, seasons, season>>
  BY DEF ReleaseOrder, catalog
<1> HIDE DEF rec
<1>9. rec.stage \notin LiveStages /\ rec.stage # "NONE"
  BY <1>2, <1>5 DEF LiveStages
<1> QED BY <1>1, <1>3, <1>5, <1>6, <1>7, <1>8, <1>9, CarefulGive

LEMMA CarefulDelete ==
  ASSUME CarefulInv, NEW o \in OrderId, DeleteOrder(o)
  PROVE  CarefulPart'
<1> USE DEF CarefulInv, BaseInv
<1>1. /\ Gone \in OrderType /\ Gone.stage = "DELETED" /\ Gone.historical = FALSE
      /\ "DELETED" \notin Stage /\ "DELETED" \notin LiveStages
  BY FreshType, StageValues DEF Gone, Fresh, LiveStages
<1>2. order' = Put(order, o, Gone)
  BY DEF DeleteOrder, Put
<1>3. UNCHANGED <<rows, size, seasons, season>>
  BY DEF DeleteOrder, catalog
<1>4. CASE UNCHANGED <<cell, held>>
  <2>1. held \in [OrderId -> HeldType] /\ held[o] \in HeldType
    BY TypeOKParts
  <2>2. held' = Put(held, o, held[o])
    BY <1>4, <2>1 DEF Put
  <2>3. held[o] = Nothing \/ held[o].row \in rows
    BY DEF HeldOnRows
  <2>4. SizesKept' /\ HeldOnRows' /\ OnRecord'
    BY <1>1, <1>2, <1>3, <2>1, <2>2, <2>3, OneOrder
  <2> QED BY <1>3, <1>4, <2>4, LegacyAlone, BalanceAlone DEF CarefulPart
<1>5. CASE ~UNCHANGED <<cell, held>>
  <2>1. order[o].stage \in {"OPEN", "PREPARING"}
    BY <1>5, DeletionStages DEF DeleteOrder
  <2>2. IsLive(o)
    BY <2>1 DEF IsLive, LiveStages
  <2>3. PICK s \in ReleaseSeasons(o) :
          /\ cell' = Give(cell, RowAt(OrderProduct(o), s, order[o].date), order[o].volume)
          /\ held' = [held EXCEPT ![o] = Nothing]
    BY <1>5 DEF DeleteOrder
  <2>4. held' = Put(held, o, Nothing)
    BY <2>3 DEF Put
  <2> QED BY <1>1, <1>2, <1>3, <2>2, <2>3, <2>4, CarefulGive
<1> QED BY <1>4, <1>5

\* Steps that touch neither orders nor sizes, and drop no row.
LEMMA CarefulPlanning ==
  ASSUME CarefulInv, UNCHANGED <<order, held, size>>, rows \subseteq rows',
         LegacyRowsOffSeason', \A q \in Row : cell'[q].reserved = cell[q].reserved
  PROVE  CarefulPart'
<1>1. SizesKept' /\ HeldOnRows' /\ OnRecord'
  BY OrdersAlone
<1>2. Balanced'
  BY BalanceAlone DEF CarefulInv
<1> QED BY <1>1, <1>2 DEF CarefulPart

LEMMA CarefulUpdateAvailability ==
  ASSUME CarefulInv, NEW r \in rows, NEW c \in CapacityChoice, NEW closed \in BOOLEAN,
         NEW accepts \in BOOLEAN, UpdateAvailability(r, c, closed, accepts)
  PROVE  CarefulPart'
<1>1. cell \in [Row -> CellType] /\ r \in Row
  BY TypeOKParts DEF CarefulInv, BaseInv
<1>2. \A q \in Row : cell'[q].reserved = cell[q].reserved
  BY <1>1 DEF UpdateAvailability, CellType
<1>3. LegacyRowsOffSeason'
  BY LegacyAlone DEF UpdateAvailability, catalog
<1> QED BY <1>2, <1>3, CarefulPlanning DEF UpdateAvailability, catalog

LEMMA CarefulPlan ==
  ASSUME CarefulInv, NEW p \in Product, NEW dates \in (SUBSET Date) \ {{}},
         NEW c \in CapacityChoice, NEW closed \in BOOLEAN,
         PlanAvailability(p, dates, c, closed)
  PROVE  CarefulPart'
<1> USE DEF CarefulInv, BaseInv
<1> DEFINE planned == {RowAt(p, SoleSeason(p, d), d) : d \in dates}
           new(r) == IF r \notin planned THEN cell[r]
                     ELSE IF r \in rows
                          THEN [cell[r] EXCEPT !.capacity = c, !.soldOut = SoldOutAs(closed)]
                          ELSE NewCell(c, SoldOutAs(closed))
<1>1. cell \in [Row -> CellType]
  BY TypeOKParts
<1>2. rows' = rows \cup planned /\ cell' = [r \in Row |-> new(r)]
  BY DEF PlanAvailability
<1>3. ASSUME NEW r \in Row PROVE new(r).reserved = cell[r].reserved
  <2>1. CASE r \notin planned
    BY <2>1
  <2>2. CASE r \in planned /\ r \in rows
    BY <2>2, <1>1 DEF CellType
  <2>3. CASE r \in planned /\ r \notin rows
    <3>1. new(r) = NewCell(c, SoldOutAs(closed)) /\ cell[r] = NoCell
      BY <2>3 DEF AbsentRowsEmpty
    <3> HIDE DEF new
    <3> QED BY <3>1 DEF NewCell, NoCell
  <2> QED BY <2>1, <2>2, <2>3
<1>4. \A q \in Row : cell'[q].reserved = cell[q].reserved
  BY <1>2, <1>3
<1>5. LegacyRowsOffSeason'
  <2> SUFFICES ASSUME NEW q \in rows', q.season = NoSeason
               PROVE  SeasonsOn(q.product, q.date)' = {}
    BY DEF LegacyRowsOffSeason
  <2>1. SeasonsOn(q.product, q.date)' = SeasonsOn(q.product, q.date)
    BY CalendarAlone DEF PlanAvailability, catalog
  <2>2. CASE q \in rows
    BY <2>1, <2>2 DEF LegacyRowsOffSeason
  <2>3. CASE q \in planned
    <3>1. PICK d \in dates : q = RowAt(p, SoleSeason(p, d), d)
      BY <2>3
    <3>2. q.product = p /\ q.date = d /\ SoleSeason(p, d) = NoSeason
      BY <3>1 DEF RowAt
    <3> QED BY <2>1, <3>2, NoSeasonFound
  <2> QED BY <1>2, <2>2, <2>3
<1> HIDE DEF planned, new
<1> QED BY <1>2, <1>4, <1>5, CarefulPlanning DEF PlanAvailability, catalog

\* A season edit that keeps every occupied slot's calendar.
LEMMA CarefulSeasonEdit ==
  ASSUME CarefulInv, Careful, NEW p, SeasonEdit(p)
  PROVE  CarefulPart'
<1>1. LegacyRowsOffSeason'
  BY DEF SeasonEdit, CalendarKept, CarefulInv, LegacyRowsOffSeason
<1> QED BY <1>1, CarefulPlanning DEF SeasonEdit

LEMMA CarefulUpdateProduct ==
  ASSUME CarefulInv, NEW p \in Product, NEW a \in Date, NEW b \in Date, UpdateProduct(p, a, b)
  PROVE  CarefulPart'
<1> DEFINE w == [from |-> a, through |-> b]
           mine == {r \in rows : r.product = p}
           new(r) == IF r \in mine /\ ~Within(r.date, w)
                     THEN [cell[r] EXCEPT !.accepts = FALSE, !.soldOut = "WINDOW"]
                     ELSE IF r \in mine /\ ~cell[r].accepts /\ cell[r].soldOut = "WINDOW"
                          THEN [cell[r] EXCEPT !.accepts = TRUE, !.soldOut = "NO"]
                          ELSE cell[r]
<1>1. cell \in [Row -> CellType]
  BY TypeOKParts DEF CarefulInv, BaseInv
<1>2. cell' = [r \in Row |-> new(r)]
  BY DEF UpdateProduct
<1>3. ASSUME NEW r \in Row PROVE new(r).reserved = cell[r].reserved
  BY <1>1 DEF CellType
<1> HIDE DEF new
<1>4. \A q \in Row : cell'[q].reserved = cell[q].reserved
  BY <1>2, <1>3
<1>5. LegacyRowsOffSeason'
  BY LegacyAlone DEF UpdateProduct
<1> QED BY <1>4, <1>5, CarefulPlanning DEF UpdateProduct

LEMMA CarefulResize ==
  ASSUME CarefulInv, Careful, NEW k \in Package, NEW v \in Volume, ResizePackage(k, v)
  PROVE  CarefulPart'
<1> USE DEF CarefulInv, BaseInv
<1>1. \A o \in OrderId : Existing(o) => size'[order[o].package] = size[order[o].package]
  BY TypeOKParts DEF ResizePackage, OrderType
<1>2. SizesKept' /\ HeldOnRows' /\ OnRecord'
  BY <1>1, OrdersAlone DEF ResizePackage
<1>3. LegacyRowsOffSeason' /\ Balanced'
  BY LegacyAlone, BalanceAlone DEF ResizePackage
<1> QED BY <1>2, <1>3 DEF CarefulPart

LEMMA CarefulMidnight ==
  ASSUME CarefulInv, Midnight \/ UNCHANGED vars
  PROVE  CarefulPart'
<1>1. UNCHANGED <<order, held, size, rows, cell, seasons, season>>
  BY DEF Midnight, vars, catalog
<1> QED BY <1>1, LegacyAlone, CarefulPlanning

LEMMA CarefulInit == Init => CarefulInv
<1> SUFFICES ASSUME Init PROVE CarefulInv
  OBVIOUS
<1>1. BaseInv
  BY BaseInit
<1>2. \A o \in OrderId : order[o] = Fresh /\ Fresh.stage = "NONE" /\ held[o] = Nothing
  BY DEF Init, Fresh
<1>3. LegacyRowsOffSeason /\ SizesKept /\ HeldOnRows /\ OnRecord
  BY <1>2, StageValues DEF Init, LegacyRowsOffSeason, SizesKept, HeldOnRows, OnRecord,
     IsLive, Existing, LiveStages
<1>4. Balanced
  <2> SUFFICES ASSUME NEW q \in Row PROVE cell[q].reserved = Ledger!HeldMl(held, q)
    BY DEF Balanced
  <2> DEFINE A == Ledger!Claims(held, q)
  <2>1. cell[q].reserved = 0
    BY DEF Init, NoCell
  <2>2. \A o \in OrderId : held[o].row # q
    BY <1>2, CapacityConstants DEF Nothing, Holding
  <2>3. A = {}
    BY <2>2 DEF Ledger!Claims
  <2> HIDE DEF A
  <2>4. Cardinality(A) = 0
    BY <2>3, FS_EmptySet
  <2>5. Ledger!HeldMl(held, q) = Cardinality(A)
    BY DEF Ledger!HeldMl, Ledger!Cardinality, Cardinality, A
  <2> QED BY <2>1, <2>4, <2>5
<1> QED BY <1>1, <1>3, <1>4 DEF CarefulInv

\* Every step keeps CarefulInv, as long as the team is careful.
LEMMA CarefulNext ==
  ASSUME CarefulInv, Careful, [Next]_vars
  PROVE  CarefulInv'
<1>1. BaseInv'
  BY BaseNext DEF CarefulInv
<1>2. ASSUME NEW o \in OrderId, OrderStep(o) PROVE CarefulPart'
  BY <1>2, CarefulIntake, CarefulOverride, CarefulHistorical, CarefulEdit, CarefulMove,
     CarefulAdvance, CarefulRelease, CarefulDelete DEF OrderStep
<1>3. ASSUME PlanningStep PROVE CarefulPart'
  BY <1>3, CarefulUpdateAvailability, CarefulPlan DEF PlanningStep
<1>4. ASSUME CatalogStep PROVE CarefulPart'
  <2>1. ASSUME NEW s \in SeasonId, NEW a \in Date, NEW b \in Date, NEW p \in Product,
               NEW status \in SeasonStatus, CreateSeason(s, p, a, b, status)
        PROVE  CarefulPart'
    BY <2>1, CarefulSeasonEdit DEF CreateSeason
  <2>2. ASSUME NEW s \in SeasonId, NEW a \in Date, NEW b \in Date,
               NEW status \in SeasonStatus, UpdateSeason(s, a, b, status)
        PROVE  CarefulPart'
    BY <2>2, CarefulSeasonEdit DEF UpdateSeason
  <2>3. ASSUME NEW s \in SeasonId, DeleteSeason(s) PROVE CarefulPart'
    BY <2>3, CarefulSeasonEdit DEF DeleteSeason
  <2> QED BY <1>4, <2>1, <2>2, <2>3, CarefulUpdateProduct, CarefulResize DEF CatalogStep
<1>5. ASSUME Midnight \/ UNCHANGED vars PROVE CarefulPart'
  BY <1>5, CarefulMidnight
<1>6. CarefulPart'
  BY <1>2, <1>3, <1>4, <1>5 DEF Next
<1> QED BY <1>1, <1>6 DEF CarefulInv, CarefulPart

THEOREM CarefulInvariant ==
  ASSUME Careful
  PROVE  Spec => []CarefulInv
BY CarefulInit, CarefulNext, PTL DEF Spec

\* In a careful shop the reserved column of every row is, at every moment,
\* exactly what the orders on it reserved and have not given back.
THEOREM LedgerBalanced ==
  ASSUME Careful
  PROVE  Spec => []Balanced
<1>1. CarefulInv => Balanced
  BY DEF CarefulInv
<1> QED BY <1>1, CarefulInvariant, PTL

\* In a careful shop the product, date and season in an order's record always
\* name the row its volume is reserved on.
THEOREM RecordFindsRow ==
  ASSUME Careful
  PROVE  Spec => []OnRecord
<1>1. CarefulInv => OnRecord
  BY DEF CarefulInv
<1> QED BY <1>1, CarefulInvariant, PTL

\* In a careful shop every live order can be given back, on the row a release
\* looks at: the row is there and carries at least the order's volume.
LEMMA LiveIsReleasable ==
  ASSUME CarefulInv, NEW o \in OrderId, IsLive(o), NEW s \in ReleaseSeasons(o)
  PROVE  Releasable(o, RowAt(OrderProduct(o), s, order[o].date))
<1> USE DEF CarefulInv, BaseInv
<1>1. RowAt(OrderProduct(o), s, order[o].date) = KeyRow(o)
  BY ReleaseFindsKey
<1>2. /\ KeyRow(o) \in rows /\ KeyRow(o) \in Row /\ order[o].volume \in Volume
      /\ held[o] = Holding(KeyRow(o), order[o].volume)
  BY LiveOrder
<1>3. OwnMl(held, o, KeyRow(o)) = order[o].volume
  BY <1>2 DEF OwnMl, Holding
<1>4. held \in [OrderId -> HeldType]
  BY TypeOKParts
<1>5. /\ Ledger!HeldMl([held EXCEPT ![o] = Nothing], KeyRow(o)) \in Nat
      /\ Ledger!HeldMl(held, KeyRow(o)) =
           Ledger!HeldMl([held EXCEPT ![o] = Nothing], KeyRow(o)) + OwnMl(held, o, KeyRow(o))
  BY <1>2, <1>4, HeldSplit
<1>6. cell[KeyRow(o)].reserved = Ledger!HeldMl(held, KeyRow(o))
  BY <1>2 DEF Balanced
<1>7. order[o].volume \in Nat
  BY <1>2, VolumeNat
<1> QED BY <1>1, <1>2, <1>3, <1>5, <1>6, <1>7 DEF Releasable

\* In a careful shop the assertion in transitionOrder never fires: whichever
\* season a release looks in, the row is there and carries the order's volume.
THEOREM ReleaseNeverFails ==
  ASSUME Careful
  PROVE  Spec => []ReleaseAlwaysPossible
<1>1. CarefulInv => ReleaseAlwaysPossible
  BY LiveIsReleasable DEF ReleaseAlwaysPossible, IsLive, LiveStages
<1> QED BY <1>1, CarefulInvariant, PTL

-----------------------------------------------------------------------------
(* Orders that are over. *)

\* Steps that are no order's.
LEMMA OthersKeepOrders ==
  ASSUME PlanningStep \/ CatalogStep \/ Midnight
  PROVE  UNCHANGED <<order, held>>
<1>1. ASSUME PlanningStep PROVE UNCHANGED <<order, held>>
  BY <1>1 DEF PlanningStep, UpdateAvailability, PlanAvailability
<1>2. ASSUME NEW p, SeasonEdit(p) PROVE UNCHANGED <<order, held>>
  BY <1>2 DEF SeasonEdit
<1>3. ASSUME NEW s, NEW p, NEW a, NEW b, NEW status,
             \/ CreateSeason(s, p, a, b, status)
             \/ UpdateSeason(s, a, b, status)
             \/ DeleteSeason(s)
      PROVE  UNCHANGED <<order, held>>
  BY <1>2, <1>3 DEF CreateSeason, UpdateSeason, DeleteSeason
<1>4. ASSUME NEW p, NEW a, NEW b, UpdateProduct(p, a, b)
      PROVE  UNCHANGED <<order, held>>
  BY <1>4 DEF UpdateProduct
<1>5. ASSUME NEW k, NEW v, ResizePackage(k, v) PROVE UNCHANGED <<order, held>>
  BY <1>5 DEF ResizePackage
<1>6. ASSUME CatalogStep PROVE UNCHANGED <<order, held>>
  BY <1>3, <1>4, <1>5, <1>6 DEF CatalogStep
<1> QED BY <1>1, <1>6 DEF Midnight

\* An order nobody placed holds nothing, and neither does a historical one.
IdleInv ==
  \A o \in OrderId : /\ order[o].stage = "NONE" => held[o] = Nothing
                     /\ order[o].historical => held[o] = Nothing

LEMMA IdleNext ==
  ASSUME BaseInv, IdleInv, [Next]_vars
  PROVE  IdleInv'
<1>1. order \in [OrderId -> OrderType] /\ held \in [OrderId -> HeldType]
  BY TypeOKParts DEF BaseInv
<1>2. ASSUME NEW o \in OrderId,
             \A x \in OrderId \ {o} : order'[x] = order[x] /\ held'[x] = held[x],
             order'[o].stage = "NONE" => held'[o] = Nothing,
             order'[o].historical => held'[o] = Nothing
      PROVE  IdleInv'
  BY <1>2 DEF IdleInv
<1>3. ASSUME NEW o \in OrderId, NEW k \in Package, NEW d \in Date,
             IntakeOrder(o, k, d) \/ IntakeOverride(o, k, d)
      PROVE  IdleInv'
  <2>1. PICK s \in IntakeSeasons(ProductOf[k], d) :
          /\ order' = [order EXCEPT ![o] = NewOrder(k, s, d)]
          /\ \E h : held' = [held EXCEPT ![o] = h]
    BY <1>3 DEF IntakeOrder, IntakeOverride
  <2>2. s \in SeasonId \cup {NoSeason}
    BY SeasonsFound DEF BaseInv
  <2>3. NewOrder(k, s, d).stage = "OPEN" /\ NewOrder(k, s, d).historical = FALSE
    BY DEF NewOrder, Fresh
  <2> QED BY <1>1, <1>2, <2>1, <2>3
<1>4. ASSUME NEW o \in OrderId, NEW k \in Package, NEW d \in Date,
             CreateHistorical(o, k, d)
      PROVE  IdleInv'
  <2>1. held[o] = Nothing /\ held' = held
    BY <1>4 DEF CreateHistorical, IdleInv
  <2> QED BY <1>1, <1>2, <1>4, <2>1 DEF CreateHistorical
<1>5. ASSUME NEW o \in OrderId, NEW k \in Package, NEW d \in Date, EditOrder(o, k, d)
      PROVE  IdleInv'
  BY <1>1, <1>2, <1>5, EditedType DEF EditOrder, BaseInv, IdleInv
<1>6. ASSUME NEW o \in OrderId, NEW k \in Package, NEW d \in Date, MoveOrder(o, k, d)
      PROVE  IdleInv'
  <2>1. ~order[o].historical /\ order[o].stage # "NONE"
    BY <1>6, StageValues DEF MoveOrder, CapacityChanged, MayEdit, Existing
  <2>2. /\ order' = [order EXCEPT ![o] = Edited(o, k, d)]
        /\ \E h : held' = [held EXCEPT ![o] = h]
    BY <1>6 DEF MoveOrder
  <2> QED BY <1>1, <1>2, <2>1, <2>2, EditedType DEF BaseInv
<1>7. ASSUME NEW o \in OrderId, NEW to \in Stage, AdvanceOrder(o, to)
      PROVE  IdleInv'
  <2>1. order' = [order EXCEPT ![o].stage = to] /\ held' = held /\ to # "NONE"
    BY <1>7, StageValues DEF AdvanceOrder
  <2> QED BY <1>1, <1>2, <2>1 DEF IdleInv, OrderType
<1>8. ASSUME NEW o \in OrderId, NEW to \in Stage, ReleaseOrder(o, to)
      PROVE  IdleInv'
  <2>1. order' = [order EXCEPT ![o].stage = to] /\ held' = [held EXCEPT ![o] = Nothing]
    BY <1>8 DEF ReleaseOrder
  <2> QED BY <1>1, <1>2, <2>1
<1>9. ASSUME NEW o \in OrderId, DeleteOrder(o) PROVE IdleInv'
  <2>1. /\ order' = [order EXCEPT ![o] = Gone]
        /\ held' = held \/ held' = [held EXCEPT ![o] = Nothing]
    BY <1>9 DEF DeleteOrder
  <2>2. Gone.stage = "DELETED" /\ Gone.historical = FALSE
    BY DEF Gone, Fresh
  <2> QED BY <1>1, <1>2, <2>1, <2>2
<1>10. ASSUME NEW o \in OrderId, OrderStep(o) PROVE IdleInv'
  BY <1>3, <1>4, <1>5, <1>6, <1>7, <1>8, <1>9, <1>10 DEF OrderStep
<1>11. ASSUME UNCHANGED <<order, held>> PROVE IdleInv'
  BY <1>11 DEF IdleInv
<1> QED BY <1>10, <1>11, OthersKeepOrders DEF Next, vars

\* A historical order holds no capacity, from its creation on and whatever is
\* done to it or to the catalog, by any team.
THEOREM HistoryHoldsNothing == Spec => []HistoricalHoldsNothing
<1>1. Init => IdleInv
  BY DEF Init, IdleInv
<1>2. IdleInv => HistoricalHoldsNothing
  BY DEF IdleInv, HistoricalHoldsNothing
<1> QED BY <1>1, <1>2, IdleNext, BaseInvariant, PTL DEF Spec

\* Only its own step changes what an order holds.
LEMMA OwnStepsOnly ==
  ASSUME BaseInv, NEW o \in OrderId, NEW x \in OrderId, x # o, OrderStep(o)
  PROVE  held'[x] = held[x] /\ order'[x] = order[x]
<1>1. order \in [OrderId -> OrderType] /\ held \in [OrderId -> HeldType]
  BY TypeOKParts DEF BaseInv
<1>2. ASSUME \/ order' = order
             \/ \E row : order' = [order EXCEPT ![o] = row]
             \/ \E to : order' = [order EXCEPT ![o].stage = to],
             \/ held' = held
             \/ \E h : held' = [held EXCEPT ![o] = h]
      PROVE  held'[x] = held[x] /\ order'[x] = order[x]
  BY <1>1, <1>2
<1>3. ASSUME NEW k \in Package, NEW d \in Date, IntakeOrder(o, k, d)
      PROVE  held'[x] = held[x] /\ order'[x] = order[x]
  BY <1>2, <1>3 DEF IntakeOrder
<1>4. ASSUME NEW k \in Package, NEW d \in Date, IntakeOverride(o, k, d)
      PROVE  held'[x] = held[x] /\ order'[x] = order[x]
  <2>1. \E row, h : order' = [order EXCEPT ![o] = row] /\ held' = [held EXCEPT ![o] = h]
    BY <1>4 DEF IntakeOverride
  <2> QED BY <1>2, <2>1
<1>5. ASSUME NEW k \in Package, NEW d \in Date,
             CreateHistorical(o, k, d) \/ EditOrder(o, k, d) \/ MoveOrder(o, k, d)
      PROVE  held'[x] = held[x] /\ order'[x] = order[x]
  BY <1>2, <1>5 DEF CreateHistorical, EditOrder, MoveOrder
<1>6. ASSUME NEW to \in Stage, AdvanceOrder(o, to) \/ ReleaseOrder(o, to)
      PROVE  held'[x] = held[x] /\ order'[x] = order[x]
  BY <1>2, <1>6 DEF AdvanceOrder, ReleaseOrder
<1>7. ASSUME DeleteOrder(o) PROVE held'[x] = held[x] /\ order'[x] = order[x]
  <2>1. /\ order' = [order EXCEPT ![o] = Gone]
        /\ held' = held \/ held' = [held EXCEPT ![o] = Nothing]
    BY <1>7 DEF DeleteOrder
  <2> QED BY <1>2, <2>1
<1> QED BY <1>3, <1>4, <1>5, <1>6, <1>7 DEF OrderStep

\* In a careful shop a completed or deleted order neither takes capacity nor
\* gives any back, however it is edited, moved on or deleted.
THEOREM CompletedStaysSettled ==
  ASSUME Careful
  PROVE  Spec => CompletedIsSettled
<1>1. ASSUME CarefulInv, [Next]_vars, NEW o \in OrderId,
             order[o].stage \in {"CLOSED", "DELETED"}
      PROVE  held'[o] = held[o]
  <2>1. ~IsLive(o) /\ order[o].stage # "NONE"
    BY <1>1 DEF IsLive, LiveStages
  <2>2. ASSUME OrderStep(o) PROVE held'[o] = held[o]
    <3>1. ASSUME NEW k \in Package, NEW d \in Date,
                 IntakeOrder(o, k, d) \/ IntakeOverride(o, k, d)
          PROVE  FALSE
      BY <2>1, <3>1 DEF IntakeOrder, IntakeOverride
    <3>2. ASSUME NEW k \in Package, NEW d \in Date,
                 CreateHistorical(o, k, d) \/ EditOrder(o, k, d)
          PROVE  held' = held
      BY <3>2 DEF CreateHistorical, EditOrder
    <3>3. ASSUME NEW k \in Package, NEW d \in Date, MoveOrder(o, k, d) PROVE FALSE
      BY <1>1, <2>1, <3>3, MovesAreLive DEF MoveOrder
    <3>4. ASSUME NEW to \in Stage, AdvanceOrder(o, to) PROVE held' = held
      BY <3>4 DEF AdvanceOrder
    <3>5. ASSUME NEW to \in Stage, ReleaseOrder(o, to) PROVE FALSE
      BY <2>1, <3>5, OnlyOpenReleases DEF ReleaseOrder, IsLive, LiveStages
    <3>6. ASSUME DeleteOrder(o) PROVE held' = held
      BY <2>1, <3>6, DeletionStages DEF DeleteOrder, IsLive, LiveStages
    <3> QED BY <2>2, <3>1, <3>2, <3>3, <3>4, <3>5, <3>6 DEF OrderStep
  <2>3. ASSUME NEW x \in OrderId, x # o, OrderStep(x) PROVE held'[o] = held[o]
    BY <1>1, <2>3, OwnStepsOnly DEF CarefulInv
  <2> QED BY <1>1, <2>2, <2>3, OthersKeepOrders DEF Next, vars
<1>2. CarefulInv /\ [Next]_vars
        => [\A o \in OrderId :
              order[o].stage \in {"CLOSED", "DELETED"} => held'[o] = held[o]]_vars
  BY <1>1
<1> QED BY <1>2, CarefulInvariant, PTL DEF Spec, CompletedIsSettled

\* In a careful shop deleting an order that was never dispatched gives back
\* all it held: the release the deletion attempts always finds the row.
THEOREM DeletionReturnsVolume ==
  ASSUME Careful
  PROVE  Spec => DeletionGivesBack
<1>1. ASSUME CarefulInv, [Next]_vars, NEW o \in OrderId,
             order[o].stage \in {"OPEN", "PREPARING"}, order'[o].stage = "DELETED"
      PROVE  held'[o] = Nothing
  <2>1. IsLive(o)
    BY <1>1 DEF IsLive, LiveStages
  <2>2. order \in [OrderId -> OrderType] /\ held \in [OrderId -> HeldType]
    BY <1>1, TypeOKParts DEF CarefulInv, BaseInv
  <2>3. ASSUME order'[o] = order[o] PROVE FALSE
    BY <1>1, <2>3
  <2>4. ASSUME OrderStep(o) PROVE DeleteOrder(o)
    <3>1. ASSUME NEW k \in Package, NEW d \in Date,
                 \/ IntakeOrder(o, k, d) \/ IntakeOverride(o, k, d)
                 \/ CreateHistorical(o, k, d)
          PROVE  FALSE
      BY <1>1, <3>1 DEF IntakeOrder, IntakeOverride, CreateHistorical
    <3>2. ASSUME NEW k \in Package, NEW d \in Date,
                 EditOrder(o, k, d) \/ MoveOrder(o, k, d)
          PROVE  FALSE
      <4>1. order'[o] = Edited(o, k, d)
        BY <2>2, <3>2 DEF EditOrder, MoveOrder
      <4> QED BY <1>1, <4>1, EditedType DEF CarefulInv, BaseInv
    <3>3. ASSUME NEW to \in Stage, AdvanceOrder(o, to) \/ ReleaseOrder(o, to) PROVE FALSE
      <4>1. order'[o].stage = to /\ to # "DELETED"
        BY <2>2, <3>3, StageValues DEF AdvanceOrder, ReleaseOrder, OrderType
      <4> QED BY <1>1, <4>1
    <3> QED BY <2>4, <3>1, <3>2, <3>3 DEF OrderStep
  <2>5. ASSUME DeleteOrder(o) PROVE held'[o] = Nothing
    <3>1. PICK s \in ReleaseSeasons(o) :
            LET r == RowAt(OrderProduct(o), s, order[o].date) IN
              IF Releasable(o, r) THEN held' = [held EXCEPT ![o] = Nothing] ELSE TRUE
      BY <1>1, <2>5, DeletionStages DEF DeleteOrder
    <3>2. Releasable(o, RowAt(OrderProduct(o), s, order[o].date))
      BY <1>1, <2>1, LiveIsReleasable
    <3> QED BY <2>2, <3>1, <3>2
  <2>6. ASSUME NEW x \in OrderId, x # o, OrderStep(x) PROVE FALSE
    BY <1>1, <2>3, <2>6, OwnStepsOnly DEF CarefulInv
  <2> QED BY <1>1, <2>3, <2>4, <2>5, <2>6, OthersKeepOrders DEF Next, vars
<1>2. CarefulInv /\ [Next]_vars
        => [\A o \in OrderId :
              order[o].stage \in {"OPEN", "PREPARING"} /\ order'[o].stage = "DELETED"
                => held'[o] = Nothing]_vars
  BY <1>1
<1> QED BY <1>2, CarefulInvariant, PTL DEF Spec, DeletionGivesBack

-----------------------------------------------------------------------------
(* Rows that are sold out. *)

\* Planning and the catalog write a row's other columns only.
LEMMA CellRewritten ==
  ASSUME NEW c \in CellType, NEW x, NEW y
  PROVE  /\ [c EXCEPT !.capacity = x, !.soldOut = y].reserved = c.reserved
         /\ [c EXCEPT !.accepts = x, !.soldOut = y].reserved = c.reserved
BY DEF CellType

\* Giving back and adding to other rows keep a row from growing.
LEMMA SoldOutStep ==
  ASSUME BaseInv, NEW q \in rows, cell[q].soldOut # "NO", [Next]_vars
  PROVE  cell'[q].reserved <= cell[q].reserved
<1> USE DEF BaseInv
<1>1. /\ q \in Row /\ cell \in [Row -> CellType] /\ cell[q] \in CellType
      /\ cell[q].reserved \in Int
  BY TypeOKParts DEF CellType
<1>2. ASSUME NEW r \in Row, NEW ml \in Int, r # q, cell' = Take(cell, r, ml)
      PROVE  cell'[q].reserved <= cell[q].reserved
  BY <1>1, <1>2, OtherRows
<1>3. ASSUME NEW r \in Row, NEW ml \in Nat, cell' = Give(cell, r, ml)
      PROVE  cell'[q].reserved <= cell[q].reserved
  <2>1. CASE q # r
    BY <1>1, <1>3, <2>1, OtherRows
  <2>2. CASE q = r
    <3>1. cell'[q].reserved = cell[q].reserved - ml
      BY <1>1, <1>3, <2>2, TakeGiveType
    <3> QED BY <1>1, <1>3, <3>1
  <2> QED BY <2>1, <2>2
<1>4. \A k \in Package : size[k] \in Nat
  BY TypeOKParts, VolumeNat
<1>5. \A o \in OrderId : order[o].volume \in Nat
  BY TypeOKParts, VolumeNat DEF OrderType
<1>6. ASSUME NEW o \in OrderId, NEW k \in Package, NEW d \in Date, IntakeOrder(o, k, d)
      PROVE  cell'[q].reserved <= cell[q].reserved
  <2>1. PICK s \in IntakeSeasons(ProductOf[k], d) :
          LET r == RowAt(ProductOf[k], s, d) IN
            r \in rows /\ Accepting(cell[r]) /\ cell' = Take(cell, r, size[k])
    BY <1>6 DEF IntakeOrder
  <2>2. RowAt(ProductOf[k], s, d) \in Row /\ RowAt(ProductOf[k], s, d) # q
    BY <2>1, TypeOKParts DEF Accepting
  <2> QED BY <1>2, <1>4, <2>1, <2>2
<1>7. ASSUME NEW o \in OrderId, NEW k \in Package, NEW d \in Date, IntakeOverride(o, k, d)
      PROVE  cell'[q].reserved <= cell[q].reserved
  <2> DEFINE r(s) == RowAt(ProductOf[k], s, d)
             c(s) == IF r(s) \in rows THEN cell[r(s)] ELSE NewCell(ProvisionedMl, "NO")
  <2>1. PICK s \in IntakeSeasons(ProductOf[k], d) :
          /\ c(s).soldOut = "NO"
          /\ cell' = Take([cell EXCEPT ![r(s)] = c(s)], r(s), size[k])
    BY <1>7 DEF IntakeOverride
  <2>2. r(s) # q
    BY <2>1
  <2> HIDE DEF r, c
  <2>3. cell'[q] = cell[q]
    BY <1>1, <2>1, <2>2 DEF Take
  <2> QED BY <1>1, <2>3
<1>8. ASSUME NEW o \in OrderId, NEW k \in Package, NEW d \in Date, MoveOrder(o, k, d)
      PROVE  cell'[q].reserved <= cell[q].reserved
  <2> DEFINE p == OrderProduct(o)
             from == ResolvedRow(p, SoleSeason(p, order[o].date), order[o].date)
             to == ResolvedRow(ProductOf[k], SoleSeason(ProductOf[k], d), d)
             released == Give(cell, from, order[o].volume)
  <2>1. /\ from \in rows /\ to \in rows /\ Accepting(cell[to])
        /\ cell' = Take(released, to, size[k])
    BY <1>8 DEF MoveOrder
  <2> HIDE DEF from, to
  <2>2. from \in Row /\ to \in Row /\ to # q
    BY <2>1, TypeOKParts DEF Accepting
  <2>3. /\ released \in [Row -> CellType]
        /\ released[q].reserved <= cell[q].reserved
    <3>1. released \in [Row -> CellType]
      BY <1>1, <1>5, <2>2, TakeGiveType
    <3>2. CASE q # from
      BY <1>1, <2>2, <3>1, <3>2, OtherRows
    <3>3. CASE q = from
      <4>1. released[q].reserved = cell[q].reserved - order[o].volume
        BY <1>1, <1>5, <2>2, <3>3, TakeGiveType
      <4> QED BY <1>1, <1>5, <3>1, <4>1
    <3> QED BY <3>1, <3>2, <3>3
  <2> HIDE DEF released
  <2>4. cell'[q] = released[q]
    BY <1>1, <2>1, <2>2, <2>3, OtherRows
  <2> QED BY <2>3, <2>4
<1>9. ASSUME NEW o \in OrderId,
             DeleteOrder(o) \/ \E to \in Stage : ReleaseOrder(o, to)
      PROVE  cell'[q].reserved <= cell[q].reserved
  <2>1. CASE cell' = cell
    BY <1>1, <2>1
  <2>2. CASE cell' # cell
    <3>1. PICK s \in ReleaseSeasons(o) :
            LET r == RowAt(OrderProduct(o), s, order[o].date) IN
              Releasable(o, r) /\ cell' = Give(cell, r, order[o].volume)
      BY <1>9, <2>2 DEF DeleteOrder, ReleaseOrder
    <3>2. RowAt(OrderProduct(o), s, order[o].date) \in Row
      BY <3>1, TypeOKParts DEF Releasable
    <3> QED BY <1>3, <1>5, <3>1, <3>2
  <2> QED BY <2>1, <2>2
<1>10. ASSUME NEW r \in rows, NEW c \in CapacityChoice, NEW closed \in BOOLEAN,
              NEW accepts \in BOOLEAN, UpdateAvailability(r, c, closed, accepts)
       PROVE  cell'[q].reserved <= cell[q].reserved
  BY <1>1, <1>10 DEF UpdateAvailability, CellType
<1>11. ASSUME NEW p \in Product, NEW dates \in (SUBSET Date) \ {{}}, NEW c \in CapacityChoice,
              NEW closed \in BOOLEAN, PlanAvailability(p, dates, c, closed)
       PROVE  cell'[q].reserved <= cell[q].reserved
  <2>1. \/ cell'[q] = cell[q]
        \/ cell'[q] = [cell[q] EXCEPT !.capacity = c, !.soldOut = SoldOutAs(closed)]
    BY <1>1, <1>11 DEF PlanAvailability
  <2>2. [cell[q] EXCEPT !.capacity = c, !.soldOut = SoldOutAs(closed)].reserved
          = cell[q].reserved
    BY <1>1, CellRewritten
  <2>3. cell'[q].reserved = cell[q].reserved
    BY <2>1, <2>2, Zenon
  <2> QED BY <1>1, <2>3
<1>12. ASSUME NEW p \in Product, NEW a \in Date, NEW b \in Date, UpdateProduct(p, a, b)
       PROVE  cell'[q].reserved <= cell[q].reserved
  <2>1. \/ cell'[q] = [cell[q] EXCEPT !.accepts = FALSE, !.soldOut = "WINDOW"]
        \/ cell'[q] = [cell[q] EXCEPT !.accepts = TRUE, !.soldOut = "NO"]
        \/ cell'[q] = cell[q]
    BY <1>1, <1>12 DEF UpdateProduct
  <2>2. /\ [cell[q] EXCEPT !.accepts = FALSE, !.soldOut = "WINDOW"].reserved = cell[q].reserved
        /\ [cell[q] EXCEPT !.accepts = TRUE, !.soldOut = "NO"].reserved = cell[q].reserved
    BY <1>1, CellRewritten
  <2>3. cell'[q].reserved = cell[q].reserved
    BY <2>1, <2>2, Zenon
  <2> QED BY <1>1, <2>3
<1>13. ASSUME cell' = cell PROVE cell'[q].reserved <= cell[q].reserved
  BY <1>1, <1>13
<1>14. ASSUME NEW o \in OrderId, OrderStep(o) PROVE cell'[q].reserved <= cell[q].reserved
  BY <1>6, <1>7, <1>8, <1>9, <1>13, <1>14
     DEF OrderStep, CreateHistorical, EditOrder, AdvanceOrder
<1>15. ASSUME PlanningStep PROVE cell'[q].reserved <= cell[q].reserved
  BY <1>10, <1>11, <1>15 DEF PlanningStep
<1>16. ASSUME CatalogStep PROVE cell'[q].reserved <= cell[q].reserved
  <2>1. ASSUME NEW s, NEW p, NEW a, NEW b, NEW status,
               \/ CreateSeason(s, p, a, b, status)
               \/ UpdateSeason(s, a, b, status)
               \/ DeleteSeason(s)
        PROVE  cell' = cell
    BY <2>1 DEF CreateSeason, UpdateSeason, DeleteSeason, SeasonEdit
  <2>2. ASSUME NEW k, NEW v, ResizePackage(k, v) PROVE cell' = cell
    BY <2>2 DEF ResizePackage
  <2> QED BY <1>12, <1>13, <1>16, <2>1, <2>2 DEF CatalogStep
<1> QED BY <1>13, <1>14, <1>15, <1>16 DEF Next, Midnight, vars

\* A row marked sold out never carries more than it did, whoever reserves and
\* by whichever way: intake, an override, or an edit that moves an order.
THEOREM SoldOutRowsNeverGrow == Spec => SoldOutNeverSells
<1>1. BaseInv /\ [Next]_vars
        => [\A r \in rows : cell[r].soldOut # "NO"
                              => cell'[r].reserved <= cell[r].reserved]_vars
  BY SoldOutStep
<1> QED BY <1>1, BaseInvariant, PTL DEF Spec, SoldOutNeverSells
-----------------------------------------------------------------------------
(* The ledger. *)

CapacityOf == [r \in Row |-> cell[r].capacity]

\* After any step a careful shop's rows carry what is held on them.
LEMMA RowsCarry ==
  ASSUME CarefulInv'
  PROVE  /\ cell' \in [Row -> CellType]
         /\ CapacityOf' \in [Row -> Nat]
         /\ \A r \in Row : CapacityOf'[r] = cell'[r].capacity
         /\ \A r \in Row : Ledger!HeldMl(held', r) <= CapacityOf'[r]
<1>1. cell' \in [Row -> CellType]
  BY DEF CarefulInv, BaseInv, TypeOK, CellType
<1>2. CapacityOf' \in [Row -> Nat] /\ \A r \in Row : CapacityOf'[r] = cell'[r].capacity
  BY <1>1 DEF CapacityOf, CellType
<1>3. \A r \in Row : cell'[r].reserved = Ledger!HeldMl(held', r)
  BY DEF CarefulInv, Balanced
<1>4. \A r \in Row : cell'[r].reserved <= cell'[r].capacity
  BY DEF CarefulInv, BaseInv, ReservedWithinCapacity
<1> QED BY <1>1, <1>2, <1>3, <1>4

\* A step that leaves the holdings alone is planning, to the ledger.
LEMMA LedgerPlans ==
  ASSUME CarefulInv', held' = held
  PROVE  Ledger!Next
<1>1. Ledger!Plan
  BY RowsCarry DEF Ledger!Plan, CapacityOf
<1> QED BY <1>1 DEF Ledger!Next

\* Capacities stay where only the reserved column is written.
LEMMA CapacityAlone ==
  ASSUME CarefulInv, CarefulInv',
         \A r \in Row : cell'[r].capacity = cell[r].capacity
  PROVE  CapacityOf' = CapacityOf
BY DEF CapacityOf

\* An intake, with or without an override, reserves.
LEMMA LedgerReserves ==
  ASSUME CarefulInv, CarefulInv', NEW o \in OrderId, NEW k \in Package, NEW d \in Date,
         IntakeOrder(o, k, d) \/ IntakeOverride(o, k, d)
  PROVE  Ledger!Next
<1> USE DEF CarefulInv, BaseInv
<1>1. /\ cell \in [Row -> CellType] /\ size[k] \in Volume /\ size[k] \in Int
      /\ rows \subseteq Row
  BY TypeOKParts, VolumeNat
<1>2. held[o] = Nothing
  BY DEF IntakeOrder, IntakeOverride, HeldOnRows
<1>3. PICK r \in Row :
        /\ held' = [held EXCEPT ![o] = Holding(r, size[k])]
        /\ \A q \in Row : cell'[q].capacity # cell[q].capacity
                            => q = r /\ cell[r].capacity = 0
  <2>1. CASE IntakeOrder(o, k, d)
    <3> DEFINE r(s) == RowAt(ProductOf[k], s, d)
    <3>1. PICK s \in IntakeSeasons(ProductOf[k], d) :
            /\ r(s) \in rows /\ cell' = Take(cell, r(s), size[k])
            /\ held' = [held EXCEPT ![o] = Holding(r(s), size[k])]
      BY <2>1 DEF IntakeOrder
    <3>2. r(s) \in Row
      BY <1>1, <3>1
    <3> HIDE DEF r
    <3>3. \A q \in Row : cell'[q].capacity = cell[q].capacity
      BY <1>1, <3>1, <3>2, TakeGiveType
    <3> QED BY <3>1, <3>2, <3>3
  <2>2. CASE IntakeOverride(o, k, d)
    <3> DEFINE r(s) == RowAt(ProductOf[k], s, d)
               c(s) == IF r(s) \in rows THEN cell[r(s)] ELSE NewCell(ProvisionedMl, "NO")
               cells(s) == [cell EXCEPT ![r(s)] = c(s)]
    <3>1. PICK s \in IntakeSeasons(ProductOf[k], d) :
            /\ rows' = rows \cup {r(s)}
            /\ cell' = Take(cells(s), r(s), size[k])
            /\ held' = [held EXCEPT ![o] = Holding(r(s), size[k])]
      BY <2>2 DEF IntakeOverride
    <3>2. r(s) \in Row
      BY <3>1 DEF TypeOK
    <3>3. c(s) \in CellType /\ (r(s) \in rows => c(s) = cell[r(s)])
      BY <1>1, <3>2, CapacityConstants DEF NewCell, CellType
    <3>4. r(s) \notin rows => cell[r(s)].capacity = 0
      BY <3>2 DEF AbsentRowsEmpty, NoCell
    <3> HIDE DEF r, c
    <3>5. /\ cells(s) \in [Row -> CellType]
          /\ \A q \in Row : cells(s)[q] = IF q = r(s) THEN c(s) ELSE cell[q]
      BY <1>1, <3>2, <3>3
    <3> HIDE DEF cells
    <3>6. \A q \in Row : cell'[q].capacity = cells(s)[q].capacity
      BY <1>1, <3>1, <3>2, <3>5, TakeGiveType
    <3>7. ASSUME NEW q \in Row, cell'[q].capacity # cell[q].capacity
          PROVE  q = r(s) /\ cell[r(s)].capacity = 0
      BY <3>3, <3>4, <3>5, <3>6, <3>7
    <3> QED BY <3>1, <3>2, <3>7
  <2> QED BY <2>1, <2>2
<1>4. \A q \in Row : CapacityOf[q] = cell[q].capacity
  BY DEF CapacityOf
<1>5. /\ \A q \in Row : CapacityOf'[q] # CapacityOf[q] => q = r /\ CapacityOf[r] = 0
      /\ CapacityOf' \in [Row -> Nat]
      /\ Ledger!HeldMl(held', r) <= CapacityOf'[r]
  BY <1>3, <1>4, RowsCarry
<1>6. PICK v \in Volume : v = size[k]
  BY <1>1
<1>7. Ledger!Reserve(o, r, v)
  <2>1. held[o] = Ledger!Nothing
    BY <1>2 DEF Ledger!Nothing, Nothing, Holding
  <2>2. held' = [held EXCEPT ![o] = [row |-> r, ml |-> v]]
    BY <1>3, <1>6 DEF Holding
  <2>3. /\ CapacityOf' \in [Row -> Nat]
        /\ \A q \in Row : CapacityOf'[q] # CapacityOf[q] => q = r /\ CapacityOf[r] = 0
        /\ Ledger!HeldMl(held', r) <= CapacityOf'[r]
    BY <1>5
  <2> QED BY <2>1, <2>2, <2>3, SMTT(60) DEF Ledger!Reserve, CapacityOf
<1> QED BY <1>7 DEF Ledger!Next

\* An order holds something as long as it is live,
LEMMA LiveHolds ==
  ASSUME CarefulInv, NEW o \in OrderId, IsLive(o)
  PROVE  held[o] # Nothing
<1>1. KeyRow(o) \in Row /\ held[o] = Holding(KeyRow(o), order[o].volume)
  BY LiveOrder
<1> QED BY <1>1, CapacityConstants DEF Holding, Nothing

\* so an edit that changes the volume or the place moves it all,
LEMMA LedgerMoves ==
  ASSUME CarefulInv, CarefulInv', NEW o \in OrderId, NEW k \in Package, NEW d \in Date,
         MoveOrder(o, k, d)
  PROVE  Ledger!Next
<1> USE DEF CarefulInv, BaseInv
<1> DEFINE p == OrderProduct(o)
           from == ResolvedRow(p, SoleSeason(p, order[o].date), order[o].date)
           to == ResolvedRow(ProductOf[k], SoleSeason(ProductOf[k], d), d)
           released == Give(cell, from, order[o].volume)
<1>1. /\ from \in rows /\ to \in rows
      /\ cell' = Take(released, to, size[k])
      /\ held' = [held EXCEPT ![o] = Holding(to, size[k])]
  BY DEF MoveOrder
<1> HIDE DEF from, to
<1>2. /\ from \in Row /\ to \in Row /\ cell \in [Row -> CellType]
      /\ size[k] \in Volume /\ size[k] \in Int /\ order[o].volume \in Int
  BY <1>1, TypeOKParts, VolumeNat DEF OrderType
<1>3. /\ released \in [Row -> CellType]
      /\ \A q \in Row : released[q].capacity = cell[q].capacity
  BY <1>2, TakeGiveType
<1> HIDE DEF released
<1>4. \A q \in Row : cell'[q].capacity = cell[q].capacity
  BY <1>1, <1>2, <1>3, TakeGiveType
<1>5. CapacityOf' = CapacityOf /\ Ledger!HeldMl(held', to) <= CapacityOf[to]
  BY <1>2, <1>4, CapacityAlone, RowsCarry
<1>6. held[o] # Nothing
  BY MovesAreLive, LiveHolds DEF MoveOrder
<1>7. Ledger!Move(o, to, size[k])
  BY <1>1, <1>5, <1>6 DEF Ledger!Move, Ledger!Nothing, Nothing, Holding, CapacityOf
<1> QED BY <1>2, <1>7 DEF Ledger!Next

\* and what is given back is given back whole.
LEMMA LedgerReleases ==
  ASSUME CarefulInv, CarefulInv', NEW o \in OrderId, IsLive(o),
         NEW s \in ReleaseSeasons(o),
         cell' = Give(cell, RowAt(OrderProduct(o), s, order[o].date), order[o].volume),
         held' = [held EXCEPT ![o] = Nothing]
  PROVE  Ledger!Next
<1>1. /\ cell \in [Row -> CellType] /\ order[o].volume \in Int
      /\ RowAt(OrderProduct(o), s, order[o].date) \in Row
  BY TypeOKParts, VolumeNat, ReleaseFindsKey, LiveOrder DEF CarefulInv, BaseInv
<1>2. \A q \in Row : cell'[q].capacity = cell[q].capacity
  BY <1>1, TakeGiveType
<1>3. CapacityOf' = CapacityOf
  BY <1>2, CapacityAlone
<1>4. Ledger!Release(o)
  BY <1>3, LiveHolds DEF Ledger!Release, Ledger!Nothing, Nothing, Holding, CapacityOf
<1> QED BY <1>4 DEF Ledger!Next

\* In a careful shop every step of the code is a step of the ledger: a volume
\* is reserved, moved or given back whole, by its own order only, and no row is
\* ever overbooked.
THEOREM ImplementsLedger ==
  ASSUME Careful
  PROVE  Spec => KeepsLedger
<1>1. Init => Ledger!Init
  <2> SUFFICES ASSUME Init PROVE Ledger!Init
    OBVIOUS
  <2>1. cell \in [Row -> CellType]
    BY BaseInit, TypeOKParts DEF BaseInv
  <2>2. CapacityOf \in [Row -> Nat]
    BY <2>1 DEF CapacityOf, CellType
  <2> QED BY <2>2 DEF Init, Ledger!Init, Ledger!Nothing, Nothing, Holding, CapacityOf
<1>2. ASSUME CarefulInv, [Next]_vars
      PROVE  [Ledger!Next]_<<CapacityOf, held>>
  <2>1. CarefulInv'
    BY <1>2, CarefulNext
  <2>2. ASSUME NEW o \in OrderId, NEW k \in Package, NEW d \in Date,
               \/ IntakeOrder(o, k, d) \/ IntakeOverride(o, k, d) \/ MoveOrder(o, k, d)
               \/ CreateHistorical(o, k, d) \/ EditOrder(o, k, d)
        PROVE  Ledger!Next
    <3>1. ASSUME CreateHistorical(o, k, d) \/ EditOrder(o, k, d) PROVE held' = held
      BY <3>1 DEF CreateHistorical, EditOrder
    <3> QED BY <1>2, <2>1, <2>2, <3>1, LedgerReserves, LedgerMoves, LedgerPlans
  <2>3. ASSUME NEW o \in OrderId, NEW to \in Stage, AdvanceOrder(o, to)
        PROVE  Ledger!Next
    BY <2>1, <2>3, LedgerPlans DEF AdvanceOrder
  <2>4. ASSUME NEW o \in OrderId, NEW to \in Stage, ReleaseOrder(o, to)
        PROVE  Ledger!Next
    <3>1. IsLive(o)
      BY <2>4, OnlyOpenReleases DEF ReleaseOrder, IsLive, LiveStages
    <3>2. PICK s \in ReleaseSeasons(o) :
            cell' = Give(cell, RowAt(OrderProduct(o), s, order[o].date), order[o].volume)
      BY <2>4 DEF ReleaseOrder
    <3>3. held' = [held EXCEPT ![o] = Nothing]
      BY <2>4 DEF ReleaseOrder
    <3> QED BY <1>2, <2>1, <3>1, <3>2, <3>3, LedgerReleases
  <2>5. ASSUME NEW o \in OrderId, DeleteOrder(o) PROVE Ledger!Next
    <3>1. CASE held' = held
      BY <2>1, <3>1, LedgerPlans
    <3>2. CASE held' # held
      <4>1. IsLive(o)
        BY <2>5, <3>2, DeletionStages DEF DeleteOrder, IsLive, LiveStages
      <4>2. PICK s \in ReleaseSeasons(o) :
              /\ cell' = Give(cell, RowAt(OrderProduct(o), s, order[o].date), order[o].volume)
              /\ held' = [held EXCEPT ![o] = Nothing]
        BY <2>5, <3>2 DEF DeleteOrder
      <4> QED BY <1>2, <2>1, <4>1, <4>2, LedgerReleases
    <3> QED BY <3>1, <3>2
  <2>6. ASSUME NEW o \in OrderId, OrderStep(o) PROVE Ledger!Next
    BY <2>2, <2>3, <2>4, <2>5, <2>6 DEF OrderStep
  <2>7. ASSUME PlanningStep \/ CatalogStep \/ Midnight PROVE Ledger!Next
    BY <2>1, <2>7, OthersKeepOrders, LedgerPlans
  <2>8. ASSUME UNCHANGED vars PROVE UNCHANGED <<CapacityOf, held>>
    BY <2>8 DEF vars, CapacityOf
  <2> QED BY <1>2, <2>6, <2>7, <2>8 DEF Next
<1>3. CarefulInv /\ [Next]_vars
        => [Ledger!Next]_<<[r \in Row |-> cell[r].capacity], held>>
  BY <1>2 DEF CapacityOf
<1> QED BY <1>1, <1>3, CarefulInvariant, PTL DEF Spec, KeepsLedger, Ledger!Spec
-----------------------------------------------------------------------------
(* What the ledger promises. *)

\* A change of one holding brings nothing to the rows it does not move to.
LEMMA HeldElsewhere ==
  ASSUME NEW hold \in [OrderId -> HeldType], NEW o \in OrderId, NEW x \in HeldType,
         NEW q \in Row, x.row # q
  PROVE  Ledger!HeldMl([hold EXCEPT ![o] = x], q) <= Ledger!HeldMl(hold, q)
<1>. DEFINE after == [hold EXCEPT ![o] = x]
            rest == [hold EXCEPT ![o] = Nothing]
<1>1. after \in [OrderId -> HeldType] /\ after[o] = x /\ [after EXCEPT ![o] = Nothing] = rest
  OBVIOUS
<1>. HIDE DEF after, rest
<1>2. /\ Ledger!HeldMl(rest, q) \in Nat
      /\ Ledger!HeldMl(after, q) = Ledger!HeldMl(rest, q) + OwnMl(after, o, q)
  BY <1>1, HeldSplit
<1>3. Ledger!HeldMl(hold, q) = Ledger!HeldMl(rest, q) + OwnMl(hold, o, q)
  BY HeldSplit DEF rest
<1>4. OwnMl(after, o, q) = 0 /\ OwnMl(hold, o, q) \in Nat
  BY <1>1, VolumeNat DEF OwnMl, HeldType
<1>5. Ledger!HeldMl(after, q) <= Ledger!HeldMl(hold, q)
  BY <1>2, <1>3, <1>4
<1>. QED  BY <1>5 DEF after

\* The ledger's steps keep every place within its capacity: what moves fits
\* where it goes, and the other places carry no more than before.
LedgerInv ==
  /\ held \in [OrderId -> HeldType] /\ CapacityOf \in [Row -> Nat]
  /\ \A q \in Row : Ledger!HeldMl(held, q) <= CapacityOf[q]

LEMMA PlacedFits ==
  ASSUME LedgerInv, NEW o \in OrderId, NEW x \in HeldType,
         held' = [held EXCEPT ![o] = x], CapacityOf' \in [Row -> Nat],
         \A q \in Row : q # x.row => CapacityOf'[q] = CapacityOf[q],
         x.row \in Row => Ledger!HeldMl(held', x.row) <= CapacityOf'[x.row]
  PROVE  LedgerInv'
<1>1. held' \in [OrderId -> HeldType]
  BY DEF LedgerInv
<1>2. ASSUME NEW q \in Row PROVE Ledger!HeldMl(held', q) <= CapacityOf'[q]
  <2>1. CASE q = x.row
    BY <2>1
  <2>2. CASE q # x.row
    <3>1. held \in [OrderId -> HeldType] /\ Ledger!HeldMl(held, q) <= CapacityOf[q]
      BY DEF LedgerInv
    <3>2. Ledger!HeldMl(held', q) <= Ledger!HeldMl(held, q)
      BY <2>2, <3>1, HeldElsewhere
    <3>3. /\ Ledger!HeldMl(held', q) \in Nat /\ Ledger!HeldMl(held, q) \in Nat
          /\ CapacityOf[q] \in Nat /\ CapacityOf'[q] = CapacityOf[q]
      BY <1>1, <2>2, <3>1, HeldSplit DEF LedgerInv
    <3>. QED  BY <3>1, <3>2, <3>3
  <2>. QED  BY <2>1, <2>2
<1>3. \A q \in Row : (Ledger!HeldMl(held, q) <= CapacityOf[q])'
  BY <1>2 DEF Ledger!HeldMl, Ledger!Claims
<1>. QED  BY <1>1, <1>3 DEF LedgerInv

\* The abstract specification is worth implementing: it never overbooks a place.
THEOREM LedgerNeverOverbooks == KeepsLedger => []Ledger!NeverOverbooked
<1>. USE DEF Ledger!Nothing, Nothing, Holding
<1>1. Ledger!Init => LedgerInv
  <2>. SUFFICES ASSUME Ledger!Init PROVE LedgerInv
    OBVIOUS
  <2>1. CapacityOf \in [Row -> Nat] /\ held = [o \in OrderId |-> Nothing]
    BY DEF Ledger!Init, CapacityOf
  <2>2. held \in [OrderId -> HeldType]
    BY <2>1, HoldingType
  <2>3. ASSUME NEW q \in Row PROVE Ledger!HeldMl(held, q) <= CapacityOf[q]
    <3>1. {o \in OrderId : held[o].row = q} = {}
      BY <2>1, CapacityConstants
    <3>2. Ledger!Claims(held, q) = {}
      BY <3>1 DEF Ledger!Claims
    <3>3. Ledger!HeldMl(held, q) = 0
      BY <3>2, FS_EmptySet DEF Ledger!HeldMl, Ledger!Cardinality, Cardinality
    <3>. QED  BY <2>1, <3>3
  <2>. QED  BY <2>1, <2>2, <2>3 DEF LedgerInv
<1>2. LedgerInv /\ [Ledger!Next]_<<CapacityOf, held>> => LedgerInv'
  <2>. SUFFICES ASSUME LedgerInv, [Ledger!Next]_<<CapacityOf, held>> PROVE LedgerInv'
    OBVIOUS
  <2>1. Nothing \in HeldType /\ Nothing.row \notin Row
    BY HoldingType, CapacityConstants
  <2>2. ASSUME NEW o \in OrderId, NEW r \in Row, NEW v \in Volume,
               Ledger!Reserve(o, r, v) \/ Ledger!Move(o, r, v)
        PROVE  LedgerInv'
    <3>1. [row |-> r, ml |-> v] \in HeldType
      BY DEF HeldType
    <3>2. /\ held' = [held EXCEPT ![o] = [row |-> r, ml |-> v]]
          /\ CapacityOf' \in [Row -> Nat]
          /\ \A q \in Row : q # r => CapacityOf'[q] = CapacityOf[q]
          /\ Ledger!HeldMl(held', r) <= CapacityOf'[r]
      BY <2>2, SMTT(60) DEF Ledger!Reserve, Ledger!Move, CapacityOf, LedgerInv
    <3>. QED  BY <3>1, <3>2, PlacedFits
  <2>3. ASSUME NEW o \in OrderId, Ledger!Release(o) PROVE LedgerInv'
    <3>1. held' = [held EXCEPT ![o] = Nothing] /\ CapacityOf' = CapacityOf
      BY <2>3 DEF Ledger!Release, CapacityOf
    <3>. QED  BY <2>1, <3>1, PlacedFits DEF LedgerInv
  <2>4. CASE Ledger!Plan
    <3>1. /\ CapacityOf' \in [Row -> Nat] /\ held' = held
          /\ \A q \in Row : Ledger!HeldMl(held, q) <= CapacityOf'[q]
      BY <2>4 DEF Ledger!Plan, CapacityOf
    <3>. QED  BY <3>1 DEF LedgerInv, Ledger!HeldMl, Ledger!Claims
  <2>5. CASE UNCHANGED <<CapacityOf, held>>
    BY <2>5 DEF LedgerInv, Ledger!HeldMl, Ledger!Claims
  <2>. QED  BY <2>2, <2>3, <2>4, <2>5 DEF Ledger!Next
<1>3. LedgerInv => Ledger!NeverOverbooked
  BY DEF LedgerInv, Ledger!NeverOverbooked, CapacityOf
<1>. QED  BY <1>1, <1>2, <1>3, PTL DEF KeepsLedger, Ledger!Spec, CapacityOf
=============================================================================
