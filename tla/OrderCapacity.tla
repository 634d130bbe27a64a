---------------------------- MODULE OrderCapacity ----------------------------
(***************************************************************************)
(* Harvest capacity and the orders that hold it.                           *)
(*                                                                         *)
(* Every availability row says how many millilitres may be promised for    *)
(* one product on one date, either inside a harvest season or ("legacy")   *)
(* outside any.  An order does not remember the row it was reserved on:    *)
(* each operation finds a row again from the order's product, date and     *)
(* season, and the calendar of seasons may have been edited in between.    *)
(* This module has every operation that reads or writes that state.        *)
(*                                                                         *)
(* Each action is one database transaction, or one sequence of statements  *)
(* taken as one step (season edits and updateProduct, which the code does  *)
(* not wrap in a transaction).  Left out, because they can only reject an  *)
(* operation that another legal input performs: row and order versions,    *)
(* reasons, contact channels, the same-day cutoff, active flags, the id a  *)
(* plan gives to a new row, payments.  An order's package stands for its   *)
(* package and quantity.  An order's status is kept up to its stage:       *)
(*   OPEN NEW and CONFIRMED, PREPARING PICKING and READY,                  *)
(*   OUT OUT_FOR_DELIVERY, CLOSED the completed statuses;                  *)
(*   NONE the id is unused, DELETED the row is gone.                       *)
(***************************************************************************)
EXTENDS Integers, FiniteSets, OrderLifecycle

CONSTANTS
  OrderId, Product, Package,
  ProductOf,       \* ProductOf[k]: the product package k belongs to
  Horizon,         \* business dates are 1..Horizon
  SeasonId, SeasonStatus,
  NoSeason,        \* seasonId NULL
  NoRow,           \* not a row
  Volume,          \* the millilitres a package can have
  CapacityChoice,  \* the capacities staff enter
  ProvisionedMl,   \* capacity of a row an overriding intake creates
  Careful          \* TRUE: catalog edits leave what orders rely on alone

Date == 1..Horizon
Row == [product : Product, season : SeasonId \cup {NoSeason}, date : Date]
RowAt(p, s, d) == [product |-> p, season |-> s, date |-> d]

ASSUME CapacityConstants ==
  /\ IsFiniteSet(OrderId)
  /\ Package # {}
  /\ ProductOf \in [Package -> Product]
  /\ Horizon \in Nat \ {0}
  /\ SeasonStatus # {}
  /\ SeasonStatus \subseteq {"UPCOMING", "ACTIVE", "PAUSED", "COMPLETED"}
  /\ NoSeason \notin SeasonId
  /\ NoRow \notin Row
  /\ Volume \subseteq Nat \ {0}
  /\ CapacityChoice \subseteq Nat
  /\ ProvisionedMl \in Nat
  /\ Careful \in BOOLEAN

VARIABLES
  today,      \* the business date at the shop
  window,     \* window[p]: the product's availableFrom and availableThrough
  seasons,    \* the harvest seasons that exist
  season,     \* season[s]: product, start, end and status of season s
  size,       \* size[k]: volumeMl of package k
  rows,       \* the availability rows that exist
  cell,       \* cell[r]: capacity, reserved, accepts and soldOut of row r
  order,      \* order[o]: what the orders table says of o
  held        \* history: the row o's volume was last added to and not taken
              \* from, and how much (the code stores nothing of the kind)

catalog == <<window, seasons, season, size>>
vars == <<today, window, seasons, season, size, rows, cell, order, held>>
-----------------------------------------------------------------------------
(* Stages. *)

StageOf(status) ==
  IF status \in Closed THEN "CLOSED"
  ELSE IF status \in {"NEW", "CONFIRMED"} THEN "OPEN"
  ELSE IF status \in {"PICKING", "READY"} THEN "PREPARING" ELSE "OUT"

Stage == {StageOf(status) : status \in Status}
LiveStages == {"OPEN", "PREPARING", "OUT"}

\* What transitionOrder can do to a stage: the transitions that give the
\* volume back (releasing = TRUE), and the others.
StageMoves(releasing) ==
  {move \in Stage \X Stage :
     \E from, to \in Status :
       /\ StageOf(from) = move[1] /\ StageOf(to) = move[2]
       /\ \E m \in Method : to \in LegalTransitions(from, m, TRUE)
       /\ ReleasesCapacity(from, to) = releasing}
KeepingMoves == StageMoves(FALSE)
ReleasingMoves == StageMoves(TRUE)

Fresh == [stage |-> "NONE", package |-> CHOOSE k \in Package : TRUE, date |-> 1,
          volume |-> 0, season |-> NoSeason, historical |-> FALSE]
Gone == [Fresh EXCEPT !.stage = "DELETED"]

OrderProduct(o) == ProductOf[order[o].package]
Existing(o) == order[o].stage \in Stage
IsLive(o) == order[o].stage \in LiveStages

-----------------------------------------------------------------------------
(* The calendar of seasons. *)

SeasonsOn(p, d) ==
  {s \in seasons : season[s].product = p /\ season[s].start <= d /\ d <= season[s].end}

\* ORDER BY status DESC sorts the status names as text.
Rank(status) == CASE status = "UPCOMING" -> 4 [] status = "PAUSED" -> 3
                  [] status = "COMPLETED" -> 2 [] status = "ACTIVE" -> 1

\* The entry of a season that does not exist.
NoSuchSeason == [product |-> CHOOSE p \in Product : TRUE, start |-> 1, end |-> 1,
                 status |-> CHOOSE status \in SeasonStatus : TRUE]

\* getHarvestSeasonForDate: the seasons it may return.  Among the covering
\* seasons an ACTIVE one wins, then the status order, then the latest start;
\* equals come back in either order.
Before(s, t) ==
  \/ season[s].status = "ACTIVE" /\ season[t].status # "ACTIVE"
  \/ /\ (season[s].status = "ACTIVE") = (season[t].status = "ACTIVE")
     /\ \/ Rank(season[s].status) > Rank(season[t].status)
        \/ season[s].status = season[t].status /\ season[s].start > season[t].start

IntakeSeasons(p, d) ==
  IF SeasonsOn(p, d) = {} THEN {NoSeason}
  ELSE {s \in SeasonsOn(p, d) : \A t \in SeasonsOn(p, d) : ~Before(t, s)}

\* resolveSeasonForAvailability: it throws unless at most one season covers
\* the date, and that one is the season asked for, if one is.
Resolves(p, d, asked) ==
  /\ \A s, t \in SeasonsOn(p, d) : s = t
  /\ asked # NoSeason => SeasonsOn(p, d) = {asked}

SoleSeason(p, d) ==
  IF SeasonsOn(p, d) = {} THEN NoSeason ELSE CHOOSE s \in SeasonsOn(p, d) : TRUE

\* resolveAvailabilityForDate: the exact row, else the legacy row of the date.
ResolvedRow(p, s, d) ==
  IF RowAt(p, s, d) \in rows THEN RowAt(p, s, d) ELSE RowAt(p, NoSeason, d)

\* getActiveHarvestSeason on a list ordered by start, latest first.
LegacyWindowSeasons(p, existing, row, now) ==
  LET mine == {s \in existing : row[s].product = p}
      active == {s \in mine : row[s].status = "ACTIVE"}
      current == {s \in mine : row[s].start <= now /\ now <= row[s].end}
      pool == IF active # {} THEN active
              ELSE IF current # {} THEN current ELSE mine
  IN {s \in pool : \A t \in pool : row[t].start <= row[s].start}
-----------------------------------------------------------------------------
(* Availability rows. *)

NoCell == [capacity |-> 0, reserved |-> 0, accepts |-> FALSE, soldOut |-> "NO"]
NewCell(c, soldOut) ==
  [capacity |-> c, reserved |-> 0, accepts |-> TRUE, soldOut |-> soldOut]

\* Mutants of Free: the check forgets what is reserved; it is off by one.
FreeForgetsReserved(c) == c.capacity
FreeOffByOne(c) == c.capacity - c.reserved + 1

\* capacityMl - reservedMl, in every reservation's condition.
Free(c) == c.capacity - c.reserved

\* Mutant of Accepting: the sold-out flag is not looked at.
AcceptingOnly(c) == c.accepts

\* What intake without an override and updateManagerOrder ask of a row.
Accepting(c) == c.accepts /\ c.soldOut = "NO"

Within(d, w) == w.from <= d /\ d <= w.through
Orderable(p, d) == d >= today /\ Within(d, window[p])

Take(cells, r, ml) == [cells EXCEPT ![r].reserved = @ + ml]
Give(cells, r, ml) == [cells EXCEPT ![r].reserved = @ - ml]

Holding(r, ml) == [row |-> r, ml |-> ml]
Nothing == Holding(NoRow, 0)

\* The row an order's own product, date and season name.
KeyRow(o) == RowAt(OrderProduct(o), order[o].season, order[o].date)
-----------------------------------------------------------------------------
Init ==
  /\ today = 1
  /\ window \in [Product -> {w \in [from : Date, through : Date] : w.from <= w.through}]
  /\ seasons = {}
  /\ season = [s \in SeasonId |-> NoSuchSeason]
  /\ size \in [Package -> Volume]
  /\ rows = {}
  /\ cell = [r \in Row |-> NoCell]
  /\ order = [o \in OrderId |-> Fresh]
  /\ held = [o \in OrderId |-> Nothing]

-----------------------------------------------------------------------------
(* Orders. *)

\* Mutant of NewOrder: the quantity is applied twice.
NewOrderTwice(k, s, d) == [Fresh EXCEPT !.stage = "OPEN", !.package = k, !.date = d,
                                        !.volume = 2 * size[k], !.season = s]

NewOrder(k, s, d) == [Fresh EXCEPT !.stage = "OPEN", !.package = k, !.date = d,
                                   !.volume = size[k], !.season = s]

\* intakeOrderCore for the public channel, and for staff without an override.
IntakeOrder(o, k, d) ==
  /\ order[o].stage = "NONE"
  /\ Orderable(ProductOf[k], d)
  /\ \E s \in IntakeSeasons(ProductOf[k], d) :
       LET r == RowAt(ProductOf[k], s, d) IN
         /\ r \in rows
         /\ Accepting(cell[r])
         /\ size[k] <= Free(cell[r])
         /\ cell' = Take(cell, r, size[k])
         /\ order' = [order EXCEPT ![o] = NewOrder(k, s, d)]
         /\ held' = [held EXCEPT ![o] = Holding(r, size[k])]
  /\ UNCHANGED <<today, rows, catalog>>

\* intakeOrderCore with allowDateOverride: any date, a closed row too, and a
\* row is created where there is none.
IntakeOverride(o, k, d) ==
  /\ order[o].stage = "NONE"
  /\ \E s \in IntakeSeasons(ProductOf[k], d) :
       LET r == RowAt(ProductOf[k], s, d)
           c == IF r \in rows THEN cell[r] ELSE NewCell(ProvisionedMl, "NO") IN
         /\ c.soldOut = "NO"
         /\ size[k] <= Free(c)
         /\ rows' = rows \cup {r}
         /\ cell' = Take([cell EXCEPT ![r] = c], r, size[k])
         /\ order' = [order EXCEPT ![o] = NewOrder(k, s, d)]
         /\ held' = [held EXCEPT ![o] = Holding(r, size[k])]
  /\ UNCHANGED <<today, catalog>>

\* What updateManagerOrder refuses whether or not capacity changes: a new
\* package or date on a closed order, a date outside the window on another.
MayEdit(o, k, d) ==
  /\ Existing(o)
  /\ IF order[o].stage = "CLOSED" THEN k = order[o].package /\ d = order[o].date
     ELSE Orderable(ProductOf[k], d)
  /\ Resolves(OrderProduct(o), order[o].date, order[o].season)
  /\ Resolves(ProductOf[k], d, NoSeason)

\* Mutant of CapacityChanged: historical orders are not exempt.
CapacityChangedAlways(o, k, d) ==
  \/ ProductOf[k] # OrderProduct(o) \/ d # order[o].date
  \/ size[k] # order[o].volume

\* The volume is read from the package again, on a closed order too.
CapacityChanged(o, k, d) ==
  /\ ~order[o].historical
  /\ \/ ProductOf[k] # OrderProduct(o) \/ d # order[o].date
     \/ size[k] # order[o].volume

\* Mutants of Edited: the season, or the volume, of the order stays behind.
EditedKeepsSeason(o, k, d) ==
  [order[o] EXCEPT !.package = k, !.date = d, !.volume = size[k]]
EditedKeepsVolume(o, k, d) ==
  [order[o] EXCEPT !.package = k, !.date = d, !.season = SoleSeason(ProductOf[k], d)]

Edited(o, k, d) ==
  [order[o] EXCEPT !.package = k, !.date = d, !.volume = size[k],
                   !.season = SoleSeason(ProductOf[k], d)]

\* updateManagerOrder without capacityChanged.
EditOrder(o, k, d) ==
  /\ MayEdit(o, k, d)
  /\ ~CapacityChanged(o, k, d)
  /\ order' = [order EXCEPT ![o] = Edited(o, k, d)]
  /\ UNCHANGED <<today, rows, cell, held, catalog>>

\* updateManagerOrder with capacityChanged: the volume leaves the row the old
\* product and date resolve to now and joins the row the new ones resolve to.
MoveOrder(o, k, d) ==
  /\ MayEdit(o, k, d)
  /\ CapacityChanged(o, k, d)
  /\ LET p == OrderProduct(o)
         from == ResolvedRow(p, SoleSeason(p, order[o].date), order[o].date)
         to == ResolvedRow(ProductOf[k], SoleSeason(ProductOf[k], d), d)
         released == Give(cell, from, order[o].volume) IN
       /\ from \in rows /\ order[o].volume <= cell[from].reserved
       /\ to \in rows
       /\ Accepting(cell[to])
       /\ size[k] <= Free(released[to])
       /\ cell' = Take(released, to, size[k])
       /\ held' = [held EXCEPT ![o] = Holding(to, size[k])]
  /\ order' = [order EXCEPT ![o] = Edited(o, k, d)]
  /\ UNCHANGED <<today, rows, catalog>>

\* The season whose row transitionOrder and deleteManagerOrder release from.
ReleaseSeasons(o) ==
  IF order[o].season # NoSeason THEN {order[o].season}
  ELSE IntakeSeasons(OrderProduct(o), order[o].date)

\* Mutant of Releasable: > for >=.
ReleasableStrictly(o, r) == r \in rows /\ order[o].volume < cell[r].reserved

\* Their conditional update finds this row.
Releasable(o, r) == r \in rows /\ order[o].volume <= cell[r].reserved

\* transitionOrder, for the transitions that keep the volume.
AdvanceOrder(o, to) ==
  /\ Existing(o)
  /\ to # order[o].stage
  /\ <<order[o].stage, to>> \in KeepingMoves
  /\ order' = [order EXCEPT ![o].stage = to]
  /\ UNCHANGED <<today, rows, cell, held, catalog>>

\* transitionOrder, for the transitions that give it back.
ReleaseOrder(o, to) ==
  /\ Existing(o)
  /\ <<order[o].stage, to>> \in ReleasingMoves
  /\ \E s \in ReleaseSeasons(o) :
       LET r == RowAt(OrderProduct(o), s, order[o].date) IN
         /\ Releasable(o, r)
         /\ cell' = Give(cell, r, order[o].volume)
  /\ order' = [order EXCEPT ![o].stage = to]
  /\ held' = [held EXCEPT ![o] = Nothing]
  /\ UNCHANGED <<today, rows, catalog>>

\* deleteManagerOrder: the release is attempted before the order is gone, and
\* the deletion goes on when it finds no row.
DeleteOrder(o) ==
  /\ Existing(o)
  /\ order' = [order EXCEPT ![o] = Gone]
  /\ IF order[o].stage \in {StageOf(status) : status \in DeletionReleases}
     THEN \E s \in ReleaseSeasons(o) :
            LET r == RowAt(OrderProduct(o), s, order[o].date) IN
              IF Releasable(o, r)
              THEN /\ cell' = Give(cell, r, order[o].volume)
                   /\ held' = [held EXCEPT ![o] = Nothing]
              ELSE UNCHANGED <<cell, held>>
     ELSE UNCHANGED <<cell, held>>
  /\ UNCHANGED <<today, rows, catalog>>

\* createHistoricalOrder: a completed order that never held anything.
CreateHistorical(o, k, d) ==
  /\ order[o].stage = "NONE"
  /\ order' = [order EXCEPT ![o] = [NewOrder(k, NoSeason, d) EXCEPT
                                      !.stage = "CLOSED", !.historical = TRUE]]
  /\ UNCHANGED <<today, rows, cell, held, catalog>>

-----------------------------------------------------------------------------
(* Capacity planning and the catalog. *)

SoldOutAs(closed) == IF closed THEN "STAFF" ELSE "NO"

\* updateAvailability; accepts is the new flag, or the present one.
UpdateAvailability(r, c, closed, accepts) ==
  /\ r \in rows
  /\ Orderable(r.product, r.date)
  /\ cell[r].reserved <= c
  /\ cell' = [cell EXCEPT ![r].capacity = c, ![r].accepts = accepts,
                          ![r].soldOut = SoldOutAs(closed)]
  /\ UNCHANGED <<today, rows, order, held, catalog>>

\* planAvailability: all the dates or none.
PlanAvailability(p, dates, c, closed) ==
  LET planned == {RowAt(p, SoleSeason(p, d), d) : d \in dates} IN
    /\ \A d \in dates : Orderable(p, d) /\ Resolves(p, d, NoSeason)
    /\ \A r \in planned \cap rows : cell[r].reserved <= c
    /\ rows' = rows \cup planned
    /\ cell' = [r \in Row |->
                  IF r \notin planned THEN cell[r]
                  ELSE IF r \in rows
                       THEN [cell[r] EXCEPT !.capacity = c, !.soldOut = SoldOutAs(closed)]
                       ELSE NewCell(c, SoldOutAs(closed))]
    /\ UNCHANGED <<today, order, held, catalog>>

\* syncProductLegacyWindow, the last statement of every season edit.
SyncWindow(p) ==
  LET chosen == LegacyWindowSeasons(p, seasons', season', today) IN
    IF chosen = {} THEN UNCHANGED window
    ELSE \E s \in chosen :
           window' = [window EXCEPT ![p] = [from |-> season'[s].start,
                                            through |-> season'[s].end]]

\* The edits a careful team makes keep every occupied slot's calendar.
CalendarKept ==
  Careful => \A r \in rows :
               SeasonsOn(r.product, r.date)' = SeasonsOn(r.product, r.date)

SeasonEdit(p) ==
  /\ SyncWindow(p)
  /\ CalendarKept
  /\ UNCHANGED <<today, size, rows, cell, order, held>>

\* randomUUID: an id that no season has, and no row or order still names.
NewSeasonId(s) ==
  /\ s \notin seasons
  /\ \A r \in rows : r.season # s
  /\ \A o \in OrderId : Existing(o) => order[o].season # s

\* createHarvestSeason and cloneHarvestSeason: no overlap check.
CreateSeason(s, p, a, b, status) ==
  /\ NewSeasonId(s)
  /\ a <= b
  /\ seasons' = seasons \cup {s}
  /\ season' = [season EXCEPT ![s] = [product |-> p, start |-> a, end |-> b,
                                      status |-> status]]
  /\ SeasonEdit(p)

\* updateHarvestSeason and extendHarvestSeason.
UpdateSeason(s, a, b, status) ==
  /\ s \in seasons
  /\ a <= b
  /\ season' = [season EXCEPT ![s].start = a, ![s].end = b, ![s].status = status]
  /\ UNCHANGED seasons
  /\ SeasonEdit(season[s].product)

\* deleteHarvestSeason: rows and orders of the season keep its id.
DeleteSeason(s) ==
  /\ s \in seasons
  /\ seasons' = seasons \ {s}
  /\ season' = [season EXCEPT ![s] = NoSuchSeason]
  /\ SeasonEdit(season[s].product)

\* updateProduct: rows that leave the window are closed, rows it closed
\* before and that come back are reopened.
UpdateProduct(p, a, b) ==
  LET w == [from |-> a, through |-> b]
      mine == {r \in rows : r.product = p} IN
    /\ a <= b
    /\ \A o \in OrderId : IsLive(o) /\ OrderProduct(o) = p => Within(order[o].date, w)
    /\ \A r \in mine : cell[r].reserved > 0 => Within(r.date, w)
    /\ window' = [window EXCEPT ![p] = w]
    /\ cell' = [r \in Row |->
         IF r \in mine /\ ~Within(r.date, w)
         THEN [cell[r] EXCEPT !.accepts = FALSE, !.soldOut = "WINDOW"]
         ELSE IF r \in mine /\ ~cell[r].accepts /\ cell[r].soldOut = "WINDOW"
              THEN [cell[r] EXCEPT !.accepts = TRUE, !.soldOut = "NO"]
              ELSE cell[r]]
    /\ UNCHANGED <<today, seasons, season, size, rows, order, held>>

\* updatePackage: the volume of a package can change under its orders.
ResizePackage(k, v) ==
  /\ Careful => \A o \in OrderId : Existing(o) => order[o].package # k
  /\ size' = [size EXCEPT ![k] = v]
  /\ UNCHANGED <<today, window, seasons, season, rows, cell, order, held>>

Midnight ==
  /\ today < Horizon
  /\ today' = today + 1
  /\ UNCHANGED <<rows, cell, order, held, catalog>>

-----------------------------------------------------------------------------
OrderStep(o) ==
  \/ \E k \in Package, d \in Date :
       \/ IntakeOrder(o, k, d)
       \/ IntakeOverride(o, k, d)
       \/ CreateHistorical(o, k, d)
       \/ EditOrder(o, k, d)
       \/ MoveOrder(o, k, d)
  \/ \E to \in Stage : AdvanceOrder(o, to) \/ ReleaseOrder(o, to)
  \/ DeleteOrder(o)

PlanningStep ==
  \E c \in CapacityChoice, closed \in BOOLEAN :
    \/ \E r \in rows : \E accepts \in BOOLEAN : UpdateAvailability(r, c, closed, accepts)
    \/ \E p \in Product, dates \in (SUBSET Date) \ {{}} :
         PlanAvailability(p, dates, c, closed)

CatalogStep ==
  \/ \E s \in SeasonId :
       \/ \E a, b \in Date, status \in SeasonStatus :
            \/ \E p \in Product : CreateSeason(s, p, a, b, status)
            \/ UpdateSeason(s, a, b, status)
       \/ DeleteSeason(s)
  \/ \E p \in Product, a, b \in Date : UpdateProduct(p, a, b)
  \/ \E k \in Package, v \in Volume : ResizePackage(k, v)

Next == (\E o \in OrderId : OrderStep(o)) \/ PlanningStep \/ CatalogStep \/ Midnight

Spec == Init /\ [][Next]_vars
-----------------------------------------------------------------------------
(* Properties. *)

\* The promise this module keeps: see CapacityLedger.
Ledger == INSTANCE CapacityLedger
            WITH Holder <- OrderId, Place <- Row, Nowhere <- NoRow,
                 capacity <- [r \in Row |-> cell[r].capacity], holding <- held

\* Every variable has the values its columns can hold.
TypeOK ==
  /\ today \in Date
  /\ window \in [Product -> [from : Date, through : Date]]
  /\ seasons \subseteq SeasonId
  /\ season \in [SeasonId -> [product : Product, start : Date, end : Date,
                              status : SeasonStatus]]
  /\ size \in [Package -> Volume]
  /\ rows \subseteq Row
  /\ cell \in [Row -> [capacity : Nat, reserved : Int, accepts : BOOLEAN,
                       soldOut : {"NO", "STAFF", "WINDOW"}]]
  /\ order \in [OrderId -> [stage : Stage \cup {"NONE", "DELETED"}, package : Package,
                            date : Date, volume : Volume \cup {0},
                            season : SeasonId \cup {NoSeason}, historical : BOOLEAN]]
  /\ held \in [OrderId -> [row : Row \cup {NoRow}, ml : Volume \cup {0}]]

\* The CHECK constraint of the availability table never has to fire: the
\* conditional updates keep reserved between zero and capacity whatever the
\* staff do to the catalog.
ReservedWithinCapacity ==
  \A r \in Row : 0 <= cell[r].reserved /\ cell[r].reserved <= cell[r].capacity

\* reservedMl of a row is exactly what the orders reserved on it and have not
\* given back: nothing leaks, nothing is given back twice or by another order.
Balanced ==
  \A r \in Row : cell[r].reserved = Ledger!HeldMl(held, r)

\* An order that is still to be prepared is recorded on the row that carries
\* it, so that whatever intake reserved, the later operations find.
OnRecord ==
  \A o \in OrderId : IsLive(o) =>
    /\ KeyRow(o) \in rows
    /\ held[o] = Holding(KeyRow(o), order[o].volume)

\* transitionOrder asserts it when it gives a volume back ("Capacity release
\* invariant failed"): the row is there and carries at least that volume.
ReleaseAlwaysPossible ==
  \A o \in OrderId : order[o].stage = "OPEN" =>
    \A s \in ReleaseSeasons(o) :
      Releasable(o, RowAt(OrderProduct(o), s, order[o].date))

\* A completed order is settled: editing its metadata, refunding, archiving or
\* deleting it neither takes capacity nor puts what it consumed back on sale.
\* (updateManagerOrder: "Items, quantity, date, method, and pricing are locked
\* on completed orders.")
CompletedIsSettled ==
  [][\A o \in OrderId :
       order[o].stage \in {"CLOSED", "DELETED"} => held'[o] = held[o]]_vars

\* Deleting an order that was never dispatched gives its volume back.
DeletionGivesBack ==
  [][\A o \in OrderId :
       order[o].stage \in {"OPEN", "PREPARING"} /\ order'[o].stage = "DELETED"
         => held'[o] = Nothing]_vars

\* createHistoricalOrder leaves availability alone, and no later operation on
\* the order (its metadata can be edited, it can be deleted) touches it either.
HistoricalHoldsNothing ==
  \A o \in OrderId : order[o].historical => held[o] = Nothing

\* No operation, not even an overriding intake or an edit that swaps volumes
\* within a row, adds volume to a row that is marked sold out.
SoldOutNeverSells ==
  [][\A r \in rows : cell[r].soldOut # "NO" => cell'[r].reserved <= cell[r].reserved]_vars

\* What the proofs need besides: a row nobody created is empty,
AbsentRowsEmpty == \A r \in Row \ rows : cell[r] = NoCell

\* a legacy row only stands where no season does,
LegacyRowsOffSeason ==
  \A r \in rows : r.season = NoSeason => SeasonsOn(r.product, r.date) = {}

\* an order's volume is still what its package measures,
SizesKept ==
  \A o \in OrderId : Existing(o) => order[o].volume = size[order[o].package]

\* and whatever is held is held on a row that exists.
HeldOnRows ==
  \A o \in OrderId : /\ held[o] = Nothing \/ held[o].row \in rows
                     /\ order[o].stage = "NONE" => held[o] = Nothing
                     /\ order[o].historical => held[o] = Nothing

\* The inductive invariants, for any team and for a careful one.
BaseInv == TypeOK /\ ReservedWithinCapacity /\ AbsentRowsEmpty
CarefulInv ==
  BaseInv /\ LegacyRowsOffSeason /\ SizesKept /\ HeldOnRows /\ OnRecord /\ Balanced

\* Every step of the code is a step of the ledger.
KeepsLedger == Ledger!Spec
=============================================================================
