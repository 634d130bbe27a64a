--------------------------- MODULE PackageCatalog ---------------------------
(***************************************************************************)
(* The packages of one product and which of them the order form offers     *)
(* first (src/src/domain/products.ts).  Every operation reads, checks and  *)
(* then writes; only the write is a transaction.  A call is cut there, so  *)
(* that another call, or an order, can come in between.                    *)
(***************************************************************************)
EXTENDS FiniteSets

CONSTANTS
  Pack,     \* the packages the product ever has
  Merchant  \* members of staff at the product's page

VARIABLES
  pack,         \* pack[k]: the row of k, NoPack where there is none
  orderedPacks, \* packages that some order names
  packCall,     \* packCall[s]: the call s has made, with what it read
  retired,      \* history: the default was deleted and none chosen since
  staleMark,    \* history: an update wrote back a mark that had changed
  packsOutrun   \* history: packages ordered while their deletion went on

packVars == <<pack, orderedPacks, packCall, retired, staleMark, packsOutrun>>

PackRow(active, isDefault) == [kept |-> TRUE, active |-> active, isDefault |-> isDefault]
NoPack == [kept |-> FALSE, active |-> FALSE, isDefault |-> FALSE]
Packs == {k \in Pack : pack[k].kept}
Defaults == {k \in Packs : pack[k].isDefault}

PackOp == {"UPDATE", "DEFAULT", "CREATE", "DELETE"}
PackCall(op, k, active, isDefault) ==
  [op |-> op, pack |-> k, active |-> active, isDefault |-> isDefault]
NoPackCall == [op |-> "IDLE"]
PackCalls == [op : PackOp, pack : Pack, active : BOOLEAN, isDefault : BOOLEAN]
               \cup {NoPackCall}

\* createProduct: some packages, one of them the default, active or not.
PacksInit ==
  /\ \E first \in SUBSET Pack, d \in Pack, active \in SUBSET Pack :
       /\ d \in first /\ active \subseteq first
       /\ pack = [k \in Pack |-> IF k \in first THEN PackRow(k \in active, k = d) ELSE NoPack]
  /\ orderedPacks = {}
  /\ packCall = [s \in Merchant |-> NoPackCall]
  /\ retired = FALSE /\ staleMark = FALSE /\ packsOutrun = {}

StartsPackCall(s, op, k, active, isDefault) ==
  /\ packCall[s] = NoPackCall
  /\ packCall' = [packCall EXCEPT ![s] = PackCall(op, k, active, isDefault)]
  /\ UNCHANGED <<pack, orderedPacks, retired, staleMark, packsOutrun>>

\* Mutant of MayUpdate: the default may be switched off.
MayUpdateAny(k, active) == k \in Packs

\* updatePackage: "Choose another default package before deactivating this
\* package"; isDefault is written back as it is read here.
MayUpdate(k, active) == k \in Packs /\ (pack[k].isDefault => active)

BeginUpdate(s, k, active) ==
  /\ MayUpdate(k, active)
  /\ StartsPackCall(s, "UPDATE", k, active, pack[k].isDefault)

\* setDefaultPackage: only an active package.
BeginDefault(s, k) ==
  /\ k \in Packs /\ pack[k].active
  /\ StartsPackCall(s, "DEFAULT", k, TRUE, TRUE)

\* createPackage becomes the default when asked to, or when there is none and
\* it is as large as any other, or of ten litres (comparable).
BeginCreate(s, k, active, asked, comparable) ==
  /\ k \notin Packs /\ \A t \in Merchant : packCall[t] # NoPackCall => packCall[t].pack # k
  /\ StartsPackCall(s, "CREATE", k, active, asked \/ (Defaults = {} /\ comparable))

\* Mutant of MayDrop: the orders are not looked at.
MayDropAny(k) == k \in Packs

\* deletePackage: no order names the package; whether it is the default is
\* not asked.
MayDrop(k) == k \in Packs /\ k \notin orderedPacks

BeginDrop(s, k) ==
  /\ MayDrop(k)
  /\ StartsPackCall(s, "DELETE", k, FALSE, FALSE)

\* Mutant of WithDefault: the other packages keep their mark.
WithDefaultBeside(k) == pack

\* The first statement of the transactions: no package is the default.
WithDefault(k) == [j \in Pack |-> IF j \in Packs THEN [pack[j] EXCEPT !.isDefault = FALSE]
                                  ELSE pack[j]]

\* The writes.  A row that is gone by now is not written, and setDefaultPackage
\* does not notice.
Written(c) ==
  LET k == c.pack
      others == IF c.op \in {"DEFAULT", "CREATE"} /\ c.isDefault THEN WithDefault(k) ELSE pack
  IN CASE c.op = "DELETE" -> [pack EXCEPT ![k] = NoPack]
       [] c.op = "CREATE" -> [others EXCEPT ![k] = PackRow(c.active, c.isDefault)]
       [] c.op = "UPDATE" -> IF k \in Packs THEN [pack EXCEPT ![k] = PackRow(c.active, c.isDefault)]
                             ELSE pack
       [] OTHER           -> IF k \in Packs THEN [others EXCEPT ![k].isDefault = TRUE] ELSE others

FinishPackCall(s) ==
  LET c == packCall[s] IN
  /\ c # NoPackCall
  /\ pack' = Written(c)
  /\ packCall' = [packCall EXCEPT ![s] = NoPackCall]
  /\ retired' = CASE c.op = "DELETE"  -> retired \/ c.pack \in Defaults
                  [] c.op = "DEFAULT" -> c.pack \notin Packs
                  [] OTHER            -> retired /\ ~(c.op = "CREATE" /\ c.isDefault)
  /\ staleMark' = (staleMark \/ (c.op = "UPDATE" /\ c.pack \in Packs
                                 /\ pack[c.pack].isDefault # c.isDefault))
  /\ UNCHANGED <<orderedPacks, packsOutrun>>

\* intakeOrderCore, as far as the package: one transaction.
OrderPack(k) ==
  /\ k \in Packs /\ pack[k].active
  /\ orderedPacks' = orderedPacks \cup {k}
  /\ packsOutrun' = packsOutrun \cup
       {j \in {k} : \E s \in Merchant : packCall[s] # NoPackCall
                      /\ packCall[s].op = "DELETE" /\ packCall[s].pack = k}
  /\ UNCHANGED <<pack, packCall, retired, staleMark>>

\* deleteManagerOrder: perhaps the last order of k.
ForgetOrders(k) ==
  /\ k \in orderedPacks
  /\ orderedPacks' = orderedPacks \ {k}
  /\ packsOutrun' = packsOutrun \ {k}
  /\ UNCHANGED <<pack, packCall, retired, staleMark>>

PacksNext ==
  \/ \E k \in Pack : OrderPack(k) \/ ForgetOrders(k)
  \/ \E s \in Merchant :
       \/ FinishPackCall(s)
       \/ \E k \in Pack :
            \/ BeginDefault(s, k) \/ BeginDrop(s, k)
            \/ \E active \in BOOLEAN :
                 \/ BeginUpdate(s, k, active)
                 \/ \E asked, comparable \in BOOLEAN : BeginCreate(s, k, active, asked, comparable)

PacksSpec == PacksInit /\ [][PacksNext]_packVars
-----------------------------------------------------------------------------
PacksTypeOK ==
  /\ pack \in [Pack -> [kept : BOOLEAN, active : BOOLEAN, isDefault : BOOLEAN]]
  /\ orderedPacks \subseteq Pack
  /\ packCall \in [Merchant -> PackCalls]
  /\ retired \in BOOLEAN /\ staleMark \in BOOLEAN /\ packsOutrun \subseteq Pack

\* A product has one default package, or none after staff deleted the one it
\* had: choosing, creating and deleting in any interleaving never leaves two.
\* The exception is updatePackage, which writes back the mark it read before
\* another call moved it.
OneDefault ==
  \/ staleMark
  \/ Defaults = {} /\ retired
  \/ \E d \in Defaults : Defaults = {d}

\* "Choose another default package before deactivating this package": a
\* default that can be ordered stays so while it is the default, also when
\* its update overlaps other calls and writes back an old mark.
DefaultStaysOnSale == \A k \in Defaults : pack[k].active /\ k \in Defaults' => pack'[k].active

\* A product keeps one default package, and keeps it on sale.
DefaultsKept == [][OneDefault' /\ DefaultStaysOnSale]_packVars

\* "Package is referenced and can only be archived": the package of an order
\* is never deleted, unless it was ordered after its deletion had looked.
OrderedPackStays == orderedPacks \subseteq Packs \cup packsOutrun
=============================================================================
