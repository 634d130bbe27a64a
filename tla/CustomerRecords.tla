--------------------------- MODULE CustomerRecords ---------------------------
(***************************************************************************)
(* The records of customers: how orders find or make one, how staff edit   *)
(* and merge them, and when they are anonymized                            *)
(* (src/src/domain/customers.ts, admin-customer-actions.ts, the matching   *)
(* in order-intake.ts, scripts/customer-retention.ts).  Of a record's      *)
(* contacts the mobile number stands for all; names, notes, consent and    *)
(* the conflict mark decide nothing here and are left out.  References     *)
(* between tables are not assumed to be enforced: no code switches that    *)
(* on for the server's connections.                                        *)
(***************************************************************************)
EXTENDS Naturals

CONSTANTS
  Customer,       \* ids a customer's row can have
  CustomerOrder,  \* orders
  Mobile,         \* mobile numbers
  Keeper          \* members of staff, one call each at a time

VARIABLES
  customer,   \* customer[c]: the row
  custOrder,  \* custOrder[o]: how old the order is, and its customerId
  keeper,     \* keeper[k]: k's call, with what it read
  report,     \* the customers a retention run has listed, or NoReport
  crossed     \* history: a merge went into a record deleted since it was read

customerVars == <<customer, custOrder, keeper, report, crossed>>

\* shielded: a retention hold, or a confirmation of the contact, is in force.
Record(state, mobile) == [state |-> state, mobile |-> mobile, shielded |-> FALSE]
Nobody == "NOBODY"
NoReport == {Nobody}
Resting == [kind |-> "REST", on |-> Nobody, dup |-> Nobody, mobile |-> "NONE"]

IsKept(c) == customer[c].state = "KEPT"

CustomersInit ==
  /\ customer = [c \in Customer |-> Record("ABSENT", "NONE")]
  /\ custOrder = [o \in CustomerOrder |-> [age |-> "ABSENT", of |-> Nobody]]
  /\ keeper = [k \in Keeper |-> Resting]
  /\ report = NoReport
  /\ crossed = FALSE

-----------------------------------------------------------------------------
(* Orders. *)

Ages == {"OPEN", "CLOSED", "OLD"}

\* No record has the number.
Unknown(mobile) == mobile # "NONE" /\ \A d \in Customer : IsKept(d) => customer[d].mobile # mobile

\* intakeOrderCore (OPEN) and createHistoricalOrder match the customer in the
\* transaction that inserts the order: one with the number, or else one with
\* the same other contacts, which then gets the number.
MatchOrder(o, c, mobile, age) ==
  /\ custOrder[o].age = "ABSENT" /\ IsKept(c) /\ customer[c].mobile # "ANON"
  /\ mobile \in {"NONE", customer[c].mobile} \/ Unknown(mobile)
  /\ customer' = [customer EXCEPT ![c].mobile = IF mobile = "NONE" THEN @ ELSE mobile]
  /\ custOrder' = [custOrder EXCEPT ![o] = [age |-> age, of |-> c]]
  /\ UNCHANGED <<keeper, report, crossed>>

\* Without a match, or with contacts that contradict each other, they make a
\* new record.
NewWithOrder(o, c, mobile, age) ==
  /\ custOrder[o].age = "ABSENT" /\ customer[c].state = "ABSENT"
  /\ customer' = [customer EXCEPT ![c] = Record("KEPT", mobile)]
  /\ custOrder' = [custOrder EXCEPT ![o] = [age |-> age, of |-> c]]
  /\ UNCHANGED <<keeper, report, crossed>>

\* The order is completed or cancelled, and two years pass.
OrderAges(o) ==
  /\ custOrder[o].age \in {"OPEN", "CLOSED"}
  /\ custOrder' = [custOrder EXCEPT ![o].age = IF @ = "OPEN" THEN "CLOSED" ELSE "OLD"]
  /\ UNCHANGED <<customer, keeper, report, crossed>>

\* deleteManagerOrder.
ForgetOrder(o) ==
  /\ custOrder[o].age \in Ages
  /\ custOrder' = [custOrder EXCEPT ![o] = [age |-> "ABSENT", of |-> Nobody]]
  /\ UNCHANGED <<customer, keeper, report, crossed>>

-----------------------------------------------------------------------------
(* Edits of a record. *)

Begins(k, call) ==
  /\ keeper[k] = Resting
  /\ keeper' = [keeper EXCEPT ![k] = call]
  /\ UNCHANGED <<customer, custOrder, report, crossed>>

\* createCustomer looks for the number first.
BeginCreateCustomer(k, c, mobile) ==
  /\ customer[c].state = "ABSENT"
  /\ mobile = "NONE" \/ Unknown(mobile)
  /\ Begins(k, [kind |-> "CREATE", on |-> c, dup |-> c, mobile |-> mobile])

\* updateCustomer writes the number it is given, or the one it read.
BeginUpdateCustomer(k, c, mobile) ==
  /\ IsKept(c)
  /\ Begins(k, [kind |-> "UPDATE", on |-> c, dup |-> c, mobile |-> mobile])

\* linkReviewToCustomerOrOrder fills in a number the record lacked when read.
BeginEnrich(k, c, mobile) ==
  /\ IsKept(c) /\ customer[c].mobile = "NONE" /\ mobile # "NONE"
  /\ Begins(k, [kind |-> "UPDATE", on |-> c, dup |-> c, mobile |-> mobile])

\* resolveAdminCustomerIdentity reads both records before its transaction.
BeginResolve(k, c, d) ==
  /\ c # d /\ IsKept(c) /\ IsKept(d) /\ customer[c].mobile = customer[d].mobile
  /\ Begins(k, [kind |-> "MERGE", on |-> c, dup |-> d, mobile |-> "NONE"])

\* Mutant of Reassigned: completed orders stay with the duplicate.
ReassignedOpen(c, d) ==
  [o \in CustomerOrder |-> IF custOrder[o].of = d /\ custOrder[o].age = "OPEN"
                           THEN [custOrder[o] EXCEPT !.of = c] ELSE custOrder[o]]

Reassigned(c, d) ==
  [o \in CustomerOrder |-> IF custOrder[o].of = d THEN [custOrder[o] EXCEPT !.of = c]
                           ELSE custOrder[o]]

Erased(d) == [customer EXCEPT ![d] = Record("GONE", "NONE")]

FinishCustomerCall(k) ==
  LET call == keeper[k] IN
  /\ call.kind # "REST"
  /\ customer' =
       CASE call.kind = "CREATE" ->
              IF customer[call.on].state = "ABSENT"
              THEN [customer EXCEPT ![call.on] = Record("KEPT", call.mobile)] ELSE customer
         [] call.kind = "UPDATE" ->
              IF IsKept(call.on) THEN [customer EXCEPT ![call.on].mobile = call.mobile]
              ELSE customer
         [] call.kind = "MERGE" -> Erased(call.dup)
  /\ custOrder' = IF call.kind = "MERGE" THEN Reassigned(call.on, call.dup) ELSE custOrder
  /\ crossed' = (crossed \/ (call.kind = "MERGE" /\ ~IsKept(call.on)))
  /\ keeper' = [keeper EXCEPT ![k] = Resting]
  /\ UNCHANGED report

\* Refused, failed or cut off.
AbandonCustomerCall(k) ==
  /\ keeper[k].kind # "REST"
  /\ keeper' = [keeper EXCEPT ![k] = Resting]
  /\ UNCHANGED <<customer, custOrder, report, crossed>>

\* mergeCustomers: one transaction, reads included.  The page offers records
\* other than the one it shows.
MergeCustomers(c, d) ==
  /\ c # d /\ IsKept(c) /\ IsKept(d)
  /\ customer' = Erased(d)
  /\ custOrder' = Reassigned(c, d)
  /\ UNCHANGED <<keeper, report, crossed>>

\* confirmCustomerContact, renewCustomerContact, setCustomerRetentionHold;
\* clearCustomerRetentionHold, or the year or the hold runs out.
Shield(c, shielded) ==
  /\ IsKept(c)
  /\ customer' = [customer EXCEPT ![c].shielded = shielded]
  /\ UNCHANGED <<custOrder, keeper, report, crossed>>

-----------------------------------------------------------------------------
(* Anonymization. *)

Anonymized(S) ==
  [c \in Customer |-> IF c \in S THEN [customer[c] EXCEPT !.mobile = "ANON"] ELSE customer[c]]

\* anonymizeCustomer on request: nothing else is asked.
AnonymizeOnRequest(c) ==
  /\ IsKept(c)
  /\ customer' = Anonymized({c})
  /\ UNCHANGED <<custOrder, keeper, report, crossed>>

\* findRetentionEligibleCustomers.
Eligible(c) ==
  /\ IsKept(c) /\ ~customer[c].shielded
  /\ \E o \in CustomerOrder : custOrder[o].of = c /\ custOrder[o].age = "OLD"
  /\ \A o \in CustomerOrder : custOrder[o].of = c => custOrder[o].age \in {"OLD", "ABSENT"}

\* The retention script lists who is eligible,
ReportRetention ==
  /\ report = NoReport
  /\ report' = {c \in Customer : Eligible(c)}
  /\ UNCHANGED <<customer, custOrder, keeper, crossed>>

\* Mutant of ToApply: the list is taken as it is.
ToApplyListed == {c \in report : IsKept(c)}

\* "Re-check inside the transaction".
ToApply == {c \in report : Eligible(c)}

\* and anonymizes them in a transaction.
ApplyRetention ==
  /\ report # NoReport
  /\ customer' = Anonymized(ToApply)
  /\ report' = NoReport
  /\ UNCHANGED <<custOrder, keeper, crossed>>

\* A dry run, or a stop before the transaction.
EndRetention ==
  /\ report # NoReport
  /\ report' = NoReport
  /\ UNCHANGED <<customer, custOrder, keeper, crossed>>

CustomersNext ==
  \/ \E o \in CustomerOrder :
       \/ \E c \in Customer, mobile \in Mobile \cup {"NONE"}, age \in Ages :
            MatchOrder(o, c, mobile, age) \/ NewWithOrder(o, c, mobile, age)
       \/ OrderAges(o) \/ ForgetOrder(o)
  \/ \E k \in Keeper :
       \/ \E c \in Customer, mobile \in Mobile \cup {"NONE"} :
            BeginCreateCustomer(k, c, mobile) \/ BeginEnrich(k, c, mobile)
       \/ \E c \in Customer : \E mobile \in Mobile \cup {"NONE", customer[c].mobile} :
            BeginUpdateCustomer(k, c, mobile)
       \/ \E c, d \in Customer : BeginResolve(k, c, d)
       \/ FinishCustomerCall(k) \/ AbandonCustomerCall(k)
  \/ \E c, d \in Customer : MergeCustomers(c, d)
  \/ \E c \in Customer : AnonymizeOnRequest(c) \/ \E shielded \in BOOLEAN : Shield(c, shielded)
  \/ ReportRetention \/ ApplyRetention \/ EndRetention

CustomersSpec == CustomersInit /\ [][CustomersNext]_customerVars
-----------------------------------------------------------------------------
CustomersTypeOK ==
  /\ customer \in [Customer -> [state : {"ABSENT", "KEPT", "GONE"},
                                mobile : Mobile \cup {"NONE", "ANON"}, shielded : BOOLEAN]]
  /\ custOrder \in [CustomerOrder -> [age : Ages \cup {"ABSENT"}, of : Customer \cup {Nobody}]]
  /\ keeper \in [Keeper -> [kind : {"REST", "CREATE", "UPDATE", "MERGE"}, on : Customer \cup {Nobody},
                            dup : Customer \cup {Nobody}, mobile : Mobile \cup {"NONE", "ANON"}]]
  /\ report = NoReport \/ report \subseteq Customer
  /\ crossed \in BOOLEAN

\* An order's customer is always on record, through merges, new orders and
\* edits in any order; only a merge into a record that another merge deleted
\* after it was read leaves an order without.
OrdersKeepCustomer ==
  \A o \in CustomerOrder : custOrder[o].age \in Ages => IsKept(custOrder[o].of) \/ crossed

\* A retention run anonymizes nobody who has an order open or a recent one, a
\* hold or a confirmed contact by the time it does, whatever its list said
\* ("a concurrent order/hold/confirmation cannot be anonymized based on the
\* pre-transaction report").
RetentionRechecks ==
  [][\A c \in Customer :
       report # NoReport /\ report' = NoReport /\ customer'[c].mobile # customer[c].mobile =>
         /\ ~customer[c].shielded
         /\ \A o \in CustomerOrder : custOrder[o].of = c =>
              custOrder[o].age \notin {"OPEN", "CLOSED"}]_customerVars
=============================================================================
