------------------------ MODULE CustomerRecordsProofs ------------------------
(***************************************************************************)
(* Theorems about CustomerRecords, for any customers, orders, numbers and  *)
(* members of staff.                                                       *)
(*                                                                         *)
(* CustomersInv is the inductive invariant: orders name customers, and the *)
(* calls of staff name two different records to merge.                     *)
(***************************************************************************)
EXTENDS CustomerRecords, TLAPS

Rows == [state : {"ABSENT", "KEPT", "GONE"}, mobile : Mobile \cup {"NONE", "ANON"},
         shielded : BOOLEAN]
Calls == [kind : {"REST", "CREATE", "UPDATE", "MERGE"}, on : Customer \cup {Nobody},
          dup : Customer \cup {Nobody}, mobile : Mobile \cup {"NONE", "ANON"}]
OrderRows == [age : Ages \cup {"ABSENT"}, of : Customer \cup {Nobody}]

OrdersName == \A o \in CustomerOrder : custOrder[o].age \in Ages => custOrder[o].of \in Customer

CallsName ==
  \A k \in Keeper : keeper[k].kind # "REST" =>
    /\ keeper[k].on \in Customer /\ keeper[k].dup \in Customer
    /\ keeper[k].kind = "MERGE" => keeper[k].on # keeper[k].dup

CustomersInv == CustomersTypeOK /\ OrdersName /\ CallsName /\ OrdersKeepCustomer
-----------------------------------------------------------------------------
LEMMA CustomersStart == CustomersInit => CustomersInv
<1>. SUFFICES ASSUME CustomersInit PROVE CustomersInv
  OBVIOUS
<1>. DEFINE first == [age |-> "ABSENT", of |-> Nobody]
<1>1. /\ Record("ABSENT", "NONE") \in Rows /\ Resting \in Calls /\ first \in OrderRows
      /\ Resting.kind = "REST" /\ first.age \notin Ages
  BY DEF Record, Rows, Resting, Calls, OrderRows, Ages
<1>2. /\ customer = [c \in Customer |-> Record("ABSENT", "NONE")]
      /\ custOrder = [o \in CustomerOrder |-> first]
      /\ keeper = [k \in Keeper |-> Resting] /\ report = NoReport /\ crossed = FALSE
  BY DEF CustomersInit
<1>. HIDE DEF first
<1>3. /\ customer \in [Customer -> Rows] /\ custOrder \in [CustomerOrder -> OrderRows]
      /\ keeper \in [Keeper -> Calls]
  BY <1>1, <1>2
<1>4. CustomersTypeOK
  BY <1>2, <1>3 DEF CustomersTypeOK, Rows, OrderRows, Calls
<1>5. OrdersName /\ OrdersKeepCustomer
  BY <1>1, <1>2 DEF OrdersName, OrdersKeepCustomer
<1>6. CallsName
  BY <1>1, <1>2 DEF CallsName
<1>. QED  BY <1>4, <1>5, <1>6 DEF CustomersInv

LEMMA CustomerTypes ==
  ASSUME CustomersInv
  PROVE  /\ customer \in [Customer -> Rows] /\ custOrder \in [CustomerOrder -> OrderRows]
         /\ keeper \in [Keeper -> Calls] /\ (report = NoReport \/ report \subseteq Customer)
         /\ crossed \in BOOLEAN
BY DEF CustomersInv, CustomersTypeOK, Rows, Calls, OrderRows

\* Steps that write rows without unmaking one, and leave the orders alone.
LEMMA RowsKeep ==
  ASSUME CustomersInv, customer' \in [Customer -> Rows],
         \A c \in Customer : IsKept(c) => IsKept(c)',
         custOrder' = custOrder, crossed' = crossed
  PROVE  OrdersName' /\ OrdersKeepCustomer'
BY DEF CustomersInv, OrdersName, OrdersKeepCustomer

\* Steps of orders and their customers.
LEMMA OrdersKeep ==
  ASSUME CustomersInv, NEW o \in CustomerOrder, NEW c \in Customer,
         NEW mobile \in Mobile \cup {"NONE"}, NEW age \in Ages,
         \/ MatchOrder(o, c, mobile, age) \/ NewWithOrder(o, c, mobile, age)
  PROVE  CustomersInv'
<1>. DEFINE new == [age |-> age, of |-> c]
<1>1. /\ custOrder' = [custOrder EXCEPT ![o] = new] /\ UNCHANGED <<keeper, report, crossed>>
      /\ new \in OrderRows
  BY DEF MatchOrder, NewWithOrder, OrderRows
<1>2. /\ customer' \in [Customer -> Rows] /\ IsKept(c)'
      /\ \A d \in Customer : IsKept(d) => IsKept(d)'
  <2>1. CASE MatchOrder(o, c, mobile, age)
    <3>1. /\ customer' = [customer EXCEPT ![c].mobile = IF mobile = "NONE" THEN customer[c].mobile ELSE mobile]
          /\ IsKept(c)
      BY <2>1 DEF MatchOrder
    <3>. QED  BY <3>1, CustomerTypes DEF IsKept, Rows
  <2>2. CASE NewWithOrder(o, c, mobile, age)
    <3>1. customer' = [customer EXCEPT ![c] = Record("KEPT", mobile)]
          /\ Record("KEPT", mobile) \in Rows /\ Record("KEPT", mobile).state = "KEPT"
      BY <2>2 DEF NewWithOrder, Record, Rows
    <3>. QED  BY <3>1, CustomerTypes DEF IsKept
  <2>. QED  BY <2>1, <2>2
<1>3. CustomersTypeOK'
  BY <1>1, <1>2, CustomerTypes DEF CustomersTypeOK, Rows, OrderRows, Calls
<1>4. \A p \in CustomerOrder : custOrder'[p] = IF p = o THEN new ELSE custOrder[p]
  BY <1>1, CustomerTypes
<1>5. OrdersName' /\ CallsName'
  BY <1>1, <1>4 DEF CustomersInv, OrdersName, CallsName
<1>6. OrdersKeepCustomer'
  BY <1>1, <1>2, <1>4 DEF CustomersInv, OrdersName, OrdersKeepCustomer
<1>. QED  BY <1>3, <1>5, <1>6 DEF CustomersInv

LEMMA AgesKeep ==
  ASSUME CustomersInv, NEW o \in CustomerOrder, OrderAges(o) \/ ForgetOrder(o)
  PROVE  CustomersInv'
<1>. DEFINE new == IF OrderAges(o)
                   THEN [custOrder[o] EXCEPT !.age = IF custOrder[o].age = "OPEN" THEN "CLOSED" ELSE "OLD"]
                   ELSE [age |-> "ABSENT", of |-> Nobody]
<1>1. /\ custOrder' = [custOrder EXCEPT ![o] = new]
      /\ UNCHANGED <<customer, keeper, report, crossed>>
  BY DEF OrderAges, ForgetOrder
<1>2. /\ new \in OrderRows
      /\ new.age \in Ages => custOrder[o].age \in Ages /\ new.of = custOrder[o].of
  BY CustomerTypes DEF OrderRows, Ages, OrderAges, ForgetOrder
<1>. HIDE DEF new
<1>3. \A p \in CustomerOrder : custOrder'[p] = IF p = o THEN new ELSE custOrder[p]
  BY <1>1, CustomerTypes
<1>4. CustomersTypeOK'
  BY <1>1, <1>2, CustomerTypes DEF CustomersTypeOK, Rows, OrderRows, Calls
<1>5. OrdersName' /\ CallsName' /\ OrdersKeepCustomer'
  BY <1>1, <1>2, <1>3 DEF CustomersInv, OrdersName, CallsName, OrdersKeepCustomer, IsKept
<1>. QED  BY <1>4, <1>5 DEF CustomersInv
-----------------------------------------------------------------------------
\* A call that begins or ends without a write.
LEMMA CallsKeep ==
  ASSUME CustomersInv, NEW k \in Keeper, NEW new \in Calls,
         keeper' = [keeper EXCEPT ![k] = new], UNCHANGED <<customer, custOrder, report, crossed>>,
         new.kind # "REST" => new.on \in Customer /\ new.dup \in Customer,
         new.kind = "MERGE" => new.on # new.dup
  PROVE  CustomersInv'
<1>1. CustomersTypeOK'
  BY CustomerTypes DEF CustomersTypeOK, Rows, OrderRows, Calls
<1>2. \A j \in Keeper : keeper'[j] = IF j = k THEN new ELSE keeper[j]
  BY CustomerTypes
<1>3. CallsName'
  BY <1>2 DEF CustomersInv, CallsName
<1>. QED  BY <1>1, <1>3 DEF CustomersInv, OrdersName, OrdersKeepCustomer, IsKept

LEMMA KeeperBeginsKeep ==
  ASSUME CustomersInv, NEW k \in Keeper, NEW c \in Customer, NEW d \in Customer,
         \/ \E mobile \in Mobile \cup {"NONE"} :
              BeginCreateCustomer(k, c, mobile) \/ BeginEnrich(k, c, mobile)
         \/ \E mobile \in Mobile \cup {"NONE", customer[c].mobile} : BeginUpdateCustomer(k, c, mobile)
         \/ BeginResolve(k, c, d) \/ AbandonCustomerCall(k)
  PROVE  CustomersInv'
<1>1. customer[c].mobile \in Mobile \cup {"NONE", "ANON"}
  BY CustomerTypes DEF Rows
<1>2. ASSUME NEW mobile \in Mobile \cup {"NONE"}, BeginCreateCustomer(k, c, mobile)
      PROVE  CustomersInv'
  <2>. DEFINE new == [kind |-> "CREATE", on |-> c, dup |-> c, mobile |-> mobile]
  <2>1. new \in Calls
    BY DEF Calls
  <2>. QED  BY <1>2, <2>1, CallsKeep DEF BeginCreateCustomer, Begins
<1>3. ASSUME NEW mobile \in Mobile \cup {"NONE", "ANON"},
             \/ BeginEnrich(k, c, mobile) \/ BeginUpdateCustomer(k, c, mobile)
      PROVE  CustomersInv'
  <2>. DEFINE new == [kind |-> "UPDATE", on |-> c, dup |-> c, mobile |-> mobile]
  <2>1. new \in Calls
    BY DEF Calls
  <2>. QED  BY <1>3, <2>1, CallsKeep DEF BeginEnrich, BeginUpdateCustomer, Begins
<1>4. CASE BeginResolve(k, c, d)
  <2>. DEFINE new == [kind |-> "MERGE", on |-> c, dup |-> d, mobile |-> "NONE"]
  <2>1. new \in Calls
    BY DEF Calls
  <2>. QED  BY <1>4, <2>1, CallsKeep DEF BeginResolve, Begins
<1>5. CASE AbandonCustomerCall(k)
  <2>1. Resting \in Calls
    BY DEF Resting, Calls
  <2>. QED  BY <1>5, <2>1, CallsKeep DEF AbandonCustomerCall, Resting
<1>. QED  BY <1>1, <1>2, <1>3, <1>4, <1>5

\* A merge hands every order of the duplicate over before the duplicate goes.
LEMMA MergeHandsOver ==
  ASSUME CustomersInv, NEW c \in Customer, NEW d \in Customer, c # d,
         customer' = Erased(d), custOrder' = Reassigned(c, d),
         crossed' \in BOOLEAN, crossed => crossed', IsKept(c) \/ crossed'
  PROVE  /\ customer' \in [Customer -> Rows] /\ custOrder' \in [CustomerOrder -> OrderRows]
         /\ OrdersName' /\ OrdersKeepCustomer'
<1>1. Record("GONE", "NONE") \in Rows
  BY DEF Record, Rows
<1>2. /\ customer' \in [Customer -> Rows]
      /\ \A e \in Customer : e # d => customer'[e] = customer[e]
  BY <1>1, CustomerTypes DEF Erased
<1>3. \A o \in CustomerOrder :
        /\ custOrder'[o] \in OrderRows /\ custOrder'[o].age = custOrder[o].age
        /\ custOrder'[o].of = IF custOrder[o].of = d THEN c ELSE custOrder[o].of
  BY CustomerTypes DEF Reassigned, OrderRows
<1>4. custOrder' \in [CustomerOrder -> OrderRows]
  BY <1>3 DEF Reassigned
<1>5. OrdersName'
  BY <1>3 DEF CustomersInv, OrdersName
<1>6. OrdersKeepCustomer'
  BY <1>2, <1>3 DEF CustomersInv, OrdersName, OrdersKeepCustomer, IsKept
<1>. QED  BY <1>2, <1>4, <1>5, <1>6

LEMMA FinishCallKeeps ==
  ASSUME CustomersInv, NEW k \in Keeper, FinishCustomerCall(k)
  PROVE  CustomersInv'
<1>. DEFINE call == keeper[k]
<1>1. /\ call \in Calls /\ call.kind \in {"CREATE", "UPDATE", "MERGE"}
      /\ call.on \in Customer /\ call.dup \in Customer
      /\ call.kind = "MERGE" => call.on # call.dup
  BY CustomerTypes DEF FinishCustomerCall, CustomersInv, CallsName, Calls
<1>2. /\ keeper' = [keeper EXCEPT ![k] = Resting] /\ report' = report
      /\ crossed' = (crossed \/ (call.kind = "MERGE" /\ ~IsKept(call.on)))
  BY DEF FinishCustomerCall
<1>3. Resting \in Calls /\ Resting.kind = "REST"
  BY DEF Resting, Calls
<1>4. CallsName' /\ keeper' \in [Keeper -> Calls]
  BY <1>2, <1>3, CustomerTypes DEF CustomersInv, CallsName
<1>5. /\ customer' \in [Customer -> Rows] /\ custOrder' \in [CustomerOrder -> OrderRows]
      /\ OrdersName' /\ OrdersKeepCustomer' /\ crossed' \in BOOLEAN
  <2>1. CASE call.kind = "CREATE"
    <3>1. /\ custOrder' = custOrder
          /\ customer' = IF customer[call.on].state = "ABSENT"
                         THEN [customer EXCEPT ![call.on] = Record("KEPT", call.mobile)] ELSE customer
      BY <2>1 DEF FinishCustomerCall
    <3>2. Record("KEPT", call.mobile) \in Rows /\ Record("KEPT", call.mobile).state = "KEPT"
      BY <1>1 DEF Record, Rows, Calls
    <3>3. /\ customer' \in [Customer -> Rows]
          /\ \A c \in Customer : IsKept(c) => IsKept(c)'
      BY <3>1, <3>2, <1>1, CustomerTypes DEF IsKept
    <3>4. crossed' = crossed
      BY <1>2, <2>1, CustomerTypes
    <3>. QED  BY <3>1, <3>3, <3>4, RowsKeep, CustomerTypes
  <2>2. CASE call.kind = "UPDATE"
    <3>1. /\ custOrder' = custOrder
          /\ customer' = IF IsKept(call.on) THEN [customer EXCEPT ![call.on].mobile = call.mobile]
                         ELSE customer
      BY <2>2 DEF FinishCustomerCall
    <3>2. /\ customer' \in [Customer -> Rows]
          /\ \A c \in Customer : IsKept(c) => IsKept(c)'
      BY <3>1, <1>1, CustomerTypes DEF IsKept, Rows, Calls
    <3>3. crossed' = crossed
      BY <1>2, <2>2, CustomerTypes
    <3>. QED  BY <3>1, <3>2, <3>3, RowsKeep, CustomerTypes
  <2>3. CASE call.kind = "MERGE"
    <3>1. customer' = Erased(call.dup) /\ custOrder' = Reassigned(call.on, call.dup)
      BY <2>3 DEF FinishCustomerCall
    <3>2. crossed' \in BOOLEAN /\ (crossed => crossed') /\ (IsKept(call.on) \/ crossed')
      BY <1>2, <2>3 DEF IsKept
    <3>. QED  BY <3>1, <3>2, <1>1, <2>3, MergeHandsOver
  <2>. QED  BY <1>1, <2>1, <2>2, <2>3
<1>6. CustomersTypeOK'
  BY <1>2, <1>4, <1>5, CustomerTypes DEF CustomersTypeOK, Rows, OrderRows, Calls
<1>. QED  BY <1>4, <1>5, <1>6 DEF CustomersInv

LEMMA MergeKeeps ==
  ASSUME CustomersInv, NEW c \in Customer, NEW d \in Customer, MergeCustomers(c, d)
  PROVE  CustomersInv'
<1>1. /\ customer' = Erased(d) /\ custOrder' = Reassigned(c, d) /\ c # d /\ IsKept(c)
      /\ UNCHANGED <<keeper, report, crossed>>
  BY DEF MergeCustomers
<1>2. /\ customer' \in [Customer -> Rows] /\ custOrder' \in [CustomerOrder -> OrderRows]
      /\ OrdersName' /\ OrdersKeepCustomer'
  BY <1>1, MergeHandsOver, CustomerTypes
<1>3. CustomersTypeOK'
  BY <1>1, <1>2, CustomerTypes DEF CustomersTypeOK, Rows, OrderRows, Calls
<1>. QED  BY <1>1, <1>2, <1>3 DEF CustomersInv, CallsName
-----------------------------------------------------------------------------
\* Shields and anonymizations, the steps of the retention script among them.
LEMMA AnonymizesKeep ==
  ASSUME CustomersInv, UNCHANGED <<custOrder, keeper, crossed>>,
         report' = NoReport \/ report' \subseteq Customer,
         \/ customer' = customer
         \/ \E c \in Customer, shielded \in BOOLEAN :
              customer' = [customer EXCEPT ![c].shielded = shielded]
         \/ \E S \in SUBSET Customer : customer' = Anonymized(S)
  PROVE  CustomersInv'
<1>1. /\ customer' \in [Customer -> Rows]
      /\ \A c \in Customer : IsKept(c) => IsKept(c)'
  BY CustomerTypes DEF Anonymized, Rows, IsKept
<1>2. CustomersTypeOK'
  BY <1>1, CustomerTypes DEF CustomersTypeOK, Rows, OrderRows, Calls
<1>3. OrdersName' /\ OrdersKeepCustomer'
  BY <1>1, RowsKeep
<1>. QED  BY <1>2, <1>3 DEF CustomersInv, CallsName

LEMMA RetentionKeeps ==
  ASSUME CustomersInv,
         \/ \E c \in Customer : AnonymizeOnRequest(c) \/ \E shielded \in BOOLEAN : Shield(c, shielded)
         \/ ReportRetention \/ ApplyRetention \/ EndRetention
  PROVE  CustomersInv'
<1>1. ASSUME NEW c \in Customer, AnonymizeOnRequest(c) PROVE CustomersInv'
  BY <1>1, AnonymizesKeep, CustomerTypes DEF AnonymizeOnRequest
<1>2. ASSUME NEW c \in Customer, NEW shielded \in BOOLEAN, Shield(c, shielded) PROVE CustomersInv'
  BY <1>2, AnonymizesKeep, CustomerTypes DEF Shield
<1>3. CASE ReportRetention
  BY <1>3, AnonymizesKeep DEF ReportRetention
<1>4. CASE ApplyRetention
  <2>1. ToApply \subseteq Customer
    BY <1>4, CustomerTypes DEF ApplyRetention, ToApply
  <2>. QED  BY <1>4, <2>1, AnonymizesKeep DEF ApplyRetention
<1>5. CASE EndRetention
  BY <1>5, AnonymizesKeep DEF EndRetention
<1>. QED  BY <1>1, <1>2, <1>3, <1>4, <1>5

LEMMA CustomersStep == CustomersInv /\ [CustomersNext]_customerVars => CustomersInv'
<1>. SUFFICES ASSUME CustomersInv, [CustomersNext]_customerVars PROVE CustomersInv'
  OBVIOUS
<1>1. CASE UNCHANGED customerVars
  BY <1>1 DEF customerVars, CustomersInv, CustomersTypeOK, OrdersName, CallsName,
              OrdersKeepCustomer, IsKept
<1>2. ASSUME NEW o \in CustomerOrder,
             \/ \E c \in Customer, mobile \in Mobile \cup {"NONE"}, age \in Ages :
                  MatchOrder(o, c, mobile, age) \/ NewWithOrder(o, c, mobile, age)
             \/ OrderAges(o) \/ ForgetOrder(o)
      PROVE  CustomersInv'
  BY <1>2, OrdersKeep, AgesKeep
<1>3. ASSUME NEW k \in Keeper, NEW c \in Customer, NEW d \in Customer,
             \/ \E mobile \in Mobile \cup {"NONE"} :
                  BeginCreateCustomer(k, c, mobile) \/ BeginEnrich(k, c, mobile)
             \/ \E mobile \in Mobile \cup {"NONE", customer[c].mobile} : BeginUpdateCustomer(k, c, mobile)
             \/ BeginResolve(k, c, d)
      PROVE  CustomersInv'
  BY <1>3, KeeperBeginsKeep
<1>4. ASSUME NEW k \in Keeper, AbandonCustomerCall(k) PROVE CustomersInv'
  <2>1. Resting \in Calls
    BY DEF Resting, Calls
  <2>. QED  BY <1>4, <2>1, CallsKeep DEF AbandonCustomerCall, Resting
<1>5. ASSUME NEW k \in Keeper, FinishCustomerCall(k) PROVE CustomersInv'
  BY <1>5, FinishCallKeeps
<1>6. ASSUME NEW c \in Customer, NEW d \in Customer, MergeCustomers(c, d) PROVE CustomersInv'
  BY <1>6, MergeKeeps
<1>7. CASE \/ \E c \in Customer : AnonymizeOnRequest(c) \/ \E shielded \in BOOLEAN : Shield(c, shielded)
           \/ ReportRetention \/ ApplyRetention \/ EndRetention
  BY <1>7, RetentionKeeps
<1>. QED  BY <1>1, <1>2, <1>3, <1>4, <1>5, <1>6, <1>7 DEF CustomersNext

\* Every order keeps a customer on record through merges, edits and new orders
\* in any order, unless a merge went into a record that was deleted since it
\* was read (admin-customer-actions.ts, customers.ts).
THEOREM OrdersStayWithCustomers == CustomersSpec => []OrdersKeepCustomer
<1>1. CustomersInv => OrdersKeepCustomer
  BY DEF CustomersInv
<1>. QED  BY CustomersStart, CustomersStep, <1>1, PTL DEF CustomersSpec
-----------------------------------------------------------------------------
\* Only the two ends of a retention run discard its list.
LEMMA RechecksStep ==
  ASSUME CustomersInv, [CustomersNext]_customerVars, NEW c \in Customer,
         report # NoReport, report' = NoReport, customer'[c].mobile # customer[c].mobile
  PROVE  Eligible(c)
<1>1. ApplyRetention \/ EndRetention
  BY DEF CustomersNext, customerVars, MatchOrder, NewWithOrder, OrderAges, ForgetOrder,
         BeginCreateCustomer, BeginEnrich, BeginUpdateCustomer, BeginResolve, Begins,
         FinishCustomerCall, AbandonCustomerCall, MergeCustomers, AnonymizeOnRequest, Shield,
         ReportRetention
<1>2. ~EndRetention
  BY DEF EndRetention
<1>3. customer' = Anonymized(ToApply)
  BY <1>1, <1>2 DEF ApplyRetention
<1>4. c \in ToApply
  BY <1>3 DEF Anonymized
<1>. QED  BY <1>4 DEF ToApply

\* A retention run anonymizes only who is eligible at that moment, whatever
\* orders, holds and confirmations came after its list
\* (scripts/customer-retention.ts).
THEOREM RetentionIsSafe == CustomersSpec => RetentionRechecks
<1>1. CustomersInv /\ [CustomersNext]_customerVars =>
        [\A c \in Customer :
           report # NoReport /\ report' = NoReport /\ customer'[c].mobile # customer[c].mobile =>
             /\ ~customer[c].shielded
             /\ \A o \in CustomerOrder : custOrder[o].of = c =>
                  custOrder[o].age \notin {"OPEN", "CLOSED"}]_customerVars
  BY RechecksStep DEF Eligible
<1>. QED  BY CustomersStart, CustomersStep, <1>1, PTL DEF CustomersSpec, RetentionRechecks
-----------------------------------------------------------------------------
(* What was erased. *)

\* An edit of the record of c, begun before, is written.
EditOf(c) ==
  \E k \in Keeper : keeper[k].kind = "UPDATE" /\ keeper[k].on = c /\ FinishCustomerCall(k)

\* A record that is gone stays gone, and one that was anonymized gets contacts
\* again only by an edit.
StaysErased(c) ==
  /\ customer[c].state = "GONE" => customer'[c].state = "GONE"
  /\ IsKept(c) /\ customer[c].mobile = "ANON" =>
       customer'[c].state = "GONE" \/ customer'[c].mobile = "ANON" \/ EditOf(c)

LEMMA ErasureStep ==
  ASSUME CustomersInv, [CustomersNext]_customerVars, NEW c \in Customer
  PROVE  StaysErased(c)
<1>1. customer \in [Customer -> Rows] /\ keeper \in [Keeper -> Calls]
  BY CustomerTypes
<1>2. ASSUME UNCHANGED customer PROVE StaysErased(c)
  BY <1>2 DEF StaysErased, IsKept
<1>3. ASSUME NEW d \in Customer, customer[d].state = "ABSENT",
             NEW row, customer' = [customer EXCEPT ![d] = row]
      PROVE  StaysErased(c)
  <2>1. c # d => customer'[c] = customer[c]
    BY <1>1, <1>3
  <2>. QED  BY <1>3, <2>1 DEF StaysErased, IsKept
<1>4. ASSUME NEW d \in Customer, customer' = Erased(d) PROVE StaysErased(c)
  <2>1. IF c = d THEN customer'[c].state = "GONE" ELSE customer'[c] = customer[c]
    BY <1>1, <1>4 DEF Erased, Record
  <2>. QED  BY <2>1 DEF StaysErased, IsKept
<1>5. ASSUME NEW S, customer' = Anonymized(S) PROVE StaysErased(c)
  <2>1. /\ customer'[c].state = customer[c].state
        /\ customer'[c].mobile \in {customer[c].mobile, "ANON"}
    BY <1>1, <1>5 DEF Anonymized, Rows
  <2>. QED  BY <2>1 DEF StaysErased, IsKept
<1>6. ASSUME NEW o \in CustomerOrder, NEW d \in Customer, NEW mobile, NEW age,
             MatchOrder(o, d, mobile, age)
      PROVE  StaysErased(c)
  <2>1. /\ IsKept(d) /\ customer[d].mobile # "ANON"
        /\ customer'[d].state = customer[d].state
        /\ c # d => customer'[c] = customer[c]
    BY <1>1, <1>6 DEF MatchOrder, Rows
  <2>. QED  BY <2>1 DEF StaysErased, IsKept
<1>7. ASSUME NEW o \in CustomerOrder, NEW d \in Customer, NEW mobile, NEW age,
             NewWithOrder(o, d, mobile, age)
      PROVE  StaysErased(c)
  BY <1>3, <1>7 DEF NewWithOrder
<1>8. ASSUME NEW d \in Customer, NEW shielded, Shield(d, shielded) PROVE StaysErased(c)
  <2>1. customer'[c].state = customer[c].state /\ customer'[c].mobile = customer[c].mobile
    BY <1>1, <1>8 DEF Shield, Rows
  <2>. QED  BY <2>1 DEF StaysErased, IsKept
<1>9. ASSUME NEW k \in Keeper, FinishCustomerCall(k) PROVE StaysErased(c)
  <2>. DEFINE on == keeper[k].on
              dup == keeper[k].dup
  <2>1. keeper[k].kind \in {"CREATE", "UPDATE", "MERGE"} /\ on \in Customer /\ dup \in Customer
    BY <1>1, <1>9 DEF FinishCustomerCall, CustomersInv, CallsName, Calls
  <2>2. CASE keeper[k].kind = "CREATE"
    <3>1. \/ UNCHANGED customer
          \/ /\ customer[on].state = "ABSENT"
             /\ customer' = [customer EXCEPT ![on] = Record("KEPT", keeper[k].mobile)]
      BY <1>9, <2>2 DEF FinishCustomerCall
    <3>. QED  BY <1>2, <1>3, <2>1, <3>1
  <2>3. CASE keeper[k].kind = "UPDATE"
    <3>1. UNCHANGED customer \/ (/\ IsKept(on)
                                 /\ customer' = [customer EXCEPT ![on].mobile = keeper[k].mobile])
      BY <1>9, <2>3 DEF FinishCustomerCall
    <3>2. CASE customer' = [customer EXCEPT ![on].mobile = keeper[k].mobile]
      <4>1. customer'[c].state = customer[c].state /\ (c # on => customer'[c] = customer[c])
        BY <1>1, <2>1, <3>2 DEF Rows
      <4>2. c = on => EditOf(c)
        BY <1>9, <2>3 DEF EditOf
      <4>. QED  BY <4>1, <4>2 DEF StaysErased, IsKept
    <3>. QED  BY <1>2, <3>1, <3>2
  <2>4. CASE keeper[k].kind = "MERGE"
    <3>1. customer' = Erased(dup)
      BY <1>9, <2>4 DEF FinishCustomerCall
    <3>. QED  BY <1>4, <2>1, <3>1
  <2>. QED  BY <2>1, <2>2, <2>3, <2>4
<1>10. ASSUME NEW d, NEW e \in Customer, MergeCustomers(d, e) PROVE StaysErased(c)
  BY <1>4, <1>10 DEF MergeCustomers
<1>11. ASSUME NEW d, AnonymizeOnRequest(d) \/ ApplyRetention PROVE StaysErased(c)
  BY <1>5, <1>11 DEF AnonymizeOnRequest, ApplyRetention
<1>12. ASSUME NEW o, OrderAges(o) \/ ForgetOrder(o) PROVE StaysErased(c)
  BY <1>2, <1>12 DEF OrderAges, ForgetOrder
<1>13. ASSUME NEW k, NEW d, NEW e, NEW mobile,
              \/ BeginCreateCustomer(k, d, mobile) \/ BeginEnrich(k, d, mobile)
              \/ BeginUpdateCustomer(k, d, mobile) \/ BeginResolve(k, d, e)
              \/ AbandonCustomerCall(k)
       PROVE  StaysErased(c)
  BY <1>2, <1>13 DEF BeginCreateCustomer, BeginEnrich, BeginUpdateCustomer, BeginResolve, Begins,
                     AbandonCustomerCall
<1>14. CASE ReportRetention \/ EndRetention \/ UNCHANGED customerVars
  BY <1>2, <1>14 DEF ReportRetention, EndRetention, customerVars
<1>. QED  BY <1>6, <1>7, <1>8, <1>9, <1>10, <1>11, <1>12, <1>13, <1>14 DEF CustomersNext

\* Erasure holds against matching, creation and merging, in any order: a record
\* that was merged away or deleted is never filled again, and contacts come back
\* into an anonymized one only by an edit of that record (anonymizeCustomer,
\* updateCustomer in customers.ts).
THEOREM ErasureHolds ==
  CustomersSpec => [][\A c \in Customer : StaysErased(c)]_customerVars
<1>1. CustomersInv /\ [CustomersNext]_customerVars =>
        [\A c \in Customer : StaysErased(c)]_customerVars
  BY ErasureStep
<1>. QED  BY CustomersStart, CustomersStep, <1>1, PTL DEF CustomersSpec
=============================================================================
