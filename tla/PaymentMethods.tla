--------------------------- MODULE PaymentMethods ---------------------------
(***************************************************************************)
(* The payment methods of the shop (src/src/domain/payment-methods.ts): a  *)
(* row per method says whether it is enabled, a method without a row is    *)
(* enabled.  Staff switch methods off and delete their rows in several     *)
(* statements that no transaction holds together; recording a payment or a *)
(* refund asks for the method inside the order's transaction.              *)
(* A call is cut where another call can come in between: after its reads,  *)
(* before its write.                                                       *)
(***************************************************************************)
EXTENDS FiniteSets

CONSTANTS
  Method,       \* PAYMENT_METHODS
  SystemMethod, \* CASH, BANK_TRANSFER, MOBILEPAY: never deleted
  Cashier       \* the members of staff at the settings page

ASSUME MethodConstants == SystemMethod \subseteq Method /\ Method # {}

VARIABLES
  methodRow,   \* methodRow[m]: the row of m, "NONE" where there is none
  methodUsed,  \* the methods that some order payment names
  methodCall,  \* methodCall[s]: the call s has made and not finished
  methodRaced  \* history: two calls that switch a method off overlapped

methodVars == <<methodRow, methodUsed, methodCall, methodRaced>>

Idle == "IDLE"
Call(op, m) == [op |-> op, method |-> m]
NoCall == [op |-> Idle]
Calls == [op : {"DISABLE", "DELETE"}, method : Method] \cup {NoCall}

Offered(m) == methodRow[m] # "OFF"

MethodsInit ==
  /\ methodRow = [m \in Method |-> "NONE"]
  /\ methodUsed = {}
  /\ methodCall = [s \in Cashier |-> NoCall]
  /\ methodRaced = FALSE

\* Mutant of MayDisable: the method itself counts as one that remains.
MayDisableAny(m) == \E n \in Method : Offered(n)

\* setPaymentMethod: another enabled method must remain.
MayDisable(m) == \E n \in Method \ {m} : Offered(n)

\* setPaymentMethod(m, true): an upsert, no check.
EnableMethod(s, m) ==
  /\ methodCall[s] = NoCall
  /\ methodRow' = [methodRow EXCEPT ![m] = "ON"]
  /\ UNCHANGED <<methodUsed, methodCall, methodRaced>>

\* deletePaymentMethod: a row that exists, not a system method, no payments.
MayDelete(m) == m \notin SystemMethod /\ methodRow[m] # "NONE" /\ m \notin methodUsed

Disabling(s) == methodCall[s] # NoCall /\ methodCall[s].op = "DISABLE"

\* The reads of setPaymentMethod(m, false) and of deletePaymentMethod(m).
BeginCall(s, op, m) ==
  /\ methodCall[s] = NoCall
  /\ IF op = "DISABLE" THEN MayDisable(m) ELSE MayDelete(m)
  /\ methodCall' = [methodCall EXCEPT ![s] = Call(op, m)]
  /\ methodRaced' = (methodRaced \/ (op = "DISABLE" /\ \E t \in Cashier : Disabling(t)))
  /\ UNCHANGED <<methodRow, methodUsed>>

\* The write: the upsert, or the row is gone (and the method enabled again).
RowAfter(op) == IF op = "DISABLE" THEN "OFF" ELSE "NONE"

FinishCall(s) ==
  /\ methodCall[s] # NoCall
  /\ methodRow' = [methodRow EXCEPT ![methodCall[s].method] = RowAfter(methodCall[s].op)]
  /\ methodCall' = [methodCall EXCEPT ![s] = NoCall]
  /\ UNCHANGED <<methodUsed, methodRaced>>

\* recordPayment and recordRefund, as far as assertPaymentMethodEnabled.
UseMethod(m) ==
  /\ Offered(m)
  /\ methodUsed' = methodUsed \cup {m}
  /\ UNCHANGED <<methodRow, methodCall, methodRaced>>

\* deleteManagerOrder deletes the payments of its order, perhaps m's last.
ForgetPayments(m) ==
  /\ m \in methodUsed
  /\ methodUsed' = methodUsed \ {m}
  /\ UNCHANGED <<methodRow, methodCall, methodRaced>>

MethodsNext ==
  \/ \E m \in Method : UseMethod(m) \/ ForgetPayments(m)
  \/ \E s \in Cashier :
       \/ \E m \in Method : EnableMethod(s, m)
       \/ \E m \in Method, op \in {"DISABLE", "DELETE"} : BeginCall(s, op, m)
       \/ FinishCall(s)

MethodsSpec == MethodsInit /\ [][MethodsNext]_methodVars
-----------------------------------------------------------------------------
MethodsTypeOK ==
  /\ methodRow \in [Method -> {"NONE", "ON", "OFF"}]
  /\ methodUsed \subseteq Method
  /\ methodCall \in [Cashier -> Calls]
  /\ methodRaced \in BOOLEAN

\* "At least one payment method must remain enabled" (setPaymentMethod): as
\* long as the staff's calls do not overlap, disabling, deleting (which
\* enables) and enabling in any order never leave the shop without a method.
\* Two overlapping calls that switch methods off can: each counts the method
\* the other is about to take away.
AMethodRemains == (\E m \in Method : Offered(m)) \/ methodRaced
=============================================================================
