----------------------------- MODULE OrderIntake -----------------------------
(***************************************************************************)
(* Placing an order, from the form to the database and back.               *)
(*                                                                         *)
(* A form holds one idempotency key until it shows a receipt, and sends it *)
(* with every request it makes.  The server handles each request as a call *)
(* of submitOrder (public keys) or createExternalOrder (the others), both  *)
(* around intakeOrderCore: a read outside any transaction, then a write    *)
(* transaction, with retries when the database is busy and, for public     *)
(* orders, a last read when anything else went wrong.  Calls interleave at *)
(* every await; a write transaction excludes other writers, not readers.   *)
(* Responses get lost, the server may stop at any moment, and with Faults  *)
(* any statement may fail although a commit was carried out.               *)
(*                                                                         *)
(* A payload stands for what idempotencyFingerprint covers.  One           *)
(* availability row stands for all (OrderCapacity has them); the refusals  *)
(* that do not depend on capacity are left out.  The unique violation that *)
(* intakeOrderCore also expects cannot occur: the read for a replay and    *)
(* the insert are in one write transaction.                                *)
(***************************************************************************)
EXTENDS Integers, FiniteSets

CONSTANTS
  Call,       \* the requests the server receives
  Key,        \* the forms, each with the key it was rendered with
  Public,     \* those on the storefront; the others are API clients of staff
  Payload, Ml,      \* Ml[p]: the volume of payload p
  CapacityMl,
  NoCall, NoOrder,
  MaxBusy,    \* busyRetry < 10 in intakeOrderCore
  MaxOuter,   \* busyRetry >= 4 in submitOrder
  Faults      \* TRUE: database errors other than busy ones happen

ASSUME IntakeConstants ==
  /\ IsFiniteSet(Call)
  /\ Public \subseteq Key
  /\ Ml \in [Payload -> Nat]
  /\ Payload # {}
  /\ CapacityMl \in Nat
  /\ NoCall \notin Call
  /\ NoOrder \notin [id : Call, key : Key, payload : Payload]
  /\ MaxBusy \in Nat /\ MaxOuter \in Nat
  /\ Faults \in BOOLEAN

VARIABLES
  form,      \* form[k]: the payload it sent last, the call it waits for and the
             \* receipt it shows
  call,      \* call[c]: where the handler of request c is
  lock,      \* the call whose write transaction is open, or NoCall
  orders,    \* the orders table
  reserved,  \* reservedMl of the row
  deleted    \* history: the orders that were deleted

vars == <<form, call, lock, orders, reserved, deleted>>

\* What OnceOnlyOrders sees of a call: what it asks for and what it was told.
Asked == [c \in Call |-> IF call[c].phase = "IDLE" THEN NoOrder ELSE call[c].order]
Told == [c \in Call |-> call[c].answer]

Once == INSTANCE OnceOnlyOrders WITH asked <- Asked, stored <- orders, answer <- Told

Order == Once!Order
Receipt(o) == Once!Receipt(o)
Other(kind) == Once!Other(kind)

\* IDLE unused; PRIOR before the read outside the transaction; BEGIN before
\* the transaction; TX before its commit; FALLBACK before submitOrder's last
\* read; ANSWERED; LOST with the server.
Phase == {"IDLE", "PRIOR", "BEGIN", "TX", "FALLBACK", "ANSWERED", "LOST"}
Running == {"PRIOR", "BEGIN", "TX", "FALLBACK"}

Idle == [phase |-> "IDLE", order |-> NoOrder, busy |-> 0, outer |-> 0,
         answer |-> Other("NONE")]
NewForm == [sent |-> CHOOSE p \in Payload : TRUE, waiting |-> NoCall, receipt |-> NoOrder]

Init ==
  /\ form = [k \in Key |-> NewForm]
  /\ call = [c \in Call |-> Idle]
  /\ lock = NoCall
  /\ orders = {}
  /\ reserved = 0
  /\ deleted = {}
-----------------------------------------------------------------------------
(* The server. *)

KeyOf(c) == call[c].order.key
Under(k) == {o \in orders : o.key = k}

Move(c, phase) == [call EXCEPT ![c].phase = phase]
Answer(c, a) == [call EXCEPT ![c].phase = "ANSWERED", ![c].answer = a]

\* Mutant of Replay: the fingerprint is not compared.
ReplayAnything(c, o) == Receipt(o)

\* checkPayloadEquivalence decides between the receipt of o and a conflict.
Replay(c, o) ==
  IF o.payload = call[c].order.payload THEN Receipt(o) ELSE Other("CONFLICT")

\* prior, read before the transaction.
ReadPrior(c) ==
  /\ call[c].phase = "PRIOR"
  /\ IF Under(KeyOf(c)) = {} THEN call' = Move(c, "BEGIN")
     ELSE \E o \in Under(KeyOf(c)) : call' = Answer(c, Replay(c, o))
  /\ UNCHANGED <<form, lock, orders, reserved, deleted>>

\* Mutant of Fits: nothing is compared with what others reserved.
FitsAlone(c) == Ml[call[c].order.payload] <= CapacityMl

Fits(c) == Ml[call[c].order.payload] <= CapacityMl - reserved

\* Mutant of Begin: the key is not looked up again inside the transaction.
BeginUnchecked(c) ==
  /\ call[c].phase = "BEGIN"
  /\ lock = NoCall
  /\ IF Fits(c) THEN lock' = c /\ call' = Move(c, "TX")
     ELSE UNCHANGED lock /\ call' = Answer(c, Other("REFUSED"))
  /\ UNCHANGED <<form, orders, reserved, deleted>>

\* The transaction starts, looks for a replay and reserves; what it wrote is
\* visible at Commit.  A replay or a refusal ends it at once.
Begin(c) ==
  /\ call[c].phase = "BEGIN"
  /\ lock = NoCall
  /\ \/ /\ Under(KeyOf(c)) # {}
        /\ \E o \in Under(KeyOf(c)) : call' = Answer(c, Replay(c, o))
        /\ UNCHANGED lock
     \/ /\ Under(KeyOf(c)) = {}
        /\ IF Fits(c) THEN lock' = c /\ call' = Move(c, "TX")
           ELSE UNCHANGED lock /\ call' = Answer(c, Other("REFUSED"))
  /\ UNCHANGED <<form, orders, reserved, deleted>>

\* Mutant of Retried: the attempts are not counted.
RetriedForever(c) == Move(c, "PRIOR")

\* Mutant of Retried: one attempt too many.
RetriedOnceMore(c) == [call EXCEPT ![c].phase = "PRIOR", ![c].busy = @ + 1]

\* A busy error: intakeOrderCore starts over, and when it has given up
\* submitOrder starts it over.
Retried(c) ==
  IF call[c].busy < MaxBusy
  THEN [call EXCEPT ![c].phase = "PRIOR", ![c].busy = @ + 1]
  ELSE IF KeyOf(c) \notin Public THEN Answer(c, Other("ERROR"))
  ELSE IF call[c].outer < MaxOuter
  THEN [call EXCEPT ![c].phase = "PRIOR", ![c].busy = 0, ![c].outer = @ + 1]
  ELSE Answer(c, Other("BUSY"))

\* Another writer holds the database.
Busy(c) ==
  /\ call[c].phase = "BEGIN"
  /\ lock # NoCall
  /\ call' = Retried(c)
  /\ UNCHANGED <<form, lock, orders, reserved, deleted>>

\* What a commit writes.
Write(c) ==
  /\ orders' = orders \cup {call[c].order}
  /\ reserved' = reserved + Ml[call[c].order.payload]

Commit(c) ==
  /\ call[c].phase = "TX"
  /\ Write(c)
  /\ lock' = NoCall
  /\ call' = Answer(c, Receipt(call[c].order))
  /\ UNCHANGED <<form, deleted>>

\* Mutant of Failed: a failed public call is answered as if it had succeeded.
FailedAnyway(c) ==
  IF KeyOf(c) \in Public THEN Move(c, "FALLBACK")
  ELSE Answer(c, Receipt(call[c].order))

\* An error that is not a busy one leaves intakeOrderCore.
Failed(c) ==
  IF KeyOf(c) \in Public THEN Move(c, "FALLBACK") ELSE Answer(c, Other("ERROR"))

\* The read, or opening the transaction, fails.
StatementFails(c) ==
  /\ Faults
  /\ call[c].phase \in {"PRIOR", "BEGIN"}
  /\ call' = Failed(c)
  /\ UNCHANGED <<form, lock, orders, reserved, deleted>>

\* A statement of the transaction fails, or its commit does: then the
\* database may have carried it out.
TransactionFails(c) ==
  /\ Faults
  /\ call[c].phase = "TX"
  /\ Write(c) \/ UNCHANGED <<orders, reserved>>
  /\ lock' = NoCall
  /\ call' = Failed(c)
  /\ UNCHANGED <<form, deleted>>

\* submitOrder's last read: the payload is not compared.
ReadFallback(c) ==
  /\ call[c].phase = "FALLBACK"
  /\ \/ \E o \in Under(KeyOf(c)) : call' = Answer(c, Receipt(o))
     \/ Under(KeyOf(c)) = {} /\ call' = Answer(c, Other("ERROR"))
     \/ Faults /\ call' = Answer(c, Other("ERROR"))
  /\ UNCHANGED <<form, lock, orders, reserved, deleted>>

\* The server stops: its calls are never answered, and the transaction that
\* was open is rolled back, or was just committed.
Crash ==
  /\ \E c \in Call : call[c].phase \in Running
  /\ call' = [c \in Call |-> IF call[c].phase \in Running
                             THEN [call[c] EXCEPT !.phase = "LOST"] ELSE call[c]]
  /\ \/ lock # NoCall /\ Write(lock)
     \/ UNCHANGED <<orders, reserved>>
  /\ lock' = NoCall
  /\ UNCHANGED <<form, deleted>>

\* deleteManagerOrder; whether the volume comes back depends on the stage of
\* the order (OrderCapacity).
DeleteOrder(o) ==
  /\ lock = NoCall
  /\ orders' = orders \ {o}
  /\ deleted' = deleted \cup {o}
  /\ \E back \in {0, Ml[o.payload]} : reserved' = reserved - back
  /\ UNCHANGED <<form, call, lock>>
-----------------------------------------------------------------------------
(* The form. *)

CanSubmit(k) == form[k].waiting = NoCall /\ form[k].receipt = NoOrder

\* What the customer filled in since the last request is any payload.
Submit(k, c, p) ==
  /\ CanSubmit(k)
  /\ call[c].phase = "IDLE"
  /\ form' = [form EXCEPT ![k].sent = p, ![k].waiting = c]
  /\ call' = [call EXCEPT ![c].phase = "PRIOR",
                          ![c].order = [id |-> c, key |-> k, payload |-> p]]
  /\ UNCHANGED <<lock, orders, reserved, deleted>>

\* The response arrives.
Receive(k) ==
  /\ form[k].waiting # NoCall
  /\ call[form[k].waiting].phase = "ANSWERED"
  /\ form' = [form EXCEPT ![k].waiting = NoCall,
                          ![k].receipt = call[form[k].waiting].answer.order]
  /\ UNCHANGED <<call, lock, orders, reserved, deleted>>

\* The request fails in the browser; the server may still be working on it.
LoseResponse(k) ==
  /\ form[k].waiting # NoCall
  /\ form' = [form EXCEPT ![k].waiting = NoCall]
  /\ UNCHANGED <<call, lock, orders, reserved, deleted>>
-----------------------------------------------------------------------------
ServerStep(c) ==
  \/ ReadPrior(c) \/ Begin(c) \/ Busy(c) \/ Commit(c)
  \/ StatementFails(c) \/ TransactionFails(c) \/ ReadFallback(c)

FormStep(k) ==
  \/ \E c \in Call, p \in Payload : Submit(k, c, p)
  \/ Receive(k) \/ LoseResponse(k)

Next ==
  \/ \E c \in Call : ServerStep(c)
  \/ Crash
  \/ \E o \in orders : DeleteOrder(o)
  \/ \E k \in Key : FormStep(k)

Spec == Init /\ [][Next]_vars

\* Awaited reads and the start of a transaction come back, with a result or an
\* error; a transaction another process opened may stay open for ever.
Fairness ==
  \A c \in Call : /\ WF_vars(ReadPrior(c) \/ StatementFails(c))
                  /\ WF_vars(Begin(c) \/ Busy(c) \/ StatementFails(c))
                  /\ WF_vars(ReadFallback(c))

FairSpec == Spec /\ Fairness
-----------------------------------------------------------------------------
(* Properties. *)

TypeOK ==
  /\ form \in [Key -> [sent : Payload, waiting : Call \cup {NoCall},
                       receipt : Order \cup {NoOrder}]]
  /\ call \in [Call -> [phase : Phase, order : Order \cup {NoOrder},
                        busy : 0..MaxBusy, outer : 0..MaxOuter,
                        answer : {Receipt(o) : o \in Order} \cup
                                 {Other("NONE"), Other("CONFLICT")} \cup Once!Declined]]
  /\ lock \in Call \cup {NoCall}
  /\ orders \subseteq Order
  /\ deleted \subseteq Order
  /\ reserved \in Int

\* "Idempotency keys [...] must not cause duplicate order/capacity effects":
\* however the requests of a form interleave, fail and are repeated, one order
\* at most exists for its key.
OneOrderPerKey == \A a, b \in orders : a.key = b.key => a = b

\* A form that shows a receipt shows an order that was committed and that only
\* the staff can take away; no crash or failed commit can.
ReceiptKept ==
  \A k \in Key : form[k].receipt # NoOrder => form[k].receipt \in orders \cup deleted

\* The receipt on a form is for what the form asked for last, also when an
\* earlier request with other content is still under way: "Same key with a materially
\* different payload returns IDEMPOTENCY_CONFLICT".
ReceiptMatches ==
  \A k \in Key : form[k].receipt # NoOrder =>
    form[k].receipt.key = k /\ form[k].receipt.payload = form[k].sent

\* The millilitres of a set of orders, each as a claim of its order.
Claims(S) == UNION {{o} \X (1..Ml[o.payload]) : o \in S}
ClaimedMl(S) == Cardinality(Claims(S))

\* The last capacity goes to one of the calls that compete for it: the orders
\* that exist are covered by the reservation, which fits the row.
OrdersCovered == ClaimedMl(orders) <= reserved /\ reserved <= CapacityMl

\* Every request is answered, or is the one that holds the database, or went
\* down with the server: retries end although another writer may never finish.
AnsweredInTheEnd ==
  \A c \in Call : call[c].phase \in Running ~> call[c].phase \in {"TX", "ANSWERED", "LOST"}

\* Intake keeps the promise of OnceOnlyOrders.
KeepsOncePromise == Once!Spec
=============================================================================
