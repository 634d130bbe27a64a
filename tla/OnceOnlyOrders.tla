--------------------------- MODULE OnceOnlyOrders ---------------------------
(***************************************************************************)
(* What the shop promises to whoever places an order, whatever goes wrong  *)
(* between the form and the database: a key buys at most one order, a      *)
(* receipt shows an order with the content that was asked for, and a key   *)
(* used for something else is answered with a conflict.  OrderIntake is    *)
(* shown to implement this specification.                                  *)
(***************************************************************************)
CONSTANTS Call,      \* requests
          Key,       \* idempotency keys
          Payload,   \* contents of a request
          NoOrder    \* not an order

Order == [id : Call, key : Key, payload : Payload]

Receipt(o) == [kind |-> "RECEIPT", order |-> o]
Other(kind) == [kind |-> kind, order |-> NoOrder]
NoAnswer == Other("NONE")

\* An order was not accepted, or the server cannot say whether it was.
Declined == {Other("REFUSED"), Other("BUSY"), Other("ERROR")}

VARIABLES asked,   \* asked[c]: the order call c asks for, or NoOrder
          stored,  \* the orders that exist
          answer   \* answer[c]: what call c was told

Init ==
  /\ asked = [c \in Call |-> NoOrder]
  /\ stored = {}
  /\ answer = [c \in Call |-> NoAnswer]

Under(k) == {o \in stored : o.key = k}

Waiting(c) == asked[c] # NoOrder /\ answer[c] = NoAnswer

Ask(c, k, p) ==
  /\ asked[c] = NoOrder
  /\ asked' = [asked EXCEPT ![c] = [id |-> c, key |-> k, payload |-> p]]
  /\ UNCHANGED <<stored, answer>>

\* The order comes to exist; the caller may be told, or never hear.
Accept(c) ==
  /\ Waiting(c)
  /\ Under(asked[c].key) = {}
  /\ stored' = stored \cup {asked[c]}
  /\ \E a \in {Receipt(asked[c]), NoAnswer, Other("ERROR")} :
       answer' = [answer EXCEPT ![c] = a]
  /\ UNCHANGED asked

\* Asked again: the receipt of the order that exists, or a conflict with it.
Repeat(c) ==
  /\ Waiting(c)
  /\ \E o \in Under(asked[c].key) :
       answer' = [answer EXCEPT ![c] = IF o.payload = asked[c].payload
                                       THEN Receipt(o) ELSE Other("CONFLICT")]
  /\ UNCHANGED <<asked, stored>>

Decline(c) ==
  /\ Waiting(c)
  /\ \E a \in Declined : answer' = [answer EXCEPT ![c] = a]
  /\ UNCHANGED <<asked, stored>>

\* Staff delete an order; its key buys another one.
Remove(o) ==
  /\ stored' = stored \ {o}
  /\ UNCHANGED <<asked, answer>>

Next ==
  \/ \E c \in Call :
       \/ \E k \in Key, p \in Payload : Ask(c, k, p)
       \/ Accept(c) \/ Repeat(c) \/ Decline(c)
  \/ \E o \in stored : Remove(o)

Spec == Init /\ [][Next]_<<asked, stored, answer>>
=============================================================================
