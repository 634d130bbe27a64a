-------------------------- MODULE OrderIntakeProofs --------------------------
(***************************************************************************)
(* Theorems about OrderIntake, for any number of forms, requests and       *)
(* retries.                                                                *)
(*                                                                         *)
(* IntakeInv is the inductive invariant: the open transaction belongs to   *)
(* the call the lock names, and while it is open no order has its key.     *)
(* CoveredInv adds the capacity: while it is open its order still fits.    *)
(***************************************************************************)
EXTENDS OrderIntake, FiniteSetTheorems, TLAPS

\* Exactly the call that holds the lock has a transaction open, and the key it
\* is about to insert is free.
LockHolds ==
  /\ \A c \in Call : call[c].phase = "TX" => lock = c
  /\ lock # NoCall => call[lock].phase = "TX" /\ Under(KeyOf(lock)) = {}

\* A call that was made carries an order that names it.
CallsCarry ==
  \A c \in Call : call[c].phase # "IDLE" => call[c].order \in Order

\* What a call was told about exists, or was deleted since.
AnswersKept ==
  \A c \in Call : call[c].answer.order # NoOrder =>
                  call[c].answer.order \in orders \cup deleted

IntakeInv ==
  TypeOK /\ LockHolds /\ CallsCarry /\ AnswersKept /\ ReceiptKept /\ OneOrderPerKey
-----------------------------------------------------------------------------
USE IntakeConstants DEF Phase, Running

\* The types of TypeOK, by name.
Answers ==
  {Receipt(o) : o \in Order} \cup {Other("NONE"), Other("CONFLICT")} \cup Once!Declined

CallState ==
  [phase : Phase, order : Order \cup {NoOrder}, busy : 0..MaxBusy,
   outer : 0..MaxOuter, answer : Answers]

FormState ==
  [sent : Payload, waiting : Call \cup {NoCall}, receipt : Order \cup {NoOrder}]

\* What an answer shows is an order or nothing.
LEMMA AnswerShape ==
  /\ \A o \in Order : Receipt(o) \in Answers /\ Receipt(o).order = o
  /\ \A kind \in {"NONE", "CONFLICT", "REFUSED", "BUSY", "ERROR"} :
       Other(kind) \in Answers /\ Other(kind).order = NoOrder
  /\ \A a \in Answers : a.order \in Order \cup {NoOrder}
BY DEF Answers, Receipt, Other, Once!Receipt, Once!Other, Once!Declined

\* An order is what its three fields say.
LEMMA OrderShape ==
  /\ NoOrder \notin Order
  /\ \A o \in Order : o.id \in Call /\ o.key \in Key /\ o.payload \in Payload
  /\ \A c \in Call, k \in Key, p \in Payload :
       [id |-> c, key |-> k, payload |-> p] \in Order
BY DEF Order, Once!Order

\* A replay shows the order it found, or nothing.
LEMMA ReplayShape ==
  ASSUME NEW c, NEW o \in Order
  PROVE  Replay(c, o) \in Answers /\ Replay(c, o).order \in {o, NoOrder}
BY AnswerShape DEF Replay

\* One call goes to state s: what is left to prove of the parts of the
\* invariant that speak of calls.
LEMMA OneCallMoves ==
  ASSUME IntakeInv, NEW c \in Call, NEW s \in CallState,
         s.phase # "IDLE" => s.order \in Order,
         s.answer.order # NoOrder => s.answer.order \in orders' \cup deleted',
         orders \cup deleted \subseteq orders' \cup deleted',
         call' = [call EXCEPT ![c] = s]
  PROVE  call' \in [Call -> CallState] /\ CallsCarry' /\ AnswersKept'
<1>1. call \in [Call -> CallState]
  BY DEF IntakeInv, TypeOK, CallState, Answers
<1>2. call' \in [Call -> CallState]
  BY <1>1
<1>3. \A d \in Call : call'[d] = IF d = c THEN s ELSE call[d]
  BY <1>1
<1>4. CallsCarry'
  BY <1>3, OrderShape DEF IntakeInv, CallsCarry, Order, Once!Order
<1>5. AnswersKept'
  BY <1>3 DEF IntakeInv, AnswersKept
<1>. QED  BY <1>2, <1>4, <1>5

\* The five ways a call moves, as one state in CallState.
LEMMA MovedCall ==
  ASSUME IntakeInv, NEW c \in Call, call[c].phase # "IDLE"
  PROVE  /\ call[c] \in CallState /\ call[c].order \in Order
         /\ \A phase \in Phase : Move(c, phase) =
              [call EXCEPT ![c] = [call[c] EXCEPT !.phase = phase]]
         /\ \A a : Answer(c, a) =
              [call EXCEPT ![c] = [call[c] EXCEPT !.phase = "ANSWERED", !.answer = a]]
BY DEF IntakeInv, TypeOK, CallState, Answers, CallsCarry, Move, Answer

\* Moving on keeps order and answer.
LEMMA MovePreserves ==
  ASSUME IntakeInv, NEW c \in Call, call[c].phase # "IDLE",
         NEW phase \in Phase \ {"IDLE"},
         orders \cup deleted \subseteq orders' \cup deleted',
         call' = Move(c, phase)
  PROVE  /\ call' \in [Call -> CallState] /\ CallsCarry' /\ AnswersKept'
         /\ \A d \in Call : call'[d].phase = IF d = c THEN phase ELSE call[d].phase
         /\ \A d \in Call : call'[d].order = call[d].order
<1> DEFINE s == [call[c] EXCEPT !.phase = phase]
<1>1. call[c] \in CallState /\ call[c].order \in Order /\ call' = [call EXCEPT ![c] = s]
  BY MovedCall
<1>2. s \in CallState /\ s.order \in Order /\ s.phase = phase /\ s.answer = call[c].answer
      /\ s.order = call[c].order
  BY <1>1 DEF CallState
<1>3. s.answer.order # NoOrder => s.answer.order \in orders' \cup deleted'
  BY <1>2 DEF IntakeInv, AnswersKept
<1>4. call \in [Call -> CallState]
  BY DEF IntakeInv, TypeOK, CallState, Answers
<1> HIDE DEF s
<1>5. call' \in [Call -> CallState] /\ CallsCarry' /\ AnswersKept'
  BY <1>1, <1>2, <1>3, OneCallMoves
<1>. QED  BY <1>1, <1>2, <1>4, <1>5

\* Answering keeps the order, and what it shows exists.
LEMMA AnswerPreserves ==
  ASSUME IntakeInv, NEW c \in Call, call[c].phase # "IDLE",
         NEW a \in Answers, a.order # NoOrder => a.order \in orders' \cup deleted',
         orders \cup deleted \subseteq orders' \cup deleted',
         call' = Answer(c, a)
  PROVE  /\ call' \in [Call -> CallState] /\ CallsCarry' /\ AnswersKept'
         /\ \A d \in Call : call'[d].phase = IF d = c THEN "ANSWERED" ELSE call[d].phase
         /\ \A d \in Call : call'[d].order = call[d].order
<1> DEFINE s == [call[c] EXCEPT !.phase = "ANSWERED", !.answer = a]
<1>0. call' = [call EXCEPT ![c] = s]
  BY DEF Answer
<1>1. call[c] \in CallState /\ call[c].order \in Order /\ call' = [call EXCEPT ![c] = s]
  BY <1>0, MovedCall
<1>2. s \in CallState /\ s.order \in Order /\ s.phase = "ANSWERED" /\ s.answer = a
      /\ s.order = call[c].order
  BY <1>1 DEF CallState
<1>4. call \in [Call -> CallState]
  BY DEF IntakeInv, TypeOK, CallState, Answers
<1> HIDE DEF s
<1>5. call' \in [Call -> CallState] /\ CallsCarry' /\ AnswersKept'
  BY <1>1, <1>2, OneCallMoves
<1>. QED  BY <1>1, <1>2, <1>4, <1>5

\* A step of a call outside the transaction that writes nothing.
LEMMA QuietStep ==
  ASSUME IntakeInv, NEW c \in Call, call[c].phase # "TX",
         UNCHANGED <<form, lock, orders, reserved, deleted>>,
         call' \in [Call -> CallState], CallsCarry', AnswersKept',
         call'[c].phase # "TX",
         \A d \in Call \ {c} : call'[d].phase = call[d].phase /\ call'[d].order = call[d].order
  PROVE  IntakeInv'
<1>1. TypeOK'
  BY DEF IntakeInv, TypeOK, CallState, Answers
<1>2. LockHolds'
  BY DEF IntakeInv, TypeOK, LockHolds, Under, KeyOf
<1>3. ReceiptKept' /\ OneOrderPerKey'
  BY DEF IntakeInv, ReceiptKept, OneOrderPerKey
<1>. QED  BY <1>1, <1>2, <1>3 DEF IntakeInv

LEMMA FoundOrder ==
  ASSUME IntakeInv, NEW k, NEW o \in Under(k)
  PROVE  o \in orders /\ o \in Order /\ o.key = k
BY DEF IntakeInv, TypeOK, Under

LEMMA ReadPriorKeeps ==
  ASSUME IntakeInv, NEW c \in Call, ReadPrior(c)
  PROVE  IntakeInv'
<1>1. call[c].phase = "PRIOR" /\ UNCHANGED <<form, lock, orders, reserved, deleted>>
  BY DEF ReadPrior
<1>2. CASE call' = Move(c, "BEGIN")
  BY <1>1, <1>2, MovePreserves, QuietStep
<1>3. ASSUME NEW o \in Under(KeyOf(c)), call' = Answer(c, Replay(c, o))
      PROVE  IntakeInv'
  <2>1. o \in orders /\ o \in Order
    BY FoundOrder
  <2>2. Replay(c, o) \in Answers /\ Replay(c, o).order \in {o, NoOrder}
    BY <2>1, ReplayShape
  <2>. QED  BY <1>1, <1>3, <2>1, <2>2, AnswerPreserves, QuietStep
<1>. QED  BY <1>2, <1>3 DEF ReadPrior

\* A failed call goes on to the fallback, or is answered with nothing.
LEMMA FailedPreserves ==
  ASSUME IntakeInv, NEW c \in Call, call[c].phase # "IDLE",
         orders \cup deleted \subseteq orders' \cup deleted', call' = Failed(c)
  PROVE  /\ call' \in [Call -> CallState] /\ CallsCarry' /\ AnswersKept'
         /\ call'[c].phase \in {"FALLBACK", "ANSWERED"}
         /\ \A d \in Call \ {c} : call'[d].phase = call[d].phase
         /\ \A d \in Call : call'[d].order = call[d].order
<1>1. CASE call' = Move(c, "FALLBACK")
  BY <1>1, MovePreserves
<1>2. CASE call' = Answer(c, Other("ERROR"))
  BY <1>2, AnswerShape, AnswerPreserves
<1>. QED  BY <1>1, <1>2 DEF Failed

LEMMA StatementFailsKeeps ==
  ASSUME IntakeInv, NEW c \in Call, StatementFails(c)
  PROVE  IntakeInv'
BY FailedPreserves, QuietStep DEF StatementFails

LEMMA ReadFallbackKeeps ==
  ASSUME IntakeInv, NEW c \in Call, ReadFallback(c)
  PROVE  IntakeInv'
<1>1. call[c].phase = "FALLBACK" /\ UNCHANGED <<form, lock, orders, reserved, deleted>>
  BY DEF ReadFallback
<1>2. CASE call' = Answer(c, Other("ERROR"))
  BY <1>1, <1>2, AnswerShape, AnswerPreserves, QuietStep
<1>3. ASSUME NEW o \in Under(KeyOf(c)), call' = Answer(c, Receipt(o))
      PROVE  IntakeInv'
  <2>1. o \in orders /\ o \in Order
    BY FoundOrder
  <2>. QED  BY <1>1, <1>3, <2>1, AnswerShape, AnswerPreserves, QuietStep
<1>. QED  BY <1>2, <1>3 DEF ReadFallback

LEMMA BusyKeeps ==
  ASSUME IntakeInv, NEW c \in Call, Busy(c)
  PROVE  IntakeInv'
<1>1. call[c].phase = "BEGIN" /\ UNCHANGED <<form, lock, orders, reserved, deleted>>
      /\ call' = Retried(c)
  BY DEF Busy
<1>2. CASE \E kind \in {"ERROR", "BUSY"} : call' = Answer(c, Other(kind))
  BY <1>1, <1>2, AnswerShape, AnswerPreserves, QuietStep
<1>3. ASSUME NEW busy \in 0..MaxBusy, NEW outer \in 0..MaxOuter,
             call' = [call EXCEPT ![c] = [call[c] EXCEPT !.phase = "PRIOR",
                                          !.busy = busy, !.outer = outer]]
      PROVE  IntakeInv'
  <2> DEFINE s == [call[c] EXCEPT !.phase = "PRIOR", !.busy = busy, !.outer = outer]
  <2>1. call[c] \in CallState /\ call[c].order \in Order
    BY <1>1, MovedCall
  <2>2. s \in CallState /\ s.phase = "PRIOR" /\ s.order = call[c].order
        /\ s.answer = call[c].answer
    BY <2>1 DEF CallState
  <2>3. call \in [Call -> CallState]
    BY DEF IntakeInv, TypeOK, CallState, Answers
  <2>4. \A d \in Call : call'[d] = IF d = c THEN s ELSE call[d]
    BY <1>3, <2>3
  <2>5. s.answer.order # NoOrder => s.answer.order \in orders' \cup deleted'
    BY <1>1, <2>2 DEF IntakeInv, AnswersKept
  <2>6. call' = [call EXCEPT ![c] = s]
    BY <1>3
  <2> HIDE DEF s
  <2>7. call' \in [Call -> CallState] /\ CallsCarry' /\ AnswersKept'
    BY <1>1, <2>1, <2>2, <2>5, <2>6, OneCallMoves
  <2>. QED  BY <1>1, <2>2, <2>4, <2>7, QuietStep
<1>4. call[c] \in CallState
  BY <1>1, MovedCall
<1>5. CASE call' = [call EXCEPT ![c].phase = "PRIOR", ![c].busy = @ + 1]
           /\ call[c].busy < MaxBusy
  <2>1. call' = [call EXCEPT ![c] = [call[c] EXCEPT !.phase = "PRIOR",
                             !.busy = call[c].busy + 1, !.outer = call[c].outer]]
    BY <1>4, <1>5 DEF CallState
  <2>2. call[c].busy + 1 \in 0..MaxBusy /\ call[c].outer \in 0..MaxOuter
    BY <1>4, <1>5 DEF CallState
  <2>. QED  BY <1>3, <2>1, <2>2
<1>6. CASE call' = [call EXCEPT ![c].phase = "PRIOR", ![c].busy = 0, ![c].outer = @ + 1]
           /\ call[c].outer < MaxOuter
  <2>1. call' = [call EXCEPT ![c] = [call[c] EXCEPT !.phase = "PRIOR",
                             !.busy = 0, !.outer = call[c].outer + 1]]
    BY <1>6
  <2>2. 0 \in 0..MaxBusy /\ call[c].outer + 1 \in 0..MaxOuter
    BY <1>4, <1>6 DEF CallState
  <2>. QED  BY <1>3, <2>1, <2>2
<1>. QED  BY <1>1, <1>2, <1>5, <1>6 DEF Retried

LEMMA BeginKeeps ==
  ASSUME IntakeInv, NEW c \in Call, Begin(c)
  PROVE  IntakeInv'
<1>1. call[c].phase = "BEGIN" /\ UNCHANGED <<form, orders, reserved, deleted>>
      /\ lock = NoCall
  BY DEF Begin
<1>2. ASSUME NEW o \in Under(KeyOf(c)), call' = Answer(c, Replay(c, o)), UNCHANGED lock
      PROVE  IntakeInv'
  <2>1. o \in orders /\ o \in Order
    BY FoundOrder
  <2>2. Replay(c, o) \in Answers /\ Replay(c, o).order \in {o, NoOrder}
    BY <2>1, ReplayShape
  <2>. QED  BY <1>1, <1>2, <2>1, <2>2, AnswerPreserves, QuietStep
<1>3. CASE UNCHANGED lock /\ call' = Answer(c, Other("REFUSED"))
  BY <1>1, <1>3, AnswerShape, AnswerPreserves, QuietStep
<1>4. CASE Under(KeyOf(c)) = {} /\ lock' = c /\ call' = Move(c, "TX")
  <2>1. /\ call' \in [Call -> CallState] /\ CallsCarry' /\ AnswersKept'
        /\ \A d \in Call : call'[d].phase = IF d = c THEN "TX" ELSE call[d].phase
        /\ \A d \in Call : call'[d].order = call[d].order
    BY <1>1, <1>4, MovePreserves
  <2>2. TypeOK'
    BY <1>1, <1>4, <2>1 DEF IntakeInv, TypeOK, CallState, Answers
  <2>3. LockHolds'
    BY <1>1, <1>4, <2>1 DEF IntakeInv, LockHolds, Under, KeyOf
  <2>4. ReceiptKept' /\ OneOrderPerKey'
    BY <1>1 DEF IntakeInv, ReceiptKept, OneOrderPerKey
  <2>. QED  BY <2>1, <2>2, <2>3, <2>4 DEF IntakeInv
<1>. QED  BY <1>2, <1>3, <1>4 DEF Begin

\* The transaction ends, and its call moves on: with what it wrote in the
\* table, or without.
LEMMA TransactionEnds ==
  ASSUME IntakeInv, NEW c \in Call, call[c].phase = "TX",
         Write(c) \/ UNCHANGED <<orders, reserved>>,
         lock' = NoCall, UNCHANGED <<form, deleted>>,
         call' \in [Call -> CallState], CallsCarry', AnswersKept',
         call'[c].phase # "TX",
         \A d \in Call \ {c} : call'[d].phase = call[d].phase
  PROVE  IntakeInv'
<1>1. lock = c /\ Under(KeyOf(c)) = {} /\ call[c].order \in Order
  BY DEF IntakeInv, LockHolds, CallsCarry
<1>2. TypeOK'
  BY <1>1, OrderShape DEF IntakeInv, TypeOK, CallState, Answers, Write
<1>3. LockHolds'
  BY <1>1 DEF IntakeInv, LockHolds
<1>4. OneOrderPerKey'
  BY <1>1 DEF IntakeInv, OneOrderPerKey, Write, Under, KeyOf
<1>5. ReceiptKept'
  BY DEF IntakeInv, ReceiptKept, Write
<1>. QED  BY <1>2, <1>3, <1>4, <1>5 DEF IntakeInv

LEMMA CommitKeeps ==
  ASSUME IntakeInv, NEW c \in Call, Commit(c)
  PROVE  IntakeInv'
<1>1. call[c].order \in Order /\ call[c].order \in orders' /\ orders \subseteq orders'
  BY DEF Commit, Write, IntakeInv, CallsCarry
<1>2. /\ call' \in [Call -> CallState] /\ CallsCarry' /\ AnswersKept'
      /\ \A d \in Call : call'[d].phase = IF d = c THEN "ANSWERED" ELSE call[d].phase
  BY <1>1, AnswerShape, AnswerPreserves DEF Commit
<1>. QED  BY <1>2, TransactionEnds DEF Commit

LEMMA TransactionFailsKeeps ==
  ASSUME IntakeInv, NEW c \in Call, TransactionFails(c)
  PROVE  IntakeInv'
<1>1. orders \subseteq orders'
  BY DEF TransactionFails, Write
<1>. QED  BY <1>1, FailedPreserves, TransactionEnds DEF TransactionFails

LEMMA CrashKeeps ==
  ASSUME IntakeInv, Crash
  PROVE  IntakeInv'
<1>1. call \in [Call -> CallState]
  BY DEF IntakeInv, TypeOK, CallState, Answers
<1>2. \A d \in Call : /\ call'[d] \in CallState /\ call'[d].order = call[d].order
                      /\ call'[d].answer = call[d].answer
                      /\ call'[d].phase # "TX"
                      /\ call'[d].phase # "IDLE" => call[d].phase # "IDLE"
  BY <1>1 DEF Crash, CallState
<1>3. call' \in [Call -> CallState]
  BY <1>1, <1>2 DEF Crash
<1>4. orders' \subseteq Order /\ reserved' \in Int /\ orders \subseteq orders' /\ OneOrderPerKey'
  <2>1. CASE UNCHANGED <<orders, reserved>>
    BY <2>1 DEF IntakeInv, TypeOK, OneOrderPerKey
  <2>2. CASE lock # NoCall /\ Write(lock)
    <3>1. lock \in Call /\ call[lock].order \in Order /\ Under(KeyOf(lock)) = {}
      BY <2>2 DEF IntakeInv, TypeOK, LockHolds, CallsCarry
    <3>. QED  BY <2>2, <3>1, OrderShape
              DEF IntakeInv, TypeOK, OneOrderPerKey, Write, Under, KeyOf
  <2>. QED  BY <2>1, <2>2 DEF Crash
<1>5. TypeOK'
  BY <1>3, <1>4 DEF Crash, IntakeInv, TypeOK, CallState, Answers
<1>6. LockHolds' /\ CallsCarry'
  BY <1>2 DEF Crash, IntakeInv, LockHolds, CallsCarry, Order, Once!Order
<1>7. AnswersKept' /\ ReceiptKept'
  BY <1>2, <1>4 DEF Crash, IntakeInv, AnswersKept, ReceiptKept
<1>. QED  BY <1>4, <1>5, <1>6, <1>7 DEF IntakeInv

LEMMA DeleteOrderKeeps ==
  ASSUME IntakeInv, NEW o \in orders, DeleteOrder(o)
  PROVE  IntakeInv'
<1>1. o \in Order
  BY DEF IntakeInv, TypeOK
<1>2. TypeOK'
  BY <1>1, OrderShape DEF DeleteOrder, IntakeInv, TypeOK
<1>3. LockHolds' /\ CallsCarry'
  BY DEF DeleteOrder, IntakeInv, LockHolds, CallsCarry, Order, Once!Order
<1>4. AnswersKept' /\ ReceiptKept' /\ OneOrderPerKey'
  BY DEF DeleteOrder, IntakeInv, AnswersKept, ReceiptKept, OneOrderPerKey
<1>. QED  BY <1>2, <1>3, <1>4 DEF IntakeInv

LEMMA FormStepKeeps ==
  ASSUME IntakeInv, NEW k \in Key, FormStep(k)
  PROVE  IntakeInv'
<1>2. ASSUME NEW c \in Call, NEW p \in Payload, Submit(k, c, p)
      PROVE  IntakeInv'
  <2> DEFINE asked == [id |-> c, key |-> k, payload |-> p]
             s == [call[c] EXCEPT !.phase = "PRIOR", !.order = asked]
  <2>1. call \in [Call -> CallState]
    BY DEF IntakeInv, TypeOK, CallState, Answers
  <2>2. asked \in Order
    BY OrderShape DEF IntakeInv, TypeOK
  <2> HIDE DEF asked
  <2>3. s \in CallState /\ s.phase = "PRIOR" /\ s.order \in Order
        /\ s.answer = call[c].answer
    BY <2>1, <2>2 DEF CallState
  <2>4. call' = [call EXCEPT ![c] = s]
    BY <1>2 DEF Submit, asked
  <2>5. s.answer.order # NoOrder => s.answer.order \in orders' \cup deleted'
    BY <1>2, <2>3 DEF Submit, IntakeInv, AnswersKept
  <2> HIDE DEF s
  <2>6. call' \in [Call -> CallState] /\ CallsCarry' /\ AnswersKept'
    BY <1>2, <2>3, <2>4, <2>5, OneCallMoves DEF Submit
  <2>7. \A d \in Call : call'[d] = IF d = c THEN s ELSE call[d]
    BY <2>1, <2>4
  <2>8. TypeOK'
    <3> DEFINE f == [form[k] EXCEPT !.sent = p, !.waiting = c]
    <3>3. form \in [Key -> FormState]
      BY DEF IntakeInv, TypeOK, FormState
    <3>4. f \in FormState
      BY <3>3 DEF FormState
    <3>5. form' = [form EXCEPT ![k] = f]
      BY <1>2, <3>3 DEF Submit, FormState
    <3> HIDE DEF f
    <3>6. form' \in [Key -> FormState]
      BY <3>3, <3>4, <3>5
    <3>1. form' \in [Key -> [sent : Payload, waiting : Call \cup {NoCall},
                              receipt : Order \cup {NoOrder}]]
      BY <3>6 DEF FormState
    <3>2. UNCHANGED <<lock, orders, reserved, deleted>>
      BY <1>2 DEF Submit
    <3>. QED  BY <2>6, <3>1, <3>2 DEF IntakeInv, TypeOK, CallState, Answers
  <2>9. LockHolds'
    BY <1>2, <2>3, <2>7 DEF Submit, IntakeInv, TypeOK, LockHolds, Under, KeyOf
  <2>10. ReceiptKept' /\ OneOrderPerKey'
    BY <1>2 DEF Submit, IntakeInv, TypeOK, ReceiptKept, OneOrderPerKey
  <2>. QED  BY <2>6, <2>8, <2>9, <2>10 DEF IntakeInv
<1>3. CASE Receive(k)
  <2> DEFINE shown == call[form[k].waiting].answer.order
             f == [form[k] EXCEPT !.waiting = NoCall, !.receipt = shown]
  <2>1. form[k].waiting \in Call
    BY <1>3 DEF Receive, IntakeInv, TypeOK
  <2>2. shown \in Order \cup {NoOrder}
    <3>1. call \in [Call -> CallState]
      BY DEF IntakeInv, TypeOK, CallState, Answers
    <3>2. call[form[k].waiting].answer \in Answers
      BY <2>1, <3>1 DEF CallState
    <3>. QED  BY <3>2, AnswerShape
  <2>3. form' = [form EXCEPT ![k] = f]
    BY <1>3 DEF Receive
  <2>4. shown # NoOrder => shown \in orders \cup deleted
    BY <2>1 DEF IntakeInv, AnswersKept
  <2> HIDE DEF shown
  <2>5. /\ f \in [sent : Payload, waiting : Call \cup {NoCall},
                  receipt : Order \cup {NoOrder}]
        /\ f.receipt = shown
    BY <2>2 DEF IntakeInv, TypeOK
  <2> HIDE DEF f
  <2>6. TypeOK'
    <3>1. form' \in [Key -> [sent : Payload, waiting : Call \cup {NoCall},
                              receipt : Order \cup {NoOrder}]]
      BY <2>3, <2>5 DEF IntakeInv, TypeOK
    <3>. QED  BY <1>3, <3>1 DEF Receive, IntakeInv, TypeOK
  <2>7. LockHolds' /\ CallsCarry' /\ AnswersKept' /\ OneOrderPerKey'
    BY <1>3 DEF Receive, IntakeInv, LockHolds, CallsCarry, AnswersKept, OneOrderPerKey, Under,
                KeyOf, Order, Once!Order
  <2>8. ReceiptKept'
    BY <1>3, <2>3, <2>4, <2>5 DEF Receive, IntakeInv, TypeOK, ReceiptKept
  <2>. QED  BY <2>6, <2>7, <2>8 DEF IntakeInv
<1>4. CASE LoseResponse(k)
  <2>1. TypeOK'
    BY <1>4 DEF LoseResponse, IntakeInv, TypeOK
  <2>2. LockHolds' /\ CallsCarry' /\ AnswersKept' /\ OneOrderPerKey'
    BY <1>4 DEF LoseResponse, IntakeInv, LockHolds, CallsCarry, AnswersKept, OneOrderPerKey,
                Under, KeyOf, Order, Once!Order
  <2>3. ReceiptKept'
    BY <1>4 DEF LoseResponse, IntakeInv, TypeOK, ReceiptKept
  <2>. QED  BY <2>1, <2>2, <2>3 DEF IntakeInv
<1>. QED  BY <1>2, <1>3, <1>4 DEF FormStep

-----------------------------------------------------------------------------
LEMMA ServerStepKeeps ==
  ASSUME IntakeInv, NEW c \in Call, ServerStep(c)
  PROVE  IntakeInv'
BY ReadPriorKeeps, BeginKeeps, BusyKeeps, CommitKeeps, StatementFailsKeeps,
   TransactionFailsKeeps, ReadFallbackKeeps DEF ServerStep

LEMMA StutterKeeps ==
  ASSUME IntakeInv, UNCHANGED vars
  PROVE  IntakeInv'
BY DEF vars, IntakeInv, TypeOK, LockHolds, CallsCarry, AnswersKept, ReceiptKept, OneOrderPerKey,
       Under, KeyOf, Order, Once!Order

LEMMA InitIntake == Init => IntakeInv
<1> SUFFICES ASSUME Init PROVE IntakeInv
  OBVIOUS
<1>1. \A c \in Call : call[c] = Idle
  BY DEF Init
<1>2. Idle \in CallState /\ Idle.phase = "IDLE" /\ Idle.answer.order = NoOrder
  BY AnswerShape DEF Idle, CallState, Other, Once!Other
<1>3. TypeOK
  BY <1>2 DEF Init, NewForm, TypeOK, CallState, Answers
<1>4. LockHolds /\ CallsCarry /\ AnswersKept
  BY <1>1, <1>2 DEF Init, LockHolds, CallsCarry, AnswersKept
<1>5. ReceiptKept /\ OneOrderPerKey
  BY DEF Init, NewForm, ReceiptKept, OneOrderPerKey
<1>. QED  BY <1>3, <1>4, <1>5 DEF IntakeInv

\* The inductive invariant holds whatever the database does and however often
\* forms submit (intakeOrderCore, submitOrder).
THEOREM IntakeInvariant == Spec => []IntakeInv
<1>1. Init => IntakeInv
  BY InitIntake
<1>2. IntakeInv /\ [Next]_vars => IntakeInv'
  BY ServerStepKeeps, CrashKeeps, DeleteOrderKeeps, FormStepKeeps, StutterKeeps DEF Next
<1>. QED  BY <1>1, <1>2, PTL DEF Spec

\* Every variable keeps its type.
THEOREM IntakeTypeCorrect == Spec => []TypeOK
BY IntakeInvariant, PTL DEF IntakeInv

\* intakeOrderCore creates one order per key, although it reads before its
\* transaction, retries, fails and is called again.
THEOREM OneOrder == Spec => []OneOrderPerKey
BY IntakeInvariant, PTL DEF IntakeInv

\* A receipt the browser shows is for an order that was committed.
THEOREM ReceiptsKept == Spec => []ReceiptKept
BY IntakeInvariant, PTL DEF IntakeInv
-----------------------------------------------------------------------------
(* Without the fallback of submitOrder, receipts match and the abstract      *)
(* specification is implemented.                                             *)

\* No call ever reaches the fallback: no key is public, or nothing fails.
NoFallback == Public = {} \/ ~Faults

\* A call is told nothing before it is answered, and then about an order with
\* its own key and content.
ToldRight ==
  \A c \in Call :
    /\ call[c].phase # "FALLBACK"
    /\ call[c].phase # "ANSWERED" => call[c].answer = Other("NONE")
    /\ call[c].answer.order # NoOrder =>
         /\ call[c].answer.order.key = call[c].order.key
         /\ call[c].answer.order.payload = call[c].order.payload

\* The content of a form does not change while it waits for a call.
WaitsFor ==
  \A k \in Key : form[k].waiting # NoCall =>
    LET c == form[k].waiting IN
      /\ call[c].phase # "IDLE"
      /\ call[c].order.key = k /\ call[c].order.payload = form[k].sent

MatchInv == IntakeInv /\ ToldRight /\ WaitsFor /\ ReceiptMatches

\* A replay is right about key and content.
LEMMA ReplayRight ==
  ASSUME IntakeInv, NEW c \in Call, call[c].phase # "IDLE", NEW o \in Under(KeyOf(c)),
         Replay(c, o).order # NoOrder
  PROVE  /\ Replay(c, o).order.key = call[c].order.key
         /\ Replay(c, o).order.payload = call[c].order.payload
<1>1. o \in Order /\ o.key = call[c].order.key
  BY FoundOrder DEF KeyOf
<1>2. CASE o.payload = call[c].order.payload
  BY <1>1, <1>2, AnswerShape DEF Replay
<1>3. CASE o.payload # call[c].order.payload
  BY <1>3, AnswerShape DEF Replay
<1>. QED  BY <1>2, <1>3

\* How a call moves, field by field.
LEMMA MoveFields ==
  ASSUME IntakeInv, NEW c \in Call, NEW phase \in Phase, call' = Move(c, phase)
  PROVE  \A d \in Call :
           /\ call'[d].phase = IF d = c THEN phase ELSE call[d].phase
           /\ call'[d].order = call[d].order /\ call'[d].answer = call[d].answer
<1>1. call \in [Call -> CallState]
  BY DEF IntakeInv, TypeOK, CallState, Answers
<1>. QED  BY <1>1 DEF Move, CallState

LEMMA AnswerFields ==
  ASSUME IntakeInv, NEW c \in Call, NEW a, call' = Answer(c, a)
  PROVE  \A d \in Call :
           /\ call'[d].phase = IF d = c THEN "ANSWERED" ELSE call[d].phase
           /\ call'[d].order = call[d].order
           /\ call'[d].answer = IF d = c THEN a ELSE call[d].answer
<1>1. call \in [Call -> CallState]
  BY DEF IntakeInv, TypeOK, CallState, Answers
<1>2. \A d \in Call : call'[d] = IF d = c THEN [call[c] EXCEPT !.phase = "ANSWERED", !.answer = a]
                                 ELSE call[d]
  BY <1>1 DEF Answer
<1> DEFINE s == [call[c] EXCEPT !.phase = "ANSWERED", !.answer = a]
<1>3. s.phase = "ANSWERED" /\ s.order = call[c].order /\ s.answer = a
  BY <1>1 DEF CallState
<1>4. \A d \in Call : call'[d] = IF d = c THEN s ELSE call[d]
  BY <1>2
<1> HIDE DEF s
<1>. QED  BY <1>3, <1>4

\* A call that moves, or is answered about its own order, stays right.
LEMMA StaysRight ==
  ASSUME MatchInv, NEW c \in Call, call[c].phase \in Running,
         UNCHANGED form,
         \/ \E phase \in Phase \ {"IDLE", "FALLBACK", "ANSWERED"} : call' = Move(c, phase)
         \/ \E a : /\ call' = Answer(c, a)
                   /\ a.order # NoOrder => /\ a.order.key = call[c].order.key
                                           /\ a.order.payload = call[c].order.payload
  PROVE  ToldRight' /\ WaitsFor' /\ ReceiptMatches'
<1>1. IntakeInv
  BY DEF MatchInv
<1>2. ReceiptMatches'
  BY DEF MatchInv, ReceiptMatches
<1>3. ASSUME NEW phase \in Phase \ {"IDLE", "FALLBACK", "ANSWERED"}, call' = Move(c, phase)
      PROVE  ToldRight' /\ WaitsFor'
  <2>1. \A d \in Call :
          /\ call'[d].phase = IF d = c THEN phase ELSE call[d].phase
          /\ call'[d].order = call[d].order /\ call'[d].answer = call[d].answer
    BY <1>1, <1>3, MoveFields
  <2>2. ToldRight'
    BY <2>1 DEF MatchInv, ToldRight, Other, Once!Other
  <2>3. WaitsFor'
    BY <1>1, <2>1 DEF MatchInv, WaitsFor, IntakeInv, TypeOK
  <2>. QED  BY <2>2, <2>3
<1>4. ASSUME NEW a, call' = Answer(c, a),
             a.order # NoOrder => /\ a.order.key = call[c].order.key
                                  /\ a.order.payload = call[c].order.payload
      PROVE  ToldRight' /\ WaitsFor'
  <2>1. \A d \in Call :
          /\ call'[d].phase = IF d = c THEN "ANSWERED" ELSE call[d].phase
          /\ call'[d].order = call[d].order
          /\ call'[d].answer = IF d = c THEN a ELSE call[d].answer
    BY <1>1, <1>4, AnswerFields
  <2>2. ToldRight'
    BY <1>4, <2>1 DEF MatchInv, ToldRight, Other, Once!Other
  <2>3. WaitsFor'
    BY <1>1, <2>1 DEF MatchInv, WaitsFor, IntakeInv, TypeOK
  <2>. QED  BY <2>2, <2>3
<1>. QED  BY <1>2, <1>3, <1>4

\* Each action keeps MatchInv, given that no call reaches the fallback.
LEMMA ServerStepStaysRight ==
  ASSUME NoFallback, MatchInv, NEW c \in Call, ServerStep(c)
  PROVE  ToldRight' /\ WaitsFor' /\ ReceiptMatches'
<1>1. IntakeInv /\ call[c].phase # "FALLBACK"
  BY DEF MatchInv, ToldRight
<1>2. \A kind \in {"REFUSED", "BUSY", "ERROR"} : Other(kind).order = NoOrder
  BY AnswerShape
<1>3. CASE ReadPrior(c)
  <2>1. call[c].phase = "PRIOR" /\ UNCHANGED form
    BY <1>3 DEF ReadPrior
  <2>2. CASE call' = Move(c, "BEGIN")
    BY <2>1, <2>2, StaysRight
  <2>3. CASE \E o \in Under(KeyOf(c)) : call' = Answer(c, Replay(c, o))
    BY <1>1, <2>1, <2>3, ReplayRight, StaysRight
  <2>. QED  BY <1>3, <2>2, <2>3 DEF ReadPrior
<1>4. CASE Begin(c)
  <2>1. call[c].phase = "BEGIN" /\ UNCHANGED form
    BY <1>4 DEF Begin
  <2>2. CASE \E o \in Under(KeyOf(c)) : call' = Answer(c, Replay(c, o))
    BY <1>1, <2>1, <2>2, ReplayRight, StaysRight
  <2>3. CASE call' = Move(c, "TX")
    BY <2>1, <2>3, StaysRight
  <2>4. CASE call' = Answer(c, Other("REFUSED"))
    BY <1>2, <2>1, <2>4, StaysRight
  <2>. QED  BY <1>4, <2>2, <2>3, <2>4 DEF Begin
<1>5. CASE Busy(c)
  <2>1. call[c].phase = "BEGIN" /\ UNCHANGED form /\ call' = Retried(c)
    BY <1>5 DEF Busy
  <2>2. CASE \E kind \in {"ERROR", "BUSY"} : call' = Answer(c, Other(kind))
    BY <1>2, <2>1, <2>2, StaysRight
  <2>3. ASSUME NEW busy, NEW outer,
               call' = [call EXCEPT ![c] = [call[c] EXCEPT !.phase = "PRIOR",
                                            !.busy = busy, !.outer = outer]]
        PROVE  ToldRight' /\ WaitsFor' /\ ReceiptMatches'
    <3>1. call \in [Call -> CallState]
      BY <1>1 DEF IntakeInv, TypeOK, CallState, Answers
    <3>2. \A d \in Call : /\ call'[d].phase = IF d = c THEN "PRIOR" ELSE call[d].phase
                          /\ call'[d].order = call[d].order
                          /\ call'[d].answer = call[d].answer
      BY <2>3, <3>1 DEF CallState
    <3>3. ToldRight'
      BY <2>1, <3>2 DEF MatchInv, ToldRight, Other, Once!Other
    <3>4. WaitsFor' /\ ReceiptMatches'
      BY <1>1, <2>1, <3>2 DEF MatchInv, WaitsFor, ReceiptMatches, IntakeInv, TypeOK
    <3>. QED  BY <3>3, <3>4
  <2>4. call[c] \in CallState
    BY <1>1, <2>1, MovedCall
  <2>5. CASE call' = [call EXCEPT ![c].phase = "PRIOR", ![c].busy = @ + 1]
    <3>1. call' = [call EXCEPT ![c] = [call[c] EXCEPT !.phase = "PRIOR",
                               !.busy = call[c].busy + 1, !.outer = call[c].outer]]
      BY <2>4, <2>5 DEF CallState
    <3>. QED  BY <2>3, <3>1
  <2>6. CASE call' = [call EXCEPT ![c].phase = "PRIOR", ![c].busy = 0, ![c].outer = @ + 1]
    <3>1. call' = [call EXCEPT ![c] = [call[c] EXCEPT !.phase = "PRIOR",
                               !.busy = 0, !.outer = call[c].outer + 1]]
      BY <2>6
    <3>. QED  BY <2>3, <3>1
  <2>. QED  BY <2>1, <2>2, <2>5, <2>6 DEF Retried
<1>6. CASE Commit(c)
  <2>1. call[c].order \in Order
    BY <1>1, <1>6 DEF Commit, IntakeInv, CallsCarry
  <2>2. call[c].phase = "TX" /\ UNCHANGED form /\ call' = Answer(c, Receipt(call[c].order))
        /\ Receipt(call[c].order).order = call[c].order
    BY <1>6, <2>1, AnswerShape DEF Commit
  <2>. QED  BY <2>2, StaysRight
<1>7. CASE StatementFails(c) \/ TransactionFails(c)
  <2>1. Faults /\ call[c].phase \in Running /\ UNCHANGED form /\ call' = Failed(c)
    BY <1>7 DEF StatementFails, TransactionFails
  <2>2. call' = Answer(c, Other("ERROR"))
    BY <2>1 DEF NoFallback, Failed
  <2>. QED  BY <1>2, <2>1, <2>2, StaysRight
<1>. QED  BY <1>1, <1>3, <1>4, <1>5, <1>6, <1>7 DEF ServerStep, ReadFallback

LEMMA FormStepStaysRight ==
  ASSUME MatchInv, NEW k \in Key, FormStep(k)
  PROVE  ToldRight' /\ WaitsFor' /\ ReceiptMatches'
<1>1. form \in [Key -> [sent : Payload, waiting : Call \cup {NoCall},
                        receipt : Order \cup {NoOrder}]]
      /\ call \in [Call -> CallState]
  BY DEF MatchInv, IntakeInv, TypeOK, CallState, Answers
<1>3. ASSUME NEW c \in Call, NEW p \in Payload, Submit(k, c, p)
      PROVE  ToldRight' /\ WaitsFor' /\ ReceiptMatches'
  <2> DEFINE asked == [id |-> c, key |-> k, payload |-> p]
  <2>1. \A d \in Call :
          /\ call'[d].phase = IF d = c THEN "PRIOR" ELSE call[d].phase
          /\ call'[d].order = IF d = c THEN asked ELSE call[d].order
          /\ call'[d].answer = call[d].answer
    BY <1>1, <1>3 DEF Submit, CallState
  <2>2. asked.key = k /\ asked.payload = p
    OBVIOUS
  <2> HIDE DEF asked
  <2>3. call[c].phase = "IDLE" /\ call[c].answer = Other("NONE")
    BY <1>3 DEF Submit, MatchInv, ToldRight
  <2>4. ToldRight'
    BY <2>1, <2>3, AnswerShape DEF MatchInv, ToldRight, Other, Once!Other
  <2>5. \A j \in Key : /\ form'[j].waiting = IF j = k THEN c ELSE form[j].waiting
                       /\ form'[j].sent = IF j = k THEN p ELSE form[j].sent
                       /\ form'[j].receipt = form[j].receipt
    BY <1>1, <1>3 DEF Submit
  <2>6. WaitsFor'
    <3>1. ASSUME NEW j \in Key, form'[j].waiting # NoCall
          PROVE  /\ call'[form'[j].waiting].phase # "IDLE"
                 /\ call'[form'[j].waiting].order.key = j
                 /\ call'[form'[j].waiting].order.payload = form'[j].sent
      <4>1. CASE j = k
        BY <2>1, <2>2, <2>5, <4>1
      <4>2. CASE j # k
        <5>1. form[j].waiting \in Call /\ form[j].waiting # c
          BY <1>1, <2>3, <2>5, <3>1, <4>2 DEF MatchInv, WaitsFor
        <5>. QED  BY <2>1, <2>5, <3>1, <4>2, <5>1 DEF MatchInv, WaitsFor
      <4>. QED  BY <4>1, <4>2
    <3>. QED  BY <3>1 DEF WaitsFor
  <2>7. ReceiptMatches'
    <3>1. form[k].receipt = NoOrder
      BY <1>3 DEF Submit, CanSubmit
    <3>. QED  BY <2>5, <3>1 DEF MatchInv, ReceiptMatches
  <2>. QED  BY <2>4, <2>6, <2>7
<1>4. CASE Receive(k)
  <2> DEFINE shown == call[form[k].waiting].answer.order
  <2>1. \A j \in Key : /\ form'[j].waiting = IF j = k THEN NoCall ELSE form[j].waiting
                       /\ form'[j].sent = form[j].sent
                       /\ form'[j].receipt = IF j = k THEN shown ELSE form[j].receipt
    BY <1>1, <1>4 DEF Receive
  <2>2. form[k].waiting \in Call
    BY <1>1, <1>4 DEF Receive
  <2>3. shown # NoOrder => shown.key = k /\ shown.payload = form[k].sent
    BY <2>2 DEF MatchInv, ToldRight, WaitsFor
  <2> HIDE DEF shown
  <2>4. ToldRight'
    BY <1>4 DEF Receive, MatchInv, ToldRight, Other, Once!Other
  <2>5. WaitsFor' /\ ReceiptMatches'
    <3>1. UNCHANGED call
      BY <1>4 DEF Receive
    <3>2. WaitsFor'
      BY <2>1, <3>1 DEF MatchInv, WaitsFor
    <3>3. ReceiptMatches'
      BY <2>1, <2>3 DEF MatchInv, ReceiptMatches
    <3>. QED  BY <3>2, <3>3
  <2>. QED  BY <2>4, <2>5
<1>5. CASE LoseResponse(k)
  <2>1. ToldRight'
    BY <1>5 DEF LoseResponse, MatchInv, ToldRight, Other, Once!Other
  <2>2. WaitsFor' /\ ReceiptMatches'
    BY <1>1, <1>5 DEF LoseResponse, MatchInv, WaitsFor, ReceiptMatches
  <2>. QED  BY <2>1, <2>2
<1>. QED  BY <1>3, <1>4, <1>5 DEF FormStep

LEMMA OthersStayRight ==
  ASSUME MatchInv, Crash \/ (\E o \in orders : DeleteOrder(o)) \/ UNCHANGED vars
  PROVE  ToldRight' /\ WaitsFor' /\ ReceiptMatches'
<1>1. call \in [Call -> CallState]
  BY DEF MatchInv, IntakeInv, TypeOK, CallState, Answers
<1>2. CASE Crash
  <2>1. \A d \in Call : /\ call'[d].order = call[d].order /\ call'[d].answer = call[d].answer
                        /\ call'[d].phase = IF call[d].phase \in Running THEN "LOST"
                                            ELSE call[d].phase
    BY <1>1, <1>2 DEF Crash, CallState
  <2>2. ToldRight'
    BY <2>1 DEF MatchInv, ToldRight, Other, Once!Other
  <2>3. WaitsFor' /\ ReceiptMatches'
    BY <1>2, <2>1 DEF Crash, MatchInv, WaitsFor, ReceiptMatches, IntakeInv, TypeOK
  <2>. QED  BY <2>2, <2>3
<1>3. CASE (\E o \in orders : DeleteOrder(o)) \/ UNCHANGED vars
  <2>1. UNCHANGED <<form, call>>
    BY <1>3 DEF DeleteOrder, vars
  <2>. QED  BY <2>1 DEF MatchInv, ToldRight, WaitsFor, ReceiptMatches, Other, Once!Other
<1>. QED  BY <1>2, <1>3

LEMMA MatchStep ==
  ASSUME NoFallback
  PROVE  MatchInv /\ [Next]_vars => MatchInv'
<1> SUFFICES ASSUME MatchInv, [Next]_vars PROVE MatchInv'
  OBVIOUS
<1>1. IntakeInv'
  BY ServerStepKeeps, CrashKeeps, DeleteOrderKeeps, FormStepKeeps, StutterKeeps
     DEF MatchInv, Next
<1>2. ToldRight' /\ WaitsFor' /\ ReceiptMatches'
  BY ServerStepStaysRight, FormStepStaysRight, OthersStayRight DEF Next
<1>. QED  BY <1>1, <1>2 DEF MatchInv

LEMMA InitMatch == Init => MatchInv
<1> SUFFICES ASSUME Init PROVE MatchInv
  OBVIOUS
<1>1. \A c \in Call : call[c].phase = "IDLE" /\ call[c].answer = Other("NONE")
  BY DEF Init, Idle
<1>2. ToldRight
  BY <1>1, AnswerShape DEF ToldRight
<1>3. WaitsFor /\ ReceiptMatches
  BY DEF Init, NewForm, WaitsFor, ReceiptMatches
<1>. QED  BY <1>2, <1>3, InitIntake DEF MatchInv

\* Where submitOrder never falls back, because the database raises no other
\* error than busy or no form is public, a receipt is for what its form says.
THEOREM ReceiptsMatch ==
  ASSUME NoFallback
  PROVE  Spec => []ReceiptMatches
<1>1. Spec => []MatchInv
  BY InitMatch, MatchStep, PTL DEF Spec
<1>. QED  BY <1>1, PTL DEF MatchInv
-----------------------------------------------------------------------------
(* Every step is a step of OnceOnlyOrders, or nothing to it.                 *)

OnceVars == <<Asked, orders, Told>>

LEMMA MoveMaps ==
  ASSUME IntakeInv, NEW c \in Call, call[c].phase # "IDLE",
         NEW phase \in Phase \ {"IDLE"}, call' = Move(c, phase)
  PROVE  UNCHANGED <<Asked, Told>>
<1>1. \A d \in Call :
        /\ call'[d].phase = IF d = c THEN phase ELSE call[d].phase
        /\ call'[d].order = call[d].order /\ call'[d].answer = call[d].answer
  BY MoveFields
<1>. QED  BY <1>1 DEF Asked, Told

LEMMA AnswerMaps ==
  ASSUME IntakeInv, NEW c \in Call, call[c].phase # "IDLE", NEW a, call' = Answer(c, a)
  PROVE  UNCHANGED Asked /\ Told' = [Told EXCEPT ![c] = a]
<1>1. \A d \in Call :
        /\ call'[d].phase = IF d = c THEN "ANSWERED" ELSE call[d].phase
        /\ call'[d].order = call[d].order
        /\ call'[d].answer = IF d = c THEN a ELSE call[d].answer
  BY AnswerFields
<1>. QED  BY <1>1 DEF Asked, Told

LEMMA RunningWaits ==
  ASSUME MatchInv, NEW c \in Call, call[c].phase \in Running
  PROVE  Once!Waiting(c) /\ Asked[c] = call[c].order /\ Asked[c] \in Order
<1>1. Asked[c] = call[c].order /\ Told[c] = call[c].answer
  BY DEF Asked, Told
<1>2. call[c].order \in Order /\ call[c].answer = Other("NONE")
  BY DEF MatchInv, IntakeInv, CallsCarry, ToldRight
<1>. QED  BY <1>1, <1>2, OrderShape DEF Once!Waiting, Once!NoAnswer, Other, Once!Other

LEMMA RepeatMaps ==
  ASSUME MatchInv, NEW c \in Call, call[c].phase \in Running, UNCHANGED orders,
         NEW o \in Under(KeyOf(c)), call' = Answer(c, Replay(c, o))
  PROVE  Once!Repeat(c)
<1>1. IntakeInv
  BY DEF MatchInv
<1>2. Once!Waiting(c) /\ Asked[c] = call[c].order
  BY RunningWaits
<1>3. UNCHANGED Asked /\ Told' = [Told EXCEPT ![c] = Replay(c, o)]
  BY <1>1, AnswerMaps
<1>4. o \in Once!Under(Asked[c].key)
  BY <1>2 DEF Under, KeyOf, Once!Under
<1>5. Replay(c, o) = IF o.payload = Asked[c].payload THEN Once!Receipt(o)
                     ELSE Once!Other("CONFLICT")
  BY <1>2 DEF Replay, Receipt, Other
<1>. QED  BY <1>2, <1>3, <1>4, <1>5 DEF Once!Repeat

LEMMA DeclineMaps ==
  ASSUME MatchInv, NEW c \in Call, call[c].phase \in Running, UNCHANGED orders,
         NEW kind \in {"REFUSED", "BUSY", "ERROR"}, call' = Answer(c, Other(kind))
  PROVE  Once!Decline(c)
<1>1. IntakeInv
  BY DEF MatchInv
<1>2. Once!Waiting(c)
  BY RunningWaits
<1>3. UNCHANGED Asked /\ Told' = [Told EXCEPT ![c] = Other(kind)]
  BY <1>1, AnswerMaps
<1>4. Other(kind) \in Once!Declined
  BY DEF Other, Once!Declined
<1>. QED  BY <1>2, <1>3, <1>4 DEF Once!Decline

\* The commit of c, told to the caller or not.
LEMMA AcceptMaps ==
  ASSUME MatchInv, NEW c \in Call, call[c].phase = "TX", Write(c), UNCHANGED Asked,
         NEW a \in {Receipt(call[c].order), Other("NONE"), Other("ERROR")},
         Told' = [Told EXCEPT ![c] = a]
  PROVE  Once!Accept(c)
<1>1. Once!Waiting(c) /\ Asked[c] = call[c].order
  BY RunningWaits
<1>2. Once!Under(Asked[c].key) = {}
  BY <1>1 DEF MatchInv, IntakeInv, LockHolds, Under, KeyOf, Once!Under
<1>3. a \in {Once!Receipt(Asked[c]), Once!NoAnswer, Once!Other("ERROR")}
  BY <1>1 DEF Receipt, Other, Once!NoAnswer
<1>. QED  BY <1>1, <1>2, <1>3 DEF Once!Accept, Write

LEMMA RetriedMaps ==
  ASSUME MatchInv, NEW c \in Call, Busy(c)
  PROVE  Once!Next \/ UNCHANGED OnceVars
<1>1. IntakeInv /\ call[c].phase = "BEGIN" /\ UNCHANGED orders /\ call' = Retried(c)
  BY DEF Busy, MatchInv
<1>2. CASE \E kind \in {"ERROR", "BUSY"} : call' = Answer(c, Other(kind))
  BY <1>1, <1>2, DeclineMaps DEF Once!Next
<1>3. call \in [Call -> CallState]
  BY <1>1 DEF IntakeInv, TypeOK, CallState, Answers
<1>4. CASE \/ call' = [call EXCEPT ![c].phase = "PRIOR", ![c].busy = @ + 1]
           \/ call' = [call EXCEPT ![c].phase = "PRIOR", ![c].busy = 0, ![c].outer = @ + 1]
  <2>1. \A d \in Call : /\ call'[d].phase = IF d = c THEN "PRIOR" ELSE call[d].phase
                        /\ call'[d].order = call[d].order
                        /\ call'[d].answer = call[d].answer
    BY <1>3, <1>4 DEF CallState
  <2>2. UNCHANGED <<Asked, Told>>
    BY <1>1, <2>1 DEF Asked, Told
  <2>. QED  BY <1>1, <2>2 DEF OnceVars
<1>. QED  BY <1>1, <1>2, <1>4 DEF Retried

LEMMA ServerStepMaps ==
  ASSUME NoFallback, MatchInv, NEW c \in Call, ServerStep(c)
  PROVE  Once!Next \/ UNCHANGED OnceVars
<1>1. IntakeInv /\ call[c].phase # "FALLBACK"
  BY DEF MatchInv, ToldRight
<1>2. CASE ReadPrior(c)
  <2>1. call[c].phase = "PRIOR" /\ UNCHANGED orders
    BY <1>2 DEF ReadPrior
  <2>2. CASE call' = Move(c, "BEGIN")
    BY <1>1, <2>1, <2>2, MoveMaps DEF OnceVars
  <2>3. CASE \E o \in Under(KeyOf(c)) : call' = Answer(c, Replay(c, o))
    BY <2>1, <2>3, RepeatMaps DEF Once!Next
  <2>. QED  BY <1>2, <2>2, <2>3 DEF ReadPrior
<1>3. CASE Begin(c)
  <2>1. call[c].phase = "BEGIN" /\ UNCHANGED orders
    BY <1>3 DEF Begin
  <2>2. CASE \E o \in Under(KeyOf(c)) : call' = Answer(c, Replay(c, o))
    BY <2>1, <2>2, RepeatMaps DEF Once!Next
  <2>3. CASE call' = Move(c, "TX")
    BY <1>1, <2>1, <2>3, MoveMaps DEF OnceVars
  <2>4. CASE call' = Answer(c, Other("REFUSED"))
    BY <2>1, <2>4, DeclineMaps DEF Once!Next
  <2>. QED  BY <1>3, <2>2, <2>3, <2>4 DEF Begin
<1>4. CASE Commit(c)
  <2>1. call[c].phase = "TX" /\ Write(c) /\ call' = Answer(c, Receipt(call[c].order))
    BY <1>4 DEF Commit
  <2>2. UNCHANGED Asked /\ Told' = [Told EXCEPT ![c] = Receipt(call[c].order)]
    BY <1>1, <2>1, AnswerMaps
  <2>3. Once!Accept(c)
    BY <2>1, <2>2, AcceptMaps
  <2>. QED  BY <2>3 DEF Once!Next
<1>5. CASE StatementFails(c) \/ TransactionFails(c)
  <2>1. /\ Faults /\ call[c].phase \in Running /\ call' = Failed(c)
        /\ UNCHANGED orders \/ (call[c].phase = "TX" /\ Write(c))
    BY <1>5 DEF StatementFails, TransactionFails
  <2>2. call' = Answer(c, Other("ERROR"))
    BY <2>1 DEF NoFallback, Failed
  <2>3. CASE UNCHANGED orders
    BY <2>1, <2>2, <2>3, DeclineMaps DEF Once!Next
  <2>4. CASE call[c].phase = "TX" /\ Write(c)
    <3>1. UNCHANGED Asked /\ Told' = [Told EXCEPT ![c] = Other("ERROR")]
      BY <1>1, <2>1, <2>2, AnswerMaps
    <3>2. Once!Accept(c)
      BY <2>4, <3>1, AcceptMaps
    <3>. QED  BY <3>2 DEF Once!Next
  <2>. QED  BY <2>1, <2>3, <2>4
<1>. QED  BY <1>1, <1>2, <1>3, RetriedMaps, <1>4, <1>5 DEF ServerStep, ReadFallback

LEMMA CrashMaps ==
  ASSUME MatchInv, Crash
  PROVE  Once!Next \/ UNCHANGED OnceVars
<1>1. call \in [Call -> CallState]
  BY DEF MatchInv, IntakeInv, TypeOK, CallState, Answers
<1>2. \A d \in Call : /\ call'[d].order = call[d].order /\ call'[d].answer = call[d].answer
                      /\ call'[d].phase = "IDLE" <=> call[d].phase = "IDLE"
  BY <1>1 DEF Crash, CallState
<1>3. UNCHANGED <<Asked, Told>>
  BY <1>2 DEF Asked, Told
<1>4. CASE UNCHANGED orders
  BY <1>3, <1>4 DEF OnceVars
<1>5. CASE lock # NoCall /\ Write(lock)
  <2>1. lock \in Call /\ call[lock].phase = "TX" /\ call[lock].answer = Other("NONE")
    BY <1>5 DEF MatchInv, IntakeInv, TypeOK, LockHolds, ToldRight
  <2>2. Told' = [Told EXCEPT ![lock] = Other("NONE")]
    BY <1>3, <2>1 DEF Told
  <2>3. Once!Accept(lock)
    BY <1>3, <1>5, <2>1, <2>2, AcceptMaps
  <2>. QED  BY <2>1, <2>3 DEF Once!Next
<1>. QED  BY <1>4, <1>5 DEF Crash

LEMMA FormStepMaps ==
  ASSUME MatchInv, NEW k \in Key, FormStep(k)
  PROVE  Once!Next \/ UNCHANGED OnceVars
<1>1. CASE Receive(k) \/ LoseResponse(k)
  <2>1. UNCHANGED <<call, orders>>
    BY <1>1 DEF Receive, LoseResponse
  <2>. QED  BY <2>1 DEF OnceVars, Asked, Told
<1>2. ASSUME NEW c \in Call, NEW p \in Payload, Submit(k, c, p)
      PROVE  Once!Next
  <2> DEFINE wanted == [id |-> c, key |-> k, payload |-> p]
  <2>1. call \in [Call -> CallState]
    BY DEF MatchInv, IntakeInv, TypeOK, CallState, Answers
  <2>2. \A d \in Call :
          /\ call'[d].phase = IF d = c THEN "PRIOR" ELSE call[d].phase
          /\ call'[d].order = IF d = c THEN wanted ELSE call[d].order
          /\ call'[d].answer = call[d].answer
    BY <1>2, <2>1 DEF Submit, CallState
  <2>3. call[c].phase = "IDLE" /\ UNCHANGED orders
    BY <1>2 DEF Submit, MatchInv, IntakeInv, TypeOK
  <2> HIDE DEF wanted
  <2>4. Asked[c] = NoOrder /\ Asked' = [Asked EXCEPT ![c] = wanted] /\ UNCHANGED Told
    BY <2>2, <2>3 DEF Asked, Told
  <2>5. Once!Ask(c, k, p)
    BY <2>3, <2>4 DEF Once!Ask, wanted
  <2>. QED  BY <2>3, <2>5 DEF Once!Next
<1>. QED  BY <1>1, <1>2 DEF FormStep

LEMMA DeleteMaps ==
  ASSUME NEW o \in orders, DeleteOrder(o)
  PROVE  Once!Next
<1>1. Once!Remove(o)
  BY DEF DeleteOrder, Once!Remove, Asked, Told
<1>. QED  BY <1>1 DEF Once!Next

\* There, intake does for the caller exactly what OnceOnlyOrders promises: the
\* reads outside the transaction, the retries and the crashes do not show.
THEOREM KeepsPromise ==
  ASSUME NoFallback
  PROVE  Spec => KeepsOncePromise
<1>1. Init => Once!Init
  BY DEF Init, Idle, Once!Init, Asked, Told, Other, Once!NoAnswer
<1>2. MatchInv /\ [Next]_vars => [Once!Next]_<<Asked, orders, Told>>
  <2>1. ASSUME UNCHANGED vars
        PROVE  UNCHANGED OnceVars
    BY <2>1 DEF vars, OnceVars, Asked, Told
  <2>. QED  BY <2>1, ServerStepMaps, CrashMaps, FormStepMaps, DeleteMaps DEF Next, OnceVars
<1>3. Spec => []MatchInv
  BY InitMatch, MatchStep, PTL DEF Spec
<1>. QED  BY <1>1, <1>2, <1>3, PTL DEF Spec, KeepsOncePromise, Once!Spec
-----------------------------------------------------------------------------
(* The orders fit what is reserved. *)

LEMMA ClaimsOfOne ==
  ASSUME NEW o, NEW n \in Nat
  PROVE  IsFiniteSet({o} \X (1..n)) /\ Cardinality({o} \X (1..n)) = n
<1>1. IsFiniteSet(1..n) /\ Cardinality(1..n) = n
  BY FS_Interval
<1>2. IsFiniteSet({o}) /\ Cardinality({o}) = 1
  BY FS_Singleton
<1>. QED  BY <1>1, <1>2, FS_Product

LEMMA ClaimsAreFinite ==
  ASSUME NEW S \in SUBSET Order, IsFiniteSet(S)
  PROVE  IsFiniteSet(Claims(S)) /\ ClaimedMl(S) \in Nat
<1>. DEFINE of(o) == {o} \X (1..Ml[o.payload])
            all == {of(o) : o \in S}
            f == [o \in S |-> of(o)]
<1>1. f \in Surjection(S, all)
  BY DEF Surjection
<1>2. IsFiniteSet(all)
  BY <1>1, FS_Surjection
<1>3. \A T \in all : IsFiniteSet(T)
  <2>. SUFFICES ASSUME NEW o \in S PROVE IsFiniteSet(of(o))
    OBVIOUS
  <2>1. Ml[o.payload] \in Nat
    BY OrderShape
  <2>. QED  BY <2>1, ClaimsOfOne
<1>. HIDE DEF all
<1>4. IsFiniteSet(UNION all)
  BY <1>2, <1>3, FS_UNION
<1>. QED  BY <1>4, FS_CardinalityType DEF Claims, ClaimedMl, all

\* An order claims its millilitres beside those of the others.
LEMMA ClaimsAdd ==
  ASSUME NEW S \in SUBSET Order, IsFiniteSet(S), NEW o \in Order, o \notin S
  PROVE  /\ ClaimedMl(S) \in Nat /\ Ml[o.payload] \in Nat
         /\ ClaimedMl(S \cup {o}) = ClaimedMl(S) + Ml[o.payload]
<1>. DEFINE own == {o} \X (1..Ml[o.payload])
<1>1. Ml[o.payload] \in Nat
  BY OrderShape
<1>2. IsFiniteSet(own) /\ Cardinality(own) = Ml[o.payload]
  BY <1>1, ClaimsOfOne
<1>3. IsFiniteSet(Claims(S)) /\ ClaimedMl(S) \in Nat
  BY ClaimsAreFinite
<1>4. Claims(S \cup {o}) = Claims(S) \cup own
  BY DEF Claims
<1>5. Claims(S) \cap own = {}
  BY DEF Claims
<1>6. Cardinality(Claims(S) \cap own) = 0
  BY <1>5, FS_EmptySet
<1>. HIDE DEF own
<1>7. Cardinality(Claims(S) \cup own)
        = Cardinality(Claims(S)) + Cardinality(own) - Cardinality(Claims(S) \cap own)
  BY <1>2, <1>3, FS_Union
<1>8. /\ ClaimedMl(S \cup {o}) = Cardinality(Claims(S) \cup own)
      /\ ClaimedMl(S) = Cardinality(Claims(S))
  BY <1>4 DEF ClaimedMl
<1>. QED  BY <1>1, <1>2, <1>3, <1>6, <1>7, <1>8

\* While a transaction is open its order still fits.
CoveredInv ==
  /\ IsFiniteSet(orders)
  /\ OrdersCovered
  /\ lock # NoCall => reserved + Ml[call[lock].order.payload] <= CapacityMl

\* A step that writes nothing, and leaves what the open transaction asks for.
LEMMA NothingWritten ==
  ASSUME CoveredInv, UNCHANGED <<orders, reserved>>,
         \/ lock' = NoCall
         \/ lock' = lock /\ (lock # NoCall => call'[lock].order = call[lock].order)
  PROVE  CoveredInv'
BY DEF CoveredInv, OrdersCovered, ClaimedMl, Claims

\* The transaction that is open writes, and closes.
LEMMA WrittenFits ==
  ASSUME IntakeInv, CoveredInv, lock # NoCall, Write(lock), lock' = NoCall
  PROVE  CoveredInv'
<1>. DEFINE o == call[lock].order
<1>1. /\ o \in Order /\ o \notin orders /\ orders \in SUBSET Order /\ reserved \in Int
      /\ orders' = orders \cup {o} /\ reserved' = reserved + Ml[o.payload]
  BY DEF IntakeInv, TypeOK, LockHolds, CallsCarry, Under, KeyOf, Write
<1>2. IsFiniteSet(orders) /\ ClaimedMl(orders) <= reserved
      /\ reserved + Ml[o.payload] <= CapacityMl
  BY DEF CoveredInv, OrdersCovered
<1>. HIDE DEF o
<1>3. /\ ClaimedMl(orders) \in Nat /\ Ml[o.payload] \in Nat
      /\ ClaimedMl(orders \cup {o}) = ClaimedMl(orders) + Ml[o.payload]
  BY <1>1, <1>2, ClaimsAdd
<1>4. IsFiniteSet(orders')
  BY <1>1, <1>2, FS_AddElement
<1>5. ClaimedMl(orders)' = ClaimedMl(orders')
  BY DEF ClaimedMl, Claims
<1>. QED  BY <1>1, <1>2, <1>3, <1>4, <1>5 DEF CoveredInv, OrdersCovered

LEMMA RemovedFits ==
  ASSUME IntakeInv, CoveredInv, NEW o \in orders, DeleteOrder(o)
  PROVE  CoveredInv'
<1>1. PICK back \in {0, Ml[o.payload]} : reserved' = reserved - back
  BY DEF DeleteOrder
<1>2. orders' = orders \ {o} /\ lock' = NoCall
  BY DEF DeleteOrder
<1>. DEFINE rest == orders \ {o}
<1>3. /\ o \in Order /\ rest \in SUBSET Order /\ o \notin rest /\ orders = rest \cup {o}
      /\ reserved \in Int /\ IsFiniteSet(orders)
      /\ ClaimedMl(orders) <= reserved /\ reserved <= CapacityMl
  BY DEF IntakeInv, TypeOK, CoveredInv, OrdersCovered
<1>4. IsFiniteSet(rest)
  BY <1>3, FS_RemoveElement
<1>. HIDE DEF rest
<1>5. /\ ClaimedMl(rest) \in Nat /\ Ml[o.payload] \in Nat
      /\ ClaimedMl(orders) = ClaimedMl(rest) + Ml[o.payload]
  BY <1>3, <1>4, ClaimsAdd
<1>6. orders' = rest /\ ClaimedMl(orders)' = ClaimedMl(orders')
  BY <1>2 DEF ClaimedMl, Claims, rest
<1>7. ClaimedMl(rest) <= reserved - back /\ reserved - back <= CapacityMl
  <2>1. CapacityMl \in Int
    OBVIOUS
  <2>2. CASE back = 0
    BY <2>1, <2>2, <1>3, <1>5
  <2>3. CASE back = Ml[o.payload]
    BY <2>1, <2>3, <1>3, <1>5
  <2>. QED  BY <2>2, <2>3, <1>1
<1>8. OrdersCovered'
  BY <1>1, <1>6, <1>7 DEF OrdersCovered
<1>9. IsFiniteSet(orders)'
  BY <1>4, <1>6
<1>. QED  BY <1>2, <1>8, <1>9 DEF CoveredInv

\* Outside its transaction a call asks for what it asked for, whatever it is told.
LEMMA AsksForTheSame ==
  ASSUME IntakeInv, NEW c \in Call,
         ReadPrior(c) \/ Begin(c) \/ Busy(c) \/ StatementFails(c) \/ ReadFallback(c)
  PROVE  \A d \in Call : call'[d].order = call[d].order
<1>1. ASSUME NEW phase \in Phase, call' = Move(c, phase)
      PROVE  \A d \in Call : call'[d].order = call[d].order
  BY <1>1, MoveFields
<1>2. ASSUME NEW a, call' = Answer(c, a)
      PROVE  \A d \in Call : call'[d].order = call[d].order
  BY <1>2, AnswerFields
<1>3. CASE Busy(c)
  <2>1. call \in [Call -> CallState]
    BY DEF IntakeInv, TypeOK, CallState, Answers
  <2>2. CASE call' = [call EXCEPT ![c].phase = "PRIOR", ![c].busy = @ + 1]
    BY <2>1, <2>2 DEF CallState
  <2>3. CASE call' = [call EXCEPT ![c].phase = "PRIOR", ![c].busy = 0, ![c].outer = @ + 1]
    BY <2>1, <2>3 DEF CallState
  <2>. QED  BY <1>2, <1>3, <2>2, <2>3 DEF Busy, Retried
<1>. QED  BY <1>1, <1>2, <1>3 DEF ReadPrior, Begin, StatementFails, Failed, ReadFallback

LEMMA CoveredStep == IntakeInv /\ CoveredInv /\ [Next]_vars => CoveredInv'
<1>. SUFFICES ASSUME IntakeInv, CoveredInv, [Next]_vars PROVE CoveredInv'
  OBVIOUS
<1>0. lock \in Call \cup {NoCall} /\ call \in [Call -> CallState] /\ reserved \in Int
  BY DEF IntakeInv, TypeOK, CallState, Answers
<1>1. CASE UNCHANGED vars
  BY <1>1, NothingWritten DEF vars
<1>2. ASSUME NEW c \in Call, ReadPrior(c) \/ Busy(c) \/ StatementFails(c) \/ ReadFallback(c)
      PROVE  CoveredInv'
  BY <1>0, <1>2, AsksForTheSame, NothingWritten
     DEF ReadPrior, Busy, StatementFails, ReadFallback
<1>3. ASSUME NEW c \in Call, Begin(c) PROVE CoveredInv'
  <2>1. /\ \A d \in Call : call'[d].order = call[d].order
        /\ UNCHANGED <<orders, reserved>>
        /\ lock' = lock \/ (lock' = c /\ Fits(c))
    BY <1>3, AsksForTheSame DEF Begin
  <2>2. CASE lock' = lock
    BY <1>0, <2>1, <2>2, NothingWritten
  <2>3. CASE lock' = c /\ Fits(c)
    <3>1. call[c].order \in Order
      BY <1>3 DEF Begin, IntakeInv, CallsCarry
    <3>2. Ml[call[c].order.payload] \in Nat
      BY <3>1, OrderShape
    <3>3. reserved + Ml[call[c].order.payload] <= CapacityMl
      BY <1>0, <2>3, <3>2 DEF Fits
    <3>4. OrdersCovered' /\ IsFiniteSet(orders)'
      BY <2>1 DEF CoveredInv, OrdersCovered, ClaimedMl, Claims
    <3>5. call'[c].order = call[c].order /\ reserved' = reserved /\ lock' = c
      BY <2>1, <2>3
    <3>. QED  BY <3>3, <3>4, <3>5 DEF CoveredInv
  <2>. QED  BY <2>1, <2>2, <2>3
<1>4. ASSUME NEW c \in Call, Commit(c) \/ TransactionFails(c) PROVE CoveredInv'
  <2>1. lock = c /\ lock # NoCall /\ lock' = NoCall
        /\ (Write(c) \/ UNCHANGED <<orders, reserved>>)
    BY <1>4 DEF Commit, TransactionFails, IntakeInv, LockHolds
  <2>. QED  BY <2>1, WrittenFits, NothingWritten
<1>5. CASE Crash
  <2>1. lock' = NoCall /\ ((lock # NoCall /\ Write(lock)) \/ UNCHANGED <<orders, reserved>>)
    BY <1>5 DEF Crash
  <2>. QED  BY <2>1, WrittenFits, NothingWritten
<1>6. ASSUME NEW o \in orders, DeleteOrder(o) PROVE CoveredInv'
  BY <1>6, RemovedFits
<1>7. ASSUME NEW k \in Key, FormStep(k) PROVE CoveredInv'
  <2>1. UNCHANGED <<lock, orders, reserved>>
    BY <1>7 DEF FormStep, Submit, Receive, LoseResponse
  <2>2. ASSUME NEW c \in Call, NEW p \in Payload, Submit(k, c, p)
        PROVE  lock # NoCall => call'[lock].order = call[lock].order
    <3>1. lock # NoCall => lock # c
      BY <2>2 DEF Submit, IntakeInv, LockHolds
    <3>. QED  BY <1>0, <2>2, <3>1 DEF Submit
  <2>3. CASE Receive(k) \/ LoseResponse(k)
    BY <2>1, <2>3, NothingWritten DEF Receive, LoseResponse
  <2>. QED  BY <1>7, <2>1, <2>2, <2>3, NothingWritten DEF FormStep
<1>. QED  BY <1>1, <1>2, <1>3, <1>4, <1>5, <1>6, <1>7 DEF Next, ServerStep

\* However requests compete for the last capacity, fail, commit unseen or crash,
\* the orders that exist are covered by what is reserved, and that fits the row
\* (the conditional update of intakeOrderCore, order-intake.ts).
THEOREM CapacityCoversOrders == Spec => []OrdersCovered
<1>1. Init => CoveredInv
  <2>. SUFFICES ASSUME Init PROVE CoveredInv
    OBVIOUS
  <2>1. orders = {} /\ reserved = 0 /\ lock = NoCall
    BY DEF Init
  <2>2. Claims(orders) = {}
    BY <2>1 DEF Claims
  <2>. QED  BY <2>1, <2>2, FS_EmptySet DEF CoveredInv, OrdersCovered, ClaimedMl
<1>2. CoveredInv => OrdersCovered
  BY DEF CoveredInv
<1>3. IntakeInv /\ CoveredInv /\ [Next]_vars => IntakeInv' /\ CoveredInv'
  BY CoveredStep, ServerStepKeeps, CrashKeeps, DeleteOrderKeeps, FormStepKeeps, StutterKeeps
     DEF Next
<1>. QED  BY InitIntake, <1>1, <1>2, <1>3, PTL DEF Spec
-----------------------------------------------------------------------------
(* Requests come to an end. *)

\* The steps a call can take at most before it is answered or starts over.
ToGo(phase) ==
  CASE phase = "IDLE" -> 5
    [] phase = "PRIOR" -> 4
    [] phase = "BEGIN" -> 3
    [] phase = "TX" -> 2
    [] phase = "FALLBACK" -> 1
    [] phase \in {"ANSWERED", "LOST"} -> 0

\* The attempts that intakeOrderCore and submitOrder have left.
AttemptsLeft(s) == (MaxBusy + 1) * (MaxOuter - s.outer) + (MaxBusy - s.busy)

\* What a request may still take, in steps.
Budget(s) == 6 * AttemptsLeft(s) + ToGo(s.phase)

\* A step of a call goes on in the same attempt, or begins one of the next.
Proceeds(old, new) ==
  \/ new.outer = old.outer /\ new.busy = old.busy /\ ToGo(new.phase) < ToGo(old.phase)
  \/ new.outer = old.outer /\ new.busy = old.busy + 1
  \/ new.outer = old.outer + 1 /\ new.busy = 0 /\ old.busy = MaxBusy

\* It is what a request starts with, at most.
LEMMA BudgetTyped ==
  ASSUME NEW s \in CallState
  PROVE  Budget(s) \in Nat /\ Budget(s) <= Budget(Idle)
<1>1. /\ s.busy \in 0..MaxBusy /\ s.outer \in 0..MaxOuter
      /\ ToGo(s.phase) \in 0..5 /\ ToGo(Idle.phase) = 5 /\ Idle.busy = 0 /\ Idle.outer = 0
  BY DEF CallState, ToGo, Idle
<1>. DEFINE N == MaxBusy + 1
            spare == MaxOuter - s.outer
<1>2. N \in Nat /\ spare \in Nat /\ s.outer \in Nat /\ MaxOuter = spare + s.outer
  BY <1>1
<1>. HIDE DEF N, spare
<1>3. N * spare \in Nat /\ N * s.outer \in Nat /\ N * MaxOuter = N * spare + N * s.outer
  BY <1>2
<1>4. AttemptsLeft(s) = N * spare + (MaxBusy - s.busy)
  BY DEF AttemptsLeft, N, spare
<1>5. AttemptsLeft(Idle) = N * MaxOuter + MaxBusy
  BY <1>1 DEF AttemptsLeft, N
<1>6. AttemptsLeft(s) \in Nat /\ AttemptsLeft(Idle) \in Nat /\ AttemptsLeft(s) <= AttemptsLeft(Idle)
  BY <1>1, <1>3, <1>4, <1>5
<1>. QED  BY <1>1, <1>6 DEF Budget

\* A new attempt costs more than going on in it could give back.
LEMMA BudgetShrinks ==
  ASSUME NEW old \in CallState, NEW new \in CallState, Proceeds(old, new)
  PROVE  Budget(new) < Budget(old)
<1>1. \A s \in {old, new} :
        s.busy \in 0..MaxBusy /\ s.outer \in 0..MaxOuter /\ ToGo(s.phase) \in 0..5
  BY DEF CallState, ToGo
<1>. DEFINE N == MaxBusy + 1
            spare == MaxOuter - old.outer
<1>2. N \in Nat /\ spare \in Nat
  BY <1>1
<1>3. CASE new.outer = old.outer
  <2>1. AttemptsLeft(new) - AttemptsLeft(old) = old.busy - new.busy
    <3>. HIDE DEF N, spare
    <3>1. N * spare \in Int
      BY <1>2
    <3>2. /\ AttemptsLeft(new) = N * spare + (MaxBusy - new.busy)
          /\ AttemptsLeft(old) = N * spare + (MaxBusy - old.busy)
      BY <1>3 DEF AttemptsLeft, N, spare
    <3>. QED  BY <1>1, <3>1, <3>2
  <2>2. AttemptsLeft(new) \in Int /\ AttemptsLeft(old) \in Int
    BY <1>1 DEF AttemptsLeft
  <2>3. \/ new.busy = old.busy /\ ToGo(new.phase) < ToGo(old.phase)
        \/ new.busy = old.busy + 1
    BY <1>1, <1>3 DEF Proceeds
  <2>. QED  BY <1>1, <2>1, <2>2, <2>3 DEF Budget
<1>4. CASE new.outer = old.outer + 1 /\ new.busy = 0 /\ old.busy = MaxBusy
  <2>1. MaxOuter - new.outer = spare - 1
    BY <1>1, <1>4
  <2>. HIDE DEF spare
  <2>2. N * (spare - 1) = N * spare - N /\ N * spare \in Int
    BY <1>2
  <2>3. AttemptsLeft(new) = N * (spare - 1) + MaxBusy /\ AttemptsLeft(old) = N * spare
    BY <1>1, <1>2, <1>4, <2>1 DEF AttemptsLeft, spare
  <2>4. AttemptsLeft(new) = AttemptsLeft(old) - 1 /\ AttemptsLeft(old) \in Int
    BY <2>2, <2>3
  <2>. QED  BY <1>1, <2>4 DEF Budget
<1>. QED  BY <1>3, <1>4 DEF Proceeds

\* A call that moves to a later phase, or is answered, stays in its attempt.
LEMMA SameAttempt ==
  ASSUME IntakeInv, NEW c \in Call, NEW phase \in Phase \ {"IDLE"}, NEW a,
         ToGo(phase) < ToGo(call[c].phase),
         call' = Move(c, phase) \/ (phase = "ANSWERED" /\ call' = Answer(c, a))
  PROVE  \A d \in Call : call'[d] # call[d] => Proceeds(call[d], call'[d])
<1>1. call \in [Call -> CallState]
  BY DEF IntakeInv, TypeOK, CallState, Answers
<1>2. /\ \A d \in Call \ {c} : call'[d] = call[d]
      /\ call'[c].phase = phase
      /\ call'[c].outer = call[c].outer /\ call'[c].busy = call[c].busy
  <2>1. CASE call' = Move(c, phase)
    BY <1>1, <2>1 DEF Move, CallState
  <2>2. CASE phase = "ANSWERED" /\ call' = Answer(c, a)
    BY <1>1, <2>2 DEF Answer, CallState
  <2>. QED  BY <2>1, <2>2
<1>. QED  BY <1>2 DEF Proceeds

\* A busy error uses up an attempt, or is the answer.
LEMMA BusyProceeds ==
  ASSUME IntakeInv, NEW c \in Call, Busy(c)
  PROVE  \A d \in Call : call'[d] # call[d] => Proceeds(call[d], call'[d])
<1>1. call \in [Call -> CallState]
  BY DEF IntakeInv, TypeOK, CallState, Answers
<1>2. call[c].phase = "BEGIN" /\ call' = Retried(c)
  BY DEF Busy
<1>3. CASE call' = [call EXCEPT ![c].phase = "PRIOR", ![c].busy = @ + 1]
  <2>1. /\ \A d \in Call \ {c} : call'[d] = call[d]
        /\ call'[c].outer = call[c].outer /\ call'[c].busy = call[c].busy + 1
    BY <1>1, <1>3 DEF CallState
  <2>. QED  BY <2>1 DEF Proceeds
<1>4. CASE /\ call' = [call EXCEPT ![c].phase = "PRIOR", ![c].busy = 0, ![c].outer = @ + 1]
           /\ ~(call[c].busy < MaxBusy)
  <2>1. /\ \A d \in Call \ {c} : call'[d] = call[d]
        /\ call'[c].outer = call[c].outer + 1 /\ call'[c].busy = 0
    BY <1>1, <1>4 DEF CallState
  <2>2. call[c].busy \in 0..MaxBusy
    BY <1>1 DEF CallState
  <2>3. call[c].busy = MaxBusy
    BY <1>4, <2>2
  <2>. QED  BY <2>1, <2>3 DEF Proceeds
<1>5. ASSUME NEW kind, call' = Answer(c, Other(kind))
      PROVE  \A d \in Call : call'[d] # call[d] => Proceeds(call[d], call'[d])
  <2>1. ToGo("ANSWERED") < ToGo(call[c].phase)
    BY <1>2 DEF ToGo
  <2>. QED  BY <1>5, <2>1, SameAttempt
<1>. QED  BY <1>2, <1>3, <1>4, <1>5 DEF Retried

\* So does every other step, of the call itself, of the server or of a form.
LEMMA CallsProceed ==
  ASSUME IntakeInv, [Next]_vars
  PROVE  \A d \in Call : call'[d] # call[d] => Proceeds(call[d], call'[d])
<1>. DEFINE Moves == \A d \in Call : call'[d] # call[d] => Proceeds(call[d], call'[d])
<1>1. call \in [Call -> CallState]
  BY DEF IntakeInv, TypeOK, CallState, Answers
<1>2. ASSUME NEW c \in Call, NEW a, call' = Answer(c, a), call[c].phase \in Running
      PROVE  Moves
  <2>1. ToGo("ANSWERED") < ToGo(call[c].phase)
    BY <1>2 DEF ToGo
  <2>. QED  BY <1>2, <2>1, SameAttempt
<1>3. ASSUME NEW c \in Call, call' = Failed(c), call[c].phase \in Running \ {"FALLBACK"}
      PROVE  Moves
  <2>1. ToGo("FALLBACK") < ToGo(call[c].phase)
    BY <1>3 DEF ToGo
  <2>. QED  BY <1>2, <1>3, <2>1, SameAttempt DEF Failed
<1>4. ASSUME NEW c \in Call, ServerStep(c) PROVE Moves
  <2>1. CASE ReadPrior(c)
    <3>1. ToGo("BEGIN") < ToGo(call[c].phase) /\ call[c].phase \in Running
      BY <2>1 DEF ReadPrior, ToGo
    <3>. QED  BY <1>2, <2>1, <3>1, SameAttempt DEF ReadPrior
  <2>2. CASE Begin(c)
    <3>1. ToGo("TX") < ToGo(call[c].phase) /\ call[c].phase \in Running
      BY <2>2 DEF Begin, ToGo
    <3>. QED  BY <1>2, <2>2, <3>1, SameAttempt DEF Begin
  <2>3. CASE Commit(c) \/ ReadFallback(c)
    BY <1>2, <2>3 DEF Commit, ReadFallback
  <2>4. CASE StatementFails(c) \/ TransactionFails(c)
    BY <1>3, <2>4 DEF StatementFails, TransactionFails
  <2>. QED  BY <1>4, <2>1, <2>2, <2>3, <2>4, BusyProceeds DEF ServerStep
<1>5. CASE Crash
  <2>. SUFFICES ASSUME NEW d \in Call, call'[d] # call[d]
                PROVE  Proceeds(call[d], call'[d])
    OBVIOUS
  <2>1. call[d].phase \in Running /\ call'[d] = [call[d] EXCEPT !.phase = "LOST"]
    BY <1>5 DEF Crash
  <2>2. /\ call'[d].phase = "LOST"
        /\ call'[d].outer = call[d].outer /\ call'[d].busy = call[d].busy
    BY <1>1, <2>1 DEF CallState
  <2>. QED  BY <2>1, <2>2 DEF Proceeds, ToGo
<1>6. ASSUME NEW k \in Key, NEW c \in Call, NEW p \in Payload, Submit(k, c, p) PROVE Moves
  <2>1. /\ \A d \in Call \ {c} : call'[d] = call[d]
        /\ call[c].phase = "IDLE" /\ call'[c].phase = "PRIOR"
        /\ call'[c].outer = call[c].outer /\ call'[c].busy = call[c].busy
    BY <1>1, <1>6 DEF Submit, CallState
  <2>. QED  BY <2>1 DEF Proceeds, ToGo
<1>7. ASSUME UNCHANGED call PROVE Moves
  BY <1>7
<1>8. ASSUME NEW k \in Key, FormStep(k) PROVE Moves
  BY <1>6, <1>7, <1>8 DEF FormStep, Receive, LoseResponse
<1>9. ASSUME NEW o \in orders, DeleteOrder(o) PROVE Moves
  BY <1>7, <1>9 DEF DeleteOrder
<1>. QED  BY <1>4, <1>5, <1>7, <1>8, <1>9 DEF Next, vars

\* A request takes a bounded number of steps, whatever fails and however often
\* the database is busy: each step uses up some of what the retry limits of
\* intakeOrderCore and submitOrder leave it.
THEOREM RequestsEnd ==
  Spec =>
    /\ [](\A c \in Call : Budget(call[c]) \in 0..Budget(Idle))
    /\ [][\A c \in Call : call'[c] # call[c] => Budget(call'[c]) < Budget(call[c])]_call
<1>1. IntakeInv => call \in [Call -> CallState]
  BY DEF IntakeInv, TypeOK, CallState, Answers
<1>2. IntakeInv => \A c \in Call : Budget(call[c]) \in 0..Budget(Idle)
  <2>1. Idle \in CallState
    BY AnswerShape DEF Idle, CallState, Other, Once!Other
  <2>. QED  BY <1>1, <2>1, BudgetTyped
<1>3. IntakeInv /\ IntakeInv' /\ [Next]_vars =>
        [\A c \in Call : call'[c] # call[c] => Budget(call'[c]) < Budget(call[c])]_call
  <2>. SUFFICES ASSUME IntakeInv, IntakeInv', [Next]_vars,
                       NEW c \in Call, call'[c] # call[c]
                PROVE  Budget(call'[c]) < Budget(call[c])
    OBVIOUS
  <2>1. Proceeds(call[c], call'[c])
    BY CallsProceed
  <2>2. call' \in [Call -> CallState]
    BY DEF IntakeInv, TypeOK, CallState, Answers
  <2>3. call[c] \in CallState /\ call'[c] \in CallState
    BY <1>1, <2>2
  <2>. QED  BY <2>1, <2>3, BudgetShrinks
<1>. QED  BY IntakeInvariant, <1>2, <1>3, PTL DEF Spec
-----------------------------------------------------------------------------
(* What OnceOnlyOrders promises. *)

\* A receipt names an order with the key and the content that was asked for.
ReceiptsTell ==
  \A c \in Call : Told[c].kind = "RECEIPT" =>
    /\ Asked[c] # NoOrder
    /\ Told[c].order.key = Asked[c].key /\ Told[c].order.payload = Asked[c].payload

OnceInv ==
  /\ Asked \in [Call -> Order \cup {NoOrder}] /\ Told \in [Call -> Answers]
  /\ orders \subseteq Order
  /\ OneOrderPerKey /\ ReceiptsTell

\* One call is answered, with the receipt of an order it asked for, or without.
LEMMA AnsweredRight ==
  ASSUME OnceInv, NEW c \in Call, NEW a \in Answers, Asked[c] # NoOrder,
         Told' = [Told EXCEPT ![c] = a], Asked' = Asked,
         a.kind = "RECEIPT" => a.order.key = Asked[c].key /\ a.order.payload = Asked[c].payload
  PROVE  Asked' \in [Call -> Order \cup {NoOrder}] /\ Told' \in [Call -> Answers] /\ ReceiptsTell'
<1>1. Told' \in [Call -> Answers] /\ \A d \in Call : Told'[d] = IF d = c THEN a ELSE Told[d]
  BY DEF OnceInv
<1>. QED  BY <1>1 DEF OnceInv, ReceiptsTell

LEMMA OnceKinds ==
  /\ \A o : Receipt(o).kind = "RECEIPT" /\ Receipt(o).order = o
  /\ \A kind : Other(kind).kind = kind
  /\ \A a \in Once!Declined : a \in Answers /\ a.kind # "RECEIPT"
  /\ Once!NoAnswer = Other("NONE")
BY DEF Receipt, Other, Once!Receipt, Once!Other, Once!Declined, Once!NoAnswer, Answers

\* The abstract specification is worth implementing: a key has one order at
\* most, and no receipt is for something else than was asked for.
THEOREM PromiseIsKept == KeepsOncePromise => [](OneOrderPerKey /\ ReceiptsTell)
<1>1. Once!Init => OnceInv
  <2>. SUFFICES ASSUME Once!Init PROVE OnceInv
    OBVIOUS
  <2>1. /\ Asked = [c \in Call |-> NoOrder] /\ orders = {}
        /\ Told = [c \in Call |-> Other("NONE")]
    BY OnceKinds DEF Once!Init
  <2>2. Other("NONE") \in Answers /\ Other("NONE").kind # "RECEIPT"
    BY OnceKinds, AnswerShape
  <2>. QED  BY <2>1, <2>2 DEF OnceInv, OneOrderPerKey, ReceiptsTell
<1>2. OnceInv /\ [Once!Next]_<<Asked, orders, Told>> => OnceInv'
  <2>. SUFFICES ASSUME OnceInv, [Once!Next]_<<Asked, orders, Told>> PROVE OnceInv'
    OBVIOUS
  <2>1. ASSUME NEW c \in Call, NEW k \in Key, NEW p \in Payload, Once!Ask(c, k, p)
        PROVE  OnceInv'
    <3>. DEFINE wanted == [id |-> c, key |-> k, payload |-> p]
    <3>1. wanted \in Order /\ Asked[c] = NoOrder
      BY <2>1, OrderShape DEF Once!Ask
    <3>2. Asked' = [Asked EXCEPT ![c] = wanted] /\ Told' = Told /\ orders' = orders
      BY <2>1 DEF Once!Ask
    <3>. HIDE DEF wanted
    <3>3. /\ Asked' \in [Call -> Order \cup {NoOrder}]
          /\ \A d \in Call : d # c => Asked'[d] = Asked[d]
      BY <3>1, <3>2 DEF OnceInv
    <3>4. Told[c].kind # "RECEIPT"
      BY <3>1 DEF OnceInv, ReceiptsTell
    <3>5. ReceiptsTell'
      BY <3>2, <3>3, <3>4 DEF OnceInv, ReceiptsTell
    <3>. QED  BY <3>2, <3>3, <3>5 DEF OnceInv, OneOrderPerKey
  <2>2. ASSUME NEW c \in Call, Once!Accept(c) PROVE OnceInv'
    <3>1. Asked[c] \in Order /\ Once!Under(Asked[c].key) = {} /\ Asked' = Asked
      BY <2>2 DEF Once!Accept, Once!Waiting, OnceInv
    <3>2. orders' = orders \cup {Asked[c]}
      BY <2>2 DEF Once!Accept
    <3>3. PICK a \in {Receipt(Asked[c]), Other("NONE"), Other("ERROR")} :
            Told' = [Told EXCEPT ![c] = a]
      BY <2>2, OnceKinds DEF Once!Accept, Receipt, Other
    <3>4. a \in Answers /\ (a.kind = "RECEIPT" => a.order = Asked[c])
      BY <3>1, <3>3, OnceKinds, AnswerShape
    <3>5. OneOrderPerKey'
      BY <3>1, <3>2 DEF OnceInv, OneOrderPerKey, Once!Under
    <3>6. /\ Asked' \in [Call -> Order \cup {NoOrder}] /\ Told' \in [Call -> Answers]
          /\ ReceiptsTell'
      BY <3>1, <3>3, <3>4, AnsweredRight, OrderShape
    <3>. QED  BY <3>1, <3>2, <3>5, <3>6 DEF OnceInv
  <2>3. ASSUME NEW c \in Call, Once!Repeat(c) PROVE OnceInv'
    <3>1. Asked[c] # NoOrder /\ Asked' = Asked /\ orders' = orders
      BY <2>3 DEF Once!Repeat, Once!Waiting
    <3>2. PICK o \in Once!Under(Asked[c].key) :
            Told' = [Told EXCEPT ![c] = IF o.payload = Asked[c].payload
                                        THEN Receipt(o) ELSE Other("CONFLICT")]
      BY <2>3 DEF Once!Repeat, Receipt, Other
    <3>3. o \in Order /\ o.key = Asked[c].key
      BY <3>2 DEF Once!Under, OnceInv
    <3>4. PICK a : a = IF o.payload = Asked[c].payload THEN Receipt(o) ELSE Other("CONFLICT")
      OBVIOUS
    <3>5. a \in Answers /\ (a.kind = "RECEIPT" => o.payload = Asked[c].payload /\ a.order = o)
      BY <3>3, <3>4, OnceKinds, AnswerShape
    <3>6. /\ Asked' \in [Call -> Order \cup {NoOrder}] /\ Told' \in [Call -> Answers]
          /\ ReceiptsTell'
      BY <3>1, <3>2, <3>3, <3>4, <3>5, AnsweredRight
    <3>. QED  BY <3>1, <3>6 DEF OnceInv, OneOrderPerKey
  <2>4. ASSUME NEW c \in Call, Once!Decline(c) PROVE OnceInv'
    <3>1. Asked[c] # NoOrder /\ Asked' = Asked /\ orders' = orders
      BY <2>4 DEF Once!Decline, Once!Waiting
    <3>2. PICK a \in Once!Declined : Told' = [Told EXCEPT ![c] = a]
      BY <2>4 DEF Once!Decline
    <3>3. /\ Asked' \in [Call -> Order \cup {NoOrder}] /\ Told' \in [Call -> Answers]
          /\ ReceiptsTell'
      BY <3>1, <3>2, OnceKinds, AnsweredRight
    <3>. QED  BY <3>1, <3>3 DEF OnceInv, OneOrderPerKey
  <2>5. ASSUME NEW o \in orders, Once!Remove(o) PROVE OnceInv'
    <3>1. Asked' = Asked /\ Told' = Told /\ orders' \subseteq orders
      BY <2>5 DEF Once!Remove
    <3>. QED  BY <3>1 DEF OnceInv, OneOrderPerKey, ReceiptsTell
  <2>6. CASE UNCHANGED <<Asked, orders, Told>>
    BY <2>6 DEF OnceInv, OneOrderPerKey, ReceiptsTell
  <2>. QED  BY <2>1, <2>2, <2>3, <2>4, <2>5, <2>6 DEF Once!Next
<1>3. OnceInv => OneOrderPerKey /\ ReceiptsTell
  BY DEF OnceInv
<1>. QED  BY <1>1, <1>2, <1>3, PTL DEF KeepsOncePromise, Once!Spec
=============================================================================
