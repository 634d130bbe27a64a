------------------------- MODULE ShopSettingsProofs -------------------------
(***************************************************************************)
(* Theorems about the parts of ShopSettings: the payment methods, the      *)
(* packages and the window of a product, the storefront themes, and the    *)
(* availability planner.  Each part has an invariant of its own, which     *)
(* says what a call under way, or a page, still may count on.  At the end  *)
(* the parts together, as ShopSettings runs them.                          *)
(***************************************************************************)
EXTENDS ShopSettings, Integers, SequenceTheorems, FiniteSetTheorems, TLAPS

-----------------------------------------------------------------------------
(* Payment methods. *)

\* Unless two calls overlapped, one call at most switches a method off, and
\* another method is on beside it.
DisablesAlone ==
  \A s \in Cashier : Disabling(s) =>
    /\ methodCall[s].method \in Method
    /\ \E n \in Method \ {methodCall[s].method} : Offered(n)
    /\ \A t \in Cashier : Disabling(t) => t = s

MethodsInv == MethodsTypeOK /\ (methodRaced \/ DisablesAlone) /\ AMethodRemains

LEMMA MethodsStart == MethodsInit => MethodsInv
<1>. SUFFICES ASSUME MethodsInit PROVE MethodsInv
  OBVIOUS
<1>1. MethodsTypeOK
  BY DEF MethodsInit, MethodsTypeOK, Calls
<1>2. DisablesAlone
  BY DEF MethodsInit, DisablesAlone, Disabling
<1>3. \A m \in Method : Offered(m)
  BY DEF MethodsInit, Offered
<1>. QED  BY <1>1, <1>2, <1>3, MethodConstants DEF MethodsInv, AMethodRemains

LEMMA MethodCallTypes ==
  ASSUME MethodsTypeOK, NEW s \in Cashier, methodCall[s] # NoCall
  PROVE  /\ methodCall[s].op \in {"DISABLE", "DELETE"} /\ methodCall[s].method \in Method
BY DEF MethodsTypeOK, Calls

LEMMA BeginMethodKeeps ==
  ASSUME MethodsInv, NEW s \in Cashier, NEW m \in Method, NEW op \in {"DISABLE", "DELETE"},
         BeginCall(s, op, m)
  PROVE  MethodsInv'
<1>1. /\ methodCall' = [methodCall EXCEPT ![s] = Call(op, m)] /\ methodCall[s] = NoCall
      /\ UNCHANGED <<methodRow, methodUsed>>
      /\ methodRaced' = (methodRaced \/ (op = "DISABLE" /\ \E t \in Cashier : Disabling(t)))
  BY DEF BeginCall
<1>2. Call(op, m) \in Calls /\ Call(op, m).op = op /\ Call(op, m).method = m
  BY DEF Call, Calls
<1>3. \A t \in Cashier : methodCall'[t] = IF t = s THEN Call(op, m) ELSE methodCall[t]
  BY <1>1 DEF MethodsInv, MethodsTypeOK
<1>4. MethodsTypeOK'
  BY <1>1, <1>2 DEF MethodsInv, MethodsTypeOK
<1>5. AMethodRemains'
  BY <1>1 DEF MethodsInv, AMethodRemains, Offered
<1>6. ASSUME ~methodRaced' PROVE DisablesAlone'
  <2>1. DisablesAlone /\ (op = "DISABLE" => \A t \in Cashier : ~Disabling(t))
    BY <1>1, <1>6 DEF MethodsInv
  <2>2. op = "DISABLE" => \E n \in Method \ {m} : Offered(n)
    BY DEF BeginCall, MayDisable
  <2>3. \A t \in Cashier : Disabling(t)' => (t = s /\ op = "DISABLE") \/ (t # s /\ Disabling(t))
    BY <1>2, <1>3 DEF Disabling
  <2>. QED  BY <1>1, <1>2, <1>3, <2>1, <2>2, <2>3 DEF DisablesAlone, Offered
<1>. QED  BY <1>4, <1>5, <1>6 DEF MethodsInv

LEMMA FinishMethodKeeps ==
  ASSUME MethodsInv, NEW s \in Cashier, FinishCall(s)
  PROVE  MethodsInv'
<1>. DEFINE op == methodCall[s].op
            m == methodCall[s].method
<1>1. /\ methodRow' = [methodRow EXCEPT ![m] = RowAfter(op)]
      /\ methodCall' = [methodCall EXCEPT ![s] = NoCall] /\ UNCHANGED <<methodUsed, methodRaced>>
  BY DEF FinishCall
<1>2. op \in {"DISABLE", "DELETE"} /\ m \in Method /\ (op = "DISABLE" <=> Disabling(s))
  BY MethodCallTypes DEF FinishCall, MethodsInv, Disabling
<1>3. RowAfter(op) \in {"NONE", "OFF"} /\ (RowAfter(op) = "OFF" <=> op = "DISABLE")
  BY <1>2 DEF RowAfter
<1>4. /\ \A n \in Method : Offered(n)' <=> IF n = m THEN op # "DISABLE" ELSE Offered(n)
      /\ \A t \in Cashier : Disabling(t)' <=> t # s /\ Disabling(t)
      /\ \A t \in Cashier : t # s => methodCall'[t] = methodCall[t]
  BY <1>1, <1>2, <1>3 DEF MethodsInv, MethodsTypeOK, Offered, Disabling
<1>5. MethodsTypeOK'
  BY <1>1, <1>3 DEF MethodsInv, MethodsTypeOK, Calls
<1>6. ASSUME ~methodRaced' PROVE DisablesAlone' /\ \E n \in Method : Offered(n)'
  <2>1. DisablesAlone /\ ~methodRaced
    BY <1>1, <1>6 DEF MethodsInv
  <2>2. CASE op = "DISABLE"
    BY <1>2, <1>4, <2>1, <2>2 DEF DisablesAlone
  <2>3. CASE op # "DISABLE"
    BY <1>2, <1>4, <2>1, <2>3 DEF DisablesAlone
  <2>. QED  BY <2>2, <2>3
<1>. QED  BY <1>5, <1>6 DEF MethodsInv, AMethodRemains

LEMMA OtherMethodStepsKeep ==
  ASSUME MethodsInv, NEW m \in Method,
         UseMethod(m) \/ ForgetPayments(m) \/ \E s \in Cashier : EnableMethod(s, m)
  PROVE  MethodsInv'
<1>1. UNCHANGED <<methodCall, methodRaced>>
  BY DEF UseMethod, ForgetPayments, EnableMethod
<1>2. MethodsTypeOK'
  BY DEF MethodsInv, MethodsTypeOK, UseMethod, ForgetPayments, EnableMethod
<1>3. \A n \in Method : Offered(n) => Offered(n)'
  BY DEF MethodsInv, MethodsTypeOK, UseMethod, ForgetPayments, EnableMethod, Offered
<1>. QED  BY <1>1, <1>2, <1>3 DEF MethodsInv, DisablesAlone, AMethodRemains, Disabling

LEMMA MethodsStep == MethodsInv /\ [MethodsNext]_methodVars => MethodsInv'
<1>. SUFFICES ASSUME MethodsInv, [MethodsNext]_methodVars PROVE MethodsInv'
  OBVIOUS
<1>1. CASE UNCHANGED methodVars
  BY <1>1 DEF methodVars, MethodsInv, MethodsTypeOK, DisablesAlone, AMethodRemains, Disabling,
              Offered
<1>2. CASE MethodsNext
  BY <1>2, BeginMethodKeeps, FinishMethodKeeps, OtherMethodStepsKeep DEF MethodsNext
<1>. QED  BY <1>1, <1>2

\* For any methods and any members of staff, the shop keeps a payment method
\* unless two calls that switch one off overlapped (setPaymentMethod).
THEOREM MethodRemains == MethodsSpec => []AMethodRemains
<1>1. MethodsInv => AMethodRemains
  BY DEF MethodsInv
<1>. QED  BY MethodsStart, MethodsStep, <1>1, PTL DEF MethodsSpec
-----------------------------------------------------------------------------
(* Packages. *)

\* What a call on a package may count on until it writes.
PackCallHolds(s) ==
  LET c == packCall[s] IN
  c # NoPackCall =>
    /\ c.op = "CREATE" =>
         /\ c.pack \notin Packs
         /\ \A t \in Merchant \ {s} : packCall[t] # NoPackCall => packCall[t].pack # c.pack
    /\ c.op = "UPDATE" => (c.isDefault => c.active)
    /\ c.op = "DEFAULT" => c.isDefault
    /\ c.op = "DELETE" => c.pack \notin orderedPacks \/ c.pack \in packsOutrun

PacksInv ==
  /\ PacksTypeOK /\ (\A s \in Merchant : PackCallHolds(s)) /\ OneDefault /\ OrderedPackStays

PackRows == [kept : BOOLEAN, active : BOOLEAN, isDefault : BOOLEAN]

LEMMA PackFacts ==
  ASSUME PacksTypeOK
  PROVE  /\ pack \in [Pack -> PackRows] /\ Packs \subseteq Pack /\ Defaults \subseteq Packs
         /\ NoPack \in PackRows /\ ~NoPack.kept /\ ~NoPack.isDefault
         /\ \A a, d \in BOOLEAN : /\ PackRow(a, d) \in PackRows
                                  /\ PackRow(a, d).kept /\ PackRow(a, d).active = a
                                  /\ PackRow(a, d).isDefault = d
BY DEF PacksTypeOK, PackRows, Packs, Defaults, NoPack, PackRow

LEMMA PacksStart == PacksInit => PacksInv
<1>. SUFFICES ASSUME PacksInit PROVE PacksInv
  OBVIOUS
<1>1. PICK first \in SUBSET Pack, d \in Pack, active \in SUBSET Pack :
        /\ d \in first
        /\ pack = [k \in Pack |-> IF k \in first THEN PackRow(k \in active, k = d) ELSE NoPack]
  BY DEF PacksInit
<1>2. /\ orderedPacks = {} /\ packCall = [s \in Merchant |-> NoPackCall]
      /\ retired = FALSE /\ staleMark = FALSE /\ packsOutrun = {}
  BY DEF PacksInit
<1>3. \A k \in Pack : PackRow(k \in active, k = d) \in PackRows /\ NoPack \in PackRows
  BY DEF PackRow, NoPack, PackRows
<1>4. PacksTypeOK
  BY <1>1, <1>2, <1>3 DEF PacksTypeOK, PackRows, PackCalls
<1>5. Defaults = {d}
  BY <1>1 DEF Defaults, Packs, PackRow, NoPack
<1>. QED  BY <1>2, <1>4, <1>5 DEF PacksInv, PackCallHolds, OneDefault, OrderedPackStays

LEMMA PackCallTypes ==
  ASSUME PacksTypeOK, NEW s \in Merchant, packCall[s] # NoPackCall
  PROVE  /\ packCall[s].op \in PackOp /\ packCall[s].pack \in Pack
         /\ packCall[s].active \in BOOLEAN /\ packCall[s].isDefault \in BOOLEAN
BY DEF PacksTypeOK, PackCalls

LEMMA StartPackKeeps ==
  ASSUME PacksInv, NEW s \in Merchant, NEW op \in PackOp, NEW k \in Pack,
         NEW active \in BOOLEAN, NEW isDefault \in BOOLEAN,
         StartsPackCall(s, op, k, active, isDefault),
         op = "CREATE" => /\ k \notin Packs
                          /\ \A t \in Merchant : packCall[t] # NoPackCall => packCall[t].pack # k,
         op # "CREATE" => k \in Packs,
         op = "UPDATE" => (isDefault => active),
         op = "DEFAULT" => isDefault,
         op = "DELETE" => k \notin orderedPacks
  PROVE  PacksInv'
<1>. DEFINE new == PackCall(op, k, active, isDefault)
<1>1. /\ new \in PackCalls /\ new.op = op /\ new.pack = k
      /\ new.active = active /\ new.isDefault = isDefault
  BY DEF PackCall, PackCalls
<1>2. /\ packCall' = [packCall EXCEPT ![s] = new] /\ packCall[s] = NoPackCall
      /\ UNCHANGED <<pack, orderedPacks, retired, staleMark, packsOutrun>>
  BY DEF StartsPackCall
<1>. HIDE DEF new
<1>3. \A t \in Merchant : packCall'[t] = IF t = s THEN new ELSE packCall[t]
  BY <1>2 DEF PacksInv, PacksTypeOK
<1>4. PacksTypeOK'
  BY <1>1, <1>2 DEF PacksInv, PacksTypeOK
<1>5. ASSUME NEW t \in Merchant PROVE PackCallHolds(t)'
  <2>1. CASE t = s
    BY <2>1, <1>1, <1>2, <1>3 DEF PackCallHolds, Packs
  <2>2. CASE t # s /\ packCall[t] # NoPackCall
    <3>1. packCall'[t] = packCall[t] /\ PackCallHolds(t)
      BY <2>2, <1>3 DEF PacksInv
    <3>2. packCall[t].op = "CREATE" => new.pack # packCall[t].pack
      BY <3>1, <2>2, <1>1 DEF PackCallHolds
    <3>. QED  BY <3>1, <3>2, <2>2, <1>2, <1>3 DEF PackCallHolds, Packs
  <2>3. CASE t # s /\ packCall[t] = NoPackCall
    BY <2>3, <1>3 DEF PackCallHolds
  <2>. QED  BY <2>1, <2>2, <2>3
<1>. QED  BY <1>2, <1>4, <1>5 DEF PacksInv, OneDefault, OrderedPackStays, Defaults, Packs

LEMMA StartPacksKeep ==
  ASSUME PacksInv, NEW s \in Merchant, NEW k \in Pack,
         \/ BeginDefault(s, k) \/ BeginDrop(s, k)
         \/ \E active \in BOOLEAN :
              \/ BeginUpdate(s, k, active)
              \/ \E asked, comparable \in BOOLEAN : BeginCreate(s, k, active, asked, comparable)
  PROVE  PacksInv'
<1>1. pack[k].isDefault \in BOOLEAN
  BY PackFacts DEF PacksInv, PackRows
<1>2. CASE BeginDefault(s, k)
  BY <1>2, StartPackKeeps DEF BeginDefault, PackOp
<1>3. CASE BeginDrop(s, k)
  BY <1>3, StartPackKeeps DEF BeginDrop, MayDrop, PackOp
<1>4. ASSUME NEW active \in BOOLEAN, BeginUpdate(s, k, active) PROVE PacksInv'
  BY <1>1, <1>4, StartPackKeeps DEF BeginUpdate, MayUpdate, PackOp
<1>5. ASSUME NEW active \in BOOLEAN, NEW asked \in BOOLEAN, NEW comparable \in BOOLEAN,
             BeginCreate(s, k, active, asked, comparable)
      PROVE  PacksInv'
  <2>. DEFINE isDefault == asked \/ (Defaults = {} /\ comparable)
  <2>1. isDefault \in BOOLEAN /\ StartsPackCall(s, "CREATE", k, active, isDefault)
    BY <1>5 DEF BeginCreate
  <2>. HIDE DEF isDefault
  <2>. QED  BY <2>1, <1>5, StartPackKeeps DEF BeginCreate, PackOp
<1>. QED  BY <1>2, <1>3, <1>4, <1>5

\* The first statement of setDefaultPackage and createPackage, row by row.
LEMMA MarksCleared ==
  ASSUME pack \in [Pack -> PackRows], NEW k
  PROVE  /\ WithDefault(k) \in [Pack -> PackRows]
         /\ \A j \in Pack : /\ WithDefault(k)[j].kept <=> pack[j].kept
                            /\ WithDefault(k)[j].active <=> pack[j].active
                            /\ pack[j].kept => ~WithDefault(k)[j].isDefault
<1>1. \A r \in PackRows : /\ [r EXCEPT !.isDefault = FALSE] \in PackRows
                          /\ [r EXCEPT !.isDefault = FALSE].kept = r.kept
                          /\ [r EXCEPT !.isDefault = FALSE].active = r.active
                          /\ [r EXCEPT !.isDefault = FALSE].isDefault = FALSE
  BY DEF PackRows
<1>2. ASSUME NEW j \in Pack
      PROVE  /\ WithDefault(k)[j] \in PackRows
             /\ WithDefault(k)[j].kept <=> pack[j].kept
             /\ WithDefault(k)[j].active <=> pack[j].active
             /\ pack[j].kept => ~WithDefault(k)[j].isDefault
  <2>1. CASE pack[j].kept
    <3>1. WithDefault(k)[j] = [pack[j] EXCEPT !.isDefault = FALSE]
      BY <2>1 DEF WithDefault, Packs
    <3>2. pack[j] \in PackRows
      OBVIOUS
    <3>. QED  BY <1>1, <3>1, <3>2
  <2>2. CASE ~pack[j].kept
    <3>1. WithDefault(k)[j] = pack[j] /\ pack[j] \in PackRows
      BY <2>2 DEF WithDefault, Packs
    <3>. QED  BY <2>2, <3>1
  <2>. QED  BY <2>1, <2>2
<1>3. WithDefault(k) = [j \in Pack |-> WithDefault(k)[j]]
  BY DEF WithDefault
<1>. QED  BY <1>2, <1>3

\* A write puts one row in place of another, in the table as it was or with
\* the marks cleared.
LEMMA RowReplaced ==
  ASSUME NEW table \in [Pack -> PackRows], NEW k \in Pack, NEW row \in PackRows,
         pack' = [table EXCEPT ![k] = row]
  PROVE  /\ pack' \in [Pack -> PackRows]
         /\ \A j \in Pack \ {k} : pack'[j] = table[j]
         /\ pack'[k] = row
  OBVIOUS

LEMMA WrittenRows ==
  ASSUME PacksInv, NEW s \in Merchant, FinishPackCall(s),
         NEW c, c = packCall[s],
         NEW k \in Pack, k = c.pack
  PROVE  /\ pack' \in [Pack -> PackRows]
         /\ \A j \in Pack \ {k} :
              /\ pack'[j].kept <=> pack[j].kept
              /\ pack'[j].active <=> pack[j].active
              /\ pack[j].kept =>
                   (pack'[j].isDefault <=> /\ c.op \in {"DELETE", "UPDATE"}
                                                \/ (c.op = "CREATE" /\ ~c.isDefault)
                                           /\ pack[j].isDefault)
         /\ pack'[k].kept <=> c.op = "CREATE" \/ (c.op # "DELETE" /\ pack[k].kept)
         /\ c.op = "CREATE" => (pack'[k].isDefault <=> c.isDefault)
         /\ c.op = "DEFAULT" /\ pack[k].kept =>
              pack'[k].isDefault /\ (pack'[k].active <=> pack[k].active)
         /\ c.op = "UPDATE" /\ pack[k].kept =>
              (pack'[k].isDefault <=> c.isDefault) /\ (c.isDefault => pack'[k].active)
<1>1. /\ c.op \in PackOp /\ c.active \in BOOLEAN /\ c.isDefault \in BOOLEAN
      /\ PackCallHolds(s) /\ c # NoPackCall /\ pack' = Written(c)
  BY PackCallTypes DEF FinishPackCall, PacksInv
<1>2. /\ pack \in [Pack -> PackRows] /\ NoPack \in PackRows /\ ~NoPack.kept /\ ~NoPack.isDefault
      /\ PackRow(c.active, c.isDefault) \in PackRows /\ PackRow(c.active, c.isDefault).kept
      /\ PackRow(c.active, c.isDefault).active = c.active
      /\ PackRow(c.active, c.isDefault).isDefault = c.isDefault
      /\ k \in Packs <=> pack[k].kept
  BY <1>1, PackFacts DEF PacksInv, Packs
<1>3. /\ WithDefault(k) \in [Pack -> PackRows]
      /\ \A j \in Pack : /\ WithDefault(k)[j].kept <=> pack[j].kept
                         /\ WithDefault(k)[j].active <=> pack[j].active
                         /\ pack[j].kept => ~WithDefault(k)[j].isDefault
  BY <1>2, MarksCleared
<1>4. CASE c.op = "DELETE"
  <2>1. pack' = [pack EXCEPT ![k] = NoPack]
    BY <1>1, <1>4 DEF Written
  <2>. QED  BY <1>2, <1>4, <2>1, RowReplaced
<1>5. CASE c.op = "CREATE" /\ c.isDefault
  <2>1. pack' = [WithDefault(k) EXCEPT ![k] = PackRow(c.active, c.isDefault)]
    BY <1>1, <1>5 DEF Written
  <2>2. /\ pack' \in [Pack -> PackRows] /\ pack'[k] = PackRow(c.active, c.isDefault)
        /\ \A j \in Pack \ {k} : pack'[j] = WithDefault(k)[j]
    BY <1>2, <1>3, <2>1, RowReplaced
  <2>. QED  BY <1>2, <1>3, <1>5, <2>2
<1>6. CASE c.op = "CREATE" /\ ~c.isDefault
  <2>1. pack' = [pack EXCEPT ![k] = PackRow(c.active, c.isDefault)]
    BY <1>1, <1>6 DEF Written
  <2>. QED  BY <1>2, <1>6, <2>1, RowReplaced
<1>7. CASE c.op = "DEFAULT" /\ k \notin Packs
  <2>1. pack' = WithDefault(k)
    BY <1>1, <1>7 DEF Written, PackCallHolds
  <2>. QED  BY <1>2, <1>3, <1>7, <2>1
<1>8. CASE c.op = "DEFAULT" /\ k \in Packs
  <2>. DEFINE row == [WithDefault(k)[k] EXCEPT !.isDefault = TRUE]
  <2>1. pack' = [WithDefault(k) EXCEPT ![k] = row]
    BY <1>1, <1>3, <1>8 DEF Written, PackCallHolds
  <2>2. \A r \in PackRows : LET d == [r EXCEPT !.isDefault = TRUE] IN
          d \in PackRows /\ d.kept = r.kept /\ d.active = r.active /\ d.isDefault = TRUE
    BY DEF PackRows
  <2>3. WithDefault(k)[k] \in PackRows
    BY <1>3
  <2>4. /\ row \in PackRows /\ row.isDefault = TRUE /\ row.kept = WithDefault(k)[k].kept
        /\ row.active = WithDefault(k)[k].active
    BY <2>2, <2>3
  <2>. HIDE DEF row
  <2>5. /\ pack' \in [Pack -> PackRows] /\ pack'[k] = row
        /\ \A j \in Pack \ {k} : pack'[j] = WithDefault(k)[j]
    BY <1>3, <2>1, <2>4, RowReplaced
  <2>. QED  BY <1>2, <1>3, <1>8, <2>4, <2>5
<1>9. CASE c.op = "UPDATE" /\ k \notin Packs
  <2>1. pack' = pack
    BY <1>1, <1>9 DEF Written
  <2>. QED  BY <1>2, <1>9, <2>1
<1>10. CASE c.op = "UPDATE" /\ k \in Packs
  <2>1. pack' = [pack EXCEPT ![k] = PackRow(c.active, c.isDefault)]
    BY <1>1, <1>10 DEF Written
  <2>2. c.isDefault => c.active
    BY <1>1, <1>10 DEF PackCallHolds
  <2>. QED  BY <1>2, <1>10, <2>1, <2>2, RowReplaced
<1>. QED  BY <1>1, <1>4, <1>5, <1>6, <1>7, <1>8, <1>9, <1>10 DEF PackOp

\* What each write makes of the packages there are and of the default.
LEMMA WrittenPacks ==
  ASSUME PacksInv, NEW s \in Merchant, FinishPackCall(s),
         NEW c, c = packCall[s]
  PROVE  /\ pack' \in [Pack -> PackRows]
         /\ c.op = "DELETE" => Packs' = Packs \ {c.pack} /\ Defaults' = Defaults \ {c.pack}
         /\ c.op = "CREATE" => /\ Packs' = Packs \cup {c.pack}
                               /\ Defaults' = IF c.isDefault THEN {c.pack} ELSE Defaults
         /\ c.op = "DEFAULT" => Packs' = Packs /\ Defaults' = Packs \cap {c.pack}
         /\ c.op = "UPDATE" =>
              /\ Packs' = Packs
              /\ Defaults' = IF c.isDefault THEN Defaults \cup (Packs \cap {c.pack})
                             ELSE Defaults \ {c.pack}
         /\ \A j \in Defaults : pack[j].active /\ j \in Defaults' => pack'[j].active
<1>. DEFINE k == c.pack
<1>1. /\ c.op \in PackOp /\ k \in Pack /\ (c.op = "CREATE" => k \notin Packs)
  BY PackCallTypes DEF FinishPackCall, PacksInv, PackCallHolds
<1>2. /\ Packs = {j \in Pack : pack[j].kept} /\ Packs' = {j \in Pack : pack'[j].kept}
      /\ Defaults = {j \in Pack : pack[j].kept /\ pack[j].isDefault}
      /\ Defaults' = {j \in Pack : pack'[j].kept /\ pack'[j].isDefault}
  BY DEF Packs, Defaults
<1>3. /\ pack' \in [Pack -> PackRows]
      /\ \A j \in Pack \ {k} :
           /\ pack'[j].kept <=> pack[j].kept
           /\ pack'[j].active <=> pack[j].active
           /\ pack[j].kept =>
                (pack'[j].isDefault <=> /\ c.op \in {"DELETE", "UPDATE"}
                                             \/ (c.op = "CREATE" /\ ~c.isDefault)
                                        /\ pack[j].isDefault)
      /\ pack'[k].kept <=> c.op = "CREATE" \/ (c.op # "DELETE" /\ pack[k].kept)
      /\ c.op = "CREATE" => (pack'[k].isDefault <=> c.isDefault)
      /\ c.op = "DEFAULT" /\ pack[k].kept =>
           pack'[k].isDefault /\ (pack'[k].active <=> pack[k].active)
      /\ c.op = "UPDATE" /\ pack[k].kept =>
           (pack'[k].isDefault <=> c.isDefault) /\ (c.isDefault => pack'[k].active)
  BY <1>1, WrittenRows
<1>4. CASE c.op = "DELETE"
  BY <1>1, <1>2, <1>3, <1>4
<1>5. CASE c.op = "CREATE"
  BY <1>1, <1>2, <1>3, <1>5
<1>6. CASE c.op = "DEFAULT"
  BY <1>1, <1>2, <1>3, <1>6
<1>7. CASE c.op = "UPDATE"
  BY <1>1, <1>2, <1>3, <1>7
<1>. QED  BY <1>1, <1>4, <1>5, <1>6, <1>7 DEF PackOp

LEMMA FinishPackKeeps ==
  ASSUME PacksInv, NEW s \in Merchant, FinishPackCall(s)
  PROVE  PacksInv'
<1>. DEFINE c == packCall[s]
<1>1. /\ c.op \in PackOp /\ c.pack \in Pack /\ c.active \in BOOLEAN /\ c.isDefault \in BOOLEAN
      /\ PackCallHolds(s) /\ c # NoPackCall
  BY PackCallTypes DEF FinishPackCall, PacksInv
<1>2. /\ packCall' = [packCall EXCEPT ![s] = NoPackCall] /\ UNCHANGED <<orderedPacks, packsOutrun>>
      /\ retired' = CASE c.op = "DELETE"  -> retired \/ c.pack \in Defaults
                      [] c.op = "DEFAULT" -> c.pack \notin Packs
                      [] OTHER            -> retired /\ ~(c.op = "CREATE" /\ c.isDefault)
      /\ staleMark' = (staleMark \/ (c.op = "UPDATE" /\ c.pack \in Packs
                                     /\ pack[c.pack].isDefault # c.isDefault))
  BY DEF FinishPackCall
<1>3. /\ pack' \in [Pack -> PackRows]
      /\ c.op = "DELETE" => Packs' = Packs \ {c.pack} /\ Defaults' = Defaults \ {c.pack}
      /\ c.op = "CREATE" => /\ Packs' = Packs \cup {c.pack}
                            /\ Defaults' = IF c.isDefault THEN {c.pack} ELSE Defaults
      /\ c.op = "DEFAULT" => Packs' = Packs /\ Defaults' = Packs \cap {c.pack}
      /\ c.op = "UPDATE" =>
           /\ Packs' = Packs
           /\ Defaults' = IF c.isDefault THEN Defaults \cup (Packs \cap {c.pack})
                          ELSE Defaults \ {c.pack}
  BY WrittenPacks
<1>4. PacksTypeOK'
  <2>1. retired' \in BOOLEAN /\ staleMark' \in BOOLEAN
    BY <1>1, <1>2 DEF PackOp, PacksInv, PacksTypeOK
  <2>2. packCall' \in [Merchant -> PackCalls]
    BY <1>2 DEF PacksInv, PacksTypeOK, PackCalls
  <2>. QED  BY <1>2, <1>3, <2>1, <2>2 DEF PacksInv, PacksTypeOK, PackRows
<1>5. ASSUME NEW t \in Merchant PROVE PackCallHolds(t)'
  <2>1. CASE t = s
    BY <2>1, <1>2 DEF PacksInv, PacksTypeOK, PackCallHolds
  <2>2. CASE t # s
    <3>1. packCall'[t] = packCall[t] /\ PackCallHolds(t) /\ PackCallHolds(s)
      BY <2>2, <1>2 DEF PacksInv, PacksTypeOK
    <3>2. packCall[t] # NoPackCall /\ packCall[t].op = "CREATE" => packCall[t].pack \notin Packs'
      BY <3>1, <2>2, <1>1, <1>3 DEF PackCallHolds, PackOp
    <3>3. \A u \in Merchant : packCall'[u] # NoPackCall => packCall'[u] = packCall[u]
      BY <1>2 DEF PacksInv, PacksTypeOK
    <3>. QED  BY <3>1, <3>2, <3>3, <1>2 DEF PackCallHolds
  <2>. QED  BY <2>1, <2>2
<1>6. OneDefault'
  <2>. SUFFICES ASSUME ~staleMark' PROVE OneDefault'
    BY DEF OneDefault
  <2>0. OneDefault /\ ~staleMark /\ Defaults \subseteq Packs
    BY <1>2 DEF PacksInv, Defaults
  <2>1. CASE c.op = "DELETE"
    <3>1. retired' = (retired \/ c.pack \in Defaults) /\ Defaults' = Defaults \ {c.pack}
      BY <2>1, <1>2, <1>3
    <3>2. CASE c.pack \in Defaults
      BY <3>1, <3>2, <2>0 DEF OneDefault
    <3>3. CASE c.pack \notin Defaults
      BY <3>1, <3>3, <2>0 DEF OneDefault
    <3>. QED  BY <3>2, <3>3
  <2>2. CASE c.op = "DEFAULT"
    BY <2>2, <1>2, <1>3 DEF OneDefault
  <2>3. CASE c.op = "CREATE"
    <3>1. retired' = (retired /\ ~c.isDefault) /\ Defaults' = IF c.isDefault THEN {c.pack} ELSE Defaults
      BY <2>3, <1>2, <1>3
    <3>. QED  BY <3>1, <2>0, <1>1 DEF OneDefault
  <2>4. CASE c.op = "UPDATE"
    <3>1. retired' = retired
      BY <2>4, <1>2 DEF PacksInv, PacksTypeOK
    <3>2. c.pack \in Packs => (c.pack \in Defaults <=> c.isDefault)
      BY <2>4, <1>1, <1>2 DEF Defaults
    <3>3. Defaults' = Defaults
      BY <3>2, <2>0, <2>4, <1>1, <1>3
    <3>. QED  BY <3>1, <3>3, <2>0 DEF OneDefault
  <2>. QED  BY <2>1, <2>2, <2>3, <2>4, <1>1 DEF PackOp
<1>7. OrderedPackStays'
  BY <1>1, <1>2, <1>3 DEF PacksInv, OrderedPackStays, PackCallHolds, PackOp
<1>. QED  BY <1>4, <1>5, <1>6, <1>7 DEF PacksInv

\* Orders come and go; one that names a package about to be deleted is noted.
LEMMA OrderPackKeeps ==
  ASSUME PacksInv, NEW k \in Pack, OrderPack(k) \/ ForgetOrders(k)
  PROVE  PacksInv'
<1>1. UNCHANGED <<pack, packCall, retired, staleMark>>
  BY DEF OrderPack, ForgetOrders
<1>2. PacksTypeOK'
  BY DEF PacksInv, PacksTypeOK, OrderPack, ForgetOrders
<1>3. CASE OrderPack(k)
  <2>1. /\ orderedPacks' = orderedPacks \cup {k} /\ packsOutrun \subseteq packsOutrun' /\ k \in Packs
        /\ \A s \in Merchant : packCall[s] # NoPackCall /\ packCall[s].op = "DELETE"
                               /\ packCall[s].pack = k => k \in packsOutrun'
    BY <1>3 DEF OrderPack
  <2>. QED  BY <1>1, <1>2, <2>1
            DEF PacksInv, PackCallHolds, OneDefault, OrderedPackStays, Packs, Defaults
<1>4. CASE ForgetOrders(k)
  BY <1>1, <1>2, <1>4
     DEF ForgetOrders, PacksInv, PackCallHolds, OneDefault, OrderedPackStays, Packs, Defaults
<1>. QED  BY <1>3, <1>4

LEMMA PacksStep == PacksInv /\ [PacksNext]_packVars => PacksInv'
<1>. SUFFICES ASSUME PacksInv, [PacksNext]_packVars PROVE PacksInv'
  OBVIOUS
<1>1. CASE UNCHANGED packVars
  BY <1>1 DEF packVars, PacksInv, PacksTypeOK, PackCallHolds, OneDefault, OrderedPackStays, Packs,
              Defaults
<1>2. CASE PacksNext
  BY <1>2, StartPacksKeep, FinishPackKeeps, OrderPackKeeps DEF PacksNext
<1>. QED  BY <1>1, <1>2

\* For any packages and calls, a product never has two default packages, and
\* none only after its default was deleted, but for an update that wrote back
\* an old mark (products.ts).
THEOREM OneDefaultPack == PacksSpec => []OneDefault
<1>1. PacksInv => OneDefault
  BY DEF PacksInv
<1>. QED  BY PacksStart, PacksStep, <1>1, PTL DEF PacksSpec

\* A package some order names is there, unless it was ordered while its
\* deletion was under way (deletePackage).
THEOREM OrderedPacksStay == PacksSpec => []OrderedPackStays
<1>1. PacksInv => OrderedPackStays
  BY DEF PacksInv
<1>. QED  BY PacksStart, PacksStep, <1>1, PTL DEF PacksSpec

\* The default package, while it is the default, does not stop being on sale,
\* whatever calls overlap (updatePackage).
THEOREM DefaultOnSale == PacksSpec => [][DefaultStaysOnSale]_packVars
<1>1. PacksInv /\ [PacksNext]_packVars => [DefaultStaysOnSale]_packVars
  <2>. SUFFICES ASSUME PacksInv, PacksNext, NEW k \in Defaults, pack[k].active, k \in Defaults'
                PROVE  pack'[k].active
    BY DEF DefaultStaysOnSale
  <2>1. CASE \E s \in Merchant : FinishPackCall(s)
    BY <2>1, WrittenPacks
  <2>2. CASE ~\E s \in Merchant : FinishPackCall(s)
    BY <2>2 DEF PacksNext, OrderPack, ForgetOrders, BeginDefault, BeginDrop, BeginUpdate, BeginCreate,
                StartsPackCall
  <2>. QED  BY <2>1, <2>2
<1>. QED  BY PacksStart, PacksStep, <1>1, PTL DEF PacksSpec

\* A product keeps one default package, and keeps it on sale (products.ts).
THEOREM DefaultsAreKept == PacksSpec => DefaultsKept
BY OneDefaultPack, DefaultOnSale, PTL DEF DefaultsKept
-----------------------------------------------------------------------------
(* The availability window. *)

Spans == [from : Day, through : Day]
DayRows == [accepts : BOOLEAN, soldOut : {"NO", "STAFF", "WINDOW"}, reserved : Int]
Stages == {"REST", "ROWS", "LIST", "SAVE", "CLOSE", "REOPEN"}
EditRows == [at : Stages, window : Spans, reopen : SUBSET Day]

WindowTypes ==
  /\ shopWindow \in Spans
  /\ dayRow \in [Day -> DayRows]
  /\ windowOrder \in [WindowOrder -> Day \cup {0}]
  /\ edit \in [WindowEditor -> EditRows]
  /\ windowRaced \in BOOLEAN /\ tidy \in BOOLEAN

\* What an edit may count on at each of its statements, as long as nothing
\* overlaps it: the orders fit the window it is about to save, the list holds
\* every row it will have to reopen, and once it has closed the rows outside
\* they are closed.
EditHolds(e) ==
  LET c == edit[e] IN
  /\ c.at \in {"ROWS", "LIST", "SAVE"} =>
       \A o \in WindowOrder : windowOrder[o] # 0 => InWindow(windowOrder[o], c.window)
  /\ c.at \in {"CLOSE", "REOPEN"} => shopWindow = c.window
  /\ c.at \in {"SAVE", "CLOSE", "REOPEN"} =>
       \A d \in Day : InWindow(d, c.window) /\ dayRow[d].soldOut = "WINDOW" => d \in c.reopen
  /\ c.at = "REOPEN" =>
       \A d \in Day : ~InWindow(d, c.window) => dayRow[d].soldOut = "WINDOW"
  /\ c.at # "REST" => \A f \in WindowEditor : edit[f].at # "REST" => f = e

OrdersInside ==
  \A o \in WindowOrder : windowOrder[o] # 0 => InWindow(windowOrder[o], shopWindow)

WindowInv ==
  /\ WindowTypes
  /\ \A d \in Day : dayRow[d].soldOut = "WINDOW" => ~dayRow[d].accepts
  /\ tidy => ~SomeoneEdits
  /\ windowRaced \/ (OrdersInside /\ \A e \in WindowEditor : EditHolds(e))
  /\ EditRepairs

LEMMA WindowsTyped == Resting \in EditRows /\ Windows \subseteq Spans /\ OpenRow \in DayRows
BY WindowConstants DEF Resting, EditRows, Stages, Spans, Day, Windows, OpenRow, DayRows

LEMMA WindowStart == WindowInit => WindowInv
<1>. SUFFICES ASSUME WindowInit PROVE WindowInv
  OBVIOUS
<1>1. WindowTypes
  BY WindowsTyped DEF WindowInit, WindowTypes
<1>2. \A d \in Day : dayRow[d].soldOut = "NO"
  BY DEF WindowInit, OpenRow
<1>3. /\ \A e \in WindowEditor : edit[e].at = "REST"
      /\ \A o \in WindowOrder : windowOrder[o] = 0
      /\ tidy = FALSE
  BY DEF WindowInit, Resting
<1>. QED  BY <1>1, <1>2, <1>3
          DEF WindowInv, SomeoneEdits, OrdersInside, EditHolds, EditRepairs

\* A row on which only reserved changed.
LEMMA ReservedChanges ==
  ASSUME WindowTypes, NEW d \in Day, NEW n \in Int,
         dayRow' = [dayRow EXCEPT ![d].reserved = n]
  PROVE  /\ dayRow' \in [Day -> DayRows]
         /\ \A x \in Day : /\ dayRow'[x].soldOut = dayRow[x].soldOut
                           /\ dayRow'[x].accepts = dayRow[x].accepts
<1>1. \A r \in DayRows : LET q == [r EXCEPT !.reserved = n] IN
        q \in DayRows /\ q.soldOut = r.soldOut /\ q.accepts = r.accepts
  BY DEF DayRows
<1>2. dayRow[d] \in DayRows /\ dayRow' = [dayRow EXCEPT ![d] = [dayRow[d] EXCEPT !.reserved = n]]
  BY DEF WindowTypes
<1>. DEFINE row == [dayRow[d] EXCEPT !.reserved = n]
<1>3. row \in DayRows /\ row.soldOut = dayRow[d].soldOut /\ row.accepts = dayRow[d].accepts
  BY <1>1, <1>2
<1>4. dayRow' = [dayRow EXCEPT ![d] = row]
  BY <1>2
<1>. HIDE DEF row
<1>. QED  BY <1>3, <1>4 DEF WindowTypes

LEMMA OrderStepsKeep ==
  ASSUME WindowInv, NEW o \in WindowOrder, NEW d \in Day, TakeOrder(o, d) \/ DropOrder(o)
  PROVE  WindowInv'
<1>0. WindowTypes /\ UNCHANGED <<shopWindow, edit, tidy>>
  BY DEF WindowInv, TakeOrder, DropOrder
<1>1. \A x \in Day : dayRow[x].reserved \in Int
  BY <1>0 DEF WindowTypes, DayRows
<1>3. /\ dayRow' \in [Day -> DayRows]
      /\ \A x \in Day : /\ dayRow'[x].soldOut = dayRow[x].soldOut
                        /\ dayRow'[x].accepts = dayRow[x].accepts
  <2>1. CASE TakeOrder(o, d)
    <3>. DEFINE n == dayRow[d].reserved + 1
    <3>1. dayRow' = [dayRow EXCEPT ![d].reserved = n] /\ n \in Int
      BY <2>1, <1>0, <1>1 DEF TakeOrder, WindowTypes
    <3>. HIDE DEF n
    <3>. QED  BY <3>1, <1>0, ReservedChanges
  <2>2. CASE DropOrder(o)
    <3>. DEFINE x == windowOrder[o]
                n == dayRow[x].reserved - 1
    <3>1. x \in Day
      BY <2>2, <1>0 DEF DropOrder, WindowTypes
    <3>2. dayRow' = [dayRow EXCEPT ![x].reserved = n] /\ n \in Int
      BY <2>2, <3>1, <1>0, <1>1 DEF DropOrder, WindowTypes
    <3>. HIDE DEF n, x
    <3>. QED  BY <3>1, <3>2, <1>0, ReservedChanges
  <2>. QED  BY <2>1, <2>2
<1>4. WindowTypes'
  BY <1>0, <1>3 DEF WindowTypes, TakeOrder, DropOrder
<1>5. windowRaced' \/ (OrdersInside /\ \A e \in WindowEditor : EditHolds(e))'
  <2>. SUFFICES ASSUME ~windowRaced'
                PROVE  OrdersInside' /\ \A e \in WindowEditor : EditHolds(e)'
    OBVIOUS
  <2>1. OrdersInside /\ \A e \in WindowEditor : EditHolds(e)
    BY DEF WindowInv, TakeOrder, DropOrder
  <2>2. CASE TakeOrder(o, d)
    <3>1. /\ InWindow(d, shopWindow) /\ windowOrder' = [windowOrder EXCEPT ![o] = d]
          /\ \A e \in WindowEditor : edit[e].at = "REST"
      BY <2>2 DEF TakeOrder, SomeoneEdits
    <3>. QED  BY <3>1, <2>1, <1>0 DEF OrdersInside, EditHolds, WindowTypes
  <2>3. CASE DropOrder(o)
    <3>1. windowOrder' = [windowOrder EXCEPT ![o] = 0]
      BY <2>3 DEF DropOrder
    <3>2. \A p \in WindowOrder : windowOrder'[p] # 0 => windowOrder'[p] = windowOrder[p]
      BY <3>1, <1>0 DEF WindowTypes
    <3>3. OrdersInside'
      BY <3>2, <2>1, <1>0 DEF OrdersInside
    <3>4. ASSUME NEW e \in WindowEditor PROVE EditHolds(e)'
      <4>1. EditHolds(e) /\ edit' = edit /\ shopWindow' = shopWindow
        BY <2>1, <1>0
      <4>. QED  BY <4>1, <3>2, <1>3 DEF EditHolds
    <3>. QED  BY <3>3, <3>4
  <2>. QED  BY <2>2, <2>3
<1>6. windowRaced => windowRaced'
  BY DEF TakeOrder, DropOrder
<1>. QED  BY <1>0, <1>3, <1>4, <1>5, <1>6 DEF WindowInv, SomeoneEdits, EditRepairs

LEMMA MarkRowKeeps ==
  ASSUME WindowInv, NEW d \in Day, NEW soldOut \in BOOLEAN, NEW accepts \in BOOLEAN,
         MarkRow(d, soldOut, accepts)
  PROVE  WindowInv'
<1>0. /\ WindowTypes /\ InWindow(d, shopWindow)
      /\ UNCHANGED <<shopWindow, windowOrder, edit, windowRaced, tidy>>
  BY DEF WindowInv, MarkRow
<1>. DEFINE word == IF soldOut THEN "STAFF" ELSE "NO"
            row == [[dayRow[d] EXCEPT !.soldOut = word] EXCEPT !.accepts = accepts]
<1>1. \A r \in DayRows :
        LET q == [[r EXCEPT !.soldOut = word] EXCEPT !.accepts = accepts] IN
        q \in DayRows /\ q.soldOut # "WINDOW"
  BY DEF DayRows
<1>2. dayRow[d] \in DayRows
  BY <1>0 DEF WindowTypes
<1>3. row \in DayRows /\ row.soldOut # "WINDOW"
  BY <1>1, <1>2
<1>4. dayRow' = [dayRow EXCEPT ![d] = row]
  BY <1>0 DEF MarkRow, WindowTypes
<1>. HIDE DEF row, word
<1>5. /\ dayRow' \in [Day -> DayRows] /\ dayRow'[d].soldOut # "WINDOW"
      /\ \A x \in Day \ {d} : dayRow'[x] = dayRow[x]
  BY <1>0, <1>3, <1>4 DEF WindowTypes
<1>6. WindowTypes'
  BY <1>0, <1>5 DEF WindowTypes
<1>7. ASSUME NEW e \in WindowEditor, EditHolds(e) PROVE EditHolds(e)'
  BY <1>0, <1>5, <1>7 DEF EditHolds
<1>. QED  BY <1>0, <1>5, <1>6, <1>7 DEF WindowInv, OrdersInside, SomeoneEdits, EditRepairs

LEMMA BeginEditKeeps ==
  ASSUME WindowInv, NEW e \in WindowEditor, NEW w \in Windows, BeginEdit(e, w)
  PROVE  WindowInv'
<1>. DEFINE new == Editing("ROWS", w, {})
<1>1. new \in EditRows /\ new.at = "ROWS" /\ new.window = w
  BY WindowsTyped DEF Editing, EditRows, Stages
<1>2. /\ WindowTypes /\ edit' = [edit EXCEPT ![e] = new] /\ tidy' = FALSE
      /\ windowRaced' = (windowRaced \/ SomeoneEdits)
      /\ UNCHANGED <<shopWindow, dayRow, windowOrder>>
      /\ \A o \in WindowOrder : windowOrder[o] # 0 => InWindow(windowOrder[o], w)
  BY DEF BeginEdit, WindowInv
<1>. HIDE DEF new
<1>3. /\ edit' \in [WindowEditor -> EditRows]
      /\ \A f \in WindowEditor : edit'[f] = IF f = e THEN new ELSE edit[f]
  BY <1>1, <1>2 DEF WindowTypes
<1>4. WindowTypes'
  BY <1>2, <1>3 DEF WindowTypes
<1>5. ASSUME ~windowRaced' PROVE OrdersInside' /\ \A f \in WindowEditor : EditHolds(f)'
  <2>1. OrdersInside /\ \A f \in WindowEditor : edit[f].at = "REST"
    BY <1>2, <1>5 DEF WindowInv, SomeoneEdits
  <2>2. ASSUME NEW f \in WindowEditor PROVE EditHolds(f)'
    <3>1. CASE f = e
      BY <3>1, <2>1, <1>1, <1>2, <1>3 DEF EditHolds
    <3>2. CASE f # e
      BY <3>2, <2>1, <1>3 DEF EditHolds
    <3>. QED  BY <3>1, <3>2
  <2>. QED  BY <2>1, <2>2, <1>2 DEF OrdersInside
<1>. QED  BY <1>2, <1>4, <1>5 DEF WindowInv, EditRepairs

\* The steps of an edit change where it is, and one thing more.
LEMMA EditMoves ==
  ASSUME WindowInv, NEW e \in WindowEditor, NEW new \in EditRows,
         edit[e].at # "REST",
         edit' = [edit EXCEPT ![e] = new],
         UNCHANGED <<windowOrder, windowRaced>>,
         shopWindow' \in Spans, dayRow' \in [Day -> DayRows], tidy' \in BOOLEAN
  PROVE  /\ WindowTypes' /\ ~tidy
         /\ edit'[e] = new /\ \A f \in WindowEditor \ {e} : edit'[f] = edit[f]
         /\ ~windowRaced' =>
              /\ OrdersInside /\ EditHolds(e)
              /\ \A f \in WindowEditor \ {e} : edit[f].at = "REST" /\ EditHolds(f)'
<1>1. WindowTypes' /\ ~tidy
  BY DEF WindowInv, WindowTypes, SomeoneEdits
<1>2. edit'[e] = new /\ \A f \in WindowEditor \ {e} : edit'[f] = edit[f]
  BY DEF WindowInv, WindowTypes
<1>3. ASSUME ~windowRaced'
      PROVE  /\ OrdersInside /\ EditHolds(e)
             /\ \A f \in WindowEditor \ {e} : edit[f].at = "REST" /\ EditHolds(f)'
  <2>1. OrdersInside /\ EditHolds(e)
    BY <1>3 DEF WindowInv
  <2>2. \A f \in WindowEditor \ {e} : edit[f].at = "REST"
    BY <2>1 DEF EditHolds
  <2>. QED  BY <1>2, <2>1, <2>2 DEF EditHolds
<1>. QED  BY <1>1, <1>2, <1>3

LEMMA Moved ==
  ASSUME WindowTypes, NEW e \in WindowEditor, NEW from, NEW to \in Stages, Leaves(e, from, to)
  PROVE  \E new \in EditRows :
           /\ edit' = [edit EXCEPT ![e] = new]
           /\ new.at = to /\ new.window = edit[e].window /\ new.reopen = edit[e].reopen
<1>1. \A r \in EditRows : LET q == [r EXCEPT !.at = to] IN
        q \in EditRows /\ q.at = to /\ q.window = r.window /\ q.reopen = r.reopen
  BY DEF EditRows
<1>. DEFINE new == [edit[e] EXCEPT !.at = to]
<1>2. edit[e] \in EditRows /\ edit' = [edit EXCEPT ![e] = new]
  BY DEF WindowTypes, Leaves
<1>3. new \in EditRows /\ new.at = to /\ new.window = edit[e].window /\ new.reopen = edit[e].reopen
  BY <1>1, <1>2
<1>. HIDE DEF new
<1>. QED  BY <1>2, <1>3

LEMMA CheckRowsKeeps ==
  ASSUME WindowInv, NEW e \in WindowEditor, CheckRows(e)
  PROVE  WindowInv'
<1>1. /\ WindowTypes /\ Leaves(e, "ROWS", "LIST") /\ edit[e].at = "ROWS"
      /\ UNCHANGED <<shopWindow, dayRow, windowOrder, windowRaced, tidy>>
  BY DEF WindowInv, CheckRows, Leaves
<1>2. PICK new \in EditRows : /\ edit' = [edit EXCEPT ![e] = new] /\ new.at = "LIST"
                              /\ new.window = edit[e].window /\ new.reopen = edit[e].reopen
  BY <1>1, Moved DEF Stages
<1>3. /\ WindowTypes' /\ ~tidy /\ edit'[e] = new /\ \A f \in WindowEditor \ {e} : edit'[f] = edit[f]
      /\ ~windowRaced' =>
           /\ OrdersInside /\ EditHolds(e)
           /\ \A f \in WindowEditor \ {e} : edit[f].at = "REST" /\ EditHolds(f)'
  BY <1>1, <1>2, EditMoves DEF WindowTypes
<1>4. ~windowRaced' => OrdersInside' /\ EditHolds(e)'
  BY <1>1, <1>2, <1>3 DEF EditHolds, OrdersInside
<1>. QED  BY <1>1, <1>3, <1>4 DEF WindowInv, EditRepairs

LEMMA ListRowsKeeps ==
  ASSUME WindowInv, NEW e \in WindowEditor, ListRows(e)
  PROVE  WindowInv'
<1>. DEFINE listed == {d \in Day : ClosedByWindow(d, edit[e].window)}
            new == Editing("SAVE", edit[e].window, listed)
<1>1. /\ WindowTypes /\ edit[e].at = "LIST" /\ edit' = [edit EXCEPT ![e] = new]
      /\ UNCHANGED <<shopWindow, dayRow, windowOrder, windowRaced, tidy>>
  BY DEF WindowInv, ListRows
<1>2. edit[e].window \in Spans
  BY <1>1 DEF WindowTypes, EditRows
<1>3. /\ new \in EditRows /\ new.at = "SAVE" /\ new.window = edit[e].window
      /\ new.reopen = listed
  BY <1>2 DEF Editing, EditRows, Stages
<1>4. \A d \in Day : InWindow(d, edit[e].window) /\ dayRow[d].soldOut = "WINDOW" => d \in listed
  BY DEF WindowInv, ClosedByWindow
<1>. HIDE DEF new, listed
<1>5. /\ WindowTypes' /\ ~tidy /\ edit'[e] = new /\ \A f \in WindowEditor \ {e} : edit'[f] = edit[f]
      /\ ~windowRaced' =>
           /\ OrdersInside /\ EditHolds(e)
           /\ \A f \in WindowEditor \ {e} : edit[f].at = "REST" /\ EditHolds(f)'
  BY <1>1, <1>3, EditMoves DEF WindowTypes
<1>6. ~windowRaced' => OrdersInside' /\ EditHolds(e)'
  BY <1>1, <1>3, <1>4, <1>5 DEF EditHolds, OrdersInside
<1>. QED  BY <1>1, <1>5, <1>6 DEF WindowInv, EditRepairs

LEMMA SaveWindowKeeps ==
  ASSUME WindowInv, NEW e \in WindowEditor, SaveWindow(e)
  PROVE  WindowInv'
<1>1. /\ WindowTypes /\ Leaves(e, "SAVE", "CLOSE") /\ edit[e].at = "SAVE"
      /\ shopWindow' = edit[e].window /\ edit[e].window \in Spans
      /\ UNCHANGED <<dayRow, windowOrder, windowRaced, tidy>>
  BY DEF WindowInv, SaveWindow, Leaves, WindowTypes, EditRows
<1>2. PICK new \in EditRows : /\ edit' = [edit EXCEPT ![e] = new] /\ new.at = "CLOSE"
                              /\ new.window = edit[e].window /\ new.reopen = edit[e].reopen
  BY <1>1, Moved DEF Stages
<1>3. /\ WindowTypes' /\ ~tidy /\ edit'[e] = new /\ \A f \in WindowEditor \ {e} : edit'[f] = edit[f]
      /\ ~windowRaced' =>
           /\ OrdersInside /\ EditHolds(e)
           /\ \A f \in WindowEditor \ {e} : edit[f].at = "REST" /\ EditHolds(f)'
  BY <1>1, <1>2, EditMoves DEF WindowTypes
<1>4. ~windowRaced' => OrdersInside' /\ EditHolds(e)'
  BY <1>1, <1>2, <1>3 DEF EditHolds, OrdersInside
<1>. QED  BY <1>1, <1>3, <1>4 DEF WindowInv, EditRepairs

LEMMA CloseRowsKeeps ==
  ASSUME WindowInv, NEW e \in WindowEditor, CloseRows(e)
  PROVE  WindowInv'
<1>. DEFINE w == edit[e].window
<1>1. /\ WindowTypes /\ Leaves(e, "CLOSE", "REOPEN") /\ edit[e].at = "CLOSE"
      /\ dayRow' = [d \in Day |-> IF InWindow(d, w) THEN dayRow[d]
                     ELSE [dayRow[d] EXCEPT !.accepts = FALSE, !.soldOut = "WINDOW"]]
      /\ UNCHANGED <<shopWindow, windowOrder, windowRaced, tidy>>
  BY DEF WindowInv, CloseRows, Leaves
<1>. HIDE DEF w
<1>2. \A r \in DayRows :
        LET q == [[r EXCEPT !.accepts = FALSE] EXCEPT !.soldOut = "WINDOW"] IN
        q \in DayRows /\ ~q.accepts /\ q.soldOut = "WINDOW"
  BY DEF DayRows
<1>3. ASSUME NEW d \in Day
      PROVE  /\ dayRow'[d] \in DayRows
             /\ InWindow(d, w) => dayRow'[d] = dayRow[d]
             /\ ~InWindow(d, w) => ~dayRow'[d].accepts /\ dayRow'[d].soldOut = "WINDOW"
  <2>1. dayRow[d] \in DayRows
    BY <1>1 DEF WindowTypes
  <2>2. CASE InWindow(d, w)
    BY <1>1, <2>1, <2>2
  <2>3. CASE ~InWindow(d, w)
    <3>1. dayRow'[d] = [[dayRow[d] EXCEPT !.accepts = FALSE] EXCEPT !.soldOut = "WINDOW"]
      BY <1>1, <2>3
    <3>. QED  BY <3>1, <2>1, <2>3, <1>2
  <2>. QED  BY <2>2, <2>3
<1>4. dayRow' \in [Day -> DayRows]
  <2>1. dayRow' = [d \in Day |-> dayRow'[d]]
    BY <1>1
  <2>. QED  BY <2>1, <1>3
<1>5. PICK new \in EditRows : /\ edit' = [edit EXCEPT ![e] = new] /\ new.at = "REOPEN"
                              /\ new.window = w /\ new.reopen = edit[e].reopen
  BY <1>1, Moved DEF Stages, w
<1>6. /\ WindowTypes' /\ ~tidy /\ edit'[e] = new /\ \A f \in WindowEditor \ {e} : edit'[f] = edit[f]
      /\ ~windowRaced' =>
           /\ OrdersInside /\ EditHolds(e)
           /\ \A f \in WindowEditor \ {e} : edit[f].at = "REST" /\ EditHolds(f)'
  BY <1>1, <1>4, <1>5, EditMoves DEF WindowTypes
<1>7. ~windowRaced' => OrdersInside' /\ EditHolds(e)'
  <2>. SUFFICES ASSUME ~windowRaced' PROVE OrdersInside' /\ EditHolds(e)'
    OBVIOUS
  <2>1. /\ edit'[e].at = "REOPEN" /\ edit'[e].window = w /\ edit'[e].reopen = edit[e].reopen
        /\ \A f \in WindowEditor : edit'[f].at # "REST" => f = e
    BY <1>5, <1>6
  <2>2. /\ shopWindow' = w /\ OrdersInside /\ windowOrder' = windowOrder /\ shopWindow' = shopWindow
        /\ \A d \in Day : InWindow(d, w) /\ dayRow[d].soldOut = "WINDOW" => d \in edit[e].reopen
    BY <1>1, <1>6 DEF EditHolds, w
  <2>3. EditHolds(e)'
    BY <2>1, <2>2, <1>3 DEF EditHolds
  <2>. QED  BY <2>2, <2>3 DEF OrdersInside
<1>8. \A d \in Day : dayRow'[d].soldOut = "WINDOW" => ~dayRow'[d].accepts
  BY <1>3 DEF WindowInv
<1>. QED  BY <1>1, <1>6, <1>7, <1>8 DEF WindowInv, EditRepairs

LEMMA ReopenRowsKeeps ==
  ASSUME WindowInv, NEW e \in WindowEditor, ReopenRows(e)
  PROVE  WindowInv'
<1>1. /\ WindowTypes /\ edit[e].at = "REOPEN"
      /\ dayRow' = [d \in Day |-> IF Reopens(e, d)
                      THEN [dayRow[d] EXCEPT !.accepts = TRUE, !.soldOut = "NO"] ELSE dayRow[d]]
      /\ edit' = [edit EXCEPT ![e] = Resting]
      /\ tidy' = ~\E f \in WindowEditor \ {e} : edit[f].at # "REST"
      /\ UNCHANGED <<shopWindow, windowOrder, windowRaced>>
  BY DEF WindowInv, ReopenRows
<1>2. \A r \in DayRows :
        LET q == [[r EXCEPT !.accepts = TRUE] EXCEPT !.soldOut = "NO"] IN
        q \in DayRows /\ q.soldOut # "WINDOW"
  BY DEF DayRows
<1>3. ASSUME NEW d \in Day
      PROVE  /\ dayRow'[d] \in DayRows
             /\ Reopens(e, d) => dayRow'[d].soldOut # "WINDOW"
             /\ ~Reopens(e, d) => dayRow'[d] = dayRow[d]
  <2>1. dayRow[d] \in DayRows
    BY <1>1 DEF WindowTypes
  <2>2. CASE ~Reopens(e, d)
    BY <1>1, <2>1, <2>2
  <2>3. CASE Reopens(e, d)
    <3>1. dayRow'[d] = [[dayRow[d] EXCEPT !.accepts = TRUE] EXCEPT !.soldOut = "NO"]
      BY <1>1, <2>3
    <3>. QED  BY <3>1, <2>1, <2>3, <1>2
  <2>. QED  BY <2>2, <2>3
<1>4. dayRow' \in [Day -> DayRows]
  <2>1. dayRow' = [d \in Day |-> dayRow'[d]]
    BY <1>1
  <2>. QED  BY <2>1, <1>3
<1>5. Resting \in EditRows /\ Resting.at = "REST"
  BY WindowsTyped DEF Resting
<1>6. /\ WindowTypes' /\ edit'[e] = Resting /\ \A f \in WindowEditor \ {e} : edit'[f] = edit[f]
      /\ ~windowRaced' =>
           /\ OrdersInside /\ EditHolds(e)
           /\ \A f \in WindowEditor \ {e} : edit[f].at = "REST" /\ EditHolds(f)'
  <2>1. tidy' \in BOOLEAN
    BY <1>1
  <2>. QED  BY <1>1, <1>4, <1>5, <2>1, EditMoves DEF WindowTypes
<1>7. ~windowRaced' => OrdersInside' /\ EditHolds(e)'
  BY <1>1, <1>5, <1>6 DEF EditHolds, OrdersInside
<1>8. \A d \in Day : dayRow'[d].soldOut = "WINDOW" => ~dayRow'[d].accepts
  BY <1>3 DEF WindowInv
<1>9. tidy' => ~SomeoneEdits'
  BY <1>1, <1>5, <1>6 DEF SomeoneEdits
<1>10. ~windowRaced' =>
         \A d \in Day : ~InWindow(d, shopWindow)' <=> dayRow'[d].soldOut = "WINDOW"
  <2>. SUFFICES ASSUME ~windowRaced', NEW d \in Day
                PROVE  ~InWindow(d, shopWindow) <=> dayRow'[d].soldOut = "WINDOW"
    BY <1>1 DEF InWindow
  <2>1. EditHolds(e) /\ shopWindow = edit[e].window
    BY <1>1, <1>6 DEF EditHolds
  <2>2. CASE InWindow(d, shopWindow)
    <3>1. dayRow[d].soldOut = "WINDOW" => Reopens(e, d)
      BY <2>1, <2>2, <1>1 DEF EditHolds, WindowInv, Reopens, ClosedByWindow
    <3>. QED  BY <3>1, <2>2, <1>3
  <2>3. CASE ~InWindow(d, shopWindow)
    BY <2>1, <2>3, <1>1, <1>3 DEF EditHolds, Reopens, ClosedByWindow
  <2>. QED  BY <2>2, <2>3
<1>. QED  BY <1>6, <1>7, <1>8, <1>9, <1>10 DEF WindowInv, EditRepairs

LEMMA AbandonEditKeeps ==
  ASSUME WindowInv, NEW e \in WindowEditor, AbandonEdit(e)
  PROVE  WindowInv'
<1>1. /\ WindowTypes /\ edit[e].at # "REST" /\ edit' = [edit EXCEPT ![e] = Resting]
      /\ UNCHANGED <<shopWindow, dayRow, windowOrder, windowRaced, tidy>>
  BY DEF WindowInv, AbandonEdit
<1>2. Resting \in EditRows /\ Resting.at = "REST"
  BY WindowsTyped DEF Resting
<1>3. /\ WindowTypes' /\ ~tidy /\ edit'[e] = Resting
      /\ \A f \in WindowEditor \ {e} : edit'[f] = edit[f]
      /\ ~windowRaced' =>
           /\ OrdersInside /\ EditHolds(e)
           /\ \A f \in WindowEditor \ {e} : edit[f].at = "REST" /\ EditHolds(f)'
  BY <1>1, <1>2, EditMoves DEF WindowTypes
<1>4. ~windowRaced' => OrdersInside' /\ EditHolds(e)'
  BY <1>1, <1>2, <1>3 DEF EditHolds, OrdersInside
<1>. QED  BY <1>1, <1>3, <1>4 DEF WindowInv, EditRepairs

LEMMA WindowStep == WindowInv /\ [WindowNext]_windowVars => WindowInv'
<1>. SUFFICES ASSUME WindowInv, [WindowNext]_windowVars PROVE WindowInv'
  OBVIOUS
<1>1. CASE UNCHANGED windowVars
  BY <1>1 DEF windowVars, WindowInv, WindowTypes, SomeoneEdits, OrdersInside, EditHolds, EditRepairs
<1>2. CASE WindowNext
  <2>1. ASSUME NEW o \in WindowOrder, DropOrder(o) \/ \E d \in Day : TakeOrder(o, d)
        PROVE  WindowInv'
    <3>1. \E d \in Day : TRUE
      BY WindowConstants DEF Day
    <3>. QED  BY <2>1, <3>1, OrderStepsKeep
  <2>2. ASSUME NEW d \in Day, NEW soldOut \in BOOLEAN, NEW accepts \in BOOLEAN,
               MarkRow(d, soldOut, accepts)
        PROVE  WindowInv'
    BY <2>2, MarkRowKeeps
  <2>3. ASSUME NEW e \in WindowEditor,
               \/ \E w \in Windows : BeginEdit(e, w)
               \/ CheckRows(e) \/ ListRows(e) \/ SaveWindow(e)
               \/ CloseRows(e) \/ ReopenRows(e) \/ AbandonEdit(e)
        PROVE  WindowInv'
    <3>1. CASE \E w \in Windows : BeginEdit(e, w)
      BY <3>1, BeginEditKeeps
    <3>2. CASE CheckRows(e) \/ ListRows(e) \/ SaveWindow(e)
      BY <3>2, CheckRowsKeeps, ListRowsKeeps, SaveWindowKeeps
    <3>3. CASE CloseRows(e) \/ ReopenRows(e) \/ AbandonEdit(e)
      BY <3>3, CloseRowsKeeps, ReopenRowsKeeps, AbandonEditKeeps
    <3>. QED  BY <2>3, <3>1, <3>2, <3>3
  <2>. QED  BY <1>2, <2>1, <2>2, <2>3 DEF WindowNext
<1>. QED  BY <1>1, <1>2

\* For any dates, orders and members of staff, an edit of the window leaves no
\* order outside unless something overlapped it (updateProduct).
THEOREM OrdersStayInWindow == WindowSpec => []OrdersInWindow
<1>1. WindowInv => OrdersInWindow
  <2>. SUFFICES ASSUME WindowInv, ~windowRaced, NEW o \in WindowOrder, windowOrder[o] # 0
                PROVE  windowOrder[o] \in shopWindow.from..shopWindow.through
    BY DEF OrdersInWindow
  <2>1. windowOrder[o] \in Day /\ shopWindow \in Spans /\ InWindow(windowOrder[o], shopWindow)
    BY DEF WindowInv, WindowTypes, OrdersInside
  <2>. QED  BY <2>1 DEF InWindow, Spans, Day
<1>. QED  BY WindowStart, WindowStep, <1>1, PTL DEF WindowSpec

\* An edit that ran to its end leaves the rows as the window says, whatever
\* edits died before it (updateProduct).
THEOREM EditsRepair == WindowSpec => []EditRepairs
<1>1. WindowInv => EditRepairs
  BY DEF WindowInv
<1>. QED  BY WindowStart, WindowStep, <1>1, PTL DEF WindowSpec

\* The orders on a date are finitely many, and its row counts them.
OrdersOn(d) == {o \in WindowOrder : windowOrder[o] = d}
RowsCount ==
  \A d \in Day : IsFiniteSet(OrdersOn(d)) /\ dayRow[d].reserved = Cardinality(OrdersOn(d))

\* Windows are saved as they were asked for, and only dates are marked by staff.
WindowsSaved ==
  /\ shopWindow \in Windows /\ \A e \in WindowEditor : edit[e].window \in Windows
  /\ byStaff \subseteq Day

\* Of the steps of the window only taking and dropping an order change a count.
LEMMA CountsStay ==
  ASSUME WindowTypes, RowsCount, UNCHANGED windowOrder,
         \A d \in Day : dayRow'[d].reserved = dayRow[d].reserved
  PROVE  RowsCount'
BY DEF RowsCount, OrdersOn

LEMMA CountsStep == WindowInv /\ RowsCount /\ [WindowNext]_windowVars => RowsCount'
<1>. SUFFICES ASSUME WindowInv, RowsCount, [WindowNext]_windowVars PROVE RowsCount'
  OBVIOUS
<1>1. /\ WindowTypes
      /\ \A d \in Day : /\ dayRow[d] \in DayRows /\ IsFiniteSet(OrdersOn(d))
                        /\ dayRow[d].reserved = Cardinality(OrdersOn(d))
                        /\ Cardinality(OrdersOn(d)) \in Nat
  BY FS_CardinalityType DEF WindowInv, WindowTypes, RowsCount
<1>2. ASSUME NEW o \in WindowOrder, NEW d \in Day, TakeOrder(o, d) PROVE RowsCount'
  <2>1. /\ dayRow' = [dayRow EXCEPT ![d] = [dayRow[d] EXCEPT !.reserved = dayRow[d].reserved + 1]]
        /\ windowOrder' = [windowOrder EXCEPT ![o] = d] /\ windowOrder[o] = 0
    BY <1>2 DEF TakeOrder
  <2>2. \A x \in Day : OrdersOn(x)' = IF x = d THEN OrdersOn(x) \cup {o} ELSE OrdersOn(x)
    BY <1>1, <2>1 DEF OrdersOn, WindowTypes, Day
  <2>3. \A x \in Day : dayRow'[x].reserved =
                       IF x = d THEN dayRow[x].reserved + 1 ELSE dayRow[x].reserved
    BY <1>1, <2>1 DEF WindowTypes, DayRows
  <2>4. o \notin OrdersOn(d)
    BY <2>1 DEF OrdersOn, Day
  <2>5. IsFiniteSet(OrdersOn(d) \cup {o})
        /\ Cardinality(OrdersOn(d) \cup {o}) = Cardinality(OrdersOn(d)) + 1
    BY <1>1, <2>4, FS_AddElement
  <2>. QED  BY <1>1, <2>2, <2>3, <2>5 DEF RowsCount
<1>3. ASSUME NEW o \in WindowOrder, DropOrder(o) PROVE RowsCount'
  <2>. DEFINE d == windowOrder[o]
  <2>1. /\ dayRow' = [dayRow EXCEPT ![d] = [dayRow[d] EXCEPT !.reserved = dayRow[d].reserved - 1]]
        /\ windowOrder' = [windowOrder EXCEPT ![o] = 0] /\ d \in Day
    BY <1>1, <1>3 DEF DropOrder, WindowTypes
  <2>2. \A x \in Day : OrdersOn(x)' = IF x = d THEN OrdersOn(x) \ {o} ELSE OrdersOn(x)
    BY <1>1, <2>1 DEF OrdersOn, WindowTypes, Day
  <2>3. \A x \in Day : dayRow'[x].reserved =
                       IF x = d THEN dayRow[x].reserved - 1 ELSE dayRow[x].reserved
    BY <1>1, <2>1 DEF WindowTypes, DayRows
  <2>4. o \in OrdersOn(d)
    BY DEF OrdersOn
  <2>5. IsFiniteSet(OrdersOn(d) \ {o})
        /\ Cardinality(OrdersOn(d) \ {o}) = Cardinality(OrdersOn(d)) - 1
    BY <1>1, <2>1, <2>4, FS_RemoveElement
  <2>. HIDE DEF d
  <2>. QED  BY <1>1, <2>1, <2>2, <2>3, <2>5 DEF RowsCount
<1>4. ASSUME NEW d \in Day, NEW soldOut \in BOOLEAN, NEW accepts \in BOOLEAN,
             MarkRow(d, soldOut, accepts)
      PROVE  RowsCount'
  <2>1. /\ dayRow' = [dayRow EXCEPT ![d] = [[dayRow[d] EXCEPT
                         !.soldOut = IF soldOut THEN "STAFF" ELSE "NO"] EXCEPT !.accepts = accepts]]
        /\ UNCHANGED windowOrder
    BY <1>1, <1>4 DEF MarkRow, WindowTypes
  <2>2. \A x \in Day : dayRow'[x].reserved = dayRow[x].reserved
    BY <1>1, <2>1 DEF WindowTypes, DayRows
  <2>. QED  BY <1>1, <2>1, <2>2, CountsStay
<1>5. ASSUME NEW e \in WindowEditor, CloseRows(e) \/ ReopenRows(e) PROVE RowsCount'
  <2>1. \A x \in Day : dayRow'[x].reserved = dayRow[x].reserved
    <3>. SUFFICES ASSUME NEW x \in Day PROVE dayRow'[x].reserved = dayRow[x].reserved
      OBVIOUS
    <3>1. /\ [dayRow[x] EXCEPT !.accepts = FALSE, !.soldOut = "WINDOW"].reserved = dayRow[x].reserved
          /\ [dayRow[x] EXCEPT !.accepts = TRUE, !.soldOut = "NO"].reserved = dayRow[x].reserved
      BY <1>1 DEF DayRows
    <3>2. dayRow'[x] \in {dayRow[x], [dayRow[x] EXCEPT !.accepts = FALSE, !.soldOut = "WINDOW"],
                         [dayRow[x] EXCEPT !.accepts = TRUE, !.soldOut = "NO"]}
      BY <1>5 DEF CloseRows, ReopenRows
    <3>. QED  BY <3>1, <3>2
  <2>2. UNCHANGED windowOrder
    BY <1>5 DEF CloseRows, ReopenRows
  <2>. QED  BY <1>1, <2>1, <2>2, CountsStay
<1>6. ASSUME UNCHANGED <<dayRow, windowOrder>> PROVE RowsCount'
  BY <1>1, <1>6, CountsStay
<1>7. CASE UNCHANGED windowVars
  BY <1>6, <1>7 DEF windowVars
<1>. QED  BY <1>2, <1>3, <1>4, <1>5, <1>6, <1>7
          DEF WindowNext, BeginEdit, CheckRows, ListRows, SaveWindow, AbandonEdit

LEMMA SavedStep == WindowInv /\ WindowsSaved /\ [WindowNext]_windowVars => WindowsSaved'
<1>. SUFFICES ASSUME WindowInv, WindowsSaved, [WindowNext]_windowVars PROVE WindowsSaved'
  OBVIOUS
<1>1. edit \in [WindowEditor -> EditRows] /\ \A e \in WindowEditor : edit[e].window \in Windows
  BY DEF WindowInv, WindowTypes, WindowsSaved
<1>2. ASSUME NEW e \in WindowEditor, NEW row, edit' = [edit EXCEPT ![e] = row],
             row.window \in Windows
      PROVE  \A f \in WindowEditor : edit'[f].window \in Windows
  BY <1>1, <1>2
<1>3. Resting.window \in Windows
  BY WindowConstants DEF Resting, Windows, Day
<1>4. ASSUME NEW e \in WindowEditor, NEW w \in Windows, BeginEdit(e, w) PROVE WindowsSaved'
  BY <1>2, <1>4 DEF BeginEdit, Editing, WindowsSaved
<1>5. ASSUME NEW e \in WindowEditor, ListRows(e) PROVE WindowsSaved'
  BY <1>1, <1>2, <1>5 DEF ListRows, Editing, WindowsSaved
<1>6. ASSUME NEW e \in WindowEditor, ReopenRows(e) \/ AbandonEdit(e) PROVE WindowsSaved'
  BY <1>2, <1>3, <1>6 DEF ReopenRows, AbandonEdit, WindowsSaved
<1>7. ASSUME NEW e \in WindowEditor, CheckRows(e) \/ SaveWindow(e) \/ CloseRows(e)
      PROVE  WindowsSaved'
  <2>1. PICK to \in Stages : edit' = [edit EXCEPT ![e] = [edit[e] EXCEPT !.at = to]]
    BY <1>7 DEF CheckRows, SaveWindow, CloseRows, Leaves, Stages
  <2>2. [edit[e] EXCEPT !.at = to].window \in Windows
    BY <1>1 DEF EditRows
  <2>3. shopWindow' \in Windows /\ byStaff' = byStaff
    BY <1>1, <1>7 DEF CheckRows, SaveWindow, CloseRows, WindowsSaved
  <2>. QED  BY <1>2, <2>1, <2>2, <2>3 DEF WindowsSaved
<1>8. ASSUME UNCHANGED <<shopWindow, edit>>, byStaff' \subseteq Day PROVE WindowsSaved'
  BY <1>8 DEF WindowsSaved
<1>9. CASE UNCHANGED windowVars
  BY <1>8, <1>9 DEF windowVars, WindowsSaved
<1>10. ASSUME NEW d \in Day, NEW soldOut \in BOOLEAN, NEW accepts \in BOOLEAN,
              MarkRow(d, soldOut, accepts)
       PROVE  WindowsSaved'
  BY <1>8, <1>10 DEF MarkRow, WindowsSaved
<1>11. ASSUME NEW o \in WindowOrder, DropOrder(o) \/ \E d \in Day : TakeOrder(o, d)
       PROVE  WindowsSaved'
  BY <1>8, <1>11 DEF DropOrder, TakeOrder, WindowsSaved
<1>. QED  BY <1>4, <1>5, <1>6, <1>7, <1>9, <1>10, <1>11 DEF WindowNext

\* However edits of the window, marks of staff and orders interleave, and
\* wherever edits die, the row of a date counts the orders on it
\* (updateProduct, beside what intakeOrderCore and transitionOrder reserve).
THEOREM RowsCountOrders ==
  WindowSpec => [](\A d \in Day : dayRow[d].reserved = Cardinality(OrdersOn(d)))
<1>1. WindowInit => RowsCount
  <2>1. WindowInit => \A d \in Day : OrdersOn(d) = {} /\ dayRow[d].reserved = 0
    BY DEF WindowInit, OrdersOn, OpenRow, Day
  <2>. QED  BY <2>1, FS_EmptySet DEF RowsCount
<1>2. RowsCount => \A d \in Day : dayRow[d].reserved = Cardinality(OrdersOn(d))
  BY DEF RowsCount
<1>. QED  BY WindowStart, WindowStep, CountsStep, <1>1, <1>2, PTL DEF WindowSpec

\* A row never counts fewer orders than none, as its reserved volume is what the
\* orders on its date take.
LEMMA WindowTyped == WindowSpec => []WindowTypeOK
<1>1. WindowInit => RowsCount /\ WindowsSaved
  <2>1. WindowInit => \A d \in Day : OrdersOn(d) = {} /\ dayRow[d].reserved = 0
    BY DEF WindowInit, OrdersOn, OpenRow, Day
  <2>2. Resting.window \in Windows
    BY WindowConstants DEF Resting, Windows, Day
  <2>. QED  BY <2>1, <2>2, FS_EmptySet DEF RowsCount, WindowsSaved, WindowInit
<1>2. WindowInv /\ RowsCount /\ WindowsSaved => WindowTypeOK
  <2>. SUFFICES ASSUME WindowInv, RowsCount, WindowsSaved PROVE WindowTypeOK
    OBVIOUS
  <2>1. \A d \in Day : dayRow[d] \in DayRows /\ dayRow[d].reserved \in Nat
    BY FS_CardinalityType DEF RowsCount, WindowInv, WindowTypes
  <2>2. dayRow \in [Day -> [accepts : BOOLEAN, soldOut : {"NO", "STAFF", "WINDOW"},
                           reserved : Nat]]
    BY <2>1 DEF WindowInv, WindowTypes, DayRows
  <2>. QED  BY <2>2 DEF WindowInv, WindowTypes, WindowsSaved, WindowTypeOK, EditRows, Stages, Spans
<1>. QED  BY WindowStart, WindowStep, CountsStep, SavedStep, <1>1, <1>2, PTL DEF WindowSpec
-----------------------------------------------------------------------------
(* Storefront themes. *)

Versions == [theme : Theme, status : VersionStatus]
Pages == [draft : Nat, theme : Theme, seen : Nat, busy : BOOLEAN]

\* A page's draft, and all it has seen, are versions that were made, and the page shows
\* its theme as long as the draft is one and was not saved again.
PageHolds(s) ==
  /\ themePage[s].draft <= Len(versions) /\ themePage[s].seen <= Len(versions)
  /\ themePage[s].draft \in VersionsIn("DRAFT") =>
       themePage[s].theme = versions[themePage[s].draft].theme \/ s \in resaved

ThemesInv ==
  /\ versions \in Seq(Versions) /\ liveTheme \in Theme /\ themePage \in [Designer -> Pages]
  /\ LiveIsPublished
  /\ \A s \in Designer : PageHolds(s)

\* The list m is the list with every version of one status given another.
Marks(m, list, from, to) ==
  /\ m \in Seq(Versions) /\ Len(m) = Len(list)
  /\ \A v \in 1..Len(list) :
       /\ m[v].theme = list[v].theme
       /\ m[v].status = IF list[v].status = from THEN to ELSE list[v].status

LEMMA MarkedVersions ==
  ASSUME NEW list \in Seq(Versions), NEW from, NEW to \in VersionStatus
  PROVE  Marks(Marked(list, from, to), list, from, to)
<1>. DEFINE m == Marked(list, from, to)
<1>1. DOMAIN list = 1..Len(list) /\ Len(list) \in Nat /\ list \in [1..Len(list) -> Versions]
  BY LenProperties
<1>2. \A r \in Versions : LET q == [r EXCEPT !.status = to] IN
        q \in Versions /\ q.theme = r.theme /\ q.status = to
  BY DEF Versions
<1>3. m = [v \in 1..Len(list) |-> IF list[v].status = from
                                  THEN [list[v] EXCEPT !.status = to] ELSE list[v]]
  BY <1>1 DEF Marked
<1>4. ASSUME NEW v \in 1..Len(list)
      PROVE  /\ m[v] \in Versions /\ m[v].theme = list[v].theme
             /\ m[v].status = IF list[v].status = from THEN to ELSE list[v].status
  <2>1. list[v] \in Versions
    BY <1>1
  <2>2. CASE list[v].status = from
    <3>1. m[v] = [list[v] EXCEPT !.status = to]
      BY <1>3, <2>2
    <3>. QED  BY <3>1, <2>1, <2>2, <1>2
  <2>3. CASE list[v].status # from
    <3>1. m[v] = list[v]
      BY <1>3, <2>3
    <3>. QED  BY <3>1, <2>1, <2>3
  <2>. QED  BY <2>2, <2>3
<1>5. m = [v \in 1..Len(list) |-> m[v]]
  BY <1>3
<1>. HIDE DEF m
<1>6. m \in [1..Len(list) -> Versions]
  BY <1>4, <1>5
<1>7. m \in Seq(Versions)
  BY <1>1, <1>6, SeqDef
<1>8. Len(m) = Len(list)
  BY <1>1, <1>6, <1>7, LenProperties
<1>. QED  BY <1>4, <1>7, <1>8 DEF m, Marks

LEMMA VersionReplaced ==
  ASSUME NEW list \in Seq(Versions), NEW d \in 1..Len(list), NEW r \in Versions,
         NEW new, new = [list EXCEPT ![d] = r]
  PROVE  /\ new \in Seq(Versions) /\ Len(new) = Len(list) /\ new[d] = r
         /\ \A v \in 1..Len(list) : v # d => new[v] = list[v]
BY ExceptSeq

LEMMA StatusReplaced ==
  ASSUME NEW list \in Seq(Versions), NEW d \in 1..Len(list), NEW to \in VersionStatus,
         NEW new, new = [list EXCEPT ![d].status = to]
  PROVE  /\ new \in Seq(Versions) /\ Len(new) = Len(list)
         /\ new[d].status = to /\ new[d].theme = list[d].theme
         /\ \A v \in 1..Len(list) : v # d => new[v] = list[v]
<1>. DEFINE r == [list[d] EXCEPT !.status = to]
<1>1. list[d] \in Versions /\ new = [list EXCEPT ![d] = r]
  BY ElementOfSeq
<1>2. \A q \in Versions : LET p == [q EXCEPT !.status = to] IN
        p \in Versions /\ p.theme = q.theme /\ p.status = to
  BY DEF Versions
<1>3. r \in Versions /\ r.theme = list[d].theme /\ r.status = to
  BY <1>1, <1>2
<1>. HIDE DEF r
<1>. QED  BY <1>1, <1>3, VersionReplaced

LEMMA ThemeReplaced ==
  ASSUME NEW list \in Seq(Versions), NEW d \in 1..Len(list), NEW t \in Theme,
         NEW new, new = [list EXCEPT ![d].theme = t]
  PROVE  /\ new \in Seq(Versions) /\ Len(new) = Len(list)
         /\ new[d].theme = t /\ new[d].status = list[d].status
         /\ \A v \in 1..Len(list) : v # d => new[v] = list[v]
<1>. DEFINE r == [list[d] EXCEPT !.theme = t]
<1>1. list[d] \in Versions /\ new = [list EXCEPT ![d] = r]
  BY ElementOfSeq
<1>2. \A q \in Versions : LET p == [q EXCEPT !.theme = t] IN
        p \in Versions /\ p.theme = t /\ p.status = q.status
  BY DEF Versions
<1>3. r \in Versions /\ r.theme = t /\ r.status = list[d].status
  BY <1>1, <1>2
<1>. HIDE DEF r
<1>. QED  BY <1>1, <1>3, VersionReplaced

\* What the invariant says of the list: there is a latest draft, the only one.
LEMMA DraftFacts ==
  ASSUME ThemesInv
  PROVE  /\ Len(versions) \in Nat /\ DOMAIN versions = 1..Len(versions)
         /\ \A v \in 1..Len(versions) : versions[v] \in Versions
         /\ \A st : VersionsIn(st) = {v \in 1..Len(versions) : versions[v].status = st}
         /\ VersionsIn("DRAFT") # {} =>
              LatestDraft \in VersionsIn("DRAFT") /\ VersionsIn("DRAFT") = {LatestDraft}
<1>1. /\ Len(versions) \in Nat /\ DOMAIN versions = 1..Len(versions)
      /\ \A v \in 1..Len(versions) : versions[v] \in Versions
  BY LenProperties, ElementOfSeq DEF ThemesInv
<1>2. \A st : VersionsIn(st) = {v \in 1..Len(versions) : versions[v].status = st}
  BY <1>1 DEF VersionsIn
<1>3. ASSUME VersionsIn("DRAFT") # {}
      PROVE  LatestDraft \in VersionsIn("DRAFT") /\ VersionsIn("DRAFT") = {LatestDraft}
  <2>1. PICK d \in VersionsIn("DRAFT") : TRUE
    BY <1>3
  <2>2. VersionsIn("DRAFT") = {d}
    BY <2>1, <1>1, <1>2 DEF ThemesInv, LiveIsPublished
  <2>3. d \in Int
    BY <2>1, <1>2
  <2>4. \E x \in VersionsIn("DRAFT") : \A e \in VersionsIn("DRAFT") : e <= x
    BY <2>2, <2>3
  <2>5. LatestDraft \in VersionsIn("DRAFT")
    BY <2>4 DEF LatestDraft
  <2>. QED  BY <2>2, <2>5
<1>. QED  BY <1>1, <1>2, <1>3

LEMMA ThemesStart == ThemesInit => ThemesInv
<1>. SUFFICES ASSUME ThemesInit PROVE ThemesInv
  OBVIOUS
<1>1. versions = << >> /\ versions \in Seq(Versions) /\ Len(versions) = 0
  BY EmptySeq DEF ThemesInit
<1>2. DOMAIN versions = {}
  BY <1>1, LenProperties
<1>3. liveTheme = DefaultTheme /\ liveTheme \in Theme
  BY ThemeConstants DEF ThemesInit
<1>4. /\ Page(NoDraft, DefaultTheme, 0, FALSE) \in Pages 
      /\ Page(NoDraft, DefaultTheme, 0, FALSE).draft = 0 /\ Page(NoDraft, DefaultTheme, 0, FALSE).seen = 0
  BY ThemeConstants DEF Page, Pages, NoDraft
<1>5. themePage \in [Designer -> Pages] /\ \A s \in Designer : themePage[s].draft = 0 /\ themePage[s].seen = 0
  BY <1>4 DEF ThemesInit
<1>6. \A st : VersionsIn(st) = {}
  BY <1>2 DEF VersionsIn
<1>. QED  BY <1>1, <1>2, <1>3, <1>5, <1>6 DEF ThemesInv, LiveIsPublished, PageHolds

\* A request leaves what every page shows, and so does its lost answer.
LEMMA BusyChanges ==
  ASSUME ThemesInv, NEW s \in Designer, NEW b \in BOOLEAN,
         themePage' = [themePage EXCEPT ![s].busy = b]
  PROVE  /\ themePage' \in [Designer -> Pages]
         /\ \A p \in Designer : /\ themePage'[p].draft = themePage[p].draft
                                /\ themePage'[p].theme = themePage[p].theme
                                /\ themePage'[p].seen = themePage[p].seen
         /\ \A p \in Designer \ {s} : themePage'[p] = themePage[p]
<1>. DEFINE r == [themePage[s] EXCEPT !.busy = b]
<1>1. themePage \in [Designer -> Pages] /\ themePage' = [themePage EXCEPT ![s] = r]
  BY DEF ThemesInv
<1>2. \A q \in Pages : LET x == [q EXCEPT !.busy = b] IN
        x \in Pages /\ x.draft = q.draft /\ x.theme = q.theme /\ x.seen = q.seen
  BY DEF Pages
<1>3. /\ r \in Pages /\ r.draft = themePage[s].draft
      /\ r.theme = themePage[s].theme /\ r.seen = themePage[s].seen
  BY <1>1, <1>2
<1>. HIDE DEF r
<1>. QED  BY <1>1, <1>3

LEMMA PageStepsKeep ==
  ASSUME ThemesInv, NEW s \in Designer, ShowThemes(s) \/ AnswerLost(s)
  PROVE  ThemesInv'
<1>1. CASE ShowThemes(s)
  <2>1. /\ themePage' = [themePage EXCEPT ![s] = ThemeState] /\ resaved' = resaved \ {s}
        /\ UNCHANGED <<versions, liveTheme>>
    BY <1>1 DEF ShowThemes
  <2>2. /\ ThemeState \in Pages /\ ThemeState.draft <= Len(versions) /\ ThemeState.seen <= Len(versions)
        /\ ThemeState.draft \in VersionsIn("DRAFT") =>
             ThemeState.theme = versions[ThemeState.draft].theme
    <3>1. CASE VersionsIn("DRAFT") = {}
      BY <3>1, DraftFacts DEF ThemeState, Page, Pages, NoDraft, ThemesInv
    <3>2. CASE VersionsIn("DRAFT") # {}
      <4>1. LatestDraft \in 1..Len(versions) /\ versions[LatestDraft].theme \in Theme
        BY <3>2, DraftFacts DEF Versions
      <4>. HIDE DEF LatestDraft
      <4>. QED  BY <3>2, <4>1, DraftFacts DEF ThemeState, Page, Pages
    <3>. QED  BY <3>1, <3>2
  <2>3. /\ themePage' \in [Designer -> Pages] /\ themePage'[s] = ThemeState
        /\ \A p \in Designer \ {s} : themePage'[p] = themePage[p]
    BY <2>1, <2>2 DEF ThemesInv
  <2>4. ASSUME NEW p \in Designer PROVE PageHolds(p)'
    BY <2>1, <2>2, <2>3 DEF ThemesInv, PageHolds, VersionsIn
  <2>. QED  BY <2>1, <2>3, <2>4 DEF ThemesInv, LiveIsPublished, VersionsIn
<1>2. CASE AnswerLost(s)
  <2>1. /\ themePage' = [themePage EXCEPT ![s].busy = FALSE]
        /\ UNCHANGED <<versions, liveTheme, resaved>>
    BY <1>2 DEF AnswerLost
  <2>2. themePage' \in [Designer -> Pages]
        /\ \A p \in Designer : /\ themePage'[p].draft = themePage[p].draft
                               /\ themePage'[p].theme = themePage[p].theme
                               /\ themePage'[p].seen = themePage[p].seen
    BY <2>1, BusyChanges
  <2>. QED  BY <2>1, <2>2 DEF ThemesInv, PageHolds, LiveIsPublished, VersionsIn
<1>. QED  BY <1>1, <1>2

\* What a request does to the list of versions, version by version.
LEMMA SaveDraftKeeps ==
  ASSUME ThemesInv, NEW s \in Designer, NEW t \in Theme, SaveDraft(s, t)
  PROVE  /\ ThemesInv' /\ Len(versions) <= Len(versions')
         /\ \A v \in 1..Len(versions) :
              /\ versions'[v].status = versions[v].status
              /\ versions[v].status # "DRAFT" => versions'[v].theme = versions[v].theme
         /\ \A v \in 1..Len(versions') \ (1..Len(versions)) : versions'[v].status = "DRAFT"
<1>1. /\ versions' = Saved(t) /\ Requests(s) /\ liveTheme' = liveTheme
      /\ resaved' = resaved \cup {p \in Designer : themePage[p].draft \in VersionsIn("DRAFT")}
  BY DEF SaveDraft
<1>2. /\ themePage' \in [Designer -> Pages]
      /\ \A p \in Designer : /\ themePage'[p].draft = themePage[p].draft
                             /\ themePage'[p].theme = themePage[p].theme
                             /\ themePage'[p].seen = themePage[p].seen
  BY <1>1, BusyChanges DEF Requests
<1>. DEFINE n == Len(versions)
<1>3. n \in Nat /\ versions \in Seq(Versions)
  BY DraftFacts DEF ThemesInv
<1>4. /\ versions' \in Seq(Versions) /\ n <= Len(versions')
      /\ \A v \in 1..n : /\ versions'[v].status = versions[v].status
                         /\ versions[v].status # "DRAFT" => versions'[v].theme = versions[v].theme
      /\ \A v \in 1..Len(versions') \ (1..n) : v = n + 1 /\ versions'[v].status = "DRAFT"
                                              /\ VersionsIn("DRAFT") = {}
  <2>1. CASE VersionsIn("DRAFT") = {}
    <3>. DEFINE r == Version(t, "DRAFT")
    <3>1. r \in Versions /\ r.status = "DRAFT"
      BY DEF Version, Versions, VersionStatus
    <3>2. versions' = Append(versions, r)
      BY <1>1, <2>1 DEF Saved
    <3>. HIDE DEF r
    <3>3. /\ versions' \in Seq(Versions) /\ Len(versions') = n + 1 /\ versions'[n + 1] = r
          /\ \A v \in 1..n : versions'[v] = versions[v]
      BY <1>3, <3>1, <3>2, AppendProperties
    <3>. QED  BY <1>3, <2>1, <3>1, <3>3
  <2>2. CASE VersionsIn("DRAFT") # {}
    <3>. DEFINE d == LatestDraft
    <3>1. d \in 1..n /\ versions[d].status = "DRAFT" /\ versions' = [versions EXCEPT ![d].theme = t]
      BY <1>1, <2>2, DraftFacts DEF Saved
    <3>. HIDE DEF d
    <3>2. /\ versions' \in Seq(Versions) /\ Len(versions') = n
          /\ versions'[d].status = versions[d].status
          /\ \A v \in 1..n : v # d => versions'[v] = versions[v]
      BY <1>3, <3>1, ThemeReplaced
    <3>. QED  BY <1>3, <3>1, <3>2
  <2>. QED  BY <2>1, <2>2
<1>5. /\ DOMAIN versions' = 1..Len(versions') /\ Len(versions') \in Nat
      /\ VersionsIn("DRAFT") = {v \in 1..n : versions[v].status = "DRAFT"}
      /\ VersionsIn("DRAFT")' = {v \in 1..Len(versions') : versions'[v].status = "DRAFT"}
      /\ VersionsIn("PUBLISHED") = {v \in 1..n : versions[v].status = "PUBLISHED"}
      /\ VersionsIn("PUBLISHED")' = {v \in 1..Len(versions') : versions'[v].status = "PUBLISHED"}
      /\ VersionsIn("SUPERSEDED") = {v \in 1..n : versions[v].status = "SUPERSEDED"}
      /\ VersionsIn("SUPERSEDED")' = {v \in 1..Len(versions') : versions'[v].status = "SUPERSEDED"}
  <2>1. DOMAIN versions' = 1..Len(versions') /\ Len(versions') \in Nat
    BY <1>4, LenProperties
  <2>. QED  BY <2>1, DraftFacts DEF VersionsIn
<1>. HIDE DEF n
<1>6. LiveIsPublished'
  <2>1. ASSUME NEW v \in 1..Len(versions'), NEW w \in 1..Len(versions'),
               versions'[v].status = versions'[w].status,
               versions'[v].status \in {"DRAFT", "PUBLISHED"}
        PROVE  v = w
    <3>1. CASE v \in 1..n /\ w \in 1..n
      BY <2>1, <3>1, <1>4, DraftFacts DEF ThemesInv, LiveIsPublished, n
    <3>2. CASE v \notin 1..n \/ w \notin 1..n
      <4>1. /\ versions'[v].status = "DRAFT" /\ versions'[w].status = "DRAFT"
            /\ VersionsIn("DRAFT") = {}
        BY <2>1, <3>2, <1>4
      <4>2. v \notin 1..n /\ w \notin 1..n
        BY <4>1, <1>4, <1>5
      <4>. QED  BY <4>2, <1>4
    <3>. QED  BY <3>1, <3>2
  <2>2. VersionsIn("PUBLISHED")' = VersionsIn("PUBLISHED")
        /\ VersionsIn("SUPERSEDED")' = VersionsIn("SUPERSEDED")
    <3>1. \A v \in 1..n : v \in 1..Len(versions') /\ versions'[v].status = versions[v].status
      BY <1>3, <1>4, <1>5
    <3>2. \A v \in 1..Len(versions') : versions'[v].status # "DRAFT" => v \in 1..n
      BY <1>4
    <3>3. \A v : /\ v \in VersionsIn("PUBLISHED")' <=> v \in VersionsIn("PUBLISHED")
                 /\ v \in VersionsIn("SUPERSEDED")' <=> v \in VersionsIn("SUPERSEDED")
      <4>1. ASSUME NEW v PROVE v \in VersionsIn("PUBLISHED")' <=> v \in VersionsIn("PUBLISHED")
        BY <3>1, <3>2, <1>5
      <4>2. ASSUME NEW v PROVE v \in VersionsIn("SUPERSEDED")' <=> v \in VersionsIn("SUPERSEDED")
        BY <3>1, <3>2, <1>5
      <4>. QED  BY <4>1, <4>2
    <3>. QED  BY <3>3
  <2>3. \A v \in VersionsIn("PUBLISHED") : versions'[v].theme = versions[v].theme
    BY <1>4, <1>5
  <2>. QED  BY <2>1, <2>2, <2>3, <1>1, <1>5 DEF ThemesInv, LiveIsPublished
<1>7. ASSUME NEW p \in Designer PROVE PageHolds(p)'
  <2>1. /\ PageHolds(p) /\ themePage[p].draft \in Nat /\ themePage[p].draft <= n
        /\ themePage[p].seen \in Nat /\ themePage[p].seen <= n
    BY DEF ThemesInv, PageHolds, Pages, n
  <2>2. themePage[p].draft \in VersionsIn("DRAFT")' => themePage[p].draft \in VersionsIn("DRAFT")
    <3>. DEFINE d == themePage[p].draft
    <3>1. d \in 1..Len(versions') => d \in 1..n
      BY <2>1, <1>3
    <3>. HIDE DEF d
    <3>2. ASSUME d \in VersionsIn("DRAFT")' PROVE d \in VersionsIn("DRAFT")
      <4>1. d \in 1..n /\ versions'[d].status = "DRAFT"
        BY <3>1, <3>2, <1>5
      <4>2. versions[d].status = "DRAFT"
        BY <4>1, <1>4
      <4>. QED  BY <4>1, <4>2, <1>5
    <3>. QED  BY <3>2 DEF d
  <2>3. themePage'[p].draft \in VersionsIn("DRAFT")' => p \in resaved'
    BY <2>2, <1>1, <1>2
  <2>. QED  BY <2>1, <2>3, <1>2, <1>3, <1>4, <1>5 DEF PageHolds, n
<1>. QED  BY <1>1, <1>2, <1>3, <1>4, <1>6, <1>7 DEF ThemesInv, n

\* The list after a request that leaves no draft: if the versions it has are
\* typed, at most one is published and the shop shows it, the invariant holds.
LEMMA DraftlessKeeps ==
  ASSUME ThemesInv, NEW s \in Designer, Requests(s), resaved' = resaved,
         versions' \in Seq(Versions), Len(versions) <= Len(versions'), liveTheme' \in Theme,
         NEW live \in 1..Len(versions') \cup {0},
         \A v \in 1..Len(versions') : /\ versions'[v].status # "DRAFT"
                                      /\ versions'[v].status = "PUBLISHED" <=> v = live,
         live # 0 => versions'[live].theme = liveTheme',
         live = 0 => /\ liveTheme' = DefaultTheme
                     /\ \A v \in 1..Len(versions') : versions'[v].status # "SUPERSEDED"
  PROVE  ThemesInv'
<1>1. /\ themePage' \in [Designer -> Pages]
      /\ \A p \in Designer : /\ themePage'[p].draft = themePage[p].draft
                             /\ themePage'[p].theme = themePage[p].theme
                             /\ themePage'[p].seen = themePage[p].seen
  BY BusyChanges DEF Requests
<1>2. /\ DOMAIN versions' = 1..Len(versions') /\ Len(versions') \in Nat
      /\ VersionsIn("PUBLISHED")' = {v \in 1..Len(versions') : versions'[v].status = "PUBLISHED"}
      /\ VersionsIn("SUPERSEDED")' = {v \in 1..Len(versions') : versions'[v].status = "SUPERSEDED"}
      /\ VersionsIn("DRAFT")' = {v \in 1..Len(versions') : versions'[v].status = "DRAFT"}
  <2>1. DOMAIN versions' = 1..Len(versions') /\ Len(versions') \in Nat
    BY LenProperties
  <2>. QED  BY <2>1 DEF VersionsIn
<1>3. LiveIsPublished'
  <2>1. ASSUME NEW v \in 1..Len(versions'), NEW w \in 1..Len(versions'),
               versions'[v].status = versions'[w].status,
               versions'[v].status \in {"DRAFT", "PUBLISHED"}
        PROVE  v = w
    BY <2>1
  <2>2. \A v \in VersionsIn("PUBLISHED")' : versions'[v].theme = liveTheme'
    BY <1>2
  <2>3. VersionsIn("PUBLISHED")' = {} => liveTheme' = DefaultTheme /\ VersionsIn("SUPERSEDED")' = {}
    <3>. SUFFICES ASSUME VersionsIn("PUBLISHED")' = {}
                  PROVE  liveTheme' = DefaultTheme /\ VersionsIn("SUPERSEDED")' = {}
      OBVIOUS
    <3>1. live = 0
      BY <1>2
    <3>. QED  BY <3>1, <1>2
  <2>. QED  BY <2>1, <2>2, <2>3, <1>2 DEF LiveIsPublished
<1>4. ASSUME NEW p \in Designer PROVE PageHolds(p)'
  <2>1. VersionsIn("DRAFT")' = {}
    BY <1>2
  <2>2. themePage'[p].draft <= Len(versions)' /\ themePage'[p].seen <= Len(versions)'
    BY <1>1, <1>2, DraftFacts DEF ThemesInv, PageHolds, Pages
  <2>. QED  BY <2>1, <2>2 DEF PageHolds
<1>. QED  BY <1>1, <1>3, <1>4 DEF ThemesInv

LEMMA PublishKeeps ==
  ASSUME ThemesInv, NEW s \in Designer, PublishDraft(s)
  PROVE  /\ ThemesInv' /\ Len(versions') = Len(versions)
         /\ \A v \in 1..Len(versions) :
              /\ versions'[v].theme = versions[v].theme
              /\ versions[v].status \in {"PUBLISHED", "SUPERSEDED"} =>
                   versions'[v].status \in {"PUBLISHED", "SUPERSEDED"}
         /\ liveTheme' = themePage[s].theme \/ s \in resaved
<1>1. PICK d \in PublishedDraft(s) : versions' = Published(d) /\ liveTheme' = versions[d].theme
  BY DEF PublishDraft
<1>. DEFINE n == Len(versions)
            list == Marked(versions, "PUBLISHED", "SUPERSEDED")
<1>2. /\ d = themePage[s].draft /\ d \in VersionsIn("DRAFT") /\ VersionsIn("DRAFT") = {d}
      /\ VersionsIn("DRAFT") = {v \in 1..n : versions[v].status = "DRAFT"}
      /\ n \in Nat /\ versions \in Seq(Versions)
      /\ \A v \in 1..n : versions[v] \in Versions
      /\ Requests(s) /\ resaved' = resaved
  BY <1>1, DraftFacts DEF PublishedDraft, ThemesInv, PublishDraft
<1>3. /\ list \in Seq(Versions) /\ Len(list) = n
      /\ \A v \in 1..n : /\ list[v].theme = versions[v].theme
                         /\ list[v].status = IF versions[v].status = "PUBLISHED" THEN "SUPERSEDED"
                                             ELSE versions[v].status
  <2>1. "SUPERSEDED" \in VersionStatus
    BY DEF VersionStatus
  <2>2. Marks(list, versions, "PUBLISHED", "SUPERSEDED")
    BY <1>2, <2>1, MarkedVersions
  <2>. HIDE DEF list
  <2>. QED  BY <2>2 DEF Marks
<1>4. versions' = [list EXCEPT ![d].status = "PUBLISHED"] /\ d \in 1..n /\ "PUBLISHED" \in VersionStatus
  BY <1>1, <1>2 DEF Published, VersionStatus
<1>. HIDE DEF list, n
<1>5. /\ versions' \in Seq(Versions) /\ Len(versions') = n
      /\ versions'[d].status = "PUBLISHED" /\ versions'[d].theme = list[d].theme
      /\ \A v \in 1..n : v # d => versions'[v] = list[v]
  <2>1. d \in 1..Len(list) /\ list \in Seq(Versions)
    BY <1>3, <1>4
  <2>2. /\ versions' \in Seq(Versions) /\ Len(versions') = Len(list)
        /\ versions'[d].status = "PUBLISHED" /\ versions'[d].theme = list[d].theme
        /\ \A v \in 1..Len(list) : v # d => versions'[v] = list[v]
    BY <2>1, <1>4, StatusReplaced
  <2>. QED  BY <2>2, <1>3
<1>6. \A v \in 1..n :
        /\ versions'[v].theme = versions[v].theme /\ versions'[v].status # "DRAFT"
        /\ versions'[v].status = "PUBLISHED" <=> v = d
        /\ versions[v].status \in {"PUBLISHED", "SUPERSEDED"} =>
             versions'[v].status \in {"PUBLISHED", "SUPERSEDED"}
  BY <1>2, <1>3, <1>4, <1>5
<1>7. liveTheme' \in Theme /\ versions'[d].theme = liveTheme'
  BY <1>1, <1>2, <1>4, <1>6 DEF Versions
<1>8. d # 0 /\ d \in 1..Len(versions') \cup {0} /\ n <= Len(versions')
  BY <1>2, <1>4, <1>5
<1>9. ThemesInv'
  BY <1>2, <1>5, <1>6, <1>7, <1>8, DraftlessKeeps DEF n
<1>10. liveTheme' = themePage[s].theme \/ s \in resaved
  BY <1>1, <1>2 DEF ThemesInv, PageHolds
<1>. QED  BY <1>5, <1>6, <1>9, <1>10 DEF n

LEMMA DiscardKeeps ==
  ASSUME ThemesInv, NEW s \in Designer, DiscardDraft(s)
  PROVE  /\ ThemesInv' /\ Len(versions') = Len(versions)
         /\ \A v \in 1..Len(versions) :
              /\ versions'[v].theme = versions[v].theme
              /\ versions[v].status # "DRAFT" => versions'[v].status = versions[v].status
              /\ versions'[v].status = "PUBLISHED" <=> versions[v].status = "PUBLISHED"
<1>. DEFINE n == Len(versions)
            d == themePage[s].draft
<1>1. /\ versions' = [versions EXCEPT ![d].status = "DISCARDED"]
      /\ Requests(s) /\ UNCHANGED <<liveTheme, resaved>>
      /\ n \in Nat /\ versions \in Seq(Versions) /\ d \in 1..n /\ versions[d].status = "DRAFT"
      /\ VersionsIn("DRAFT") = {d}
  BY DraftFacts DEF DiscardDraft, ThemesInv
<1>2. /\ VersionsIn("DRAFT") = {v \in 1..n : versions[v].status = "DRAFT"}
      /\ VersionsIn("PUBLISHED") = {v \in 1..n : versions[v].status = "PUBLISHED"}
      /\ VersionsIn("SUPERSEDED") = {v \in 1..n : versions[v].status = "SUPERSEDED"}
      /\ DOMAIN versions = 1..n
  BY DraftFacts
<1>. HIDE DEF d
<1>3. /\ versions' \in Seq(Versions) /\ Len(versions') = n
      /\ versions'[d].status = "DISCARDED" /\ versions'[d].theme = versions[d].theme
      /\ \A v \in 1..n : v # d => versions'[v] = versions[v]
  BY <1>1, StatusReplaced DEF VersionStatus
<1>. HIDE DEF n
<1>4. \A v \in 1..n :
        /\ versions'[v].theme = versions[v].theme /\ versions'[v].status # "DRAFT"
        /\ versions[v].status # "DRAFT" => versions'[v].status = versions[v].status
        /\ versions'[v].status = "PUBLISHED" <=> versions[v].status = "PUBLISHED"
        /\ versions'[v].status = "SUPERSEDED" <=> versions[v].status = "SUPERSEDED"
  BY <1>1, <1>2, <1>3
<1>5. /\ liveTheme' \in Theme /\ n <= Len(versions')
      /\ \A v, w \in 1..n : versions[v].status = "PUBLISHED" /\ versions[w].status = "PUBLISHED" => v = w
  BY <1>1, <1>2, <1>3 DEF ThemesInv, LiveIsPublished
<1>6. CASE \E v \in 1..n : versions[v].status = "PUBLISHED"
  <2>1. PICK live \in 1..n : versions[live].status = "PUBLISHED"
    BY <1>6
  <2>2. versions'[live].theme = liveTheme'
    BY <2>1, <1>1, <1>2, <1>4 DEF ThemesInv, LiveIsPublished
  <2>3. live # 0 /\ live \in 1..Len(versions') \cup {0}
    BY <2>1, <1>1, <1>3
  <2>4. \A v \in 1..Len(versions') : /\ versions'[v].status # "DRAFT"
                                     /\ versions'[v].status = "PUBLISHED" <=> v = live
    BY <2>1, <1>3, <1>4, <1>5
  <2>5. ThemesInv'
    BY <2>2, <2>3, <2>4, <1>1, <1>3, <1>5, DraftlessKeeps DEF n
  <2>. QED  BY <2>5, <1>3, <1>4 DEF n
<1>7. CASE \A v \in 1..n : versions[v].status # "PUBLISHED"
  <2>1. VersionsIn("PUBLISHED") = {}
    BY <1>2, <1>7
  <2>2. /\ liveTheme' = DefaultTheme
        /\ \A v \in 1..Len(versions') : /\ versions'[v].status # "SUPERSEDED"
                                        /\ versions'[v].status # "PUBLISHED"
                                        /\ versions'[v].status # "DRAFT"
    BY <2>1, <1>1, <1>2, <1>3, <1>4, <1>7 DEF ThemesInv, LiveIsPublished
  <2>3. \A v \in 1..Len(versions') : v # 0
    BY <1>1, <1>3
  <2>4. ThemesInv'
    BY <2>2, <2>3, <1>1, <1>3, <1>5, DraftlessKeeps DEF n
  <2>. QED  BY <2>4, <1>3, <1>4 DEF n
<1>. QED  BY <1>6, <1>7

LEMMA RestoreKeeps ==
  ASSUME ThemesInv, NEW s \in Designer, NEW r \in 1..MaxVersions, RestoreVersion(s, r)
  PROVE  /\ ThemesInv' /\ Len(versions') = Len(versions) + 1
         /\ \A v \in 1..Len(versions) :
              /\ versions'[v].theme = versions[v].theme
              /\ versions[v].status \in {"PUBLISHED", "SUPERSEDED"} =>
                   versions'[v].status \in {"PUBLISHED", "SUPERSEDED"}
<1>. DEFINE n == Len(versions)
            one == Marked(versions, "DRAFT", "DISCARDED")
            two == Marked(one, "PUBLISHED", "SUPERSEDED")
            again == Version(versions[r].theme, "PUBLISHED")
<1>1. /\ versions' = Append(two, again) /\ liveTheme' = versions[r].theme
      /\ Requests(s) /\ resaved' = resaved
      /\ n \in Nat /\ versions \in Seq(Versions)
  BY DraftFacts DEF RestoreVersion, LiveAfterRollback, ThemesInv
<1>. HIDE DEF one, two, again, n
<1>2. /\ one \in Seq(Versions) /\ Len(one) = n
      /\ \A v \in 1..n : /\ one[v].theme = versions[v].theme
                         /\ one[v].status = IF versions[v].status = "DRAFT" THEN "DISCARDED"
                                            ELSE versions[v].status
  <2>1. "DISCARDED" \in VersionStatus
    BY DEF VersionStatus
  <2>2. Marks(one, versions, "DRAFT", "DISCARDED")
    BY <1>1, <2>1, MarkedVersions DEF one
  <2>. QED  BY <2>2 DEF Marks, n
<1>3. /\ two \in Seq(Versions) /\ Len(two) = n
      /\ \A v \in 1..n : /\ two[v].theme = one[v].theme
                         /\ two[v].status = IF one[v].status = "PUBLISHED" THEN "SUPERSEDED"
                                            ELSE one[v].status
  <2>1. "SUPERSEDED" \in VersionStatus
    BY DEF VersionStatus
  <2>2. Marks(two, one, "PUBLISHED", "SUPERSEDED")
    BY <1>2, <2>1, MarkedVersions DEF two
  <2>3. \A v \in 1..n : /\ two[v].theme = one[v].theme
                        /\ two[v].status = IF one[v].status = "PUBLISHED" THEN "SUPERSEDED"
                                           ELSE one[v].status
    BY <2>2, <1>2 DEF Marks
  <2>. QED  BY <2>2, <2>3, <1>2 DEF Marks
<1>4. r \in 1..n
  <2>1. themePage[s].seen \in Nat /\ themePage[s].seen <= n
    BY DEF ThemesInv, Pages, PageHolds, n
  <2>. QED  BY <2>1, <1>1 DEF RestoreVersion
<1>5. again \in Versions /\ again.status = "PUBLISHED" /\ again.theme = liveTheme' /\ liveTheme' \in Theme
  BY <1>1, <1>4, DraftFacts DEF Version, Versions, VersionStatus, again, n
<1>6. /\ versions' \in Seq(Versions) /\ Len(versions') = n + 1 /\ versions'[n + 1] = again
      /\ \A v \in 1..n : versions'[v] = two[v]
  BY <1>1, <1>3, <1>5, AppendProperties
<1>7. \A v \in 1..n :
        /\ versions'[v].theme = versions[v].theme
        /\ versions'[v].status \notin {"DRAFT", "PUBLISHED"}
        /\ versions[v].status \in {"PUBLISHED", "SUPERSEDED"} =>
             versions'[v].status \in {"PUBLISHED", "SUPERSEDED"}
  BY <1>2, <1>3, <1>6
<1>8. /\ \A v \in 1..Len(versions') : /\ versions'[v].status # "DRAFT"
                                      /\ versions'[v].status = "PUBLISHED" <=> v = n + 1
      /\ n + 1 \in 1..Len(versions') \cup {0} /\ n + 1 # 0 /\ n <= Len(versions')
  BY <1>1, <1>5, <1>6, <1>7
<1>9. ThemesInv'
  <2>. DEFINE live == n + 1
  <2>1. /\ \A v \in 1..Len(versions') : /\ versions'[v].status # "DRAFT"
                                        /\ versions'[v].status = "PUBLISHED" <=> v = live
        /\ live \in 1..Len(versions') \cup {0} /\ live # 0 /\ versions'[live].theme = liveTheme'
    BY <1>5, <1>6, <1>8
  <2>. HIDE DEF live
  <2>. QED  BY <2>1, <1>1, <1>5, <1>6, <1>8, DraftlessKeeps DEF n
<1>. QED  BY <1>6, <1>7, <1>9 DEF n

LEMMA ThemesStep == ThemesInv /\ [ThemesNext]_themeVars => ThemesInv'
<1>. SUFFICES ASSUME ThemesInv, [ThemesNext]_themeVars PROVE ThemesInv'
  OBVIOUS
<1>1. CASE UNCHANGED themeVars
  BY <1>1 DEF themeVars, ThemesInv, LiveIsPublished, VersionsIn, PageHolds
<1>2. CASE ThemesNext
  <2>1. PICK s \in Designer :
          \/ ShowThemes(s) \/ AnswerLost(s)
          \/ \E t \in Theme : SaveDraft(s, t)
          \/ PublishDraft(s) \/ DiscardDraft(s)
          \/ \E v \in 1..MaxVersions : RestoreVersion(s, v)
    BY <1>2 DEF ThemesNext
  <2>2. CASE ShowThemes(s) \/ AnswerLost(s)
    BY <2>2, PageStepsKeep
  <2>3. CASE \E t \in Theme : SaveDraft(s, t)
    BY <2>3, SaveDraftKeeps
  <2>4. CASE PublishDraft(s) \/ DiscardDraft(s)
    BY <2>4, PublishKeeps, DiscardKeeps
  <2>5. CASE \E v \in 1..MaxVersions : RestoreVersion(s, v)
    BY <2>5, RestoreKeeps
  <2>. QED  BY <2>1, <2>2, <2>3, <2>4, <2>5
<1>. QED  BY <1>1, <1>2

LEMMA ThemesTyped == ThemesSpec => []ThemesTypeOK
<1>. DEFINE Room == Len(versions) <= MaxVersions /\ resaved \subseteq Designer
<1>1. ThemesInit => Room
  BY ThemeConstants, EmptySeq DEF ThemesInit
<1>2. ThemesInv /\ Room /\ [ThemesNext]_themeVars => Room'
  <2>. SUFFICES ASSUME ThemesInv, Room, [ThemesNext]_themeVars PROVE Room'
    OBVIOUS
  <2>1. Len(versions) \in Nat /\ MaxVersions \in Nat
    BY DraftFacts, ThemeConstants
  <2>2. ASSUME NEW s \in Designer, NEW t \in Theme, SaveDraft(s, t) PROVE Len(versions') <= MaxVersions
    <3>1. versions' = Saved(t) /\ (VersionsIn("DRAFT") = {} => Len(versions) < MaxVersions)
      BY <2>2 DEF SaveDraft
    <3>2. CASE VersionsIn("DRAFT") = {}
      <4>1. versions' = Append(versions, Version(t, "DRAFT"))
        BY <3>1, <3>2 DEF Saved
      <4>2. versions \in Seq(Versions) /\ Version(t, "DRAFT") \in Versions
        BY DEF ThemesInv, Version, Versions, VersionStatus
      <4>3. Len(versions') = Len(versions) + 1
        BY <4>1, <4>2, AppendProperties
      <4>. QED  BY <2>1, <3>1, <3>2, <4>3
    <3>3. CASE VersionsIn("DRAFT") # {}
      <4>1. LatestDraft \in 1..Len(versions) /\ versions' = [versions EXCEPT ![LatestDraft].theme = t]
        BY <3>1, <3>3, DraftFacts DEF Saved
      <4>2. versions \in Seq(Versions)
        BY DEF ThemesInv
      <4>. HIDE DEF LatestDraft
      <4>3. Len(versions') = Len(versions)
        BY <4>1, <4>2, ThemeReplaced
      <4>. QED  BY <4>3
    <3>. QED  BY <3>2, <3>3
  <2>3. ASSUME NEW s \in Designer, PublishDraft(s) \/ DiscardDraft(s) PROVE Room'
    BY <2>3, PublishKeeps, DiscardKeeps DEF PublishDraft, DiscardDraft
  <2>4. ASSUME NEW s \in Designer, NEW v \in 1..MaxVersions, RestoreVersion(s, v) PROVE Room'
    <3>1. Len(versions') = Len(versions) + 1 /\ Len(versions) < MaxVersions /\ resaved' = resaved
      BY <2>4, RestoreKeeps DEF RestoreVersion
    <3>. QED  BY <2>1, <3>1
  <2>5. CASE UNCHANGED themeVars
    BY <2>5 DEF themeVars
  <2>6. ASSUME NEW s \in Designer, NEW t \in Theme, SaveDraft(s, t) PROVE resaved' \subseteq Designer
    BY <2>6 DEF SaveDraft
  <2>7. ASSUME NEW s \in Designer, ShowThemes(s) \/ AnswerLost(s) PROVE Room'
    BY <2>7 DEF ShowThemes, AnswerLost
  <2>. QED  BY <2>2, <2>3, <2>4, <2>5, <2>6, <2>7 DEF ThemesNext
<1>3. ThemesInv /\ Room => ThemesTypeOK
  BY DEF ThemesInv, ThemesTypeOK, Versions, Pages
<1>. QED  BY ThemesStart, ThemesStep, <1>1, <1>2, <1>3, PTL DEF ThemesSpec

\* For any themes, members of staff and number of versions, what customers see
\* is the one published version, or the default before the first
\* (storefront-themes.ts).
THEOREM LiveThemeIsPublished == ThemesSpec => []LiveIsPublished
<1>1. ThemesInv => LiveIsPublished
  BY DEF ThemesInv
<1>. QED  BY ThemesStart, ThemesStep, <1>1, PTL DEF ThemesSpec

\* No request rewrites a version that was published, or drops it from those
\* that can be restored (storefront-themes.ts).
THEOREM PublishedVersionsKept == ThemesSpec => PublishedIsKept
<1>. DEFINE Kept == \A v \in DOMAIN versions : versions[v].status \in {"PUBLISHED", "SUPERSEDED"} =>
                      /\ v \in DOMAIN versions'
                      /\ versions'[v].theme = versions[v].theme
                      /\ versions'[v].status \in {"PUBLISHED", "SUPERSEDED"}
<1>1. ThemesInv /\ ThemesInv' /\ [ThemesNext]_themeVars => [Kept]_themeVars
  <2>. SUFFICES ASSUME ThemesInv, ThemesInv', ThemesNext, NEW v \in DOMAIN versions,
                       versions[v].status \in {"PUBLISHED", "SUPERSEDED"}
                PROVE  /\ v \in DOMAIN versions'
                       /\ versions'[v].theme = versions[v].theme
                       /\ versions'[v].status \in {"PUBLISHED", "SUPERSEDED"}
    OBVIOUS
  <2>1. /\ v \in 1..Len(versions) /\ Len(versions) \in Nat /\ Len(versions') \in Nat
        /\ DOMAIN versions' = 1..Len(versions')
    BY LenProperties DEF ThemesInv
  <2>2. PICK s \in Designer :
          \/ ShowThemes(s) \/ AnswerLost(s)
          \/ \E t \in Theme : SaveDraft(s, t)
          \/ PublishDraft(s) \/ DiscardDraft(s)
          \/ \E r \in 1..MaxVersions : RestoreVersion(s, r)
    BY DEF ThemesNext
  <2>3. CASE ShowThemes(s) \/ AnswerLost(s)
    BY <2>1, <2>3 DEF ShowThemes, AnswerLost
  <2>4. CASE \E t \in Theme : SaveDraft(s, t)
    <3>1. /\ Len(versions) <= Len(versions') /\ versions'[v].status = versions[v].status
          /\ versions'[v].theme = versions[v].theme
      BY <2>1, <2>4, SaveDraftKeeps
    <3>. QED  BY <2>1, <3>1
  <2>5. CASE PublishDraft(s)
    BY <2>1, <2>5, PublishKeeps
  <2>6. CASE DiscardDraft(s)
    BY <2>1, <2>6, DiscardKeeps
  <2>7. CASE \E r \in 1..MaxVersions : RestoreVersion(s, r)
    <3>1. /\ Len(versions') = Len(versions) + 1 /\ versions'[v].theme = versions[v].theme
          /\ versions'[v].status \in {"PUBLISHED", "SUPERSEDED"}
      BY <2>1, <2>7, RestoreKeeps
    <3>. QED  BY <2>1, <3>1
  <2>. QED  BY <2>2, <2>3, <2>4, <2>5, <2>6, <2>7
<1>. QED  BY ThemesStart, ThemesStep, <1>1, PTL DEF ThemesSpec, PublishedIsKept

\* A page publishes the theme it shows, unless its draft was saved again since
\* it loaded (publishStorefrontThemeDraft).
THEOREM PublishesShownTheme == ThemesSpec => PublishesWhatItShows
<1>. DEFINE Shows == \A s \in Designer :
                       /\ ~themePage[s].busy /\ themePage'[s].busy
                       /\ Len(versions') = Len(versions)
                       /\ VersionsIn("PUBLISHED")' # VersionsIn("PUBLISHED")
                       => liveTheme' = themePage[s].theme \/ s \in resaved
<1>1. ThemesInv /\ ThemesInv' /\ [ThemesNext]_themeVars => [Shows]_themeVars
  <2>. SUFFICES ASSUME ThemesInv, ThemesInv', ThemesNext, NEW s \in Designer,
                       ~themePage[s].busy, themePage'[s].busy,
                       Len(versions') = Len(versions),
                       VersionsIn("PUBLISHED")' # VersionsIn("PUBLISHED")
                PROVE  liveTheme' = themePage[s].theme \/ s \in resaved
    OBVIOUS
  <2>1. /\ VersionsIn("PUBLISHED") = {v \in 1..Len(versions) : versions[v].status = "PUBLISHED"}
        /\ VersionsIn("PUBLISHED")' = {v \in 1..Len(versions) : versions'[v].status = "PUBLISHED"}
    <3>1. DOMAIN versions = 1..Len(versions) /\ DOMAIN versions' = 1..Len(versions)
      BY LenProperties DEF ThemesInv
    <3>. QED  BY <3>1 DEF VersionsIn
  <2>2. PICK v \in 1..Len(versions) :
          ~(versions'[v].status = "PUBLISHED" <=> versions[v].status = "PUBLISHED")
    <3>1. PICK v : ~(v \in VersionsIn("PUBLISHED")' <=> v \in VersionsIn("PUBLISHED"))
      <4>1. SUFFICES ASSUME \A v : v \in VersionsIn("PUBLISHED")' <=> v \in VersionsIn("PUBLISHED")
                     PROVE  FALSE
        OBVIOUS
      <4>. QED  BY <4>1
    <3>. QED  BY <2>1, <3>1
  <2>3. PICK p \in Designer :
          \/ ShowThemes(p) \/ AnswerLost(p)
          \/ \E t \in Theme : SaveDraft(p, t)
          \/ PublishDraft(p) \/ DiscardDraft(p)
          \/ \E r \in 1..MaxVersions : RestoreVersion(p, r)
    BY DEF ThemesNext
  <2>4. PublishDraft(p)
    <3>1. ~(ShowThemes(p) \/ AnswerLost(p))
      BY <2>2 DEF ShowThemes, AnswerLost
    <3>2. ~\E t \in Theme : SaveDraft(p, t)
      BY <2>2, SaveDraftKeeps
    <3>3. ~DiscardDraft(p)
      BY <2>2, DiscardKeeps
    <3>4. ~\E r \in 1..MaxVersions : RestoreVersion(p, r)
      <4>1. Len(versions) # Len(versions) + 1
        BY DraftFacts
      <4>. QED  BY <4>1, RestoreKeeps
    <3>. QED  BY <2>3, <3>1, <3>2, <3>3, <3>4
  <2>5. p = s
    <3>1. themePage' = [themePage EXCEPT ![p].busy = TRUE]
      BY <2>4 DEF PublishDraft, Requests
    <3>2. p # s => themePage'[s] = themePage[s]
      BY <3>1, BusyChanges
    <3>. QED  BY <3>2
  <2>. QED  BY <2>4, <2>5, PublishKeeps
<1>. QED  BY ThemesStart, ThemesStep, <1>1, PTL DEF ThemesSpec, PublishesWhatItShows
-----------------------------------------------------------------------------
(* The availability planner. *)

\* What a page may count on when it saves from c: with no edit of the product since,
\* the row; with one, volumes, and a date on sale if the window has it inside.
CopyHolds(c) ==
  /\ Tells(c)
  /\ c.is = "HELD" /\ c.unseen /\ dateInside => Sells(plannedRow)

PlannerInv ==
  /\ PlannerTypeOK
  /\ ~dateInside => ShutByWindow(plannedRow)
  /\ \A s \in Planner : CopyHolds(copy[s]) /\ CopyHolds(answer[s])

LEMMA UnheldCopies ==
  /\ None \in Copies /\ Asked \in Copies /\ Passed \in Copies
  /\ None.is # "HELD" /\ Asked.is # "HELD" /\ Passed.is # "HELD"
  /\ \A c \in Copies : Outdated(c) \in Copies /\ Outdated(c).is # "HELD"
<1>1. EmptyRow \in Rows
  BY PlannerConstants DEF EmptyRow, Rows
<1>. QED  BY <1>1 DEF None, Asked, Passed, No, Copies, Outdated

LEMMA PlannerStart == PlannerInit => PlannerInv
<1>. SUFFICES ASSUME PlannerInit PROVE PlannerInv
  OBVIOUS
<1>1. PlannerTypeOK
  BY PlannerConstants, UnheldCopies DEF PlannerInit, PlannerTypeOK, Rows
<1>2. \A s \in Planner : CopyHolds(copy[s]) /\ CopyHolds(answer[s])
  BY UnheldCopies DEF PlannerInit, CopyHolds, Tells
<1>. QED  BY <1>1, <1>2 DEF PlannerInv, PlannerInit

\* The steps of the page alone.
LEMMA PageKeeps ==
  ASSUME PlannerInv, NEW s \in Planner,
         AskRows(s) \/ ReadRows(s) \/ ShowRows(s) \/ RowsLost(s)
  PROVE  PlannerInv'
<1>1. CopyOf(plannedRow) \in Copies /\ CopyHolds(CopyOf(plannedRow))
  BY DEF PlannerInv, PlannerTypeOK, CopyOf, Copies, CopyHolds, Tells
<1>2. CopyHolds(Asked) /\ CopyHolds(None)
  BY UnheldCopies DEF CopyHolds, Tells
<1>3. UNCHANGED <<plannedRow, dateInside>>
  BY DEF AskRows, ReadRows, ShowRows, RowsLost
<1>4. /\ copy' \in [Planner -> Copies] /\ answer' \in [Planner -> Copies]
      /\ \A t \in Planner : CopyHolds(copy'[t]) /\ CopyHolds(answer'[t])
  BY <1>1, <1>2, UnheldCopies DEF PlannerInv, PlannerTypeOK, AskRows, ReadRows, ShowRows, RowsLost
<1>5. \A t \in Planner : CopyHolds(copy[t])' /\ CopyHolds(answer[t])'
  BY <1>3, <1>4 DEF CopyHolds, Tells
<1>. QED  BY <1>3, <1>4, <1>5 DEF PlannerInv, PlannerTypeOK

\* A write that counts the version leaves no copy to save from.
LEMMA WriteKeeps ==
  ASSUME PlannerInv, NEW r \in Rows, NEW askers \in SUBSET Planner, Write(r, askers),
         r.reserved <= r.capacity, ~dateInside => ShutByWindow(r)
  PROVE  PlannerInv'
<1>1. PICK asking \in SUBSET askers, a \in {Asked, Passed} :
        answer' = [s \in Planner |-> IF s \in asking THEN a ELSE Outdated(answer[s])]
  BY DEF Write
<1>2. /\ copy' \in [Planner -> Copies] /\ answer' \in [Planner -> Copies]
      /\ \A s \in Planner : copy'[s].is # "HELD" /\ answer'[s].is # "HELD"
  BY <1>1, UnheldCopies DEF Write, PlannerInv, PlannerTypeOK
<1>3. \A s \in Planner : CopyHolds(copy[s])' /\ CopyHolds(answer[s])'
  BY <1>2 DEF CopyHolds, Tells
<1>4. plannedRow' = r /\ dateInside' = dateInside
  BY DEF Write
<1>. QED  BY <1>2, <1>3, <1>4 DEF PlannerInv, PlannerTypeOK, ShutByWindow

LEMMA SaveKeeps ==
  ASSUME PlannerInv, NEW s \in Planner, NEW r \in Rows, Save(s, r)
  PROVE  PlannerInv' /\ plannedRow' = [r EXCEPT !.reserved = plannedRow.reserved]
<1>. DEFINE q == [r EXCEPT !.reserved = plannedRow.reserved]
<1>1. q \in Rows /\ q.reserved <= q.capacity /\ dateInside /\ Write(q, {s})
  BY DEF Save, PlannerInv, PlannerTypeOK, Rows
<1>2. plannedRow' = q
  BY <1>1 DEF Write
<1>. HIDE DEF q
<1>3. PlannerInv'
  BY <1>1, WriteKeeps
<1>. QED  BY <1>2, <1>3 DEF q

\* Who saves holds a copy of the row: with its volumes, and its flags unless an edit of
\* the product, unseen, left the date on sale.
LEMMA HeldCopy ==
  ASSUME PlannerInv, NEW s \in Planner, Current(s)
  PROVE  /\ Shown(s) \in Rows
         /\ copy[s].unseen \/ Shown(s) = plannedRow
         /\ copy[s].unseen /\ dateInside => Sells(plannedRow)
BY DEF PlannerInv, PlannerTypeOK, CopyHolds, Tells, Current, Shown, Copies

\* The saves that change no flag on purpose.
LEMMA VolumeSaves ==
  ASSUME PlannerInv, NEW s \in Planner, NEW capacity \in 0..MostCapacity,
         AdjustCapacity(s, capacity) \/ SaveCapacity(s, capacity) \/ OverrideCutoff(s)
  PROVE  /\ PlannerInv'
         /\ ~Sells(plannedRow) => ~Sells(plannedRow')
         /\ Sells(plannedRow) /\ ~Sells(plannedRow') => copy[s].unseen
<1>1. PICK r \in Rows :
        /\ Save(s, r) /\ r.soldOut = Shown(s).soldOut
        /\ r.accepts \in {Shown(s).accepts, plannedRow.accepts}
  <2>1. Current(s) /\ Shown(s) \in Rows /\ plannedRow \in Rows
    BY HeldCopy DEF AdjustCapacity, SaveCapacity, OverrideCutoff, PlannerInv, PlannerTypeOK
  <2>2. CASE AdjustCapacity(s, capacity)
    <3>. DEFINE r == [Shown(s) EXCEPT !.capacity = capacity]
    <3>1. r \in Rows /\ r.soldOut = Shown(s).soldOut /\ r.accepts = Shown(s).accepts
      BY <2>1 DEF Rows
    <3>2. Save(s, r)
      BY <2>2 DEF AdjustCapacity
    <3>. QED  BY <3>1, <3>2
  <2>3. CASE SaveCapacity(s, capacity)
    <3>. DEFINE r == [Shown(s) EXCEPT !.capacity = capacity, !.accepts = plannedRow.accepts]
    <3>1. r \in Rows /\ r.soldOut = Shown(s).soldOut /\ r.accepts = plannedRow.accepts
      BY <2>1 DEF Rows
    <3>2. Save(s, r)
      BY <2>3 DEF SaveCapacity
    <3>. QED  BY <3>1, <3>2
  <2>4. CASE OverrideCutoff(s)
    BY <2>1, <2>4 DEF OverrideCutoff
  <2>. QED  BY <2>2, <2>3, <2>4
<1>2. PlannerInv' /\ plannedRow'.soldOut = r.soldOut /\ plannedRow'.accepts = r.accepts
  BY <1>1, SaveKeeps DEF Rows
<1>3. Current(s) /\ dateInside
  BY DEF AdjustCapacity, SaveCapacity, OverrideCutoff, Save
<1>. QED  BY <1>1, <1>2, <1>3, HeldCopy DEF Sells

LEMMA FreezeKeeps ==
  ASSUME PlannerInv, NEW s \in Planner, FreezeDate(s)
  PROVE  PlannerInv' /\ ~Sells(plannedRow')
<1>. DEFINE r == [Shown(s) EXCEPT !.accepts = FALSE, !.soldOut = "STAFF"]
<1>1. r \in Rows /\ ~r.accepts /\ Save(s, r)
  BY HeldCopy DEF FreezeDate, Rows
<1>. HIDE DEF r
<1>. QED  BY <1>1, SaveKeeps DEF Sells, Rows

LEMMA ReopenKeeps ==
  ASSUME PlannerInv, NEW s \in Planner, ReopenDate(s)
  PROVE  PlannerInv' /\ Sells(plannedRow')
<1>. DEFINE r == [Shown(s) EXCEPT !.accepts = TRUE, !.soldOut = "NO"]
<1>1. r \in Rows /\ r.accepts /\ r.soldOut = "NO" /\ Save(s, r)
  BY HeldCopy DEF ReopenDate, Rows
<1>. HIDE DEF r
<1>. QED  BY <1>1, SaveKeeps DEF Sells, Rows

LEMMA PlanKeeps ==
  ASSUME PlannerInv, NEW s \in Planner, NEW capacity \in 0..MostCapacity, PlanDate(s, capacity)
  PROVE  PlannerInv' /\ (Sells(plannedRow) => Sells(plannedRow'))
<1>. DEFINE r == [plannedRow EXCEPT !.capacity = capacity, !.soldOut = "NO"]
<1>1. /\ r \in Rows /\ r.reserved <= r.capacity /\ dateInside /\ Write(r, {s})
      /\ r.accepts = plannedRow.accepts /\ r.soldOut = "NO"
  BY DEF PlanDate, PlannerInv, PlannerTypeOK, Rows
<1>. HIDE DEF r
<1>2. PlannerInv'
  BY <1>1, WriteKeeps
<1>. QED  BY <1>1, <1>2 DEF Write, Sells

LEMMA VolumesKeep ==
  ASSUME PlannerInv, ReserveVolume \/ ReleaseVolume
  PROVE  PlannerInv' /\ (Sells(plannedRow) <=> Sells(plannedRow'))
<1>1. PICK r \in Rows :
        /\ r.reserved <= r.capacity /\ Write(r, {}) /\ r.accepts = plannedRow.accepts
        /\ r.soldOut = plannedRow.soldOut
  <2>1. /\ plannedRow \in Rows /\ plannedRow.reserved <= plannedRow.capacity
        /\ plannedRow.reserved \in Nat /\ plannedRow.capacity \in 0..MostCapacity
    BY PlannerConstants DEF PlannerInv, PlannerTypeOK, Rows
  <2>2. CASE ReserveVolume
    <3>. DEFINE r == [plannedRow EXCEPT !.reserved = @ + 1]
    <3>1. r \in Rows /\ r.reserved <= r.capacity
      BY <2>1, <2>2, PlannerConstants DEF ReserveVolume, Rows
    <3>2. Write(r, {}) /\ r.accepts = plannedRow.accepts /\ r.soldOut = plannedRow.soldOut
      BY <2>1, <2>2 DEF ReserveVolume, Rows
    <3>. QED  BY <3>1, <3>2
  <2>3. CASE ReleaseVolume
    <3>. DEFINE r == [plannedRow EXCEPT !.reserved = @ - 1]
    <3>1. r \in Rows /\ r.reserved <= r.capacity
      BY <2>1, <2>3, PlannerConstants DEF ReleaseVolume, Rows
    <3>2. Write(r, {}) /\ r.accepts = plannedRow.accepts /\ r.soldOut = plannedRow.soldOut
      BY <2>1, <2>3 DEF ReleaseVolume, Rows
    <3>. QED  BY <3>1, <3>2
  <2>. QED  BY <2>2, <2>3
<1>2. ~dateInside => ShutByWindow(r)
  BY <1>1 DEF PlannerInv, ShutByWindow
<1>3. PlannerInv'
  BY <1>1, <1>2, WriteKeeps
<1>. QED  BY <1>1, <1>3 DEF Write, Sells

\* The write that leaves the version: who has not seen it finds the date on sale, if it
\* is inside the window.
LEMMA EditKeeps ==
  ASSUME PlannerInv, NEW inside \in BOOLEAN, EditProduct(inside)
  PROVE  /\ PlannerInv'
         /\ inside /\ Sells(plannedRow) => Sells(plannedRow')
         /\ ~inside => ~Sells(plannedRow')
<1>1. /\ dateInside' = inside /\ plannedRow' = AfterEdit(plannedRow, inside)
      /\ plannedRow \in Rows /\ plannedRow.reserved <= plannedRow.capacity
      /\ copy \in [Planner -> Copies] /\ answer \in [Planner -> Copies]
  BY DEF EditProduct, PlannerInv, PlannerTypeOK
<1>2. /\ plannedRow' \in Rows
      /\ plannedRow'.capacity = plannedRow.capacity /\ plannedRow'.reserved = plannedRow.reserved
      /\ ~inside => ShutByWindow(plannedRow')
      /\ inside /\ ShutByWindow(plannedRow) => Sells(plannedRow')
      /\ inside /\ ~ShutByWindow(plannedRow) => plannedRow' = plannedRow
  BY <1>1 DEF AfterEdit, Rows, ShutByWindow, Sells
<1>3. CASE plannedRow' = plannedRow
  <2>1. UNCHANGED <<copy, answer>>
    BY <1>3 DEF EditProduct
  <2>2. inside => dateInside
    BY <1>2, <1>3 DEF PlannerInv, ShutByWindow, Sells
  <2>3. \A s \in Planner : CopyHolds(copy[s])' /\ CopyHolds(answer[s])'
    BY <1>1, <1>3, <2>1, <2>2 DEF PlannerInv, CopyHolds, Tells
  <2>. QED  BY <1>1, <1>2, <1>3, <2>1, <2>3 DEF PlannerInv, PlannerTypeOK, ShutByWindow, Sells
<1>4. CASE plannedRow' # plannedRow
  <2>1. /\ copy' = [s \in Planner |-> Unseen(copy[s])]
        /\ answer' = [s \in Planner |-> Unseen(answer[s])]
    BY <1>4 DEF EditProduct
  <2>2. \A c \in Copies : /\ Unseen(c) \in Copies /\ Unseen(c).is = c.is /\ Unseen(c).row = c.row
                          /\ Unseen(c).unseen = (c.is = "HELD")
    BY DEF Unseen, Copies
  <2>3. copy' \in [Planner -> Copies] /\ answer' \in [Planner -> Copies]
    BY <1>1, <2>1, <2>2
  <2>4. inside => Sells(plannedRow')
    BY <1>2, <1>4
  <2>5. \A c \in Copies : Tells(c) =>
          /\ Unseen(c).is = "HELD" =>
               /\ Unseen(c).row.capacity = plannedRow'.capacity
               /\ Unseen(c).row.reserved = plannedRow'.reserved
               /\ Unseen(c).unseen
    BY <1>2, <2>2 DEF Tells
  <2>6. \A s \in Planner : CopyHolds(copy[s])' /\ CopyHolds(answer[s])'
    <3>. SUFFICES ASSUME NEW s \in Planner PROVE CopyHolds(copy[s])' /\ CopyHolds(answer[s])'
      OBVIOUS
    <3>1. /\ copy[s] \in Copies /\ answer[s] \in Copies /\ Tells(copy[s]) /\ Tells(answer[s])
          /\ copy'[s] = Unseen(copy[s]) /\ answer'[s] = Unseen(answer[s])
      BY <1>1, <2>1 DEF PlannerInv, CopyHolds
    <3>2. Tells(copy[s])' /\ Tells(answer[s])'
      BY <2>5, <3>1 DEF Tells
    <3>3. dateInside' => Sells(plannedRow)'
      BY <1>1, <2>4 DEF Sells
    <3>. QED  BY <3>2, <3>3 DEF CopyHolds
  <2>. QED  BY <1>1, <1>2, <2>3, <2>4, <2>6 DEF PlannerInv, PlannerTypeOK, ShutByWindow, Sells
<1>. QED  BY <1>3, <1>4

\* A step keeps the invariant, and a date is shut or on sale again as FlagsByHand says.
LEMMA PlannerStep ==
  PlannerInv /\ [PlannerNext]_plannerVars => PlannerInv' /\ [CopiesTell' /\ FlagsByHand]_plannerVars
<1>1. ASSUME PlannerInv, UNCHANGED plannerVars PROVE PlannerInv'
  <2>1. \A s \in Planner : CopyHolds(copy[s])' /\ CopyHolds(answer[s])'
    BY <1>1 DEF plannerVars, PlannerInv, CopyHolds, Tells
  <2>. QED  BY <1>1, <2>1 DEF plannerVars, PlannerInv, PlannerTypeOK, ShutByWindow
<1>2. ASSUME PlannerInv, PlannerNext PROVE PlannerInv' /\ FlagsByHand
  <2>1. CASE \E s \in Planner : AskRows(s) \/ ReadRows(s) \/ ShowRows(s) \/ RowsLost(s)
    <3>1. plannedRow' = plannedRow
      BY <2>1 DEF AskRows, ReadRows, ShowRows, RowsLost
    <3>. QED  BY <1>2, <2>1, <3>1, PageKeeps DEF FlagsByHand
  <2>2. CASE \E s \in Planner : OverrideCutoff(s)
    <3>1. 0 \in 0..MostCapacity
      BY PlannerConstants
    <3>. QED  BY <1>2, <2>2, <3>1, VolumeSaves DEF FlagsByHand
  <2>3. CASE \E s \in Planner, capacity \in 0..MostCapacity :
               AdjustCapacity(s, capacity) \/ SaveCapacity(s, capacity)
    BY <1>2, <2>3, VolumeSaves DEF FlagsByHand
  <2>4. CASE \E s \in Planner : FreezeDate(s)
    BY <1>2, <2>4, FreezeKeeps DEF FlagsByHand
  <2>5. CASE \E s \in Planner : ReopenDate(s)
    BY <1>2, <2>5, ReopenKeeps DEF FlagsByHand
  <2>6. CASE \E s \in Planner, capacity \in 0..MostCapacity : PlanDate(s, capacity)
    BY <1>2, <2>6, PlanKeeps DEF FlagsByHand
  <2>7. CASE ReserveVolume \/ ReleaseVolume
    BY <1>2, <2>7, VolumesKeep DEF FlagsByHand
  <2>8. CASE \E inside \in BOOLEAN : EditProduct(inside)
    BY <1>2, <2>8, EditKeeps DEF FlagsByHand
  <2>. QED  BY <1>2, <2>1, <2>2, <2>3, <2>4, <2>5, <2>6, <2>7, <2>8 DEF PlannerNext
<1>3. PlannerInv' => CopiesTell'
  BY DEF PlannerInv, CopiesTell, CopyHolds
<1>. QED  BY <1>1, <1>2, <1>3

\* For any members of staff and capacities, what a page can still save from is the row
\* as it stands, and a date is shut or on sale again by the hand of somebody who saw it,
\* but for the edits of a product that leave the version (availability.ts).
THEOREM PlannersSeeTruth == PlannerSpec => PlannersActOnTruth
BY PlannerStart, PlannerStep, PTL DEF PlannerSpec, PlannersActOnTruth
-----------------------------------------------------------------------------
(* The parts together. *)

\* Every step of the shop's settings is a step, or a pause, of each of their parts.
LEMMA SettingsPartsStep ==
  [SettingsNext]_settingsVars =>
    /\ [MethodsNext]_methodVars /\ [ThemesNext]_themeVars /\ [WindowNext]_windowVars
    /\ [PacksNext]_packVars /\ [PlannerNext]_plannerVars
BY DEF SettingsNext, settingsVars

\* The settings run each of their parts as it is specified on its own, so that
\* all that is proved of a part holds of the part among the others.
THEOREM SettingsRunTheirParts ==
  SettingsSpec => MethodsSpec /\ ThemesSpec /\ WindowSpec /\ PacksSpec /\ PlannerSpec
<1>1. SettingsInit => MethodsInit /\ ThemesInit /\ WindowInit /\ PacksInit /\ PlannerInit
  BY DEF SettingsInit
<1>. QED  BY <1>1, SettingsPartsStep, PTL
          DEF SettingsSpec, MethodsSpec, ThemesSpec, WindowSpec, PacksSpec, PlannerSpec

\* Methods, versions, windows, packages and rows keep their types; no row of a
\* date counts fewer orders than none.
THEOREM SettingsTyped == SettingsSpec => []SettingsTypeOK
<1>1. MethodsSpec => []MethodsTypeOK
  <2>1. MethodsInv => MethodsTypeOK
    BY DEF MethodsInv
  <2>. QED  BY MethodsStart, MethodsStep, <2>1, PTL DEF MethodsSpec
<1>2. PacksSpec => []PacksTypeOK
  <2>1. PacksInv => PacksTypeOK
    BY DEF PacksInv
  <2>. QED  BY PacksStart, PacksStep, <2>1, PTL DEF PacksSpec
<1>3. PlannerSpec => []PlannerTypeOK
  <2>1. PlannerInv => PlannerTypeOK
    BY DEF PlannerInv
  <2>. QED  BY PlannerStart, PlannerStep, <2>1, PTL DEF PlannerSpec
<1>4. MethodsTypeOK /\ ThemesTypeOK /\ WindowTypeOK /\ PacksTypeOK /\ PlannerTypeOK
      => SettingsTypeOK
  BY DEF SettingsTypeOK
<1>. QED  BY SettingsRunTheirParts, ThemesTyped, WindowTyped, <1>1, <1>2, <1>3, <1>4, PTL

\* What the run of the settings checks holds of them for any number of members
\* of staff, methods, themes, dates, orders and packages.
THEOREM SettingsAreSafe ==
  SettingsSpec =>
    /\ []AMethodRemains
    /\ []LiveIsPublished /\ PublishedIsKept /\ PublishesWhatItShows
    /\ [](OrdersInWindow /\ EditRepairs)
    /\ []OrderedPackStays /\ DefaultsKept
    /\ PlannersActOnTruth
BY SettingsRunTheirParts, MethodRemains, LiveThemeIsPublished, PublishedVersionsKept,
   PublishesShownTheme, OrdersStayInWindow, EditsRepair, OrderedPacksStay, DefaultsAreKept,
   PlannersSeeTruth, PTL
=============================================================================
