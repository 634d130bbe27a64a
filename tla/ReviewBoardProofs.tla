-------------------------- MODULE ReviewBoardProofs --------------------------
(***************************************************************************)
(* Theorems about ReviewBoard, for any reviews, moderators and ratings.    *)
(*                                                                         *)
(* ReviewInv is the inductive invariant.  What a call has read is still    *)
(* true of its review, unless another call has written it since (then it   *)
(* is among the overlapped), so that a call that will not count leaves the *)
(* number of approved reviews alone; an acknowledgement is never taken     *)
(* back; and the rating is right whenever nobody is about to store one.    *)
(***************************************************************************)
EXTENDS ReviewBoard, FiniteSetTheorems, TLAPS

CallRows == [at : {"IDLE", "WRITE", "COUNT", "STORE"},
             kind : {"NONE", "MODERATE", "CONFIRM", "MASK", "RENAME", "REVEAL"},
             review : Review \cup {"NONE"}, sets : ReviewRows, recount : BOOLEAN,
             counts : [Rating -> Nat]]

\* What a call between its read and its write knows.
ReadHolds(m) ==
  LET c == call[m]
      row == review[c.review] IN
  c.at = "WRITE" =>
    /\ c.review \in Review /\ row.status # "NONE" /\ c.sets.status \in Kept
    /\ row.status = "DELETED" \/ (c.sets.status = "APPROVED" => row.ack)
    /\ c.kind = "REVEAL" => c.sets.status # "APPROVED"
    /\ c.kind = "RENAME" => c.sets.anonymous
    /\ c.kind \in {"CONFIRM", "MASK", "RENAME"} /\ c.sets.status = "APPROVED" =>
         row.status \in {"APPROVED", "DELETED"} \/ c.review \in overlapped
    /\ c.kind # "NONE"
    /\ \/ c.recount \/ row.status = "DELETED" \/ c.review \in overlapped
       \/ c.sets.status = "APPROVED" <=> row.status = "APPROVED"

NobodyCounts == \A m \in Moderator : call[m].at \notin {"COUNT", "STORE"}

RollupIsRight == NobodyCounts /\ ~countOff => rollup = Tally(review)

ReviewInv ==
  /\ ReviewTypeOK /\ (\A m \in Moderator : ReadHolds(m))
  /\ PublicIsCleared /\ RollupIsRight
-----------------------------------------------------------------------------
LEMMA ReviewTypes ==
  ASSUME ReviewInv
  PROVE  /\ review \in [Review -> ReviewRows] /\ call \in [Moderator -> CallRows]
         /\ rollup \in [Rating -> Nat] /\ cleared \subseteq Review
         /\ overlapped \subseteq Review /\ countOff \in BOOLEAN
BY DEF ReviewInv, ReviewTypeOK, CallRows

\* The same, to conclude types.
LEMMA TypesBack ==
  ASSUME review \in [Review -> ReviewRows], call \in [Moderator -> CallRows],
         rollup \in [Rating -> Nat], cleared \subseteq Review,
         overlapped \subseteq Review, countOff \in BOOLEAN
  PROVE  ReviewTypeOK
BY DEF ReviewTypeOK, CallRows

LEMMA TallyType ==
  ASSUME NEW rows
  PROVE  Tally(rows) \in [Rating -> Nat]
<1>1. ASSUME NEW r \in Rating
      PROVE  Cardinality({v \in Review : rows[v].status = "APPROVED" /\ rows[v].rating = r}) \in Nat
  <2>1. IsFiniteSet({v \in Review : rows[v].status = "APPROVED" /\ rows[v].rating = r})
    BY ReviewConstants, FS_Subset
  <2>. QED  BY <2>1, FS_CardinalityType
<1>. QED  BY <1>1 DEF Tally

\* Only approved reviews count, and of these only the rating.
LEMMA TallySame ==
  ASSUME NEW old, NEW new,
         \A v \in Review : \/ new[v] = old[v]
                           \/ new[v].status # "APPROVED" /\ old[v].status # "APPROVED"
                           \/ /\ new[v].status = "APPROVED" <=> old[v].status = "APPROVED"
                              /\ new[v].rating = old[v].rating
  PROVE  Tally(new) = Tally(old)
<1>1. ASSUME NEW r \in Rating
      PROVE  {v \in Review : new[v].status = "APPROVED" /\ new[v].rating = r}
               = {v \in Review : old[v].status = "APPROVED" /\ old[v].rating = r}
  OBVIOUS
<1>. QED  BY <1>1 DEF Tally

LEMMA ReviewConstantRows ==
  /\ NoReview \in ReviewRows /\ NoCall \in CallRows /\ NoCall.at = "IDLE"
  /\ NoReview.status = "NONE"
  /\ \A status \in Kept, ack, anonymous \in BOOLEAN, r \in Rating :
       /\ ReviewRow(status, ack, anonymous, r) \in ReviewRows
       /\ ReviewRow(status, ack, anonymous, r).status = status
<1>1. (CHOOSE r \in Rating : TRUE) \in Rating
  BY ReviewConstants
<1>2. NoReview \in ReviewRows /\ NoReview.status = "NONE"
  BY <1>1 DEF NoReview, ReviewRow, ReviewRows
<1>3. NoCounts \in [Rating -> Nat]
  BY DEF NoCounts
<1>4. NoCall \in CallRows /\ NoCall.at = "IDLE"
  BY <1>2, <1>3 DEF NoCall, CallRows
<1>. QED  BY <1>2, <1>4 DEF ReviewRow, ReviewRows

LEMMA ReviewStarts == ReviewInit => ReviewInv
<1>. SUFFICES ASSUME ReviewInit PROVE ReviewInv
  OBVIOUS
<1>1. /\ review = [v \in Review |-> NoReview] /\ call = [m \in Moderator |-> NoCall]
      /\ rollup = NoCounts /\ cleared = {} /\ overlapped = {} /\ countOff = FALSE
  BY DEF ReviewInit
<1>2. ReviewTypeOK
  BY <1>1, ReviewConstantRows, TypesBack DEF NoCounts
<1>3. \A m \in Moderator : ReadHolds(m)
  BY <1>1, ReviewConstantRows DEF ReadHolds
<1>4. PublicIsCleared
  BY <1>1, ReviewConstantRows DEF PublicIsCleared
<1>5. Tally(review) = NoCounts
  <2>1. ASSUME NEW r \in Rating
        PROVE  {v \in Review : review[v].status = "APPROVED" /\ review[v].rating = r} = {}
    BY <1>1, ReviewConstantRows
  <2>. QED  BY <2>1, FS_EmptySet DEF Tally, NoCounts
<1>. QED  BY <1>1, <1>2, <1>3, <1>4, <1>5 DEF ReviewInv, RollupIsRight
-----------------------------------------------------------------------------
LEMMA NewReviewKeeps ==
  ASSUME ReviewInv, NEW v \in Review, NEW anonymous \in BOOLEAN, NEW r \in Rating,
         SubmitReview(v, anonymous, r) \/ \E ack \in BOOLEAN : ImportReview(v, ack, anonymous, r)
  PROVE  ReviewInv'
<1>1. PICK status \in {"PENDING", "PENDING_CONFIRMATION"}, ack \in BOOLEAN :
        review' = [review EXCEPT ![v] = ReviewRow(status, ack, anonymous, r)]
  BY DEF SubmitReview, ImportReview
<1>. DEFINE row == ReviewRow(status, ack, anonymous, r)
<1>0. status \in Kept /\ review[v].status = "NONE"
  BY DEF Kept, SubmitReview, ImportReview
<1>2. row \in ReviewRows /\ row.status = status /\ review[v].status = "NONE"
  BY <1>0, ReviewConstantRows
<1>3. UNCHANGED <<call, rollup, cleared, overlapped, countOff>>
  BY DEF SubmitReview, ImportReview
<1>. HIDE DEF row
<1>4. \A w \in Review : review'[w] = IF w = v THEN row ELSE review[w]
  BY <1>1, ReviewTypes DEF row
<1>5. ReviewTypeOK'
  <2>1. review' \in [Review -> ReviewRows]
    BY <1>1, <1>2, ReviewTypes DEF row
  <2>. QED  BY <1>3, <2>1 DEF ReviewInv, ReviewTypeOK
<1>6. \A m \in Moderator : ReadHolds(m)'
  BY <1>2, <1>3, <1>4 DEF ReviewInv, ReadHolds
<1>7. PublicIsCleared'
  BY <1>2, <1>3, <1>4 DEF ReviewInv, PublicIsCleared
<1>8. Tally(review') = Tally(review)
  BY <1>2, <1>4, TallySame
<1>9. RollupIsRight'
  BY <1>3, <1>8 DEF ReviewInv, RollupIsRight, NobodyCounts
<1>. QED  BY <1>5, <1>6, <1>7, <1>9 DEF ReviewInv
-----------------------------------------------------------------------------
LEMMA ReviewReadsKeep ==
  ASSUME ReviewInv, NEW m \in Moderator, NEW v \in Review,
         NEW kind \in {"MODERATE", "CONFIRM", "MASK", "RENAME", "REVEAL"},
         NEW sets \in ReviewRows, Reads(m, v, kind, sets),
         sets.status \in Kept,
         sets.status = "APPROVED" => review[v].ack,
         kind = "REVEAL" => sets.status # "APPROVED",
         kind = "RENAME" => sets.anonymous,
         kind \in {"CONFIRM", "MASK", "RENAME"} /\ sets.status = "APPROVED" =>
           review[v].status = "APPROVED",
         \/ Counts(kind, review[v], sets)
         \/ sets.status = "APPROVED" <=> review[v].status = "APPROVED"
  PROVE  ReviewInv'
<1>. DEFINE recount == Counts(kind, review[v], sets)
            new == [NoCall EXCEPT !.at = "WRITE", !.kind = kind, !.review = v, !.sets = sets,
                                  !.recount = recount]
<1>0. recount \in BOOLEAN
  BY DEF Counts
<1>1. /\ new \in CallRows /\ new.at = "WRITE" /\ new.kind = kind /\ new.review = v
      /\ new.sets = sets /\ new.recount = recount
  BY <1>0, ReviewConstantRows DEF CallRows
<1>2. /\ call' = [call EXCEPT ![m] = new] /\ review[v].status \in Kept /\ call[m].at = "IDLE"
      /\ UNCHANGED <<review, rollup, cleared, overlapped, countOff>>
  BY DEF Reads
<1>. HIDE DEF new
<1>3. \A n \in Moderator : call'[n] = IF n = m THEN new ELSE call[n]
  BY <1>2, ReviewTypes
<1>4. ReviewTypeOK'
  BY <1>1, <1>2, ReviewTypes DEF ReviewTypeOK, CallRows
<1>5. \A n \in Moderator : ReadHolds(n)'
  <2>1. ReadHolds(m)'
    BY <1>1, <1>2, <1>3 DEF ReadHolds, Kept, Decisions
  <2>. QED  BY <1>2, <1>3, <2>1 DEF ReviewInv, ReadHolds
<1>6. RollupIsRight'
  BY <1>1, <1>2, <1>3 DEF ReviewInv, RollupIsRight, NobodyCounts
<1>. QED  BY <1>2, <1>4, <1>5, <1>6 DEF ReviewInv, PublicIsCleared

LEMMA ReviewBeginsKeep ==
  ASSUME ReviewInv, NEW m \in Moderator, NEW v \in Review,
         \/ \E status \in Kept, featured \in BOOLEAN : BeginModerate(m, v, status, featured)
         \/ BeginConfirm(m, v)
         \/ \E anonymous, renamed \in BOOLEAN : BeginIdentity(m, v, anonymous, renamed)
  PROVE  ReviewInv'
<1>1. review[v] \in ReviewRows /\ (review[v].status = "APPROVED" => review[v].ack)
  BY ReviewTypes DEF ReviewInv, PublicIsCleared
<1>2. ASSUME NEW status \in Kept, NEW featured \in BOOLEAN, BeginModerate(m, v, status, featured)
      PROVE  ReviewInv'
  <2>. DEFINE sets == Moderated(review[v], status, featured)
  <2>1. sets \in ReviewRows /\ sets.status = status
    BY <1>1 DEF Moderated, ReviewRows
  <2>. HIDE DEF sets
  <2>2. Reads(m, v, "MODERATE", sets) /\ (status = "APPROVED" => review[v].ack)
    BY <1>2 DEF BeginModerate, MayApprove, sets
  <2>3. Counts("MODERATE", review[v], sets)
    BY DEF Counts
  <2>. QED  BY <2>1, <2>2, <2>3, ReviewReadsKeep
<1>3. CASE BeginConfirm(m, v)
  <2>. DEFINE sets == [review[v] EXCEPT !.ack = TRUE,
                !.status = IF review[v].status = "PENDING_CONFIRMATION" THEN "PENDING"
                           ELSE review[v].status]
  <2>1. /\ sets \in ReviewRows
        /\ sets.status = IF review[v].status = "PENDING_CONFIRMATION" THEN "PENDING"
                         ELSE review[v].status
    BY <1>1 DEF ReviewRows, Kept
  <2>2. Reads(m, v, "CONFIRM", sets)
    BY <1>3 DEF BeginConfirm
  <2>3. review[v].status \in Kept
    BY <2>2 DEF Reads
  <2>. HIDE DEF sets
  <2>. QED  BY <1>1, <2>1, <2>2, <2>3, ReviewReadsKeep DEF Kept
<1>4. ASSUME NEW anonymous \in BOOLEAN, NEW renamed \in BOOLEAN, BeginIdentity(m, v, anonymous, renamed)
      PROVE  ReviewInv'
  <2>. DEFINE again == Remoderates(review[v], anonymous, renamed)
              kind == IF again THEN "REVEAL" ELSE IF renamed THEN "RENAME" ELSE "MASK"
              status == IF again THEN "PENDING_CONFIRMATION" ELSE review[v].status
              featured == review[v].featured /\ ~again /\ review[v].status # "PENDING_CONFIRMATION"
              sets == [review[v] EXCEPT !.anonymous = anonymous, !.status = status,
                                        !.featured = featured]
  <2>1. Reads(m, v, kind, sets)
    BY <1>4 DEF BeginIdentity
  <2>2. review[v].status \in Kept /\ status \in Kept /\ featured \in BOOLEAN
    BY <2>1, <1>1 DEF Reads, Kept, ReviewRows
  <2>3. /\ kind \in {"MASK", "RENAME", "REVEAL"}
        /\ kind = "REVEAL" <=> again
        /\ kind = "RENAME" => anonymous
    BY DEF Remoderates
  <2>4. (again => status # "APPROVED") /\ (~again => status = review[v].status)
    OBVIOUS
  <2>. HIDE DEF again, kind, status, featured
  <2>5. sets \in ReviewRows /\ sets.status = status /\ sets.anonymous = anonymous
    BY <1>1, <2>2 DEF ReviewRows
  <2>. HIDE DEF sets
  <2>6. status = "APPROVED" => review[v].status = "APPROVED"
    BY <2>4
  <2>7. kind = "REVEAL" => status # "APPROVED"
    BY <2>3, <2>4
  <2>8. Counts(kind, review[v], sets) \/ status = review[v].status
    BY <2>3, <2>5 DEF Counts
  <2>. QED  BY <1>1, <2>1, <2>2, <2>3, <2>5, <2>6, <2>7, <2>8, ReviewReadsKeep
<1>. QED  BY <1>2, <1>3, <1>4
-----------------------------------------------------------------------------
\* What a call writes: a status it had read or decided, and never a review
\* without the acknowledgement it had.
LEMMA WrittenRow ==
  ASSUME NEW row \in ReviewRows, NEW c \in CallRows, c.kind # "NONE"
  PROVE  /\ WrittenReview(row, c) \in ReviewRows
         /\ WrittenReview(row, c).status = c.sets.status
         /\ WrittenReview(row, c).rating = row.rating
         /\ row.ack => WrittenReview(row, c).ack
<1>1. /\ c.kind \in {"MODERATE", "CONFIRM", "MASK", "RENAME", "REVEAL"}
      /\ c.sets.status \in Kept \cup {"NONE", "DELETED"} /\ c.sets.featured \in BOOLEAN
      /\ c.sets.anonymous \in BOOLEAN
  BY DEF CallRows, ReviewRows
<1>2. CASE c.kind = "MODERATE"
  BY <1>1, <1>2 DEF WrittenReview, ReviewRows
<1>3. CASE c.kind = "CONFIRM"
  BY <1>1, <1>3 DEF WrittenReview, ReviewRows
<1>4. CASE c.kind \in {"MASK", "RENAME", "REVEAL"}
  <2>1. WrittenReview(row, c) = [row EXCEPT !.status = c.sets.status, !.featured = c.sets.featured,
                                            !.anonymous = c.sets.anonymous]
    BY <1>4 DEF WrittenReview
  <2>. QED  BY <1>1, <2>1 DEF ReviewRows
<1>. QED  BY <1>1, <1>2, <1>3, <1>4

LEMMA WriteKeeps ==
  ASSUME ReviewInv, NEW m \in Moderator, WriteReview(m)
  PROVE  ReviewInv'
<1>. DEFINE c == call[m]
            v == c.review
            row == review[v]
            gone == row.status = "DELETED"
            new == WrittenReview(row, c)
            done == [NoCall EXCEPT !.at = IF c.recount THEN "COUNT" ELSE "IDLE"]
<1>1. /\ c \in CallRows /\ c.at = "WRITE" /\ v \in Review /\ row \in ReviewRows
      /\ c.kind # "NONE" /\ ReadHolds(m)
  BY ReviewTypes DEF WriteReview, ReviewInv, ReadHolds
<1>2. /\ new \in ReviewRows /\ new.status = c.sets.status /\ new.rating = row.rating
      /\ (row.ack => new.ack)
  BY <1>1, WrittenRow
<1>3. /\ review' = IF gone THEN review ELSE [review EXCEPT ![v] = new]
      /\ call' = [call EXCEPT ![m] = done] /\ rollup' = rollup
      /\ cleared' = ClearedAfter(c)
      /\ overlapped' = IF Reading(v, m) = {} THEN overlapped ELSE overlapped \cup {v}
      /\ countOff' = (countOff \/ (~c.recount /\ v \in overlapped /\ Tally(review') # Tally(review)))
  BY DEF WriteReview
<1>4. /\ done \in CallRows /\ done.at \in {"COUNT", "IDLE"}
      /\ c.recount => done.at = "COUNT"
  BY ReviewConstantRows DEF CallRows
<1>5. /\ overlapped \subseteq overlapped' /\ overlapped' \subseteq Review
      /\ \A n \in Moderator \ {m} : call[n].at = "WRITE" /\ call[n].review = v => v \in overlapped'
  BY <1>1, <1>3, ReviewTypes DEF Reading
<1>6. cleared' \subseteq Review /\ \A w \in Review \ {v} : w \in cleared' <=> w \in cleared
  BY <1>1, <1>3, ReviewTypes DEF ClearedAfter
<1>. HIDE DEF done, new
<1>7. /\ review' \in [Review -> ReviewRows]
      /\ \A w \in Review : review'[w] = IF w = v /\ ~gone THEN new ELSE review[w]
  BY <1>1, <1>2, <1>3, ReviewTypes
<1>8. /\ call' \in [Moderator -> CallRows]
      /\ \A n \in Moderator : call'[n] = IF n = m THEN done ELSE call[n]
  BY <1>3, <1>4, ReviewTypes
<1>9. ReviewTypeOK'
  <2>1. countOff' \in BOOLEAN
    BY <1>3, ReviewTypes
  <2>. QED  BY <1>3, <1>5, <1>6, <1>7, <1>8, <2>1, ReviewTypes DEF ReviewTypeOK, CallRows
<1>10. ASSUME NEW n \in Moderator PROVE ReadHolds(n)'
  <2>1. CASE n = m
    BY <2>1, <1>4, <1>8 DEF ReadHolds
  <2>2. CASE n # m /\ call[n].review = v /\ ~gone
    BY <2>2, <1>1, <1>2, <1>5, <1>7, <1>8 DEF ReadHolds, ReviewInv, Kept, Decisions
  <2>3. CASE n # m /\ (call[n].review # v \/ gone)
    BY <2>3, <1>5, <1>7, <1>8 DEF ReadHolds, ReviewInv
  <2>. QED  BY <2>1, <2>2, <2>3
<1>11. ASSUME NEW w \in Review, review'[w].status = "APPROVED"
       PROVE  review'[w].ack /\ (w \in cleared' \/ w \in overlapped')
  <2>1. CASE w # v
    BY <2>1, <1>5, <1>6, <1>7, <1>11 DEF ReviewInv, PublicIsCleared
  <2>2. CASE w = v
    <3>1. ~gone /\ review'[w] = new /\ c.sets.status = "APPROVED"
      BY <2>2, <1>2, <1>7, <1>11
    <3>2. new.ack
      BY <3>1, <1>1, <1>2 DEF ReadHolds
    <3>3. CASE c.kind = "MODERATE"
      BY <2>2, <3>1, <3>2, <3>3, <1>3 DEF ClearedAfter
    <3>4. CASE c.kind \in {"CONFIRM", "MASK", "RENAME"}
      <4>1. v \in cleared \/ v \in overlapped
        BY <3>1, <3>4, <1>1 DEF ReadHolds, ReviewInv, PublicIsCleared
      <4>2. v \in cleared => v \in cleared'
        BY <3>4, <1>1, <1>3 DEF ClearedAfter, ReadHolds
      <4>. QED  BY <2>2, <3>1, <3>2, <4>1, <4>2, <1>5
    <3>5. c.kind # "REVEAL"
      BY <3>1, <1>1 DEF ReadHolds
    <3>. QED  BY <3>3, <3>4, <3>5, <1>1 DEF CallRows
  <2>. QED  BY <2>1, <2>2
<1>12. PublicIsCleared'
  BY <1>11 DEF PublicIsCleared
<1>13. RollupIsRight'
  <2>. SUFFICES ASSUME NobodyCounts', ~countOff' PROVE rollup' = Tally(review')
    BY DEF RollupIsRight
  <2>1. ~c.recount
    BY <1>4, <1>8 DEF NobodyCounts
  <2>2. ~countOff /\ Tally(review') = Tally(review)
    <3>1. ~countOff /\ (v \in overlapped => Tally(review') = Tally(review))
      BY <1>3, <2>1
    <3>2. CASE v \notin overlapped
      <4>1. gone \/ (new.status = "APPROVED" <=> row.status = "APPROVED")
        BY <1>1, <1>2, <2>1, <3>2 DEF ReadHolds
      <4>. QED  BY <1>2, <1>7, <3>1, <4>1, TallySame
    <3>. QED  BY <3>1, <3>2
  <2>3. NobodyCounts
    BY <1>1, <1>8 DEF NobodyCounts
  <2>. QED  BY <1>3, <2>2, <2>3 DEF ReviewInv, RollupIsRight
<1>. QED  BY <1>9, <1>10, <1>12, <1>13 DEF ReviewInv
-----------------------------------------------------------------------------
\* A write without a read goes on to count; a deleted review stays deleted.
LEMMA PlainWriteKeeps ==
  ASSUME ReviewInv, NEW m \in Moderator, NEW v \in Review, NEW row \in ReviewRows,
         call[m].at = "IDLE", review[v].status \in Kept,
         review' = [review EXCEPT ![v] = row],
         call' = [call EXCEPT ![m] = [NoCall EXCEPT !.at = "COUNT"]],
         \/ row.status = review[v].status /\ row.ack = review[v].ack /\ cleared' = cleared
         \/ row.status = "DELETED" /\ cleared' = cleared \ {v},
         UNCHANGED <<rollup, overlapped, countOff>>
  PROVE  ReviewInv'
<1>. DEFINE new == [NoCall EXCEPT !.at = "COUNT"]
<1>1. new \in CallRows /\ new.at = "COUNT"
  BY ReviewConstantRows DEF CallRows
<1>. HIDE DEF new
<1>2. \A w \in Review : review'[w] = IF w = v THEN row ELSE review[w]
  BY ReviewTypes
<1>3. \A n \in Moderator : call'[n] = IF n = m THEN new ELSE call[n]
  BY ReviewTypes DEF new
<1>4. ReviewTypeOK'
  <2>1. call' \in [Moderator -> CallRows]
    BY <1>1, ReviewTypes DEF new
  <2>2. review' \in [Review -> ReviewRows] /\ cleared' \subseteq Review
    BY ReviewTypes
  <2>. QED  BY <2>1, <2>2, ReviewTypes DEF ReviewTypeOK, CallRows
<1>5. \A n \in Moderator : ReadHolds(n)'
  BY <1>1, <1>2, <1>3 DEF ReviewInv, ReadHolds, Kept
<1>6. PublicIsCleared'
  BY <1>2 DEF ReviewInv, PublicIsCleared
<1>7. RollupIsRight'
  BY <1>1, <1>3 DEF RollupIsRight, NobodyCounts
<1>. QED  BY <1>4, <1>5, <1>6, <1>7 DEF ReviewInv

LEMMA PlainWritesKeep ==
  ASSUME ReviewInv, NEW m \in Moderator, NEW v \in Review,
         DeleteReview(m, v) \/ \E r \in Rating : UpdateFull(m, v, r)
  PROVE  ReviewInv'
<1>1. review[v] \in ReviewRows
  BY ReviewTypes
<1>2. ASSUME NEW r \in Rating, UpdateFull(m, v, r) PROVE ReviewInv'
  <2>. DEFINE row == [review[v] EXCEPT !.rating = r]
  <2>1. row \in ReviewRows /\ row.status = review[v].status /\ row.ack = review[v].ack
    BY <1>1 DEF ReviewRows
  <2>2. review' = [review EXCEPT ![v] = row]
    BY <1>2 DEF UpdateFull
  <2>. HIDE DEF row
  <2>. QED  BY <1>2, <2>1, <2>2, PlainWriteKeeps DEF UpdateFull
<1>3. CASE DeleteReview(m, v)
  <2>. DEFINE row == [NoReview EXCEPT !.status = "DELETED"]
  <2>1. row \in ReviewRows /\ row.status = "DELETED"
    BY ReviewConstantRows DEF ReviewRows
  <2>2. review' = [review EXCEPT ![v] = row]
    BY <1>3 DEF DeleteReview
  <2>. HIDE DEF row
  <2>. QED  BY <1>3, <2>1, <2>2, PlainWriteKeeps DEF DeleteReview
<1>. QED  BY <1>2, <1>3
-----------------------------------------------------------------------------
\* Counting, storing, and the end of a call.
LEMMA CountKeeps ==
  ASSUME ReviewInv, NEW m \in Moderator, CountApproved(m) \/ StoreCounts(m) \/ CallDies(m)
  PROVE  ReviewInv'
<1>1. /\ Tally(review) \in [Rating -> Nat] /\ call[m] \in CallRows
      /\ call[m].counts \in [Rating -> Nat]
  BY ReviewTypes, TallyType DEF CallRows
<1>. DEFINE new == IF CountApproved(m) THEN [call[m] EXCEPT !.at = "STORE", !.counts = Tally(review)]
                   ELSE NoCall
<1>2. /\ call' = [call EXCEPT ![m] = new] /\ UNCHANGED <<review, cleared, overlapped>>
  <2>1. CASE CountApproved(m)
    BY <2>1, <1>1, ReviewTypes DEF CountApproved, CallRows
  <2>2. CASE ~CountApproved(m)
    BY <2>2 DEF StoreCounts, CallDies
  <2>. QED  BY <2>1, <2>2
<1>3. new \in CallRows /\ new.at \in {"STORE", "IDLE"}
  BY <1>1, ReviewConstantRows DEF CallRows
<1>4. CountApproved(m) => new.at = "STORE"
  BY <1>1 DEF CallRows
<1>. HIDE DEF new
<1>5. /\ call' \in [Moderator -> CallRows]
      /\ \A n \in Moderator : call'[n] = IF n = m THEN new ELSE call[n]
  BY <1>2, <1>3, ReviewTypes
<1>6. rollup' \in [Rating -> Nat] /\ countOff' \in BOOLEAN
  BY <1>1, ReviewTypes DEF CountApproved, StoreCounts, CallDies
<1>7. ReviewTypeOK'
  BY <1>2, <1>5, <1>6, ReviewTypes DEF ReviewTypeOK, CallRows
<1>8. \A n \in Moderator : ReadHolds(n)'
  BY <1>2, <1>3, <1>5 DEF ReviewInv, ReadHolds
<1>9. RollupIsRight'
  <2>1. CASE CountApproved(m)
    BY <2>1, <1>4, <1>5 DEF RollupIsRight, NobodyCounts
  <2>2. CASE StoreCounts(m)
    BY <2>2, <1>2 DEF StoreCounts, RollupIsRight
  <2>3. CASE CallDies(m)
    <3>1. ~countOff' => ~countOff /\ call[m].at = "WRITE"
      BY <2>3 DEF CallDies
    <3>2. rollup' = rollup
      BY <2>3 DEF CallDies
    <3>3. NobodyCounts' /\ call[m].at = "WRITE" => NobodyCounts
      BY <1>5 DEF NobodyCounts
    <3>. QED  BY <1>2, <3>1, <3>2, <3>3 DEF ReviewInv, RollupIsRight
  <2>. QED  BY <2>1, <2>2, <2>3
<1>. QED  BY <1>2, <1>7, <1>8, <1>9 DEF ReviewInv, PublicIsCleared

LEMMA BulkKeeps ==
  ASSUME ReviewInv, NEW m \in Moderator, NEW S \in SUBSET Review, NEW status \in Decisions,
         BulkModerate(m, S, status)
  PROVE  ReviewInv'
<1>1. /\ review' = [v \in Review |-> IF v \in S
            THEN Moderated(review[v], status, review[v].featured) ELSE review[v]]
      /\ rollup' = Tally(review') /\ countOff' = FALSE /\ call' = call /\ call[m].at = "IDLE"
      /\ cleared' = IF status = "APPROVED" THEN cleared \cup S ELSE cleared \ S
      /\ overlapped' = overlapped \cup {v \in S : Reading(v, m) # {}}
      /\ \A v \in S : review[v].status \in Kept /\ (status = "APPROVED" => review[v].ack)
  BY DEF BulkModerate, MayApprove
<1>2. ASSUME NEW v \in Review
      PROVE  /\ review'[v] \in ReviewRows /\ review'[v].ack = review[v].ack
             /\ review'[v].status = IF v \in S THEN status ELSE review[v].status
  <2>. DEFINE featured == status = "APPROVED" /\ review[v].featured
              row == [review[v] EXCEPT !.status = status, !.featured = featured]
  <2>1. review[v] \in ReviewRows /\ featured \in BOOLEAN
    BY ReviewTypes
  <2>2. review'[v] = IF v \in S THEN row ELSE review[v]
    BY <1>1 DEF Moderated
  <2>. HIDE DEF featured
  <2>3. row \in ReviewRows /\ row.status = status /\ row.ack = review[v].ack
    BY <2>1 DEF ReviewRows, Kept
  <2>. HIDE DEF row
  <2>. QED  BY <2>1, <2>2, <2>3
<1>3. review' \in [Review -> ReviewRows]
  BY <1>1, <1>2
<1>4. rollup' \in [Rating -> Nat] /\ cleared' \subseteq Review /\ overlapped' \subseteq Review
  BY <1>1, TallyType, ReviewTypes
<1>5. ReviewTypeOK'
  BY <1>1, <1>3, <1>4, ReviewTypes DEF ReviewTypeOK, CallRows
<1>6. ASSUME NEW n \in Moderator PROVE ReadHolds(n)'
  <2>. SUFFICES ASSUME call[n].at = "WRITE" PROVE ReadHolds(n)'
    BY <1>1 DEF ReadHolds
  <2>1. call[n].review \in Review /\ ReadHolds(n) /\ n # m
    BY <1>1 DEF ReadHolds, ReviewInv
  <2>2. call[n].review \in S => call[n].review \in overlapped'
    BY <1>1, <2>1 DEF Reading
  <2>3. status \in Kept /\ status # "NONE" /\ status # "DELETED"
    BY DEF Kept, Decisions
  <2>4. overlapped \subseteq overlapped'
    BY <1>1
  <2>5. \A v \in S : review[v].status # "DELETED"
    BY <1>1 DEF Kept, Decisions
  <2>. QED  BY <1>1, <1>2, <2>1, <2>2, <2>3, <2>4, <2>5 DEF ReadHolds
<1>7. PublicIsCleared'
  BY <1>1, <1>2 DEF ReviewInv, PublicIsCleared
<1>. QED  BY <1>1, <1>5, <1>6, <1>7 DEF ReviewInv, RollupIsRight
-----------------------------------------------------------------------------
LEMMA ReviewStep == ReviewInv /\ [ReviewNext]_reviewVars => ReviewInv'
<1>. SUFFICES ASSUME ReviewInv, [ReviewNext]_reviewVars PROVE ReviewInv'
  OBVIOUS
<1>1. CASE UNCHANGED reviewVars
  BY <1>1 DEF reviewVars, ReviewInv, ReviewTypeOK, ReadHolds, PublicIsCleared, RollupIsRight,
              NobodyCounts
<1>2. CASE ReviewNext
  BY <1>2, NewReviewKeeps, ReviewBeginsKeep, PlainWritesKeep, WriteKeeps, CountKeeps, BulkKeeps
     DEF ReviewNext
<1>. QED  BY <1>1, <1>2

\* However the calls of moderators interleave, a public review has its
\* author's acknowledgement, and was published under the name it shows by a
\* moderator, unless a call wrote back what it had read before another's
\* (reviews.ts).
THEOREM PublicReviewsCleared == ReviewSpec => []PublicIsCleared
<1>1. ReviewInv => PublicIsCleared
  BY DEF ReviewInv
<1>. QED  BY ReviewStarts, ReviewStep, <1>1, PTL DEF ReviewSpec

\* The rating the shop shows is that of its approved reviews when every call
\* is over and the last count was not overtaken (recalculateReviewRollup).
THEOREM RatingTells == ReviewSpec => []RollupTells
<1>1. ReviewInv => RollupTells
  BY DEF ReviewInv, RollupIsRight, NobodyCounts, RollupTells
<1>. QED  BY ReviewStarts, ReviewStep, <1>1, PTL DEF ReviewSpec
=============================================================================
