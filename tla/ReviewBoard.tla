----------------------------- MODULE ReviewBoard -----------------------------
(***************************************************************************)
(* Customer reviews and the rating the shop shows                          *)
(* (src/src/domain/reviews.ts).  Except for the bulk moderation, no        *)
(* operation runs in a transaction: it reads the review, writes it by its  *)
(* id with columns computed from what it read, and then counts the         *)
(* approved reviews and stores the counts with the shop, each a statement  *)
(* of its own, among those of other members of staff.  Texts, replies,     *)
(* links to orders, the verified mark and the switch that hides all        *)
(* reviews change nothing of this and are left out.                        *)
(***************************************************************************)
EXTENDS Naturals, FiniteSets

CONSTANTS
  Review,     \* reviews
  Moderator,  \* members of staff, one call each at a time
  Rating      \* the stars a review can give

ASSUME ReviewConstants == IsFiniteSet(Review) /\ Rating # {}

VARIABLES
  review,     \* review[v]: its row
  call,       \* call[m]: where m's call is, with what it read
  rollup,     \* the shop's starDistribution: approved reviews per rating
  cleared,    \* history: reviews whose publication, under the name they show,
              \* was the last thing a moderator decided about them
  overlapped, \* history: reviews written between another call's read and write
  countOff    \* history: the counts stored last were old, or never stored

reviewVars == <<review, call, rollup, cleared, overlapped, countOff>>

\* REJECTED, HIDDEN and ARCHIVED differ in nothing that follows: OFF.
Decisions == {"APPROVED", "OFF"}
Kept == {"PENDING", "PENDING_CONFIRMATION"} \cup Decisions

ReviewRow(status, ack, anonymous, rating) ==
  [status |-> status, ack |-> ack, featured |-> FALSE, anonymous |-> anonymous,
   rating |-> rating]
NoReview == ReviewRow("NONE", FALSE, TRUE, CHOOSE r \in Rating : TRUE)

NoCounts == [r \in Rating |-> 0]
NoCall == [at |-> "IDLE", kind |-> "NONE", review |-> "NONE",
           sets |-> NoReview, recount |-> FALSE, counts |-> NoCounts]

\* What recalculateReviewRollup counts.
Tally(rows) ==
  [r \in Rating |-> Cardinality({v \in Review : rows[v].status = "APPROVED" /\ rows[v].rating = r})]

ReviewInit ==
  /\ review = [v \in Review |-> NoReview]
  /\ call = [m \in Moderator |-> NoCall]
  /\ rollup = NoCounts
  /\ cleared = {} /\ overlapped = {} /\ countOff = FALSE

-----------------------------------------------------------------------------
(* New reviews. *)

\* createPublicReview.
SubmitReview(v, anonymous, rating) ==
  /\ review[v].status = "NONE"
  /\ review' = [review EXCEPT ![v] = ReviewRow("PENDING", TRUE, anonymous, rating)]
  /\ UNCHANGED <<call, rollup, cleared, overlapped, countOff>>

\* createManualReview, with the customer's consent or before it.
ImportReview(v, ack, anonymous, rating) ==
  /\ review[v].status = "NONE"
  /\ review' = [review EXCEPT ![v] =
       ReviewRow(IF ack THEN "PENDING" ELSE "PENDING_CONFIRMATION", ack, anonymous, rating)]
  /\ UNCHANGED <<call, rollup, cleared, overlapped, countOff>>

-----------------------------------------------------------------------------
(* The read of a call. *)

\* Other calls that have read v and not written it yet.
Reading(v, m) == {n \in Moderator \ {m} : call[n].at = "WRITE" /\ call[n].review = v}

\* Mutant of Counts: the new status of a renamed review is not counted.
CountsModerations(kind, row, sets) == kind = "MODERATE"

\* Whether a call will count once it has written: moderateReview always, the
\* identity call when the status it writes is not the one it has read,
\* confirmManualReview never.
Counts(kind, row, sets) ==
  kind = "MODERATE" \/ (kind # "CONFIRM" /\ sets.status # row.status)

Reads(m, v, kind, sets) ==
  /\ call[m].at = "IDLE" /\ review[v].status \in Kept
  /\ call' = [call EXCEPT ![m] = [NoCall EXCEPT !.at = "WRITE", !.kind = kind,
                                  !.review = v, !.sets = sets,
                                  !.recount = Counts(kind, review[v], sets)]]
  /\ UNCHANGED <<review, rollup, cleared, overlapped, countOff>>

\* Mutant of MayApprove: the acknowledgement is not asked for.
MayApproveAny(row) == TRUE

\* "Publication acknowledgement is required before approving".
MayApprove(row) == row.ack

Moderated(row, status, featured) ==
  [row EXCEPT !.status = status, !.featured = status = "APPROVED" /\ featured]

\* moderateReview: to a status, or with the one it has; only an approved
\* review is featured.
BeginModerate(m, v, status, featured) ==
  /\ status \in Decisions \cup {review[v].status}
  /\ status = "APPROVED" => MayApprove(review[v])
  /\ featured => status = "APPROVED"
  /\ Reads(m, v, "MODERATE", Moderated(review[v], status, featured))

\* confirmManualReview.
BeginConfirm(m, v) ==
  Reads(m, v, "CONFIRM", [review[v] EXCEPT !.ack = TRUE,
    !.status = IF @ = "PENDING_CONFIRMATION" THEN "PENDING" ELSE @])

\* Mutant of Remoderates: a new name alone does not count.
RemoderatesUnmasked(row, anonymous, renamed) == row.anonymous /\ ~anonymous

Remoderates(row, anonymous, renamed) == ~anonymous /\ (row.anonymous \/ renamed)

\* updateReviewPublicationIdentity: a name not shown before has to be
\* moderated again; otherwise the status is written back as it was read.
BeginIdentity(m, v, anonymous, renamed) ==
  LET again == Remoderates(review[v], anonymous, renamed) IN
    Reads(m, v, IF again THEN "REVEAL" ELSE IF renamed THEN "RENAME" ELSE "MASK",
      [review[v] EXCEPT !.anonymous = anonymous,
         !.status = IF again THEN "PENDING_CONFIRMATION" ELSE @,
         !.featured = @ /\ ~again /\ review[v].status # "PENDING_CONFIRMATION"])

-----------------------------------------------------------------------------
(* The write of a call: only the columns it sets. *)

WrittenReview(row, c) ==
  CASE c.kind = "MODERATE" ->
         [row EXCEPT !.status = c.sets.status, !.featured = c.sets.featured]
    [] c.kind = "CONFIRM" -> [row EXCEPT !.status = c.sets.status, !.ack = TRUE]
    [] OTHER -> [row EXCEPT !.status = c.sets.status, !.featured = c.sets.featured,
                            !.anonymous = c.sets.anonymous]

\* A name not moderated before is shown by a REVEAL, or by a RENAME that
\* leaves the review named.
ClearedAfter(c) ==
  CASE c.kind = "MODERATE" -> IF c.sets.status = "APPROVED" THEN cleared \cup {c.review}
                              ELSE cleared \ {c.review}
    [] c.kind = "CONFIRM" -> cleared
    [] OTHER -> IF c.kind = "REVEAL" \/ (c.kind = "RENAME" /\ ~c.sets.anonymous)
                THEN cleared \ {c.review} ELSE cleared

WriteReview(m) ==
  LET c == call[m]
      v == c.review
      gone == review[v].status = "DELETED" IN
  /\ c.at = "WRITE"
  /\ review' = IF gone THEN review ELSE [review EXCEPT ![v] = WrittenReview(review[v], c)]
  /\ call' = [call EXCEPT ![m] = [NoCall EXCEPT !.at = IF c.recount THEN "COUNT" ELSE "IDLE"]]
  /\ cleared' = ClearedAfter(c)
  /\ overlapped' = IF Reading(v, m) = {} THEN overlapped ELSE overlapped \cup {v}
  /\ countOff' = (countOff \/ (~c.recount /\ v \in overlapped /\ Tally(review') # Tally(review)))
  /\ UNCHANGED rollup

\* updateFullReview takes nothing from what it read but that the review is
\* there: a write by itself, then the count.
UpdateFull(m, v, rating) ==
  /\ call[m].at = "IDLE" /\ review[v].status \in Kept
  /\ review' = [review EXCEPT ![v].rating = rating]
  /\ call' = [call EXCEPT ![m] = [NoCall EXCEPT !.at = "COUNT"]]
  /\ UNCHANGED <<rollup, cleared, overlapped, countOff>>

\* deleteReview.
DeleteReview(m, v) ==
  /\ call[m].at = "IDLE" /\ review[v].status \in Kept
  /\ review' = [review EXCEPT ![v] = [NoReview EXCEPT !.status = "DELETED"]]
  /\ call' = [call EXCEPT ![m] = [NoCall EXCEPT !.at = "COUNT"]]
  /\ cleared' = cleared \ {v}
  /\ UNCHANGED <<rollup, overlapped, countOff>>

-----------------------------------------------------------------------------
(* recalculateReviewRollup: read, then store. *)

CountApproved(m) ==
  /\ call[m].at = "COUNT"
  /\ call' = [call EXCEPT ![m].at = "STORE", ![m].counts = Tally(review)]
  /\ UNCHANGED <<review, rollup, cleared, overlapped, countOff>>

StoreCounts(m) ==
  /\ call[m].at = "STORE"
  /\ rollup' = call[m].counts
  /\ countOff' = (call[m].counts # Tally(review))
  /\ call' = [call EXCEPT ![m] = NoCall]
  /\ UNCHANGED <<review, cleared, overlapped>>

\* bulkModerateReviews: reads, writes and counts in one transaction; one
\* review that may not be approved undoes all.
BulkModerate(m, S, status) ==
  /\ call[m].at = "IDLE" /\ S # {}
  /\ \A v \in S : review[v].status \in Kept /\ (status = "APPROVED" => MayApprove(review[v]))
  /\ review' = [v \in Review |-> IF v \in S
                THEN Moderated(review[v], status, review[v].featured) ELSE review[v]]
  /\ rollup' = Tally(review')
  /\ countOff' = FALSE
  /\ cleared' = IF status = "APPROVED" THEN cleared \cup S ELSE cleared \ S
  /\ overlapped' = overlapped \cup {v \in S : Reading(v, m) # {}}
  /\ UNCHANGED call

\* An error or a crash ends a call between two of its statements.
CallDies(m) ==
  /\ call[m].at # "IDLE"
  /\ call' = [call EXCEPT ![m] = NoCall]
  /\ countOff' = (countOff \/ call[m].at # "WRITE")
  /\ UNCHANGED <<review, rollup, cleared, overlapped>>

ReviewNext ==
  \/ \E v \in Review, anonymous \in BOOLEAN, r \in Rating :
       \/ SubmitReview(v, anonymous, r)
       \/ \E ack \in BOOLEAN : ImportReview(v, ack, anonymous, r)
  \/ \E m \in Moderator, v \in Review :
       \/ \E status \in Kept, featured \in BOOLEAN : BeginModerate(m, v, status, featured)
       \/ BeginConfirm(m, v)
       \/ \E anonymous, renamed \in BOOLEAN : BeginIdentity(m, v, anonymous, renamed)
       \/ \E r \in Rating : UpdateFull(m, v, r)
       \/ DeleteReview(m, v)
  \/ \E m \in Moderator :
       \/ WriteReview(m) \/ CountApproved(m) \/ StoreCounts(m) \/ CallDies(m)
       \/ \E S \in SUBSET Review, status \in Decisions : BulkModerate(m, S, status)

ReviewSpec == ReviewInit /\ [][ReviewNext]_reviewVars
-----------------------------------------------------------------------------
ReviewRows == [status : Kept \cup {"NONE", "DELETED"}, ack : BOOLEAN, featured : BOOLEAN,
               anonymous : BOOLEAN, rating : Rating]

ReviewTypeOK ==
  /\ review \in [Review -> ReviewRows]
  /\ call \in [Moderator -> [at : {"IDLE", "WRITE", "COUNT", "STORE"},
       kind : {"NONE", "MODERATE", "CONFIRM", "MASK", "RENAME", "REVEAL"},
       review : Review \cup {"NONE"}, sets : ReviewRows, recount : BOOLEAN,
       counts : [Rating -> Nat]]]
  /\ rollup \in [Rating -> Nat]
  /\ cleared \subseteq Review /\ overlapped \subseteq Review
  /\ countOff \in BOOLEAN

\* A review is public only with its author's acknowledgement, however calls
\* interleave; and only when publishing it, under the name it shows, was the
\* last word of a moderator, unless one call wrote back what it had read
\* before another's.
PublicIsCleared ==
  \A v \in Review : review[v].status = "APPROVED" =>
    /\ review[v].ack
    /\ v \in cleared \/ v \in overlapped

\* The rating the shop shows is that of its approved reviews whenever no call
\* is under way, unless the last to store its counts had counted before
\* another's write, or a call died before it had stored them, or wrote the
\* status it had read over a newer one: it sees no change then, and does not
\* count (updateReviewPublicationIdentity, confirmManualReview).
RollupTells ==
  (\A m \in Moderator : call[m].at = "IDLE") /\ ~countOff => rollup = Tally(review)
=============================================================================
