---------------------------- MODULE ProductReviews ----------------------------
(***************************************************************************)
(* The reviews of one product (catalog_service/services/review_service.py,  *)
(* routers/reviews.py, tasks/moderation_tasks.py).  A decision recomputes   *)
(* the published rating from the approved reviews that its own transaction  *)
(* sees, commits, and sends a task that computes it once more.  Tasks are   *)
(* acknowledged as they are taken: a worker that dies loses its task.       *)
(***************************************************************************)
EXTENDS Integers, FiniteSets, FiniteSums

CONSTANTS
  ReviewIds, Rating,   \* reviews, and the stars that each gives
  Moderators,          \* requests that decide on a review
  RatingWorkers,       \* Celery workers
  MaxRecomputeRetries, \* max_retries of the task
  MaxRecomputes,       \* bound: tasks at the broker or about to be sent
  Unrated              \* the product has no row of its rating

\* The columns of the row of a product's rating.
RatingRows == [average_rating : Int, review_count : Int]

ASSUME ReviewsAssumption ==
  /\ Rating \in [ReviewIds -> 1..5] /\ IsFiniteSet(ReviewIds)
  /\ IsFiniteSet(Moderators) /\ IsFiniteSet(RatingWorkers)
  /\ Moderators \cap RatingWorkers = {}
  /\ MaxRecomputeRetries \in Nat /\ MaxRecomputes \in Nat
  /\ Unrated \notin RatingRows

VARIABLES
  review_status, \* reviews.status
  aggregate,     \* the row of product_rating_aggregates
  session,       \* what a request or a task has read, and its next step
  recompute,     \* tasks at the broker, by the attempts they have behind them
  astray         \* history: a task was lost, gave up, or overlapped another one

reviewVars == <<review_status, aggregate, session, recompute, astray>>

Attempts == 0..MaxRecomputeRetries
Raters == Moderators \cup RatingWorkers

\* Average and count; the average is rounded to hundredths.
Statistics(reviews) ==
  LET n == Cardinality(reviews)
      stars == SumOver(Rating, reviews)
  IN  [average_rating |-> IF n = 0 THEN 0 ELSE (200 * stars + n) \div (2 * n),
       review_count |-> n]

\* writes: the review that is decided on with its new status, if that differs.
NoRating == [step |-> "none", writes |-> {}, stats |-> Unrated, copy |-> Unrated,
             attempt |-> 0, old |-> FALSE]

ReviewsInit ==
  /\ review_status = [r \in ReviewIds |-> "absent"]
  /\ aggregate = Unrated
  /\ session = [s \in Raters |-> NoRating]
  /\ recompute = [k \in Attempts |-> 0]
  /\ astray = FALSE

create_review(r) ==
  /\ review_status[r] = "absent"
  /\ review_status' = [review_status EXCEPT ![r] = "pending"]
  /\ UNCHANGED <<aggregate, session, recompute, astray>>

-----------------------------------------------------------------------------
(* A decision on a review, whatever was decided before.                    *)

get_review(m, r, status) ==
  /\ session[m] = NoRating /\ review_status[r] # "absent"
  /\ SumOver(recompute, Attempts)
       + Cardinality({s \in Raters : session[s] # NoRating}) < MaxRecomputes
  /\ session' = [session EXCEPT ![m].step = "flush",
                                ![m].writes = {<<r, status>>} \ {<<r, review_status[r]>>}]
  /\ UNCHANGED <<review_status, aggregate, recompute, astray>>

\* The transaction of s has written the status of r, and holds the row.
HasDecided(s, r) ==
  /\ s \in Moderators /\ session[s].step \in {"count", "load", "commit"}
  /\ \E d \in session[s].writes : d[1] = r

\* The UPDATE of the review waits for the row; a status equal to the one read
\* is not written.
moderate_review(m) ==
  /\ session[m].step = "flush"
  /\ \A d \in session[m].writes, n \in Moderators : ~HasDecided(n, d[1])
  /\ session' = [session EXCEPT ![m].step = "count"]
  /\ UNCHANGED <<review_status, aggregate, recompute, astray>>

-----------------------------------------------------------------------------
(* The rating is recomputed, by a request or by a task.                    *)

StatusSeen(s, r) ==
  IF HasDecided(s, r) THEN (CHOOSE d \in session[s].writes : d[1] = r)[2] ELSE review_status[r]

Approved(s) == {r \in ReviewIds : StatusSeen(s, r) = "approved"}

\* The statistics are selected.
SelectStatistics(s) ==
  /\ session[s].step = "count"
  /\ session' = [session EXCEPT ![s].step = "load", ![s].stats = Statistics(Approved(s))]
  /\ UNCHANGED <<review_status, aggregate, recompute, astray>>

\* The row of the rating is selected.
SelectAggregate(s) ==
  /\ session[s].step = "load"
  /\ session' = [session EXCEPT ![s].step = "commit", ![s].copy = aggregate]
  /\ UNCHANGED <<review_status, aggregate, recompute, astray>>

\* The columns that differ from the row as selected are written.
Written(s) ==
  LET copy == session[s].copy
      stats == session[s].stats
  IN  IF copy = Unrated THEN stats
      ELSE [c \in DOMAIN stats |-> IF stats[c] = copy[c] THEN aggregate[c] ELSE stats[c]]

\* Another task has committed what the task of t computes as well.
Outdated(t) ==
  IF t \in RatingWorkers /\ session[t].step \in {"load", "commit"}
  THEN [session[t] EXCEPT !.old = TRUE] ELSE session[t]

\* A second row of the product is refused by its unique key: FailRating.
CommitRating(s) ==
  /\ session[s].step = "commit"
  /\ session[s].copy = Unrated => aggregate = Unrated
  /\ aggregate' = Written(s)
  /\ review_status' = [r \in ReviewIds |-> StatusSeen(s, r)]
  /\ session' = [t \in Raters |->
       IF t = s THEN IF s \in Moderators THEN [NoRating EXCEPT !.step = "send"] ELSE NoRating
       ELSE IF s \in RatingWorkers THEN Outdated(t)
       ELSE session[t]]
  /\ astray' = (astray \/ (s \in RatingWorkers /\ session[s].old))
  /\ UNCHANGED recompute

-----------------------------------------------------------------------------
(* Tasks.                                                                  *)

\* Mutant: the request leaves it at what it has computed itself.
SendNothing(m) ==
  /\ session[m].step = "send"
  /\ session' = [session EXCEPT ![m] = NoRating]
  /\ UNCHANGED <<review_status, aggregate, recompute, astray>>

\* The task is sent after the commit.
SendRecompute(m) ==
  /\ session[m].step = "send"
  /\ session' = [session EXCEPT ![m] = NoRating]
  /\ recompute' = [recompute EXCEPT ![0] = @ + 1]
  /\ UNCHANGED <<review_status, aggregate, astray>>

BeginRecompute(w, k) ==
  /\ session[w] = NoRating /\ recompute[k] > 0
  /\ recompute' = [recompute EXCEPT ![k] = @ - 1]
  /\ session' = [session EXCEPT ![w].step = "count", ![w].attempt = k]
  /\ UNCHANGED <<review_status, aggregate, astray>>

\* An exception: a request rolls back, a task is sent again a few times.
FailRating(s) ==
  /\ session[s] # NoRating /\ session[s].step # "send"
  /\ session' = [session EXCEPT ![s] = NoRating]
  /\ IF s \in Moderators THEN UNCHANGED <<recompute, astray>>
     ELSE IF session[s].attempt < MaxRecomputeRetries
       THEN recompute' = [recompute EXCEPT ![session[s].attempt + 1] = @ + 1] /\ UNCHANGED astray
     ELSE astray' = TRUE /\ UNCHANGED recompute
  /\ UNCHANGED <<review_status, aggregate>>

\* A worker dies with its task, or a request between its commit and its send.
LoseRecompute(s) ==
  /\ s \in RatingWorkers \/ session[s].step = "send"
  /\ session[s] # NoRating
  /\ session' = [session EXCEPT ![s] = NoRating]
  /\ astray' = TRUE
  /\ UNCHANGED <<review_status, aggregate, recompute>>

ModeratorStep(m) ==
  \/ \E r \in ReviewIds, status \in {"pending", "approved", "rejected"} : get_review(m, r, status)
  \/ moderate_review(m) \/ SendRecompute(m)

RaterStep(s) ==
  \/ SelectStatistics(s) \/ SelectAggregate(s) \/ CommitRating(s)
  \/ FailRating(s) \/ LoseRecompute(s)

ReviewsNext ==
  \/ \E r \in ReviewIds : create_review(r)
  \/ \E m \in Moderators : ModeratorStep(m)
  \/ \E w \in RatingWorkers, k \in Attempts : BeginRecompute(w, k)
  \/ \E s \in Raters : RaterStep(s)

ReviewsSpec == ReviewsInit /\ [][ReviewsNext]_reviewVars

-----------------------------------------------------------------------------
RatingSession ==
  [step : {"none", "flush", "count", "load", "commit", "send"},
   writes : SUBSET (ReviewIds \X {"pending", "approved", "rejected"}),
   stats : RatingRows \cup {Unrated}, copy : RatingRows \cup {Unrated},
   attempt : Attempts, old : BOOLEAN]

ReviewsTypeOK ==
  /\ review_status \in [ReviewIds -> {"absent", "pending", "approved", "rejected"}]
  /\ aggregate = Unrated \/ aggregate \in [average_rating : 0..500, review_count : 0..Cardinality(ReviewIds)]
  /\ session \in [Raters -> RatingSession]
  /\ recompute \in [Attempts -> 0..MaxRecomputes]
  /\ astray \in BOOLEAN

AtRest ==
  /\ \A s \in Raters : session[s] = NoRating
  /\ \A k \in Attempts : recompute[k] = 0

\* Decisions that overlap publish ratings that miss each other's reviews, or
\* a row of which each wrote one column; the tasks that follow repair that.
\* When no request or task is left, the published rating is that of the approved
\* reviews, unless a task was lost or gave up, or one task committed while
\* another was between its reading and its own commit.
RatingRepaired ==
  AtRest /\ ~astray /\ aggregate # Unrated =>
    aggregate = Statistics({r \in ReviewIds : review_status[r] = "approved"})
=============================================================================
