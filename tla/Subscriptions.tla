---------------------------- MODULE Subscriptions ----------------------------
(***************************************************************************)
(* Meal subscriptions of cart_checkout_ext: the hourly sweep that bills     *)
(* those that are due and the hourly task that announces the next renewal   *)
(* (tasks/subscription_tasks.py), and what a customer does to a             *)
(* subscription (services/subscription_service.py).                         *)
(*                                                                         *)
(* A sweep reads all that is due, calls the Payments service for each, and  *)
(* commits once at the end; a session writes back only the columns that it  *)
(* changed.  Tasks are acknowledged late: one that is lost runs again.      *)
(***************************************************************************)
EXTENDS Naturals

CONSTANTS
  Subs,        \* subscriptions
  Sweeps,      \* executions of process_due_renewals
  Requests,    \* requests of customers
  Period,      \* one week or one month
  Notice,      \* RENEWAL_NOTICE_DAYS
  MaxAttempts, \* MAX_RENEWAL_ATTEMPTS
  LastTime     \* bound on the clock

ASSUME SubscriptionsAssumption ==
  /\ Period \in Nat \ {0} /\ Notice \in Nat /\ LastTime \in Nat
  /\ MaxAttempts \in Nat \ {0}

VARIABLES
  now,      \* the time
  sub,      \* the rows of subscriptions
  sweep,    \* the sweeps under way
  notices,  \* the rows a run of the notice task has read, and announces
  asked,    \* requests of customers that have read their row
  billed,   \* history: when the sweep that last charged each had started
  declines, \* history: charges of each that failed since the last that did not
  lapsed    \* history: those with a sweep that was lost, or met another call

subVars == <<now, sub, sweep, notices, asked, billed, declines, lapsed>>

NotSubscribed == [status |-> "absent", next |-> 0, attempts |-> 0, noticed |-> FALSE]
NoSweep == [at |-> 0, result |-> <<>>, read |-> <<>>]
NoRequest == [op |-> "none"]

SubscriptionsInit ==
  /\ now = 1
  /\ sub = [s \in Subs |-> NotSubscribed]
  /\ sweep = [w \in Sweeps |-> NoSweep]
  /\ notices = {}
  /\ asked = [r \in Requests |-> NoRequest]
  /\ billed = [s \in Subs |-> 0]
  /\ declines = [s \in Subs |-> 0]
  /\ lapsed = {}

PassTime ==
  /\ now < LastTime
  /\ now' = now + 1
  /\ UNCHANGED <<sub, sweep, notices, asked, billed, declines, lapsed>>

Sweeping(w) == sweep[w] # NoSweep
Swept(w) == DOMAIN sweep[w].read
Active(s) == sub[s].status = "active"

\* Another call holds what it has read of the row.
Held(s) ==
  \/ \E w \in Sweeps : s \in Swept(w)
  \/ \E r \in Requests : asked[r] # NoRequest /\ asked[r].sub = s

-----------------------------------------------------------------------------
(* process_due_renewals.                                                   *)

DueAt(s, time) == Active(s) /\ sub[s].next <= time

\* Mutant: the rows that became due this hour.
RenewThisHour(w) ==
  LET due == {s \in Subs : Active(s) /\ sub[s].next = now}
  IN  /\ ~Sweeping(w) /\ due # {}
      /\ sweep' = [sweep EXCEPT ![w] =
           [at |-> now, result |-> [s \in due |-> "none"], read |-> [s \in due |-> sub[s]]]]
      /\ lapsed' = lapsed \cup {s \in due : Held(s)}
      /\ UNCHANGED <<now, sub, notices, asked, billed, declines>>

\* The rows that are due, as they are read.
BeginRenewals(w) ==
  LET due == {s \in Subs : DueAt(s, now)}
  IN  /\ ~Sweeping(w) /\ due # {}
      /\ sweep' = [sweep EXCEPT ![w] =
           [at |-> now, result |-> [s \in due |-> "none"], read |-> [s \in due |-> sub[s]]]]
      /\ lapsed' = lapsed \cup {s \in due : Held(s)}
      /\ UNCHANGED <<now, sub, notices, asked, billed, declines>>

Heard(w, s, result) ==
  /\ sweep' = [sweep EXCEPT ![w].result[s] = result]
  /\ declines' = [declines EXCEPT ![s] =
       IF result = "paid" THEN 0 ELSE IF @ < MaxAttempts THEN @ + 1 ELSE @]
  /\ UNCHANGED <<now, sub, notices, asked>>

\* _charge_subscription: a success, a refusal, or a timeout after which the
\* Payments service may have charged all the same.
ChargeSubscription(w, s) ==
  /\ s \in Swept(w) /\ sweep[w].result[s] = "none"
  /\ \/ /\ Heard(w, s, "paid")
        /\ billed' = [billed EXCEPT ![s] = sweep[w].at]
        /\ UNCHANGED lapsed
     \/ /\ Heard(w, s, "declined")
        /\ UNCHANGED <<billed, lapsed>>
     \/ /\ Heard(w, s, "declined")
        /\ billed' = [billed EXCEPT ![s] = sweep[w].at]
        /\ lapsed' = lapsed \cup {s}

\* Mutant: the next period starts where the last one ended.
AdvanceDue(read, time) == read.next + Period

_advance(read, time) == time + Period

\* What the sweep writes of a row it renewed, and of one it could not renew.
Renewed(row, read, time) ==
  [row EXCEPT !.next = _advance(read, time),
              !.attempts = IF read.attempts = 0 THEN @ ELSE 0,
              !.noticed = IF read.noticed THEN FALSE ELSE @]

\* Mutant: one attempt too few.
GiveUpEarly(row, read) ==
  [row EXCEPT !.attempts = read.attempts + 1,
              !.status = IF read.attempts + 2 >= MaxAttempts THEN "past_due" ELSE @]

NotRenewed(row, read) ==
  [row EXCEPT !.attempts = read.attempts + 1,
              !.status = IF read.attempts + 1 >= MaxAttempts THEN "past_due" ELSE @]

CommitSweep(w) ==
  /\ Sweeping(w)
  /\ \A s \in Swept(w) : sweep[w].result[s] # "none"
  /\ sub' = [s \in Subs |->
       IF s \notin Swept(w) THEN sub[s]
       ELSE IF sweep[w].result[s] = "paid" THEN Renewed(sub[s], sweep[w].read[s], sweep[w].at)
       ELSE NotRenewed(sub[s], sweep[w].read[s])]
  /\ sweep' = [sweep EXCEPT ![w] = NoSweep]
  /\ UNCHANGED <<now, notices, asked, billed, declines, lapsed>>

\* The worker is lost, and all it would have written of those it charged.
LoseSweep(w) ==
  /\ Sweeping(w)
  /\ sweep' = [sweep EXCEPT ![w] = NoSweep]
  /\ lapsed' = lapsed \cup {s \in Swept(w) : sweep[w].result[s] # "none"}
  /\ UNCHANGED <<now, sub, notices, asked, billed, declines>>

-----------------------------------------------------------------------------
(* send_upcoming_renewal_notices.                                          *)

QueueNotices ==
  /\ notices = {}
  /\ notices' = {s \in Subs : /\ Active(s) /\ ~sub[s].noticed
                              /\ now < sub[s].next /\ sub[s].next <= now + Notice}
  /\ notices' # {}
  /\ UNCHANGED <<now, sub, sweep, asked, billed, declines, lapsed>>

\* The flags are committed after the reminders were queued, or are lost.
EndNotices ==
  /\ notices # {}
  /\ notices' = {}
  /\ \/ sub' = [s \in Subs |-> IF s \in notices THEN [sub[s] EXCEPT !.noticed = TRUE] ELSE sub[s]]
     \/ UNCHANGED sub
  /\ UNCHANGED <<now, sweep, asked, billed, declines, lapsed>>

-----------------------------------------------------------------------------
(* The customer.                                                           *)

\* The start a customer asks for may be in the past.
create_subscription(s) ==
  /\ sub[s] = NotSubscribed
  /\ \E start \in {0, now} :
       sub' = [sub EXCEPT ![s] = [NotSubscribed EXCEPT !.status = "active", !.next = start + Period]]
  /\ UNCHANGED <<now, sweep, notices, asked, billed, declines, lapsed>>

\* The row is read, and the request refused unless its status allows it.
Ask(r, s, op) ==
  /\ asked[r] = NoRequest
  /\ asked' = [asked EXCEPT ![r] = [op |-> op, sub |-> s]]
  /\ lapsed' = IF Held(s) THEN lapsed \cup {s} ELSE lapsed
  /\ UNCHANGED <<now, sub, sweep, notices, billed, declines>>

AskPause(r, s) == Active(s) /\ Ask(r, s, "pause")
AskResume(r, s) == sub[s].status = "paused" /\ Ask(r, s, "resume")
AskCancel(r, s) == sub[s].status \notin {"absent", "cancelled"} /\ Ask(r, s, "cancel")

Answer(r, op, row) ==
  /\ asked[r].op = op
  /\ sub' = [sub EXCEPT ![asked[r].sub] = row]
  /\ asked' = [asked EXCEPT ![r] = NoRequest]
  /\ UNCHANGED <<now, sweep, notices, billed, declines, lapsed>>

RowAsked(r) == sub[asked[r].sub]

pause_subscription(r) ==
  asked[r] # NoRequest /\ Answer(r, "pause", [RowAsked(r) EXCEPT !.status = "paused"])

resume_subscription(r) ==
  asked[r] # NoRequest /\
    Answer(r, "resume", [RowAsked(r) EXCEPT !.status = "active", !.next = now + Period])

cancel_subscription(r) ==
  asked[r] # NoRequest /\ Answer(r, "cancel", [RowAsked(r) EXCEPT !.status = "cancelled"])

-----------------------------------------------------------------------------
SweepStep(w) ==
  \/ BeginRenewals(w) \/ CommitSweep(w) \/ LoseSweep(w)
  \/ \E s \in Subs : ChargeSubscription(w, s)

CustomerStep(r) ==
  \/ \E s \in Subs : AskPause(r, s) \/ AskResume(r, s) \/ AskCancel(r, s)
  \/ pause_subscription(r) \/ resume_subscription(r) \/ cancel_subscription(r)

SubscriptionsNext ==
  \/ PassTime \/ QueueNotices \/ EndNotices
  \/ \E w \in Sweeps : SweepStep(w)
  \/ \E s \in Subs : create_subscription(s)
  \/ \E r \in Requests : CustomerStep(r)

SubscriptionsSpec == SubscriptionsInit /\ [][SubscriptionsNext]_subVars

\* The beat starts a sweep every hour, and not every sweep is lost.
SubscriptionsFairness ==
  \A w \in Sweeps :
    /\ WF_subVars(BeginRenewals(w))
    /\ SF_subVars(\E s \in Subs : ChargeSubscription(w, s))
    /\ SF_subVars(CommitSweep(w))

-----------------------------------------------------------------------------
SubStatuses == {"absent", "active", "paused", "cancelled", "past_due"}

SubscriptionsTypeOK ==
  /\ sub \in [Subs -> [status : SubStatuses, next : Nat, attempts : Nat, noticed : BOOLEAN]]
  /\ \A w \in Sweeps : /\ Swept(w) \subseteq Subs
                       /\ DOMAIN sweep[w].result = Swept(w)
                       /\ sweep[w].at \in Nat
  /\ notices \subseteq Subs
  /\ billed \in [Subs -> Nat]
  /\ lapsed \subseteq Subs

\* The sweeps that charge a subscription start at least a period apart, however
\* late they start, whatever the customer does between them; a sweep that was
\* lost, that crossed another call, or whose charge was answered too late is
\* what can bill a period twice (subscription_tasks.py:32-54).
BilledOncePerPeriod ==
  [][\A s \in Subs \ lapsed' :
       billed'[s] # billed[s] /\ billed[s] # 0 => billed[s] + Period <= billed'[s]]_subVars

\* A subscription is past due after MaxAttempts charges that failed one after
\* the other, and the count a row holds is never more than those
\* (README, "marks past_due after 3 consecutive failures").
PastDueEarned ==
  \A s \in Subs \ lapsed :
    /\ sub[s].status = "past_due" => declines[s] = MaxAttempts
    /\ sub[s].attempts <= declines[s] \/ \E w \in Sweeps : s \in Swept(w)

\* An active subscription that is due is renewed in the end, or becomes past
\* due, unless its customer pauses or cancels it.
DueIsSettled == \A s \in Subs : DueAt(s, now) ~> ~DueAt(s, now)
=============================================================================
