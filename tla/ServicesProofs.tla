--------------------------- MODULE ServicesProofs ---------------------------
(***************************************************************************)
(* Proofs about meal subscriptions, the rate limiter of the gateway,       *)
(* shipments, and production batches with their raw materials; for any     *)
(* subscriptions, sweeps, requests, periods and limits, any carriers,      *)
(* parcels and trackers, and any bills and stocks.                         *)
(*                                                                         *)
(* Subscriptions are about one subscription at a time that no call has     *)
(* lapsed, and the rate limiter is about the number of requests let        *)
(* through after each instant; in the other two, as in CommerceProofs,     *)
(* what a call has read is true of the rows that no other call has         *)
(* touched.  The parts share no variable.                                  *)
(***************************************************************************)
EXTENDS Services, CommerceProofs,
  SumTheorems, FiniteSetTheorems, SequenceTheorems, TLAPS

-----------------------------------------------------------------------------
(* Meal subscriptions.                                                     *)

Rows == [status : SubStatuses, next : Nat, attempts : Nat, noticed : BOOLEAN]

Ops == {"pause", "resume", "cancel"}

\* The types the proofs need.
Typed ==
  /\ now \in Nat
  /\ sub \in [Subs -> Rows]
  /\ DOMAIN sweep = Sweeps
  /\ \A w \in Sweeps : /\ DOMAIN sweep[w] = {"at", "result", "read"}
                       /\ sweep[w].at \in Nat /\ sweep[w].at <= now
                       /\ Swept(w) \subseteq Subs /\ DOMAIN sweep[w].result = Swept(w)
                       /\ \A s \in Swept(w) : sweep[w].read[s] \in Rows
  /\ notices \subseteq Subs
  /\ DOMAIN asked = Requests
  /\ \A r \in Requests : asked[r] # NoRequest => asked[r].op \in Ops /\ asked[r].sub \in Subs
  /\ billed \in [Subs -> Nat]
  /\ declines \in [Subs -> Nat]
  /\ lapsed \subseteq Subs

About(r, s) == asked[r] # NoRequest /\ asked[r].sub = s

\* One call at most has read the row, and a sweep's copy of it still holds.
Alone(s) ==
  /\ \A w, v \in Sweeps : s \in Swept(w) /\ s \in Swept(v) => w = v
  /\ \A r \in Requests : About(r, s) =>
       /\ \A w \in Sweeps : s \notin Swept(w)
       /\ \A q \in Requests : About(q, s) => q = r
       /\ asked[r].op # "cancel" => sub[s].status \in {"active", "paused"}
  /\ \A w \in Sweeps : s \in Swept(w) =>
       /\ sub[s].status = "active" /\ sub[s].next <= sweep[w].at
       /\ sub[s].attempts = sweep[w].read[s].attempts

PaidBy(w, s) == s \in Swept(w) /\ sweep[w].result[s] = "paid"

\* What was billed is in the row, or in the sweep that charged it.
Billing(s) ==
  /\ billed[s] <= now
  /\ sub[s].status = "absent" => billed[s] = 0
  /\ billed[s] # 0 /\ (\A w \in Sweeps : ~PaidBy(w, s)) => billed[s] + Period <= sub[s].next
  /\ \A w \in Sweeps : PaidBy(w, s) => billed[s] = sweep[w].at

\* The row counts no more failures than there were; those of a sweep under way
\* are in it by its commit.
Counting(s) ==
  /\ declines[s] <= MaxAttempts
  /\ sub[s].status \in {"absent", "active", "paused"} => sub[s].attempts < MaxAttempts
  /\ sub[s].status = "past_due" => declines[s] = MaxAttempts
  /\ (\A w \in Sweeps : s \notin Swept(w)) => sub[s].attempts <= declines[s]
  /\ \A w \in Sweeps : s \in Swept(w) =>
       /\ sweep[w].result[s] \in {"none", "paid", "declined"}
       /\ sweep[w].result[s] = "none" => sub[s].attempts <= declines[s]
       /\ sweep[w].result[s] = "declined" => sub[s].attempts + 1 <= declines[s]

Sound(s) == Alone(s) /\ Billing(s) /\ Counting(s)

SubInv == Typed /\ \A s \in Subs \ lapsed : Sound(s)

LEMMA SubInitial ==
  ASSUME SubscriptionsAssumption, SubscriptionsInit
  PROVE  SubInv
  <1>1. \A w \in Sweeps : sweep[w] = NoSweep /\ Swept(w) = {}
    BY DEF SubscriptionsInit, NoSweep, Swept
  <1>2. \A s \in Subs : sub[s] = NotSubscribed /\ billed[s] = 0 /\ declines[s] = 0
    BY DEF SubscriptionsInit
  <1>3. Typed
    <2>1. now \in Nat /\ now >= 0 /\ DOMAIN sweep = Sweeps /\ notices \subseteq Subs
          /\ DOMAIN asked = Requests /\ lapsed \subseteq Subs
          /\ \A r \in Requests : asked[r] = NoRequest
      BY DEF SubscriptionsInit
    <2>2. sub \in [Subs -> Rows] /\ billed \in [Subs -> Nat] /\ declines \in [Subs -> Nat]
      BY DEF SubscriptionsInit, Rows, SubStatuses, NotSubscribed
    <2>3. \A w \in Sweeps :
            /\ DOMAIN sweep[w] = {"at", "result", "read"} /\ sweep[w].at = 0
            /\ DOMAIN sweep[w].result = {}
      BY <1>1 DEF NoSweep
    <2>4. \A w \in Sweeps :
            /\ sweep[w].at \in Nat /\ sweep[w].at <= now /\ Swept(w) \subseteq Subs
            /\ DOMAIN sweep[w].result = Swept(w)
            /\ \A s \in Swept(w) : sweep[w].read[s] \in Rows
      <3> HIDE DEF Swept
      <3> QED
        BY <1>1, <2>1, <2>3
    <2> QED
      BY <2>1, <2>2, <2>3, <2>4 DEF Typed
  <1>4. ASSUME NEW s \in Subs PROVE Sound(s)
    <2>1. Alone(s)
      BY <1>1 DEF SubscriptionsInit, Alone, About
    <2>2. Billing(s)
      BY <1>1, <1>2 DEF SubscriptionsInit, Billing, PaidBy
    <2>3. Counting(s)
      BY <1>1, <1>2 DEF SubscriptionsAssumption, Counting, NotSubscribed
    <2> QED
      BY <2>1, <2>2, <2>3 DEF Sound
  <1> QED
    BY <1>3, <1>4 DEF SubInv
-----------------------------------------------------------------------------
\* What the calls hold of s stays.
CallsStay(s) ==
  /\ \A w \in Sweeps : /\ s \in Swept(w)' <=> s \in Swept(w)
                       /\ s \in Swept(w) => /\ sweep'[w].at = sweep[w].at
                                            /\ sweep'[w].result[s] = sweep[w].result[s]
                                            /\ sweep'[w].read[s] = sweep[w].read[s]
  /\ \A r \in Requests : /\ About(r, s)' <=> About(r, s)
                         /\ About(r, s) => asked'[r].op = asked[r].op

RowStays(s) ==
  /\ sub'[s].status = sub[s].status /\ sub'[s].next = sub[s].next
  /\ sub'[s].attempts = sub[s].attempts

\* A step that is none of the business of s.
LEMMA Elsewhere ==
  ASSUME Typed, Typed', NEW s \in Subs, Sound(s), CallsStay(s), RowStays(s),
         billed'[s] = billed[s], declines'[s] = declines[s], now <= now'
  PROVE  Sound(s)'
  <1>1. Alone(s)'
    BY DEF Sound, Alone, CallsStay, RowStays
  <1>2. Billing(s)'
    <2>1. \A w \in Sweeps : PaidBy(w, s)' <=> PaidBy(w, s)
      BY DEF PaidBy, CallsStay
    <2>2. billed[s] \in Nat /\ now \in Nat /\ now' \in Nat
      BY DEF Typed
    <2> QED
      BY <2>1, <2>2 DEF Sound, Billing, CallsStay, RowStays, PaidBy
  <1>3. Counting(s)'
    BY DEF Sound, Counting, CallsStay, RowStays
  <1> QED
    BY <1>1, <1>2, <1>3 DEF Sound

\* The same, for a step that leaves the calls alone.
LEMMA CallsAsBefore ==
  ASSUME UNCHANGED <<sweep, asked>>, NEW s \in Subs
  PROVE  CallsStay(s)
  BY DEF CallsStay, Swept, About

LEMMA ClockKeeps ==
  ASSUME SubInv, PassTime \/ QueueNotices \/ UNCHANGED subVars
  PROVE  SubInv'
  <1>1. UNCHANGED <<sub, sweep, asked, billed, declines, lapsed>> /\ now' \in Nat /\ now <= now'
    BY DEF PassTime, QueueNotices, subVars, SubInv, Typed
  <1>2. notices' \subseteq Subs
    BY DEF PassTime, QueueNotices, subVars, SubInv, Typed
  <1>3. Typed'
    <2>1. \A w \in Sweeps : sweep[w].at \in Nat /\ sweep[w].at <= now'
      BY <1>1 DEF SubInv, Typed
    <2> QED
      BY <1>1, <1>2, <2>1 DEF SubInv, Typed, Swept
  <1>4. ASSUME NEW s \in Subs, s \notin lapsed PROVE Sound(s)'
    BY <1>1, <1>3, <1>4, CallsAsBefore, Elsewhere DEF SubInv, RowStays
  <1> QED
    BY <1>1, <1>3, <1>4 DEF SubInv

\* The flags of a reminder are no part of what is billed or counted.
LEMMA NoticesKeep ==
  ASSUME SubInv, EndNotices
  PROVE  SubInv'
  <1>1. UNCHANGED <<now, sweep, asked, billed, declines, lapsed>> /\ notices' = {}
    BY DEF EndNotices
  <1>2. /\ sub' \in [Subs -> Rows]
        /\ \A s \in Subs : RowStays(s)
    <2>1. CASE UNCHANGED sub
      BY <2>1 DEF SubInv, Typed, RowStays
    <2>2. CASE sub' = [s \in Subs |-> IF s \in notices THEN [sub[s] EXCEPT !.noticed = TRUE] ELSE sub[s]]
      <3>1. ASSUME NEW s \in Subs PROVE sub'[s] \in Rows /\ RowStays(s)
        <4>1. /\ sub[s] \in Rows
              /\ sub'[s] = IF s \in notices THEN [sub[s] EXCEPT !.noticed = TRUE] ELSE sub[s]
          BY <2>2 DEF SubInv, Typed
        <4>2. CASE s \in notices
          BY <4>1, <4>2 DEF Rows, RowStays
        <4>3. CASE s \notin notices
          BY <4>1, <4>3 DEF RowStays
        <4> QED
          BY <4>2, <4>3
      <3> QED
        BY <2>2, <3>1
    <2> QED
      BY <2>1, <2>2 DEF EndNotices
  <1>3. Typed'
    BY <1>1, <1>2 DEF SubInv, Typed, Swept
  <1>4. ASSUME NEW s \in Subs, s \notin lapsed PROVE Sound(s)'
    <2>1. now <= now'
      BY <1>1 DEF SubInv, Typed
    <2> QED
      BY <1>1, <1>2, <1>3, <1>4, <2>1, CallsAsBefore, Elsewhere DEF SubInv
  <1> QED
    BY <1>1, <1>3, <1>4 DEF SubInv

-----------------------------------------------------------------------------
(* The customer.                                                           *)

LEMMA CreateKeeps ==
  ASSUME SubscriptionsAssumption, SubInv, NEW s \in Subs, create_subscription(s)
  PROVE  SubInv'
  <1>1. PICK start \in {0, now} :
          /\ sub[s] = NotSubscribed
          /\ sub' = [sub EXCEPT ![s] = [NotSubscribed EXCEPT !.status = "active",
                                                            !.next = start + Period]]
          /\ UNCHANGED <<now, sweep, notices, asked, billed, declines, lapsed>>
    BY DEF create_subscription
  <1>2. start + Period \in Nat /\ sub \in [Subs -> Rows] /\ now \in Nat
    BY <1>1 DEF SubInv, Typed, SubscriptionsAssumption
  <1>3. /\ sub' \in [Subs -> Rows] /\ sub'[s].status = "active" /\ sub'[s].attempts = 0
        /\ \A k \in Subs : k # s => sub'[k] = sub[k]
    <2>1. [NotSubscribed EXCEPT !.status = "active", !.next = start + Period] \in Rows
      BY <1>2 DEF NotSubscribed, Rows, SubStatuses
    <2> QED
      BY <1>1, <1>2, <2>1 DEF NotSubscribed
  <1>4. Typed'
    BY <1>1, <1>3 DEF SubInv, Typed, Swept
  <1>5. ASSUME NEW k \in Subs, k # s, k \notin lapsed PROVE Sound(k)'
    BY <1>1, <1>2, <1>3, <1>4, <1>5, CallsAsBefore, Elsewhere DEF SubInv, RowStays
  <1>6. ASSUME s \notin lapsed PROVE Sound(s)'
    <2>1. Sound(s) /\ sub[s].status = "absent" /\ CallsStay(s)
      BY <1>1, <1>6, CallsAsBefore DEF SubInv, NotSubscribed
    <2>2. /\ \A w \in Sweeps : s \notin Swept(w) /\ s \notin Swept(w)'
          /\ billed[s] = 0
      BY <2>1 DEF Sound, Alone, Billing, CallsStay
    <2>3. Alone(s)'
      BY <1>1, <1>3, <2>1, <2>2 DEF Sound, Alone, CallsStay
    <2>4. Billing(s)'
      BY <1>1, <1>2, <1>3, <2>2 DEF Billing, PaidBy
    <2>5. Counting(s)'
      <3>1. declines[s] \in Nat /\ MaxAttempts \in Nat /\ MaxAttempts > 0
        BY DEF SubInv, Typed, SubscriptionsAssumption
      <3> QED
        BY <1>1, <1>3, <2>1, <2>2, <3>1 DEF Sound, Counting
    <2> QED
      BY <2>3, <2>4, <2>5 DEF Sound
  <1> QED
    BY <1>1, <1>4, <1>5, <1>6 DEF SubInv

LEMMA AskKeeps ==
  ASSUME SubInv, NEW r \in Requests, NEW s \in Subs,
         AskPause(r, s) \/ AskResume(r, s) \/ AskCancel(r, s)
  PROVE  SubInv'
  <1>1. PICK op \in Ops :
          /\ Ask(r, s, op)
          /\ op # "cancel" => sub[s].status \in {"active", "paused"}
    BY DEF AskPause, AskResume, AskCancel, Active, Ops
  <1>2. /\ asked[r] = NoRequest /\ asked' = [asked EXCEPT ![r] = [op |-> op, sub |-> s]]
        /\ lapsed \subseteq lapsed' /\ lapsed' \subseteq Subs /\ (Held(s) => s \in lapsed')
        /\ UNCHANGED <<now, sub, sweep, notices, billed, declines>>
    BY <1>1 DEF Ask, SubInv, Typed
  <1>3. /\ DOMAIN asked' = Requests /\ asked'[r].op = op /\ asked'[r].sub = s
        /\ \A q \in Requests : q # r => asked'[q] = asked[q]
    BY <1>2 DEF SubInv, Typed
  <1>4. asked'[r] # NoRequest
    BY <1>3 DEF NoRequest, Ops
  <1>5. Typed'
    BY <1>2, <1>3 DEF SubInv, Typed, Swept
  <1>6. ASSUME NEW k \in Subs, k # s, k \notin lapsed PROVE Sound(k)'
    <2>1. CallsStay(k)
      BY <1>2, <1>3, <1>6 DEF CallsStay, Swept, About
    <2> QED
      BY <1>2, <1>5, <1>6, <2>1, Elsewhere DEF SubInv, Typed, RowStays
  <1>7. ASSUME s \notin lapsed' PROVE Sound(s)'
    <2>1. Sound(s) /\ ~Held(s)
      BY <1>2, <1>7 DEF SubInv
    <2>2. /\ \A w \in Sweeps : s \notin Swept(w) /\ s \notin Swept(w)'
          /\ \A q \in Requests : About(q, s)' <=> q = r
      BY <1>2, <1>3, <1>4, <2>1 DEF Held, Swept, About
    <2>3. Alone(s)'
      BY <1>1, <1>2, <1>3, <2>2 DEF Alone
    <2>4. Billing(s)'
      BY <1>2, <2>1, <2>2 DEF Sound, Billing, PaidBy
    <2>5. Counting(s)'
      BY <1>2, <2>1, <2>2 DEF Sound, Counting
    <2> QED
      BY <2>3, <2>4, <2>5 DEF Sound
  <1> QED
    BY <1>2, <1>5, <1>6, <1>7 DEF SubInv

\* The request writes the status; a resumed subscription is next due a period
\* from now.
LEMMA AnswerKeeps ==
  ASSUME SubscriptionsAssumption, SubInv, NEW r \in Requests,
         pause_subscription(r) \/ resume_subscription(r) \/ cancel_subscription(r)
  PROVE  SubInv'
  <1>1. asked[r] # NoRequest
    BY DEF pause_subscription, resume_subscription, cancel_subscription
  <1>2. PICK s \in Subs : s = asked[r].sub
    BY <1>1 DEF SubInv, Typed
  <1>3. sub[s] \in Rows /\ now \in Nat /\ now + Period \in Nat
    BY <1>2 DEF SubInv, Typed, SubscriptionsAssumption
  <1>4. PICK kept \in Rows :
          /\ Answer(r, asked[r].op, kept)
          /\ kept.attempts = sub[s].attempts
          /\ kept.next = sub[s].next \/ kept.next = now + Period
          /\ \/ kept.status \in {"active", "paused"} /\ asked[r].op # "cancel"
             \/ kept.status = "cancelled"
    <2>1. CASE pause_subscription(r)
      <3> DEFINE new == [sub[s] EXCEPT !.status = "paused"]
      <3>1. /\ new \in Rows /\ new.attempts = sub[s].attempts /\ new.next = sub[s].next
            /\ new.status = "paused"
        BY <1>3 DEF Rows, SubStatuses
      <3>2. Answer(r, asked[r].op, new) /\ asked[r].op = "pause"
        BY <1>2, <2>1 DEF pause_subscription, Answer, RowAsked
      <3> QED
        BY <3>1, <3>2
    <2>2. CASE resume_subscription(r)
      <3> DEFINE new == [sub[s] EXCEPT !.status = "active", !.next = now + Period]
      <3>1. /\ new \in Rows /\ new.attempts = sub[s].attempts /\ new.next = now + Period
            /\ new.status = "active"
        BY <1>3 DEF Rows, SubStatuses
      <3>2. Answer(r, asked[r].op, new) /\ asked[r].op = "resume"
        BY <1>2, <2>2 DEF resume_subscription, Answer, RowAsked
      <3> QED
        BY <3>1, <3>2
    <2>3. CASE cancel_subscription(r)
      <3> DEFINE new == [sub[s] EXCEPT !.status = "cancelled"]
      <3>1. /\ new \in Rows /\ new.attempts = sub[s].attempts /\ new.next = sub[s].next
            /\ new.status = "cancelled"
        BY <1>3 DEF Rows, SubStatuses
      <3>2. Answer(r, asked[r].op, new)
        BY <1>2, <2>3 DEF cancel_subscription, Answer, RowAsked
      <3> QED
        BY <3>1, <3>2
    <2> QED
      BY <2>1, <2>2, <2>3
  <1>5. /\ sub' = [sub EXCEPT ![s] = kept] /\ asked' = [asked EXCEPT ![r] = NoRequest]
        /\ UNCHANGED <<now, sweep, notices, billed, declines, lapsed>>
    BY <1>2, <1>4 DEF Answer
  <1>6. /\ sub' \in [Subs -> Rows] /\ sub'[s] = kept
        /\ \A k \in Subs : k # s => sub'[k] = sub[k]
        /\ DOMAIN asked' = Requests /\ asked'[r] = NoRequest
        /\ \A q \in Requests : q # r => asked'[q] = asked[q]
    BY <1>2, <1>5 DEF SubInv, Typed
  <1>7. Typed'
    BY <1>5, <1>6 DEF SubInv, Typed, Swept
  <1>8. ASSUME NEW k \in Subs, k # s, k \notin lapsed PROVE Sound(k)'
    <2>1. CallsStay(k)
      BY <1>2, <1>5, <1>6, <1>8 DEF CallsStay, Swept, About
    <2> QED
      BY <1>2, <1>5, <1>6, <1>7, <1>8, <2>1, Elsewhere DEF SubInv, Typed, RowStays
  <1>9. ASSUME s \notin lapsed PROVE Sound(s)'
    <2>1. Sound(s) /\ About(r, s)
      BY <1>1, <1>2, <1>9 DEF SubInv, About
    <2>2. /\ \A w \in Sweeps : s \notin Swept(w) /\ s \notin Swept(w)'
          /\ \A q \in Requests : ~About(q, s)'
          /\ asked[r].op # "cancel" => sub[s].status \in {"active", "paused"}
      BY <1>5, <1>6, <2>1 DEF Sound, Alone, Swept, About
    <2>3. Alone(s)'
      BY <2>2 DEF Alone
    <2>4. Billing(s)'
      <3>1. billed[s] \in Nat /\ Period \in Nat
        BY <1>2 DEF SubInv, Typed, SubscriptionsAssumption
      <3> QED
        BY <1>3, <1>4, <1>5, <1>6, <2>1, <2>2, <3>1 DEF Sound, Billing, PaidBy
    <2>5. Counting(s)'
      BY <1>4, <1>5, <1>6, <2>1, <2>2 DEF Sound, Counting
    <2> QED
      BY <2>3, <2>4, <2>5 DEF Sound
  <1> QED
    BY <1>5, <1>7, <1>8, <1>9 DEF SubInv

-----------------------------------------------------------------------------
(* The sweeps.                                                             *)

LEMMA BeginKeeps ==
  ASSUME SubscriptionsAssumption, SubInv, NEW w \in Sweeps, BeginRenewals(w)
  PROVE  SubInv'
  <1> DEFINE due == {s \in Subs : DueAt(s, now)}
             none == [s \in due |-> "none"]
             rows == [s \in due |-> sub[s]]
  <1>1. /\ sweep[w] = NoSweep
        /\ sweep' = [sweep EXCEPT ![w] = [at |-> now, result |-> none, read |-> rows]]
        /\ lapsed' = lapsed \cup {s \in due : Held(s)}
        /\ UNCHANGED <<now, sub, notices, asked, billed, declines>>
    BY DEF BeginRenewals, Sweeping
  <1>2. /\ due \subseteq Subs /\ DOMAIN none = due /\ DOMAIN rows = due
        /\ \A s \in due : /\ none[s] = "none" /\ rows[s] = sub[s] /\ rows[s] \in Rows
                          /\ sub[s].status = "active" /\ sub[s].next <= now
    BY DEF DueAt, Active, SubInv, Typed
  <1> HIDE DEF due, none, rows
  <1>3. /\ DOMAIN sweep' = Sweeps /\ DOMAIN sweep'[w] = {"at", "result", "read"}
        /\ sweep'[w].at = now /\ sweep'[w].result = none /\ sweep'[w].read = rows
        /\ \A v \in Sweeps : v # w => sweep'[v] = sweep[v]
    BY <1>1 DEF SubInv, Typed
  <1>4. Swept(w)' = due /\ Swept(w) = {} /\ \A v \in Sweeps : v # w => Swept(v)' = Swept(v)
    BY <1>1, <1>2, <1>3 DEF Swept, NoSweep
  <1>5. Typed'
    <2>1. \A v \in Sweeps :
            /\ DOMAIN sweep'[v] = {"at", "result", "read"}
            /\ sweep'[v].at \in Nat /\ sweep'[v].at <= now'
            /\ Swept(v)' \subseteq Subs /\ DOMAIN sweep'[v].result = Swept(v)'
            /\ \A s \in Swept(v)' : sweep'[v].read[s] \in Rows
      BY <1>1, <1>2, <1>3, <1>4 DEF SubInv, Typed
    <2>2. lapsed' \subseteq Subs
      BY <1>1, <1>2 DEF SubInv, Typed
    <2> QED
      BY <1>1, <1>3, <2>1, <2>2 DEF SubInv, Typed
  <1>6. ASSUME NEW s \in Subs, s \notin lapsed', s \notin due PROVE Sound(s)'
    <2>1. Sound(s)
      BY <1>1, <1>6 DEF SubInv
    <2>2. CallsStay(s)
      BY <1>1, <1>3, <1>4, <1>6 DEF CallsStay, About
    <2> QED
      BY <1>1, <1>5, <2>1, <2>2, Elsewhere DEF SubInv, Typed, RowStays
  <1>7. ASSUME NEW s \in Subs, s \notin lapsed', s \in due PROVE Sound(s)'
    <2>1. Sound(s) /\ ~Held(s)
      BY <1>1, <1>7 DEF SubInv
    <2>2. /\ \A v \in Sweeps : s \notin Swept(v) /\ (s \in Swept(v)' <=> v = w)
          /\ \A r \in Requests : ~About(r, s) /\ ~About(r, s)'
      BY <1>1, <1>4, <1>7, <2>1 DEF Held, About
    <2>3. Alone(s)'
      BY <1>1, <1>2, <1>3, <1>7, <2>2 DEF Alone
    <2>4. Billing(s)'
      BY <1>1, <1>2, <1>3, <1>7, <2>1, <2>2 DEF Sound, Billing, PaidBy
    <2>5. Counting(s)'
      BY <1>1, <1>2, <1>3, <1>7, <2>1, <2>2 DEF Sound, Counting
    <2> QED
      BY <2>3, <2>4, <2>5 DEF Sound
  <1> QED
    BY <1>5, <1>6, <1>7 DEF SubInv

\* The sweep hears of the charge of one subscription, and bills it or not.
LEMMA ChargeKeeps ==
  ASSUME SubscriptionsAssumption, SubInv, NEW w \in Sweeps, NEW s \in Subs, ChargeSubscription(w, s)
  PROVE  SubInv' /\ (s \notin lapsed' /\ billed'[s] # billed[s] /\ billed[s] # 0
                       => billed[s] + Period <= billed'[s])
  <1>1. PICK result \in {"paid", "declined"} :
          /\ s \in Swept(w) /\ sweep[w].result[s] = "none"
          /\ sweep' = [sweep EXCEPT ![w].result[s] = result]
          /\ declines' = [declines EXCEPT ![s] =
               IF result = "paid" THEN 0 ELSE IF @ < MaxAttempts THEN @ + 1 ELSE @]
          /\ billed' = billed \/ billed' = [billed EXCEPT ![s] = sweep[w].at]
          /\ \/ result = "paid" /\ billed' = [billed EXCEPT ![s] = sweep[w].at] /\ lapsed' = lapsed
             \/ result = "declined" /\ billed' = billed /\ lapsed' = lapsed
             \/ lapsed' = lapsed \cup {s}
          /\ UNCHANGED <<now, sub, notices, asked>>
    BY DEF ChargeSubscription, Heard
  <1>2. /\ DOMAIN sweep' = Sweeps /\ DOMAIN sweep'[w] = {"at", "result", "read"}
        /\ sweep'[w].at = sweep[w].at /\ sweep'[w].read = sweep[w].read
        /\ DOMAIN sweep'[w].result = DOMAIN sweep[w].result /\ sweep'[w].result[s] = result
        /\ \A k \in Swept(w) : k # s => sweep'[w].result[k] = sweep[w].result[k]
        /\ \A v \in Sweeps : v # w => sweep'[v] = sweep[v]
    BY <1>1 DEF SubInv, Typed
  <1>3. \A v \in Sweeps : Swept(v)' = Swept(v)
    BY <1>2 DEF Swept
  <1>4. /\ declines \in [Subs -> Nat] /\ billed \in [Subs -> Nat] /\ sweep[w].at \in Nat
        /\ MaxAttempts \in Nat /\ sweep[w].at <= now /\ sub[s].next \in Nat
        /\ sub[s].attempts \in Nat /\ Period \in Nat
    BY DEF SubInv, Typed, Rows, SubscriptionsAssumption
  <1>5. /\ declines' \in [Subs -> Nat] /\ billed' \in [Subs -> Nat]
        /\ declines'[s] = IF result = "paid" THEN 0
                          ELSE IF declines[s] < MaxAttempts THEN declines[s] + 1 ELSE declines[s]
        /\ \A k \in Subs : k # s => declines'[k] = declines[k] /\ billed'[k] = billed[k]
    BY <1>1, <1>4
  <1>6. Typed'
    <2>1. \A v \in Sweeps :
            /\ DOMAIN sweep'[v] = {"at", "result", "read"}
            /\ sweep'[v].at \in Nat /\ sweep'[v].at <= now'
            /\ Swept(v)' \subseteq Subs /\ DOMAIN sweep'[v].result = Swept(v)'
            /\ \A k \in Swept(v)' : sweep'[v].read[k] \in Rows
      BY <1>1, <1>2, <1>3 DEF SubInv, Typed
    <2>2. lapsed' \subseteq Subs
      BY <1>1 DEF SubInv, Typed
    <2> QED
      BY <1>1, <1>2, <1>5, <2>1, <2>2 DEF SubInv, Typed
  <1>7. ASSUME NEW k \in Subs, k # s, k \notin lapsed' PROVE Sound(k)'
    <2>1. CallsStay(k)
      BY <1>1, <1>2, <1>3, <1>7 DEF CallsStay, About
    <2> QED
      BY <1>1, <1>5, <1>6, <1>7, <2>1, Elsewhere DEF SubInv, Typed, RowStays
  <1>8. ASSUME s \notin lapsed'
        PROVE  Sound(s)' /\ (billed'[s] # billed[s] /\ billed[s] # 0
                                => billed[s] + Period <= billed'[s])
    <2>1. /\ Sound(s) /\ s \notin lapsed
          /\ \/ result = "paid" /\ billed'[s] = sweep[w].at
             \/ result = "declined" /\ billed'[s] = billed[s]
      BY <1>1, <1>4, <1>8 DEF SubInv
    <2>2. /\ \A v \in Sweeps : s \in Swept(v) <=> v = w
          /\ \A v \in Sweeps : ~PaidBy(v, s)
          /\ \A v \in Sweeps : PaidBy(v, s)' <=> v = w /\ result = "paid"
          /\ sub[s].status = "active" /\ sub[s].next <= sweep[w].at
      BY <1>1, <1>2, <1>3, <2>1 DEF Sound, Alone, PaidBy
    <2>3. billed[s] # 0 => billed[s] + Period <= sub[s].next
      BY <2>1, <2>2 DEF Sound, Billing
    <2>4. Alone(s)'
      BY <1>1, <1>2, <1>3, <2>1 DEF Sound, Alone, About
    <2>5. Billing(s)'
      BY <1>1, <1>2, <1>4, <2>1, <2>2, <2>3 DEF Sound, Billing
    <2>6. Counting(s)'
      <3>1. /\ sub[s].attempts < MaxAttempts /\ sub[s].attempts <= declines[s]
            /\ declines[s] <= MaxAttempts /\ declines[s] \in Nat
        BY <1>1, <1>4, <2>1, <2>2 DEF Sound, Counting
      <3>2. /\ declines'[s] <= MaxAttempts
            /\ result = "declined" => sub[s].attempts + 1 <= declines'[s]
        BY <1>4, <1>5, <3>1
      <3> QED
        BY <1>1, <1>2, <1>3, <2>2, <3>1, <3>2 DEF Counting
    <2> QED
      BY <1>4, <2>1, <2>2, <2>3, <2>4, <2>5, <2>6 DEF Sound
  <1> QED
    BY <1>6, <1>7, <1>8 DEF SubInv

\* The sweep commits: of each row the columns that it changed.
LEMMA CommitKeeps ==
  ASSUME SubscriptionsAssumption, SubInv, NEW w \in Sweeps, CommitSweep(w)
  PROVE  SubInv'
  <1>1. /\ \A s \in Swept(w) : sweep[w].result[s] # "none"
        /\ sub' = [s \in Subs |->
             IF s \notin Swept(w) THEN sub[s]
             ELSE IF sweep[w].result[s] = "paid" THEN Renewed(sub[s], sweep[w].read[s], sweep[w].at)
             ELSE NotRenewed(sub[s], sweep[w].read[s])]
        /\ sweep' = [sweep EXCEPT ![w] = NoSweep]
        /\ UNCHANGED <<now, notices, asked, billed, declines, lapsed>>
    BY DEF CommitSweep
  <1>2. /\ DOMAIN sweep' = Sweeps /\ sweep'[w] = NoSweep
        /\ \A v \in Sweeps : v # w => sweep'[v] = sweep[v]
    BY <1>1 DEF SubInv, Typed
  <1>3. /\ DOMAIN sweep'[w] = {"at", "result", "read"} /\ sweep'[w].at = 0
        /\ DOMAIN sweep'[w].result = {} /\ Swept(w)' = {}
        /\ \A v \in Sweeps : v # w => Swept(v)' = Swept(v)
    BY <1>2 DEF Swept, NoSweep
  <1>4. ASSUME NEW s \in Swept(w)
        PROVE  /\ sub'[s] \in Rows
               /\ sweep[w].result[s] = "paid" =>
                    /\ sub'[s].status = sub[s].status /\ sub'[s].next = sweep[w].at + Period
                    /\ sub'[s].attempts =
                         IF sweep[w].read[s].attempts = 0 THEN sub[s].attempts ELSE 0
               /\ sweep[w].result[s] # "paid" =>
                    /\ sub'[s].next = sub[s].next
                    /\ sub'[s].attempts = sweep[w].read[s].attempts + 1
                    /\ sub'[s].status = IF sweep[w].read[s].attempts + 1 >= MaxAttempts
                                        THEN "past_due" ELSE sub[s].status
    <2>1. /\ s \in Subs /\ sub[s] \in Rows /\ sweep[w].read[s] \in Rows /\ sweep[w].at \in Nat
          /\ Period \in Nat
      BY <1>4 DEF SubInv, Typed, SubscriptionsAssumption
    <2> DEFINE kept == sub[s]
               read == sweep[w].read[s]
               at == sweep[w].at
    <2>2. sub'[s] = IF sweep[w].result[s] = "paid" THEN Renewed(kept, read, at)
                    ELSE NotRenewed(kept, read)
      BY <1>1, <1>4, <2>1
    <2>3. kept \in Rows /\ read \in Rows /\ at + Period \in Nat /\ read.attempts + 1 \in Nat
      BY <2>1 DEF Rows
    <2> HIDE DEF kept, read, at
    <2>4. LET new == Renewed(kept, read, at)
          IN  /\ new \in Rows
              /\ new.status = kept.status /\ new.next = at + Period
              /\ new.attempts = IF read.attempts = 0 THEN kept.attempts ELSE 0
      BY <2>3 DEF Renewed, _advance, Rows
    <2>5. LET new == NotRenewed(kept, read)
          IN  /\ new \in Rows
              /\ new.next = kept.next /\ new.attempts = read.attempts + 1
              /\ new.status = IF read.attempts + 1 >= MaxAttempts THEN "past_due" ELSE kept.status
      BY <2>3 DEF NotRenewed, Rows, SubStatuses
    <2> QED
      BY <2>2, <2>4, <2>5 DEF kept, read, at
  <1>5. \A s \in Subs : s \notin Swept(w) => sub'[s] = sub[s]
    BY <1>1
  <1>6. Typed'
    <2>1. ASSUME NEW v \in Sweeps
          PROVE  /\ DOMAIN sweep'[v] = {"at", "result", "read"}
                 /\ sweep'[v].at \in Nat /\ sweep'[v].at <= now'
                 /\ Swept(v)' \subseteq Subs /\ DOMAIN sweep'[v].result = Swept(v)'
                 /\ \A s \in Swept(v)' : sweep'[v].read[s] \in Rows
      <3>1. CASE v = w
        <4>1. now' \in Nat
          BY <1>1 DEF SubInv, Typed
        <4> QED
          BY <1>3, <3>1, <4>1
      <3>2. CASE v # w
        <4>1. /\ DOMAIN sweep[v] = {"at", "result", "read"}
              /\ sweep[v].at \in Nat /\ sweep[v].at <= now
              /\ Swept(v) \subseteq Subs /\ DOMAIN sweep[v].result = Swept(v)
              /\ \A s \in Swept(v) : sweep[v].read[s] \in Rows
          BY DEF SubInv, Typed
        <4> QED
          BY <1>1, <1>2, <1>3, <3>2, <4>1
      <3> QED
        BY <3>1, <3>2
    <2>2. sub' \in [Subs -> Rows]
      <3>1. \A s \in Subs : sub'[s] \in Rows
        BY <1>4, <1>5 DEF SubInv, Typed
      <3> QED
        BY <1>1, <3>1
    <2> QED
      BY <1>1, <1>2, <2>1, <2>2 DEF SubInv, Typed
  <1>7. ASSUME NEW s \in Subs, s \notin lapsed, s \notin Swept(w) PROVE Sound(s)'
    <2>1. CallsStay(s)
      BY <1>1, <1>2, <1>3, <1>7 DEF CallsStay, About
    <2> QED
      BY <1>1, <1>5, <1>6, <1>7, <2>1, Elsewhere DEF SubInv, Typed, RowStays
  <1>8. ASSUME NEW s \in Subs, s \notin lapsed, s \in Swept(w) PROVE Sound(s)'
    <2>1. Sound(s) /\ sweep[w].result[s] # "none"
      BY <1>1, <1>8 DEF SubInv
    <2>2. /\ \A v \in Sweeps : (s \in Swept(v) <=> v = w) /\ s \notin Swept(v)' /\ ~PaidBy(v, s)'
          /\ \A r \in Requests : ~About(r, s)'
          /\ sub[s].status = "active" /\ sub[s].attempts = sweep[w].read[s].attempts
      BY <1>1, <1>3, <1>8, <2>1 DEF Sound, Alone, PaidBy, About
    <2>3. Alone(s)'
      BY <2>2 DEF Alone
    <2>4. /\ billed[s] \in Nat /\ declines[s] \in Nat /\ sub[s].attempts \in Nat
          /\ MaxAttempts \in Nat /\ MaxAttempts > 0
      BY DEF SubInv, Typed, Rows, SubscriptionsAssumption
    <2>5. CASE sweep[w].result[s] = "paid"
      <3>1. /\ sub'[s].status = "active" /\ sub'[s].attempts = 0
            /\ sub'[s].next = billed[s] + Period
        BY <1>4, <1>8, <2>1, <2>2, <2>4, <2>5 DEF Sound, Billing, PaidBy
      <3>2. Billing(s)'
        BY <1>1, <2>1, <2>2, <2>4, <3>1 DEF Sound, Billing
      <3>3. Counting(s)'
        BY <1>1, <2>1, <2>2, <2>4, <3>1 DEF Sound, Counting
      <3> QED
        BY <2>3, <3>2, <3>3 DEF Sound
    <2>6. CASE sweep[w].result[s] = "declined"
      <3>1. /\ sub[s].attempts + 1 <= declines[s] /\ declines[s] <= MaxAttempts
            /\ billed[s] # 0 => billed[s] + Period <= sub[s].next
        BY <1>8, <2>1, <2>2, <2>6 DEF Sound, Billing, Counting, PaidBy
      <3>2. /\ sub'[s].next = sub[s].next /\ sub'[s].attempts = sub[s].attempts + 1
            /\ sub'[s].status = IF sub[s].attempts + 1 >= MaxAttempts THEN "past_due" ELSE "active"
        BY <1>4, <1>8, <2>2, <2>6
      <3>3. Billing(s)'
        BY <1>1, <2>1, <2>2, <3>1, <3>2 DEF Sound, Billing
      <3>4. Counting(s)'
        <4>1. declines'[s] = declines[s] /\ \A v \in Sweeps : s \notin Swept(v)'
          BY <1>1, <2>2
        <4>2. sub'[s].attempts <= declines[s]
          BY <3>1, <3>2
        <4>3. sub'[s].status = "past_due" => declines[s] = MaxAttempts
          BY <2>4, <3>1, <3>2
        <4>4. sub'[s].status \in {"absent", "active", "paused"} => sub'[s].attempts < MaxAttempts
          BY <2>4, <3>2
        <4> QED
          BY <3>1, <4>1, <4>2, <4>3, <4>4 DEF Counting
      <3> QED
        BY <2>3, <3>3, <3>4 DEF Sound
    <2> QED
      BY <1>8, <2>1, <2>5, <2>6 DEF Sound, Counting
  <1> QED
    BY <1>1, <1>6, <1>7, <1>8 DEF SubInv

\* The worker is lost: what it had not charged is as if it had not been read.
LEMMA LoseKeeps ==
  ASSUME SubInv, NEW w \in Sweeps, LoseSweep(w)
  PROVE  SubInv'
  <1>1. /\ sweep' = [sweep EXCEPT ![w] = NoSweep]
        /\ lapsed' = lapsed \cup {s \in Swept(w) : sweep[w].result[s] # "none"}
        /\ UNCHANGED <<now, sub, notices, asked, billed, declines>>
    BY DEF LoseSweep
  <1>2. /\ DOMAIN sweep' = Sweeps /\ sweep'[w] = NoSweep
        /\ \A v \in Sweeps : v # w => sweep'[v] = sweep[v]
    BY <1>1 DEF SubInv, Typed
  <1>3. /\ DOMAIN sweep'[w] = {"at", "result", "read"} /\ sweep'[w].at = 0
        /\ DOMAIN sweep'[w].result = {} /\ Swept(w)' = {}
        /\ \A v \in Sweeps : v # w => Swept(v)' = Swept(v)
    BY <1>2 DEF Swept, NoSweep
  <1>4. Typed'
    <2>1. ASSUME NEW v \in Sweeps
          PROVE  /\ DOMAIN sweep'[v] = {"at", "result", "read"}
                 /\ sweep'[v].at \in Nat /\ sweep'[v].at <= now'
                 /\ Swept(v)' \subseteq Subs /\ DOMAIN sweep'[v].result = Swept(v)'
                 /\ \A s \in Swept(v)' : sweep'[v].read[s] \in Rows
      <3>1. CASE v = w
        <4>1. now' \in Nat
          BY <1>1 DEF SubInv, Typed
        <4> QED
          BY <1>3, <3>1, <4>1
      <3>2. CASE v # w
        <4>1. /\ DOMAIN sweep[v] = {"at", "result", "read"}
              /\ sweep[v].at \in Nat /\ sweep[v].at <= now
              /\ Swept(v) \subseteq Subs /\ DOMAIN sweep[v].result = Swept(v)
              /\ \A s \in Swept(v) : sweep[v].read[s] \in Rows
          BY DEF SubInv, Typed
        <4> QED
          BY <1>1, <1>2, <1>3, <3>2, <4>1
      <3> QED
        BY <3>1, <3>2
    <2>2. lapsed' \subseteq Subs
      BY <1>1 DEF SubInv, Typed
    <2> QED
      BY <1>1, <1>2, <2>1, <2>2 DEF SubInv, Typed
  <1>5. ASSUME NEW s \in Subs, s \notin lapsed', s \notin Swept(w) PROVE Sound(s)'
    <2>1. CallsStay(s)
      BY <1>1, <1>2, <1>3, <1>5 DEF CallsStay, About
    <2> QED
      BY <1>1, <1>4, <1>5, <2>1, Elsewhere DEF SubInv, Typed, RowStays
  <1>6. ASSUME NEW s \in Subs, s \notin lapsed', s \in Swept(w) PROVE Sound(s)'
    <2>1. Sound(s) /\ sweep[w].result[s] = "none"
      BY <1>1, <1>6 DEF SubInv
    <2>2. /\ \A v \in Sweeps : (s \in Swept(v) <=> v = w) /\ s \notin Swept(v)'
          /\ \A v \in Sweeps : ~PaidBy(v, s) /\ ~PaidBy(v, s)'
          /\ \A r \in Requests : ~About(r, s)'
      BY <1>1, <1>3, <1>6, <2>1 DEF Sound, Alone, PaidBy, About
    <2>3. Alone(s)'
      BY <2>2 DEF Alone
    <2>4. Billing(s)'
      BY <1>1, <2>1, <2>2 DEF Sound, Billing
    <2>5. Counting(s)'
      BY <1>1, <1>6, <2>1, <2>2 DEF Sound, Counting
    <2> QED
      BY <2>3, <2>4, <2>5 DEF Sound
  <1> QED
    BY <1>4, <1>5, <1>6 DEF SubInv

-----------------------------------------------------------------------------
\* What one step may bill.
BilledApart ==
  \A s \in Subs \ lapsed' :
    billed'[s] # billed[s] /\ billed[s] # 0 => billed[s] + Period <= billed'[s]

LEMMA SubStep ==
  ASSUME SubscriptionsAssumption, SubInv, [SubscriptionsNext]_subVars
  PROVE  SubInv' /\ BilledApart
  <1>1. CASE PassTime \/ QueueNotices \/ UNCHANGED subVars
    BY <1>1, ClockKeeps DEF BilledApart, PassTime, QueueNotices, subVars
  <1>2. CASE EndNotices
    BY <1>2, NoticesKeep DEF BilledApart, EndNotices
  <1>3. ASSUME NEW w \in Sweeps, SweepStep(w) PROVE SubInv' /\ BilledApart
    <2>1. CASE BeginRenewals(w)
      BY <2>1, BeginKeeps DEF BilledApart, BeginRenewals
    <2>2. CASE CommitSweep(w)
      BY <2>2, CommitKeeps DEF BilledApart, CommitSweep
    <2>3. CASE LoseSweep(w)
      BY <2>3, LoseKeeps DEF BilledApart, LoseSweep
    <2>4. ASSUME NEW s \in Subs, ChargeSubscription(w, s) PROVE SubInv' /\ BilledApart
      <3>1. \A k \in Subs : k # s => billed'[k] = billed[k]
        BY <2>4 DEF ChargeSubscription, SubInv, Typed
      <3> QED
        BY <2>4, <3>1, ChargeKeeps DEF BilledApart
    <2> QED
      BY <1>3, <2>1, <2>2, <2>3, <2>4 DEF SweepStep
  <1>4. ASSUME NEW s \in Subs, create_subscription(s) PROVE SubInv' /\ BilledApart
    BY <1>4, CreateKeeps DEF BilledApart, create_subscription
  <1>5. ASSUME NEW r \in Requests, CustomerStep(r) PROVE SubInv' /\ BilledApart
    <2>1. ASSUME NEW s \in Subs, AskPause(r, s) \/ AskResume(r, s) \/ AskCancel(r, s)
          PROVE  SubInv' /\ BilledApart
      BY <2>1, AskKeeps DEF BilledApart, AskPause, AskResume, AskCancel, Ask
    <2>2. CASE pause_subscription(r) \/ resume_subscription(r) \/ cancel_subscription(r)
      BY <2>2, AnswerKeeps
         DEF BilledApart, pause_subscription, resume_subscription, cancel_subscription, Answer
    <2> QED
      BY <1>5, <2>1, <2>2 DEF CustomerStep
  <1> QED
    BY <1>1, <1>2, <1>3, <1>4, <1>5 DEF SubscriptionsNext

\* What a call holds of a row that no call has lapsed, the billing and the count
\* of that row agree throughout (subscription_tasks.py, subscription_service.py).
THEOREM SubscriptionsInvariant == SubscriptionsSpec => []SubInv
  <1>1. SubscriptionsInit => SubInv
    BY SubscriptionsAssumption, SubInitial
  <1>2. SubInv /\ [SubscriptionsNext]_subVars => SubInv'
    BY SubscriptionsAssumption, SubStep
  <1> QED
    BY <1>1, <1>2, PTL DEF SubscriptionsSpec

\* The variables keep their types (models/subscription.py).
THEOREM SubscriptionsTyped == SubscriptionsSpec => []SubscriptionsTypeOK
  <1>1. SubInv => SubscriptionsTypeOK
    BY DEF SubInv, Typed, SubscriptionsTypeOK, Rows
  <1> QED
    BY <1>1, SubscriptionsInvariant, PTL

\* The sweeps that charge a subscription start a period apart at least, unless
\* one was lost, met another call or was answered too late
\* (process_due_renewals of subscription_tasks.py).
THEOREM ChargedOncePerPeriod == SubscriptionsSpec => BilledOncePerPeriod
  <1>1. SubInv /\ [SubscriptionsNext]_subVars => [BilledApart]_subVars
    BY SubscriptionsAssumption, SubStep
  <1>2. SubscriptionsSpec => [][BilledApart]_subVars
    BY <1>1, SubscriptionsInvariant, PTL DEF SubscriptionsSpec
  <1> QED
    BY <1>2 DEF BilledOncePerPeriod, BilledApart

\* past_due is earned by MaxAttempts failures in a row, and a row counts no
\* failure that was not one (process_due_renewals of subscription_tasks.py).
THEOREM FailuresEarnPastDue == SubscriptionsSpec => []PastDueEarned
  <1>1. SubInv => PastDueEarned
    BY DEF SubInv, Sound, Counting, PastDueEarned
  <1> QED
    BY <1>1, SubscriptionsInvariant, PTL

-----------------------------------------------------------------------------
(* The sliding window of the rate limiter.                                 *)

Places == {"new", "stamped", "refused", "admitted", "answered"}

GatewayShapes ==
  /\ call \in [Calls -> [at : Places, stamp : Int]]
  /\ tick \in Int
  /\ window \subseteq [score : Int, suffix : RandomTails]
  /\ IsFiniteSet(window)
  /\ irregular \in BOOLEAN

\* Requests that have been let through, and entries of the set, after a time.
Passed(c) == call[c].at \in {"admitted", "answered"}
PassedAfter(time) == {c \in Calls : Passed(c) /\ call[c].stamp > time}
EntriesAfter(time) == {e \in window : e.score > time}

\* A time that no script has slid beyond.
Reached(time) ==
  \A c \in Calls : call[c].at \notin {"new", "stamped"} => call[c].stamp - Window <= time

\* What is left of the set counts every request that was let through.
Counted ==
  \A time \in Int : Reached(time) => Cardinality(PassedAfter(time)) <= Cardinality(EntriesAfter(time))

InLimit == \A time \in Int : Cardinality(Through(time)) <= Limit

GatewayInv == GatewayShapes /\ (~irregular => Counted /\ InLimit)

-----------------------------------------------------------------------------
\* The sets that are counted are finite.
LEMMA CountedSets ==
  ASSUME GatewayAssumption, GatewayInv, NEW time \in Int
  PROVE  /\ IsFiniteSet(PassedAfter(time)) /\ IsFiniteSet(EntriesAfter(time)) /\ IsFiniteSet(Through(time))
         /\ Cardinality(PassedAfter(time)) \in Nat /\ Cardinality(EntriesAfter(time)) \in Nat
         /\ Cardinality(Through(time)) \in Nat
  <1>1. IsFiniteSet(Calls) /\ IsFiniteSet(window)
    BY DEF GatewayAssumption, GatewayInv, GatewayShapes
  <1>2. PassedAfter(time) \subseteq Calls /\ EntriesAfter(time) \subseteq window /\ Through(time) \subseteq Calls
    BY DEF PassedAfter, EntriesAfter, Through
  <1>3. IsFiniteSet(PassedAfter(time)) /\ IsFiniteSet(EntriesAfter(time)) /\ IsFiniteSet(Through(time))
    BY <1>1, <1>2, FS_Subset
  <1> QED
    BY <1>3, FS_CardinalityType

\* A step that lets nobody through, and takes no entry of the set that counts.
LEMMA QuietStep ==
  ASSUME GatewayAssumption, GatewayInv, GatewayShapes', irregular => irregular',
         \A c \in Calls : (Passed(c)' <=> Passed(c)) /\ (Passed(c) => call'[c].stamp = call[c].stamp),
         \A time \in Int : Reached(time)' => Reached(time) /\ EntriesAfter(time)' = EntriesAfter(time)
  PROVE  GatewayInv'
  <1>1. \A time \in Int : PassedAfter(time)' = PassedAfter(time)
    BY DEF PassedAfter
  <1>2. \A time \in Int : Through(time)' = Through(time)
    BY DEF Through, Passed
  <1>3. ASSUME Counted PROVE Counted'
    BY <1>1, <1>3 DEF Counted
  <1>4. ASSUME InLimit PROVE InLimit'
    BY <1>2, <1>4 DEF InLimit
  <1> QED
    BY <1>3, <1>4 DEF GatewayInv

\* A request moves on.
LEMMA CallMoves ==
  ASSUME GatewayAssumption, GatewayInv, NEW c \in Calls, NEW place \in Places, MoveTo(c, place)
  PROVE  /\ call' \in [Calls -> [at : Places, stamp : Int]]
         /\ call'[c].at = place /\ call'[c].stamp = call[c].stamp
         /\ \A d \in Calls : d # c => call'[d] = call[d]
  BY DEF MoveTo, GatewayInv, GatewayShapes

\* The script lets a request through: in any window that it is in, those let
\* through before are entries that the script has counted.
LEMMA AdmitStep ==
  ASSUME GatewayAssumption, GatewayInv, NEW c \in Calls, NEW suffix \in RandomTails, Admit(c, suffix)
  PROVE  GatewayInv'
  <1>1. PICK s \in Int : s = call[c].stamp
    BY DEF GatewayInv, GatewayShapes
  <1>2. PICK member \in [score : Int, suffix : RandomTails] : member = [score |-> s, suffix |-> suffix]
    OBVIOUS
  <1> DEFINE left == Slide(window, s)
  <1>3. /\ At(c, "stamped") /\ ~(Cardinality(left) >= Limit) /\ window' = left \cup {member}
        /\ irregular' = (irregular \/ Late(c) \/ member \in left) /\ MoveTo(c, "admitted")
        /\ tick' = tick
    BY <1>1, <1>2 DEF Admit, Limited
  <1>4. /\ call' \in [Calls -> [at : Places, stamp : Int]]
        /\ call'[c].at = "admitted" /\ call'[c].stamp = s
        /\ \A d \in Calls : d # c => call'[d] = call[d]
        /\ call[c].at = "stamped"
    BY <1>1, <1>3, CallMoves DEF Places, At
  <1>5. /\ left \subseteq window /\ IsFiniteSet(left) /\ IsFiniteSet(window') /\ Cardinality(left) \in Nat
        /\ member.score = s
    <2>1. left \subseteq window
      BY DEF Slide
    <2>2. IsFiniteSet(left)
      BY <2>1, FS_Subset DEF GatewayInv, GatewayShapes
    <2>3. IsFiniteSet(left \cup {member})
      BY <2>2, FS_AddElement
    <2> HIDE DEF left
    <2> QED
      BY <1>2, <1>3, <2>1, <2>2, <2>3, FS_CardinalityType
  <1>6. GatewayShapes'
    BY <1>3, <1>4, <1>5 DEF GatewayInv, GatewayShapes
  <1>7. Window \in Int /\ Window > 0 /\ Limit \in Int
    BY DEF GatewayAssumption
  <1>8. ASSUME ~irregular' PROVE Counted' /\ InLimit'
    <2>1. /\ ~irregular /\ member \notin left /\ Counted /\ InLimit
          /\ \A d \in Calls : call[d].at \notin {"new", "stamped"} => call[d].stamp <= s
      <3>1. ~irregular /\ member \notin left /\ ~Late(c)
        BY <1>3, <1>8
      <3>2. \A d \in Calls : call[d].stamp \in Int
        BY DEF GatewayInv, GatewayShapes
      <3>3. \A d \in Calls : call[d].at \notin {"new", "stamped"} => call[d].stamp <= s
        BY <1>1, <3>1, <3>2 DEF Late
      <3> QED
        BY <3>1, <3>3 DEF GatewayInv
    <2>2. \A d \in Calls : d # c => (Passed(d)' <=> Passed(d)) /\ call'[d].stamp = call[d].stamp
      BY <1>4 DEF Passed
    <2>3. Passed(c)' /\ ~Passed(c)
      BY <1>4 DEF Passed
    <2>4. ASSUME NEW time \in Int, Reached(time)'
          PROVE  Cardinality(PassedAfter(time)') <= Cardinality(EntriesAfter(time)')
      <3>1. Reached(time) /\ s - Window <= time
        <4>1. s - Window <= time
          BY <1>4, <2>4 DEF Reached
        <4>2. Reached(time)
          BY <1>4, <2>4 DEF Reached
        <4> QED
          BY <4>1, <4>2
      <3>2. Cardinality(PassedAfter(time)) <= Cardinality(EntriesAfter(time))
        BY <2>1, <3>1 DEF Counted
      <3>3. \A e \in window : e.score > time => e \in left
        BY <1>7, <3>1 DEF Slide, GatewayInv, GatewayShapes
      <3>4. CASE s > time
        <4>1. PassedAfter(time)' = PassedAfter(time) \cup {c} /\ c \notin PassedAfter(time)
          BY <1>4, <2>2, <2>3, <3>4 DEF PassedAfter
        <4>2. EntriesAfter(time)' = EntriesAfter(time) \cup {member} /\ member \notin EntriesAfter(time)
          BY <1>3, <1>5, <2>1, <3>3, <3>4 DEF EntriesAfter
        <4>3. Cardinality(PassedAfter(time)') = Cardinality(PassedAfter(time)) + 1
          BY <4>1, CountedSets, FS_AddElement
        <4>4. Cardinality(EntriesAfter(time)') = Cardinality(EntriesAfter(time)) + 1
          BY <4>2, CountedSets, FS_AddElement
        <4> QED
          BY <3>2, <4>3, <4>4, CountedSets
      <3>5. CASE ~(s > time)
        <4>1. PassedAfter(time)' = PassedAfter(time)
          BY <1>4, <2>2, <2>3, <3>5 DEF PassedAfter
        <4>2. EntriesAfter(time)' = EntriesAfter(time)
          BY <1>3, <1>5, <3>3, <3>5 DEF EntriesAfter
        <4> QED
          BY <3>2, <4>1, <4>2
      <3> QED
        BY <3>4, <3>5
    <2>5. ASSUME NEW time \in Int PROVE Cardinality(Through(time)') <= Limit
      <3>1. \A d \in Calls : d # c => (d \in Through(time)' <=> d \in Through(time))
        BY <1>4 DEF Through
      <3>2. c \notin Through(time)
        BY <1>4 DEF Through
      <3>3. Through(time) \subseteq Calls /\ Through(time)' \subseteq Calls
        BY DEF Through
      <3>4. CASE time - Window < s /\ s <= time
        <4>1. Reached(s - Window) /\ s - Window \in Int
          <5>1. \A d \in Calls : call[d].stamp \in Int
            BY DEF GatewayInv, GatewayShapes
          <5> QED
            BY <1>7, <2>1, <5>1 DEF Reached
        <4>2. PICK start \in Int : start = s - Window
          BY <4>1
        <4>3. Cardinality(PassedAfter(start)) <= Cardinality(EntriesAfter(start))
          BY <2>1, <4>1, <4>2 DEF Counted
        <4>4. EntriesAfter(start) = left
          BY <4>2 DEF EntriesAfter, Slide
        <4>5. Through(time) \subseteq PassedAfter(start)
          <5>1. \A d \in Calls : call[d].stamp \in Int
            BY DEF GatewayInv, GatewayShapes
          <5>2. start <= time - Window
            BY <1>7, <3>4, <4>2
          <5> QED
            BY <1>7, <5>1, <5>2 DEF Through, PassedAfter, Passed
        <4>6. Cardinality(Through(time)) <= Cardinality(PassedAfter(start))
          BY <4>5, CountedSets, FS_Subset
        <4>7. Cardinality(Through(time)) < Limit
          <5>1. Cardinality(left) < Limit
            BY <1>3, <1>5, <1>7
          <5> HIDE DEF left
          <5> QED
            BY <1>5, <1>7, <4>3, <4>4, <4>6, <5>1, CountedSets
        <4>8. Through(time)' = Through(time) \cup {c}
          <5>1. c \in Through(time)'
            BY <1>4, <3>4 DEF Through
          <5> QED
            BY <3>1, <3>3, <5>1
        <4>9. Cardinality(Through(time) \cup {c}) = Cardinality(Through(time)) + 1
          BY <3>2, CountedSets, FS_AddElement
        <4> QED
          BY <1>7, <4>7, <4>8, <4>9, CountedSets
      <3>5. CASE ~(time - Window < s /\ s <= time)
        <4>1. c \notin Through(time)'
          BY <1>4, <3>5 DEF Through
        <4>2. Through(time)' = Through(time)
          BY <3>1, <3>2, <3>3, <4>1
        <4> QED
          BY <2>1, <4>2 DEF InLimit
      <3> QED
        BY <3>4, <3>5
    <2> QED
      BY <2>4, <2>5 DEF Counted, InLimit
  <1> QED
    BY <1>6, <1>8 DEF GatewayInv

\* A request is authenticated and stamped, refused, or answered.
LEMMA OtherCallStep ==
  ASSUME GatewayAssumption, GatewayInv, NEW c \in Calls,
         Authenticate(c) \/ Refuse(c) \/ FailOpen(c) \/ Forward(c)
  PROVE  GatewayInv'
  <1>1. /\ call \in [Calls -> [at : Places, stamp : Int]] /\ tick \in Int
        /\ window \subseteq [score : Int, suffix : RandomTails] /\ IsFiniteSet(window)
        /\ irregular \in BOOLEAN /\ Window \in Int
    BY DEF GatewayInv, GatewayShapes, GatewayAssumption
  <1>2. CASE Authenticate(c)
    <2>1. At(c, "new") /\ UNCHANGED <<tick, window, irregular>>
      BY <1>2 DEF Authenticate
    <2>2. /\ call' \in [Calls -> [at : Places, stamp : Int]]
          /\ call'[c].at \in {"stamped", "refused"}
          /\ \A d \in Calls : d # c => call'[d] = call[d]
      <3>1. CASE call' = [call EXCEPT ![c] = [at |-> "stamped", stamp |-> tick]]
        BY <1>1, <3>1 DEF Places
      <3>2. CASE MoveTo(c, "refused")
        BY <3>2, CallMoves DEF Places
      <3> QED
        BY <1>2, <3>1, <3>2 DEF Authenticate
    <2>3. GatewayShapes'
      BY <1>1, <2>1, <2>2 DEF GatewayShapes
    <2>4. \A d \in Calls : (Passed(d)' <=> Passed(d)) /\ (Passed(d) => call'[d].stamp = call[d].stamp)
      BY <2>1, <2>2 DEF Passed, At
    <2>5. \A time \in Int : Reached(time)' => Reached(time) /\ EntriesAfter(time)' = EntriesAfter(time)
      BY <2>1, <2>2 DEF Reached, EntriesAfter, At
    <2> QED
      BY <2>1, <2>3, <2>4, <2>5, QuietStep
  <1>3. CASE Refuse(c)
    <2>1. /\ At(c, "stamped") /\ window' = Slide(window, call[c].stamp) /\ MoveTo(c, "refused")
          /\ irregular' = (irregular \/ Late(c)) /\ tick' = tick
      BY <1>3 DEF Refuse
    <2>2. /\ call' \in [Calls -> [at : Places, stamp : Int]]
          /\ call'[c].at = "refused" /\ call'[c].stamp = call[c].stamp
          /\ \A d \in Calls : d # c => call'[d] = call[d]
      BY <2>1, CallMoves DEF Places
    <2>3. GatewayShapes'
      <3>1. Slide(window, call[c].stamp) \subseteq window
        BY DEF Slide
      <3>2. IsFiniteSet(Slide(window, call[c].stamp))
        BY <1>1, <3>1, FS_Subset
      <3>3. irregular' \in BOOLEAN
        BY <1>1, <2>1 DEF Late
      <3> QED
        BY <1>1, <2>1, <2>2, <3>1, <3>2, <3>3 DEF GatewayShapes
    <2>4. \A d \in Calls : (Passed(d)' <=> Passed(d)) /\ (Passed(d) => call'[d].stamp = call[d].stamp)
      BY <2>1, <2>2 DEF Passed, At
    <2>5. ASSUME NEW time \in Int, Reached(time)'
          PROVE  Reached(time) /\ EntriesAfter(time)' = EntriesAfter(time)
      <3>1. Reached(time)
        BY <2>1, <2>2, <2>5 DEF Reached, At
      <3>2. call[c].stamp - Window <= time /\ call[c].stamp \in Int
        BY <1>1, <2>2, <2>5 DEF Reached
      <3>3. \A e \in window : e.score > time => e.score > call[c].stamp - Window
        BY <1>1, <3>2
      <3>4. EntriesAfter(time)' = EntriesAfter(time)
        BY <2>1, <3>3 DEF EntriesAfter, Slide
      <3> QED
        BY <3>1, <3>4
    <2> QED
      BY <2>1, <2>3, <2>4, <2>5, QuietStep
  <1>4. CASE FailOpen(c)
    <2>1. irregular' = TRUE /\ MoveTo(c, "admitted") /\ UNCHANGED <<tick, window>>
      BY <1>4 DEF FailOpen
    <2>2. call' \in [Calls -> [at : Places, stamp : Int]]
      BY <2>1, CallMoves DEF Places
    <2> QED
      BY <1>1, <2>1, <2>2 DEF GatewayInv, GatewayShapes
  <1>5. CASE Forward(c)
    <2>1. At(c, "admitted") /\ MoveTo(c, "answered") /\ UNCHANGED <<tick, window, irregular>>
      BY <1>5 DEF Forward
    <2>2. /\ call' \in [Calls -> [at : Places, stamp : Int]]
          /\ call'[c].at = "answered" /\ call'[c].stamp = call[c].stamp
          /\ \A d \in Calls : d # c => call'[d] = call[d]
      BY <2>1, CallMoves DEF Places
    <2>3. GatewayShapes'
      BY <1>1, <2>1, <2>2 DEF GatewayShapes
    <2>4. \A d \in Calls : (Passed(d)' <=> Passed(d)) /\ (Passed(d) => call'[d].stamp = call[d].stamp)
      BY <2>1, <2>2 DEF Passed, At
    <2>5. \A time \in Int : Reached(time)' => Reached(time) /\ EntriesAfter(time)' = EntriesAfter(time)
      BY <2>1, <2>2 DEF Reached, EntriesAfter
    <2> QED
      BY <2>1, <2>3, <2>4, <2>5, QuietStep
  <1> QED
    BY <1>2, <1>3, <1>4, <1>5

LEMMA GatewayInitially == GatewayAssumption /\ GatewayInit => GatewayInv
  <1> SUFFICES ASSUME GatewayAssumption, GatewayInit PROVE GatewayInv
    OBVIOUS
  <1>1. GatewayShapes
    <2>1. IsFiniteSet(window) /\ window = {}
      BY FS_EmptySet DEF GatewayInit
    <2>2. NewCall \in [at : Places, stamp : Int]
      BY DEF NewCall, Places
    <2>3. call \in [Calls -> [at : Places, stamp : Int]]
      BY <2>2 DEF GatewayInit
    <2>4. tick \in Int
      BY DEF GatewayInit
    <2>5. irregular \in BOOLEAN
      BY DEF GatewayInit
    <2> QED
      BY <2>1, <2>3, <2>4, <2>5 DEF GatewayShapes
  <1>2. \A c \in Calls : call[c].at = "new"
    BY DEF GatewayInit, NewCall
  <1>3. ASSUME NEW time \in Int
        PROVE  PassedAfter(time) = {} /\ EntriesAfter(time) = {} /\ Through(time) = {}
    BY <1>2 DEF GatewayInit, PassedAfter, Passed, EntriesAfter, Through
  <1>4. Cardinality({}) = 0 /\ Limit \in Nat
    BY FS_EmptySet DEF GatewayAssumption
  <1>5. Counted
    BY <1>3, <1>4 DEF Counted
  <1>6. InLimit
    BY <1>3, <1>4 DEF InLimit
  <1> QED
    BY <1>1, <1>5, <1>6 DEF GatewayInv

LEMMA GatewayStep ==
  ASSUME GatewayAssumption, GatewayInv, [GatewayNext]_gatewayVars PROVE GatewayInv'
  <1>1. CASE UNCHANGED gatewayVars \/ PassTick \/ PingFails \/ PingAnswered \/ close_redis
    <2>1. UNCHANGED <<call, window, irregular>> /\ tick' \in Int
      BY <1>1 DEF gatewayVars, PassTick, PingFails, PingAnswered, close_redis, GatewayInv, GatewayShapes
    <2>2. GatewayShapes'
      BY <2>1 DEF GatewayInv, GatewayShapes
    <2>3. \A d \in Calls : (Passed(d)' <=> Passed(d)) /\ (Passed(d) => call'[d].stamp = call[d].stamp)
      BY <2>1 DEF Passed
    <2>4. \A time \in Int : Reached(time)' => Reached(time) /\ EntriesAfter(time)' = EntriesAfter(time)
      BY <2>1 DEF Reached, EntriesAfter
    <2> QED
      BY <2>1, <2>2, <2>3, <2>4, QuietStep
  <1>2. ASSUME NEW c \in Calls, CallStep(c) PROVE GatewayInv'
    BY <1>2, AdmitStep, OtherCallStep DEF CallStep
  <1> QED
    BY <1>1, <1>2 DEF GatewayNext

\* In no window of time, wherever it starts, are more requests let through than
\* the limit, as long as scripts run in the order of their stamps, the members
\* they add differ, and Redis answers (rate_limiter.py:54-101, 170-229).
THEOREM WindowSlides == GatewaySpec => []SlidingWindow
  <1>1. GatewayInv => SlidingWindow
    <2>1. LastTick \in Nat
      BY GatewayAssumption DEF GatewayAssumption
    <2>2. 0..LastTick \subseteq Int
      BY <2>1
    <2> QED
      BY <2>2 DEF GatewayInv, InLimit, SlidingWindow
  <1>2. GatewayInit => GatewayInv
    BY GatewayInitially, GatewayAssumption
  <1>3. GatewayInv /\ [GatewayNext]_gatewayVars => GatewayInv'
    BY GatewayStep, GatewayAssumption
  <1> QED
    BY <1>1, <1>2, <1>3, PTL DEF GatewaySpec

\* The client, the pings of its boot, the set in Redis and the stamps of the
\* requests keep their types; a boot gives up after PingRetries pings
\* (redis_client.py, rate_limiter.py).
THEOREM GatewayTyped == GatewaySpec => []GatewayTypeOK
  <1> DEFINE Pinging == client = "booting" => pings < PingRetries
  <1>1. GatewayInit => GatewayTypeOK /\ Pinging
    <2> SUFFICES ASSUME GatewayInit PROVE GatewayTypeOK /\ Pinging
      OBVIOUS
    <2>1. NewCall \in [at : {"new", "stamped", "refused", "admitted", "answered"}, stamp : Nat]
      BY DEF NewCall
    <2>2. PingRetries \in Nat \ {0} /\ tick = 1 /\ client = "booting" /\ pings = 0 /\ irregular = FALSE
      BY GatewayAssumption DEF GatewayAssumption, GatewayInit
    <2>3. window = {} /\ call = [c \in Calls |-> NewCall]
      BY DEF GatewayInit
    <2>4. tick \in Nat /\ pings \in 0..PingRetries
      BY <2>2
    <2>6. irregular \in BOOLEAN
      BY DEF GatewayInit
    <2>5. call \in [Calls -> [at : {"new", "stamped", "refused", "admitted", "answered"}, stamp : Nat]]
      BY <2>1, <2>3
    <2> QED
      BY <2>2, <2>3, <2>4, <2>5, <2>6 DEF GatewayTypeOK
  <1>2. GatewayTypeOK /\ Pinging /\ [GatewayNext]_gatewayVars => GatewayTypeOK' /\ Pinging'
    <2> SUFFICES ASSUME GatewayTypeOK, Pinging, [GatewayNext]_gatewayVars
                 PROVE  GatewayTypeOK' /\ Pinging'
      OBVIOUS
    <2> USE GatewayAssumption DEF GatewayAssumption, GatewayTypeOK
    <2>1. CASE UNCHANGED gatewayVars
      BY <2>1 DEF gatewayVars
    <2>2. CASE PassTick \/ PingAnswered \/ close_redis
      BY <2>2 DEF PassTick, PingAnswered, close_redis
    <2>3. CASE PingFails
      BY <2>3 DEF PingFails
    <2>4. ASSUME NEW c \in Calls, CallStep(c) PROVE GatewayTypeOK' /\ Pinging'
      <3>1. UNCHANGED <<tick, client, pings>> /\ irregular' \in BOOLEAN
        <4>1. UNCHANGED <<tick, client, pings>>
          BY <2>4 DEF CallStep, Authenticate, Refuse, FailOpen, Forward, Admit
        <4>2. CASE Authenticate(c) \/ FailOpen(c) \/ Forward(c)
          BY <4>2 DEF Authenticate, FailOpen, Forward
        <4>3. CASE Refuse(c) \/ \E suffix \in RandomTails : Admit(c, suffix)
          BY <4>3, Zenon DEF Refuse, Admit
        <4> QED
          BY <2>4, <4>1, <4>2, <4>3 DEF CallStep
      <3>2. call' \in [Calls -> [at : {"new", "stamped", "refused", "admitted", "answered"}, stamp : Nat]]
        <4>1. CASE call' = [call EXCEPT ![c] = [at |-> "stamped", stamp |-> tick]]
          BY <4>1
        <4>2. CASE \E place \in {"refused", "admitted", "answered"} : MoveTo(c, place)
          BY <4>2 DEF MoveTo
        <4> QED
          BY <2>4, <4>1, <4>2 DEF CallStep, Authenticate, Refuse, FailOpen, Forward, Admit
      <3>3. window' \subseteq [score : Nat, suffix : RandomTails]
        <4>1. call[c].stamp \in Nat
          OBVIOUS
        <4>2. CASE Authenticate(c) \/ FailOpen(c) \/ Forward(c)
          BY <4>2 DEF Authenticate, FailOpen, Forward
        <4>3. CASE Refuse(c)
          BY <4>3 DEF Refuse, Slide
        <4>4. ASSUME NEW suffix \in RandomTails, Admit(c, suffix)
              PROVE  window' \subseteq [score : Nat, suffix : RandomTails]
          BY <4>1, <4>4 DEF Admit, Slide
        <4> QED
          BY <2>4, <4>2, <4>3, <4>4 DEF CallStep
      <3> QED
        BY <3>1, <3>2, <3>3
    <2> QED
      BY <2>1, <2>2, <2>3, <2>4 DEF GatewayNext
  <1> QED
    BY <1>1, <1>2, PTL DEF GatewaySpec

-----------------------------------------------------------------------------
(* Shipments: bookings and tracking.                                       *)

Loaded == [at : {"loaded"}, parcel : Parcels, status : ShipmentStatus, known : SUBSET Nat]
Fetched == [at : {"fetched", "flushed"}, parcel : Parcels, status : ShipmentStatus, new : SUBSET Nat]
Followings == {NoTracking} \cup Loaded \cup Fetched
ShipmentRow == [status : ShipmentStatus, carrier : Carriers]
Scan == [status : ScanStatus, time : Nat]

ShipmentShapes ==
  /\ shipment \in [Parcels -> {NoShipment} \cup ShipmentRow]
  /\ booking \in [Parcels -> [at : {"idle", "calling", "booked"}, left : Seq(Carriers)]]
  /\ booked \in [Parcels -> SUBSET Carriers]
  /\ tracking \in [Trackers -> Followings]
  /\ scans \in [Parcels -> Seq(Scan)]
  /\ events = [p \in Parcels |-> events[p]]
  /\ \A p \in Parcels : events[p] \in [1..MaxScans[p] -> Nat]
  /\ told \in [Parcels -> ShipmentStatus]

\* The bookings of a parcel at the carriers, and the one that its row names.
Booked(p) ==
  /\ booking[p].at # "idle" => booking[p].left # <<>> /\ ~Present(p)
  /\ booking[p].at = "booked" => Asked(p) \in booked[p]
  /\ Present(p) => shipment[p].carrier \in booked[p]
  /\ p \notin mishap =>
       booked[p] = IF Present(p) THEN {shipment[p].carrier}
                   ELSE IF booking[p].at = "booked" THEN {Asked(p)} ELSE {}

\* A call that follows a parcel, and what it is about to write.
On(x, p) == x.at # "idle" /\ x.parcel = p
NewStatus(x) == scans[x.parcel][NewestOf(x.new)].status
Writes(x, p) == x.at = "flushed" /\ x.parcel = p /\ NewStatus(x) # x.status

Closed(S) == \A i \in S : \A j \in 1..i : j \in S
Increasing(p) == \A i, j \in DOMAIN scans[p] : i < j => scans[p][i].time < scans[p][j].time

\* The scans of a parcel, those that are stored, and its status.
Tracked(p) ==
  /\ ~Present(p) => scans[p] = <<>>
  /\ Len(scans[p]) <= MaxScans[p]
  /\ \A i \in 1..MaxScans[p] : i > Len(scans[p]) => events[p][i] = 0
  /\ p \notin Coarse => Increasing(p)
  /\ StatusIsScanned(p)
  /\ p \notin crossed \cup Coarse => Closed(Stored(p))
  /\ LatestWins(p)

\* A call holds what it has read, and nobody else has changed it.
Follows(x) ==
  x.at # "idle" =>
    /\ Present(x.parcel)
    /\ x.at \in {"fetched", "flushed"} => x.new # {} /\ x.new \subseteq DOMAIN scans[x.parcel]
    /\ x.parcel \notin crossed \cup Coarse =>
         /\ x.status = shipment[x.parcel].status
         /\ x.at = "loaded" => x.known = StoredTimes(x.parcel)
         /\ x.at # "loaded" => /\ x.new \cap Stored(x.parcel) = {}
                               /\ Closed(Stored(x.parcel) \cup x.new)

\* A parcel that was never crossed has one call, and one call holds the row.
CalledAlone(p) ==
  /\ p \notin crossed => \A t, u \in Trackers : On(tracking[t], p) /\ On(tracking[u], p) => t = u
  /\ \A t, u \in Trackers : Writes(tracking[t], p) /\ Writes(tracking[u], p) => t = u

\* Others were told what the call that holds the row commits, or else its status.
ToldIs(p) ==
  p \notin misheard =>
    /\ \A t \in Trackers : Writes(tracking[t], p) => told[p] = NewStatus(tracking[t])
    /\ (\A t \in Trackers : ~Writes(tracking[t], p)) =>
         told[p] = IF Present(p) THEN shipment[p].status ELSE "created"

ShipmentInv ==
  /\ ShipmentShapes
  /\ \A p \in Parcels : Booked(p) /\ Tracked(p) /\ CalledAlone(p) /\ ToldIs(p)
  /\ \A t \in Trackers : Follows(tracking[t])

-----------------------------------------------------------------------------
\* The records of the calls that follow a parcel.
LEMMA FollowingRecord ==
  ASSUME NEW x \in Followings
  PROVE  /\ x.at \in {"idle", "loaded", "fetched", "flushed"}
         /\ x.at = "idle" <=> x = NoTracking
         /\ x.at = "loaded" => x \in Loaded
         /\ x.at \in {"fetched", "flushed"} => x \in Fetched
         /\ x.at # "idle" => x.parcel \in Parcels /\ x.status \in ShipmentStatus
  <1>1. CASE x = NoTracking
    BY <1>1 DEF NoTracking
  <1>2. CASE x \in Loaded
    BY <1>2 DEF Loaded, NoTracking
  <1>3. CASE x \in Fetched
    BY <1>3 DEF Fetched, NoTracking
  <1> QED
    BY <1>1, <1>2, <1>3 DEF Followings

\* The rows of the shipments.
LEMMA ShipmentRecord ==
  ASSUME ShipmentInv, NEW p \in Parcels
  PROVE  /\ Present(p) <=> shipment[p] \in ShipmentRow
         /\ Present(p) => shipment[p].status \in ShipmentStatus /\ shipment[p].carrier \in Carriers
         /\ ~Present(p) => shipment[p] = NoShipment
  <1>1. shipment[p] \in {NoShipment} \cup ShipmentRow
    BY DEF ShipmentInv, ShipmentShapes
  <1> QED
    BY <1>1 DEF Present, NoShipment, ShipmentRow, ShipmentStatus, ScanStatus

\* What the call of a tracker holds is about a parcel that has a row.
LEMMA TrackerFacts ==
  ASSUME ShipmentInv, NEW t \in Trackers
  PROVE  /\ tracking[t] \in Followings /\ Follows(tracking[t])
         /\ tracking[t].at # "idle" =>
              /\ tracking[t].parcel \in Parcels /\ Present(tracking[t].parcel)
              /\ tracking[t].status \in ShipmentStatus
         /\ tracking \in [Trackers -> Followings]
  <1>1. tracking[t] \in Followings /\ Follows(tracking[t]) /\ tracking \in [Trackers -> Followings]
    BY DEF ShipmentInv, ShipmentShapes
  <1>2. tracking[t].at # "idle" => tracking[t].parcel \in Parcels /\ tracking[t].status \in ShipmentStatus
    BY <1>1, FollowingRecord
  <1> QED
    BY <1>1, <1>2 DEF Follows

\* What is new to a call is one of the carrier's scans, and its last one too.
LEMMA NewestScan ==
  ASSUME ShipmentInv, NEW x \in Followings, x.at \in {"fetched", "flushed"}, Follows(x)
  PROVE  /\ NewestOf(x.new) \in x.new /\ \A i \in x.new : NewestOf(x.new) >= i
         /\ x.new \subseteq DOMAIN scans[x.parcel] /\ x.new \subseteq Nat /\ x.parcel \in Parcels
         /\ scans[x.parcel] \in Seq(Scan)
         /\ DOMAIN scans[x.parcel] = 1..Len(scans[x.parcel])
         /\ NewStatus(x) \in ScanStatus
  <1>1. x \in Fetched /\ x.parcel \in Parcels
    BY FollowingRecord
  <1>2. x.new # {} /\ x.new \subseteq DOMAIN scans[x.parcel] /\ x.new \subseteq Nat
    BY <1>1 DEF Follows, Fetched
  <1>3. scans[x.parcel] \in Seq(Scan)
    BY <1>1 DEF ShipmentInv, ShipmentShapes
  <1>4. DOMAIN scans[x.parcel] = 1..Len(scans[x.parcel]) /\ Len(scans[x.parcel]) \in Nat
    BY <1>3
  <1>5. IsFiniteSet(x.new)
    <2>1. IsFiniteSet(1..Len(scans[x.parcel]))
      BY <1>4, FS_Interval
    <2> QED
      BY <1>2, <1>4, <2>1, FS_Subset
  <1>6. NewestOf(x.new) \in x.new /\ \A i \in x.new : NewestOf(x.new) >= i
    <2>1. \A i \in x.new : i \in Int
      BY <1>2
    <2> QED
      BY <1>2, <1>5, <2>1, MaxIsGreatest DEF NewestOf
  <1>7. scans[x.parcel][NewestOf(x.new)] \in Scan
    BY <1>2, <1>3, <1>4, <1>6
  <1> QED
    BY <1>1, <1>2, <1>3, <1>4, <1>6, <1>7 DEF NewStatus, Scan

\* Nothing that follows a parcel reads the bookings.
LEMMA BookingApart ==
  ASSUME ShipmentInv, UNCHANGED <<shipment, scans, tracking, events, told, crossed, misheard>>
  PROVE  /\ \A p \in Parcels : Tracked(p)' /\ CalledAlone(p)' /\ ToldIs(p)'
         /\ \A t \in Trackers : Follows(tracking[t])'
  <1>1. ASSUME NEW p \in Parcels PROVE Tracked(p)'
    <2>1. Tracked(p)
      BY DEF ShipmentInv
    <2>2. Present(p)' = Present(p) /\ Stored(p)' = Stored(p)
      BY DEF Present, Stored
    <2> QED
      BY <2>1, <2>2 DEF Tracked, Increasing, StatusIsScanned, LatestWins
  <1>2. ASSUME NEW p \in Parcels PROVE CalledAlone(p)' /\ ToldIs(p)'
    <2>1. CalledAlone(p) /\ ToldIs(p)
      BY DEF ShipmentInv
    <2>2. \A t \in Trackers : On(tracking[t], p)' = On(tracking[t], p)
      BY DEF On
    <2>3. \A t \in Trackers : Writes(tracking[t], p)' = Writes(tracking[t], p)
                              /\ NewStatus(tracking[t])' = NewStatus(tracking[t])
      BY DEF Writes, NewStatus
    <2>4. Present(p)' = Present(p)
      BY DEF Present
    <2> QED
      BY <2>1, <2>2, <2>3, <2>4 DEF CalledAlone, ToldIs
  <1>3. ASSUME NEW t \in Trackers PROVE Follows(tracking[t])'
    <2>1. Follows(tracking[t])
      BY DEF ShipmentInv
    <2> QED
      BY <2>1 DEF Follows, Present, StoredTimes, Stored
  <1> QED
    BY <1>1, <1>2, <1>3

-----------------------------------------------------------------------------
BookingRecord == [at : {"idle", "calling", "booked"}, left : Seq(Carriers)]

\* A booking call makes a step, and writes no row yet.
LEMMA BookingCallStep ==
  ASSUME ShipmentInv, NEW p \in Parcels, NEW x \in BookingRecord, NEW held \in SUBSET Carriers,
         booking' = [booking EXCEPT ![p] = x], booked' = [booked EXCEPT ![p] = held],
         UNCHANGED <<shipment, scans, trackingVars>>,
         \A q \in Parcels : q # p => (q \in mishap' <=> q \in mishap),
         p \in mishap => p \in mishap',
         x.at # "idle" => x.left # <<>> /\ ~Present(p),
         x.at = "booked" => Head(x.left) \in held,
         Present(p) => held = booked[p],
         p \notin mishap' /\ ~Present(p) => held = IF x.at = "booked" THEN {Head(x.left)} ELSE {}
  PROVE  ShipmentInv'
  <1>1. UNCHANGED <<shipment, scans, tracking, events, told, crossed, misheard>>
    BY DEF trackingVars
  <1>2. /\ booking \in [Parcels -> BookingRecord] /\ booked \in [Parcels -> SUBSET Carriers]
    BY DEF ShipmentInv, ShipmentShapes, BookingRecord
  <1>3. /\ booking' \in [Parcels -> BookingRecord] /\ booked' \in [Parcels -> SUBSET Carriers]
        /\ booking'[p] = x /\ booked'[p] = held
        /\ \A q \in Parcels : q # p => booking'[q] = booking[q] /\ booked'[q] = booked[q]
    BY <1>2
  <1>4. ShipmentShapes'
    BY <1>1, <1>3 DEF ShipmentInv, ShipmentShapes, BookingRecord
  <1>5. ASSUME NEW q \in Parcels PROVE Booked(q)'
    <2>1. Booked(q)
      BY DEF ShipmentInv
    <2>2. Present(q)' = Present(q) /\ shipment'[q] = shipment[q]
      BY <1>1 DEF Present
    <2>3. CASE q # p
      <3>1. Asked(q)' = Asked(q)
        BY <1>3, <2>3 DEF Asked
      <3> QED
        BY <1>3, <2>1, <2>2, <2>3, <3>1 DEF Booked
    <2>4. CASE q = p
      <3>1. Asked(p)' = Head(x.left)
        BY <1>3 DEF Asked
      <3> QED
        BY <1>3, <2>1, <2>2, <2>4, <3>1 DEF Booked
    <2> QED
      BY <2>3, <2>4
  <1> QED
    BY <1>1, <1>4, <1>5, BookingApart DEF ShipmentInv

\* A carrier is asked, and answers, or its answer is lost.
LEMMA AskStep ==
  ASSUME ShipmentsAssumption, ShipmentInv, NEW p \in Parcels,
         \/ AllocateShipment(p) \/ CreateReversePickup(p) \/ CarrierBooks(p)
         \/ CarrierRefuses(p) \/ AnswerLost(p) \/ LoseBooking(p)
  PROVE  ShipmentInv'
  <1>1. PICK b \in BookingRecord : b = booking[p]
    BY DEF ShipmentInv, ShipmentShapes, BookingRecord
  <1>2. PICK held \in SUBSET Carriers : held = booked[p]
    BY DEF ShipmentInv, ShipmentShapes
  <1>3. /\ booking \in [Parcels -> BookingRecord] /\ booked \in [Parcels -> SUBSET Carriers]
        /\ Booked(p) /\ b.left \in Seq(Carriers) /\ b.at \in {"idle", "calling", "booked"}
    BY <1>1 DEF ShipmentInv, ShipmentShapes, BookingRecord
  <1>4. /\ b.at # "idle" => b.left # <<>> /\ ~Present(p)
        /\ b.at = "booked" => Head(b.left) \in held
        /\ p \notin mishap => held = IF Present(p) THEN {shipment[p].carrier}
                                    ELSE IF b.at = "booked" THEN {Head(b.left)} ELSE {}
    BY <1>1, <1>2, <1>3 DEF Booked, Asked
  <1>5. booked = [booked EXCEPT ![p] = held]
    BY <1>2, <1>3
  <1>6. b.left # <<>> => Head(b.left) \in Carriers /\ Tail(b.left) \in Seq(Carriers)
    BY <1>3
  <1>7. ASSUME NEW ranking \in Seq(Carriers), ranking # <<>>, StartBooking(p, ranking) PROVE ShipmentInv'
    <2> DEFINE x == [at |-> "calling", left |-> ranking]
    <2>1. /\ b.at = "idle" /\ ~Present(p) /\ booking' = [booking EXCEPT ![p] = x]
          /\ UNCHANGED <<shipment, scans, booked, mishap, trackingVars>>
      BY <1>1, <1>7 DEF StartBooking
    <2>2. x \in BookingRecord /\ x.at = "calling" /\ x.left = ranking
      BY DEF BookingRecord
    <2> HIDE DEF x
    <2>3. booked' = [booked EXCEPT ![p] = held]
      BY <1>5, <2>1
    <2> QED
      BY <1>4, <1>7, <2>1, <2>2, <2>3, BookingCallStep
  <1>8. CASE AllocateShipment(p)
    <2>1. PICK ranking \in Rankings : StartBooking(p, ranking)
      BY <1>8 DEF AllocateShipment
    <2>2. ranking \in Seq(Carriers) /\ ranking # <<>>
      BY DEF ShipmentsAssumption
    <2> QED
      BY <1>7, <2>1, <2>2
  <1>9. CASE CreateReversePickup(p)
    <2>1. /\ Present(OriginalOf[p]) /\ OriginalOf[p] \in Parcels
          /\ StartBooking(p, <<shipment[OriginalOf[p]].carrier>>)
      BY <1>9 DEF CreateReversePickup, ShipmentsAssumption
    <2>2. PICK c \in Carriers : c = shipment[OriginalOf[p]].carrier
      BY <2>1, ShipmentRecord
    <2>3. <<c>> \in Seq(Carriers) /\ <<c>> # <<>>
      OBVIOUS
    <2> QED
      BY <1>7, <2>1, <2>2, <2>3
  <1>10. CASE CarrierBooks(p)
    <2> DEFINE x == [b EXCEPT !.at = "booked"]
               more == held \cup {Head(b.left)}
    <2>1. /\ b.at = "calling" /\ booking' = [booking EXCEPT ![p] = x]
          /\ booked' = [booked EXCEPT ![p] = more]
          /\ UNCHANGED <<shipment, scans, mishap, trackingVars>>
      BY <1>1, <1>2, <1>3, <1>10 DEF CarrierBooks, Asked
    <2>2. x \in BookingRecord /\ x.at = "booked" /\ x.left = b.left
      BY DEF BookingRecord
    <2>3. more \in SUBSET Carriers /\ Head(b.left) \in more
      BY <1>4, <1>6, <2>1
    <2>4. ~Present(p) /\ (p \notin mishap => more = {Head(b.left)})
      BY <1>4, <2>1
    <2> HIDE DEF x, more
    <2> QED
      BY <1>4, <2>1, <2>2, <2>3, <2>4, BookingCallStep
  <1>11. ASSUME b.at = "calling", FallBack(p), NEW more \in SUBSET Carriers,
                booked' = [booked EXCEPT ![p] = more], p \notin mishap' => more = held,
                UNCHANGED <<shipment, scans, trackingVars>>,
                \A q \in Parcels : q # p => (q \in mishap' <=> q \in mishap),
                p \in mishap => p \in mishap'
         PROVE  ShipmentInv'
    <2>1. b.left # <<>> /\ ~Present(p) /\ (p \notin mishap' => more = {})
      BY <1>4, <1>11
    <2>2. CASE Len(b.left) = 1
      <3> DEFINE x == [at |-> "idle", left |-> <<>>]
      <3>1. booking' = [booking EXCEPT ![p] = x]
        BY <1>1, <1>11, <2>2 DEF FallBack
      <3>2. x \in BookingRecord /\ x.at = "idle"
        BY DEF BookingRecord
      <3> HIDE DEF x
      <3> QED
        BY <1>11, <2>1, <3>1, <3>2, BookingCallStep
    <2>3. CASE Len(b.left) # 1
      <3> DEFINE x == [b EXCEPT !.left = Tail(b.left)]
      <3>1. booking' = [booking EXCEPT ![p] = x]
        BY <1>1, <1>3, <1>11, <2>3 DEF FallBack
      <3>2. x \in BookingRecord /\ x.at = "calling" /\ x.left = Tail(b.left)
        BY <1>6, <1>11, <2>1 DEF BookingRecord
      <3>3. Tail(b.left) # <<>>
        <4>1. Len(Tail(b.left)) = Len(b.left) - 1
          BY <1>3, <2>1, HeadTailProperties
        <4>2. Len(b.left) \in Nat /\ Len(b.left) # 0
          BY <1>3, <2>1
        <4>3. Len(Tail(b.left)) # 0
          BY <2>3, <4>1, <4>2
        <4>4. Len(<<>>) = 0
          OBVIOUS
        <4> QED
          BY <4>3, <4>4
      <3> HIDE DEF x
      <3> QED
        BY <1>11, <2>1, <3>1, <3>2, <3>3, BookingCallStep
    <2> QED
      BY <2>2, <2>3
  <1>12. CASE CarrierRefuses(p)
    <2>1. /\ b.at = "calling" /\ FallBack(p)
          /\ UNCHANGED <<shipment, scans, booked, mishap, trackingVars>>
      BY <1>1, <1>12 DEF CarrierRefuses
    <2>2. booked' = [booked EXCEPT ![p] = held]
      BY <1>5, <2>1
    <2> QED
      BY <1>11, <2>1, <2>2
  <1>13. CASE AnswerLost(p)
    <2> DEFINE more == held \cup {Head(b.left)}
    <2>1. /\ b.at = "calling" /\ FallBack(p) /\ booked' = [booked EXCEPT ![p] = more]
          /\ mishap' = mishap \cup {p} /\ UNCHANGED <<shipment, scans, trackingVars>>
      BY <1>1, <1>2, <1>3, <1>13 DEF AnswerLost, Asked
    <2>2. more \in SUBSET Carriers
      BY <1>4, <1>6, <2>1
    <2> HIDE DEF more
    <2> QED
      BY <1>11, <2>1, <2>2
  <1>14. CASE LoseBooking(p)
    <2> DEFINE x == [at |-> "idle", left |-> <<>>]
    <2>1. /\ b.at = "booked" /\ booking' = [booking EXCEPT ![p] = x] /\ mishap' = mishap \cup {p}
          /\ UNCHANGED <<shipment, scans, booked, trackingVars>>
      BY <1>1, <1>14 DEF LoseBooking
    <2>2. x \in BookingRecord /\ x.at = "idle"
      BY DEF BookingRecord
    <2>3. booked' = [booked EXCEPT ![p] = held]
      BY <1>5, <2>1
    <2> HIDE DEF x
    <2> QED
      BY <1>2, <1>4, <2>1, <2>2, <2>3, BookingCallStep
  <1> QED
    BY <1>8, <1>9, <1>10, <1>12, <1>13, <1>14

\* The row of a booked parcel is committed: its carrier is the one that booked.
LEMMA CommitShipmentStep ==
  ASSUME ShipmentInv, NEW p \in Parcels, CommitShipment(p)
  PROVE  ShipmentInv'
  <1>1. PICK b \in BookingRecord : b = booking[p]
    BY DEF ShipmentInv, ShipmentShapes, BookingRecord
  <1> DEFINE idle == [at |-> "idle", left |-> <<>>]
             kept == [status |-> "created", carrier |-> Head(b.left)]
  <1>2. /\ b.at = "booked" /\ shipment' = [shipment EXCEPT ![p] = kept]
        /\ booking' = [booking EXCEPT ![p] = idle]
        /\ UNCHANGED <<scans, booked, mishap, tracking, events, told, crossed, misheard>>
    BY <1>1 DEF CommitShipment, Asked, trackingVars
  <1>3. /\ booking \in [Parcels -> BookingRecord] /\ shipment \in [Parcels -> {NoShipment} \cup ShipmentRow]
        /\ Booked(p) /\ Tracked(p) /\ ToldIs(p) /\ booked[p] \in SUBSET Carriers
        /\ scans[p] \in Seq(Scan)
    BY DEF ShipmentInv, ShipmentShapes, BookingRecord
  <1>4. ~Present(p) /\ b.left # <<>> /\ Head(b.left) \in booked[p] /\ scans[p] = <<>>
    BY <1>1, <1>2, <1>3 DEF Booked, Asked, Tracked
  <1>5. kept \in ShipmentRow /\ kept.status = "created" /\ kept.carrier = Head(b.left)
    BY <1>3, <1>4 DEF ShipmentRow, ShipmentStatus
  <1>6. idle \in BookingRecord /\ idle.at = "idle"
    BY DEF BookingRecord
  <1> HIDE DEF kept, idle
  <1>7. /\ shipment' \in [Parcels -> {NoShipment} \cup ShipmentRow] /\ booking' \in [Parcels -> BookingRecord]
        /\ shipment'[p] = kept /\ booking'[p] = idle
        /\ \A q \in Parcels : q # p => shipment'[q] = shipment[q] /\ booking'[q] = booking[q]
    BY <1>2, <1>3, <1>5, <1>6
  <1>8. ShipmentShapes'
    BY <1>2, <1>7 DEF ShipmentInv, ShipmentShapes, BookingRecord
  <1>9. /\ Present(p)'
        /\ \A q \in Parcels : q # p => (Present(q)' <=> Present(q))
    BY <1>5, <1>7 DEF Present
  <1>10. \A q \in Parcels : Stored(q)' = Stored(q)
    BY <1>2 DEF Stored
  <1>11. Stored(p) = {}
    BY <1>4 DEF Stored
  <1>12. ASSUME NEW q \in Parcels PROVE Booked(q)' /\ Tracked(q)'
    <2>1. Booked(q) /\ Tracked(q)
      BY DEF ShipmentInv
    <2>2. CASE q # p
      <3>1. Asked(q)' = Asked(q)
        BY <1>7, <2>2 DEF Asked
      <3>2. Booked(q)'
        BY <1>2, <1>7, <1>9, <2>1, <2>2, <3>1 DEF Booked
      <3>3. Tracked(q)'
        BY <1>2, <1>7, <1>9, <1>10, <2>1, <2>2 DEF Tracked, Increasing, StatusIsScanned, LatestWins
      <3> QED
        BY <3>2, <3>3
    <2>3. CASE q = p
      <3>1. p \notin mishap => booked[p] = {Head(b.left)}
        BY <1>1, <1>2, <1>3, <1>4 DEF Booked, Asked
      <3>2. Booked(p)'
        BY <1>2, <1>4, <1>5, <1>6, <1>7, <1>9, <3>1 DEF Booked
      <3>3. StatusIsScanned(p)'
        BY <1>5, <1>7 DEF StatusIsScanned
      <3>4. LatestWins(p)'
        BY <1>2, <1>3, <1>10, <1>11 DEF LatestWins, Tracked
      <3>5. Tracked(p)'
        BY <1>2, <1>3, <1>4, <1>9, <1>10, <3>3, <3>4 DEF Tracked, Increasing
      <3> QED
        BY <2>3, <3>2, <3>5
    <2> QED
      BY <2>2, <2>3
  <1>13. ASSUME NEW t \in Trackers
         PROVE  /\ ~On(tracking[t], p) /\ ~Writes(tracking[t], p) /\ Follows(tracking[t])'
                /\ \A q \in Parcels : On(tracking[t], q)' = On(tracking[t], q)
                                    /\ Writes(tracking[t], q)' = Writes(tracking[t], q)
                /\ NewStatus(tracking[t])' = NewStatus(tracking[t])
    <2>1. ~On(tracking[t], p) /\ ~Writes(tracking[t], p)
      BY <1>4, TrackerFacts DEF On, Writes
    <2>2. Follows(tracking[t])'
      <3>1. CASE tracking[t].at = "idle"
        BY <1>2, <3>1 DEF Follows
      <3>2. CASE tracking[t].at # "idle"
        <4>1. PICK q \in Parcels : q = tracking[t].parcel /\ q # p
          BY <2>1, <3>2, TrackerFacts DEF On
        <4>2. Follows(tracking[t])
          BY TrackerFacts
        <4>3. StoredTimes(q)' = StoredTimes(q)
          BY <1>2 DEF StoredTimes
        <4> QED
          BY <1>2, <1>7, <1>9, <1>10, <4>1, <4>2, <4>3 DEF Follows
      <3> QED
        BY <3>1, <3>2
    <2>3. /\ \A q \in Parcels : On(tracking[t], q)' = On(tracking[t], q)
                              /\ Writes(tracking[t], q)' = Writes(tracking[t], q)
          /\ NewStatus(tracking[t])' = NewStatus(tracking[t])
      BY <1>2 DEF On, Writes, NewStatus
    <2> QED
      BY <2>1, <2>2, <2>3
  <1>14. ASSUME NEW q \in Parcels PROVE CalledAlone(q)' /\ ToldIs(q)'
    <2>1. CalledAlone(q) /\ ToldIs(q)
      BY DEF ShipmentInv
    <2>2. CalledAlone(q)'
      BY <1>2, <1>13, <2>1 DEF CalledAlone
    <2>3. CASE q # p
      BY <1>2, <1>7, <1>9, <1>13, <2>1, <2>2, <2>3 DEF ToldIs
    <2>4. CASE q = p
      <3>1. p \notin misheard => told[p] = "created"
        BY <1>3, <1>4, <1>13 DEF ToldIs
      <3>2. ToldIs(p)'
        BY <1>2, <1>5, <1>7, <1>9, <1>13, <3>1 DEF ToldIs
      <3> QED
        BY <2>2, <2>4, <3>2
    <2> QED
      BY <2>3, <2>4
  <1> QED
    BY <1>8, <1>12, <1>13, <1>14 DEF ShipmentInv

-----------------------------------------------------------------------------
\* The carrier scans a parcel once more, and nobody has read that scan yet.
LEMMA ScanParcelStep ==
  ASSUME ShipmentsAssumption, ShipmentInv, NEW p \in Parcels, ScanParcel(p)
  PROVE  ShipmentInv'
  <1>1. /\ Present(p) /\ Len(scans[p]) < MaxScans[p]
        /\ UNCHANGED <<shipment, booking, booked, mishap, tracking, events, told, crossed, misheard>>
    BY DEF ScanParcel, bookingVars, trackingVars
  <1>2. PICK s \in ScanStatus, step \in {0, 1} :
          /\ scans' = [scans EXCEPT ![p] = Append(scans[p], [status |-> s, time |-> StampOf(p) + step])]
          /\ p \notin Coarse => step = 1
    BY DEF ScanParcel
  <1>3. PICK old \in Seq(Scan) : old = scans[p]
    BY DEF ShipmentInv, ShipmentShapes
  <1>4. Tracked(p) /\ scans \in [Parcels -> Seq(Scan)] /\ MaxScans[p] \in Nat
    BY DEF ShipmentInv, ShipmentShapes, ShipmentsAssumption
  <1>5. DOMAIN old = 1..Len(old) /\ Len(old) \in Nat
    BY <1>3
  <1>6. StampOf(p) \in Nat /\ (old # <<>> => StampOf(p) = old[Len(old)].time /\ Len(old) \in DOMAIN old)
    <2>1. CASE old = <<>>
      BY <1>3, <2>1 DEF StampOf
    <2>2. CASE old # <<>>
      <3>1. Last(old) = old[Len(old)] /\ Len(old) \in DOMAIN old
        BY <1>5, <2>2 DEF Last
      <3>2. old[Len(old)] \in Scan
        BY <1>5, <3>1
      <3> QED
        BY <1>3, <2>2, <3>1, <3>2 DEF StampOf, Scan
    <2> QED
      BY <2>1, <2>2
  <1> DEFINE x == [status |-> s, time |-> StampOf(p) + step]
             seen == Append(old, x)
  <1>7. x \in Scan /\ x.time = StampOf(p) + step
    BY <1>6 DEF Scan
  <1>8. scans' = [scans EXCEPT ![p] = Append(old, x)]
    BY <1>2, <1>3
  <1> HIDE DEF x
  <1>9. /\ seen \in Seq(Scan) /\ Len(seen) = Len(old) + 1 /\ DOMAIN seen = 1..(Len(old) + 1)
        /\ \A i \in 1..Len(old) : seen[i] = old[i]
        /\ seen[Len(old) + 1] = x
    BY <1>5, <1>7
  <1>10. /\ scans'[p] = seen /\ \A q \in Parcels : q # p => scans'[q] = scans[q]
         /\ scans' \in [Parcels -> Seq(Scan)]
    BY <1>4, <1>8, <1>9
  <1> HIDE DEF seen
  <1>11. Len(old) + 1 <= MaxScans[p] /\ events[p][Len(old) + 1] = 0
    BY <1>1, <1>3, <1>4, <1>5 DEF Tracked
  <1>12. \A i \in DOMAIN seen : events[p][i] > 0 => i \in DOMAIN old
    BY <1>5, <1>9, <1>11
  <1>13. \A q \in Parcels : Present(q)' = Present(q)
    BY <1>1 DEF Present
  <1>14. ASSUME NEW q \in Parcels PROVE Stored(q)' = Stored(q) /\ StoredTimes(q)' = StoredTimes(q)
    <2>1. CASE q = p
      <3>1. Stored(p)' = {i \in DOMAIN seen : events[p][i] > 0} /\ Stored(p) = {i \in DOMAIN old : events[p][i] > 0}
        BY <1>1, <1>3, <1>10 DEF Stored
      <3>2. Stored(p)' = Stored(p)
        BY <1>5, <1>9, <1>12, <3>1
      <3>3. /\ StoredTimes(p)' = {seen[i].time : i \in Stored(p)'}
            /\ StoredTimes(p) = {old[i].time : i \in Stored(p)}
        BY <1>1, <1>3, <1>10 DEF StoredTimes, Stored
      <3>4. \A i \in Stored(p) : seen[i] = old[i]
        BY <1>5, <1>9, <3>1
      <3> QED
        BY <2>1, <3>2, <3>3, <3>4
    <2>2. CASE q # p
      BY <1>1, <1>10, <2>2 DEF Stored, StoredTimes
    <2> QED
      BY <2>1, <2>2
  <1>15. ASSUME NEW q \in Parcels, NEW i \in DOMAIN scans[q]
         PROVE  i \in DOMAIN scans'[q] /\ scans'[q][i] = scans[q][i]
    <2>1. CASE q = p
      <3>1. i \in 1..Len(old)
        BY <1>3, <1>5, <2>1
      <3> QED
        BY <1>3, <1>5, <1>9, <1>10, <2>1, <3>1
    <2>2. CASE q # p
      BY <1>10, <2>2
    <2> QED
      BY <2>1, <2>2
  <1>16. ASSUME NEW q \in Parcels PROVE Booked(q)'
    <2>1. Booked(q)
      BY DEF ShipmentInv
    <2> QED
      BY <1>1, <1>13, <2>1 DEF Booked, Asked
  <1>17. Increasing(p)' \/ p \in Coarse
    <2>1. CASE p \notin Coarse
      <3>1. ASSUME NEW i \in DOMAIN seen, NEW j \in DOMAIN seen, i < j PROVE seen[i].time < seen[j].time
        <4>1. i \in 1..Len(old) /\ seen[i] = old[i] /\ old[i] \in Scan
          BY <1>5, <1>9, <3>1
        <4>2. CASE j \in 1..Len(old)
          <5>1. Increasing(p)
            BY <1>4, <2>1 DEF Tracked
          <5> QED
            BY <1>3, <1>5, <1>9, <3>1, <4>1, <4>2, <5>1 DEF Increasing
        <4>3. CASE j = Len(old) + 1
          <5>1. old # <<>>
            BY <1>5, <4>1
          <5>2. old[i].time <= old[Len(old)].time
            <6>1. CASE i = Len(old)
              BY <4>1, <6>1 DEF Scan
            <6>2. CASE i # Len(old)
              <7>1. i < Len(old) /\ i \in DOMAIN scans[p] /\ Len(old) \in DOMAIN scans[p] /\ Increasing(p)
                BY <1>3, <1>4, <1>5, <1>6, <2>1, <4>1, <5>1, <6>2 DEF Tracked
              <7>2. old[i].time < old[Len(old)].time
                BY <1>3, <7>1 DEF Increasing
              <7>3. old[Len(old)] \in Scan
                BY <1>5, <1>6, <5>1
              <7> QED
                BY <4>1, <7>2, <7>3 DEF Scan
            <6> QED
              BY <6>1, <6>2
          <5>3. seen[j].time = old[Len(old)].time + 1 /\ old[Len(old)].time \in Nat
            BY <1>2, <1>6, <1>7, <1>9, <2>1, <4>3, <5>1
          <5>4. old[i].time \in Nat
            BY <4>1 DEF Scan
          <5> QED
            BY <4>1, <5>2, <5>3, <5>4
        <4> QED
          BY <1>5, <1>9, <4>2, <4>3
      <3> QED
        BY <1>10, <3>1 DEF Increasing
    <2> QED
      BY <2>1
  <1>18. ASSUME NEW q \in Parcels PROVE Tracked(q)'
    <2>1. Tracked(q) /\ Stored(q) \subseteq DOMAIN scans[q]
      BY DEF ShipmentInv, Stored
    <2>2. StatusIsScanned(q)'
      BY <1>1, <1>13, <1>14, <1>15, <2>1 DEF Tracked, StatusIsScanned
    <2>3. LatestWins(q)'
      <3>1. CASE q \notin crossed \cup Coarse /\ Stored(q) # {}
        <4>1. Max(Stored(q)) \in Stored(q)
          <5>1. PICK n \in Nat : DOMAIN scans[q] = 1..n
            BY <1>4
          <5>2. DOMAIN scans[q] = 1..n
            BY <5>1
          <5>3. IsFiniteSet(1..n)
            BY FS_Interval
          <5>4. IsFiniteSet(Stored(q)) /\ \A i \in Stored(q) : i \in Int
            BY <2>1, <5>2, <5>3, FS_Subset
          <5> QED
            BY <3>1, <5>4, MaxIsGreatest
        <4>2. PICK m \in Stored(q) : m = Max(Stored(q))
          BY <4>1
        <4>3. scans'[q][m] = scans[q][m]
          BY <1>15, <2>1
        <4>4. Max(Stored(q))' = m
          BY <1>14, <4>2
        <4> QED
          BY <1>1, <1>14, <2>1, <3>1, <4>2, <4>3, <4>4 DEF Tracked, LatestWins
      <3>2. CASE ~(q \notin crossed \cup Coarse /\ Stored(q) # {})
        BY <1>1, <1>14, <2>1, <3>2 DEF Tracked, LatestWins
      <3> QED
        BY <3>1, <3>2
    <2>4. CASE q = p
      <3>1. Present(p)' /\ Len(scans'[p]) <= MaxScans[p]
        BY <1>1, <1>9, <1>10, <1>11, <1>13
      <3>2. \A i \in 1..MaxScans[p] : i > Len(scans'[p]) => events[p][i] = 0
        BY <1>3, <1>4, <1>5, <1>9, <1>10 DEF Tracked
      <3>3. p \notin crossed \cup Coarse => Closed(Stored(p))'
        BY <1>4, <1>14 DEF Tracked, Closed
      <3> QED
        BY <1>1, <1>17, <2>2, <2>3, <2>4, <3>1, <3>2, <3>3 DEF Tracked
    <2>5. CASE q # p
      <3>1. scans'[q] = scans[q] /\ Increasing(q)' = Increasing(q)
        BY <1>10, <2>5 DEF Increasing
      <3>2. Closed(Stored(q))' = Closed(Stored(q))
        BY <1>14 DEF Closed
      <3> QED
        BY <1>1, <1>13, <2>1, <2>2, <2>3, <3>1, <3>2 DEF Tracked
    <2> QED
      BY <2>4, <2>5
  <1>19. ASSUME NEW t \in Trackers
         PROVE  /\ Follows(tracking[t])'
                /\ tracking[t].at = "flushed" => NewStatus(tracking[t])' = NewStatus(tracking[t])
    <2>1. PICK x0 \in Followings : x0 = tracking[t] /\ Follows(x0)
      BY TrackerFacts
    <2>2. tracking'[t] = x0
      BY <1>1, <2>1
    <2>3. CASE x0.at = "idle"
      BY <2>1, <2>2, <2>3 DEF Follows
    <2>4. CASE x0.at # "idle"
      <3>1. PICK q \in Parcels : q = x0.parcel
        BY <2>4, FollowingRecord
      <3>2. x0.at \in {"fetched", "flushed"} => NewStatus(x0)' = NewStatus(x0)
        <4> SUFFICES ASSUME x0.at \in {"fetched", "flushed"} PROVE NewStatus(x0)' = NewStatus(x0)
          OBVIOUS
        <4>1. NewestOf(x0.new) \in DOMAIN scans[q]
          BY <2>1, <3>1, NewestScan
        <4>2. PICK m \in DOMAIN scans[q] : m = NewestOf(x0.new)
          BY <4>1
        <4>3. scans'[q][m] = scans[q][m]
          BY <1>15
        <4> QED
          BY <3>1, <4>2, <4>3 DEF NewStatus
      <3>3. DOMAIN scans[q] \subseteq DOMAIN scans'[q]
        BY <1>15
      <3>4. Follows(x0)'
        BY <1>1, <1>13, <1>14, <2>1, <3>1, <3>3 DEF Follows, Closed
      <3> QED
        BY <2>1, <2>2, <2>4, <3>2, <3>4 DEF Follows, NewStatus
    <2> QED
      BY <2>3, <2>4
  <1>20. ASSUME NEW q \in Parcels PROVE CalledAlone(q)' /\ ToldIs(q)'
    <2>1. CalledAlone(q) /\ ToldIs(q)
      BY DEF ShipmentInv
    <2>2. \A t \in Trackers : On(tracking[t], q)' = On(tracking[t], q)
      BY <1>1 DEF On
    <2>3. \A t \in Trackers : Writes(tracking[t], q)' = Writes(tracking[t], q)
      BY <1>1, <1>19 DEF Writes
    <2>4. \A t \in Trackers : Writes(tracking[t], q) => NewStatus(tracking[t])' = NewStatus(tracking[t])
      BY <1>1, <1>19 DEF Writes
    <2>5. CalledAlone(q)'
      BY <1>1, <2>1, <2>2, <2>3 DEF CalledAlone
    <2>6. ToldIs(q)'
      BY <1>1, <1>13, <2>1, <2>3, <2>4 DEF ToldIs
    <2> QED
      BY <2>5, <2>6
  <1>21. ShipmentShapes'
    BY <1>1, <1>10 DEF ShipmentInv, ShipmentShapes
  <1> QED
    BY <1>16, <1>18, <1>19, <1>20, <1>21 DEF ShipmentInv

-----------------------------------------------------------------------------
\* A call that follows a parcel goes on, and commits nothing yet.
LEMMA TrackerStep ==
  ASSUME ShipmentInv, NEW t \in Trackers, NEW x \in Followings, Follows(x),
         tracking' = [tracking EXCEPT ![t] = x],
         UNCHANGED <<shipment, scans, booking, booked, mishap, events>>,
         told' \in [Parcels -> ShipmentStatus], crossed \subseteq crossed',
         \A p \in Parcels : p \notin crossed' /\ On(x, p) =>
           \A u \in Trackers : On(tracking[u], p) => u = t,
         \A p \in Parcels : Writes(x, p) => \A u \in Trackers : Writes(tracking[u], p) => u = t,
         \A p \in Parcels : \/ p \in misheard'
                            \/ Writes(x, p) /\ told'[p] = NewStatus(x)
                            \/ /\ p \notin misheard /\ told'[p] = told[p]
                               /\ ~Writes(x, p) /\ ~Writes(tracking[t], p)
  PROVE  ShipmentInv'
  <1>1. /\ tracking'[t] = x /\ tracking' \in [Trackers -> Followings]
        /\ \A u \in Trackers : u # t => tracking'[u] = tracking[u]
    BY DEF ShipmentInv, ShipmentShapes
  <1>2. ShipmentShapes'
    BY <1>1 DEF ShipmentInv, ShipmentShapes
  <1>3. ASSUME NEW p \in Parcels
        PROVE  /\ Present(p)' = Present(p) /\ Stored(p)' = Stored(p) /\ StoredTimes(p)' = StoredTimes(p)
               /\ Increasing(p)' = Increasing(p) /\ Closed(Stored(p))' = Closed(Stored(p))
               /\ StatusIsScanned(p)' = StatusIsScanned(p) /\ Asked(p)' = Asked(p)
    <2>1. Present(p)' = Present(p) /\ Stored(p)' = Stored(p)
      BY DEF Present, Stored
    <2> QED
      BY <2>1 DEF StoredTimes, Increasing, Closed, StatusIsScanned, Asked
  <1>4. ASSUME NEW p \in Parcels PROVE Booked(p)' /\ Tracked(p)'
    <2>1. Booked(p) /\ Tracked(p)
      BY DEF ShipmentInv
    <2>2. Booked(p)'
      BY <1>3, <2>1 DEF Booked
    <2>3. LatestWins(p)'
      BY <1>3, <2>1 DEF Tracked, LatestWins
    <2>4. Tracked(p)'
      BY <1>3, <2>1, <2>3 DEF Tracked
    <2> QED
      BY <2>2, <2>4
  <1>5. ASSUME NEW u \in Trackers PROVE Follows(tracking[u])'
    <2>1. PICK y \in Followings : y = tracking'[u] /\ Follows(y)
      BY <1>1, TrackerFacts
    <2>2. CASE y.at = "idle"
      BY <2>1, <2>2 DEF Follows
    <2>3. CASE y.at # "idle"
      <3>1. PICK q \in Parcels : q = y.parcel
        BY <2>3, FollowingRecord
      <3>2. Follows(y)'
        BY <1>3, <2>1, <3>1 DEF Follows, Closed
      <3> QED
        BY <2>1, <3>2 DEF Follows
    <2> QED
      BY <2>2, <2>3
  <1>6. ASSUME NEW p \in Parcels PROVE CalledAlone(p)' /\ ToldIs(p)'
    <2>1. CalledAlone(p) /\ ToldIs(p)
      BY DEF ShipmentInv
    <2>2. \A u \in Trackers : (On(tracking[u], p)' <=> IF u = t THEN On(x, p) ELSE On(tracking[u], p))
      BY <1>1 DEF On
    <2>3. \A u \in Trackers :
            (Writes(tracking[u], p)' <=> IF u = t THEN Writes(x, p) ELSE Writes(tracking[u], p))
      BY <1>1 DEF Writes, NewStatus
    <2>4. \A u \in Trackers :
            NewStatus(tracking[u])' = IF u = t THEN NewStatus(x) ELSE NewStatus(tracking[u])
      BY <1>1 DEF NewStatus
    <2>5. CalledAlone(p)'
      <3>1. p \notin crossed' => \A v, u \in Trackers : On(tracking[v], p)' /\ On(tracking[u], p)' => v = u
        BY <2>1, <2>2 DEF CalledAlone
      <3>2. \A v, u \in Trackers : Writes(tracking[v], p)' /\ Writes(tracking[u], p)' => v = u
        BY <2>1, <2>3 DEF CalledAlone
      <3> QED
        BY <3>1, <3>2 DEF CalledAlone, On, Writes, NewStatus
    <2>6. ToldIs(p)'
      <3>1. CASE p \in misheard'
        BY <3>1 DEF ToldIs
      <3>2. CASE Writes(x, p) /\ told'[p] = NewStatus(x)
        <4>1. \A u \in Trackers : Writes(tracking[u], p)' => u = t
          BY <2>3, <3>2
        <4>2. Writes(tracking[t], p)'
          BY <2>3, <3>2
        <4> QED
          BY <2>4, <3>2, <4>1, <4>2 DEF ToldIs, Writes, NewStatus
      <3>3. CASE /\ p \notin misheard /\ told'[p] = told[p]
                 /\ ~Writes(x, p) /\ ~Writes(tracking[t], p)
        <4>1. \A u \in Trackers : (Writes(tracking[u], p)' <=> Writes(tracking[u], p))
          BY <2>3, <3>3
        <4>2. \A u \in Trackers : Writes(tracking[u], p) => NewStatus(tracking[u])' = NewStatus(tracking[u])
          BY <2>4, <3>3
        <4>3. p \notin misheard' =>
                \A u \in Trackers : Writes(tracking[u], p)' => told'[p] = NewStatus(tracking[u])'
          BY <2>1, <3>3, <4>1, <4>2 DEF ToldIs
        <4>4. /\ p \notin misheard
              /\ (\A u \in Trackers : ~Writes(tracking[u], p)') =>
                   told[p] = IF Present(p) THEN shipment[p].status ELSE "created"
          BY <2>1, <3>3, <4>1 DEF ToldIs
        <4>5. (\A u \in Trackers : ~Writes(tracking[u], p)') =>
                told'[p] = IF Present(p)' THEN shipment'[p].status ELSE "created"
          BY <1>3, <3>3, <4>4
        <4> QED
          BY <4>3, <4>5 DEF ToldIs
      <3> QED
        BY <3>1, <3>2, <3>3
    <2> QED
      BY <2>5, <2>6
  <1> QED
    BY <1>2, <1>4, <1>5, <1>6 DEF ShipmentInv

\* A parcel is loaded with its checkpoints.
LEMMA BeginTrackingStep ==
  ASSUME ShipmentInv, NEW t \in Trackers, NEW p \in Parcels, BeginTracking(t, p)
  PROVE  ShipmentInv'
  <1> DEFINE x == [at |-> "loaded", parcel |-> p, status |-> shipment[p].status, known |-> StoredTimes(p)]
  <1>1. /\ tracking[t].at = "idle" /\ Present(p) /\ tracking' = [tracking EXCEPT ![t] = x]
        /\ crossed' = IF \E u \in Trackers : Following(u, p) THEN crossed \cup {p} ELSE crossed
        /\ UNCHANGED <<shipment, scans, booking, booked, mishap, events, told, misheard>>
    BY DEF BeginTracking, bookingVars
  <1>2. StoredTimes(p) \subseteq Nat
    <2>1. scans[p] \in Seq(Scan)
      BY DEF ShipmentInv, ShipmentShapes
    <2>2. \A i \in DOMAIN scans[p] : scans[p][i] \in Scan
      BY <2>1
    <2>3. \A y \in Scan : y.time \in Nat
      BY DEF Scan
    <2> QED
      BY <2>2, <2>3 DEF StoredTimes
  <1>3. x \in Followings /\ x.at = "loaded" /\ x.parcel = p /\ x.status = shipment[p].status
        /\ x.known = StoredTimes(p)
    BY <1>1, <1>2, ShipmentRecord DEF Followings, Loaded
  <1> HIDE DEF x
  <1>4. Follows(x)
    BY <1>1, <1>3 DEF Follows
  <1>5. ASSUME NEW q \in Parcels, q \notin crossed', On(x, q), NEW u \in Trackers, On(tracking[u], q)
        PROVE  u = t
    BY <1>1, <1>3, <1>5 DEF On, Following
  <1>6. \A q \in Parcels : ~Writes(x, q) /\ ~Writes(tracking[t], q)
    BY <1>1, <1>3 DEF Writes
  <1>7. told' \in [Parcels -> ShipmentStatus] /\ crossed \subseteq crossed'
    BY <1>1 DEF ShipmentInv, ShipmentShapes
  <1>8. \A q \in Parcels : q \in misheard' \/ (q \notin misheard /\ told'[q] = told[q])
    BY <1>1
  <1> QED
    BY <1>1, <1>3, <1>4, <1>5, <1>6, <1>7, <1>8, TrackerStep

\* The scans that a stored one has no time of: none of them is stored, and
\* with the stored ones they are all the scans.
LEMMA FetchTrackingStep ==
  ASSUME ShipmentInv, NEW t \in Trackers, FetchTracking(t)
  PROVE  ShipmentInv'
  <1>1. PICK z \in Followings : z = tracking[t] /\ Follows(z)
    BY TrackerFacts
  <1>2. z.at = "loaded" /\ UNCHANGED <<shipment, scans, booking, booked, mishap, events, told, crossed, misheard>>
    BY <1>1 DEF FetchTracking, bookingVars
  <1>3. z \in Loaded /\ z.parcel \in Parcels /\ z.status \in ShipmentStatus
    BY <1>1, <1>2, FollowingRecord
  <1>4. PICK p \in Parcels : p = z.parcel
    BY <1>3
  <1>5. PICK n \in Nat : DOMAIN scans[p] = 1..n
    <2>1. scans[p] \in Seq(Scan)
      BY DEF ShipmentInv, ShipmentShapes
    <2> QED
      BY <2>1
  <1> DEFINE new == NewScans(t)
             x == IF new = {} THEN NoTracking
                  ELSE [at |-> "fetched", parcel |-> z.parcel, status |-> z.status, new |-> new]
  <1>6. tracking' = [tracking EXCEPT ![t] = x]
    BY <1>1 DEF FetchTracking
  <1>7. new = {i \in 1..n : scans[p][i].time \notin z.known}
    BY <1>1, <1>4, <1>5 DEF NewScans, IsNew
  <1>8. new \subseteq 1..n /\ new \subseteq Nat
    BY <1>7
  <1> HIDE DEF new
  <1>9. /\ x \in Followings /\ x.at \in {"idle", "fetched"}
        /\ x.at # "idle" => x.at = "fetched" /\ new # {} /\ x.parcel = p /\ x.status = z.status /\ x.new = new
    <2>1. CASE new = {}
      BY <2>1 DEF NoTracking, Followings
    <2>2. CASE new # {}
      BY <1>3, <1>4, <1>8, <2>2 DEF Followings, Fetched
    <2> QED
      BY <2>1, <2>2
  <1> HIDE DEF x
  <1>10. Follows(x)
    <2> SUFFICES ASSUME x.at = "fetched" PROVE Follows(x)
      BY <1>9 DEF Follows
    <2>1. new # {} /\ x.parcel = p /\ x.status = z.status /\ x.new = new
      BY <1>9
    <2>2. ASSUME p \notin crossed \cup Coarse
          PROVE  /\ x.status = shipment[p].status /\ new \cap Stored(p) = {}
                 /\ Closed(Stored(p) \cup new)
      <3>1. z.status = shipment[p].status /\ z.known = StoredTimes(p) /\ Increasing(p)
        BY <1>1, <1>2, <1>4, <2>2 DEF Follows, ShipmentInv, Tracked
      <3>2. z.known = {scans[p][i].time : i \in Stored(p)} /\ Stored(p) \subseteq 1..n
        BY <1>5, <3>1 DEF StoredTimes, Stored
      <3>3. scans[p] \in Seq(Scan)
        BY DEF ShipmentInv, ShipmentShapes
      <3>4. \A i \in 1..n : scans[p][i].time \in Nat
        <4>1. \A i \in 1..n : scans[p][i] \in Scan
          BY <1>5, <3>3
        <4>2. \A y \in Scan : y.time \in Nat
          BY DEF Scan
        <4> QED
          BY <4>1, <4>2
      <3>5. \A i, j \in 1..n : scans[p][i].time = scans[p][j].time => i = j
        <4> SUFFICES ASSUME NEW i \in 1..n, NEW j \in 1..n, scans[p][i].time = scans[p][j].time
                     PROVE  i = j
          OBVIOUS
        <4>1. /\ i < j => scans[p][i].time < scans[p][j].time
              /\ j < i => scans[p][j].time < scans[p][i].time
          BY <1>5, <3>1 DEF Increasing
        <4> QED
          BY <3>4, <4>1
      <3>6. new \cap Stored(p) = {}
        BY <1>7, <3>2
      <3>7. Stored(p) \cup new = 1..n
        BY <1>7, <3>2, <3>5
      <3>8. Closed(Stored(p) \cup new)
        BY <3>7 DEF Closed
      <3> QED
        BY <2>1, <3>1, <3>6, <3>8
    <2> QED
      BY <1>1, <1>2, <1>4, <1>5, <1>8, <2>1, <2>2 DEF Follows
  <1>11. ASSUME NEW q \in Parcels, q \notin crossed', On(x, q), NEW u \in Trackers, On(tracking[u], q)
         PROVE  u = t
    <2>1. On(tracking[t], q)
      BY <1>1, <1>2, <1>4, <1>9, <1>11 DEF On
    <2> QED
      BY <1>2, <1>11, <2>1 DEF ShipmentInv, CalledAlone
  <1>12. \A q \in Parcels : ~Writes(x, q) /\ ~Writes(tracking[t], q)
    BY <1>1, <1>2, <1>9 DEF Writes
  <1>13. told' \in [Parcels -> ShipmentStatus] /\ crossed \subseteq crossed'
    BY <1>2 DEF ShipmentInv, ShipmentShapes
  <1>14. \A q \in Parcels : q \in misheard' \/ (q \notin misheard /\ told'[q] = told[q])
    BY <1>2
  <1> QED
    BY <1>2, <1>6, <1>9, <1>10, <1>11, <1>12, <1>13, <1>14, TrackerStep

\* A call ends without a commit: what it had told of is told in vain.
LEMMA LoseTrackingStep ==
  ASSUME ShipmentInv, NEW t \in Trackers, LoseTracking(t)
  PROVE  ShipmentInv'
  <1>1. PICK z \in Followings : z = tracking[t]
    BY TrackerFacts
  <1> DEFINE x == NoTracking
  <1>2. /\ z.at # "idle" /\ tracking' = [tracking EXCEPT ![t] = x]
        /\ misheard' = IF z.at = "flushed" THEN misheard \cup {z.parcel} ELSE misheard
        /\ UNCHANGED <<shipment, scans, booking, booked, mishap, events, told, crossed>>
    BY <1>1 DEF LoseTracking, bookingVars
  <1>3. x \in Followings /\ x.at = "idle"
    BY DEF Followings, NoTracking
  <1> HIDE DEF x
  <1>4. Follows(x) /\ \A p \in Parcels : ~On(x, p) /\ ~Writes(x, p)
    BY <1>3 DEF Follows, On, Writes
  <1>5. told' \in [Parcels -> ShipmentStatus] /\ crossed \subseteq crossed'
    BY <1>2 DEF ShipmentInv, ShipmentShapes
  <1>6. \A p \in Parcels : p \in misheard' \/ ~Writes(tracking[t], p)
    BY <1>1, <1>2 DEF Writes
  <1>7. \A p \in Parcels : p \in misheard' \/ (p \notin misheard /\ told'[p] = told[p])
    BY <1>2
  <1> QED
    BY <1>2, <1>3, <1>4, <1>5, <1>6, <1>7, TrackerStep

\* A call locks the row if it changes the status, and tells of that change.
LEMMA FlushAndPushStep ==
  ASSUME ShipmentInv, NEW t \in Trackers, FlushAndPush(t)
  PROVE  ShipmentInv'
  <1>1. PICK z \in Followings : z = tracking[t] /\ Follows(z)
    BY TrackerFacts
  <1>2. /\ z.at = "fetched"
        /\ UNCHANGED <<shipment, scans, booking, booked, mishap, events, crossed>>
    BY <1>1 DEF FlushAndPush, bookingVars
  <1>3. z \in Fetched /\ z.parcel \in Parcels
    BY <1>1, <1>2, FollowingRecord
  <1>4. PICK p \in Parcels : p = z.parcel
    BY <1>3
  <1>5. NewStatus(z) \in ShipmentStatus
    BY <1>1, <1>2, NewestScan DEF ShipmentStatus
  <1>6. LatestStatus(t) = NewStatus(z) /\ (StatusChanged(t) <=> NewStatus(z) # z.status)
    BY <1>1 DEF LatestStatus, StatusChanged, NewStatus
  <1>7. /\ NewStatus(z) # z.status => ~RowLocked(p)
        /\ tracking' = [tracking EXCEPT ![t].at = "flushed"]
        /\ \/ /\ told' = IF NewStatus(z) # z.status THEN [told EXCEPT ![p] = NewStatus(z)] ELSE told
              /\ misheard' = misheard
           \/ NewStatus(z) # z.status /\ misheard' = misheard \cup {p} /\ told' = told
    BY <1>1, <1>4, <1>6 DEF FlushAndPush
  <1> DEFINE x == [z EXCEPT !.at = "flushed"]
  <1>8. tracking' = [tracking EXCEPT ![t] = x]
    BY <1>1, <1>7
  <1>9. x \in Fetched /\ x.at = "flushed" /\ x.parcel = p /\ x.status = z.status /\ x.new = z.new
    BY <1>3, <1>4 DEF Fetched
  <1> HIDE DEF x
  <1>10. x \in Followings /\ Follows(x)
    BY <1>1, <1>2, <1>4, <1>9 DEF Follows, Followings
  <1>11. NewStatus(x) = NewStatus(z)
    BY <1>4, <1>9 DEF NewStatus
  <1>12. \A q \in Parcels : (Writes(x, q) <=> q = p /\ NewStatus(z) # z.status) /\ ~Writes(tracking[t], q)
    BY <1>1, <1>2, <1>9, <1>11 DEF Writes
  <1>13. ASSUME NEW q \in Parcels, q \notin crossed', On(x, q), NEW u \in Trackers, On(tracking[u], q)
         PROVE  u = t
    <2>1. On(tracking[t], q)
      BY <1>1, <1>2, <1>4, <1>9, <1>13 DEF On
    <2> QED
      BY <1>2, <1>13, <2>1 DEF ShipmentInv, CalledAlone
  <1>14. ASSUME NEW q \in Parcels, Writes(x, q), NEW u \in Trackers, Writes(tracking[u], q)
         PROVE  u = t
    <2>1. q = p /\ ~RowLocked(p)
      BY <1>7, <1>12, <1>14
    <2>2. Following(u, p) /\ tracking[u].at = "flushed" /\ StatusChanged(u)
      BY <1>14, <2>1 DEF Writes, Following, StatusChanged, LatestStatus, NewStatus
    <2> QED
      BY <2>1, <2>2 DEF RowLocked
  <1>15. told \in [Parcels -> ShipmentStatus] /\ told' \in [Parcels -> ShipmentStatus] /\ crossed \subseteq crossed'
    <2>1. told \in [Parcels -> ShipmentStatus]
      BY DEF ShipmentInv, ShipmentShapes
    <2> QED
      BY <1>2, <1>5, <1>7, <2>1
  <1>16. ASSUME NEW q \in Parcels
         PROVE  \/ q \in misheard'
                \/ Writes(x, q) /\ told'[q] = NewStatus(x)
                \/ /\ q \notin misheard /\ told'[q] = told[q]
                   /\ ~Writes(x, q) /\ ~Writes(tracking[t], q)
    BY <1>7, <1>11, <1>12, <1>15
  <1> QED
    BY <1>2, <1>8, <1>10, <1>13, <1>14, <1>15, <1>16, TrackerStep

\* A call stores what it found: its own checkpoints follow the stored ones.
LEMMA CommitTrackingStep ==
  ASSUME ShipmentsAssumption, ShipmentInv, NEW t \in Trackers, CommitTracking(t)
  PROVE  ShipmentInv'
  <1>1. PICK z \in Followings : z = tracking[t] /\ Follows(z)
    BY TrackerFacts
  <1>2. /\ z.at = "flushed" /\ tracking' = [tracking EXCEPT ![t] = NoTracking]
        /\ UNCHANGED <<scans, booking, booked, mishap, told, crossed, misheard>>
    BY <1>1 DEF CommitTracking, bookingVars
  <1>3. z \in Fetched /\ z.parcel \in Parcels /\ z.status \in ShipmentStatus
    BY <1>1, <1>2, FollowingRecord
  <1>4. PICK p \in Parcels : p = z.parcel
    BY <1>3
  <1>5. PICK new \in SUBSET Nat : new = z.new
    BY <1>3 DEF Fetched
  <1>6. PICK s \in ScanStatus : s = NewStatus(z)
    BY <1>1, <1>2, NewestScan
  <1>7. PICK n \in Nat : DOMAIN scans[p] = 1..n /\ Len(scans[p]) = n
    <2>1. scans[p] \in Seq(Scan)
      BY DEF ShipmentInv, ShipmentShapes
    <2> QED
      BY <2>1
  <1>8. PICK m \in new : m = NewestOf(new) /\ (\A i \in new : m >= i) /\ s = scans[p][m].status
    BY <1>1, <1>2, <1>4, <1>5, <1>6, NewestScan DEF NewStatus
  <1>9. new # {} /\ new \subseteq 1..n /\ Present(p)
    BY <1>1, <1>2, <1>4, <1>5, <1>7 DEF Follows
  <1>10. /\ events' = [events EXCEPT ![p] =
              [i \in 1..MaxScans[p] |-> events[p][i] + IF i \in new THEN 1 ELSE 0]]
         /\ shipment' = IF s # z.status THEN [shipment EXCEPT ![p].status = s] ELSE shipment
    <2>1. LatestStatus(t) = s /\ (StatusChanged(t) <=> s # z.status)
      BY <1>1, <1>6 DEF LatestStatus, StatusChanged, NewStatus
    <2> QED
      BY <1>1, <1>4, <1>5, <2>1 DEF CommitTracking
  <1>11. /\ tracking'[t] = NoTracking /\ tracking' \in [Trackers -> Followings]
         /\ \A u \in Trackers : u # t => tracking'[u] = tracking[u]
    BY <1>2, TrackerFacts DEF Followings
  <1>12. MaxScans[p] \in Nat /\ n <= MaxScans[p] /\ events[p] \in [1..MaxScans[p] -> Nat]
    BY <1>7 DEF ShipmentsAssumption, ShipmentInv, ShipmentShapes, Tracked
  <1>13. /\ events'[p] = [i \in 1..MaxScans[p] |-> events[p][i] + IF i \in new THEN 1 ELSE 0]
         /\ \A q \in Parcels : q # p => events'[q] = events[q]
         /\ events' = [q \in Parcels |-> events'[q]]
         /\ \A q \in Parcels : events'[q] \in [1..MaxScans[q] -> Nat]
    <2>1. events = [q \in Parcels |-> events[q]] /\ \A q \in Parcels : events[q] \in [1..MaxScans[q] -> Nat]
      BY DEF ShipmentInv, ShipmentShapes
    <2> DEFINE e == [i \in 1..MaxScans[p] |-> events[p][i] + IF i \in new THEN 1 ELSE 0]
    <2>2. e \in [1..MaxScans[p] -> Nat]
      BY <1>12
    <2>3. events' = [events EXCEPT ![p] = e]
      BY <1>10
    <2>4. e = [i \in 1..MaxScans[p] |-> events[p][i] + IF i \in new THEN 1 ELSE 0]
      OBVIOUS
    <2> HIDE DEF e
    <2>5. events'[p] = e /\ \A q \in Parcels : q # p => events'[q] = events[q]
      BY <2>1, <2>3
    <2>6. events' = [q \in Parcels |-> events'[q]]
      BY <2>1, <2>3
    <2> QED
      BY <2>1, <2>2, <2>4, <2>5, <2>6
  <1>14. PICK kept \in ShipmentRow : kept = shipment[p]
    BY <1>9, ShipmentRecord
  <1>15. shipment \in [Parcels -> {NoShipment} \cup ShipmentRow]
    BY DEF ShipmentInv, ShipmentShapes
  <1> DEFINE moved == IF s # z.status THEN [kept EXCEPT !.status = s] ELSE kept
  <1>16. shipment' = [shipment EXCEPT ![p] = moved]
    BY <1>10, <1>14, <1>15
  <1>17. /\ moved \in ShipmentRow /\ moved.carrier = kept.carrier
         /\ moved.status = IF s # z.status THEN s ELSE kept.status
    <2>1. s \in ShipmentStatus
      BY DEF ShipmentStatus
    <2> QED
      BY <2>1 DEF ShipmentRow
  <1> HIDE DEF moved
  <1>18. /\ shipment'[p] = moved /\ \A q \in Parcels : q # p => shipment'[q] = shipment[q]
         /\ shipment' \in [Parcels -> {NoShipment} \cup ShipmentRow]
    BY <1>15, <1>16, <1>17
  <1>19. moved.status # "absent"
    BY <1>17 DEF ShipmentRow, ShipmentStatus, ScanStatus
  <1>20. \A q \in Parcels : (Present(q)' <=> Present(q)) /\ shipment'[q].carrier = shipment[q].carrier
    BY <1>9, <1>14, <1>17, <1>18, <1>19 DEF Present
  <1>21. Stored(p)' = Stored(p) \cup new /\ Stored(p) \subseteq 1..n
    <2>1. Stored(p)' = {i \in 1..n : events'[p][i] > 0} /\ Stored(p) = {i \in 1..n : events[p][i] > 0}
      BY <1>2, <1>7 DEF Stored
    <2>2. \A i \in 1..n : events'[p][i] = events[p][i] + (IF i \in new THEN 1 ELSE 0) /\ events[p][i] \in Nat
      BY <1>12, <1>13
    <2>3. \A i \in 1..n : events'[p][i] > 0 <=> events[p][i] > 0 \/ i \in new
      BY <2>2
    <2> QED
      BY <1>9, <2>1, <2>3
  <1>22. \A q \in Parcels : q # p => Stored(q)' = Stored(q) /\ StoredTimes(q)' = StoredTimes(q)
    BY <1>2, <1>13 DEF Stored, StoredTimes
  <1>23. StatusIsScanned(p)'
    <2>1. m \in Stored(p)' /\ scans'[p][m].status = s
      BY <1>2, <1>8, <1>21
    <2>2. CASE s # z.status
      BY <1>17, <1>18, <2>1, <2>2 DEF StatusIsScanned
    <2>3. CASE s = z.status
      <3>1. moved.status = kept.status /\ StatusIsScanned(p) /\ Present(p)
        BY <1>9, <1>17, <2>3 DEF ShipmentInv, Tracked
      <3>2. kept.status # "created" => \E i \in Stored(p) : scans[p][i].status = kept.status
        BY <1>14, <3>1 DEF StatusIsScanned
      <3> QED
        BY <1>2, <1>18, <1>21, <3>1, <3>2 DEF StatusIsScanned
    <2> QED
      BY <2>2, <2>3
  <1>24. ASSUME p \notin crossed \cup Coarse
         PROVE  /\ Closed(Stored(p) \cup new) /\ kept.status = z.status
                /\ \A i \in 1..MaxScans[p] : events'[p][i] <= 1
                /\ Max(Stored(p)') = m
    <2>1. /\ z.status = kept.status /\ new \cap Stored(p) = {} /\ Closed(Stored(p) \cup new)
          /\ Closed(Stored(p)) /\ \A i \in 1..MaxScans[p] : events[p][i] <= 1
      BY <1>1, <1>2, <1>4, <1>5, <1>14, <1>24 DEF Follows, ShipmentInv, Tracked, LatestWins
    <2>2. ASSUME NEW i \in 1..MaxScans[p] PROVE events'[p][i] <= 1
      <3>1. events'[p][i] = events[p][i] + (IF i \in new THEN 1 ELSE 0) /\ events[p][i] \in Nat
        BY <1>12, <1>13
      <3>2. CASE i \in new
        <4>1. i \in 1..n /\ i \notin Stored(p)
          BY <1>9, <2>1, <3>2
        <4>2. ~(events[p][i] > 0)
          BY <1>7, <4>1 DEF Stored
        <4> QED
          BY <3>1, <3>2, <4>2
      <3>3. CASE i \notin new
        BY <2>1, <3>1, <3>3
      <3> QED
        BY <3>2, <3>3
    <2>3. \A i \in Stored(p)' : m >= i
      <3>1. ASSUME NEW i \in Stored(p), i > m PROVE FALSE
        <4>1. m \in 1..i
          BY <1>9, <1>21, <3>1
        <4>2. m \in Stored(p)
          BY <2>1, <4>1 DEF Closed
        <4> QED
          BY <2>1, <4>2
      <3>2. m \in Int /\ \A i \in Stored(p) : i \in Int /\ m >= i
        BY <1>9, <1>21, <3>1
      <3> QED
        BY <1>8, <1>21, <3>2
    <2>4. Max(Stored(p)') = m
      <3>1. Stored(p)' \subseteq 1..n /\ Stored(p)' # {} /\ m \in Stored(p)'
        BY <1>9, <1>21
      <3>2. IsFiniteSet(Stored(p)') /\ \A i \in Stored(p)' : i \in Int
        <4>1. IsFiniteSet(1..n)
          BY FS_Interval
        <4> QED
          BY <3>1, <4>1, FS_Subset
      <3>3. Max(Stored(p)') \in Stored(p)' /\ \A i \in Stored(p)' : Max(Stored(p)') >= i
        BY <3>1, <3>2, MaxIsGreatest
      <3> QED
        BY <2>3, <3>1, <3>2, <3>3
    <2> QED
      BY <2>1, <2>2, <2>4
  <1>25. LatestWins(p)'
    <2>1. p \notin crossed \cup Coarse => moved.status = s
      BY <1>17, <1>24
    <2> QED
      BY <1>2, <1>8, <1>18, <1>24, <2>1 DEF LatestWins
  <1>26. ASSUME NEW q \in Parcels PROVE Booked(q)' /\ Tracked(q)'
    <2>1. Booked(q) /\ Tracked(q)
      BY DEF ShipmentInv
    <2>2. Asked(q)' = Asked(q) /\ Increasing(q)' = Increasing(q)
      BY <1>2 DEF Asked, Increasing
    <2>3. Booked(q)'
      BY <1>2, <1>20, <2>1, <2>2 DEF Booked
    <2>4. CASE q # p
      <3>1. StatusIsScanned(q)' /\ LatestWins(q)'
        BY <1>2, <1>13, <1>18, <1>20, <1>22, <2>1, <2>4 DEF Tracked, StatusIsScanned, LatestWins
      <3>2. Closed(Stored(q))' = Closed(Stored(q))
        BY <1>22, <2>4 DEF Closed
      <3> QED
        BY <1>2, <1>13, <1>20, <2>1, <2>2, <2>3, <2>4, <3>1, <3>2 DEF Tracked
    <2>5. CASE q = p
      <3>1. \A i \in 1..MaxScans[p] : i > Len(scans'[p]) => events'[p][i] = 0
        <4> SUFFICES ASSUME NEW i \in 1..MaxScans[p], i > n PROVE events'[p][i] = 0
          BY <1>2, <1>7
        <4>1. events[p][i] = 0 /\ i \notin new
          BY <1>7, <1>9, <2>1, <2>5 DEF Tracked
        <4> QED
          BY <1>13, <4>1
      <3>2. p \notin crossed \cup Coarse => Closed(Stored(p))'
        BY <1>21, <1>24 DEF Closed
      <3> QED
        BY <1>2, <1>9, <1>20, <1>23, <1>25, <2>1, <2>2, <2>3, <2>5, <3>1, <3>2 DEF Tracked
    <2> QED
      BY <2>4, <2>5
  <1>27. ASSUME NEW u \in Trackers PROVE Follows(tracking[u])'
    <2>1. PICK y \in Followings : y = tracking'[u]
      BY <1>11
    <2>2. CASE y.at = "idle"
      BY <2>1, <2>2 DEF Follows
    <2>3. CASE y.at # "idle"
      <3>1. PICK q \in Parcels : q = y.parcel
        BY <2>3, FollowingRecord
      <3>2. u # t /\ y = tracking[u] /\ Follows(y)
        BY <1>11, <2>1, <2>3, TrackerFacts DEF NoTracking
      <3>3. q = p => p \in crossed
        <4> SUFFICES ASSUME q = p, p \notin crossed PROVE FALSE
          OBVIOUS
        <4>1. On(tracking[t], p) /\ On(tracking[u], p) /\ CalledAlone(p)
          BY <1>1, <1>2, <1>4, <2>3, <3>1, <3>2 DEF On, ShipmentInv
        <4> QED
          BY <3>2, <4>1 DEF CalledAlone
      <3>4. Present(q) /\ Present(q)'
        BY <1>20, <2>3, <3>1, <3>2 DEF Follows
      <3>5. CASE q = p
        BY <1>2, <2>1, <3>1, <3>2, <3>3, <3>4, <3>5 DEF Follows
      <3>6. CASE q # p
        BY <1>2, <1>18, <1>22, <2>1, <3>1, <3>2, <3>4, <3>6 DEF Follows, Closed
      <3> QED
        BY <3>5, <3>6
    <2> QED
      BY <2>2, <2>3
  <1>28. ASSUME NEW q \in Parcels PROVE CalledAlone(q)' /\ ToldIs(q)'
    <2>1. CalledAlone(q) /\ ToldIs(q)
      BY DEF ShipmentInv
    <2>2. NoTracking.at = "idle"
      BY DEF NoTracking
    <2>3. \A u \in Trackers : (On(tracking[u], q)' <=> u # t /\ On(tracking[u], q))
      BY <1>11, <2>2 DEF On
    <2>4. \A u \in Trackers : (Writes(tracking[u], q)' <=> u # t /\ Writes(tracking[u], q))
      BY <1>2, <1>11, <2>2 DEF Writes, NewStatus
    <2>5. \A u \in Trackers : u # t => NewStatus(tracking[u])' = NewStatus(tracking[u])
      BY <1>2, <1>11 DEF NewStatus
    <2>6. CalledAlone(q)'
      <3>1. q \notin crossed' => \A v, u \in Trackers : On(tracking[v], q)' /\ On(tracking[u], q)' => v = u
        BY <1>2, <2>1, <2>3 DEF CalledAlone
      <3>2. \A v, u \in Trackers : Writes(tracking[v], q)' /\ Writes(tracking[u], q)' => v = u
        BY <2>1, <2>4 DEF CalledAlone
      <3> QED
        BY <3>1, <3>2 DEF CalledAlone, On, Writes, NewStatus
    <2>7. q \notin misheard =>
            \A u \in Trackers : Writes(tracking[u], q)' => told'[q] = NewStatus(tracking[u])'
      BY <1>2, <2>1, <2>4, <2>5 DEF ToldIs
    <2>8. ASSUME q \notin misheard, \A u \in Trackers : ~Writes(tracking[u], q)'
          PROVE  told[q] = IF Present(q)' THEN shipment'[q].status ELSE "created"
      <3>1. CASE Writes(tracking[t], q)
        <4>1. q = p /\ s # z.status
          BY <1>1, <1>4, <1>6, <3>1 DEF Writes
        <4>2. told[q] = s
          BY <1>1, <1>6, <2>1, <2>8, <3>1 DEF ToldIs
        <4> QED
          BY <1>9, <1>17, <1>18, <1>20, <4>1, <4>2
      <3>2. CASE ~Writes(tracking[t], q)
        <4>1. \A u \in Trackers : ~Writes(tracking[u], q)
          BY <2>4, <2>8, <3>2
        <4>2. told[q] = IF Present(q) THEN shipment[q].status ELSE "created"
          BY <2>1, <2>8, <4>1 DEF ToldIs
        <4>3. q = p => s = z.status
          BY <1>1, <1>2, <1>4, <1>6, <3>2 DEF Writes
        <4> QED
          BY <1>14, <1>17, <1>18, <1>20, <4>2, <4>3
      <3> QED
        BY <3>1, <3>2
    <2>9. ToldIs(q)'
      BY <1>2, <2>7, <2>8 DEF ToldIs
    <2> QED
      BY <2>6, <2>9
  <1>29. ShipmentShapes'
    BY <1>2, <1>11, <1>13, <1>18 DEF ShipmentInv, ShipmentShapes
  <1> QED
    BY <1>26, <1>27, <1>28, <1>29 DEF ShipmentInv

-----------------------------------------------------------------------------
\* Before any booking there is nothing to follow.
LEMMA ShipmentInvInit ==
  ASSUME ShipmentsAssumption, ShipmentsInit
  PROVE  ShipmentInv
  <1>1. /\ shipment = [p \in Parcels |-> NoShipment] /\ scans = [p \in Parcels |-> <<>>]
        /\ events = [p \in Parcels |-> [i \in 1..MaxScans[p] |-> 0]]
        /\ booking = [p \in Parcels |-> [at |-> "idle", left |-> <<>>]]
        /\ tracking = [t \in Trackers |-> NoTracking]
        /\ booked = [p \in Parcels |-> {}] /\ told = [p \in Parcels |-> "created"]
    BY DEF ShipmentsInit
  <1>2. ShipmentShapes
    <2>1. events = [p \in Parcels |-> events[p]] /\ \A p \in Parcels : events[p] \in [1..MaxScans[p] -> Nat]
      BY <1>1
    <2>2. booking \in [Parcels -> [at : {"idle", "calling", "booked"}, left : Seq(Carriers)]]
      BY <1>1
    <2>3. tracking \in [Trackers -> Followings] /\ told \in [Parcels -> ShipmentStatus]
      BY <1>1 DEF Followings, ShipmentStatus
    <2> QED
      BY <1>1, <2>1, <2>2, <2>3 DEF ShipmentShapes
  <1>3. \A t \in Trackers : tracking[t].at = "idle"
    BY <1>1 DEF NoTracking
  <1>4. ASSUME NEW p \in Parcels PROVE Booked(p) /\ Tracked(p) /\ CalledAlone(p) /\ ToldIs(p)
    <2>1. ~Present(p) /\ scans[p] = <<>> /\ booking[p].at = "idle" /\ MaxScans[p] \in Nat
      BY <1>1 DEF Present, NoShipment, ShipmentsAssumption
    <2>2. Stored(p) = {} /\ Len(scans[p]) = 0 /\ DOMAIN scans[p] = {}
      BY <2>1 DEF Stored
    <2>3. \A i \in 1..MaxScans[p] : events[p][i] = 0
      BY <1>1
    <2>4. Booked(p)
      BY <1>1, <2>1 DEF Booked
    <2>5. Tracked(p)
      BY <2>1, <2>2, <2>3 DEF Tracked, Increasing, StatusIsScanned, LatestWins, Closed
    <2>6. CalledAlone(p) /\ ToldIs(p)
      BY <1>1, <1>3, <2>1 DEF CalledAlone, ToldIs, On, Writes
    <2> QED
      BY <2>4, <2>5, <2>6
  <1>5. \A t \in Trackers : Follows(tracking[t])
    BY <1>3 DEF Follows
  <1> QED
    BY <1>2, <1>4, <1>5 DEF ShipmentInv

LEMMA ShipmentInvNext ==
  ASSUME ShipmentsAssumption, ShipmentInv, [ShipmentsNext]_shipmentVars
  PROVE  ShipmentInv'
  <1>1. ASSUME NEW p \in Parcels, BookingStep(p) PROVE ShipmentInv'
    BY <1>1, AskStep, CommitShipmentStep DEF BookingStep
  <1>2. ASSUME NEW p \in Parcels, ScanParcel(p) PROVE ShipmentInv'
    BY <1>2, ScanParcelStep
  <1>3. ASSUME NEW t \in Trackers, TrackingStep(t) PROVE ShipmentInv'
    BY <1>3, BeginTrackingStep, FetchTrackingStep, LoseTrackingStep, FlushAndPushStep, CommitTrackingStep
       DEF TrackingStep
  <1>4. CASE UNCHANGED shipmentVars
    <2>1. UNCHANGED <<shipment, scans, tracking, events, told, crossed, misheard, booking, booked, mishap>>
      BY <1>4 DEF shipmentVars, bookingVars, trackingVars
    <2>2. ASSUME NEW p \in Parcels PROVE Booked(p)'
      <3>1. Booked(p)
        BY DEF ShipmentInv
      <3> QED
        BY <2>1, <3>1 DEF Booked, Present, Asked
    <2>3. ShipmentShapes'
      BY <2>1 DEF ShipmentInv, ShipmentShapes
    <2> QED
      BY <2>1, <2>2, <2>3, BookingApart DEF ShipmentInv
  <1> QED
    BY <1>1, <1>2, <1>3, <1>4 DEF ShipmentsNext

\* What the lock and the push give is what those who were told can rely on.
LEMMA ShipmentInvSafe ==
  ASSUME ShipmentInv
  PROVE  BookingsAccounted /\ TrackingSafe
  <1>1. BookingsAccounted
    BY DEF ShipmentInv, Booked, BookingsAccounted
  <1>2. ASSUME NEW p \in Parcels PROVE StatusIsScanned(p) /\ LatestWins(p) /\ ToldInTime(p)
    <2>1. Tracked(p) /\ ToldIs(p)
      BY DEF ShipmentInv
    <2>2. ToldInTime(p)
      <3> SUFFICES ASSUME Present(p), p \notin misheard,
                          \A t \in Trackers : ~(/\ Following(t, p) /\ tracking[t].at = "flushed"
                                                /\ LatestStatus(t) = told[p])
                   PROVE  told[p] = shipment[p].status
        BY DEF ToldInTime
      <3>1. ASSUME NEW t \in Trackers, Writes(tracking[t], p) PROVE FALSE
        <4>1. told[p] = NewStatus(tracking[t])
          BY <2>1, <3>1 DEF ToldIs
        <4>2. Following(t, p) /\ tracking[t].at = "flushed" /\ LatestStatus(t) = NewStatus(tracking[t])
          BY <3>1 DEF Writes, Following, LatestStatus, NewStatus
        <4> QED
          BY <4>1, <4>2
      <3> QED
        BY <2>1, <3>1 DEF ToldIs
    <2> QED
      BY <2>1, <2>2 DEF Tracked
  <1> QED
    BY <1>1, <1>2 DEF TrackingSafe

\* Of a parcel whose booking calls all came to their end there is one booking
\* at the carriers, that of its row, however many carriers refused it: for any
\* ranking and any number of carriers (allocation.py:52-108, returns.py:23-71).
THEOREM BookingsAreAccounted == ShipmentsSpec => []BookingsAccounted
  <1> USE ShipmentsAssumption
  <1>1. ShipmentsInit => ShipmentInv
    BY ShipmentInvInit
  <1>2. ShipmentInv /\ [ShipmentsNext]_shipmentVars => ShipmentInv'
    BY ShipmentInvNext
  <1>3. ShipmentInv => BookingsAccounted
    BY ShipmentInvSafe
  <1> QED
    BY <1>1, <1>2, <1>3, PTL DEF ShipmentsSpec

\* The status of a shipment is that of a checkpoint it stores, each of which it
\* stores once and the latest of which wins if nothing crossed; and however the
\* calls cross, others were told the status of the row or the one about to be
\* committed, for any number of trackers and scans (tracking.py:25-77).
THEOREM TrackingIsSafe == ShipmentsSpec => []TrackingSafe
  <1> USE ShipmentsAssumption
  <1>1. ShipmentsInit => ShipmentInv
    BY ShipmentInvInit
  <1>2. ShipmentInv /\ [ShipmentsNext]_shipmentVars => ShipmentInv'
    BY ShipmentInvNext
  <1>3. ShipmentInv => TrackingSafe
    BY ShipmentInvSafe
  <1> QED
    BY <1>1, <1>2, <1>3, PTL DEF ShipmentsSpec

\* Shipments, their events, the calls about them and what the carriers hold keep
\* their types; a call has carriers left to ask exactly while it is under way
\* (allocation.py, tracking.py).
THEOREM ShipmentsTyped == ShipmentsSpec => []ShipmentsTypeOK
  <1> DEFINE Ended == \A p \in Parcels : booking[p].at = "idle" => booking[p].left = <<>>
  <1> USE ShipmentsAssumption
  <1>1. ShipmentsInit => ShipmentInv /\ Ended
    BY ShipmentInvInit DEF ShipmentsInit
  <1>2. ShipmentInv /\ Ended /\ [ShipmentsNext]_shipmentVars => ShipmentInv' /\ Ended'
    <2> SUFFICES ASSUME ShipmentInv, Ended, [ShipmentsNext]_shipmentVars
                 PROVE  ShipmentInv' /\ Ended'
      OBVIOUS
    <2>1. ShipmentInv'
      BY ShipmentInvNext
    <2>2. booking \in [Parcels -> [at : {"idle", "calling", "booked"}, left : Seq(Carriers)]]
      BY DEF ShipmentInv, ShipmentShapes
    <2>3. ASSUME NEW p \in Parcels, BookingStep(p) PROVE Ended'
      <3>1. \/ \E left : booking' = [booking EXCEPT ![p] = [at |-> "calling", left |-> left]]
            \/ booking' = [booking EXCEPT ![p] = [at |-> "idle", left |-> <<>>]]
            \/ booking' = [booking EXCEPT ![p].at = "booked"]
            \/ /\ booking[p].at = "calling"
               /\ booking' = [booking EXCEPT ![p].left = Tail(booking[p].left)]
        BY <2>2, <2>3 DEF BookingStep, AllocateShipment, CreateReversePickup, StartBooking, CarrierBooks,
             CarrierRefuses, AnswerLost, FallBack, CommitShipment, LoseBooking
      <3>2. \A q \in Parcels : q # p => booking'[q] = booking[q]
        BY <2>2, <3>1
      <3>3. booking'[p].at = "idle" => booking'[p].left = <<>>
        BY <2>2, <3>1
      <3> QED
        BY <3>2, <3>3
    <2>4. ASSUME NEW p \in Parcels, ScanParcel(p) PROVE Ended'
      BY <2>4 DEF ScanParcel, bookingVars
    <2>5. ASSUME NEW t \in Trackers, TrackingStep(t) PROVE Ended'
      BY <2>5 DEF TrackingStep, BeginTracking, FetchTracking, LoseTracking, FlushAndPush,
                  CommitTracking, bookingVars
    <2>6. CASE UNCHANGED shipmentVars
      BY <2>1, <2>6 DEF shipmentVars, bookingVars
    <2> QED
      BY <2>1, <2>3, <2>4, <2>5, <2>6 DEF ShipmentsNext
  <1>3. ShipmentInv /\ Ended => ShipmentsTypeOK
    <2> SUFFICES ASSUME ShipmentInv, Ended PROVE ShipmentsTypeOK
      OBVIOUS
    <2>1. ShipmentShapes
      BY DEF ShipmentInv
    <2>2. ASSUME NEW p \in Parcels
          PROVE  /\ shipment[p] \in {NoShipment} \cup [status : ShipmentStatus, carrier : Carriers]
                 /\ events[p] \in [1..MaxScans[p] -> Nat]
                 /\ booking[p].at \in {"idle", "calling", "booked"}
                 /\ (booking[p].at = "idle") = (booking[p].left = <<>>)
      <3>1. booking[p].at # "idle" => booking[p].left # <<>>
        BY DEF ShipmentInv, Booked
      <3> QED
        BY <2>1, <3>1 DEF ShipmentShapes, ShipmentRow
    <2>3. ASSUME NEW t \in Trackers PROVE tracking[t].at \in {"idle", "loaded", "fetched", "flushed"}
      BY <2>1, FollowingRecord DEF ShipmentShapes
    <2> QED
      BY <2>1, <2>2, <2>3 DEF ShipmentShapes, ShipmentsTypeOK
  <1> QED
    BY <1>1, <1>2, <1>3, PTL DEF ShipmentsSpec

-----------------------------------------------------------------------------
(* Production batches and raw materials.                                   *)

Lefts == UNION {[D -> Nat] : D \in SUBSET Materials}
Line == [material : Materials, quantity : Nat \ {0}]
Tasks == [op : {"none", "stock", "start", "complete", "cancel"}, batch : SUBSET Batches,
          status : BatchStatuses, line : Nat, left : Lefts]

MfgShapes ==
  /\ stock \in [Materials -> Nat]
  /\ run \in [Batches -> BatchStatuses]
  /\ consumed \in [Batches -> [Materials -> Nat]]
  /\ clerk \in [Clerks -> Tasks]
  /\ supplied \in [Materials -> Int]

\* What the first lines of the bill of a batch take of a material.
Quantities(b) == [i \in DOMAIN Bill[b] |-> Bill[b][i].quantity]
LinesOf(b, m, n) == {i \in DOMAIN Bill[b] : i < n /\ Bill[b][i].material = m}
TakenBy(b, m, n) == SumOver(Quantities(b), LinesOf(b, m, n))

\* What a request holds; what only one request held, it still holds as it is.
Working(x, shared, mixed) ==
  /\ x.op = "none" => x = NoTask
  /\ x.op \in {"none", "stock"} => x.batch = {}
  /\ x.op \in {"none", "complete", "cancel"} => DOMAIN x.left = {}
  /\ x.op \in {"start", "complete", "cancel"} => (\E b \in Batches : x.batch = {b}) /\ x.status # "absent"
  /\ x.op = "start" => x.status = "planned"
  /\ x.op = "complete" => x.status = "in_progress"
  /\ \A b \in x.batch \ mixed : x.status = run[b]
  /\ x.op = "start" => \A b \in x.batch :
       /\ x.line \in 1..(Len(Bill[b]) + 1)
       /\ \A m \in Materials : m \in DOMAIN x.left <=> LinesOf(b, m, x.line) # {}
       /\ \A m \in DOMAIN x.left \ shared : x.left[m] = stock[m] - TakenBy(b, m, x.line)

\* Nobody else holds what a request holds alone.
MaterialAlone(m) ==
  m \notin contended => \A j, k \in Clerks : HoldsMaterial(j, m) /\ HoldsMaterial(k, m) => j = k
BatchAlone(b) ==
  b \notin entangled => \A j, k \in Clerks : HoldsBatch(j, b) /\ HoldsBatch(k, b) => j = k

Used(m) == SumOver([b \in Batches |-> consumed[b][m]], Batches)
StockBalanced(m) == m \notin contended => stock[m] = supplied[m] - Used(m)
Consumes(b) ==
  b \notin entangled => \A m \in Materials :
    /\ run[b] \in {"absent", "planned"} => consumed[b][m] = 0
    /\ run[b] \in {"in_progress", "completed"} => consumed[b][m] = Needs(b, m)
    /\ run[b] = "cancelled" => consumed[b][m] \in {0, Needs(b, m)}

MfgInv ==
  /\ MfgShapes
  /\ \A k \in Clerks : Working(clerk[k], contended, entangled)
  /\ \A m \in Materials : MaterialAlone(m) /\ StockBalanced(m)
  /\ \A b \in Batches : BatchAlone(b) /\ Consumes(b)

-----------------------------------------------------------------------------
LEMMA LeftFacts ==
  ASSUME NEW f \in Lefts
  PROVE  DOMAIN f \in SUBSET Materials /\ \A m \in DOMAIN f : f[m] \in Nat
  <1>1. PICK D \in SUBSET Materials : f \in [D -> Nat]
    BY DEF Lefts
  <1> QED
    BY <1>1

LEMMA LeftMade ==
  ASSUME NEW D \in SUBSET Materials, NEW f \in [D -> Nat]
  PROVE  f \in Lefts
  BY DEF Lefts

\* A request at rest holds nothing.
LEMMA NoTaskFacts ==
  /\ NoTask \in Tasks /\ NoTask.op = "none" /\ NoTask.batch = {} /\ NoTask.line = 0
  /\ NoTask.left = <<>> /\ DOMAIN NoTask.left = {} /\ NoTask.status = "absent"
  <1>1. <<>> \in [{} -> Nat]
    OBVIOUS
  <1>2. <<>> \in Lefts /\ DOMAIN <<>> = {}
    BY <1>1, LeftMade
  <1> QED
    BY <1>2 DEF NoTask, Tasks, BatchStatuses

\* The lines of a bill.
LEMMA BillFacts ==
  ASSUME ManufacturingAssumption, NEW b \in Batches
  PROVE  /\ DOMAIN Bill[b] = 1..Len(Bill[b]) /\ Len(Bill[b]) \in Nat /\ IsFiniteSet(DOMAIN Bill[b])
         /\ \A i \in DOMAIN Bill[b] : Bill[b][i].material \in Materials /\ Bill[b][i].quantity \in Nat
  <1>1. Bill[b] \in Seq(Line)
    BY DEF ManufacturingAssumption, Line
  <1>2. DOMAIN Bill[b] = 1..Len(Bill[b]) /\ Len(Bill[b]) \in Nat
    BY <1>1
  <1>3. \A i \in DOMAIN Bill[b] : Bill[b][i] \in Line
    BY <1>1
  <1>4. \A y \in Line : y.material \in Materials /\ y.quantity \in Nat
    BY DEF Line
  <1>5. PICK n \in Nat : DOMAIN Bill[b] = 1..n
    BY <1>2
  <1>6. IsFiniteSet(1..n)
    BY FS_Interval
  <1> QED
    BY <1>2, <1>3, <1>4, <1>5, <1>6

\* What is taken is a sum of quantities, and one line after the other.
LEMMA TakenFacts ==
  ASSUME ManufacturingAssumption, NEW b \in Batches, NEW m, NEW n
  PROVE  /\ TakenBy(b, m, n) \in Nat
         /\ LinesOf(b, m, n) = {} => TakenBy(b, m, n) = 0
  <1>1. IsFiniteSet(LinesOf(b, m, n))
    BY BillFacts, FS_Subset DEF LinesOf
  <1>2. \A i \in LinesOf(b, m, n) : Quantities(b)[i] \in Nat
    BY BillFacts DEF LinesOf, Quantities
  <1>3. TakenBy(b, m, n) \in Nat
    BY <1>1, <1>2, SumNat DEF TakenBy
  <1> QED
    BY <1>3, SumEmpty DEF TakenBy

LEMMA TakenLine ==
  ASSUME ManufacturingAssumption, NEW b \in Batches, NEW i \in DOMAIN Bill[b], NEW m
  PROVE  /\ Bill[b][i].material = m =>
              /\ TakenBy(b, m, i + 1) = TakenBy(b, m, i) + Bill[b][i].quantity
              /\ LinesOf(b, m, i + 1) # {}
         /\ Bill[b][i].material # m =>
              TakenBy(b, m, i + 1) = TakenBy(b, m, i) /\ LinesOf(b, m, i + 1) = LinesOf(b, m, i)
  <1>1. i \in Nat /\ \A j \in DOMAIN Bill[b] : j \in Nat /\ (j < i + 1 <=> j < i \/ j = i)
    BY BillFacts
  <1>2. CASE Bill[b][i].material = m
    <2>1. LinesOf(b, m, i + 1) = LinesOf(b, m, i) \cup {i} /\ i \notin LinesOf(b, m, i)
      BY <1>1, <1>2 DEF LinesOf
    <2>2. IsFiniteSet(LinesOf(b, m, i))
      BY BillFacts, FS_Subset DEF LinesOf
    <2>3. /\ \A j \in LinesOf(b, m, i) : Quantities(b)[j] \in Int
          /\ Quantities(b)[i] = Bill[b][i].quantity /\ Quantities(b)[i] \in Int
      <3>1. \A j \in DOMAIN Bill[b] : Bill[b][j].quantity \in Nat
        BY BillFacts
      <3> QED
        BY <3>1 DEF LinesOf, Quantities
    <2>4. SumOver(Quantities(b), LinesOf(b, m, i) \cup {i}) = SumOver(Quantities(b), LinesOf(b, m, i)) + Quantities(b)[i]
      BY <2>1, <2>2, <2>3, SumAdd
    <2> QED
      BY <1>2, <2>1, <2>3, <2>4 DEF TakenBy
  <1>3. CASE Bill[b][i].material # m
    <2>1. LinesOf(b, m, i + 1) = LinesOf(b, m, i)
      BY <1>1, <1>3 DEF LinesOf
    <2> QED
      BY <1>3, <2>1 DEF TakenBy
  <1> QED
    BY <1>2, <1>3

\* All the lines take what a batch needs.
LEMMA TakenAll ==
  ASSUME ManufacturingAssumption, NEW b \in Batches, NEW m, NEW n \in Nat, n > Len(Bill[b])
  PROVE  TakenBy(b, m, n) = Needs(b, m)
  <1>1. LinesOf(b, m, n) = {i \in DOMAIN Bill[b] : Bill[b][i].material = m}
    <2>1. \A i \in DOMAIN Bill[b] : i < n
      BY BillFacts
    <2> QED
      BY <2>1 DEF LinesOf
  <1> QED
    BY <1>1 DEF TakenBy, Needs, Quantities

-----------------------------------------------------------------------------
\* A request goes on without a commit.
LEMMA StockTaskStep ==
  ASSUME MfgInv, NEW k \in Clerks, NEW x \in Tasks, clerk' = [clerk EXCEPT ![k] = x],
         UNCHANGED <<stock, run, consumed, supplied>>,
         contended \subseteq contended', entangled \subseteq entangled',
         Working(x, contended', entangled'),
         \A m \in DOMAIN x.left : m \in contended' \/ \A j \in Clerks : HoldsMaterial(j, m) => j = k,
         \A b \in x.batch : b \in entangled' \/ \A j \in Clerks : HoldsBatch(j, b) => j = k
  PROVE  MfgInv'
  <1>1. /\ clerk' \in [Clerks -> Tasks] /\ clerk'[k] = x
        /\ \A j \in Clerks : j # k => clerk'[j] = clerk[j]
    BY DEF MfgInv, MfgShapes
  <1>2. MfgShapes'
    BY <1>1 DEF MfgInv, MfgShapes
  <1>3. ASSUME NEW j \in Clerks PROVE Working(clerk'[j], contended', entangled')
    <2>1. CASE j = k
      BY <1>1, <2>1
    <2>2. CASE j # k
      <3>1. Working(clerk[j], contended, entangled)
        BY DEF MfgInv
      <3>2. Working(clerk[j], contended', entangled')
        BY <3>1 DEF Working
      <3> QED
        BY <1>1, <2>2, <3>2
    <2> QED
      BY <2>1, <2>2
  <1>4. ASSUME NEW j \in Clerks PROVE Working(clerk[j], contended, entangled)'
    BY <1>3 DEF Working
  <1>5. ASSUME NEW m \in Materials PROVE MaterialAlone(m)' /\ StockBalanced(m)'
    <2>1. MaterialAlone(m) /\ StockBalanced(m)
      BY DEF MfgInv
    <2>2. \A j \in Clerks : (HoldsMaterial(j, m)' <=> IF j = k THEN m \in DOMAIN x.left ELSE HoldsMaterial(j, m))
      BY <1>1 DEF HoldsMaterial
    <2>3. MaterialAlone(m)'
      <3> SUFFICES ASSUME m \notin contended', NEW i \in Clerks, NEW j \in Clerks,
                          HoldsMaterial(i, m)', HoldsMaterial(j, m)'
                   PROVE  i = j
        BY DEF MaterialAlone
      <3> QED
        BY <2>1, <2>2 DEF MaterialAlone
    <2>4. Used(m)' = Used(m)
      BY DEF Used
    <2>5. StockBalanced(m)'
      BY <2>1, <2>4 DEF StockBalanced
    <2> QED
      BY <2>3, <2>5
  <1>6. ASSUME NEW b \in Batches PROVE BatchAlone(b)' /\ Consumes(b)'
    <2>1. BatchAlone(b) /\ Consumes(b)
      BY DEF MfgInv
    <2>2. \A j \in Clerks : (HoldsBatch(j, b)' <=> IF j = k THEN b \in x.batch ELSE HoldsBatch(j, b))
      BY <1>1 DEF HoldsBatch
    <2>3. BatchAlone(b)'
      <3> SUFFICES ASSUME b \notin entangled', NEW i \in Clerks, NEW j \in Clerks,
                          HoldsBatch(i, b)', HoldsBatch(j, b)'
                   PROVE  i = j
        BY DEF BatchAlone
      <3> QED
        BY <2>1, <2>2 DEF BatchAlone
    <2>4. Consumes(b)'
      BY <2>1 DEF Consumes
    <2> QED
      BY <2>3, <2>4
  <1> QED
    BY <1>2, <1>4, <1>5, <1>6 DEF MfgInv

\* A request ends, having changed nothing that another holds alone.
LEMMA FinishStep ==
  ASSUME MfgInv, NEW k \in Clerks, Finish(k), UNCHANGED <<contended, entangled>>,
         stock' \in [Materials -> Nat], run' \in [Batches -> BatchStatuses],
         consumed' \in [Batches -> [Materials -> Nat]], supplied' \in [Materials -> Int],
         \A m \in Materials \ contended : stock'[m] = stock[m] \/ HoldsMaterial(k, m),
         \A b \in Batches \ entangled : run'[b] = run[b] \/ HoldsBatch(k, b),
         \A m \in Materials : StockBalanced(m)', \A b \in Batches : Consumes(b)'
  PROVE  MfgInv'
  <1>1. /\ clerk' \in [Clerks -> Tasks] /\ clerk'[k] = NoTask
        /\ \A j \in Clerks : j # k => clerk'[j] = clerk[j]
    BY NoTaskFacts DEF MfgInv, MfgShapes, Finish
  <1>2. MfgShapes'
    BY <1>1 DEF MfgShapes
  <1>3. ASSUME NEW j \in Clerks PROVE Working(clerk[j], contended, entangled)'
    <2>1. PICK y \in Tasks : y = clerk'[j]
      BY <1>1
    <2>2. CASE j = k
      BY <1>1, <2>1, <2>2, NoTaskFacts DEF Working
    <2>3. CASE j # k
      <3>1. Working(y, contended, entangled) /\ y = clerk[j]
        BY <1>1, <2>1, <2>3 DEF MfgInv
      <3>2. ASSUME NEW m \in DOMAIN y.left \ contended PROVE stock'[m] = stock[m]
        <4>1. m \in Materials /\ HoldsMaterial(j, m)
          BY <3>1, LeftFacts DEF HoldsMaterial, Tasks
        <4>2. ~HoldsMaterial(k, m)
          BY <2>3, <4>1 DEF MfgInv, MaterialAlone
        <4> QED
          BY <4>1, <4>2
      <3>3. ASSUME NEW b \in y.batch \ entangled PROVE run'[b] = run[b]
        <4>1. b \in Batches /\ HoldsBatch(j, b)
          BY <3>1 DEF HoldsBatch, Tasks
        <4>2. ~HoldsBatch(k, b)
          BY <2>3, <4>1 DEF MfgInv, BatchAlone
        <4> QED
          BY <4>1, <4>2
      <3>4. Working(y, contended, entangled)'
        BY <3>1, <3>2, <3>3 DEF Working
      <3> QED
        BY <2>1, <3>4 DEF Working
    <2> QED
      BY <2>2, <2>3
  <1>4. ASSUME NEW m \in Materials PROVE MaterialAlone(m)'
    <2>1. MaterialAlone(m)
      BY DEF MfgInv
    <2>2. \A j \in Clerks : HoldsMaterial(j, m)' => HoldsMaterial(j, m)
      BY <1>1, NoTaskFacts DEF HoldsMaterial
    <2> SUFFICES ASSUME m \notin contended', NEW i \in Clerks, NEW j \in Clerks,
                        HoldsMaterial(i, m)', HoldsMaterial(j, m)'
                 PROVE  i = j
      BY DEF MaterialAlone
    <2> QED
      BY <2>1, <2>2 DEF MaterialAlone
  <1>5. ASSUME NEW b \in Batches PROVE BatchAlone(b)'
    <2>1. BatchAlone(b)
      BY DEF MfgInv
    <2>2. \A j \in Clerks : HoldsBatch(j, b)' => HoldsBatch(j, b)
      BY <1>1, NoTaskFacts DEF HoldsBatch
    <2> SUFFICES ASSUME b \notin entangled', NEW i \in Clerks, NEW j \in Clerks,
                        HoldsBatch(i, b)', HoldsBatch(j, b)'
                 PROVE  i = j
      BY DEF BatchAlone
    <2> QED
      BY <2>1, <2>2 DEF BatchAlone
  <1> QED
    BY <1>2, <1>3, <1>4, <1>5 DEF MfgInv

-----------------------------------------------------------------------------
\* A stock is read, to be written as what the request computed from it.
LEMMA BeginStockStep ==
  ASSUME ManufacturingAssumption, MfgInv, NEW k \in Clerks, NEW m \in Materials,
         NEW quantity \in Increments, BeginIncrease(k, m, quantity) \/ BeginDecrease(k, m, quantity)
  PROVE  MfgInv'
  <1>1. quantity \in Nat /\ stock[m] \in Nat
    BY DEF ManufacturingAssumption, MfgInv, MfgShapes
  <1>2. PICK v \in Nat :
          LoadMaterial(k, m, [NoTask EXCEPT !.op = "stock", !.left = [i \in {m} |-> v]])
    <2>1. CASE BeginIncrease(k, m, quantity)
      <3> DEFINE v == stock[m] + quantity
      <3>1. v \in Nat
        BY <1>1
      <3>2. LoadMaterial(k, m, [NoTask EXCEPT !.op = "stock", !.left = [i \in {m} |-> v]])
        BY <2>1 DEF BeginIncrease
      <3> HIDE DEF v
      <3> QED
        BY <3>1, <3>2
    <2>2. CASE BeginDecrease(k, m, quantity)
      <3> DEFINE v == stock[m] - quantity
      <3>1. v \in Nat
        BY <1>1, <2>2 DEF BeginDecrease
      <3>2. LoadMaterial(k, m, [NoTask EXCEPT !.op = "stock", !.left = [i \in {m} |-> v]])
        BY <2>2 DEF BeginDecrease
      <3> HIDE DEF v
      <3> QED
        BY <3>1, <3>2
    <2> QED
      BY <2>1, <2>2
  <1>3. /\ clerk[k] = NoTask /\ UNCHANGED <<stock, run, consumed, supplied, entangled>>
    BY DEF BeginIncrease, BeginDecrease
  <1> DEFINE f == [i \in {m} |-> v]
             x == [NoTask EXCEPT !.op = "stock", !.left = f]
  <1>4. f \in Lefts /\ DOMAIN f = {m}
    BY LeftMade
  <1>5. /\ clerk' = [clerk EXCEPT ![k] = x]
        /\ contended' = IF \E j \in Clerks \ {k} : HoldsMaterial(j, m) THEN contended \cup {m}
                        ELSE contended
    BY <1>2 DEF LoadMaterial
  <1> HIDE DEF f
  <1>6. x \in Tasks /\ x.op = "stock" /\ x.batch = {} /\ x.left = f
    BY <1>4, NoTaskFacts DEF Tasks
  <1> HIDE DEF x
  <1>7. Working(x, contended', entangled')
    BY <1>6 DEF Working
  <1>8. \A n \in DOMAIN x.left : n \in contended' \/ \A j \in Clerks : HoldsMaterial(j, n) => j = k
    BY <1>4, <1>5, <1>6
  <1>9. contended \subseteq contended'
    BY <1>5
  <1> QED
    BY <1>3, <1>5, <1>6, <1>7, <1>8, <1>9, StockTaskStep

\* A batch is read, in the status that the request asks for.
LEMMA LoadBatchStep ==
  ASSUME ManufacturingAssumption, MfgInv, NEW k \in Clerks, NEW b \in Batches, NEW op \in {"start", "complete", "cancel"},
         LoadBatch(k, b, op), op = "start" => run[b] = "planned", op = "complete" => run[b] = "in_progress"
  PROVE  MfgInv'
  <1> DEFINE x == [NoTask EXCEPT !.op = op, !.batch = {b}, !.status = run[b], !.line = 1]
  <1>1. /\ clerk[k] = NoTask /\ run[b] # "absent" /\ clerk' = [clerk EXCEPT ![k] = x]
        /\ entangled' = IF \E j \in Clerks \ {k} : HoldsBatch(j, b) THEN entangled \cup {b}
                        ELSE entangled
        /\ UNCHANGED <<stock, run, consumed, supplied, contended>>
    BY DEF LoadBatch
  <1>2. run[b] \in BatchStatuses
    BY DEF MfgInv, MfgShapes
  <1>3. x \in Tasks /\ x.op = op /\ x.batch = {b} /\ x.status = run[b] /\ x.line = 1 /\ x.left = <<>>
    BY <1>2, NoTaskFacts DEF Tasks
  <1> HIDE DEF x
  <1>4. DOMAIN x.left = {}
    BY <1>3, NoTaskFacts
  <1>5. 1 \in 1..(Len(Bill[b]) + 1) /\ \A m \in Materials : LinesOf(b, m, 1) = {}
    <2>1. Len(Bill[b]) \in Nat /\ DOMAIN Bill[b] = 1..Len(Bill[b])
      BY BillFacts
    <2> QED
      BY <2>1 DEF LinesOf
  <1>6. Working(x, contended', entangled')
    BY <1>1, <1>3, <1>4, <1>5 DEF Working
  <1>7. \A c \in x.batch : c \in entangled' \/ \A j \in Clerks : HoldsBatch(j, c) => j = k
    BY <1>1, <1>3
  <1>8. entangled \subseteq entangled'
    BY <1>1
  <1> QED
    BY <1>1, <1>3, <1>4, <1>6, <1>7, <1>8, StockTaskStep

\* A line takes its quantity from what the lines before it have left.
LEMMA ConsumeLineStep ==
  ASSUME ManufacturingAssumption, MfgInv, NEW k \in Clerks, NEW b \in Batches, ConsumeLine(k, b)
  PROVE  MfgInv'
  <1>1. PICK task \in Tasks : task = clerk[k] /\ Working(task, contended, entangled)
    BY DEF MfgInv, MfgShapes
  <1>2. /\ task.op = "start" /\ b \in task.batch /\ task.line <= Len(Bill[b])
        /\ UNCHANGED <<stock, run, consumed, supplied, entangled>>
    BY <1>1 DEF ConsumeLine, HoldsBatch
  <1>3. /\ task.batch = {b} /\ task.line \in 1..(Len(Bill[b]) + 1)
        /\ \A n \in Materials : n \in DOMAIN task.left <=> LinesOf(b, n, task.line) # {}
        /\ \A n \in DOMAIN task.left \ contended : task.left[n] = stock[n] - TakenBy(b, n, task.line)
        /\ task.status = "planned" /\ \A c \in task.batch \ entangled : task.status = run[c]
    BY <1>1, <1>2 DEF Working
  <1>4. PICK i \in DOMAIN Bill[b] : i = task.line
    BY <1>2, <1>3, BillFacts
  <1>5. i \in Nat /\ i + 1 \in 1..(Len(Bill[b]) + 1)
    BY <1>2, <1>3, <1>4, BillFacts
  <1>6. PICK m \in Materials : m = Bill[b][i].material
    BY BillFacts
  <1>7. PICK q \in Nat : q = Bill[b][i].quantity
    BY BillFacts
  <1>8. /\ task.left \in Lefts /\ DOMAIN task.left \in SUBSET Materials
        /\ (\A n \in DOMAIN task.left : task.left[n] \in Nat) /\ \A n \in Materials : stock[n] \in Nat
    BY LeftFacts DEF Tasks, MfgInv, MfgShapes
  <1> DEFINE hand == IF m \in DOMAIN task.left THEN task.left[m] ELSE stock[m]
  <1>9. PICK h \in Nat : h = hand
    BY <1>8
  <1> DEFINE left == [n \in DOMAIN task.left \cup {m} |-> IF n = m THEN h - q ELSE task.left[n]]
             x == [task EXCEPT !.line = task.line + 1, !.left = left]
  <1>10. IF h < q THEN Finish(k) /\ UNCHANGED contended ELSE LoadMaterial(k, m, x)
    BY <1>1, <1>4, <1>6, <1>7, <1>9 DEF ConsumeLine, HoldsMaterial
  <1>11. CASE h < q
    <2>1. Finish(k) /\ UNCHANGED contended
      BY <1>10, <1>11
    <2>2. clerk' = [clerk EXCEPT ![k] = NoTask]
      BY <2>1 DEF Finish
    <2>3. NoTask \in Tasks /\ DOMAIN NoTask.left = {} /\ NoTask.batch = {} /\ Working(NoTask, contended', entangled')
      BY NoTaskFacts DEF Working
    <2> QED
      BY <1>2, <2>1, <2>2, <2>3, StockTaskStep
  <1>12. CASE ~(h < q)
    <2>1. left \in [DOMAIN task.left \cup {m} -> Nat]
      BY <1>8, <1>12
    <2>2. left \in Lefts
      BY <1>8, <2>1, LeftMade
    <2>3. /\ DOMAIN left = DOMAIN task.left \cup {m} /\ left[m] = h - q
          /\ \A n \in DOMAIN task.left : n # m => left[n] = task.left[n]
      OBVIOUS
    <2>4. LoadMaterial(k, m, x)
      BY <1>10, <1>12
    <2> HIDE DEF left
    <2>5. x \in Tasks /\ x.op = "start" /\ x.batch = {b} /\ x.status = "planned" /\ x.line = i + 1 /\ x.left = left
      <3>1. task.line + 1 \in Nat /\ task.line + 1 = i + 1
        BY <1>4, <1>5
      <3>2. /\ task \in Tasks /\ x = [task EXCEPT !.line = task.line + 1, !.left = left]
        OBVIOUS
      <3>3. x \in Tasks /\ x.op = task.op /\ x.batch = task.batch /\ x.status = task.status
            /\ x.line = task.line + 1 /\ x.left = left
        BY <2>2, <3>1 DEF Tasks
      <3> QED
        BY <1>2, <1>3, <3>1, <3>3
    <2>6. /\ clerk' = [clerk EXCEPT ![k] = x]
          /\ contended' = IF \E j \in Clerks \ {k} : HoldsMaterial(j, m) THEN contended \cup {m}
                          ELSE contended
      BY <2>4 DEF LoadMaterial
    <2> HIDE DEF x
    <2>7. \A n \in Materials : n \in DOMAIN left <=> LinesOf(b, n, i + 1) # {}
      <3> SUFFICES ASSUME NEW n \in Materials PROVE n \in DOMAIN left <=> LinesOf(b, n, i + 1) # {}
        OBVIOUS
      <3>1. CASE n = m
        BY <1>6, <2>3, <3>1, TakenLine
      <3>2. CASE n # m
        <4>1. LinesOf(b, n, i + 1) = LinesOf(b, n, i)
          BY <1>6, <3>2, TakenLine
        <4> QED
          BY <1>3, <1>4, <2>3, <3>2, <4>1
      <3> QED
        BY <3>1, <3>2
    <2>8. \A n \in DOMAIN left \ contended' : left[n] = stock[n] - TakenBy(b, n, i + 1)
      <3> SUFFICES ASSUME NEW n \in DOMAIN left, n \notin contended'
                   PROVE  left[n] = stock[n] - TakenBy(b, n, i + 1)
        OBVIOUS
      <3>1. n \notin contended /\ n \in Materials
        BY <1>8, <2>3, <2>6
      <3>2. TakenBy(b, n, i) \in Nat /\ (LinesOf(b, n, i) = {} => TakenBy(b, n, i) = 0)
        BY TakenFacts
      <3>3. CASE n = m
        <4>1. TakenBy(b, m, i + 1) = TakenBy(b, m, i) + q
          BY <1>6, <1>7, TakenLine
        <4>2. h = stock[m] - TakenBy(b, m, i)
          <5>1. CASE m \in DOMAIN task.left
            BY <1>3, <1>4, <1>9, <3>1, <3>3, <5>1
          <5>2. CASE m \notin DOMAIN task.left
            <6>1. TakenBy(b, m, i) = 0
              BY <1>3, <1>4, <3>2, <3>3, <5>2
            <6>2. h = stock[m] /\ stock[m] \in Nat
              BY <1>8, <1>9, <5>2
            <6> QED
              BY <6>1, <6>2
          <5> QED
            BY <5>1, <5>2
        <4>3. stock[m] \in Nat /\ TakenBy(b, m, i) \in Nat
          BY <1>8, <3>2, <3>3
        <4> QED
          BY <2>3, <3>3, <4>1, <4>2, <4>3
      <3>4. CASE n # m
        <4>1. TakenBy(b, n, i + 1) = TakenBy(b, n, i)
          BY <1>6, <3>4, TakenLine
        <4> QED
          BY <1>3, <1>4, <2>3, <3>1, <3>4, <4>1
      <3> QED
        BY <3>3, <3>4
    <2>9. Working(x, contended', entangled')
      BY <1>2, <1>3, <1>5, <2>5, <2>7, <2>8 DEF Working
    <2>10. ASSUME NEW n \in DOMAIN x.left, n \notin contended', NEW j \in Clerks, HoldsMaterial(j, n)
           PROVE  j = k
      <3>1. CASE n = m
        BY <2>6, <2>10, <3>1
      <3>2. CASE n # m
        <4>1. n \in Materials /\ n \notin contended /\ HoldsMaterial(k, n)
          BY <1>1, <1>8, <2>3, <2>5, <2>6, <2>10, <3>2 DEF HoldsMaterial
        <4> QED
          BY <2>10, <4>1 DEF MfgInv, MaterialAlone
      <3> QED
        BY <3>1, <3>2
    <2>11. ASSUME NEW c \in x.batch, c \notin entangled', NEW j \in Clerks, HoldsBatch(j, c)
           PROVE  j = k
      <3>1. c = b /\ HoldsBatch(k, b)
        BY <1>1, <1>2, <2>5, <2>11 DEF HoldsBatch
      <3> QED
        BY <1>2, <2>11, <3>1 DEF MfgInv, BatchAlone
    <2>12. contended \subseteq contended' /\ entangled \subseteq entangled'
      BY <1>2, <2>6
    <2> QED
      BY <1>2, <2>5, <2>6, <2>9, <2>10, <2>11, <2>12, StockTaskStep
  <1> QED
    BY <1>11, <1>12

-----------------------------------------------------------------------------
\* What the batches used of a material, and what they use when one uses more.
LEMMA UsedFacts ==
  ASSUME ManufacturingAssumption, MfgShapes, NEW m \in Materials
  PROVE  Used(m) \in Nat
  <1>1. IsFiniteSet(Batches)
    BY DEF ManufacturingAssumption
  <1>2. \A b \in Batches : [c \in Batches |-> consumed[c][m]][b] \in Nat
    BY DEF MfgShapes
  <1> QED
    BY <1>1, <1>2, SumNat DEF Used

LEMMA UsedMore ==
  ASSUME ManufacturingAssumption, MfgShapes, NEW m \in Materials, NEW b \in Batches, NEW more \in Nat,
         consumed'[b][m] = consumed[b][m] + more,
         \A c \in Batches : c # b => consumed'[c] = consumed[c]
  PROVE  Used(m)' = Used(m) + more
  <1> DEFINE f == [c \in Batches |-> consumed[c][m]]
             g == [c \in Batches |-> consumed'[c][m]]
  <1>1. IsFiniteSet(Batches)
    BY DEF ManufacturingAssumption
  <1>2. \A c \in Batches : f[c] \in Int
    BY DEF MfgShapes
  <1>3. f[b] \in Int /\ g[b] = f[b] + more /\ \A c \in Batches : c # b => g[c] = f[c]
    BY <1>2
  <1>4. Used(m)' = SumOver(g, Batches) /\ Used(m) = SumOver(f, Batches)
    BY DEF Used
  <1> HIDE DEF f, g
  <1>5. g[b] \in Int
    BY <1>3
  <1>6. SumOver(g, Batches) = SumOver(f, Batches) - f[b] + g[b]
    BY <1>1, <1>2, <1>3, <1>5, SumUpdate
  <1>7. SumOver(f, Batches) \in Nat
    BY <1>4, UsedFacts
  <1> QED
    BY <1>3, <1>4, <1>6, <1>7

\* A stock becomes what a request computed from what it had read.
LEMMA CommitStockStep ==
  ASSUME ManufacturingAssumption, MfgInv, NEW k \in Clerks, CommitStock(k)
  PROVE  MfgInv'
  <1>1. PICK task \in Tasks : task = clerk[k]
    BY DEF MfgInv, MfgShapes
  <1>2. DOMAIN task.left \in SUBSET Materials /\ \A m \in DOMAIN task.left : task.left[m] \in Nat
    BY LeftFacts DEF Tasks
  <1>3. PICK m \in DOMAIN task.left :
          /\ stock' = [stock EXCEPT ![m] = task.left[m]]
          /\ supplied' = [supplied EXCEPT ![m] = @ + task.left[m] - stock[m]]
    BY <1>1 DEF CommitStock
  <1>4. Finish(k) /\ UNCHANGED <<run, consumed, contended, entangled>>
    BY DEF CommitStock
  <1>5. m \in Materials /\ HoldsMaterial(k, m) /\ task.left[m] \in Nat
    BY <1>1, <1>2 DEF HoldsMaterial
  <1>6. /\ stock \in [Materials -> Nat] /\ supplied \in [Materials -> Int]
        /\ run \in [Batches -> BatchStatuses] /\ consumed \in [Batches -> [Materials -> Nat]]
        /\ MfgShapes
    BY DEF MfgInv, MfgShapes
  <1>7. /\ stock'[m] = task.left[m] /\ supplied'[m] = supplied[m] + task.left[m] - stock[m]
        /\ \A n \in Materials : n # m => stock'[n] = stock[n] /\ supplied'[n] = supplied[n]
        /\ stock' \in [Materials -> Nat]
    BY <1>3, <1>5, <1>6
  <1>8. supplied' \in [Materials -> Int]
    <2>1. supplied[m] + task.left[m] - stock[m] \in Int
      BY <1>5, <1>6
    <2> QED
      BY <1>3, <1>6, <2>1
  <1>9. ASSUME NEW n \in Materials PROVE StockBalanced(n)'
    <2>1. Used(n)' = Used(n) /\ StockBalanced(n) /\ Used(n) \in Nat
      BY <1>4, <1>6, UsedFacts DEF Used, MfgInv
    <2>2. CASE n = m
      <3>1. stock[m] \in Nat /\ supplied[m] \in Int
        BY <1>5, <1>6
      <3>2. ASSUME m \notin contended PROVE stock'[m] = supplied'[m] - Used(m)
        <4>1. stock[m] = supplied[m] - Used(m)
          BY <2>1, <2>2, <3>2 DEF StockBalanced
        <4>2. stock'[m] = task.left[m] /\ supplied'[m] = supplied[m] + task.left[m] - stock[m]
          BY <1>7
        <4>3. Used(m) \in Nat
          BY <2>1, <2>2
        <4> QED
          BY <1>5, <3>1, <4>1, <4>2, <4>3
      <3> QED
        BY <1>4, <2>1, <2>2, <3>2 DEF StockBalanced
    <2>3. CASE n # m
      BY <1>4, <1>7, <2>1, <2>3 DEF StockBalanced
    <2> QED
      BY <2>2, <2>3
  <1>10. ASSUME NEW b \in Batches PROVE Consumes(b)'
    <2>1. Consumes(b)
      BY DEF MfgInv
    <2> QED
      BY <1>4, <2>1 DEF Consumes
  <1>11. \A n \in Materials \ contended : stock'[n] = stock[n] \/ HoldsMaterial(k, n)
    BY <1>5, <1>7
  <1> QED
    BY <1>4, <1>6, <1>7, <1>8, <1>9, <1>10, <1>11, FinishStep

\* A batch that starts has consumed its bill, and the stocks have given it.
LEMMA StartBatchStep ==
  ASSUME ManufacturingAssumption, MfgInv, NEW k \in Clerks, NEW b \in Batches, start_batch(k, b)
  PROVE  MfgInv'
  <1>1. PICK task \in Tasks : task = clerk[k] /\ Working(task, contended, entangled)
    BY DEF MfgInv, MfgShapes
  <1>2. /\ task.op = "start" /\ b \in task.batch /\ task.line > Len(Bill[b]) /\ HoldsBatch(k, b)
        /\ run' = [run EXCEPT ![b] = "in_progress"]
        /\ stock' = [m \in Materials |-> IF m \in DOMAIN task.left THEN task.left[m] ELSE stock[m]]
        /\ consumed' = [consumed EXCEPT ![b] = [m \in Materials |-> consumed[b][m] + Needs(b, m)]]
        /\ Finish(k) /\ UNCHANGED <<supplied, contended, entangled>>
    BY <1>1 DEF start_batch, HoldsBatch, HoldsMaterial
  <1>3. /\ task.line \in Nat
        /\ \A n \in Materials : n \in DOMAIN task.left <=> LinesOf(b, n, task.line) # {}
        /\ \A n \in DOMAIN task.left \ contended : task.left[n] = stock[n] - TakenBy(b, n, task.line)
        /\ task.status = "planned" /\ (b \notin entangled => run[b] = "planned")
    BY <1>1, <1>2 DEF Working, Tasks
  <1>4. DOMAIN task.left \in SUBSET Materials /\ \A m \in DOMAIN task.left : task.left[m] \in Nat
    BY LeftFacts DEF Tasks
  <1>5. /\ stock \in [Materials -> Nat] /\ supplied \in [Materials -> Int]
        /\ run \in [Batches -> BatchStatuses] /\ consumed \in [Batches -> [Materials -> Nat]]
        /\ MfgShapes
    BY DEF MfgInv, MfgShapes
  <1>6. ASSUME NEW m \in Materials PROVE TakenBy(b, m, task.line) = Needs(b, m) /\ Needs(b, m) \in Nat
    <2>1. TakenBy(b, m, task.line) = Needs(b, m)
      BY <1>2, <1>3, TakenAll
    <2>2. TakenBy(b, m, task.line) \in Nat
      BY TakenFacts
    <2> QED
      BY <2>1, <2>2
  <1> DEFINE kept == [m \in Materials |-> consumed[b][m] + Needs(b, m)]
  <1>7. kept \in [Materials -> Nat] /\ \A m \in Materials : kept[m] = consumed[b][m] + Needs(b, m)
    BY <1>5, <1>6
  <1>8. consumed' = [consumed EXCEPT ![b] = kept]
    BY <1>2
  <1> HIDE DEF kept
  <1>9. /\ consumed'[b] = kept /\ (\A c \in Batches : c # b => consumed'[c] = consumed[c])
        /\ consumed' \in [Batches -> [Materials -> Nat]]
    BY <1>5, <1>7, <1>8
  <1>10. stock' \in [Materials -> Nat]
    BY <1>2, <1>4, <1>5
  <1>11. run' \in [Batches -> BatchStatuses] /\ run'[b] = "in_progress"
         /\ \A c \in Batches : c # b => run'[c] = run[c]
    BY <1>2, <1>5 DEF BatchStatuses
  <1>12. ASSUME NEW m \in Materials PROVE StockBalanced(m)'
    <2>1. Used(m)' = Used(m) + Needs(b, m)
      BY <1>5, <1>6, <1>7, <1>9, UsedMore
    <2>2. Used(m) \in Nat /\ Needs(b, m) \in Nat /\ stock[m] \in Nat /\ supplied[m] \in Int
      BY <1>5, <1>6, UsedFacts
    <2>3. ASSUME m \notin contended PROVE stock'[m] = stock[m] - Needs(b, m)
      <3>1. CASE m \in DOMAIN task.left
        BY <1>2, <1>3, <1>6, <2>3, <3>1
      <3>2. CASE m \notin DOMAIN task.left
        <4>1. Needs(b, m) = 0
          BY <1>3, <1>6, <3>2, TakenFacts
        <4> QED
          BY <1>2, <2>2, <3>2, <4>1
      <3> QED
        BY <3>1, <3>2
    <2>4. m \notin contended => stock[m] = supplied[m] - Used(m)
      BY DEF MfgInv, StockBalanced
    <2>5. m \notin contended => stock'[m] = supplied[m] - (Used(m) + Needs(b, m))
      BY <2>2, <2>3, <2>4
    <2> QED
      BY <1>2, <2>1, <2>5 DEF StockBalanced
  <1>13. ASSUME NEW c \in Batches PROVE Consumes(c)'
    <2>1. Consumes(c)
      BY DEF MfgInv
    <2>2. CASE c = b
      <3>1. ASSUME b \notin entangled, NEW m \in Materials PROVE consumed'[b][m] = Needs(b, m)
        <4>1. consumed[b][m] = 0
          BY <1>3, <2>1, <2>2, <3>1 DEF Consumes
        <4>2. consumed'[b][m] = consumed[b][m] + Needs(b, m) /\ Needs(b, m) \in Nat
          BY <1>6, <1>7, <1>9
        <4> QED
          BY <4>1, <4>2
      <3> QED
        BY <1>2, <1>11, <2>2, <3>1 DEF Consumes
    <2>3. CASE c # b
      BY <1>2, <1>9, <1>11, <2>1, <2>3 DEF Consumes
    <2> QED
      BY <2>2, <2>3
  <1>14. \A m \in Materials \ contended : stock'[m] = stock[m] \/ HoldsMaterial(k, m)
    BY <1>1, <1>2 DEF HoldsMaterial
  <1>15. \A c \in Batches \ entangled : run'[c] = run[c] \/ HoldsBatch(k, c)
    BY <1>2, <1>11
  <1>16. UNCHANGED <<contended, entangled>> /\ supplied' \in [Materials -> Int]
    BY <1>2, <1>5
  <1> QED
    BY <1>2, <1>9, <1>10, <1>11, <1>12, <1>13, <1>14, <1>15, <1>16, FinishStep

\* A batch ends in the status that was asked for.
LEMMA EndBatchStep ==
  ASSUME MfgInv, NEW k \in Clerks, NEW b \in Batches, complete_batch(k, b) \/ cancel_batch(k, b)
  PROVE  MfgInv'
  <1>1. PICK task \in Tasks : task = clerk[k] /\ Working(task, contended, entangled)
    BY DEF MfgInv, MfgShapes
  <1>2. PICK status \in {"completed", "cancelled"} :
          /\ task.op = IF status = "completed" THEN "complete" ELSE "cancel"
          /\ b \in task.batch /\ HoldsBatch(k, b)
          /\ run' = [run EXCEPT ![b] = IF task.status = status THEN @ ELSE status]
          /\ Finish(k) /\ UNCHANGED <<stock, consumed, supplied, contended, entangled>>
    <2>1. CASE complete_batch(k, b)
      BY <1>1, <2>1 DEF complete_batch, EndBatch, HoldsBatch
    <2>2. CASE cancel_batch(k, b)
      BY <1>1, <2>2 DEF cancel_batch, EndBatch, HoldsBatch
    <2> QED
      BY <2>1, <2>2
  <1>3. /\ stock \in [Materials -> Nat] /\ supplied \in [Materials -> Int]
        /\ run \in [Batches -> BatchStatuses] /\ consumed \in [Batches -> [Materials -> Nat]]
    BY DEF MfgInv, MfgShapes
  <1>4. /\ task.status # "absent" /\ (status = "completed" => task.status = "in_progress")
        /\ b \notin entangled => run[b] = task.status
    BY <1>1, <1>2 DEF Working
  <1>5. run' \in [Batches -> BatchStatuses] /\ (\A c \in Batches : c # b => run'[c] = run[c])
        /\ (b \notin entangled => run'[b] = status)
    BY <1>2, <1>3, <1>4 DEF BatchStatuses
  <1>6. ASSUME NEW m \in Materials PROVE StockBalanced(m)'
    <2>1. StockBalanced(m) /\ Used(m)' = Used(m)
      BY <1>2 DEF MfgInv, Used
    <2> QED
      BY <1>2, <2>1 DEF StockBalanced
  <1>7. ASSUME NEW c \in Batches PROVE Consumes(c)'
    <2>1. Consumes(c)
      BY DEF MfgInv
    <2>2. CASE c = b
      <3>1. ASSUME b \notin entangled, NEW m \in Materials
            PROVE  /\ status = "completed" => consumed[b][m] = Needs(b, m)
                   /\ status = "cancelled" => consumed[b][m] \in {0, Needs(b, m)}
        <4>1. run[b] \in BatchStatuses \ {"absent"} /\ (status = "completed" => run[b] = "in_progress")
          BY <1>3, <1>4, <3>1
        <4> QED
          BY <2>1, <2>2, <3>1, <4>1 DEF Consumes, BatchStatuses
      <3> QED
        BY <1>2, <1>5, <2>2, <3>1 DEF Consumes
    <2>3. CASE c # b
      BY <1>2, <1>5, <2>1, <2>3 DEF Consumes
    <2> QED
      BY <2>2, <2>3
  <1>8. /\ \A m \in Materials \ contended : stock'[m] = stock[m] \/ HoldsMaterial(k, m)
        /\ \A c \in Batches \ entangled : run'[c] = run[c] \/ HoldsBatch(k, c)
        /\ stock' \in [Materials -> Nat] /\ supplied' \in [Materials -> Int]
        /\ consumed' \in [Batches -> [Materials -> Nat]]
    BY <1>2, <1>3, <1>5
  <1> QED
    BY <1>2, <1>5, <1>6, <1>7, <1>8, FinishStep

\* A request fails, and leaves the rows as they are.
LEMMA AbandonTaskStep ==
  ASSUME MfgInv, NEW k \in Clerks, AbandonTask(k)
  PROVE  MfgInv'
  <1>1. Finish(k) /\ UNCHANGED <<stock, run, consumed, supplied, contended, entangled>>
    BY DEF AbandonTask
  <1>2. clerk' = [clerk EXCEPT ![k] = NoTask]
    BY <1>1 DEF Finish
  <1>3. NoTask \in Tasks /\ DOMAIN NoTask.left = {} /\ NoTask.batch = {} /\ Working(NoTask, contended', entangled')
    BY NoTaskFacts DEF Working
  <1> QED
    BY <1>1, <1>2, <1>3, StockTaskStep

\* A batch is planned, and nobody has read it yet.
LEMMA CreateBatchStep ==
  ASSUME MfgInv, NEW b \in Batches, create_batch(b)
  PROVE  MfgInv'
  <1>1. /\ run[b] = "absent" /\ run' = [run EXCEPT ![b] = "planned"]
        /\ UNCHANGED <<stock, consumed, clerk, supplied, contended, entangled>>
    BY DEF create_batch
  <1>2. run' \in [Batches -> BatchStatuses] /\ run'[b] = "planned"
        /\ \A c \in Batches : c # b => run'[c] = run[c]
    BY <1>1 DEF MfgInv, MfgShapes, BatchStatuses
  <1>3. MfgShapes'
    BY <1>1, <1>2 DEF MfgInv, MfgShapes
  <1>4. ASSUME NEW k \in Clerks PROVE Working(clerk[k], contended, entangled)'
    <2>1. PICK y \in Tasks : y = clerk[k] /\ Working(y, contended, entangled)
      BY DEF MfgInv, MfgShapes
    <2>2. ASSUME NEW c \in y.batch \ entangled PROVE run'[c] = run[c]
      <3>1. c \in Batches /\ y.status = run[c] /\ y.status # "absent"
        BY <2>1 DEF Working, Tasks
      <3> QED
        BY <1>1, <1>2, <3>1
    <2>3. Working(y, contended, entangled)'
      BY <1>1, <2>1, <2>2 DEF Working
    <2> QED
      BY <1>1, <2>1, <2>3 DEF Working
  <1>5. ASSUME NEW m \in Materials PROVE MaterialAlone(m)' /\ StockBalanced(m)'
    <2>1. MaterialAlone(m) /\ StockBalanced(m) /\ Used(m)' = Used(m)
      BY <1>1 DEF MfgInv, Used
    <2> QED
      BY <1>1, <2>1 DEF MaterialAlone, HoldsMaterial, StockBalanced
  <1>6. ASSUME NEW c \in Batches PROVE BatchAlone(c)' /\ Consumes(c)'
    <2>1. BatchAlone(c) /\ Consumes(c)
      BY DEF MfgInv
    <2>2. BatchAlone(c)'
      BY <1>1, <2>1 DEF BatchAlone, HoldsBatch
    <2>3. Consumes(c)'
      BY <1>1, <1>2, <2>1 DEF Consumes
    <2> QED
      BY <2>2, <2>3
  <1> QED
    BY <1>3, <1>4, <1>5, <1>6 DEF MfgInv

-----------------------------------------------------------------------------
LEMMA MfgInvInit ==
  ASSUME ManufacturingAssumption, ManufacturingInit
  PROVE  MfgInv
  <1>1. /\ stock = [m \in Materials |-> 0] /\ run = [b \in Batches |-> "absent"]
        /\ consumed = [b \in Batches |-> [m \in Materials |-> 0]]
        /\ clerk = [k \in Clerks |-> NoTask] /\ supplied = [m \in Materials |-> 0]
    BY DEF ManufacturingInit
  <1>2. MfgShapes
    <2>1. consumed \in [Batches -> [Materials -> Nat]] /\ run \in [Batches -> BatchStatuses]
      BY <1>1 DEF BatchStatuses
    <2> QED
      BY <1>1, <2>1, NoTaskFacts DEF MfgShapes
  <1>3. \A k \in Clerks : Working(clerk[k], contended, entangled)
    BY <1>1, NoTaskFacts DEF Working
  <1>4. ASSUME NEW m \in Materials PROVE MaterialAlone(m) /\ StockBalanced(m)
    <2>1. MaterialAlone(m)
      BY <1>1, NoTaskFacts DEF MaterialAlone, HoldsMaterial
    <2>2. Used(m) = 0
      <3> DEFINE f == [b \in Batches |-> consumed[b][m]]
      <3>1. \A b \in Batches : f[b] = 0
        BY <1>1
      <3>2. IsFiniteSet(Batches) /\ Used(m) = SumOver(f, Batches)
        BY DEF ManufacturingAssumption, Used
      <3> HIDE DEF f
      <3> QED
        BY <3>1, <3>2, SumZero
    <2> QED
      BY <1>1, <2>1, <2>2 DEF StockBalanced
  <1>5. ASSUME NEW b \in Batches PROVE BatchAlone(b) /\ Consumes(b)
    BY <1>1, NoTaskFacts DEF BatchAlone, HoldsBatch, Consumes
  <1> QED
    BY <1>2, <1>3, <1>4, <1>5 DEF MfgInv

LEMMA MfgInvNext ==
  ASSUME ManufacturingAssumption, MfgInv, [ManufacturingNext]_mfgVars
  PROVE  MfgInv'
  <1>1. ASSUME NEW b \in Batches, create_batch(b) PROVE MfgInv'
    BY <1>1, CreateBatchStep
  <1>2. ASSUME NEW k \in Clerks, ClerkStep(k) PROVE MfgInv'
    <2>1. ASSUME NEW b \in Batches, BeginStart(k, b) PROVE MfgInv'
      BY <2>1, LoadBatchStep DEF BeginStart
    <2>2. ASSUME NEW b \in Batches, BeginComplete(k, b) PROVE MfgInv'
      BY <2>2, LoadBatchStep DEF BeginComplete
    <2>3. ASSUME NEW b \in Batches, BeginCancel(k, b) PROVE MfgInv'
      BY <2>3, LoadBatchStep DEF BeginCancel
    <2> QED
      BY <1>2, <2>1, <2>2, <2>3, CommitStockStep, AbandonTaskStep, BeginStockStep, ConsumeLineStep,
         StartBatchStep, EndBatchStep DEF ClerkStep
  <1>3. CASE UNCHANGED mfgVars
    <2>1. UNCHANGED <<stock, run, consumed, clerk, supplied, contended, entangled>>
      BY <1>3 DEF mfgVars
    <2>2. ASSUME NEW m \in Materials PROVE MaterialAlone(m)' /\ StockBalanced(m)'
      <3>1. MaterialAlone(m) /\ StockBalanced(m) /\ Used(m)' = Used(m)
        BY <2>1 DEF MfgInv, Used
      <3> QED
        BY <2>1, <3>1 DEF MaterialAlone, HoldsMaterial, StockBalanced
    <2>3. ASSUME NEW b \in Batches PROVE BatchAlone(b)' /\ Consumes(b)'
      <3>1. BatchAlone(b) /\ Consumes(b)
        BY DEF MfgInv
      <3> QED
        BY <2>1, <3>1 DEF BatchAlone, HoldsBatch, Consumes
    <2>4. ASSUME NEW k \in Clerks PROVE Working(clerk[k], contended, entangled)'
      <3>1. Working(clerk[k], contended, entangled)
        BY DEF MfgInv
      <3> QED
        BY <2>1, <3>1 DEF Working
    <2>5. MfgShapes'
      BY <2>1 DEF MfgInv, MfgShapes
    <2> QED
      BY <2>2, <2>3, <2>4, <2>5 DEF MfgInv
  <1> QED
    BY <1>1, <1>2, <1>3 DEF ManufacturingNext

\* Whatever the bills, the stocks and the crossing of requests, no stock is
\* negative; what one request at a time held is what was supplied less what the
\* rows of the batches say; and a batch that one request at a time worked on
\* consumed its bill once (production_batch_service.py:95-178, 184-224).
THEOREM MaterialsAreAccounted == ManufacturingSpec => []MaterialsAccounted
  <1> USE ManufacturingAssumption
  <1>1. ManufacturingInit => MfgInv
    BY MfgInvInit
  <1>2. MfgInv /\ [ManufacturingNext]_mfgVars => MfgInv'
    BY MfgInvNext
  <1>3. MfgInv => MaterialsAccounted
    <2> SUFFICES ASSUME MfgInv PROVE MaterialsAccounted
      OBVIOUS
    <2>1. \A m \in Materials : stock[m] >= 0
      <3>1. \A m \in Materials : stock[m] \in Nat
        BY DEF MfgInv, MfgShapes
      <3> QED
        BY <3>1
    <2>2. StockAccounted
      BY <2>1 DEF MfgInv, StockBalanced, Used, StockAccounted
    <2>3. BillConsumedOnce
      BY DEF MfgInv, Consumes, BillConsumedOnce
    <2> QED
      BY <2>2, <2>3 DEF MaterialsAccounted
  <1> QED
    BY <1>1, <1>2, <1>3, PTL DEF ManufacturingSpec

\* Stocks, batches, what batches say they consumed, and what requests hold keep
\* their types: a request writes materials and batches that exist, and no others
\* are marked (production_batch_service.py, raw_material_service.py).
THEOREM ManufacturingTyped == ManufacturingSpec => []ManufacturingTypeOK
  <1> DEFINE Marked == contended \subseteq Materials /\ entangled \subseteq Batches
  <1> USE ManufacturingAssumption
  <1>1. ManufacturingInit => MfgInv /\ Marked
    BY MfgInvInit DEF ManufacturingInit
  <1>2. MfgInv /\ Marked /\ [ManufacturingNext]_mfgVars => MfgInv' /\ Marked'
    <2> SUFFICES ASSUME MfgInv, Marked, [ManufacturingNext]_mfgVars PROVE MfgInv' /\ Marked'
      OBVIOUS
    <2>1. MfgInv'
      BY MfgInvNext
    <2>2. ASSUME NEW k \in Clerks, NEW b \in Batches, ConsumeLine(k, b) PROVE Marked'
      <3>1. /\ clerk[k].op = "start" /\ b \in clerk[k].batch /\ clerk[k].line <= Len(Bill[b])
            /\ entangled' = entangled
        BY <2>2 DEF ConsumeLine, HoldsBatch
      <3>2. clerk[k].line \in 1..(Len(Bill[b]) + 1)
        BY <3>1 DEF MfgInv, Working
      <3>3. /\ Len(Bill[b]) \in Nat
            /\ \A i \in 1..Len(Bill[b]) : Bill[b][i].material \in Materials
        BY BillFacts
      <3>4. clerk[k].line \in 1..Len(Bill[b])
        BY <3>1, <3>2, <3>3
      <3>5. Bill[b][clerk[k].line].material \in Materials
        BY <3>3, <3>4
      <3>6. contended' \subseteq contended \cup {Bill[b][clerk[k].line].material}
        BY <2>2 DEF ConsumeLine, LoadMaterial
      <3> QED
        BY <3>1, <3>5, <3>6
    <2>3. ASSUME NEW k \in Clerks, ClerkStep(k), \A b \in Batches : ~ConsumeLine(k, b)
          PROVE  Marked'
      BY <2>3 DEF ClerkStep, CommitStock, AbandonTask, BeginIncrease, BeginDecrease, LoadMaterial,
                  BeginStart, BeginComplete, BeginCancel, LoadBatch, start_batch, complete_batch,
                  cancel_batch, EndBatch
    <2>4. CASE UNCHANGED mfgVars
      BY <2>1, <2>4 DEF mfgVars
    <2>5. ASSUME NEW b \in Batches, create_batch(b) PROVE Marked'
      BY <2>5 DEF create_batch
    <2> QED
      BY <2>1, <2>2, <2>3, <2>4, <2>5 DEF ManufacturingNext
  <1>3. MfgInv /\ Marked => ManufacturingTypeOK
    <2> SUFFICES ASSUME MfgInv, Marked PROVE ManufacturingTypeOK
      OBVIOUS
    <2>1. /\ stock \in [Materials -> Nat] /\ run \in [Batches -> BatchStatuses]
          /\ consumed \in [Batches -> [Materials -> Nat]] /\ supplied \in [Materials -> Int]
          /\ clerk \in [Clerks -> Tasks]
      BY DEF MfgInv, MfgShapes
    <2>2. stock \in [Materials -> Int]
      BY <2>1
    <2>3. ASSUME NEW k \in Clerks
          PROVE  /\ clerk[k].op \in {"none", "stock", "start", "complete", "cancel"}
                 /\ clerk[k].batch \subseteq Batches
                 /\ DOMAIN clerk[k].left \subseteq Materials
      <3>1. clerk[k].left \in Lefts
        BY <2>1 DEF Tasks
      <3>2. DOMAIN clerk[k].left \subseteq Materials
        BY <3>1, LeftFacts
      <3> QED
        BY <2>1, <3>2 DEF Tasks
    <2> QED
      BY <2>1, <2>2, <2>3 DEF ManufacturingTypeOK
  <1> QED
    BY <1>1, <1>2, <1>3, PTL DEF ManufacturingSpec

-----------------------------------------------------------------------------
(* All nine.                                                               *)

\* Nothing that the nine parts do, one beside the other, gives a row or what a
\* request or a task holds a value of another type.
THEOREM ServicesTyped == ServicesSpec => []ServicesTypeOK
  BY PaymentsTyped, ShipmentsTyped, SubscriptionsTyped, GatewayTyped, ManufacturingTyped,
     ReturnsTyped, AddressesTyped, ReviewsTyped, InvoicePdfsTyped, PTL
  DEF ServicesSpec, ServicesTypeOK
=============================================================================
