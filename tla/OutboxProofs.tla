----------------------------- MODULE OutboxProofs -----------------------------
(***************************************************************************)
(* Proofs about the notification outbox, for any messages, letters, workers *)
(* and retries: types, dead letters, and that only three gaps of the code   *)
(* lose a message.                                                          *)
(***************************************************************************)
EXTENDS NotificationOutbox, TLAPS

Todos == SUBSET Messages
Currents == Messages \cup {NoMessage}
LetterIds == Letters \cup {NoLetter}

WorkerRow == [task : Tasks, todo : Todos, current : Currents, copy : Row, letter : LetterIds]

\* An UPDATE of the columns that differ keeps the rest.
LEMMA FlushFacts ==
  ASSUME NEW row \in Row, NEW read \in Row, NEW new \in Row
  PROVE  /\ Flush(row, read, new) \in Row
         /\ Flush(row, read, new).status = IF new.status # read.status THEN new.status
                                                                      ELSE row.status
         /\ new.push = read.push => Flush(row, read, new).push = row.push
  <1> USE DEF Row, Flush
  <1>1. DOMAIN row = {"status", "attempts", "next", "push"}
    OBVIOUS
  <1>2. Flush(row, read, new) =
          [status   |-> IF new.status # read.status THEN new.status ELSE row.status,
           attempts |-> IF new.attempts # read.attempts THEN new.attempts ELSE row.attempts,
           next     |-> IF new.next # read.next THEN new.next ELSE row.next,
           push     |-> IF new.push # read.push THEN new.push ELSE row.push]
    BY <1>1
  <1> QED
    BY <1>2

\* A worker's row is replaced by another of the type.
LEMMA WorkerReplaced ==
  ASSUME OutboxTypeOK, NEW w \in Workers, NEW v \in WorkerRow,
         worker' = [worker EXCEPT ![w] = v]
  PROVE  /\ worker' \in [Workers -> WorkerRow]
         /\ worker'[w] = v
         /\ \A u \in Workers : u # w => worker'[u] = worker[u]
  <1>1. worker \in [Workers -> WorkerRow]
    BY DEF OutboxTypeOK, WorkerRow, Todos, Currents, LetterIds
  <1> QED
    BY <1>1

LEMMA MessageReplaced ==
  ASSUME OutboxTypeOK, NEW m \in Messages, NEW r \in Row,
         message' = [message EXCEPT ![m] = r]
  PROVE  /\ message' \in [Messages -> Row]
         /\ message'[m] = r
         /\ \A x \in Messages : x # m => message'[x] = message[x]
  BY DEF OutboxTypeOK

\* One more copy of a dispatch task.
LEMMA Enqueued ==
  ASSUME OutboxAssumption, OutboxTypeOK, NEW m \in Messages, Enqueue(m)
  PROVE  /\ dispatch' \in [Messages -> 0..MaxCopies]
         /\ dispatch'[m] > 0
         /\ \A x \in Messages : x # m => dispatch'[x] = dispatch[x]
  BY DEF OutboxAssumption, OutboxTypeOK, Enqueue, Add

\* The worker's task and row, as types.
LEMMA WorkerTyped ==
  ASSUME OutboxAssumption, OutboxTypeOK, NEW w \in Workers
  PROVE  /\ worker[w] \in WorkerRow
         /\ worker[w].copy \in Row
         /\ Idle \in WorkerRow
         /\ NoRow \in Row
         /\ NoMessage \in Currents /\ NoLetter \in LetterIds
         /\ \A m \in Messages : m \in Currents /\ worker[w].todo \ {m} \in Todos
         /\ worker[w].todo \in SUBSET Messages
         /\ \A t \in {"idle", "relay", "mark", "retry", "dispatch", "sending", "read",
                       "reprocess", "requeue"} : t \in Tasks
  <1> USE DEF Todos, Currents, LetterIds
  <1>1. worker[w] \in WorkerRow
    BY DEF OutboxTypeOK, WorkerRow
  <1>2. /\ worker[w].copy \in Row /\ worker[w].todo \in Todos
    BY <1>1 DEF WorkerRow
  <1>3. NoRow \in Row
    BY DEF OutboxAssumption, NoRow, Row
  <1>4. Idle \in WorkerRow
    BY <1>3 DEF WorkerRow, Idle, Tasks
  <1> QED
    BY <1>1, <1>2, <1>3, <1>4 DEF Tasks

\* The other types follow from those of the rows.
LEMMA TypesTogether ==
  ASSUME message' \in [Messages -> Row], outbox' \in [Messages -> {"none", "new", "published"}],
         letter' \in [Letters -> Letter], dispatch' \in [Messages -> 0..MaxCopies],
         dlq' \in [Letters -> 0..MaxCopies], worker' \in [Workers -> WorkerRow],
         abandoned' \subseteq Messages
  PROVE  OutboxTypeOK'
  BY DEF OutboxTypeOK, WorkerRow, Todos, Currents, LetterIds

-----------------------------------------------------------------------------
(* What each step changes.                                                 *)

LEMMA EnqueueMessageFacts ==
  ASSUME OutboxAssumption, OutboxTypeOK, NEW m \in Messages, NEW push \in BOOLEAN,
         EnqueueMessage(m, push)
  PROVE  /\ OutboxTypeOK'
         /\ UNCHANGED <<letter, dispatch, dlq, worker, abandoned>>
         /\ message[m].status = "absent" /\ message'[m].status = "pending"
         /\ \A x \in Messages : x # m => message'[x] = message[x]
         /\ outbox'[m] = "new"
         /\ \A x \in Messages : x # m => outbox'[x] = outbox[x]
  <1> DEFINE r == [message[m] EXCEPT !.status = "pending", !.push = push]
  <1>0. message[m] \in Row
    BY DEF OutboxTypeOK
  <1>1. r \in Row
    <2>1. [message[m] EXCEPT !.status = "pending"] \in Row
      BY <1>0 DEF Row
    <2> QED
      BY <2>1 DEF Row
  <1>2. message' = [message EXCEPT ![m] = r]
    BY DEF EnqueueMessage, OutboxTypeOK
  <1>3. r.status = "pending"
    BY DEF OutboxTypeOK, Row
  <1> HIDE DEF r
  <1>4. /\ message' \in [Messages -> Row] /\ message'[m] = r
        /\ \A x \in Messages : x # m => message'[x] = message[x]
    BY <1>1, <1>2, MessageReplaced
  <1> QED
    BY <1>3, <1>4 DEF EnqueueMessage, OutboxTypeOK

LEMMA BackoffFacts ==
  ASSUME OutboxAssumption, OutboxTypeOK, NEW m \in Messages, BackoffElapses(m)
  PROVE  /\ OutboxTypeOK'
         /\ UNCHANGED <<outbox, letter, dispatch, dlq, worker, abandoned>>
         /\ \A x \in Messages : /\ message'[x].status = message[x].status
                                /\ message'[x].push = message[x].push
                                /\ message[x].next # "none" => message'[x].next # "none"
  <1> DEFINE r == [message[m] EXCEPT !.next = "due"]
  <1>1. r \in Row /\ r.status = message[m].status /\ r.push = message[m].push /\ r.next = "due"
    BY DEF OutboxTypeOK, Row
  <1>2. message' = [message EXCEPT ![m] = r]
    BY DEF BackoffElapses, OutboxTypeOK
  <1> HIDE DEF r
  <1>4. /\ message' \in [Messages -> Row] /\ message'[m] = r
        /\ \A x \in Messages : x # m => message'[x] = message[x]
    BY <1>1, <1>2, MessageReplaced
  <1> QED
    BY <1>1, <1>4 DEF BackoffElapses, OutboxTypeOK
-----------------------------------------------------------------------------
(* The polls.                                                              *)

\* A poll takes the messages it has read, all of them known to the outbox.
LEMMA PollFacts ==
  ASSUME OutboxAssumption, OutboxTypeOK, NEW w \in Workers, NEW task \in {"relay", "retry"},
         NEW read \in SUBSET Messages,
         worker' = [worker EXCEPT ![w] = [Idle EXCEPT !.task = task, !.todo = read]],
         UNCHANGED <<message, outbox, letter, dispatch, dlq, abandoned>>
  PROVE  /\ OutboxTypeOK'
         /\ worker'[w].task = task /\ worker'[w].todo = read
         /\ worker'[w].current = NoMessage
         /\ \A u \in Workers : u # w => worker'[u] = worker[u]
  <1> DEFINE v == [Idle EXCEPT !.task = task, !.todo = read]
  <1>0. read \in Todos /\ Idle.current = NoMessage
    BY DEF Todos, Idle
  <1>1. v.task = task /\ v.todo = read /\ v.current = NoMessage /\ v \in WorkerRow
    BY <1>0, WorkerTyped DEF WorkerRow
  <1>3. worker' = [worker EXCEPT ![w] = v]
    OBVIOUS
  <1> HIDE DEF v
  <1>4. /\ worker' \in [Workers -> WorkerRow] /\ worker'[w] = v
        /\ \A u \in Workers : u # w => worker'[u] = worker[u]
    BY <1>1, <1>3, WorkerReplaced
  <1>5. OutboxTypeOK'
    BY <1>4, TypesTogether DEF OutboxTypeOK
  <1> QED
    BY <1>1, <1>4, <1>5

LEMMA RelayEventFacts ==
  ASSUME OutboxAssumption, OutboxTypeOK, NEW w \in Workers, NEW m \in Messages,
         RelayEvent(w, m)
  PROVE  /\ OutboxTypeOK'
         /\ UNCHANGED <<message, outbox, letter, dlq, abandoned>>
         /\ m \in worker[w].todo /\ worker[w].task = "relay"
         /\ dispatch'[m] > 0
         /\ \A x \in Messages : x # m => dispatch'[x] = dispatch[x]
         /\ worker'[w].task = "mark" /\ worker'[w].current = m
         /\ worker'[w].todo \subseteq worker[w].todo
         /\ \A u \in Workers : u # w => worker'[u] = worker[u]
  <1> DEFINE v == [worker[w] EXCEPT !.task = "mark", !.current = m, !.todo = @ \ {m}]
  <1>1. v \in WorkerRow /\ v.task = "mark" /\ v.current = m /\ v.todo = worker[w].todo \ {m}
    BY WorkerTyped DEF WorkerRow
  <1>3. worker' = [worker EXCEPT ![w] = v]
    BY DEF RelayEvent, Start
  <1> HIDE DEF v
  <1>4. /\ worker' \in [Workers -> WorkerRow] /\ worker'[w] = v
        /\ \A u \in Workers : u # w => worker'[u] = worker[u]
    BY <1>1, <1>3, WorkerReplaced
  <1>5. /\ dispatch' \in [Messages -> 0..MaxCopies] /\ dispatch'[m] > 0
        /\ \A x \in Messages : x # m => dispatch'[x] = dispatch[x]
    BY Enqueued DEF RelayEvent
  <1>6. OutboxTypeOK'
    BY <1>4, <1>5, TypesTogether DEF RelayEvent, OutboxTypeOK
  <1> QED
    BY <1>1, <1>4, <1>5, <1>6 DEF RelayEvent

LEMMA MarkPublishedFacts ==
  ASSUME OutboxAssumption, OutboxTypeOK, NEW w \in Workers, NEW m \in Messages,
         MarkPublished(w, m)
  PROVE  /\ OutboxTypeOK'
         /\ UNCHANGED <<message, letter, dispatch, dlq, abandoned>>
         /\ Running(w, "mark", m)
         /\ outbox'[m] = "published"
         /\ \A x \in Messages : x # m => outbox'[x] = outbox[x]
         /\ worker'[w].task \in {"relay", "idle"} /\ worker'[w].current = NoMessage
         /\ worker'[w].todo \subseteq worker[w].todo
         /\ \A u \in Workers : u # w => worker'[u] = worker[u]
  <1> DEFINE next == IF worker[w].todo = {} THEN Idle
                     ELSE [worker[w] EXCEPT !.task = "relay", !.current = NoMessage]
  <1>1. /\ next \in WorkerRow /\ next.task \in {"relay", "idle"}
        /\ next.current = NoMessage /\ next.todo \subseteq worker[w].todo
    <2>1. CASE worker[w].todo = {}
      BY <2>1, WorkerTyped DEF Idle
    <2>2. CASE worker[w].todo # {}
      BY <2>2, WorkerTyped DEF WorkerRow
    <2> QED
      BY <2>1, <2>2
  <1>2. worker' = [worker EXCEPT ![w] = next]
    BY DEF MarkPublished, Start, Finish
  <1> HIDE DEF next
  <1>3. /\ worker' \in [Workers -> WorkerRow] /\ worker'[w] = next
        /\ \A u \in Workers : u # w => worker'[u] = worker[u]
    BY <1>1, <1>2, WorkerReplaced
  <1>4. OutboxTypeOK'
    BY <1>3, TypesTogether DEF MarkPublished, OutboxTypeOK
  <1> QED
    BY <1>1, <1>3, <1>4 DEF MarkPublished, OutboxTypeOK

LEMMA RetryMessageFacts ==
  ASSUME OutboxAssumption, OutboxTypeOK, NEW w \in Workers, NEW m \in Messages,
         RetryMessage(w, m)
  PROVE  /\ OutboxTypeOK'
         /\ UNCHANGED <<message, outbox, letter, dlq, abandoned>>
         /\ m \in worker[w].todo /\ worker[w].task = "retry"
         /\ dispatch'[m] > 0
         /\ \A x \in Messages : x # m => dispatch'[x] = dispatch[x]
         /\ worker'[w].task \in {"retry", "idle"}
         /\ worker'[w].todo \subseteq worker[w].todo
         /\ \A u \in Workers : u # w => worker'[u] = worker[u]
  <1> DEFINE next == IF worker[w].todo = {m} THEN Idle
                     ELSE [worker[w] EXCEPT !.todo = @ \ {m}]
  <1>1. /\ next \in WorkerRow /\ next.task \in {"retry", "idle"}
        /\ next.todo \subseteq worker[w].todo
    <2>1. CASE worker[w].todo = {m}
      BY <2>1, WorkerTyped DEF Idle
    <2>2. CASE worker[w].todo # {m}
      BY <2>2, WorkerTyped DEF WorkerRow, RetryMessage
    <2> QED
      BY <2>1, <2>2
  <1>2. worker' = [worker EXCEPT ![w] = next]
    BY DEF RetryMessage, Start, Finish
  <1> HIDE DEF next
  <1>3. /\ worker' \in [Workers -> WorkerRow] /\ worker'[w] = next
        /\ \A u \in Workers : u # w => worker'[u] = worker[u]
    BY <1>1, <1>2, WorkerReplaced
  <1>4. /\ dispatch' \in [Messages -> 0..MaxCopies] /\ dispatch'[m] > 0
        /\ \A x \in Messages : x # m => dispatch'[x] = dispatch[x]
    BY Enqueued DEF RetryMessage
  <1>5. OutboxTypeOK'
    BY <1>3, <1>4, TypesTogether DEF RetryMessage, OutboxTypeOK
  <1> QED
    BY <1>1, <1>3, <1>4, <1>5 DEF RetryMessage
-----------------------------------------------------------------------------
(* A dispatch.                                                             *)

LEMMA BeginDispatchFacts ==
  ASSUME OutboxAssumption, OutboxTypeOK, NEW w \in Workers, NEW m \in Messages,
         BeginDispatch(w, m)
  PROVE  /\ OutboxTypeOK'
         /\ UNCHANGED <<message, outbox, letter, dlq, abandoned>>
         /\ worker[w] = Idle /\ dispatch[m] > 0
         /\ \A x \in Messages : x # m => dispatch'[x] = dispatch[x]
         /\ worker'[w].task = "dispatch" /\ worker'[w].current = m
         /\ worker'[w].copy = message[m] /\ worker'[w].todo = {}
         /\ \A u \in Workers : u # w => worker'[u] = worker[u]
  <1> DEFINE v == [Idle EXCEPT !.task = "dispatch", !.current = m, !.copy = message[m]]
  <1>0. message[m] \in Row /\ Idle.todo = {}
    BY DEF OutboxTypeOK, Idle
  <1>1. /\ v \in WorkerRow /\ v.task = "dispatch" /\ v.current = m
        /\ v.copy = message[m] /\ v.todo = {}
    BY <1>0, WorkerTyped DEF WorkerRow
  <1>2. worker' = [worker EXCEPT ![w] = v]
    BY DEF BeginDispatch, Start
  <1> HIDE DEF v
  <1>3. /\ worker' \in [Workers -> WorkerRow] /\ worker'[w] = v
        /\ \A u \in Workers : u # w => worker'[u] = worker[u]
    BY <1>1, <1>2, WorkerReplaced
  <1>4. /\ dispatch' \in [Messages -> 0..MaxCopies]
        /\ \A x \in Messages : x # m => dispatch'[x] = dispatch[x]
    BY DEF BeginDispatch, OutboxTypeOK, OutboxAssumption
  <1>5. OutboxTypeOK'
    BY <1>3, <1>4, TypesTogether DEF BeginDispatch, OutboxTypeOK
  <1> QED
    BY <1>1, <1>3, <1>4, <1>5 DEF BeginDispatch

LEMMA StartAttemptFacts ==
  ASSUME OutboxAssumption, OutboxTypeOK, NEW w \in Workers, NEW m \in Messages,
         StartAttempt(w, m)
  PROVE  /\ OutboxTypeOK'
         /\ UNCHANGED <<outbox, letter, dispatch, dlq, abandoned>>
         /\ Running(w, "dispatch", m)
         /\ \A x \in Messages : x # m => message'[x] = message[x]
         /\ message'[m].push = message[m].push
         /\ message'[m].status \in {"processing", message[m].status}
         /\ worker'[w].task = "sending" /\ worker'[w].current = m
         /\ worker'[w].copy.push = worker[w].copy.push /\ worker'[w].todo = worker[w].todo
         /\ \A u \in Workers : u # w => worker'[u] = worker[u]
  <1> DEFINE read == worker[w].copy
             new == [read EXCEPT !.status = "processing",
                                 !.attempts = IF @ < MaxRetries THEN @ + 1 ELSE @]
             v == [worker[w] EXCEPT !.task = "sending", !.copy = new]
             r == Flush(message[m], read, new)
  <1>0. message[m] \in Row /\ read \in Row
    BY WorkerTyped DEF OutboxTypeOK
  <1>1. new \in Row /\ new.status = "processing" /\ new.push = read.push
    <2> DEFINE more == IF read.attempts < MaxRetries THEN read.attempts + 1 ELSE read.attempts
               first == [read EXCEPT !.status = "processing"]
    <2>1. more \in 0..MaxRetries
      BY <1>0 DEF Row, OutboxAssumption
    <2>2. first \in Row /\ first.status = "processing" /\ first.push = read.push
      BY <1>0 DEF Row
    <2>3. new = [first EXCEPT !.attempts = more]
      BY <1>0 DEF Row
    <2> HIDE DEF more, first, new
    <2> QED
      BY <2>1, <2>2, <2>3 DEF Row
  <1>2. worker' = [worker EXCEPT ![w] = v] /\ message' = [message EXCEPT ![m] = r]
    BY DEF StartAttempt, Start
  <1>3. worker[w].task = "dispatch" /\ worker[w].current = m
    BY DEF StartAttempt, Running
  <1> HIDE DEF new
  <1>4. /\ v \in WorkerRow /\ v.task = "sending" /\ v.current = worker[w].current
        /\ v.copy = new /\ v.todo = worker[w].todo
    BY <1>1, WorkerTyped DEF WorkerRow
  <1>5. r \in Row /\ r.push = message[m].push /\ r.status \in {"processing", message[m].status}
    BY <1>0, <1>1, FlushFacts
  <1> HIDE DEF v, r
  <1>6. /\ worker' \in [Workers -> WorkerRow] /\ worker'[w] = v
        /\ \A u \in Workers : u # w => worker'[u] = worker[u]
    BY <1>4, <1>2, WorkerReplaced
  <1>7. /\ message' \in [Messages -> Row] /\ message'[m] = r
        /\ \A x \in Messages : x # m => message'[x] = message[x]
    BY <1>5, <1>2, MessageReplaced
  <1>8. OutboxTypeOK'
    BY <1>6, <1>7, TypesTogether DEF StartAttempt, OutboxTypeOK
  <1> QED
    BY <1>1, <1>3, <1>4, <1>5, <1>6, <1>7, <1>8 DEF StartAttempt

LEMMA OutcomeFacts ==
  ASSUME OutboxAssumption, OutboxTypeOK, NEW w \in Workers, NEW m \in Messages,
         NEW status \in {"sent", "failed", "dead"}, NEW next \in {"none", "later"},
         Outcome(w, m, status, next)
  PROVE  /\ message' \in [Messages -> Row] /\ worker' \in [Workers -> WorkerRow]
         /\ Running(w, "sending", m)
         /\ \A x \in Messages : x # m => message'[x] = message[x]
         /\ message'[m].push = message[m].push /\ message'[m].status = status
         /\ next # "none" => message'[m].next # "none"
         /\ worker'[w] = Idle
         /\ \A u \in Workers : u # w => worker'[u] = worker[u]
  <1> DEFINE later == IF next = "none" THEN message[m].next ELSE next
             first == [message[m] EXCEPT !.status = status]
             r == [first EXCEPT !.next = later]
  <1>0. message[m] \in Row /\ later \in {"none", "later", "due"}
    BY DEF OutboxTypeOK, Row
  <1>1. first \in Row /\ first.push = message[m].push /\ first.status = status
    BY <1>0 DEF Row
  <1>2. message' = [message EXCEPT ![m] = r]
    BY <1>0 DEF Outcome, OutboxTypeOK, Row
  <1> HIDE DEF first
  <1>3. r \in Row /\ r.push = message[m].push /\ r.status = status /\ r.next = later
    BY <1>0, <1>1 DEF Row
  <1> HIDE DEF r
  <1>4. /\ message' \in [Messages -> Row] /\ message'[m] = r
        /\ \A x \in Messages : x # m => message'[x] = message[x]
    BY <1>2, <1>3, MessageReplaced
  <1>5. worker' = [worker EXCEPT ![w] = Idle] /\ Running(w, "sending", m)
    BY DEF Outcome, Finish, Start
  <1>6. /\ worker' \in [Workers -> WorkerRow] /\ worker'[w] = Idle
        /\ \A u \in Workers : u # w => worker'[u] = worker[u]
    BY <1>5, WorkerTyped, WorkerReplaced
  <1> QED
    BY <1>3, <1>4, <1>5, <1>6

\* An attempt whose outcome is not the dead-letter queue.
LEMMA EndAttemptFacts ==
  ASSUME OutboxAssumption, OutboxTypeOK, NEW w \in Workers, NEW m \in Messages,
         NoAdapter(w, m) \/ Sent(w, m) \/ ScheduleRetry(w, m)
  PROVE  /\ OutboxTypeOK'
         /\ UNCHANGED <<outbox, letter, dispatch, dlq, abandoned>>
         /\ Running(w, "sending", m)
         /\ \A x \in Messages : x # m => message'[x] = message[x]
         /\ message'[m].push = message[m].push
         /\ \/ message'[m].status = "sent"
            \/ message'[m].status = "failed" /\ message'[m].next # "none"
            \/ message'[m].status = "failed" /\ worker[w].copy.push
         /\ worker'[w] = Idle
         /\ \A u \in Workers : u # w => worker'[u] = worker[u]
  <1>1. CASE NoAdapter(w, m)
    <2>1. Outcome(w, m, "failed", "none") /\ UNCHANGED letter /\ worker[w].copy.push
      BY <1>1 DEF NoAdapter
    <2>2. UNCHANGED <<outbox, dispatch, dlq, abandoned>>
      BY <2>1 DEF Outcome
    <2> QED
      BY <2>1, <2>2, OutcomeFacts, TypesTogether DEF OutboxTypeOK
  <1>2. CASE Sent(w, m)
    <2>1. Outcome(w, m, "sent", "none") /\ UNCHANGED letter
      BY <1>2 DEF Sent
    <2>2. UNCHANGED <<outbox, dispatch, dlq, abandoned>>
      BY <2>1 DEF Outcome
    <2> QED
      BY <2>1, <2>2, OutcomeFacts, TypesTogether DEF OutboxTypeOK
  <1>3. CASE ScheduleRetry(w, m)
    <2>1. Outcome(w, m, "failed", "later") /\ UNCHANGED letter
      BY <1>3 DEF ScheduleRetry
    <2>2. UNCHANGED <<outbox, dispatch, dlq, abandoned>>
      BY <2>1 DEF Outcome
    <2> QED
      BY <2>1, <2>2, OutcomeFacts, TypesTogether DEF OutboxTypeOK
  <1> QED
    BY <1>1, <1>2, <1>3

LEMMA MoveToDlqFacts ==
  ASSUME OutboxAssumption, OutboxTypeOK, NEW w \in Workers, NEW m \in Messages,
         MoveToDlq(w, m)
  PROVE  /\ OutboxTypeOK'
         /\ UNCHANGED <<outbox, dispatch, dlq, abandoned>>
         /\ Running(w, "sending", m)
         /\ \A x \in Messages : x # m => message'[x] = message[x]
         /\ message'[m].push = message[m].push /\ message'[m].status = "dead"
         /\ \E l \in Letters :
              /\ letter[l].message = NoMessage
              /\ letter'[l].message = m /\ ~letter'[l].reprocessed
              /\ \A k \in Letters : k # l => letter'[k] = letter[k]
         /\ worker'[w] = Idle
         /\ \A u \in Workers : u # w => worker'[u] = worker[u]
  <1>1. Outcome(w, m, "dead", "none")
    BY DEF MoveToDlq
  <1>2. UNCHANGED <<outbox, dispatch, dlq, abandoned>>
    BY <1>1 DEF Outcome
  <1>3. PICK l \in Letters : /\ letter[l].message = NoMessage
                             /\ letter' = [letter EXCEPT ![l] = NewLetter(m)]
    BY DEF MoveToDlq
  <1>4. NewLetter(m) \in Letter /\ NewLetter(m).message = m /\ ~NewLetter(m).reprocessed
    BY DEF NewLetter, Letter
  <1>5. letter' \in [Letters -> Letter] /\ letter'[l] = NewLetter(m)
        /\ \A k \in Letters : k # l => letter'[k] = letter[k]
    BY <1>3, <1>4 DEF OutboxTypeOK
  <1>6. OutboxTypeOK'
    BY <1>1, <1>2, <1>5, OutcomeFacts, TypesTogether DEF OutboxTypeOK
  <1> QED
    BY <1>1, <1>2, <1>3, <1>4, <1>5, <1>6, OutcomeFacts
-----------------------------------------------------------------------------
(* A reprocessing.                                                         *)

LEMMA RequestReprocessFacts ==
  ASSUME OutboxAssumption, OutboxTypeOK, NEW l \in Letters, RequestReprocess(l)
  PROVE  /\ OutboxTypeOK'
         /\ UNCHANGED <<message, outbox, letter, dispatch, worker, abandoned>>
         /\ letter[l].message # NoMessage
         /\ \A k \in Letters : k # l => dlq'[k] = dlq[k]
  <1>1. /\ dlq' \in [Letters -> 0..MaxCopies]
        /\ \A k \in Letters : k # l => dlq'[k] = dlq[k]
    BY DEF RequestReprocess, Add, OutboxAssumption, OutboxTypeOK
  <1> QED
    BY <1>1 DEF RequestReprocess, OutboxTypeOK

\* The letter is reprocessed already, and the task ends; or it is read.
LEMMA BeginReprocessFacts ==
  ASSUME OutboxAssumption, OutboxTypeOK, NEW w \in Workers, NEW l \in Letters,
         BeginReprocess(w, l), letter[l].message \in Messages
  PROVE  /\ OutboxTypeOK'
         /\ UNCHANGED <<message, outbox, letter, dispatch, abandoned>>
         /\ worker[w] = Idle
         /\ \A k \in Letters : dlq'[k] > 0 => dlq[k] > 0
         /\ \A u \in Workers : u # w => worker'[u] = worker[u]
         /\ \/ worker'[w] = worker[w]
            \/ /\ worker'[w].task = "read" /\ worker'[w].letter = l
               /\ worker'[w].current = letter[l].message
               /\ worker'[w].todo = {}
  <1> DEFINE v == [Idle EXCEPT !.task = "read", !.letter = l, !.current = letter[l].message]
  <1>0. /\ l \in LetterIds /\ letter[l].message \in Currents /\ Idle.todo = {}
        /\ worker[w] = Idle
    BY DEF LetterIds, Currents, Idle, BeginReprocess
  <1>1. /\ v \in WorkerRow /\ v.task = "read" /\ v.letter = l
        /\ v.current = letter[l].message /\ v.todo = {}
    BY <1>0, WorkerTyped DEF WorkerRow
  <1>2. \/ worker' = [worker EXCEPT ![w] = v]
        \/ worker' = worker
    BY DEF BeginReprocess, Start
  <1> HIDE DEF v
  <1>3. CASE worker' = worker
    <2>1. /\ dlq' \in [Letters -> 0..MaxCopies]
          /\ \A k \in Letters : dlq'[k] > 0 => dlq[k] > 0
      BY DEF BeginReprocess, OutboxTypeOK, OutboxAssumption
    <2> QED
      BY <1>0, <1>3, <2>1 DEF BeginReprocess, OutboxTypeOK
  <1>4. CASE worker' = [worker EXCEPT ![w] = v]
    <2>1. /\ dlq' \in [Letters -> 0..MaxCopies]
          /\ \A k \in Letters : dlq'[k] > 0 => dlq[k] > 0
      BY DEF BeginReprocess, OutboxTypeOK, OutboxAssumption
    <2>2. /\ worker' \in [Workers -> WorkerRow] /\ worker'[w] = v
          /\ \A u \in Workers : u # w => worker'[u] = worker[u]
      BY <1>1, <1>4, WorkerReplaced
    <2>3. OutboxTypeOK'
      BY <2>1, <2>2, TypesTogether DEF BeginReprocess, OutboxTypeOK
    <2> QED
      BY <1>0, <1>1, <2>1, <2>2, <2>3 DEF BeginReprocess
  <1> QED
    BY <1>2, <1>3, <1>4

LEMMA ReadMessageFacts ==
  ASSUME OutboxAssumption, OutboxTypeOK, NEW w \in Workers, NEW m \in Messages,
         ReadMessage(w, m)
  PROVE  /\ OutboxTypeOK'
         /\ UNCHANGED <<message, outbox, letter, dispatch, dlq, abandoned>>
         /\ Running(w, "read", m)
         /\ worker'[w].task = "reprocess" /\ worker'[w].current = m
         /\ worker'[w].letter = worker[w].letter /\ worker'[w].copy = message[m]
         /\ worker'[w].todo = worker[w].todo
         /\ \A u \in Workers : u # w => worker'[u] = worker[u]
  <1> DEFINE v == [worker[w] EXCEPT !.task = "reprocess", !.copy = message[m]]
  <1>0. message[m] \in Row
    BY DEF OutboxTypeOK
  <1>1. /\ v \in WorkerRow /\ v.task = "reprocess" /\ v.current = worker[w].current
        /\ v.letter = worker[w].letter /\ v.copy = message[m] /\ v.todo = worker[w].todo
    BY <1>0, WorkerTyped DEF WorkerRow
  <1>2. worker' = [worker EXCEPT ![w] = v]
    BY DEF ReadMessage, Start
  <1> HIDE DEF v
  <1>3. /\ worker' \in [Workers -> WorkerRow] /\ worker'[w] = v
        /\ \A u \in Workers : u # w => worker'[u] = worker[u]
    BY <1>1, <1>2, WorkerReplaced
  <1>4. OutboxTypeOK'
    BY <1>3, TypesTogether DEF ReadMessage, OutboxTypeOK
  <1> QED
    BY <1>1, <1>3, <1>4 DEF ReadMessage, Running

LEMMA CommitReprocessFacts ==
  ASSUME OutboxAssumption, OutboxTypeOK, NEW w \in Workers, NEW m \in Messages,
         NEW reset_attempts \in BOOLEAN, CommitReprocess(w, m, reset_attempts),
         worker[w].letter \in Letters
  PROVE  /\ OutboxTypeOK'
         /\ UNCHANGED <<outbox, dispatch, dlq, abandoned>>
         /\ Running(w, "reprocess", m)
         /\ \A x \in Messages : x # m => message'[x] = message[x]
         /\ message'[m].push = message[m].push
         /\ message'[m].status =
              IF worker[w].copy.status # "pending" THEN "pending" ELSE message[m].status
         /\ letter'[worker[w].letter].message = letter[worker[w].letter].message
         /\ letter'[worker[w].letter].reprocessed
         /\ \A k \in Letters : k # worker[w].letter => letter'[k] = letter[k]
         /\ worker'[w].task = "requeue" /\ worker'[w].current = m
         /\ worker'[w].letter = worker[w].letter /\ worker'[w].todo = worker[w].todo
         /\ \A u \in Workers : u # w => worker'[u] = worker[u]
  <1> DEFINE read == worker[w].copy
             new == [read EXCEPT !.status = "pending", !.next = "none",
                                 !.attempts = IF reset_attempts THEN 0 ELSE @]
             v == [worker[w] EXCEPT !.task = "requeue", !.copy = NoRow]
             r == Flush(message[m], read, new)
             l == worker[w].letter
  <1>0. message[m] \in Row /\ read \in Row
    BY WorkerTyped DEF OutboxTypeOK
  <1>1. new \in Row /\ new.status = "pending" /\ new.push = read.push
    <2> DEFINE less == IF reset_attempts THEN 0 ELSE read.attempts
               first == [read EXCEPT !.status = "pending", !.next = "none"]
    <2>1. less \in 0..MaxRetries
      BY <1>0 DEF Row, OutboxAssumption
    <2>2. first \in Row /\ first.status = "pending" /\ first.push = read.push
      BY <1>0 DEF Row
    <2>3. new = [first EXCEPT !.attempts = less]
      BY <1>0 DEF Row
    <2> HIDE DEF less, first, new
    <2> QED
      BY <2>1, <2>2, <2>3 DEF Row
  <1>2. /\ worker' = [worker EXCEPT ![w] = v] /\ message' = [message EXCEPT ![m] = r]
        /\ letter' = [letter EXCEPT ![l].reprocessed = TRUE]
    BY DEF CommitReprocess, Start
  <1>3. worker[w].task = "reprocess" /\ worker[w].current = m
    BY DEF CommitReprocess, Running
  <1> HIDE DEF new
  <1>4. /\ v \in WorkerRow /\ v.task = "requeue" /\ v.current = worker[w].current
        /\ v.letter = l /\ v.todo = worker[w].todo
    BY WorkerTyped DEF WorkerRow
  <1>5. /\ r \in Row /\ r.push = message[m].push
        /\ r.status = IF read.status # "pending" THEN "pending" ELSE message[m].status
    BY <1>0, <1>1, FlushFacts
  <1> HIDE DEF v, r
  <1>6. /\ worker' \in [Workers -> WorkerRow] /\ worker'[w] = v
        /\ \A u \in Workers : u # w => worker'[u] = worker[u]
    BY <1>4, <1>2, WorkerReplaced
  <1>7. /\ message' \in [Messages -> Row] /\ message'[m] = r
        /\ \A x \in Messages : x # m => message'[x] = message[x]
    BY <1>5, <1>2, MessageReplaced
  <1>8. /\ letter' \in [Letters -> Letter]
        /\ letter'[l].message = letter[l].message /\ letter'[l].reprocessed
        /\ \A k \in Letters : k # l => letter'[k] = letter[k]
    <2>1. letter[l] \in Letter
      BY DEF OutboxTypeOK
    <2>2. LET a == [letter[l] EXCEPT !.reprocessed = TRUE]
          IN  a \in Letter /\ a.message = letter[l].message /\ a.reprocessed
      BY <2>1 DEF Letter
    <2>3. letter' = [letter EXCEPT ![l] = [letter[l] EXCEPT !.reprocessed = TRUE]]
      BY <1>2 DEF OutboxTypeOK
    <2> QED
      BY <2>2, <2>3 DEF OutboxTypeOK
  <1>9. OutboxTypeOK'
    BY <1>6, <1>7, <1>8, TypesTogether DEF CommitReprocess, OutboxTypeOK
  <1> QED
    BY <1>1, <1>3, <1>4, <1>5, <1>6, <1>7, <1>8, <1>9 DEF CommitReprocess

LEMMA RequeueFacts ==
  ASSUME OutboxAssumption, OutboxTypeOK, NEW w \in Workers, NEW m \in Messages,
         Requeue(w, m)
  PROVE  /\ OutboxTypeOK'
         /\ UNCHANGED <<message, outbox, letter, dlq, abandoned>>
         /\ Running(w, "requeue", m)
         /\ dispatch'[m] > 0
         /\ \A x \in Messages : x # m => dispatch'[x] = dispatch[x]
         /\ worker'[w] = Idle
         /\ \A u \in Workers : u # w => worker'[u] = worker[u]
  <1>1. worker' = [worker EXCEPT ![w] = Idle]
    BY DEF Requeue, Finish, Start
  <1>2. /\ worker' \in [Workers -> WorkerRow] /\ worker'[w] = Idle
        /\ \A u \in Workers : u # w => worker'[u] = worker[u]
    BY <1>1, WorkerTyped, WorkerReplaced
  <1>3. /\ dispatch' \in [Messages -> 0..MaxCopies] /\ dispatch'[m] > 0
        /\ \A x \in Messages : x # m => dispatch'[x] = dispatch[x]
    BY Enqueued DEF Requeue
  <1>4. OutboxTypeOK'
    BY <1>2, <1>3, TypesTogether DEF Requeue, OutboxTypeOK
  <1> QED
    BY <1>2, <1>3, <1>4 DEF Requeue

-----------------------------------------------------------------------------
(* The failures.                                                           *)

\* The tasks that come back when the worker dies.
Dispatches(w, m) == Running(w, "dispatch", m) \/ Running(w, "sending", m)
Handles(w, l) == worker[w].task \in {"read", "reprocess", "requeue"} /\ worker[w].letter = l

LEMMA LoseWorkerFacts ==
  ASSUME OutboxAssumption, OutboxTypeOK, NEW w \in Workers, LoseWorker(w)
  PROVE  /\ OutboxTypeOK'
         /\ UNCHANGED <<message, outbox, letter, abandoned>>
         /\ \A m \in Messages : /\ dispatch[m] > 0 => dispatch'[m] > 0
                                /\ Dispatches(w, m) => dispatch'[m] > 0
                                /\ ~Dispatches(w, m) => dispatch'[m] = dispatch[m]
         /\ \A l \in Letters : Handles(w, l) \/ dlq'[l] = dlq[l]
         /\ worker'[w] = Idle
         /\ \A u \in Workers : u # w => worker'[u] = worker[u]
  <1>1. worker' = [worker EXCEPT ![w] = Idle]
    BY DEF LoseWorker, Finish, Start
  <1>2. /\ worker' \in [Workers -> WorkerRow] /\ worker'[w] = Idle
        /\ \A u \in Workers : u # w => worker'[u] = worker[u]
    BY <1>1, WorkerTyped, WorkerReplaced
  <1>3. \A n \in 0..MaxCopies : Add(n) \in 0..MaxCopies /\ Add(n) > 0
    BY DEF Add, OutboxAssumption
  <1>4. /\ dispatch' \in [Messages -> 0..MaxCopies]
        /\ \A m \in Messages : dispatch'[m] = IF Dispatches(w, m) THEN Add(dispatch[m])
                                                                 ELSE dispatch[m]
    BY <1>3 DEF LoseWorker, OutboxTypeOK, TakenDispatch, Dispatches, Running
  <1>5. /\ dlq' \in [Letters -> 0..MaxCopies]
        /\ \A l \in Letters : Handles(w, l) \/ dlq'[l] = dlq[l]
    BY <1>3 DEF LoseWorker, OutboxTypeOK, TakenDlq, Handles
  <1>6. OutboxTypeOK'
    BY <1>2, <1>4, <1>5, TypesTogether DEF LoseWorker, OutboxTypeOK
  <1>7. \A m \in Messages : dispatch[m] \in 0..MaxCopies
    BY DEF OutboxTypeOK
  <1> QED
    BY <1>2, <1>3, <1>4, <1>5, <1>6, <1>7 DEF LoseWorker

LEMMA RaiseExceptionFacts ==
  ASSUME OutboxAssumption, OutboxTypeOK, NEW w \in Workers, RaiseException(w),
         TakenDispatch(w) \subseteq Messages
  PROVE  /\ OutboxTypeOK'
         /\ UNCHANGED <<message, outbox, letter, dispatch, dlq>>
         /\ abandoned' = abandoned \cup TakenDispatch(w)
         /\ worker'[w] = Idle
         /\ \A u \in Workers : u # w => worker'[u] = worker[u]
  <1>1. worker' = [worker EXCEPT ![w] = Idle]
    BY DEF RaiseException, Finish, Start
  <1>2. /\ worker' \in [Workers -> WorkerRow] /\ worker'[w] = Idle
        /\ \A u \in Workers : u # w => worker'[u] = worker[u]
    BY <1>1, WorkerTyped, WorkerReplaced
  <1>3. abandoned' \subseteq Messages
    BY DEF RaiseException, OutboxTypeOK
  <1>4. OutboxTypeOK'
    BY <1>2, <1>3, TypesTogether DEF RaiseException, OutboxTypeOK
  <1> QED
    BY <1>2, <1>4 DEF RaiseException
-----------------------------------------------------------------------------
(* The invariant.                                                          *)

\* What the tasks, the letters and the broker refer to has been committed.
TaskKnows(w) ==
  /\ \A m \in worker[w].todo : outbox[m] # "none"
  /\ worker[w].task \in {"mark", "dispatch", "sending", "read", "reprocess", "requeue"} =>
       worker[w].current \in Messages /\ outbox[worker[w].current] # "none"
  /\ worker[w].task \in {"dispatch", "sending"} =>
       worker[w].copy.push = message[worker[w].current].push
  /\ worker[w].task \in {"read", "reprocess", "requeue"} =>
       worker[w].letter \in Letters /\ letter[worker[w].letter].message = worker[w].current
  /\ worker[w].task = "requeue" => letter[worker[w].letter].reprocessed

Knowledge ==
  /\ \A m \in Messages : outbox[m] = "none" <=> message[m].status = "absent"
  /\ \A m \in Messages : dispatch[m] > 0 => outbox[m] # "none"
  /\ \A l \in Letters : letter[l].message # NoMessage =>
       letter[l].message \in Messages /\ outbox[letter[l].message] # "none"
  /\ \A l \in Letters : letter[l].reprocessed \/ dlq[l] > 0 => letter[l].message # NoMessage
  /\ \A w \in Workers : TaskKnows(w)

\* From its first dispatch task on, a message is settled, or something acts on
\* it, or it fell into one of the gaps.
Alive(m) ==
  \/ dispatch[m] > 0
  \/ \E w \in Workers : InHand(w, m)
  \/ message[m].status \in {"sent", "dead"}
  \/ message[m].status = "failed" /\ message[m].next # "none"
  \/ message[m].push \/ m \in abandoned \/ Reprocessed(m)

Relayed(m) == outbox[m] = "published" \/ \E w \in Workers : Running(w, "mark", m)

OnItsWay == \A m \in Messages : Relayed(m) => Alive(m)

\* A letter of a dead message waits that no reprocessing will close and leave
\* the message dead: one that read it PENDING does not write its status.
ClosesOnly(w, m, l) ==
  Running(w, "reprocess", m) /\ worker[w].copy.status = "pending" /\ worker[w].letter = l

LetterWaits ==
  \A m \in Messages : message[m].status = "dead" =>
    \E l \in Letters : /\ letter[l].message = m /\ ~letter[l].reprocessed
                       /\ \A w \in Workers : ~ClosesOnly(w, m, l)

OutboxInv == OutboxTypeOK /\ Knowledge /\ OnItsWay /\ LetterWaits

LEMMA OutboxInit ==
  ASSUME OutboxAssumption, Init
  PROVE  OutboxInv
  <1>1. OutboxTypeOK
    BY DEF OutboxAssumption, Init, OutboxTypeOK, Idle, NoRow, Row, NewLetter, Letter, Tasks
  <1>2. Knowledge
    <2>1. \A m \in Messages : outbox[m] = "none" /\ message[m].status = "absent" /\ dispatch[m] = 0
      BY DEF Init, NoRow
    <2>2. \A l \in Letters : /\ letter[l].message = NoMessage /\ ~letter[l].reprocessed
                             /\ dlq[l] = 0
      BY DEF Init, NewLetter
    <2>3. \A w \in Workers : TaskKnows(w)
      BY DEF Init, TaskKnows, Idle
    <2> QED
      BY <2>1, <2>2, <2>3 DEF Knowledge
  <1>3. OnItsWay
    BY DEF Init, OnItsWay, Relayed, Running, Idle
  <1>4. LetterWaits
    BY DEF Init, LetterWaits, NoRow
  <1> QED
    BY <1>1, <1>2, <1>3, <1>4 DEF OutboxInv

LEMMA EnqueueMessageKeeps ==
  ASSUME OutboxAssumption, OutboxInv, NEW m \in Messages, NEW push \in BOOLEAN, EnqueueMessage(m, push)
  PROVE  OutboxInv'
  <1> USE DEF OutboxInv
  <1>1. Knowledge'
    <2>1. \A x \in Messages : outbox'[x] = "none" <=> message'[x].status = "absent"
      BY EnqueueMessageFacts DEF Knowledge
    <2>2. \A x \in Messages : dispatch'[x] > 0 => outbox'[x] # "none"
      BY EnqueueMessageFacts DEF Knowledge, TaskKnows, Running
    <2>3. \A l \in Letters :
            /\ letter'[l].message # NoMessage =>
                 letter'[l].message \in Messages /\ outbox'[letter'[l].message] # "none"
            /\ letter'[l].reprocessed \/ dlq'[l] > 0 => letter'[l].message # NoMessage
      BY EnqueueMessageFacts DEF Knowledge, TaskKnows, Running, OutboxAssumption
    <2>4. ASSUME NEW u \in Workers PROVE TaskKnows(u)'
      <3>1. TaskKnows(u)
        BY DEF Knowledge
      <3> QED
        BY <3>1, EnqueueMessageFacts DEF Knowledge, TaskKnows, Idle, OutboxTypeOK
    <2> QED
      BY <2>1, <2>2, <2>3, <2>4 DEF Knowledge
  <1>2. OnItsWay'
    BY EnqueueMessageFacts DEF OnItsWay, Relayed, Alive, InHand, Running, Reprocessed, Idle, Knowledge, TaskKnows, OutboxAssumption
  <1>3. LetterWaits'
    BY EnqueueMessageFacts DEF LetterWaits, ClosesOnly, Running, Idle, Knowledge, TaskKnows, OutboxAssumption
  <1> QED
    BY <1>1, <1>2, <1>3, EnqueueMessageFacts

LEMMA BackoffElapsesKeeps ==
  ASSUME OutboxAssumption, OutboxInv, NEW m \in Messages, BackoffElapses(m)
  PROVE  OutboxInv'
  <1> USE DEF OutboxInv
  <1>1. Knowledge'
    BY BackoffFacts DEF Knowledge, TaskKnows, Running, Idle, OutboxAssumption
  <1>2. OnItsWay'
    BY BackoffFacts DEF OnItsWay, Relayed, Alive, InHand, Running, Reprocessed, Idle, Knowledge, TaskKnows, OutboxAssumption
  <1>3. LetterWaits'
    BY BackoffFacts DEF LetterWaits, ClosesOnly, Running, Idle, Knowledge, TaskKnows, OutboxAssumption
  <1> QED
    BY <1>1, <1>2, <1>3, BackoffFacts

LEMMA RelayEventKeeps ==
  ASSUME OutboxAssumption, OutboxInv, NEW w \in Workers, NEW m \in Messages, RelayEvent(w, m)
  PROVE  OutboxInv'
  <1> USE DEF OutboxInv
  <1>1. Knowledge'
    BY RelayEventFacts DEF Knowledge, TaskKnows, Running, Idle, OutboxAssumption
  <1>2. OnItsWay'
    BY RelayEventFacts DEF OnItsWay, Relayed, Alive, InHand, Running, Reprocessed, Idle, Knowledge, TaskKnows, OutboxAssumption
  <1>3. LetterWaits'
    BY RelayEventFacts DEF LetterWaits, ClosesOnly, Running, Idle, Knowledge, TaskKnows, OutboxAssumption
  <1> QED
    BY <1>1, <1>2, <1>3, RelayEventFacts

LEMMA MarkPublishedKeeps ==
  ASSUME OutboxAssumption, OutboxInv, NEW w \in Workers, NEW m \in Messages, MarkPublished(w, m)
  PROVE  OutboxInv'
  <1> USE DEF OutboxInv
  <1>1. Knowledge'
    <2>1. \A x \in Messages : outbox'[x] = "none" <=> message'[x].status = "absent"
      BY MarkPublishedFacts DEF Knowledge, TaskKnows, Running
    <2>2. \A x \in Messages : dispatch'[x] > 0 => outbox'[x] # "none"
      BY MarkPublishedFacts DEF Knowledge, TaskKnows, Running
    <2>3. \A l \in Letters :
            /\ letter'[l].message # NoMessage =>
                 letter'[l].message \in Messages /\ outbox'[letter'[l].message] # "none"
            /\ letter'[l].reprocessed \/ dlq'[l] > 0 => letter'[l].message # NoMessage
      BY MarkPublishedFacts DEF Knowledge, TaskKnows, Running, OutboxAssumption
    <2>4. ASSUME NEW u \in Workers PROVE TaskKnows(u)'
      <3>1. TaskKnows(u)
        BY DEF Knowledge
      <3> QED
        BY <3>1, MarkPublishedFacts DEF Knowledge, TaskKnows, Idle, OutboxTypeOK
    <2> QED
      BY <2>1, <2>2, <2>3, <2>4 DEF Knowledge
  <1>2. OnItsWay'
    BY MarkPublishedFacts DEF OnItsWay, Relayed, Alive, InHand, Running, Reprocessed, Idle, Knowledge, TaskKnows, OutboxAssumption
  <1>3. LetterWaits'
    BY MarkPublishedFacts DEF LetterWaits, ClosesOnly, Running, Idle, Knowledge, TaskKnows, OutboxAssumption
  <1> QED
    BY <1>1, <1>2, <1>3, MarkPublishedFacts

LEMMA RetryMessageKeeps ==
  ASSUME OutboxAssumption, OutboxInv, NEW w \in Workers, NEW m \in Messages, RetryMessage(w, m)
  PROVE  OutboxInv'
  <1> USE DEF OutboxInv
  <1>1. Knowledge'
    BY RetryMessageFacts DEF Knowledge, TaskKnows, Running, Idle, OutboxAssumption
  <1>2. OnItsWay'
    BY RetryMessageFacts DEF OnItsWay, Relayed, Alive, InHand, Running, Reprocessed, Idle, Knowledge, TaskKnows, OutboxAssumption
  <1>3. LetterWaits'
    BY RetryMessageFacts DEF LetterWaits, ClosesOnly, Running, Idle, Knowledge, TaskKnows, OutboxAssumption
  <1> QED
    BY <1>1, <1>2, <1>3, RetryMessageFacts

LEMMA BeginDispatchKeeps ==
  ASSUME OutboxAssumption, OutboxInv, NEW w \in Workers, NEW m \in Messages, BeginDispatch(w, m)
  PROVE  OutboxInv'
  <1> USE DEF OutboxInv
  <1>1. Knowledge'
    BY BeginDispatchFacts DEF Knowledge, TaskKnows, Running, Idle, OutboxAssumption
  <1>2. OnItsWay'
    BY BeginDispatchFacts DEF OnItsWay, Relayed, Alive, InHand, Running, Reprocessed, Idle, Knowledge, TaskKnows, OutboxAssumption
  <1>3. LetterWaits'
    BY BeginDispatchFacts DEF LetterWaits, ClosesOnly, Running, Idle, Knowledge, TaskKnows, OutboxAssumption
  <1> QED
    BY <1>1, <1>2, <1>3, BeginDispatchFacts

LEMMA StartAttemptKeeps ==
  ASSUME OutboxAssumption, OutboxInv, NEW w \in Workers, NEW m \in Messages, StartAttempt(w, m)
  PROVE  OutboxInv'
  <1> USE DEF OutboxInv
  <1>1. Knowledge'
    BY StartAttemptFacts DEF Knowledge, TaskKnows, Running, Idle, OutboxAssumption
  <1>2. OnItsWay'
    BY StartAttemptFacts DEF OnItsWay, Relayed, Alive, InHand, Running, Reprocessed, Idle, Knowledge, TaskKnows, OutboxAssumption
  <1>3. LetterWaits'
    BY StartAttemptFacts DEF LetterWaits, ClosesOnly, Running, Idle, Knowledge, TaskKnows, OutboxAssumption
  <1> QED
    BY <1>1, <1>2, <1>3, StartAttemptFacts

LEMMA EndAttemptKeeps ==
  ASSUME OutboxAssumption, OutboxInv, NEW w \in Workers, NEW m \in Messages, NoAdapter(w, m) \/ Sent(w, m) \/ ScheduleRetry(w, m)
  PROVE  OutboxInv'
  <1> USE DEF OutboxInv
  <1>1. Knowledge'
    BY EndAttemptFacts DEF Knowledge, TaskKnows, Running, Idle, OutboxAssumption
  <1>2. OnItsWay'
    BY EndAttemptFacts DEF OnItsWay, Relayed, Alive, InHand, Running, Reprocessed, Idle, Knowledge, TaskKnows, OutboxAssumption
  <1>3. LetterWaits'
    BY EndAttemptFacts DEF LetterWaits, ClosesOnly, Running, Idle, Knowledge, TaskKnows, OutboxAssumption
  <1> QED
    BY <1>1, <1>2, <1>3, EndAttemptFacts

LEMMA MoveToDlqKeeps ==
  ASSUME OutboxAssumption, OutboxInv, NEW w \in Workers, NEW m \in Messages, MoveToDlq(w, m)
  PROVE  OutboxInv'
  <1> USE DEF OutboxInv
  <1>1. Knowledge'
    BY MoveToDlqFacts DEF Knowledge, TaskKnows, Running, Idle, OutboxAssumption
  <1>2. OnItsWay'
    BY MoveToDlqFacts DEF OnItsWay, Relayed, Alive, InHand, Running, Reprocessed, Idle, Knowledge, TaskKnows, OutboxAssumption
  <1>3. LetterWaits'
    BY MoveToDlqFacts DEF LetterWaits, ClosesOnly, Running, Idle, Knowledge, TaskKnows, OutboxAssumption
  <1> QED
    BY <1>1, <1>2, <1>3, MoveToDlqFacts

LEMMA RequestReprocessKeeps ==
  ASSUME OutboxAssumption, OutboxInv, NEW l \in Letters, RequestReprocess(l)
  PROVE  OutboxInv'
  <1> USE DEF OutboxInv
  <1>1. Knowledge'
    BY RequestReprocessFacts DEF Knowledge, TaskKnows, Running, Idle, OutboxAssumption
  <1>2. OnItsWay'
    BY RequestReprocessFacts DEF OnItsWay, Relayed, Alive, InHand, Running, Reprocessed, Idle, Knowledge, TaskKnows, OutboxAssumption
  <1>3. LetterWaits'
    BY RequestReprocessFacts DEF LetterWaits, ClosesOnly, Running, Idle, Knowledge, TaskKnows, OutboxAssumption
  <1> QED
    BY <1>1, <1>2, <1>3, RequestReprocessFacts

LEMMA ReadMessageKeeps ==
  ASSUME OutboxAssumption, OutboxInv, NEW w \in Workers, NEW m \in Messages, ReadMessage(w, m)
  PROVE  OutboxInv'
  <1> USE DEF OutboxInv
  <1>1. Knowledge'
    BY ReadMessageFacts DEF Knowledge, TaskKnows, Running, Idle, OutboxAssumption
  <1>2. OnItsWay'
    BY ReadMessageFacts DEF OnItsWay, Relayed, Alive, InHand, Running, Reprocessed, Idle, Knowledge, TaskKnows, OutboxAssumption
  <1>3. LetterWaits'
    BY ReadMessageFacts DEF LetterWaits, ClosesOnly, Running, Idle, Knowledge, TaskKnows, OutboxAssumption
  <1> QED
    BY <1>1, <1>2, <1>3, ReadMessageFacts

LEMMA RequeueKeeps ==
  ASSUME OutboxAssumption, OutboxInv, NEW w \in Workers, NEW m \in Messages, Requeue(w, m)
  PROVE  OutboxInv'
  <1> USE DEF OutboxInv
  <1>1. Knowledge'
    BY RequeueFacts DEF Knowledge, TaskKnows, Running, Idle, OutboxAssumption
  <1>2. OnItsWay'
    BY RequeueFacts DEF OnItsWay, Relayed, Alive, InHand, Running, Reprocessed, Idle, Knowledge, TaskKnows, OutboxAssumption
  <1>3. LetterWaits'
    BY RequeueFacts DEF LetterWaits, ClosesOnly, Running, Idle, Knowledge, TaskKnows, OutboxAssumption
  <1> QED
    BY <1>1, <1>2, <1>3, RequeueFacts

LEMMA LoseWorkerKeeps ==
  ASSUME OutboxAssumption, OutboxInv, NEW w \in Workers, LoseWorker(w)
  PROVE  OutboxInv'
  <1> USE DEF OutboxInv
  <1>0. UNCHANGED <<message, outbox, letter, abandoned>>
    BY DEF LoseWorker
  <1>copies. \A m \in Messages :
               /\ dispatch[m] > 0 => dispatch'[m] > 0
               /\ Dispatches(w, m) => dispatch'[m] > 0
               /\ ~Dispatches(w, m) => dispatch'[m] = dispatch[m]
    BY LoseWorkerFacts
  <1>1. Knowledge'
    <2>1. \A x \in Messages : outbox'[x] = "none" <=> message'[x].status = "absent"
      BY LoseWorkerFacts DEF Knowledge
    <2>2. \A x \in Messages : dispatch'[x] > 0 => outbox'[x] # "none"
      <3>1. \A x \in Messages : Dispatches(w, x) => outbox[x] # "none"
        BY DEF Knowledge, TaskKnows, Dispatches, Running
      <3> TAKE x \in Messages
      <3>2. CASE Dispatches(w, x)
        BY <1>0, <3>1, <3>2
      <3>3. CASE ~Dispatches(w, x)
        <4>1. dispatch'[x] = dispatch[x]
          BY <1>copies, <3>3 DEF Dispatches, Running
        <4> QED
          BY <1>0, <4>1 DEF Knowledge
      <3> QED
        BY <3>2, <3>3
    <2>3. \A l \in Letters :
            /\ letter'[l].message # NoMessage =>
                 letter'[l].message \in Messages /\ outbox'[letter'[l].message] # "none"
            /\ letter'[l].reprocessed \/ dlq'[l] > 0 => letter'[l].message # NoMessage
      BY LoseWorkerFacts DEF Knowledge, TaskKnows, Running, OutboxAssumption, Dispatches, Handles
    <2>4. ASSUME NEW u \in Workers PROVE TaskKnows(u)'
      <3>1. TaskKnows(u)
        BY DEF Knowledge
      <3> QED
        BY <3>1, LoseWorkerFacts DEF Knowledge, TaskKnows, Idle, OutboxTypeOK
    <2> QED
      BY <2>1, <2>2, <2>3, <2>4 DEF Knowledge
  <1>2. OnItsWay'
    <2> SUFFICES ASSUME NEW x \in Messages, Relayed(x)' PROVE Alive(x)'
      BY DEF OnItsWay
    <2>1. Alive(x)
      BY LoseWorkerFacts DEF OnItsWay, Relayed, Running, Idle
    <2>2. CASE InHand(w, x)
      <3>1. CASE Running(w, "requeue", x)
        BY <3>1, LoseWorkerFacts DEF Running, Knowledge, TaskKnows, Alive, Reprocessed
      <3>2. CASE Running(w, "dispatch", x) \/ Running(w, "sending", x)
        <4>1. Dispatches(w, x)
          BY <3>2 DEF Dispatches
        <4>2. dispatch'[x] > 0
          BY <4>1, <1>copies DEF Dispatches, Running
        <4> QED
          BY <4>2 DEF Alive
      <3> QED
        BY <2>2, <3>1, <3>2 DEF InHand
    <2>3. CASE ~InHand(w, x)
      <3>1. \A u \in Workers : InHand(u, x) => u # w /\ InHand(u, x)'
        BY <2>3, LoseWorkerFacts DEF InHand, Running
      <3> QED
        BY <2>1, <3>1, <1>0, <1>copies DEF Alive, Reprocessed, Dispatches, Running
    <2> QED
      BY <2>2, <2>3
  <1>3. LetterWaits'
    BY LoseWorkerFacts DEF LetterWaits, ClosesOnly, Running, Idle, Knowledge, TaskKnows, OutboxAssumption
  <1> QED
    BY <1>1, <1>2, <1>3, LoseWorkerFacts
LEMMA PollKeeps ==
  ASSUME OutboxAssumption, OutboxInv, NEW w \in Workers, BeginRelay(w) \/ BeginRetry(w)
  PROVE  OutboxInv'
  <1> USE DEF OutboxInv
  <1>1. \E task \in {"relay", "retry"}, read \in SUBSET Messages :
          /\ worker' = [worker EXCEPT ![w] = [Idle EXCEPT !.task = task, !.todo = read]]
          /\ \A m \in read : outbox[m] # "none"
    <2>1. CASE BeginRelay(w)
      <3> DEFINE new == {m \in Messages : outbox[m] = "new"}
      <3>1. worker' = [worker EXCEPT ![w] = [Idle EXCEPT !.task = "relay", !.todo = new]]
        BY <2>1 DEF BeginRelay, Start
      <3>2. new \in SUBSET Messages /\ \A m \in new : outbox[m] # "none"
        OBVIOUS
      <3> HIDE DEF new
      <3> QED
        BY <3>1, <3>2
    <2>2. CASE BeginRetry(w)
      <3> DEFINE due == {m \in Messages : message[m].status = "failed" /\ message[m].next = "due"}
      <3>1. worker' = [worker EXCEPT ![w] = [Idle EXCEPT !.task = "retry", !.todo = due]]
        BY <2>2 DEF BeginRetry, Start
      <3>2. due \in SUBSET Messages /\ \A m \in due : outbox[m] # "none"
        BY DEF Knowledge
      <3> HIDE DEF due
      <3> QED
        BY <3>1, <3>2
    <2> QED
      BY <2>1, <2>2
  <1>2. PICK task \in {"relay", "retry"}, read \in SUBSET Messages :
          /\ worker' = [worker EXCEPT ![w] = [Idle EXCEPT !.task = task, !.todo = read]]
          /\ \A m \in read : outbox[m] # "none"
    BY <1>1
  <1>3. /\ UNCHANGED <<message, outbox, letter, dispatch, dlq, abandoned>>
        /\ worker[w] = Idle
    BY DEF BeginRelay, BeginRetry
  <1>4. /\ OutboxTypeOK'
        /\ worker'[w].task \in {"relay", "retry"}
        /\ \A m \in worker'[w].todo : outbox[m] # "none"
        /\ \A u \in Workers : u # w => worker'[u] = worker[u]
    <2>1. /\ OutboxTypeOK'
          /\ worker'[w].task = task /\ worker'[w].todo = read
          /\ \A u \in Workers : u # w => worker'[u] = worker[u]
      BY <1>2, <1>3, PollFacts
    <2> QED
      BY <1>2, <2>1
  <1>5. Knowledge'
    BY <1>3, <1>4 DEF Knowledge, TaskKnows
  <1>6. OnItsWay'
    BY <1>3, <1>4 DEF OnItsWay, Relayed, Alive, InHand, Running, Reprocessed, Idle
  <1>7. LetterWaits'
    BY <1>3, <1>4 DEF LetterWaits, ClosesOnly, Running, Idle
  <1> QED
    BY <1>4, <1>5, <1>6, <1>7

LEMMA BeginReprocessKeeps ==
  ASSUME OutboxAssumption, OutboxInv, NEW w \in Workers, NEW l \in Letters, BeginReprocess(w, l)
  PROVE  OutboxInv'
  <1> USE DEF OutboxInv
  <1>0. letter[l].message \in Messages
    BY DEF BeginReprocess, Knowledge
  <1>1. Knowledge'
    BY <1>0, BeginReprocessFacts DEF Knowledge, TaskKnows, Idle
  <1>2. OnItsWay'
    BY <1>0, BeginReprocessFacts DEF OnItsWay, Relayed, Alive, InHand, Running, Reprocessed, Idle
  <1>3. LetterWaits'
    BY <1>0, BeginReprocessFacts DEF LetterWaits, ClosesOnly, Running, Idle
  <1> QED
    BY <1>0, <1>1, <1>2, <1>3, BeginReprocessFacts

\* A reprocessing closes the letter it read, and makes its message PENDING or
\* leaves a dead one to another letter.
LEMMA CommitReprocessKeeps ==
  ASSUME OutboxAssumption, OutboxInv, NEW w \in Workers, NEW m \in Messages,
         NEW reset_attempts \in BOOLEAN, CommitReprocess(w, m, reset_attempts)
  PROVE  OutboxInv'
  <1> USE DEF OutboxInv
  <1>0. /\ worker[w].letter \in Letters /\ letter[worker[w].letter].message = m
        /\ outbox[m] # "none"
    BY DEF CommitReprocess, Running, Knowledge, TaskKnows
  <1>1. Knowledge'
    BY <1>0, CommitReprocessFacts DEF Knowledge, TaskKnows, Running, OutboxAssumption
  <1>2. OnItsWay'
    <2> SUFFICES ASSUME NEW x \in Messages, Relayed(x)' PROVE Alive(x)'
      BY DEF OnItsWay
    <2>1. CASE x = m
      BY <1>0, <2>1, CommitReprocessFacts DEF Alive, Reprocessed
    <2>2. CASE x # m
      <3>1. Alive(x)
        BY <1>0, <2>2, CommitReprocessFacts DEF OnItsWay, Relayed, Running
      <3> QED
        BY <1>0, <2>2, <3>1, CommitReprocessFacts DEF Alive, InHand, Running, Reprocessed
    <2> QED
      BY <2>1, <2>2
  <1>3. LetterWaits'
    <2> SUFFICES ASSUME NEW x \in Messages, message'[x].status = "dead"
                 PROVE  (\E l \in Letters : /\ letter[l].message = x /\ ~letter[l].reprocessed
                                            /\ \A u \in Workers : ~ClosesOnly(u, x, l))'
      BY DEF LetterWaits
    <2>1. message[x].status = "dead" /\ (x = m => worker[w].copy.status = "pending")
      BY <1>0, CommitReprocessFacts
    <2>2. PICK l \in Letters : /\ letter[l].message = x /\ ~letter[l].reprocessed
                              /\ \A u \in Workers : ~ClosesOnly(u, x, l)
      BY <2>1 DEF LetterWaits
    <2>3. l # worker[w].letter
      BY <1>0, <2>1, <2>2 DEF ClosesOnly, CommitReprocess, Running
    <2>4. letter'[l] = letter[l]
      BY <1>0, <2>3, CommitReprocessFacts
    <2>5. \A u \in Workers : ~ClosesOnly(u, x, l)'
      BY <1>0, <2>2, CommitReprocessFacts DEF ClosesOnly, Running
    <2> QED
      BY <2>2, <2>4, <2>5
  <1> QED
    BY <1>0, <1>1, <1>2, <1>3, CommitReprocessFacts

LEMMA RaiseExceptionKeeps ==
  ASSUME OutboxAssumption, OutboxInv, NEW w \in Workers, RaiseException(w)
  PROVE  OutboxInv'
  <1> USE DEF OutboxInv
  <1>0. TakenDispatch(w) \subseteq Messages
    BY DEF TakenDispatch, Knowledge, TaskKnows
  <1>1. /\ OutboxTypeOK'
        /\ UNCHANGED <<message, outbox, letter, dispatch, dlq>>
        /\ worker'[w] = Idle
        /\ \A u \in Workers : u # w => worker'[u] = worker[u]
    BY <1>0, RaiseExceptionFacts
  <1>2. /\ abandoned \subseteq abandoned'
        /\ \A x \in Messages : Dispatches(w, x) => x \in abandoned'
    BY <1>0, RaiseExceptionFacts DEF TakenDispatch, Dispatches, Running
  <1>3. Knowledge'
    BY <1>1 DEF Knowledge, TaskKnows, Idle
  <1>4. OnItsWay'
    <2> SUFFICES ASSUME NEW x \in Messages, Relayed(x)' PROVE Alive(x)'
      BY DEF OnItsWay
    <2>1. Alive(x)
      BY <1>1 DEF OnItsWay, Relayed, Running, Idle
    <2>2. CASE Running(w, "requeue", x)
      BY <1>1, <2>2 DEF Running, Knowledge, TaskKnows, Alive, Reprocessed
    <2>3. CASE Dispatches(w, x)
      BY <1>2, <2>3 DEF Alive
    <2>4. CASE ~InHand(w, x)
      <3>1. \A u \in Workers : InHand(u, x) => u # w /\ InHand(u, x)'
        BY <1>1, <2>4 DEF InHand, Running
      <3> QED
        BY <1>1, <1>2, <2>1, <3>1 DEF Alive, Reprocessed
    <2> QED
      BY <2>2, <2>3, <2>4 DEF InHand, Dispatches
  <1>5. LetterWaits'
    BY <1>1 DEF LetterWaits, ClosesOnly, Running, Idle
  <1> QED
    BY <1>1, <1>3, <1>4, <1>5

LEMMA OutboxStep ==
  ASSUME OutboxAssumption, OutboxInv, [Next]_vars
  PROVE  OutboxInv'
  <1>1. CASE UNCHANGED vars
    BY <1>1 DEF vars, OutboxInv, OutboxTypeOK, Knowledge, TaskKnows, OnItsWay, Relayed, Alive,
                InHand, Running, Reprocessed, LetterWaits, ClosesOnly
  <1>2. ASSUME NEW m \in Messages, (\E push \in BOOLEAN : EnqueueMessage(m, push)) \/ BackoffElapses(m)
        PROVE  OutboxInv'
    BY <1>2, EnqueueMessageKeeps, BackoffElapsesKeeps
  <1>3. ASSUME NEW l \in Letters, RequestReprocess(l) PROVE OutboxInv'
    BY <1>3, RequestReprocessKeeps
  <1>4. ASSUME NEW w \in Workers, NEW m \in Messages,
               \/ RelayEvent(w, m) \/ MarkPublished(w, m) \/ RetryMessage(w, m)
               \/ Attempt(w, m) \/ Reprocess(w, m)
        PROVE  OutboxInv'
    <2>1. CASE RelayEvent(w, m) \/ MarkPublished(w, m) \/ RetryMessage(w, m)
      BY <2>1, RelayEventKeeps, MarkPublishedKeeps, RetryMessageKeeps
    <2>2. CASE Attempt(w, m)
      BY <2>2, StartAttemptKeeps, EndAttemptKeeps, MoveToDlqKeeps DEF Attempt
    <2>3. CASE Reprocess(w, m)
      BY <2>3, ReadMessageKeeps, CommitReprocessKeeps, RequeueKeeps DEF Reprocess
    <2> QED
      BY <1>4, <2>1, <2>2, <2>3
  <1>5. ASSUME NEW w \in Workers,
               \/ BeginRelay(w) \/ BeginRetry(w)
               \/ \E m \in Messages : BeginDispatch(w, m)
               \/ \E l \in Letters : BeginReprocess(w, l)
               \/ Continue(w)
               \/ LoseWorker(w) \/ RaiseException(w)
        PROVE  OutboxInv'
    <2>1. CASE BeginRelay(w) \/ BeginRetry(w)
      BY <2>1, PollKeeps
    <2>2. CASE \E m \in Messages : BeginDispatch(w, m)
      BY <2>2, BeginDispatchKeeps
    <2>3. CASE \E l \in Letters : BeginReprocess(w, l)
      BY <2>3, BeginReprocessKeeps
    <2>4. CASE Continue(w)
      BY <2>4, <1>4 DEF Continue
    <2>5. CASE LoseWorker(w) \/ RaiseException(w)
      BY <2>5, LoseWorkerKeeps, RaiseExceptionKeeps
    <2> QED
      BY <1>5, <2>1, <2>2, <2>3, <2>4, <2>5
  <1> QED
    BY <1>1, <1>2, <1>3, <1>5 DEF Next

-----------------------------------------------------------------------------
\* The inductive invariant: types, what tasks and letters refer to, who acts on
\* a relayed message, and which letter of a dead one waits.
THEOREM OutboxInvariant == Spec => []OutboxInv
  <1>1. Init => OutboxInv
    BY OutboxInit, OutboxAssumption
  <1>2. OutboxInv /\ [Next]_vars => OutboxInv'
    BY OutboxStep, OutboxAssumption
  <1> QED
    BY <1>1, <1>2, PTL DEF Spec

\* The variables keep their types (workers/tasks.py, outbox_service.py, dispatcher.py).
THEOREM OutboxTyped == Spec => []OutboxTypeOK
  <1>1. OutboxInv => OutboxTypeOK
    BY DEF OutboxInv
  <1> QED
    BY <1>1, OutboxInvariant, PTL

\* No crash, duplicate or overlap loses a message: only a channel without an
\* adapter, a dispatch that raised, or a reprocessing does (workers/tasks.py).
THEOREM OnlyGapsLoseMessages == Spec => []OutboxLosesNothing
  <1>1. OutboxInv => OutboxLosesNothing
    <2> SUFFICES ASSUME OutboxInv, NEW m \in Messages
                 PROVE  \/ Settled(m) \/ Recoverable(m)
                        \/ message[m].push \/ m \in abandoned \/ Reprocessed(m)
      BY DEF OutboxLosesNothing
    <2>1. CASE outbox[m] = "none"
      BY <2>1 DEF OutboxInv, Knowledge, Settled
    <2>2. CASE outbox[m] = "new"
      BY <2>2 DEF Recoverable
    <2>3. CASE outbox[m] = "published"
      BY <2>3 DEF OutboxInv, OnItsWay, Relayed, Alive, Settled, Recoverable
    <2> QED
      BY <2>1, <2>2, <2>3 DEF OutboxInv, OutboxTypeOK
  <1> QED
    BY <1>1, OutboxInvariant, PTL

\* A dead message has a letter that waits, however dispatches and reprocessings
\* of it overlap (dispatcher.py, dlq_service.py).
THEOREM DeadLettersWait == Spec => []DeadHasLetter
  <1>1. OutboxInv => DeadHasLetter
    BY DEF OutboxInv, LetterWaits, DeadHasLetter
  <1> QED
    BY <1>1, OutboxInvariant, PTL
=============================================================================
