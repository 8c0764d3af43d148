------------------------- MODULE NotificationOutbox -------------------------
(***************************************************************************)
(* The notification service's outbox, retry engine and dead-letter queue:   *)
(* outbox_service.py, dispatcher.py and the Celery tasks of tasks.py.  A    *)
(* message and its outbox event are written together; relay, retry and     *)
(* reprocess tasks put dispatch tasks on the broker; a dispatch reads the   *)
(* message, commits PROCESSING, sends, and commits the outcome.  No task    *)
(* locks or reads again what it read, so copies of one task overlap.        *)
(***************************************************************************)
EXTENDS Integers

CONSTANTS
  Messages,      \* idempotency keys; the unique index makes each one a message
  Letters,       \* ids of dead_letters rows
  Workers,       \* Celery worker processes
  MaxRetries,    \* max_retries of every message
  MaxCopies,     \* bound: copies of one task the broker tells apart
  Failures,      \* what may go wrong with a task: "worker_lost", "exception"
  NoMessage, NoLetter

ASSUME OutboxAssumption ==
  /\ MaxRetries \in Nat
  /\ MaxCopies \in Nat \ {0}
  /\ NoMessage \notin Messages
  /\ NoLetter \notin Letters

VARIABLES
  message,   \* rows of messages
  outbox,    \* status of each message's outbox event
  letter,    \* rows of dead_letters
  dispatch,  \* dispatch_message_task copies the broker holds, by message
  dlq,       \* process_dlq_task copies the broker holds, by letter
  worker,    \* the task each worker runs and what its session has in memory
  abandoned  \* history: messages whose dispatch raised an exception

vars == <<message, outbox, letter, dispatch, dlq, worker, abandoned>>

\* attempts stops at MaxRetries: the code only asks whether it got there.
\* next is next_retry_at: null, in the future, or elapsed.  push: the channel is
\* MessageChannel.PUSH, for which CHANNEL_REGISTRY has no adapter.
Row == [status : {"absent", "pending", "processing", "sent", "failed", "dead"},
        attempts : 0..MaxRetries, next : {"none", "later", "due"}, push : BOOLEAN]

NoRow == [status |-> "absent", attempts |-> 0, next |-> "none", push |-> FALSE]

Letter == [message : Messages \cup {NoMessage}, reprocessed : BOOLEAN]

NewLetter(m) == [message |-> m, reprocessed |-> FALSE]

\* todo: messages a poll has read and not handled; current: the one in hand.
Idle == [task |-> "idle", todo |-> {}, current |-> NoMessage, copy |-> NoRow,
         letter |-> NoLetter]

Init ==
  /\ message = [m \in Messages |-> NoRow]
  /\ outbox = [m \in Messages |-> "none"]
  /\ letter = [l \in Letters |-> NewLetter(NoMessage)]
  /\ dispatch = [m \in Messages |-> 0]
  /\ dlq = [l \in Letters |-> 0]
  /\ worker = [w \in Workers |-> Idle]
  /\ abandoned = {}

\* The session's UPDATE has the columns that differ from what it read.
Flush(row, read, new) ==
  [f \in DOMAIN row |-> IF new[f] # read[f] THEN new[f] ELSE row[f]]

Running(w, name, m) == worker[w].task = name /\ worker[w].current = m

Start(w, w0) == worker' = [worker EXCEPT ![w] = w0]

Finish(w) == Start(w, Idle)

\* One more copy of a task; the broker of the model holds MaxCopies of it.
Add(n) == IF n < MaxCopies THEN n + 1 ELSE n

\* dispatch_message_task.delay(mid)
Enqueue(m) == dispatch' = [dispatch EXCEPT ![m] = Add(@)]

-----------------------------------------------------------------------------
\* POST /messages, POST /notifications/trigger: the message and its event in
\* one transaction.  A second POST of the key returns the message, or fails on
\* the unique index when it raced the first.
EnqueueMessage(m, push) ==
  /\ message[m].status = "absent"
  /\ message' = [message EXCEPT ![m].status = "pending", ![m].push = push]
  /\ outbox' = [outbox EXCEPT ![m] = "new"]
  /\ UNCHANGED <<letter, dispatch, dlq, worker, abandoned>>

\* relay_outbox_task reads the NEW events ...
BeginRelay(w) ==
  LET new == {m \in Messages : outbox[m] = "new"}
  IN  /\ worker[w] = Idle
      /\ new # {}
      /\ Start(w, [Idle EXCEPT !.task = "relay", !.todo = new])
      /\ UNCHANGED <<message, outbox, letter, dispatch, dlq, abandoned>>

\* ... and for each of them in turn sends a dispatch task ...
RelayEvent(w, m) ==
  /\ worker[w].task = "relay" /\ m \in worker[w].todo
  /\ Enqueue(m)
  /\ Start(w, [worker[w] EXCEPT !.task = "mark", !.current = m, !.todo = @ \ {m}])
  /\ UNCHANGED <<message, outbox, letter, dlq, abandoned>>

\* ... and commits the event as PUBLISHED.
MarkPublished(w, m) ==
  /\ Running(w, "mark", m)
  /\ outbox' = [outbox EXCEPT ![m] = "published"]
  /\ IF worker[w].todo = {}
     THEN Finish(w)
     ELSE Start(w, [worker[w] EXCEPT !.task = "relay", !.current = NoMessage])
  /\ UNCHANGED <<message, letter, dispatch, dlq, abandoned>>

\* retry_failed_messages_task reads the FAILED messages that are due ...
BeginRetry(w) ==
  LET due == {m \in Messages : message[m].status = "failed" /\ message[m].next = "due"}
  IN  /\ worker[w] = Idle
      /\ due # {}
      /\ Start(w, [Idle EXCEPT !.task = "retry", !.todo = due])
      /\ UNCHANGED <<message, outbox, letter, dispatch, dlq, abandoned>>

\* ... and sends a dispatch task for each, leaving the rows as they are.
RetryMessage(w, m) ==
  /\ worker[w].task = "retry" /\ m \in worker[w].todo
  /\ Enqueue(m)
  /\ IF worker[w].todo = {m}
     THEN Finish(w)
     ELSE Start(w, [worker[w] EXCEPT !.todo = @ \ {m}])
  /\ UNCHANGED <<message, outbox, letter, dlq, abandoned>>

\* next_retry_at passes.
BackoffElapses(m) ==
  /\ message[m].next = "later"
  /\ message' = [message EXCEPT ![m].next = "due"]
  /\ UNCHANGED <<outbox, letter, dispatch, dlq, worker, abandoned>>

-----------------------------------------------------------------------------
\* dispatch_message_task takes a message's task and reads the message,
\* whatever its status.
BeginDispatch(w, m) ==
  /\ worker[w] = Idle
  /\ dispatch[m] > 0
  /\ dispatch' = [dispatch EXCEPT ![m] = @ - 1]
  /\ Start(w, [Idle EXCEPT !.task = "dispatch", !.current = m, !.copy = message[m]])
  /\ UNCHANGED <<message, outbox, letter, dlq, abandoned>>

\* dispatch_message: PROCESSING and one more attempt, committed before the send.
StartAttempt(w, m) ==
  LET read == worker[w].copy
      new  == [read EXCEPT !.status = "processing",
                           !.attempts = IF @ < MaxRetries THEN @ + 1 ELSE @]
  IN  /\ Running(w, "dispatch", m)
      /\ message' = [message EXCEPT ![m] = Flush(@, read, new)]
      /\ Start(w, [worker[w] EXCEPT !.task = "sending", !.copy = new])
      /\ UNCHANGED <<outbox, letter, dispatch, dlq, abandoned>>

\* The outcome of an attempt, committed: status and next_retry_at always differ
\* from the copy's (a new retry time is a new one).
Outcome(w, m, status, next) ==
  /\ Running(w, "sending", m)
  /\ message' = [message EXCEPT ![m].status = status,
                                ![m].next = IF next = "none" THEN @ ELSE next]
  /\ Finish(w)
  /\ UNCHANGED <<outbox, dispatch, dlq, abandoned>>

\* CHANNEL_REGISTRY.get(channel) is None
NoAdapter(w, m) ==
  /\ worker[w].copy.push
  /\ Outcome(w, m, "failed", "none")
  /\ UNCHANGED letter

Sent(w, m) ==
  /\ ~worker[w].copy.push
  /\ Outcome(w, m, "sent", "none")
  /\ UNCHANGED letter

should_dead_letter(attempts) == attempts >= MaxRetries

\* Mutant: a retry without a time.
RetryUnscheduled(w, m) ==
  /\ ~worker[w].copy.push
  /\ ~should_dead_letter(worker[w].copy.attempts)
  /\ Outcome(w, m, "failed", "none")
  /\ UNCHANGED letter

ScheduleRetry(w, m) ==
  /\ ~worker[w].copy.push
  /\ ~should_dead_letter(worker[w].copy.attempts)
  /\ Outcome(w, m, "failed", "later")
  /\ UNCHANGED letter

\* A permanent failure (any attempt) or the last retry: status and dead letter
\* in one commit.
MoveToDlq(w, m) ==
  /\ ~worker[w].copy.push
  /\ Outcome(w, m, "dead", "none")
  /\ \E l \in Letters : /\ letter[l].message = NoMessage
                        /\ letter' = [letter EXCEPT ![l] = NewLetter(m)]

-----------------------------------------------------------------------------
\* POST /dlq/{id}/reprocess: a check, then process_dlq_task.delay.
RequestReprocess(l) ==
  /\ letter[l].message # NoMessage /\ ~letter[l].reprocessed
  /\ dlq' = [dlq EXCEPT ![l] = Add(@)]
  /\ UNCHANGED <<message, outbox, letter, dispatch, worker, abandoned>>

\* process_dlq_task reads the letter, and stops if it is reprocessed ...
BeginReprocess(w, l) ==
  /\ worker[w] = Idle
  /\ dlq[l] > 0
  /\ dlq' = [dlq EXCEPT ![l] = @ - 1]
  /\ IF letter[l].reprocessed
     THEN UNCHANGED worker
     ELSE Start(w, [Idle EXCEPT !.task = "read", !.letter = l,
                                !.current = letter[l].message])
  /\ UNCHANGED <<message, outbox, letter, dispatch, abandoned>>

\* ... reads its message ...
ReadMessage(w, m) ==
  /\ Running(w, "read", m)
  /\ Start(w, [worker[w] EXCEPT !.task = "reprocess", !.copy = message[m]])
  /\ UNCHANGED <<message, outbox, letter, dispatch, dlq, abandoned>>

\* Mutant: the letter is closed and the message left as it is.
CloseLetter(w, m, reset_attempts) ==
  /\ Running(w, "reprocess", m)
  /\ letter' = [letter EXCEPT ![worker[w].letter].reprocessed = TRUE]
  /\ Start(w, [worker[w] EXCEPT !.task = "requeue"])
  /\ UNCHANGED <<message, outbox, dispatch, dlq, abandoned>>

\* ... makes it PENDING again, its attempts reset if the request says so (what
\* follows needs the message's id only, so its copy is dropped) ...
CommitReprocess(w, m, reset_attempts) ==
  LET read == worker[w].copy
      new  == [read EXCEPT !.status = "pending", !.next = "none",
                           !.attempts = IF reset_attempts THEN 0 ELSE @]
  IN  /\ Running(w, "reprocess", m)
      /\ message' = [message EXCEPT ![m] = Flush(@, read, new)]
      /\ letter' = [letter EXCEPT ![worker[w].letter].reprocessed = TRUE]
      /\ Start(w, [worker[w] EXCEPT !.task = "requeue", !.copy = NoRow])
      /\ UNCHANGED <<outbox, dispatch, dlq, abandoned>>

\* ... and sends its dispatch task after the commit.
Requeue(w, m) ==
  /\ Running(w, "requeue", m)
  /\ Enqueue(m)
  /\ Finish(w)
  /\ UNCHANGED <<message, outbox, letter, dlq, abandoned>>

-----------------------------------------------------------------------------
\* The tasks a worker has taken from the broker and not acknowledged.
TakenDispatch(w) == IF worker[w].task \in {"dispatch", "sending"}
                    THEN {worker[w].current} ELSE {}

TakenDlq(w) == IF worker[w].task \in {"read", "reprocess", "requeue"}
               THEN {worker[w].letter} ELSE {}

\* Mutant: tasks are acknowledged when they are taken.
LoseTask(w) ==
  /\ "worker_lost" \in Failures
  /\ worker[w] # Idle
  /\ Finish(w)
  /\ UNCHANGED <<message, outbox, letter, dispatch, dlq, abandoned>>

\* A worker dies: its session's transaction is lost, and the broker delivers
\* the task again (task_acks_late).  A poll is sent again by beat.
LoseWorker(w) ==
  /\ "worker_lost" \in Failures
  /\ worker[w] # Idle
  /\ dispatch' = [m \in Messages |-> IF m \in TakenDispatch(w) THEN Add(dispatch[m])
                                                              ELSE dispatch[m]]
  /\ dlq' = [l \in Letters |-> IF l \in TakenDlq(w) THEN Add(dlq[l]) ELSE dlq[l]]
  /\ Finish(w)
  /\ UNCHANGED <<message, outbox, letter, abandoned>>

\* A task raises: a database error, a .delay that fails, an adapter's exception
\* that is not a ChannelSendError.  Nothing retries it (max_retries=0), and the
\* broker takes a failed task as acknowledged.
RaiseException(w) ==
  /\ "exception" \in Failures
  /\ worker[w] # Idle
  /\ Finish(w)
  /\ abandoned' = abandoned \cup TakenDispatch(w)
  /\ UNCHANGED <<message, outbox, letter, dispatch, dlq>>

\* What a dispatch does once it has read its message.
Attempt(w, m) ==
  StartAttempt(w, m) \/ NoAdapter(w, m) \/ Sent(w, m) \/ ScheduleRetry(w, m) \/ MoveToDlq(w, m)

Reprocess(w, m) ==
  \/ ReadMessage(w, m)
  \/ \E reset_attempts \in BOOLEAN : CommitReprocess(w, m, reset_attempts)
  \/ Requeue(w, m)

\* The steps of a task that has begun.
Continue(w) ==
  \E m \in Messages : \/ RelayEvent(w, m) \/ MarkPublished(w, m) \/ RetryMessage(w, m)
                      \/ Attempt(w, m) \/ Reprocess(w, m)

Next ==
  \/ \E m \in Messages : (\E push \in BOOLEAN : EnqueueMessage(m, push)) \/ BackoffElapses(m)
  \/ \E l \in Letters : RequestReprocess(l)
  \/ \E w \in Workers :
       \/ BeginRelay(w) \/ BeginRetry(w)
       \/ \E m \in Messages : BeginDispatch(w, m)
       \/ \E l \in Letters : BeginReprocess(w, l)
       \/ Continue(w)
       \/ LoseWorker(w) \/ RaiseException(w)

Spec == Init /\ [][Next]_vars

\* Beat keeps sending the polls and workers keep taking tasks, a task goes on
\* until it ends, time passes, and workers do not die for ever.
Fairness ==
  /\ \A m \in Messages : WF_vars(BackoffElapses(m))
  /\ \A w \in Workers : WF_vars(Continue(w))
  /\ SF_vars(\E w \in Workers : BeginRelay(w))
  /\ SF_vars(\E w \in Workers : BeginRetry(w))
  /\ \A m \in Messages : SF_vars(\E w \in Workers : BeginDispatch(w, m))
  /\ <>[][\A w \in Workers : ~LoseWorker(w)]_vars

\* Nobody reprocesses dead letters, which would undo a settled message.
Unattended == Next /\ \A l \in Letters : ~RequestReprocess(l)

FairSpec == Init /\ [][Unattended]_vars /\ Fairness

-----------------------------------------------------------------------------
Tasks == {"idle", "relay", "mark", "retry", "dispatch", "sending",
          "read", "reprocess", "requeue"}

OutboxTypeOK ==
  /\ message \in [Messages -> Row]
  /\ outbox \in [Messages -> {"none", "new", "published"}]
  /\ letter \in [Letters -> Letter]
  /\ dispatch \in [Messages -> 0..MaxCopies]
  /\ dlq \in [Letters -> 0..MaxCopies]
  /\ worker \in [Workers -> [task : Tasks, todo : SUBSET Messages,
                             current : Messages \cup {NoMessage}, copy : Row,
                             letter : Letters \cup {NoLetter}]]
  /\ abandoned \subseteq Messages

Settled(m) == message[m].status \in {"absent", "sent", "dead"}

InHand(w, m) == \E t \in {"dispatch", "sending", "requeue"} : Running(w, t, m)

\* Something will still act on the message.
Recoverable(m) ==
  \/ outbox[m] = "new"
  \/ dispatch[m] > 0
  \/ \E w \in Workers : InHand(w, m)
  \/ message[m].status = "failed" /\ message[m].next # "none"

\* No message is lost: one that is neither sent nor dead-lettered is still on
\* its way (outbox_service.py: a crash "can never lose a notification").
NothingLost == \A m \in Messages : Settled(m) \/ Recoverable(m)

Reprocessed(m) == \E l \in Letters : letter[l].message = m /\ letter[l].reprocessed

\* Nothing but three gaps loses a message: a channel with no adapter, a dispatch
\* that raised an exception, a reprocessing that stopped half way.  No worker
\* that dies, no duplicate and no overlap does.
OutboxLosesNothing ==
  \A m \in Messages :
    \/ Settled(m) \/ Recoverable(m)
    \/ message[m].push \/ m \in abandoned \/ Reprocessed(m)

\* A dead message can be found: one of its letters still waits in the queue,
\* however many dispatches of the message overlapped.
DeadHasLetter ==
  \A m \in Messages : message[m].status = "dead" =>
    \E l \in Letters : letter[l].message = m /\ ~letter[l].reprocessed

\* At-least-once: a message ends up sent or dead-lettered and stays so, once
\* workers stop dying (the OutboxEvent docstring guarantees delivery "even if
\* the process crashes right after commit").
MessageSettles ==
  \A m \in Messages : (outbox[m] = "new" /\ ~message[m].push) ~> []Settled(m)
=============================================================================
