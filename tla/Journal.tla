------------------------------- MODULE Journal -------------------------------
(***************************************************************************)
(* The journal of the Finance service (journal_service.py): entries are     *)
(* created as drafts or posted at once, drafts are posted later, and posted *)
(* ones are reversed by an entry with the sides swapped.  A request reads   *)
(* the entry it works on and counts the entries for the next number without *)
(* a lock; entry_number has a unique index.                                 *)
(***************************************************************************)
EXTENDS Integers, FiniteSets

CONSTANTS
  Postings,   \* calls of create_and_post_entry; each is the id of its row
  Drafts,     \* those with auto_post=False
  Reversers,  \* requests POST /journal/entries/{id}/reverse, ids of their rows
  Posters,    \* requests POST /journal/entries/{id}/post
  NoRow       \* reversal_of_id of an entry that reverses none

Rows == Postings \cup Reversers
Desks == Rows \cup Posters

ASSUME JournalAssumption ==
  /\ IsFiniteSet(Rows)
  /\ Drafts \subseteq Postings
  /\ Postings \cap Reversers = {} /\ Rows \cap Posters = {}
  /\ NoRow \notin Desks

VARIABLES
  je,      \* rows of journal_entries
  desk,    \* what the request of each has read, and how far it is
  shared   \* history: entries that two requests worked on at one time

journalVars == <<je, desk, shared>>

Absent == [status |-> "absent", number |-> 0, reversal_of |-> NoRow]

AtDesk == [step |-> "new", entry |-> NoRow, number |-> 0]

JournalInit ==
  /\ je = [r \in Rows |-> Absent]
  /\ desk = [d \in Desks |-> AtDesk]
  /\ shared = {}

Recorded == {r \in Rows : je[r].status # "absent"}

Numbers == {je[r].number : r \in Recorded}

Works(d, e) == desk[d].step \in {"read", "numbered"} /\ desk[d].entry = e

Leave(d) == desk' = [desk EXCEPT ![d].step = "done"]

-----------------------------------------------------------------------------
\* get_entry, and the check of the status it has: POSTED to reverse it, DRAFT
\* to post it.
get_entry(d, e, required) ==
  /\ desk[d].step = "new"
  /\ je[e].status = required
  /\ desk' = [desk EXCEPT ![d] = [step |-> "read", entry |-> e, number |-> 0]]
  /\ shared' = IF \E c \in Desks : Works(c, e) THEN shared \cup {e} ELSE shared
  /\ UNCHANGED je

BeginReversal(d, e) == get_entry(d, e, "posted")
BeginPost(d, e) == get_entry(d, e, "draft")

\* _next_entry_number, of one year: the count of the entries, plus one.
_next_entry_number(d) ==
  /\ desk[d].step = IF d \in Reversers THEN "read" ELSE "new"
  /\ desk' = [desk EXCEPT ![d].step = "numbered",
                          ![d].number = Cardinality(Recorded) + 1]
  /\ UNCHANGED <<je, shared>>

\* Mutant: the number has no unique index.
CommitTaken(p) ==
  /\ desk[p].step = "numbered"
  /\ je' = [je EXCEPT ![p] = [status      |-> IF p \in Drafts THEN "draft" ELSE "posted",
                              number      |-> desk[p].number,
                              reversal_of |-> NoRow]]
  /\ Leave(p)
  /\ UNCHANGED shared

\* create_and_post_entry: the entry, its lines and its audit rows are committed
\* at once ...
CommitEntry(p) ==
  /\ desk[p].step = "numbered"
  /\ desk[p].number \notin Numbers
  /\ je' = [je EXCEPT ![p] = [status      |-> IF p \in Drafts THEN "draft" ELSE "posted",
                              number      |-> desk[p].number,
                              reversal_of |-> NoRow]]
  /\ Leave(p)
  /\ UNCHANGED shared

\* ... unless another entry took the number meanwhile: IntegrityError.
NumberTaken(d) ==
  /\ desk[d].step = "numbered"
  /\ desk[d].number \in Numbers
  /\ Leave(d)
  /\ UNCHANGED <<je, shared>>

\* Mutant: the entry that is reversed keeps its status.
ReverseOnly(d) ==
  /\ desk[d].step = "numbered"
  /\ desk[d].number \notin Numbers
  /\ je' = [je EXCEPT ![d] = [status      |-> "posted",
                              number      |-> desk[d].number,
                              reversal_of |-> desk[d].entry]]
  /\ Leave(d)
  /\ UNCHANGED shared

\* reverse_entry commits the reversal, and the original as REVERSED.
reverse_entry(d) ==
  /\ desk[d].step = "numbered"
  /\ desk[d].number \notin Numbers
  /\ je' = [je EXCEPT ![d] = [status      |-> "posted",
                              number      |-> desk[d].number,
                              reversal_of |-> desk[d].entry],
                      ![desk[d].entry].status = "reversed"]
  /\ Leave(d)
  /\ UNCHANGED shared

\* post_entry commits the entry it read as a draft as POSTED.
post_entry(d) ==
  /\ desk[d].step = "read"
  /\ je' = [je EXCEPT ![desk[d].entry].status = "posted"]
  /\ Leave(d)
  /\ UNCHANGED shared

Create(p) == _next_entry_number(p) \/ CommitEntry(p) \/ NumberTaken(p)

Reverse(d) ==
  \/ \E e \in Rows : BeginReversal(d, e)
  \/ _next_entry_number(d) \/ reverse_entry(d) \/ NumberTaken(d)

PostDraft(d) == post_entry(d) \/ \E e \in Rows : BeginPost(d, e)

JournalNext ==
  \/ \E p \in Postings : Create(p)
  \/ \E d \in Reversers : Reverse(d)
  \/ \E d \in Posters : PostDraft(d)

JournalSpec == JournalInit /\ [][JournalNext]_journalVars

-----------------------------------------------------------------------------
ReversalsOf(e) == {r \in Reversers : je[r].reversal_of = e /\ je[r].status # "absent"}

JournalStatuses == {"absent", "draft", "posted", "reversed"}

JournalTypeOK ==
  /\ je \in [Rows -> [status : JournalStatuses, number : Nat, reversal_of : Rows \cup {NoRow}]]
  /\ desk \in [Desks -> [step : {"new", "read", "numbered", "done"},
                         entry : Rows \cup {NoRow}, number : Nat]]
  /\ shared \subseteq Rows

\* The entries are numbered from one without a gap or a repetition, although
\* each number is a count read before other entries were committed.
NumbersDense == Numbers = 1..Cardinality(Recorded)

\* A reversal offsets an entry that was posted, never a draft, and an entry is
\* not reversed twice unless two requests worked on it at one time; then and
\* only then is it marked as reversed.
ReversedOnce ==
  \A e \in Recorded :
    /\ ReversalsOf(e) # {} => je[e].status # "draft"
    /\ e \notin shared =>
         Cardinality(ReversalsOf(e)) = IF je[e].status = "reversed" THEN 1 ELSE 0
=============================================================================
