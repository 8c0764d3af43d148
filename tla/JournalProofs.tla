---------------------------- MODULE JournalProofs ----------------------------
(***************************************************************************)
(* Proofs about the finance service, for any entries, requests, settlements *)
(* and passes: the journal is numbered without a gap although nobody locks  *)
(* the count, an entry is reversed once unless two requests met over it,    *)
(* and passes that follow one another settle a settlement once.             *)
(***************************************************************************)
EXTENDS Books, ProcurementProofs, FiniteSetTheorems, TLAPS

Posted == {"posted", "reversed"}

\* A row is there only once its request is done, and the number a request holds
\* was within reach when it was counted, and still is.
RowsPending ==
  /\ \A r \in Rows : desk[r].step # "done" => je[r] = Absent
  /\ \A r \in Rows : desk[r].step = "numbered" =>
       desk[r].number \in 1..(Cardinality(Recorded) + 1)

\* A reversal works on an entry that was posted, a poster on one that exists.
EntriesRead ==
  /\ \A p \in Postings : desk[p].entry = NoRow
  /\ \A d \in Reversers : desk[d].step \in {"read", "numbered"} =>
       desk[d].entry \in Rows /\ je[desk[d].entry].status \in Posted
  /\ \A d \in Posters :
       /\ desk[d].step # "numbered"
       /\ desk[d].step = "read" => desk[d].entry \in Rows /\ je[desk[d].entry] # Absent
                                   /\ je[desk[d].entry].status # "absent"

\* What is reversed was posted.
ReversedWasPosted == \A e \in Rows : ReversalsOf(e) # {} => je[e].status \in Posted

\* An entry that is not shared has one request at most, which has read what the
\* row still says.
AloneAtDesk ==
  \A e \in Rows \ shared :
    /\ \A c, d \in Desks : Works(c, e) /\ Works(d, e) => c = d
    /\ \A d \in Reversers : Works(d, e) => je[e].status = "posted"
    /\ \A d \in Posters : Works(d, e) => je[e].status = "draft"

\* ReversedOnce without cardinalities.
OneReversal ==
  \A e \in Rows \ shared :
    /\ je[e].status # "reversed" => ReversalsOf(e) = {}
    /\ je[e].status = "reversed" => \E d \in Reversers : ReversalsOf(e) = {d}

\* The inductive invariant of the numbers, and that of the reversals.
NumbersInv == JournalTypeOK /\ RowsPending /\ NumbersDense

ReversalsInv == EntriesRead /\ ReversedWasPosted /\ AloneAtDesk /\ OneReversal

-----------------------------------------------------------------------------
\* Adding a row whose number is free and within reach keeps the numbers dense:
\* the number can only be the count plus one.
LEMMA DenseStep ==
  ASSUME JournalAssumption, NumbersInv, NEW r \in Rows, NEW n \in Nat,
         r \notin Recorded, n \notin Numbers, n \in 1..(Cardinality(Recorded) + 1),
         Recorded' = Recorded \cup {r}, Numbers' = Numbers \cup {n}
  PROVE  /\ NumbersDense'
         /\ Cardinality(Recorded)' = Cardinality(Recorded) + 1
  <1>1. Recorded \subseteq Rows
    BY DEF Recorded
  <1>2. IsFiniteSet(Recorded) /\ Cardinality(Recorded) \in Nat
    BY <1>1, FS_Subset, FS_CardinalityType DEF JournalAssumption
  <1>3. Cardinality(Recorded \cup {r}) = Cardinality(Recorded) + 1
    BY <1>2, FS_AddElement
  <1>4. Numbers = 1..Cardinality(Recorded)
    BY DEF NumbersInv, NumbersDense
  <1>5. n = Cardinality(Recorded) + 1
    BY <1>2, <1>4
  <1>6. Numbers \cup {n} = 1..(Cardinality(Recorded) + 1)
    BY <1>2, <1>4, <1>5
  <1>7. Cardinality(Recorded') = Cardinality(Recorded) + 1
    BY <1>3
  <1> QED
    BY <1>6, <1>7 DEF NumbersDense

\* The rows and the numbers after a request has added its row, whatever it does
\* to the status of another.
LEMMA RowAdded ==
  ASSUME JournalAssumption, JournalTypeOK, NEW r \in Rows, NEW row,
         row \in [status : JournalStatuses, number : Nat, reversal_of : Rows \cup {NoRow}],
         row.status # "absent", je[r] = Absent,
         NEW je1, je1 = [je EXCEPT ![r] = row],
         \/ je' = je1
         \/ \E e \in Recorded : je' = [je1 EXCEPT ![e].status = "reversed"]
  PROVE  /\ Recorded' = Recorded \cup {r}
         /\ Numbers' = Numbers \cup {row.number}
         /\ r \notin Recorded
         /\ je' \in [Rows -> [status : JournalStatuses, number : Nat,
                              reversal_of : Rows \cup {NoRow}]]
  <1> USE DEF Recorded, JournalTypeOK
  <1>1. r \notin Recorded
    BY DEF Absent
  <1>2. /\ je' \in [Rows -> [status : JournalStatuses, number : Nat,
                             reversal_of : Rows \cup {NoRow}]]
        /\ \A q \in Rows : /\ je'[q].number = IF q = r THEN row.number ELSE je[q].number
                           /\ je'[q].status # "absent" <=> q \in Recorded \cup {r}
    <2>1. CASE je' = je1
      BY <2>1
    <2>2. CASE \E e \in Recorded : je' = [je1 EXCEPT ![e].status = "reversed"]
      <3> PICK e \in Recorded : je' = [je1 EXCEPT ![e].status = "reversed"]
        BY <2>2
      <3>1. je1 \in [Rows -> [status : JournalStatuses, number : Nat,
                              reversal_of : Rows \cup {NoRow}]]
        OBVIOUS
      <3>2. "reversed" \in JournalStatuses
        BY DEF JournalStatuses
      <3>3. e # r
        BY <1>1
      <3> QED
        BY <3>1, <3>2, <3>3
    <2> QED
      BY <2>1, <2>2
  <1>3. Recorded' = Recorded \cup {r}
    BY <1>2
  <1>4. Numbers' = Numbers \cup {row.number}
    BY <1>1, <1>2, <1>3 DEF Numbers
  <1> QED
    BY <1>1, <1>2, <1>3, <1>4

\* A step that adds no row and keeps the numbers keeps what they rest on.
LEMMA RowsKept ==
  ASSUME JournalAssumption, NumbersInv, JournalTypeOK',
         \A r \in Rows : /\ je'[r].number = je[r].number
                         /\ je'[r].status = "absent" <=> je[r].status = "absent"
                         /\ je[r] = Absent => je'[r] = Absent,
         \A r \in Rows : desk'[r].step # "done" => desk[r].step # "done",
         \A r \in Rows : desk'[r].step = "numbered" =>
           \/ desk[r] = desk'[r]
           \/ desk'[r].number = Cardinality(Recorded) + 1
  PROVE  NumbersInv'
  <1>1. Recorded' = Recorded
    BY DEF Recorded
  <1>2. Numbers' = Numbers
    BY <1>1 DEF Numbers, Recorded
  <1>3. IsFiniteSet(Recorded) /\ Cardinality(Recorded) \in Nat
    <2>1. Recorded \subseteq Rows
      BY DEF Recorded
    <2> QED
      BY <2>1, FS_Subset, FS_CardinalityType DEF JournalAssumption
  <1>4. RowsPending'
    BY <1>1, <1>3 DEF RowsPending, NumbersInv
  <1> QED
    BY <1>1, <1>2, <1>4 DEF NumbersInv, NumbersDense

-----------------------------------------------------------------------------
(* The numbers.                                                            *)

LEMMA JournalInitInv ==
  ASSUME JournalAssumption, JournalInit
  PROVE  NumbersInv
  <1> USE DEF JournalInit
  <1>1. JournalTypeOK
    BY DEF JournalTypeOK, Absent, AtDesk, JournalStatuses
  <1>2. Recorded = {}
    BY DEF Recorded, Absent
  <1>3. RowsPending
    BY DEF RowsPending, AtDesk, Desks
  <1>4. Cardinality(Recorded) = 0 /\ Numbers = {}
    BY <1>2, FS_EmptySet DEF Numbers
  <1>5. NumbersDense
    BY <1>4 DEF NumbersDense
  <1> QED
    BY <1>1, <1>3, <1>5 DEF NumbersInv

\* A step of any request keeps the type of the journal.
LEMMA JournalTypes ==
  ASSUME JournalAssumption, JournalTypeOK, [JournalNext]_journalVars
  PROVE  JournalTypeOK'
  <1> USE DEF JournalTypeOK
  <1>0. "posted" \in JournalStatuses /\ "draft" \in JournalStatuses /\ "reversed" \in JournalStatuses
    BY DEF JournalStatuses
  <1>1. CASE UNCHANGED journalVars
    BY <1>1 DEF journalVars
  <1>2. Recorded \in SUBSET Rows /\ IsFiniteSet(Recorded) /\ Cardinality(Recorded) \in Nat
    BY FS_Subset, FS_CardinalityType DEF JournalAssumption, Recorded
  <1>3. ASSUME NEW d \in Desks, NEW e \in Rows, NEW st, get_entry(d, e, st)
        PROVE  JournalTypeOK'
    BY <1>3 DEF get_entry
  <1>4. ASSUME NEW d \in Rows, _next_entry_number(d) PROVE JournalTypeOK'
    <2> DEFINE Desk == [step : {"new", "read", "numbered", "done"},
                        entry : Rows \cup {NoRow}, number : Nat]
               n == Cardinality(Recorded) + 1
    <2>1. n \in Nat
      BY <1>2
    <2>2. d \in Desks /\ desk[d] \in Desk
      BY DEF Desks
    <2>3. desk' = [desk EXCEPT ![d] = [desk[d] EXCEPT !.step = "numbered", !.number = n]]
      BY <1>4 DEF _next_entry_number
    <2>4. [desk[d] EXCEPT !.step = "numbered", !.number = n] \in Desk
      <3> HIDE DEF n
      <3> QED
        BY <2>1, <2>2
    <2>5. desk' \in [Desks -> Desk]
      BY <2>3, <2>4
    <2> QED
      BY <1>4, <2>5 DEF _next_entry_number
  <1>5. ASSUME NEW d \in Desks, Leave(d) PROVE desk' \in [Desks -> [step : {"new", "read", "numbered", "done"},
                         entry : Rows \cup {NoRow}, number : Nat]]
    BY <1>5 DEF Leave
  <1>6. ASSUME NEW d \in Rows, CommitEntry(d) PROVE JournalTypeOK'
    BY <1>0, <1>5, <1>6 DEF CommitEntry, Desks
  <1>7. ASSUME NEW d \in Rows, NumberTaken(d) PROVE JournalTypeOK'
    BY <1>5, <1>7 DEF NumberTaken, Desks
  <1>8. ASSUME NEW d \in Reversers, reverse_entry(d) PROVE JournalTypeOK'
    <2> DEFINE J == [Rows -> [status : JournalStatuses, number : Nat, reversal_of : Rows \cup {NoRow}]]
               je1 == [je EXCEPT ![d] = [status |-> "posted", number |-> desk[d].number,
                                         reversal_of |-> desk[d].entry]]
    <2>1. je1 \in J
      BY <1>0 DEF Rows, Desks
    <2>2. je' = [je1 EXCEPT ![desk[d].entry].status = "reversed"]
      BY <1>8 DEF reverse_entry
    <2>3. je' \in J
      <3> HIDE DEF je1
      <3> QED
        BY <1>0, <2>1, <2>2
    <2>4. Leave(d) /\ UNCHANGED shared /\ d \in Desks
      BY <1>8 DEF reverse_entry, Desks, Rows
    <2> QED
      BY <1>5, <2>3, <2>4
  <1>9. ASSUME NEW d \in Posters, post_entry(d) PROVE JournalTypeOK'
    <2>1. je' = [je EXCEPT ![desk[d].entry].status = "posted"] /\ Leave(d) /\ UNCHANGED shared
      BY <1>9 DEF post_entry
    <2>2. d \in Desks
      BY DEF Desks
    <2>3. je' \in [Rows -> [status : JournalStatuses, number : Nat, reversal_of : Rows \cup {NoRow}]]
      <3>1. desk[d].entry \in Rows =>
              [je[desk[d].entry] EXCEPT !.status = "posted"] \in
                [status : JournalStatuses, number : Nat, reversal_of : Rows \cup {NoRow}]
        BY <1>0
      <3>2. desk[d].entry \notin Rows => je' = je
        BY <2>1
      <3> QED
        BY <2>1, <3>1, <3>2
    <2> QED
      BY <1>5, <2>1, <2>2, <2>3
  <1> QED
    BY <1>1, <1>3, <1>4, <1>6, <1>7, <1>8, <1>9
    DEF JournalNext, Create, Reverse, PostDraft, BeginReversal, BeginPost, Desks, Rows

\* A request that commits its row.
LEMMA NumbersAdded ==
  ASSUME JournalAssumption, NumbersInv, JournalTypeOK', NEW r \in Rows, NEW row,
         row \in [status : JournalStatuses, number : Nat, reversal_of : Rows \cup {NoRow}],
         row.status # "absent", row.number = desk[r].number,
         desk[r].step = "numbered", desk[r].number \notin Numbers,
         NEW je1, je1 = [je EXCEPT ![r] = row],
         \/ je' = je1
         \/ \E e \in Recorded : je' = [je1 EXCEPT ![e].status = "reversed"],
         Leave(r)
  PROVE  NumbersInv'
  <1>1. je[r] = Absent /\ desk[r].number \in 1..(Cardinality(Recorded) + 1)
    BY DEF NumbersInv, RowsPending
  <1>2. /\ Recorded' = Recorded \cup {r}
        /\ Numbers' = Numbers \cup {row.number}
        /\ r \notin Recorded
    BY <1>1, RowAdded DEF NumbersInv
  <1>3. NumbersDense' /\ Cardinality(Recorded)' = Cardinality(Recorded) + 1
    BY <1>1, <1>2, DenseStep
  <1>4. Cardinality(Recorded) \in Nat
    <2>1. Recorded \subseteq Rows
      BY DEF Recorded
    <2> QED
      BY <2>1, FS_Subset, FS_CardinalityType DEF JournalAssumption
  <1>5. /\ desk' = [desk EXCEPT ![r].step = "done"]
        /\ desk \in [Desks -> [step : {"new", "read", "numbered", "done"},
                               entry : Rows \cup {NoRow}, number : Nat]]
        /\ Rows \subseteq Desks
    BY DEF Leave, NumbersInv, JournalTypeOK, Desks
  <1>6. \A q \in Rows : desk'[q].step # "done" => q # r /\ desk'[q] = desk[q]
    BY <1>5
  <1>7. \A q \in Rows : q # r /\ q \notin Recorded => je'[q] = je[q]
    <2>1. je \in [Rows -> [status : JournalStatuses, number : Nat, reversal_of : Rows \cup {NoRow}]]
      BY DEF NumbersInv, JournalTypeOK
    <2> QED
      BY <2>1
  <1>8. \A q \in Rows : desk'[q].step # "done" => je'[q] = Absent
    BY <1>6, <1>7 DEF NumbersInv, RowsPending, Recorded, Absent
  <1>9. RowsPending'
    BY <1>3, <1>4, <1>6, <1>8 DEF NumbersInv, RowsPending
  <1> QED
    BY <1>3, <1>9 DEF NumbersInv

\* Whatever interleaves, the numbers stay dense.
LEMMA NumbersStep ==
  ASSUME JournalAssumption, NumbersInv, EntriesRead, [JournalNext]_journalVars
  PROVE  NumbersInv'
  <1>0. JournalTypeOK /\ JournalTypeOK'
    BY JournalTypes DEF NumbersInv
  <1> USE DEF Desks
  <1>1. CASE UNCHANGED journalVars
    BY <1>0, <1>1, RowsKept DEF journalVars
  <1>2. ASSUME NEW d \in Desks, NEW e \in Rows, NEW st, get_entry(d, e, st)
        PROVE  NumbersInv'
    BY <1>0, <1>2, RowsKept DEF get_entry, JournalTypeOK
  <1>3. ASSUME NEW d \in Rows, _next_entry_number(d) PROVE NumbersInv'
    <2>1. desk[d].step # "done" /\ desk'[d].number = Cardinality(Recorded) + 1
      BY <1>0, <1>3 DEF _next_entry_number, JournalTypeOK
    <2>2. \A r \in Rows : r # d => desk'[r] = desk[r]
      BY <1>0, <1>3 DEF _next_entry_number, JournalTypeOK
    <2> QED
      BY <1>0, <1>3, <2>1, <2>2, RowsKept DEF _next_entry_number
  <1>4. ASSUME NEW d \in Rows, NumberTaken(d) PROVE NumbersInv'
    BY <1>0, <1>4, RowsKept DEF NumberTaken, Leave, JournalTypeOK
  <1>5. ASSUME NEW d \in Posters, post_entry(d) PROVE NumbersInv'
    <2>1. desk[d].entry \in Rows /\ je[desk[d].entry] # Absent /\ je[desk[d].entry].status # "absent"
      BY <1>5 DEF EntriesRead, post_entry
    <2>2. d \notin Rows /\ \A r \in Rows : desk'[r] = desk[r]
      BY <1>0, <1>5 DEF post_entry, Leave, JournalTypeOK, JournalAssumption
    <2>3. \A r \in Rows : /\ je'[r].number = je[r].number
                          /\ je'[r].status = "absent" <=> je[r].status = "absent"
                          /\ je[r] = Absent => je'[r] = Absent
      BY <1>0, <1>5, <2>1 DEF post_entry, JournalTypeOK
    <2> QED
      BY <1>0, <2>2, <2>3, RowsKept
  <1>6. ASSUME NEW d \in Postings, CommitEntry(d) PROVE NumbersInv'
    <2> DEFINE row == [status      |-> IF d \in Drafts THEN "draft" ELSE "posted",
                       number      |-> desk[d].number,
                       reversal_of |-> NoRow]
    <2>1. d \in Rows
      BY DEF Rows
    <2>2. row \in [status : JournalStatuses, number : Nat, reversal_of : Rows \cup {NoRow}]
      BY <1>0, <2>1 DEF JournalTypeOK, JournalStatuses
    <2> QED
      BY <1>0, <1>6, <2>1, <2>2, NumbersAdded DEF CommitEntry
  <1>7. ASSUME NEW d \in Reversers, reverse_entry(d) PROVE NumbersInv'
    <2> DEFINE row == [status |-> "posted", number |-> desk[d].number, reversal_of |-> desk[d].entry]
               je1 == [je EXCEPT ![d] = row]
    <2>1. d \in Rows
      BY DEF Rows
    <2>2. row \in [status : JournalStatuses, number : Nat, reversal_of : Rows \cup {NoRow}]
      BY <1>0, <2>1 DEF JournalTypeOK, JournalStatuses
    <2>3. desk[d].entry \in Recorded
      BY <1>7 DEF reverse_entry, EntriesRead, Posted, Recorded
    <2>4. je' = [je1 EXCEPT ![desk[d].entry].status = "reversed"]
      BY <1>7 DEF reverse_entry
    <2> QED
      BY <1>0, <1>7, <2>1, <2>2, <2>3, <2>4, NumbersAdded DEF reverse_entry
  <1> QED
    BY <1>1, <1>2, <1>3, <1>4, <1>5, <1>6, <1>7
    DEF JournalNext, Create, Reverse, PostDraft, BeginReversal, BeginPost, Rows

-----------------------------------------------------------------------------
(* The reversals.                                                          *)

LEMMA ReversalsInit ==
  ASSUME JournalAssumption, JournalInit
  PROVE  ReversalsInv
  <1> USE DEF JournalInit
  <1>1. \A e \in Rows : ReversalsOf(e) = {} /\ je[e].status = "absent"
    BY DEF ReversalsOf, Absent, Rows
  <1>2. EntriesRead
    BY DEF EntriesRead, AtDesk, Desks, Rows
  <1>3. AloneAtDesk
    BY DEF AloneAtDesk, Works, AtDesk, Desks, Rows
  <1> QED
    BY <1>1, <1>2, <1>3 DEF ReversalsInv, ReversedWasPosted, OneReversal

\* A step that leaves the rows alone, of a request that takes up no entry.
LEMMA DesksOnly ==
  ASSUME JournalAssumption, JournalTypeOK, ReversalsInv,
         UNCHANGED <<je, shared>>,
         \A d \in Desks : /\ desk'[d].step \in {"read", "numbered"} =>
                               /\ desk[d].step \in {"read", "numbered"} \/ d \in Postings
                          /\ desk'[d].step \in {"read", "numbered"} \/ d \in Postings =>
                               desk'[d].entry = desk[d].entry
                          /\ d \in Posters => desk'[d].step # "numbered"
  PROVE  ReversalsInv'
  <1> USE DEF ReversalsInv
  <1>1. \A e \in Rows : ReversalsOf(e)' = ReversalsOf(e)
    BY DEF ReversalsOf
  <1>2. \A d \in Posters : d \in Desks /\ d \notin Postings
    BY DEF Desks, Rows, JournalAssumption
  <1>3. \A d \in Reversers : d \in Desks /\ d \notin Postings
    BY DEF Desks, Rows, JournalAssumption
  <1>4. \A d \in Postings : d \in Desks
    BY DEF Desks, Rows
  <1>5. EntriesRead'
    BY <1>2, <1>3, <1>4 DEF EntriesRead
  <1>6. \A d \in Desks, e \in Rows : Works(d, e)' => Works(d, e)
    BY DEF Works, EntriesRead, JournalAssumption, Desks
  <1>7. AloneAtDesk'
    BY <1>2, <1>3, <1>6 DEF AloneAtDesk
  <1> QED
    BY <1>1, <1>5, <1>7 DEF ReversedWasPosted, OneReversal

\* Nobody works on a row that is not there, and nothing reverses it.
LEMMA NobodyOn ==
  ASSUME JournalAssumption, JournalTypeOK, ReversalsInv, NEW r \in Rows, je[r] = Absent
  PROVE  ReversalsOf(r) = {} /\ \A c \in Desks : ~Works(c, r)
  <1>1. je[r].status \notin Posted /\ je[r].status = "absent"
    BY DEF Absent, Posted
  <1>2. ReversalsOf(r) = {}
    BY <1>1 DEF ReversalsInv, ReversedWasPosted
  <1>3. ASSUME NEW c \in Desks, Works(c, r) PROVE FALSE
    <2>1. CASE c \in Postings
      BY <1>3, <2>1 DEF Works, ReversalsInv, EntriesRead, JournalAssumption, Desks
    <2>2. CASE c \in Reversers
      BY <1>1, <1>3, <2>2 DEF Works, ReversalsInv, EntriesRead
    <2>3. CASE c \in Posters
      BY <1>3, <2>3 DEF Works, ReversalsInv, EntriesRead
    <2> QED
      BY <2>1, <2>2, <2>3 DEF Desks, Rows
  <1> QED
    BY <1>2, <1>3

\* A request takes up an entry that has the status it needs.
LEMMA EntryTaken ==
  ASSUME JournalAssumption, JournalTypeOK, ReversalsInv,
         NEW d \in Desks, NEW e \in Rows, NEW st, get_entry(d, e, st),
         \/ d \in Reversers /\ st = "posted"
         \/ d \in Posters /\ st = "draft"
  PROVE  ReversalsInv'
  <1> USE DEF ReversalsInv
  <1>1. /\ desk' = [desk EXCEPT ![d] = [step |-> "read", entry |-> e, number |-> 0]]
        /\ je[e].status = st /\ je' = je /\ shared \subseteq shared'
        /\ (\E c \in Desks : Works(c, e)) => e \in shared'
        /\ shared' \subseteq shared \cup {e}
    BY DEF get_entry
  <1>2. /\ desk'[d] = [step |-> "read", entry |-> e, number |-> 0]
        /\ \A c \in Desks : c # d => desk'[c] = desk[c]
    BY <1>1 DEF JournalTypeOK
  <1>3. \A x \in Rows : ReversalsOf(x)' = ReversalsOf(x)
    BY <1>1 DEF ReversalsOf
  <1>4. /\ Postings \subseteq Desks /\ Reversers \subseteq Desks /\ Posters \subseteq Desks
        /\ Postings \cap Reversers = {} /\ Postings \cap Posters = {} /\ Reversers \cap Posters = {}
    BY DEF Desks, Rows, JournalAssumption
  <1>5. EntriesRead'
    <2>1. je[e] # Absent /\ je[e].status # "absent"
      BY <1>1 DEF Absent
    <2> QED
      BY <1>1, <1>2, <1>4, <2>1 DEF EntriesRead, Posted
  <1>6. \A c \in Desks, x \in Rows : Works(c, x)' => Works(c, x) \/ (c = d /\ x = e)
    BY <1>2 DEF Works
  <1>7. AloneAtDesk'
    <2> SUFFICES ASSUME NEW x \in Rows, x \notin shared'
                 PROVE  /\ \A c, b \in Desks : Works(c, x)' /\ Works(b, x)' => c = b
                        /\ \A c \in Reversers : Works(c, x)' => je'[x].status = "posted"
                        /\ \A c \in Posters : Works(c, x)' => je'[x].status = "draft"
      BY DEF AloneAtDesk
    <2>1. x \notin shared /\ je'[x] = je[x]
      BY <1>1
    <2>2. CASE x = e
      BY <1>1, <1>4, <1>6, <2>1, <2>2
    <2>3. CASE x # e
      BY <1>4, <1>6, <2>1, <2>3 DEF AloneAtDesk
    <2> QED
      BY <2>2, <2>3
  <1> QED
    BY <1>1, <1>3, <1>5, <1>7 DEF ReversedWasPosted, OneReversal

\* A draft is posted.
LEMMA DraftPosted ==
  ASSUME JournalAssumption, JournalTypeOK, ReversalsInv, NEW d \in Posters, post_entry(d)
  PROVE  ReversalsInv'
  <1> USE DEF ReversalsInv
  <1> DEFINE e == desk[d].entry
  <1>1. e \in Rows /\ je[e].status # "absent" /\ d \in Desks /\ Works(d, e)
    BY DEF EntriesRead, post_entry, Desks, Works
  <1>2. /\ \A x \in Rows : /\ je'[x].reversal_of = je[x].reversal_of
                           /\ je'[x].status = IF x = e THEN "posted" ELSE je[x].status
                           /\ x # e => je'[x] = je[x]
        /\ shared' = shared
    BY <1>1 DEF post_entry, JournalTypeOK
  <1>3. /\ desk'[d].step = "done"
        /\ \A c \in Desks : c # d => desk'[c] = desk[c]
    BY <1>1 DEF post_entry, Leave, JournalTypeOK
  <1>4. /\ Postings \subseteq Desks /\ Reversers \subseteq Desks /\ Posters \subseteq Desks
        /\ d \notin Postings /\ d \notin Reversers /\ Reversers \subseteq Rows
    BY DEF Desks, Rows, JournalAssumption
  <1>5. \A x \in Rows : ReversalsOf(x)' = ReversalsOf(x)
    BY <1>1, <1>2, <1>4 DEF ReversalsOf
  <1>6. \A c \in Desks, x \in Rows : Works(c, x)' => Works(c, x) /\ c # d
    BY <1>3 DEF Works
  <1>7. EntriesRead'
    BY <1>2, <1>3, <1>4 DEF EntriesRead, Posted, Absent
  <1>8. AloneAtDesk'
    BY <1>1, <1>2, <1>4, <1>6 DEF AloneAtDesk
  <1>9. ReversedWasPosted'
    BY <1>2, <1>5 DEF ReversedWasPosted, Posted
  <1>10. OneReversal'
    BY <1>1, <1>2, <1>5 DEF OneReversal, AloneAtDesk
  <1> QED
    BY <1>7, <1>8, <1>9, <1>10

\* An entry is added.
LEMMA EntryAdded ==
  ASSUME JournalAssumption, JournalTypeOK, RowsPending, ReversalsInv,
         NEW p \in Postings, CommitEntry(p)
  PROVE  ReversalsInv'
  <1> USE DEF ReversalsInv
  <1>1. p \in Rows /\ p \in Desks /\ je[p] = Absent
    BY DEF CommitEntry, RowsPending, Rows, Desks
  <1>2. /\ \A x \in Rows : x # p => je'[x] = je[x]
        /\ je'[p].reversal_of = NoRow /\ je'[p].status \in {"draft", "posted"}
        /\ shared' = shared
    BY <1>1 DEF CommitEntry, JournalTypeOK
  <1>3. /\ desk'[p].step = "done" /\ desk'[p].entry = desk[p].entry
        /\ \A c \in Desks : c # p => desk'[c] = desk[c]
    BY <1>1 DEF CommitEntry, Leave, JournalTypeOK
  <1>4. /\ Postings \subseteq Desks /\ Reversers \subseteq Desks /\ Posters \subseteq Desks
        /\ p \notin Posters /\ p \notin Reversers /\ Reversers \subseteq Rows
    BY DEF Desks, Rows, JournalAssumption
  <1>5. \A x \in Rows : ReversalsOf(x)' = ReversalsOf(x)
    BY <1>2, <1>4 DEF ReversalsOf
  <1>6. \A c \in Desks, x \in Rows : Works(c, x)' => Works(c, x) /\ c # p /\ x # p
    BY <1>1, <1>3, NobodyOn DEF Works
  <1>7. EntriesRead'
    <2>1. \A x \in Rows : je[x] # Absent /\ je[x].status # "absent" => x # p
      BY <1>1
    <2>2. je[p].status \notin Posted /\ je[p].status = "absent"
      BY <1>1 DEF Absent, Posted
    <2> QED
      BY <1>2, <1>3, <1>4, <2>1, <2>2 DEF EntriesRead
  <1>8. AloneAtDesk'
    BY <1>2, <1>4, <1>6 DEF AloneAtDesk
  <1>9. ReversalsOf(p) = {}
    BY <1>1, NobodyOn
  <1>10. ReversedWasPosted' /\ OneReversal'
    BY <1>2, <1>5, <1>9 DEF ReversedWasPosted, OneReversal
  <1> QED
    BY <1>7, <1>8, <1>10

\* An entry is reversed: it was posted, and the reversal is its first unless
\* another request had read it too.
LEMMA EntryReversed ==
  ASSUME JournalAssumption, JournalTypeOK, RowsPending, ReversalsInv,
         NEW d \in Reversers, reverse_entry(d)
  PROVE  ReversalsInv'
  <1> USE DEF ReversalsInv
  <1> DEFINE e == desk[d].entry
  <1>1. d \in Rows /\ d \in Desks /\ je[d] = Absent /\ Works(d, e)
    BY DEF reverse_entry, RowsPending, Rows, Desks, Works
  <1>2. e \in Rows /\ je[e].status \in Posted /\ e # d
    <2>1. e \in Rows /\ je[e].status \in Posted
      BY DEF reverse_entry, EntriesRead
    <2> QED
      BY <1>1, <2>1 DEF Posted, Absent
  <1>3. /\ \A x \in Rows \ {d} : /\ je'[x].reversal_of = je[x].reversal_of
                                 /\ je'[x].status = IF x = e THEN "reversed" ELSE je[x].status
                                 /\ x # e => je'[x] = je[x]
        /\ je'[d].reversal_of = e /\ je'[d].status = "posted"
        /\ shared' = shared
    <2> DEFINE je1 == [je EXCEPT ![d] = [status |-> "posted", number |-> desk[d].number,
                                         reversal_of |-> e]]
    <2>1. je' = [je1 EXCEPT ![e].status = "reversed"] /\ shared' = shared
      BY DEF reverse_entry
    <2>2. /\ DOMAIN je1 = Rows /\ je1[d].reversal_of = e /\ je1[d].status = "posted"
          /\ \A x \in Rows \ {d} : je1[x] = je[x]
      BY <1>1 DEF JournalTypeOK
    <2>3. \A x \in Rows : x # e => je'[x] = je1[x]
      BY <2>1, <2>2
    <2>4. je1[e] = je[e] /\ je'[e] = [je1[e] EXCEPT !.status = "reversed"]
      BY <1>2, <2>1, <2>2
    <2>5. je'[e].reversal_of = je[e].reversal_of /\ je'[e].status = "reversed"
      BY <1>2, <2>4 DEF JournalTypeOK
    <2>6. \A x \in Rows \ {d} : x # e => je'[x] = je[x]
      BY <2>2, <2>3
    <2>7. je'[d].reversal_of = e /\ je'[d].status = "posted"
      BY <1>1, <1>2, <2>2, <2>3
    <2> HIDE DEF je1, e
    <2> QED
      BY <1>2, <2>1, <2>5, <2>6, <2>7
  <1>4. /\ desk'[d].step = "done"
        /\ \A c \in Desks : c # d => desk'[c] = desk[c]
    BY <1>1 DEF reverse_entry, Leave, JournalTypeOK
  <1>5. /\ Postings \subseteq Desks /\ Reversers \subseteq Desks /\ Posters \subseteq Desks
        /\ d \notin Posters /\ d \notin Postings /\ Reversers \subseteq Rows
    BY DEF Desks, Rows, JournalAssumption
  <1>6. \A x \in Rows : ReversalsOf(x)' = IF x = e THEN ReversalsOf(x) \cup {d} ELSE ReversalsOf(x)
    <2>1. je[d].status = "absent" /\ je[e].status # "absent"
      BY <1>1, <1>2 DEF Absent, Posted
    <2> QED
      BY <1>2, <1>3, <1>5, <2>1 DEF ReversalsOf
  <1>7. \A c \in Desks, x \in Rows : Works(c, x)' => Works(c, x) /\ c # d /\ x # d
    BY <1>1, <1>4, NobodyOn DEF Works
  <1>8. EntriesRead'
    <2>1. \A x \in Rows : (je[x].status \in Posted => je'[x].status \in Posted)
      BY <1>2, <1>3 DEF Posted
    <2>2. \A x \in Rows : je[x].status # "absent" => je'[x].status # "absent" /\ je'[x] # Absent
      BY <1>1, <1>2, <1>3 DEF Absent
    <2> QED
      BY <1>4, <1>5, <2>1, <2>2 DEF EntriesRead
  <1>9. AloneAtDesk'
    BY <1>1, <1>2, <1>3, <1>5, <1>7 DEF AloneAtDesk
  <1>10. ReversalsOf(d) = {}
    BY <1>1, NobodyOn
  <1>11. ReversedWasPosted'
    BY <1>2, <1>3, <1>6, <1>10 DEF ReversedWasPosted, Posted
  <1>12. OneReversal'
    <2>1. e \notin shared => ReversalsOf(e) = {}
      BY <1>1, <1>2 DEF AloneAtDesk, OneReversal
    <2> QED
      BY <1>2, <1>3, <1>6, <1>10, <2>1 DEF OneReversal
  <1> QED
    BY <1>8, <1>9, <1>11, <1>12

LEMMA ReversalsStep ==
  ASSUME JournalAssumption, NumbersInv, ReversalsInv, [JournalNext]_journalVars
  PROVE  ReversalsInv'
  <1>0. JournalTypeOK /\ RowsPending
    BY DEF NumbersInv
  <1>1. CASE UNCHANGED journalVars
    BY <1>0, <1>1, DesksOnly DEF journalVars, ReversalsInv, EntriesRead
  <1>2. ASSUME NEW d \in Rows, _next_entry_number(d) PROVE ReversalsInv'
    <2>1. /\ \A c \in Desks : c # d => desk'[c] = desk[c]
          /\ d \in Desks
          /\ desk'[d].entry = desk[d].entry
          /\ d \in Reversers \/ d \in Postings
          /\ UNCHANGED <<je, shared>>
      BY <1>0, <1>2 DEF _next_entry_number, JournalTypeOK, Desks, Rows, JournalAssumption
    <2>2. d \notin Posters
      BY DEF Rows, JournalAssumption
    <2>3. \A c \in Posters : desk[c].step # "numbered"
      BY DEF ReversalsInv, EntriesRead
    <2>4. d \in Reversers => desk[d].step = "read"
      BY <1>2 DEF _next_entry_number
    <2> QED
      BY <1>0, <2>1, <2>2, <2>3, <2>4, DesksOnly
  <1>3. ASSUME NEW d \in Rows, NumberTaken(d) PROVE ReversalsInv'
    <2>1. /\ \A c \in Desks : c # d => desk'[c] = desk[c]
          /\ d \in Desks /\ desk'[d].step = "done" /\ desk'[d].entry = desk[d].entry
          /\ UNCHANGED <<je, shared>>
      BY <1>0, <1>3 DEF NumberTaken, Leave, JournalTypeOK, Desks
    <2>2. \A c \in Posters : desk[c].step # "numbered"
      BY DEF ReversalsInv, EntriesRead
    <2> QED
      BY <1>0, <2>1, <2>2, DesksOnly
  <1>4. ASSUME NEW d \in Reversers, NEW e \in Rows, BeginReversal(d, e) PROVE ReversalsInv'
    BY <1>0, <1>4, EntryTaken DEF BeginReversal, Desks, Rows
  <1>5. ASSUME NEW d \in Posters, NEW e \in Rows, BeginPost(d, e) PROVE ReversalsInv'
    BY <1>0, <1>5, EntryTaken DEF BeginPost, Desks
  <1> QED
    BY <1>0, <1>1, <1>2, <1>3, <1>4, <1>5, DraftPosted, EntryAdded, EntryReversed
    DEF JournalNext, Create, Reverse, PostDraft, Rows

\* What holds of the journal at every step.
JournalInv == NumbersInv /\ ReversalsInv

\* The inductive invariant of the journal: numbers, rows, and what requests read.
THEOREM JournalInvariant == JournalSpec => []JournalInv
  <1>1. JournalInit => JournalInv
    BY JournalInitInv, ReversalsInit, JournalAssumption DEF JournalInv
  <1>2. JournalInv /\ [JournalNext]_journalVars => JournalInv'
    BY NumbersStep, ReversalsStep, JournalAssumption DEF JournalInv, ReversalsInv
  <1> QED
    BY <1>1, <1>2, PTL DEF JournalSpec

\* The invariant says what the runs check of it.
LEMMA OnceFromOne ==
  ASSUME JournalInv
  PROVE  ReversedOnce
  <1> SUFFICES ASSUME NEW e \in Recorded
               PROVE  /\ ReversalsOf(e) # {} => je[e].status # "draft"
                      /\ e \notin shared =>
                           Cardinality(ReversalsOf(e)) = IF je[e].status = "reversed" THEN 1 ELSE 0
    BY DEF ReversedOnce
  <1>1. e \in Rows
    BY DEF Recorded
  <1>2. ReversalsOf(e) # {} => je[e].status # "draft"
    BY <1>1 DEF JournalInv, ReversalsInv, ReversedWasPosted, Posted
  <1>3. CASE e \notin shared /\ je[e].status = "reversed"
    <2>1. PICK d \in Reversers : ReversalsOf(e) = {d}
      BY <1>1, <1>3 DEF JournalInv, ReversalsInv, OneReversal
    <2> QED
      BY <1>2, <1>3, <2>1, FS_Singleton
  <1>4. CASE e \notin shared /\ je[e].status # "reversed"
    BY <1>1, <1>2, <1>4, FS_EmptySet DEF JournalInv, ReversalsInv, OneReversal
  <1> QED
    BY <1>2, <1>3, <1>4

-----------------------------------------------------------------------------
(* The settlements.  A step of the finance service is one of the journal.  *)

LEMMA FinanceIsJournal ==
  ASSUME ReconciliationAssumption, [FinanceNext]_financeVars
  PROVE  [JournalNext]_journalVars
  <1>1. CASE UNCHANGED financeVars
    BY <1>1 DEF financeVars
  <1>2. CASE OtherEntries /\ UNCHANGED reconVars
    BY <1>2 DEF OtherEntries, JournalNext
  <1>3. ASSUME NEW p \in Passes, NEW s \in Settlements,
               \/ NumberEntry(p, s) \/ PostSettlement(p, s) \/ FlushFails(p, s)
        PROVE  JournalNext \/ UNCHANGED journalVars
    <2>1. Entry(p, s) \in Postings
      BY DEF Entry, ReconciliationAssumption
    <2> QED
      BY <1>3, <2>1 DEF NumberEntry, PostSettlement, FlushFails, JournalNext, Create
  <1>4. ASSUME NEW p \in Passes,
               \/ BeginPass(p) \/ CompletePass(p) \/ FailPass(p) \/ LosePass(p)
               \/ \E s \in Settlements : Unmatch(p, s) \/ Mismatch(p, s) \/ Match(p, s)
                                         \/ PostingRefused(p, s)
        PROVE  UNCHANGED journalVars
    BY <1>4 DEF BeginPass, CompletePass, FailPass, LosePass, Unmatch, Mismatch,
                Match, PostingRefused, RaiseException
  <1> QED
    BY <1>1, <1>2, <1>3, <1>4 DEF FinanceNext, PassStep

\* The finance service keeps to the journal: its passes post as requests do.
THEOREM FinanceKeepsJournal == FinanceSpec => JournalSpec
  <1>1. FinanceInit => JournalInit
    BY DEF FinanceInit
  <1>2. [FinanceNext]_financeVars => [JournalNext]_journalVars
    BY FinanceIsJournal, ReconciliationAssumption
  <1> QED
    BY <1>1, <1>2, PTL DEF FinanceSpec, JournalSpec

\* The entry numbers of a year have no gap and no repetition, however the
\* requests and the passes interleave (journal_service.py:38-53).
THEOREM NumberedWithoutGap == FinanceSpec => []NumbersDense
  <1>1. JournalInv => NumbersDense
    BY DEF JournalInv, NumbersInv
  <1> QED
    BY <1>1, FinanceKeepsJournal, JournalInvariant, PTL

\* An entry is reversed once, and then alone marked as reversed, unless two
\* requests worked on it at one time (journal_service.py:145-191).
THEOREM ReversedOnlyOnce == FinanceSpec => []ReversedOnce
  <1>1. JournalInv => ReversedOnce
    BY OnceFromOne
  <1> QED
    BY <1>1, FinanceKeepsJournal, JournalInvariant, PTL

\* While no two passes met: one runs at most, and what it has read and written
\* fits what is committed.
PassesApart ==
  /\ \A p, q \in Passes : Running(p) /\ Running(q) => p = q
  /\ \A p \in Passes : ~Running(p) => Raised(p) = {} /\ pass[p].at = {} /\ pass[p].todo = {}
  /\ \A p \in Passes, s \in Settlements :
       /\ s \in pass[p].todo => settlement[s] = "imported" /\ pass[p].dirty[s] = "clean"
                                /\ s \notin pass[p].at
       /\ pass[p].dirty[s] # "clean" => settlement[s] = "imported"
       /\ pass[p].dirty[s] \in {"clean", "unmatched", "mismatched", "matched"}
       /\ s \in pass[p].at <=> pass[p].dirty[s] = "matched"
       /\ s \in pass[p].at => pass[p].at = {s}
  /\ \A s \in Settlements : s \in exception <=> settlement[s] \in {"mismatched", "unmatched"}

\* An entry of a settlement is that of one pass, and was posted as it was matched.
EntriesApart ==
  \A s \in Settlements :
    /\ EntriesOf(s) # {} => settlement[s] = "matched"
    /\ \A p, q \in EntriesOf(s) : p = q

ReconInv == ReconTypeOK /\ (~passes_met => PassesApart /\ EntriesApart)

LEMMA ReconInitInv ==
  ASSUME ReconciliationAssumption, FinanceInit
  PROVE  ReconInv
  <1> USE DEF FinanceInit, ReconInit, NewPass
  <1>1. ReconTypeOK
    BY DEF ReconTypeOK, SettlementStatuses
  <1>2. PassesApart
    BY DEF PassesApart, Running, Raised
  <1>3. \A s \in Settlements : EntriesOf(s) = {}
    BY DEF EntriesOf, JournalInit, Recorded, Absent
  <1> QED
    BY <1>1, <1>2, <1>3 DEF ReconInv, EntriesApart

\* The entries of the passes change only when one of them posts.
LEMMA EntriesKept ==
  ASSUME ReconciliationAssumption, JournalTypeOK, EntriesRead, [FinanceNext]_financeVars,
         \A p \in Passes, s \in Settlements : ~PostSettlement(p, s)
  PROVE  \A s \in Settlements : EntriesOf(s)' = EntriesOf(s)
  <1> USE DEF EntriesOf, Recorded
  <1> DEFINE Own == Passes \X Settlements
  <1>1. Own \subseteq Postings /\ \A p \in Passes, s \in Settlements : Entry(p, s) \in Own
    BY DEF Entry, ReconciliationAssumption
  <1>2. SUFFICES \A r \in Own : je'[r].status = "absent" <=> je[r].status = "absent"
    BY <1>1, <1>2 DEF Rows
  <1>3. CASE UNCHANGED je
    BY <1>3
  <1>4. ASSUME NEW r \in Postings \ Own, CommitEntry(r)
        PROVE  \A q \in Own : je'[q] = je[q]
    BY <1>4, <1>1 DEF CommitEntry, JournalTypeOK
  <1>5. ASSUME NEW d \in Reversers, reverse_entry(d)
        PROVE  \A q \in Own : je'[q].status = "absent" <=> je[q].status = "absent"
    <2> DEFINE e == desk[d].entry
               je1 == [je EXCEPT ![d] = [status |-> "posted", number |-> desk[d].number,
                                         reversal_of |-> e]]
    <2>1. e \in Rows /\ je[e].status # "absent"
      BY <1>5 DEF EntriesRead, reverse_entry, Posted
    <2>2. Own \subseteq Rows /\ d \in Rows /\ d \notin Own
      BY <1>1, JournalAssumption DEF Rows, JournalAssumption
    <2>3. DOMAIN je1 = Rows /\ \A q \in Own : je1[q] = je[q]
      BY <2>2 DEF JournalTypeOK
    <2>4. je' = [je1 EXCEPT ![e].status = "reversed"]
      BY <1>5 DEF reverse_entry
    <2>5. \A q \in Own : q # e => je'[q] = je[q]
      BY <2>2, <2>3, <2>4
    <2>6. e \in Own => je'[e].status = "reversed"
      <3> SUFFICES ASSUME e \in Own PROVE je'[e].status = "reversed"
        OBVIOUS
      <3>1. je1[e] = je[e] /\ e \in DOMAIN je1
        BY <2>1, <2>3
      <3>2. je'[e] = [je[e] EXCEPT !.status = "reversed"]
        BY <2>4, <3>1
      <3> QED
        BY <2>1, <3>2 DEF JournalTypeOK
    <2> HIDE DEF je1, e, Own
    <2> QED
      BY <2>1, <2>5, <2>6
  <1>6. ASSUME NEW d \in Posters, post_entry(d)
        PROVE  \A q \in Own : je'[q].status = "absent" <=> je[q].status = "absent"
    <2>1. desk[d].entry \in Rows /\ je[desk[d].entry].status # "absent"
      BY <1>6 DEF EntriesRead, post_entry
    <2>2. Own \subseteq Rows
      BY <1>1 DEF Rows
    <2> QED
      BY <1>6, <2>1, <2>2 DEF post_entry, JournalTypeOK
  <1>7. CASE \E p \in Passes : PassStep(p)
    <2> PICK p \in Passes : PassStep(p)
      BY <1>7
    <2>1. CASE BeginPass(p) \/ CompletePass(p) \/ FailPass(p) \/ LosePass(p)
      BY <1>3, <2>1 DEF BeginPass, CompletePass, FailPass, LosePass, journalVars
    <2>2. ASSUME NEW s \in Settlements,
                 Unmatch(p, s) \/ Mismatch(p, s) \/ Match(p, s) \/ PostingRefused(p, s)
          PROVE  UNCHANGED je
      BY <2>2 DEF Unmatch, Mismatch, RaiseException, Match, PostingRefused, journalVars
    <2>3. ASSUME NEW s \in Settlements, NumberEntry(p, s) \/ FlushFails(p, s)
          PROVE  UNCHANGED je
      BY <2>3 DEF NumberEntry, _next_entry_number, FlushFails, NumberTaken, journalVars
    <2> QED
      BY <1>3, <2>1, <2>2, <2>3 DEF PassStep
  <1>8. CASE OtherEntries
    BY <1>3, <1>4, <1>5, <1>6, <1>8 DEF OtherEntries, Create, Reverse, PostDraft,
       BeginReversal, BeginPost, get_entry, _next_entry_number, NumberTaken
  <1> QED
    BY <1>3, <1>7, <1>8 DEF FinanceNext, financeVars, journalVars

LEMMA ReconTypes ==
  ASSUME ReconciliationAssumption, ReconTypeOK, [FinanceNext]_financeVars
  PROVE  ReconTypeOK'
  <1> USE DEF ReconTypeOK
  <1> DEFINE Pass == [step : {"new", "running", "ended"}, todo : SUBSET Settlements,
                      at : SUBSET Settlements, holds_run : BOOLEAN,
                      dirty : [Settlements -> SettlementStatuses \cup {"clean"}]]
  <1>0. /\ \A x \in {"imported", "matched", "mismatched", "unmatched"} : x \in SettlementStatuses
        /\ "clean" \notin SettlementStatuses
        /\ NewPass \in Pass
    BY DEF SettlementStatuses, NewPass
  <1>1. CASE UNCHANGED reconVars
    BY <1>1 DEF reconVars
  <1>2. ASSUME NEW p \in Passes, Commit(p)
        PROVE  /\ settlement' \in [Settlements -> SettlementStatuses]
               /\ exception' \subseteq Settlements
    BY <1>2 DEF Commit, Raised
  <1>3. ASSUME NEW p \in Passes, EndPass(p) PROVE pass' \in [Passes -> Pass]
    <2>1. [NewPass EXCEPT !.step = "ended"] \in Pass
      BY <1>0
    <2> QED
      BY <1>3, <2>1 DEF EndPass
  <1>4. ASSUME NEW p \in Passes, BeginPass(p) PROVE ReconTypeOK'
    <2> DEFINE pass1 == [pass EXCEPT ![p].step = "running"]
               pass2 == [pass1 EXCEPT ![p].todo = {s \in Settlements : settlement[s] = "imported"}]
               pass3 == [pass2 EXCEPT ![p].holds_run = (run_status # "running")]
               imported == {s \in Settlements : settlement[s] = "imported"}
               holds == run_status # "running"
    <2>1. pass1 \in [Passes -> Pass]
      BY <1>0
    <2>2. pass2 \in [Passes -> Pass]
      <3>1. imported \in SUBSET Settlements
        OBVIOUS
      <3> HIDE DEF pass1, imported
      <3>2. [pass1 EXCEPT ![p].todo = imported] \in [Passes -> Pass]
        BY <1>0, <2>1, <3>1
      <3> QED
        BY <3>2 DEF imported
    <2>3. pass3 \in [Passes -> Pass]
      <3>1. holds \in BOOLEAN
        OBVIOUS
      <3> HIDE DEF pass2, holds
      <3>2. [pass2 EXCEPT ![p].holds_run = holds] \in [Passes -> Pass]
        BY <1>0, <2>2, <3>1
      <3> QED
        BY <3>2 DEF holds
    <2>4. pass' = pass3
      BY <1>4 DEF BeginPass
    <2> QED
      BY <1>4, <2>3, <2>4 DEF BeginPass
  <1>5. ASSUME NEW p \in Passes, CompletePass(p) \/ FailPass(p) \/ LosePass(p) PROVE ReconTypeOK'
    BY <1>2, <1>3, <1>5 DEF CompletePass, FailPass, LosePass
  <1>6. ASSUME NEW p \in Passes, NEW s \in Settlements, NEW st \in SettlementStatuses,
               RaiseException(p, s, st)
        PROVE  ReconTypeOK'
    <2> DEFINE pass1 == [pass EXCEPT ![p].todo = @ \ {s}]
               pass2 == [pass1 EXCEPT ![p].dirty[s] = st]
    <2>1. pass1 \in [Passes -> Pass]
      BY <1>0
    <2>2. pass2 \in [Passes -> Pass]
      <3> HIDE DEF pass1
      <3> QED
        BY <1>0, <2>1
    <2>3. pass' = pass2
      BY <1>6 DEF RaiseException
    <2> QED
      BY <1>6, <2>2, <2>3 DEF RaiseException
  <1>7. ASSUME NEW p \in Passes, NEW s \in Settlements, Match(p, s) PROVE ReconTypeOK'
    <2> DEFINE pass1 == [pass EXCEPT ![p].todo = @ \ {s}]
               pass2 == [pass1 EXCEPT ![p].at = {s}]
               pass3 == [pass2 EXCEPT ![p].dirty[s] = "matched"]
    <2>1. pass1 \in [Passes -> Pass]
      BY <1>0
    <2>2. pass2 \in [Passes -> Pass]
      <3> HIDE DEF pass1
      <3>1. pass1[p] \in Pass
        BY <2>1
      <3>2. [pass1[p] EXCEPT !.at = {s}] \in Pass
        BY <3>1
      <3>3. pass2 = [pass1 EXCEPT ![p] = [pass1[p] EXCEPT !.at = {s}]]
        OBVIOUS
      <3> QED
        BY <2>1, <3>2, <3>3
    <2>3. pass3 \in [Passes -> Pass]
      <3> HIDE DEF pass2
      <3> QED
        BY <1>0, <2>2
    <2>4. pass' = pass3
      BY <1>7 DEF Match
    <2> QED
      BY <1>7, <2>3, <2>4 DEF Match
  <1>8. ASSUME NEW p \in Passes, NEW s \in Settlements, PostSettlement(p, s) PROVE ReconTypeOK'
    <2>1. pass' = [pass EXCEPT ![p] = [Written(p) EXCEPT !.at = {}]]
      BY <1>8 DEF PostSettlement
    <2>2. [Written(p) EXCEPT !.at = {}] \in Pass
      BY <1>0 DEF Written
    <2>3. pass' \in [Passes -> Pass]
      BY <2>1, <2>2
    <2> QED
      BY <1>2, <1>8, <2>3 DEF PostSettlement
  <1>9. ASSUME NEW p \in Passes, NEW s \in Settlements, FlushFails(p, s) PROVE ReconTypeOK'
    BY <1>3, <1>9 DEF FlushFails
  <1>10. ASSUME NEW p \in Passes, NEW s \in Settlements, PostingRefused(p, s) PROVE ReconTypeOK'
    BY <1>0, <1>3, <1>10 DEF PostingRefused, Raised
  <1> QED
    BY <1>0, <1>1, <1>4, <1>5, <1>6, <1>7, <1>8, <1>9, <1>10
    DEF FinanceNext, PassStep, Unmatch, Mismatch, NumberEntry, financeVars

\* The steps of a pass that commit nothing, and post nothing.
LEMMA PassWrites ==
  ASSUME ReconciliationAssumption, ReconTypeOK, PassesApart, NEW p \in Passes, ~passes_met',
         \/ BeginPass(p) \/ LosePass(p)
         \/ \E s \in Settlements : Unmatch(p, s) \/ Mismatch(p, s) \/ Match(p, s) \/ FlushFails(p, s)
  PROVE  PassesApart' /\ UNCHANGED settlement
  <1> USE DEF ReconTypeOK
  <1>1. CASE BeginPass(p)
    <2>1. /\ \A q \in Passes : ~Running(q)
          /\ UNCHANGED <<settlement, exception>>
          /\ pass[p].step = "new"
      BY <1>1 DEF BeginPass
    <2>2. /\ \A q \in Passes : q # p => pass'[q] = pass[q]
          /\ pass'[p].step = "running"
          /\ pass'[p].todo = {s \in Settlements : settlement[s] = "imported"}
          /\ pass'[p].at = pass[p].at /\ pass'[p].dirty = pass[p].dirty
      BY <1>1 DEF BeginPass
    <2>3. \A s \in Settlements : pass[p].dirty[s] = "clean" /\ s \notin pass[p].at
      BY <2>1 DEF PassesApart, Raised
    <2>4. \A q \in Passes : Running(q)' <=> q = p
      BY <2>1, <2>2 DEF Running
    <2>5. \A q \in Passes : Raised(q)' = Raised(q)
      <3>1. \A q \in Passes : pass'[q].dirty = pass[q].dirty
        BY <2>2
      <3> QED
        BY <3>1 DEF Raised
    <2>6. \A q \in Passes : ~Running(q)' => Raised(q)' = {} /\ pass'[q].at = {} /\ pass'[q].todo = {}
      <3>1. \A q \in Passes : Raised(q) = {} /\ pass[q].at = {} /\ pass[q].todo = {}
        BY <2>1 DEF PassesApart
      <3>2. \A q \in Passes : ~Running(q)' => pass'[q] = pass[q]
        BY <2>2, <2>4
      <3> QED
        BY <2>5, <3>1, <3>2
    <2>7. \A t \in Settlements :
            /\ t \in pass'[p].todo => settlement'[t] = "imported" /\ pass'[p].dirty[t] = "clean"
                                      /\ t \notin pass'[p].at
            /\ pass'[p].dirty[t] # "clean" => settlement'[t] = "imported"
            /\ pass'[p].dirty[t] \in {"clean", "unmatched", "mismatched", "matched"}
            /\ t \in pass'[p].at <=> pass'[p].dirty[t] = "matched"
            /\ t \in pass'[p].at => pass'[p].at = {t}
      BY <2>1, <2>2, <2>3
    <2>8. \A q \in Passes, t \in Settlements :
            /\ t \in pass'[q].todo => settlement'[t] = "imported" /\ pass'[q].dirty[t] = "clean"
                                      /\ t \notin pass'[q].at
            /\ pass'[q].dirty[t] # "clean" => settlement'[t] = "imported"
            /\ pass'[q].dirty[t] \in {"clean", "unmatched", "mismatched", "matched"}
            /\ t \in pass'[q].at <=> pass'[q].dirty[t] = "matched"
            /\ t \in pass'[q].at => pass'[q].at = {t}
      BY <2>1, <2>2, <2>7 DEF PassesApart
    <2>9. \A t \in Settlements : t \in exception' <=> settlement'[t] \in {"mismatched", "unmatched"}
      BY <2>1 DEF PassesApart
    <2> QED
      BY <2>1, <2>4, <2>6, <2>8, <2>9 DEF PassesApart
  <1>2. CASE EndPass(p) /\ UNCHANGED <<settlement, exception>>
    <2>1. /\ \A q \in Passes : q # p => pass'[q] = pass[q]
          /\ pass'[p].step = "ended" /\ pass'[p].todo = {} /\ pass'[p].at = {}
          /\ \A s \in Settlements : pass'[p].dirty[s] = "clean"
      BY <1>2 DEF EndPass, NewPass
    <2>2. \A q \in Passes : Running(q)' => q # p /\ Running(q)
      BY <2>1 DEF Running
    <2>3. Raised(p)' = {} /\ \A q \in Passes : q # p => Raised(q)' = Raised(q)
      BY <2>1 DEF Raised
    <2>4. UNCHANGED <<settlement, exception>>
      BY <1>2
    <2>5. \A q \in Passes : ~Running(q)' => Raised(q)' = {} /\ pass'[q].at = {} /\ pass'[q].todo = {}
      BY <2>1, <2>3 DEF PassesApart, Running
    <2> QED
      BY <2>1, <2>2, <2>4, <2>5 DEF PassesApart
  <1>3. ASSUME NEW s \in Settlements, NEW st \in {"unmatched", "mismatched"}, RaiseException(p, s, st)
        PROVE  PassesApart' /\ UNCHANGED settlement
    <2>1. /\ \A q \in Passes : q # p => pass'[q] = pass[q]
          /\ pass'[p].step = pass[p].step /\ pass'[p].at = pass[p].at
          /\ pass'[p].todo = pass[p].todo \ {s}
          /\ pass'[p].dirty[s] = st
          /\ \A t \in Settlements : t # s => pass'[p].dirty[t] = pass[p].dirty[t]
          /\ UNCHANGED <<settlement, exception>>
          /\ Running(p) /\ s \in pass[p].todo
      BY <1>3 DEF RaiseException, Idle
    <2>2. s \notin pass[p].at /\ settlement[s] = "imported"
      BY <2>1 DEF PassesApart
    <2> QED
      BY <2>1, <2>2 DEF PassesApart, Running, Raised
  <1>4. ASSUME NEW s \in Settlements, Match(p, s)
        PROVE  PassesApart' /\ UNCHANGED settlement
    <2>1. /\ \A q \in Passes : q # p => pass'[q] = pass[q]
          /\ pass'[p].step = pass[p].step /\ pass[p].at = {} /\ pass'[p].at = {s}
          /\ pass'[p].todo = pass[p].todo \ {s}
          /\ pass'[p].dirty[s] = "matched"
          /\ \A t \in Settlements : t # s => pass'[p].dirty[t] = pass[p].dirty[t]
          /\ UNCHANGED <<settlement, exception>>
          /\ Running(p) /\ s \in pass[p].todo
      <3>1. /\ pass[p].at = {} /\ Running(p) /\ s \in pass[p].todo
            /\ UNCHANGED <<settlement, exception>>
        BY <1>4 DEF Match, Idle
      <3>2. pass' = [pass EXCEPT ![p].todo = @ \ {s}, ![p].at = {s}, ![p].dirty[s] = "matched"]
        BY <1>4 DEF Match
      <3>3. /\ \A q \in Passes : q # p => pass'[q] = pass[q]
            /\ pass'[p].step = pass[p].step /\ pass'[p].at = {s}
            /\ pass'[p].todo = pass[p].todo \ {s}
        BY <3>2
      <3>4. /\ pass'[p].dirty[s] = "matched"
            /\ \A t \in Settlements : t # s => pass'[p].dirty[t] = pass[p].dirty[t]
        BY <3>2
      <3> QED
        BY <3>1, <3>3, <3>4
    <2>2. \A q \in Passes : Running(q)' <=> Running(q)
      BY <2>1 DEF Running
    <2>3. settlement[s] = "imported" /\ pass[p].dirty[s] = "clean"
      BY <2>1 DEF PassesApart
    <2>4. \A q \in Passes : Raised(q)' = Raised(q)
      BY <2>1, <2>3 DEF Raised
    <2>5. \A q \in Passes : ~Running(q)' => Raised(q)' = {} /\ pass'[q].at = {} /\ pass'[q].todo = {}
      <3>1. \A q \in Passes : ~Running(q) => Raised(q) = {} /\ pass[q].at = {} /\ pass[q].todo = {}
        BY DEF PassesApart
      <3>2. \A q \in Passes : ~Running(q) => q # p /\ pass'[q] = pass[q]
        BY <2>1
      <3> QED
        BY <2>2, <2>4, <3>1, <3>2
    <2>6. \A t \in Settlements :
            /\ t \in pass'[p].todo => settlement'[t] = "imported" /\ pass'[p].dirty[t] = "clean"
                                      /\ t \notin pass'[p].at
            /\ pass'[p].dirty[t] # "clean" => settlement'[t] = "imported"
            /\ pass'[p].dirty[t] \in {"clean", "unmatched", "mismatched", "matched"}
            /\ t \in pass'[p].at <=> pass'[p].dirty[t] = "matched"
            /\ t \in pass'[p].at => pass'[p].at = {t}
      BY <2>1, <2>3 DEF PassesApart
    <2>7. \A q \in Passes, t \in Settlements :
            /\ t \in pass'[q].todo => settlement'[t] = "imported" /\ pass'[q].dirty[t] = "clean"
                                      /\ t \notin pass'[q].at
            /\ pass'[q].dirty[t] # "clean" => settlement'[t] = "imported"
            /\ pass'[q].dirty[t] \in {"clean", "unmatched", "mismatched", "matched"}
            /\ t \in pass'[q].at <=> pass'[q].dirty[t] = "matched"
            /\ t \in pass'[q].at => pass'[q].at = {t}
      BY <2>1, <2>6 DEF PassesApart
    <2> QED
      BY <2>1, <2>2, <2>5, <2>7 DEF PassesApart
  <1> QED
    BY <1>1, <1>2, <1>3, <1>4 DEF LosePass, FlushFails, Unmatch, Mismatch

\* What a commit of the only running pass makes of settlements and exceptions.
LEMMA CommitApart ==
  ASSUME ReconTypeOK, PassesApart, NEW p \in Passes, Running(p), NEW S \in SUBSET pass[p].todo,
         pass[p].at \cap S = {},
         \A t \in Settlements : settlement'[t] =
           IF t \in S THEN "matched"
           ELSE IF pass[p].dirty[t] = "clean" THEN settlement[t] ELSE pass[p].dirty[t],
         exception' = exception \cup Raised(p),
         \A q \in Passes : q # p => pass'[q] = pass[q],
         pass'[p].step \in {"running", "ended"}, pass'[p].at = {},
         \A t \in Settlements : pass'[p].dirty[t] = "clean",
         pass'[p].todo \subseteq pass[p].todo \ S,
         pass'[p].step = "ended" => pass'[p].todo = {}
  PROVE  /\ PassesApart'
         /\ \A t \in Settlements : settlement'[t] # settlement[t] => settlement[t] = "imported"
  <1>1. \A q \in Passes : q # p => ~Running(q)
    BY DEF PassesApart
  <1>2. \A q \in Passes : q # p => /\ pass'[q].todo = {} /\ pass'[q].at = {} /\ Raised(q) = {}
                                   /\ ~Running(q)'
    BY <1>1 DEF PassesApart, Running
  <1>3. \A q \in Passes, t \in Settlements : pass'[q].dirty[t] = "clean"
    <2>1. \A q \in Passes, t \in Settlements : q # p => pass[q].dirty[t] = "clean"
      BY <1>1, <1>2 DEF PassesApart, Raised
    <2> QED
      BY <2>1
  <1>4. \A q \in Passes : Raised(q)' = {}
    BY <1>3 DEF Raised
  <1>5. \A t \in Settlements : settlement'[t] # settlement[t] => settlement[t] = "imported"
    BY DEF PassesApart, ReconTypeOK
  <1>6. \A t \in pass'[p].todo : settlement'[t] = "imported"
    BY DEF PassesApart, ReconTypeOK
  <1>7. \A t \in Settlements : t \in exception' <=> settlement'[t] \in {"mismatched", "unmatched"}
    <2> SUFFICES ASSUME NEW t \in Settlements
                 PROVE  t \in exception' <=> settlement'[t] \in {"mismatched", "unmatched"}
      OBVIOUS
    <2>1. CASE t \in S
      BY <2>1 DEF PassesApart, Raised
    <2>2. CASE t \notin S
      BY <2>2 DEF PassesApart, Raised
    <2> QED
      BY <2>1, <2>2
  <1>8. \A q, r \in Passes : Running(q)' /\ Running(r)' => q = r
    BY <1>2
  <1>9. \A q \in Passes : ~Running(q)' => Raised(q)' = {} /\ pass'[q].at = {} /\ pass'[q].todo = {}
    BY <1>2, <1>4 DEF Running
  <1>10. \A q \in Passes, t \in Settlements :
           /\ t \in pass'[q].todo => settlement'[t] = "imported"
           /\ t \notin pass'[q].at
    BY <1>2, <1>6
  <1>11. PassesApart'
    BY <1>3, <1>7, <1>8, <1>9, <1>10 DEF PassesApart
  <1> QED
    BY <1>5, <1>11

\* The steps of a pass that commit: it ends, or the entry of a settlement is posted.
LEMMA PassCommits ==
  ASSUME ReconTypeOK, PassesApart, NEW p \in Passes,
         \/ CompletePass(p) \/ FailPass(p)
         \/ \E s \in Settlements : PostingRefused(p, s) \/ PostSettlement(p, s)
  PROVE  /\ PassesApart'
         /\ \A t \in Settlements : settlement'[t] # settlement[t] => settlement[t] = "imported"
         /\ \A s \in Settlements : PostSettlement(p, s) =>
              settlement[s] = "imported" /\ settlement'[s] = "matched"
  <1> USE DEF ReconTypeOK
  <1>1. CASE CompletePass(p) \/ FailPass(p)
    <2>1. /\ \A q \in Passes : q # p => pass'[q] = pass[q]
          /\ pass'[p].step = "ended" /\ pass'[p].at = {} /\ pass'[p].todo = {}
          /\ \A t \in Settlements : pass'[p].dirty[t] = "clean"
          /\ Running(p) /\ Commit(p)
      BY <1>1 DEF CompletePass, FailPass, EndPass, NewPass, Idle
    <2>2. \A s \in Settlements : ~PostSettlement(p, s)
      BY <1>1 DEF PostSettlement, CompletePass, FailPass, Idle
    <2>3. \A t \in Settlements : settlement'[t] =
            IF t \in {} THEN "matched"
            ELSE IF pass[p].dirty[t] = "clean" THEN settlement[t] ELSE pass[p].dirty[t]
      BY <2>1 DEF Commit
    <2>4. {} \in SUBSET pass[p].todo /\ pass[p].at \cap {} = {}
      OBVIOUS
    <2>5. exception' = exception \cup Raised(p)
      BY <2>1 DEF Commit
    <2> QED
      BY <2>1, <2>2, <2>3, <2>4, <2>5, CommitApart
  <1>2. ASSUME NEW s \in Settlements, PostingRefused(p, s)
        PROVE  /\ PassesApart'
               /\ \A t \in Settlements : settlement'[t] # settlement[t] => settlement[t] = "imported"
               /\ \A t \in Settlements : ~PostSettlement(p, t)
    <2>1. /\ \A q \in Passes : q # p => pass'[q] = pass[q]
          /\ pass'[p].step = "ended" /\ pass'[p].at = {} /\ pass'[p].todo = {}
          /\ \A t \in Settlements : pass'[p].dirty[t] = "clean"
          /\ Running(p) /\ s \in pass[p].todo /\ pass[p].at = {}
      BY <1>2 DEF PostingRefused, EndPass, NewPass, Idle
    <2>2. /\ \A t \in Settlements : settlement'[t] =
               IF t \in {s} THEN "matched"
               ELSE IF pass[p].dirty[t] = "clean" THEN settlement[t] ELSE pass[p].dirty[t]
          /\ exception' = exception \cup Raised(p)
      BY <1>2 DEF PostingRefused
    <2>3. \A t \in Settlements : ~PostSettlement(p, t)
      BY <2>1 DEF PostSettlement
    <2>4. {s} \in SUBSET pass[p].todo /\ pass[p].at \cap {s} = {}
      BY <2>1
    <2> QED
      BY <2>1, <2>2, <2>3, <2>4, CommitApart
  <1>3. ASSUME NEW s \in Settlements, PostSettlement(p, s)
        PROVE  /\ PassesApart'
               /\ \A t \in Settlements : settlement'[t] # settlement[t] => settlement[t] = "imported"
               /\ settlement[s] = "imported" /\ settlement'[s] = "matched"
    <2>1. Running(p)
      BY <1>3 DEF PostSettlement, PassesApart
    <2>2. /\ pass' = [pass EXCEPT ![p] = [Written(p) EXCEPT !.at = {}]]
          /\ Commit(p) /\ pass[p].at = {s}
      BY <1>3 DEF PostSettlement
    <2>3. /\ \A q \in Passes : q # p => pass'[q] = pass[q]
          /\ pass'[p] = [Written(p) EXCEPT !.at = {}]
      BY <2>2
    <2>4. /\ pass'[p].step = "running" /\ pass'[p].at = {} /\ pass'[p].todo = pass[p].todo
          /\ \A t \in Settlements : pass'[p].dirty[t] = "clean"
      BY <2>1, <2>3 DEF Written, NewPass, Running
    <2>5. \A t \in Settlements : settlement'[t] =
            IF t \in {} THEN "matched"
            ELSE IF pass[p].dirty[t] = "clean" THEN settlement[t] ELSE pass[p].dirty[t]
      BY <2>2 DEF Commit
    <2>6. settlement[s] = "imported" /\ settlement'[s] = "matched"
      BY <2>2, <2>5 DEF PassesApart
    <2>7. {} \in SUBSET pass[p].todo /\ pass[p].at \cap {} = {}
      OBVIOUS
    <2>8. exception' = exception \cup Raised(p)
      BY <2>2 DEF Commit
    <2>9. /\ pass'[p].todo \subseteq pass[p].todo \ {}
          /\ pass'[p].step \in {"running", "ended"}
          /\ pass'[p].step = "ended" => pass'[p].todo = {}
      BY <2>4
    <2>10. /\ PassesApart'
           /\ \A t \in Settlements : settlement'[t] # settlement[t] => settlement[t] = "imported"
      BY <2>1, <2>3, <2>4, <2>5, <2>7, <2>8, <2>9, CommitApart, ZenonT(60)
    <2> QED
      BY <2>6, <2>10
  <1> QED
    BY <1>1, <1>2, <1>3

LEMMA ReconStep ==
  ASSUME ReconciliationAssumption, JournalInv, ReconInv, [FinanceNext]_financeVars
  PROVE  ReconInv'
  <1>1. ReconTypeOK /\ ReconTypeOK' /\ JournalTypeOK /\ EntriesRead
    BY ReconTypes DEF ReconInv, JournalInv, NumbersInv, ReversalsInv
  <1> SUFFICES ASSUME ~passes_met'
               PROVE  PassesApart' /\ EntriesApart'
    BY <1>1 DEF ReconInv
  <1>2. ~passes_met
    <2>1. CASE UNCHANGED reconVars
      BY <2>1 DEF reconVars
    <2>2. ASSUME NEW p \in Passes, BeginPass(p) PROVE ~passes_met
      BY <2>2 DEF BeginPass
    <2>3. ASSUME NEW p \in Passes, CompletePass(p) \/ FailPass(p) \/ LosePass(p)
          PROVE  passes_met' = passes_met
      BY <2>3 DEF CompletePass, FailPass, LosePass
    <2>4. ASSUME NEW p \in Passes, NEW s \in Settlements,
                 \/ Unmatch(p, s) \/ Mismatch(p, s) \/ Match(p, s)
                 \/ PostSettlement(p, s) \/ FlushFails(p, s) \/ PostingRefused(p, s)
          PROVE  passes_met' = passes_met
      BY <2>4 DEF Unmatch, Mismatch, RaiseException, Match, PostSettlement, FlushFails,
                  PostingRefused
    <2> QED
      BY <2>1, <2>2, <2>3, <2>4 DEF FinanceNext, PassStep, NumberEntry, financeVars
  <1>3. PassesApart /\ EntriesApart
    BY <1>2 DEF ReconInv
  <1>4. /\ PassesApart'
        /\ \A t \in Settlements : settlement'[t] # settlement[t] => settlement[t] = "imported"
        /\ \A p \in Passes, s \in Settlements : PostSettlement(p, s) =>
             settlement[s] = "imported" /\ settlement'[s] = "matched"
    <2>1. CASE UNCHANGED reconVars
      <3>1. \A p \in Passes, s \in Settlements : ~PostSettlement(p, s)
        BY <1>1, <2>1 DEF reconVars, PostSettlement, ReconTypeOK, Written
      <3> QED
        BY <1>3, <2>1, <3>1 DEF PassesApart, Running, Raised, reconVars
    <2>2. ASSUME NEW p \in Passes,
                 \/ BeginPass(p) \/ LosePass(p)
                 \/ \E s \in Settlements : Unmatch(p, s) \/ Mismatch(p, s) \/ Match(p, s) \/ FlushFails(p, s)
          PROVE  PassesApart' /\ UNCHANGED settlement
      BY <1>1, <1>3, <2>2, PassWrites
    <2>3. ASSUME NEW p \in Passes,
                 \/ CompletePass(p) \/ FailPass(p)
                 \/ \E s \in Settlements : PostingRefused(p, s) \/ PostSettlement(p, s)
          PROVE  /\ PassesApart'
                 /\ \A t \in Settlements : settlement'[t] # settlement[t] => settlement[t] = "imported"
      BY <1>1, <1>3, <2>3, PassCommits
    <2>4. \A p \in Passes, s \in Settlements : PostSettlement(p, s) =>
             settlement[s] = "imported" /\ settlement'[s] = "matched"
      BY <1>1, <1>3, PassCommits
    <2> QED
      BY <2>1, <2>2, <2>3, <2>4 DEF FinanceNext, PassStep, NumberEntry, financeVars
  <1>5. CASE \A p \in Passes, s \in Settlements : ~PostSettlement(p, s)
    <2>1. \A s \in Settlements : EntriesOf(s)' = EntriesOf(s)
      BY <1>1, <1>5, EntriesKept
    <2> QED
      BY <1>3, <1>4, <2>1 DEF EntriesApart
  <1>6. ASSUME NEW p \in Passes, NEW s \in Settlements, PostSettlement(p, s)
        PROVE  EntriesApart'
    <2>1. CommitEntry(Entry(p, s)) /\ Entry(p, s) \in Rows
      BY <1>6 DEF PostSettlement, Entry, ReconciliationAssumption, Rows
    <2>2. \A r \in Rows : r # Entry(p, s) => je'[r] = je[r]
      BY <1>1, <2>1 DEF CommitEntry, JournalTypeOK
    <2>3. \A q \in Passes, t \in Settlements : Entry(q, t) = Entry(p, s) => q = p /\ t = s
      BY DEF Entry
    <2>4. \A q \in Passes, t \in Settlements :
            Entry(q, t) \in Recorded' => Entry(q, t) \in Recorded \/ (q = p /\ t = s)
      BY <2>2, <2>3 DEF Recorded
    <2>5. EntriesOf(s) = {}
      BY <1>3, <1>4, <1>6 DEF EntriesApart
    <2>6. \A t \in Settlements : EntriesOf(t)' \subseteq IF t = s THEN {p} ELSE EntriesOf(t)
      BY <2>4, <2>5 DEF EntriesOf
    <2> QED
      BY <1>3, <1>4, <1>6, <2>6 DEF EntriesApart
  <1> QED
    BY <1>4, <1>5, <1>6

\* The invariant of the settlements says what the runs check of them.
LEMMA OnceFromApart ==
  ASSUME ReconciliationAssumption, ReconInv
  PROVE  SettledOnce
  <1> SUFFICES ASSUME ~passes_met, NEW s \in Settlements
               PROVE  /\ Cardinality(EntriesOf(s)) <= 1
                      /\ EntriesOf(s) # {} => settlement[s] = "matched"
                      /\ s \in exception <=> settlement[s] \in {"mismatched", "unmatched"}
    BY DEF SettledOnce
  <1>1. PassesApart /\ EntriesApart
    BY DEF ReconInv
  <1>2. CASE EntriesOf(s) = {}
    BY <1>1, <1>2, FS_EmptySet DEF PassesApart
  <1>3. CASE EntriesOf(s) # {}
    <2>1. PICK p : p \in EntriesOf(s)
      BY <1>3
    <2>2. EntriesOf(s) = {p}
      BY <1>1, <2>1 DEF EntriesApart
    <2>3. Cardinality(EntriesOf(s)) = 1
      BY <2>2, FS_Singleton
    <2> QED
      BY <1>1, <2>3 DEF PassesApart, EntriesApart
  <1> QED
    BY <1>2, <1>3

\* The inductive invariant of the finance service: the journal's, and that of the
\* passes, which says nothing more than their types once two have met.
THEOREM FinanceInvariant == FinanceSpec => [](JournalInv /\ ReconInv)
  <1>1. FinanceInit => ReconInv
    BY ReconInitInv, ReconciliationAssumption
  <1>2. JournalInv /\ ReconInv /\ [FinanceNext]_financeVars => ReconInv'
    BY ReconStep, ReconciliationAssumption
  <1> QED
    BY <1>1, <1>2, FinanceKeepsJournal, JournalInvariant, PTL DEF FinanceSpec

\* The rows of the journal and of the settlements, and what the requests and the
\* passes hold of them, keep their types (journal_service.py, reconciliation_service.py).
THEOREM FinanceTyped == FinanceSpec => [](JournalTypeOK /\ ReconTypeOK)
  <1>1. JournalInv /\ ReconInv => JournalTypeOK /\ ReconTypeOK
    BY DEF JournalInv, NumbersInv, ReconInv
  <1> QED
    BY <1>1, FinanceInvariant, PTL

\* Passes that follow one another, whatever becomes of each, post one entry at
\* most for a settlement and none for one that is not MATCHED, and put before
\* the staff exactly those they set aside (reconciliation_service.py:96-229).
THEOREM SettlementsSettledOnce == FinanceSpec => []SettledOnce
  <1>1. ReconInv => SettledOnce
    BY OnceFromApart, ReconciliationAssumption
  <1> QED
    BY <1>1, FinanceInvariant, PTL

\* Receipts, invoices and the ledger they are booked on, the journal and the
\* settlements keep their types, running side by side (procurement service,
\* finance service).
THEOREM BooksTyped == BooksSpec => []BooksTypeOK
  <1>1. ReceiptTypeOK /\ InvoiceTypeOK /\ JournalTypeOK /\ ReconTypeOK => BooksTypeOK
    BY DEF BooksTypeOK
  <1> QED
    BY <1>1, ReceiptsTyped, InvoicesTyped, FinanceTyped, PTL DEF BooksSpec
=============================================================================
