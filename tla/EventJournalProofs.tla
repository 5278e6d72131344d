------------------------- MODULE EventJournalProofs -------------------------
(***************************************************************************)
(* Proofs about EventJournal: for every set of events, and whatever        *)
(* crashes or fails, the journal has at most one record of an event, none  *)
(* without its snapshot, and keeps that of every append() that returned.   *)
(***************************************************************************)
EXTENDS EventJournal, TLAPS

\* What a running process remembers is what the file holds, and a record is
\* held only once its snapshot is there.
MemoryIsFile == pc \in {"up", "render"} => ids = Recorded
HeldHasEvidence == waiting \subseteq files

Inv ==
  /\ TypeOK
  /\ MemoryIsFile /\ HeldHasEvidence
  /\ EvidenceBeforeRecord /\ RecordedOnce
  /\ answered \subseteq Recorded

\* What append() can leave behind the file: all or a part of a line.
Written(e) == {<<Torn>>, <<e>>, <<e, Newline>>}

LEMMA WrittenTokens ==
  ASSUME NEW e \in Ids, NEW w \in Written(e)
  PROVE  /\ w \in Seq(Tokens)
         /\ w[1] \in {e, Torn} /\ Len(w) \in 1 .. 2
         /\ Len(w) = 2 => w[2] = Newline
<1>1. Torn \in Tokens /\ Newline \in Tokens /\ e \in Tokens
  BY DEF Tokens
<1>2. CASE w = <<Torn>>
  BY <1>1, <1>2
<1>3. CASE w = <<e>>
  BY <1>1, <1>3
<1>4. CASE w = <<e, Newline>>
  BY <1>1, <1>4
<1>. QED
  BY <1>2, <1>3, <1>4 DEF Written

\* A write behind the file keeps every record and adds at most its own.
LEMMA WriteAdds ==
  ASSUME journal \in Seq(Tokens), NEW e \in Ids, NEW w \in Written(e),
         journal' = journal \o w
  PROVE  /\ journal' \in Seq(Tokens)
         /\ Recorded \subseteq Recorded'
         /\ Recorded' \subseteq Recorded \cup {e}
         /\ e \in Range(w) => Recorded' = Recorded \cup {e}
<1>1. /\ w \in Seq(Tokens)
      /\ Len(w) \in 1 .. 2 /\ w[1] \in {e, Torn}
      /\ Len(w) = 2 => w[2] = Newline
  BY WrittenTokens
<1>2. journal' \in Seq(Tokens) /\ Len(journal') = Len(journal) + Len(w)
  BY <1>1
<1>3. \A i \in DOMAIN journal : i \in DOMAIN journal' /\ journal'[i] = journal[i]
  BY <1>1, <1>2
<1>4. \A i \in DOMAIN journal' :
        \/ i \in DOMAIN journal /\ journal'[i] = journal[i]
        \/ i - Len(journal) \in DOMAIN w /\ journal'[i] = w[i - Len(journal)]
  BY <1>1, <1>2
<1>5. \A k \in DOMAIN w : w[k] \in {e, Torn, Newline}
  BY <1>1
<1>6. Recorded \subseteq Recorded'
  BY <1>3 DEF Recorded, Range
<1>7. Recorded' \subseteq Recorded \cup {e}
  <2>1. SUFFICES ASSUME NEW x \in Recorded' PROVE x \in Recorded \cup {e}
    OBVIOUS
  <2>2. PICK i \in DOMAIN journal' : x = journal'[i]
    BY DEF Recorded, Range
  <2>3. CASE i \in DOMAIN journal /\ journal'[i] = journal[i]
    BY <2>2, <2>3 DEF Recorded, Range
  <2>4. CASE i - Len(journal) \in DOMAIN w /\ journal'[i] = w[i - Len(journal)]
    <3>1. x \in {e, Torn, Newline}
      BY <1>5, <2>2, <2>4
    <3>2. x \in Ids
      BY DEF Recorded
    <3>. QED
      BY <3>1, <3>2, JournalAssumption
  <2>. QED
    BY <1>4, <2>3, <2>4
<1>8. ASSUME e \in Range(w) PROVE Recorded' = Recorded \cup {e}
  <2>1. PICK k \in DOMAIN w : w[k] = e
    BY <1>8 DEF Range
  <2>2. /\ k + Len(journal) \in DOMAIN journal'
        /\ journal'[k + Len(journal)] = e
    BY <1>1, <1>2, <2>1
  <2>3. e \in Recorded'
    BY <2>2 DEF Recorded, Range
  <2>. QED
    BY <1>6, <1>7, <2>3
<1>. QED
  BY <1>2, <1>6, <1>7, <1>8

\* A write of a record that is not in the file leaves every record unique.
LEMMA WriteKeepsUnique ==
  ASSUME journal \in Seq(Tokens), NEW e \in Ids, NEW w \in Written(e),
         journal' = journal \o w, RecordedOnce, e \notin Recorded
  PROVE  RecordedOnce'
<1>1. /\ w \in Seq(Tokens)
      /\ Len(w) \in 1 .. 2 /\ w[1] \in {e, Torn}
      /\ Len(w) = 2 => w[2] = Newline
  BY WrittenTokens
<1>2. Torn \notin Ids /\ Newline \notin Ids
  BY JournalAssumption
<1>3. ASSUME NEW i \in DOMAIN journal', NEW j \in DOMAIN journal',
             journal'[i] = journal'[j], journal'[i] \in Ids
      PROVE  i = j
  <2>1. \A k \in DOMAIN journal' \ DOMAIN journal :
          journal'[k] \in Ids => k = Len(journal) + 1 /\ journal'[k] = e
    BY <1>1, <1>2
  <2>2. \A k \in DOMAIN journal : journal'[k] = journal[k]
    BY <1>1
  <2>3. \A k \in DOMAIN journal : journal[k] # e
    BY DEF Recorded, Range
  <2>4. CASE i \in DOMAIN journal /\ j \in DOMAIN journal
    BY <1>3, <2>2, <2>4 DEF RecordedOnce, IdsAreUnique
  <2>5. CASE i \notin DOMAIN journal /\ j \notin DOMAIN journal
    BY <1>3, <2>1, <2>5
  <2>6. CASE i \in DOMAIN journal /\ j \notin DOMAIN journal
    BY <1>3, <2>1, <2>2, <2>3, <2>6
  <2>7. CASE i \notin DOMAIN journal /\ j \in DOMAIN journal
    BY <1>3, <2>1, <2>2, <2>3, <2>7
  <2>. QED
    BY <2>4, <2>5, <2>6, <2>7
<1>. QED
  BY <1>3 DEF RecordedOnce, IdsAreUnique

LEMMA InitInv == Init => Inv
  BY JournalAssumption
  DEF Init, Inv, TypeOK, MemoryIsFile, HeldHasEvidence, EvidenceBeforeRecord,
      RecordedOnce, IdsAreUnique, Recorded, Range, Tokens

\* The steps that leave the journal alone.
LEMMA OtherSteps ==
  ASSUME Inv, UNCHANGED journal,
         \/ Open \/ OpenRefused \/ PublishSnapshot \/ RenderFails \/ Crash
         \/ UNCHANGED vars
         \/ \E e \in Ids : \/ ReuseSnapshot(e) \/ RenderSnapshot(e)
                           \/ AppendDuplicate(e)
  PROVE  Inv'
<1>1. /\ Recorded' = Recorded
      /\ RecordedOnce' /\ journal' \in Seq(Tokens) /\ Recorded \subseteq Ids
  BY DEF Inv, TypeOK, Recorded, Range, RecordedOnce, IdsAreUnique
<1>. USE <1>1, JournalAssumption
     DEF Inv, TypeOK, MemoryIsFile, HeldHasEvidence, EvidenceBeforeRecord
<1>2. CASE Open
  BY <1>2 DEF Open, Loaded
<1>3. CASE OpenRefused
  BY <1>3 DEF OpenRefused, diskVars
<1>4. CASE PublishSnapshot
  BY <1>4 DEF PublishSnapshot
<1>5. CASE RenderFails
  BY <1>5 DEF RenderFails, Down
<1>6. CASE Crash
  BY <1>6 DEF Crash, Down, diskVars
<1>7. CASE UNCHANGED vars
  BY <1>7 DEF vars, diskVars
<1>8. ASSUME NEW e \in Ids, ReuseSnapshot(e) PROVE Inv'
  BY <1>8 DEF ReuseSnapshot, Reusable, diskVars
<1>9. ASSUME NEW e \in Ids, RenderSnapshot(e) PROVE Inv'
  BY <1>9 DEF RenderSnapshot, Reusable
<1>10. ASSUME NEW e \in Ids, AppendDuplicate(e) PROVE Inv'
  BY <1>10 DEF AppendDuplicate, diskVars
<1>. QED
  BY <1>2, <1>3, <1>4, <1>5, <1>6, <1>7, <1>8, <1>9, <1>10

\* The two steps that write to the journal.
LEMMA AppendStep ==
  ASSUME Inv, NEW e \in Ids, AppendRecord(e) \/ AppendFails(e)
  PROVE  Inv'
<1>1. PICK w \in Written(e) : journal' = journal \o w
  BY DEF AppendRecord, AppendFails, Written
<1>2. /\ pc = "up" /\ e \in waiting /\ e \notin ids
      /\ journal \in Seq(Tokens) /\ ids = Recorded /\ e \in files
  BY DEF AppendRecord, AppendFails, Inv, TypeOK, MemoryIsFile, HeldHasEvidence
<1>3. /\ journal' \in Seq(Tokens)
      /\ Recorded \subseteq Recorded'
      /\ Recorded' \subseteq Recorded \cup {e}
  BY <1>1, <1>2, WriteAdds
<1>4. RecordedOnce'
  BY <1>1, <1>2, WriteKeepsUnique DEF Inv
<1>. USE <1>2, <1>3, <1>4, JournalAssumption
     DEF Inv, TypeOK, MemoryIsFile, HeldHasEvidence, EvidenceBeforeRecord
<1>5. CASE AppendRecord(e)
  <2>1. journal' = journal \o <<e, Newline>>
    BY <1>5 DEF AppendRecord
  <2>2. <<e, Newline>> \in Written(e) /\ e \in Range(<<e, Newline>>)
    BY DEF Written, Range
  <2>3. Recorded' = Recorded \cup {e}
    BY <2>1, <2>2, WriteAdds
  <2>. QED
    BY <1>5, <2>3 DEF AppendRecord
<1>6. CASE AppendFails(e)
  BY <1>6 DEF AppendFails, Down
<1>. QED
  BY <1>5, <1>6

LEMMA NextInv == Inv /\ [Next]_vars => Inv'
<1>. SUFFICES ASSUME Inv, [Next]_vars PROVE Inv'
  OBVIOUS
<1>1. CASE \E e \in Ids : AppendRecord(e) \/ AppendFails(e)
  BY <1>1, AppendStep
<1>2. CASE \/ Open \/ OpenRefused \/ PublishSnapshot \/ RenderFails \/ Crash
           \/ UNCHANGED vars
           \/ \E e \in Ids : \/ ReuseSnapshot(e) \/ RenderSnapshot(e)
                             \/ AppendDuplicate(e)
  <2>1. UNCHANGED journal
    BY <1>2 DEF Open, Opened, OpenRefused, PublishSnapshot, RenderFails, Crash,
                ReuseSnapshot, RenderSnapshot, AppendDuplicate, vars, diskVars
  <2>. QED
    BY <1>2, <2>1, OtherSteps
<1>. QED
  BY <1>1, <1>2 DEF Next

LEMMA Invariance == Spec => []Inv
  BY InitInv, NextInv, PTL DEF Spec

-----------------------------------------------------------------------------
(* Theorems                                                                *)

\* Every reachable state is well typed: only a running process has memory.
THEOREM TypeCorrect == Spec => []TypeOK
<1>1. Inv => TypeOK
  BY DEF Inv
<1>. QED
  BY <1>1, Invariance, PTL

\* A record in the journal always names a snapshot that exists.
THEOREM EvidenceFirst == Spec => []EvidenceBeforeRecord
<1>1. Inv => EvidenceBeforeRecord
  BY DEF Inv
<1>. QED
  BY <1>1, Invariance, PTL

\* No two records of the journal are of one event, over all its processes.
THEOREM OneRecordPerEvent == Spec => []RecordedOnce
<1>1. Inv => RecordedOnce
  BY DEF Inv
<1>. QED
  BY <1>1, Invariance, PTL

\* An answered append() is in the journal for good.
THEOREM AnswersAreKept == Spec => []AnsweredIsRecorded
<1>1. Inv => AnsweredIsRecorded
  BY DEF Inv, MemoryIsFile, AnsweredIsRecorded
<1>. QED
  BY <1>1, Invariance, PTL

\* An event is recorded at most once, and once answered it stays recorded.
THEOREM RecordsAreKept == Spec => []RecordIsKept
<1>1. RecordedOnce /\ AnsweredIsRecorded => RecordIsKept
  BY DEF RecordIsKept
<1>. QED
  BY <1>1, OneRecordPerEvent, AnswersAreKept, PTL
=============================================================================
