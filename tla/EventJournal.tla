---------------------------- MODULE EventJournal ----------------------------
(***************************************************************************)
(* The evidence of an event that must survive the process: its snapshot    *)
(* (src/event_evidence.cpp) and its line in the JSONL journal              *)
(* (src/event_journal.cpp), written in that order by the inference loop    *)
(* of apps/realtime_detect.cpp, over crashes, a full disk and restarts     *)
(* with the same journal.                                                  *)
(*                                                                         *)
(* The journal file is the sequence of what was written to it: the whole   *)
(* text of a record (its event id), a part of one (Torn), or a line end.   *)
(* Between its snapshot and its line a record is held by the caller or by  *)
(* the clip writer, which returns records in any order.                    *)
(***************************************************************************)
EXTENDS Sequences, Naturals, Functions

CONSTANTS
  Ids,        \* event ids
  Torn,       \* a proper part of a record's text
  Newline,    \* the end of a line
  Nobody      \* no event in hand

ASSUME JournalAssumption ==
  /\ Torn # Newline
  /\ {Torn, Newline} \cap Ids = {}
  /\ Nobody \notin Ids

VARIABLES
  pc,         \* "down", "up", "render" (in write_snapshot) or "refused"
  journal,    \* the journal file
  files,      \* ids whose snapshot has its final name and is valid
  temps,      \* ids with a temporary snapshot, whole or not
  ids,        \* event_ids_
  hand,       \* the event write_snapshot is working on
  waiting     \* ids of records not yet given to append()

\* History: ids for which an append() has returned, in any process.
VARIABLE answered

diskVars == <<journal, files, temps>>
vars == <<pc, diskVars, ids, hand, waiting, answered>>

Tokens == Ids \cup {Torn, Newline}

Recorded == Range(journal) \cap Ids

Init ==
  /\ pc = "down" /\ hand = Nobody
  /\ journal = <<>>
  /\ files = {} /\ temps = {} /\ ids = {} /\ waiting = {} /\ answered = {}

-----------------------------------------------------------------------------
(* JsonlEventJournal: the constructor's load_existing()                    *)

\* Every line that is not empty is one record: nothing torn, and no record
\* behind another on the same line.
LinesParse ==
  /\ Torn \notin Range(journal)
  /\ \A i \in 1 .. Len(journal) - 1 :
       journal[i] \in Ids => journal[i + 1] \notin Ids

\* No id is inserted into event_ids_ twice.
IdsAreUnique ==
  \A i, j \in DOMAIN journal :
    journal[i] = journal[j] /\ journal[i] \in Ids => i = j

\* What the constructor leaves of the file: it opens it to append.
Opened == journal

\* Mutated: the lines are checked and their ids forgotten.
Loaded_Forgets == {}

\* What load_existing() puts into event_ids_.
Loaded == Recorded

\* The process starts, after a refusal as well: the service is restarted.
Open ==
  /\ pc \in {"down", "refused"}
  /\ LinesParse /\ IdsAreUnique
  /\ pc' = "up"
  /\ journal' = Opened
  /\ ids' = Loaded
  /\ UNCHANGED <<files, temps, hand, waiting, answered>>

\* load_existing() throws, which ends the process.
OpenRefused ==
  /\ pc \in {"down", "refused"}
  /\ ~ (LinesParse /\ IdsAreUnique)
  /\ pc' = "refused"
  /\ UNCHANGED <<diskVars, ids, hand, waiting, answered>>

-----------------------------------------------------------------------------
(* EventEvidenceWriter::write_snapshot                                     *)

\* Mutated: a temporary file counts as a finished snapshot.
Reusable_AlsoTemp(e) == e \in files \cup temps

\* The final file exists, so an earlier call has finished it.
Reusable(e) == e \in files

ReuseSnapshot(e) ==
  /\ pc = "up" /\ Reusable(e)
  /\ waiting' = waiting \cup {e}
  /\ UNCHANGED <<pc, diskVars, ids, hand, answered>>

\* A left-over temporary file is removed and a new one is begun.
RenderSnapshot(e) ==
  /\ pc = "up" /\ ~ Reusable(e)
  /\ pc' = "render" /\ hand' = e
  /\ temps' = temps \cup {e}
  /\ UNCHANGED <<journal, files, ids, waiting, answered>>

\* Mutated: the file is copied to its final name.
PublishSnapshot_Copies ==
  /\ pc = "render"
  /\ pc' = "up" /\ hand' = Nobody
  /\ files' = files \cup {hand}
  /\ waiting' = waiting \cup {hand}
  /\ UNCHANGED <<journal, temps, ids, answered>>

\* The temporary file is whole and gets its final name.
PublishSnapshot ==
  /\ pc = "render"
  /\ pc' = "up" /\ hand' = Nobody
  /\ temps' = temps \ {hand}
  /\ files' = files \cup {hand}
  /\ waiting' = waiting \cup {hand}
  /\ UNCHANGED <<journal, ids, answered>>

\* The process is gone: an exception out of the frame loop, or a crash.
Down ==
  /\ pc' = "down" /\ hand' = Nobody
  /\ ids' = {} /\ waiting' = {}

\* imwrite or the check of its file fails: the temporary file is removed.
RenderFails ==
  /\ pc = "render"
  /\ Down
  /\ temps' = temps \ {hand}
  /\ UNCHANGED <<journal, files, answered>>

-----------------------------------------------------------------------------
(* JsonlEventJournal::append, for one of the records that are due          *)

AppendDuplicate(e) ==
  /\ pc = "up" /\ e \in waiting
  /\ e \in ids
  /\ waiting' = waiting \ {e}
  /\ answered' = answered \cup {e}
  /\ UNCHANGED <<pc, diskVars, ids, hand>>

AppendRecord(e) ==
  /\ pc = "up" /\ e \in waiting
  /\ e \notin ids
  /\ journal' = journal \o <<e, Newline>>
  /\ ids' = ids \cup {e}
  /\ waiting' = waiting \ {e}
  /\ answered' = answered \cup {e}
  /\ UNCHANGED <<pc, files, temps, hand>>

\* The write stops anywhere: the disk is full and append() throws, or the
\* process is killed in it.
AppendFails(e) ==
  /\ pc = "up" /\ e \in waiting
  /\ e \notin ids
  /\ \E written \in {<<Torn>>, <<e>>, <<e, Newline>>} :
       journal' = journal \o written
  /\ Down
  /\ UNCHANGED <<files, temps, answered>>

Crash ==
  /\ pc \in {"up", "render"}
  /\ Down
  /\ UNCHANGED <<diskVars, answered>>

Next ==
  \/ Open \/ OpenRefused
  \/ PublishSnapshot \/ RenderFails \/ Crash
  \/ \E e \in Ids :
       \/ ReuseSnapshot(e) \/ RenderSnapshot(e)
       \/ AppendDuplicate(e) \/ AppendRecord(e) \/ AppendFails(e)

Spec == Init /\ [][Next]_vars

-----------------------------------------------------------------------------
(* Properties                                                              *)

\* Types; only a running process has memory, and a temporary snapshot never
\* lies beside its final one.
TypeOK ==
  /\ pc \in {"down", "up", "render", "refused"}
  /\ journal \in Seq(Tokens)
  /\ {files, temps, ids, waiting, answered} \subseteq SUBSET Ids
  /\ hand \in Ids \cup {Nobody}
  /\ (hand # Nobody) <=> (pc = "render")
  /\ pc \in {"down", "refused"} => ids = {} /\ waiting = {}
  /\ temps \cap files = {}

\* A record in the journal never names a snapshot that is not there, whatever
\* crashed between the snapshot's steps and the append.
EvidenceBeforeRecord == Recorded \subseteq files

\* An event has one record, over every process that wrote to the journal.
RecordedOnce == IdsAreUnique

\* An event whose append() returned, written or skipped, is in the journal
\* for good, and every process knows it while it runs.
AnsweredIsRecorded ==
  /\ answered \subseteq Recorded
  /\ pc \in {"up", "render"} => answered \subseteq ids

\* Both: a record is written once and stays.
RecordIsKept == RecordedOnce /\ AnsweredIsRecorded

\* A journal that the program wrote can be opened again by the program.
ReopenSucceeds == pc # "refused"

=============================================================================
