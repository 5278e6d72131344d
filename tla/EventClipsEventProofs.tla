------------------------ MODULE EventClipsEventProofs ------------------------
(***************************************************************************)
(* Proofs about EventClips as a keeper of events: that an event is         *)
(* recorded once, that the file of a published clip exists, that no event  *)
(* is lost or published twice, and that the counters balance.              *)
(***************************************************************************)
EXTENDS EventClipsProofs

-----------------------------------------------------------------------------
(* Who records an event.  Unless clips are shared and events handed in     *)
(* again, each event is in one clip at most, and an event whose clip is    *)
(* complete is in none.  The file of a completed clip is named after an    *)
(* event that is complete itself, so no clip still to be encoded replaces  *)
(* it.                                                                     *)

CompletedIds == {p.id : p \in completedPaths}

\* Every event the writer knows of.
Seen == AllIds(active) \cup encodingIds \cup CompletedIds

Apart(clips) ==
  \A i, j \in DOMAIN clips :
    i # j => Ids(clips[i].records) \cap Ids(clips[j].records) = {}

ClipsApart ==
  /\ Apart(active) /\ Apart(queue)
  /\ AllIds(queue) \cap Ids(job.records) = {}
  /\ AllIds(queue) \cup Ids(job.records) \subseteq encodingIds
  /\ AllIds(active) \cap encodingIds = {}
  /\ CompletedIds \cap (AllIds(active) \cup encodingIds) = {}

\* The path belongs to an event that is complete itself.
Owned(path, complete) == [id |-> path, path |-> path] \in complete

OwnedIn(records, complete) ==
  \A i \in DOMAIN records : records[i].path # 0 => Owned(records[i].path, complete)

PathsOwned ==
  /\ \A p \in completedPaths : p.path \in files /\ Owned(p.path, completedPaths)
  /\ OwnedIn(returning, completedPaths) /\ OwnedIn(completed, completedPaths)
  /\ OwnedIn(published, completedPaths)
  /\ workerPc = "report" => FinalPath \in files

\* Without sharing a clip is of one event, and its file has that event's name.
OneEventEach ==
  /\ \A c \in Held : Len(c.records) <= 1
  /\ \A p \in completedPaths : p.path = p.id

\* Without a second handing-in what is pending is new.
PendingIsNew ==
  /\ \A i, j \in DOMAIN pending : i # j => pending[i] # pending[j]
  /\ \A i \in DOMAIN pending : pending[i] \notin Seen /\ pending[i] < nextId
  /\ \A id \in Seen : id < nextId

MemberInv ==
  /\ ClipsApart /\ PathsOwned
  /\ ~ Share => OneEventEach
  /\ ~ Resubmit => PendingIsNew

LEMMA SameIds ==
  ASSUME NEW s, NEW t, DOMAIN t = DOMAIN s,
         \A i \in DOMAIN s : Ids(t[i].records) = Ids(s[i].records)
  PROVE  AllIds(t) = AllIds(s) /\ (Apart(s) => Apart(t))
BY DEF AllIds, Apart

LEMMA RemoveAtIds ==
  ASSUME NEW S, NEW s \in Seq(S), NEW i \in 1 .. Len(s)
  PROVE  /\ AllIds(s) = AllIds(RemoveAt(s, i)) \cup Ids(s[i].records)
         /\ Apart(s) => /\ Apart(RemoveAt(s, i))
                        /\ AllIds(RemoveAt(s, i)) \cap Ids(s[i].records) = {}
         /\ \A k \in DOMAIN RemoveAt(s, i) : \E j \in DOMAIN s : RemoveAt(s, i)[k] = s[j]
<1> DEFINE t == RemoveAt(s, i)
           from(k) == IF k < i THEN k ELSE k + 1
           to(k) == IF k < i THEN k ELSE k - 1
<1>1. Len(s) \in Nat /\ DOMAIN s = 1 .. Len(s)
  BY LenProperties
<1>2. /\ DOMAIN t = 1 .. Len(s) - 1
      /\ \A k \in 1 .. Len(s) - 1 : t[k] = IF k < i THEN s[k] ELSE s[k + 1]
  BY RemoveAtFacts, LenProperties
<1> HIDE DEF t
<1>3. \A k \in DOMAIN t : t[k] = s[from(k)] /\ from(k) \in DOMAIN s /\ from(k) # i
  BY <1>1, <1>2
<1>4. \A k, l \in DOMAIN t : k # l => from(k) # from(l)
  BY <1>1, <1>2
<1>5. \A k \in DOMAIN s : k # i => to(k) \in DOMAIN t /\ t[to(k)] = s[k]
  BY <1>1, <1>2
<1> HIDE DEF from, to
<1>6. AllIds(s) = AllIds(t) \cup Ids(s[i].records)
  BY <1>1, <1>3, <1>5 DEF AllIds
<1>7. ASSUME Apart(s)
      PROVE  Apart(t) /\ AllIds(t) \cap Ids(s[i].records) = {}
  <2>1. Apart(t)
    BY <1>3, <1>4, <1>7 DEF Apart
  <2>2. \A k \in DOMAIN t : Ids(t[k].records) \cap Ids(s[i].records) = {}
    BY <1>1, <1>3, <1>7 DEF Apart
  <2> QED
    BY <2>1, <2>2 DEF AllIds
<1> QED
  BY <1>3, <1>6, <1>7 DEF t

LEMMA AppendIds ==
  ASSUME NEW S, NEW s \in Seq(S), NEW c \in S
  PROVE  /\ AllIds(Append(s, c)) = AllIds(s) \cup Ids(c.records)
         /\ Apart(s) /\ AllIds(s) \cap Ids(c.records) = {} => Apart(Append(s, c))
<1> DEFINE t == Append(s, c)
<1>1. Len(s) \in Nat /\ DOMAIN s = 1 .. Len(s)
  BY LenProperties
<1>2. /\ DOMAIN t = DOMAIN s \cup {Len(s) + 1} /\ Len(s) + 1 \notin DOMAIN s
      /\ \A k \in DOMAIN s : t[k] = s[k]
      /\ t[Len(s) + 1] = c
  BY <1>1, AppendProperties, LenProperties
<1> HIDE DEF t
<1>3. AllIds(t) = AllIds(s) \cup Ids(c.records)
  BY <1>2 DEF AllIds
<1>4. ASSUME Apart(s), AllIds(s) \cap Ids(c.records) = {}
      PROVE  Apart(t)
  <2>1. \A k \in DOMAIN s : Ids(t[k].records) \cap Ids(c.records) = {}
    BY <1>2, <1>4 DEF AllIds
  <2> QED
    BY <1>2, <1>4, <2>1 DEF Apart
<1> QED
  BY <1>3, <1>4 DEF t

LEMMA TailIds ==
  ASSUME NEW S, NEW s \in Seq(S), s # << >>
  PROVE  /\ AllIds(s) = AllIds(Tail(s)) \cup Ids(Head(s).records)
         /\ Apart(s) => /\ Apart(Tail(s))
                        /\ AllIds(Tail(s)) \cap Ids(Head(s).records) = {}
<1> DEFINE t == Tail(s)
<1>1. Len(s) \in Nat /\ DOMAIN s = 1 .. Len(s) /\ 1 \in DOMAIN s /\ Head(s) = s[1]
  BY LenProperties, EmptySeq, HeadTailProperties
<1>2. /\ DOMAIN t = 1 .. Len(s) - 1
      /\ \A k \in 1 .. Len(s) - 1 : t[k] = s[k + 1]
  BY HeadTailProperties, LenProperties
<1> HIDE DEF t
<1>3. /\ \A k \in DOMAIN t : k + 1 \in DOMAIN s /\ k + 1 # 1 /\ t[k] = s[k + 1]
      /\ \A j \in DOMAIN s : j # 1 => j - 1 \in DOMAIN t /\ t[j - 1] = s[j]
      /\ \A k, l \in DOMAIN t : k # l => k + 1 # l + 1
  BY <1>1, <1>2
<1>4. AllIds(s) = AllIds(t) \cup Ids(s[1].records)
  BY <1>1, <1>3 DEF AllIds
<1>5. ASSUME Apart(s)
      PROVE  Apart(t) /\ AllIds(t) \cap Ids(s[1].records) = {}
  <2>1. Apart(t)
    BY <1>3, <1>5 DEF Apart
  <2>2. \A k \in DOMAIN t : Ids(t[k].records) \cap Ids(s[1].records) = {}
    BY <1>1, <1>3, <1>5 DEF Apart
  <2> QED
    BY <2>1, <2>2 DEF AllIds
<1> QED
  BY <1>1, <1>4, <1>5 DEF t

LEMMA JoinIds ==
  ASSUME NEW s, NEW i \in DOMAIN s, NEW t, NEW id,
         DOMAIN t = DOMAIN s, \A k \in DOMAIN s : k # i => t[k] = s[k],
         Ids(t[i].records) = Ids(s[i].records) \cup {id}
  PROVE  /\ AllIds(t) = AllIds(s) \cup {id}
         /\ Apart(s) /\ id \notin AllIds(s) => Apart(t)
<1>1. AllIds(t) = AllIds(s) \cup {id}
  <2>1. \A k \in DOMAIN s : Ids(t[k].records) = Ids(s[k].records)
                              \cup (IF k = i THEN {id} ELSE {})
    OBVIOUS
  <2> QED
    BY <2>1 DEF AllIds
<1>2. ASSUME Apart(s), id \notin AllIds(s)
      PROVE  Apart(t)
  <2>1. \A k \in DOMAIN s : id \notin Ids(s[k].records)
    BY <1>2 DEF AllIds
  <2>2. \A j, k \in DOMAIN s : j # k => Ids(s[j].records) \cap Ids(s[k].records) = {}
    BY <1>2 DEF Apart
  <2>3. \A k \in DOMAIN s : Ids(t[k].records) = Ids(s[k].records)
                              \cup (IF k = i THEN {id} ELSE {})
    OBVIOUS
  <2> QED
    BY <2>1, <2>2, <2>3 DEF Apart
<1> QED
  BY <1>1, <1>2

LEMMA RecordIds ==
  ASSUME NEW records \in Seq(Members), NEW m \in Members
  PROVE  /\ Ids(Append(records, m)) = Ids(records) \cup {m.id}
         /\ Ids(<<m>>) = {m.id} /\ Ids(NoClip.records) = {}
         /\ records # << >> => Head(records).id \in Ids(records)
<1>1. Len(records) \in Nat /\ DOMAIN records = 1 .. Len(records)
  BY LenProperties
<1>2. /\ DOMAIN Append(records, m) = DOMAIN records \cup {Len(records) + 1}
      /\ \A k \in DOMAIN records : Append(records, m)[k] = records[k]
      /\ Append(records, m)[Len(records) + 1] = m
      /\ Len(records) + 1 \notin DOMAIN records
  BY <1>1, AppendProperties, LenProperties
<1>3. records # << >> => 1 \in DOMAIN records /\ Head(records) = records[1]
  BY <1>1, EmptySeq, HeadTailProperties
<1> QED
  BY <1>2, <1>3 DEF Ids, NoClip

LEMMA ApartInit == Init => ClipsApart
BY DEF Init, ClipsApart, Apart, AllIds, Ids, CompletedIds, NoClip

LEMMA ProcessIds ==
  ASSUME TypeOK, NEW batch \in Batches, NEW skipped \in 0 .. 1,
         NEW gen \in generation .. generation + 1, Process(batch, skipped, gen)
  PROVE  /\ AllIds(active)' = AllIds(active) /\ (Apart(active) => Apart(active)')
         /\ UNCHANGED <<queue, job, encodingIds, completedPaths, files, workerPc>>
<1> DEFINE f == [n |-> sequence + skipped + 1, gen |-> gen]
<1>1. UNCHANGED active \/ active' = Flushed \/ active' = Advanced(f)
  BY DEF Process, callerVars
<1>2. \A i \in DOMAIN active : active[i] \in ClipShape
  BY CollectingType DEF Held, Collecting
<1>3. DOMAIN active' = DOMAIN active /\
      \A i \in DOMAIN active : Ids(active'[i].records) = Ids(active[i].records)
  BY <1>1, <1>2 DEF Flushed, Advanced, ClipShape
<1> QED
  BY <1>3, SameIds DEF Process, workerVars

LEMMA FlushIds ==
  ASSUME TypeOK, Reset \/ Finish
  PROVE  /\ AllIds(active)' = AllIds(active) /\ (Apart(active) => Apart(active)')
         /\ UNCHANGED <<queue, job, encodingIds, completedPaths, files, workerPc>>
<1>1. active' = Flushed
  BY DEF Reset, Finish
<1>2. \A i \in DOMAIN active : active[i] \in ClipShape
  BY CollectingType DEF Held, Collecting
<1>3. DOMAIN active' = DOMAIN active /\
      \A i \in DOMAIN active : Ids(active'[i].records) = Ids(active[i].records)
  BY <1>1, <1>2 DEF Flushed, ClipShape
<1> QED
  BY <1>3, SameIds DEF Reset, Finish, workerVars

LEMMA SubmitIds ==
  ASSUME TypeOK, ClipsApart, SubmitClip
  PROVE  /\ AllIds(active)' \subseteq AllIds(active)
         /\ encodingIds \subseteq encodingIds'
         /\ encodingIds' \subseteq encodingIds \cup AllIds(active)
         /\ UNCHANGED <<completedPaths, files, workerPc, job>>
         /\ ClipsApart'
<1>1. PICK i \in Due(active) :
        /\ active' = RemoveAt(active, i)
        /\ \/ UNCHANGED <<queue, encodingIds>>
           \/ /\ queue' = Append(queue, active[i])
              /\ encodingIds' = encodingIds \cup Ids(active[i].records)
  BY DEF SubmitClip
<1> DEFINE mine == Ids(active[i].records)
<1>2. i \in 1 .. Len(active) /\ active[i] \in LiveClips
  BY CollectingType DEF Due, Collecting
<1>3. /\ AllIds(active)' \subseteq AllIds(active) /\ mine \subseteq AllIds(active)
      /\ Apart(active)' /\ AllIds(active)' \cap mine = {}
  BY <1>1, <1>2, RemoveAtIds DEF ClipsApart, TypeOK
<1>4. /\ AllIds(Append(queue, active[i])) = AllIds(queue) \cup mine
      /\ AllIds(queue) \cap mine = {} /\ Ids(job.records) \cap mine = {}
      /\ Apart(Append(queue, active[i]))
  <2>1. AllIds(queue) \cap mine = {} /\ Ids(job.records) \cap mine = {}
    BY <1>3 DEF ClipsApart
  <2> QED
    BY <1>2, <2>1, AppendIds DEF ClipsApart, TypeOK
<1>5. UNCHANGED <<completedPaths, files, workerPc, job>>
  BY DEF SubmitClip, workerVars
<1> HIDE DEF mine
<1>6. CASE UNCHANGED <<queue, encodingIds>>
  BY <1>3, <1>5, <1>6 DEF ClipsApart, CompletedIds
<1>7. CASE /\ queue' = Append(queue, active[i])
           /\ encodingIds' = encodingIds \cup mine
  BY <1>3, <1>4, <1>5, <1>7 DEF ClipsApart, CompletedIds
<1> QED
  BY <1>1, <1>6, <1>7 DEF mine

LEMMA WorkerIds ==
  ASSUME TypeOK, ClipsApart, Worker
  PROVE  /\ UNCHANGED active /\ encodingIds' \subseteq encodingIds
         /\ completedPaths \subseteq completedPaths'
         /\ CompletedIds' \subseteq CompletedIds \cup encodingIds
         /\ ClipsApart'
<1> USE DEF sharedVars
<1>1. UNCHANGED active
  BY DEF Worker, TakeJob, WorkerStops, RemoveFinal, RenameToFinal, ReportJob,
     EncodeFails, callerVars
<1>2. AllIds(<< >>) = {} /\ Apart(<< >>)
  BY DEF AllIds, Apart
<1>3. CASE TakeJob
  <2>1. queue \in Seq(LiveClips) /\ queue # << >>
    BY <1>3 DEF TakeJob, TypeOK
  <2>2. /\ AllIds(queue) = AllIds(queue') \cup Ids(job'.records)
        /\ Apart(queue') /\ AllIds(queue') \cap Ids(job'.records) = {}
    BY <1>3, <2>1, TailIds DEF TakeJob, ClipsApart
  <2> QED
    BY <1>1, <1>3, <2>2 DEF TakeJob, ClipsApart, CompletedIds
<1>4. CASE ReportJob
  <2> DEFINE mine == Ids(job.records)
             done == WithPath(job.records, FinalPath)
  <2>1. {done[i].id : i \in DOMAIN done} = mine
    BY DEF WithPath, Ids
  <2>2. completedPaths' = {p \in completedPaths : p.id \notin mine}
                            \cup {done[i] : i \in DOMAIN done}
    BY <1>4 DEF ReportJob
  <2>3. \A p \in completedPaths : p.id \notin mine
    BY DEF ClipsApart, CompletedIds
  <2> HIDE DEF done
  <2>4. CompletedIds' = CompletedIds \cup mine /\ completedPaths \subseteq completedPaths'
    BY <2>1, <2>2, <2>3 DEF CompletedIds
  <2>5. encodingIds' = encodingIds \ mine /\ UNCHANGED queue
    BY <1>4 DEF ReportJob
  <2>6. Ids(job.records)' = {}
    BY <1>4 DEF ReportJob, NoClip, Ids
  <2> HIDE DEF mine
  <2>7. mine \subseteq encodingIds /\ mine \cap AllIds(queue) = {}
    BY DEF ClipsApart, mine
  <2> QED
    BY <1>1, <2>4, <2>5, <2>6, <2>7 DEF ClipsApart
<1>5. CASE EncodeFails
  BY <1>1, <1>2, <1>5 DEF EncodeFails, ClipsApart, CompletedIds
<1>6. CASE WorkerStops \/ RemoveFinal \/ RenameToFinal
  BY <1>1, <1>6 DEF WorkerStops, RemoveFinal, RenameToFinal, ClipsApart, CompletedIds
<1> QED
  BY <1>3, <1>4, <1>5, <1>6 DEF Worker

\* What is recorded from now on was not recorded before: without sharing a
\* completed event's clip is on disk, and without a second handing-in it is new.
LEMMA AdmittedIsFresh ==
  ASSUME TypeOK, MemberInv, ~ (Share /\ Resubmit), NEW id \in EventIds, Admitting(id),
         ~ AlreadyRecording(id), Share \/ id \notin files
  PROVE  id \notin Seen
<1>1. pending \in Seq(EventIds) /\ pending # << >> /\ id = Head(pending)
  BY DEF Admitting, TypeOK
<1>2. id \notin CompletedIds
  <2>1. CASE Share
    <3>1. PendingIsNew /\ 1 \in DOMAIN pending /\ id = pending[1]
      BY <1>1, <2>1, HeadTailProperties, EmptySeq, LenProperties DEF MemberInv
    <3> QED
      BY <3>1 DEF PendingIsNew, Seen
  <2>2. CASE ~ Share
    <3>1. \A p \in completedPaths : p.path = p.id /\ p.path \in files
      BY <2>2 DEF MemberInv, OneEventEach, PathsOwned
    <3>2. id \notin files
      BY <2>2
    <3> QED
      BY <3>1, <3>2 DEF CompletedIds
  <2> QED
    BY <2>1, <2>2
<1> QED
  BY <1>2 DEF Seen, AlreadyRecording

LEMMA AdmitIds ==
  ASSUME TypeOK, MemberInv, ~ (Share /\ Resubmit), Admit
  PROVE  \E id \in EventIds :
           /\ Admitting(id)
           /\ \/ UNCHANGED <<active, completedPaths>>
              \/ /\ id \notin Seen /\ UNCHANGED completedPaths
                 /\ AllIds(active)' = AllIds(active) \cup {id} /\ Apart(active)'
              \/ /\ ~ AlreadyRecording(id) /\ id \in files /\ UNCHANGED active
                 /\ completedPaths' = completedPaths \cup {[id |-> id, path |-> id]}
           /\ \/ UNCHANGED returning
              \/ returning' = Append(returning, [id |-> id, path |-> 0])
              \/ /\ returning' = Append(returning, [id |-> id, path |-> id])
                 /\ [id |-> id, path |-> id] \in completedPaths'
<1>1. CASE AdmitShared
  <2>1. PICK id \in EventIds :
          /\ Admitting(id) /\ ~ AlreadyRecording(id) /\ JoinClip(id)
          /\ UNCHANGED <<returning, completedPaths>>
    BY <1>1 DEF AdmitShared
  <2>2. PICK i \in DOMAIN active :
          /\ Joinable(active[i])
          /\ active' = [active EXCEPT ![i].records = Append(@, Member(id)),
                                      ![i].post = Post]
    BY <2>1 DEF JoinClip
  <2>3. id \notin Seen
    BY <2>1, <2>2, AdmittedIsFresh DEF Joinable
  <2>4. active[i] \in ClipShape /\ active[i].records \in Seq(Members)
    BY CollectingType DEF Collecting, LiveClips, ClipShape
  <2>5. Member(id) \in Members /\ Member(id).id = id
    BY MemberType DEF Member
  <2>6. /\ DOMAIN active' = DOMAIN active
        /\ \A k \in DOMAIN active : k # i => active'[k] = active[k]
        /\ active'[i].records = Append(active[i].records, Member(id))
    BY <2>2, <2>4 DEF ClipShape
  <2>7. Ids(Append(active[i].records, Member(id)))
          = Ids(active[i].records) \cup {Member(id).id}
    BY <2>4, <2>5, RecordIds
  <2>8. Ids(active'[i].records) = Ids(active[i].records) \cup {id}
    BY <2>5, <2>6, <2>7
  <2>9. Apart(active) /\ id \notin AllIds(active)
    BY <2>3 DEF MemberInv, ClipsApart, Seen
  <2> DEFINE t == active'
  <2>10. /\ DOMAIN t = DOMAIN active /\ \A k \in DOMAIN active : k # i => t[k] = active[k]
        /\ Ids(t[i].records) = Ids(active[i].records) \cup {id}
    BY <2>6, <2>8
  <2> HIDE DEF t
  <2>11. AllIds(t) = AllIds(active) \cup {id} /\ Apart(t)
    BY <2>9, <2>10, JoinIds
  <2>12. AllIds(active') = AllIds(active) \cup {id} /\ Apart(active')
    BY <2>11 DEF t
  <2> QED
    BY <2>1, <2>3, <2>12
<1>2. CASE AdmitNew
  <2>1. PICK id \in EventIds :
          /\ Admitting(id) /\ ~ AlreadyRecording(id) /\ id \notin files
          /\ active' = Append(active, NewClip(id))
          /\ UNCHANGED <<returning, completedPaths>>
    BY <1>2 DEF AdmitNew
  <2>2. id \notin Seen
    BY <2>1, AdmittedIsFresh
  <2>3. NewClip(id) \in LiveClips /\ NewClip(id).records = <<Member(id)>>
    BY NewClipType DEF NewClip
  <2>4. Member(id) \in Members /\ Member(id).id = id
    BY MemberType DEF Member
  <2>5. Ids(NewClip(id).records) = {id}
    BY <2>3, <2>4, RecordIds, EmptySeq
  <2>6. /\ Apart(active) /\ id \notin AllIds(active)
        /\ active \in Seq(LiveClips) /\ AllIds(active) \cap {id} = {}
    BY <2>2 DEF MemberInv, ClipsApart, Seen, TypeOK
  <2> DEFINE clip == NewClip(id)
  <2>7. clip \in LiveClips /\ Ids(clip.records) = {id} /\ active' = Append(active, clip)
    BY <2>1, <2>3, <2>5
  <2> HIDE DEF clip
  <2>8. /\ AllIds(Append(active, clip)) = AllIds(active) \cup Ids(clip.records)
        /\ Apart(Append(active, clip))
    BY <2>6, <2>7, AppendIds
  <2>9. AllIds(active') = AllIds(active) \cup {id} /\ Apart(active')
    BY <2>7, <2>8
  <2> QED
    BY <2>1, <2>2, <2>9
<1>3. CASE AdmitDuplicate \/ AdmitRefused \/ AdmitOnDisk
  BY <1>3 DEF AdmitDuplicate, AdmitRefused, AdmitOnDisk
<1> QED
  BY <1>1, <1>2, <1>3 DEF Admit

LEMMA ApartStep ==
  ASSUME TypeOK, MemberInv, ~ (Share /\ Resubmit), [Next]_vars
  PROVE  ClipsApart'
<1> USE DEF MemberInv
<1>1. CASE Worker
  BY <1>1, WorkerIds
<1>2. CASE SubmitClip
  BY <1>2, SubmitIds
<1>3. CASE Admit
  <2>1. PICK id \in EventIds :
           /\ Admitting(id)
           /\ \/ UNCHANGED <<active, completedPaths>>
              \/ /\ id \notin Seen /\ UNCHANGED completedPaths
                 /\ AllIds(active)' = AllIds(active) \cup {id} /\ Apart(active)'
              \/ /\ ~ AlreadyRecording(id) /\ id \in files /\ UNCHANGED active
                 /\ completedPaths' = completedPaths \cup {[id |-> id, path |-> id]}
    BY <1>3, AdmitIds
  <2>2. UNCHANGED <<queue, job, encodingIds>>
    BY <2>1 DEF Admitting, workerVars
  <2>3. CASE UNCHANGED <<active, completedPaths>>
    BY <2>2, <2>3 DEF ClipsApart, CompletedIds
  <2>4. CASE /\ id \notin Seen /\ UNCHANGED completedPaths
             /\ AllIds(active)' = AllIds(active) \cup {id} /\ Apart(active)'
    BY <2>2, <2>4 DEF ClipsApart, CompletedIds, Seen
  <2>5. CASE /\ ~ AlreadyRecording(id) /\ UNCHANGED active
             /\ completedPaths' = completedPaths \cup {[id |-> id, path |-> id]}
    <3>1. CompletedIds' = CompletedIds \cup {id}
      <4> DEFINE r == [id |-> id, path |-> id]
      <4>1. r.id = id
        OBVIOUS
      <4>2. completedPaths' = completedPaths \cup {r}
        BY <2>5
      <4> HIDE DEF r
      <4> QED
        BY <4>1, <4>2 DEF CompletedIds
    <3> QED
      BY <2>2, <2>5, <3>1 DEF ClipsApart, AlreadyRecording
  <2> QED
    BY <2>1, <2>3, <2>4, <2>5
<1>4. CASE Reset \/ Finish
  BY <1>4, FlushIds DEF ClipsApart, CompletedIds
<1>5. CASE \E batch \in Batches, skipped \in 0 .. 1,
              gen \in generation .. generation + 1 : Process(batch, skipped, gen)
  <2>1. PICK batch \in Batches, skipped \in 0 .. 1,
             gen \in generation .. generation + 1 : Process(batch, skipped, gen)
    BY <1>5
  <2> QED
    BY <2>1, ProcessIds DEF ClipsApart, CompletedIds
<1>6. CASE \/ Rejoin \/ ToRecords \/ LookUpCompleted \/ EndProcess \/ EndReset
           \/ RequestStop \/ Joined \/ Destroyed \/ Destroy \/ Over \/ UNCHANGED vars
  <2>1. UNCHANGED <<active, queue, job, encodingIds, completedPaths>>
    BY <1>6 DEF Rejoin, ToRecords, LookUpCompleted, EndProcess, EndReset,
       RequestStop, Joined, Destroyed, Destroy, Over, vars, callerVars, sharedVars,
       workerVars
  <2> QED
    BY <2>1 DEF ClipsApart, CompletedIds
<1> QED
  BY <1>1, <1>2, <1>3, <1>4, <1>5, <1>6 DEF Next, InCall, Call

LEMMA OwnedInConcat ==
  ASSUME NEW r \in Seq(Records), NEW s \in Seq(Records), NEW complete,
         OwnedIn(r, complete), OwnedIn(s, complete)
  PROVE  OwnedIn(r \o s, complete)
<1>1. /\ Len(r) \in Nat /\ DOMAIN r = 1 .. Len(r)
      /\ Len(s) \in Nat /\ DOMAIN s = 1 .. Len(s)
  BY LenProperties
<1>2. /\ DOMAIN (r \o s) = 1 .. Len(r) + Len(s)
      /\ \A k \in 1 .. Len(r) + Len(s) :
           (r \o s)[k] = IF k <= Len(r) THEN r[k] ELSE s[k - Len(r)]
  BY <1>1, ConcatProperties, LenProperties
<1>3. ASSUME NEW k \in DOMAIN (r \o s)
      PROVE  (r \o s)[k].path # 0 => Owned((r \o s)[k].path, complete)
  <2>1. CASE k <= Len(r)
    <3>1. k \in DOMAIN r /\ (r \o s)[k] = r[k]
      BY <1>1, <1>2, <2>1
    <3> QED
      BY <3>1 DEF OwnedIn
  <2>2. CASE ~ (k <= Len(r))
    <3>1. k - Len(r) \in DOMAIN s /\ (r \o s)[k] = s[k - Len(r)]
      BY <1>1, <1>2, <2>2
    <3> QED
      BY <3>1 DEF OwnedIn
  <2> QED
    BY <2>1, <2>2
<1> QED
  BY <1>3 DEF OwnedIn

LEMMA OwnedInAppend ==
  ASSUME NEW r \in Seq(Records), NEW p \in Records, NEW complete,
         OwnedIn(r, complete), p.path # 0 => Owned(p.path, complete)
  PROVE  OwnedIn(Append(r, p), complete)
<1>1. /\ Len(r) \in Nat /\ DOMAIN r = 1 .. Len(r)
      /\ DOMAIN Append(r, p) = 1 .. Len(r) + 1
      /\ \A k \in 1 .. Len(r) : Append(r, p)[k] = r[k]
      /\ Append(r, p)[Len(r) + 1] = p
  BY AppendProperties, LenProperties
<1> QED
  BY <1>1 DEF OwnedIn

LEMMA NothingOwned == \A complete : OwnedIn(<< >>, complete)
BY DEF OwnedIn

LEMMA OwnedStays ==
  ASSUME NEW complete, NEW more, complete \subseteq more
  PROVE  /\ \A r : OwnedIn(r, complete) => OwnedIn(r, more)
         /\ \A path : Owned(path, complete) => Owned(path, more)
BY DEF OwnedIn, Owned

LEMMA OwnedReturn ==
  ASSUME TypeOK, PathsOwned, NEW pc, ReturnTo(pc)
  PROVE  /\ OwnedIn(returning', completedPaths) /\ OwnedIn(completed', completedPaths)
         /\ OwnedIn(published', completedPaths)
<1>1. /\ OwnedIn(<< >>, completedPaths) /\ OwnedIn(published, completedPaths)
      /\ OwnedIn(published \o returning \o completed, completedPaths)
  <2>1. /\ returning \in Seq(Records) /\ completed \in Seq(Records)
        /\ published \in Seq(Records) /\ published \o returning \in Seq(Records)
    BY ConcatProperties DEF TypeOK
  <2> QED
    BY <2>1, OwnedInConcat, NothingOwned DEF PathsOwned
<1> QED
  BY <1>1 DEF ReturnTo

LEMMA FinalPathIsMine ==
  ASSUME TypeOK, Encoding
  PROVE  /\ FinalPath \in Ids(job.records) /\ FinalPath # 0
         /\ WithPath(job.records, FinalPath)[1] = [id |-> FinalPath, path |-> FinalPath]
         /\ 1 \in DOMAIN WithPath(job.records, FinalPath)
<1>1. job.records \in Seq(Members) /\ job.records # << >>
  BY DEF TypeOK, Encoding, LiveClips, ClipShape
<1>2. Head(job.records) = job.records[1] /\ 1 \in DOMAIN job.records
      /\ Head(job.records) \in Members
  BY <1>1, HeadTailProperties, EmptySeq, LenProperties
<1> QED
  BY <1>2 DEF FinalPath, Ids, WithPath, Members, EventIds

LEMMA WorkerPaths ==
  ASSUME TypeOK, ClipsApart, PathsOwned, Worker
  PROVE  PathsOwned'
<1> USE DEF sharedVars, programVars, callerVars
<1>1. completedPaths \subseteq completedPaths' /\ UNCHANGED <<returning, published>>
  BY WorkerIds DEF Worker, TakeJob, WorkerStops, RemoveFinal, RenameToFinal, ReportJob,
     EncodeFails
<1>2. /\ OwnedIn(returning', completedPaths') /\ OwnedIn(published', completedPaths')
      /\ OwnedIn(completed, completedPaths')
      /\ \A p \in completedPaths : Owned(p.path, completedPaths')
  BY <1>1, OwnedStays DEF PathsOwned
<1>3. CASE TakeJob \/ WorkerStops \/ EncodeFails
  <2>1. UNCHANGED <<completed, completedPaths, files>> /\ workerPc' # "report"
    BY <1>3 DEF TakeJob, WorkerStops, EncodeFails
  <2> QED
    BY <1>2, <2>1 DEF PathsOwned
<1>4. CASE RemoveFinal
  <2>1. /\ UNCHANGED <<completed, completedPaths>> /\ workerPc' # "report"
        /\ files' = files \ {FinalPath} /\ Encoding
    BY <1>4 DEF RemoveFinal, Encoding
  <2>2. FinalPath \notin CompletedIds
    BY <2>1, FinalPathIsMine DEF ClipsApart
  <2>3. \A p \in completedPaths : p.path \in CompletedIds
    <3>1. ASSUME NEW p \in completedPaths PROVE p.path \in CompletedIds
      <4> DEFINE r == [id |-> p.path, path |-> p.path]
      <4>1. r \in completedPaths /\ r.id = p.path
        BY DEF PathsOwned, Owned
      <4> HIDE DEF r
      <4> QED
        BY <4>1 DEF CompletedIds
    <3> QED
      BY <3>1
  <2>4. \A p \in completedPaths : p.path # FinalPath
    BY <2>2, <2>3
  <2> QED
    BY <1>2, <2>1, <2>4 DEF PathsOwned
<1>5. CASE RenameToFinal
  <2>1. /\ UNCHANGED <<completed, completedPaths, job>>
        /\ files' = files \cup {FinalPath}
    BY <1>5 DEF RenameToFinal
  <2> QED
    BY <1>2, <2>1 DEF PathsOwned, FinalPath
<1>6. CASE ReportJob
  <2> DEFINE done == WithPath(job.records, FinalPath)
             kept == {p \in completedPaths : p.id \notin Ids(job.records)}
  <2>1. Encoding /\ workerPc = "report"
    BY <1>6 DEF ReportJob, Encoding
  <2>2. /\ completedPaths' = kept \cup {done[i] : i \in DOMAIN done}
        /\ completed' = completed \o done /\ UNCHANGED files /\ workerPc' = "wait"
    BY <1>6 DEF ReportJob
  <2>3. /\ done[1] = [id |-> FinalPath, path |-> FinalPath] /\ 1 \in DOMAIN done
        /\ \A i \in DOMAIN done : done[i].path = FinalPath
    BY <2>1, FinalPathIsMine DEF WithPath
  <2>4. done \in Seq(Records) /\ completed \in Seq(Records)
    <3>1. job.records \in Seq(Members) /\ Head(job.records) \in Members
      BY <2>1, HeadTailProperties DEF TypeOK, Encoding, LiveClips, ClipShape
    <3>2. FinalPath \in Paths
      BY <3>1, ClipAssumption DEF FinalPath, Members, Paths, EventIds
    <3> QED
      BY <3>1, <3>2, WithPathType DEF TypeOK
  <2>5. FinalPath \in files
    BY <2>1 DEF PathsOwned
  <2> HIDE DEF done
  <2>6. Owned(FinalPath, completedPaths')
    <3>1. done[1] \in completedPaths'
      BY <2>2, <2>3
    <3> QED
      BY <2>3, <3>1 DEF Owned
  <2>7. OwnedIn(completed', completedPaths')
    <3>1. OwnedIn(done, completedPaths')
      BY <2>3, <2>6 DEF OwnedIn
    <3> QED
      BY <1>2, <2>2, <2>4, <3>1, OwnedInConcat
  <2>8. \A p \in completedPaths' : p.path \in files' /\ Owned(p.path, completedPaths')
    <3>1. \A p \in kept : p.path \in files /\ Owned(p.path, completedPaths')
      BY <1>2 DEF PathsOwned
    <3> QED
      BY <2>2, <2>3, <2>5, <2>6, <3>1
  <2> QED
    BY <1>2, <2>2, <2>7, <2>8 DEF PathsOwned
<1> QED
  BY <1>3, <1>4, <1>5, <1>6 DEF Worker

\* What a step of the caller leaves to show.
LEMMA CallerPaths ==
  ASSUME PathsOwned, UNCHANGED <<completedPaths, files, workerPc, job>>,
         OwnedIn(returning', completedPaths), OwnedIn(completed', completedPaths),
         OwnedIn(published', completedPaths)
  PROVE  PathsOwned'
BY DEF PathsOwned, FinalPath

LEMMA SubmitPaths ==
  ASSUME TypeOK, PathsOwned, SubmitClip
  PROVE  PathsOwned'
<1>1. PICK i \in Due(active) :
        UNCHANGED returning \/ Refuse(active[i].records)
  BY DEF SubmitClip
<1>2. active[i].records \in Seq(Members) /\ returning \in Seq(Records)
  BY CollectingType DEF Due, Collecting, LiveClips, ClipShape, TypeOK
<1>3. WithPath(active[i].records, 0) \in Seq(Records)
  BY <1>2, WithPathType, ClipAssumption DEF Paths
<1>4. OwnedIn(WithPath(active[i].records, 0), completedPaths)
  BY DEF OwnedIn, WithPath
<1>5. OwnedIn(returning', completedPaths)
  BY <1>1, <1>2, <1>3, <1>4, OwnedInConcat DEF Refuse, PathsOwned
<1>6. UNCHANGED <<completedPaths, files, workerPc, job, completed, published>>
  BY DEF SubmitClip, workerVars, programVars
<1> QED
  BY <1>5, <1>6, CallerPaths DEF PathsOwned

LEMMA AdmitPaths ==
  ASSUME TypeOK, MemberInv, ~ (Share /\ Resubmit), Admit
  PROVE  PathsOwned'
<1>1. PICK id \in EventIds :
         /\ Admitting(id)
         /\ \/ UNCHANGED completedPaths
            \/ /\ id \in files
               /\ completedPaths' = completedPaths \cup {[id |-> id, path |-> id]}
         /\ \/ UNCHANGED returning
            \/ returning' = Append(returning, [id |-> id, path |-> 0])
            \/ /\ returning' = Append(returning, [id |-> id, path |-> id])
               /\ [id |-> id, path |-> id] \in completedPaths'
  BY AdmitIds
<1>2. /\ UNCHANGED <<files, workerPc, job, completed, published>>
      /\ completedPaths \subseteq completedPaths'
  BY <1>1 DEF Admitting, workerVars, programVars
<1>3. /\ OwnedIn(returning, completedPaths') /\ OwnedIn(completed', completedPaths')
      /\ OwnedIn(published', completedPaths')
      /\ \A p \in completedPaths : Owned(p.path, completedPaths')
  BY <1>2, OwnedStays DEF MemberInv, PathsOwned
<1>4. /\ [id |-> id, path |-> 0] \in Records /\ [id |-> id, path |-> id] \in Records
      /\ returning \in Seq(Records)
  BY ClipAssumption DEF Records, Paths, EventIds, TypeOK
<1>5. OwnedIn(returning', completedPaths')
  <2> DEFINE a == [id |-> id, path |-> 0]
             b == [id |-> id, path |-> id]
  <2>1. a.path = 0 /\ (b \in completedPaths' => Owned(b.path, completedPaths'))
    BY DEF Owned
  <2>2. a \in Records /\ b \in Records
    BY <1>4
  <2>3. \/ UNCHANGED returning
        \/ returning' = Append(returning, a)
        \/ returning' = Append(returning, b) /\ b \in completedPaths'
    BY <1>1
  <2> HIDE DEF a, b
  <2> QED
    BY <1>3, <1>4, <2>1, <2>2, <2>3, OwnedInAppend
<1>6. \A p \in completedPaths' : p.path \in files' /\ Owned(p.path, completedPaths')
  <2>1. CASE UNCHANGED completedPaths
    BY <1>2, <1>3, <2>1 DEF MemberInv, PathsOwned
  <2>2. CASE /\ id \in files
             /\ completedPaths' = completedPaths \cup {[id |-> id, path |-> id]}
    <3> DEFINE b == [id |-> id, path |-> id]
    <3>1. b.path = id /\ completedPaths' = completedPaths \cup {b}
      BY <2>2
    <3>2. Owned(id, completedPaths')
      BY <2>2 DEF Owned
    <3> HIDE DEF b
    <3> QED
      BY <1>2, <1>3, <2>2, <3>1, <3>2 DEF MemberInv, PathsOwned
  <2> QED
    BY <1>1, <2>1, <2>2
<1> QED
  BY <1>2, <1>3, <1>5, <1>6 DEF PathsOwned, MemberInv, FinalPath

LEMMA PathsStep ==
  ASSUME TypeOK, MemberInv, ~ (Share /\ Resubmit), [Next]_vars
  PROVE  PathsOwned'
<1> USE DEF callerVars, sharedVars, workerVars, programVars
<1>1. PathsOwned /\ ClipsApart
  BY DEF MemberInv
<1>2. /\ returning \in Seq(Records) /\ completed \in Seq(Records)
      /\ completedPaths \subseteq Records
      /\ OwnedIn(returning, completedPaths) /\ OwnedIn(completed, completedPaths)
      /\ OwnedIn(published, completedPaths) /\ OwnedIn(<< >>, completedPaths)
  BY <1>1, NothingOwned DEF TypeOK, PathsOwned
<1>3. CASE Worker
  BY <1>1, <1>3, WorkerPaths
<1>4. CASE SubmitClip
  BY <1>1, <1>4, SubmitPaths
<1>5. CASE Admit
  BY <1>5, AdmitPaths
<1>6. CASE EndProcess \/ EndReset \/ Joined
  <2>1. ReturnTo("idle") \/ ReturnTo("closed")
    BY <1>6 DEF EndProcess, EndReset, Joined
  <2>2. UNCHANGED <<completedPaths, files, workerPc, job>>
    BY <1>6 DEF EndProcess, EndReset, Joined
  <2>3. /\ OwnedIn(returning', completedPaths) /\ OwnedIn(completed', completedPaths)
        /\ OwnedIn(published', completedPaths)
    BY <1>1, <2>1, OwnedReturn
  <2> QED
    BY <1>1, <2>2, <2>3, CallerPaths
<1>7. CASE LookUpCompleted
  <2>1. UNCHANGED <<completedPaths, files, workerPc, job, completed, published>>
    BY <1>7 DEF LookUpCompleted
  <2>2. UNCHANGED returning \/ \E p \in completedPaths : returning' = Append(returning, p)
    BY <1>7 DEF LookUpCompleted
  <2>3. \A p \in completedPaths : p \in Records /\ Owned(p.path, completedPaths)
    BY <1>1, <1>2 DEF PathsOwned
  <2>4. OwnedIn(returning', completedPaths)
    BY <1>2, <2>2, <2>3, OwnedInAppend
  <2> QED
    BY <1>1, <1>2, <2>1, <2>4, CallerPaths
<1>8. CASE Rejoin \/ Reset \/ Finish
           \/ \E batch \in Batches, skipped \in 0 .. 1,
                 gen \in generation .. generation + 1 : Process(batch, skipped, gen)
  <2>1. UNCHANGED <<completedPaths, files, workerPc, job, published>>
    BY <1>8 DEF Rejoin, Reset, Finish, Process
  <2>2. /\ returning' \in {returning, completed, returning \o completed}
        /\ completed' \in {completed, << >>}
    BY <1>8 DEF Rejoin, Reset, Finish, Process
  <2>3. OwnedIn(returning \o completed, completedPaths)
    BY <1>2, OwnedInConcat
  <2> QED
    BY <1>1, <1>2, <2>1, <2>2, <2>3, CallerPaths
<1>9. CASE ToRecords \/ RequestStop \/ Destroyed \/ Destroy \/ Over \/ UNCHANGED vars
  <2>1. UNCHANGED <<completedPaths, files, workerPc, job, returning, completed, published>>
    BY <1>9 DEF ToRecords, RequestStop, Destroyed, Destroy, Over, vars
  <2> QED
    BY <1>1, <1>2, <2>1, CallerPaths
<1> QED
  BY <1>3, <1>4, <1>5, <1>6, <1>7, <1>8, <1>9 DEF Next, InCall, Call

LEMMA OneEventStep ==
  ASSUME TypeOK, MemberInv, ~ Share, [Next]_vars
  PROVE  OneEventEach'
<1> USE DEF callerVars, sharedVars, workerVars, programVars
<1>1. OneEventEach /\ ~ (Share /\ Resubmit)
  BY DEF MemberInv
<1>2. ASSUME NEW c \in Held'
      PROVE  Len(c.records) <= 1
  <2>1. \A a \in Collecting : a \in ClipShape /\ Len(a.records) <= 1
    BY <1>1, CollectingType DEF OneEventEach, Held, LiveClips
  <2>2. CASE c \in Held
    BY <1>1, <2>2 DEF OneEventEach
  <2>3. CASE c = NoClip
    BY <2>3, EmptySeq DEF NoClip
  <2>4. CASE Extended(c) \/ CutShort(c)
    BY <2>1, <2>4 DEF Extended, CutShort, ClipShape
  <2>5. ~ Widened(c)
    BY DEF Widened, Joinable
  <2>6. CASE Begun(c)
    <3>1. PICK id \in EventIds : c.records = <<Member(id)>>
      BY <2>6 DEF Begun, NewClip
    <3> QED
      BY <3>1
  <2> QED
    BY <2>2, <2>3, <2>4, <2>5, <2>6, ClipOrigins
<1>3. ASSUME NEW p \in completedPaths'
      PROVE  p.path = p.id
  <2>1. CASE p \in completedPaths
    BY <1>1, <2>1 DEF OneEventEach
  <2>2. CASE Admit /\ p \notin completedPaths
    <3>1. PICK id \in EventIds : p = [id |-> id, path |-> id]
      BY <1>1, <2>2, AdmitIds
    <3> QED
      BY <3>1
  <2>3. CASE Worker /\ p \notin completedPaths
    <3> DEFINE done == WithPath(job.records, FinalPath)
    <3>1. ReportJob
      BY <2>3 DEF Worker, TakeJob, WorkerStops, RemoveFinal, RenameToFinal, EncodeFails
    <3>2. PICK i \in DOMAIN done : p = done[i]
      BY <2>3, <3>1 DEF ReportJob
    <3>3. job.records \in Seq(Members) /\ Len(job.records) <= 1 /\ job.records # << >>
      BY <1>1, <3>1 DEF OneEventEach, Held, ReportJob, TypeOK, LiveClips, ClipShape
    <3>4. i \in 1 .. Len(job.records) /\ Len(job.records) \in Nat
          /\ Head(job.records) = job.records[1]
      BY <3>2, <3>3, LenProperties, HeadTailProperties DEF WithPath
    <3>5. i = 1
      BY <3>3, <3>4
    <3> QED
      BY <3>2, <3>4, <3>5 DEF WithPath, FinalPath
  <2>4. CASE ~ Admit /\ ~ Worker
    <3>1. UNCHANGED completedPaths
      BY <2>4 DEF Next, InCall, Call, SubmitClip, Rejoin, ToRecords, LookUpCompleted,
         EndProcess, EndReset, RequestStop, Joined, Destroyed, Process, Reset, Finish,
         Destroy, Over, vars
    <3> QED
      BY <1>1, <3>1 DEF OneEventEach
  <2> QED
    BY <2>1, <2>2, <2>3, <2>4
<1> QED
  BY <1>2, <1>3 DEF OneEventEach

LEMMA SeenType ==
  ASSUME TypeOK
  PROVE  Seen \subseteq EventIds
<1>1. \A i \in DOMAIN active : active[i].records \in Seq(Members)
  BY CollectingType DEF Collecting, LiveClips, ClipShape
<1>2. AllIds(active) \subseteq EventIds
  BY <1>1, IdsType DEF AllIds
<1>3. CompletedIds \subseteq EventIds
  BY DEF CompletedIds, TypeOK, Records
<1> QED
  BY <1>2, <1>3 DEF Seen, TypeOK

LEMMA PendingStep ==
  ASSUME TypeOK, MemberInv, ~ Resubmit, [Next]_vars
  PROVE  PendingIsNew'
<1> USE DEF callerVars, sharedVars, workerVars, programVars
<1>1. PendingIsNew /\ ClipsApart /\ ~ (Share /\ Resubmit)
      /\ pending \in Seq(EventIds) /\ nextId \in Nat
  BY ClipAssumption DEF MemberInv, TypeOK
<1>2. ASSUME Seen' \subseteq Seen, UNCHANGED <<pending, nextId>>
      PROVE  PendingIsNew'
  BY <1>1, <1>2 DEF PendingIsNew
<1>3. ASSUME pending # << >>, pending' = Tail(pending), UNCHANGED nextId,
             Seen' \subseteq Seen \cup {Head(pending)}
      PROVE  PendingIsNew'
  <2>1. /\ Head(pending) = pending[1] /\ 1 \in DOMAIN pending
        /\ DOMAIN pending = 1 .. Len(pending) /\ Len(pending) \in Nat
        /\ DOMAIN pending' = 1 .. Len(pending) - 1
        /\ \A k \in 1 .. Len(pending) - 1 : pending'[k] = pending[k + 1]
    BY <1>1, <1>3, HeadTailProperties, EmptySeq, LenProperties
  <2>2. /\ \A k \in DOMAIN pending' : /\ k + 1 \in DOMAIN pending /\ k + 1 # 1
                                      /\ pending'[k] = pending[k + 1]
        /\ \A j, k \in DOMAIN pending' : j # k => j + 1 # k + 1
    BY <2>1
  <2>3. \A j, k \in DOMAIN pending' : j # k => pending'[j] # pending'[k]
    BY <1>1, <2>2 DEF PendingIsNew
  <2>4. \A k \in DOMAIN pending' : pending'[k] # pending[1]
    BY <1>1, <2>1, <2>2 DEF PendingIsNew
  <2>5. \A k \in DOMAIN pending' : pending'[k] \notin Seen /\ pending'[k] < nextId
    BY <1>1, <2>2 DEF PendingIsNew
  <2>6. \A id \in Seen \cup {Head(pending)} : id < nextId
    BY <1>1, <2>1 DEF PendingIsNew
  <2> QED
    BY <1>3, <2>1, <2>3, <2>4, <2>5, <2>6 DEF PendingIsNew
<1>4. CASE Worker
  <2>1. Seen' \subseteq Seen
    BY <1>1, <1>4, WorkerIds DEF Seen
  <2> QED
    BY <1>2, <1>4, <2>1 DEF Worker, TakeJob, WorkerStops, RemoveFinal, RenameToFinal,
       ReportJob, EncodeFails
<1>5. CASE SubmitClip
  <2>1. Seen' \subseteq Seen
    BY <1>1, <1>5, SubmitIds DEF Seen, CompletedIds
  <2> QED
    BY <1>2, <1>5, <2>1 DEF SubmitClip
<1>6. CASE Admit
  <2>1. PICK id \in EventIds :
           /\ Admitting(id)
           /\ \/ UNCHANGED <<active, completedPaths>>
              \/ /\ UNCHANGED completedPaths /\ AllIds(active)' = AllIds(active) \cup {id}
              \/ /\ UNCHANGED active
                 /\ completedPaths' = completedPaths \cup {[id |-> id, path |-> id]}
    BY <1>1, <1>6, AdmitIds
  <2>2. /\ id = Head(pending) /\ pending' = Tail(pending) /\ pending # << >>
        /\ UNCHANGED <<nextId, encodingIds>>
    BY <2>1 DEF Admitting, TypeOK
  <2>3. CompletedIds' \subseteq CompletedIds \cup {id}
    <3> DEFINE r == [id |-> id, path |-> id]
    <3>1. r.id = id /\ completedPaths' \subseteq completedPaths \cup {r}
      BY <2>1
    <3> HIDE DEF r
    <3> QED
      BY <3>1 DEF CompletedIds
  <2>4. AllIds(active)' \subseteq AllIds(active) \cup {id}
    BY <2>1
  <2>5. Seen' \subseteq Seen \cup {Head(pending)}
    BY <2>2, <2>3, <2>4 DEF Seen
  <2> QED
    BY <1>3, <2>2, <2>5
<1>7. CASE LookUpCompleted
  <2>1. Seen' \subseteq Seen /\ UNCHANGED nextId /\ pending # << >>
        /\ (UNCHANGED pending \/ pending' = Tail(pending))
    BY <1>7 DEF LookUpCompleted, Seen, CompletedIds
  <2> QED
    BY <1>2, <1>3, <2>1
<1>8. CASE Reset \/ Finish
  <2>1. Seen' \subseteq Seen
    BY <1>8, FlushIds DEF Seen, CompletedIds
  <2> QED
    BY <1>2, <1>8, <2>1 DEF Reset, Finish
<1>9. CASE \E batch \in Batches, skipped \in 0 .. 1,
              gen \in generation .. generation + 1 : Process(batch, skipped, gen)
  <2>1. PICK batch \in Batches, skipped \in 0 .. 1,
             gen \in generation .. generation + 1 : Process(batch, skipped, gen)
    BY <1>9
  <2>2. Seen' = Seen
    BY <2>1, ProcessIds DEF Seen, CompletedIds
  <2>3. CASE workerError
    BY <1>2, <2>1, <2>2, <2>3 DEF Process
  <2>4. CASE ~ workerError
    <3>1. PICK k \in 0 .. MaxPerFrame : batch = [i \in 1 .. k |-> nextId + i - 1]
      BY DEF Batches
    <3>2. /\ pending' = batch
          /\ nextId' = IF batch # << >> /\ Last(batch) >= nextId
                       THEN Last(batch) + 1 ELSE nextId
      BY <2>1, <2>4 DEF Process
    <3>3. k \in Nat
      BY ClipAssumption
    <3>4. batch \in Seq(Int) /\ Len(batch) = k
      <4>1. batch \in [1 .. k -> Int]
        BY <1>1, <3>1, <3>3
      <4> QED
        BY <3>3, <4>1, FunctionIsSeq
    <3>5. nextId' = nextId + k
      <4>1. CASE k = 0
        <5>1. batch = << >>
          BY <3>4, <4>1, EmptySeq
        <5> QED
          BY <1>1, <3>2, <4>1, <5>1
      <4>2. CASE k # 0
        <5>1. batch # << >> /\ k \in 1 .. k
          BY <3>3, <3>4, <4>2, EmptySeq
        <5>2. batch[k] = nextId + k - 1
          BY <3>1, <5>1
        <5>3. Last(batch) = nextId + k - 1
          BY <3>4, <5>2 DEF Last
        <5> QED
          BY <1>1, <3>2, <3>3, <4>2, <5>1, <5>3
      <4> QED
        BY <4>1, <4>2
    <3>6. /\ DOMAIN pending' = 1 .. k
          /\ \A i \in 1 .. k : pending'[i] = nextId + i - 1
      BY <3>1, <3>2
    <3>7. Seen \subseteq Int
      BY SeenType DEF EventIds
    <3>8. \A id \in Seen : id < nextId
      BY <1>1 DEF PendingIsNew
    <3>9. \A i \in 1 .. k : /\ pending'[i] >= nextId /\ pending'[i] < nextId'
                            /\ pending'[i] \notin Seen
      BY <1>1, <3>3, <3>5, <3>6, <3>8
    <3>10. \A i, j \in 1 .. k : i # j => pending'[i] # pending'[j]
      BY <1>1, <3>3, <3>6
    <3>11. \A id \in Seen : id < nextId'
      BY <1>1, <3>3, <3>5, <3>7, <3>8
    <3> QED
      BY <2>2, <3>6, <3>9, <3>10, <3>11 DEF PendingIsNew
  <2> QED
    BY <2>3, <2>4
<1>10. CASE \/ Rejoin \/ ToRecords \/ EndProcess \/ EndReset
            \/ RequestStop \/ Joined \/ Destroyed \/ Destroy \/ Over \/ UNCHANGED vars
  <2>1. UNCHANGED <<active, encodingIds, completedPaths, pending, nextId>>
    BY <1>10 DEF Rejoin, ToRecords, EndProcess, EndReset,
       RequestStop, Joined, Destroyed, Destroy, Over, vars
  <2>2. Seen' \subseteq Seen
    BY <2>1 DEF Seen, CompletedIds
  <2> QED
    BY <1>2, <2>1, <2>2
<1> QED
  BY <1>4, <1>5, <1>6, <1>7, <1>8, <1>9, <1>10 DEF Next, InCall, Call

LEMMA MemberInit == Init => MemberInv
<1> SUFFICES ASSUME Init PROVE MemberInv
  OBVIOUS
<1>1. ClipsApart
  BY ApartInit
<1>2. PathsOwned
  BY DEF Init, PathsOwned, OwnedIn
<1>3. OneEventEach
  BY EmptySeq DEF Init, OneEventEach, Held, Collecting, NoClip
<1>4. PendingIsNew
  BY DEF Init, PendingIsNew, Seen, AllIds, CompletedIds
<1> QED
  BY <1>1, <1>2, <1>3, <1>4 DEF MemberInv

LEMMA MemberStep ==
  ~ (Share /\ Resubmit) /\ TypeOK /\ MemberInv /\ [Next]_vars => MemberInv'
<1> SUFFICES ASSUME ~ (Share /\ Resubmit), TypeOK, MemberInv, [Next]_vars
             PROVE  MemberInv'
  OBVIOUS
<1>1. ClipsApart' /\ PathsOwned'
  BY ApartStep, PathsStep
<1>2. ~ Share => OneEventEach'
  BY OneEventStep
<1>3. ~ Resubmit => PendingIsNew'
  BY PendingStep
<1> QED
  BY <1>1, <1>2, <1>3 DEF MemberInv

LEMMA MemberAlways ==
  ASSUME ~ (Share /\ Resubmit)
  PROVE  Spec => [](TypeOK /\ MemberInv)
<1>1. Init => TypeOK /\ PendingBounded /\ MemberInv
  BY TypeInit, CapacityInit, MemberInit
<1>2. TypeOK /\ PendingBounded /\ MemberInv /\ [Next]_vars
        => (TypeOK /\ PendingBounded /\ MemberInv)'
  BY TypeStep, CapacityStep, MemberStep
<1> QED
  BY <1>1, <1>2, PTL DEF Spec

LEMMA AtMostOne ==
  ASSUME NEW S, \A x, y \in S : x = y
  PROVE  Cardinality(S) <= 1
<1>1. CASE S = {}
  BY <1>1, FS_EmptySet
<1>2. CASE S # {}
  <2>1. PICK x \in S : S = {x}
    BY <1>2
  <2> QED
    BY <2>1, FS_Singleton
<1> QED
  BY <1>1, <1>2

\* An event is in one clip at most, be it collecting, queued or with the encoder, and an
\* event whose clip is complete is in none: however the encoder's reports fall between
\* the two look-ups of start_clip.  Where clips are shared, no event is handed in twice:
\* the loop hands in what the rules have just made.
THEOREM EventsAreRecordedOnce ==
  ASSUME ~ (Share /\ Resubmit)
  PROVE  Spec => []NoSecondMembership
<1>1. TypeOK /\ MemberInv => NoSecondMembership
  <2> SUFFICES ASSUME TypeOK, MemberInv PROVE NoSecondMembership
    OBVIOUS
  <2>1. ClipsApart
    BY DEF MemberInv
  <2>2. ASSUME NEW id \in EventIds
        PROVE  Cardinality({c \in Clips : id \in Ids(c.records)}) <= 1
    <3>1. ASSUME NEW c \in Clips, NEW d \in Clips, id \in Ids(c.records), id \in Ids(d.records)
          PROVE  c = d
      <4>1. \A i, j \in DOMAIN active :
              id \in Ids(active[i].records) /\ id \in Ids(active[j].records) => i = j
        BY <2>1 DEF ClipsApart, Apart
      <4>2. \A i, j \in DOMAIN queue :
              id \in Ids(queue[i].records) /\ id \in Ids(queue[j].records) => i = j
        BY <2>1 DEF ClipsApart, Apart
      <4>3. \A i \in DOMAIN active : id \in Ids(active[i].records) => id \in AllIds(active)
        BY DEF AllIds
      <4>4. \A i \in DOMAIN queue : id \in Ids(queue[i].records) => id \in AllIds(queue)
        BY DEF AllIds
      <4>5. /\ ~ (id \in AllIds(active) /\ id \in AllIds(queue))
            /\ ~ (id \in AllIds(active) /\ id \in Ids(job.records))
            /\ ~ (id \in AllIds(queue) /\ id \in Ids(job.records))
        BY <2>1 DEF ClipsApart
      <4> QED
        BY <3>1, <4>1, <4>2, <4>3, <4>4, <4>5 DEF Clips
    <3> DEFINE S == {c \in Clips : id \in Ids(c.records)}
    <3>2. \A c, d \in S : c = d
      BY <3>1
    <3> HIDE DEF S
    <3>3. Cardinality(S) <= 1
      BY <3>2, AtMostOne
    <3> QED
      BY <3>3 DEF S
  <2>3. ASSUME NEW p \in completedPaths
        PROVE  p.id \notin AllIds(active \o queue)
    <3>1. p.id \notin AllIds(active) /\ p.id \notin AllIds(queue)
      BY <2>1 DEF ClipsApart, CompletedIds
    <3>2. /\ active \in Seq(LiveClips) /\ queue \in Seq(LiveClips)
          /\ Len(active) \in Nat /\ DOMAIN active = 1 .. Len(active)
          /\ Len(queue) \in Nat /\ DOMAIN queue = 1 .. Len(queue)
      BY CollectingType DEF TypeOK
    <3>3. /\ DOMAIN (active \o queue) = 1 .. Len(active) + Len(queue)
          /\ \A k \in 1 .. Len(active) + Len(queue) :
               (active \o queue)[k] = IF k <= Len(active) THEN active[k]
                                                          ELSE queue[k - Len(active)]
      BY <3>2, ConcatProperties, LenProperties
    <3>4. \A k \in DOMAIN (active \o queue) :
            \/ k \in DOMAIN active /\ (active \o queue)[k] = active[k]
            \/ k - Len(active) \in DOMAIN queue
               /\ (active \o queue)[k] = queue[k - Len(active)]
      BY <3>2, <3>3
    <3> QED
      BY <3>1, <3>4 DEF AllIds
  <2> QED
    BY <2>2, <2>3 DEF NoSecondMembership
<1> QED
  BY <1>1, MemberAlways, PTL

\* A record that leaves the writer with a clip names a file that exists and stays: no
\* clip finalized later replaces it, because the file is named after an event that is
\* complete and so in no clip still to be encoded.
THEOREM PublishedClipsExist ==
  ASSUME ~ (Share /\ Resubmit)
  PROVE  Spec => []PublishedClipExists
<1>1. TypeOK /\ MemberInv => PublishedClipExists
  <2> SUFFICES ASSUME MemberInv, NEW i \in DOMAIN published, published[i].path # 0
               PROVE  published[i].path \in files
    BY DEF PublishedClipExists
  <2> DEFINE r == [id |-> published[i].path, path |-> published[i].path]
  <2>1. r \in completedPaths /\ r.path = published[i].path
    BY DEF MemberInv, PathsOwned, OwnedIn, Owned
  <2> HIDE DEF r
  <2> QED
    BY <2>1 DEF MemberInv, PathsOwned
<1> QED
  BY <1>1, MemberAlways, PTL

-----------------------------------------------------------------------------
(* Where an event is.  Every list, and every clip, holds an event once, and *)
(* no two hold the same one: each step moves events from one of the seven   *)
(* to the next.  Only a failed encoder loses any, and only a second         *)
(* handing-in puts an event in two.                                         *)

Waiting == {pending[k] : k \in DOMAIN pending}

\* The encoder's and the published records.
Settled == Ids(completed) \cup Ids(returning) \cup Ids(published)

Known ==
  Waiting \cup AllIds(active) \cup AllIds(queue) \cup Ids(job.records) \cup Settled

\* Between calls the call's own lists are empty; the encoder stops when it has failed or
\* the caller waits for it, and finish() then leaves nothing collecting.
CallInv ==
  /\ callerPc \in {"idle", "join", "closed"} => pending = << >>
  /\ callerPc = "submit" /\ after \in {"reset", "finish"} => pending = << >>
  /\ callerPc \in {"idle", "closed"} => returning = << >>
  /\ callerPc = "submit" /\ after = "finish" => \A i \in DOMAIN active : active[i].post = 0
  /\ callerPc \in {"join", "closed"} => active = << >>
  /\ ~ workerError =>
       /\ ~ Encoding => job = NoClip
       /\ stopRequested => callerPc \in {"join", "closed", "destroying", "destroyed"}
       /\ workerPc = "done" => stopRequested /\ queue = << >>
       /\ encodingIds \subseteq AllIds(queue) \cup Ids(job.records)
  /\ callerPc = "closed" => ~ workerError /\ workerPc = "done" /\ completed = << >>

\* Nothing is lost.
AllKnown ==
  /\ \A id \in Known : id < nextId
  /\ ~ workerError => 1 .. nextId - 1 \subseteq Known

NoRepeat(records) ==
  \A i, k \in DOMAIN records : i # k => records[i].id # records[k].id

OnceIn(clips) == Apart(clips) /\ \A i \in DOMAIN clips : NoRepeat(clips[i].records)

\* Nothing is held twice.
HeldOnce ==
  /\ \A i, k \in DOMAIN pending : i # k => pending[i] # pending[k]
  /\ OnceIn(active) /\ OnceIn(queue) /\ NoRepeat(job.records)
  /\ NoRepeat(completed) /\ NoRepeat(returning) /\ NoRepeat(published)
  /\ Waiting \cap (AllIds(active) \cup AllIds(queue) \cup Ids(job.records) \cup Settled) = {}
  /\ AllIds(active) \cap (AllIds(queue) \cup Ids(job.records) \cup Settled) = {}
  /\ AllIds(queue) \cap (Ids(job.records) \cup Settled) = {}
  /\ Ids(job.records) \cap Settled = {}
  /\ Ids(completed) \cap (Ids(returning) \cup Ids(published)) = {}
  /\ Ids(returning) \cap Ids(published) = {}

OnceInv == CallInv /\ AllKnown /\ (~ workerError /\ ~ resubmitted => HeldOnce)

LEMMA SameOnce ==
  ASSUME NEW s, NEW t, DOMAIN t = DOMAIN s,
         \A i \in DOMAIN s : t[i].records = s[i].records
  PROVE  AllIds(t) = AllIds(s) /\ (OnceIn(s) => OnceIn(t))
<1>1. AllIds(t) = AllIds(s) /\ (Apart(s) => Apart(t))
  BY SameIds
<1> QED
  BY <1>1 DEF OnceIn

LEMMA RemoveAtOnce ==
  ASSUME NEW S, NEW s \in Seq(S), NEW i \in 1 .. Len(s), OnceIn(s)
  PROVE  /\ OnceIn(RemoveAt(s, i)) /\ NoRepeat(s[i].records)
         /\ AllIds(RemoveAt(s, i)) \cap Ids(s[i].records) = {}
<1>1. i \in DOMAIN s
  BY LenProperties
<1> QED
  BY <1>1, RemoveAtIds DEF OnceIn

LEMMA AppendOnce ==
  ASSUME NEW S, NEW s \in Seq(S), NEW c \in S, OnceIn(s), NoRepeat(c.records),
         AllIds(s) \cap Ids(c.records) = {}
  PROVE  OnceIn(Append(s, c))
<1>1. /\ DOMAIN Append(s, c) = DOMAIN s \cup {Len(s) + 1}
      /\ \A k \in DOMAIN s : Append(s, c)[k] = s[k]
      /\ Append(s, c)[Len(s) + 1] = c
  BY AppendProperties, LenProperties
<1>2. Apart(Append(s, c))
  BY AppendIds DEF OnceIn
<1> QED
  BY <1>1, <1>2 DEF OnceIn

LEMMA TailOnce ==
  ASSUME NEW S, NEW s \in Seq(S), s # << >>, OnceIn(s)
  PROVE  /\ OnceIn(Tail(s)) /\ NoRepeat(Head(s).records)
         /\ AllIds(Tail(s)) \cap Ids(Head(s).records) = {}
<1>1. /\ Len(s) \in Nat /\ DOMAIN s = 1 .. Len(s) /\ 1 \in DOMAIN s /\ Head(s) = s[1]
      /\ DOMAIN Tail(s) = 1 .. Len(s) - 1
      /\ \A k \in 1 .. Len(s) - 1 : Tail(s)[k] = s[k + 1]
  BY LenProperties, EmptySeq, HeadTailProperties
<1>2. \A k \in DOMAIN Tail(s) : k + 1 \in DOMAIN s /\ Tail(s)[k] = s[k + 1]
  BY <1>1
<1>3. Apart(Tail(s)) /\ AllIds(Tail(s)) \cap Ids(Head(s).records) = {}
  BY TailIds DEF OnceIn
<1> QED
  BY <1>1, <1>2, <1>3 DEF OnceIn

LEMMA AppendRecord ==
  ASSUME NEW S, NEW r \in Seq(S), NEW m \in S
  PROVE  /\ Ids(Append(r, m)) = Ids(r) \cup {m.id}
         /\ NoRepeat(r) /\ m.id \notin Ids(r) => NoRepeat(Append(r, m))
<1>1. /\ Len(r) \in Nat /\ DOMAIN r = 1 .. Len(r)
      /\ DOMAIN Append(r, m) = DOMAIN r \cup {Len(r) + 1}
      /\ \A k \in DOMAIN r : Append(r, m)[k] = r[k]
      /\ Append(r, m)[Len(r) + 1] = m
  BY AppendProperties, LenProperties
<1> QED
  BY <1>1 DEF Ids, NoRepeat

LEMMA ConcatRecords ==
  ASSUME NEW S, NEW r \in Seq(S), NEW s \in Seq(S)
  PROVE  /\ Ids(r \o s) = Ids(r) \cup Ids(s)
         /\ NoRepeat(r) /\ NoRepeat(s) /\ Ids(r) \cap Ids(s) = {} => NoRepeat(r \o s)
<1> DEFINE t == r \o s
           n == Len(r)
<1>1. /\ n \in Nat /\ DOMAIN r = 1 .. n
      /\ Len(s) \in Nat /\ DOMAIN s = 1 .. Len(s)
      /\ DOMAIN t = 1 .. n + Len(s)
      /\ \A k \in 1 .. n + Len(s) : t[k] = IF k <= n THEN r[k] ELSE s[k - n]
  BY ConcatProperties, LenProperties
<1> HIDE DEF t, n
<1>2. \A k \in DOMAIN t : \/ k \in DOMAIN r /\ t[k] = r[k]
                          \/ k \notin DOMAIN r /\ k - n \in DOMAIN s /\ t[k] = s[k - n]
  BY <1>1
<1>3. /\ \A k \in DOMAIN r : k \in DOMAIN t /\ t[k] = r[k]
      /\ \A k \in DOMAIN s : k + n \in DOMAIN t /\ t[k + n] = s[k]
  BY <1>1
<1>4. \A i, k \in DOMAIN t : i # k => i - n # k - n
  BY <1>1
<1>5. Ids(t) = Ids(r) \cup Ids(s)
  BY <1>2, <1>3 DEF Ids
<1>6. ASSUME NoRepeat(r), NoRepeat(s), Ids(r) \cap Ids(s) = {}
      PROVE  NoRepeat(t)
  <2> SUFFICES ASSUME NEW i \in DOMAIN t, NEW k \in DOMAIN t, i # k
               PROVE  t[i].id # t[k].id
    BY DEF NoRepeat
  <2>1. \A a \in DOMAIN r, b \in DOMAIN s : r[a].id # s[b].id
    BY <1>6 DEF Ids
  <2>2. CASE i \in DOMAIN r /\ k \in DOMAIN r
    BY <1>3, <1>6, <2>2 DEF NoRepeat
  <2>3. CASE i \notin DOMAIN r /\ k \notin DOMAIN r
    <3>1. /\ i - n \in DOMAIN s /\ k - n \in DOMAIN s /\ i - n # k - n
          /\ t[i] = s[i - n] /\ t[k] = s[k - n]
      BY <1>2, <1>4, <2>3
    <3> QED
      BY <1>6, <3>1 DEF NoRepeat
  <2>4. CASE i \in DOMAIN r /\ k \notin DOMAIN r
    BY <1>2, <1>3, <2>1, <2>4
  <2>5. CASE i \notin DOMAIN r /\ k \in DOMAIN r
    BY <1>2, <1>3, <2>1, <2>5
  <2> QED
    BY <2>2, <2>3, <2>4, <2>5
<1> QED
  BY <1>5, <1>6 DEF t

LEMMA SameRecords ==
  \A records, path :
    /\ Ids(WithPath(records, path)) = Ids(records)
    /\ NoRepeat(records) => NoRepeat(WithPath(records, path))
BY DEF WithPath, Ids, NoRepeat

LEMMA NoRecords ==
  /\ Ids(<< >>) = {} /\ NoRepeat(<< >>) /\ AllIds(<< >>) = {} /\ OnceIn(<< >>)
  /\ Ids(NoClip.records) = {} /\ NoRepeat(NoClip.records)
BY DEF Ids, NoRepeat, AllIds, OnceIn, Apart, NoClip

LEMMA WaitingTail ==
  ASSUME pending \in Seq(EventIds), pending # << >>, pending' = Tail(pending)
  PROVE  /\ Waiting = Waiting' \cup {Head(pending)}
         /\ (\A i, k \in DOMAIN pending : i # k => pending[i] # pending[k]) =>
              /\ \A i, k \in DOMAIN pending' : i # k => pending'[i] # pending'[k]
              /\ Head(pending) \notin Waiting'
<1>1. /\ Head(pending) = pending[1] /\ 1 \in DOMAIN pending
      /\ DOMAIN pending = 1 .. Len(pending) /\ Len(pending) \in Nat
      /\ DOMAIN pending' = 1 .. Len(pending) - 1
      /\ \A k \in 1 .. Len(pending) - 1 : pending'[k] = pending[k + 1]
  BY HeadTailProperties, EmptySeq, LenProperties
<1>2. /\ \A k \in DOMAIN pending' : /\ k + 1 \in DOMAIN pending /\ k + 1 # 1
                                    /\ pending'[k] = pending[k + 1]
      /\ \A k \in DOMAIN pending : k # 1 => /\ k - 1 \in DOMAIN pending'
                                            /\ pending'[k - 1] = pending[k]
      /\ \A j, k \in DOMAIN pending' : j # k => j + 1 # k + 1
  BY <1>1
<1> QED
  BY <1>1, <1>2 DEF Waiting

LEMMA CallWorker ==
  ASSUME TypeOK, CallInv, Worker
  PROVE  CallInv'
<1> USE DEF sharedVars, programVars, callerVars
<1>1. UNCHANGED <<callerPc, after, pending, active, returning>>
  BY DEF Worker, TakeJob, WorkerStops, RemoveFinal, RenameToFinal, ReportJob, EncodeFails
<1>2. CASE EncodeFails
  <2>1. workerError' /\ callerPc # "closed" /\ UNCHANGED completed
    BY <1>2 DEF EncodeFails, CallInv
  <2> QED
    BY <1>1, <2>1 DEF CallInv
<1>3. CASE TakeJob
  <2>1. queue \in Seq(LiveClips) /\ queue # << >>
    BY <1>3 DEF TakeJob, TypeOK
  <2>2. AllIds(queue) = AllIds(queue') \cup Ids(job'.records)
    BY <1>3, <2>1, TailIds DEF TakeJob
  <2>3. ~ Encoding
    BY <1>3 DEF TakeJob, Encoding
  <2>4. ~ workerError => Ids(job.records) = {}
    BY <2>3, NoRecords DEF CallInv
  <2>5. /\ UNCHANGED <<encodingIds, workerError, stopRequested, completed>>
        /\ workerPc' = "encode" /\ workerPc = "wait"
    BY <1>3 DEF TakeJob
  <2> QED
    BY <1>1, <2>2, <2>4, <2>5 DEF CallInv, Encoding
<1>4. CASE ReportJob
  <2>1. /\ UNCHANGED <<queue, workerError, stopRequested>>
        /\ encodingIds' = encodingIds \ Ids(job.records)
        /\ job' = NoClip /\ workerPc' = "wait" /\ workerPc = "report"
    BY <1>4 DEF ReportJob
  <2> QED
    BY <1>1, <2>1 DEF CallInv, Encoding
<1>5. CASE WorkerStops
  BY <1>1, <1>5 DEF WorkerStops, CallInv, Encoding
<1>6. CASE RemoveFinal \/ RenameToFinal
  BY <1>1, <1>6 DEF RemoveFinal, RenameToFinal, CallInv, Encoding
<1> QED
  BY <1>2, <1>3, <1>4, <1>5, <1>6 DEF Worker

LEMMA CallSubmit ==
  ASSUME TypeOK, CallInv, SubmitClip
  PROVE  CallInv'
<1>1. PICK i \in Due(active) :
        /\ active' = RemoveAt(active, i)
        /\ IF workerError
           THEN callerPc' = "failed" /\ UNCHANGED <<queue, encodingIds>>
           ELSE /\ UNCHANGED callerPc
                /\ \/ UNCHANGED <<queue, encodingIds>>
                   \/ /\ queue' = Append(queue, active[i])
                      /\ encodingIds' = encodingIds \cup Ids(active[i].records)
  BY DEF SubmitClip
<1>2. i \in 1 .. Len(active) /\ active[i] \in LiveClips /\ active \in Seq(LiveClips)
      /\ queue \in Seq(LiveClips)
  BY CollectingType DEF Due, Collecting, TypeOK
<1>3. /\ UNCHANGED <<after, pending, workerError, stopRequested, workerPc, job, completed>>
      /\ callerPc = "submit"
  BY DEF SubmitClip, workerVars
<1>4. ~ workerError => workerPc # "done"
  BY <1>3 DEF CallInv
<1>5. AllIds(Append(queue, active[i])) = AllIds(queue) \cup Ids(active[i].records)
  BY <1>2, AppendIds
<1>6. \A k \in DOMAIN active' : \E j \in DOMAIN active : active'[k] = active[j]
  BY <1>1, <1>2, RemoveAtIds
<1>7. CASE workerError
  BY <1>1, <1>3, <1>7 DEF CallInv
<1>8. CASE ~ workerError
  <2>1. encodingIds' \subseteq AllIds(queue') \cup Ids(job'.records)
    BY <1>1, <1>3, <1>5, <1>8 DEF CallInv
  <2> QED
    BY <1>1, <1>3, <1>4, <1>6, <1>8, <2>1 DEF CallInv, Encoding
<1> QED
  BY <1>7, <1>8

LEMMA CallAdmit ==
  ASSUME TypeOK, CallInv, Admit
  PROVE  CallInv'
<1>1. PICK id \in EventIds : Admitting(id)
  BY DEF Admit, AdmitDuplicate, AdmitShared, AdmitRefused, AdmitOnDisk, AdmitNew
<1>2. /\ UNCHANGED <<queue, encodingIds, workerError, stopRequested, workerPc, job>>
      /\ callerPc = "admit" /\ after' = "records"
  BY <1>1 DEF Admitting, workerVars
<1>3. callerPc' \in {"records", "submit"}
  BY DEF Admit, AdmitDuplicate, AdmitShared, AdmitRefused, AdmitOnDisk, AdmitNew
<1> QED
  BY <1>2, <1>3 DEF CallInv, Encoding

LEMMA CallFlush ==
  ASSUME TypeOK, CallInv, Reset \/ Finish
  PROVE  CallInv'
<1>1. /\ callerPc = "idle" /\ callerPc' = "submit" /\ after' \in {"reset", "finish"}
      /\ active' = Flushed
      /\ UNCHANGED <<pending, queue, encodingIds, workerError, stopRequested, workerPc, job>>
  BY DEF Reset, Finish, workerVars
<1>2. \A i \in DOMAIN Flushed : Flushed[i].post = 0
  <2>1. \A i \in DOMAIN active : active[i] \in ClipShape
    BY CollectingType DEF Held, Collecting
  <2> QED
    BY <2>1 DEF Flushed, ClipShape
<1> QED
  BY <1>1, <1>2 DEF CallInv, Encoding

LEMMA CallCaller ==
  ASSUME TypeOK, CallInv,
         \/ Rejoin \/ ToRecords \/ LookUpCompleted \/ EndProcess \/ EndReset
         \/ RequestStop \/ Joined \/ Destroyed \/ Destroy
  PROVE  CallInv'
<1> USE DEF sharedVars, programVars, callerVars, workerVars
<1>1. UNCHANGED <<active, queue, encodingIds, workerError, workerPc, job>>
  BY DEF Rejoin, ToRecords, LookUpCompleted, EndProcess, EndReset, RequestStop,
     Joined, Destroyed, Destroy
<1>2. CASE Rejoin \/ ToRecords \/ LookUpCompleted
  <2>1. /\ callerPc \in {"submit", "records"} /\ UNCHANGED stopRequested
        /\ callerPc' \in {"records", "admit", "failed"}
    BY <1>2 DEF Rejoin, ToRecords, LookUpCompleted, Submitted
  <2>2. callerPc' = "failed" => workerError
    BY <1>2 DEF Rejoin, ToRecords, LookUpCompleted, Submitted
  <2> QED
    BY <1>1, <2>1, <2>2 DEF CallInv, Encoding
<1>3. CASE EndProcess \/ EndReset
  <2>1. /\ callerPc \in {"submit", "records"} /\ pending = << >>
        /\ UNCHANGED <<pending, stopRequested>>
    BY <1>3 DEF EndProcess, EndReset, Submitted, CallInv
  <2>2. \/ callerPc' = "failed" /\ workerError
        \/ callerPc' = "idle" /\ returning' = << >>
    BY <1>3 DEF EndProcess, EndReset, ReturnTo
  <2> QED
    BY <1>1, <2>1, <2>2 DEF CallInv, Encoding
<1>4. CASE RequestStop
  <2>1. active = << >>
    <3>1. \A i \in DOMAIN active : FALSE
      BY <1>4 DEF RequestStop, Submitted, Due, CallInv
    <3>2. active \in Seq(LiveClips)
      BY DEF TypeOK
    <3>3. Len(active) \in Nat /\ DOMAIN active = 1 .. Len(active)
      BY <3>2, LenProperties
    <3>4. Len(active) = 0
      BY <3>1, <3>3
    <3> QED
      BY <3>2, <3>4, EmptySeq
  <2>2. pending = << >> /\ UNCHANGED pending /\ callerPc' = "join" /\ stopRequested'
    BY <1>4 DEF RequestStop, Submitted, CallInv
  <2> QED
    BY <1>1, <2>1, <2>2 DEF CallInv, Encoding
<1>5. CASE Joined
  <2>1. /\ callerPc = "join" /\ workerPc = "done" /\ UNCHANGED <<pending, stopRequested>>
    BY <1>5 DEF Joined
  <2>2. \/ callerPc' = "failed" /\ workerError
        \/ callerPc' = "closed" /\ returning' = << >> /\ completed' = << >> /\ ~ workerError
    BY <1>5 DEF Joined, ReturnTo
  <2> QED
    BY <1>1, <2>1, <2>2 DEF CallInv, Encoding
<1>6. CASE Destroy \/ Destroyed
  <2>1. callerPc' \in {"destroying", "destroyed"}
    BY <1>6 DEF Destroy, Destroyed
  <2>2. stopRequested => stopRequested'
    BY <1>6 DEF Destroy, Destroyed
  <2> QED
    BY <1>1, <2>1, <2>2 DEF CallInv, Encoding
<1> QED
  BY <1>2, <1>3, <1>4, <1>5, <1>6

LEMMA CallProcess ==
  ASSUME TypeOK, CallInv, NEW batch \in Batches, NEW skipped \in 0 .. 1,
         NEW gen \in generation .. generation + 1, Process(batch, skipped, gen)
  PROVE  CallInv'
<1>1. UNCHANGED <<queue, encodingIds, workerError, stopRequested, workerPc, job>>
  BY DEF Process, workerVars
<1>2. callerPc = "idle"
  BY DEF Process
<1>3. \/ callerPc' = "failed" /\ workerError
      \/ callerPc' = "submit" /\ after' \in {"rejoin", "records"} /\ ~ workerError
  BY DEF Process
<1> QED
  BY <1>1, <1>2, <1>3 DEF CallInv, Encoding

LEMMA CallStep == TypeOK /\ CallInv /\ [Next]_vars => CallInv'
<1> SUFFICES ASSUME TypeOK, CallInv, [Next]_vars PROVE CallInv'
  OBVIOUS
<1>1. CASE Worker
  BY <1>1, CallWorker
<1>2. CASE InCall
  BY <1>2, CallSubmit, CallAdmit, CallCaller DEF InCall
<1>3. CASE Call
  BY <1>3, CallFlush, CallProcess, CallCaller DEF Call
<1>4. CASE UNCHANGED vars
  BY <1>4 DEF vars, callerVars, sharedVars, workerVars, CallInv, Encoding
<1> QED
  BY <1>1, <1>2, <1>3, <1>4 DEF Next, Over

LEMMA KnownType ==
  ASSUME TypeOK
  PROVE  Known \subseteq EventIds
<1>1. \A i \in DOMAIN active : active[i].records \in Seq(Members)
  BY CollectingType DEF Collecting, LiveClips, ClipShape
<1>2. \A i \in DOMAIN queue : queue[i].records \in Seq(Members)
  BY CollectingType DEF Held, ClipShape
<1>3. AllIds(active) \subseteq EventIds /\ AllIds(queue) \subseteq EventIds
  BY <1>1, <1>2, IdsType DEF AllIds
<1>4. Ids(job.records) \subseteq EventIds
  BY IdsType DEF TypeOK, ClipShape
<1>5. \A r \in Seq(Records) : Ids(r) \subseteq EventIds
  <2>1. ASSUME NEW r \in Seq(Records), NEW i \in DOMAIN r
        PROVE  r[i].id \in EventIds
    <3>1. r[i] \in Records
      BY <2>1, ElementOfSeq, LenProperties
    <3> QED
      BY <3>1 DEF Records
  <2> QED
    BY <2>1 DEF Ids
<1>6. Waiting \subseteq EventIds
  BY ElementOfSeq, LenProperties DEF Waiting, TypeOK
<1> QED
  BY <1>3, <1>4, <1>5, <1>6 DEF Known, Settled, TypeOK

\* What CallInv leaves to show.
Placed == AllKnown /\ (~ workerError /\ ~ resubmitted => HeldOnce)

LEMMA PlacedProcess ==
  ASSUME TypeOK, OnceInv, NEW batch \in Batches, NEW skipped \in 0 .. 1,
         NEW gen \in generation .. generation + 1, Process(batch, skipped, gen)
  PROVE  Placed'
<1> USE DEF callerVars, sharedVars, workerVars, programVars
<1> DEFINE new == {batch[k] : k \in DOMAIN batch}
<1>1. /\ callerPc = "idle" /\ pending = << >> /\ returning = << >> /\ nextId \in Nat
      /\ UNCHANGED <<queue, job, workerError, published>>
  BY ClipAssumption DEF Process, OnceInv, CallInv, TypeOK
<1>2. Waiting = {} /\ Ids(returning) = {}
  BY <1>1, NoRecords DEF Waiting
<1>3. AllIds(active') = AllIds(active) /\ (OnceIn(active) => OnceIn(active'))
  <2> DEFINE f == [n |-> sequence + skipped + 1, gen |-> gen]
  <2>1. UNCHANGED active \/ active' = Flushed \/ active' = Advanced(f)
    BY DEF Process
  <2>2. \A i \in DOMAIN active : active[i] \in ClipShape
    BY CollectingType DEF Held, Collecting
  <2>3. DOMAIN active' = DOMAIN active
        /\ \A i \in DOMAIN active : active'[i].records = active[i].records
    BY <2>1, <2>2 DEF Flushed, Advanced, ClipShape
  <2> QED
    BY <2>3, SameOnce
<1>4. CASE workerError
  <2>1. UNCHANGED <<pending, returning, completed, nextId>>
    BY <1>4 DEF Process
  <2>2. Known' = Known
    BY <1>1, <1>3, <2>1 DEF Known, Waiting, Settled
  <2> QED
    BY <1>1, <1>4, <2>1, <2>2 DEF OnceInv, AllKnown, Placed
<1>5. CASE ~ workerError
  <2>1. /\ pending' = batch /\ returning' = completed /\ completed' = << >>
        /\ nextId' = IF batch # << >> /\ Last(batch) >= nextId
                     THEN Last(batch) + 1 ELSE nextId
        /\ resubmitted' = (resubmitted \/ \E i \in DOMAIN batch : batch[i] < nextId)
    BY <1>5 DEF Process
  <2>2. Waiting' = new
    BY <2>1 DEF Waiting
  <2>3. Settled' = Settled /\ Ids(returning') = Ids(completed) /\ Ids(completed') = {}
    BY <1>1, <1>2, <2>1, NoRecords DEF Settled
  <2>4. Known' = Known \cup new
    BY <1>1, <1>2, <1>3, <2>2, <2>3 DEF Known
  <2>5. CASE \E k \in 0 .. MaxPerFrame : batch = [i \in 1 .. k |-> nextId + i - 1]
    <3>1. PICK k \in 0 .. MaxPerFrame : batch = [i \in 1 .. k |-> nextId + i - 1]
      BY <2>5
    <3>2. k \in Nat
      BY ClipAssumption
    <3>3. batch \in Seq(Int) /\ Len(batch) = k
      <4>1. batch \in [1 .. k -> Int]
        BY <1>1, <3>1, <3>2
      <4> QED
        BY <3>2, <4>1, FunctionIsSeq
    <3>4. nextId' = nextId + k
      <4>1. CASE k = 0
        <5>1. batch = << >>
          BY <3>3, <4>1, EmptySeq
        <5> QED
          BY <1>1, <2>1, <4>1, <5>1
      <4>2. CASE k # 0
        <5>1. batch # << >> /\ k \in 1 .. k
          BY <3>2, <3>3, <4>2, EmptySeq
        <5>2. batch[k] = nextId + k - 1
          BY <3>1, <5>1
        <5>3. Last(batch) = nextId + k - 1
          BY <3>3, <5>2 DEF Last
        <5> QED
          BY <1>1, <2>1, <3>2, <4>2, <5>1, <5>3
      <4> QED
        BY <4>1, <4>2
    <3>5. new = nextId .. nextId + k - 1
      <4>1. new \subseteq nextId .. nextId + k - 1
        BY <1>1, <3>1, <3>2
      <4>2. ASSUME NEW id \in nextId .. nextId + k - 1
            PROVE  id \in new
        <5>1. id - nextId + 1 \in DOMAIN batch /\ batch[id - nextId + 1] = id
          BY <1>1, <3>1, <3>2
        <5> QED
          BY <5>1
      <4> QED
        BY <4>1, <4>2
    <3> HIDE DEF new
    <3>6. Known \subseteq Int
      BY KnownType DEF EventIds
    <3>7. AllKnown'
      BY <1>1, <1>5, <2>4, <3>2, <3>4, <3>5, <3>6 DEF OnceInv, AllKnown
    <3>8. \A i, j \in DOMAIN pending' : i # j => pending'[i] # pending'[j]
      BY <1>1, <2>1, <3>1, <3>2
    <3>9. \A id \in Known : id \notin new
      BY <1>1, <3>2, <3>5, <3>6 DEF OnceInv, AllKnown
    <3>10. ~ resubmitted => HeldOnce'
      BY <1>1, <1>3, <1>5, <2>1, <2>2, <2>3, <3>8, <3>9, NoRecords
         DEF HeldOnce, OnceInv, Known, Settled
    <3> QED
      BY <1>1, <2>1, <3>7, <3>10 DEF Placed
  <2>6. CASE \E id \in 1 .. nextId - 1 : batch = <<id>>
    <3>1. PICK id \in 1 .. nextId - 1 : batch = <<id>>
      BY <2>6
    <3>2. /\ DOMAIN batch = {1} /\ batch[1] = id /\ Last(batch) = id /\ id < nextId
          /\ id \in Int
      BY <1>1, <3>1 DEF Last
    <3>3. new = {id} /\ nextId' = nextId
      BY <1>1, <2>1, <3>2
    <3>4. resubmitted'
      <4>1. \E i \in DOMAIN batch : batch[i] < nextId
        BY <3>2
      <4> QED
        BY <2>1, <4>1
    <3> HIDE DEF new
    <3> QED
      BY <1>1, <1>5, <2>4, <3>2, <3>3, <3>4 DEF OnceInv, AllKnown, Placed
  <2> QED
    BY <2>5, <2>6 DEF Batches
<1> QED
  BY <1>4, <1>5

LEMMA PlacedSubmit ==
  ASSUME TypeOK, OnceInv, SubmitClip
  PROVE  Placed'
<1>1. PICK i \in Due(active) :
        /\ active' = RemoveAt(active, i)
        /\ IF workerError
           THEN UNCHANGED <<returning, queue>>
           ELSE IF Len(queue) = QueueCapacity
           THEN Refuse(active[i].records) /\ UNCHANGED queue
           ELSE queue' = Append(queue, active[i]) /\ UNCHANGED returning
  BY DEF SubmitClip
<1> DEFINE records == active[i].records
           mine == Ids(records)
           lost == WithPath(records, 0)
<1>2. /\ i \in 1 .. Len(active) /\ active[i] \in LiveClips /\ active \in Seq(LiveClips)
      /\ queue \in Seq(LiveClips) /\ returning \in Seq(Records)
      /\ records \in Seq(Members)
  <2>1. i \in 1 .. Len(active) /\ active[i] \in LiveClips
    BY CollectingType DEF Due, Collecting
  <2> QED
    BY <2>1 DEF TypeOK, LiveClips, ClipShape
<1>3. lost \in Seq(Records)
  BY <1>2, WithPathType, ClipAssumption DEF Paths
<1>4. /\ UNCHANGED <<pending, job, completed, published, workerError, nextId, resubmitted>>
  BY DEF SubmitClip, workerVars, programVars
<1>5. AllIds(active) = AllIds(active') \cup mine
  BY <1>1, <1>2, RemoveAtIds
<1>6. HeldOnce => OnceIn(active') /\ NoRepeat(records) /\ AllIds(active') \cap mine = {}
  BY <1>1, <1>2, RemoveAtOnce DEF HeldOnce
<1>7. Ids(lost) = mine /\ (NoRepeat(records) => NoRepeat(lost))
  BY SameRecords
<1>8. /\ Ids(returning \o lost) = Ids(returning) \cup mine
      /\ NoRepeat(returning) /\ NoRepeat(lost) /\ Ids(returning) \cap mine = {}
           => NoRepeat(returning \o lost)
  BY <1>2, <1>3, <1>7, ConcatRecords
<1>9. AllIds(Append(queue, active[i])) = AllIds(queue) \cup mine
  BY <1>2, AppendIds
<1>10. OnceIn(queue) /\ NoRepeat(records) /\ AllIds(queue) \cap mine = {}
         => OnceIn(Append(queue, active[i]))
  BY <1>2, AppendOnce
<1>11. Waiting' = Waiting
  BY <1>4 DEF Waiting
<1>12. \/ workerError /\ UNCHANGED <<returning, queue>>
       \/ returning' = returning \o lost /\ UNCHANGED queue
       \/ queue' = Append(queue, active[i]) /\ UNCHANGED returning
  BY <1>1 DEF Refuse
<1> HIDE DEF records, mine, lost
<1>13. CASE workerError /\ UNCHANGED <<returning, queue>>
  <2>1. Known' \subseteq Known
    BY <1>4, <1>5, <1>11, <1>13 DEF Known, Settled
  <2> QED
    BY <1>4, <1>13, <2>1 DEF OnceInv, AllKnown, Placed
<1>14. CASE returning' = returning \o lost /\ UNCHANGED queue
  <2>1. Known' = Known
    BY <1>4, <1>5, <1>8, <1>11, <1>14 DEF Known, Settled
  <2>2. HeldOnce => HeldOnce'
    BY <1>4, <1>5, <1>6, <1>7, <1>8, <1>11, <1>14 DEF HeldOnce, Settled
  <2> QED
    BY <1>4, <2>1, <2>2 DEF OnceInv, AllKnown, Placed
<1>15. CASE queue' = Append(queue, active[i]) /\ UNCHANGED returning
  <2>1. Known' = Known
    BY <1>4, <1>5, <1>9, <1>11, <1>15 DEF Known, Settled
  <2>2. HeldOnce => HeldOnce'
    BY <1>4, <1>5, <1>6, <1>9, <1>10, <1>11, <1>15 DEF HeldOnce, Settled
  <2> QED
    BY <1>4, <2>1, <2>2 DEF OnceInv, AllKnown, Placed
<1> QED
  BY <1>12, <1>13, <1>14, <1>15

\* The head of the list is returned.
LEMMA PlacedReturned ==
  ASSUME TypeOK, OnceInv, pending # << >>, pending' = Tail(pending), NEW p \in Records,
         p.id = Head(pending), returning' = Append(returning, p),
         UNCHANGED <<active, queue, job, completed, published, workerError, nextId,
                     resubmitted>>
  PROVE  Placed'
<1>1. /\ Waiting = Waiting' \cup {p.id}
      /\ HeldOnce => /\ \A i, k \in DOMAIN pending' : i # k => pending'[i] # pending'[k]
                     /\ p.id \notin Waiting'
  BY WaitingTail DEF TypeOK, HeldOnce
<1>2. /\ Ids(returning') = Ids(returning) \cup {p.id}
      /\ NoRepeat(returning) /\ p.id \notin Ids(returning) => NoRepeat(returning')
  BY AppendRecord DEF TypeOK
<1>3. Known' = Known
  BY <1>1, <1>2 DEF Known, Settled
<1>4. HeldOnce => HeldOnce'
  BY <1>1, <1>2 DEF HeldOnce, Settled
<1> QED
  BY <1>3, <1>4 DEF OnceInv, AllKnown, Placed

LEMMA PlacedLookUp ==
  ASSUME TypeOK, OnceInv, LookUpCompleted
  PROVE  Placed'
<1>1. UNCHANGED <<active, queue, job, completed, published, workerError, nextId, resubmitted>>
  BY DEF LookUpCompleted, workerVars, programVars
<1>2. CASE UNCHANGED <<pending, returning>>
  <2>1. Known' = Known /\ (HeldOnce => HeldOnce')
    BY <1>1, <1>2 DEF Known, Settled, Waiting, HeldOnce
  <2> QED
    BY <1>1, <2>1 DEF OnceInv, AllKnown, Placed
<1>3. CASE ~ UNCHANGED <<pending, returning>>
  <2>1. /\ pending # << >> /\ pending' = Tail(pending)
        /\ \E p \in completedPaths : p.id = Head(pending) /\ returning' = Append(returning, p)
    BY <1>3 DEF LookUpCompleted
  <2>2. completedPaths \subseteq Records
    BY DEF TypeOK
  <2> QED
    BY <1>1, <2>1, <2>2, PlacedReturned
<1> QED
  BY <1>2, <1>3

LEMMA PlacedAdmit ==
  ASSUME TypeOK, OnceInv, Admit
  PROVE  Placed'
<1>1. PICK id \in EventIds : Admitting(id)
  BY DEF Admit, AdmitDuplicate, AdmitShared, AdmitRefused, AdmitOnDisk, AdmitNew
<1>2. /\ UNCHANGED <<queue, job, completed, published, workerError, nextId, resubmitted>>
      /\ pending # << >> /\ pending' = Tail(pending) /\ id = Head(pending)
  BY <1>1 DEF Admitting, workerVars, programVars, TypeOK
<1>3. \A e : Admitting(e) => e = id
  BY <1>2 DEF Admitting
<1>4. /\ Waiting = Waiting' \cup {id}
      /\ HeldOnce => /\ \A i, k \in DOMAIN pending' : i # k => pending'[i] # pending'[k]
                     /\ id \notin Waiting'
  BY <1>2, WaitingTail DEF TypeOK, HeldOnce
<1>5. CASE AdmitRefused \/ AdmitOnDisk
  <2> DEFINE a == [id |-> id, path |-> 0]
             b == [id |-> id, path |-> id]
  <2>1. /\ a \in Records /\ b \in Records /\ a.id = id /\ b.id = id
    BY ClipAssumption DEF Records, Paths, EventIds
  <2>2. /\ UNCHANGED active
        /\ returning' = Append(returning, a) \/ returning' = Append(returning, b)
    BY <1>3, <1>5 DEF AdmitRefused, AdmitOnDisk
  <2> HIDE DEF a, b
  <2> QED
    BY <1>2, <2>1, <2>2, PlacedReturned
<1>6. CASE AdmitDuplicate
  <2>1. AlreadyRecording(id) /\ UNCHANGED <<active, returning>>
    BY <1>3, <1>6 DEF AdmitDuplicate
  <2>2. Known' \subseteq Known
    BY <1>2, <1>4, <2>1 DEF Known, Settled
  <2>3. ~ workerError => id \in AllIds(active) \cup AllIds(queue) \cup Ids(job.records)
    BY <2>1 DEF AlreadyRecording, OnceInv, CallInv
  <2>4. ~ workerError => Known' = Known
    BY <1>2, <1>4, <2>1, <2>3 DEF Known, Settled
  <2>5. HeldOnce => HeldOnce'
    BY <1>2, <1>4, <2>1 DEF HeldOnce, Settled
  <2> QED
    BY <1>2, <2>2, <2>4, <2>5 DEF OnceInv, AllKnown, Placed
<1>7. CASE AdmitShared \/ AdmitNew
  <2>1. UNCHANGED returning
    BY <1>7 DEF AdmitShared, AdmitNew
  <2>2. Member(id) \in Members /\ Member(id).id = id
    BY MemberType DEF Member
  <2>3. /\ AllIds(active') = AllIds(active) \cup {id}
        /\ OnceIn(active) /\ id \notin AllIds(active) => OnceIn(active')
    <3>1. CASE AdmitShared
      <4>1. PICK i \in DOMAIN active :
              active' = [active EXCEPT ![i].records = Append(@, Member(id)), ![i].post = Post]
        BY <1>3, <3>1 DEF AdmitShared, JoinClip
      <4>2. active[i] \in ClipShape /\ active[i].records \in Seq(Members)
        BY CollectingType DEF Collecting, LiveClips, ClipShape
      <4> DEFINE t == active'
      <4>3. /\ DOMAIN t = DOMAIN active
            /\ \A k \in DOMAIN active : k # i => t[k] = active[k]
            /\ t[i].records = Append(active[i].records, Member(id))
        BY <4>1, <4>2 DEF ClipShape
      <4> HIDE DEF t
      <4>4. /\ Ids(Append(active[i].records, Member(id))) = Ids(active[i].records) \cup {id}
            /\ NoRepeat(active[i].records) /\ id \notin Ids(active[i].records)
                 => NoRepeat(Append(active[i].records, Member(id)))
        BY <2>2, <4>2, AppendRecord
      <4>5. Ids(t[i].records) = Ids(active[i].records) \cup {id}
        BY <4>3, <4>4
      <4>6. /\ AllIds(t) = AllIds(active) \cup {id}
            /\ Apart(active) /\ id \notin AllIds(active) => Apart(t)
        BY <4>3, <4>5, JoinIds
      <4>7. id \notin AllIds(active) => id \notin Ids(active[i].records)
        BY DEF AllIds
      <4>8. OnceIn(active) /\ id \notin AllIds(active) => OnceIn(t)
        BY <4>3, <4>4, <4>6, <4>7 DEF OnceIn
      <4> QED
        BY <4>6, <4>8 DEF t
    <3>2. CASE AdmitNew
      <4> DEFINE clip == NewClip(id)
      <4>1. active' = Append(active, clip)
        BY <1>3, <3>2 DEF AdmitNew
      <4>2. clip \in LiveClips /\ clip.records = <<Member(id)>>
        BY NewClipType DEF NewClip
      <4>3. Ids(clip.records) = {id} /\ NoRepeat(clip.records)
        BY <2>2, <4>2 DEF Ids, NoRepeat
      <4>4. active \in Seq(LiveClips)
        BY DEF TypeOK
      <4> HIDE DEF clip
      <4>5. /\ AllIds(Append(active, clip)) = AllIds(active) \cup {id}
            /\ OnceIn(active) /\ id \notin AllIds(active) => OnceIn(Append(active, clip))
        BY <4>2, <4>3, <4>4, AppendIds, AppendOnce
      <4> QED
        BY <4>1, <4>5
    <3> QED
      BY <1>7, <3>1, <3>2
  <2>4. Known' = Known
    BY <1>2, <1>4, <2>1, <2>3 DEF Known, Settled
  <2>5. HeldOnce => HeldOnce'
    BY <1>2, <1>4, <2>1, <2>3 DEF HeldOnce, Settled
  <2> QED
    BY <1>2, <2>4, <2>5 DEF OnceInv, AllKnown, Placed
<1> QED
  BY <1>5, <1>6, <1>7 DEF Admit

LEMMA PlacedFlush ==
  ASSUME TypeOK, OnceInv, Reset \/ Finish
  PROVE  Placed'
<1>1. /\ UNCHANGED <<pending, queue, job, workerError, nextId, published, resubmitted>>
      /\ returning' = completed /\ completed' = << >> /\ returning = << >>
      /\ active' = Flushed
  BY DEF Reset, Finish, workerVars, programVars, OnceInv, CallInv
<1>2. AllIds(active') = AllIds(active) /\ (OnceIn(active) => OnceIn(active'))
  <2>1. \A i \in DOMAIN active : active[i] \in ClipShape
    BY CollectingType DEF Held, Collecting
  <2>2. DOMAIN active' = DOMAIN active
        /\ \A i \in DOMAIN active : active'[i].records = active[i].records
    BY <1>1, <2>1 DEF Flushed, ClipShape
  <2> QED
    BY <2>2, SameOnce
<1>3. Waiting' = Waiting /\ Settled' = Settled
  BY <1>1, NoRecords DEF Waiting, Settled
<1>4. Known' = Known
  BY <1>1, <1>2, <1>3 DEF Known
<1>5. HeldOnce => HeldOnce'
  BY <1>1, <1>2, <1>3, NoRecords DEF HeldOnce
<1> QED
  BY <1>1, <1>4, <1>5 DEF OnceInv, AllKnown, Placed

LEMMA PlacedReturn ==
  ASSUME TypeOK, OnceInv, Rejoin \/ EndProcess \/ EndReset \/ Joined
  PROVE  Placed'
<1>1. UNCHANGED <<pending, active, queue, job, workerError, nextId, resubmitted>>
  BY DEF Rejoin, EndProcess, EndReset, Joined, workerVars, programVars
<1>2. returning \in Seq(Records) /\ completed \in Seq(Records) /\ published \in Seq(Records)
  BY DEF TypeOK
<1>3. /\ Ids(returning \o completed) = Ids(returning) \cup Ids(completed)
      /\ HeldOnce => NoRepeat(returning \o completed)
  BY <1>2, ConcatRecords DEF HeldOnce
<1>4. /\ published \o returning \in Seq(Records)
      /\ Ids(published \o returning) = Ids(published) \cup Ids(returning)
      /\ HeldOnce => NoRepeat(published \o returning)
  BY <1>2, ConcatProperties, ConcatRecords DEF HeldOnce
<1>5. /\ Ids(published \o returning \o completed)
           = Ids(published) \cup Ids(returning) \cup Ids(completed)
      /\ HeldOnce => NoRepeat(published \o returning \o completed)
  <2> DEFINE first == published \o returning
  <2>1. /\ first \in Seq(Records) /\ Ids(first) = Ids(published) \cup Ids(returning)
        /\ HeldOnce => NoRepeat(first)
    BY <1>4
  <2> HIDE DEF first
  <2>2. HeldOnce => Ids(first) \cap Ids(completed) = {} /\ NoRepeat(completed)
    BY <2>1 DEF HeldOnce
  <2>3. /\ Ids(first \o completed) = Ids(published) \cup Ids(returning) \cup Ids(completed)
        /\ HeldOnce => NoRepeat(first \o completed)
    BY <1>2, <2>1, <2>2, ConcatRecords
  <2> QED
    BY <2>3 DEF first
<1>6. Waiting' = Waiting
  BY <1>1 DEF Waiting
<1>7. CASE UNCHANGED <<returning, completed, published>>
  <2>1. Settled' = Settled
    BY <1>7 DEF Settled
  <2> QED
    BY <1>1, <1>6, <1>7, <2>1 DEF OnceInv, AllKnown, Placed, HeldOnce, Known
<1>8. CASE returning' = returning \o completed /\ completed' = << >> /\ UNCHANGED published
  <2>1. Settled' = Settled
    BY <1>3, <1>8, NoRecords DEF Settled
  <2>2. HeldOnce => HeldOnce'
    BY <1>1, <1>3, <1>6, <1>8, <2>1, NoRecords DEF HeldOnce
  <2> QED
    BY <1>1, <1>6, <2>1, <2>2 DEF OnceInv, AllKnown, Placed, Known
<1>9. CASE /\ returning' = << >> /\ completed' = << >>
           /\ published' = published \o returning \o completed
  <2>1. Settled' = Settled
    BY <1>5, <1>9, NoRecords DEF Settled
  <2>2. HeldOnce => HeldOnce'
    BY <1>1, <1>5, <1>6, <1>9, <2>1, NoRecords DEF HeldOnce
  <2> QED
    BY <1>1, <1>6, <2>1, <2>2 DEF OnceInv, AllKnown, Placed, Known
<1>10. CASE workerError /\ returning' = << >> /\ completed' = << >> /\ UNCHANGED published
  <2>1. Settled' \subseteq Settled
    BY <1>10, NoRecords DEF Settled
  <2> QED
    BY <1>1, <1>6, <1>10, <2>1 DEF OnceInv, AllKnown, Placed, Known
<1> QED
  BY <1>7, <1>8, <1>9, <1>10 DEF Rejoin, EndProcess, EndReset, Joined, ReturnTo, programVars

LEMMA PlacedWorker ==
  ASSUME TypeOK, OnceInv, Worker
  PROVE  Placed'
<1> USE DEF sharedVars, programVars, callerVars
<1>1. /\ UNCHANGED <<pending, active, returning, published, nextId, resubmitted>>
      /\ Waiting' = Waiting
  BY DEF Worker, TakeJob, WorkerStops, RemoveFinal, RenameToFinal, ReportJob, EncodeFails,
     Waiting
<1>2. CASE TakeJob
  <2>1. /\ queue \in Seq(LiveClips) /\ queue # << >> /\ job' = Head(queue)
        /\ queue' = Tail(queue) /\ UNCHANGED <<workerError, completed>> /\ ~ Encoding
    BY <1>2 DEF TakeJob, TypeOK, Encoding
  <2>2. AllIds(queue) = AllIds(queue') \cup Ids(job'.records)
    BY <2>1, TailIds
  <2>3. HeldOnce => /\ OnceIn(queue') /\ NoRepeat(job'.records)
                    /\ AllIds(queue') \cap Ids(job'.records) = {}
    BY <2>1, TailOnce DEF HeldOnce
  <2>4. Settled' = Settled
    BY <1>1, <2>1 DEF Settled
  <2>5. ~ workerError => Ids(job.records) = {}
    BY <2>1, NoRecords DEF OnceInv, CallInv
  <2>6. Known' \subseteq Known /\ (~ workerError => Known' = Known)
    BY <1>1, <2>2, <2>4, <2>5 DEF Known
  <2>7. ~ workerError /\ HeldOnce => HeldOnce'
    BY <1>1, <2>1, <2>2, <2>3, <2>4, <2>5 DEF HeldOnce
  <2> QED
    BY <1>1, <2>1, <2>6, <2>7 DEF OnceInv, AllKnown, Placed
<1>3. CASE ReportJob
  <2> DEFINE done == WithPath(job.records, FinalPath)
             mine == Ids(job.records)
  <2>1. /\ completed' = completed \o done /\ job' = NoClip
        /\ UNCHANGED <<queue, workerError>>
    BY <1>3 DEF ReportJob
  <2>2. done \in Seq(Records) /\ completed \in Seq(Records)
    <3>1. job.records \in Seq(Members) /\ Head(job.records) \in Members
      BY <1>3, HeadTailProperties DEF ReportJob, TypeOK, LiveClips, ClipShape
    <3>2. FinalPath \in Paths
      BY <3>1, ClipAssumption DEF FinalPath, Members, Paths, EventIds
    <3> QED
      BY <3>1, <3>2, WithPathType DEF TypeOK
  <2>3. Ids(done) = mine /\ (NoRepeat(job.records) => NoRepeat(done))
    BY SameRecords
  <2> HIDE DEF done, mine
  <2>4. /\ Ids(completed') = Ids(completed) \cup mine
        /\ NoRepeat(completed) /\ NoRepeat(done) /\ Ids(completed) \cap mine = {}
             => NoRepeat(completed')
    BY <2>1, <2>2, <2>3, ConcatRecords
  <2>5. Ids(job'.records) = {} /\ NoRepeat(job'.records) /\ mine = Ids(job.records)
    BY <2>1, NoRecords DEF mine
  <2>6. Settled' = Settled \cup mine
    BY <1>1, <2>4 DEF Settled
  <2>7. Known' = Known
    BY <1>1, <2>1, <2>5, <2>6 DEF Known
  <2>8. HeldOnce => HeldOnce'
    BY <1>1, <2>1, <2>3, <2>4, <2>5, <2>6 DEF HeldOnce, Settled
  <2> QED
    BY <1>1, <2>1, <2>7, <2>8 DEF OnceInv, AllKnown, Placed
<1>4. CASE EncodeFails
  <2>1. workerError' /\ queue' = << >> /\ UNCHANGED <<job, completed>>
    BY <1>4 DEF EncodeFails
  <2>2. Known' \subseteq Known
    BY <1>1, <2>1, NoRecords DEF Known, Settled
  <2> QED
    BY <1>1, <2>1, <2>2 DEF OnceInv, AllKnown, Placed
<1>5. CASE WorkerStops \/ RemoveFinal \/ RenameToFinal
  <2>1. UNCHANGED <<queue, job, completed, workerError>>
    BY <1>5 DEF WorkerStops, RemoveFinal, RenameToFinal
  <2>2. Known' = Known /\ (HeldOnce => HeldOnce')
    BY <1>1, <2>1 DEF Known, Settled, HeldOnce
  <2> QED
    BY <1>1, <2>1, <2>2 DEF OnceInv, AllKnown, Placed
<1> QED
  BY <1>2, <1>3, <1>4, <1>5 DEF Worker

LEMMA OnceStep == TypeOK /\ OnceInv /\ [Next]_vars => OnceInv'
<1> SUFFICES ASSUME TypeOK, OnceInv, [Next]_vars PROVE Placed'
  BY CallStep DEF OnceInv, Placed
<1>1. CASE Worker
  BY <1>1, PlacedWorker
<1>2. CASE SubmitClip \/ Admit \/ LookUpCompleted
  BY <1>2, PlacedSubmit, PlacedAdmit, PlacedLookUp
<1>3. CASE Rejoin \/ EndProcess \/ EndReset \/ Joined \/ Reset \/ Finish
  BY <1>3, PlacedReturn, PlacedFlush
<1>4. CASE \E batch \in Batches, skipped \in 0 .. 1,
              gen \in generation .. generation + 1 : Process(batch, skipped, gen)
  BY <1>4, PlacedProcess
<1>5. CASE ToRecords \/ RequestStop \/ Destroyed \/ Destroy \/ Over \/ UNCHANGED vars
  <2>1. UNCHANGED <<pending, active, queue, job, completed, returning, published,
                    workerError, nextId, resubmitted>>
    BY <1>5 DEF ToRecords, RequestStop, Destroyed, Destroy, Over, vars, callerVars,
       sharedVars, workerVars, programVars
  <2>2. Known' = Known /\ (HeldOnce => HeldOnce')
    BY <2>1 DEF Known, Settled, Waiting, HeldOnce
  <2> QED
    BY <2>1, <2>2 DEF OnceInv, AllKnown, Placed
<1> QED
  BY <1>1, <1>2, <1>3, <1>4, <1>5 DEF Next, InCall, Call

LEMMA OnceInit == Init => OnceInv
<1> SUFFICES ASSUME Init PROVE OnceInv
  OBVIOUS
<1>1. Known = {} /\ nextId = 1
  BY NoRecords DEF Init, Known, Waiting, Settled
<1>2. AllKnown
  BY <1>1 DEF AllKnown
<1>3. CallInv
  BY DEF Init, CallInv, Encoding
<1>4. HeldOnce
  BY NoRecords DEF Init, HeldOnce, Waiting, Settled
<1> QED
  BY <1>2, <1>3, <1>4 DEF OnceInv

\* An event that is known has a place.
LEMMA KnownHasPlace ==
  ASSUME NEW id \in Known
  PROVE  Places(id) # {}
<1>1. CASE id \in Waiting
  <2>1. PICK k \in DOMAIN pending : pending[k] = id
    BY <1>1 DEF Waiting
  <2>2. <<"pending", 0, k>> \in Places(id)
    BY <2>1 DEF Places
  <2> QED
    BY <2>2
<1>2. CASE id \in AllIds(active)
  <2>1. PICK i \in DOMAIN active : id \in Ids(active[i].records)
    BY <1>2 DEF AllIds
  <2>2. PICK k \in At(id, active[i].records) : TRUE
    BY <2>1 DEF Ids, At
  <2>3. <<"active", i, k>> \in Places(id)
    BY <2>2 DEF Places
  <2> QED
    BY <2>3
<1>3. CASE id \in AllIds(queue)
  <2>1. PICK i \in DOMAIN queue : id \in Ids(queue[i].records)
    BY <1>3 DEF AllIds
  <2>2. PICK k \in At(id, queue[i].records) : TRUE
    BY <2>1 DEF Ids, At
  <2>3. <<"queue", i, k>> \in Places(id)
    BY <2>2 DEF Places
  <2> QED
    BY <2>3
<1>4. CASE id \in Ids(job.records)
  <2>1. PICK k \in At(id, job.records) : TRUE
    BY <1>4 DEF Ids, At
  <2>2. <<"job", 0, k>> \in Places(id)
    BY <2>1 DEF Places
  <2> QED
    BY <2>2
<1>5. CASE id \in Settled
  <2>1. \/ \E k \in At(id, completed) : <<"completed", 0, k>> \in Places(id)
        \/ \E k \in At(id, returning) : <<"returning", 0, k>> \in Places(id)
        \/ \E k \in At(id, published) : <<"published", 0, k>> \in Places(id)
    BY <1>5 DEF Settled, Ids, At, Places
  <2> QED
    BY <2>1
<1> QED
  BY <1>1, <1>2, <1>3, <1>4, <1>5 DEF Known

\* An event that is held once has no second place.
LEMMA HeldHasOnePlace ==
  ASSUME HeldOnce, NEW id
  PROVE  \A x, y \in Places(id) : x = y
<1> DEFINE
      listed(name, records) == {<<name, 0, k>> : k \in At(id, records)}
      clipped(name, clips) ==
        UNION {{<<name, i, k>> : k \in At(id, clips[i].records)} : i \in DOMAIN clips}
      w == {<<"pending", 0, k>> : k \in {j \in DOMAIN pending : pending[j] = id}}
      a == clipped("active", active)
      q == clipped("queue", queue)
      j == listed("job", job.records)
      c == listed("completed", completed)
      r == listed("returning", returning)
      p == listed("published", published)
<1>1. Places(id) = w \cup a \cup q \cup j \cup c \cup r \cup p
  BY DEF Places
<1>2. \A records : \A k \in At(id, records) : id \in Ids(records)
  BY DEF At, Ids
<1>3. \A records : NoRepeat(records) => \A k, l \in At(id, records) : k = l
  BY DEF NoRepeat, At
<1>4. \A name, records : NoRepeat(records) =>
        /\ \A x, y \in listed(name, records) : x = y
        /\ \A x \in listed(name, records) : id \in Ids(records)
  BY <1>2, <1>3
<1>5. \A name, clips : OnceIn(clips) =>
        /\ \A x, y \in clipped(name, clips) : x = y
        /\ \A x \in clipped(name, clips) : id \in AllIds(clips)
  <2> SUFFICES ASSUME NEW name, NEW clips, OnceIn(clips)
               PROVE  /\ \A x, y \in clipped(name, clips) : x = y
                      /\ \A x \in clipped(name, clips) : id \in AllIds(clips)
    OBVIOUS
  <2>1. ASSUME NEW i \in DOMAIN clips, NEW l \in DOMAIN clips,
               NEW k \in At(id, clips[i].records), NEW m \in At(id, clips[l].records)
        PROVE  i = l /\ k = m
    <3>1. i = l
      BY <1>2 DEF OnceIn, Apart
    <3> QED
      BY <1>3, <3>1 DEF OnceIn
  <2>2. ASSUME NEW i \in DOMAIN clips, NEW k \in At(id, clips[i].records)
        PROVE  id \in AllIds(clips)
    BY <1>2 DEF AllIds
  <2> QED
    BY <2>1, <2>2
<1>6. /\ \A x, y \in w : x = y
      /\ \A x \in w : id \in Waiting
  BY DEF HeldOnce, Waiting
<1>7. /\ \A x, y \in a : x = y
      /\ \A x \in a : id \in AllIds(active)
  BY <1>5 DEF HeldOnce
<1>8. /\ \A x, y \in q : x = y
      /\ \A x \in q : id \in AllIds(queue)
  BY <1>5 DEF HeldOnce
<1>9. /\ \A x, y \in j : x = y
      /\ \A x \in j : id \in Ids(job.records)
  BY <1>4 DEF HeldOnce
<1>10. /\ \A x, y \in c : x = y
       /\ \A x \in c : id \in Ids(completed)
  BY <1>4 DEF HeldOnce
<1>11. /\ \A x, y \in r : x = y
       /\ \A x \in r : id \in Ids(returning)
  BY <1>4 DEF HeldOnce
<1>12. /\ \A x, y \in p : x = y
       /\ \A x \in p : id \in Ids(published)
  BY <1>4 DEF HeldOnce
<1> HIDE DEF w, a, q, j, c, r, p
<1>13. /\ id \in Waiting => id \notin AllIds(active) \cup AllIds(queue) \cup Ids(job.records)
                                        \cup Settled
       /\ id \in AllIds(active) => id \notin AllIds(queue) \cup Ids(job.records) \cup Settled
       /\ id \in AllIds(queue) => id \notin Ids(job.records) \cup Settled
       /\ id \in Ids(job.records) => id \notin Settled
       /\ id \in Ids(completed) => id \notin Ids(returning) \cup Ids(published)
       /\ id \in Ids(returning) => id \notin Ids(published)
  BY DEF HeldOnce
<1> QED
  BY <1>1, <1>6, <1>7, <1>8, <1>9, <1>10, <1>11, <1>12, <1>13 DEF Settled

\* Until an encode fails, and unless one is handed in again, every event is in exactly one
\* place, however reset(), finish(), a full house and the encoder's reports interleave;
\* and finish() leaves none unpublished.
THEOREM EventsAreKept == Spec => []EveryEventOnce
<1>1. Init => TypeOK /\ PendingBounded /\ OnceInv
  BY TypeInit, CapacityInit, OnceInit
<1>2. TypeOK /\ PendingBounded /\ OnceInv /\ [Next]_vars
        => (TypeOK /\ PendingBounded /\ OnceInv)'
  BY TypeStep, CapacityStep, OnceStep
<1>3. OnceInv => EveryEventOnce
  <2>1. ASSUME OnceInv, ~ workerError, ~ resubmitted, NEW id \in 1 .. nextId - 1
        PROVE  Cardinality(Places(id)) = 1
    <3>1. Places(id) # {}
      BY <2>1, KnownHasPlace DEF OnceInv, AllKnown
    <3>2. \A x, y \in Places(id) : x = y
      BY <2>1, HeldHasOnePlace DEF OnceInv
    <3>3. PICK x : Places(id) = {x}
      BY <3>1, <3>2
    <3> QED
      BY <3>3, FS_Singleton
  <2>2. ASSUME OnceInv, callerPc = "closed"
        PROVE  1 .. nextId - 1 \subseteq Ids(published)
    <3>1. /\ ~ workerError /\ pending = << >> /\ active = << >> /\ queue = << >>
          /\ returning = << >> /\ completed = << >> /\ job = NoClip
      BY <2>2 DEF OnceInv, CallInv, Encoding
    <3>2. Known = Ids(published)
      BY <3>1, NoRecords DEF Known, Waiting, Settled
    <3> QED
      BY <2>2, <3>1, <3>2 DEF OnceInv, AllKnown
  <2> QED
    BY <2>1, <2>2 DEF EveryEventOnce
<1> QED
  BY <1>1, <1>2, <1>3, PTL DEF Spec

-----------------------------------------------------------------------------
(* The counters.  What a step takes from one list of clips or records it    *)
(* adds to the next, or to the counter of what is lost.                     *)

LEMMA SameSize ==
  ASSUME NEW S, NEW T, IsFiniteSet(S), NEW f \in [S -> T],
         \A x, y \in S : f[x] = f[y] => x = y,
         \A z \in T : \E x \in S : f[x] = z
  PROVE  IsFiniteSet(T) /\ Cardinality(T) = Cardinality(S)
<1>1. f \in Injection(S, T)
  BY DEF Injection, IsInjective
<1>2. f \in Surjection(S, T)
  BY DEF Surjection
<1>3. f \in Bijection(S, T)
  BY <1>1, <1>2 DEF Bijection
<1> QED
  BY <1>3, FS_Bijection DEF ExistsBijection

LEMMA DisjointSum ==
  ASSUME NEW S, NEW T, IsFiniteSet(S), IsFiniteSet(T), S \cap T = {}
  PROVE  Cardinality(S \cup T) = Cardinality(S) + Cardinality(T)
<1>1. Cardinality(S \cup T) = Cardinality(S) + Cardinality(T) - Cardinality(S \cap T)
  BY FS_Union
<1>2. Cardinality(S \cap T) = 0
  BY FS_EmptySet
<1>3. Cardinality(S) \in Nat /\ Cardinality(T) \in Nat
  BY FS_CardinalityType
<1> QED
  BY <1>1, <1>2, <1>3

LEMMA SlotsOfOne ==
  ASSUME NEW i, NEW r \in Seq(Members)
  PROVE  IsFiniteSet({i} \X DOMAIN r) /\ Cardinality({i} \X DOMAIN r) = Len(r)
<1>1. Len(r) \in Nat /\ DOMAIN r = 1 .. Len(r)
  BY LenProperties
<1>2. IsFiniteSet(DOMAIN r) /\ Cardinality(DOMAIN r) = Len(r)
  BY <1>1, FS_Interval
<1> DEFINE f == [k \in DOMAIN r |-> <<i, k>>]
<1>3. /\ f \in [DOMAIN r -> {i} \X DOMAIN r]
      /\ \A k, l \in DOMAIN r : f[k] = f[l] => k = l
      /\ \A z \in {i} \X DOMAIN r : \E k \in DOMAIN r : f[k] = z
  OBVIOUS
<1> HIDE DEF f
<1> QED
  BY <1>2, <1>3, SameSize

LEMMA SameEvents ==
  ASSUME NEW s, NEW t, DOMAIN t = DOMAIN s,
         \A i \in DOMAIN s : t[i].records = s[i].records
  PROVE  EventsIn(t) = EventsIn(s)
BY DEF EventsIn

LEMMA AppendEvents ==
  ASSUME NEW s \in Seq(LiveClips), NEW c \in LiveClips
  PROVE  EventsIn(Append(s, c)) = EventsIn(s) + Len(c.records)
<1>1. /\ Len(s) \in Nat /\ DOMAIN s = 1 .. Len(s)
      /\ DOMAIN Append(s, c) = DOMAIN s \cup {Len(s) + 1}
      /\ \A k \in DOMAIN s : Append(s, c)[k] = s[k]
      /\ Append(s, c)[Len(s) + 1] = c
  BY AppendProperties, LenProperties
<1> DEFINE new == {Len(s) + 1} \X DOMAIN c.records
<1>2. Slots(Append(s, c)) = Slots(s) \cup new
  BY <1>1 DEF Slots
<1>3. Slots(s) \cap new = {}
  <2>1. Len(s) + 1 \notin DOMAIN s
    BY <1>1
  <2> QED
    BY <2>1 DEF Slots
<1>4. IsFiniteSet(new) /\ Cardinality(new) = Len(c.records)
  BY SlotsOfOne DEF LiveClips, ClipShape
<1>5. IsFiniteSet(Slots(s)) /\ Cardinality(Slots(s)) \in Nat
  BY SlotsFinite, FS_CardinalityType
<1>6. Len(c.records) \in Nat
  BY LenProperties DEF LiveClips, ClipShape
<1> HIDE DEF new
<1>7. Cardinality(Slots(s) \cup new) = Cardinality(Slots(s)) + Cardinality(new)
  BY <1>3, <1>4, <1>5, DisjointSum
<1> QED
  BY <1>2, <1>4, <1>5, <1>6, <1>7 DEF EventsIn, Slots

LEMMA DropEvents ==
  ASSUME NEW s \in Seq(LiveClips), NEW i \in 1 .. Len(s), NEW t \in Seq(LiveClips),
         Len(t) = Len(s) - 1,
         \A k \in 1 .. Len(s) - 1 : t[k] = IF k < i THEN s[k] ELSE s[k + 1]
  PROVE  EventsIn(s) = EventsIn(t) + Len(s[i].records)
<1> DEFINE from(k) == IF k < i THEN k ELSE k + 1
           to(k) == IF k < i THEN k ELSE k - 1
           mine == {i} \X DOMAIN s[i].records
           others == Slots(s) \ mine
           f == [x \in Slots(t) |-> <<from(x[1]), x[2]>>]
<1>1. /\ Len(s) \in Nat /\ DOMAIN s = 1 .. Len(s) /\ DOMAIN t = 1 .. Len(s) - 1
      /\ s[i] \in LiveClips
  BY LenProperties, ElementOfSeq
<1>2. \A k \in DOMAIN t : t[k] = s[from(k)] /\ from(k) \in DOMAIN s /\ from(k) # i
  BY <1>1
<1>3. \A k, l \in DOMAIN t : from(k) = from(l) => k = l
  BY <1>1
<1>4. \A k \in DOMAIN s : k # i => to(k) \in DOMAIN t /\ from(to(k)) = k
  BY <1>1
<1> HIDE DEF from, to
<1>5. f \in [Slots(t) -> others]
  BY <1>2 DEF Slots
<1>6. \A x, y \in Slots(t) : f[x] = f[y] => x = y
  BY <1>3 DEF Slots
<1>7. \A z \in others : \E x \in Slots(t) : f[x] = z
  <2> SUFFICES ASSUME NEW z \in others PROVE \E x \in Slots(t) : f[x] = z
    OBVIOUS
  <2>a. PICK k \in DOMAIN s : z \in {k} \X DOMAIN s[k].records
    BY DEF Slots
  <2>1. PICK l \in DOMAIN s[k].records : z = <<k, l>>
    BY <2>a
  <2>2. k # i
    BY <2>1
  <2>3. to(k) \in DOMAIN t /\ l \in DOMAIN t[to(k)].records /\ from(to(k)) = k
    BY <1>2, <1>4, <2>1, <2>2
  <2>4. <<to(k), l>> \in Slots(t)
    BY <2>3 DEF Slots
  <2>5. f[<<to(k), l>>] = z
    BY <2>1, <2>3, <2>4
  <2> QED
    BY <2>4, <2>5
<1>8. mine \subseteq Slots(s)
  BY <1>1 DEF Slots
<1>9. IsFiniteSet(mine) /\ Cardinality(mine) = Len(s[i].records) /\ Len(s[i].records) \in Nat
  BY <1>1, SlotsOfOne, LenProperties DEF LiveClips, ClipShape
<1> HIDE DEF f, mine
<1>10. IsFiniteSet(others) /\ Cardinality(others) = Cardinality(Slots(t))
       /\ Cardinality(Slots(t)) \in Nat
  <2> HIDE DEF others
  <2> QED
    BY <1>5, <1>6, <1>7, SlotsFinite, SameSize, FS_CardinalityType
<1>11. Slots(s) = others \cup mine /\ others \cap mine = {}
  BY <1>8
<1> HIDE DEF others
<1>12. Cardinality(Slots(s)) = Cardinality(others) + Cardinality(mine)
  BY <1>9, <1>10, <1>11, DisjointSum
<1> QED
  BY <1>9, <1>10, <1>12 DEF EventsIn, Slots

LEMMA RemoveAtEvents ==
  ASSUME NEW s \in Seq(LiveClips), NEW i \in 1 .. Len(s)
  PROVE  EventsIn(s) = EventsIn(RemoveAt(s, i)) + Len(s[i].records)
BY RemoveAtFacts, DropEvents

LEMMA TailEvents ==
  ASSUME NEW s \in Seq(LiveClips), s # << >>
  PROVE  EventsIn(s) = EventsIn(Tail(s)) + Len(Head(s).records)
<1>1. /\ Len(s) \in Nat /\ 1 \in 1 .. Len(s) /\ Head(s) = s[1]
      /\ Tail(s) \in Seq(LiveClips) /\ Len(Tail(s)) = Len(s) - 1
      /\ \A k \in 1 .. Len(s) - 1 : Tail(s)[k] = s[k + 1]
  BY LenProperties, EmptySeq, HeadTailProperties
<1>2. \A k \in 1 .. Len(s) - 1 : Tail(s)[k] = IF k < 1 THEN s[k] ELSE s[k + 1]
  BY <1>1
<1>3. EventsIn(s) = EventsIn(Tail(s)) + Len(s[1].records)
  BY <1>1, <1>2, DropEvents
<1> QED
  BY <1>1, <1>3

LEMMA JoinEvents ==
  ASSUME NEW s \in Seq(LiveClips), NEW i \in DOMAIN s, NEW t, NEW m \in Members,
         DOMAIN t = DOMAIN s, \A k \in DOMAIN s : k # i => t[k] = s[k],
         t[i].records = Append(s[i].records, m)
  PROVE  EventsIn(t) = EventsIn(s) + 1
<1>1. s[i].records \in Seq(Members)
  BY ElementOfSeq, LenProperties DEF LiveClips, ClipShape
<1>2. /\ DOMAIN t[i].records = DOMAIN s[i].records \cup {Len(s[i].records) + 1}
      /\ Len(s[i].records) + 1 \notin DOMAIN s[i].records
  BY <1>1, AppendProperties, LenProperties
<1> DEFINE x == <<i, Len(s[i].records) + 1>>
<1>a. x \in Slots(t) /\ x \notin Slots(s)
  BY <1>2 DEF Slots
<1>b. Slots(s) \subseteq Slots(t)
  <2>1. \A k \in DOMAIN s : DOMAIN s[k].records \subseteq DOMAIN t[k].records
    BY <1>2
  <2> QED
    BY <2>1 DEF Slots
<1>c. ASSUME NEW z \in Slots(t), z # x
      PROVE  z \in Slots(s)
  <2>1. PICK k \in DOMAIN s : z \in {k} \X DOMAIN t[k].records
    BY DEF Slots
  <2>2. PICK l \in DOMAIN t[k].records : z = <<k, l>>
    BY <2>1
  <2>3. l \in DOMAIN s[k].records
    <3>1. CASE k = i
      BY <1>2, <1>c, <2>2, <3>1
    <3>2. CASE k # i
      BY <2>2, <3>2
    <3> QED
      BY <3>1, <3>2
  <2> QED
    BY <2>2, <2>3 DEF Slots
<1>3. Slots(t) = Slots(s) \cup {x} /\ x \notin Slots(s)
  <2> HIDE DEF x
  <2> QED
    BY <1>a, <1>b, <1>c
<1> HIDE DEF x
<1>4. Cardinality(Slots(t)) = Cardinality(Slots(s)) + 1
  BY <1>3, SlotsFinite, FS_AddElement
<1> QED
  BY <1>4 DEF EventsIn, Slots

LEMMA ClipsOfNone == EventsIn(<< >>) = 0
BY FS_EmptySet DEF EventsIn

LEMMA CliplessFinite ==
  ASSUME NEW r \in Seq(Records)
  PROVE  IsFiniteSet(Clipless(r)) /\ Cardinality(Clipless(r)) \in Nat
<1>1. DOMAIN r = 1 .. Len(r) /\ Len(r) \in Nat
  BY LenProperties
<1>2. IsFiniteSet(DOMAIN r) /\ Clipless(r) \in SUBSET DOMAIN r
  BY <1>1, FiniteInterval DEF Clipless
<1> QED
  BY <1>2, FS_Subset, FS_CardinalityType

LEMMA AppendClipless ==
  ASSUME NEW r \in Seq(Records), NEW p \in Records
  PROVE  Cardinality(Clipless(Append(r, p)))
           = Cardinality(Clipless(r)) + (IF p.path = 0 THEN 1 ELSE 0)
<1>1. /\ DOMAIN Append(r, p) = DOMAIN r \cup {Len(r) + 1}
      /\ \A k \in DOMAIN r : Append(r, p)[k] = r[k]
      /\ Append(r, p)[Len(r) + 1] = p /\ Len(r) + 1 \notin DOMAIN r
  BY AppendProperties, LenProperties
<1>2. CASE p.path = 0
  <2>1. /\ Clipless(Append(r, p)) = Clipless(r) \cup {Len(r) + 1}
        /\ Len(r) + 1 \notin Clipless(r)
    BY <1>1, <1>2 DEF Clipless
  <2>2. Cardinality(Clipless(r) \cup {Len(r) + 1}) = Cardinality(Clipless(r)) + 1
    BY <2>1, CliplessFinite, FS_AddElement
  <2> QED
    BY <1>2, <2>1, <2>2
<1>3. CASE p.path # 0
  <2>1. Clipless(Append(r, p)) = Clipless(r)
    BY <1>1, <1>3 DEF Clipless
  <2> QED
    BY <1>3, <2>1, CliplessFinite
<1> QED
  BY <1>2, <1>3

LEMMA ConcatClipless ==
  ASSUME NEW r \in Seq(Records), NEW s \in Seq(Records)
  PROVE  Cardinality(Clipless(r \o s)) = Cardinality(Clipless(r)) + Cardinality(Clipless(s))
<1> DEFINE t == r \o s
           n == Len(r)
           moved == Clipless(t) \ Clipless(r)
           f == [k \in Clipless(s) |-> k + n]
<1>1. /\ n \in Nat /\ DOMAIN r = 1 .. n
      /\ Len(s) \in Nat /\ DOMAIN s = 1 .. Len(s)
      /\ DOMAIN t = 1 .. n + Len(s)
      /\ \A k \in 1 .. n + Len(s) : t[k] = IF k <= n THEN r[k] ELSE s[k - n]
  BY ConcatProperties, LenProperties
<1> HIDE DEF t, n
<1>2. /\ \A k \in DOMAIN r : k \in DOMAIN t /\ t[k] = r[k]
      /\ \A k \in DOMAIN s : k + n \in DOMAIN t /\ t[k + n] = s[k] /\ k + n \notin DOMAIN r
      /\ \A k \in DOMAIN t : k \notin DOMAIN r =>
           k - n \in DOMAIN s /\ t[k] = s[k - n] /\ (k - n) + n = k
      /\ \A k, l \in DOMAIN s : k + n = l + n => k = l
  BY <1>1
<1>3. Clipless(r) \subseteq Clipless(t)
  BY <1>2 DEF Clipless
<1>4. f \in [Clipless(s) -> moved] /\ \A k, l \in Clipless(s) : f[k] = f[l] => k = l
  BY <1>2 DEF Clipless
<1>5. \A z \in moved : \E k \in Clipless(s) : f[k] = z
  BY <1>2 DEF Clipless
<1>6. Clipless(t) = Clipless(r) \cup moved /\ Clipless(r) \cap moved = {}
  BY <1>3
<1> HIDE DEF moved, f
<1>7. IsFiniteSet(moved) /\ Cardinality(moved) = Cardinality(Clipless(s))
  BY <1>4, <1>5, CliplessFinite, SameSize
<1>8. Cardinality(Clipless(t)) = Cardinality(Clipless(r)) + Cardinality(moved)
  BY <1>6, <1>7, CliplessFinite, DisjointSum
<1> QED
  BY <1>7, <1>8, CliplessFinite DEF t

LEMMA WithPathClipless ==
  ASSUME NEW records \in Seq(Members), NEW path
  PROVE  Cardinality(Clipless(WithPath(records, path))) = IF path = 0 THEN Len(records) ELSE 0
<1>1. Len(records) \in Nat /\ DOMAIN records = 1 .. Len(records)
  BY LenProperties
<1>2. Clipless(WithPath(records, path)) = IF path = 0 THEN 1 .. Len(records) ELSE {}
  BY <1>1 DEF Clipless, WithPath
<1> QED
  BY <1>1, <1>2, FS_Interval, FS_EmptySet

LEMMA NoneClipless == Clipless(<< >>) = {} /\ Cardinality(Clipless(<< >>)) = 0
BY FS_EmptySet DEF Clipless

\* The clip paths the encoder hands back are never null, and a failed encoder
\* takes no further clip.
PathsGiven == (\A p \in completedPaths : p.path # 0) /\ Clipless(completed) = {}

FailedStops == workerError => workerPc = "done"

Balanced ==
  /\ stats.started + stats.shared =
       stats.events + stats.queueFull + stats.workerQueue
         + EventsIn(active) + EventsIn(queue) + Len(job.records)
  /\ stats.capacity + stats.queueFull =
       Cardinality(Clipless(published)) + Cardinality(Clipless(returning))

BalanceInv == CallInv /\ PathsGiven /\ FailedStops /\ CountersBalance

LEMMA CountFacts ==
  ASSUME TypeOK
  PROVE  /\ stats.started \in Nat /\ stats.shared \in Nat /\ stats.events \in Nat
         /\ stats.queueFull \in Nat /\ stats.workerQueue \in Nat /\ stats.capacity \in Nat
         /\ EventsIn(active) \in Nat /\ EventsIn(queue) \in Nat /\ Len(job.records) \in Nat
         /\ Cardinality(Clipless(published)) \in Nat
         /\ Cardinality(Clipless(returning)) \in Nat
<1>1. stats \in Stats
  BY DEF TypeOK
<1>2. EventsIn(active) \in Nat /\ EventsIn(queue) \in Nat
  BY EventsInType DEF TypeOK
<1>3. Len(job.records) \in Nat
  BY LenProperties DEF TypeOK, ClipShape
<1>4. Cardinality(Clipless(published)) \in Nat /\ Cardinality(Clipless(returning)) \in Nat
  BY CliplessFinite DEF TypeOK
<1> QED
  BY <1>1, <1>2, <1>3, <1>4 DEF Stats

LEMMA BalanceProcess ==
  ASSUME TypeOK, BalanceInv, NEW batch \in Batches, NEW skipped \in 0 .. 1,
         NEW gen \in generation .. generation + 1, Process(batch, skipped, gen)
  PROVE  PathsGiven' /\ FailedStops' /\ CountersBalance'
<1>1. UNCHANGED <<queue, completedPaths, workerError, workerPc, job, stats, published>>
      /\ callerPc = "idle"
  BY DEF Process, workerVars, programVars
<1>2. CASE workerError
  BY <1>1, <1>2 DEF Process, BalanceInv, PathsGiven, FailedStops, CountersBalance
<1>3. CASE ~ workerError
  <2>1. returning' = completed /\ completed' = << >> /\ returning = << >>
    BY <1>3 DEF Process, BalanceInv, CallInv
  <2>2. PICK f : active' = Flushed \/ active' = Advanced(f)
    BY <1>3 DEF Process
  <2>s. \A i \in DOMAIN active : active[i] \in ClipShape
    BY CollectingType DEF Held, Collecting
  <2>3. DOMAIN active' = DOMAIN active
        /\ \A i \in DOMAIN active : active'[i].records = active[i].records
    BY <2>s, <2>2 DEF Flushed, Advanced, ClipShape
  <2>4. EventsIn(active') = EventsIn(active)
    BY <2>3, SameEvents
  <2>5. Clipless(returning') = {} /\ Clipless(returning) = {} /\ Clipless(completed') = {}
    BY <2>1, NoneClipless DEF BalanceInv, PathsGiven
  <2> QED
    BY <1>1, <2>4, <2>5 DEF BalanceInv, PathsGiven, FailedStops, CountersBalance
<1> QED
  BY <1>2, <1>3

LEMMA BalanceFlush ==
  ASSUME TypeOK, BalanceInv, Reset \/ Finish
  PROVE  PathsGiven' /\ FailedStops' /\ CountersBalance'
<1>1. /\ UNCHANGED <<queue, completedPaths, workerError, workerPc, job, stats, published>>
      /\ returning' = completed /\ completed' = << >> /\ returning = << >>
      /\ active' = Flushed /\ callerPc = "idle"
  BY DEF Reset, Finish, workerVars, programVars, BalanceInv, CallInv
<1>s. \A i \in DOMAIN active : active[i] \in ClipShape
  BY CollectingType DEF Held, Collecting
<1>2. DOMAIN active' = DOMAIN active
      /\ \A i \in DOMAIN active : active'[i].records = active[i].records
  BY <1>s, <1>1 DEF Flushed, ClipShape
<1>3. EventsIn(active') = EventsIn(active)
  BY <1>2, SameEvents
<1>4. Clipless(returning') = {} /\ Clipless(returning) = {} /\ Clipless(completed') = {}
  BY <1>1, NoneClipless DEF BalanceInv, PathsGiven
<1> QED
  BY <1>1, <1>3, <1>4 DEF BalanceInv, PathsGiven, FailedStops, CountersBalance

LEMMA BalanceSubmit ==
  ASSUME TypeOK, BalanceInv, SubmitClip
  PROVE  PathsGiven' /\ FailedStops' /\ CountersBalance'
<1>1. PICK i \in Due(active) :
        /\ active' = RemoveAt(active, i)
        /\ \/ callerPc' = "failed"
           \/ Refuse(active[i].records) /\ UNCHANGED queue
           \/ queue' = Append(queue, active[i]) /\ UNCHANGED <<returning, stats>>
  BY DEF SubmitClip
<1>2. /\ UNCHANGED <<completedPaths, completed, workerError, workerPc, job, published>>
      /\ callerPc = "submit"
  BY DEF SubmitClip, workerVars, programVars
<1>f. /\ stats.started \in Nat /\ stats.shared \in Nat /\ stats.events \in Nat
      /\ stats.queueFull \in Nat /\ stats.workerQueue \in Nat /\ stats.capacity \in Nat
      /\ EventsIn(active) \in Nat /\ EventsIn(queue) \in Nat /\ Len(job.records) \in Nat
      /\ Cardinality(Clipless(published)) \in Nat
      /\ Cardinality(Clipless(returning)) \in Nat
  BY CountFacts
<1>b. Balanced
  BY <1>2 DEF BalanceInv, CountersBalance, Balanced
<1>3. /\ active \in Seq(LiveClips) /\ queue \in Seq(LiveClips)
      /\ i \in 1 .. Len(active) /\ active[i] \in LiveClips
      /\ returning \in Seq(Records) /\ stats \in Stats
  BY CollectingType DEF Due, Collecting, TypeOK
<1>4. active[i].records \in Seq(Members) /\ Len(active[i].records) \in Nat
  BY <1>3, LenProperties DEF LiveClips, ClipShape
<1>5. EventsIn(active) = EventsIn(active') + Len(active[i].records)
      /\ EventsIn(active') \in Nat
  <2>1. RemoveAt(active, i) \in Seq(LiveClips)
    BY <1>3, RemoveAtFacts
  <2> QED
    BY <1>1, <1>3, <2>1, RemoveAtEvents, EventsInType
<1>6. PathsGiven' /\ FailedStops'
  BY <1>2 DEF BalanceInv, PathsGiven, FailedStops
<1>7. CASE callerPc' = "failed"
  BY <1>6, <1>7 DEF CountersBalance
<1>8. CASE Refuse(active[i].records) /\ UNCHANGED queue
  <2> DEFINE lost == WithPath(active[i].records, 0)
  <2>1. lost \in Seq(Records) /\ Cardinality(Clipless(lost)) = Len(active[i].records)
    <3>1. 0 \in Paths
      BY ClipAssumption DEF Paths
    <3> QED
      BY <1>4, <3>1, WithPathType, WithPathClipless
  <2>2. returning' = returning \o lost
    BY <1>8 DEF Refuse
  <2> HIDE DEF lost
  <2>3. Cardinality(Clipless(returning'))
          = Cardinality(Clipless(returning)) + Len(active[i].records)
    BY <1>3, <2>1, <2>2, ConcatClipless
  <2>4. /\ stats'.queueFull = stats.queueFull + Len(active[i].records)
        /\ stats'.started = stats.started /\ stats'.shared = stats.shared
        /\ stats'.events = stats.events /\ stats'.workerQueue = stats.workerQueue
        /\ stats'.capacity = stats.capacity
    BY <1>3, <1>8 DEF Refuse, Stats
  <2>5. /\ EventsIn(queue') = EventsIn(queue) /\ Len(job'.records) = Len(job.records)
        /\ Cardinality(Clipless(published')) = Cardinality(Clipless(published))
    BY <1>2, <1>8
  <2>a. stats'.started + stats'.shared =
          stats'.events + stats'.queueFull + stats'.workerQueue
            + EventsIn(active') + EventsIn(queue') + Len(job'.records)
    <3> DEFINE n == Len(active[i].records)
    <3>1. stats.started + stats.shared =
            stats.events + (stats.queueFull + n) + stats.workerQueue
              + EventsIn(active') + EventsIn(queue) + Len(job.records)
      BY <1>4, <1>5, <1>b, <1>f, SMTT(60) DEF Balanced
    <3> QED
      BY <2>4, <2>5, <3>1
  <2>b. stats'.capacity + stats'.queueFull =
          Cardinality(Clipless(published')) + Cardinality(Clipless(returning'))
    <3> DEFINE n == Len(active[i].records)
    <3>1. stats.capacity + (stats.queueFull + n) =
            Cardinality(Clipless(published)) + (Cardinality(Clipless(returning)) + n)
      <4>1. stats.capacity + stats.queueFull =
              Cardinality(Clipless(published)) + Cardinality(Clipless(returning))
        BY <1>b DEF Balanced
      <4> DEFINE a == stats.capacity
                 b == stats.queueFull
                 c == Cardinality(Clipless(published))
                 d == Cardinality(Clipless(returning))
      <4>2. n \in Nat /\ a \in Nat /\ b \in Nat /\ c \in Nat /\ d \in Nat /\ a + b = c + d
        BY <1>4, <1>f, <4>1
      <4> HIDE DEF n, a, b, c, d
      <4>3. a + (b + n) = c + (d + n)
        BY <4>2
      <4> QED
        BY <4>3 DEF a, b, c, d
    <3> QED
      BY <2>3, <2>4, <2>5, <3>1
  <2>6. Balanced'
    BY <2>a, <2>b DEF Balanced
  <2> QED
    BY <1>6, <2>6 DEF CountersBalance, Balanced
<1>9. CASE queue' = Append(queue, active[i]) /\ UNCHANGED <<returning, stats>>
  <2>1. EventsIn(queue') = EventsIn(queue) + Len(active[i].records)
    BY <1>3, <1>9, AppendEvents
  <2>2. /\ Len(job'.records) = Len(job.records) /\ stats' = stats
        /\ Cardinality(Clipless(published')) = Cardinality(Clipless(published))
        /\ Cardinality(Clipless(returning')) = Cardinality(Clipless(returning))
    BY <1>2, <1>9
  <2>3. Balanced'
    BY <1>4, <1>5, <1>b, <1>f, <2>1, <2>2, SMTT(60) DEF Balanced
  <2> QED
    BY <1>6, <2>3 DEF CountersBalance, Balanced
<1> QED
  BY <1>1, <1>7, <1>8, <1>9

LEMMA BalanceReturn ==
  ASSUME TypeOK, BalanceInv, Rejoin \/ EndProcess \/ EndReset \/ Joined
  PROVE  PathsGiven' /\ FailedStops' /\ CountersBalance'
<1>1. /\ UNCHANGED <<active, queue, completedPaths, workerError, workerPc, job, stats>>
      /\ callerPc \in {"submit", "records", "join"}
  BY DEF Rejoin, EndProcess, EndReset, Joined, workerVars, Submitted
<1>2. returning \in Seq(Records) /\ completed \in Seq(Records) /\ published \in Seq(Records)
  BY DEF TypeOK
<1>3. Clipless(completed) = {} /\ Cardinality(Clipless(completed)) = 0
  BY FS_EmptySet DEF BalanceInv, PathsGiven
<1>4. \/ callerPc' = "failed" /\ (UNCHANGED completed \/ completed' = << >>)
      \/ returning' = returning \o completed /\ completed' = << >> /\ UNCHANGED published
      \/ /\ returning' = << >> /\ completed' = << >>
         /\ published' = published \o returning \o completed
  BY DEF Rejoin, EndProcess, EndReset, Joined, ReturnTo, programVars
<1>5. PathsGiven' /\ FailedStops'
  BY <1>1, <1>4, NoneClipless DEF BalanceInv, PathsGiven, FailedStops
<1>6. Cardinality(Clipless(returning \o completed)) = Cardinality(Clipless(returning))
  <2>1. Cardinality(Clipless(returning \o completed)) = Cardinality(Clipless(returning)) + 0
    BY <1>2, <1>3, ConcatClipless
  <2> QED
    BY <2>1, CountFacts
<1>7. Cardinality(Clipless(published \o returning \o completed))
        = Cardinality(Clipless(published)) + Cardinality(Clipless(returning))
  <2> DEFINE first == published \o returning
  <2>1. /\ first \in Seq(Records)
        /\ Cardinality(Clipless(first))
             = Cardinality(Clipless(published)) + Cardinality(Clipless(returning))
    BY <1>2, ConcatProperties, ConcatClipless
  <2> HIDE DEF first
  <2>2. Cardinality(Clipless(first \o completed)) = Cardinality(Clipless(first)) + 0
    BY <1>2, <1>3, <2>1, ConcatClipless
  <2> QED
    BY <2>1, <2>2, CountFacts DEF first
<1>8. CountersBalance'
  <2>1. CASE callerPc' = "failed"
    BY <2>1 DEF CountersBalance
  <2>2. CASE returning' = returning \o completed /\ UNCHANGED published
    BY <1>1, <1>6, <2>2 DEF BalanceInv, CountersBalance
  <2>3. CASE returning' = << >> /\ published' = published \o returning \o completed
    BY <1>1, <1>7, <2>3, NoneClipless, CountFacts DEF BalanceInv, CountersBalance
  <2> QED
    BY <1>4, <2>1, <2>2, <2>3
<1> QED
  BY <1>5, <1>8

LEMMA BalanceLookUp ==
  ASSUME TypeOK, BalanceInv, LookUpCompleted
  PROVE  PathsGiven' /\ FailedStops' /\ CountersBalance'
<1>1. /\ UNCHANGED <<active, queue, completedPaths, completed, workerError, workerPc, job,
                     published>>
      /\ callerPc = "records"
  BY DEF LookUpCompleted, workerVars, programVars
<1>2. \/ UNCHANGED <<returning, stats>>
      \/ /\ \E p \in completedPaths : returning' = Append(returning, p)
         /\ stats' = [stats EXCEPT !.reused = @ + 1]
  BY DEF LookUpCompleted
<1>3. returning \in Seq(Records) /\ completedPaths \subseteq Records /\ stats \in Stats
  BY DEF TypeOK
<1>4. Cardinality(Clipless(returning')) = Cardinality(Clipless(returning))
  <2>1. CASE UNCHANGED <<returning, stats>>
    BY <2>1
  <2>2. CASE \E p \in completedPaths : returning' = Append(returning, p)
    <3>1. PICK p \in completedPaths : returning' = Append(returning, p)
      BY <2>2
    <3>2. p \in Records /\ p.path # 0
      BY <1>3 DEF BalanceInv, PathsGiven
    <3>3. Cardinality(Clipless(returning')) = Cardinality(Clipless(returning)) + 0
      BY <1>3, <3>1, <3>2, AppendClipless
    <3> QED
      BY <3>3, CountFacts
  <2> QED
    BY <1>2, <2>1, <2>2
<1>5. /\ stats'.started = stats.started /\ stats'.shared = stats.shared
      /\ stats'.events = stats.events /\ stats'.workerQueue = stats.workerQueue
      /\ stats'.capacity = stats.capacity /\ stats'.queueFull = stats.queueFull
  BY <1>2, <1>3 DEF Stats
<1> QED
  BY <1>1, <1>4, <1>5 DEF BalanceInv, PathsGiven, FailedStops, CountersBalance

LEMMA BalanceAdmit ==
  ASSUME TypeOK, BalanceInv, Admit
  PROVE  PathsGiven' /\ FailedStops' /\ CountersBalance'
<1>1. PICK id \in EventIds : Admitting(id)
  BY DEF Admit, AdmitDuplicate, AdmitShared, AdmitRefused, AdmitOnDisk, AdmitNew
<1>2. /\ UNCHANGED <<queue, completed, workerError, workerPc, job, published>>
      /\ callerPc = "admit"
  BY <1>1 DEF Admitting, workerVars, programVars
<1>3. /\ active \in Seq(LiveClips) /\ returning \in Seq(Records) /\ stats \in Stats
  BY DEF TypeOK
<1>f. /\ stats.started \in Nat /\ stats.shared \in Nat /\ stats.events \in Nat
      /\ stats.queueFull \in Nat /\ stats.workerQueue \in Nat /\ stats.capacity \in Nat
      /\ EventsIn(active) \in Nat /\ EventsIn(queue) \in Nat /\ Len(job.records) \in Nat
      /\ Cardinality(Clipless(published)) \in Nat
      /\ Cardinality(Clipless(returning)) \in Nat
  BY CountFacts
<1>b. Balanced
  BY <1>2 DEF BalanceInv, CountersBalance, Balanced
<1>e. stats.started + stats.shared =
        stats.events + stats.queueFull + stats.workerQueue
          + EventsIn(active) + EventsIn(queue) + Len(job.records)
  BY <1>b DEF Balanced
<1>c. /\ EventsIn(queue') = EventsIn(queue) /\ Len(job'.records) = Len(job.records)
      /\ Cardinality(Clipless(published')) = Cardinality(Clipless(published))
  BY <1>2
<1>d. PathsGiven' /\ FailedStops'
  <2>1. \A p \in completedPaths' : p.path # 0
    <3>1. completedPaths' = completedPaths
          \/ \E i \in EventIds : completedPaths' = completedPaths \cup {[id |-> i, path |-> i]}
      BY DEF Admit, AdmitDuplicate, AdmitShared, AdmitRefused, AdmitOnDisk, AdmitNew
    <3> QED
      BY <3>1 DEF BalanceInv, PathsGiven, EventIds
  <2> QED
    BY <1>2, <2>1 DEF BalanceInv, PathsGiven, FailedStops
<1>4. CASE AdmitDuplicate
  <2>1. UNCHANGED <<active, returning>> /\ stats' = [stats EXCEPT !.reused = @ + 1]
    BY <1>4 DEF AdmitDuplicate
  <2>2. /\ stats'.started = stats.started /\ stats'.shared = stats.shared
        /\ stats'.events = stats.events /\ stats'.queueFull = stats.queueFull
        /\ stats'.workerQueue = stats.workerQueue /\ stats'.capacity = stats.capacity
    BY <1>3, <2>1 DEF Stats
  <2>3. Balanced'
    BY <1>b, <1>c, <2>1, <2>2 DEF Balanced
  <2> QED
    BY <1>d, <2>3 DEF Balanced, CountersBalance
<1>5. CASE AdmitShared
  <2>1. PICK j \in EventIds : JoinClip(j)
    BY <1>5 DEF AdmitShared
  <2>2. PICK i \in DOMAIN active :
          active' = [active EXCEPT ![i].records = Append(@, Member(j)), ![i].post = Post]
    BY <2>1 DEF JoinClip
  <2>3. UNCHANGED returning /\ stats' = [stats EXCEPT !.shared = @ + 1]
    BY <1>5 DEF AdmitShared
  <2>4. active[i] \in ClipShape /\ Member(j) \in Members
    BY <2>1, CollectingType, MemberType DEF Held, Collecting
  <2>5. /\ DOMAIN active' = DOMAIN active
        /\ \A k \in DOMAIN active : k # i => active'[k] = active[k]
        /\ active'[i].records = Append(active[i].records, Member(j))
    BY <1>3, <2>2, <2>4 DEF ClipShape
  <2>6. EventsIn(active') = EventsIn(active) + 1
    BY <1>3, <2>4, <2>5, JoinEvents
  <2>7. /\ stats'.started = stats.started /\ stats'.shared = stats.shared + 1
        /\ stats'.events = stats.events /\ stats'.queueFull = stats.queueFull
        /\ stats'.workerQueue = stats.workerQueue /\ stats'.capacity = stats.capacity
    BY <1>3, <2>3 DEF Stats
  <2>8. stats.started + (stats.shared + 1) =
          stats.events + stats.queueFull + stats.workerQueue
            + (EventsIn(active) + 1) + EventsIn(queue) + Len(job.records)
    <3> DEFINE a == stats.started
               b == stats.shared
               c == stats.events
               d == stats.queueFull
               e == stats.workerQueue
               f == EventsIn(active)
               g == EventsIn(queue)
               h == Len(job.records)
    <3>1. /\ a \in Nat /\ b \in Nat /\ c \in Nat /\ d \in Nat /\ e \in Nat
          /\ f \in Nat /\ g \in Nat /\ h \in Nat /\ a + b = c + d + e + f + g + h
      BY <1>e, <1>f
    <3> HIDE DEF a, b, c, d, e, f, g, h
    <3>2. a + (b + 1) = c + d + e + (f + 1) + g + h
      BY <3>1
    <3> QED
      BY <3>2 DEF a, b, c, d, e, f, g, h
  <2>9. Balanced'
    BY <1>b, <1>c, <2>3, <2>6, <2>7, <2>8 DEF Balanced
  <2> QED
    BY <1>d, <2>9 DEF Balanced, CountersBalance
<1>6. CASE AdmitRefused
  <2>1. PICK j \in EventIds : returning' = Append(returning, [id |-> j, path |-> 0])
    BY <1>6 DEF AdmitRefused
  <2>2. UNCHANGED active /\ stats' = [stats EXCEPT !.capacity = @ + 1]
    BY <1>6 DEF AdmitRefused
  <2>3. [id |-> j, path |-> 0] \in Records
    BY ClipAssumption DEF Records, Paths
  <2>4. Cardinality(Clipless(returning')) = Cardinality(Clipless(returning)) + 1
    <3> DEFINE p == [id |-> j, path |-> 0]
    <3>1. p \in Records /\ p.path = 0 /\ returning' = Append(returning, p)
      BY <2>1, <2>3
    <3> HIDE DEF p
    <3> QED
      BY <1>3, <3>1, AppendClipless
  <2>5. /\ stats'.started = stats.started /\ stats'.shared = stats.shared
        /\ stats'.events = stats.events /\ stats'.queueFull = stats.queueFull
        /\ stats'.workerQueue = stats.workerQueue /\ stats'.capacity = stats.capacity + 1
    BY <1>3, <2>2 DEF Stats
  <2>6. (stats.capacity + 1) + stats.queueFull =
          Cardinality(Clipless(published)) + (Cardinality(Clipless(returning)) + 1)
    BY <1>b, <1>f DEF Balanced
  <2>7. Balanced'
    BY <1>b, <1>c, <2>2, <2>4, <2>5, <2>6 DEF Balanced
  <2> QED
    BY <1>d, <2>7 DEF Balanced, CountersBalance
<1>7. CASE AdmitOnDisk
  <2>1. PICK j \in EventIds : returning' = Append(returning, [id |-> j, path |-> j])
    BY <1>7 DEF AdmitOnDisk
  <2>2. UNCHANGED active /\ stats' = [stats EXCEPT !.reused = @ + 1]
    BY <1>7 DEF AdmitOnDisk
  <2>3. [id |-> j, path |-> j] \in Records /\ j # 0
    BY ClipAssumption DEF Records, Paths, EventIds
  <2>4. Cardinality(Clipless(returning')) = Cardinality(Clipless(returning))
    <3> DEFINE p == [id |-> j, path |-> j]
    <3>1. p \in Records /\ p.path # 0 /\ returning' = Append(returning, p)
      BY <2>1, <2>3
    <3> HIDE DEF p
    <3>2. Cardinality(Clipless(returning')) = Cardinality(Clipless(returning)) + 0
      BY <1>3, <3>1, AppendClipless
    <3> QED
      BY <1>f, <3>2
  <2>5. /\ stats'.started = stats.started /\ stats'.shared = stats.shared
        /\ stats'.events = stats.events /\ stats'.queueFull = stats.queueFull
        /\ stats'.workerQueue = stats.workerQueue /\ stats'.capacity = stats.capacity
    BY <1>3, <2>2 DEF Stats
  <2>6. Balanced'
    BY <1>b, <1>c, <2>2, <2>4, <2>5 DEF Balanced
  <2> QED
    BY <1>d, <2>6 DEF Balanced, CountersBalance
<1>8. CASE AdmitNew
  <2>1. PICK j \in EventIds : active' = Append(active, NewClip(j))
    BY <1>8 DEF AdmitNew
  <2>2. /\ UNCHANGED returning
        /\ \E high : stats' = [stats EXCEPT !.started = @ + 1, !.pendingHigh = high]
    BY <1>8 DEF AdmitNew
  <2>3. NewClip(j) \in LiveClips /\ Len(NewClip(j).records) = 1
    <3>1. NewClip(j) \in LiveClips
      BY NewClipType
    <3> QED
      BY <3>1 DEF NewClip
  <2>4. EventsIn(active') = EventsIn(active) + 1
    BY <1>3, <2>1, <2>3, AppendEvents
  <2>5. /\ stats'.started = stats.started + 1 /\ stats'.shared = stats.shared
        /\ stats'.events = stats.events /\ stats'.queueFull = stats.queueFull
        /\ stats'.workerQueue = stats.workerQueue /\ stats'.capacity = stats.capacity
    BY <1>3, <2>2 DEF Stats
  <2>6. (stats.started + 1) + stats.shared =
          stats.events + stats.queueFull + stats.workerQueue
            + (EventsIn(active) + 1) + EventsIn(queue) + Len(job.records)
    <3> DEFINE a == stats.started
               b == stats.shared
               c == stats.events
               d == stats.queueFull
               e == stats.workerQueue
               f == EventsIn(active)
               g == EventsIn(queue)
               h == Len(job.records)
    <3>1. /\ a \in Nat /\ b \in Nat /\ c \in Nat /\ d \in Nat /\ e \in Nat
          /\ f \in Nat /\ g \in Nat /\ h \in Nat /\ a + b = c + d + e + f + g + h
      BY <1>e, <1>f
    <3> HIDE DEF a, b, c, d, e, f, g, h
    <3>2. (a + 1) + b = c + d + e + (f + 1) + g + h
      BY <3>1
    <3> QED
      BY <3>2 DEF a, b, c, d, e, f, g, h
  <2>7. Balanced'
    BY <1>b, <1>c, <2>2, <2>4, <2>5, <2>6 DEF Balanced
  <2> QED
    BY <1>d, <2>7 DEF Balanced, CountersBalance
<1> QED
  BY <1>4, <1>5, <1>6, <1>7, <1>8 DEF Admit

LEMMA BalanceWorker ==
  ASSUME TypeOK, BalanceInv, Worker
  PROVE  PathsGiven' /\ FailedStops' /\ CountersBalance'
<1> USE DEF sharedVars, programVars, callerVars
<1>1. UNCHANGED <<callerPc, active, returning, published>>
  BY DEF Worker, TakeJob, WorkerStops, RemoveFinal, RenameToFinal, ReportJob, EncodeFails
<1>f. /\ stats.started \in Nat /\ stats.shared \in Nat /\ stats.events \in Nat
      /\ stats.queueFull \in Nat /\ stats.workerQueue \in Nat /\ stats.capacity \in Nat
      /\ EventsIn(active) \in Nat /\ EventsIn(queue) \in Nat /\ Len(job.records) \in Nat
      /\ Cardinality(Clipless(published)) \in Nat
      /\ Cardinality(Clipless(returning)) \in Nat
  BY CountFacts
<1>3. CASE TakeJob
  <2>1. /\ queue \in Seq(LiveClips) /\ queue # << >> /\ job' = Head(queue)
        /\ queue' = Tail(queue) /\ UNCHANGED <<workerError, completed, completedPaths, stats>>
        /\ ~ Encoding /\ workerPc = "wait"
    BY <1>3 DEF TakeJob, TypeOK, Encoding
  <2>2. ~ workerError
    BY <2>1 DEF BalanceInv, FailedStops
  <2>3. Len(job.records) = 0
    BY <2>1, <2>2 DEF BalanceInv, CallInv, NoClip
  <2>4. EventsIn(queue) = EventsIn(queue') + Len(job'.records)
    BY <2>1, TailEvents
  <2>5. EventsIn(queue') \in Nat /\ Len(job'.records) \in Nat
    <3>1. queue' \in Seq(LiveClips) /\ job' \in LiveClips
      BY <2>1, HeadTailProperties
    <3> QED
      BY <3>1, EventsInType, LenProperties DEF LiveClips, ClipShape
  <2>6. ASSUME Balanced PROVE Balanced'
    <3>1. stats.started + stats.shared =
            stats.events + stats.queueFull + stats.workerQueue
              + EventsIn(active) + EventsIn(queue') + Len(job'.records)
      BY <1>f, <2>3, <2>4, <2>5, <2>6, SMTT(60) DEF Balanced
    <3> QED
      BY <1>1, <2>1, <2>6, <3>1 DEF Balanced
  <2> QED
    BY <1>1, <2>1, <2>2, <2>6
    DEF BalanceInv, PathsGiven, FailedStops, CountersBalance, Balanced
<1>4. CASE ReportJob
  <2> DEFINE done == WithPath(job.records, FinalPath)
  <2>1. /\ completed' = completed \o done /\ job' = NoClip
        /\ UNCHANGED <<queue, workerError>>
        /\ completedPaths' =
             {p \in completedPaths : p.id \notin Ids(job.records)}
               \cup {done[i] : i \in DOMAIN done}
        /\ stats' = [stats EXCEPT !.events = @ + Len(done), !.clips = @ + 1]
        /\ Encoding /\ workerPc = "report"
    BY <1>4 DEF ReportJob, Encoding
  <2>2. /\ job.records \in Seq(Members) /\ FinalPath \in Paths /\ FinalPath # 0
        /\ completed \in Seq(Records) /\ stats \in Stats
    <3>1. job.records \in Seq(Members) /\ Head(job.records) \in Members
      BY <1>4, HeadTailProperties DEF ReportJob, TypeOK, LiveClips, ClipShape
    <3>2. FinalPath \in Paths /\ FinalPath # 0
      <4>1. FinalPath \in EventIds
        BY <3>1 DEF FinalPath, Members
      <4>2. FinalPath # 0
        BY <2>1, FinalPathIsMine
      <4> QED
        BY <4>1, <4>2, ClipAssumption DEF Paths, EventIds
    <3> QED
      BY <3>1, <3>2 DEF TypeOK
  <2>3. /\ done \in Seq(Records) /\ Cardinality(Clipless(done)) = 0 /\ Clipless(done) = {}
        /\ Len(done) = Len(job.records) /\ \A i \in DOMAIN done : done[i].path # 0
    <3>1. done \in Seq(Records) /\ Cardinality(Clipless(done)) = 0
      BY <2>2, WithPathType, WithPathClipless
    <3>2. /\ DOMAIN done = DOMAIN job.records
          /\ \A i \in DOMAIN done : done[i].path = FinalPath
      BY DEF WithPath
    <3>3. Len(done) = Len(job.records)
      BY <2>2, <3>1, <3>2, LenProperties
    <3> HIDE DEF done
    <3> QED
      BY <2>2, <3>1, <3>2, <3>3 DEF Clipless
  <2> HIDE DEF done
  <2>4. Clipless(completed') = {}
    <3>1. Cardinality(Clipless(completed)) = 0
      BY FS_EmptySet DEF BalanceInv, PathsGiven
    <3>2. Cardinality(Clipless(completed')) = 0
      <4>1. Cardinality(Clipless(completed \o done)) = 0 + 0
        BY <2>2, <2>3, <3>1, ConcatClipless
      <4> QED
        BY <2>1, <4>1
    <3>3. completed' \in Seq(Records)
      BY <2>1, <2>2, <2>3, ConcatProperties
    <3> QED
      BY <3>2, <3>3, CliplessFinite, FS_EmptySet
  <2>5. PathsGiven' /\ FailedStops'
    BY <2>1, <2>3, <2>4 DEF BalanceInv, PathsGiven, FailedStops
  <2>6. /\ stats'.started = stats.started /\ stats'.shared = stats.shared
        /\ stats'.events = stats.events + Len(job.records)
        /\ stats'.queueFull = stats.queueFull
        /\ stats'.workerQueue = stats.workerQueue /\ stats'.capacity = stats.capacity
    BY <2>1, <2>2, <2>3 DEF Stats
  <2>7. Len(job'.records) = 0
    BY <2>1 DEF NoClip
  <2>8. ASSUME Balanced PROVE Balanced'
    <3>1. stats.started + stats.shared =
            (stats.events + Len(job.records)) + stats.queueFull + stats.workerQueue
              + EventsIn(active) + EventsIn(queue) + 0
      BY <1>f, <2>8, SMTT(60) DEF Balanced
    <3> QED
      BY <1>1, <2>1, <2>6, <2>7, <2>8, <3>1 DEF Balanced
  <2> QED
    BY <1>1, <2>5, <2>8 DEF BalanceInv, CountersBalance, Balanced
<1>5. CASE EncodeFails
  <2>1. /\ workerPc' = "done" /\ queue' = << >>
        /\ UNCHANGED <<job, completed, completedPaths>>
        /\ stats' = [stats EXCEPT !.workerQueue = @ + EventsIn(queue)]
    BY <1>5 DEF EncodeFails
  <2>2. /\ stats'.started = stats.started /\ stats'.shared = stats.shared
        /\ stats'.events = stats.events /\ stats'.queueFull = stats.queueFull
        /\ stats'.workerQueue = stats.workerQueue + EventsIn(queue)
        /\ stats'.capacity = stats.capacity
    BY <2>1 DEF Stats, TypeOK
  <2>3. EventsIn(queue') = 0
    BY <2>1, ClipsOfNone
  <2>4. ASSUME Balanced PROVE Balanced'
    <3>1. stats.started + stats.shared =
            stats.events + stats.queueFull + (stats.workerQueue + EventsIn(queue))
              + EventsIn(active) + 0 + Len(job.records)
      BY <1>f, <2>4, SMTT(60) DEF Balanced
    <3> QED
      BY <1>1, <2>1, <2>2, <2>3, <2>4, <3>1 DEF Balanced
  <2> QED
    BY <1>1, <2>1, <2>4 DEF BalanceInv, PathsGiven, FailedStops, CountersBalance, Balanced
<1>6. CASE WorkerStops \/ RemoveFinal \/ RenameToFinal
  <2>1. UNCHANGED <<queue, job, completed, completedPaths, workerError, stats>>
        /\ (workerPc # "done" \/ workerPc' = "done")
    BY <1>6 DEF WorkerStops, RemoveFinal, RenameToFinal
  <2> QED
    BY <1>1, <2>1 DEF BalanceInv, PathsGiven, FailedStops, CountersBalance
<1> QED
  BY <1>3, <1>4, <1>5, <1>6 DEF Worker

LEMMA BalanceStep == TypeOK /\ BalanceInv /\ [Next]_vars => BalanceInv'
<1> SUFFICES ASSUME TypeOK, BalanceInv, [Next]_vars
             PROVE  PathsGiven' /\ FailedStops' /\ CountersBalance'
  BY CallStep DEF BalanceInv
<1>1. CASE Worker
  BY <1>1, BalanceWorker
<1>2. CASE SubmitClip \/ Admit \/ LookUpCompleted
  BY <1>2, BalanceSubmit, BalanceAdmit, BalanceLookUp
<1>3. CASE Rejoin \/ EndProcess \/ EndReset \/ Joined \/ Reset \/ Finish
  BY <1>3, BalanceReturn, BalanceFlush
<1>4. CASE \E batch \in Batches, skipped \in 0 .. 1,
              gen \in generation .. generation + 1 : Process(batch, skipped, gen)
  BY <1>4, BalanceProcess
<1>5. CASE ToRecords \/ RequestStop \/ Destroyed \/ Destroy \/ Over \/ UNCHANGED vars
  <2>1. /\ UNCHANGED <<active, queue, job, completed, completedPaths, returning, published,
                       workerError, workerPc, stats>>
        /\ callerPc \in {"failed", "destroying"} =>
             callerPc' \in {"failed", "destroying", "destroyed"}
        /\ callerPc = "destroyed" => callerPc' = "destroyed"
    BY <1>5 DEF ToRecords, RequestStop, Destroyed, Destroy, Over, vars, callerVars,
       sharedVars, workerVars, programVars, Submitted
  <2> QED
    BY <2>1 DEF BalanceInv, PathsGiven, FailedStops, CountersBalance
<1> QED
  BY <1>1, <1>2, <1>3, <1>4, <1>5 DEF Next, InCall, Call

LEMMA BalanceInit == Init => BalanceInv
<1> SUFFICES ASSUME Init PROVE BalanceInv
  OBVIOUS
<1>1. CallInv
  BY DEF Init, CallInv, Encoding
<1>2. PathsGiven /\ FailedStops
  BY NoneClipless DEF Init, PathsGiven, FailedStops
<1>3. CountersBalance
  BY ClipsOfNone, NoneClipless DEF Init, CountersBalance, NoClip
<1> QED
  BY <1>1, <1>2, <1>3 DEF BalanceInv

\* Until the caller is thrown the encoder's failure, every event given a clip is
\* being recorded, was encoded, or is counted as lost, and the records published
\* without a clip are those the refusal counters have counted.
THEOREM CountersAreBalanced == Spec => []CountersBalance
<1>1. Init => TypeOK /\ PendingBounded /\ BalanceInv
  BY TypeInit, CapacityInit, BalanceInit
<1>2. TypeOK /\ PendingBounded /\ BalanceInv /\ [Next]_vars
        => (TypeOK /\ PendingBounded /\ BalanceInv)'
  BY TypeStep, CapacityStep, BalanceStep
<1>3. BalanceInv => CountersBalance
  BY DEF BalanceInv
<1> QED
  BY <1>1, <1>2, <1>3, PTL DEF Spec
=============================================================================
