--------------------------- MODULE FrameLoopProofs --------------------------
(***************************************************************************)
(* Proofs about FrameLoop for every tracker, warm-up, gap and number of    *)
(* streams.                                                                *)
(*   OneStream    what the collaborators hold is of the active stream      *)
(*   Counting     the last measured frame is where the next gap begins     *)
(*   Kept         the tracks of all trackers are told apart by number, and *)
(*                a lost one is not kept beyond its time                   *)
(*   Remembered   a track was last seen as many frames ago as its tracker  *)
(*                has been updated since                                   *)
(***************************************************************************)
EXTENDS FrameLoop, FiniteSetTheorems, TLAPS

LoopType ==
  /\ frame \in [seq : 0 .. MaxSeq, generation : 1 .. MaxGeneration]
  /\ activeGeneration \in 0 .. MaxGeneration /\ activeGeneration <= frame.generation
  /\ previous \in 0 .. MaxSeq /\ warmed \in 0 .. WarmupFrames
  /\ counted \in [frames : Nat, gaps : Nat] /\ spanned \in Nat
  /\ lastMeasured \in [seq : 0 .. MaxSeq, generation : 1 .. MaxGeneration]
  /\ lastMeasured.seq <= frame.seq /\ previous <= frame.seq

\* Updates are under way for the frame taken last, in the warm-up a single one.
UpdateType ==
  /\ updating \in [left : 0 .. TrackBuffer + 2, todo : SUBSET Classes, missing : Nat]
  /\ updating.left <= Least(updating.missing, TrackBuffer + 1) + 1
  /\ Idle => updating = Waiting
  /\ ~ Idle => frame.generation = activeGeneration
  /\ ~ Idle /\ warmed < WarmupFrames => updating.left = 1 /\ updating.missing = 0
  /\ ~ Idle /\ warmed = WarmupFrames => previous = frame.seq /\ previous # 0

\* What a collaborator may hold now.
Here == <<activeGeneration, warmed = WarmupFrames>>

\* Before the first frame of a stream nobody holds anything, and only the tracker
\* sees the warm-up.
OneStream ==
  /\ DOMAIN fed = Collaborators
  /\ \A c \in Collaborators : fed[c] \subseteq {Here}
  /\ activeGeneration = 0 => \A c \in Collaborators : fed[c] = {}
  /\ warmed < WarmupFrames => fed["rules"] = {} /\ fed["clips"] = {}

\* A gap is counted from the last measured frame, if it was of the same stream.
Counting ==
  /\ spanned = counted.frames + counted.gaps
  /\ previous # 0 => lastMeasured.seq = previous
  /\ lastMeasured.seq # 0 => lastMeasured.generation <= activeGeneration
  /\ lastMeasured.seq # 0 => (previous # 0 <=> lastMeasured.generation = activeGeneration)
  /\ warmed < WarmupFrames => lastMeasured.seq = 0

LoopInv == LoopType /\ UpdateType /\ OneStream /\ Counting

LEMMA NextFrameFacts ==
  ASSUME LoopType, NEW f \in NextFrames
  PROVE  /\ f \in [seq : 0 .. MaxSeq, generation : 1 .. MaxGeneration]
         /\ f.seq > frame.seq /\ f.generation >= frame.generation
<1>1. PICK jump \in Jumps : f.seq = frame.seq + jump
  BY DEF NextFrames
<1>2. f.generation \in {frame.generation, frame.generation + 1}
  BY DEF NextFrames
<1>3. f.seq <= MaxSeq /\ f.generation <= MaxGeneration
      /\ f = [seq |-> f.seq, generation |-> f.generation]
  BY DEF NextFrames
<1> QED
  BY <1>1, <1>2, <1>3, LoopAssumption DEF LoopType

\* A new stream leaves nothing of the old one with the collaborators.
LEMMA EnteredFacts ==
  ASSUME LoopInv, NEW f \in NextFrames
  PROVE  /\ Entered(f).previous \in 0 .. frame.seq
         /\ NewStream(f) => Entered(f).previous = 0
         /\ ~ NewStream(f) => Entered(f).previous = previous
         /\ DOMAIN Entered(f).fed = Collaborators
         /\ \A c \in Collaborators :
              Entered(f).fed[c] \subseteq {<<f.generation, warmed = WarmupFrames>>}
         /\ warmed < WarmupFrames =>
              Entered(f).fed["rules"] = {} /\ Entered(f).fed["clips"] = {}
<1>1. CASE NewStream(f)
  <2>1. Entered(f).previous = 0 /\ Entered(f).fed = [c \in Collaborators |-> {}]
    BY <1>1 DEF Entered
  <2> QED
    BY <1>1, <2>1 DEF Collaborators, LoopInv, LoopType
<1>2. CASE ~ NewStream(f)
  <2>1. Entered(f).previous = previous /\ Entered(f).fed = fed
    BY <1>2 DEF Entered
  <2>2. activeGeneration = 0 \/ activeGeneration = f.generation
    BY <1>2 DEF NewStream
  <2>3. \A c \in Collaborators : fed[c] \subseteq {<<f.generation, warmed = WarmupFrames>>}
    BY <2>2 DEF LoopInv, OneStream, Here
  <2> QED
    BY <1>2, <2>1, <2>3 DEF LoopInv, LoopType, OneStream
<1> QED
  BY <1>1, <1>2

LEMMA LoopInit == Init => LoopInv
<1> SUFFICES ASSUME Init PROVE LoopInv
  OBVIOUS
<1>1. LoopType
  BY LoopAssumption DEF Init, LoopType
<1>2. OneStream
  BY DEF Init, OneStream, Collaborators
<1>3. Counting
  BY DEF Init, Counting
<1>4. UpdateType
  BY LoopAssumption DEF Init, UpdateType, Waiting, Idle, Least
<1> QED
  BY <1>1, <1>2, <1>3, <1>4 DEF LoopInv

LEMMA LoopInvalid == LoopInv /\ InvalidFrame => LoopInv'
<1> SUFFICES ASSUME LoopInv, NEW f \in NextFrames, frame' = f, Idle,
                    UNCHANGED <<activeGeneration, previous, warmed, updating, counted, fed,
                                lastMeasured, spanned>>
             PROVE  LoopInv'
  BY DEF InvalidFrame
<1>1. /\ f \in [seq : 0 .. MaxSeq, generation : 1 .. MaxGeneration]
      /\ f.seq > frame.seq /\ f.generation >= frame.generation
  BY NextFrameFacts DEF LoopInv
<1>2. LoopType'
  BY <1>1 DEF LoopInv, LoopType
<1>3. (OneStream /\ Counting)'
  BY DEF LoopInv, OneStream, Counting, Here
<1>4. UpdateType'
  BY DEF LoopInv, UpdateType, Idle, Waiting
<1> QED
  BY <1>2, <1>3, <1>4 DEF LoopInv

LEMMA LoopWarmup == LoopInv /\ WarmupFrame => LoopInv'
<1> SUFFICES ASSUME LoopInv, WarmupFrame PROVE LoopInv'
  OBVIOUS
<1>1. PICK f \in NextFrames :
        /\ frame' = f /\ activeGeneration' = f.generation
        /\ previous' = Entered(f).previous
        /\ fed' = [Entered(f).fed EXCEPT !["tracker"] = @ \cup {<<f.generation, FALSE>>}]
  BY DEF WarmupFrame
<1>2. /\ Idle /\ warmed < WarmupFrames
      /\ updating' = [left |-> 1, todo |-> Classes, missing |-> 0]
      /\ UNCHANGED <<warmed, counted, lastMeasured, spanned>>
  BY DEF WarmupFrame
<1>3. /\ f \in [seq : 0 .. MaxSeq, generation : 1 .. MaxGeneration]
      /\ f.seq > frame.seq /\ f.generation >= frame.generation
  BY NextFrameFacts DEF LoopInv
<1>4. lastMeasured.seq = 0 /\ previous = 0
  BY <1>2 DEF LoopInv, LoopType, Counting
<1>5. previous' = 0
  BY <1>1, <1>4, EnteredFacts
<1>6. LoopType'
  BY <1>1, <1>2, <1>3, <1>5, LoopAssumption DEF LoopInv, LoopType
<1>7. Counting'
  BY <1>2, <1>4, <1>5 DEF LoopInv, Counting
<1>8. UpdateType'
  BY <1>1, <1>2, <1>6, LoopAssumption DEF LoopType, UpdateType, Idle, Waiting, Least
<1>9. OneStream'
  <2> DEFINE e == Entered(f).fed
  <2>1. /\ DOMAIN e = Collaborators /\ e["rules"] = {} /\ e["clips"] = {}
        /\ e["tracker"] \subseteq {<<f.generation, FALSE>>}
    <3>1. warmed # WarmupFrames
      BY <1>2, LoopAssumption DEF LoopInv, LoopType
    <3> QED
      BY <1>2, <3>1, EnteredFacts DEF Collaborators
  <2> HIDE DEF e
  <2>2. fed' = [e EXCEPT !["tracker"] = e["tracker"] \cup {<<f.generation, FALSE>>}]
    BY <1>1 DEF e
  <2>3. /\ DOMAIN fed' = Collaborators /\ fed'["rules"] = {} /\ fed'["clips"] = {}
        /\ fed'["tracker"] \subseteq {<<f.generation, FALSE>>}
    BY <2>1, <2>2 DEF Collaborators
  <2>4. Here' = <<f.generation, FALSE>>
    <3>1. (warmed' = WarmupFrames) = FALSE
      BY <1>2, LoopAssumption DEF LoopInv, LoopType
    <3> QED
      BY <1>1, <3>1 DEF Here
  <2>5. activeGeneration' # 0
    BY <1>1, <1>3
  <2> QED
    BY <2>3, <2>4, <2>5 DEF OneStream, Collaborators
<1> QED
  BY <1>6, <1>7, <1>8, <1>9 DEF LoopInv

LEMMA LoopMeasured == LoopInv /\ MeasuredFrame => LoopInv'
<1> SUFFICES ASSUME LoopInv, MeasuredFrame PROVE LoopInv'
  OBVIOUS
<1>1. PICK f \in NextFrames :
        /\ frame' = f /\ activeGeneration' = f.generation
        /\ previous' = f.seq /\ lastMeasured' = f
        /\ counted' = [counted EXCEPT !.gaps = @ + Missing(Entered(f), f)]
        /\ updating' = [left |-> Least(Missing(Entered(f), f), TrackBuffer + 1) + 1,
                        todo |-> Classes, missing |-> Missing(Entered(f), f)]
        /\ fed' = [Entered(f).fed EXCEPT !["tracker"] = @ \cup {<<f.generation, TRUE>>}]
        /\ spanned' = IF lastMeasured.seq # 0 /\ lastMeasured.generation = f.generation
                      THEN spanned + f.seq - lastMeasured.seq - 1
                      ELSE spanned
  BY DEF MeasuredFrame
<1>2. Idle /\ warmed = WarmupFrames /\ warmed' = warmed
  BY DEF MeasuredFrame
<1>3. /\ f \in [seq : 0 .. MaxSeq, generation : 1 .. MaxGeneration]
      /\ f.seq > frame.seq /\ f.generation >= frame.generation
  BY NextFrameFacts DEF LoopInv
<1>4. Missing(Entered(f), f) \in Nat
  BY <1>3, EnteredFacts DEF Missing, LoopInv, LoopType
<1> DEFINE same == lastMeasured.seq # 0 /\ lastMeasured.generation = f.generation
<1>5. /\ counted' \in [frames : Nat, gaps : Nat] /\ spanned' \in Nat
      /\ spanned' = counted'.frames + counted'.gaps
  <2>1. CASE same
    <3>1. activeGeneration = f.generation /\ previous = lastMeasured.seq /\ previous # 0
      BY <1>3, <2>1 DEF LoopInv, LoopType, Counting
    <3>2. Entered(f).previous = lastMeasured.seq /\ lastMeasured.seq # 0
      BY <3>1, EnteredFacts DEF NewStream
    <3>3. Missing(Entered(f), f) = f.seq - lastMeasured.seq - 1
      BY <3>2 DEF Missing
    <3>4. spanned' = spanned + f.seq - lastMeasured.seq - 1
      BY <1>1, <2>1
    <3>5. /\ counted' \in [frames : Nat, gaps : Nat] /\ spanned' \in Nat
          /\ spanned' = counted'.frames + counted'.gaps
      BY <1>1, <1>3, <1>4, <3>3, <3>4 DEF LoopInv, LoopType, Counting
    <3> QED
      BY <3>5
  <2>2. CASE ~ same
    <3>1. NewStream(f) \/ previous = 0
      BY <1>3, <2>2 DEF LoopInv, LoopType, Counting, NewStream
    <3>2. Missing(Entered(f), f) = 0
      BY <3>1, EnteredFacts DEF Missing
    <3>3. spanned' = spanned
      BY <1>1, <2>2
    <3>4. /\ counted' \in [frames : Nat, gaps : Nat] /\ spanned' \in Nat
          /\ spanned' = counted'.frames + counted'.gaps
      BY <1>1, <3>2, <3>3 DEF LoopInv, LoopType, Counting
    <3> QED
      BY <3>4
  <2> QED
    BY <2>1, <2>2
<1>6. LoopType'
  BY <1>1, <1>2, <1>3, <1>5 DEF LoopInv, LoopType
<1>7. Counting'
  BY <1>1, <1>2, <1>3, <1>5 DEF LoopInv, LoopType, Counting
<1>8. UpdateType'
  <2>1. Least(Missing(Entered(f), f), TrackBuffer + 1) \in 0 .. TrackBuffer + 1
    BY <1>4, LoopAssumption DEF Least
  <2> HIDE DEF same
  <2>2. /\ updating' \in [left : 0 .. TrackBuffer + 2, todo : SUBSET Classes, missing : Nat]
        /\ updating'.left # 0
    BY <1>1, <1>4, <2>1, LoopAssumption
  <2>3. previous' = frame'.seq /\ previous' # 0
    BY <1>1, <1>3 DEF LoopInv, LoopType
  <2> QED
    BY <1>1, <1>2, <2>1, <2>2, <2>3, LoopAssumption DEF UpdateType, Idle, Least
<1>9. OneStream'
  <2>1. Here' = <<f.generation, TRUE>> /\ activeGeneration' # 0
    <3>1. (warmed' = WarmupFrames) = TRUE
      BY <1>2
    <3>2. activeGeneration' = f.generation
      BY <1>1
    <3>3. f.generation # 0
      BY <1>3
    <3> QED
      BY <3>1, <3>2, <3>3 DEF Here
  <2>2. \A c \in Collaborators : Entered(f).fed[c] \subseteq {<<f.generation, TRUE>>}
    BY <1>2, EnteredFacts
  <2> DEFINE e == Entered(f).fed
  <2>3. DOMAIN fed' = Collaborators
        /\ \A c \in Collaborators : fed'[c] \subseteq {<<f.generation, TRUE>>}
    <3>1. fed' = [e EXCEPT !["tracker"] = e["tracker"] \cup {<<f.generation, TRUE>>}]
      BY <1>1
    <3>2. DOMAIN e = Collaborators
      BY EnteredFacts
    <3> HIDE DEF e
    <3> QED
      BY <2>2, <3>1, <3>2 DEF Collaborators, e
  <2>4. ~ warmed' < WarmupFrames
    BY <1>2, LoopAssumption
  <2> QED
    BY <1>1, <2>1, <2>3, <2>4 DEF OneStream
<1> QED
  BY <1>6, <1>7, <1>8, <1>9 DEF LoopInv

LEMMA LoopUpdating == LoopInv /\ (UpdateClass \/ NextUpdate) => LoopInv'
<1> SUFFICES ASSUME LoopInv, UpdateClass \/ NextUpdate PROVE LoopInv'
  OBVIOUS
<1> DEFINE left == updating.left
           todo == updating.todo
           missing == updating.missing
<1>0. /\ updating = [left |-> left, todo |-> todo, missing |-> missing]
      /\ left \in 0 .. TrackBuffer + 2 /\ todo \subseteq Classes /\ missing \in Nat
  BY DEF LoopInv, UpdateType
<1>1. /\ UNCHANGED <<frame, activeGeneration, previous, warmed, counted, fed,
                     lastMeasured, spanned>>
      /\ left # 0
      /\ \E l \in 1 .. left, t \in SUBSET Classes :
           updating' = [left |-> l, todo |-> t, missing |-> missing]
  <2>1. CASE UpdateClass
    <3>1. updating.todo # {} /\ UNCHANGED <<frame, activeGeneration, previous, warmed,
                                           counted, fed, lastMeasured, spanned>>
      BY <2>1 DEF UpdateClass
    <3>2. left # 0
      BY <3>1 DEF LoopInv, UpdateType, Idle, Waiting
    <3>3. PICK class \in todo : updating' = [updating EXCEPT !.todo = todo \ {class}]
      BY <2>1 DEF UpdateClass
    <3>4. updating' = [left |-> left, todo |-> todo \ {class}, missing |-> missing]
      BY <1>0, <3>3
    <3>5. left \in 1 .. left /\ todo \ {class} \in SUBSET Classes
      BY <1>0, <3>2, LoopAssumption
    <3> QED
      BY <3>1, <3>2, <3>4, <3>5
  <2>2. CASE NextUpdate
    <3>1. /\ left > 1 /\ updating' = [updating EXCEPT !.left = left - 1, !.todo = Classes]
          /\ UNCHANGED <<frame, activeGeneration, previous, warmed, counted, fed,
                         lastMeasured, spanned>>
      BY <2>2 DEF NextUpdate
    <3>2. updating' = [left |-> left - 1, todo |-> Classes, missing |-> missing]
      BY <1>0, <3>1
    <3>3. left - 1 \in 1 .. left /\ left # 0
      BY <1>0, <3>1, LoopAssumption
    <3> QED
      BY <3>1, <3>2, <3>3
  <2> QED
    BY <2>1, <2>2
<1>2. (LoopType /\ OneStream /\ Counting)'
  BY <1>1 DEF LoopInv, LoopType, OneStream, Counting, Here
<1>3. UpdateType'
  <2>1. PICK l \in 1 .. left, t \in SUBSET Classes :
          updating' = [left |-> l, todo |-> t, missing |-> missing]
    BY <1>1
  <2>2. /\ updating'.missing = missing /\ updating'.left = l
        /\ l \in 1 .. TrackBuffer + 2 /\ l <= left
        /\ updating' \in [left : 0 .. TrackBuffer + 2, todo : SUBSET Classes, missing : Nat]
    BY <1>0, <2>1, LoopAssumption
  <2>3. Least(missing, TrackBuffer + 1) \in Nat /\ left <= Least(missing, TrackBuffer + 1) + 1
    BY <1>0, LoopAssumption DEF LoopInv, UpdateType, Least
  <2>4. l <= Least(missing, TrackBuffer + 1) + 1
    BY <1>0, <2>2, <2>3, LoopAssumption
  <2>5. warmed < WarmupFrames => l = 1 /\ missing = 0
    BY <1>0, <1>1, <2>2 DEF LoopInv, UpdateType, Idle
  <2> HIDE DEF missing, left
  <2> QED
    BY <1>1, <2>2, <2>4, <2>5, LoopAssumption DEF LoopInv, UpdateType, Idle, missing, left
<1> QED
  BY <1>2, <1>3 DEF LoopInv

LEMMA LoopWarmed == LoopInv /\ WarmupTracked => LoopInv'
<1> SUFFICES ASSUME LoopInv, WarmupTracked PROVE LoopInv'
  OBVIOUS
<1> DEFINE last == warmed + 1 = WarmupFrames
<1>1. /\ updating' = Waiting /\ ~ Idle
      /\ warmed < WarmupFrames /\ warmed' = warmed + 1
      /\ previous' = IF last THEN 0 ELSE previous
      /\ fed' = IF last THEN [fed EXCEPT !["tracker"] = {}, !["rules"] = {}] ELSE fed
      /\ UNCHANGED <<frame, activeGeneration, counted, lastMeasured, spanned>>
  BY DEF WarmupTracked, Idle
<1>2. warmed' \in 0 .. WarmupFrames /\ (last => warmed < WarmupFrames)
  BY <1>1, LoopAssumption DEF LoopInv, LoopType
<1>3. previous' = previous
  BY <1>1, <1>2 DEF LoopInv, LoopType, Counting
<1>4. LoopType'
  BY <1>1, <1>2, <1>3 DEF LoopInv, LoopType
<1>5. Counting'
  BY <1>1, <1>2, <1>3, LoopAssumption DEF LoopInv, LoopType, Counting
<1>6. UpdateType'
  BY <1>1, LoopAssumption DEF UpdateType, Waiting, Idle, Least
<1>7. OneStream'
  <2>1. CASE last
    <3>1. fed' = [fed EXCEPT !["tracker"] = {}, !["rules"] = {}]
      BY <1>1, <2>1
    <3>2. DOMAIN fed' = Collaborators /\ \A c \in Collaborators : fed'[c] = {}
      BY <1>2, <2>1, <3>1 DEF LoopInv, OneStream, Collaborators
    <3> QED
      BY <3>2 DEF OneStream, Collaborators
  <2>2. CASE ~ last
    <3>1. fed' = fed /\ Here' = Here /\ (warmed' < WarmupFrames <=> warmed < WarmupFrames)
      BY <1>1, <2>2, LoopAssumption DEF Here, LoopInv, LoopType
    <3> QED
      BY <1>1, <3>1 DEF LoopInv, OneStream
  <2> QED
    BY <2>1, <2>2
<1> QED
  BY <1>4, <1>5, <1>6, <1>7 DEF LoopInv

LEMMA LoopRecorded == LoopInv /\ MeasuredTracked => LoopInv'
<1> SUFFICES ASSUME LoopInv, MeasuredTracked PROVE LoopInv'
  OBVIOUS
<1> DEFINE here == <<frame.generation, TRUE>>
<1>1. /\ updating' = Waiting /\ ~ Idle /\ warmed = WarmupFrames
      /\ fed' = [fed EXCEPT !["rules"] = fed["rules"] \cup {here},
                            !["clips"] = fed["clips"] \cup {here}]
      /\ counted' = [counted EXCEPT !.frames = counted.frames + 1]
      /\ spanned' = spanned + 1
      /\ UNCHANGED <<frame, activeGeneration, previous, warmed, lastMeasured>>
  BY DEF MeasuredTracked, Idle
<1>2. (LoopType /\ Counting)'
  <2>1. /\ counted' \in [frames : Nat, gaps : Nat] /\ spanned' \in Nat
        /\ spanned' = counted'.frames + counted'.gaps
    BY <1>1 DEF LoopInv, LoopType, Counting
  <2> QED
    BY <1>1, <2>1 DEF LoopInv, LoopType, Counting
<1>3. UpdateType'
  BY <1>1, LoopAssumption DEF UpdateType, Waiting, Idle, Least
<1>4. Here' = here /\ Here = here /\ activeGeneration' # 0
  <2>1. (warmed = WarmupFrames) = TRUE /\ frame.generation = activeGeneration
        /\ frame.generation # 0
    BY <1>1 DEF LoopInv, LoopType, UpdateType
  <2> QED
    BY <1>1, <2>1 DEF Here
<1>5. DOMAIN fed' = Collaborators /\ \A c \in Collaborators : fed'[c] \subseteq {here}
  <2>1. DOMAIN fed = Collaborators /\ \A c \in Collaborators : fed[c] \subseteq {here}
    BY <1>4 DEF LoopInv, OneStream
  <2> HIDE DEF here
  <2> QED
    BY <1>1, <2>1 DEF Collaborators
<1>6. ~ warmed' < WarmupFrames
  BY <1>1, LoopAssumption
<1> QED
  BY <1>2, <1>3, <1>4, <1>5, <1>6 DEF LoopInv, OneStream

LEMMA LoopStep == LoopInv /\ [Next]_vars => LoopInv'
<1> SUFFICES ASSUME LoopInv, [Next]_vars PROVE LoopInv'
  OBVIOUS
<1>1. CASE InvalidFrame
  BY <1>1, LoopInvalid
<1>2. CASE WarmupFrame
  BY <1>2, LoopWarmup
<1>3. CASE MeasuredFrame
  BY <1>3, LoopMeasured
<1>4. CASE UpdateClass \/ NextUpdate
  BY <1>4, LoopUpdating
<1>5. CASE WarmupTracked \/ MeasuredTracked
  BY <1>5, LoopWarmed, LoopRecorded
<1>6. CASE UNCHANGED vars
  BY <1>6 DEF vars, LoopInv, LoopType, UpdateType, Idle, Waiting, OneStream, Counting, Here
<1> QED
  BY <1>1, <1>2, <1>3, <1>4, <1>5, <1>6 DEF Next, Over

\* Tracker, rules and clip writer never hold frames of two streams or of the warm-up
\* and after it, and every number from a stretch's first measured frame to its last
\* is counted once, as a frame or as missing (FrameLoop, OneStreamEach).
THEOREM StreamsStayApart == Spec => []OneStreamEach
<1>1. LoopInv => OneStreamEach
  <2> SUFFICES ASSUME LoopInv PROVE OneStreamEach
    OBVIOUS
  <2>1. ASSUME NEW c \in Collaborators PROVE Cardinality(fed[c]) <= 1
    <3>1. IsFiniteSet({Here}) /\ Cardinality({Here}) = 1
      BY FS_Singleton
    <3>2. fed[c] \subseteq {Here}
      BY DEF LoopInv, OneStream
    <3> QED
      BY <3>1, <3>2, FS_Subset
  <2>2. counted.frames + counted.gaps = spanned
    BY DEF LoopInv, Counting
  <2> QED
    BY <2>1, <2>2 DEF OneStreamEach
<1> QED
  BY <1>1, LoopInit, LoopStep, PTL DEF Spec
-----------------------------------------------------------------------------
(* One class's tracker                                                     *)

\* The updates after its last match that a lost track is not yet expired in.
Lapse == IF MaxTimeLost = 0 THEN 1 ELSE MaxTimeLost

\* The tracks of a tracker have numbers of their own, and a lost one is not kept
\* beyond the update after the one it expired in.
WellKept(tracker, next) ==
  /\ tracker.frame \in Nat
  /\ tracker.tracks \subseteq [id : 1 .. next - 1, state : States,
                               start : 1 .. tracker.frame, end : 1 .. tracker.frame]
  /\ tracker.removed \subseteq 1 .. next - 1
  /\ \A t, u \in tracker.tracks : t.id = u.id => t = u
  /\ \A t \in tracker.tracks :
       IF t.state = "lost"
       THEN tracker.frame - t.end <= Lapse + (IF t.id \in tracker.removed THEN 1 ELSE 0)
       ELSE t.end = tracker.frame

\* After an update a track is new, found again, or as lost as it was.
Continues(t, old) ==
  /\ t.state # "unconfirmed"
  /\ \E u \in old.tracks :
       /\ u.id = t.id
       /\ t.state = "lost" => u.state # "unconfirmed" /\ t.end = u.end

Follows(new, newNext, old, next) ==
  /\ newNext \in Nat /\ newNext >= next
  /\ new.frame = old.frame + 1
  /\ \A t \in new.tracks :
       \/ t.id \in next .. newNext - 1 /\ t.state # "lost"
       \/ Continues(t, old)

LEMMA LapseFacts ==
  /\ Lapse \in Nat \ {0} /\ MaxTimeLost <= Lapse /\ Patience = Lapse + 2
  /\ MaxTimeLost <= TrackBuffer => Lapse <= TrackBuffer
BY ScoreAssumption, LoopAssumption DEF Lapse, Patience

LEMMA MatchingFacts ==
  ASSUME NEW a, NEW b, NEW m \in Matchings(a, b)
  PROVE  DOMAIN m \subseteq a /\ (b = {} => DOMAIN m = {})
<1>1. PICK s \in SUBSET a : m \in {g \in [s -> b] : IsInjective(g)}
  BY DEF Matchings
<1>2. m \in [s -> b]
  BY <1>1
<1> QED
  BY <1>2

\* Counting the smaller ones numbers the elements of a set from 0.
LEMMA RankFacts ==
  ASSUME NEW objects, objects \subseteq Nat, IsFiniteSet(objects)
  PROVE  /\ Cardinality(objects) \in Nat
         /\ \A o \in objects :
              Cardinality({p \in objects : p < o}) \in 0 .. Cardinality(objects) - 1
         /\ \A o, q \in objects :
              Cardinality({p \in objects : p < o}) = Cardinality({p \in objects : p < q})
                => o = q
<1> DEFINE Below(o) == {p \in objects : p < o}
<1>1. \A o \in objects : IsFiniteSet(Below(o)) /\ Cardinality(Below(o)) \in Nat
  <2> SUFFICES ASSUME NEW o \in objects
               PROVE  IsFiniteSet(Below(o)) /\ Cardinality(Below(o)) \in Nat
    OBVIOUS
  <2>1. Below(o) \in SUBSET objects
    OBVIOUS
  <2> QED
    BY <2>1, FS_Subset, FS_CardinalityType
<1>2. Cardinality(objects) \in Nat
  BY FS_CardinalityType
<1>3. ASSUME NEW o \in objects
      PROVE  Cardinality(Below(o)) \in 0 .. Cardinality(objects) - 1
  <2>1. Below(o) \in SUBSET objects /\ o \notin Below(o)
    OBVIOUS
  <2> HIDE DEF Below
  <2>2. Below(o) # objects
    BY <2>1
  <2>3. Cardinality(Below(o)) <= Cardinality(objects)
    BY <2>1, FS_Subset
  <2>4. Cardinality(Below(o)) # Cardinality(objects)
    BY <2>1, <2>2, FS_Subset
  <2> QED
    BY <1>1, <1>2, <2>3, <2>4
<1>4. ASSUME NEW o \in objects, NEW q \in objects, o < q
      PROVE  Cardinality(Below(o)) # Cardinality(Below(q))
  <2>1. \A p \in objects : p \in Nat /\ (p < o => p < q)
    BY <1>4
  <2>2. Below(o) \in SUBSET Below(q)
    BY <2>1
  <2>3. o \notin Below(o) /\ o \in Below(q)
    BY <1>4, <2>1
  <2> HIDE DEF Below
  <2>4. Below(o) # Below(q)
    BY <2>3
  <2> QED
    BY <1>1, <2>2, <2>4, FS_Subset
<1>5. ASSUME NEW o \in objects, NEW q \in objects,
             Cardinality(Below(o)) = Cardinality(Below(q))
      PROVE  o = q
  <2>1. ~ o < q /\ ~ q < o
    BY <1>4, <1>5
  <2>2. o \in Nat /\ q \in Nat
    OBVIOUS
  <2> QED
    BY <2>1, <2>2
<1> QED
  BY <1>2, <1>3, <1>5

LEMMA BornFacts ==
  ASSUME NEW objects, objects \subseteq Nat, IsFiniteSet(objects),
         NEW next \in Nat \ {0}, NEW now \in Nat \ {0}
  PROVE  /\ next + Cardinality(objects) \in Nat \ {0}
         /\ \A t \in Born(objects, next, now) :
              /\ t \in [id : next .. next + Cardinality(objects) - 1,
                        state : {"tracked", "unconfirmed"}, start : {now}, end : {now}]
              /\ \A u \in Born(objects, next, now) : t.id = u.id => t = u
<1> DEFINE rank(o) == Cardinality({p \in objects : p < o})
           born(o) == [id |-> next + rank(o),
                       state |-> IF now = 1 THEN "tracked" ELSE "unconfirmed",
                       start |-> now, end |-> now]
<1>1. /\ Cardinality(objects) \in Nat
      /\ \A o \in objects : rank(o) \in 0 .. Cardinality(objects) - 1
      /\ \A o, q \in objects : rank(o) = rank(q) => o = q
  BY RankFacts
<1>2. Born(objects, next, now) = {born(o) : o \in objects}
  BY DEF Born
<1> HIDE DEF rank
<1>3. ASSUME NEW t \in Born(objects, next, now), NEW u \in Born(objects, next, now)
      PROVE  /\ t \in [id : next .. next + Cardinality(objects) - 1,
                       state : {"tracked", "unconfirmed"}, start : {now}, end : {now}]
             /\ t.id = u.id => t = u
  <2>1. PICK o \in objects : t = born(o)
    BY <1>2
  <2>2. PICK q \in objects : u = born(q)
    BY <1>2
  <2>3. rank(o) \in 0 .. Cardinality(objects) - 1 /\ rank(q) \in Nat
    BY <1>1
  <2>4. next + rank(o) \in next .. next + Cardinality(objects) - 1
    BY <1>1, <2>3
  <2>5. t.id = u.id => o = q
    BY <1>1, <2>1, <2>2, <2>3
  <2> QED
    BY <2>1, <2>2, <2>4, <2>5
<1> QED
  BY <1>1, <1>3

\* What the choices of one update are, and what becomes of a track.
LEMMA OutcomeFacts ==
  ASSUME NEW tracker, NEW next \in Nat \ {0}, WellKept(tracker, next),
         NEW score, DOMAIN score \subseteq Nat, IsFiniteSet(DOMAIN score),
         NEW first, NEW second, NEW third,
         DOMAIN first \subseteq InState(tracker, "tracked") \cup InState(tracker, "lost"),
         DOMAIN second \subseteq InState(tracker, "tracked") \ DOMAIN first,
         DOMAIN third \subseteq InState(tracker, "unconfirmed")
  PROVE  LET o == Outcome(tracker, score, next, first, second, third) IN
         /\ WellKept(o.tracker, o.next)
         /\ Follows(o.tracker, o.next, tracker, next)
         /\ DOMAIN first = {} /\ DOMAIN second = {} /\ DOMAIN third = {} /\ DOMAIN score = {}
              => InState(o.tracker, "tracked") = {}
<1> SUFFICES ASSUME NEW o, o = Outcome(tracker, score, next, first, second, third)
             PROVE  /\ WellKept(o.tracker, o.next)
                    /\ Follows(o.tracker, o.next, tracker, next)
                    /\ /\ DOMAIN first = {} /\ DOMAIN second = {}
                       /\ DOMAIN third = {} /\ DOMAIN score = {}
                       => InState(o.tracker, "tracked") = {}
  OBVIOUS
<1> DEFINE now == tracker.frame + 1
           confirmed == InState(tracker, "tracked")
           lost == InState(tracker, "lost")
           matched == DOMAIN first \cup DOMAIN second \cup DOMAIN third
           over == {p \in DOMAIN score \ (Range(first) \cup Range(third)) : score[p] = "new"}
           again(t) == [t EXCEPT !.state = "tracked", !.end = now]
           born == Born(over, next, now)
           missed == {[t EXCEPT !.state = "lost"] : t \in confirmed \ matched}
           stay == {t \in (lost \ matched) \cup missed : t.id \notin tracker.removed}
           tracks == ({again(t) : t \in matched} \cup born) \cup stay
           removed == (tracker.removed \cup Ids(Expired(lost \ matched, now))) \cap Ids(tracks)
<1>0. o.next = next + Cardinality(over)
  BY DEF Outcome
<1>1. /\ o.tracker.frame = now
      /\ o.tracker.tracks = tracks /\ o.tracker.removed = removed
  BY DEF Outcome
<1>2. now \in Nat \ {0} /\ now = tracker.frame + 1 /\ tracker.frame \in Nat
  BY DEF WellKept
<1>3. over \subseteq Nat /\ IsFiniteSet(over)
  <2>1. over \in SUBSET DOMAIN score
    OBVIOUS
  <2> QED
    BY <2>1, FS_Subset
<1>4. /\ next + Cardinality(over) \in Nat \ {0}
      /\ \A t \in born : /\ t \in [id : next .. next + Cardinality(over) - 1,
                                   state : {"tracked", "unconfirmed"},
                                   start : {now}, end : {now}]
                         /\ \A u \in born : t.id = u.id => t = u
  <2> HIDE DEF over, now
  <2> QED
    BY <1>2, <1>3, BornFacts
<1>5. /\ \A t \in born : t \in [id : next .. o.next - 1, state : {"tracked", "unconfirmed"},
                             start : {now}, end : {now}]
      /\ \A t, u \in born : t.id = u.id => t = u
  <2> HIDE DEF over, now, born
  <2>1. Cardinality(over) \in Nat
    BY <1>3, FS_CardinalityType
  <2>2. next + Cardinality(over) - 1 = o.next - 1
    BY <1>0, <2>1
  <2> QED
    BY <1>4, <2>2
<1>6. o.next \in Nat \ {0} /\ o.next >= next
  <2>1. Cardinality(over) \in Nat
    BY <1>3, FS_CardinalityType
  <2> HIDE DEF over
  <2> QED
    BY <1>0, <2>1
<1>7. ASSUME NEW t \in tracker.tracks
      PROVE  /\ t \in [id : 1 .. next - 1, state : States,
                       start : 1 .. tracker.frame, end : 1 .. tracker.frame]
             /\ \A u \in tracker.tracks : t.id = u.id => t = u
             /\ t.state # "lost" => t.end = tracker.frame
             /\ t.state = "lost" /\ t.id \notin tracker.removed
                  => tracker.frame - t.end <= Lapse
  BY LapseFacts DEF WellKept, States
<1>8. /\ matched \subseteq tracker.tracks /\ confirmed \subseteq tracker.tracks
      /\ lost \subseteq tracker.tracks
      /\ \A t \in confirmed : t.state = "tracked"
      /\ \A t \in lost : t.state = "lost"
  BY DEF InState
\* Every track of the outcome, with the one it comes from.
<1>9. ASSUME NEW t \in tracks
      PROVE  \/ t \in born
             \/ \E u \in matched : t = again(u)
             \/ /\ t.id \notin tracker.removed /\ t \in lost \ matched
             \/ /\ t.id \notin tracker.removed
                /\ \E u \in confirmed \ matched : t = [u EXCEPT !.state = "lost"]
  OBVIOUS
<1> HIDE DEF over, born, matched, confirmed, lost, now, removed, stay, tracks, missed
<1>10. ASSUME NEW t \in tracks, t \notin born
      PROVE  \E u \in tracker.tracks :
               /\ u.id = t.id
               /\ \/ u \in matched /\ t = again(u)
                  \/ /\ u \notin matched /\ t.id \notin tracker.removed
                     /\ \/ t = u /\ u \in lost
                        \/ u \in confirmed /\ t = [u EXCEPT !.state = "lost"]
  <2>1. CASE \E u \in matched : t = again(u)
    <3>1. PICK u \in matched : t = again(u)
      BY <2>1
    <3>2. u \in tracker.tracks
      BY <1>8
    <3>3. u.id = t.id
      BY <1>7, <3>1, <3>2
    <3> QED
      BY <3>1, <3>2, <3>3
  <2>2. CASE t.id \notin tracker.removed /\ t \in lost \ matched
    BY <1>8, <2>2
  <2>3. CASE /\ t.id \notin tracker.removed
             /\ \E u \in confirmed \ matched : t = [u EXCEPT !.state = "lost"]
    <3>1. PICK u \in confirmed \ matched : t = [u EXCEPT !.state = "lost"]
      BY <2>3
    <3>2. u \in tracker.tracks
      BY <1>8
    <3>3. u.id = t.id
      BY <1>7, <3>1, <3>2
    <3> QED
      BY <2>3, <3>1, <3>2, <3>3
  <2> QED
    BY <1>9, <1>10, <2>1, <2>2, <2>3
<1>11. ASSUME NEW t \in tracks
       PROVE  /\ t \in [id : 1 .. o.next - 1, state : States, start : 1 .. now, end : 1 .. now]
              /\ t \notin born => t.id \in 1 .. next - 1
              /\ t.state # "lost" => t.end = now
              /\ t.state = "lost" /\ t.id \notin o.tracker.removed => now - t.end <= Lapse
              /\ t.state = "lost" => now - t.end <= Lapse + 1
              /\ \/ t.id \in next .. o.next - 1 /\ t.state # "lost"
                 \/ Continues(t, tracker)
  <2>1. CASE t \in born
    <3>1. t \in [id : next .. o.next - 1, state : {"tracked", "unconfirmed"},
                 start : {now}, end : {now}]
      BY <1>5, <2>1
    <3> QED
      BY <1>2, <1>6, <2>1, <3>1 DEF States
  <2>2. CASE t \notin born
    <3>1. PICK u \in tracker.tracks :
            /\ u.id = t.id
            /\ \/ u \in matched /\ t = again(u)
               \/ /\ u \notin matched /\ t.id \notin tracker.removed
                  /\ \/ t = u /\ u \in lost
                     \/ u \in confirmed /\ t = [u EXCEPT !.state = "lost"]
      BY <1>10, <2>2
    <3>2. /\ u \in [id : 1 .. next - 1, state : States,
                    start : 1 .. tracker.frame, end : 1 .. tracker.frame]
          /\ u.state # "lost" => u.end = tracker.frame
          /\ u.state = "lost" /\ u.id \notin tracker.removed
               => tracker.frame - u.end <= Lapse
      BY <1>7
    <3>3. t.id \in 1 .. next - 1 /\ t.id \in 1 .. o.next - 1
      BY <1>6, <3>1, <3>2
    <3>4. CASE u \in matched /\ t = again(u)
      <4>1. t \in [id : {u.id}, state : {"tracked"}, start : {u.start}, end : {now}]
        BY <3>2, <3>4
      <4>2. Continues(t, tracker)
        BY <3>1, <4>1 DEF Continues
      <4> QED
        BY <1>2, <3>2, <3>3, <4>1, <4>2 DEF States
    <3>5. CASE /\ u \notin matched /\ t.id \notin tracker.removed
               /\ t = u /\ u \in lost
      <4>1. u.state = "lost" /\ tracker.frame - u.end <= Lapse
        BY <1>8, <3>2, <3>5
      <4>2. now - t.end <= Lapse + 1
        BY <1>2, <3>2, <3>5, <4>1, LapseFacts
      <4>3. ASSUME t.id \notin o.tracker.removed PROVE now - t.end <= Lapse
        <5>1. t.id \in Ids(tracks)
          BY DEF Ids
        <5>2. t \notin Expired(lost \ matched, now)
          BY <1>1, <4>3, <5>1 DEF Ids, removed
        <5>3. ~ now - t.end > MaxTimeLost
          BY <3>5, <5>2 DEF Expired
        <5> QED
          BY <1>2, <3>2, <3>5, <5>3, LapseFacts, ScoreAssumption
      <4>4. Continues(t, tracker)
        BY <3>5, <4>1 DEF Continues
      <4> QED
        BY <1>2, <3>2, <3>3, <3>5, <4>1, <4>2, <4>3, <4>4
    <3>6. CASE u \in confirmed /\ t = [u EXCEPT !.state = "lost"]
      <4>1. /\ u.state = "tracked" /\ u.end = tracker.frame
            /\ t \in [id : {u.id}, state : {"lost"}, start : {u.start}, end : {u.end}]
        BY <1>8, <3>2, <3>6
      <4>2. Continues(t, tracker)
        BY <3>1, <4>1 DEF Continues
      <4>3. now - t.end = 1
        BY <1>2, <4>1
      <4> QED
        BY <1>2, <3>2, <3>3, <4>1, <4>2, <4>3, LapseFacts DEF States
    <3> QED
      BY <3>1, <3>4, <3>5, <3>6
  <2> QED
    BY <2>1, <2>2
<1>12. ASSUME NEW t \in tracks, NEW v \in tracks, t.id = v.id
       PROVE  t = v
  <2>1. CASE t \in born \/ v \in born
    <3>1. t \in born /\ v \in born
      BY <1>5, <1>11, <1>12, <2>1
    <3> QED
      BY <1>5, <1>12, <3>1
  <2>2. CASE t \notin born /\ v \notin born
    <3>1. PICK u \in tracker.tracks :
            /\ u.id = t.id
            /\ \/ u \in matched /\ t = again(u)
               \/ /\ u \notin matched /\ t.id \notin tracker.removed
                  /\ \/ t = u /\ u \in lost
                     \/ u \in confirmed /\ t = [u EXCEPT !.state = "lost"]
      BY <1>10, <2>2
    <3>2. PICK w \in tracker.tracks :
            /\ w.id = v.id
            /\ \/ w \in matched /\ v = again(w)
               \/ /\ w \notin matched /\ v.id \notin tracker.removed
                  /\ \/ v = w /\ w \in lost
                     \/ w \in confirmed /\ v = [w EXCEPT !.state = "lost"]
      BY <1>10, <2>2
    <3>3. u = w
      BY <1>7, <1>12, <3>1, <3>2
    <3>4. ~ (u \in lost /\ u \in confirmed)
      BY <1>8
    <3> HIDE DEF again
    <3> QED
      BY <3>1, <3>2, <3>3, <3>4
  <2> QED
    BY <2>1, <2>2
<1>13. o.tracker.removed \subseteq 1 .. o.next - 1
  <2>1. ASSUME NEW id \in removed PROVE id \in 1 .. o.next - 1
    <3>1. PICK t \in tracks : id = t.id
      BY DEF removed, Ids
    <3> QED
      BY <1>11, <3>1
  <2> QED
    BY <1>1, <2>1
<1>14. WellKept(o.tracker, o.next)
  <2>1. /\ o.tracker.frame \in Nat
        /\ o.tracker.tracks \subseteq [id : 1 .. o.next - 1, state : States,
                                       start : 1 .. o.tracker.frame,
                                       end : 1 .. o.tracker.frame]
    BY <1>1, <1>2, <1>11
  <2>2. \A t, u \in o.tracker.tracks : t.id = u.id => t = u
    BY <1>1, <1>12
  <2>3. \A t \in o.tracker.tracks :
          IF t.state = "lost"
          THEN o.tracker.frame - t.end
                 <= Lapse + (IF t.id \in o.tracker.removed THEN 1 ELSE 0)
          ELSE t.end = o.tracker.frame
    <3> SUFFICES ASSUME NEW t \in tracks
                 PROVE  IF t.state = "lost"
                        THEN now - t.end
                               <= Lapse + (IF t.id \in o.tracker.removed THEN 1 ELSE 0)
                        ELSE t.end = now
      BY <1>1
    <3> QED
      BY <1>11, LapseFacts
  <2> QED
    BY <1>13, <2>1, <2>2, <2>3 DEF WellKept
<1>15. ASSUME DOMAIN first = {}, DOMAIN second = {}, DOMAIN third = {}, DOMAIN score = {}
       PROVE  InState(o.tracker, "tracked") = {}
  <2>1. matched = {} /\ over = {}
    BY <1>15 DEF matched, over
  <2>2. born = {}
    BY <2>1 DEF born, Born
  <2>3. ASSUME NEW t \in tracks PROVE t.state = "lost"
    <3>1. PICK u \in tracker.tracks :
            \/ t = u /\ u \in lost
            \/ u \in confirmed /\ t = [u EXCEPT !.state = "lost"]
      BY <1>10, <2>1, <2>2
    <3> QED
      BY <1>7, <1>8, <3>1
  <2> QED
    BY <1>1, <2>3 DEF InState
<1> QED
  BY <1>1, <1>2, <1>6, <1>11, <1>14, <1>15 DEF Follows

LEMMA WellKeptLater ==
  ASSUME NEW tracker, NEW next \in Nat, NEW later \in Nat, next <= later,
         WellKept(tracker, next)
  PROVE  WellKept(tracker, later)
<1>1. 1 .. next - 1 \subseteq 1 .. later - 1
  OBVIOUS
<1>2. tracker.tracks \subseteq [id : 1 .. later - 1, state : States,
                                start : 1 .. tracker.frame, end : 1 .. tracker.frame]
  <2>1. tracker.tracks \subseteq [id : 1 .. next - 1, state : States,
                                  start : 1 .. tracker.frame, end : 1 .. tracker.frame]
    BY DEF WellKept
  <2> QED
    BY <1>1, <2>1
<1> QED
  BY <1>1, <1>2 DEF WellKept

\* Leaving out duplicates leaves what remains as it is.
LEMMA DeduplicatedFacts ==
  ASSUME NEW tracker, NEW next, NEW old, NEW oldNext,
         WellKept(tracker, next), Follows(tracker, next, old, oldNext),
         NEW new \in Deduplicated(tracker),
         tracker = [frame |-> tracker.frame, tracks |-> tracker.tracks,
                    removed |-> tracker.removed]
  PROVE  /\ WellKept(new, next) /\ Follows(new, next, old, oldNext)
         /\ InState(tracker, "tracked") = {} => InState(new, "tracked") = {}
<1>1. PICK same : new = [tracker EXCEPT !.tracks = WithoutDuplicates(tracker.tracks, same)]
  BY DEF Deduplicated
<1>2. new.tracks \subseteq tracker.tracks /\ new.frame = tracker.frame
      /\ new.removed = tracker.removed
  BY <1>1 DEF WithoutDuplicates
<1> QED
  BY <1>2 DEF WellKept, Follows, InState

\* One class's turn: its tracker is updated, the others are left alone.
LEMMA ClassUpdatedFacts ==
  ASSUME NEW state, state.next \in Nat \ {0}, NEW class,
         class \in DOMAIN state.trackers => WellKept(state.trackers[class], state.next),
         NEW score, DOMAIN score \subseteq Nat, IsFiniteSet(DOMAIN score),
         NEW new \in ClassUpdated(state, class, score)
  PROVE  /\ \/ new = state /\ class \notin DOMAIN state.trackers
            \/ /\ DOMAIN new.trackers = DOMAIN state.trackers \cup {class}
               /\ \A c \in DOMAIN state.trackers :
                    c # class => new.trackers[c] = state.trackers[c]
               /\ new = [trackers |-> new.trackers, next |-> new.next]
               /\ WellKept(new.trackers[class], new.next)
               /\ Follows(new.trackers[class], new.next, TrackerOf(state, class), state.next)
         /\ DOMAIN score = {} => Found(new, class) = {}
<1> DEFINE old == TrackerOf(state, class)
           Turned(tracker, next) ==
             [trackers |-> [c \in DOMAIN state.trackers \cup {class} |->
                              IF c = class THEN tracker ELSE state.trackers[c]],
              next |-> next]
<1>1. CASE class \notin DOMAIN state.trackers /\ DOMAIN score = {}
  <2>1. new = state
    BY <1>1 DEF ClassUpdated
  <2> QED
    BY <1>1, <2>1 DEF Found
<1>2. CASE ~ (class \notin DOMAIN state.trackers /\ DOMAIN score = {})
  <2>1. PICK o \in Outcomes(old, score, state.next) :
          \E tracker \in Deduplicated(o.tracker) : new = Turned(tracker, o.next)
    BY <1>2 DEF ClassUpdated
  <2>2. PICK tracker \in Deduplicated(o.tracker) :
          new = Turned(tracker, o.next)
    BY <2>1
  <2>3. WellKept(old, state.next)
    BY DEF TrackerOf, NewTracker, WellKept
  <2> DEFINE confirmed == InState(old, "tracked")
             sure == {p \in DOMAIN score : score[p] # "low"}
             doubtful == DOMAIN score \ sure
             Thirds(first, second) ==
               {Outcome(old, score, state.next, first, second, third) :
                  third \in Matchings(InState(old, "unconfirmed"), sure \ Range(first))}
             Seconds(first) ==
               UNION {Thirds(first, second) :
                        second \in Matchings(confirmed \ DOMAIN first, doubtful)}
  <2>4. o \in UNION {Seconds(first) :
                       first \in Matchings(confirmed \cup InState(old, "lost"), sure)}
    BY DEF Outcomes
  <2> HIDE DEF old
  <2>5. PICK first \in Matchings(confirmed \cup InState(old, "lost"), sure) :
          o \in Seconds(first)
    BY <2>4
  <2>6. PICK second \in Matchings(confirmed \ DOMAIN first, doubtful) :
          o \in Thirds(first, second)
    BY <2>5
  <2>7. PICK third \in Matchings(InState(old, "unconfirmed"), sure \ Range(first)) :
          o = Outcome(old, score, state.next, first, second, third)
    BY <2>6
  <2>8. /\ DOMAIN first \subseteq InState(old, "tracked") \cup InState(old, "lost")
        /\ DOMAIN second \subseteq InState(old, "tracked") \ DOMAIN first
        /\ DOMAIN third \subseteq InState(old, "unconfirmed")
    BY MatchingFacts
  <2>9. DOMAIN score = {} => DOMAIN first = {} /\ DOMAIN second = {} /\ DOMAIN third = {}
    <3>1. DOMAIN score = {} => sure = {} /\ doubtful = {} /\ sure \ Range(first) = {}
      OBVIOUS
    <3> HIDE DEF sure, doubtful, confirmed
    <3> QED
      BY <3>1, MatchingFacts
  <2> HIDE DEF confirmed, sure, doubtful, Thirds, Seconds, Turned
  <2>10. /\ WellKept(o.tracker, o.next) /\ Follows(o.tracker, o.next, old, state.next)
         /\ DOMAIN score = {} => InState(o.tracker, "tracked") = {}
    BY <2>3, <2>7, <2>8, <2>9, OutcomeFacts
  <2>11. o.tracker = [frame |-> o.tracker.frame, tracks |-> o.tracker.tracks,
                     removed |-> o.tracker.removed]
    BY <2>7 DEF Outcome
  <2>12. /\ WellKept(tracker, o.next) /\ Follows(tracker, o.next, old, state.next)
         /\ DOMAIN score = {} => InState(tracker, "tracked") = {}
    BY <2>2, <2>10, <2>11, DeduplicatedFacts
  <2>13. /\ new = [trackers |-> new.trackers, next |-> new.next]
         /\ new.next = o.next /\ new.trackers[class] = tracker
         /\ DOMAIN new.trackers = DOMAIN state.trackers \cup {class}
         /\ \A c \in DOMAIN state.trackers : c # class => new.trackers[c] = state.trackers[c]
    BY <2>2 DEF Turned
  <2>14. DOMAIN score = {} => Found(new, class) = {}
    <3>1. Found(new, class) = Ids(InState(tracker, "tracked"))
      BY <2>13 DEF Found
    <3>2. Ids({}) = {}
      BY DEF Ids
    <3> QED
      BY <2>12, <3>1, <3>2
  <2> QED
    BY <2>12, <2>13, <2>14 DEF old
<1> QED
  BY <1>1, <1>2

\* The detections of a frame are finitely many numbers.
LEMMA ScoreFacts ==
  ASSUME NEW score, score \in Scenes \/ score = NoDetections
  PROVE  DOMAIN score \subseteq Nat /\ IsFiniteSet(DOMAIN score)
<1>1. CASE score \in Scenes
  <2>1. PICK found \in SUBSET Detections : score \in [found -> Scores]
    BY <1>1 DEF Scenes
  <2> QED
    BY <2>1, ScoreAssumption, FS_Subset
<1>2. CASE score = NoDetections
  <2>1. DOMAIN score = {}
    BY <1>2 DEF NoDetections
  <2> QED
    BY <2>1, FS_EmptySet
<1> QED
  BY <1>1, <1>2
-----------------------------------------------------------------------------
(* All trackers, and what has been seen of their tracks                    *)

\* Trackers are kept apart by the numbers of their tracks, which come from one
\* counter; there are none before the first frame of a stream that is measured.
Kept ==
  /\ tracking = [trackers |-> tracking.trackers, next |-> tracking.next]
  /\ tracking.next \in Nat \ {0}
  /\ DOMAIN tracking.trackers \subseteq Classes
  /\ \A c \in DOMAIN tracking.trackers : WellKept(tracking.trackers[c], tracking.next)
  /\ \A c, d \in DOMAIN tracking.trackers :
       \A t \in tracking.trackers[c].tracks, u \in tracking.trackers[d].tracks :
         t.id = u.id => c = d
  /\ DOMAIN seen \subseteq 1 .. tracking.next - 1
  /\ activeGeneration = 0 => DOMAIN tracking.trackers = {}
  /\ Idle /\ warmed = WarmupFrames /\ previous = 0 => DOMAIN tracking.trackers = {}

\* The updates a class's tracker has had of those the frame causes.
Rounds(c) ==
  Least(updating.missing, TrackBuffer + 1) + 1 - updating.left
    + IF c \in updating.todo THEN 0 ELSE 1

\* A track last found "gone" updates ago was last seen in the frame "absent": as
\* many frames before the one its tracker has come to as it had updates since.
Aged(c, absent, gone) ==
  IF Idle \/ (updating.left = 1 /\ c \notin updating.todo)
  THEN gone = previous - absent
  ELSE LET before == frame.seq - updating.missing - 1
       IN  absent <= before /\ gone = before - absent + Rounds(c)

\* A confirmed or lost track has been seen as one of its class and of the stream.
Known(c, t, now) ==
  IF t.state = "unconfirmed" THEN t.id \notin DOMAIN seen
  ELSE /\ t.id \in DOMAIN seen
       /\ seen[t.id].class = c /\ seen[t.id].generation = activeGeneration
       /\ seen[t.id].measured = (warmed = WarmupFrames)
       /\ seen[t.id].seq \in Nat
       /\ warmed = WarmupFrames /\ MaxTimeLost <= TrackBuffer =>
            Aged(c, seen[t.id].seq, now - t.end)

Remembered ==
  \A c \in DOMAIN tracking.trackers : \A t \in tracking.trackers[c].tracks :
    Known(c, t, tracking.trackers[c].frame)

TrackInv == LoopInv /\ Kept /\ Remembered

LEMMA TrackInit == Init => Kept /\ Remembered
BY DEF Init, Kept, Remembered, NoTrackers

\* A track is looked for by its number, so its entry is all that matters of seen.
LEMMA TracksTyped ==
  ASSUME Kept, NEW c \in DOMAIN tracking.trackers, NEW t \in tracking.trackers[c].tracks
  PROVE  /\ t.id \in 1 .. tracking.next - 1 /\ t.state \in States
         /\ t.end \in 1 .. tracking.trackers[c].frame
         /\ tracking.trackers[c].frame \in Nat
         /\ c \in Classes
BY DEF Kept, WellKept

\* The trackers a frame finds are those of its stream, or none.
LEMMA EnteredTrackers ==
  ASSUME TrackInv, NEW f \in NextFrames,
         tracking' = [tracking EXCEPT !.trackers = Entered(f).trackers]
  PROVE  /\ tracking' = [trackers |-> tracking'.trackers, next |-> tracking.next]
         /\ \/ DOMAIN tracking'.trackers = {}
            \/ /\ ~ NewStream(f) /\ activeGeneration = f.generation
               /\ tracking' = tracking
               /\ (Idle /\ warmed = WarmupFrames) => previous # 0
<1>1. /\ tracking = [trackers |-> tracking.trackers, next |-> tracking.next]
      /\ activeGeneration = 0 => DOMAIN tracking.trackers = {}
      /\ Idle /\ warmed = WarmupFrames /\ previous = 0 => DOMAIN tracking.trackers = {}
  BY DEF TrackInv, Kept
<1>2. /\ tracking' = [trackers |-> Entered(f).trackers, next |-> tracking.next]
      /\ tracking'.trackers = Entered(f).trackers
  BY <1>1
<1>3. CASE NewStream(f)
  <2>1. Entered(f).trackers = NoTrackers
    BY <1>3 DEF Entered
  <2> QED
    BY <1>2, <2>1 DEF NoTrackers
<1>4. CASE ~ NewStream(f)
  <2>1. Entered(f).trackers = tracking.trackers
    BY <1>4 DEF Entered
  <2>2. activeGeneration = 0 \/ activeGeneration = f.generation
    BY <1>4 DEF NewStream
  <2> QED
    BY <1>1, <1>2, <1>4, <2>1, <2>2
<1> QED
  BY <1>3, <1>4

LEMMA TrackInvalid == TrackInv /\ InvalidFrame => (Kept /\ Remembered)'
<1> SUFFICES ASSUME TrackInv, InvalidFrame PROVE (Kept /\ Remembered)'
  OBVIOUS
<1>1. /\ Idle
      /\ UNCHANGED <<activeGeneration, previous, warmed, tracking, updating, seen>>
  BY DEF InvalidFrame
<1> QED
  BY <1>1 DEF TrackInv, Kept, Remembered, Known, Aged, Idle

LEMMA TrackWarmup == TrackInv /\ WarmupFrame => (Kept /\ Remembered)'
<1> SUFFICES ASSUME TrackInv, WarmupFrame PROVE (Kept /\ Remembered)'
  OBVIOUS
<1>1. PICK f \in NextFrames :
        /\ activeGeneration' = f.generation
        /\ tracking' = [tracking EXCEPT !.trackers = Entered(f).trackers]
  BY DEF WarmupFrame
<1>2. /\ warmed < WarmupFrames /\ warmed' = warmed /\ seen' = seen
      /\ warmed # WarmupFrames
  BY LoopAssumption DEF WarmupFrame, TrackInv, LoopInv, LoopType
<1>3. activeGeneration' # 0
  BY <1>1, NextFrameFacts DEF TrackInv, LoopInv
<1>4. tracking' = [trackers |-> tracking'.trackers, next |-> tracking.next]
  BY <1>1, EnteredTrackers
<1>5. CASE DOMAIN tracking'.trackers = {}
  BY <1>2, <1>4, <1>5 DEF TrackInv, Kept, Remembered
<1>6. CASE tracking' = tracking /\ activeGeneration = f.generation
  <2>1. Kept'
    BY <1>2, <1>3, <1>6 DEF TrackInv, Kept
  <2>2. Remembered'
    BY <1>1, <1>2, <1>6 DEF TrackInv, Remembered, Known
  <2> QED
    BY <2>1, <2>2
<1> QED
  BY <1>1, <1>5, <1>6, EnteredTrackers

LEMMA TrackMeasured == TrackInv /\ MeasuredFrame => (Kept /\ Remembered)'
<1> SUFFICES ASSUME TrackInv, MeasuredFrame PROVE (Kept /\ Remembered)'
  OBVIOUS
<1>1. PICK f \in NextFrames :
        /\ frame' = f /\ activeGeneration' = f.generation /\ previous' = f.seq
        /\ tracking' = [tracking EXCEPT !.trackers = Entered(f).trackers]
        /\ updating' = [left |-> Least(Missing(Entered(f), f), TrackBuffer + 1) + 1,
                        todo |-> Classes, missing |-> Missing(Entered(f), f)]
  BY DEF MeasuredFrame
<1>2. Idle /\ warmed = WarmupFrames /\ warmed' = warmed /\ seen' = seen
  BY DEF MeasuredFrame
<1>3. /\ f \in [seq : 0 .. MaxSeq, generation : 1 .. MaxGeneration]
      /\ f.seq > frame.seq
  BY NextFrameFacts DEF TrackInv, LoopInv
<1>4. activeGeneration' # 0 /\ previous' # 0
  BY <1>1, <1>3 DEF TrackInv, LoopInv, LoopType
<1>5. tracking' = [trackers |-> tracking'.trackers, next |-> tracking.next]
  BY <1>1, EnteredTrackers
<1>6. CASE DOMAIN tracking'.trackers = {}
  BY <1>2, <1>5, <1>6 DEF TrackInv, Kept, Remembered
<1>7. CASE /\ ~ NewStream(f) /\ tracking' = tracking
           /\ activeGeneration = f.generation /\ previous # 0
  <2>1. Kept'
    BY <1>2, <1>4, <1>7 DEF TrackInv, Kept
  <2> DEFINE missing == f.seq - previous - 1
  <2>2. Entered(f).previous = previous
    BY <1>7, EnteredFacts DEF TrackInv
  <2>3. Missing(Entered(f), f) = missing
    BY <1>7, <2>2 DEF Missing
  <2>4. missing \in Nat /\ previous \in Nat /\ previous = f.seq - missing - 1
    BY <1>3 DEF TrackInv, LoopInv, LoopType
  <2>5. Least(missing, TrackBuffer + 1) \in Nat
    BY <2>4, LoopAssumption DEF Least
  <2> HIDE DEF missing
  <2>6. ASSUME NEW c \in DOMAIN tracking.trackers, NEW t \in tracking.trackers[c].tracks
        PROVE  Known(c, t, tracking.trackers[c].frame)'
    <3> DEFINE gone == tracking.trackers[c].frame - t.end
    <3>1. Known(c, t, tracking.trackers[c].frame)
      BY DEF TrackInv, Remembered
    <3>2. c \in Classes /\ gone \in Nat
      BY TracksTyped DEF TrackInv
    <3>3. ASSUME NEW absent \in Nat, Aged(c, absent, gone) PROVE Aged(c, absent, gone)'
      <4>1. gone = previous - absent
        BY <1>2, <3>3 DEF Aged
      <4>2. updating' = [left |-> Least(missing, TrackBuffer + 1) + 1, todo |-> Classes,
                         missing |-> missing]
        BY <1>1, <2>3
      <4>3. Rounds(c)' = 0 /\ ~ Idle'
        BY <2>5, <3>2, <4>2 DEF Rounds, Idle
      <4>4. /\ frame'.seq - updating'.missing - 1 = previous
            /\ c \in updating'.todo
        BY <1>1, <2>4, <3>2, <4>2
      <4>5. absent <= previous
        BY <2>4, <3>2, <4>1
      <4> HIDE DEF gone
      <4>6. gone' = gone
        BY <1>7 DEF gone
      <4> QED
        BY <2>4, <4>1, <4>3, <4>4, <4>5, <4>6 DEF Aged
    <3> QED
      BY <1>1, <1>2, <1>7, <3>1, <3>3 DEF Known
  <2>7. Remembered'
    BY <1>7, <2>6 DEF Remembered
  <2> QED
    BY <2>1, <2>7
<1> QED
  BY <1>1, <1>2, <1>6, <1>7, EnteredTrackers

LEMMA TrackNext == TrackInv /\ NextUpdate => (Kept /\ Remembered)'
<1> SUFFICES ASSUME TrackInv, NextUpdate PROVE (Kept /\ Remembered)'
  OBVIOUS
<1>1. /\ updating.left > 1 /\ updating.todo = {}
      /\ updating' = [updating EXCEPT !.left = updating.left - 1, !.todo = Classes]
      /\ UNCHANGED <<frame, activeGeneration, previous, warmed, tracking, seen>>
  BY DEF NextUpdate
<1>2. /\ updating.left \in Nat /\ updating.missing \in Nat
      /\ updating' = [left |-> updating.left - 1, todo |-> Classes,
                      missing |-> updating.missing]
      /\ ~ Idle /\ ~ Idle'
  <2>1. /\ updating = [left |-> updating.left, todo |-> updating.todo,
                       missing |-> updating.missing]
        /\ updating.left \in Nat /\ updating.missing \in Nat
    BY DEF TrackInv, LoopInv, UpdateType
  <2>2. updating' = [left |-> updating.left - 1, todo |-> Classes,
                     missing |-> updating.missing]
    BY <1>1, <2>1
  <2>3. updating.left # 0 /\ updating'.left # 0
    BY <1>1, <2>1, <2>2
  <2> QED
    BY <2>1, <2>2, <2>3 DEF Idle
<1>3. Kept'
  BY <1>1, <1>2 DEF TrackInv, Kept
<1>4. ASSUME NEW c \in DOMAIN tracking.trackers, NEW absent, NEW gone,
             Aged(c, absent, gone)
      PROVE  Aged(c, absent, gone)'
  <2>1. c \in Classes
    BY DEF TrackInv, Kept
  <2>2. Least(updating.missing, TrackBuffer + 1) \in Nat
    BY <1>2, LoopAssumption DEF Least
  <2>3. Rounds(c)' = Rounds(c)
    BY <1>1, <1>2, <2>1, <2>2 DEF Rounds
  <2> QED
    BY <1>1, <1>2, <1>4, <2>1, <2>3 DEF Aged
<1>5. Remembered'
  <2> SUFFICES ASSUME NEW c \in DOMAIN tracking.trackers,
                      NEW t \in tracking.trackers[c].tracks
               PROVE  Known(c, t, tracking.trackers[c].frame)'
    BY <1>1 DEF Remembered
  <2>1. Known(c, t, tracking.trackers[c].frame)
    BY DEF TrackInv, Remembered
  <2> QED
    BY <1>1, <1>4, <2>1 DEF Known
<1> QED
  BY <1>3, <1>5

LEMMA TrackTracked ==
  TrackInv /\ (WarmupTracked \/ MeasuredTracked) => (Kept /\ Remembered)'
<1> SUFFICES ASSUME TrackInv, WarmupTracked \/ MeasuredTracked PROVE (Kept /\ Remembered)'
  OBVIOUS
<1> DEFINE last == warmed + 1 = WarmupFrames
<1>1. /\ updating.left = 1 /\ updating.todo = {} /\ updating' = Waiting
      /\ warmed' = IF warmed < WarmupFrames THEN warmed + 1 ELSE warmed
      /\ previous' = IF last THEN 0 ELSE previous
      /\ tracking' = IF last THEN [tracking EXCEPT !.trackers = NoTrackers] ELSE tracking
      /\ UNCHANGED <<frame, activeGeneration, seen>>
  <2>1. CASE WarmupTracked
    BY <2>1 DEF WarmupTracked
  <2>2. CASE MeasuredTracked
    <3>1. warmed = WarmupFrames /\ ~ last /\ ~ warmed < WarmupFrames
      BY <2>2, LoopAssumption DEF MeasuredTracked
    <3> HIDE DEF last
    <3> QED
      BY <2>2, <3>1 DEF MeasuredTracked
  <2> QED
    BY <2>1, <2>2
<1>2. /\ warmed \in 0 .. WarmupFrames /\ WarmupFrames \in Nat
      /\ ~ Idle /\ Idle' /\ (warmed = WarmupFrames => previous # 0)
  BY <1>1, LoopAssumption DEF TrackInv, LoopInv, LoopType, UpdateType, Idle, Waiting
<1>3. CASE last
  <2>1. tracking' = [trackers |-> NoTrackers, next |-> tracking.next]
    BY <1>1, <1>3 DEF TrackInv, Kept
  <2>2. tracking'.next = tracking.next /\ DOMAIN tracking'.trackers = {}
    BY <2>1 DEF NoTrackers
  <2> QED
    BY <1>1, <2>1, <2>2 DEF TrackInv, Kept, Remembered
<1>4. CASE ~ last
  <2>1. /\ tracking' = tracking /\ previous' = previous
        /\ warmed' = WarmupFrames <=> warmed = WarmupFrames
    BY <1>1, <1>2, <1>4
  <2>2. Kept'
    BY <1>1, <1>2, <2>1 DEF TrackInv, Kept
  <2>3. Remembered'
    <3> SUFFICES ASSUME NEW c \in DOMAIN tracking.trackers,
                        NEW t \in tracking.trackers[c].tracks
                 PROVE  Known(c, t, tracking.trackers[c].frame)'
      BY <2>1 DEF Remembered
    <3>1. Known(c, t, tracking.trackers[c].frame)
      BY DEF TrackInv, Remembered
    <3>2. \A absent, gone : Aged(c, absent, gone) => Aged(c, absent, gone)'
      BY <1>1, <1>2, <2>1 DEF Aged
    <3> QED
      BY <1>1, <2>1, <3>1, <3>2 DEF Known
  <2> QED
    BY <2>2, <2>3
<1> QED
  BY <1>3, <1>4

-----------------------------------------------------------------------------
(* One class's turn                                                        *)

\* The choice of detections and matches in a step, and what they lead to.
LEMMA TurnFacts ==
  ASSUME TrackInv, UpdateClass
  PROVE  \E class \in updating.todo :
           /\ class \in Classes
           /\ updating' = [updating EXCEPT !.todo = updating.todo \ {class}]
           /\ seen' = Noted(Found(tracking', class), class)
           /\ updating.left # 1 => Found(tracking', class) = {}
           /\ tracking' = [trackers |-> tracking'.trackers, next |-> tracking'.next]
           /\ \/ tracking' = tracking /\ class \notin DOMAIN tracking.trackers
              \/ /\ DOMAIN tracking'.trackers = DOMAIN tracking.trackers \cup {class}
                 /\ \A c \in DOMAIN tracking.trackers :
                      c # class => tracking'.trackers[c] = tracking.trackers[c]
                 /\ WellKept(tracking'.trackers[class], tracking'.next)
                 /\ Follows(tracking'.trackers[class], tracking'.next,
                            TrackerOf(tracking, class), tracking.next)
<1>1. PICK class \in updating.todo :
        /\ \E score \in IF updating.left = 1 THEN Scenes ELSE {NoDetections} :
             \E state \in ClassUpdated(tracking, class, score) :
               tracking' = state /\ seen' = Noted(Found(state, class), class)
        /\ updating' = [updating EXCEPT !.todo = updating.todo \ {class}]
  BY DEF UpdateClass
<1>2. PICK score \in IF updating.left = 1 THEN Scenes ELSE {NoDetections} :
        /\ tracking' \in ClassUpdated(tracking, class, score)
        /\ seen' = Noted(Found(tracking', class), class)
  BY <1>1
<1>3. /\ class \in Classes /\ tracking.next \in Nat \ {0}
      /\ class \in DOMAIN tracking.trackers
           => WellKept(tracking.trackers[class], tracking.next)
      /\ tracking = [trackers |-> tracking.trackers, next |-> tracking.next]
  BY DEF TrackInv, LoopInv, UpdateType, Kept
<1>4. /\ DOMAIN score \subseteq Nat /\ IsFiniteSet(DOMAIN score)
      /\ updating.left # 1 => DOMAIN score = {}
  <2>1. score \in Scenes \/ score = NoDetections
    BY <1>2
  <2>2. DOMAIN NoDetections = {}
    BY DEF NoDetections
  <2> QED
    BY <1>2, <2>1, <2>2, ScoreFacts
<1>5. PICK new \in ClassUpdated(tracking, class, score) : new = tracking'
  BY <1>2
<1>6. /\ \/ new = tracking /\ class \notin DOMAIN tracking.trackers
         \/ /\ DOMAIN new.trackers = DOMAIN tracking.trackers \cup {class}
            /\ \A c \in DOMAIN tracking.trackers :
                 c # class => new.trackers[c] = tracking.trackers[c]
            /\ new = [trackers |-> new.trackers, next |-> new.next]
            /\ WellKept(new.trackers[class], new.next)
            /\ Follows(new.trackers[class], new.next,
                       TrackerOf(tracking, class), tracking.next)
      /\ DOMAIN score = {} => Found(new, class) = {}
  BY <1>3, <1>4, ClassUpdatedFacts
<1> QED
  BY <1>1, <1>2, <1>3, <1>4, <1>5, <1>6

\* A turn numbers its new tracks on, so that the others' tracks stay apart.
LEMMA TurnKept == TrackInv /\ UpdateClass => Kept'
<1> SUFFICES ASSUME TrackInv, UpdateClass PROVE Kept'
  OBVIOUS
<1>1. PICK class \in updating.todo :
        /\ class \in Classes
        /\ updating' = [updating EXCEPT !.todo = updating.todo \ {class}]
        /\ seen' = Noted(Found(tracking', class), class)
        /\ tracking' = [trackers |-> tracking'.trackers, next |-> tracking'.next]
        /\ \/ tracking' = tracking /\ class \notin DOMAIN tracking.trackers
           \/ /\ DOMAIN tracking'.trackers = DOMAIN tracking.trackers \cup {class}
              /\ \A c \in DOMAIN tracking.trackers :
                   c # class => tracking'.trackers[c] = tracking.trackers[c]
              /\ WellKept(tracking'.trackers[class], tracking'.next)
              /\ Follows(tracking'.trackers[class], tracking'.next,
                         TrackerOf(tracking, class), tracking.next)
  BY TurnFacts
<1>2. /\ UNCHANGED <<activeGeneration, previous, warmed>> /\ activeGeneration # 0
      /\ ~ Idle' /\ Kept /\ tracking.next \in Nat \ {0}
  <2>1. /\ UNCHANGED <<activeGeneration, previous, warmed>> /\ updating.todo # {}
    BY DEF UpdateClass
  <2>2. ~ Idle /\ updating'.left = updating.left
    BY <1>1, <2>1 DEF TrackInv, LoopInv, UpdateType, Idle, Waiting
  <2>3. activeGeneration # 0
    BY <2>2 DEF TrackInv, LoopInv, LoopType, UpdateType
  <2> QED
    BY <2>1, <2>2, <2>3 DEF TrackInv, Kept, Idle
<1>3. DOMAIN seen' = DOMAIN seen \cup Found(tracking', class)
  BY <1>1 DEF Noted
<1>4. CASE tracking' = tracking /\ class \notin DOMAIN tracking.trackers
  <2>1. Found(tracking', class) = {}
    BY <1>4 DEF Found
  <2> QED
    BY <1>2, <1>3, <1>4, <2>1 DEF Kept
<1>5. CASE /\ DOMAIN tracking'.trackers = DOMAIN tracking.trackers \cup {class}
           /\ \A c \in DOMAIN tracking.trackers :
                c # class => tracking'.trackers[c] = tracking.trackers[c]
           /\ WellKept(tracking'.trackers[class], tracking'.next)
           /\ Follows(tracking'.trackers[class], tracking'.next,
                      TrackerOf(tracking, class), tracking.next)
  <2> DEFINE new == tracking'.trackers[class]
             next == tracking'.next
  <2>1. next \in Nat \ {0} /\ next >= tracking.next
    BY <1>2, <1>5 DEF Follows
  <2>2. ASSUME NEW c \in DOMAIN tracking.trackers, c # class
        PROVE  /\ tracking'.trackers[c] = tracking.trackers[c]
               /\ WellKept(tracking'.trackers[c], next)
               /\ \A t \in tracking.trackers[c].tracks, u \in new.tracks : t.id # u.id
    <3>1. tracking'.trackers[c] = tracking.trackers[c] /\ WellKept(tracking.trackers[c], next)
      BY <1>2, <1>5, <2>1, <2>2, WellKeptLater DEF Kept
    <3>2. ASSUME NEW t \in tracking.trackers[c].tracks, NEW u \in new.tracks, t.id = u.id
          PROVE  FALSE
      <4>1. t.id \in 1 .. tracking.next - 1
        BY <1>2, TracksTyped
      <4>2. Continues(u, TrackerOf(tracking, class))
        BY <1>2, <1>5, <3>2, <4>1 DEF Follows
      <4>3. PICK v \in TrackerOf(tracking, class).tracks : v.id = u.id
        BY <4>2 DEF Continues
      <4>4. class \in DOMAIN tracking.trackers /\ v \in tracking.trackers[class].tracks
        BY <4>3 DEF TrackerOf, NewTracker
      <4> QED
        BY <1>2, <2>2, <3>2, <4>3, <4>4 DEF Kept
    <3> QED
      BY <3>1, <3>2
  <2>3. ASSUME NEW c \in DOMAIN tracking'.trackers PROVE WellKept(tracking'.trackers[c], next)
    BY <1>5, <2>2, <2>3
  <2>4. ASSUME NEW c \in DOMAIN tracking'.trackers, NEW d \in DOMAIN tracking'.trackers,
               NEW t \in tracking'.trackers[c].tracks, NEW u \in tracking'.trackers[d].tracks,
               t.id = u.id
        PROVE  c = d
    <3>1. CASE c # class /\ d # class
      BY <1>2, <1>5, <2>2, <2>4, <3>1 DEF Kept
    <3>2. CASE c = class /\ d # class
      BY <1>5, <2>2, <2>4, <3>2
    <3>3. CASE d = class /\ c # class
      BY <1>5, <2>2, <2>4, <3>3
    <3> QED
      BY <3>1, <3>2, <3>3
  <2>5. DOMAIN seen' \subseteq 1 .. next - 1
    <3>1. ASSUME NEW id \in Found(tracking', class) PROVE id \in 1 .. next - 1
      <4>1. PICK t \in new.tracks : id = t.id
        BY <1>5, <3>1 DEF Found, Ids, InState
      <4> QED
        BY <1>5, <4>1 DEF WellKept
    <3>2. DOMAIN seen \subseteq 1 .. next - 1
      BY <1>2, <2>1 DEF Kept
    <3> QED
      BY <1>3, <3>1, <3>2
  <2>6. DOMAIN tracking'.trackers \subseteq Classes
    BY <1>1, <1>2, <1>5 DEF Kept
  <2> HIDE DEF new
  <2> QED
    BY <1>1, <1>2, <2>1, <2>3, <2>4, <2>5, <2>6 DEF Kept
<1> QED
  BY <1>1, <1>4, <1>5

\* How a number that was known before the turn is found by it: its track was
\* waited for, and is not of a stretch that was cut short.
LEMMA WaitedFor ==
  ASSUME LoopInv, NEW c \in updating.todo, NEW absent \in Nat, NEW gone \in Nat,
         Aged(c, absent, gone), updating.left = 1,
         warmed = WarmupFrames, MaxTimeLost <= TrackBuffer
  PROVE  /\ gone <= Lapse + 1 =>
              \/ frame.seq - absent <= Patience
              \/ /\ updating.missing > TrackBuffer + 1
                 /\ absent = frame.seq - updating.missing - 1
         /\ gone <= Lapse => gone + 1 = previous - absent
<1> DEFINE missing == updating.missing
           before == frame.seq - missing - 1
<1>1. /\ ~ Idle /\ previous = frame.seq /\ missing \in Nat /\ frame.seq \in Nat
      /\ TrackBuffer \in Nat \ {0}
  BY LoopAssumption DEF LoopInv, LoopType, UpdateType, Idle
<1>2. absent <= before /\ gone = before - absent + Rounds(c)
  BY <1>1 DEF Aged
<1>3. Rounds(c) = Least(missing, TrackBuffer + 1)
  <2>1. Least(missing, TrackBuffer + 1) \in Nat
    BY <1>1 DEF Least
  <2> QED
    BY <2>1 DEF Rounds
<1>4. Lapse \in Nat \ {0} /\ Lapse <= TrackBuffer /\ Patience = Lapse + 2
  BY LapseFacts
<1> HIDE DEF missing
<1>5. CASE missing <= TrackBuffer + 1
  <2>1. Rounds(c) = missing
    BY <1>1, <1>3, <1>5 DEF Least
  <2>2. gone + 1 = frame.seq - absent
    BY <1>1, <1>2, <2>1
  <2> QED
    BY <1>1, <1>4, <2>2 DEF missing
<1>6. CASE missing > TrackBuffer + 1
  <2>1. Rounds(c) = TrackBuffer + 1
    BY <1>1, <1>3, <1>6 DEF Least
  <2>2. gone >= TrackBuffer + 1 /\ gone > Lapse
    BY <1>1, <1>2, <1>4, <2>1
  <2>3. gone <= Lapse + 1 => absent = before
    BY <1>1, <1>2, <1>4, <2>1
  <2> QED
    BY <1>4, <1>6, <2>2, <2>3 DEF missing
<1> QED
  BY <1>1, <1>5, <1>6

\* A further update of a class's tracker is one more round.
LEMMA OneRoundMore ==
  ASSUME LoopInv, NEW c \in updating.todo, NEW absent \in Nat, NEW gone \in Nat,
         Aged(c, absent, gone), updating.left # 1, UNCHANGED <<frame, previous>>,
         updating' = [updating EXCEPT !.todo = updating.todo \ {c}]
  PROVE  Aged(c, absent, gone + 1)'
<1>1. /\ updating.left \in Nat \ {0, 1} /\ updating.missing \in Nat
      /\ updating'.left = updating.left /\ updating'.missing = updating.missing
      /\ updating'.todo = updating.todo \ {c}
  BY DEF LoopInv, UpdateType, Idle, Waiting
<1>2. Rounds(c)' = Rounds(c) + 1 /\ Rounds(c) \in Int
  <2>1. Least(updating.missing, TrackBuffer + 1) \in Nat
    BY <1>1, LoopAssumption DEF Least
  <2> QED
    BY <1>1, <2>1 DEF Rounds
<1>3. frame.seq \in Nat /\ frame' = frame
  BY DEF LoopInv, LoopType
<1> DEFINE before == frame.seq - updating.missing - 1
<1>4. absent <= before /\ gone = before - absent + Rounds(c)
  BY <1>1 DEF Aged, Idle
<1>5. before \in Int /\ before' = before
  BY <1>1, <1>3
<1>6. gone + 1 = before - absent + Rounds(c)'
  BY <1>2, <1>4, <1>5
<1> QED
  BY <1>1, <1>4, <1>5, <1>6 DEF Aged, Idle

\* The tracks of another class are as well known as before.
LEMMA OthersKnown ==
  ASSUME NEW class, NEW found, NEW c, c # class, NEW t, NEW now, Known(c, t, now),
         t.id \notin found, seen' = Noted(found, class),
         updating' = [updating EXCEPT !.todo = updating.todo \ {class}],
         updating = [left |-> updating.left, todo |-> updating.todo,
                     missing |-> updating.missing],
         UNCHANGED <<frame, activeGeneration, previous, warmed>>
  PROVE  Known(c, t, now)'
<1>1. /\ updating'.left = updating.left /\ updating'.missing = updating.missing
      /\ c \in updating'.todo <=> c \in updating.todo
  OBVIOUS
<1>2. \A absent, gone : Aged(c, absent, gone) => Aged(c, absent, gone)'
  BY <1>1 DEF Aged, Idle, Rounds
<1>3. /\ t.id \in DOMAIN seen' <=> t.id \in DOMAIN seen
      /\ t.id \in DOMAIN seen => seen'[t.id] = seen[t.id]
  BY DEF Noted
<1> QED
  BY <1>2, <1>3 DEF Known

\* The updates a tracker has had are read off its state.
LEMMA KnownThen ==
  ASSUME NEW c, NEW t, NEW now, tracking'.trackers[c].frame = now, Known(c, t, now)'
  PROVE  Known(c, t, tracking.trackers[c].frame)'
BY DEF Known, Aged, Rounds, Idle

LEMMA KnownNow ==
  ASSUME Remembered, NEW c \in DOMAIN tracking.trackers,
         NEW t \in tracking.trackers[c].tracks, NEW now, tracking.trackers[c].frame = now
  PROVE  Known(c, t, now)
BY DEF Remembered, Known, Aged, Rounds, Idle

\* What a turn makes of the tracks it knows and finds.
LEMMA TurnRemembered == TrackInv /\ UpdateClass => Remembered'
<1> SUFFICES ASSUME TrackInv, UpdateClass PROVE Remembered'
  OBVIOUS
<1>1. PICK class \in updating.todo :
        /\ class \in Classes
        /\ updating' = [updating EXCEPT !.todo = updating.todo \ {class}]
        /\ seen' = Noted(Found(tracking', class), class)
        /\ updating.left # 1 => Found(tracking', class) = {}
        /\ \/ tracking' = tracking /\ class \notin DOMAIN tracking.trackers
           \/ /\ DOMAIN tracking'.trackers = DOMAIN tracking.trackers \cup {class}
              /\ \A c \in DOMAIN tracking.trackers :
                   c # class => tracking'.trackers[c] = tracking.trackers[c]
              /\ WellKept(tracking'.trackers[class], tracking'.next)
              /\ Follows(tracking'.trackers[class], tracking'.next,
                         TrackerOf(tracking, class), tracking.next)
  BY TurnFacts
<1> DEFINE found == Found(tracking', class)
           turned == class \in DOMAIN tracking'.trackers
<1>2. /\ UNCHANGED <<frame, activeGeneration, previous, warmed>>
      /\ updating = [left |-> updating.left, todo |-> updating.todo,
                     missing |-> updating.missing]
      /\ ~ Idle /\ LoopInv /\ Kept
  BY <1>1 DEF UpdateClass, TrackInv, LoopInv, UpdateType, Idle, Waiting
<1>3. Kept'
  BY TurnKept
<1>4. frame.generation = activeGeneration /\ frame.seq \in Nat
  BY <1>2 DEF LoopInv, LoopType, UpdateType
<1>5. \A id \in found : turned /\ \E u \in tracking'.trackers[class].tracks :
                                    u.id = id /\ u.state = "tracked"
  BY DEF Found, Ids, InState
<1>6. ASSUME NEW c \in DOMAIN tracking'.trackers, c # class,
             NEW t \in tracking'.trackers[c].tracks
      PROVE  Known(c, t, tracking.trackers[c].frame)'
  <2>1. c \in DOMAIN tracking.trackers /\ tracking'.trackers[c] = tracking.trackers[c]
    BY <1>1, <1>6
  <2>2. PICK now : now = tracking.trackers[c].frame
    OBVIOUS
  <2>3. PICK news : news = found
    OBVIOUS
  <2>4. t.id \notin news
    BY <1>3, <1>5, <1>6, <2>3 DEF Kept
  <2>5. Known(c, t, now)
    BY <2>1, <2>2, KnownNow DEF TrackInv
  <2>6. seen' = Noted(news, class)
    BY <1>1, <2>3
  <2>7. Known(c, t, now)'
    BY <1>1, <1>2, <1>6, <2>4, <2>5, <2>6, OthersKnown
  <2> QED
    BY <2>1, <2>2, <2>7, KnownThen
\* The tracks of the class whose turn it was.
<1>7. ASSUME turned, NEW t \in tracking'.trackers[class].tracks,
             ~ (tracking' = tracking /\ class \notin DOMAIN tracking.trackers)
      PROVE  Known(class, t, tracking.trackers[class].frame)'
  <2> DEFINE old == TrackerOf(tracking, class)
             new == tracking'.trackers[class]
  <2>1. WellKept(new, tracking'.next) /\ Follows(new, tracking'.next, old, tracking.next)
    BY <1>1, <1>7
  <2>2. PICK now : now = new.frame
    OBVIOUS
  <2>3. /\ now \in Nat /\ old.frame \in Nat /\ now = old.frame + 1
        /\ t.state \in States /\ t.id \in Nat /\ t.end \in 1 .. now
        /\ t.state = "lost" => now - t.end <= Lapse + 1
        /\ t.state # "lost" => t.end = now
    <3>1. old.frame \in Nat
      BY <1>2 DEF TrackerOf, NewTracker, Kept, WellKept
    <3>2. t \in [id : 1 .. tracking'.next - 1, state : States,
                 start : 1 .. now, end : 1 .. now]
      BY <2>1, <2>2 DEF WellKept
    <3>3. now \in Nat /\ now = old.frame + 1
      BY <2>1, <2>2 DEF WellKept, Follows
    <3>4. t.state = "lost" => now - t.end <= Lapse + 1
      BY <2>1, <2>2, <3>2, <3>3, LapseFacts DEF WellKept
    <3>5. t.state # "lost" => t.end = now
      BY <2>1, <2>2 DEF WellKept
    <3> QED
      BY <3>1, <3>2, <3>3, <3>4, <3>5
  <2>4. t.id \in found <=> t.state = "tracked"
    <3>1. found = Ids(InState(new, "tracked"))
      BY <1>7 DEF Found
    <3> QED
      BY <2>1, <3>1 DEF Ids, InState, WellKept
  <2>5. PICK news : news = found
    OBVIOUS
  <2>6. /\ DOMAIN seen' = DOMAIN seen \cup news
        /\ t.id \in news => seen'[t.id] = [seq |-> frame.seq, generation |-> frame.generation,
                                           measured |-> warmed = WarmupFrames, class |-> class]
        /\ t.id \in DOMAIN seen /\ t.id \notin news => seen'[t.id] = seen[t.id]
    BY <1>1, <2>5 DEF Noted
  <2>7. CASE t.state = "tracked"
    <3>1. updating.left = 1 /\ t.id \in news
      BY <1>1, <2>4, <2>5, <2>7
    <3>2. updating'.left = 1 /\ class \notin updating'.todo
      BY <1>1, <1>2, <3>1
    <3>3. ASSUME warmed' = WarmupFrames PROVE Aged(class, frame.seq, now - t.end)'
      <4>1. previous' = frame'.seq /\ now - t.end = 0 /\ previous' \in Nat
        BY <1>2, <1>4, <2>3, <2>7, <3>3 DEF LoopInv, UpdateType
      <4> QED
        BY <1>2, <3>2, <4>1 DEF Aged
    <3>4. /\ t.id \in DOMAIN seen' /\ seen'[t.id].class = class
          /\ seen'[t.id].generation = activeGeneration'
          /\ seen'[t.id].measured = (warmed' = WarmupFrames)
          /\ seen'[t.id].seq = frame.seq
      BY <1>2, <1>4, <2>6, <3>1
    <3>5. Known(class, t, now)'
      BY <1>2, <1>4, <2>7, <3>3, <3>4 DEF Known, Aged
    <3> QED
      BY <2>2, <3>5, KnownThen
  <2>8. CASE t.state = "unconfirmed"
    <3>1. t.id \in tracking.next .. tracking'.next - 1
      BY <2>1, <2>8 DEF Follows, Continues
    <3>2. t.id \notin DOMAIN seen
      BY <1>2, <3>1 DEF Kept
    <3>3. t.id \notin DOMAIN seen'
      BY <2>4, <2>5, <2>6, <2>8, <3>2
    <3> QED
      BY <2>8, <3>3 DEF Known
  <2>9. CASE t.state = "lost"
    <3>1. Continues(t, old)
      BY <2>1, <2>9 DEF Follows
    <3>2. PICK u \in old.tracks : u.id = t.id /\ u.state # "unconfirmed" /\ u.end = t.end
      BY <2>9, <3>1 DEF Continues
    <3>3. class \in DOMAIN tracking.trackers /\ old = tracking.trackers[class]
      BY <3>2 DEF TrackerOf, NewTracker
    <3>4. PICK was : was = old.frame
      OBVIOUS
    <3>5. Known(class, u, was) /\ was \in Nat /\ now = was + 1
      BY <2>3, <3>2, <3>3, <3>4, KnownNow DEF TrackInv
    <3>6. u.end \in 1 .. was
      BY <1>2, <3>2, <3>3, <3>4, TracksTyped
    <3>7. /\ t.id \in DOMAIN seen /\ seen[t.id].class = class
          /\ seen[t.id].generation = activeGeneration
          /\ seen[t.id].measured = (warmed = WarmupFrames) /\ seen[t.id].seq \in Nat
          /\ warmed = WarmupFrames /\ MaxTimeLost <= TrackBuffer =>
               Aged(class, seen[t.id].seq, was - t.end)
      BY <3>2, <3>5 DEF Known
    <3>8. t.id \in DOMAIN seen' /\ seen'[t.id] = seen[t.id]
      BY <2>4, <2>5, <2>6, <2>9, <3>7
    <3>9. ASSUME warmed = WarmupFrames, MaxTimeLost <= TrackBuffer,
                 NEW absent \in Nat, Aged(class, absent, was - t.end)
          PROVE  Aged(class, absent, now - t.end)'
      <4>1. PICK gone \in Nat : gone = was - t.end /\ gone + 1 = now - t.end
        BY <3>2, <3>5, <3>6
      <4>2. CASE updating.left # 1
        <5>1. Aged(class, absent, gone + 1)'
          BY <1>1, <1>2, <3>9, <4>1, <4>2, OneRoundMore
        <5> QED
          BY <4>1, <5>1
      <4>3. CASE updating.left = 1
        <5>1. gone + 1 <= Lapse + 1
          BY <2>3, <2>9, <4>1
        <5>2. gone <= Lapse
          BY <4>1, <5>1, LapseFacts
        <5>3. gone + 1 = previous - absent
          BY <1>2, <3>9, <4>1, <4>3, <5>2, WaitedFor
        <5>4. updating'.left = 1 /\ class \notin updating'.todo /\ previous' = previous
          BY <1>1, <1>2, <4>3
        <5> QED
          BY <4>1, <5>3, <5>4 DEF Aged
      <4> QED
        BY <4>2, <4>3
    <3>10. Known(class, t, now)'
      BY <1>2, <2>9, <3>7, <3>8, <3>9 DEF Known
    <3> QED
      BY <2>2, <3>10, KnownThen
  <2> QED
    BY <2>3, <2>7, <2>8, <2>9 DEF States
<1> QED
  <2> SUFFICES ASSUME NEW c \in DOMAIN tracking'.trackers,
                      NEW t \in tracking'.trackers[c].tracks
               PROVE  Known(c, t, tracking.trackers[c].frame)'
    BY DEF Remembered
  <2>1. c = class => ~ (tracking' = tracking /\ class \notin DOMAIN tracking.trackers)
    OBVIOUS
  <2> QED
    BY <1>6, <1>7, <2>1

LEMMA TrackStep == TrackInv /\ [Next]_vars => TrackInv'
<1> SUFFICES ASSUME TrackInv, [Next]_vars PROVE TrackInv'
  OBVIOUS
<1>1. LoopInv'
  BY LoopStep DEF TrackInv
<1>2. CASE InvalidFrame
  BY <1>1, <1>2, TrackInvalid DEF TrackInv
<1>3. CASE WarmupFrame
  BY <1>1, <1>3, TrackWarmup DEF TrackInv
<1>4. CASE MeasuredFrame
  BY <1>1, <1>4, TrackMeasured DEF TrackInv
<1>5. CASE UpdateClass
  BY <1>1, <1>5, TurnKept, TurnRemembered DEF TrackInv
<1>6. CASE NextUpdate
  BY <1>1, <1>6, TrackNext DEF TrackInv
<1>7. CASE WarmupTracked \/ MeasuredTracked
  BY <1>1, <1>7, TrackTracked DEF TrackInv
<1>8. CASE UNCHANGED vars
  BY <1>1, <1>8 DEF vars, TrackInv, Kept, Remembered, Known, Aged, Rounds, Idle
<1> QED
  BY <1>2, <1>3, <1>4, <1>5, <1>6, <1>7, <1>8 DEF Next, Over

\* A number that is returned again is of a track that was known, and waited for.
LEMMA TurnKeepsIdentity ==
  ASSUME TrackInv, UpdateClass, NEW id \in Continued
  PROVE  KeepsIdentity(id)
<1>1. PICK class \in updating.todo :
        /\ class \in Classes
        /\ seen' = Noted(Found(tracking', class), class)
        /\ updating.left # 1 => Found(tracking', class) = {}
        /\ \/ tracking' = tracking /\ class \notin DOMAIN tracking.trackers
           \/ /\ class \in DOMAIN tracking'.trackers
              /\ WellKept(tracking'.trackers[class], tracking'.next)
              /\ Follows(tracking'.trackers[class], tracking'.next,
                         TrackerOf(tracking, class), tracking.next)
  BY TurnFacts
<1>2. id \in DOMAIN seen /\ seen'[id] # seen[id]
  BY DEF Continued
<1>3. id \in Found(tracking', class)
  BY <1>1, <1>2 DEF Noted
<1>4. seen'[id] = [seq |-> frame.seq, generation |-> frame.generation,
                   measured |-> warmed = WarmupFrames, class |-> class]
  BY <1>1, <1>3 DEF Noted
<1> DEFINE old == TrackerOf(tracking, class)
           new == tracking'.trackers[class]
<1>5. /\ class \in DOMAIN tracking'.trackers /\ updating.left = 1
      /\ Follows(new, tracking'.next, old, tracking.next)
  BY <1>1, <1>3 DEF Found
<1>6. PICK t \in new.tracks : t.id = id
  BY <1>3, <1>5 DEF Found, Ids, InState
<1>7. id \in 1 .. tracking.next - 1 /\ tracking.next \in Nat
  BY <1>2 DEF TrackInv, Kept
<1>8. Continues(t, old)
  BY <1>5, <1>6, <1>7 DEF Follows
<1>9. PICK u \in old.tracks : u.id = id
  BY <1>6, <1>8 DEF Continues
<1>10. class \in DOMAIN tracking.trackers /\ old = tracking.trackers[class]
  BY <1>9 DEF TrackerOf, NewTracker
<1>11. PICK was : was = tracking.trackers[class].frame
  OBVIOUS
<1>12. Known(class, u, was)
  BY <1>9, <1>10, <1>11, KnownNow DEF TrackInv
<1>13. PICK absent \in Nat :
         /\ seen[id].class = class /\ seen[id].generation = activeGeneration
         /\ seen[id].measured = (warmed = WarmupFrames) /\ absent = seen[id].seq
         /\ warmed = WarmupFrames /\ MaxTimeLost <= TrackBuffer =>
              Aged(class, absent, was - u.end)
  BY <1>2, <1>9, <1>12 DEF Known
<1>14. PICK gone \in Nat : gone = was - u.end /\ gone <= Lapse + 1
  <2>1. u.end \in 1 .. was /\ was \in Nat
    BY <1>9, <1>10, <1>11, TracksTyped DEF TrackInv
  <2>2. WellKept(old, tracking.next)
    BY <1>10 DEF TrackInv, Kept
  <2>3. was - u.end <= Lapse + 1
    BY <1>9, <1>10, <1>11, <2>1, <2>2, LapseFacts DEF WellKept
  <2> QED
    BY <2>1, <2>3
<1>15. frame.generation = activeGeneration
  BY <1>5 DEF TrackInv, LoopInv, UpdateType, Idle
<1>16. ASSUME warmed = WarmupFrames, MaxTimeLost <= TrackBuffer
       PROVE  \/ frame.seq - absent <= Patience
              \/ /\ updating.missing > TrackBuffer + 1
                 /\ absent = frame.seq - updating.missing - 1
  BY <1>5, <1>13, <1>14, <1>16, WaitedFor DEF TrackInv
<1>17. /\ seen'[id].class = seen[id].class
       /\ seen'[id].generation = seen[id].generation
       /\ seen'[id].measured = seen[id].measured
       /\ seen'[id].seq = frame.seq /\ seen[id].seq = absent
  BY <1>4, <1>13, <1>15
<1>18. seen[id].measured => warmed = WarmupFrames
  BY <1>13
<1> QED
  BY <1>16, <1>17, <1>18 DEF KeepsIdentity

\* Every step keeps the identity of the tracks whose numbers it returns.
LEMMA StepKeepsIdentity ==
  TrackInv /\ [Next]_vars => [\A id \in Continued : KeepsIdentity(id)]_vars
<1> SUFFICES ASSUME TrackInv, [Next]_vars
             PROVE  \A id \in Continued : KeepsIdentity(id)
  OBVIOUS
<1>1. CASE UpdateClass
  BY <1>1, TurnKeepsIdentity
<1>2. CASE ~ UpdateClass
  <2>1. seen' = seen
    BY <1>2 DEF Next, Over, InvalidFrame, WarmupFrame, MeasuredFrame, NextUpdate,
                WarmupTracked, MeasuredTracked, vars
  <2> QED
    BY <2>1 DEF Continued
<1> QED
  BY <1>1, <1>2

\* No two tracks share a number, over classes and resets, and no number is ahead of
\* the counter; the loop's own variables have their types (FrameLoop, TypeOK).
THEOREM NumbersAreTheirOwn == Spec => []TypeOK
<1>1. Init => TrackInv
  BY LoopInit, TrackInit DEF TrackInv
<1>2. TrackInv => TypeOK
  <2> SUFFICES ASSUME TrackInv PROVE TypeOK
    OBVIOUS
  <2>1. /\ frame \in [seq : 0 .. MaxSeq, generation : 1 .. MaxGeneration]
        /\ activeGeneration \in 0 .. MaxGeneration /\ previous \in 0 .. MaxSeq
        /\ warmed \in 0 .. WarmupFrames
        /\ updating \in [left : 0 .. TrackBuffer + 2, todo : SUBSET Classes, missing : Nat]
        /\ counted \in [frames : Nat, gaps : Nat]
    BY DEF TrackInv, LoopInv, LoopType, UpdateType
  <2>2. DOMAIN tracking.trackers \subseteq Classes
    BY DEF TrackInv, Kept
  <2>3. ASSUME NEW class \in DOMAIN tracking.trackers
        PROVE  LET t == tracking.trackers[class] IN
               /\ t.tracks \subseteq [id : 1 .. tracking.next - 1, state : States,
                                      start : 1 .. t.frame, end : 1 .. t.frame]
               /\ t.removed \subseteq 1 .. tracking.next - 1
    BY DEF TrackInv, Kept, WellKept
  <2>4. ASSUME NEW c \in DOMAIN tracking.trackers, NEW d \in DOMAIN tracking.trackers,
               NEW t \in tracking.trackers[c].tracks, NEW u \in tracking.trackers[d].tracks,
               t.id = u.id
        PROVE  c = d /\ t = u
    BY <2>4 DEF TrackInv, Kept, WellKept
  <2> QED
    BY <2>1, <2>2, <2>3, <2>4 DEF TypeOK
<1> QED
  BY <1>1, <1>2, TrackStep, PTL DEF Spec

\* A number returned again is of one class and stream, and after no longer an absence
\* than the tracker waits for, unless a hole exceeded the updates made up for it and
\* the track was seen right before it (FrameLoop, IdentityIsContinuous).
THEOREM IdentitiesAreContinuous == Spec => IdentityIsContinuous
<1>1. Init => TrackInv
  BY LoopInit, TrackInit DEF TrackInv
<1> QED
  BY <1>1, TrackStep, StepKeepsIdentity, PTL DEF Spec, IdentityIsContinuous
=============================================================================
