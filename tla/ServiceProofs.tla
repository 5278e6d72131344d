---------------------------- MODULE ServiceProofs ----------------------------
(***************************************************************************)
(* Proofs about Service for every watchdog interval, wait, frame limit and *)
(* set of command lines.                                                   *)
(*   WatchInv   how old the last heartbeat can be, by where the loop is    *)
(*   ChildInv   which of child, reader and process number go together      *)
(*   CodeInv    what has been finished when the exit code is decided       *)
(*   ReportInv  what has come to its end when the report is published      *)
(*   ParsedInv  what the options can be, read and accepted                 *)
(*   StateInv   the types the others leave open                            *)
(***************************************************************************)
EXTENDS Service, TLAPS

-----------------------------------------------------------------------------
(* The watchdog                                                            *)

LEMMA HalfFacts ==
  ASSUME NEW n \in Nat \ {0}
  PROVE  Half(n) \in Nat /\ 1 <= Half(n) /\ Half(n) <= n /\ n <= 2 * Half(n) + 1
  BY DEF Half

ClockType ==
  /\ interval \in {0, WatchdogTicks}
  /\ clock \in [progress : Nat, beat : Nat, due : Nat, waited : Nat]
  /\ pc = "wait" => clock.waited <= WaitTicks
  /\ excused \in BOOLEAN

\* Outside the loop the clock stands still; within it a frame that came after the
\* last heartbeat, or half an interval before it, bounds its age.
Heartbeats ==
  /\ ~ InLoop => clock = Stopped
  /\ interval > 0 =>
       /\ clock.beat <= interval /\ clock.due <= Half(interval)
       /\ clock.progress <= clock.beat + Half(interval)

\* Without an excuse every heartbeat that was due has been sent.
Regular ==
  /\ clock.progress <= interval - Half(interval) - WaitTicks
  /\ clock.due > 0 => clock.beat + clock.due <= Half(interval)
  /\ pc = "wait" => clock.beat <= Half(interval) - 1 + clock.waited
  /\ pc \in {"top", "work"} =>
       clock.beat <= Half(interval) - 1 + WaitTicks + clock.progress

WatchInv ==
  /\ ClockType /\ Heartbeats
  /\ InLoop /\ interval > 0 /\ ~ excused =>
       (clock.progress = 0 /\ clock.beat = 0) \/ Regular
  /\ pc = "aborted" => excused

LEMMA IntervalFacts ==
  ASSUME ClockType, interval > 0
  PROVE  /\ interval \in Nat \ {0} /\ WaitTicks \in Nat \ {0}
         /\ Half(interval) \in Nat /\ 1 <= Half(interval) /\ Half(interval) <= interval
         /\ interval <= 2 * Half(interval) + 1
<1>1. interval \in Nat \ {0} /\ WaitTicks \in Nat \ {0}
  BY ServiceAssumption DEF ClockType
<1> QED
  BY <1>1, HalfFacts

LEMMA WatchInit == Init => WatchInv
<1> SUFFICES ASSUME Init PROVE WatchInv
  OBVIOUS
<1>1. /\ pc = "parse" /\ interval = 0 /\ clock = Stopped /\ excused = FALSE
  BY DEF Init
<1>2. /\ clock \in [progress : Nat, beat : Nat, due : Nat, waited : Nat]
  BY <1>1 DEF Stopped
<1>3. ~ InLoop /\ ~ interval > 0 /\ pc # "wait" /\ pc # "aborted" /\ excused \in BOOLEAN
  <2>1. ~ interval > 0
    BY <1>1
  <2>2. excused \in BOOLEAN
    BY <1>1
  <2> QED
    BY <1>1, <2>1, <2>2 DEF InLoop
<1>4. ClockType
  BY <1>1, <1>2, <1>3 DEF ClockType
<1>5. Heartbeats
  BY <1>1, <1>3 DEF Heartbeats
<1> QED
  BY <1>3, <1>4, <1>5 DEF WatchInv

\* What a look at the watchdog does: with no excuse, a heartbeat that is due is sent.
LEMMA MaintainedFacts ==
  ASSUME WatchInv, InLoop, NEW sent \in Sendings(clock)
  PROVE  LET c == Maintained(clock, sent)
             stillExcused == excused \/ (Beats(clock) /\ ~ sent)
         IN  /\ c \in [progress : Nat, beat : Nat, due : Nat, waited : Nat]
             /\ c.progress = clock.progress /\ c.waited = clock.waited
             /\ interval > 0 =>
                  /\ c.beat <= interval /\ c.due <= Half(interval)
                  /\ c.progress <= c.beat + Half(interval)
                  /\ c.beat <= clock.beat
             /\ interval > 0 /\ ~ stillExcused =>
                  \/ c.progress = 0 /\ c.beat = 0
                  \/ /\ c.progress <= interval - Half(interval) - WaitTicks
                     /\ c.beat + c.due <= Half(interval) /\ c.due > 0
<1> DEFINE c == Maintained(clock, sent)
           Clock == [progress : Nat, beat : Nat, due : Nat, waited : Nat]
<1>1. clock \in Clock /\ excused \in BOOLEAN /\ sent \in BOOLEAN
  BY DEF WatchInv, ClockType, Sendings
<1>2. CASE interval = 0
  <2>1. c = clock
    BY <1>2 DEF Maintained
  <2> QED
    BY <1>1, <1>2, <2>1
<1>3. CASE interval # 0
  <2>1. /\ interval > 0 /\ interval \in Nat \ {0} /\ WaitTicks \in Nat \ {0}
        /\ Half(interval) \in Nat /\ 1 <= Half(interval) /\ Half(interval) <= interval
        /\ interval <= 2 * Half(interval) + 1
    BY <1>3, IntervalFacts, ServiceAssumption DEF WatchInv, ClockType
  <2>2. /\ clock.beat <= interval /\ clock.due <= Half(interval)
        /\ clock.progress <= clock.beat + Half(interval)
        /\ ~ excused => (clock.progress = 0 /\ clock.beat = 0) \/ Regular
    BY <2>1 DEF WatchInv, Heartbeats
  <2>3. CASE clock.due > 0
    <3>1. c = clock
      BY <2>3 DEF Maintained
    <3> QED
      BY <1>1, <2>1, <2>2, <2>3, <3>1 DEF Regular
  <2>4. CASE ~ clock.due > 0
    <3>1. c = [clock EXCEPT !.due = Half(interval), !.beat = IF sent THEN 0 ELSE @]
      BY <1>3, <2>4 DEF Maintained
    <3>2. /\ c \in Clock /\ c.progress = clock.progress /\ c.waited = clock.waited
          /\ c.due = Half(interval) /\ c.beat = IF sent THEN 0 ELSE clock.beat
      <4> DEFINE beat == IF sent THEN 0 ELSE clock.beat
      <4>1. beat \in Nat
        BY <1>1
      <4>2. c = [clock EXCEPT !.due = Half(interval), !.beat = beat]
        BY <3>1
      <4> HIDE DEF beat, c
      <4>3. /\ c \in Clock /\ c.progress = clock.progress /\ c.waited = clock.waited
            /\ c.due = Half(interval) /\ c.beat = beat
        BY <1>1, <2>1, <4>1, <4>2
      <4> QED
        BY <4>3 DEF beat
    <3>3. clock.due = 0 /\ (Beats(clock) <=> clock.progress <= Half(interval))
      BY <1>1, <2>1, <2>4 DEF Beats
    <3>4. sent => clock.progress <= Half(interval)
      BY <3>3 DEF Sendings
    <3>5. /\ c.beat <= interval /\ c.due <= Half(interval)
          /\ c.progress <= c.beat + Half(interval) /\ c.beat <= clock.beat
      BY <1>1, <2>1, <2>2, <3>2, <3>4
    <3>6. ASSUME ~ excused, ~ (Beats(clock) /\ ~ sent)
          PROVE  \/ c.progress = 0 /\ c.beat = 0
                 \/ /\ c.progress <= interval - Half(interval) - WaitTicks
                    /\ c.beat + c.due <= Half(interval) /\ c.due > 0
      <4>1. CASE clock.progress = 0 /\ clock.beat = 0
        BY <1>1, <3>2, <4>1
      <4>2. CASE Regular
        <5>1. clock.progress <= interval - Half(interval) - WaitTicks
          BY <4>2 DEF Regular
        <5>2. clock.progress <= Half(interval)
          BY <1>1, <2>1, <5>1
        <5>3. sent
          BY <1>1, <3>3, <3>6, <5>2
        <5> QED
          BY <2>1, <3>2, <5>1, <5>3
      <4> QED
        BY <2>2, <3>6, <4>1, <4>2
    <3> QED
      BY <1>1, <3>2, <3>5, <3>6
  <2> QED
    BY <2>3, <2>4
<1> QED
  BY <1>2, <1>3

LEMMA WatchWait ==
  ASSUME WatchInv, Wait
  PROVE  WatchInv'
<1> USE DEF runVars, samplerVars
<1>1. pc = "top" /\ InLoop /\ UNCHANGED interval
  BY DEF Wait, InLoop
<1>2. CASE pc' = "stopping" /\ clock' = Stopped /\ UNCHANGED excused
  <2>1. Stopped \in [progress : Nat, beat : Nat, due : Nat, waited : Nat]
    BY DEF Stopped
  <2>2. ClockType' /\ ~ InLoop'
    BY <1>1, <1>2, <2>1 DEF WatchInv, ClockType, InLoop
  <2>3. interval > 0 => 0 <= interval /\ 0 <= Half(interval)
    BY <1>1, IntervalFacts DEF WatchInv
  <2>4. Heartbeats'
    <3>1. clock'.beat = 0 /\ clock'.due = 0 /\ clock'.progress = 0
      BY <1>2 DEF Stopped
    <3>2. interval > 0 => 0 <= 0 + Half(interval)
      BY <2>3, IntervalFacts DEF WatchInv
    <3>3. interval' = interval /\ (interval > 0 => 0 <= interval /\ 0 <= Half(interval))
      BY <1>1, <2>3
    <3> QED
      BY <1>2, <2>2, <3>1, <3>2, <3>3 DEF Heartbeats
  <2> QED
    BY <1>2, <2>2, <2>4 DEF WatchInv
<1>3. CASE ~ (pc' = "stopping" /\ clock' = Stopped /\ UNCHANGED excused)
  <2>1. PICK sent \in Sendings(clock) :
          /\ pc' = "wait"
          /\ clock' = [Maintained(clock, sent) EXCEPT !.waited = 0]
          /\ excused' = (excused \/ (Beats(clock) /\ ~ sent))
    BY <1>3 DEF Wait, Leave
  <2> DEFINE c == Maintained(clock, sent)
             stillExcused == excused \/ (Beats(clock) /\ ~ sent)
  <2>2. /\ c \in [progress : Nat, beat : Nat, due : Nat, waited : Nat]
        /\ interval > 0 =>
             /\ c.beat <= interval /\ c.due <= Half(interval)
             /\ c.progress <= c.beat + Half(interval)
        /\ interval > 0 /\ ~ stillExcused =>
             \/ c.progress = 0 /\ c.beat = 0
             \/ /\ c.progress <= interval - Half(interval) - WaitTicks
                /\ c.beat + c.due <= Half(interval) /\ c.due > 0
    BY <1>1, MaintainedFacts
  <2>3. clock' = [c EXCEPT !.waited = 0] /\ excused' = stillExcused
    BY <2>1
  <2>7. stillExcused \in BOOLEAN
    OBVIOUS
  <2> HIDE DEF c, stillExcused
  <2>4. /\ clock' \in [progress : Nat, beat : Nat, due : Nat, waited : Nat]
        /\ clock'.progress = c.progress /\ clock'.beat = c.beat
        /\ clock'.due = c.due /\ clock'.waited = 0
    BY <2>2, <2>3
  <2>5. ClockType' /\ Heartbeats'
    <3>1. InLoop' /\ pc' = "wait" /\ excused' \in BOOLEAN
      BY <2>1, <2>3, <2>7 DEF InLoop
    <3> QED
      BY <1>1, <2>2, <2>4, <3>1, ServiceAssumption DEF WatchInv, ClockType, Heartbeats
  <2>6. ASSUME interval > 0, ~ excused'
        PROVE  (clock'.progress = 0 /\ clock'.beat = 0) \/ Regular'
    <3>1. Half(interval) \in Nat /\ interval \in Nat
      BY <2>6, IntervalFacts DEF WatchInv
    <3>2. CASE c.progress = 0 /\ c.beat = 0
      BY <2>4, <3>2
    <3>3. CASE /\ c.progress <= interval - Half(interval) - WaitTicks
               /\ c.beat + c.due <= Half(interval) /\ c.due > 0
      <4>1. c.beat <= Half(interval) - 1 + 0
        BY <2>2, <3>1, <3>3
      <4> QED
        BY <1>1, <2>1, <2>4, <3>3, <4>1 DEF Regular
    <3> QED
      BY <2>2, <2>3, <2>6, <3>2, <3>3
  <2> QED
    BY <1>1, <2>1, <2>5, <2>6 DEF WatchInv
<1> QED
  BY <1>2, <1>3

LEMMA WatchPop ==
  ASSUME WatchInv, Pop
  PROVE  WatchInv'
<1> USE DEF runVars, samplerVars
<1>0. /\ pc = "wait" /\ InLoop /\ UNCHANGED <<interval, excused>>
      /\ clock \in [progress : Nat, beat : Nat, due : Nat, waited : Nat]
      /\ clock.waited <= WaitTicks
  BY DEF Pop, InLoop, WatchInv, ClockType
<1>1. CASE Leave("stopping")
  <2>1. Stopped \in [progress : Nat, beat : Nat, due : Nat, waited : Nat]
        /\ pc' = "stopping" /\ clock' = Stopped /\ ~ InLoop'
    BY <1>1 DEF Stopped, Leave, InLoop
  <2>2. ClockType'
    BY <1>0, <2>1 DEF WatchInv, ClockType
  <2>3. Heartbeats'
    <3>1. clock'.beat = 0 /\ clock'.due = 0 /\ clock'.progress = 0
      BY <2>1 DEF Stopped
    <3>2. interval > 0 => 0 <= interval /\ 0 <= Half(interval) /\ 0 <= 0 + Half(interval)
      BY IntervalFacts DEF WatchInv
    <3> QED
      BY <1>0, <2>1, <3>1, <3>2 DEF Heartbeats
  <2> QED
    BY <2>1, <2>2, <2>3 DEF WatchInv
<1>2. CASE pc' = "top" /\ UNCHANGED clock
  <2>1. InLoop'
    BY <1>2 DEF InLoop
  <2>2. ClockType' /\ Heartbeats'
    BY <1>0, <1>2, <2>1 DEF WatchInv, ClockType, Heartbeats
  <2>3. ASSUME interval > 0, Regular PROVE Regular'
    <3>1. Half(interval) \in Nat /\ WaitTicks \in Nat
      BY <2>3, IntervalFacts DEF WatchInv
    <3>2. clock.beat <= Half(interval) - 1 + WaitTicks + clock.progress
      BY <1>0, <2>3, <3>1 DEF Regular
    <3> QED
      BY <1>0, <1>2, <2>3, <3>2 DEF Regular
  <2> QED
    BY <1>0, <1>2, <2>1, <2>2, <2>3 DEF WatchInv
<1>3. CASE pc' = "work" /\ clock' = [clock EXCEPT !.progress = 0]
  <2>1. /\ InLoop' /\ clock' \in [progress : Nat, beat : Nat, due : Nat, waited : Nat]
        /\ clock'.progress = 0 /\ clock'.beat = clock.beat /\ clock'.due = clock.due
    BY <1>0, <1>3 DEF InLoop
  <2>2. ClockType'
    BY <1>0, <1>3, <2>1 DEF WatchInv, ClockType
  <2>3. interval > 0 => 0 <= clock.beat + Half(interval)
    BY <1>0, IntervalFacts DEF WatchInv
  <2>4. Heartbeats'
    BY <1>0, <2>1, <2>3 DEF WatchInv, Heartbeats
  <2>5. ASSUME interval > 0, Regular PROVE Regular'
    <3>1. Half(interval) \in Nat /\ WaitTicks \in Nat /\ interval \in Nat
      BY <2>5, IntervalFacts DEF WatchInv
    <3>2. /\ clock.beat <= Half(interval) - 1 + WaitTicks + 0
          /\ 0 <= interval - Half(interval) - WaitTicks
          /\ clock.due > 0 => clock.beat + clock.due <= Half(interval)
      BY <1>0, <2>5, <3>1 DEF Regular
    <3> QED
      BY <1>0, <1>3, <2>1, <3>2 DEF Regular
  <2>6. clock.progress = 0 /\ clock.beat = 0 => clock'.progress = 0 /\ clock'.beat = 0
    BY <2>1
  <2> QED
    BY <1>0, <1>3, <2>1, <2>2, <2>4, <2>5, <2>6 DEF WatchInv
<1> QED
  BY <1>1, <1>2, <1>3 DEF Pop

LEMMA WatchWork ==
  ASSUME WatchInv, Work
  PROVE  WatchInv'
<1> USE DEF runVars, samplerVars
<1> USE DEF InvalidFrame, WarmupFrame, MeasuredFrame, FrameFails
<1>0. /\ pc = "work" /\ InLoop /\ UNCHANGED interval
      /\ clock \in [progress : Nat, beat : Nat, due : Nat, waited : Nat]
  BY DEF Work, InLoop, WatchInv, ClockType
<1>1. CASE Leave("kill") /\ UNCHANGED excused
  <2>1. Stopped \in [progress : Nat, beat : Nat, due : Nat, waited : Nat]
        /\ pc' = "kill" /\ clock' = Stopped /\ ~ InLoop'
    BY <1>1 DEF Stopped, Leave, InLoop
  <2>2. ClockType'
    BY <1>0, <1>1, <2>1 DEF WatchInv, ClockType
  <2>3. Heartbeats'
    <3>1. clock'.beat = 0 /\ clock'.due = 0 /\ clock'.progress = 0
      BY <2>1 DEF Stopped
    <3>2. interval > 0 => 0 <= interval /\ 0 <= Half(interval) /\ 0 <= 0 + Half(interval)
      BY IntervalFacts DEF WatchInv
    <3> QED
      BY <1>0, <2>1, <3>1, <3>2 DEF Heartbeats
  <2> QED
    BY <2>1, <2>2, <2>3 DEF WatchInv
<1>2. CASE pc' = "top" /\ UNCHANGED <<clock, excused>>
  <2>1. InLoop'
    BY <1>2 DEF InLoop
  <2>2. ClockType' /\ Heartbeats'
    BY <1>0, <1>2, <2>1 DEF WatchInv, ClockType, Heartbeats
  <2>3. Regular => Regular'
    BY <1>0, <1>2 DEF Regular
  <2> QED
    BY <1>0, <1>2, <2>1, <2>2, <2>3 DEF WatchInv
<1>3. CASE /\ pc' = "top"
           /\ \E sent \in Sendings(clock) :
                /\ clock' = Maintained(clock, sent)
                /\ excused' = (excused \/ (Beats(clock) /\ ~ sent))
  <2>1. PICK sent \in Sendings(clock) :
          /\ clock' = Maintained(clock, sent)
          /\ excused' = (excused \/ (Beats(clock) /\ ~ sent))
    BY <1>3
  <2>2. /\ clock' \in [progress : Nat, beat : Nat, due : Nat, waited : Nat]
        /\ clock'.progress = clock.progress
        /\ interval > 0 =>
             /\ clock'.beat <= interval /\ clock'.due <= Half(interval)
             /\ clock'.progress <= clock'.beat + Half(interval)
        /\ interval > 0 /\ ~ excused' =>
             \/ clock'.progress = 0 /\ clock'.beat = 0
             \/ /\ clock'.progress <= interval - Half(interval) - WaitTicks
                /\ clock'.beat + clock'.due <= Half(interval) /\ clock'.due > 0
    BY <1>0, <2>1, MaintainedFacts
  <2>3. InLoop' /\ excused' \in BOOLEAN
    BY <1>3, <2>1 DEF InLoop
  <2>4. ClockType' /\ Heartbeats'
    BY <1>0, <1>3, <2>2, <2>3 DEF WatchInv, ClockType, Heartbeats
  <2>5. ASSUME interval > 0, clock'.due > 0, clock'.beat + clock'.due <= Half(interval),
               clock'.progress <= interval - Half(interval) - WaitTicks
        PROVE  Regular'
    <3>1. Half(interval) \in Nat /\ WaitTicks \in Nat
      BY <2>5, IntervalFacts DEF WatchInv
    <3>2. clock'.beat <= Half(interval) - 1 + WaitTicks + clock'.progress
      BY <2>2, <2>5, <3>1
    <3> QED
      BY <1>0, <1>3, <2>5, <3>2 DEF Regular
  <2> QED
    BY <1>0, <1>3, <2>2, <2>3, <2>4, <2>5 DEF WatchInv
<1> QED
  BY <1>1, <1>2, <1>3 DEF Work

\* The only step that ages anything: it makes the excuse itself when the frames
\* have been away for too long.
LEMMA WatchTick ==
  ASSUME WatchInv, Tick
  PROVE  WatchInv'
<1> USE DEF runVars, samplerVars
<1>0. /\ pc \in {"wait", "work"} /\ InLoop /\ UNCHANGED <<pc, interval>> /\ InLoop'
      /\ clock \in [progress : Nat, beat : Nat, due : Nat, waited : Nat]
      /\ pc = "wait" => clock.waited < WaitTicks
      /\ excused \in BOOLEAN /\ WaitTicks \in Nat
  BY ServiceAssumption DEF Tick, InLoop, WatchInv, ClockType
<1>1. CASE interval = 0
  <2>1. clock' = [clock EXCEPT !.waited = IF pc = "wait" THEN clock.waited + 1 ELSE clock.waited]
    BY <1>1 DEF Tick
  <2>2. /\ clock' \in [progress : Nat, beat : Nat, due : Nat, waited : Nat]
        /\ pc = "wait" => clock'.waited = clock.waited + 1
    <3>1. CASE pc = "wait"
      <4>1. clock' = [clock EXCEPT !.waited = clock.waited + 1]
        BY <2>1, <3>1
      <4> QED
        BY <1>0, <4>1
    <3>2. CASE pc # "wait"
      <4>1. clock' = clock
        BY <1>0, <2>1, <3>2
      <4> QED
        BY <1>0, <3>2, <4>1
    <3> QED
      BY <3>1, <3>2
  <2>3. ~ interval > 0
    BY <1>1
  <2>4. excused' = excused
    BY <1>0, <2>3 DEF Tick
  <2>5. pc' = "wait" => clock'.waited <= WaitTicks
    BY <1>0, <2>2
  <2>6. ClockType'
    BY <1>0, <2>2, <2>4, <2>5 DEF WatchInv, ClockType
  <2>7. pc' # "aborted" /\ ~ interval' > 0
    BY <1>0, <2>3
  <2> QED
    BY <1>0, <2>6, <2>7 DEF WatchInv, Heartbeats
<1>2. CASE interval # 0
  <2>1. /\ interval > 0 /\ interval \in Nat \ {0} /\ WaitTicks \in Nat \ {0}
        /\ Half(interval) \in Nat /\ 1 <= Half(interval) /\ Half(interval) <= interval
        /\ interval <= 2 * Half(interval) + 1
    BY <1>2, IntervalFacts, ServiceAssumption DEF WatchInv, ClockType
  <2> DEFINE due == IF clock.due > 0 THEN clock.due - 1 ELSE 0
             waited == IF pc = "wait" THEN clock.waited + 1 ELSE clock.waited
  <2>2. /\ clock' = [progress |-> clock.progress + 1, beat |-> clock.beat + 1,
                     due |-> due, waited |-> waited]
        /\ clock.beat < interval
        /\ excused' = (excused \/ (interval > 0 /\ clock'.progress >= Tolerance))
    BY <1>2, <2>1 DEF Tick
  <2>3. /\ due \in Nat /\ due <= clock.due /\ (due > 0 => due = clock.due - 1)
        /\ waited \in Nat /\ (pc = "wait" => waited = clock.waited + 1)
    BY <1>0
  <2> HIDE DEF due, waited
  <2>4. /\ clock' \in [progress : Nat, beat : Nat, due : Nat, waited : Nat]
        /\ clock'.progress = clock.progress + 1 /\ clock'.beat = clock.beat + 1
        /\ clock'.due = due /\ clock'.waited = waited
    BY <1>0, <2>2, <2>3
  <2>5. /\ excused' \in BOOLEAN
        /\ ~ excused' => ~ excused /\ clock'.progress < Tolerance
    <3>1. clock'.progress \in Nat /\ Tolerance \in Int
      BY <2>1, <2>4 DEF Tolerance
    <3>2. ~ (clock'.progress >= Tolerance) => clock'.progress < Tolerance
      BY <3>1
    <3> QED
      BY <2>1, <2>2, <3>2
  <2>6. ClockType'
    <3>1. pc' = "wait" => clock'.waited <= WaitTicks
      BY <1>0, <2>1, <2>3, <2>4
    <3> QED
      BY <1>0, <2>4, <2>5, <3>1 DEF WatchInv, ClockType
  <2>7. Heartbeats'
    <3>1. /\ clock.due <= Half(interval) /\ clock.progress <= clock.beat + Half(interval)
      BY <2>1 DEF WatchInv, Heartbeats
    <3>2. /\ clock'.beat <= interval /\ clock'.due <= Half(interval)
          /\ clock'.progress <= clock'.beat + Half(interval)
      BY <1>0, <2>1, <2>2, <2>3, <2>4, <3>1
    <3> QED
      BY <1>0, <3>2 DEF Heartbeats
  <2>8. ASSUME ~ excused' PROVE Regular'
    <3>1. clock'.progress <= interval - Half(interval) - WaitTicks
      BY <2>1, <2>4, <2>5, <2>8 DEF Tolerance
    <3>2. CASE clock.progress = 0 /\ clock.beat = 0
      <4>1. clock.due <= Half(interval)
        BY <2>1 DEF WatchInv, Heartbeats
      <4>2. /\ clock'.due > 0 => clock'.beat + clock'.due <= Half(interval)
            /\ pc = "wait" => clock'.beat <= Half(interval) - 1 + clock'.waited
            /\ clock'.beat <= Half(interval) - 1 + WaitTicks + clock'.progress
        BY <1>0, <2>1, <2>3, <2>4, <3>2, <4>1
      <4> QED
        BY <1>0, <3>1, <4>2 DEF Regular
    <3>3. CASE Regular
      <4>1. /\ clock.due > 0 => clock.beat + clock.due <= Half(interval)
            /\ pc = "wait" => clock.beat <= Half(interval) - 1 + clock.waited
            /\ pc = "work" => clock.beat <= Half(interval) - 1 + WaitTicks + clock.progress
        BY <3>3 DEF Regular
      <4>2. clock'.due > 0 => clock'.beat + clock'.due <= Half(interval)
        BY <1>0, <2>1, <2>3, <2>4, <4>1
      <4>3. pc = "wait" => clock'.beat <= Half(interval) - 1 + clock'.waited
        BY <1>0, <2>1, <2>3, <2>4, <4>1
      <4>4. pc = "work" => clock'.beat <= Half(interval) - 1 + WaitTicks + clock'.progress
        BY <1>0, <2>1, <2>4, <4>1
      <4> QED
        BY <1>0, <3>1, <4>2, <4>3, <4>4 DEF Regular
    <3> QED
      BY <1>0, <2>1, <2>5, <2>8, <3>2, <3>3 DEF WatchInv
  <2> QED
    BY <1>0, <2>6, <2>7, <2>8 DEF WatchInv
<1> QED
  BY <1>1, <1>2

\* With no excuse the watchdog has nothing to strike at.
LEMMA WatchKill ==
  ASSUME WatchInv, WatchdogKill
  PROVE  WatchInv'
<1> USE DEF runVars, samplerVars
<1>0. /\ InLoop /\ interval > 0 /\ clock.beat >= interval
      /\ pc' = "aborted" /\ clock' = Stopped /\ UNCHANGED <<interval, excused>>
      /\ clock \in [progress : Nat, beat : Nat, due : Nat, waited : Nat]
  BY DEF WatchdogKill, WatchInv, ClockType
<1>1. /\ interval \in Nat \ {0} /\ WaitTicks \in Nat \ {0}
      /\ Half(interval) \in Nat /\ 1 <= Half(interval) /\ Half(interval) <= interval
  BY <1>0, IntervalFacts DEF WatchInv
<1>2. excused
  <2> SUFFICES ASSUME ~ excused PROVE FALSE
    OBVIOUS
  <2>1. CASE clock.progress = 0 /\ clock.beat = 0
    BY <1>0, <1>1, <2>1
  <2>2. CASE Regular
    <3>1. /\ clock.progress <= interval - Half(interval) - WaitTicks
          /\ pc = "wait" => clock.beat <= Half(interval) - 1 + clock.waited
          /\ pc \in {"top", "work"} =>
               clock.beat <= Half(interval) - 1 + WaitTicks + clock.progress
      BY <2>2 DEF Regular
    <3>2. pc = "wait" => clock.waited <= WaitTicks
      BY DEF WatchInv, ClockType
    <3>3. CASE pc = "wait"
      BY <1>0, <1>1, <3>1, <3>2, <3>3
    <3>4. CASE pc \in {"top", "work"}
      BY <1>0, <1>1, <3>1, <3>4
    <3> QED
      BY <1>0, <3>3, <3>4 DEF InLoop
  <2> QED
    BY <1>0, <2>1, <2>2 DEF WatchInv
<1>3. Stopped \in [progress : Nat, beat : Nat, due : Nat, waited : Nat] /\ ~ InLoop'
  BY <1>0 DEF Stopped, InLoop
<1>4. ClockType'
  BY <1>0, <1>3 DEF WatchInv, ClockType
<1>5. Heartbeats'
  <2>1. clock'.beat = 0 /\ clock'.due = 0 /\ clock'.progress = 0
    BY <1>0 DEF Stopped
  <2>2. 0 <= interval /\ 0 <= Half(interval) /\ 0 <= 0 + Half(interval)
    BY <1>1
  <2> QED
    BY <1>0, <1>3, <2>1, <2>2 DEF Heartbeats
<1> QED
  BY <1>0, <1>2, <1>3, <1>4, <1>5 DEF WatchInv

\* The steps outside the loop, and those beside it that leave the clock alone.
LEMMA WatchAside ==
  ASSUME WatchInv, UNCHANGED <<clock, excused>>, pc' # "aborted" \/ pc = "aborted",
         \/ UNCHANGED <<pc, interval>>
         \/ /\ ~ InLoop /\ pc' # "wait" /\ interval' \in {0, WatchdogTicks}
            /\ ~ InLoop' \/ pc' = "top"
  PROVE  WatchInv'
<1>1. CASE UNCHANGED <<pc, interval>>
  BY <1>1 DEF WatchInv, ClockType, Heartbeats, Regular, InLoop
<1>2. CASE /\ ~ InLoop /\ pc' # "wait" /\ interval' \in {0, WatchdogTicks}
           /\ ~ InLoop' \/ pc' = "top"
  <2>1. /\ clock = Stopped /\ clock' = Stopped
        /\ clock'.beat = 0 /\ clock'.due = 0 /\ clock'.progress = 0
    BY <1>2 DEF WatchInv, Heartbeats, Stopped
  <2>2. ClockType'
    BY <1>2, <2>1 DEF WatchInv, ClockType
  <2>3. interval' > 0 =>
          0 <= interval' /\ 0 <= Half(interval') /\ 0 <= 0 + Half(interval')
    <3> SUFFICES ASSUME interval' > 0
                 PROVE  0 <= interval' /\ 0 <= Half(interval') /\ 0 <= 0 + Half(interval')
      OBVIOUS
    <3>1. interval' \in Nat \ {0}
      BY <1>2, ServiceAssumption
    <3>2. Half(interval') \in Nat
      BY <3>1, HalfFacts
    <3> QED
      BY <3>1, <3>2
  <2>4. Heartbeats'
    BY <2>1, <2>3 DEF Heartbeats
  <2> QED
    BY <1>2, <2>1, <2>2, <2>4 DEF WatchInv
<1> QED
  BY <1>1, <1>2

LEMMA WatchStep == WatchInv /\ [Next]_vars => WatchInv'
<1> SUFFICES ASSUME WatchInv, [Next]_vars PROVE WatchInv'
  OBVIOUS
<1> USE DEF runVars, samplerVars, loopVars
<1>0. interval \in {0, WatchdogTicks}
  BY DEF WatchInv, ClockType
<1>1. CASE Wait
  BY <1>1, WatchWait
<1>2. CASE Pop
  BY <1>2, WatchPop
<1>3. CASE Work
  BY <1>3, WatchWork
<1>4. CASE Tick
  BY <1>4, WatchTick
<1>5. CASE WatchdogKill
  BY <1>5, WatchKill
<1>6. CASE Parse
  BY <1>0, <1>6, WatchAside DEF Parse, WatchdogInterval, InLoop
<1>7. CASE Build \/ StartSampler
  BY <1>0, <1>7, WatchAside DEF Build, StartSampler, InLoop
<1>8. CASE StartCapture \/ Ready
  BY <1>0, <1>8, WatchAside DEF StartCapture, Ready, InLoop
<1>9. CASE StopCapture \/ Flush
  BY <1>0, <1>9, WatchAside DEF StopCapture, Flush, InLoop
<1>10. CASE KillChild \/ JoinReader \/ Reap
  BY <1>0, <1>10, WatchAside DEF KillChild, JoinReader, Reap, InLoop
<1>11. CASE Report \/ WriteReport \/ PublishReport \/ Conclude \/ Destroy
  BY <1>0, <1>11, WatchAside
  DEF Report, WriteReport, PublishReport, Conclude, Destroy, InLoop
<1>12. CASE Signal \/ StreamEnds
  BY <1>12, WatchAside DEF Signal, StreamEnds
<1>13. CASE ReadArgument \/ Exec \/ ChildDies \/ ReadSample \/ ReaderEnds
  BY <1>13, WatchAside DEF ReadArgument, Exec, ChildDies, ReadSample, ReaderEnds
<1>14. CASE UNCHANGED vars
  BY <1>14, WatchAside DEF vars
<1>15. CASE StopTimeout
  <2>1. pc' = "timedOut" /\ clock' = Stopped /\ UNCHANGED <<interval, excused>>
    BY <1>15 DEF StopTimeout
  <2>2. Stopped \in [progress : Nat, beat : Nat, due : Nat, waited : Nat] /\ ~ InLoop'
    BY <2>1 DEF Stopped, InLoop
  <2>3. ClockType'
    BY <2>1, <2>2 DEF WatchInv, ClockType
  <2>4. clock'.beat = 0 /\ clock'.due = 0 /\ clock'.progress = 0
    BY <2>1 DEF Stopped
  <2>5. interval > 0 => 0 <= interval /\ 0 <= Half(interval) /\ 0 <= 0 + Half(interval)
    BY IntervalFacts DEF WatchInv
  <2>6. Heartbeats'
    BY <2>1, <2>2, <2>4, <2>5 DEF Heartbeats
  <2> QED
    BY <2>1, <2>2, <2>3, <2>6 DEF WatchInv
<1> QED
  BY <1>1, <1>2, <1>3, <1>4, <1>5, <1>6, <1>7, <1>8, <1>9, <1>10, <1>11, <1>12,
     <1>13, <1>14, <1>15
  DEF Next, Main, Sampler

\* An abort needs a stall of the frames or a heartbeat that could not be sent, and
\* no stall outlasts one and a half intervals (Service, WatchdogContract).
THEOREM WatchdogKeepsContract == Spec => []WatchdogContract
<1>1. WatchInv => WatchdogContract
  <2> SUFFICES ASSUME WatchInv PROVE WatchdogContract
    OBVIOUS
  <2>1. ASSUME InLoop, interval > 0
        PROVE  clock.progress <= interval + Half(interval)
    <3>1. /\ interval \in Nat /\ Half(interval) \in Nat
          /\ clock \in [progress : Nat, beat : Nat, due : Nat, waited : Nat]
      BY <2>1, IntervalFacts DEF WatchInv, ClockType
    <3>2. clock.beat <= interval /\ clock.progress <= clock.beat + Half(interval)
      BY <2>1 DEF WatchInv, Heartbeats
    <3> QED
      BY <3>1, <3>2
  <2> QED
    BY <2>1 DEF WatchInv, WatchdogContract
<1> QED
  BY <1>1, WatchInit, WatchStep, PTL DEF Spec

-----------------------------------------------------------------------------
(* The shutdown                                                            *)

\* main has stopped everything and not yet decided on its exit code.
Reporting == pc \in {"report", "write", "publish", "conclude"}

\* The number of the process is kept as long as there is one to wait for; a reader
\* that ended without a sample has left its error.
ChildInv ==
  /\ child \in {"none", "forked", "running", "zombie", "reaped"}
  /\ reader \in {"none", "reading", "done", "joined"}
  /\ childPid \in BOOLEAN /\ samples \in BOOLEAN /\ samplerError \in BOOLEAN
  /\ strayKill = FALSE
  /\ childPid <=> child \notin {"none", "reaped"}
  /\ pc \in {"parse", "build", "sample"} => child = "none" /\ reader = "none"
  /\ pc \in {"reap", "destroy", "exited"} \/ Reporting => reader \in {"none", "joined"}
  /\ pc \in {"destroy", "exited"} \/ Reporting => child \in {"none", "reaped"}
  /\ reader \in {"done", "joined"} => samples \/ samplerError

\* main has not begun to stop the sampler: nothing has failed yet.
Going ==
  pc \in {"parse", "build", "sample", "start", "ready", "top", "wait", "work",
          "stopping", "flush"}

CodeInv ==
  /\ code \in {NoCode, 0, 1, 2}
  /\ capture \in {"none", "running", "ended", "stopped"}
  /\ outputs \in {"none", "open", "finished", "closed"}
  /\ Going => code = NoCode /\ outputs \in {"none", "open"}
  /\ Going /\ pc # "flush" => shutdown = FALSE
  /\ pc \in {"parse", "build"} => capture = "none" /\ outputs = "none"
  /\ pc = "flush" => capture = "stopped"
  /\ code = NoCode /\ (pc \in {"kill", "join", "reap"} \/ Reporting) =>
       capture = "stopped" /\ outputs \in {"none", "finished"}
  /\ code = 0 => /\ capture = "stopped" /\ outputs \in {"none", "finished"}
                 /\ ~ invalid
                 /\ shutdown \/ measured = mode.frames
  /\ code = 1 => ~ shutdown \/ invalid
  /\ Reporting => code = NoCode
  /\ pc \in {"destroy", "exited"} => code # NoCode
  /\ pc = "exited" => capture \in {"none", "stopped"} /\ outputs # "open"

ReportInv ==
  /\ report \in {"earlier", "temporary", "complete"}
  /\ Going => report = "earlier"
  /\ pc \in {"write", "publish"} => mode.metrics
  /\ report = "complete" =>
       /\ mode.metrics /\ code # 2
       /\ capture = "stopped" /\ outputs \in {"none", "finished"}
       /\ child \in {"none", "reaped"} /\ reader \in {"none", "joined"}

LEMMA EndInit == Init => ChildInv /\ CodeInv /\ ReportInv
<1>1. Init => ChildInv
  BY DEF Init, ChildInv, Reporting
<1>2. Init => CodeInv
  BY DEF Init, CodeInv, Going, NoCode, Reporting
<1>3. Init => ReportInv
  BY DEF Init, ReportInv
<1> QED
  BY <1>1, <1>2, <1>3

\* What main does that does not concern the sampler.
LEMMA ChildAside ==
  ASSUME ChildInv, UNCHANGED samplerVars,
         pc' = pc \/ pc' \in {"start", "ready", "top", "wait", "work", "stopping", "flush",
                              "kill", "aborted", "timedOut"}
  PROVE  ChildInv'
BY DEF ChildInv, samplerVars, Reporting

LEMMA ChildStep == ChildInv /\ [Next]_vars => ChildInv'
<1> SUFFICES ASSUME ChildInv, [Next]_vars PROVE ChildInv'
  OBVIOUS
<1> USE DEF runVars, samplerVars, loopVars, ChildInv, Reporting
<1>1. CASE ReadArgument \/ Parse \/ Build
  <2>1. UNCHANGED samplerVars /\ pc \in {"parse", "build"}
    BY <1>1 DEF ReadArgument, Parse, Build
  <2>2. pc' \in {"parse", "build", "sample", "start", "exited"}
    BY <1>1 DEF ReadArgument, Parse, Build
  <2> QED
    BY <2>1, <2>2
<1>2. CASE StartSampler
  <2>1. /\ pc = "sample" /\ pc' \in {"start", "kill"} /\ UNCHANGED <<samples, strayKill>>
        /\ child = "none" /\ reader = "none"
    BY <1>2 DEF StartSampler
  <2>2. CASE samplerError' = TRUE /\ UNCHANGED <<child, childPid, reader>>
    BY <2>1, <2>2
  <2>3. CASE /\ child' = "forked" /\ childPid' = TRUE /\ reader' \in {"none", "reading"}
             /\ UNCHANGED samplerError
    BY <2>1, <2>3
  <2> QED
    BY <1>2, <2>1, <2>2, <2>3 DEF StartSampler
<1>3. CASE StartCapture \/ Ready \/ Wait \/ Pop
  BY <1>3, ChildAside DEF StartCapture, Ready, Wait, Pop, Leave
<1>16. CASE Work
  BY <1>16, ChildAside
  DEF Work, InvalidFrame, WarmupFrame, MeasuredFrame, FrameFails, Leave
<1>4. CASE Tick \/ WatchdogKill
  BY <1>4, ChildAside DEF Tick, WatchdogKill
<1>5. CASE StreamEnds \/ StopTimeout \/ StopCapture \/ Flush
  BY <1>5, ChildAside DEF StreamEnds, StopTimeout, StopCapture, Flush
<1>6. CASE Signal
  <2>1. CASE UNCHANGED <<reader, samplerError>>
    BY <1>6, <2>1, ChildAside DEF Signal
  <2>2. CASE reader = "reading" /\ reader' = "done" /\ samplerError' = (samplerError \/ ~ samples)
    <3>1. samplerError' \in BOOLEAN /\ (samples \/ samplerError')
      BY <2>2
    <3>2. UNCHANGED <<pc, child, childPid, samples, strayKill>>
      BY <1>6 DEF Signal
    <3> QED
      BY <2>2, <3>1, <3>2
  <2> QED
    BY <1>6, <2>1, <2>2 DEF Signal
<1>7. CASE KillChild
  <2>1. strayKill' = FALSE
    BY <1>7 DEF KillChild
  <2>2. child' = IF childPid /\ child = "running" THEN "zombie" ELSE child
    BY <1>7 DEF KillChild
  <2>3. pc' = "join" /\ UNCHANGED <<childPid, reader, samples, samplerError>>
    BY <1>7 DEF KillChild
  <2> QED
    BY <2>1, <2>2, <2>3
<1>8. CASE UNCHANGED vars
  BY <1>8, ChildAside DEF vars
<1>10. CASE JoinReader
  BY <1>10 DEF JoinReader
<1>11. CASE Reap
  BY <1>11 DEF Reap
<1>12. CASE Report \/ WriteReport \/ PublishReport \/ Conclude \/ Destroy
  <2>1. UNCHANGED samplerVars /\ (Reporting \/ pc = "destroy")
    BY <1>12 DEF Report, WriteReport, PublishReport, Conclude, Destroy
  <2>2. pc' \in {"write", "publish", "conclude", "kill", "exited"}
    BY <1>12 DEF Report, WriteReport, PublishReport, Conclude, Destroy
  <2> QED
    BY <2>1, <2>2
<1>13. CASE ~ Over /\ (Exec \/ ChildDies)
  BY <1>13 DEF Exec, ChildDies, Over
<1>14. CASE ReadSample
  <2>1. samples' \in BOOLEAN /\ reader = "reading"
    BY <1>14 DEF ReadSample, LineRead
  <2>2. UNCHANGED <<pc, child, childPid, reader, samplerError, strayKill>>
    BY <1>14 DEF ReadSample
  <2> QED
    BY <2>1, <2>2
<1>15. CASE ReaderEnds
  <2>1. reader = "reading" /\ reader' = "done"
    BY <1>15 DEF ReaderEnds
  <2>2. samplerError' \in BOOLEAN /\ (samples \/ samplerError')
    BY <1>15 DEF ReaderEnds
  <2>3. UNCHANGED <<pc, child, childPid, samples, strayKill>>
    BY <1>15 DEF ReaderEnds
  <2> QED
    BY <2>1, <2>2, <2>3
<1> QED
  BY <1>1, <1>2, <1>3, <1>4, <1>5, <1>6, <1>7, <1>8, <1>10, <1>11, <1>12, <1>13, <1>14,
     <1>15, <1>16
  DEF Next, Main, Sampler

LEMMA CodeStep == CodeInv /\ [Next]_vars => CodeInv'
<1> SUFFICES ASSUME CodeInv, [Next]_vars PROVE CodeInv'
  OBVIOUS
<1> USE DEF runVars, samplerVars, loopVars, CodeInv, NoCode, Going, Reporting
<1>1. CASE ReadArgument \/ Parse
  BY <1>1 DEF ReadArgument, Parse
<1>2. CASE Build
  BY <1>2 DEF Build
<1>3. CASE StartSampler
  BY <1>3 DEF StartSampler
<1>4. CASE StartCapture \/ Ready
  BY <1>4 DEF StartCapture, Ready
<1>5. CASE Wait \/ Pop
  <2>1. UNCHANGED <<code, capture, outputs, shutdown, invalid, measured, mode>>
    BY <1>5 DEF Wait, Pop
  <2>2. pc \in {"top", "wait"} /\ pc' \in {"stopping", "top", "wait", "work"}
    BY <1>5 DEF Wait, Pop, Leave
  <2> QED
    BY <2>1, <2>2
<1>6. CASE Work
  <2>1. pc = "work" /\ UNCHANGED <<capture, outputs, shutdown>> /\ code = NoCode
    BY <1>6 DEF Work
  <2>2. CASE pc' = "top" /\ UNCHANGED code
    BY <2>1, <2>2
  <2>3. CASE pc' = "kill" /\ code' = 2
    BY <2>1, <2>3
  <2> QED
    BY <1>6, <2>2, <2>3 DEF Work, InvalidFrame, WarmupFrame, MeasuredFrame, FrameFails, Leave
<1>7. CASE Tick \/ WatchdogKill
  <2>1. UNCHANGED <<code, capture, outputs, shutdown, invalid, measured, mode>>
    BY <1>7 DEF Tick, WatchdogKill
  <2>2. pc' = pc \/ pc' = "aborted"
    BY <1>7 DEF Tick, WatchdogKill
  <2> QED
    BY <2>1, <2>2
<1>8. CASE Signal
  BY <1>8 DEF Signal
<1>9. CASE StreamEnds
  BY <1>9 DEF StreamEnds
<1>10. CASE StopTimeout
  BY <1>10 DEF StopTimeout
<1>11. CASE StopCapture
  BY <1>11 DEF StopCapture
<1>12. CASE Flush
  BY <1>12 DEF Flush
<1>13. CASE KillChild \/ JoinReader
  BY <1>13 DEF KillChild, JoinReader
<1>14. CASE Reap
  BY <1>14 DEF Reap
<1>19. CASE Report \/ WriteReport \/ PublishReport
  <2>1. Reporting /\ UNCHANGED <<code, capture, outputs, shutdown, invalid, measured, mode>>
    BY <1>19 DEF Report, WriteReport, PublishReport
  <2>2. pc' \in {"write", "publish", "conclude"}
    BY <1>19 DEF Report, WriteReport, PublishReport
  <2> QED
    BY <2>1, <2>2
<1>15. CASE Conclude
  <2>1. /\ pc = "conclude" /\ pc' = "kill"
        /\ UNCHANGED <<capture, outputs, shutdown, invalid, measured, mode>>
    BY <1>15 DEF Conclude
  <2>2. code' \in {0, 1}
    BY <1>15 DEF Conclude
  <2>3. code' = 0 => ~ invalid /\ (shutdown \/ measured = mode.frames)
    BY <1>15 DEF Conclude, TargetReached
  <2>4. code' = 1 => ~ shutdown \/ invalid
    BY <1>15 DEF Conclude
  <2>5. code' = 0 => capture = "stopped" /\ outputs \in {"none", "finished"}
    BY <2>1, <2>2
  <2> QED
    BY <2>1, <2>2, <2>3, <2>4, <2>5
<1>16. CASE Destroy
  <2>1. pc = "destroy" /\ pc' = "exited" /\ UNCHANGED <<code, shutdown, invalid, measured, mode>>
    BY <1>16 DEF Destroy
  <2>2. /\ capture' = IF capture \in {"running", "ended"} THEN "stopped" ELSE capture
        /\ outputs' = IF outputs = "open" THEN "closed" ELSE outputs
    BY <1>16 DEF Destroy
  <2>3. capture' \in {"none", "stopped"} /\ outputs' \in {"none", "finished", "closed"}
    BY <2>2
  <2>4. code = 0 => capture' = "stopped" /\ outputs' \in {"none", "finished"}
    BY <2>2
  <2> QED
    BY <2>1, <2>3, <2>4
<1>17. CASE Exec \/ ChildDies \/ ReadSample \/ ReaderEnds
  BY <1>17 DEF Exec, ChildDies, ReadSample, ReaderEnds
<1>18. CASE UNCHANGED vars
  BY <1>18 DEF vars
<1> QED
  BY <1>1, <1>2, <1>3, <1>4, <1>5, <1>6, <1>7, <1>8, <1>9, <1>10, <1>11, <1>12,
     <1>13, <1>14, <1>15, <1>16, <1>17, <1>18, <1>19
  DEF Next, Main, Sampler

LEMMA ReportStep == ChildInv /\ CodeInv /\ ReportInv /\ [Next]_vars => ReportInv'
<1> SUFFICES ASSUME ChildInv, CodeInv, ReportInv, [Next]_vars PROVE ReportInv'
  OBVIOUS
<1> USE DEF ReportInv
<1>1. CASE \/ ReadArgument \/ Parse \/ Build \/ StartSampler \/ StartCapture \/ Ready
          \/ Work \/ StopCapture \/ Flush
  <2>1. Going /\ UNCHANGED report
    BY <1>1 DEF ReadArgument, Parse, Build, StartSampler, StartCapture, Ready, Work,
                StopCapture, Flush, Going, runVars
  <2>2. pc' \notin {"write", "publish"}
    BY <1>1 DEF ReadArgument, Parse, Build, StartSampler, StartCapture, Ready, Work,
                InvalidFrame, WarmupFrame,
                MeasuredFrame, FrameFails, Leave, StopCapture, Flush
  <2> QED
    BY <2>1, <2>2
<1>2. CASE Wait \/ Pop \/ Tick \/ WatchdogKill
  <2>1. Going /\ UNCHANGED report
    BY <1>2 DEF Wait, Pop, Tick, WatchdogKill, runVars, InLoop, Going
  <2>2. pc' \notin {"write", "publish"}
    BY <1>2 DEF Wait, Pop, Leave, Tick, WatchdogKill
  <2> QED
    BY <2>1, <2>2
<1>3. CASE Report
  BY <1>3 DEF Report, runVars, samplerVars, Going
<1>4. CASE WriteReport
  <2>1. /\ pc = "write" /\ pc' \in {"publish", "conclude"} /\ UNCHANGED mode
        /\ report' \in {"earlier", "temporary"}
    BY <1>4 DEF WriteReport
  <2> QED
    BY <2>1 DEF Going
<1>5. CASE PublishReport
  <2>1. /\ pc = "publish" /\ pc' = "conclude" /\ report' \in {"complete", "earlier", "temporary"}
        /\ UNCHANGED <<mode, code, capture, outputs, child, reader>>
    BY <1>5 DEF PublishReport, samplerVars
  <2>2. /\ mode.metrics /\ code = NoCode
        /\ capture = "stopped" /\ outputs \in {"none", "finished"}
        /\ child \in {"none", "reaped"} /\ reader \in {"none", "joined"}
    BY <2>1 DEF ChildInv, CodeInv, Reporting
  <2> QED
    BY <2>1, <2>2 DEF Going, NoCode
<1>6. CASE Conclude
  <2>1. /\ pc' = "kill" /\ code' # 2
        /\ UNCHANGED <<report, mode, capture, outputs, child, reader>>
    BY <1>6 DEF Conclude, samplerVars
  <2> QED
    BY <2>1 DEF Going
<1>7. CASE KillChild \/ JoinReader \/ Reap
  <2>1. /\ pc' \in {"join", "reap", "report", "destroy"}
        /\ UNCHANGED <<report, mode, code, capture, outputs>>
    BY <1>7 DEF KillChild, JoinReader, Reap, runVars
  <2>2. child \in {"none", "reaped"} => child' \in {"none", "reaped"}
    BY <1>7 DEF KillChild, JoinReader, Reap
  <2>3. reader \in {"none", "joined"} => reader' \in {"none", "joined"}
    BY <1>7 DEF KillChild, JoinReader, Reap
  <2> QED
    BY <2>1, <2>2, <2>3 DEF Going
<1>8. CASE Destroy
  <2>1. pc' = "exited" /\ UNCHANGED <<report, mode, code, child, reader>>
    BY <1>8 DEF Destroy, samplerVars
  <2>2. capture = "stopped" /\ outputs \in {"none", "finished"} =>
          UNCHANGED <<capture, outputs>>
    BY <1>8 DEF Destroy
  <2> QED
    BY <2>1, <2>2 DEF Going
<1>9. CASE StreamEnds \/ StopTimeout
  <2>1. UNCHANGED <<report, mode, code, outputs, child, reader>>
    BY <1>9 DEF StreamEnds, StopTimeout, runVars, samplerVars
  <2>2. (pc' = pc \/ pc' = "timedOut") /\ (capture = "stopped" => capture' = capture)
    BY <1>9 DEF StreamEnds, StopTimeout, runVars
  <2> QED
    BY <2>1, <2>2 DEF Going
<1>10. CASE Signal
  <2>1. UNCHANGED <<pc, report, mode, code, capture, outputs, child>>
    BY <1>10 DEF Signal, runVars
  <2>2. reader \in {"none", "joined"} => reader' \in {"none", "joined"}
    BY <1>10 DEF Signal
  <2> QED
    BY <2>1, <2>2 DEF Going
<1>11. CASE Exec \/ ChildDies \/ ReadSample \/ ReaderEnds
  <2>1. UNCHANGED <<pc, report, mode, code, capture, outputs>>
    BY <1>11 DEF Exec, ChildDies, ReadSample, ReaderEnds, runVars
  <2>2. child \in {"none", "reaped"} => child' = child
    BY <1>11 DEF Exec, ChildDies, ReadSample, ReaderEnds
  <2>3. reader \in {"none", "joined"} => reader' = reader
    BY <1>11 DEF Exec, ChildDies, ReadSample, ReaderEnds
  <2> QED
    BY <2>1, <2>2, <2>3 DEF Going
<1>12. CASE UNCHANGED vars
  BY <1>12 DEF vars, runVars, samplerVars, Going
<1> QED
  BY <1>1, <1>2, <1>3, <1>4, <1>5, <1>6, <1>7, <1>8, <1>9, <1>10, <1>11, <1>12
  DEF Next, Main, Sampler

\* A process that has exited left no child and no thread, signalled none but its own,
\* and reported success only for a run that was finished; no run that failed replaced
\* the report of the one before (Service, EndsClean).
THEOREM EndsCleanly == Spec => []EndsClean
<1>1. ChildInv /\ CodeInv /\ ReportInv => EndsClean
  BY DEF ChildInv, CodeInv, ReportInv, EndsClean, NoCode
<1>2. ChildInv /\ CodeInv /\ ReportInv /\ [Next]_vars => (ChildInv /\ CodeInv /\ ReportInv)'
  BY ChildStep, CodeStep, ReportStep
<1> QED
  BY <1>1, <1>2, EndInit, PTL DEF Spec

-----------------------------------------------------------------------------
(* The command line                                                       *)

\* The options that are numbers without a sign, and those that are on or off.
Amounts == Counts \cup Durations \cup PositiveDurations
Switches == Flags \cup Paths \cup {"rtsp_uri"}

\* Each option has a value its parse_ function can return, or its default.
OptionsFit(o) ==
  /\ DOMAIN o = DOMAIN Defaults
  /\ \A name \in Switches : o[name] \in BOOLEAN
  /\ \A name \in Amounts : o[name] \in Nat
  /\ \A name \in Probabilities : o[name] \in 1 .. 100
  /\ \A name \in Corners : o[name] = <<>> \/ o[name] \in [1 .. 4 -> 0 .. Unit]

LEMMA NamesKnown ==
  Switches \cup Amounts \cup Probabilities \cup Corners \cup {"source_type"}
    \subseteq DOMAIN Defaults
BY DEF Switches, Amounts, Probabilities, Corners, Flags, Paths, Counts, Durations,
       PositiveDurations, Defaults

LEMMA DefaultsFit == OptionsFit(Defaults)
<1>1. /\ Defaults.continuous = FALSE /\ Defaults.event_dwell_rearm_on_exit = FALSE
      /\ Defaults.event_clip_share_overlap = FALSE /\ Defaults.rtsp_uri = TRUE
      /\ Defaults.engine = FALSE /\ Defaults.event_jsonl = FALSE
      /\ Defaults.event_snapshot_dir = FALSE /\ Defaults.event_clip_dir = FALSE
      /\ Defaults.output_video = FALSE /\ Defaults.metrics_json = FALSE
  BY DEF Defaults
<1>2. \A name \in Switches : Defaults[name] \in BOOLEAN
  BY <1>1 DEF Switches, Flags, Paths
<1>3. \A name \in Amounts : Defaults[name] \in Nat
  <2>1. \A name \in Counts : Defaults[name] \in Nat
    BY DEF Counts, Defaults
  <2>2. \A name \in Durations \cup PositiveDurations : Defaults[name] \in Nat
    <3>1. /\ Defaults.event_roi_exit_margin = 0 /\ Defaults.event_roi_exit_seconds = 0
          /\ Defaults.event_roi_entry_seconds = 0 /\ Defaults.event_line_confirm_seconds = 0
          /\ Defaults.event_dwell_seconds = 0
          /\ Defaults.event_clip_pre_seconds = 2 * Second
          /\ Defaults.event_clip_post_seconds = 3 * Second
          /\ Defaults.event_clip_max_shared_seconds = 10 * Second
      BY DEF Defaults
    <3>2. 2 * Second \in Nat /\ 3 * Second \in Nat /\ 10 * Second \in Nat
      BY UnitAssumption
    <3> QED
      BY <3>1, <3>2 DEF Durations, PositiveDurations
  <2> QED
    BY <2>1, <2>2 DEF Amounts
<1>4. \A name \in Probabilities : Defaults[name] \in 1 .. 100
  <2>1. /\ Defaults.score_threshold = 30 /\ Defaults.nms_threshold = 45
        /\ Defaults.track_threshold = 50 /\ Defaults.new_track_threshold = 60
        /\ Defaults.match_threshold = 80
    BY DEF Defaults
  <2> QED
    BY <2>1 DEF Probabilities
<1>5. \A name \in Corners : Defaults[name] = <<>>
  BY DEF Corners, Defaults
<1> QED
  BY <1>2, <1>3, <1>4, <1>5 DEF OptionsFit

LEMMA KindsApart ==
  /\ \A name \in Switches : name \notin Amounts \cup Probabilities \cup Corners
  /\ \A name \in Amounts : name \notin Probabilities \cup Corners
  /\ \A name \in Probabilities : name \notin Corners
  /\ "source_type" \notin Switches \cup Amounts \cup Probabilities \cup Corners
  /\ "event_class_id" \notin Switches \cup Amounts \cup Probabilities \cup Corners
  /\ \A name \in DOMAIN Words : name \notin Switches \cup Amounts \cup Probabilities \cup Corners
BY DEF Switches, Amounts, Probabilities, Corners, Flags, Paths, Counts, Durations,
       PositiveDurations, Words

\* One option is set to a value of its kind.
LEMMA OneSet ==
  ASSUME NEW o, OptionsFit(o), NEW name, NEW value,
         name \in Switches => value \in BOOLEAN,
         name \in Amounts => value \in Nat,
         name \in Probabilities => value \in 1 .. 100,
         name \in Corners => value \in [1 .. 4 -> 0 .. Unit]
  PROVE  OptionsFit([o EXCEPT ![name] = value])
<1> DEFINE set == [o EXCEPT ![name] = value]
<1>1. DOMAIN set = DOMAIN Defaults
  BY DEF OptionsFit
<1>2. \A n \in DOMAIN Defaults : set[n] = IF n = name THEN value ELSE o[n]
  BY DEF OptionsFit
<1> HIDE DEF set
<1>3. \A n \in Switches : set[n] \in BOOLEAN
  BY <1>2, NamesKnown DEF OptionsFit
<1>4. \A n \in Amounts : set[n] \in Nat
  BY <1>2, NamesKnown DEF OptionsFit
<1>5. \A n \in Probabilities : set[n] \in 1 .. 100
  BY <1>2, NamesKnown DEF OptionsFit
<1>6. \A n \in Corners : set[n] = <<>> \/ set[n] \in [1 .. 4 -> 0 .. Unit]
  BY <1>2, NamesKnown DEF OptionsFit
<1>7. OptionsFit(set)
  BY <1>1, <1>3, <1>4, <1>5, <1>6 DEF OptionsFit
<1> QED
  BY <1>7 DEF set

\* An argument that is read leaves options of their kinds.
LEMMA ReadFits ==
  ASSUME NEW p, OptionsFit(p.options)
  PROVE  OptionsFit(Read(p).options)
<1> DEFINE o == p.options
           argument == Head(p.rest)
           chosen == [o EXCEPT !.source_type = argument.name,
                               !.rtsp_uri = argument.name = "rtsp" => argument.value]
<1>1. \/ Read(p).options = o
      \/ argument.name \in Flags /\ Read(p).options = [o EXCEPT ![argument.name] = TRUE]
      \/ Read(p).options = chosen
      \/ /\ argument.name \notin Flags /\ Readable(argument.name, argument.value)
         /\ Read(p).options = [o EXCEPT ![argument.name] = argument.value]
  BY DEF Read
<1>2. ASSUME argument.name \in Flags PROVE OptionsFit([o EXCEPT ![argument.name] = TRUE])
  BY <1>2, KindsApart, OneSet DEF Switches
<1>3. OptionsFit(chosen)
  <2> DEFINE from == [o EXCEPT !.source_type = argument.name]
             given == argument.name = "rtsp" => argument.value
  <2>1. OptionsFit(from)
    BY KindsApart, OneSet
  <2>2. given \in BOOLEAN
    OBVIOUS
  <2>3. OptionsFit([from EXCEPT !["rtsp_uri"] = given])
    BY <2>1, <2>2, KindsApart, OneSet DEF Switches
  <2> QED
    BY <2>3
<1>4. ASSUME argument.name \notin Flags, Readable(argument.name, argument.value)
      PROVE  OptionsFit([o EXCEPT ![argument.name] = argument.value])
  BY <1>4, KindsApart, OneSet DEF Readable, Switches, Amounts
<1> QED
  BY <1>1, <1>2, <1>3, <1>4

\* Division with remainder.
LEMMA Quotient ==
  ASSUME NEW a \in Nat, NEW b \in Nat \ {0}
  PROVE  /\ a \div b \in Nat /\ b * (a \div b) <= a /\ a < b * (a \div b) + b
OBVIOUS

\* llround keeps the order of times, and what is a nanosecond or more stays.
LEMMA NanosecondFacts ==
  ASSUME NEW a \in Nat, NEW b \in Nat
  PROVE  /\ Nanoseconds(a) \in Nat
         /\ a <= b => Nanoseconds(a) <= Nanoseconds(b)
         /\ Nanosecond <= a => Nanoseconds(a) > 0
<1> DEFINE n == 2 * Nanosecond
           x == 2 * a + Nanosecond
           y == 2 * b + Nanosecond
           qx == x \div n
           qy == y \div n
<1>1. n \in Nat \ {0} /\ Nanosecond \in Nat \ {0} /\ x \in Nat /\ y \in Nat
  BY UnitAssumption
<1>2. /\ qx \in Nat /\ n * qx <= x /\ x < n * qx + n
      /\ qy \in Nat /\ n * qy <= y /\ y < n * qy + n
  BY <1>1, Quotient
<1>3. Nanoseconds(a) = qx /\ Nanoseconds(b) = qy
  BY DEF Nanoseconds
<1>4. (a <= b => x <= y) /\ (Nanosecond <= a => n <= x)
  BY <1>1
<1> HIDE DEF n, x, y, qx, qy
<1>5. ASSUME x <= y PROVE qx <= qy
  <2>1. n * qx < n * (qy + 1)
    BY <1>1, <1>2, <1>5
  <2> QED
    BY <1>1, <1>2, <2>1
<1>6. ASSUME n <= x PROVE qx > 0
  BY <1>1, <1>2, <1>6
<1> QED
  BY <1>2, <1>3, <1>4, <1>5, <1>6

\* A number of frames is within half a frame of its duration.
LEMMA FrameCountFacts ==
  ASSUME NEW o, o.fps \in Nat, NEW d \in Nat
  PROVE  /\ FrameCount(o, d) \in Nat
         /\ 2 * Second * FrameCount(o, d) <= 2 * d * o.fps + Second
         /\ 2 * d * o.fps + Second < 2 * Second * FrameCount(o, d) + 2 * Second
<1> DEFINE x == 2 * d * o.fps + Second
           n == 2 * Second
<1>1. x \in Nat /\ n \in Nat \ {0}
  BY UnitAssumption
<1>2. FrameCount(o, d) = x \div n
  BY DEF FrameCount
<1> HIDE DEF x, n
<1>3. x \div n \in Nat /\ n * (x \div n) <= x /\ x < n * (x \div n) + n
  BY <1>1, Quotient
<1>4. FrameCount(o, d) \in Nat /\ n * FrameCount(o, d) <= x /\ x < n * FrameCount(o, d) + n
  BY <1>2, <1>3
<1> QED
  BY <1>4 DEF x, n

\* Only where the limit exceeds a window by less than half a frame can rounding undo it.
LEMMA SharedFits ==
  ASSUME NEW o, o.fps \in Nat, NEW pre \in Nat, NEW post \in Nat, NEW max \in Nat,
         ~ 2 * (max - pre - post) * o.fps < Second
  PROVE  FrameCount(o, pre) + FrameCount(o, post) <= FrameCount(o, max)
<1> DEFINE f == o.fps
           a == FrameCount(o, pre)
           b == FrameCount(o, post)
           c == FrameCount(o, max)
<1>1. f \in Nat /\ Second \in Nat \ {0}
  BY UnitAssumption
<1>2. /\ a \in Nat /\ 2 * Second * a <= 2 * pre * f + Second
      /\ b \in Nat /\ 2 * Second * b <= 2 * post * f + Second
      /\ c \in Nat /\ 2 * max * f + Second < 2 * Second * c + 2 * Second
  BY FrameCountFacts
<1>3. 2 * max * f - 2 * pre * f - 2 * post * f >= Second
  <2>1. 2 * (max - pre - post) * f = 2 * max * f - 2 * pre * f - 2 * post * f
    BY <1>1
  <2> QED
    BY <1>1, <2>1
<1> HIDE DEF f, a, b, c
<1>4. 2 * Second * a + 2 * Second * b < 2 * Second * c + 2 * Second
  <2> DEFINE p == 2 * pre * f
             q == 2 * post * f
             r == 2 * max * f
             u == 2 * Second * a
             v == 2 * Second * b
             w == 2 * Second * c
  <2>1. p \in Nat /\ q \in Nat /\ r \in Nat /\ u \in Nat /\ v \in Nat /\ w \in Nat
    BY <1>1, <1>2
  <2>2. u <= p + Second /\ v <= q + Second /\ r + Second < w + 2 * Second /\ r - p - q >= Second
    BY <1>2, <1>3
  <2> HIDE DEF p, q, r, u, v, w
  <2>3. u + v < w + 2 * Second
    BY <1>1, <2>1, <2>2
  <2> QED
    BY <2>3 DEF u, v, w
<1>5. a + b < c + 1
  <2>1. (2 * Second) * (a + b) < (2 * Second) * (c + 1)
    BY <1>1, <1>2, <1>4
  <2> QED
    BY <1>1, <1>2, <2>1
<1>6. a + b <= c
  BY <1>2, <1>5
<1> QED
  BY <1>6 DEF a, b, c

\* What the constructors make of options that parse_options accepts.
LEMMA AcceptedBuilds ==
  ASSUME NEW p, OptionsFit(p.options), Accepted(p)
  PROVE  LET o == p.options
         IN  /\ RestBuilds(o)
             /\ Built(o) => Verified(o)
             /\ ~ RulesBuild(o) => Degenerate(o)
             /\ ~ ClipsBuild(o) => Unbounded(o)
<1> DEFINE o == p.options
<1>1. /\ o.event_roi_exit_seconds \in Nat /\ o.event_roi_entry_seconds \in Nat
      /\ o.event_line_confirm_seconds \in Nat /\ o.event_dwell_seconds \in Nat
      /\ o.event_clip_pre_seconds \in Nat /\ o.event_clip_post_seconds \in Nat
      /\ o.event_clip_max_shared_seconds \in Nat /\ o.fps \in Nat
  BY DEF OptionsFit, Amounts, Counts, Durations, PositiveDurations
<1>2. Complete(o) /\ RulesInBounds(o) /\ ClipsInBounds(o, p.provided)
  BY DEF Accepted
<1>3. RestBuilds(o)
  <2>1. \A name \in Probabilities : 0 <= o[name] /\ o[name] <= 100
    <3>1. \A name \in Probabilities : o[name] \in 1 .. 100
      BY DEF OptionsFit
    <3> QED
      BY <3>1
  <2>2. /\ o.queue_capacity > 0 /\ o.output_queue_capacity > 0 /\ o.output_bitrate_kbps > 0
        /\ o.tegrastats_interval_ms > 0 /\ o.fps > 0 /\ o.track_buffer > 0
        /\ o.track_threshold <= o.new_track_threshold
    BY <1>2 DEF Complete
  <2>3. /\ o.event_clip_bitrate_kbps > 0 /\ o.event_clip_capacity > 0
        /\ o.event_clip_max_shared_events \in 1 .. 256
    BY <1>2 DEF ClipsInBounds
  <2> QED
    BY <2>1, <2>2, <2>3 DEF RestBuilds
<1>4. /\ 60 * Second \in Nat /\ Nanosecond \in Nat \ {0}
  BY UnitAssumption
<1>5. ASSUME Built(o) PROVE Verified(o)
  <2>1. o.event_clip_dir /\ o.event_clip_share_overlap =>
          ClipFrames(o).shared >= ClipFrames(o).pre + ClipFrames(o).post + 1
    <3>1. /\ FrameCount(o, o.event_clip_pre_seconds) \in Nat
          /\ FrameCount(o, o.event_clip_post_seconds) \in Nat
          /\ FrameCount(o, o.event_clip_max_shared_seconds) \in Nat
      BY <1>1, FrameCountFacts
    <3> QED
      BY <1>5, <3>1 DEF Built, ClipsBuild, ClipFrames
  <2>2. o.event_roi_entry_seconds > 0 => RuleTimes(o).entry > 0
    BY <1>1, <1>2, NanosecondFacts DEF RulesInBounds, Confirmation, RuleTimes
  <2>3. o.event_line_confirm_seconds > 0 => RuleTimes(o).line > 0
    BY <1>1, <1>2, NanosecondFacts DEF RulesInBounds, Confirmation, RuleTimes
  <2>4. o.event_dwell_seconds > 0 => RuleTimes(o).dwell > 0
    BY <1>5 DEF Built, RulesBuild
  <2> QED
    BY <2>1, <2>2, <2>3, <2>4 DEF Verified
<1>6. ASSUME ~ RulesBuild(o) PROVE Degenerate(o)
  <2>1. /\ RuleTimes(o).entry <= Nanoseconds(60 * Second)
        /\ RuleTimes(o).exit <= Nanoseconds(60 * Second)
        /\ RuleTimes(o).line <= Nanoseconds(60 * Second)
    <3>1. o.event_roi_entry_seconds <= 60 * Second /\ o.event_line_confirm_seconds <= 60 * Second
      BY <1>2, <1>4 DEF RulesInBounds, Confirmation
    <3>2. o.event_roi_exit_seconds <= 60 * Second
      BY <1>2 DEF RulesInBounds
    <3> QED
      BY <1>1, <1>4, <3>1, <3>2, NanosecondFacts DEF RuleTimes
  <2>2. CASE /\ o.event_roi # <<>>
             /\ ~ 2 * (o.event_roi[3] - o.event_roi[1])
                    * (o.event_roi[4] - o.event_roi[2]) > Epsilon
    <3> DEFINE w == o.event_roi[3] - o.event_roi[1]
               h == o.event_roi[4] - o.event_roi[2]
    <3>1. o.event_roi \in [1 .. 4 -> 0 .. Unit]
      BY <2>2 DEF OptionsFit, Corners
    <3>2. /\ \A i \in 1 .. 4 : o.event_roi[i] \in Int
          /\ o.event_roi[1] < o.event_roi[3] /\ o.event_roi[2] < o.event_roi[4]
      BY <1>2, <2>2, <3>1, UnitAssumption DEF RulesInBounds
    <3>3. w \in Nat /\ h \in Nat
      BY <3>2
    <3>4. ~ 2 * w * h > Epsilon
      BY <2>2
    <3> HIDE DEF w, h
    <3>5. w * h \in Nat /\ 2 * w * h = 2 * (w * h)
      BY <3>3
    <3>6. w * h <= Epsilon
      BY <3>4, <3>5, UnitAssumption
    <3> QED
      BY <2>2, <3>6 DEF w, h, Degenerate
  <2>3. CASE /\ o.event_line # <<>>
             /\ ~ Squared(o.event_line[3] - o.event_line[1])
                    + Squared(o.event_line[4] - o.event_line[2]) > Epsilon
    <3> DEFINE x == o.event_line[3] - o.event_line[1]
               y == o.event_line[4] - o.event_line[2]
    <3>1. o.event_line \in [1 .. 4 -> 0 .. Unit]
      BY <2>3 DEF OptionsFit, Corners
    <3>2. x \in Int /\ y \in Int
      BY <3>1, UnitAssumption
    <3>3. ~ Squared(x) + Squared(y) > Epsilon
      BY <2>3
    <3> HIDE DEF x, y
    <3>4. Squared(x) \in Nat /\ Squared(y) \in Nat
      BY <3>2 DEF Squared
    <3>5. Squared(x) <= Epsilon /\ Squared(y) <= Epsilon
      BY <3>3, <3>4, UnitAssumption
    <3>6. \A c \in 1 .. 2 : Squared(o.event_line[c + 2] - o.event_line[c]) <= Epsilon
      BY <3>5 DEF x, y
    <3> QED
      BY <2>3, <3>6 DEF Degenerate
  <2>4. CASE o.event_dwell_seconds > 0 /\ ~ RuleTimes(o).dwell > 0
    <3>1. ~ Nanosecond <= o.event_dwell_seconds
      BY <1>1, <2>4, NanosecondFacts DEF RuleTimes
    <3> QED
      BY <1>1, <1>4, <2>4, <3>1 DEF Degenerate
  <2> QED
    BY <1>6, <2>1, <2>2, <2>3, <2>4 DEF RulesBuild
<1>7. ASSUME ~ ClipsBuild(o) PROVE Unbounded(o)
  <2>1. CASE \E d \in {"event_clip_pre_seconds", "event_clip_post_seconds",
                       "event_clip_max_shared_seconds"} :
               ~ o[d] * o.fps <= FrameBound * Second
    <3>1. PICK d \in {"event_clip_pre_seconds", "event_clip_post_seconds",
                      "event_clip_max_shared_seconds"} :
            ~ o[d] * o.fps <= FrameBound * Second
      BY <2>1
    <3>2. o[d] \in Nat
      BY DEF OptionsFit, Amounts, Durations, PositiveDurations
    <3>3. o[d] * o.fps \in Nat /\ FrameBound * Second \in Nat
      BY <1>1, <3>2, UnitAssumption
    <3>4. o[d] * o.fps > FrameBound * Second
      BY <3>1, <3>3
    <3> QED
      BY <3>4 DEF Unbounded
  <2>2. CASE /\ o.event_clip_share_overlap
             /\ ~ ClipFrames(o).pre + ClipFrames(o).post <= ClipFrames(o).shared - 1
    <3>1. FrameCount(o, o.event_clip_max_shared_seconds) \in Nat
      BY <1>1, FrameCountFacts
    <3>2. ~ FrameCount(o, o.event_clip_pre_seconds) + FrameCount(o, o.event_clip_post_seconds)
              <= FrameCount(o, o.event_clip_max_shared_seconds)
      BY <2>2, <3>1 DEF ClipFrames
    <3>3. 2 * (o.event_clip_max_shared_seconds - o.event_clip_pre_seconds
                 - o.event_clip_post_seconds) * o.fps < Second
      BY <1>1, <3>2, SharedFits
    <3> QED
      BY <2>2, <3>3 DEF Unbounded
  <2> QED
    BY <1>7, <2>1, <2>2 DEF ClipsBuild
<1> QED
  BY <1>3, <1>5, <1>6, <1>7

\* main builds only from options that were accepted as a whole.
ParsedInv ==
  /\ OptionsFit(parsed.options)
  /\ pc = "build" => Accepted(parsed)

LEMMA ParsedInit == Init => ParsedInv
BY DefaultsFit DEF Init, ParsedInv, Unread

LEMMA ParsedStep == ParsedInv /\ [Next]_vars => ParsedInv'
<1> SUFFICES ASSUME ParsedInv, [Next]_vars PROVE ParsedInv'
  OBVIOUS
<1> USE DEF runVars, ParsedInv
<1>1. CASE ReadArgument
  <2>1. parsed' = Read(parsed) /\ pc' = "parse"
    BY <1>1 DEF ReadArgument
  <2>2. OptionsFit(Read(parsed).options)
    BY ReadFits
  <2> QED
    BY <2>1, <2>2
<1>2. CASE Parse
  BY <1>2 DEF Parse
<1>3. CASE Build
  <2>1. parsed'.options = Defaults /\ pc' # "build"
    BY <1>3 DEF Build, Unread
  <2> QED
    BY <2>1, DefaultsFit
<1>4. CASE StartSampler \/ StartCapture \/ Ready \/ Wait \/ Pop \/ Work
  <2>1. UNCHANGED parsed
    BY <1>4 DEF StartSampler, StartCapture, Ready, Wait, Pop, Work
  <2>2. pc' # "build"
    BY <1>4 DEF StartSampler, StartCapture, Ready, Wait, Pop, Work, Leave, InvalidFrame,
                WarmupFrame, MeasuredFrame, FrameFails
  <2> QED
    BY <2>1, <2>2
<1>5. CASE StopCapture \/ Flush \/ KillChild \/ JoinReader \/ Reap
  BY <1>5 DEF StopCapture, Flush, KillChild, JoinReader, Reap
<1>6. CASE Report \/ WriteReport \/ PublishReport \/ Conclude \/ Destroy
  BY <1>6 DEF Report, WriteReport, PublishReport, Conclude, Destroy
<1>7. CASE Tick \/ WatchdogKill \/ Signal \/ StreamEnds \/ StopTimeout
  BY <1>7 DEF Tick, WatchdogKill, Signal, StreamEnds, StopTimeout
<1>8. CASE Exec \/ ChildDies \/ ReadSample \/ ReaderEnds
  BY <1>8 DEF Exec, ChildDies, ReadSample, ReaderEnds
<1>9. CASE UNCHANGED vars
  BY <1>9 DEF vars
<1> QED
  BY <1>1, <1>2, <1>3, <1>4, <1>5, <1>6, <1>7, <1>8, <1>9 DEF Next, Main, Sampler

\* Whatever the command line: what the parser accepts and the constructors build
\* satisfies what the other modules assume, and what they refuse is only what the
\* parser cannot tell (Service, ConfiguredAsVerified).
THEOREM BuiltAsVerified == Spec => []ConfiguredAsVerified
<1>1. ParsedInv => ConfiguredAsVerified
  BY AcceptedBuilds DEF ParsedInv, ConfiguredAsVerified
<1> QED
  BY <1>1, ParsedInit, ParsedStep, PTL DEF Spec

-----------------------------------------------------------------------------
(* The types                                                               *)

Positions ==
  {"parse", "build", "sample", "start", "ready", "top", "wait", "work",
   "stopping", "flush", "kill", "join", "reap", "report", "write", "publish",
   "conclude", "destroy", "exited", "aborted", "timedOut"}

\* What the other invariants do not say of the types, and that without a watchdog
\* its clock stands still.
StateInv ==
  /\ pc \in Positions
  /\ mode \in [continuous : BOOLEAN, frames : Nat, reserve : BOOLEAN,
               metrics : BOOLEAN, outputs : BOOLEAN]
  /\ signalled \in BOOLEAN /\ shutdown \in BOOLEAN /\ invalid \in BOOLEAN
  /\ swallowed \in BOOLEAN /\ measured \in 0 .. MaxFrames
  /\ clock.waited <= WaitTicks
  /\ interval = 0 => clock.progress = 0 /\ clock.beat = 0 /\ clock.due = 0

LEMMA StateInit == Init => StateInv
<1> SUFFICES ASSUME Init PROVE StateInv
  OBVIOUS
<1>1. /\ pc = "parse" /\ mode = NoMode /\ clock = Stopped /\ measured = 0
      /\ signalled = FALSE /\ shutdown = FALSE /\ invalid = FALSE /\ swallowed = FALSE
  BY DEF Init
<1>2. mode \in [continuous : BOOLEAN, frames : Nat, reserve : BOOLEAN,
               metrics : BOOLEAN, outputs : BOOLEAN]
  BY <1>1 DEF NoMode
<1>3. clock.progress = 0 /\ clock.beat = 0 /\ clock.due = 0 /\ clock.waited <= WaitTicks
  BY <1>1, ServiceAssumption DEF Stopped
<1>4. pc \in Positions /\ measured \in 0 .. MaxFrames
  BY <1>1, ServiceAssumption DEF Positions
<1>5. /\ signalled \in BOOLEAN /\ shutdown \in BOOLEAN /\ invalid \in BOOLEAN
      /\ swallowed \in BOOLEAN
  BY <1>1
<1> QED
  BY <1>2, <1>3, <1>4, <1>5 DEF StateInv

\* What is kept of the options after the components are built.
LEMMA ModeTyped ==
  ASSUME NEW o, OptionsFit(o)
  PROVE  ModeOf(o) \in [continuous : BOOLEAN, frames : Nat, reserve : BOOLEAN,
                        metrics : BOOLEAN, outputs : BOOLEAN]
<1>1. /\ o.continuous \in BOOLEAN /\ o.metrics_json \in BOOLEAN /\ o.frames \in Nat
      /\ o.event_clip_dir \in BOOLEAN /\ o.output_video \in BOOLEAN
  BY DEF OptionsFit, Switches, Flags, Paths, Amounts, Counts
<1> DEFINE frames == IF o.frames < MaxFrames THEN o.frames ELSE MaxFrames
           reserve == (IF o.continuous THEN o.metrics_window_frames ELSE o.frames) <= MaxReserve
           writers == o.event_clip_dir \/ o.output_video
<1>2. frames \in Nat
  BY <1>1, ServiceAssumption
<1>3. reserve \in BOOLEAN /\ writers \in BOOLEAN
  OBVIOUS
<1>4. ModeOf(o) = [continuous |-> o.continuous, frames |-> frames, reserve |-> reserve,
                   metrics |-> o.metrics_json, outputs |-> writers]
  BY DEF ModeOf
<1> HIDE DEF frames, reserve, writers
<1> QED
  BY <1>1, <1>2, <1>3, <1>4

\* A step that leaves the clock and the count alone.
LEMMA StateAside ==
  ASSUME StateInv, UNCHANGED <<mode, invalid, measured, clock, interval>>,
         pc' \in Positions, signalled' \in BOOLEAN, shutdown' \in BOOLEAN,
         swallowed' \in BOOLEAN
  PROVE  StateInv'
BY DEF StateInv

LEMMA StateStep ==
  WatchInv /\ ChildInv /\ ParsedInv /\ StateInv /\ [Next]_vars => StateInv'
<1> SUFFICES ASSUME WatchInv, ChildInv, ParsedInv, StateInv, [Next]_vars
             PROVE  StateInv'
  OBVIOUS
<1> USE DEF runVars, samplerVars, loopVars
<1>0. /\ clock \in [progress : Nat, beat : Nat, due : Nat, waited : Nat]
      /\ pc \in Positions /\ signalled \in BOOLEAN /\ shutdown \in BOOLEAN
      /\ swallowed \in BOOLEAN
  BY DEF WatchInv, ClockType, StateInv
<1>1. CASE ReadArgument \/ StartSampler \/ StartCapture \/ Ready
  BY <1>0, <1>1, StateAside DEF ReadArgument, StartSampler, StartCapture, Ready, Positions
<1>2. CASE Parse
  <2>1. /\ pc = "parse" /\ pc' \in {"build", "exited"}
        /\ UNCHANGED <<mode, shutdown, signalled, measured, invalid, clock, swallowed>>
    BY <1>2 DEF Parse
  <2>2. clock.progress = 0 /\ clock.beat = 0 /\ clock.due = 0
    BY <2>1 DEF WatchInv, Heartbeats, InLoop, Stopped
  <2> QED
    BY <2>1, <2>2 DEF StateInv, Positions
<1>3. CASE Build
  <2>1. /\ pc' \in Positions
        /\ UNCHANGED <<shutdown, signalled, measured, invalid, clock, interval, swallowed>>
        /\ mode' = mode \/ mode' = ModeOf(parsed.options)
    BY <1>3 DEF Build, Positions
  <2>2. mode' \in [continuous : BOOLEAN, frames : Nat, reserve : BOOLEAN,
                   metrics : BOOLEAN, outputs : BOOLEAN]
    BY <2>1, ModeTyped DEF ParsedInv, StateInv
  <2> QED
    BY <2>1, <2>2 DEF StateInv
<1>4. ASSUME NEW c, c = Stopped \/ c = clock \/ c = [clock EXCEPT !.progress = 0]
             \/ (\E sent \in Sendings(clock) : c = Maintained(clock, sent))
             \/ (\E sent \in Sendings(clock) : c = [Maintained(clock, sent) EXCEPT !.waited = 0])
      PROVE  /\ c.waited <= WaitTicks
             /\ interval = 0 => c.progress = 0 /\ c.beat = 0 /\ c.due = 0
  <2>1. /\ clock.waited <= WaitTicks /\ clock.waited \in Nat /\ WaitTicks \in Nat
        /\ interval = 0 => clock.progress = 0 /\ clock.beat = 0 /\ clock.due = 0
    BY <1>0, ServiceAssumption DEF StateInv
  <2>2. ASSUME NEW sent \in Sendings(clock)
        PROVE  /\ Maintained(clock, sent).waited = clock.waited
               /\ interval = 0 => Maintained(clock, sent) = clock
               /\ [Maintained(clock, sent) EXCEPT !.waited = 0].waited = 0
    BY <1>0 DEF Maintained
  <2>3. CASE c = Stopped
    BY <2>1, <2>3 DEF Stopped
  <2>4. CASE c = clock
    BY <2>1, <2>4
  <2>5. CASE c = [clock EXCEPT !.progress = 0]
    BY <1>0, <2>1, <2>5
  <2>6. ASSUME NEW sent \in Sendings(clock), c = Maintained(clock, sent)
        PROVE  /\ c.waited <= WaitTicks
               /\ interval = 0 => c.progress = 0 /\ c.beat = 0 /\ c.due = 0
    BY <2>1, <2>2, <2>6
  <2>7. ASSUME NEW sent \in Sendings(clock), c = [Maintained(clock, sent) EXCEPT !.waited = 0]
        PROVE  /\ c.waited <= WaitTicks
               /\ interval = 0 => c.progress = 0 /\ c.beat = 0 /\ c.due = 0
    <3>1. c.waited = 0
      BY <2>2, <2>7
    <3>2. interval = 0 => c = [clock EXCEPT !.waited = 0]
      BY <2>2, <2>7
    <3> QED
      BY <1>0, <2>1, <3>1, <3>2
  <2> QED
    BY <1>4, <2>3, <2>4, <2>5, <2>6, <2>7
<1>5. CASE Wait
  <2>1. /\ pc' \in Positions
        /\ UNCHANGED <<mode, interval, shutdown, signalled, measured, invalid, swallowed>>
    BY <1>5 DEF Wait, Leave, Positions
  <2>2. clock' = Stopped
          \/ \E sent \in Sendings(clock) : clock' = [Maintained(clock, sent) EXCEPT !.waited = 0]
    BY <1>5 DEF Wait, Leave
  <2> QED
    BY <1>4, <2>1, <2>2 DEF StateInv
<1>6. CASE Pop
  <2>1. /\ pc' \in Positions
        /\ UNCHANGED <<mode, interval, shutdown, signalled, measured, invalid, swallowed>>
        /\ clock' = Stopped \/ clock' = clock \/ clock' = [clock EXCEPT !.progress = 0]
    BY <1>6 DEF Pop, Leave, Positions
  <2> QED
    BY <1>4, <2>1 DEF StateInv
<1>7. CASE Work
  <2>1. /\ pc' \in Positions /\ UNCHANGED <<mode, interval, shutdown, signalled, swallowed>>
    BY <1>7 DEF Work, InvalidFrame, WarmupFrame, MeasuredFrame, FrameFails, Leave, Positions
  <2>2. clock' = Stopped \/ clock' = clock
          \/ \E sent \in Sendings(clock) : clock' = Maintained(clock, sent)
    BY <1>7 DEF Work, InvalidFrame, WarmupFrame, MeasuredFrame, FrameFails, Leave
  <2>3. invalid' \in BOOLEAN
    BY <1>7 DEF Work, InvalidFrame, WarmupFrame, MeasuredFrame, FrameFails, StateInv
  <2>4. measured' = measured \/ (measured < MaxFrames /\ measured' = measured + 1)
    BY <1>7 DEF Work, InvalidFrame, WarmupFrame, MeasuredFrame, FrameFails
  <2>5. measured' \in 0 .. MaxFrames
    BY <2>4, ServiceAssumption DEF StateInv
  <2> QED
    BY <1>4, <2>1, <2>2, <2>3, <2>5 DEF StateInv
<1>8. CASE Tick
  <2>1. /\ UNCHANGED <<pc, mode, interval, shutdown, signalled, measured, invalid, swallowed>>
        /\ pc = "wait" => clock.waited < WaitTicks
    BY <1>8 DEF Tick
  <2>2. interval = 0 => clock' = [clock EXCEPT !.waited = IF pc = "wait" THEN @ + 1 ELSE @]
    BY <1>8 DEF Tick
  <2>3. interval # 0 => clock'.waited = IF pc = "wait" THEN clock.waited + 1 ELSE clock.waited
    BY <1>8 DEF Tick
  <2>4. clock'.waited = IF pc = "wait" THEN clock.waited + 1 ELSE clock.waited
    BY <1>0, <2>2, <2>3
  <2>5. clock'.waited <= WaitTicks
    BY <1>0, <2>1, <2>4, ServiceAssumption DEF StateInv
  <2>6. interval = 0 => clock'.progress = 0 /\ clock'.beat = 0 /\ clock'.due = 0
    BY <1>0, <2>2 DEF StateInv
  <2> QED
    BY <2>1, <2>5, <2>6 DEF StateInv
<1>9. CASE WatchdogKill \/ StopTimeout
  <2>1. /\ pc' \in Positions /\ clock' = Stopped
        /\ UNCHANGED <<mode, interval, shutdown, signalled, measured, invalid, swallowed>>
    BY <1>9 DEF WatchdogKill, StopTimeout, Positions
  <2> QED
    BY <1>4, <2>1 DEF StateInv
<1>10. CASE StopCapture \/ Flush
  BY <1>0, <1>10, StateAside DEF StopCapture, Flush, Positions
<1>11. CASE KillChild
  <2>1. (childPid /\ child = "forked") \in BOOLEAN
    OBVIOUS
  <2>2. swallowed' \in BOOLEAN
    BY <1>0, <1>11, <2>1 DEF KillChild
  <2> QED
    BY <1>0, <1>11, <2>2, StateAside DEF KillChild, Positions
<1>12. CASE JoinReader \/ Reap
  BY <1>0, <1>12, StateAside DEF JoinReader, Reap, Positions
<1>13. CASE Report \/ WriteReport \/ PublishReport \/ Conclude \/ Destroy
  BY <1>0, <1>13, StateAside
  DEF Report, WriteReport, PublishReport, Conclude, Destroy, Positions
<1>14. CASE Signal \/ StreamEnds
  BY <1>0, <1>14, StateAside DEF Signal, StreamEnds
<1>15. CASE Exec \/ ChildDies \/ ReadSample \/ ReaderEnds
  BY <1>0, <1>15, StateAside DEF Exec, ChildDies, ReadSample, ReaderEnds
<1>16. CASE UNCHANGED vars
  BY <1>0, <1>16, StateAside DEF vars
<1> QED
  BY <1>1, <1>2, <1>3, <1>5, <1>6, <1>7, <1>8, <1>9, <1>10, <1>11, <1>12, <1>13, <1>14,
     <1>15, <1>16
  DEF Next, Main, Sampler

\* Every variable of the process has its type, the clock within the bounds that the
\* watchdog sets it (Service, TypeOK).
THEOREM ServiceTyped == Spec => []TypeOK
<1> DEFINE Inv == WatchInv /\ ChildInv /\ CodeInv /\ ReportInv /\ ParsedInv /\ StateInv
<1>1. Init => Inv
  BY WatchInit, EndInit, ParsedInit, StateInit
<1>2. Inv /\ [Next]_vars => Inv'
  BY WatchStep, ChildStep, CodeStep, ReportStep, ParsedStep, StateStep
<1>3. Inv => TypeOK
  <2> SUFFICES ASSUME Inv PROVE TypeOK
    OBVIOUS
  <2>1. clock \in Clocks
    <3>1. /\ clock \in [progress : Nat, beat : Nat, due : Nat, waited : Nat]
          /\ interval \in {0, WatchdogTicks} /\ WatchdogTicks \in Nat \ {0}
          /\ WaitTicks \in Nat /\ clock.waited <= WaitTicks
      BY ServiceAssumption DEF WatchInv, ClockType, StateInv
    <3>2. CASE interval = 0
      <4>1. Half(interval) = 1
        BY <3>2 DEF Half
      <4>2. clock.progress = 0 /\ clock.beat = 0 /\ clock.due = 0
        BY <3>2 DEF StateInv
      <4> QED
        BY <3>1, <3>2, <4>1, <4>2 DEF Clocks
    <3>3. CASE interval > 0
      <4>1. interval \in Nat /\ Half(interval) \in Nat
        BY <3>3, IntervalFacts DEF WatchInv
      <4>2. /\ clock.beat <= interval /\ clock.due <= Half(interval)
            /\ clock.progress <= clock.beat + Half(interval)
        BY <3>3 DEF WatchInv, Heartbeats
      <4> QED
        BY <3>1, <4>1, <4>2 DEF Clocks
    <3> QED
      BY <3>1, <3>2, <3>3
  <2>2. interval \in {0, WatchdogTicks} /\ excused \in BOOLEAN
    BY DEF WatchInv, ClockType
  <2>3. /\ child \in {"none", "forked", "running", "zombie", "reaped"}
        /\ reader \in {"none", "reading", "done", "joined"}
        /\ childPid \in BOOLEAN /\ samples \in BOOLEAN /\ samplerError \in BOOLEAN
        /\ strayKill \in BOOLEAN
    BY DEF ChildInv
  <2>4. /\ capture \in {"none", "running", "ended", "stopped"}
        /\ outputs \in {"none", "open", "finished", "closed"}
        /\ code \in {NoCode, 0, 1, 2} /\ report \in {"earlier", "temporary", "complete"}
    BY DEF CodeInv, ReportInv
  <2> QED
    BY <2>1, <2>2, <2>3, <2>4 DEF StateInv, Positions, TypeOK
<1> QED
  BY <1>1, <1>2, <1>3, PTL DEF Spec
=============================================================================
