---------------------------- MODULE FrameStream ----------------------------
(***************************************************************************)
(* What the capture side promises the inference loop, and nothing of how:  *)
(* a live stream that may skip frames but never reorders or repeats one,   *)
(* never hands over a frame that Capacity newer frames have overtaken, and *)
(* reports its end only after the last frame that was captured.            *)
(***************************************************************************)
EXTENDS Integers

CONSTANT Capacity

VARIABLES
  emitted,      \* how many frames the stream has offered
  taken,        \* the number of the newest frame taken, 0 before the first
  ended,        \* no more frames will be offered
  sawEnd        \* the consumer has been told so

streamVars == <<emitted, taken, ended, sawEnd>>

Init ==
  /\ emitted = 0
  /\ taken = 0
  /\ ended = FALSE
  /\ sawEnd = FALSE

Emit ==
  /\ ~ ended
  /\ emitted' = emitted + 1
  /\ UNCHANGED <<taken, ended, sawEnd>>

Take ==
  /\ \E k \in (taken + 1) .. emitted :
       /\ k > emitted - Capacity
       /\ taken' = k
  /\ UNCHANGED <<emitted, ended, sawEnd>>

End ==
  /\ ended' = TRUE
  /\ UNCHANGED <<emitted, taken, sawEnd>>

SeeEnd ==
  /\ ended
  /\ taken = emitted
  /\ sawEnd' = TRUE
  /\ UNCHANGED <<emitted, taken, ended>>

Next == Emit \/ Take \/ End \/ SeeEnd

Spec == Init /\ [][Next]_streamVars
=============================================================================
