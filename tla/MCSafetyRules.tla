---------------------------- MODULE MCSafetyRules ---------------------------
(***************************************************************************)
(* SafetyRules on small instances: an ROI rule in every combination of its *)
(* guards, a dwell rule with and without rearming, and around a vertical   *)
(* line from (0,-1) to (0,1) a timed rule for both directions and an       *)
(* untimed one for one of them.  An anchor is next to that line on either  *)
(* side, on it, or next to its extension.                                  *)
(***************************************************************************)
EXTENDS SafetyRules

MCLinePlaces == {Point(-1, 0), Point(0, 0), Point(1, 0), Point(1, 3)}
MCLineStart == Point(0, -1)
MCLineEnd == Point(0, 1)
MCLineRules == {[confirmation |-> 2, direction |-> 0],
                [confirmation |-> 0, direction |-> 1]}

MCRoiBounds == [seq |-> 7, jump |-> 4, pts |-> 1, gen |-> 1]
MCDwellBounds == [seq |-> 9, jump |-> 4, pts |-> 1, gen |-> 1]
MCLineBounds == [seq |-> 5, jump |-> 2, pts |-> 1, gen |-> 0]
=============================================================================
