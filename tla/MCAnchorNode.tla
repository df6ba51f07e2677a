---------------------------- MODULE MCAnchorNode ----------------------------
(* Two requests at a time of one agent; one report of abuse bans, two of   *)
(* spam within a window reject, and any report throttles.                  *)
EXTENDS AnchorNode, TLC

MCActions == [read |-> [async |-> FALSE, cost |-> 2],
              train |-> [async |-> TRUE, cost |-> 4]]
MCBanOn == << [incident |-> "abuse", severity |-> 2, at_least |-> TRUE,
               within |-> 0, count |-> 1] >>
MCRejectOn == << [incident |-> "spam", severity |-> 1, at_least |-> FALSE,
                  within |-> 2, count |-> 2] >>
MCThrottleOn == << [incident |-> "*", severity |-> 3, at_least |-> TRUE,
                    within |-> 0, count |-> 0] >>
MCIncidents == { [incident |-> "abuse", severity |-> 2],
                 [incident |-> "spam", severity |-> 1],
                 [incident |-> "spam", severity |-> 3] }
TaskSymmetry == Permutations(Tasks)
=============================================================================
