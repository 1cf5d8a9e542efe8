---------------------------- MODULE ReportChannel ----------------------------
(***************************************************************************)
(* What the keyboard's endpoint promises: a channel with room for one      *)
(* report, which may lose a report but never changes, repeats or reorders  *)
(* any.                                                                    *)
(***************************************************************************)
EXTENDS Sequences

CONSTANTS Report, NoReport

VARIABLES slot, got

channel_vars == <<slot, got>>

Init == slot = NoReport /\ got = << >>

Send ==
  /\ slot = NoReport
  /\ slot' \in Report
  /\ UNCHANGED got

Deliver ==
  /\ slot # NoReport
  /\ slot' = NoReport
  /\ got' = Append(got, slot)

Lose ==
  /\ slot # NoReport
  /\ slot' = NoReport
  /\ UNCHANGED got

Next == Send \/ Deliver \/ Lose

Spec == Init /\ [][Next]_channel_vars
=============================================================================
