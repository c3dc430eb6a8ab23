----------------------------- MODULE MCStepLoop -----------------------------
(* Instances of StepLoop for TLC.                                             *)
EXTENDS StepLoop

\* Build, then review; the review may send the work back to the build step.
ReviewRoute ==
    [x \in Steps \X Verdicts |->
        CASE x = <<1, "completed">>         -> 2
          [] x = <<2, "completed">>         -> DONE
          [] x = <<2, "changes_requested">> -> 1
          [] OTHER                          -> NoRoute]

\* One step that sends itself back until it is satisfied.
SelfRoute ==
    [x \in Steps \X Verdicts |-> IF x[2] = "completed" THEN DONE ELSE x[1]]

LastGate == {<<NumSteps, "completed">>}
=============================================================================
