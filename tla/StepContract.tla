---------------------------- MODULE StepContract ----------------------------
(***************************************************************************)
(* What a step promises to the runner and to the steps after it, and what  *)
(* module Build takes for granted of the steps that are one action there:  *)
(* the step goes on only when its product is there, and it stops the build *)
(* either with an error in the state bag or because it was asked to stop.  *)
(* Modules WaitForIp and ExportImage implement it.                         *)
(***************************************************************************)

VARIABLES
  result,    \* what Run returned: "none" | "continue" | "halt"
  error,     \* Run put "error" in the state bag
  stopped,   \* somebody asked the step to stop: the context, or a signal
  product    \* what later steps rely on is there

Init == result = "none" /\ error = FALSE /\ stopped = FALSE /\ product = FALSE

AskToStop ==
  /\ ~stopped
  /\ stopped' = TRUE
  /\ UNCHANGED <<result, error, product>>

Complete ==
  /\ result = "none"
  /\ result' = "continue" /\ product' = TRUE
  /\ UNCHANGED <<error, stopped>>

Fail ==
  /\ result = "none"
  /\ result' = "halt" /\ error' = TRUE
  /\ UNCHANGED <<stopped, product>>

Quit ==
  /\ result = "none" /\ stopped
  /\ result' = "halt"
  /\ UNCHANGED <<error, stopped, product>>

Next == AskToStop \/ Complete \/ Fail \/ Quit

Spec == Init /\ [][Next]_<<result, error, stopped, product>>

=============================================================================
