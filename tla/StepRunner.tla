----------------------------- MODULE StepRunner -----------------------------
(***************************************************************************)
(* What the plugin relies on from multistep.BasicRunner of the Packer SDK: *)
(* the steps a builder registers are run one at a time and in order, the   *)
(* Cleanup of every step whose Run returned is deferred, and when the run  *)
(* stops - list exhausted, a step halted, the build was cancelled, a step  *)
(* panicked - the deferred cleanups are executed one at a time, last in    *)
(* first out, each exactly once, and nothing runs after them.              *)
(*                                                                         *)
(* This is the abstract specification: it knows nothing of what the steps  *)
(* do.  Module Build is the detailed one, and implements it.               *)
(***************************************************************************)
EXTENDS Naturals, FiniteSets

CONSTANT LastStep      \* steps are numbered 1..LastStep in the builder's order

VARIABLES
  list,      \* the steps Builder.Run registered
  mode,      \* "next" | "run" | "unwind" | "cleanup" | "over"
  at,        \* the step being run or cleaned up, or the last one
  deferred   \* the steps whose Cleanup is still to be executed

vars == <<list, mode, at, deferred>>

Step == 1..LastStep

TypeOK ==
  /\ list \in SUBSET Step
  /\ mode \in {"next", "run", "unwind", "cleanup", "over"}
  /\ at \in 0..LastStep
  /\ deferred \in SUBSET Step

Init ==
  /\ list \in SUBSET Step
  /\ mode = "next"
  /\ at = 0
  /\ deferred = {}

StartStep ==
  /\ mode = "next"
  /\ \E s \in list :
        /\ s > at
        /\ \A t \in list : t > at => s <= t
        /\ at' = s
  /\ mode' = "run"
  /\ UNCHANGED <<list, deferred>>

\* The loop is left: no step remains, or the context is already cancelled.
StopLoop ==
  /\ mode = "next"
  /\ mode' = "unwind"
  /\ UNCHANGED <<list, at, deferred>>

RunReturns ==
  /\ mode = "run"
  /\ mode' \in {"next", "unwind"}
  /\ deferred' = deferred \cup {at}
  /\ UNCHANGED <<list, at>>

\* The Run of the current step panics: its own Cleanup was not deferred yet.
RunPanics ==
  /\ mode = "run"
  /\ mode' = "unwind"
  /\ UNCHANGED <<list, at, deferred>>

StartCleanup ==
  /\ mode = "unwind"
  /\ \E s \in deferred :
        /\ \A t \in deferred : t <= s
        /\ at' = s
        /\ deferred' = deferred \ {s}
  /\ mode' = "cleanup"
  /\ UNCHANGED list

CleanupReturns ==
  /\ mode = "cleanup"
  /\ mode' = "unwind"
  /\ UNCHANGED <<list, at, deferred>>

RunnerReturns ==
  /\ mode = "unwind"
  /\ deferred = {}
  /\ mode' = "over"
  /\ UNCHANGED <<list, at, deferred>>

Next ==
  \/ StartStep \/ StopLoop \/ RunReturns \/ RunPanics
  \/ StartCleanup \/ CleanupReturns \/ RunnerReturns

Spec == Init /\ [][Next]_vars

-----------------------------------------------------------------------------
(* What the runner has still to do, as a number that goes down with every  *)
(* one of its steps: the steps ahead of it, then the cleanups deferred.    *)
Rank ==
  CASE mode = "run"     -> 4 * LastStep + 3 - 2 * at
    [] mode = "next"    -> 4 * LastStep + 2 - 2 * at
    [] mode = "cleanup" -> 2 * Cardinality(deferred) + 2
    [] mode = "unwind"  -> 2 * Cardinality(deferred) + 1
    [] mode = "over"    -> 0

(* The cleanup being executed is that of a step before which all those ran *)
(* whose cleanups are still deferred, and only a listed step has one.      *)
LastInFirstOut ==
  /\ deferred \subseteq list
  /\ mode = "cleanup" => at \in list /\ \A s \in deferred : s < at

=============================================================================
