----------------------------- MODULE MCOutputs -----------------------------
(***************************************************************************)
(* Scenarios for model-checking module Outputs: each is aimed at one kind  *)
(* of contention between the builds, so that the others stay small.        *)
(***************************************************************************)
EXTENDS Outputs

CONSTANTS b1, b2

Plain == [existing |-> "ignore", disks |-> 1, del |-> FALSE, sized |-> TRUE,
          export |-> FALSE, ova |-> FALSE]

Assign(x, y) == [b \in Builds |-> IF b = b1 THEN x ELSE y]

Treatments == {"ignore", "replace", "fail"}

(* Two builds with two disks each, that treat existing images in every way.*)
Contending ==
  {Assign([Plain EXCEPT !.existing = e, !.disks = 2, !.del = d],
          [Plain EXCEPT !.existing = f, !.disks = 2]) :
     d \in BOOLEAN, e \in Treatments, f \in Treatments}

(* The exporter exports two images, which the other build may replace.     *)
Exports ==
  {Assign([Plain EXCEPT !.export = TRUE, !.disks = 2, !.sized = s],
          [Plain EXCEPT !.existing = "replace"]) :
     s \in BOOLEAN}

(* Two builds make an OVA of the same name; where the library is not empty *)
(* one of them does not come to it.                                        *)
Ovas == {Assign([Plain EXCEPT !.ova = TRUE], [Plain EXCEPT !.ova = TRUE, !.existing = "fail"])}

SomeScenarios == Contending \cup Exports \cup Ovas

Older(d) == [name |-> d, by |-> Nobody, there |-> TRUE]

SomeLibraries == {<< >>, <<Older(1), Older(2)>>, <<Older(1), Older(1)>>}

=============================================================================
