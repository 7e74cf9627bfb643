------------------------------ MODULE Outputs ------------------------------
(***************************************************************************)
(* What builds that run in parallel make of their VMs, put together: every *)
(* build saves its disks (module OutputImages) and may then make and       *)
(* export an OVA (module OvaExport); one of them, the exporter, exports    *)
(* its images before that (module ExportImage).  The image it downloads    *)
(* may have been deleted meanwhile by another build that replaces it.      *)
(*                                                                         *)
(* In the code these are the steps of Builder.Run from stepCreateImage on. *)
(***************************************************************************)
EXTENDS OutputImages

CONSTANTS
  Exporter,   \* the build that has image_export, if its configuration says so
  Tries,      \* how often the OVA is looked up
  OldOvas     \* how many OVAs of the name there may be before

ASSUME ExporterAssumption == Exporter \in Builds
ASSUME OvasAssumption == Tries \in Nat \ {0} /\ OldOvas \in Nat
ASSUME OneExporterAssumption ==
  \A s \in Scenarios : \A b \in Builds : s[b].export => b = Exporter

VARIABLES n, xpc, stream, copier, room, tmp, img, sigChan, signalled,
          ctxDone, bagError, result
exportVars == <<n, xpc, stream, copier, room, tmp, img, sigChan, signalled,
                ctxDone, bagError, result>>

VARIABLES ovas, stage, left, own, taken, missed
ovaVars == <<ovas, stage, left, own, taken, missed>>

allVars == <<vars, exportVars, ovaVars>>

\* "image_uuid" of the exporter, and what Prism Central can deliver.
Todo == [k \in DOMAIN made[Exporter] |->
           [uuid |-> made[Exporter][k], sized |-> conf[Exporter].sized]]
Library == {i \in DOMAIN images : images[i].there}

Export == INSTANCE ExportImage WITH todo <- Todo, remote <- Library, pc <- xpc
Ova == INSTANCE OvaExport

TypeOK == OutputsTypeOK /\ Export!TypeOK /\ Ova!OvaTypeOK

OutputsInit ==
  /\ Init
  /\ Export!Init(IF conf[Exporter].export THEN 1 .. conf[Exporter].disks ELSE {})
  /\ Ova!Init(IF \E b \in Builds : conf[b].ova THEN OldOvas ELSE 0)

-----------------------------------------------------------------------------
(* The order of the steps of a build after stepCreateImage.                *)

Exporting == pc[Exporter] = "saved" /\ conf[Exporter].export
Exported(b) == b = Exporter /\ conf[b].export => result = "continue"
OvaMade(b) == conf[b].ova => stage[b] = "exported"

\* A step may fail, or the runner stop, before or after each of these.
Between(b) ==
  /\ b = Exporter /\ conf[b].export => result # "none" \/ (n = 1 /\ xpc = "get")
  /\ stage[b] \in {"create", "exported", "failed"}

ImageStep(b) == Save(b) /\ UNCHANGED <<exportVars, ovaVars>>

ExportRuns  == Exporting /\ Export!Run /\ UNCHANGED <<vars, ovaVars>>
ExportWaits == Exporting /\ Export!FallbackAnswers /\ UNCHANGED <<vars, ovaVars>>
ExportStops == Exporting /\ (Export!Signal \/ Export!Cancel) /\ UNCHANGED <<vars, ovaVars>>

\* The goroutine goes on whatever the build does next.
Copying == (Export!CopyEnds \/ Export!SendUnread) /\ UNCHANGED <<vars, ovaVars>>

OvaStep(b) ==
  /\ pc[b] = "saved" /\ conf[b].ova /\ Exported(b)
  /\ Ova!Step(b)
  /\ UNCHANGED <<vars, exportVars>>

OvaAppears == (\E i \in DOMAIN ovas : Ova!Appears(i)) /\ UNCHANGED <<vars, exportVars>>

BuildEnds(b) ==
  /\ \/ Exported(b) /\ OvaMade(b) /\ Finish(b)
     \/ Between(b) /\ StepFails(b)
     \/ Cleanup(b)
  /\ UNCHANGED <<exportVars, ovaVars>>

OutputsNext ==
  \/ \E b \in Builds : ImageStep(b) \/ OvaStep(b) \/ BuildEnds(b)
  \/ ExportRuns \/ ExportWaits \/ ExportStops \/ Copying
  \/ OvaAppears

(* The plugin goes on by itself; a request made with the context ends when *)
(* that is cancelled, and a copy from a local or a closed file ends.  A    *)
(* response that stops to arrive is not ended by anything else.            *)
Fairness ==
  /\ WF_allVars(ExportRuns)
  /\ WF_allVars(Exporting /\ Export!FallbackCancelled /\ UNCHANGED <<vars, ovaVars>>)
  /\ WF_allVars(Export!CopyMustEnd /\ UNCHANGED <<vars, ovaVars>>)
  /\ WF_allVars(Export!SendUnread /\ UNCHANGED <<vars, ovaVars>>)

FairSpec == OutputsInit /\ [][OutputsNext]_allVars /\ Fairness

-----------------------------------------------------------------------------
(* However the export returns, wherever the copying goroutine is then, and *)
(* whatever becomes of the image meanwhile, it leaves no name.tmp, and no  *)
(* name.img that is not complete while the size of the image is known.     *)
FilesWholeOrGone == Export!FinalFilesWhole /\ Export!NoTmpLeft

(* An older OVA than the build's own is exported only if its own was not   *)
(* listed yet when the search ended.                                       *)
OlderOvaExplained == Ova!OlderOvaExplained

(* The export keeps the promise of a step, also while other builds delete  *)
(* the images it is to export.                                             *)
ExportImplementsStep == Export!Step!Spec

(* An export whose context is cancelled returns: no call it can be in      *)
(* outlives the context.                                                   *)
StopEndsExport == ctxDone ~> (result # "none" \/ pc[Exporter] # "saved")

(* A signal sent at any time after the subscription ends the export, be it *)
(* at the next image, unless the v3 request never answers.                 *)
SignalHeard ==
  signalled ~> (result # "none" \/ xpc = "fallback" \/ pc[Exporter] # "saved")

(* The copying goroutine ends, also when nobody receives its message.      *)
CopierEnds == (xpc = "returned") ~> (copier \in {"none", "ended"})

=============================================================================
