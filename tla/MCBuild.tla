------------------------------ MODULE MCBuild ------------------------------
(***************************************************************************)
(* Configurations for model-checking module Build: a base configuration    *)
(* and families of variations of it, each aimed at one part of the build.  *)
(***************************************************************************)
EXTENDS Build

Blank == [kind |-> "DISK", path |-> FALSE, uri |-> FALSE, library |-> FALSE,
          del |-> FALSE, force |-> FALSE]
Library == [Blank EXCEPT !.kind = "DISK_IMAGE", !.library = TRUE]

Base ==
  [disks |-> <<Library>>, cd |-> FALSE, boot |-> FALSE, stop |-> "poweroff",
   cleanCD |-> FALSE, imageSkip |-> FALSE, imageExport |-> FALSE,
   imageDelete |-> FALSE, existing |-> "ignore", template |-> FALSE,
   ovaCreate |-> FALSE, ovaExport |-> FALSE, forceDelete |-> FALSE,
   retain |-> FALSE]

(* What becomes of the VM: every way to stop it, to keep it and to use it. *)
LifecycleConfigs ==
  {[Base EXCEPT !.stop = s, !.boot = (s = "command"), !.forceDelete = f, !.retain = r,
                !.imageSkip = k, !.imageDelete = d, !.template = ~k, !.imageExport = d] :
     s \in {"poweroff", "command", "manual"},
     f \in BOOLEAN, r \in BOOLEAN, k \in BOOLEAN, d \in BOOLEAN}

(* Every output the build can make, and CD-ROMs to be cleaned first.       *)
CaptureConfigs ==
  {[Base EXCEPT !.disks = d, !.cleanCD = c, !.imageSkip = k, !.imageExport = x,
                !.imageDelete = x, !.existing = e, !.ovaExport = x] :
     d \in {<<Library>>, <<Blank, Blank>>,
            <<[Library EXCEPT !.kind = "ISO_IMAGE"], [Library EXCEPT !.kind = "ISO_IMAGE"], Blank>>},
     c \in BOOLEAN, k \in BOOLEAN, x \in BOOLEAN, e \in {"ignore", "replace", "fail"}}

(* Where the disks come from: two of them from every kind of source, and   *)
(* the temporary CD.                                                       *)
Sourced ==
  {[Blank EXCEPT !.kind = k, !.path = (s = "path"), !.uri = (s = "uri"),
                 !.library = FALSE, !.del = d, !.force = f] :
     k \in {"DISK_IMAGE", "ISO_IMAGE"}, s \in {"path", "uri"},
     d \in BOOLEAN, f \in BOOLEAN}

SourceConfigs ==
  {[Base EXCEPT !.disks = <<d, e>>, !.cd = c, !.imageSkip = (c = FALSE)] :
     d \in Sourced,
     e \in {Blank, [Blank EXCEPT !.kind = "DISK_IMAGE", !.uri = TRUE, !.del = TRUE],
            [Blank EXCEPT !.kind = "DISK_IMAGE"],
            [Blank EXCEPT !.kind = "other", !.path = TRUE, !.del = TRUE]},
     c \in BOOLEAN}

ImageConfigs == CaptureConfigs \cup SourceConfigs

=============================================================================
