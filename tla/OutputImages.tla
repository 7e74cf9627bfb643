---------------------------- MODULE OutputImages ----------------------------
(***************************************************************************)
(* Builds that run in parallel and save their disks under one image_name:  *)
(* stepCreateImage and SaveVMDisk of each, and the image library they      *)
(* share.  Disk d of every build is saved under the same name, the image   *)
(* name for the first disk and with the suffix "-disk<d>" for the others,  *)
(* and force_deregister and fail_if_image_exists look images up by name.   *)
(*                                                                         *)
(* One action is one driver call; the other builds come in between any     *)
(* two.  An image never comes back once deleted, and the library is kept   *)
(* in the order in which its images were created.                          *)
(***************************************************************************)
EXTENDS Naturals, Sequences, FiniteSets

CONSTANTS
  Builds,     \* the builds
  Scenarios,  \* functions that give each build its configuration
  Libraries,  \* the images there may be before the builds
  Nobody      \* the maker of those

Disk == Nat \ {0}

\* existing is "replace" for force_deregister and "fail" for
\* fail_if_image_exists; Prepare rejects both together.  The size of the
\* disks may be known, and the images and an OVA may be exported: see
\* module Outputs.
Conf == [existing : {"ignore", "replace", "fail"}, disks : Disk, del : BOOLEAN,
         sized : BOOLEAN, export : BOOLEAN, ova : BOOLEAN]

Image == [name : Disk, by : Builds \cup {Nobody}, there : BOOLEAN]

ASSUME ScenariosAssumption ==
  \A s \in Scenarios : s \in [Builds -> Conf]
ASSUME NobodyAssumption == Nobody \notin Builds
ASSUME LibrariesAssumption ==
  \A l \in Libraries :
    l \in Seq(Image) /\ \A i \in DOMAIN l : l[i].by = Nobody /\ l[i].there

VARIABLES
  conf,    \* the configuration of each build
  images,  \* the images ever created, in that order
  pc,      \* "list" | "delete" | "create" | "saved" | "cleanup" | "done"
  disk,    \* the loop index of stepCreateImage.Run, then of its Cleanup
  listed,  \* one entry for each Images.List: what was found, of how many
  made,    \* imageList: the images the build has created
  tried,   \* history: the images the build passed to Images.Delete
  ok       \* no step has failed

vars == <<conf, images, pc, disk, listed, made, tried, ok>>

Listing == [upto : Nat, found : SUBSET Nat]

OutputsTypeOK ==
  /\ conf \in Scenarios
  /\ images \in Seq(Image)
  /\ pc \in [Builds -> {"list", "delete", "create", "saved", "cleanup", "done"}]
  /\ disk \in [Builds -> Disk]
  /\ listed \in [Builds -> Seq(Listing)]
  /\ made \in [Builds -> Seq(Nat)]
  /\ tried \in [Builds -> SUBSET Nat]
  /\ ok \in [Builds -> BOOLEAN]

Init ==
  /\ conf \in Scenarios
  /\ images \in Libraries
  /\ pc = [b \in Builds |-> "list"]
  /\ disk = [b \in Builds |-> 1]
  /\ listed = [b \in Builds |-> << >>]
  /\ made = [b \in Builds |-> << >>]
  /\ tried = [b \in Builds |-> {}]
  /\ ok = [b \in Builds |-> TRUE]

-----------------------------------------------------------------------------
Goto(b, l) == pc' = [pc EXCEPT ![b] = l]

\* The error is put in the bag, but not the images made so far.
Fail_Unrecorded(b) == Goto(b, "done") /\ UNCHANGED ok
Fail(b) == Goto(b, "done") /\ ok' = [ok EXCEPT ![b] = FALSE]

\* Images.Delete, when it returns no error and when it does.
Delete(b, i) ==
  /\ images[i].there
  /\ images' = [images EXCEPT ![i].there = FALSE]
  /\ tried' = [tried EXCEPT ![b] = @ \cup {i}]

DeleteFails(b, i) ==
  /\ images' \in {images, [images EXCEPT ![i].there = FALSE]}
  /\ tried' = [tried EXCEPT ![b] = @ \cup {i}]

-----------------------------------------------------------------------------
(* SaveVMDisk.                                                             *)

\* The name of the image of disk d.
NameOf_WithoutSuffix(d) == 1
NameOf(d) == d

Found(d) == {i \in DOMAIN images : images[i].there /\ images[i].name = NameOf(d)}

Rejects_OnlyOne(b, old) == conf[b].existing = "fail" /\ Cardinality(old) = 1
Rejects(b, old) == conf[b].existing = "fail" /\ old # {}

Replaces(b, old) == conf[b].existing = "replace" /\ Cardinality(old) = 1

\* Neither option is set: the library is not asked.
SkipList(b) ==
  /\ pc[b] = "list" /\ conf[b].existing = "ignore"
  /\ Goto(b, "create")
  /\ UNCHANGED <<conf, images, disk, listed, made, tried, ok>>

ListImages(b) ==
  /\ pc[b] = "list" /\ conf[b].existing # "ignore"
  /\ \/ LET old == Found(disk[b]) IN
          /\ listed' = [listed EXCEPT ![b] = Append(@, [upto |-> Len(images), found |-> old])]
          /\ \/ Rejects(b, old) /\ Fail(b)
             \/ Replaces(b, old) /\ Goto(b, "delete") /\ UNCHANGED ok
             \/ ~Rejects(b, old) /\ ~Replaces(b, old) /\ Goto(b, "create") /\ UNCHANGED ok
     \/ Fail(b) /\ UNCHANGED listed
  /\ UNCHANGED <<conf, images, disk, made, tried>>

DeleteOld(b) ==
  /\ pc[b] = "delete"
  /\ \E i \in listed[b][Len(listed[b])].found :
       \/ Delete(b, i) /\ Goto(b, "create") /\ UNCHANGED ok
       \/ DeleteFails(b, i) /\ Fail(b)
  /\ UNCHANGED <<conf, disk, listed, made>>

\* getCategoryExtIds, which may fail too, and Images.Create.
CreateImage(b) ==
  LET new == Append(images, [name |-> NameOf(disk[b]), by |-> b, there |-> TRUE]) IN
  /\ pc[b] = "create"
  /\ \/ /\ images' = new
        /\ made' = [made EXCEPT ![b] = Append(@, Len(new))]
        /\ IF disk[b] < conf[b].disks
           THEN Goto(b, "list") /\ disk' = [disk EXCEPT ![b] = @ + 1]
           ELSE Goto(b, "saved") /\ UNCHANGED disk
        /\ UNCHANGED ok
     \/ images' \in {images, new} /\ Fail(b) /\ UNCHANGED <<made, disk>>
  /\ UNCHANGED <<conf, listed, tried>>

-----------------------------------------------------------------------------
(* After the image step: the steps that follow it and the cleanups.        *)

StartCleanup(b) == Goto(b, "cleanup") /\ disk' = [disk EXCEPT ![b] = 1]

\* The later steps all succeed, or one of them does not.
Finish(b) ==
  /\ pc[b] = "saved"
  /\ StartCleanup(b)
  /\ UNCHANGED <<conf, images, listed, made, tried, ok>>

StepFails(b) ==
  /\ pc[b] = "saved"
  /\ StartCleanup(b) /\ ok' = [ok EXCEPT ![b] = FALSE]
  /\ UNCHANGED <<conf, images, listed, made, tried>>

DeletesOutputs_Always(b) == TRUE
DeletesOutputs(b) == conf[b].del

\* stepCreateImage.Cleanup, which stops at the first image it cannot delete.
Cleanup(b) ==
  /\ pc[b] = "cleanup"
  /\ \/ /\ ~DeletesOutputs(b) \/ disk[b] > Len(made[b])
        /\ Goto(b, "done")
        /\ UNCHANGED <<images, disk, tried>>
     \/ /\ DeletesOutputs(b) /\ disk[b] <= Len(made[b])
        /\ \/ /\ Delete(b, made[b][disk[b]])
              /\ disk' = [disk EXCEPT ![b] = @ + 1]
              /\ UNCHANGED pc
           \/ /\ DeleteFails(b, made[b][disk[b]])
              /\ Goto(b, "done")
              /\ UNCHANGED disk
  /\ UNCHANGED <<conf, listed, made, ok>>

Save(b) == SkipList(b) \/ ListImages(b) \/ DeleteOld(b) \/ CreateImage(b)

Next == \E b \in Builds : Save(b) \/ Finish(b) \/ StepFails(b) \/ Cleanup(b)

Spec == Init /\ [][Next]_vars

-----------------------------------------------------------------------------
(* A build loses an image it has made only by its own cleanup, if it was   *)
(* told to delete its images, or to another build with force_deregister:   *)
(* never to its own other disks, nor to a build that only looks.           *)
OwnOutputStays ==
  \A b \in Builds : \A k \in DOMAIN made[b] :
    ~images[made[b][k]].there =>
      \/ conf[b].del /\ pc[b] \in {"cleanup", "done"}
      \/ \E c \in Builds \ {b} :
           conf[c].existing = "replace" /\ made[b][k] \in tried[c]

(* Next to the image a build has made under a name there is an older one   *)
(* only if the build did not look, or the older one was created after it   *)
(* looked, or, with force_deregister, it was one of several.               *)
OlderCopyExplained ==
  \A b \in Builds : conf[b].existing # "ignore" =>
    \A d \in DOMAIN made[b] : \A i \in 1 .. made[b][d] - 1 :
      images[i].there /\ images[i].name = images[made[b][d]].name =>
        \/ i > listed[b][d].upto
        \/ conf[b].existing = "replace" /\ Cardinality(listed[b][d].found) > 1

(* When all builds are over and none has failed, the image created last    *)
(* under each name is there, unless its own build was told to delete it.   *)
LastWriterStays ==
  (\A b \in Builds : pc[b] = "done" /\ ok[b]) =>
    \A b \in Builds : \A k \in DOMAIN made[b] :
      LET i == made[b][k] IN
      \/ images[i].there
      \/ conf[b].del
      \/ \E j \in DOMAIN images : j > i /\ images[j].name = images[i].name

=============================================================================
