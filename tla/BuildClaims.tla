---------------------------- MODULE BuildClaims ----------------------------
(***************************************************************************)
(* What the documentation says of a build and the code does not do.  Each  *)
(* of these is checked by a run of its own that finds the counterexample.  *)
(***************************************************************************)
EXTENDS MCBuild

ForceDeleteConfigs == {[Base EXCEPT !.forceDelete = TRUE, !.imageSkip = TRUE]}
CleanConfigs  == {[Base EXCEPT !.disks = <<Library, [Library EXCEPT !.kind = "ISO_IMAGE"]>>,
                               !.cleanCD = TRUE]}
PlainConfigs  == {Base}
UploadConfigs == {[Base EXCEPT !.disks = <<[Library EXCEPT !.path = TRUE, !.del = TRUE]>>]}

Deleted == {"deleted", "delete_failed"}

(* docs/builders/nutanix.mdx:77, "vm_force_delete (bool) - Delete vm even  *)
(* if build is not succesful": a VM the build reported is deleted whatever *)
(* ended the build.  stepBuildVM.Cleanup reads "cancelled || halted &&     *)
(* !VmForceDelete", so a cancelled build keeps it.                         *)
ForceDeleteOnCancel ==
  mode = "over" /\ cfg.forceDelete /\ "vm_uuid" \in bag => vm \in Deleted

(* The default of the same option: an unsuccessful build keeps its VM.     *)
(* When a poll of StepShutdown gets no answer, the nil instance panics,    *)
(* and the cleanups the panic unwinds see neither a halt nor a cancel.     *)
CrashedVMKept ==
  panicking /\ ~cfg.forceDelete => vm \notin Deleted

(* docs/builders/nutanix.mdx:164, "cdrom (bool) - Remove all CD-ROMs from  *)
(* the VM": a build that reports no error and was not cancelled has        *)
(* removed them, those left aside that CleanCD skips because they have no  *)
(* identifier.  stepCleanVM halts without putting "error".                 *)
CleanFailureReported ==
  outcome \in {"artifact", "nil"} /\ cfg.cleanCD => cdroms \subseteq nameless

(* docs/builders/nutanix.mdx:126, "source_image_delete (bool) - Delete     *)
(* image once build process is completed": also when it fails before the   *)
(* VM is reported.  The cleanup returns at once without "vm_uuid".         *)
SourceImagesDeleted ==
  mode = "over" => Borrowed \cap lib \subseteq tried

=============================================================================
