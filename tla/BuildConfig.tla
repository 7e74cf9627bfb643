----------------------------- MODULE BuildConfig -----------------------------
(***************************************************************************)
(* What of a configuration decides the course of a build, and what         *)
(* Config.Prepare makes of it.  Module Build takes its configurations from *)
(* here, and module Request shows that those Prepare accepts are such.     *)
(***************************************************************************)
EXTENDS Naturals, Sequences

Disk ==
  [kind    : {"DISK", "DISK_IMAGE", "ISO_IMAGE", "other"},   \* image_type
   path    : BOOLEAN,     \* source_image_path is set
   uri     : BOOLEAN,     \* source_image_uri is set
   library : BOOLEAN,     \* source_image_uuid or source_image_name is set
   del     : BOOLEAN,     \* source_image_delete
   force   : BOOLEAN]     \* source_image_force

CDDisk == [kind |-> "ISO_IMAGE", path |-> FALSE, uri |-> FALSE,
           library |-> TRUE, del |-> FALSE, force |-> FALSE]

Config ==
  [disks       : Seq(Disk),
   cd          : BOOLEAN,                            \* cd_files or cd_content
   boot        : BOOLEAN,                            \* boot_command over VNC
   stop        : {"poweroff", "command", "manual"},
   cleanCD     : BOOLEAN,
   imageSkip   : BOOLEAN,
   imageExport : BOOLEAN,
   imageDelete : BOOLEAN,
   existing    : {"ignore", "replace", "fail"},      \* force_deregister, fail_if_image_exists
   template    : BOOLEAN,
   ovaCreate   : BOOLEAN,
   ovaExport   : BOOLEAN,
   forceDelete : BOOLEAN,
   retain      : BOOLEAN]

\* The disk is made of an image.
FromImage(d) == d.kind \in {"DISK_IMAGE", "ISO_IMAGE"}

(* What Config.Prepare rejects, and what it changes in what it accepts: an *)
(* export needs the thing it exports, so it is created after all.          *)
Deletable(d) == d.del => d.path \/ d.uri

Accepted(c) == c.disks # <<>> /\ \A k \in DOMAIN c.disks : Deletable(c.disks[k])

Prepare_SkipWins(c) == [c EXCEPT !.ovaCreate = @ \/ c.ovaExport]

Prepare(c) ==
  [c EXCEPT !.imageSkip   = @ /\ ~c.imageExport,
            !.imageDelete = @ \/ (c.imageSkip /\ c.imageExport),
            !.ovaCreate   = @ \/ c.ovaExport]

=============================================================================
