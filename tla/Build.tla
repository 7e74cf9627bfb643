------------------------------- MODULE Build -------------------------------
(***************************************************************************)
(* One build of the plugin: Builder.Run registers the steps, the SDK's     *)
(* runner executes them, each step calls the driver, and the cleanups give *)
(* back what the build borrowed from Prism Central.                        *)
(*                                                                         *)
(* The state of the plugin is the runner's (mode, at, deferred), the state *)
(* bag (the keys present; the values that matter are marks and images) and *)
(* the locals of the step being executed (pc, i, img).  The state of Prism *)
(* Central is the builder VM and the image library.  Every driver call is  *)
(* one action and may fail, with or without its effect: a call that waits  *)
(* for a task can return an error although the task went through.          *)
(***************************************************************************)
EXTENDS BuildConfig, FiniteSets

CONSTANTS
  Configs,       \* the configurations the build may be started with
  MayInterrupt   \* whether the user may cancel the build

-----------------------------------------------------------------------------
(* The steps, in the order Builder.Run lists them.                         *)

CreateCD       == 1
BuildVM        == 2
VNCConnect     == 3
VNCBootCommand == 4
WaitForIp      == 5
Connect        == 6
Provision      == 7
Shutdown       == 8
CleanVM        == 9
CreateImage    == 10
ExportImage    == 11
CreateTemplate == 12
CreateOVA      == 13
ExportOVA      == 14
Step           == 1..14

(* An image of the library is named by where it comes from: uploaded from  *)
(* the temporary CD or from source_image_path, downloaded from             *)
(* source_image_uri, made from disk n of the VM ("out"); "user" n matches  *)
(* the URI of disk n and "old" n has the name of output image n, both from *)
(* before the build.                                                       *)
Origin   == {"cd", "path", "uri", "out", "user", "old"}
ImageId  == Origin \X Nat
CDImage  == <<"cd", 1>>

ASSUME ConfigsAssumption == Configs \subseteq Config /\ \A c \in Configs : Accepted(c)
ASSUME InterruptAssumption == MayInterrupt \in BOOLEAN

\* The steps Builder.Run registers.
Listed(c) ==
  {s \in Step :
     /\ s = CleanVM        => c.cleanCD
     /\ s = CreateImage    => ~c.imageSkip
     /\ s = ExportImage    => c.imageExport
     /\ s = CreateTemplate => c.template
     /\ s = CreateOVA      => c.ovaCreate
     /\ s = ExportOVA      => c.ovaExport}

(* The keys of the state bag a step reads with an unchecked type           *)
(* assertion.  Connect has a fallback: without "ip" it would connect to    *)
(* 127.0.0.1, the machine the build runs on.                               *)
Needs(s, c) ==
  CASE s = VNCConnect     -> IF c.boot THEN {"vm_uuid"} ELSE {}
    [] s = VNCBootCommand -> IF c.boot THEN {"vnc_conn"} ELSE {}
    [] s = Connect        -> {"ip"}
    [] s = Shutdown       -> {"communicator", "vm_uuid"}
    [] s = ExportImage    -> {"image_uuid"}
    [] s \in {WaitForIp, CleanVM, CreateImage, CreateTemplate, CreateOVA} -> {"vm_uuid"}
    [] s \in {CreateCD, BuildVM, Provision, ExportOVA} -> {}

BagKey == {"cd_path", "cd_uuid", "image_to_delete", "vm_uuid", "vnc_conn", "ip",
           "communicator", "image_uuid", "error", "cancelled", "halted"}

-----------------------------------------------------------------------------
VARIABLES
  cfg,        \* the prepared configuration
  mode,       \* the runner: "next" | "run" | "unwind" | "cleanup" | "over"
  at,         \* the runner: the current step
  deferred,   \* the runner: steps whose Cleanup is deferred
  panicking,  \* a step's Run dereferenced a nil pointer: the stack unwinds
  bag,        \* the keys of the state bag
  marks,      \* imageToDelete, the value of "image_to_delete"
  images,     \* imageList, the value of "image_uuid"
  pc, i, img, \* the executing step: location, loop index, image at hand
  ctxDone,    \* the build's context is cancelled
  signalled,  \* the plugin process received SIGINT or SIGTERM
  vm,         \* Prism Central: the builder VM
  cdroms,     \* Prism Central: CD-ROMs attached to it
  nameless,   \* Prism Central: those of its CD-ROMs it shows without an ExtId
  lib,        \* Prism Central: the image library
  outputs,    \* what else was produced: "file", "template", "ova"
  tried,      \* history: images the cleanups passed to DeleteImage
  outcome     \* what Builder.Run returned

runner == <<mode, at, deferred, panicking>>
local  == <<pc, i, img>>
prism  == <<vm, cdroms, lib, outputs>>
env    == <<cfg, nameless, ctxDone, signalled>>
vars   == <<cfg, mode, at, deferred, panicking, bag, marks, images, pc, i, img,
            ctxDone, signalled, vm, cdroms, nameless, lib, outputs, tried, outcome>>

VmState == {"none", "off", "on", "deleted", "delete_failed"}
NoImage == <<"cd", 0>>
Location == {"body", "uploadDisk", "requestDisk", "bindDisk", "createVM", "powerOn",
             "poll", "cdrom", "save", "deleteMarked", "deleteVM", "deleteOut"}

(* VmDisks with the CD appended by stepBuildVM once it is uploaded.        *)
Disks == IF "cd_uuid" \in bag THEN Append(cfg.disks, CDDisk) ELSE cfg.disks
CdRomDisks == {k \in DOMAIN Disks : Disks[k].kind = "ISO_IMAGE"}
ScsiDisks  == {k \in DOMAIN Disks : Disks[k].kind \in {"DISK", "DISK_IMAGE"}}

TypeOK ==
  /\ cfg \in {Prepare(c) : c \in Configs}
  /\ mode \in {"next", "run", "unwind", "cleanup", "over"}
  /\ at \in 0..14
  /\ deferred \in SUBSET Step
  /\ panicking \in BOOLEAN
  /\ bag \in SUBSET BagKey
  /\ marks \in Seq(ImageId)
  /\ images \in Seq(ImageId)
  /\ pc \in Location
  /\ i \in Nat
  /\ img \in ImageId
  /\ ctxDone \in BOOLEAN
  /\ signalled \in BOOLEAN
  /\ vm \in VmState
  /\ cdroms \in SUBSET (Nat \ {0})
  /\ nameless \in SUBSET Nat
  /\ lib \in SUBSET ImageId
  /\ outputs \in SUBSET {"file", "template", "ova"}
  /\ tried \in SUBSET ImageId
  /\ outcome \in {"none", "error", "artifact", "nil", "crash"}

-----------------------------------------------------------------------------
(* The runner, as the steps see it.                                        *)

\* The disks CleanCD may find as CD-ROMs; the last one is the temporary CD.
Cleanable ==
  IF cfg.cleanCD
  THEN {k \in 1 .. Len(cfg.disks) + 1 : Append(cfg.disks, CDDisk)[k].kind = "ISO_IMAGE"}
  ELSE {}

Init ==
  /\ cfg \in {Prepare(c) : c \in Configs}
  /\ mode = "next" /\ at = 0 /\ deferred = {} /\ panicking = FALSE
  /\ bag = {} /\ marks = <<>> /\ images = <<>>
  /\ pc = "body" /\ i = 1 /\ img = NoImage
  /\ ctxDone = FALSE /\ signalled = FALSE
  /\ vm = "none" /\ cdroms = {} /\ outputs = {}
  /\ nameless \in SUBSET Cleanable
  /\ lib \in SUBSET ({<<"user", k>> : k \in {d \in DOMAIN cfg.disks : cfg.disks[d].uri}}
                     \cup {<<"old", n>> : n \in {d \in DOMAIN cfg.disks : ~cfg.imageSkip}})
  /\ tried = {} /\ outcome = "none"

In(s, l) == mode = "run" /\ at = s /\ pc = l
Cleaning(s, l) == mode = "cleanup" /\ at = s /\ pc = l

Goto(l, n, x) == pc' = l /\ i' = n /\ img' = x /\ UNCHANGED runner
Leave == pc' = "body" /\ i' = 1 /\ img' = NoImage

(* Run returned: its Cleanup is deferred, then StateCancelled is looked at *)
(* before the action, so a step that halts a cancelled build leaves no     *)
(* StateHalted.                                                            *)
Return(m, keys) ==
  /\ mode' = IF "cancelled" \in bag THEN "unwind" ELSE m
  /\ deferred' = deferred \cup {at}
  /\ bag' = bag \cup keys
  /\ UNCHANGED <<at, panicking>>
  /\ Leave

Continue(keys) == Return("next", keys)
Halt(keys) == Return("unwind", IF "cancelled" \in bag THEN keys ELSE keys \cup {"halted"})

\* A nil pointer is dereferenced inside Run: its Cleanup is not yet deferred.
Crash ==
  /\ mode' = "unwind"
  /\ panicking' = TRUE
  /\ UNCHANGED <<at, deferred, bag>>
  /\ Leave

CleanupDone ==
  /\ mode' = "unwind"
  /\ UNCHANGED <<at, deferred, panicking>>
  /\ Leave

StartStep ==
  /\ mode = "next" /\ ~ctxDone
  /\ \E s \in Listed(cfg) :
        /\ s > at
        /\ \A t \in Listed(cfg) : t > at => s <= t
        /\ at' = s
  /\ mode' = "run"
  /\ UNCHANGED <<deferred, panicking, bag, marks, images, local, prism, env, tried, outcome>>

\* No step is left, or the context is found cancelled before the next one.
StopLoop ==
  /\ mode = "next"
  /\ \/ /\ \A s \in Listed(cfg) : s <= at
        /\ UNCHANGED bag
     \/ /\ ctxDone
        /\ \E s \in Listed(cfg) : s > at
        /\ bag' = bag \cup {"cancelled"}
  /\ mode' = "unwind"
  /\ UNCHANGED <<at, deferred, panicking, marks, images, local, prism, env, tried, outcome>>

\* The runner's own goroutine, which watches the context until Run returns.
MarkCancelled ==
  /\ ctxDone /\ mode # "over"
  /\ bag' = bag \cup {"cancelled"}
  /\ UNCHANGED <<runner, marks, images, local, prism, env, tried, outcome>>

Latest_Oldest(S) == {s \in S : \A t \in S : s <= t}
Latest(S) == {s \in S : \A t \in S : t <= s}

StartCleanup ==
  /\ mode = "unwind"
  /\ \E s \in Latest(deferred) : at' = s /\ deferred' = deferred \ {s}
  /\ mode' = "cleanup"
  /\ UNCHANGED <<panicking, bag, marks, images, local, prism, env, tried, outcome>>

\* stepVNCConnect and the others with nothing to undo in Prism Central.
EmptyCleanup ==
  /\ mode = "cleanup" /\ at \notin {BuildVM, CreateImage}
  /\ CleanupDone
  /\ UNCHANGED <<bag, marks, images, prism, env, tried, outcome>>

\* Builder.Run after runner.Run: the error, else an artifact, else nil.
BuilderReturns ==
  /\ mode = "unwind" /\ deferred = {}
  /\ mode' = "over"
  /\ outcome' = IF panicking THEN "crash"
                ELSE IF "error" \in bag THEN "error"
                ELSE IF "image_uuid" \in bag THEN "artifact" ELSE "nil"
  /\ UNCHANGED <<at, deferred, panicking, bag, marks, images, local, prism, env, tried>>

-----------------------------------------------------------------------------
(* stepBuildVM.Run, with the driver calls CreateImageFile, CreateRequest,  *)
(* Create and PowerOn.                                                     *)

\* commonsteps.StepCreateCD: makes the ISO file, when there is one to make.
MakeCD ==
  /\ In(CreateCD, "body")
  /\ \/ Continue(IF cfg.cd THEN {"cd_path"} ELSE {})
     \/ cfg.cd /\ Halt({"error"})
  /\ UNCHANGED <<marks, images, prism, env, tried, outcome>>

(* CreateImageFile uploads, then looks the image up by name: when that     *)
(* fails the image is in the library and nobody knows its UUID.            *)
UploadCD ==
  /\ In(BuildVM, "body")
  /\ IF "cd_path" \in bag
     THEN \/ /\ lib' = lib \cup {CDImage}
             /\ bag' = bag \cup {"cd_uuid"}
             /\ Goto("uploadDisk", 1, NoImage)
          \/ /\ lib' \in {lib, lib \cup {CDImage}}
             /\ Halt({"error"})
     ELSE /\ Goto("uploadDisk", 1, NoImage)
          /\ UNCHANGED <<bag, lib>>
  /\ UNCHANGED <<marks, images, vm, cdroms, outputs, env, tried, outcome>>

UploadDisk ==
  /\ In(BuildVM, "uploadDisk") /\ i \in DOMAIN Disks
  /\ IF Disks[i].path
     THEN \/ /\ lib' = lib \cup {<<"path", i>>}
             /\ Goto("uploadDisk", i + 1, NoImage)
             /\ UNCHANGED bag
          \/ /\ lib' \in {lib, lib \cup {<<"path", i>>}}
             /\ Halt({"error"})
     ELSE /\ Goto("uploadDisk", i + 1, NoImage)
          /\ UNCHANGED <<bag, lib>>
  /\ UNCHANGED <<marks, images, vm, cdroms, outputs, env, tried, outcome>>

\* CreateRequest starts: cluster lookup and boot configuration may fail.
StartRequest ==
  /\ In(BuildVM, "uploadDisk") /\ i \notin DOMAIN Disks
  /\ \/ Goto("requestDisk", 1, NoImage) /\ UNCHANGED bag
     \/ Halt({"error"})
  /\ UNCHANGED <<marks, images, prism, env, tried, outcome>>

Mark(d, x) == IF d.del THEN Append(marks, x) ELSE marks

Recreates_Always(d) == TRUE
Recreates(d) == d.force

(* CreateImageURL: the image found for the URI is reused; with             *)
(* source_image_force it is deleted, a failure of which is only logged,    *)
(* and downloaded again.                                                   *)
ReuseImage ==
  /\ In(BuildVM, "requestDisk") /\ i \in DOMAIN Disks
  /\ FromImage(Disks[i]) /\ Disks[i].uri
  /\ <<"user", i>> \in lib /\ ~Recreates(Disks[i])
  /\ \/ /\ marks' = Mark(Disks[i], <<"user", i>>)
        /\ Goto("bindDisk", i, <<"user", i>>)
        /\ UNCHANGED bag
     \/ Halt({"error"}) /\ UNCHANGED marks
  /\ UNCHANGED <<images, prism, env, tried, outcome>>

DownloadImage ==
  /\ In(BuildVM, "requestDisk") /\ i \in DOMAIN Disks
  /\ FromImage(Disks[i]) /\ Disks[i].uri
  /\ <<"user", i>> \in lib => Recreates(Disks[i])
  /\ \E rest \in {lib, lib \ {<<"user", i>>}} :
        \/ /\ lib' = rest \cup {<<"uri", i>>}
           /\ marks' = Mark(Disks[i], <<"uri", i>>)
           /\ Goto("bindDisk", i, <<"uri", i>>)
           /\ UNCHANGED bag
        \/ /\ lib' \in {rest, rest \cup {<<"uri", i>>}}
           /\ Halt({"error"})
           /\ UNCHANGED marks
  /\ UNCHANGED <<images, vm, cdroms, outputs, env, tried, outcome>>

(* Nothing to download: an uploaded image or one of the library; and for   *)
(* a blank disk, or one of a kind the code does not know, no image at all. *)
SkipDownload ==
  /\ In(BuildVM, "requestDisk") /\ i \in DOMAIN Disks
  /\ \/ ~FromImage(Disks[i]) /\ Goto("requestDisk", i + 1, NoImage)
     \/ /\ FromImage(Disks[i]) /\ ~Disks[i].uri
        /\ Goto("bindDisk", i, IF Disks[i].path THEN <<"path", i>> ELSE NoImage)
  /\ UNCHANGED <<bag, marks, images, prism, env, tried, outcome>>

MarksUploaded_Never(d) == FALSE
MarksUploaded(d) == d.del /\ d.path

\* findImageByUUID or findImageByName; without any source image is nil.
BindDisk ==
  /\ In(BuildVM, "bindDisk")
  /\ LET d == Disks[i] IN
       \/ /\ d.uri \/ d.path \/ d.library
          /\ \/ /\ marks' = IF MarksUploaded(d) THEN Append(marks, img) ELSE marks
                /\ Goto("requestDisk", i + 1, NoImage)
                /\ UNCHANGED bag
             \/ Halt({"error"}) /\ UNCHANGED marks
       \/ /\ ~d.uri /\ ~d.path /\ ~d.library
          /\ Crash
          /\ UNCHANGED marks
  /\ UNCHANGED <<images, prism, env, tried, outcome>>

FinishPuts_IfMarked == IF marks = <<>> THEN {} ELSE {"image_to_delete"}
FinishPuts == {"image_to_delete"}

\* The rest of CreateRequest: NICs, GPUs, categories, project.
FinishRequest ==
  /\ In(BuildVM, "requestDisk") /\ i \notin DOMAIN Disks
  /\ \/ /\ bag' = bag \cup FinishPuts
        /\ Goto("createVM", 1, NoImage)
     \/ Halt(FinishPuts \cup {"error"})
  /\ UNCHANGED <<marks, images, prism, env, tried, outcome>>

CreateVM ==
  /\ In(BuildVM, "createVM")
  /\ \/ /\ vm' = "off" /\ cdroms' = CdRomDisks
        /\ Goto("powerOn", 1, NoImage)
        /\ UNCHANGED bag
     \/ /\ \/ vm' = "off" /\ cdroms' = CdRomDisks
           \/ UNCHANGED <<vm, cdroms>>
        /\ Halt({"error"})
  /\ UNCHANGED <<marks, images, lib, outputs, env, tried, outcome>>

PowerOnPuts_Typo == {"vm_uid"}
PowerOnPuts == {"vm_uuid"}

PowerOn ==
  /\ In(BuildVM, "powerOn")
  /\ \/ vm' = "on" /\ Continue(PowerOnPuts)
     \/ vm' \in {"off", "on"} /\ Halt({"error"})
  /\ UNCHANGED <<marks, images, cdroms, lib, outputs, env, tried, outcome>>

-----------------------------------------------------------------------------
(* From the running VM to the VM that is ready to be captured.             *)

ConnectVNC ==
  /\ In(VNCConnect, "body")
  /\ \/ Continue(IF cfg.boot THEN {"vnc_conn"} ELSE {})
     \/ cfg.boot /\ Halt({"error"})
  /\ UNCHANGED <<marks, images, prism, env, tried, outcome>>

\* boot_wait is cut short by the context without an error being recorded.
TypeBootCommand ==
  /\ In(VNCBootCommand, "body")
  /\ \/ Continue({})
     \/ cfg.boot /\ Halt({"error"})
     \/ cfg.boot /\ ctxDone /\ Halt({})
  /\ UNCHANGED <<marks, images, prism, env, tried, outcome>>

\* stepWaitForIp.Run as a whole; module WaitForIp has its select loop.
ObtainIp ==
  /\ In(WaitForIp, "body")
  /\ \/ Continue({"ip"})
     \/ Halt({"error"})
     \/ ctxDone /\ Halt({})
  /\ UNCHANGED <<marks, images, prism, env, tried, outcome>>

\* communicator.StepConnect and commonsteps.StepProvision of the SDK.
ConnectGuest ==
  /\ In(Connect, "body")
  /\ \/ Continue({"communicator"})
     \/ Halt({"error"})
     \/ ctxDone /\ Halt({})
  /\ UNCHANGED <<marks, images, prism, env, tried, outcome>>

RunProvisioners ==
  /\ In(Provision, "body")
  /\ \/ Continue({})
     \/ Halt({"error"})
     \/ ctxDone /\ Halt({})
  /\ UNCHANGED <<marks, images, prism, env, tried, outcome>>

StopFailure_Unrecorded == {}
StopFailure == {"error"}

(* StepShutdown.Run: by the driver, by a command in the guest, or by hand. *)
StopVM ==
  /\ In(Shutdown, "body")
  /\ \/ /\ cfg.stop = "poweroff"
        /\ \/ vm' = "off" /\ Goto("poll", 1, NoImage) /\ UNCHANGED bag
           \/ vm' \in {vm, "off"} /\ Halt(StopFailure)
     \/ /\ cfg.stop = "command"
        /\ \/ Goto("poll", 1, NoImage) /\ UNCHANGED bag
           \/ Halt(StopFailure)
        /\ UNCHANGED vm
     \/ /\ cfg.stop = "manual"
        /\ Goto("poll", 1, NoImage)
        /\ UNCHANGED <<bag, vm>>
  /\ UNCHANGED <<marks, images, cdroms, lib, outputs, env, tried, outcome>>

SeenOff_Trusting == vm \in {"on", "off"}
SeenOff == vm = "off"
TimedOut_Never == FALSE
TimedOut == vm # "off"      \* the timer is looked at only after the VM

(* A turn of the poll that finds the VM on and the timer running changes   *)
(* nothing.                                                                *)
PollPowerState ==
  /\ In(Shutdown, "poll")
  /\ \/ SeenOff /\ Continue({})
     \/ TimedOut /\ Halt({"error"})
  /\ UNCHANGED <<marks, images, prism, env, tried, outcome>>

\* GetVM failed: its error is dropped and the nil instance asked for its state.
PollWithoutAnswer ==
  /\ In(Shutdown, "poll")
  /\ Crash
  /\ UNCHANGED <<marks, images, prism, env, tried, outcome>>

CdRomFailure_Ignored == Continue({})
CdRomFailure == Halt({})

(* stepCleanVM.Run: a failure of CleanCD halts without recording an error. *)
ListCdRoms ==
  /\ In(CleanVM, "body")
  /\ \/ Goto("cdrom", 1, NoImage) /\ UNCHANGED bag
     \/ CdRomFailure
  /\ UNCHANGED <<marks, images, prism, env, tried, outcome>>

(* The CD-ROMs of the list CleanCD has not come to yet.  One without an    *)
(* ExtId is skipped, and CleanCD still returns nil.                        *)
Ahead == {k \in cdroms : k >= i}

RemoveCdRom ==
  /\ In(CleanVM, "cdrom")
  /\ \/ /\ Ahead = {}
        /\ Continue({})
        /\ UNCHANGED cdroms
     \/ \E k \in Ahead :
          /\ \A l \in Ahead : k <= l
          /\ \/ /\ k \in nameless
                /\ Goto("cdrom", k + 1, NoImage)
                /\ UNCHANGED <<bag, cdroms>>
             \/ /\ k \notin nameless
                /\ \/ cdroms' = cdroms \ {k} /\ Goto("cdrom", k + 1, NoImage) /\ UNCHANGED bag
                   \/ cdroms' \in {cdroms, cdroms \ {k}} /\ CdRomFailure
  /\ UNCHANGED <<marks, images, vm, lib, outputs, env, tried, outcome>>

-----------------------------------------------------------------------------
(* What the build produces.                                                *)

\* stepCreateImage.Run looks for the disks; GetVM's error is dropped.
ListDisks ==
  /\ In(CreateImage, "body")
  /\ \/ Crash
     \/ ScsiDisks = {} /\ Halt({"error"})
     \/ ScsiDisks # {} /\ Goto("save", 1, NoImage) /\ UNCHANGED bag
  /\ UNCHANGED <<marks, images, prism, env, tried, outcome>>

Replaces_Default(c) == c.existing # "fail"
Replaces(c) == c.existing = "replace"

(* SaveVMDisk number i.  The image of that name is deleted before the new  *)
(* one is created.                                                         *)
SaveDisk ==
  /\ In(CreateImage, "save") /\ i <= Cardinality(ScsiDisks)
  /\ LET old  == <<"old", i>>
         out  == <<"out", i>>
         rest == IF Replaces(cfg) THEN lib \ {old} ELSE lib
     IN \/ /\ ~(cfg.existing = "fail" /\ old \in lib)
           /\ \/ /\ lib' = rest \cup {out}
                 /\ images' = Append(images, out)
                 /\ Goto("save", i + 1, NoImage)
                 /\ UNCHANGED bag
              \/ /\ lib' \in {lib, rest, rest \cup {out}}
                 /\ Halt({"error"})
                 /\ UNCHANGED images
        \/ /\ cfg.existing = "fail" /\ old \in lib
           /\ Halt({"error"})
           /\ UNCHANGED <<lib, images>>
  /\ UNCHANGED <<marks, vm, cdroms, outputs, env, tried, outcome>>

\* All the disks are saved: only now do the others learn of the images.
PutImages ==
  /\ In(CreateImage, "save") /\ i > Cardinality(ScsiDisks)
  /\ Continue({"image_uuid"})
  /\ UNCHANGED <<marks, images, prism, env, tried, outcome>>

(* stepExportImage, stepCreateTemplate, StepCreateOVA and StepExportOVA:   *)
(* one output each.  A failure may come after the effect.                  *)
Output == [s \in {ExportImage, CreateTemplate, CreateOVA, ExportOVA} |->
             CASE s \in {ExportImage, ExportOVA} -> "file"
               [] s = CreateTemplate -> "template"
               [] s = CreateOVA -> "ova"]

Produce ==
  /\ \E s \in DOMAIN Output :
        /\ In(s, "body")
        /\ \/ outputs' = outputs \cup {Output[s]} /\ Continue({})
           \/ outputs' \in {outputs, outputs \cup {Output[s]}} /\ Halt({"error"})
  /\ UNCHANGED <<marks, images, vm, cdroms, lib, env, tried, outcome>>

\* The select of stepExportImage on the signals it asked for.
ExportSignalled ==
  /\ MayInterrupt
  /\ In(ExportImage, "body")
  /\ signalled' = TRUE
  /\ outputs' \in {outputs, outputs \cup {"file"}}
  /\ Halt({})
  /\ UNCHANGED <<marks, images, vm, cdroms, lib, cfg, nameless, ctxDone, tried, outcome>>

-----------------------------------------------------------------------------
(* The cleanups that have something to undo.                               *)

\* DeleteImage of x, whose failure is logged at most.
Discard(x) ==
  /\ tried' = tried \cup {x}
  /\ lib' \in {lib, lib \ {x}}

DeletesOutputs_Always(c) == TRUE
DeletesOutputs(c) == c.imageDelete

\* stepCreateImage.Cleanup; it gives up at the first image it cannot delete.
CleanupImages ==
  /\ Cleaning(CreateImage, "body")
  /\ IF DeletesOutputs(cfg) /\ "image_uuid" \in bag
     THEN Goto("deleteOut", 1, NoImage)
     ELSE CleanupDone
  /\ UNCHANGED <<bag, marks, images, prism, env, tried, outcome>>

FailedDelete_Retried == Goto("deleteOut", i, NoImage)
FailedDelete == CleanupDone

DeleteOutput ==
  /\ Cleaning(CreateImage, "deleteOut")
  /\ \/ i \in DOMAIN images /\ Discard(images[i]) /\ Goto("deleteOut", i + 1, NoImage)
     \/ i \in DOMAIN images /\ Discard(images[i]) /\ FailedDelete
     \/ i \notin DOMAIN images /\ CleanupDone /\ UNCHANGED <<lib, tried>>
  /\ UNCHANGED <<bag, marks, images, vm, cdroms, outputs, env, outcome>>

\* stepBuildVM.Cleanup returns at once when no VM was reported.
CleanupVM ==
  /\ Cleaning(BuildVM, "body")
  /\ IF "vm_uuid" \in bag
     THEN /\ Goto("deleteMarked", 1, NoImage)
          /\ IF "cd_uuid" \in bag THEN Discard(CDImage) ELSE UNCHANGED <<lib, tried>>
     ELSE /\ CleanupDone
          /\ UNCHANGED <<lib, tried>>
  /\ UNCHANGED <<bag, marks, images, vm, cdroms, outputs, env, outcome>>

DeleteMarked ==
  /\ Cleaning(BuildVM, "deleteMarked") /\ i \in DOMAIN marks
  /\ Discard(marks[i])
  /\ Goto("deleteMarked", i + 1, NoImage)
  /\ UNCHANGED <<bag, marks, images, vm, cdroms, outputs, env, outcome>>

(* "cancelled || halted && !VmForceDelete" keeps the VM; then what         *)
(* "VmForceDelete && cancelled || halted" does not force, VmRetain decides.*)
Keeps_ForcedOnly(b, c) == "cancelled" \in b /\ ~c.forceDelete
Keeps(b, c) == "cancelled" \in b \/ ("halted" \in b /\ ~c.forceDelete)

Forces(b, c) == (c.forceDelete /\ "cancelled" \in b) \/ "halted" \in b

DeletesVM_Unforced(b, c) == ~Keeps(b, c) /\ Forces(b, c)
DeletesVM(b, c) == ~Keeps(b, c) /\ (Forces(b, c) \/ ~c.retain)

DecideVM ==
  /\ Cleaning(BuildVM, "deleteMarked") /\ i \notin DOMAIN marks
  /\ IF DeletesVM(bag, cfg) THEN Goto("deleteVM", 1, NoImage) ELSE CleanupDone
  /\ UNCHANGED <<bag, marks, images, prism, env, tried, outcome>>

DeleteVM ==
  /\ Cleaning(BuildVM, "deleteVM")
  /\ vm' \in {"deleted", "delete_failed"}
  /\ CleanupDone
  /\ UNCHANGED <<bag, marks, images, cdroms, lib, outputs, env, tried, outcome>>

-----------------------------------------------------------------------------
(* The environment.                                                        *)

Interrupt ==
  /\ MayInterrupt /\ ~ctxDone /\ mode # "over"
  /\ ctxDone' = TRUE
  /\ UNCHANGED <<cfg, nameless, signalled, runner, bag, marks, images, local, prism, tried,
                 outcome>>

\* The shutdown command took effect, or somebody stopped the VM.
GuestPowersOff ==
  /\ vm = "on" /\ mode # "over"
  /\ vm' = "off"
  /\ UNCHANGED <<env, runner, bag, marks, images, local, cdroms, lib, outputs, tried, outcome>>

-----------------------------------------------------------------------------
Runner == StartStep \/ StopLoop \/ StartCleanup \/ EmptyCleanup \/ BuilderReturns

BuildVMRun ==
  \/ UploadCD \/ UploadDisk \/ StartRequest \/ ReuseImage \/ DownloadImage
  \/ SkipDownload \/ BindDisk \/ FinishRequest \/ CreateVM \/ PowerOn

GuestSteps ==
  \/ ConnectVNC \/ TypeBootCommand \/ ObtainIp \/ ConnectGuest \/ RunProvisioners
  \/ StopVM \/ PollPowerState

CaptureSteps ==
  \/ ListCdRoms \/ RemoveCdRom \/ ListDisks \/ SaveDisk \/ PutImages \/ Produce

Cleanups == CleanupImages \/ DeleteOutput \/ CleanupVM \/ DeleteMarked \/ DecideVM \/ DeleteVM

Plugin == Runner \/ MakeCD \/ BuildVMRun \/ GuestSteps \/ CaptureSteps \/ Cleanups

Environment ==
  \/ MarkCancelled \/ ExportSignalled \/ PollWithoutAnswer
  \/ Interrupt \/ GuestPowersOff

Next == Plugin \/ Environment

Spec == Init /\ [][Next]_vars

(* The waits that nothing of the plugin bounds.  A script of the user, a   *)
(* shutdown command and the download of an image or an OVA last as long as *)
(* they do (the v3 request has no timeout, its body is copied to the end), *)
(* unless the context of the build is cancelled; the VNC connection has no *)
(* deadline and does not look at the context either.                       *)
Unbounded ==
  \/ /\ ~ctxDone
     /\ \/ \E s \in {Provision, ExportImage, ExportOVA} : In(s, "body")
        \/ In(Shutdown, "body") /\ cfg.stop = "command"
  \/ cfg.boot /\ \E s \in {VNCConnect, VNCBootCommand} : In(s, "body")

Prompt == ~Unbounded /\ Plugin

(* The premise: every other call of the plugin returns.  Those that wait   *)
(* for a task of Prism Central rest on the task ending, the uploads on the *)
(* read timeout of their client, the waits for an address, for SSH and for *)
(* the power state on their timers.  Nothing obliges the guest, the user,  *)
(* a script, a download or the network that makes a poll fail.             *)
FairSpec == Spec /\ WF_vars(Prompt)

-----------------------------------------------------------------------------
(* Safety properties.                                                      *)

(* No step runs before the keys it reads with an unchecked type assertion  *)
(* are in the bag (stepBuildVM to StepExportOVA, and stepBuildVM.Cleanup,  *)
(* which asserts the type of "image_to_delete" once it has seen "vm_uuid"; *)
(* StepConnect would otherwise connect to the machine the build runs on).  *)
BagReadsDefined ==
  /\ mode = "run" => Needs(at, cfg) \subseteq bag
  /\ "vm_uuid" \in bag => "image_to_delete" \in bag

(* The keys a step has put in the bag when it lets the build go on.        *)
Gives(s) ==
  {k \in BagKey :
     \/ k = "vm_uuid"      /\ s = BuildVM
     \/ k = "vnc_conn"     /\ s = VNCConnect /\ cfg.boot
     \/ k = "ip"           /\ s = WaitForIp
     \/ k = "communicator" /\ s = Connect
     \/ k = "image_uuid"   /\ s = CreateImage}

\* From here on stepBuildVM may report the VM.
Requested == {"createVM", "powerOn"}

RequestKnown ==
  /\ mode = "run" /\ pc \in Requested => "image_to_delete" \in bag
  /\ mode = "next" => pc = "body"
  /\ "vm_uuid" \in bag => "image_to_delete" \in bag

Done(s) == mode \in {"next", "run"} /\ (s < at \/ (s = at /\ mode = "next"))

StepsGave == \A s \in Listed(cfg) : Done(s) => Gives(s) \subseteq bag

(* Why BagReadsDefined holds: every step that let the build go on has left *)
(* its keys in the bag, nothing takes them out, and "image_to_delete" is   *)
(* there from before the VM is created.  This is the inductive invariant   *)
(* of module BuildProofs.                                                  *)
BagInv ==
  /\ TypeOK
  /\ RequestKnown
  /\ StepsGave
  /\ mode \in {"next", "run"} => at \in Listed(cfg) \cup {0}
  /\ mode = "run" => at # 0

(* Every step after StepShutdown works on a VM that is powered off, as     *)
(* DeleteCdRom requires and as a consistent copy of the disks needs.       *)
CaptureOnlyPoweredOff ==
  mode \in {"next", "run"} /\ at > Shutdown => vm = "off"

(* With "cdrom" set, the only CD-ROMs of a VM an image, template or OVA is *)
(* made of are those CleanCD had no identifier for and skipped: a removal  *)
(* that failed, with or without its effect, has ended the build before.    *)
CapturedWithoutCdRoms ==
  mode = "run" /\ at > CleanVM /\ cfg.cleanCD => cdroms \subseteq nameless

(* A build that recorded an error keeps its VM unless vm_force_delete.     *)
FailedVMKept ==
  "error" \in bag /\ vm \in {"deleted", "delete_failed"} => cfg.forceDelete

(* A build that ran to its end does not leave its VM behind, unless        *)
(* vm_retain asked for it.                                                 *)
NoVMLeftBehind ==
  mode = "over" /\ ~panicking /\ {"error", "halted", "cancelled"} \cap bag = {} /\ ~cfg.retain
    => vm \in {"deleted", "delete_failed"}

(* The artifact Builder.Run returns names images that are all there, one   *)
(* for each disk of the VM, unless image_delete asked to drop them.        *)
ArtifactExists ==
  outcome = "artifact" /\ ~cfg.imageDelete =>
    /\ Len(images) = Cardinality(ScsiDisks) /\ images # <<>>
    /\ \A n \in DOMAIN images : images[n] \in lib

(* Once the VM was reported, every image the build put in the library for  *)
(* a disk with source_image_delete, and the image of the temporary CD, is  *)
(* given to DeleteImage before the build is over, however it ends.         *)
(* A disk with both a path and an URI, which Config.Prepare accepts, is    *)
(* left out, for CreateRequest forgets the image it uploaded for the       *)
(* first, and so is one that is not of an image, whose sources it ignores. *)
Borrowed ==
  {x \in {<<o, k>> : o \in {"path", "uri"}, k \in DOMAIN cfg.disks} :
      /\ cfg.disks[x[2]].del /\ FromImage(cfg.disks[x[2]])
      /\ ~(cfg.disks[x[2]].path /\ cfg.disks[x[2]].uri)}

BorrowedImagesDeleted ==
  mode = "over" /\ "vm_uuid" \in bag =>
    (Borrowed \cup {CDImage}) \cap lib \subseteq tried

(* An image leaves the library only if the build made it to be temporary   *)
(* or an option of the configuration names it.                             *)
MayDelete(x) ==
  \/ x = CDImage
  \/ x[1] = "out"  /\ cfg.imageDelete
  \/ x[1] = "old"  /\ cfg.existing = "replace"
  \/ x[1] \in {"path", "uri"} /\ cfg.disks[x[2]].del
  \/ x[1] = "user" /\ (cfg.disks[x[2]].del \/ cfg.disks[x[2]].force)

OnlyNamedImagesDeleted == [][\A x \in lib \ lib' : MayDelete(x)]_vars

(* A step that stops the build says why: with an error in the bag, or      *)
(* because the user asked for it.  Builder.Run has nothing else to tell    *)
(* Packer that the build failed.  (stepCleanVM does not: see               *)
(* CleanFailureReported.)                                                  *)
HaltsAreExplained ==
  "halted" \in bag /\ ~cfg.cleanCD => "error" \in bag \/ ctxDone \/ signalled

-----------------------------------------------------------------------------
(* The build behaves as a run of the SDK's runner over the listed steps:   *)
(* in order, one at a time, every deferred cleanup once, last in first out.*)
Steps == INSTANCE StepRunner WITH LastStep <- 14, list <- Listed(cfg)

ImplementsStepRunner == Steps!Spec

(* What is left to be done, down to what is done first: the steps and      *)
(* cleanups of the runner, the locations of the executing step in the      *)
(* order of its code, the turns of its loop, and what the user and the     *)
(* guest may still do to it.                                               *)
LeftUpTo(n) == IF i <= n THEN n + 1 - i ELSE 0

Phase ==
  CASE pc = "body" -> 4
    [] pc = "uploadDisk" -> 3
    [] pc \in {"requestDisk", "bindDisk"} -> 2
    [] pc \in {"createVM", "poll", "cdrom", "save", "deleteMarked", "deleteOut"} -> 1
    [] pc \in {"powerOn", "deleteVM"} -> 0

Turns ==
  CASE pc = "uploadDisk"   -> LeftUpTo(Len(Disks))
    [] pc = "requestDisk"  -> 2 * LeftUpTo(Len(Disks)) + 1
    [] pc = "bindDisk"     -> 2 * LeftUpTo(Len(Disks))
    [] pc = "cdrom"        -> Cardinality(Ahead)
    [] pc = "save"         -> LeftUpTo(Cardinality(ScsiDisks))
    [] pc = "deleteOut"    -> LeftUpTo(Len(images))
    [] pc = "deleteMarked" -> LeftUpTo(Len(marks))
    [] OTHER -> 0

Surprises ==
  (IF ctxDone THEN 0 ELSE 1) + (IF "cancelled" \in bag THEN 0 ELSE 1)
    + (IF vm = "on" THEN 1 ELSE 0)

Measure == <<Steps!Rank, Phase, Turns, Surprises>>

(* A build never loops: whatever the calls of the driver answer, every     *)
(* step of the plugin or of those around it brings it nearer to its end.   *)
(* The loops over the disks, the CD-ROMs and the images to delete each     *)
(* take one turn for each of them, and a call that failed is not tried     *)
(* again.                                                                  *)
Descends ==
  \E k \in DOMAIN Measure :
    Measure'[k] < Measure[k] /\ \A j \in 1 .. k - 1 : Measure'[j] = Measure[j]

NeverLoops == [][Descends]_vars

(* Builder.Run returns, whatever the driver's calls answer and even if the *)
(* guest never powers off, unless the build hangs for ever in one wait of  *)
(* those that have no bound.                                               *)
Termination == <>(mode = "over") \/ <>[]Unbounded

=============================================================================
