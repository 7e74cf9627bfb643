---------------------------- MODULE BuildProofs ----------------------------
(***************************************************************************)
(* Proofs about module Build, for every set of configurations.             *)
(***************************************************************************)
EXTENDS Build, TLAPS

USE DEF runner, local, prism, env

(* What the proofs need of a prepared configuration.                       *)
LEMMA PreparedConfig ==
  ASSUME cfg \in {Prepare(c) : c \in Configs}
  PROVE  /\ cfg.disks \in Seq(Disk)
         /\ cfg.imageExport => ~cfg.imageSkip
         /\ cfg.stop \in {"poweroff", "command", "manual"}
<1>1. PICK c \in Configs : cfg = Prepare(c)
  OBVIOUS
<1>2. c \in Config
  BY <1>1, ConfigsAssumption
<1>3. cfg.disks = c.disks
  BY <1>1, <1>2 DEF Prepare, Config
<1>4. cfg.imageSkip = (c.imageSkip /\ ~c.imageExport)
  BY <1>1, <1>2 DEF Prepare, Config
<1>5. cfg.imageExport = c.imageExport /\ cfg.stop = c.stop
  BY <1>1, <1>2 DEF Prepare, Config
<1> QED
  BY <1>2, <1>3, <1>4, <1>5 DEF Config

(* The disks of the VM are numbered, so CD-ROMs are sets of numbers.       *)
LEMMA CdRomsAreNumbers ==
  ASSUME TypeOK
  PROVE  CdRomDisks \in SUBSET (Nat \ {0})
<1>1. cfg.disks \in Seq(Disk)
  BY PreparedConfig DEF TypeOK
<1>2. CDDisk \in Disk
  BY DEF CDDisk, Disk
<1>3. Disks \in Seq(Disk)
  BY <1>1, <1>2 DEF Disks
<1> QED
  BY <1>3 DEF CdRomDisks

-----------------------------------------------------------------------------
(* The shape of a step.  Every action of a step's Run goes on inside the   *)
(* step, returns or panics; every action of a Cleanup goes on or returns;  *)
(* the others leave the step alone.  What the theorems need to know of the *)
(* forty actions is what these shapes say; the rest of the proofs is about *)
(* the shapes.                                                             *)

\* The keys that say how the run went.
Verdict == {"error", "halted", "cancelled"}

GoesOn ==
  \E l \in Location, n \in Nat, x \in ImageId :
     /\ Goto(l, n, x)
     /\ bag \subseteq bag' /\ bag' \in SUBSET BagKey
     /\ bag' \subseteq bag \cup {"cd_uuid", "image_to_delete"}
     /\ "vm_uuid" \in bag' => "vm_uuid" \in bag
     /\ l \in Requested => "image_to_delete" \in bag'

Completes ==
  \E keys \in SUBSET BagKey :
     /\ Continue(keys)
     /\ Gives(at) \subseteq keys
     /\ "vm_uuid" \in keys => "image_to_delete" \in bag
     /\ at = Shutdown => vm' = "off"
     /\ at = CleanVM => pc = "cdrom" /\ Ahead = {} /\ cdroms' = cdroms
     /\ keys \cap Verdict = {}

Halts ==
  \E keys \in SUBSET BagKey :
     /\ Halt(keys)
     /\ keys \subseteq {"error", "image_to_delete"}
     /\ "error" \in keys \/ ctxDone \/ signalled' \/ at = CleanVM

RunShape ==
  /\ mode = "run" /\ at \in Step
  /\ at > Shutdown => vm' = vm
  /\ vm' \in {vm, "off", "on"}
  /\ at > CleanVM => cdroms' = cdroms
  /\ cfg' = cfg
  /\ GoesOn \/ Completes \/ Halts \/ Crash

CleanupShape ==
  /\ mode = "cleanup" /\ bag' = bag /\ cfg' = cfg
  /\ \/ /\ CleanupDone /\ vm' = vm
        /\ at = BuildVM => "vm_uuid" \notin bag \/ ~DeletesVM(bag, cfg)
     \/ CleanupDone /\ pc = "deleteVM" /\ vm' \in {"deleted", "delete_failed"}
     \/ \E l \in Location, n \in Nat, x \in ImageId :
          Goto(l, n, x) /\ vm' = vm /\ (l = "deleteVM" => DeletesVM(bag, cfg))

OutsideShape ==
  /\ UNCHANGED <<cfg, runner, local>>
  /\ bag \subseteq bag' /\ bag' \in SUBSET BagKey
  /\ "vm_uuid" \in bag' => "vm_uuid" \in bag
  /\ bag' \subseteq bag \cup {"cancelled"}
  /\ vm' = vm \/ (vm = "on" /\ vm' = "off")
  /\ cdroms' = cdroms

LEMMA StepNumbers ==
  /\ {CreateCD, BuildVM, VNCConnect, VNCBootCommand, WaitForIp, Connect, Provision,
      Shutdown, CleanVM, CreateImage, ExportImage, CreateTemplate, CreateOVA,
      ExportOVA} \subseteq Step
  /\ Step \subseteq Nat
  BY DEF Step, CreateCD, BuildVM, VNCConnect, VNCBootCommand, WaitForIp, Connect, Provision,
         Shutdown, CleanVM, CreateImage, ExportImage, CreateTemplate, CreateOVA, ExportOVA

LEMMA NoImageIsImageId == NoImage \in ImageId
  BY DEF NoImage, ImageId, Origin

LEMMA BuildVMShapes ==
  ASSUME TypeOK, BuildVMRun, 
         mode = "run" /\ pc \in Requested => "image_to_delete" \in bag
  PROVE  RunShape
<1> USE StepNumbers, NoImageIsImageId DEF RunShape, In, TypeOK, Verdict
<1>0. /\ at = BuildVM /\ mode = "run" /\ cfg' = cfg /\ vm' \in {vm, "off", "on"}
      /\ ~(at > Shutdown) /\ ~(at > CleanVM) /\ at # CleanVM
  BY DEF BuildVMRun, UploadCD, UploadDisk, StartRequest, ReuseImage, DownloadImage, SkipDownload,
         BindDisk, FinishRequest, CreateVM, PowerOn, BuildVM, Shutdown, CleanVM
<1>1. CASE UploadCD
  BY <1>0, <1>1 DEF UploadCD, GoesOn, Halts, Location, Requested, BagKey
<1>2. CASE UploadDisk
  <2>1. CASE Goto("uploadDisk", i + 1, NoImage) /\ bag' = bag
    <3>1. "uploadDisk" \in Location \ Requested /\ i + 1 \in Nat
      BY DEF Location, Requested
    <3>2. GoesOn
      BY <2>1, <3>1 DEF GoesOn
    <3> QED
      BY <1>0, <3>2
  <2>2. CASE Halt({"error"})
    BY <1>0, <2>2 DEF Halts, BagKey
  <2> QED
    BY <1>2, <2>1, <2>2 DEF UploadDisk
<1>3. CASE StartRequest
  BY <1>0, <1>3 DEF StartRequest, GoesOn, Halts, Location, Requested, BagKey
<1>4. CASE ReuseImage
  BY <1>0, <1>4 DEF ReuseImage, GoesOn, Halts, Location, Requested, BagKey, ImageId, Origin
<1>5. CASE DownloadImage
  BY <1>0, <1>5 DEF DownloadImage, GoesOn, Halts, Location, Requested, BagKey, ImageId, Origin
<1>6. CASE SkipDownload
  <2> DEFINE x == IF Disks[i].path THEN <<"path", i>> ELSE NoImage
  <2>1. x \in ImageId /\ i + 1 \in Nat /\ i \in Nat
    BY DEF ImageId, Origin
  <2>2. bag' = bag
    BY <1>6 DEF SkipDownload
  <2>3. Goto("requestDisk", i + 1, NoImage) \/ Goto("bindDisk", i, x)
    BY <1>6 DEF SkipDownload
  <2>4. {"requestDisk", "bindDisk"} \subseteq Location \ Requested
    BY DEF Location, Requested
  <2> HIDE DEF x
  <2>5. GoesOn
    BY <2>1, <2>2, <2>3, <2>4 DEF GoesOn
  <2> QED
    BY <1>0, <2>5, StepNumbers
<1>7. CASE BindDisk
  <2>1. CASE Goto("requestDisk", i + 1, NoImage) /\ bag' = bag
    <3>1. "requestDisk" \in Location \ Requested /\ i + 1 \in Nat
      BY DEF Location, Requested
    <3>2. GoesOn
      BY <2>1, <3>1 DEF GoesOn
    <3> QED
      BY <1>0, <3>2
  <2>2. CASE Halt({"error"})
    BY <1>0, <2>2 DEF Halts, BagKey
  <2>3. CASE Crash
    BY <1>0, <2>3
  <2> QED
    BY <1>7, <2>1, <2>2, <2>3 DEF BindDisk
<1>8. CASE FinishRequest
  <2>1. CASE bag' = bag \cup {"image_to_delete"} /\ Goto("createVM", 1, NoImage)
    <3>1. "createVM" \in Location /\ "image_to_delete" \in BagKey
      BY DEF Location, BagKey
    <3>2. GoesOn
      BY <2>1, <3>1 DEF GoesOn
    <3> QED
      BY <1>0, <3>2
  <2>2. CASE Halt({"image_to_delete", "error"})
    <3>1. Halts
      BY <2>2 DEF Halts, BagKey
    <3> QED
      BY <1>0, <3>1
  <2> QED
    BY <1>8, <2>1, <2>2 DEF FinishRequest, FinishPuts
<1>9. CASE CreateVM
  BY <1>0, <1>9 DEF CreateVM, GoesOn, Halts, Location, Requested, BagKey
<1>10. CASE PowerOn
  BY <1>0, <1>10 DEF PowerOn, PowerOnPuts, Completes, Halts, Gives, Requested, BagKey,
         BuildVM, VNCConnect, WaitForIp, Connect, CreateImage, Shutdown, CleanVM
<1> QED
  BY <1>1, <1>2, <1>3, <1>4, <1>5, <1>6, <1>7, <1>8, <1>9, <1>10 DEF BuildVMRun

LEMMA GuestShapes ==
  ASSUME TypeOK, MakeCD \/ GuestSteps \/ PollWithoutAnswer
  PROVE  RunShape
<1> USE StepNumbers, NoImageIsImageId DEF RunShape, In, TypeOK, Verdict
<1>1. CASE MakeCD
  BY <1>1 DEF MakeCD, Completes, Halts, Gives, BagKey, CreateCD,
         VNCConnect, WaitForIp, Connect, CreateImage, BuildVM, Shutdown, CleanVM
<1>2. CASE ConnectVNC
  BY <1>2 DEF ConnectVNC, Completes, Halts, Gives, BagKey,
         VNCConnect, WaitForIp, Connect, CreateImage, BuildVM, Shutdown, CleanVM
<1>3. CASE TypeBootCommand
  BY <1>3 DEF TypeBootCommand, Completes, Halts, Gives, BagKey, VNCBootCommand,
         VNCConnect, WaitForIp, Connect, CreateImage, BuildVM, Shutdown, CleanVM
<1>4. CASE ObtainIp
  BY <1>4 DEF ObtainIp, Completes, Halts, Gives, BagKey,
         VNCConnect, WaitForIp, Connect, CreateImage, BuildVM, Shutdown, CleanVM
<1>5. CASE ConnectGuest
  BY <1>5 DEF ConnectGuest, Completes, Halts, Gives, BagKey,
         VNCConnect, WaitForIp, Connect, CreateImage, BuildVM, Shutdown, CleanVM
<1>6. CASE RunProvisioners
  BY <1>6 DEF RunProvisioners, Completes, Halts, Gives, BagKey, Provision,
         VNCConnect, WaitForIp, Connect, CreateImage, BuildVM, Shutdown, CleanVM
<1>7. CASE StopVM
  <2>1. /\ at = Shutdown /\ mode = "run" /\ cfg' = cfg
        /\ vm' \in {vm, "off"} /\ cdroms' = cdroms
    BY <1>7 DEF StopVM
  <2>2. CASE Goto("poll", 1, NoImage) /\ bag' = bag
    BY <2>1, <2>2 DEF GoesOn, Location, Requested, Shutdown
  <2>3. CASE Halt(StopFailure)
    BY <2>1, <2>3 DEF StopFailure, Halts, BagKey, Shutdown
  <2> QED
    BY <1>7, <2>2, <2>3 DEF StopVM
<1>8. CASE PollPowerState
  <2>1. at = Shutdown /\ mode = "run" /\ cfg' = cfg /\ vm' = vm /\ cdroms' = cdroms
    BY <1>8 DEF PollPowerState
  <2>2. CASE SeenOff /\ Continue({})
    BY <2>1, <2>2 DEF SeenOff, Completes, Gives, BagKey,
         VNCConnect, WaitForIp, Connect, CreateImage, BuildVM, Shutdown, CleanVM
  <2>3. CASE Halt({"error"})
    BY <2>1, <2>3 DEF Halts, BagKey
  <2> QED
    BY <1>8, <2>2, <2>3 DEF PollPowerState
<1>9. CASE PollWithoutAnswer
  BY <1>9 DEF PollWithoutAnswer
<1> QED
  BY <1>1, <1>2, <1>3, <1>4, <1>5, <1>6, <1>7, <1>8, <1>9 DEF GuestSteps

LEMMA CaptureShapes ==
  ASSUME TypeOK, CaptureSteps \/ ExportSignalled
  PROVE  RunShape
<1> USE StepNumbers, NoImageIsImageId DEF RunShape, In, TypeOK, Verdict
<1>1. CASE ListCdRoms
  <2>1. at = CleanVM /\ mode = "run" /\ cfg' = cfg /\ vm' = vm /\ ~(at > CleanVM)
    BY <1>1 DEF ListCdRoms, CleanVM
  <2>2. CASE Goto("cdrom", 1, NoImage) /\ bag' = bag
    BY <2>1, <2>2 DEF GoesOn, Location, Requested
  <2>3. CASE Halt({})
    BY <2>1, <2>3 DEF Halts
  <2> QED
    BY <1>1, <2>2, <2>3 DEF ListCdRoms, CdRomFailure
<1>2. CASE RemoveCdRom
  <2>1. at = CleanVM /\ mode = "run" /\ cfg' = cfg /\ vm' = vm /\ ~(at > CleanVM)
    BY <1>2 DEF RemoveCdRom, CleanVM
  <2>2. ASSUME NEW k \in Nat, Goto("cdrom", k + 1, NoImage), bag' = bag PROVE RunShape
    <3>1. "cdrom" \in Location \ Requested /\ k + 1 \in Nat
      BY DEF Location, Requested
    <3>2. GoesOn
      BY <2>2, <3>1 DEF GoesOn
    <3> QED
      BY <2>1, <3>2
  <2>3. CASE Halt({})
    BY <2>1, <2>3 DEF Halts
  <2>4. CASE pc = "cdrom" /\ Ahead = {} /\ cdroms' = cdroms /\ Continue({})
    BY <2>1, <2>4 DEF Completes, Gives, BagKey,
         VNCConnect, WaitForIp, Connect, CreateImage, BuildVM, Shutdown, CleanVM
  <2> QED
    BY <1>2, <2>2, <2>3, <2>4 DEF RemoveCdRom, CdRomFailure, Ahead
<1>3. CASE ListDisks
  <2>1. at = CreateImage /\ mode = "run" /\ cfg' = cfg /\ vm' = vm /\ cdroms' = cdroms
    BY <1>3 DEF ListDisks
  <2>2. CASE Goto("save", 1, NoImage) /\ bag' = bag
    BY <2>1, <2>2 DEF GoesOn, Location, Requested
  <2>3. CASE Halt({"error"})
    BY <2>1, <2>3 DEF Halts, BagKey
  <2>4. CASE Crash
    BY <2>1, <2>4
  <2> QED
    BY <1>3, <2>2, <2>3, <2>4 DEF ListDisks
<1>4. CASE SaveDisk
  <2>1. at = CreateImage /\ mode = "run" /\ cfg' = cfg /\ vm' = vm /\ cdroms' = cdroms
    BY <1>4 DEF SaveDisk
  <2>2. CASE Goto("save", i + 1, NoImage) /\ bag' = bag
    <3>1. i + 1 \in Nat /\ "save" \in Location \ Requested
      BY DEF Location, Requested
    <3>2. GoesOn
      BY <2>2, <3>1 DEF GoesOn
    <3> QED
      BY <2>1, <3>2
  <2>3. CASE Halt({"error"})
    BY <2>1, <2>3 DEF Halts, BagKey
  <2> QED
    BY <1>4, <2>2, <2>3 DEF SaveDisk
<1>5. CASE PutImages
  BY <1>5 DEF PutImages, Completes, Gives, BagKey,
         VNCConnect, WaitForIp, Connect, CreateImage, BuildVM, Shutdown, CleanVM
<1>6. CASE Produce
  <2>1. at \in {ExportImage, CreateTemplate, CreateOVA, ExportOVA}
        /\ mode = "run" /\ cfg' = cfg /\ vm' = vm /\ cdroms' = cdroms
    BY <1>6 DEF Produce, Output
  <2>2. CASE Halt({"error"})
    BY <2>1, <2>2 DEF Halts, BagKey
  <2>3. CASE Continue({})
    BY <2>1, <2>3 DEF Completes, Gives, BagKey, ExportImage, CreateTemplate, CreateOVA,
         ExportOVA, VNCConnect, WaitForIp, Connect, CreateImage, BuildVM, Shutdown, CleanVM
  <2> QED
    BY <1>6, <2>2, <2>3 DEF Produce
<1>7. CASE ExportSignalled
  BY <1>7 DEF ExportSignalled, Halts
<1> QED
  BY <1>1, <1>2, <1>3, <1>4, <1>5, <1>6, <1>7 DEF CaptureSteps

LEMMA CleanupShapes ==
  ASSUME TypeOK, Cleanups \/ EmptyCleanup
  PROVE  CleanupShape
<1> USE NoImageIsImageId DEF CleanupShape, Cleaning, TypeOK
<1>0. {"deleteOut", "deleteMarked", "deleteVM"} \subseteq Location /\ i + 1 \in Nat
  BY DEF Location
<1>1. CASE CleanupImages
  BY <1>0, <1>1 DEF CleanupImages, CreateImage, BuildVM
<1>2. CASE DeleteOutput
  BY <1>0, <1>2 DEF DeleteOutput, FailedDelete, CreateImage, BuildVM
<1>3. CASE CleanupVM
  BY <1>0, <1>3 DEF CleanupVM
<1>4. CASE DeleteMarked
  BY <1>0, <1>4 DEF DeleteMarked
<1>5. CASE DecideVM
  BY <1>0, <1>5 DEF DecideVM
<1>6. CASE DeleteVM
  BY <1>6 DEF DeleteVM
<1>7. CASE EmptyCleanup
  BY <1>7 DEF EmptyCleanup
<1> QED
  BY <1>1, <1>2, <1>3, <1>4, <1>5, <1>6, <1>7 DEF Cleanups

LEMMA OutsideShapes ==
  ASSUME TypeOK, MarkCancelled \/ Interrupt \/ GuestPowersOff
  PROVE  OutsideShape
  BY DEF MarkCancelled, Interrupt, GuestPowersOff, OutsideShape, TypeOK, BagKey

\* What stepBuildVM has done before it can report the VM.
LEMMA NextShapes ==
  ASSUME TypeOK, RequestKnown, Next
  PROVE  \/ RunShape \/ CleanupShape \/ OutsideShape
         \/ StartStep \/ StopLoop \/ StartCleanup \/ BuilderReturns
<1>1. CASE BuildVMRun
  BY <1>1, BuildVMShapes DEF RequestKnown
<1>2. CASE MakeCD \/ GuestSteps \/ PollWithoutAnswer
  BY <1>2, GuestShapes
<1>3. CASE CaptureSteps \/ ExportSignalled
  BY <1>3, CaptureShapes
<1>4. CASE Cleanups \/ EmptyCleanup
  BY <1>4, CleanupShapes
<1>5. CASE MarkCancelled \/ Interrupt \/ GuestPowersOff
  BY <1>5, OutsideShapes
<1> QED
  BY <1>1, <1>2, <1>3, <1>4, <1>5 DEF Next, Plugin, Environment, Runner

-----------------------------------------------------------------------------
(* Type correctness: the runner, the locals and the bag from the shapes,   *)
(* the rest from the actions.                                              *)

ControlTypeOK ==
  /\ mode \in {"next", "run", "unwind", "cleanup", "over"}
  /\ at \in 0..14
  /\ deferred \in SUBSET Step
  /\ panicking \in BOOLEAN
  /\ bag \in SUBSET BagKey
  /\ pc \in Location /\ i \in Nat /\ img \in ImageId

LEMMA LeaveType ==
  ASSUME Leave PROVE pc' \in Location /\ i' \in Nat /\ img' \in ImageId
  BY NoImageIsImageId DEF Leave, Location

LEMMA ReturnType ==
  ASSUME TypeOK, at \in Step, NEW m \in {"next", "unwind"}, NEW keys \in SUBSET BagKey,
         Return(m, keys)
  PROVE  ControlTypeOK'
<1>1. pc' \in Location /\ i' \in Nat /\ img' \in ImageId
  BY LeaveType DEF Return
<1>2. mode' \in {"next", "run", "unwind", "cleanup", "over"} /\ bag' \in SUBSET BagKey
  BY DEF Return, TypeOK
<1>3. at' \in 0..14 /\ panicking' \in BOOLEAN /\ deferred' \in SUBSET Step
  BY DEF Return, TypeOK
<1> QED
  BY <1>1, <1>2, <1>3 DEF ControlTypeOK

LEMMA HaltIsReturn ==
  ASSUME NEW keys \in SUBSET BagKey, Halt(keys)
  PROVE  \E all \in SUBSET BagKey :
            Return("unwind", all) /\ all \subseteq keys \cup {"halted"}
  BY DEF Halt, BagKey

LEMMA ControlTypeNext ==
  ASSUME TypeOK, RequestKnown, Next
  PROVE  ControlTypeOK'
<1>1. CASE RunShape
  <2>1. CASE GoesOn
    BY <2>1 DEF GoesOn, Goto, TypeOK, ControlTypeOK
  <2>2. CASE Completes
    BY <1>1, <2>2, ReturnType DEF Completes, Continue, RunShape
  <2>3. CASE Halts
    BY <1>1, <2>3, ReturnType, HaltIsReturn DEF Halts, RunShape
  <2>4. CASE Crash
    <3>1. pc' \in Location /\ i' \in Nat /\ img' \in ImageId
      BY <2>4, LeaveType DEF Crash
    <3>2. panicking' \in BOOLEAN /\ mode' = "unwind" /\ UNCHANGED <<at, deferred, bag>>
      BY <2>4 DEF Crash
    <3> QED
      BY <3>1, <3>2 DEF TypeOK, ControlTypeOK
  <2> QED
    BY <1>1, <2>1, <2>2, <2>3, <2>4 DEF RunShape
<1>2. CASE CleanupShape
  <2>1. CASE CleanupDone
    <3>1. pc' \in Location /\ i' \in Nat /\ img' \in ImageId
      BY <2>1, LeaveType DEF CleanupDone
    <3> QED
      BY <1>2, <2>1, <3>1 DEF CleanupDone, CleanupShape, TypeOK, ControlTypeOK
  <2>2. ASSUME NEW l \in Location, NEW n \in Nat, NEW x \in ImageId, Goto(l, n, x)
        PROVE  ControlTypeOK'
    BY <1>2, <2>2 DEF Goto, CleanupShape, TypeOK, ControlTypeOK
  <2> QED
    BY <1>2, <2>1, <2>2 DEF CleanupShape
<1>3. CASE OutsideShape
  BY <1>3 DEF OutsideShape, TypeOK, ControlTypeOK
<1>4. CASE StartStep
  BY <1>4 DEF StartStep, Listed, Step, TypeOK, ControlTypeOK
<1>5. CASE StopLoop
  <2>1. bag' \in SUBSET BagKey
    <3>1. bag' = bag \/ bag' = bag \cup {"cancelled"}
      BY <1>5 DEF StopLoop
    <3>2. "cancelled" \in BagKey
      BY DEF BagKey
    <3> QED
      BY <3>1, <3>2 DEF TypeOK
  <2> QED
    BY <1>5, <2>1 DEF StopLoop, TypeOK, ControlTypeOK
<1>6. CASE StartCleanup
  BY <1>6 DEF StartCleanup, Latest, Step, TypeOK, ControlTypeOK
<1>7. CASE BuilderReturns
  BY <1>7 DEF BuilderReturns, TypeOK, ControlTypeOK
<1> QED
  BY <1>1, <1>2, <1>3, <1>4, <1>5, <1>6, <1>7, NextShapes

DataTypeOK ==
  /\ cfg \in {Prepare(c) : c \in Configs}
  /\ marks \in Seq(ImageId) /\ images \in Seq(ImageId)
  /\ ctxDone \in BOOLEAN /\ signalled \in BOOLEAN
  /\ vm \in VmState /\ cdroms \in SUBSET (Nat \ {0}) /\ nameless \in SUBSET Nat
  /\ lib \in SUBSET ImageId /\ tried \in SUBSET ImageId
  /\ outputs \in SUBSET {"file", "template", "ova"}
  /\ outcome \in {"none", "error", "artifact", "nil", "crash"}

Frame == UNCHANGED <<cfg, nameless, marks, images, ctxDone, signalled, prism, tried, outcome>>

LEMMA FrameType ==
  ASSUME TypeOK, Frame
  PROVE  DataTypeOK'
  BY DEF Frame, TypeOK, DataTypeOK

\* Most actions touch nothing but the runner, the locals and the bag.
LEMMA ControlActions ==
  ASSUME \/ StartStep \/ StopLoop \/ MarkCancelled \/ StartCleanup \/ EmptyCleanup
         \/ MakeCD \/ StartRequest \/ SkipDownload \/ FinishRequest
         \/ ConnectVNC \/ TypeBootCommand \/ ObtainIp \/ ConnectGuest \/ RunProvisioners
         \/ PollPowerState \/ PollWithoutAnswer \/ ListCdRoms \/ ListDisks \/ PutImages
         \/ CleanupImages \/ DecideVM
  PROVE  Frame
  BY DEF Frame, StartStep, StopLoop, MarkCancelled, StartCleanup, EmptyCleanup, MakeCD,
         StartRequest, SkipDownload, FinishRequest, ConnectVNC, TypeBootCommand, ObtainIp,
         ConnectGuest, RunProvisioners, PollPowerState, PollWithoutAnswer, ListCdRoms,
         ListDisks, PutImages, CleanupImages, DecideVM

LEMMA AppendType ==
  ASSUME NEW S, NEW q \in Seq(S), NEW x \in S
  PROVE  Append(q, x) \in Seq(S)
  OBVIOUS

LEMMA DataTypeNext ==
  ASSUME TypeOK, Next
  PROVE  DataTypeOK'
<1> USE DEF TypeOK, DataTypeOK
<1>0. /\ {<<o, i>> : o \in Origin} \subseteq ImageId
      /\ CDImage \in ImageId
      /\ {"cd", "path", "uri", "out", "user", "old"} = Origin
  BY DEF ImageId, Origin, CDImage
<1>1. CASE UploadCD
  BY <1>0, <1>1 DEF UploadCD
<1>2. CASE UploadDisk
  BY <1>0, <1>2 DEF UploadDisk
<1>3. CASE ReuseImage
  <2>1. <<"user", i>> \in ImageId
    BY <1>0
  <2>2. marks' = marks \/ marks' = Append(marks, <<"user", i>>)
    BY <1>3 DEF ReuseImage, Mark
  <2>3. UNCHANGED <<cfg, nameless, images, ctxDone, signalled, prism, tried, outcome>>
    BY <1>3 DEF ReuseImage
  <2>4. marks' \in Seq(ImageId)
    <3>1. marks \in Seq(ImageId)
      OBVIOUS
    <3> HIDE DEF TypeOK, DataTypeOK
    <3> QED
      BY <2>1, <2>2, <3>1, AppendType
  <2> QED
    BY <2>3, <2>4
<1>4. CASE DownloadImage
  <2>1. <<"uri", i>> \in ImageId
    BY <1>0
  <2>2. lib' \subseteq lib \cup {<<"uri", i>>}
    BY <1>4 DEF DownloadImage
  <2>3. marks' = marks \/ marks' = Append(marks, <<"uri", i>>)
    BY <1>4 DEF DownloadImage, Mark
  <2>4. UNCHANGED <<cfg, nameless, images, ctxDone, signalled, vm, cdroms, outputs, tried, outcome>>
    BY <1>4 DEF DownloadImage
  <2>5. lib' \in SUBSET ImageId
    BY <2>1, <2>2
  <2>6. marks' \in Seq(ImageId)
    <3>1. marks \in Seq(ImageId)
      OBVIOUS
    <3> HIDE DEF TypeOK, DataTypeOK
    <3> QED
      BY <2>1, <2>3, <3>1, AppendType
  <2>7. /\ cdroms' \in SUBSET (Nat \ {0}) /\ nameless' \in SUBSET Nat
        /\ cfg' \in {Prepare(c) : c \in Configs} /\ images' \in Seq(ImageId)
        /\ UNCHANGED <<ctxDone, signalled, vm, outputs, tried, outcome>>
    BY <2>4
  <2> QED
    BY <2>5, <2>6, <2>7
<1>5. CASE BindDisk
  <2>1. marks' = marks \/ marks' = Append(marks, img)
    BY <1>5 DEF BindDisk
  <2>2. UNCHANGED <<cfg, nameless, images, ctxDone, signalled, prism, tried, outcome>>
    BY <1>5 DEF BindDisk
  <2>3. marks' \in Seq(ImageId)
    BY <2>1
  <2> QED
    BY <2>2, <2>3
<1>6. CASE CreateVM
  BY <1>6, CdRomsAreNumbers DEF CreateVM, VmState
<1>7. CASE PowerOn
  BY <1>7 DEF PowerOn, VmState
<1>8. CASE StopVM
  BY <1>8 DEF StopVM, VmState
<1>9. CASE RemoveCdRom
  BY <1>9 DEF RemoveCdRom
<1>10. CASE SaveDisk
  <2>1. <<"out", i>> \in ImageId
    BY <1>0
  <2>2. lib' \subseteq lib \cup {<<"out", i>>}
    BY <1>10 DEF SaveDisk
  <2>3. images' = images \/ images' = Append(images, <<"out", i>>)
    BY <1>10 DEF SaveDisk
  <2>4. UNCHANGED <<cfg, nameless, marks, ctxDone, signalled, vm, cdroms, outputs, tried, outcome>>
    BY <1>10 DEF SaveDisk
  <2>5. lib' \in SUBSET ImageId
    BY <2>1, <2>2
  <2>6. images' \in Seq(ImageId)
    <3>1. images \in Seq(ImageId)
      OBVIOUS
    <3> HIDE DEF TypeOK, DataTypeOK
    <3> QED
      BY <2>1, <2>3, <3>1, AppendType
  <2>7. /\ cdroms' \in SUBSET (Nat \ {0}) /\ nameless' \in SUBSET Nat
        /\ cfg' \in {Prepare(c) : c \in Configs} /\ marks' \in Seq(ImageId)
        /\ UNCHANGED <<ctxDone, signalled, vm, outputs, tried, outcome>>
    BY <2>4
  <2> QED
    BY <2>5, <2>6, <2>7
<1>11. CASE Produce
  BY <1>11 DEF Produce, Output
<1>12. CASE ExportSignalled
  BY <1>12 DEF ExportSignalled
<1>13. CASE DeleteOutput
  BY <1>13 DEF DeleteOutput, FailedDelete, Discard
<1>14. CASE CleanupVM
  BY <1>0, <1>14 DEF CleanupVM, Discard
<1>15. CASE DeleteMarked
  BY <1>15 DEF DeleteMarked, Discard
<1>16. CASE DeleteVM
  BY <1>16 DEF DeleteVM, VmState
<1>17. CASE Interrupt
  BY <1>17 DEF Interrupt
<1>18. CASE GuestPowersOff
  BY <1>18 DEF GuestPowersOff, VmState
<1>19. CASE BuilderReturns
  BY <1>19 DEF BuilderReturns
<1>20. CASE Frame
  BY <1>20, FrameType
<1> QED
  BY <1>1, <1>2, <1>3, <1>4, <1>5, <1>6, <1>7, <1>8, <1>9, <1>10, <1>11, <1>12, <1>13,
     <1>14, <1>15, <1>16, <1>17, <1>18, <1>19, <1>20, ControlActions
     DEF Next, Plugin, Environment, Runner, BuildVMRun, GuestSteps, CaptureSteps, Cleanups

LEMMA TypeInit == Init => TypeOK
<1> SUFFICES ASSUME Init PROVE TypeOK
  OBVIOUS
<1>1. lib \in SUBSET ImageId
  <2>1. DOMAIN cfg.disks \subseteq Nat
    BY PreparedConfig DEF Init
  <2> QED
    BY <2>1 DEF Init, ImageId, Origin
<1>2. ControlTypeOK
  <2>1. pc \in Location /\ i \in Nat /\ img \in ImageId
    BY NoImageIsImageId DEF Init, Location
  <2>2. mode = "next" /\ at = 0 /\ deferred = {} /\ panicking = FALSE /\ bag = {}
    BY DEF Init
  <2>3. at \in 0..14
    BY <2>2
  <2>4. panicking \in BOOLEAN
    BY <2>2
  <2> QED
    BY <2>1, <2>2, <2>3, <2>4 DEF ControlTypeOK
<1>3. DataTypeOK
  <2>1. ctxDone \in BOOLEAN /\ signalled \in BOOLEAN
    BY DEF Init
  <2>2. marks \in Seq(ImageId) /\ images \in Seq(ImageId)
    BY DEF Init
  <2>3. cdroms \in SUBSET (Nat \ {0}) /\ nameless \in SUBSET Nat
    <3>1. Cleanable \subseteq Nat
      BY DEF Cleanable
    <3> QED
      BY <3>1 DEF Init
  <2> QED
    BY <1>1, <2>1, <2>2, <2>3 DEF Init, DataTypeOK, VmState
<1> QED
  BY <1>2, <1>3 DEF TypeOK, ControlTypeOK, DataTypeOK

-----------------------------------------------------------------------------
(* The bag.  BagReadsDefined is not inductive: that a step finds its keys  *)
(* follows from what every step before it, and still listed, left there.   *)

LEMMA InitBagInv == Init => BagInv
<1> SUFFICES ASSUME Init PROVE BagInv
  OBVIOUS
<1>1. TypeOK
  BY TypeInit
<1>2. RequestKnown
  BY DEF Init, RequestKnown
<1>3. StepsGave
  <2>1. mode = "next" /\ at = 0
    BY DEF Init
  <2>2. \A s \in Listed(cfg) : s \in 1..14
    BY DEF Listed, Step
  <2> QED
    BY <2>1, <2>2 DEF StepsGave, Done
<1>4. mode = "next" /\ at = 0
  BY DEF Init
<1> QED
  BY <1>1, <1>2, <1>3, <1>4 DEF BagInv

LEMMA TypeNext ==
  ASSUME TypeOK, RequestKnown, [Next]_vars
  PROVE  TypeOK'
<1>1. CASE Next
  <2>1. ControlTypeOK' /\ DataTypeOK'
    BY <1>1, ControlTypeNext, DataTypeNext
  <2> QED
    BY <2>1 DEF ControlTypeOK, DataTypeOK, TypeOK
<1>2. CASE UNCHANGED vars
  BY <1>2 DEF vars, TypeOK
<1> QED
  BY <1>1, <1>2

LEMMA RequestKnownNext ==
  ASSUME TypeOK, RequestKnown, Next
  PROVE  RequestKnown'
<1> USE DEF RequestKnown
<1>1. CASE RunShape
  <2>1. CASE GoesOn
    <3>1. PICK l \in Location, n \in Nat, x \in ImageId :
             /\ Goto(l, n, x) /\ bag \subseteq bag'
             /\ "vm_uuid" \in bag' => "vm_uuid" \in bag
             /\ l \in Requested => "image_to_delete" \in bag'
      BY <2>1 DEF GoesOn
    <3>2. pc' = l /\ mode' = "run"
      BY <1>1, <3>1 DEF Goto, RunShape
    <3> QED
      BY <3>1, <3>2
  <2>2. CASE Completes
    <3>1. PICK keys \in SUBSET BagKey :
             Continue(keys) /\ ("vm_uuid" \in keys => "image_to_delete" \in bag)
      BY <2>2 DEF Completes
    <3>2. bag' = bag \cup keys /\ pc' = "body" /\ mode' # "run"
      BY <3>1 DEF Continue, Return, Leave
    <3> QED
      BY <3>1, <3>2
  <2>3. CASE Halts
    BY <1>1, <2>3, HaltIsReturn DEF Halts, Return
  <2>4. CASE Crash
    BY <2>4 DEF Crash
  <2> QED
    BY <1>1, <2>1, <2>2, <2>3, <2>4 DEF RunShape
<1>2. CASE CleanupShape
  BY <1>2 DEF CleanupShape, CleanupDone, Goto
<1>3. CASE OutsideShape
  BY <1>3 DEF OutsideShape
<1>4. CASE StartStep
  BY <1>4 DEF StartStep, Requested
<1>5. CASE StopLoop
  BY <1>5 DEF StopLoop
<1>6. CASE StartCleanup
  BY <1>6 DEF StartCleanup
<1>7. CASE BuilderReturns
  BY <1>7 DEF BuilderReturns
<1> QED
  BY <1>1, <1>2, <1>3, <1>4, <1>5, <1>6, <1>7, NextShapes

LEMMA BagGrows ==
  ASSUME TypeOK, RequestKnown, Next
  PROVE  cfg' = cfg /\ bag \subseteq bag'
<1>1. CASE RunShape
  <2>1. CASE GoesOn
    BY <1>1, <2>1 DEF RunShape, GoesOn
  <2>2. CASE Completes
    BY <1>1, <2>2 DEF RunShape, Completes, Continue, Return
  <2>3. CASE Halts
    BY <1>1, <2>3, HaltIsReturn DEF RunShape, Halts, Return
  <2>4. CASE Crash
    BY <1>1, <2>4 DEF RunShape, Crash
  <2> QED
    BY <1>1, <2>1, <2>2, <2>3, <2>4 DEF RunShape
<1>2. CASE CleanupShape
  BY <1>2 DEF CleanupShape
<1>3. CASE OutsideShape
  BY <1>3 DEF OutsideShape
<1>4. CASE StartStep \/ StopLoop \/ StartCleanup \/ BuilderReturns
  BY <1>4 DEF StartStep, StopLoop, StartCleanup, BuilderReturns
<1> QED
  BY <1>1, <1>2, <1>3, <1>4, NextShapes

\* What a step does to the runner's position, as far as the bag cares.
LEMMA Positions ==
  ASSUME TypeOK, RequestKnown, Next
  PROVE  \/ mode' = mode /\ at' = at
         \/ mode' \in {"unwind", "cleanup", "over"}
         \/ mode = "run" /\ mode' = "next" /\ at' = at /\ Gives(at) \subseteq bag'
         \/ StartStep
<1>1. CASE RunShape
  <2>1. CASE GoesOn
    BY <1>1, <2>1 DEF GoesOn, Goto
  <2>2. CASE Completes
    <3>1. PICK keys \in SUBSET BagKey : Continue(keys) /\ Gives(at) \subseteq keys
      BY <2>2 DEF Completes
    <3> QED
      BY <1>1, <3>1 DEF RunShape, Continue, Return
  <2>3. CASE Halts
    BY <1>1, <2>3, HaltIsReturn DEF Halts, Return
  <2>4. CASE Crash
    BY <2>4 DEF Crash
  <2> QED
    BY <1>1, <2>1, <2>2, <2>3, <2>4 DEF RunShape
<1>2. CASE CleanupShape
  BY <1>2 DEF CleanupShape, CleanupDone, Goto
<1>3. CASE OutsideShape
  BY <1>3 DEF OutsideShape
<1>4. CASE StopLoop \/ StartCleanup \/ BuilderReturns
  BY <1>4 DEF StopLoop, StartCleanup, BuilderReturns
<1> QED
  BY <1>1, <1>2, <1>3, <1>4, NextShapes

LEMMA BagInvNext == BagInv /\ [Next]_vars => BagInv'
<1> SUFFICES ASSUME BagInv, Next PROVE BagInv'
  <2>1. CASE UNCHANGED vars
    BY <2>1 DEF vars, BagInv, TypeOK, RequestKnown, StepsGave, Done, Gives
  <2> QED
    BY <2>1
<1>1. TypeOK /\ RequestKnown /\ StepsGave
  BY DEF BagInv
<1>2. TypeOK' /\ RequestKnown'
  BY <1>1, TypeNext, RequestKnownNext
<1>3. Listed(cfg)' = Listed(cfg) /\ bag \subseteq bag' /\ \A s : Gives(s)' = Gives(s)
  BY <1>1, BagGrows DEF Gives
<1>4. Listed(cfg) \subseteq Nat /\ at \in Nat
  BY <1>1 DEF Listed, Step, TypeOK
<1>5. /\ mode' \in {"next", "run"} => at' \in Listed(cfg) \cup {0}
      /\ mode' = "run" => at' # 0
  <2>1. CASE StartStep
    BY <1>4, <2>1 DEF StartStep, BagInv
  <2> QED
    BY <1>1, <2>1, Positions DEF BagInv
<1>6. StepsGave'
  <2> SUFFICES ASSUME NEW s \in Listed(cfg), Done(s)' PROVE Gives(s) \subseteq bag'
    BY <1>3 DEF StepsGave
  <2>1. CASE mode' = mode /\ at' = at
    BY <1>1, <1>3, <2>1 DEF StepsGave, Done
  <2>2. CASE mode = "run" /\ mode' = "next" /\ at' = at /\ Gives(at) \subseteq bag'
    <3>1. s = at \/ Done(s)
      BY <2>2 DEF Done
    <3> QED
      BY <1>1, <1>3, <2>2, <3>1 DEF StepsGave
  <2>3. CASE StartStep
    <3>1. s < at'
      BY <2>3 DEF Done, StartStep
    <3>2. s <= at
      BY <1>4, <2>3, <3>1 DEF StartStep
    <3>3. Done(s)
      BY <1>4, <2>3, <3>2 DEF StartStep, Done
    <3> QED
      BY <1>1, <1>3, <3>3 DEF StepsGave
  <2> QED
    BY <1>1, <2>1, <2>2, <2>3, Positions DEF Done
<1> QED
  BY <1>2, <1>3, <1>5, <1>6 DEF BagInv

THEOREM BagInvariant == Spec => []BagInv
  BY InitBagInv, BagInvNext, PTL DEF Spec

(* Every reachable state is well typed.                                    *)
THEOREM TypeCorrect == Spec => []TypeOK
<1>1. BagInv => TypeOK
  BY DEF BagInv
<1> QED
  BY <1>1, BagInvariant, PTL

(* No step reads a key of the bag that is not there, whatever steps are    *)
(* listed and whichever of them have nothing to do.                        *)
THEOREM BagReads == Spec => []BagReadsDefined
<1>1. BagInv => BagReadsDefined
  <2> SUFFICES ASSUME BagInv PROVE BagReadsDefined
    OBVIOUS
  <2>1. TypeOK /\ RequestKnown /\ StepsGave
    BY DEF BagInv
  <2>2. "vm_uuid" \in bag => "image_to_delete" \in bag
    BY <2>1 DEF RequestKnown
  <2>3. ASSUME mode = "run" PROVE Needs(at, cfg) \subseteq bag
    <3>1. at \in Listed(cfg)
      BY <2>3 DEF BagInv
    <3>2. \A s \in Listed(cfg) : s < at => Gives(s) \subseteq bag
      BY <2>1, <2>3 DEF StepsGave, Done
    <3>3. {BuildVM, VNCConnect, WaitForIp, Connect} \subseteq Listed(cfg)
      BY StepNumbers DEF Listed, BuildVM, VNCConnect, WaitForIp, Connect, CleanVM,
         CreateImage, ExportImage, CreateTemplate, CreateOVA, ExportOVA
    <3>4. at > BuildVM => "vm_uuid" \in bag
      BY <3>1, <3>2, <3>3, StepNumbers DEF Gives, BagKey, Listed
    <3>5. at > VNCConnect /\ cfg.boot => "vnc_conn" \in bag
      BY <3>1, <3>2, <3>3, StepNumbers DEF Gives, BagKey, Listed
    <3>6. at > WaitForIp => "ip" \in bag
      BY <3>1, <3>2, <3>3, StepNumbers DEF Gives, BagKey, Listed
    <3>7. at > Connect => "communicator" \in bag
      BY <3>1, <3>2, <3>3, StepNumbers DEF Gives, BagKey, Listed
    <3>8. at = ExportImage => "image_uuid" \in bag
      <4>1. ASSUME at = ExportImage PROVE CreateImage \in Listed(cfg)
        <5>1. cfg.imageExport
          BY <3>1, <4>1 DEF Listed
        <5>2. ~cfg.imageSkip
          BY <2>1, <5>1, PreparedConfig DEF TypeOK
        <5> QED
          BY <5>2, StepNumbers DEF Listed, CreateImage, CleanVM, ExportImage,
             CreateTemplate, CreateOVA, ExportOVA
      <4>2. CreateImage < ExportImage
        BY DEF CreateImage, ExportImage
      <4> QED
        BY <3>2, <4>1, <4>2 DEF Gives, BagKey
    <3>9. at \in Step
      BY <3>1 DEF Listed
    <3> QED
      BY <3>4, <3>5, <3>6, <3>7, <3>8, <3>9 DEF Needs, Step, CreateCD, BuildVM, VNCConnect,
         VNCBootCommand, WaitForIp, Connect, Provision, Shutdown, CleanVM, CreateImage,
         ExportImage, CreateTemplate, CreateOVA, ExportOVA
  <2> QED
    BY <2>2, <2>3 DEF BagReadsDefined
<1> QED
  BY <1>1, BagInvariant, PTL

-----------------------------------------------------------------------------
(* The VM stays off once StepShutdown has let the build go on.             *)

OffInv == Done(Shutdown) => vm = "off"

LEMMA OffInvNext ==
  ASSUME BagInv, OffInv, Next
  PROVE  OffInv'
<1> SUFFICES ASSUME Done(Shutdown)' PROVE vm' = "off"
  BY DEF OffInv
<1>1. TypeOK /\ RequestKnown /\ Shutdown \in Nat /\ at \in Nat
  <2>1. TypeOK /\ RequestKnown
    BY DEF BagInv
  <2> QED
    BY <2>1 DEF TypeOK, Shutdown
<1>2. CASE RunShape
  <2>1. CASE at > Shutdown
    BY <1>1, <1>2, <2>1 DEF RunShape, OffInv, Done
  <2>2. CASE at = Shutdown /\ Completes
    BY <2>2 DEF Completes
  <2>3. CASE at = Shutdown /\ GoesOn
    BY <1>1, <1>2, <2>3 DEF RunShape, GoesOn, Goto, Done
  <2>4. CASE at = Shutdown /\ Halts
    BY <2>4, HaltIsReturn DEF Halts, Return, Done
  <2>5. CASE at = Shutdown /\ Crash
    BY <2>5 DEF Crash, Done
  <2>6. CASE at < Shutdown
    <3>1. mode' \in {"next", "run"} => at' = at
      BY <1>1, <1>2, Positions, <2>6 DEF RunShape, StartStep
    <3> QED
      BY <1>1, <2>6, <3>1 DEF Done
  <2> QED
    BY <1>1, <1>2, <2>1, <2>2, <2>3, <2>4, <2>5, <2>6 DEF RunShape
<1>3. CASE CleanupShape
  BY <1>3 DEF CleanupShape, CleanupDone, Goto, Done
<1>4. CASE OutsideShape
  BY <1>4 DEF OutsideShape, OffInv, Done
<1>5. CASE StartStep
  <2>1. Shutdown \in Listed(cfg)
    BY StepNumbers DEF Listed, Shutdown, CleanVM, CreateImage, ExportImage, CreateTemplate,
       CreateOVA, ExportOVA
  <2>2. Listed(cfg) \subseteq Nat
    BY DEF Listed, Step
  <2>3. Shutdown < at' /\ vm' = vm
    BY <1>5 DEF StartStep, Done
  <2>4. Shutdown <= at
    BY <1>1, <1>5, <2>1, <2>2, <2>3 DEF StartStep
  <2>5. Done(Shutdown)
    BY <1>1, <1>5, <2>4 DEF StartStep, Done
  <2> QED
    BY <2>3, <2>5 DEF OffInv
<1>6. CASE StopLoop \/ StartCleanup \/ BuilderReturns
  BY <1>6 DEF StopLoop, StartCleanup, BuilderReturns, Done
<1> QED
  BY <1>1, <1>2, <1>3, <1>4, <1>5, <1>6, NextShapes

(* CD-ROMs are removed, disks copied, templates and OVAs made only while   *)
(* the VM is powered off.                                                  *)
THEOREM CapturePoweredOff == Spec => []CaptureOnlyPoweredOff
<1>1. Init => OffInv
  BY StepNumbers DEF Init, OffInv, Done, Shutdown
<1>2. BagInv /\ OffInv /\ [Next]_vars => OffInv'
  <2>1. CASE UNCHANGED vars
    BY <2>1 DEF vars, OffInv, Done
  <2> QED
    BY <2>1, OffInvNext
<1>3. BagInv /\ OffInv => CaptureOnlyPoweredOff
  BY DEF OffInv, Done, CaptureOnlyPoweredOff
<1> QED
  BY <1>1, <1>2, <1>3, BagInvariant, PTL DEF Spec

-----------------------------------------------------------------------------
(* Build implements StepRunner.                                            *)

LEMMA InitRefines == Init => Steps!Init
  BY DEF Init, Steps!Init, Steps!Step, Listed, Step

LEMMA NextRefines ==
  ASSUME BagInv, [Next]_vars
  PROVE  [Steps!Next]_(Steps!vars)
<1> USE DEF Steps!Next, Steps!vars
<1>1. CASE UNCHANGED vars
  BY <1>1 DEF vars
<1> SUFFICES ASSUME Next PROVE [Steps!Next]_(Steps!vars)
  BY <1>1
<1>2. TypeOK /\ RequestKnown
  BY DEF BagInv
<1>3. Listed(cfg)' = Listed(cfg)
  BY <1>2, BagGrows
<1>4. CASE RunShape
  <2>1. CASE GoesOn
    BY <1>3, <2>1 DEF GoesOn, Goto
  <2>2. CASE Completes
    BY <1>3, <1>4, <2>2 DEF Completes, Continue, Return, RunShape, Steps!RunReturns
  <2>3. CASE Halts
    BY <1>3, <1>4, <2>3, HaltIsReturn DEF Halts, Return, RunShape, Steps!RunReturns
  <2>4. CASE Crash
    BY <1>3, <1>4, <2>4 DEF Crash, RunShape, Steps!RunPanics
  <2> QED
    BY <1>4, <2>1, <2>2, <2>3, <2>4 DEF RunShape
<1>5. CASE CleanupShape
  BY <1>3, <1>5 DEF CleanupShape, CleanupDone, Goto, Steps!CleanupReturns
<1>6. CASE OutsideShape
  BY <1>3, <1>6 DEF OutsideShape
<1>7. CASE StartStep
  BY <1>3, <1>7 DEF StartStep, Steps!StartStep
<1>8. CASE StopLoop
  BY <1>3, <1>8 DEF StopLoop, Steps!StopLoop
<1>9. CASE StartCleanup
  BY <1>3, <1>9 DEF StartCleanup, Latest, Steps!StartCleanup
<1>10. CASE BuilderReturns
  BY <1>3, <1>10 DEF BuilderReturns, Steps!RunnerReturns
<1> QED
  BY <1>2, <1>4, <1>5, <1>6, <1>7, <1>8, <1>9, <1>10, NextShapes

(* Every behaviour of the build is one of the SDK's runner over the steps  *)
(* that were listed.                                                       *)
THEOREM ImplementsRunner == Spec => ImplementsStepRunner
<1>1. BagInv /\ [Next]_vars => [Steps!Next]_(Steps!vars)
  BY NextRefines
<1> QED
  BY <1>1, InitRefines, BagInvariant, PTL DEF Spec, ImplementsStepRunner, Steps!Spec

=============================================================================
