--------------------------- MODULE LibraryProofs ----------------------------
(***************************************************************************)
(* What a build does to the image library, for every set of                *)
(* configurations: which images it deletes, that those it borrowed are     *)
(* given back, and that those of its artifact are there.  The steps with   *)
(* nothing to do in the library are dealt with once (Elsewhere).           *)
(***************************************************************************)
EXTENDS OutcomeProofs

USE DEF runner, local, prism, env

Before == TypeOK /\ RequestKnown /\ KeptInv

-----------------------------------------------------------------------------
(* Steps that have nothing to do with the library.                         *)
Known == {"cd_uuid", "vm_uuid", "image_uuid"}

BagOfKnown == bag \subseteq bag' /\ bag' \cap Known = bag \cap Known

Elsewhere ==
  /\ UNCHANGED <<cfg, at, marks, images, lib, tried, outcome>>
  /\ BagOfKnown
  /\ deferred \subseteq deferred'
  /\ \/ UNCHANGED <<mode, local>>
     \/ mode = "run" /\ at \notin {BuildVM, CreateImage} /\ mode' \in {"run", "next", "unwind"}
     \/ mode = "next" /\ mode' = "unwind"
     \/ mode = "cleanup" /\ at \notin {BuildVM, CreateImage} /\ mode' = "unwind"

LEMMA GuestElsewhere ==
  ASSUME MakeCD \/ GuestSteps \/ PollWithoutAnswer
  PROVE  Elsewhere
<1> USE DEF Elsewhere, BagOfKnown, Known, In, Continue, Halt, Return, Leave, Goto,
      BuildVM, CreateImage
<1>1. CASE MakeCD
  BY <1>1 DEF MakeCD, CreateCD
<1>2. CASE ConnectVNC \/ TypeBootCommand
  BY <1>2 DEF ConnectVNC, TypeBootCommand, VNCConnect, VNCBootCommand
<1>3. CASE ObtainIp \/ ConnectGuest \/ RunProvisioners
  BY <1>3 DEF ObtainIp, ConnectGuest, RunProvisioners, WaitForIp, Connect, Provision
<1>4. CASE StopVM
  BY <1>4 DEF StopVM, StopFailure, Shutdown
<1>5. CASE PollPowerState \/ PollWithoutAnswer
  BY <1>5 DEF PollPowerState, PollWithoutAnswer, Crash, Shutdown
<1> QED
  BY <1>1, <1>2, <1>3, <1>4, <1>5 DEF GuestSteps

LEMMA CaptureElsewhere ==
  ASSUME ListCdRoms \/ RemoveCdRom \/ Produce \/ ExportSignalled
  PROVE  Elsewhere
<1> USE DEF Elsewhere, BagOfKnown, Known, In, Continue, Halt, Return, Leave, Goto,
      BuildVM, CreateImage
<1>1. CASE ListCdRoms
  BY <1>1 DEF ListCdRoms, CdRomFailure, CleanVM
<1>2. CASE RemoveCdRom
  BY <1>2 DEF RemoveCdRom, CdRomFailure, CleanVM
<1>3. CASE Produce
  BY <1>3 DEF Produce, Output, ExportImage, CreateTemplate, CreateOVA, ExportOVA
<1>4. CASE ExportSignalled
  BY <1>4 DEF ExportSignalled, ExportImage
<1> QED
  BY <1>1, <1>2, <1>3, <1>4

LEMMA OthersElsewhere ==
  ASSUME EmptyCleanup \/ StopLoop \/ MarkCancelled \/ Interrupt \/ GuestPowersOff
  PROVE  Elsewhere
<1> USE DEF Elsewhere, BagOfKnown, Known
<1>1. CASE EmptyCleanup
  BY <1>1 DEF EmptyCleanup, CleanupDone
<1>2. CASE StopLoop
  BY <1>2 DEF StopLoop
<1>3. CASE MarkCancelled \/ Interrupt \/ GuestPowersOff
  BY <1>3 DEF MarkCancelled, Interrupt, GuestPowersOff
<1> QED
  BY <1>1, <1>2, <1>3

(* A step of stepBuildVM or stepCreateImage halts or panics.               *)
Stops ==
  /\ mode = "run" /\ mode' = "unwind"
  /\ UNCHANGED <<cfg, at, marks, images, tried, outcome>>
  /\ BagOfKnown

LEMMA StopsHere ==
  ASSUME mode = "run", UNCHANGED <<cfg, marks, images, tried, outcome>>,
         \/ Halt({"error"}) \/ Halt({"image_to_delete", "error"}) \/ Crash
  PROVE  Stops
  BY DEF Stops, BagOfKnown, Known, Halt, Return, Crash

-----------------------------------------------------------------------------
(* What is deleted.  An image is marked, or is about to be, only if the    *)
(* configuration has the disk it comes from deleted.                       *)

DelInv ==
  /\ \A m \in DOMAIN marks : MayDelete(marks[m])
  /\ \A n \in DOMAIN images : images[n] \in {<<"out", k>> : k \in Nat}
  /\ Cleaning(CreateImage, "deleteOut") => cfg.imageDelete
  /\ In(BuildVM, "bindDisk") /\ MarksUploaded(Disks[i]) => MayDelete(img)

LEMMA DeletableDisk ==
  ASSUME Before, i \in DOMAIN Disks
  PROVE  /\ Disks[i].del => MayDelete(<<"path", i>>) /\ MayDelete(<<"uri", i>>)
                            /\ MayDelete(<<"user", i>>)
         /\ Disks[i].force => MayDelete(<<"user", i>>)
<1>1. Disks[i].del \/ Disks[i].force => i \in DOMAIN cfg.disks /\ Disks[i] = cfg.disks[i]
  BY DisksOf DEF Before, CDDisk
<1> QED
  BY <1>1 DEF MayDelete

LEMMA Appended ==
  ASSUME NEW S, NEW s \in Seq(S), NEW x \in S
  PROVE  /\ DOMAIN Append(s, x) = DOMAIN s \cup {Len(s) + 1}
         /\ \A m \in DOMAIN s : Append(s, x)[m] = s[m]
         /\ Append(s, x)[Len(s) + 1] = x
         /\ Len(Append(s, x)) = Len(s) + 1
  OBVIOUS

(* The disk at hand of CreateRequest, and what becomes of it.              *)
LEMMA ReuseMarks ==
  ASSUME Before, ReuseImage
  PROVE  \/ Stops
         \/ /\ mode = "run" /\ at = BuildVM
            /\ UNCHANGED <<cfg, bag, images, tried, outcome, lib>>
            /\ Goto("bindDisk", i, <<"user", i>>)
            /\ i \in DOMAIN Disks
            /\ marks' = Mark(Disks[i], <<"user", i>>)
  BY StopsHere DEF ReuseImage, In

LEMMA DownloadMarks ==
  ASSUME Before, DownloadImage
  PROVE  \/ Stops
         \/ /\ mode = "run" /\ at = BuildVM /\ UNCHANGED <<cfg, bag, images, tried, outcome>>
            /\ Goto("bindDisk", i, <<"uri", i>>)
            /\ i \in DOMAIN Disks
            /\ marks' = Mark(Disks[i], <<"uri", i>>)
  BY StopsHere DEF DownloadImage, In

LEMMA BindMarks ==
  ASSUME Before, BindDisk
  PROVE  \/ Stops
         \/ /\ mode = "run" /\ at = BuildVM
            /\ UNCHANGED <<cfg, bag, images, tried, outcome, lib>>
            /\ Goto("requestDisk", i + 1, NoImage)
            /\ marks' = IF MarksUploaded(Disks[i]) THEN Append(marks, img) ELSE marks
<1> DEFINE d == Disks[i]
<1>1. CASE Halt({"error"}) /\ UNCHANGED marks
  BY <1>1, StopsHere DEF BindDisk, In
<1>2. CASE Crash /\ UNCHANGED marks
  BY <1>2, StopsHere DEF BindDisk, In
<1> QED
  BY <1>1, <1>2 DEF BindDisk, In

\* The steps of stepBuildVM that mark nothing.
LEMMA NotMarking ==
  ASSUME Before,
         \/ UploadCD \/ UploadDisk \/ StartRequest \/ SkipDownload
         \/ FinishRequest \/ CreateVM \/ PowerOn
  PROVE  \/ Stops
         \/ /\ mode = "run" /\ at = BuildVM /\ at' = at
            /\ UNCHANGED <<cfg, marks, images, tried, outcome>>
            /\ pc' = "bindDisk" => SkipDownload
<1>1. CASE UploadCD
  BY <1>1, StopsHere DEF UploadCD, In, Goto
<1>2. CASE UploadDisk
  BY <1>2, StopsHere DEF UploadDisk, In, Goto
<1>3. CASE StartRequest
  BY <1>3, StopsHere DEF StartRequest, In, Goto
<1>4. CASE SkipDownload
  BY <1>4 DEF SkipDownload, In, Goto
<1>5. CASE FinishRequest
  BY <1>5, StopsHere DEF FinishRequest, FinishPuts, In, Goto
<1>6. CASE CreateVM
  BY <1>6, StopsHere DEF CreateVM, In, Goto
<1>7. CASE PowerOn
  BY <1>7, StopsHere DEF PowerOn, In, Continue, Return, Leave
<1> QED
  BY <1>1, <1>2, <1>3, <1>4, <1>5, <1>6, <1>7

LEMMA DelInvRequest ==
  ASSUME Before, DelInv, BuildVMRun
  PROVE  DelInv'
<1> USE DEF DelInv
<1>0. marks \in Seq(ImageId) /\ img \in ImageId /\ MayDelete(img) \in BOOLEAN
      /\ \A k \in Nat : {<<"path", k>>, <<"uri", k>>, <<"user", k>>} \subseteq ImageId
  BY DEF Before, TypeOK, ImageId, Origin, MayDelete
<1>a. ASSUME NEW y, y \in ImageId, MayDelete(y), marks' = Append(marks, y), cfg' = cfg
      PROVE  \A m \in DOMAIN marks' : MayDelete(marks'[m])
  BY <1>0, <1>a, Appended DEF MayDelete
<1>b. cfg' = cfg => \A y : MayDelete(y)' = MayDelete(y)
  BY DEF MayDelete
<1>1. CASE Stops
  BY <1>1, <1>b DEF Stops, In, Cleaning
<1>2. CASE ReuseImage /\ ~Stops
  <2>1. /\ mode' = "run" /\ i' = i /\ img' = <<"user", i>> /\ Disks' = Disks /\ cfg' = cfg
        /\ images' = images
        /\ marks' = Mark(Disks[i], <<"user", i>>) /\ i \in DOMAIN Disks
    BY <1>2, ReuseMarks DEF Goto, Disks
  <2>2. Disks[i].del => MayDelete(<<"user", i>>)
    BY <2>1, DeletableDisk
  <2>3. \A m \in DOMAIN marks' : MayDelete(marks'[m])
    BY <1>0, <1>a, <1>b, <2>1, <2>2, DisksOf DEF Mark, Before
  <2> QED
    BY <1>b, <2>1, <2>2, <2>3 DEF Cleaning, MarksUploaded
<1>3. CASE DownloadImage /\ ~Stops
  <2>1. /\ mode' = "run" /\ i' = i /\ img' = <<"uri", i>> /\ Disks' = Disks /\ cfg' = cfg
        /\ images' = images
        /\ marks' = Mark(Disks[i], <<"uri", i>>) /\ i \in DOMAIN Disks
    BY <1>3, DownloadMarks DEF Goto, Disks
  <2>2. Disks[i].del => MayDelete(<<"uri", i>>)
    BY <2>1, DeletableDisk
  <2>3. \A m \in DOMAIN marks' : MayDelete(marks'[m])
    BY <1>0, <1>a, <1>b, <2>1, <2>2, DisksOf DEF Mark, Before
  <2> QED
    BY <1>b, <2>1, <2>2, <2>3 DEF Cleaning, MarksUploaded
<1>4. CASE BindDisk /\ ~Stops
  <2>1. /\ mode' = "run" /\ pc' = "requestDisk" /\ cfg' = cfg /\ images' = images
        /\ marks' = IF MarksUploaded(Disks[i]) THEN Append(marks, img) ELSE marks
    BY <1>4, BindMarks DEF Goto
  <2>2. MarksUploaded(Disks[i]) => MayDelete(img)
    BY <1>4 DEF BindDisk
  <2>3. \A m \in DOMAIN marks' : MayDelete(marks'[m])
    BY <1>0, <1>a, <1>b, <2>1, <2>2
  <2> QED
    BY <1>b, <2>1, <2>3 DEF Cleaning, In
<1>5. CASE SkipDownload /\ pc' = "bindDisk"
  <2>1. /\ mode' = "run" /\ i' = i /\ i \in DOMAIN Disks /\ Disks' = Disks /\ cfg' = cfg
        /\ UNCHANGED <<marks, images>>
        /\ img' = IF Disks[i].path THEN <<"path", i>> ELSE NoImage
    BY <1>5 DEF SkipDownload, Goto, In, Disks
  <2>2. MarksUploaded(Disks[i]) => MayDelete(img')
    BY <2>1, DeletableDisk DEF MarksUploaded
  <2> QED
    BY <1>b, <2>1, <2>2 DEF Cleaning
<1>6. CASE /\ UploadCD \/ UploadDisk \/ StartRequest \/ SkipDownload \/ FinishRequest
              \/ CreateVM \/ PowerOn
           /\ ~Stops /\ pc' # "bindDisk"
  <2>1. cfg' = cfg /\ UNCHANGED <<marks, images>> /\ at' = BuildVM
    BY <1>6, NotMarking
  <2> QED
    BY <1>b, <1>6, <2>1 DEF Cleaning, In, BuildVM, CreateImage
<1> QED
  BY <1>1, <1>2, <1>3, <1>4, <1>5, <1>6, NotMarking DEF BuildVMRun

(* The steps with an effect on the library, the marks or the images, the   *)
(* runner's own, and the rest.                                             *)
LEMMA StepKinds ==
  ASSUME Next
  PROVE  \/ Elsewhere
         \/ BuildVMRun
         \/ ListDisks \/ SaveDisk \/ PutImages
         \/ StartStep \/ StartCleanup \/ BuilderReturns
         \/ CleanupImages \/ DeleteOutput
         \/ CleanupVM \/ DeleteMarked \/ DecideVM \/ DeleteVM
<1>1. ASSUME GuestSteps \/ MakeCD \/ PollWithoutAnswer PROVE Elsewhere
  BY <1>1, GuestElsewhere
<1> QED
  BY <1>1, CaptureElsewhere, OthersElsewhere
     DEF Next, Plugin, Environment, Runner, CaptureSteps, Cleanups

LEMMA DelInvNext ==
  ASSUME Before, DelInv, Next
  PROVE  DelInv'
<1> USE DEF DelInv
<1>a. cfg' = cfg => \A y : MayDelete(y)' = MayDelete(y)
  BY DEF MayDelete
<1>0. /\ mode = "unwind" => pc = "body"
      /\ mode = "next" => pc = "body"
      /\ images \in Seq(ImageId) /\ i \in Nat
  BY DEF Before, KeptInv, RequestKnown, TypeOK
<1>1. CASE Elsewhere
  <2>1. UNCHANGED <<cfg, at, marks, images>>
    BY <1>1 DEF Elsewhere
  <2>2. Cleaning(CreateImage, "deleteOut")' => Cleaning(CreateImage, "deleteOut")
    BY <1>1 DEF Elsewhere, Cleaning
  <2>3. In(BuildVM, "bindDisk")' => In(BuildVM, "bindDisk") /\ UNCHANGED <<i, img, Disks>>
    BY <1>1 DEF Elsewhere, In, BagOfKnown, Known, Disks
  <2> QED
    BY <1>a, <2>1, <2>2, <2>3 DEF MarksUploaded
<1>2. CASE ListDisks \/ PutImages
  <2>1. UNCHANGED <<cfg, at, marks, images>> /\ at = CreateImage /\ mode' # "cleanup"
    BY <1>2 DEF ListDisks, PutImages, In, Goto, Halt, Continue, Return, Crash
  <2> QED
    BY <1>a, <2>1 DEF In, Cleaning, BuildVM, CreateImage
<1>3. CASE SaveDisk
  <2>1. UNCHANGED <<cfg, at, marks>> /\ at = CreateImage /\ mode' # "cleanup"
    BY <1>3 DEF SaveDisk, In, Goto, Halt, Return
  <2>2. images' = images \/ images' = Append(images, <<"out", i>>)
    BY <1>3 DEF SaveDisk
  <2>3. <<"out", i>> \in ImageId
    BY <1>0 DEF ImageId, Origin
  <2>4. \A n \in DOMAIN images' : images'[n] \in {<<"out", k>> : k \in Nat}
    BY <1>0, <2>2, <2>3, Appended
  <2> QED
    BY <1>a, <2>1, <2>4 DEF In, Cleaning, BuildVM, CreateImage
<1>4. CASE StartStep \/ StartCleanup \/ BuilderReturns
  <2>1. UNCHANGED <<cfg, marks, images, pc>> /\ pc = "body"
    BY <1>0, <1>4 DEF StartStep, StartCleanup, BuilderReturns
  <2> QED
    BY <1>a, <2>1 DEF In, Cleaning
<1>5. CASE CleanupImages
  <2>1. /\ UNCHANGED <<cfg, marks, images>> /\ mode' # "run"
        /\ mode' = "cleanup" => cfg.imageDelete
    BY <1>5 DEF CleanupImages, DeletesOutputs, Goto, CleanupDone, Cleaning
  <2> QED
    BY <1>a, <2>1 DEF In, Cleaning
<1>6. CASE DeleteOutput
  <2>1. /\ UNCHANGED <<cfg, marks, images>> /\ mode' # "run" /\ Cleaning(CreateImage, "deleteOut")
    BY <1>6 DEF DeleteOutput, FailedDelete, Goto, CleanupDone, Cleaning
  <2> QED
    BY <1>a, <2>1 DEF In, Cleaning
<1>7. CASE CleanupVM \/ DeleteMarked \/ DecideVM \/ DeleteVM
  <2>1. /\ UNCHANGED <<cfg, marks, images, at>> /\ mode' # "run" /\ at = BuildVM
    BY <1>7 DEF CleanupVM, DeleteMarked, DecideVM, DeleteVM, Goto, CleanupDone, Cleaning
  <2> QED
    BY <1>a, <2>1 DEF In, Cleaning, BuildVM, CreateImage
<1> QED
  BY <1>1, <1>2, <1>3, <1>4, <1>5, <1>6, <1>7, StepKinds, DelInvRequest

\* An image that leaves the library is one the configuration gives up.
LEMMA Losses ==
  ASSUME Before, DelInv, Next, NEW x \in lib \ lib'
  PROVE  MayDelete(x)
<1>1. CASE BuildVMRun
  <2>1. CASE DownloadImage
    <3>1. x = <<"user", i>> /\ Disks[i].force /\ i \in DOMAIN Disks
      BY <2>1 DEF DownloadImage, Recreates
    <3> QED
      BY <3>1, DeletableDisk
  <2> QED
    BY <1>1, <2>1 DEF BuildVMRun, UploadCD, UploadDisk, StartRequest, ReuseImage, SkipDownload,
       BindDisk, FinishRequest, CreateVM, PowerOn
<1>2. CASE SaveDisk
  BY <1>2 DEF SaveDisk, Replaces, MayDelete
<1>3. CASE DeleteOutput
  BY <1>3 DEF DeleteOutput, FailedDelete, Discard, DelInv, MayDelete
<1>4. CASE CleanupVM
  BY <1>4 DEF CleanupVM, Discard, MayDelete
<1>5. CASE DeleteMarked
  BY <1>5 DEF DeleteMarked, Discard, DelInv
<1>6. CASE Elsewhere
  BY <1>6 DEF Elsewhere
<1>7. CASE ListDisks \/ PutImages \/ StartStep \/ StartCleanup \/ BuilderReturns
           \/ CleanupImages \/ DecideVM \/ DeleteVM
  BY <1>7 DEF ListDisks, PutImages, StartStep, StartCleanup, BuilderReturns, CleanupImages,
     DecideVM, DeleteVM
<1> QED
  BY <1>1, <1>2, <1>3, <1>4, <1>5, <1>6, <1>7, StepKinds

\* What the invariants of this module rest on holds of every build.
THEOREM BeforeInvariant == Spec => []Before
<1>1. BagInv /\ KeptInv => Before
  BY DEF BagInv, Before
<1> QED
  BY <1>1, BagInvariant, KeptInvariant, PTL

\* Only what the configuration gives up is marked or about to be deleted.
THEOREM DelInvariant == Spec => []DelInv
<1>1. Init => DelInv
  BY DEF Init, DelInv, In, Cleaning
<1>2. Before /\ DelInv /\ [Next]_vars => DelInv'
  <2>1. CASE UNCHANGED vars
    BY <2>1 DEF vars, DelInv, MayDelete, In, Cleaning, Disks, MarksUploaded
  <2> QED
    BY <2>1, DelInvNext
<1> QED
  BY <1>1, <1>2, BeforeInvariant, PTL DEF Spec

(* An image leaves the library only if the build made it to be temporary   *)
(* or an option of the configuration names it.                             *)
THEOREM NamedImagesDeleted == Spec => OnlyNamedImagesDeleted
<1>1. Before /\ DelInv /\ [Next]_vars => [\A x \in lib \ lib' : MayDelete(x)]_vars
  BY Losses
<1> QED
  BY <1>1, BeforeInvariant, DelInvariant, PTL DEF Spec, OnlyNamedImagesDeleted

-----------------------------------------------------------------------------
(* The images of the artifact.  stepCreateImage appends one for each disk  *)
(* and reports them when it has them all, and none of them is deleted      *)
(* unless image_delete says so.                                            *)

CapturePending ==
  mode \in {"next", "run"} /\ (at < CreateImage \/ (at = CreateImage /\ mode = "run"))

ArtInv ==
  /\ CapturePending => "image_uuid" \notin bag
  /\ CapturePending /\ ~In(CreateImage, "save") => images = <<>>
  /\ In(CreateImage, "save") =>
       /\ ScsiDisks # {} /\ i = Len(images) + 1
       /\ Len(images) <= Cardinality(ScsiDisks)
  /\ "image_uuid" \in bag =>
       Len(images) = Cardinality(ScsiDisks) /\ images # <<>>
  /\ ~cfg.imageDelete => \A n \in DOMAIN images : images[n] \in lib
  /\ outcome = "artifact" => "image_uuid" \in bag

\* An image of the build stays in the library unless image_delete is set.
LEMMA OutputsStay ==
  ASSUME Before, DelInv, Next, ~cfg.imageDelete, NEW n \in DOMAIN images, images[n] \in lib
  PROVE  images[n] \in lib'
<1>1. images[n] \in {<<"out", k>> : k \in Nat}
  BY DEF DelInv
<1>2. ~MayDelete(images[n])
  BY <1>1 DEF MayDelete, CDImage
<1> QED
  BY <1>2, Losses

\* A step that leaves the images, the disks and "image_uuid" alone.
LEMMA ArtInvKept ==
  ASSUME Before, DelInv, ArtInv, Next,
         UNCHANGED <<cfg, images, outcome, Disks>>,
         "image_uuid" \in bag' => "image_uuid" \in bag,
         "image_uuid" \in bag => "image_uuid" \in bag',
         CapturePending' => CapturePending /\ ~In(CreateImage, "save"),
         ~In(CreateImage, "save")'
  PROVE  ArtInv'
<1>1. UNCHANGED ScsiDisks
  BY DEF ScsiDisks
<1>2. ~cfg.imageDelete => \A n \in DOMAIN images : images[n] \in lib'
  BY OutputsStay DEF ArtInv
<1> QED
  BY <1>1, <1>2 DEF ArtInv

LEMMA ArtInvNext ==
  ASSUME Before, DelInv, ArtInv, Next
  PROVE  ArtInv'
<1>0. /\ mode = "unwind" => pc = "body"
      /\ mode = "next" => pc = "body"
      /\ images \in Seq(ImageId) /\ i \in Nat /\ at \in Nat
  BY DEF Before, KeptInv, RequestKnown, TypeOK
<1>1. CASE Elsewhere /\ ~UNCHANGED <<mode, local>>
  <2>1. UNCHANGED <<cfg, images, outcome, Disks, at>>
    BY <1>1 DEF Elsewhere, BagOfKnown, Known, Disks
  <2>2. "image_uuid" \in bag' <=> "image_uuid" \in bag
    BY <1>1 DEF Elsewhere, BagOfKnown, Known
  <2>3. /\ mode = "run" /\ at # CreateImage /\ mode' \in {"run", "next", "unwind"}
        \/ mode' = "unwind"
    BY <1>1 DEF Elsewhere
  <2> QED
    BY <2>1, <2>2, <2>3, ArtInvKept DEF CapturePending, In
<1>2. CASE Elsewhere /\ UNCHANGED <<mode, local>>
  <2>1. UNCHANGED <<cfg, images, outcome, Disks, at, lib, mode, local>>
    BY <1>2 DEF Elsewhere, BagOfKnown, Known, Disks
  <2>2. "image_uuid" \in bag' <=> "image_uuid" \in bag
    BY <1>2 DEF Elsewhere, BagOfKnown, Known
  <2> QED
    BY <2>1, <2>2 DEF ArtInv, CapturePending, In, ScsiDisks
<1>3. CASE BuildVMRun
  <2>1. /\ mode = "run" /\ at = BuildVM /\ at' = at /\ mode' \in {"run", "next", "unwind"}
        /\ UNCHANGED <<cfg, images, outcome>>
        /\ bag' \cap {"image_uuid"} = bag \cap {"image_uuid"}
    <3>1. CASE UploadCD \/ UploadDisk \/ StartRequest
      BY <3>1 DEF UploadCD, UploadDisk, StartRequest, In, Goto, Halt, Return
    <3>2. CASE ReuseImage \/ DownloadImage \/ SkipDownload \/ BindDisk
      BY <3>2 DEF ReuseImage, DownloadImage, SkipDownload, BindDisk, In, Goto, Halt, Return, Crash
    <3>3. CASE FinishRequest \/ CreateVM \/ PowerOn
      BY <3>3 DEF FinishRequest, FinishPuts, CreateVM, PowerOn, PowerOnPuts, In, Goto, Halt,
         Continue, Return
    <3> QED
      BY <1>3, <3>1, <3>2, <3>3 DEF BuildVMRun
  <2>2. CapturePending /\ ~In(CreateImage, "save") /\ ~In(CreateImage, "save")'
    BY <2>1 DEF CapturePending, In, BuildVM, CreateImage
  <2>3. "image_uuid" \notin bag /\ "image_uuid" \notin bag' /\ images = <<>> /\ images' = <<>>
    BY <2>1, <2>2 DEF ArtInv
  <2>4. outcome' # "artifact"
    BY <2>1, <2>3 DEF ArtInv
  <2> QED
    BY <2>2, <2>3, <2>4 DEF ArtInv
<1>4. CASE ListDisks
  <2>1. /\ In(CreateImage, "body") /\ UNCHANGED <<cfg, images, outcome, lib, at>>
        /\ bag' \cap Known = bag \cap Known
    BY <1>4 DEF ListDisks, Goto, Halt, Return, Crash, Known
  <2>2. "image_uuid" \notin bag /\ images = <<>> /\ outcome # "artifact"
    BY <2>1 DEF ArtInv, CapturePending, In
  <2>3. UNCHANGED ScsiDisks /\ Cardinality(ScsiDisks) \in Nat
    BY <2>1, ScsiFinite DEF ScsiDisks, Disks, Known, Before
  <2>4. mode' = "unwind" \/ (mode' = mode /\ pc' = "save" /\ i' = 1 /\ ScsiDisks # {})
    BY <1>4 DEF ListDisks, Goto, Halt, Return, Crash
  <2>5. "image_uuid" \notin bag' /\ images' = <<>> /\ outcome' # "artifact" /\ Len(images') = 0
    BY <2>1, <2>2 DEF Known
  <2>6. CASE mode' = "unwind"
    BY <2>5, <2>6 DEF ArtInv, CapturePending, In
  <2>7. CASE mode' = mode /\ pc' = "save" /\ i' = 1 /\ ScsiDisks # {}
    <3>1. In(CreateImage, "save")'
      BY <2>1, <2>7 DEF In
    <3> QED
      BY <2>3, <2>5, <2>7, <3>1 DEF ArtInv
  <2> QED
    BY <2>4, <2>6, <2>7
<1>5. CASE SaveDisk
  <2>1. In(CreateImage, "save") /\ UNCHANGED <<cfg, outcome, at>>
        /\ bag' \cap Known = bag \cap Known /\ i <= Cardinality(ScsiDisks)
    BY <1>5 DEF SaveDisk, Goto, Halt, Return, Known
  <2>2. /\ "image_uuid" \notin bag /\ outcome # "artifact"
        /\ ScsiDisks # {} /\ i = Len(images) + 1
    BY <2>1 DEF ArtInv, CapturePending, In
  <2>3. UNCHANGED ScsiDisks /\ Cardinality(ScsiDisks) \in Nat
    BY <2>1, ScsiFinite DEF ScsiDisks, Disks, Known, Before
  <2>4. "image_uuid" \notin bag' /\ outcome' # "artifact"
    BY <2>1, <2>2 DEF Known
  <2>5. CASE mode' = "unwind" /\ images' = images
    <3>1. ~cfg'.imageDelete => \A n \in DOMAIN images' : images'[n] \in lib'
      BY <2>1, <2>5, OutputsStay DEF ArtInv
    <3> QED
      BY <2>4, <2>5, <3>1 DEF ArtInv, CapturePending, In
  <2>6. CASE /\ mode' = "run" /\ pc' = "save" /\ i' = i + 1
             /\ images' = Append(images, <<"out", i>>) /\ <<"out", i>> \in lib'
    <3>1. <<"out", i>> \in ImageId
      BY <1>0 DEF ImageId, Origin
    <3>2. /\ DOMAIN images' = DOMAIN images \cup {Len(images) + 1}
          /\ \A m \in DOMAIN images : images'[m] = images[m]
          /\ images'[Len(images) + 1] = <<"out", i>>
          /\ Len(images') = Len(images) + 1 /\ Len(images) \in Nat
      BY <1>0, <2>6, <3>1, Appended
    <3>3. ~cfg'.imageDelete => \A n \in DOMAIN images' : images'[n] \in lib'
      BY <2>1, <2>6, <3>2, OutputsStay DEF ArtInv
    <3>4. In(CreateImage, "save")'
      BY <2>1, <2>6 DEF In
    <3>5. i' = Len(images') + 1 /\ Len(images') <= Cardinality(ScsiDisks)'
      BY <1>0, <2>1, <2>2, <2>3, <2>6, <3>2
    <3> QED
      BY <2>2, <2>3, <2>4, <3>3, <3>4, <3>5 DEF ArtInv
  <2> QED
    BY <1>5, <2>5, <2>6 DEF SaveDisk, Goto, Halt, Return, In
<1>6. CASE PutImages
  <2>1. /\ In(CreateImage, "save") /\ UNCHANGED <<cfg, images, outcome, lib, at>>
        /\ bag' \cap {"cd_uuid"} = bag \cap {"cd_uuid"} /\ i > Cardinality(ScsiDisks)
        /\ mode' \in {"next", "unwind"}
    BY <1>6 DEF PutImages, Continue, Return
  <2>2. ScsiDisks # {} /\ i = Len(images) + 1 /\ Len(images) <= Cardinality(ScsiDisks)
    BY <2>1 DEF ArtInv
  <2>3. UNCHANGED ScsiDisks /\ Cardinality(ScsiDisks) \in Nat /\ Cardinality(ScsiDisks) > 0
    BY <2>1, <2>2, ScsiFinite DEF ScsiDisks, Disks, Before
  <2>4. Len(images) = Cardinality(ScsiDisks) /\ images # <<>>
    BY <1>0, <2>1, <2>2, <2>3
  <2>5. ~CapturePending' /\ ~In(CreateImage, "save")'
    BY <1>0, <2>1 DEF CapturePending, In
  <2>6. outcome' # "artifact"
    BY <2>1 DEF ArtInv, CapturePending, In
  <2> QED
    BY <2>1, <2>3, <2>4, <2>5, <2>6 DEF ArtInv
<1>7. CASE StartStep
  <2>1. /\ mode = "next" /\ mode' = "run" /\ UNCHANGED <<cfg, images, outcome, bag, pc, lib>>
        /\ at' > at /\ at' \in Nat
    BY <1>7, StepNumbers DEF StartStep, Listed
  <2>2. UNCHANGED Disks /\ pc' = "body"
    BY <1>0, <2>1 DEF Disks
  <2>3. CapturePending' => CapturePending /\ ~In(CreateImage, "save")
    BY <1>0, <2>1 DEF CapturePending, In, CreateImage
  <2> QED
    BY <2>1, <2>2, <2>3, ArtInvKept DEF In
<1>8. CASE StartCleanup
  <2>1. mode' = "cleanup" /\ UNCHANGED <<cfg, images, outcome, bag>>
    BY <1>8 DEF StartCleanup
  <2> QED
    BY <2>1, ArtInvKept DEF In, CapturePending, Disks
<1>9. CASE BuilderReturns
  <2>1. /\ mode' = "over" /\ UNCHANGED <<cfg, images, bag, lib>>
        /\ outcome' = "artifact" => "image_uuid" \in bag
    BY <1>9 DEF BuilderReturns
  <2> QED
    BY <2>1 DEF In, CapturePending, Disks, ScsiDisks, ArtInv
<1>10. CASE \/ CleanupImages \/ DeleteOutput
            \/ CleanupVM \/ DeleteMarked \/ DecideVM \/ DeleteVM
  <2>1. mode' # "run" /\ mode' # "next" /\ UNCHANGED <<cfg, images, outcome, bag>>
    BY <1>10 DEF CleanupImages, DeleteOutput, FailedDelete, CleanupVM, DeleteMarked, DecideVM, DeleteVM, Goto,
       CleanupDone, Cleaning
  <2> QED
    BY <2>1, ArtInvKept DEF In, CapturePending, Disks
<1> QED
  BY <1>1, <1>2, <1>3, <1>4, <1>5, <1>6, <1>7, <1>8, <1>9, <1>10, StepKinds

\* stepCreateImage reports one image for each disk, and none is lost.
THEOREM ArtInvariant == Spec => []ArtInv
<1>1. Init => ArtInv
  BY DEF Init, ArtInv, CapturePending, In
<1>2. Before /\ DelInv /\ ArtInv /\ [Next]_vars => ArtInv'
  <2>1. CASE UNCHANGED vars
    BY <2>1 DEF vars, ArtInv, CapturePending, In, Disks, ScsiDisks
  <2> QED
    BY <2>1, ArtInvNext
<1> QED
  BY <1>1, <1>2, BeforeInvariant, DelInvariant, PTL DEF Spec

(* The artifact names images that are all there, one for each disk.        *)
THEOREM ArtifactIsThere == Spec => []ArtifactExists
<1>1. ArtInv => ArtifactExists
  BY DEF ArtInv, ArtifactExists
<1> QED
  BY <1>1, ArtInvariant, PTL

-----------------------------------------------------------------------------
(* What is borrowed.  Until stepBuildVM reports the VM, an image it put in *)
(* the library for a disk is marked when CreateRequest is done with the    *)
(* disk; from then on its cleanup finds every such image in the marks.     *)

VMPending == mode \in {"next", "run"} /\ (at < BuildVM \/ (at = BuildVM /\ mode = "run"))

\* The build goes on, or has a cleanup that gives back what it borrowed.
Alive == mode \in {"next", "run"} \/ "vm_uuid" \in bag

Marked(s, x) == \E m \in DOMAIN s : s[m] = x

LEMMA MarkedMore ==
  ASSUME NEW s \in Seq(ImageId), NEW y \in ImageId
  PROVE  /\ \A x : Marked(s, x) => Marked(Append(s, y), x)
         /\ Marked(Append(s, y), y)
<1>1. Len(s) + 1 \in DOMAIN Append(s, y)
  BY Appended
<1> QED
  BY <1>1, Appended DEF Marked

Requesting ==
  mode = "run" /\ at = BuildVM /\ pc \in {"requestDisk", "bindDisk", "createVM", "powerOn"}

Processed(k) ==
  \/ "vm_uuid" \in bag
  \/ Requesting /\ (pc \in Requested \/ k < i)

BorrowInv ==
  /\ VMPending => "vm_uuid" \notin bag
  /\ \A k \in Nat : <<"path", k>> \in lib => k \in DOMAIN cfg.disks /\ cfg.disks[k].path
  /\ CDImage \in lib /\ Alive => "cd_uuid" \in bag
  /\ \A k \in Nat : <<"uri", k>> \in Borrowed \cap lib /\ Alive =>
                     Marked(marks, <<"uri", k>>)
  /\ \A k \in Nat : <<"path", k>> \in Borrowed \cap lib /\ Processed(k) =>
                     Marked(marks, <<"path", k>>)
  /\ In(BuildVM, "bindDisk") =>
       /\ i \in DOMAIN Disks
       /\ Disks[i].path /\ ~Disks[i].uri => img = <<"path", i>>
  /\ In(BuildVM, "requestDisk") => i # 0

LEMMA BorrowedDisk ==
  ASSUME Before, NEW o \in {"path", "uri"}, NEW k, <<o, k>> \in Borrowed
  PROVE  /\ k \in DOMAIN cfg.disks /\ k \in Nat \ {0}
         /\ cfg.disks[k].del /\ FromImage(cfg.disks[k])
         /\ ~(cfg.disks[k].path /\ cfg.disks[k].uri)
         /\ k \in DOMAIN Disks /\ Disks[k] = cfg.disks[k]
<1>1. /\ k \in DOMAIN cfg.disks
      /\ cfg.disks[k].del /\ FromImage(cfg.disks[k])
      /\ ~(cfg.disks[k].path /\ cfg.disks[k].uri)
  BY DEF Borrowed
<1> QED
  BY <1>1, DisksOf DEF Before

\* A step that neither borrows anything nor goes on with the request.
LEMMA BorrowKept ==
  ASSUME Before, BorrowInv,
         UNCHANGED <<cfg, marks>>,
         lib' \subseteq lib \cup {<<"out", k>> : k \in Nat},
         bag' \cap {"cd_uuid", "vm_uuid"} = bag \cap {"cd_uuid", "vm_uuid"},
         mode' \in {"next", "run"} => mode \in {"next", "run"},
         VMPending' => VMPending,
         Requesting' => Requesting /\ UNCHANGED local
  PROVE  BorrowInv'
<1>1. \A k : <<"path", k>> \in lib' => <<"path", k>> \in lib
  OBVIOUS
<1>2. \A k : <<"uri", k>> \in lib' => <<"uri", k>> \in lib
  OBVIOUS
<1>3. CDImage \in lib' => CDImage \in lib
  BY DEF CDImage
<1>4. UNCHANGED <<Disks, Borrowed>> /\ (Alive' => Alive)
  BY DEF Disks, Borrowed, Alive
<1>5. \A x : Marked(marks, x) => Marked(marks', x)
  BY DEF Marked
<1>6. \A k : Processed(k)' => Processed(k)
  BY DEF Processed
<1>7. /\ In(BuildVM, "bindDisk")' => In(BuildVM, "bindDisk") /\ UNCHANGED local
      /\ In(BuildVM, "requestDisk")' => In(BuildVM, "requestDisk") /\ UNCHANGED local
  BY DEF In, Requesting
<1> QED
  BY <1>1, <1>2, <1>3, <1>4, <1>5, <1>6, <1>7 DEF BorrowInv

\* What stepBuildVM puts in the library from a path is from a disk with one.
LEMMA PathGains ==
  ASSUME Before, BuildVMRun, NEW k \in Nat, <<"path", k>> \in lib' \ lib
  PROVE  k \in DOMAIN cfg.disks /\ cfg.disks[k].path
<1>1. CASE UploadDisk
  <2>1. k = i /\ i \in DOMAIN Disks /\ Disks[i].path
    BY <1>1 DEF UploadDisk
  <2> QED
    BY <2>1, DisksOf DEF Before, CDDisk
<1>2. CASE UploadCD \/ DownloadImage
  BY <1>2 DEF UploadCD, DownloadImage, CDImage
<1> QED
  BY <1>1, <1>2 DEF BuildVMRun, StartRequest, ReuseImage, SkipDownload, BindDisk, FinishRequest,
     CreateVM, PowerOn

\* A step of stepBuildVM that goes on and marks nothing.
LEMMA RequestKept ==
  ASSUME Before, BorrowInv, BuildVMRun,
         mode' = "run", at' = BuildVM, UNCHANGED <<cfg, marks>>, "vm_uuid" \notin bag',
         CDImage \in lib' => "cd_uuid" \in bag',
         \A k \in Nat : <<"uri", k>> \in lib' => <<"uri", k>> \in lib,
         \A k \in Nat : <<"path", k>> \in Borrowed \cap lib' /\ Processed(k)' =>
                          <<"path", k>> \in lib /\ Processed(k),
         In(BuildVM, "bindDisk")' =>
           /\ i' \in DOMAIN Disks'
           /\ Disks'[i'].path /\ ~Disks'[i'].uri => img' = <<"path", i'>>,
         In(BuildVM, "requestDisk")' => i' # 0
  PROVE  BorrowInv'
<1>1. mode = "run"
  BY DEF BuildVMRun, UploadCD, UploadDisk, StartRequest, ReuseImage, DownloadImage, SkipDownload,
     BindDisk, FinishRequest, CreateVM, PowerOn, In
<1>2. Borrowed' = Borrowed /\ Alive /\ \A x : Marked(marks, x) => Marked(marks', x)
  BY <1>1 DEF Borrowed, Alive, Marked
<1>3. \A k \in Nat : <<"path", k>> \in lib' => k \in DOMAIN cfg.disks /\ cfg.disks[k].path
  BY PathGains DEF BorrowInv
<1> QED
  BY <1>2, <1>3 DEF BorrowInv

LEMMA BorrowRequest ==
  ASSUME Before, BorrowInv, BuildVMRun
  PROVE  BorrowInv'
<1>0. /\ mode = "run" /\ at = BuildVM /\ "vm_uuid" \notin bag
      /\ i \in Nat /\ i + 1 \in Nat /\ Alive /\ cfg' = cfg
  <2>1. mode = "run" /\ at = BuildVM /\ cfg' = cfg
    BY DEF BuildVMRun, UploadCD, UploadDisk, StartRequest, ReuseImage, DownloadImage, SkipDownload,
       BindDisk, FinishRequest, CreateVM, PowerOn, In
  <2> QED
    BY <2>1 DEF BorrowInv, VMPending, Alive, Before, TypeOK
<1>b. bag' = bag /\ cfg' = cfg => Disks' = Disks
  BY DEF Disks
<1>d. /\ DOMAIN Disks \subseteq Nat \ {0}
      /\ \A k \in Nat \ {0} : k \notin DOMAIN Disks => \A l \in DOMAIN cfg.disks : l < k
  BY DisksOf DEF Before
<1>1. CASE Stops
  <2>1. mode' = "unwind" /\ "vm_uuid" \notin bag'
    BY <1>0, <1>1 DEF Stops, BagOfKnown, Known
  <2>2. ~Alive' /\ ~VMPending' /\ \A k : ~Processed(k)'
    BY <2>1 DEF Alive, VMPending, Processed, Requesting
  <2>3. \A k \in Nat : <<"path", k>> \in lib' => k \in DOMAIN cfg.disks /\ cfg.disks[k].path
    BY PathGains DEF BorrowInv
  <2> QED
    BY <1>0, <2>1, <2>2, <2>3 DEF BorrowInv, In
<1>2. CASE UploadCD /\ ~Stops
  <2>1. /\ mode' = "run" /\ at' = BuildVM /\ UNCHANGED <<cfg, marks>> /\ pc' = "uploadDisk"
        /\ bag' \subseteq bag \cup {"cd_uuid"} /\ bag \subseteq bag'
        /\ lib' = lib \/ (lib' = lib \cup {CDImage} /\ "cd_uuid" \in bag')
    BY <1>2, StopsHere DEF UploadCD, In, Goto
  <2>2. ~Requesting' /\ \A k : ~Processed(k)'
    BY <1>0, <2>1 DEF Requesting, Processed
  <2>3. CDImage \in lib' => "cd_uuid" \in bag'
    BY <1>0, <2>1 DEF BorrowInv
  <2> QED
    BY <1>0, <2>1, <2>2, <2>3, RequestKept DEF In, CDImage
<1>3. CASE UploadDisk /\ ~Stops
  <2>1. /\ mode' = "run" /\ at' = BuildVM /\ UNCHANGED <<cfg, marks, bag>> /\ pc' = "uploadDisk"
        /\ lib' = lib \/ lib' = lib \cup {<<"path", i>>}
    BY <1>3, StopsHere DEF UploadDisk, In, Goto
  <2>2. ~Requesting' /\ \A k : ~Processed(k)'
    BY <1>0, <2>1 DEF Requesting, Processed
  <2>3. CDImage \in lib' => "cd_uuid" \in bag'
    BY <1>0, <2>1 DEF BorrowInv, CDImage
  <2> QED
    BY <1>0, <2>1, <2>2, <2>3, RequestKept DEF In
<1>4. CASE StartRequest /\ ~Stops
  <2>1. /\ mode' = "run" /\ at' = BuildVM /\ UNCHANGED <<cfg, marks, bag, lib>>
        /\ pc' = "requestDisk" /\ i' = 1
    BY <1>4, StopsHere DEF StartRequest, In, Goto
  <2>2. \A k \in Nat : <<"path", k>> \in Borrowed => ~Processed(k)'
    BY <1>0, <2>1, BorrowedDisk DEF Requesting, Processed, Requested
  <2>3. CDImage \in lib' => "cd_uuid" \in bag'
    BY <1>0, <2>1 DEF BorrowInv
  <2> QED
    BY <1>0, <2>1, <2>2, <2>3, RequestKept DEF In
<1>5. CASE (ReuseImage \/ DownloadImage) /\ ~Stops
  <2>1. PICK o \in {"user", "uri"} :
           /\ UNCHANGED <<cfg, bag>> /\ Goto("bindDisk", i, <<o, i>>) /\ i \in DOMAIN Disks
           /\ marks' = Mark(Disks[i], <<o, i>>)
           /\ lib' \subseteq lib \cup (IF o = "uri" THEN {<<"uri", i>>} ELSE {})
           /\ Disks[i].uri
    <3>1. CASE ReuseImage
      BY <1>5, <3>1, ReuseMarks DEF ReuseImage
    <3>2. CASE DownloadImage
      <4>1. lib' \subseteq lib \cup {<<"uri", i>>} /\ Disks[i].uri
        BY <3>2 DEF DownloadImage
      <4> QED
        BY <1>5, <3>2, <4>1, DownloadMarks
    <3> QED
      BY <1>5, <3>1, <3>2
  <2>2. /\ mode' = "run" /\ at' = BuildVM /\ pc' = "bindDisk" /\ i' = i /\ Disks' = Disks
        /\ pc = "requestDisk" /\ Borrowed' = Borrowed
    BY <1>0, <1>5, <2>1 DEF Goto, Disks, ReuseImage, DownloadImage, In, Borrowed
  <2>3. marks \in Seq(ImageId) /\ <<"user", i>> \in ImageId /\ <<"uri", i>> \in ImageId
    BY <1>0 DEF Before, TypeOK, ImageId, Origin
  <2>4. /\ \A x : Marked(marks, x) => Marked(marks', x)
        /\ Disks[i].del => Marked(marks', <<o, i>>)
    BY <2>1, <2>3, MarkedMore DEF Mark
  <2>5. \A k \in Nat : <<"uri", k>> \in Borrowed \cap lib' => Marked(marks', <<"uri", k>>)
    <3> SUFFICES ASSUME NEW k \in Nat, <<"uri", k>> \in Borrowed \cap lib'
                 PROVE  Marked(marks', <<"uri", k>>)
      OBVIOUS
    <3>1. CASE <<"uri", k>> \in lib
      BY <1>0, <2>4, <3>1 DEF BorrowInv
    <3>2. CASE k = i /\ o = "uri"
      BY <2>4, <3>2, BorrowedDisk
    <3> QED
      BY <2>1, <3>1, <3>2
  <2>6. \A k : Processed(k)' => Processed(k)
    BY <1>0, <2>1, <2>2 DEF Processed, Requesting, Requested
  <2>7. \A k \in Nat : <<"path", k>> \in Borrowed \cap lib' /\ Processed(k)' =>
          Marked(marks', <<"path", k>>)
    BY <2>1, <2>4, <2>6 DEF BorrowInv
  <2>8. \A k \in Nat : <<"path", k>> \in lib' => k \in DOMAIN cfg.disks /\ cfg.disks[k].path
    BY PathGains DEF BorrowInv
  <2>9. CDImage \in lib' => "cd_uuid" \in bag'
    BY <1>0, <2>1 DEF BorrowInv, CDImage
  <2> QED
    BY <1>0, <2>1, <2>2, <2>5, <2>7, <2>8, <2>9 DEF BorrowInv, In, VMPending
<1>6. CASE SkipDownload
  <2>1. /\ mode' = "run" /\ at' = BuildVM /\ UNCHANGED <<cfg, marks, bag, lib>> /\ Disks' = Disks
        /\ i \in DOMAIN Disks /\ pc = "requestDisk"
        /\ \/ ~FromImage(Disks[i]) /\ pc' = "requestDisk" /\ i' = i + 1
           \/ /\ pc' = "bindDisk" /\ i' = i
              /\ img' = IF Disks[i].path THEN <<"path", i>> ELSE NoImage
    BY <1>0, <1>6 DEF SkipDownload, In, Goto, Disks
  <2>2. \A k \in Nat : <<"path", k>> \in Borrowed /\ Processed(k)' => Processed(k)
    <3> SUFFICES ASSUME NEW k \in Nat, <<"path", k>> \in Borrowed, Processed(k)'
                 PROVE  Processed(k)
      OBVIOUS
    <3>1. k < i' /\ FromImage(Disks[k])
      BY <1>0, <2>1, BorrowedDisk DEF Processed, Requested
    <3>2. k < i
      BY <1>0, <2>1, <3>1
    <3> QED
      BY <1>0, <2>1, <3>2 DEF Processed, Requesting
  <2>3. CDImage \in lib' => "cd_uuid" \in bag'
    BY <1>0, <2>1 DEF BorrowInv
  <2> QED
    BY <1>0, <2>1, <2>2, <2>3, RequestKept DEF In
<1>7. CASE BindDisk /\ ~Stops
  <2>1. /\ mode' = "run" /\ at' = BuildVM /\ UNCHANGED <<cfg, bag, lib>> /\ Disks' = Disks
        /\ pc' = "requestDisk" /\ i' = i + 1 /\ pc = "bindDisk"
        /\ marks' = IF MarksUploaded(Disks[i]) THEN Append(marks, img) ELSE marks
    BY <1>0, <1>7, BindMarks DEF BindDisk, In, Goto, Disks
  <2>2. marks \in Seq(ImageId) /\ img \in ImageId /\ Borrowed' = Borrowed
    BY <2>1 DEF Before, TypeOK, Borrowed
  <2>3. /\ \A x : Marked(marks, x) => Marked(marks', x)
        /\ MarksUploaded(Disks[i]) => Marked(marks', img)
    BY <2>1, <2>2, MarkedMore
  <2>4. \A k \in Nat : <<"path", k>> \in Borrowed \cap lib /\ Processed(k)' =>
          Marked(marks', <<"path", k>>)
    <3> SUFFICES ASSUME NEW k \in Nat, <<"path", k>> \in Borrowed \cap lib, Processed(k)'
                 PROVE  Marked(marks', <<"path", k>>)
      OBVIOUS
    <3>1. k < i + 1
      BY <1>0, <2>1 DEF Processed, Requested
    <3>2. CASE k < i
      <4>1. Processed(k)
        BY <1>0, <2>1, <3>2 DEF Processed, Requesting
      <4> QED
        BY <2>3, <4>1 DEF BorrowInv
    <3>3. CASE k = i
      <4>1. Disks[i].path /\ Disks[i].del /\ ~Disks[i].uri
        BY <3>3, BorrowedDisk DEF BorrowInv
      <4>2. img = <<"path", i>>
        BY <1>0, <2>1, <4>1 DEF BorrowInv, In
      <4> QED
        BY <2>3, <3>3, <4>1, <4>2 DEF MarksUploaded
    <3> QED
      BY <1>0, <3>1, <3>2, <3>3
  <2>5. \A k \in Nat : <<"uri", k>> \in Borrowed \cap lib => Marked(marks', <<"uri", k>>)
    BY <1>0, <2>3 DEF BorrowInv
  <2> QED
    BY <1>0, <2>1, <2>2, <2>4, <2>5 DEF BorrowInv, In, VMPending
<1>8. CASE FinishRequest /\ ~Stops
  <2>1. /\ mode' = "run" /\ at' = BuildVM /\ UNCHANGED <<cfg, marks, lib>>
        /\ bag' = bag \cup {"image_to_delete"} /\ pc' = "createVM"
        /\ i \notin DOMAIN Disks /\ In(BuildVM, "requestDisk")
    BY <1>8, StopsHere DEF FinishRequest, FinishPuts, In, Goto
  <2>2. \A k \in Nat : <<"path", k>> \in Borrowed => Processed(k)
    <3>1. i # 0
      BY <2>1 DEF BorrowInv
    <3>2. \A l \in DOMAIN cfg.disks : l < i
      BY <1>0, <1>d, <2>1, <3>1
    <3> QED
      BY <2>1, <3>2, BorrowedDisk DEF Processed, Requesting, In
  <2>3. CDImage \in lib' => "cd_uuid" \in bag'
    BY <1>0, <2>1 DEF BorrowInv
  <2> QED
    BY <1>0, <2>1, <2>2, <2>3, RequestKept DEF In
<1>9. CASE CreateVM /\ ~Stops
  <2>1. /\ mode' = "run" /\ at' = BuildVM /\ UNCHANGED <<cfg, marks, lib, bag>>
        /\ pc' = "powerOn" /\ In(BuildVM, "createVM")
    BY <1>9, StopsHere DEF CreateVM, In, Goto
  <2>2. \A k \in Nat : Processed(k)
    BY <2>1 DEF Processed, Requesting, Requested, In
  <2>3. CDImage \in lib' => "cd_uuid" \in bag'
    BY <1>0, <2>1 DEF BorrowInv
  <2> QED
    BY <1>0, <2>1, <2>2, <2>3, RequestKept DEF In
<1>10. CASE PowerOn /\ ~Stops
  <2>1. /\ mode' \in {"next", "unwind"} /\ UNCHANGED <<cfg, marks, lib, at>>
        /\ bag' = bag \cup {"vm_uuid"} /\ In(BuildVM, "powerOn")
    BY <1>10, StopsHere DEF PowerOn, PowerOnPuts, In, Continue, Return
  <2>2. \A k \in Nat : Processed(k)
    BY <2>1 DEF Processed, Requesting, Requested, In
  <2>3. Borrowed' = Borrowed /\ (\A x : Marked(marks', x) <=> Marked(marks, x)) /\ ~VMPending'
    BY <1>0, <2>1 DEF Borrowed, Marked, VMPending, BuildVM
  <2> QED
    BY <1>0, <2>1, <2>2, <2>3 DEF BorrowInv, In
<1> QED
  BY <1>1, <1>2, <1>3, <1>4, <1>5, <1>6, <1>7, <1>8, <1>9, <1>10 DEF BuildVMRun

LEMMA BorrowInvNext ==
  ASSUME Before, BorrowInv, Next
  PROVE  BorrowInv'
<1>0. /\ mode = "unwind" => pc = "body"
      /\ mode = "next" => pc = "body"
      /\ at \in Nat
  BY DEF Before, KeptInv, RequestKnown, TypeOK
<1>1. CASE Elsewhere
  <2>1. /\ UNCHANGED <<cfg, marks, lib>>
        /\ bag' \cap {"cd_uuid", "vm_uuid"} = bag \cap {"cd_uuid", "vm_uuid"}
    BY <1>1 DEF Elsewhere, BagOfKnown, Known
  <2>2. CASE UNCHANGED <<mode, local>>
    BY <1>1, <2>1, <2>2, BorrowKept DEF Elsewhere, VMPending, Requesting
  <2>3. CASE mode = "run" /\ at \notin {BuildVM, CreateImage} /\ mode' \in {"run", "next", "unwind"}
    BY <1>0, <1>1, <2>1, <2>3, BorrowKept DEF Elsewhere, VMPending, Requesting, BuildVM
  <2>4. CASE mode' = "unwind"
    BY <2>1, <2>4, BorrowKept DEF VMPending, Requesting
  <2> QED
    BY <1>1, <2>2, <2>3, <2>4 DEF Elsewhere
<1>2. CASE ListDisks \/ SaveDisk \/ PutImages
  <2>1. CASE ListDisks \/ PutImages
    <3>1. /\ mode = "run" /\ at = CreateImage /\ at' = at /\ UNCHANGED <<cfg, marks, lib>>
          /\ bag' \cap {"cd_uuid", "vm_uuid"} = bag \cap {"cd_uuid", "vm_uuid"}
      BY <2>1 DEF ListDisks, PutImages, In, Goto, Halt, Continue, Return, Crash
    <3> QED
      BY <3>1, BorrowKept DEF VMPending, Requesting, BuildVM, CreateImage
  <2>2. CASE SaveDisk
    <3>1. /\ mode = "run" /\ at = CreateImage /\ at' = at /\ UNCHANGED <<cfg, marks>>
          /\ bag' \cap {"cd_uuid", "vm_uuid"} = bag \cap {"cd_uuid", "vm_uuid"}
      BY <2>2 DEF SaveDisk, In, Goto, Halt, Return
    <3>2. lib' \subseteq lib \cup {<<"out", k>> : k \in Nat}
      BY <2>2 DEF SaveDisk, Before, TypeOK
    <3> QED
      BY <3>1, <3>2, BorrowKept DEF VMPending, Requesting, BuildVM, CreateImage
  <2> QED
    BY <1>2, <2>1, <2>2
<1>3. CASE StartStep
  <2>1. /\ mode = "next" /\ mode' = "run" /\ UNCHANGED <<cfg, marks, lib, bag, pc>>
        /\ at' > at /\ at' \in Nat
    BY <1>3, StepNumbers DEF StartStep, Listed
  <2> QED
    BY <1>0, <2>1, BorrowKept DEF VMPending, Requesting, BuildVM
<1>4. CASE StartCleanup \/ BuilderReturns
  <2>1. mode' \in {"cleanup", "over"} /\ UNCHANGED <<cfg, marks, lib, bag>>
    BY <1>4 DEF StartCleanup, BuilderReturns
  <2> QED
    BY <2>1, BorrowKept DEF VMPending, Requesting
<1>5. CASE \/ CleanupImages \/ DeleteOutput
           \/ CleanupVM \/ DeleteMarked \/ DecideVM \/ DeleteVM
  <2>1. /\ mode' \in {"cleanup", "unwind"} /\ UNCHANGED <<cfg, marks, bag>>
        /\ lib' \subseteq lib
    BY <1>5 DEF CleanupImages, DeleteOutput, FailedDelete, CleanupVM, DeleteMarked, DecideVM, DeleteVM,
       Goto, CleanupDone, Cleaning, Discard
  <2> QED
    BY <2>1, BorrowKept DEF VMPending, Requesting
<1> QED
  BY <1>1, <1>2, <1>3, <1>4, <1>5, BorrowRequest, StepKinds

\* Every image borrowed for a disk is marked once the VM is reported.
THEOREM BorrowInvariant == Spec => []BorrowInv
<1>1. Init => BorrowInv
  BY DEF Init, BorrowInv, VMPending, Alive, Borrowed, Processed, In, CDImage
<1>2. Before /\ BorrowInv /\ [Next]_vars => BorrowInv'
  <2>1. CASE UNCHANGED vars
    BY <2>1 DEF vars, BorrowInv, VMPending, Alive, Borrowed, Processed, Requesting, In, CDImage,
       Disks
  <2> QED
    BY <2>1, BorrowInvNext
<1> QED
  BY <1>1, <1>2, BeforeInvariant, PTL DEF Spec

-----------------------------------------------------------------------------
(* What is given back.  Once the VM is reported, the cleanup of            *)
(* stepBuildVM is to come, or has tried the CD and the marks it is past,   *)
(* or has tried everything.                                                *)

AllTried == (Borrowed \cup {CDImage}) \cap lib \subseteq tried

GivingBack ==
  /\ mode = "cleanup" /\ at = BuildVM
  /\ \/ pc = "body"
     \/ /\ pc = "deleteMarked" /\ i # 0
        /\ CDImage \in lib => CDImage \in tried
        /\ \A m \in DOMAIN marks : m < i => marks[m] \in tried
     \/ pc = "deleteVM" /\ AllTried

TriedInv ==
  "vm_uuid" \in bag => BuildVM \in deferred \/ GivingBack \/ AllTried

LEMMA MarkedAll ==
  ASSUME Before, BorrowInv, "vm_uuid" \in bag,
         CDImage \in lib => CDImage \in tried,
         \A m \in DOMAIN marks : marks[m] \in tried
  PROVE  AllTried
<1> SUFFICES ASSUME NEW x \in Borrowed, x \in lib
             PROVE  x \in tried
  BY DEF AllTried
<1>1. PICK o \in {"path", "uri"}, k \in DOMAIN cfg.disks : x = <<o, k>>
  BY DEF Borrowed
<1>2. k \in Nat
  BY DisksOf DEF Before
<1>3. Marked(marks, x)
  BY <1>1, <1>2 DEF BorrowInv, Alive, Processed
<1> QED
  BY <1>3 DEF Marked

\* A step after which everything is still tried.
LEMMA TriedKept ==
  ASSUME UNCHANGED cfg, tried \subseteq tried',
         lib' \subseteq lib \cup {<<"out", k>> : k \in Nat}, AllTried
  PROVE  AllTried'
<1>1. Borrowed' = Borrowed
  BY DEF Borrowed
<1>2. \A x \in Borrowed \cup {CDImage} : x \notin {<<"out", k>> : k \in Nat}
  BY DEF Borrowed, CDImage
<1> QED
  BY <1>1, <1>2 DEF AllTried

\* stepBuildVM's own cleanup.
LEMMA GivesBack ==
  ASSUME Before, BorrowInv, TriedInv, CleanupVM \/ DeleteMarked \/ DecideVM \/ DeleteVM
  PROVE  TriedInv'
<1> SUFFICES ASSUME "vm_uuid" \in bag'
             PROVE  BuildVM \in deferred' \/ GivingBack' \/ AllTried'
  BY DEF TriedInv
<1>0. /\ mode = "cleanup" /\ at = BuildVM /\ UNCHANGED <<cfg, marks, bag, deferred, at>>
      /\ "vm_uuid" \in bag /\ tried \subseteq tried' /\ lib' \subseteq lib
      /\ i \in Nat /\ DOMAIN marks = 1..Len(marks) /\ Len(marks) \in Nat
  <2>1. /\ mode = "cleanup" /\ at = BuildVM /\ UNCHANGED <<cfg, marks, bag, deferred, at>>
        /\ tried \subseteq tried' /\ lib' \subseteq lib
    BY DEF CleanupVM, DeleteMarked, DecideVM, DeleteVM, Goto, CleanupDone, Cleaning, Discard
  <2> QED
    BY <2>1 DEF Before, TypeOK
<1>1. SUFFICES ASSUME GivingBack PROVE GivingBack' \/ AllTried'
  BY <1>0, TriedKept DEF TriedInv
<1>2. CASE CleanupVM
  <2>1. /\ mode' = mode /\ pc' = "deleteMarked" /\ i' = 1
        /\ "cd_uuid" \in bag => CDImage \in tried'
        /\ "cd_uuid" \notin bag => lib' = lib
    BY <1>0, <1>2 DEF CleanupVM, Goto, Discard
  <2>2. CDImage \in lib' => CDImage \in tried'
    BY <1>0, <2>1 DEF BorrowInv, Alive
  <2> QED
    BY <1>0, <2>1, <2>2 DEF GivingBack
<1>3. CASE DeleteMarked
  <2>1. /\ mode' = mode /\ pc = "deleteMarked" /\ pc' = "deleteMarked" /\ i' = i + 1
        /\ tried' = tried \cup {marks[i]}
    BY <1>3 DEF DeleteMarked, Goto, Discard, Cleaning
  <2>2. /\ i # 0 /\ (CDImage \in lib => CDImage \in tried)
        /\ \A m \in DOMAIN marks : m < i => marks[m] \in tried
    BY <1>1, <2>1 DEF GivingBack
  <2>3. \A m \in DOMAIN marks : m < i + 1 => marks[m] \in tried'
    BY <1>0, <2>1, <2>2
  <2> QED
    BY <1>0, <2>1, <2>2, <2>3 DEF GivingBack
<1>4. CASE DecideVM
  <2>1. i \notin DOMAIN marks /\ pc = "deleteMarked" /\ UNCHANGED <<lib, tried>>
    BY <1>4 DEF DecideVM, Cleaning
  <2>2. \A m \in DOMAIN marks : marks[m] \in tried
    BY <1>0, <1>1, <2>1 DEF GivingBack
  <2>3. AllTried
    BY <1>0, <1>1, <2>1, <2>2, MarkedAll DEF GivingBack
  <2> QED
    BY <1>0, <2>1, <2>3, TriedKept
<1>5. CASE DeleteVM
  <2>1. AllTried
    BY <1>1, <1>5 DEF DeleteVM, Cleaning, GivingBack
  <2> QED
    BY <1>0, <2>1, TriedKept
<1> QED
  BY <1>2, <1>3, <1>4, <1>5

\* While the build goes on, the cleanup of a step that returned is deferred.
LEMMA StillDeferred ==
  ASSUME BagInv, LeftInv, BorrowInv, mode \in {"next", "run"}, "vm_uuid" \in bag
  PROVE  BuildVM \in deferred
<1>1. BuildVM \in Listed(cfg)
  BY StepNumbers DEF Listed, BuildVM, CleanVM, CreateImage, ExportImage, CreateTemplate,
     CreateOVA, ExportOVA
<1>2. at \in Nat /\ BuildVM \in Nat
  BY FromBagInv DEF BuildVM
<1>3. Done(BuildVM)
  BY <1>2 DEF BorrowInv, VMPending, Done
<1> QED
  BY <1>1, <1>3 DEF LeftInv

LEMMA TriedInvNext ==
  ASSUME BagInv, KeptInv, LeftInv, BorrowInv, TriedInv, Next
  PROVE  TriedInv'
<1>0. /\ Before /\ (mode = "unwind" => pc = "body")
  BY DEF Before, BagInv, KeptInv
<1>1. CASE Elsewhere
  <2>1. /\ UNCHANGED <<cfg, marks, lib, tried, at>> /\ deferred \subseteq deferred'
        /\ "vm_uuid" \in bag' => "vm_uuid" \in bag
    BY <1>1 DEF Elsewhere, BagOfKnown, Known
  <2>2. UNCHANGED <<Borrowed, AllTried>>
    BY <2>1 DEF Borrowed, AllTried
  <2>3. GivingBack => GivingBack'
    BY <1>1, <2>1, <2>2 DEF Elsewhere, GivingBack
  <2> QED
    BY <2>1, <2>2, <2>3 DEF TriedInv
<1>2. CASE BuildVMRun
  <2>1. /\ mode = "run" /\ at = BuildVM
        /\ "vm_uuid" \in bag' => "vm_uuid" \in bag \/ BuildVM \in deferred'
    <3>1. CASE UploadCD \/ UploadDisk \/ StartRequest
      BY <3>1 DEF UploadCD, UploadDisk, StartRequest, In, Goto, Halt, Return
    <3>2. CASE ReuseImage \/ DownloadImage \/ SkipDownload \/ BindDisk
      BY <3>2 DEF ReuseImage, DownloadImage, SkipDownload, BindDisk, In, Goto, Halt, Return, Crash
    <3>3. CASE FinishRequest \/ CreateVM \/ PowerOn
      BY <3>3 DEF FinishRequest, FinishPuts, CreateVM, PowerOn, PowerOnPuts, In, Goto, Halt,
         Continue, Return
    <3> QED
      BY <1>2, <3>1, <3>2, <3>3 DEF BuildVMRun
  <2>2. "vm_uuid" \notin bag
    BY <2>1 DEF BorrowInv, VMPending
  <2> QED
    BY <2>1, <2>2 DEF TriedInv
<1>3. CASE ListDisks \/ SaveDisk \/ PutImages
  <2>1. /\ mode = "run" /\ deferred \subseteq deferred'
        /\ "vm_uuid" \in bag' => "vm_uuid" \in bag
    BY <1>3 DEF ListDisks, SaveDisk, PutImages, In, Goto, Halt, Continue, Return, Crash
  <2> QED
    BY <2>1, StillDeferred DEF TriedInv
<1>4. CASE StartStep
  BY <1>4, StillDeferred DEF StartStep, TriedInv
<1>5. CASE StartCleanup
  <2>1. /\ mode = "unwind" /\ mode' = "cleanup" /\ UNCHANGED <<cfg, bag, marks, lib, tried, pc>>
        /\ deferred \subseteq deferred' \cup {at'}
    BY <1>5 DEF StartCleanup
  <2>2. AllTried' = AllTried
    BY <2>1 DEF Borrowed, AllTried
  <2>3. ~GivingBack
    BY <2>1 DEF GivingBack
  <2> QED
    BY <1>0, <2>1, <2>2, <2>3 DEF TriedInv, GivingBack
<1>6. CASE BuilderReturns
  <2>1. /\ mode = "unwind" /\ UNCHANGED <<cfg, bag, lib, tried, deferred>>
    BY <1>6 DEF BuilderReturns
  <2>2. AllTried' = AllTried /\ ~GivingBack
    BY <2>1 DEF Borrowed, AllTried, GivingBack
  <2> QED
    BY <2>1, <2>2 DEF TriedInv
<1>7. CASE CleanupImages \/ DeleteOutput
  <2>1. /\ at = CreateImage /\ UNCHANGED <<cfg, bag, deferred>>
        /\ tried \subseteq tried' /\ lib' \subseteq lib
    BY <1>7 DEF CleanupImages, DeleteOutput, FailedDelete, Goto, CleanupDone, Cleaning, Discard
  <2>2. ~GivingBack
    BY <2>1 DEF GivingBack, BuildVM, CreateImage
  <2> QED
    BY <2>1, <2>2, TriedKept DEF TriedInv
<1> QED
  BY <1>0, <1>1, <1>2, <1>3, <1>4, <1>5, <1>6, <1>7, GivesBack, StepKinds

\* Once the VM is reported, all that was borrowed is or will be tried.
THEOREM TriedInvariant == Spec => []TriedInv
<1>1. Init => TriedInv
  BY DEF Init, TriedInv
<1>2. BagInv /\ KeptInv /\ LeftInv /\ BorrowInv /\ TriedInv /\ [Next]_vars => TriedInv'
  <2>1. CASE UNCHANGED vars
    BY <2>1 DEF vars, TriedInv, GivingBack, AllTried, Borrowed
  <2> QED
    BY <2>1, TriedInvNext
<1> QED
  BY <1>1, <1>2, BagInvariant, KeptInvariant, LeftInvariant, BorrowInvariant, PTL DEF Spec

(* Once the VM was reported, every borrowed image and the CD are given to  *)
(* DeleteImage before the build is over, however it ends.                  *)
THEOREM BorrowedGivenBack == Spec => []BorrowedImagesDeleted
<1>1. LeftInv /\ TriedInv => BorrowedImagesDeleted
  BY DEF LeftInv, TriedInv, GivingBack, AllTried, BorrowedImagesDeleted
<1> QED
  BY <1>1, LeftInvariant, TriedInvariant, PTL

=============================================================================
