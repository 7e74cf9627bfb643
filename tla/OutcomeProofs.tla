--------------------------- MODULE OutcomeProofs ----------------------------
(***************************************************************************)
(* What a build leaves behind, for every set of configurations: why it     *)
(* stopped, the CD-ROMs of the VM it captures, whether the VM is deleted   *)
(* or kept; and that it ends: its cleanups come last in first out, no step *)
(* is taken for ever, and it never stops half-way.  The proofs rest on the *)
(* shapes of the steps and the invariant BagInv of module BuildProofs.     *)
(***************************************************************************)
EXTENDS BuildProofs, FiniteSetTheorems, WellFoundedInduction

USE DEF runner, local, prism, env

Deleted == {"deleted", "delete_failed"}

\* What all the proofs below take from BagInv.
LEMMA FromBagInv ==
  ASSUME BagInv
  PROVE  TypeOK /\ RequestKnown /\ StepsGave /\ at \in Nat /\ Listed(cfg) \subseteq Nat
<1>1. TypeOK
  BY DEF BagInv
<1> QED
  BY <1>1 DEF BagInv, TypeOK, Listed, Step

\* When Run returns, the build goes on only if it is not cancelled.
LEMMA Completed ==
  ASSUME Completes
  PROVE  /\ bag' \cap Verdict = bag \cap Verdict
         /\ UNCHANGED <<at, panicking>> /\ deferred' = deferred \cup {at}
         /\ mode' = IF "cancelled" \in bag THEN "unwind" ELSE "next"
         /\ pc' = "body"
  BY DEF Completes, Continue, Return, Leave, Verdict

LEMMA Halted ==
  ASSUME Halts
  PROVE  /\ "error" \in bag' => "error" \in bag \/ "halted" \in bag' \/ "cancelled" \in bag'
         /\ "halted" \in bag' \/ "cancelled" \in bag'
         /\ bag \subseteq bag'
         /\ "error" \in bag' \/ ctxDone \/ signalled' \/ at = CleanVM
         /\ UNCHANGED <<at, panicking>>
         /\ mode' = "unwind" /\ pc' = "body"
  BY DEF Halts, Halt, Return, Leave

LEMMA WentOn ==
  ASSUME GoesOn
  PROVE  bag' \cap Verdict = bag \cap Verdict /\ UNCHANGED runner
  BY DEF GoesOn, Goto, Verdict

-----------------------------------------------------------------------------
(* Why a build stopped.                                                    *)

\* The user's interruptions are not taken back, and the CD-ROMs that Prism
\* Central shows without an identifier are the same throughout.
LEMMA InterruptsStay ==
  ASSUME TypeOK, Next
  PROVE  (ctxDone => ctxDone') /\ (signalled => signalled') /\ nameless' = nameless
<1>1. CASE Frame
  BY <1>1 DEF Frame
<1>2. CASE UploadCD \/ UploadDisk \/ ReuseImage \/ DownloadImage \/ BindDisk
           \/ CreateVM \/ PowerOn \/ StopVM \/ RemoveCdRom \/ SaveDisk
  BY <1>2 DEF UploadCD, UploadDisk, ReuseImage, DownloadImage, BindDisk, CreateVM, PowerOn,
     StopVM, RemoveCdRom, SaveDisk
<1>3. CASE Produce \/ ExportSignalled \/ DeleteOutput \/ CleanupVM \/ DeleteMarked \/ DeleteVM
           \/ Interrupt \/ GuestPowersOff \/ BuilderReturns
  BY <1>3 DEF Produce, ExportSignalled, DeleteOutput, FailedDelete, CleanupVM, DeleteMarked, DeleteVM,
     Interrupt, GuestPowersOff, BuilderReturns
<1> QED
  BY <1>1, <1>2, <1>3, ControlActions
     DEF Next, Plugin, Environment, Runner, BuildVMRun, GuestSteps, CaptureSteps, Cleanups

LEMMA HaltsNext ==
  ASSUME BagInv, HaltsAreExplained, Next
  PROVE  HaltsAreExplained'
<1> SUFFICES ASSUME "halted" \in bag', ~cfg'.cleanCD
             PROVE  "error" \in bag' \/ ctxDone' \/ signalled'
  BY DEF HaltsAreExplained
<1>1. /\ cfg' = cfg /\ bag \subseteq bag'
      /\ (ctxDone => ctxDone') /\ (signalled => signalled')
  BY FromBagInv, BagGrows, InterruptsStay
<1>2. SUFFICES ASSUME "halted" \notin bag PROVE "error" \in bag' \/ ctxDone' \/ signalled'
  BY <1>1 DEF HaltsAreExplained
<1>3. CASE RunShape
  <2>1. at # CleanVM
    BY <1>1, <1>3 DEF RunShape, BagInv, Listed, CleanVM
  <2>2. CASE GoesOn \/ Completes
    BY <1>2, <2>2, WentOn, Completed DEF Verdict
  <2>3. CASE Halts
    BY <1>1, <2>1, <2>3, Halted
  <2>4. CASE Crash
    BY <1>2, <2>4 DEF Crash
  <2> QED
    BY <1>3, <2>2, <2>3, <2>4 DEF RunShape
<1>4. CASE CleanupShape \/ OutsideShape
  BY <1>2, <1>4 DEF CleanupShape, OutsideShape
<1>5. CASE StartStep \/ StopLoop \/ StartCleanup \/ BuilderReturns
  BY <1>2, <1>5 DEF StartStep, StopLoop, StartCleanup, BuilderReturns
<1> QED
  BY <1>3, <1>4, <1>5, FromBagInv, NextShapes

(* A step that stops the build says why, unless it is stepCleanVM.         *)
THEOREM HaltsExplained == Spec => []HaltsAreExplained
<1>1. Init => HaltsAreExplained
  BY DEF Init, HaltsAreExplained
<1>2. BagInv /\ HaltsAreExplained /\ [Next]_vars => HaltsAreExplained'
  <2>1. CASE UNCHANGED vars
    BY <2>1 DEF vars, HaltsAreExplained
  <2> QED
    BY <2>1, HaltsNext
<1> QED
  BY <1>1, <1>2, BagInvariant, PTL DEF Spec

-----------------------------------------------------------------------------
(* The CD-ROMs CleanCD has come to are gone, or it had no identifier to    *)
(* delete them by; and no CD-ROM comes back once stepCleanVM has let the   *)
(* build go on.                                                            *)

CdInv ==
  /\ cfg.cleanCD /\ Done(CleanVM) => cdroms \subseteq nameless
  /\ In(CleanVM, "cdrom") => \A k \in cdroms : k < i => k \in nameless

\* One turn of the loop of CleanCD.
LEMMA PassesOne ==
  ASSUME TypeOK, RemoveCdRom, In(CleanVM, "cdrom")',
         \A k \in cdroms : k < i => k \in nameless
  PROVE  \A k \in cdroms' : k < i' => k \in nameless
<1>1. PICK k \in Ahead :
        /\ \A l \in Ahead : k <= l
        /\ i' = k + 1
        /\ (k \in nameless /\ cdroms' = cdroms) \/ cdroms' = cdroms \ {k}
  BY DEF RemoveCdRom, CdRomFailure, In, Continue, Halt, Return, Leave, Goto
<1> SUFFICES ASSUME NEW j \in cdroms', j < k + 1 PROVE j \in nameless
  BY <1>1
<1>2. j \in cdroms /\ j \in Nat /\ k \in Nat /\ i \in Nat
  BY <1>1 DEF TypeOK, Ahead
<1>3. CASE j < i
  BY <1>2, <1>3
<1>4. CASE ~(j < i)
  <2>1. j \in Ahead
    BY <1>2, <1>4 DEF Ahead
  <2>2. j = k
    BY <1>1, <1>2, <2>1
  <2> QED
    BY <1>1, <2>2
<1> QED
  BY <1>3, <1>4

LEMMA PassedOrNameless ==
  ASSUME BagInv, CdInv, Next, In(CleanVM, "cdrom")'
  PROVE  \A k \in cdroms' : k < i' => k \in nameless'
<1>1. mode' = "run" /\ pc' = "cdrom" /\ at' = CleanVM /\ nameless' = nameless /\ TypeOK
  BY FromBagInv, InterruptsStay DEF In
<1>2. CASE RemoveCdRom
  <2>1. In(CleanVM, "cdrom")
    BY <1>2 DEF RemoveCdRom
  <2> QED
    BY <1>1, <1>2, <2>1, PassesOne DEF CdInv
<1>3. CASE ListCdRoms
  <2>1. i' = 1 /\ cdroms' = cdroms
    BY <1>1, <1>3 DEF ListCdRoms, CdRomFailure, Goto, Halt, Return, Leave
  <2>2. \A k \in cdroms : ~(k < 1)
    BY <1>1 DEF TypeOK
  <2> QED
    BY <2>1, <2>2
<1>4. CASE MarkCancelled \/ Interrupt \/ GuestPowersOff
  <2>1. In(CleanVM, "cdrom") /\ UNCHANGED <<cdroms, i>>
    BY <1>1, <1>4 DEF MarkCancelled, Interrupt, GuestPowersOff, In
  <2> QED
    BY <1>1, <2>1 DEF CdInv
<1>5. CASE MakeCD \/ BuildVMRun
  BY <1>1, <1>5 DEF MakeCD, BuildVMRun, UploadCD, UploadDisk, StartRequest, ReuseImage,
     DownloadImage, SkipDownload, BindDisk, FinishRequest, CreateVM, PowerOn, Goto, Continue,
     Halt, Return, Crash, Leave
<1>6. CASE GuestSteps \/ PollWithoutAnswer
  BY <1>1, <1>6 DEF GuestSteps, ConnectVNC, TypeBootCommand, ObtainIp, ConnectGuest,
     RunProvisioners, StopVM, PollPowerState, PollWithoutAnswer, Goto, Continue, Halt,
     Return, Crash, Leave
<1>7. CASE ListDisks \/ SaveDisk \/ PutImages \/ Produce \/ ExportSignalled
  BY <1>1, <1>7 DEF ListDisks, SaveDisk, PutImages, Produce, ExportSignalled, Goto, Continue,
     Halt, Return, Crash, Leave
<1>8. CASE StartStep
  BY <1>1, <1>8, FromBagInv DEF StartStep, RequestKnown
<1>9. CASE StopLoop \/ StartCleanup \/ EmptyCleanup \/ BuilderReturns \/ Cleanups
  BY <1>1, <1>9 DEF StopLoop, StartCleanup, EmptyCleanup, BuilderReturns, Cleanups,
     CleanupImages, DeleteOutput, FailedDelete, CleanupVM, DeleteMarked, DecideVM, DeleteVM,
     Cleaning, Goto, CleanupDone
<1> QED
  BY <1>2, <1>3, <1>4, <1>5, <1>6, <1>7, <1>8, <1>9
     DEF Next, Plugin, Environment, Runner, CaptureSteps

LEMMA CdInvNext ==
  ASSUME BagInv, CdInv, Next
  PROVE  CdInv'
<1>1. /\ cfg' = cfg /\ at \in Nat /\ CleanVM \in Nat /\ TypeOK /\ RequestKnown
      /\ nameless' = nameless
  BY FromBagInv, BagGrows, InterruptsStay DEF CleanVM
<1> SUFFICES ASSUME cfg.cleanCD, Done(CleanVM)' PROVE cdroms' \subseteq nameless
  BY <1>1, PassedOrNameless DEF CdInv
<1>2. CASE RunShape
  <2>1. CASE at > CleanVM
    BY <1>1, <1>2, <2>1 DEF RunShape, CdInv, Done
  <2>2. CASE at = CleanVM /\ Completes
    <3>1. pc = "cdrom" /\ Ahead = {} /\ cdroms' = cdroms /\ mode = "run"
      BY <1>2, <2>2 DEF Completes, RunShape
    <3>2. \A k \in cdroms : k < i
      BY <1>1, <3>1 DEF Ahead, TypeOK
    <3> QED
      BY <2>2, <3>1, <3>2 DEF CdInv, In
  <2>3. CASE at = CleanVM /\ GoesOn
    BY <1>1, <1>2, <2>3, WentOn DEF RunShape, Done
  <2>4. CASE at = CleanVM /\ (Halts \/ Crash)
    BY <2>4, Halted DEF Crash, Done
  <2>5. CASE at < CleanVM
    <3>1. mode' \in {"next", "run"} => at' = at
      BY <1>1, <1>2, Positions, <2>5 DEF RunShape, StartStep
    <3> QED
      BY <1>1, <2>5, <3>1 DEF Done
  <2> QED
    BY <1>1, <1>2, <2>1, <2>2, <2>3, <2>4, <2>5 DEF RunShape
<1>3. CASE CleanupShape
  BY <1>3 DEF CleanupShape, CleanupDone, Goto, Done
<1>4. CASE OutsideShape
  BY <1>4 DEF OutsideShape, CdInv, Done
<1>5. CASE StartStep
  <2>1. CleanVM \in Listed(cfg) /\ Listed(cfg) \subseteq Nat
    BY FromBagInv, StepNumbers DEF Listed, CleanVM, CreateImage, ExportImage, CreateTemplate,
       CreateOVA, ExportOVA
  <2>2. CleanVM < at' /\ UNCHANGED cdroms
    BY <1>5 DEF StartStep, Done
  <2>3. CleanVM <= at
    BY <1>1, <1>5, <2>1, <2>2 DEF StartStep
  <2>4. Done(CleanVM)
    BY <1>1, <1>5, <2>3 DEF StartStep, Done
  <2> QED
    BY <2>2, <2>4 DEF CdInv
<1>6. CASE StopLoop \/ StartCleanup \/ BuilderReturns
  BY <1>6 DEF StopLoop, StartCleanup, BuilderReturns, Done
<1> QED
  BY <1>1, <1>2, <1>3, <1>4, <1>5, <1>6, NextShapes

(* With "cdrom" set, nothing is captured of a VM with a CD-ROM, other than *)
(* those CleanCD skips for want of an identifier.                          *)
THEOREM CdRomsGone == Spec => []CapturedWithoutCdRoms
<1>1. Init => CdInv
  BY StepNumbers DEF Init, CdInv, Done, CleanVM, In
<1>2. BagInv /\ CdInv /\ [Next]_vars => CdInv'
  <2>1. CASE UNCHANGED vars
    BY <2>1 DEF vars, CdInv, Done, In
  <2> QED
    BY <2>1, CdInvNext
<1>3. BagInv /\ CdInv => CapturedWithoutCdRoms
  BY FromBagInv DEF CdInv, Done, CapturedWithoutCdRoms
<1> QED
  BY <1>1, <1>2, <1>3, BagInvariant, PTL DEF Spec

-----------------------------------------------------------------------------
(* The VM after a failed build.  stepBuildVM.Cleanup sees an error only    *)
(* through "halted" and "cancelled", so one of them must come with it, and *)
(* no step may fail once the VM is deleted.                                *)

KeptInv ==
  /\ "error" \in bag => "halted" \in bag \/ "cancelled" \in bag
  /\ mode = "unwind" => pc = "body"
  /\ mode = "cleanup" /\ pc = "deleteVM" /\ "error" \in bag => cfg.forceDelete
  /\ vm \in Deleted => mode \notin {"next", "run"}
  /\ FailedVMKept

LEMMA KeptInvNext ==
  ASSUME BagInv, KeptInv, Next
  PROVE  KeptInv'
<1> USE DEF KeptInv, FailedVMKept, Deleted
<1>1. cfg' = cfg /\ bag \subseteq bag'
  BY FromBagInv, BagGrows
<1>2. CASE RunShape
  <2>1. vm' \notin Deleted
    BY <1>2 DEF RunShape
  <2>2. CASE GoesOn
    BY <1>2, <2>1, <2>2, WentOn DEF RunShape, Verdict
  <2>3. CASE Completes
    BY <1>2, <2>1, <2>3, Completed DEF RunShape, Verdict
  <2>4. CASE Halts
    BY <1>1, <2>1, <2>4, Halted
  <2>5. CASE Crash
    BY <2>1, <2>5 DEF Crash, Leave
  <2> QED
    BY <1>2, <2>2, <2>3, <2>4, <2>5 DEF RunShape
<1>3. CASE CleanupShape
  <2>1. bag' = bag /\ mode = "cleanup"
    BY <1>3 DEF CleanupShape
  <2>2. CASE CleanupDone /\ vm' = vm
    BY <1>1, <2>1, <2>2 DEF CleanupDone, Leave
  <2>3. CASE CleanupDone /\ pc = "deleteVM"
    BY <1>1, <2>1, <2>3 DEF CleanupDone, Leave
  <2>4. ASSUME NEW l \in Location, NEW n \in Nat, NEW x \in ImageId, Goto(l, n, x),
               vm' = vm, l = "deleteVM" => DeletesVM(bag, cfg)
        PROVE  KeptInv'
    <3>1. mode' = mode /\ pc' = l
      BY <2>4 DEF Goto
    <3>2. "error" \in bag /\ l = "deleteVM" => cfg.forceDelete
      BY <2>4 DEF DeletesVM, Keeps
    <3> QED
      BY <1>1, <2>1, <2>4, <3>1, <3>2
  <2> QED
    BY <1>3, <2>2, <2>3, <2>4 DEF CleanupShape
<1>4. CASE OutsideShape
  <2>1. "error" \in bag' => "error" \in bag
    BY <1>4 DEF OutsideShape
  <2>2. UNCHANGED <<cfg, mode, pc>> /\ (vm' \in Deleted => vm \in Deleted)
    BY <1>4 DEF OutsideShape
  <2> QED
    BY <1>1, <2>1, <2>2
<1>5. CASE StartStep
  BY <1>1, <1>5 DEF StartStep
<1>6. CASE StopLoop
  <2>1. pc = "body"
    BY <1>6, FromBagInv DEF RequestKnown, StopLoop
  <2>2. bag' = bag \/ bag' = bag \cup {"cancelled"}
    BY <1>6 DEF StopLoop
  <2>3. mode' = "unwind" /\ UNCHANGED <<pc, vm>>
    BY <1>6 DEF StopLoop
  <2> QED
    BY <1>1, <2>1, <2>2, <2>3
<1>7. CASE StartCleanup
  BY <1>1, <1>7 DEF StartCleanup
<1>8. CASE BuilderReturns
  BY <1>1, <1>8 DEF BuilderReturns
<1> QED
  BY <1>2, <1>3, <1>4, <1>5, <1>6, <1>7, <1>8, FromBagInv, NextShapes

\* A recorded error comes with what makes stepBuildVM.Cleanup keep the VM.
THEOREM KeptInvariant == Spec => []KeptInv
<1>1. Init => KeptInv
  BY DEF Init, KeptInv, FailedVMKept, Deleted
<1>2. BagInv /\ KeptInv /\ [Next]_vars => KeptInv'
  <2>1. CASE UNCHANGED vars
    BY <2>1 DEF vars, KeptInv, FailedVMKept, Deleted
  <2> QED
    BY <2>1, KeptInvNext
<1> QED
  BY <1>1, <1>2, BagInvariant, PTL DEF Spec

(* A build that recorded an error keeps its VM unless vm_force_delete.     *)
THEOREM FailedVMIsKept == Spec => []FailedVMKept
<1>1. KeptInv => FailedVMKept
  BY DEF KeptInv
<1> QED
  BY <1>1, KeptInvariant, PTL

-----------------------------------------------------------------------------
(* The VM after a build that ran to its end: the cleanup of stepBuildVM is *)
(* still to come, or is being executed, or has deleted the VM.             *)

Undisturbed == ~panicking /\ bag \cap Verdict = {} /\ ~cfg.retain

Pending == BuildVM \in deferred \/ (mode = "cleanup" /\ at = BuildVM)

LeftInv ==
  /\ \A s \in Listed(cfg) : Done(s) => s \in deferred
  /\ Undisturbed /\ mode \in {"unwind", "cleanup", "over"} =>
       "vm_uuid" \in bag /\ (Pending \/ vm \in Deleted)
  /\ mode = "over" => deferred = {}

LEMMA LeftInvNext ==
  ASSUME BagInv, LeftInv, Next
  PROVE  LeftInv'
<1>1. /\ cfg' = cfg /\ bag \subseteq bag' /\ at \in Nat /\ Listed(cfg) \subseteq Nat
      /\ Listed(cfg)' = Listed(cfg)
  BY FromBagInv, BagGrows
<1>2. BuildVM \in Listed(cfg)
  BY StepNumbers DEF Listed, BuildVM, CleanVM, CreateImage, ExportImage, CreateTemplate,
     CreateOVA, ExportOVA
<1>3. CASE RunShape
  <2>0. mode = "run"
    BY <1>3 DEF RunShape
  <2>1. CASE GoesOn
    <3>1. UNCHANGED <<mode, at, deferred, panicking>>
      BY <2>1, WentOn
    <3> QED
      BY <1>1, <2>0, <3>1 DEF LeftInv, Done
  <2>2. CASE Completes
    <3>1. \A s \in Listed(cfg) : Done(s)' => s \in deferred'
      BY <1>1, <2>0, <2>2, Completed DEF LeftInv, Done
    <3>2. ~(Undisturbed' /\ mode' = "unwind") /\ mode' \in {"next", "unwind"}
      BY <1>1, <2>2, Completed DEF Undisturbed, Verdict
    <3> QED
      BY <1>1, <3>1, <3>2 DEF LeftInv
  <2>3. CASE Halts
    BY <2>3, Halted DEF LeftInv, Done, Undisturbed, Verdict
  <2>4. CASE Crash
    BY <2>4 DEF Crash, LeftInv, Done, Undisturbed
  <2> QED
    BY <1>3, <2>1, <2>2, <2>3, <2>4 DEF RunShape
<1>4. CASE CleanupShape
  <2>0. mode = "cleanup" /\ bag' = bag
    BY <1>4 DEF CleanupShape
  <2>1. ASSUME CleanupDone, vm' = vm, at = BuildVM => "vm_uuid" \notin bag \/ ~DeletesVM(bag, cfg)
        PROVE  LeftInv'
    <3>1. UNCHANGED <<at, deferred, panicking>> /\ mode' = "unwind"
      BY <2>1 DEF CleanupDone
    <3>2. Undisturbed /\ "vm_uuid" \in bag => at # BuildVM
      BY <2>1 DEF Undisturbed, Verdict, DeletesVM, Keeps
    <3> QED
      BY <1>1, <2>0, <2>1, <3>1, <3>2 DEF LeftInv, Undisturbed, Pending, Done
  <2>2. ASSUME CleanupDone, vm' \in Deleted
        PROVE  LeftInv'
    <3>1. UNCHANGED <<at, deferred, panicking>> /\ mode' = "unwind"
      BY <2>2 DEF CleanupDone
    <3> QED
      BY <1>1, <2>0, <2>2, <3>1 DEF LeftInv, Undisturbed, Done
  <2>3. ASSUME NEW l \in Location, NEW n \in Nat, NEW x \in ImageId, Goto(l, n, x), vm' = vm
        PROVE  LeftInv'
    <3>1. UNCHANGED <<mode, at, deferred, panicking>>
      BY <2>3 DEF Goto
    <3> QED
      BY <1>1, <2>0, <2>3, <3>1 DEF LeftInv, Undisturbed, Pending, Done
  <2> QED
    BY <1>4, <2>1, <2>2, <2>3 DEF CleanupShape, Deleted
<1>5. CASE OutsideShape
  <2>1. UNCHANGED <<mode, at, deferred, panicking>> /\ (vm \in Deleted => vm' \in Deleted)
    BY <1>5 DEF OutsideShape, Deleted
  <2>2. Undisturbed' => Undisturbed
    BY <1>1, <2>1 DEF Undisturbed
  <2> QED
    BY <1>1, <2>1, <2>2 DEF LeftInv, Pending, Done
<1>6. CASE StartStep
  <2>1. mode = "next" /\ mode' = "run" /\ UNCHANGED deferred
    BY <1>6 DEF StartStep
  <2>2. \A s \in Listed(cfg) : s < at' => s <= at
    BY <1>1, <1>6 DEF StartStep
  <2> QED
    BY <1>1, <2>1, <2>2 DEF LeftInv, Done
<1>7. CASE StopLoop
  <2>1. mode = "next" /\ mode' = "unwind" /\ UNCHANGED <<at, deferred, panicking, vm>>
    BY <1>7 DEF StopLoop
  <2>2. ASSUME Undisturbed' PROVE "vm_uuid" \in bag' /\ BuildVM \in deferred'
    <3>1. BuildVM <= at
      BY <1>1, <1>2, <1>7, <2>2 DEF StopLoop, Undisturbed, Verdict
    <3>2. Done(BuildVM)
      BY <1>1, <1>2, <2>1, <3>1 DEF Done
    <3>3. "vm_uuid" \in bag
      BY <1>2, <3>2, FromBagInv DEF StepsGave, Gives, BagKey
    <3> QED
      BY <1>1, <1>2, <2>1, <3>2, <3>3 DEF LeftInv
  <2> QED
    BY <2>1, <2>2 DEF LeftInv, Pending, Done
<1>8. CASE StartCleanup
  <2>1. mode = "unwind" /\ mode' = "cleanup" /\ UNCHANGED <<panicking, bag, vm>>
    BY <1>8 DEF StartCleanup
  <2>2. deferred \subseteq deferred' \cup {at'}
    BY <1>8 DEF StartCleanup
  <2> QED
    BY <1>1, <2>1, <2>2 DEF LeftInv, Undisturbed, Pending, Done
<1>9. CASE BuilderReturns
  BY <1>1, <1>9 DEF BuilderReturns, LeftInv, Undisturbed, Pending, Done
<1> QED
  BY <1>3, <1>4, <1>5, <1>6, <1>7, <1>8, <1>9, FromBagInv, NextShapes

\* A cleanup that is due is deferred, and the one that deletes the VM runs.
THEOREM LeftInvariant == Spec => []LeftInv
<1>1. Init => LeftInv
  <2>1. \A s \in Listed(cfg) : s \in 1..14
    BY DEF Listed, Step
  <2> QED
    BY <2>1 DEF Init, LeftInv, Done
<1>2. BagInv /\ LeftInv /\ [Next]_vars => LeftInv'
  <2>1. CASE UNCHANGED vars
    BY <2>1 DEF vars, LeftInv, Done, Undisturbed, Pending
  <2> QED
    BY <2>1, LeftInvNext
<1> QED
  BY <1>1, <1>2, BagInvariant, PTL DEF Spec

(* A build that ran to its end does not leave its VM behind.               *)
THEOREM NoVMIsLeft == Spec => []NoVMLeftBehind
<1>1. LeftInv => NoVMLeftBehind
  BY DEF LeftInv, NoVMLeftBehind, Undisturbed, Pending, Verdict, Deleted
<1> QED
  BY <1>1, LeftInvariant, PTL

-----------------------------------------------------------------------------
(* The disks of the VM are those of the configuration and maybe the CD.    *)
LEMMA DisksOf ==
  ASSUME TypeOK
  PROVE  /\ DOMAIN cfg.disks \subseteq DOMAIN Disks
         /\ DOMAIN Disks \subseteq Nat \ {0}
         /\ \A k \in DOMAIN cfg.disks : Disks[k] = cfg.disks[k]
         /\ \A k \in DOMAIN Disks : k \in DOMAIN cfg.disks \/ Disks[k] = CDDisk
         /\ \A k \in Nat \ {0} : k \notin DOMAIN Disks =>
              \A l \in DOMAIN cfg.disks : l < k
<1>1. cfg.disks \in Seq(Disk)
  BY PreparedConfig DEF TypeOK
<1>2. CASE Disks = cfg.disks
  BY <1>1, <1>2
<1>3. CASE Disks = Append(cfg.disks, CDDisk)
  BY <1>1, <1>3
<1> QED
  BY <1>2, <1>3 DEF Disks

LEMMA ScsiFinite ==
  ASSUME TypeOK
  PROVE  /\ Cardinality(ScsiDisks) \in Nat
         /\ ScsiDisks # {} => Cardinality(ScsiDisks) > 0
<1>1. cfg.disks \in Seq(Disk) /\ CDDisk \in Disk
  BY PreparedConfig DEF TypeOK, CDDisk, Disk
<1>2. Disks \in Seq(Disk)
  BY <1>1 DEF Disks
<1>3. DOMAIN Disks = 1..Len(Disks) /\ Len(Disks) \in Nat
  BY <1>2
<1>4. IsFiniteSet(DOMAIN Disks)
  BY <1>3, FS_Interval
<1>5. ScsiDisks \subseteq DOMAIN Disks
  BY DEF ScsiDisks
<1>6. IsFiniteSet(ScsiDisks)
  BY <1>4, <1>5, FS_Subset
<1> QED
  BY <1>6, FS_CardinalityType, FS_EmptySet

-----------------------------------------------------------------------------
(* The runner's promise, for the steps of the build: a cleanup is executed *)
(* after those of all later steps, and the runner comes nearer to its end  *)
(* with each of its steps.                                                 *)
LEMMA DeferredFinite ==
  TypeOK => IsFiniteSet(deferred) /\ Cardinality(deferred) \in 0 .. 14
<1> SUFFICES ASSUME TypeOK PROVE IsFiniteSet(deferred) /\ Cardinality(deferred) \in 0 .. 14
  OBVIOUS
<1>1. IsFiniteSet(1..14) /\ Cardinality(1..14) = 14
  <2>1. 1 \in Int /\ 14 \in Int /\ ~(1 > 14) /\ 14 - 1 + 1 = 14
    OBVIOUS
  <2> QED
    BY <2>1, FS_Interval, Zenon
<1>2. deferred \subseteq 1..14
  BY DEF TypeOK, Step
<1>3. IsFiniteSet(deferred) /\ Cardinality(deferred) <= 14
  BY <1>1, <1>2, FS_Subset
<1> QED
  BY <1>3, FS_CardinalityType

LEMMA StepsCardinality == \A S : Steps!Cardinality(S) = Cardinality(S)
BY DEF Steps!Cardinality, Cardinality

RankIs ==
  /\ at \in 0 .. 14 /\ IsFiniteSet(deferred) /\ Cardinality(deferred) \in 0 .. 14
  /\ mode = "run"     => Steps!Rank = 59 - 2 * at
  /\ mode = "next"    => Steps!Rank = 58 - 2 * at
  /\ mode = "cleanup" => Steps!Rank = 2 * Cardinality(deferred) + 2
  /\ mode = "unwind"  => Steps!Rank = 2 * Cardinality(deferred) + 1
  /\ mode = "over"    => Steps!Rank = 0
  /\ mode \in {"run", "next", "cleanup", "unwind", "over"}

LEMMA TypedRank == TypeOK => RankIs
<1> SUFFICES ASSUME TypeOK PROVE RankIs
  OBVIOUS
<1>1. at \in 0 .. 14 /\ mode \in {"run", "next", "cleanup", "unwind", "over"}
  BY DEF TypeOK
<1>2. Steps!Cardinality(deferred) = Cardinality(deferred)
  BY StepsCardinality
<1>3. CASE mode = "run"
  BY <1>1, <1>3, DeferredFinite DEF RankIs, Steps!Rank
<1>4. CASE mode = "next"
  BY <1>1, <1>4, DeferredFinite DEF RankIs, Steps!Rank
<1>5. CASE mode \in {"cleanup", "unwind", "over"}
  BY <1>1, <1>2, <1>5, DeferredFinite DEF RankIs, Steps!Rank
<1> QED
  BY <1>1, <1>3, <1>4, <1>5

LEMMA RunnerDescends ==
  ASSUME TypeOK, TypeOK', Steps!Next
  PROVE  Steps!Rank' < Steps!Rank
<1>1. RankIs /\ RankIs'
  <2>1. (TypeOK => RankIs)'
    BY TypedRank, PTL
  <2> QED
    BY <2>1, TypedRank
<1>2. CASE Steps!StartStep
  BY <1>1, <1>2 DEF Steps!StartStep, RankIs
<1>3. CASE Steps!StopLoop \/ Steps!RunReturns \/ Steps!RunPanics
  BY <1>1, <1>3 DEF Steps!StopLoop, Steps!RunReturns, Steps!RunPanics, RankIs
<1>4. CASE Steps!StartCleanup
  <2>1. PICK s \in deferred : deferred' = deferred \ {s}
    BY <1>4 DEF Steps!StartCleanup
  <2>2. Cardinality(deferred') = Cardinality(deferred) - 1
    BY <1>1, <2>1, FS_RemoveElement DEF RankIs
  <2> QED
    BY <1>1, <1>4, <2>2 DEF Steps!StartCleanup, RankIs
<1>5. CASE Steps!CleanupReturns \/ Steps!RunnerReturns
  BY <1>1, <1>5 DEF Steps!CleanupReturns, Steps!RunnerReturns, RankIs
<1> QED
  BY <1>2, <1>3, <1>4, <1>5 DEF Steps!Next

\* When no more steps are started, none of an earlier place is cleaned up
\* before one of a later place.
LifoInv ==
  /\ deferred \subseteq Listed(cfg)
  /\ mode = "next" => \A s \in deferred : s <= at
  /\ mode \in {"run", "cleanup"} => at \in Listed(cfg) /\ \A s \in deferred : s < at

LEMMA LifoInvNext == BagInv /\ LifoInv /\ [Next]_vars => LifoInv'
<1> SUFFICES ASSUME BagInv, LifoInv, [Next]_vars PROVE LifoInv'
  OBVIOUS
<1>1. Listed(cfg) \subseteq Nat /\ at \in Nat /\ Listed(cfg)' = Listed(cfg)
  BY FromBagInv, BagGrows DEF vars
<1>2. CASE UNCHANGED <<mode, at, deferred>>
  BY <1>1, <1>2 DEF LifoInv
<1>3. CASE Steps!StartStep
  BY <1>1, <1>3 DEF Steps!StartStep, LifoInv
<1>4. CASE Steps!StopLoop \/ Steps!RunReturns \/ Steps!RunPanics \/ Steps!CleanupReturns
           \/ Steps!RunnerReturns
  BY <1>1, <1>4 DEF Steps!StopLoop, Steps!RunReturns, Steps!RunPanics, Steps!CleanupReturns,
                    Steps!RunnerReturns, LifoInv
<1>5. CASE Steps!StartCleanup
  BY <1>1, <1>5 DEF Steps!StartCleanup, LifoInv
<1> QED
  BY <1>2, <1>3, <1>4, <1>5, NextRefines DEF Steps!Next, Steps!vars

(* The cleanups of the build run last in first out, of listed steps only.  *)
THEOREM CleanupsLastInFirstOut == Spec => []Steps!LastInFirstOut
<1>1. Init => LifoInv
  BY DEF Init, LifoInv
<1>2. LifoInv => Steps!LastInFirstOut
  BY DEF LifoInv, Steps!LastInFirstOut
<1> QED
  BY <1>1, <1>2, LifoInvNext, BagInvariant, PTL DEF Spec

-----------------------------------------------------------------------------
(* Inside a step: each of its actions that does not return takes it to a   *)
(* later location, or to the next turn of a loop whose turns are counted.  *)
LEMMA CdRomDisksFinite == TypeOK => IsFiniteSet(CdRomDisks)
<1> SUFFICES ASSUME TypeOK PROVE IsFiniteSet(CdRomDisks)
  OBVIOUS
<1>1. cfg.disks \in Seq(Disk) /\ CDDisk \in Disk
  BY PreparedConfig DEF TypeOK, CDDisk, Disk
<1>2. Disks \in Seq(Disk)
  BY <1>1 DEF Disks
<1>3. IsFiniteSet(DOMAIN Disks)
  BY <1>2, FS_Interval
<1> QED
  BY <1>3, FS_Subset DEF CdRomDisks

\* The loops count what they go through.
InsideInv ==
  /\ IsFiniteSet(cdroms)
  /\ In(BuildVM, "bindDisk") => i \in DOMAIN Disks

LEMMA CdRomsShrink ==
  ASSUME BagInv, Next
  PROVE  cdroms' = CdRomDisks \/ cdroms' \subseteq cdroms
<1>1. CASE Frame
  BY <1>1 DEF Frame
<1>2. CASE UploadCD \/ UploadDisk \/ ReuseImage \/ DownloadImage \/ BindDisk
           \/ CreateVM \/ PowerOn \/ StopVM \/ RemoveCdRom \/ SaveDisk
  BY <1>2 DEF UploadCD, UploadDisk, ReuseImage, DownloadImage, BindDisk, CreateVM, PowerOn,
     StopVM, RemoveCdRom, SaveDisk
<1>3. CASE Produce \/ ExportSignalled \/ DeleteOutput \/ CleanupVM \/ DeleteMarked \/ DeleteVM
           \/ Interrupt \/ GuestPowersOff \/ BuilderReturns
  BY <1>3 DEF Produce, ExportSignalled, DeleteOutput, CleanupVM, DeleteMarked, DeleteVM,
     Interrupt, GuestPowersOff, BuilderReturns
<1> QED
  BY <1>1, <1>2, <1>3, ControlActions
     DEF Next, Plugin, Environment, Runner, BuildVMRun, GuestSteps, CaptureSteps, Cleanups

LEMMA BindInRange ==
  ASSUME BagInv, InsideInv, Next, In(BuildVM, "bindDisk")'
  PROVE  i' \in DOMAIN Disks'
<1>1. mode' = "run" /\ pc' = "bindDisk" /\ at' = BuildVM
  BY DEF In
<1>2. CASE ReuseImage \/ DownloadImage \/ SkipDownload
  <2>1. i \in DOMAIN Disks /\ UNCHANGED <<cfg, bag, i>>
    BY <1>1, <1>2 DEF ReuseImage, DownloadImage, SkipDownload, Goto, Halt, Return, Leave
  <2> QED
    BY <2>1 DEF Disks
<1>3. CASE MarkCancelled \/ Interrupt \/ GuestPowersOff
  <2>1. In(BuildVM, "bindDisk") /\ UNCHANGED <<cfg, i>>
        /\ ("cd_uuid" \in bag' <=> "cd_uuid" \in bag)
    BY <1>1, <1>3 DEF MarkCancelled, Interrupt, GuestPowersOff, In
  <2> QED
    BY <2>1 DEF Disks, InsideInv
<1>4. CASE MakeCD \/ UploadCD \/ UploadDisk \/ StartRequest \/ BindDisk \/ FinishRequest
           \/ CreateVM \/ PowerOn
  BY <1>1, <1>4 DEF MakeCD, UploadCD, UploadDisk, StartRequest, BindDisk, FinishRequest,
     CreateVM, PowerOn, Goto, Continue, Halt, Return, Crash, Leave
<1>5. CASE GuestSteps \/ PollWithoutAnswer \/ CaptureSteps \/ ExportSignalled
  BY <1>1, <1>5 DEF GuestSteps, ConnectVNC, TypeBootCommand, ObtainIp, ConnectGuest,
     RunProvisioners, StopVM, PollPowerState, PollWithoutAnswer, CaptureSteps, ListCdRoms,
     RemoveCdRom, CdRomFailure, ListDisks, SaveDisk, PutImages, Produce, ExportSignalled,
     Goto, Continue, Halt, Return, Crash, Leave
<1>6. CASE StartStep
  BY <1>1, <1>6, FromBagInv DEF StartStep, RequestKnown
<1>7. CASE StopLoop \/ StartCleanup \/ EmptyCleanup \/ BuilderReturns \/ Cleanups
  BY <1>1, <1>7 DEF StopLoop, StartCleanup, EmptyCleanup, BuilderReturns, Cleanups,
     CleanupImages, DeleteOutput, FailedDelete, CleanupVM, DeleteMarked, DecideVM, DeleteVM,
     Cleaning, Goto, CleanupDone
<1> QED
  BY <1>2, <1>3, <1>4, <1>5, <1>6, <1>7 DEF Next, Plugin, Environment, Runner, BuildVMRun

LEMMA InsideInvNext == BagInv /\ InsideInv /\ [Next]_vars => InsideInv'
<1> SUFFICES ASSUME BagInv, InsideInv, [Next]_vars PROVE InsideInv'
  OBVIOUS
<1>1. CASE Next
  <2>1. IsFiniteSet(cdroms')
    BY <1>1, CdRomsShrink, CdRomDisksFinite, FromBagInv, FS_Subset DEF InsideInv
  <2>2. (In(BuildVM, "bindDisk") => i \in DOMAIN Disks)'
    BY <1>1, BindInRange
  <2> QED
    BY <2>1, <2>2 DEF InsideInv
<1>2. CASE UNCHANGED vars
  BY <1>2 DEF vars, InsideInv, In, Disks
<1> QED
  BY <1>1, <1>2

LEMMA AheadFinite == InsideInv => IsFiniteSet(Ahead)
BY FS_Subset DEF InsideInv, Ahead

LEMMA Sizes ==
  ASSUME TypeOK
  PROVE  /\ Len(Disks) \in Nat /\ DOMAIN Disks = 1..Len(Disks)
         /\ Len(images) \in Nat /\ DOMAIN images = 1..Len(images)
         /\ Len(marks) \in Nat /\ DOMAIN marks = 1..Len(marks)
         /\ Cardinality(ScsiDisks) \in Nat
         /\ i \in Nat
<1>1. cfg.disks \in Seq(Disk) /\ CDDisk \in Disk
  BY PreparedConfig DEF TypeOK, CDDisk, Disk
<1>2. Disks \in Seq(Disk)
  BY <1>1 DEF Disks
<1>3. images \in Seq(ImageId) /\ marks \in Seq(ImageId) /\ i \in Nat
  BY DEF TypeOK
<1> QED
  BY <1>2, <1>3, ScsiFinite

Inward == Phase' < Phase \/ (Phase' = Phase /\ Turns' < Turns)

LEMMA BuildVMInward ==
  ASSUME TypeOK, InsideInv, BuildVMRun, mode' = mode
  PROVE  Inward
<1> USE Sizes DEF In, Goto, Halt, Continue, Return, Crash, Inward, Phase, Turns
<1>1. CASE UploadCD \/ StartRequest \/ FinishRequest \/ CreateVM \/ PowerOn
  BY <1>1 DEF UploadCD, StartRequest, FinishRequest, CreateVM, PowerOn
<1>2. CASE UploadDisk
  <2>1. /\ pc = "uploadDisk" /\ pc' = "uploadDisk" /\ i' = i + 1 /\ i \in DOMAIN Disks
        /\ cfg' = cfg /\ bag' = bag
    BY <1>2 DEF UploadDisk
  <2>2. Disks' = Disks
    BY <2>1 DEF Disks
  <2> QED
    BY <2>1, <2>2 DEF LeftUpTo
<1>3. CASE ReuseImage \/ DownloadImage \/ SkipDownload
  <2>1. /\ pc = "requestDisk" /\ i \in DOMAIN Disks /\ cfg' = cfg /\ bag' = bag
        /\ \/ pc' = "bindDisk" /\ i' = i
           \/ pc' = "requestDisk" /\ i' = i + 1
    BY <1>3 DEF ReuseImage, DownloadImage, SkipDownload
  <2>2. Disks' = Disks
    BY <2>1 DEF Disks
  <2> QED
    BY <2>1, <2>2 DEF LeftUpTo
<1>4. CASE BindDisk
  <2>1. /\ pc = "bindDisk" /\ i \in DOMAIN Disks /\ cfg' = cfg /\ bag' = bag
        /\ pc' = "requestDisk" /\ i' = i + 1
    BY <1>4 DEF BindDisk, InsideInv
  <2>2. Disks' = Disks
    BY <2>1 DEF Disks
  <2> QED
    BY <2>1, <2>2 DEF LeftUpTo
<1> QED
  BY <1>1, <1>2, <1>3, <1>4 DEF BuildVMRun

LEMMA LaterInward ==
  ASSUME TypeOK, InsideInv, mode' = mode,
         MakeCD \/ GuestSteps \/ CaptureSteps \/ ExportSignalled \/ PollWithoutAnswer
  PROVE  Inward
<1> USE Sizes DEF In, Goto, Halt, Continue, Return, Crash, Inward, Phase, Turns
<1>1. CASE MakeCD \/ GuestSteps \/ PollWithoutAnswer
  BY <1>1 DEF MakeCD, GuestSteps, ConnectVNC, TypeBootCommand, ObtainIp, ConnectGuest,
     RunProvisioners, StopVM, PollPowerState, PollWithoutAnswer
<1>2. CASE ListCdRoms \/ ListDisks \/ PutImages \/ Produce \/ ExportSignalled
  BY <1>2 DEF ListCdRoms, CdRomFailure, ListDisks, PutImages, Produce, ExportSignalled
<1>3. CASE RemoveCdRom
  <2>1. PICK k \in Ahead : /\ i' = k + 1 /\ cdroms' \subseteq cdroms
                           /\ \A l \in Ahead : k <= l
                           /\ pc = "cdrom" /\ pc' = "cdrom"
    BY <1>3 DEF RemoveCdRom, CdRomFailure
  <2>2. Ahead' \subseteq Ahead \ {k}
    <3>1. k \in Nat /\ i \in Nat /\ k >= i /\ cdroms \subseteq Nat
      BY DEF Ahead, TypeOK
    <3>2. Ahead' = {l \in cdroms' : l >= k + 1}
      BY <2>1 DEF Ahead
    <3>3. \A l \in Ahead' : l \in cdroms /\ l \in Nat /\ l >= k + 1
      BY <2>1, <3>1, <3>2
    <3>4. \A l \in Ahead' : l >= i /\ l # k
      BY <3>1, <3>3
    <3> QED
      BY <3>3, <3>4 DEF Ahead
  <2>3. IsFiniteSet(Ahead)
    BY AheadFinite
  <2>4. IsFiniteSet(Ahead \ {k}) /\ Cardinality(Ahead \ {k}) = Cardinality(Ahead) - 1
    BY <2>3, FS_RemoveElement
  <2>5. Cardinality(Ahead') <= Cardinality(Ahead) - 1
    BY <2>2, <2>4, FS_Subset
  <2>6. Cardinality(Ahead) \in Nat /\ Cardinality(Ahead') \in Nat
    BY <2>2, <2>3, <2>4, FS_Subset, FS_CardinalityType
  <2>7. at' = at /\ pc' = "cdrom" /\ pc = "cdrom" /\ at = CleanVM
    BY <1>3, <2>1 DEF RemoveCdRom, CdRomFailure
  <2> QED
    BY <2>5, <2>6, <2>7
<1>4. CASE SaveDisk
  <2>1. /\ pc = "save" /\ pc' = "save" /\ i' = i + 1 /\ i <= Cardinality(ScsiDisks)
        /\ cfg' = cfg /\ bag' = bag
    BY <1>4 DEF SaveDisk
  <2>2. ScsiDisks' = ScsiDisks
    BY <2>1 DEF ScsiDisks, Disks
  <2> QED
    BY <2>1, <2>2 DEF LeftUpTo
<1> QED
  BY <1>1, <1>2, <1>3, <1>4 DEF CaptureSteps

LEMMA CleanupInward ==
  ASSUME TypeOK, mode' = mode, Cleanups \/ EmptyCleanup
  PROVE  Inward
<1> USE Sizes DEF Cleaning, Goto, CleanupDone, Inward, Phase, Turns
<1>1. CASE CleanupImages \/ CleanupVM \/ DecideVM \/ DeleteVM \/ EmptyCleanup
  BY <1>1 DEF CleanupImages, CleanupVM, DecideVM, DeleteVM, EmptyCleanup
<1>2. CASE DeleteOutput \/ DeleteMarked
  BY <1>2 DEF DeleteOutput, FailedDelete, DeleteMarked, LeftUpTo
<1> QED
  BY <1>1, <1>2 DEF Cleanups

\* What the user and the guest do is done once.
LEMMA OutsideDescends ==
  ASSUME TypeOK, MarkCancelled \/ Interrupt \/ GuestPowersOff, vars' # vars
  PROVE  Phase' = Phase /\ Turns' = Turns /\ Surprises' < Surprises
<1>1. /\ UNCHANGED <<cfg, local, cdroms, images, marks>>
      /\ ("cd_uuid" \in bag' <=> "cd_uuid" \in bag)
  BY DEF MarkCancelled, Interrupt, GuestPowersOff
<1>2. Disks' = Disks /\ ScsiDisks' = ScsiDisks
  BY <1>1 DEF Disks, ScsiDisks
<1>3. Phase' = Phase /\ Turns' = Turns
  BY <1>1, <1>2 DEF Phase, Turns, LeftUpTo, Ahead
<1>4. CASE MarkCancelled
  <2>1. "cancelled" \notin bag
    BY <1>4 DEF MarkCancelled, vars
  <2> QED
    BY <1>3, <1>4, <2>1 DEF MarkCancelled, Surprises
<1>5. CASE Interrupt
  BY <1>3, <1>5 DEF Interrupt, Surprises
<1>6. CASE GuestPowersOff
  BY <1>3, <1>6 DEF GuestPowersOff, Surprises
<1> QED
  BY <1>4, <1>5, <1>6

THEOREM InsideInvariant == Spec => []InsideInv
<1>1. Init => InsideInv
  BY FS_EmptySet DEF Init, InsideInv, In
<1> QED
  BY <1>1, InsideInvNext, BagInvariant, PTL DEF Spec

LEMMA Lexicographic ==
  ASSUME \/ Steps!Rank' < Steps!Rank
         \/ Steps!Rank' = Steps!Rank /\ Phase' < Phase
         \/ Steps!Rank' = Steps!Rank /\ Phase' = Phase /\ Turns' < Turns
         \/ Steps!Rank' = Steps!Rank /\ Phase' = Phase /\ Turns' = Turns
              /\ Surprises' < Surprises
  PROVE  Descends
<1>1. /\ DOMAIN Measure = 1 .. 4
      /\ Measure[1] = Steps!Rank /\ Measure[2] = Phase /\ Measure[3] = Turns
      /\ Measure[4] = Surprises
      /\ Measure'[1] = Steps!Rank' /\ Measure'[2] = Phase' /\ Measure'[3] = Turns'
      /\ Measure'[4] = Surprises'
  BY DEF Measure
<1>2. \A k \in 1 .. 4 :
        Measure'[k] < Measure[k] /\ (\A j \in 1 .. k - 1 : Measure'[j] = Measure[j]) => Descends
  BY <1>1 DEF Descends
<1>3. CASE Steps!Rank' < Steps!Rank
  BY <1>1, <1>2, <1>3
<1>4. CASE Steps!Rank' = Steps!Rank /\ Phase' < Phase
  BY <1>1, <1>2, <1>4
<1>5. CASE Steps!Rank' = Steps!Rank /\ Phase' = Phase /\ Turns' < Turns
  BY <1>1, <1>2, <1>5
<1>6. CASE Steps!Rank' = Steps!Rank /\ Phase' = Phase /\ Turns' = Turns
             /\ Surprises' < Surprises
  BY <1>1, <1>2, <1>6
<1> QED
  BY <1>3, <1>4, <1>5, <1>6

LEMMA EveryStepDescends == BagInv /\ InsideInv /\ [Next]_vars => [Descends]_vars
<1> SUFFICES ASSUME BagInv, InsideInv, Next, vars' # vars PROVE Descends
  OBVIOUS
<1>1. TypeOK /\ TypeOK' /\ RequestKnown
  BY BagInvNext, FromBagInv DEF BagInv
<1>2. CASE Steps!Next
  BY <1>1, <1>2, RunnerDescends, Lexicographic
<1>3. CASE UNCHANGED <<mode, at, deferred>>
  <2>1. Steps!Rank' = Steps!Rank
    BY <1>3 DEF Steps!Rank
  <2>2. CASE BuildVMRun \/ MakeCD \/ GuestSteps \/ CaptureSteps \/ ExportSignalled
             \/ PollWithoutAnswer \/ Cleanups \/ EmptyCleanup
    BY <1>1, <1>3, <2>1, <2>2, BuildVMInward, LaterInward, CleanupInward, Lexicographic
       DEF Inward
  <2>3. CASE MarkCancelled \/ Interrupt \/ GuestPowersOff
    BY <1>1, <2>1, <2>3, OutsideDescends, Lexicographic
  <2>4. CASE StartStep \/ StopLoop \/ StartCleanup \/ BuilderReturns
    BY <1>3, <2>4 DEF StartStep, StopLoop, StartCleanup, BuilderReturns
  <2> QED
    BY <2>2, <2>3, <2>4 DEF Next, Plugin, Environment, Runner
<1> QED
  BY <1>2, <1>3, NextRefines DEF Steps!vars

\* The measure is a tuple of natural numbers, and cannot go down for ever.
MeasureIsNatural == \A k \in DOMAIN Measure : Measure[k] \in Nat

THEOREM MeasureCounts == Spec => []MeasureIsNatural
<1>1. BagInv /\ InsideInv => MeasureIsNatural
  <2> SUFFICES ASSUME BagInv, InsideInv PROVE MeasureIsNatural
    OBVIOUS
  <2>1. TypeOK /\ RankIs
    BY FromBagInv, TypedRank
  <2>2. Steps!Rank \in Nat
    BY <2>1 DEF RankIs
  <2>3. Phase \in Nat
    BY <2>1 DEF TypeOK, Location, Phase
  <2>4. Turns \in Nat
    <3>1. Cardinality(Ahead) \in Nat
      BY AheadFinite, FS_CardinalityType
    <3>2. \A k \in Nat : LeftUpTo(k) \in Nat
      BY <2>1, Sizes DEF LeftUpTo
    <3>3. /\ LeftUpTo(Len(Disks)) \in Nat /\ LeftUpTo(Cardinality(ScsiDisks)) \in Nat
          /\ LeftUpTo(Len(images)) \in Nat /\ LeftUpTo(Len(marks)) \in Nat
      BY <2>1, <3>2, Sizes
    <3> QED
      BY <3>1, <3>3 DEF Turns
  <2>5. Surprises \in Nat
    BY DEF Surprises
  <2> QED
    BY <2>2, <2>3, <2>4, <2>5 DEF MeasureIsNatural, Measure
<1> QED
  BY <1>1, BagInvariant, InsideInvariant, PTL

(* Every step, whatever the driver's calls answer, how many disks there    *)
(* are and whenever the user interrupts, brings the build nearer to its    *)
(* end.                                                                    *)
THEOREM BuildNeverLoops == Spec => NeverLoops
BY EveryStepDescends, BagInvariant, InsideInvariant, PTL DEF Spec, NeverLoops

-----------------------------------------------------------------------------
(* The same with the order of the measure as a relation, to be able to say *)
(* that it is well-founded.                                                *)
Smaller == OpToRel(<, Nat)
Earlier == LexProductOrdering(Smaller, Nat, 4)

LEMMA SmallerNumbers == \A m, n \in Nat : m < n => <<m, n>> \in Smaller
BY DEF Smaller, OpToRel

LEMMA EarlierWellFounded == IsWellFoundedOn(Earlier, [1 .. 4 -> Nat])
BY NatLessThanWellFounded, WFLexProductOrdering DEF Smaller, Earlier

LEMMA IsEarlier ==
  ASSUME NEW f \in [1 .. 4 -> Nat], NEW g \in [1 .. 4 -> Nat],
         NEW k \in 1 .. 4, f[k] < g[k], \A j \in 1 .. k - 1 : f[j] = g[j]
  PROVE  <<f, g>> \in Earlier
<1>1. <<f[k], g[k]>> \in Smaller
  BY SmallerNumbers
<1> QED
  BY <1>1 DEF Earlier, LexProductOrdering

\* A step of the build, as a step of that order.
GetsOn == <<Measure', Measure>> \in Earlier

(* There is no infinite descent in the order in which every step of a      *)
(* build descends: so the plugin, the user and the guest together take     *)
(* finitely many steps in any behaviour, fair or not.                      *)
THEOREM NoEndlessBuild ==
  /\ IsWellFoundedOn(Earlier, [1 .. 4 -> Nat])
  /\ Spec => [][GetsOn]_vars
<1>1. MeasureIsNatural => Measure \in [1 .. 4 -> Nat] /\ DOMAIN Measure = 1 .. 4
  <2>1. DOMAIN Measure = 1 .. 4
    BY DEF Measure
  <2> QED
    BY <2>1 DEF MeasureIsNatural, Measure
<1>2. MeasureIsNatural /\ MeasureIsNatural' /\ Descends => GetsOn
  <2> SUFFICES ASSUME MeasureIsNatural, MeasureIsNatural', Descends PROVE GetsOn
    OBVIOUS
  <2>1. Measure \in [1 .. 4 -> Nat] /\ DOMAIN Measure = 1 .. 4
    BY <1>1
  <2>2. Measure' \in [1 .. 4 -> Nat]
    <3>1. DOMAIN Measure' = 1 .. 4
      BY DEF Measure
    <3> QED
      BY <3>1 DEF MeasureIsNatural, Measure
  <2>3. PICK k \in 1 .. 4 : /\ Measure'[k] < Measure[k]
                            /\ \A j \in 1 .. k - 1 : Measure'[j] = Measure[j]
    BY <2>1 DEF Descends
  <2> QED
    BY <2>1, <2>2, <2>3, IsEarlier DEF GetsOn
<1>3. Spec => [][GetsOn]_vars
  BY <1>2, MeasureCounts, BuildNeverLoops, PTL DEF NeverLoops
<1> QED
  BY <1>3, EarlierWellFounded

-----------------------------------------------------------------------------
(* Nor does a build stop half-way.                                         *)

\* Each location is one of the code of one step or of one cleanup.
PlacesInv ==
  /\ pc \in {"uploadDisk", "requestDisk", "bindDisk", "createVM", "powerOn"}
       => mode = "run" /\ at = BuildVM
  /\ pc = "poll" => mode = "run" /\ at = Shutdown
  /\ pc = "cdrom" => mode = "run" /\ at = CleanVM
  /\ pc = "save" => mode = "run" /\ at = CreateImage
  /\ pc = "deleteOut" => mode = "cleanup" /\ at = CreateImage
  /\ pc \in {"deleteMarked", "deleteVM"} => mode = "cleanup" /\ at = BuildVM

LEMMA PlacesNext ==
  ASSUME BagInv, PlacesInv, [Next]_vars
  PROVE  PlacesInv'
<1>1. CASE BuildVMRun
  BY <1>1 DEF BuildVMRun, UploadCD, UploadDisk, StartRequest, ReuseImage, DownloadImage,
     SkipDownload, BindDisk, FinishRequest, CreateVM, PowerOn, In, Goto, Continue, Halt,
     Return, Crash, Leave, PlacesInv
<1>2. CASE MakeCD \/ GuestSteps \/ PollWithoutAnswer
  BY <1>2 DEF MakeCD, GuestSteps, ConnectVNC, TypeBootCommand, ObtainIp, ConnectGuest,
     RunProvisioners, StopVM, PollPowerState, PollWithoutAnswer, In, Goto, Continue, Halt,
     Return, Crash, Leave, PlacesInv
<1>3. CASE CaptureSteps \/ ExportSignalled
  BY <1>3 DEF CaptureSteps, ListCdRoms, RemoveCdRom, CdRomFailure, ListDisks, SaveDisk,
     PutImages, Produce, ExportSignalled, In, Goto, Continue, Halt, Return, Crash, Leave,
     PlacesInv
<1>4. CASE Cleanups \/ EmptyCleanup
  BY <1>4 DEF Cleanups, CleanupImages, DeleteOutput, FailedDelete, CleanupVM, DeleteMarked,
     DecideVM, DeleteVM, EmptyCleanup, Cleaning, Goto, CleanupDone, Leave, PlacesInv
<1>5. CASE MarkCancelled \/ Interrupt \/ GuestPowersOff \/ UNCHANGED vars
  BY <1>5 DEF MarkCancelled, Interrupt, GuestPowersOff, vars, PlacesInv
<1>6. CASE StartStep \/ StopLoop \/ StartCleanup \/ BuilderReturns
  BY <1>6 DEF StartStep, StopLoop, StartCleanup, BuilderReturns, PlacesInv
<1> QED
  BY <1>1, <1>2, <1>3, <1>4, <1>5, <1>6 DEF Next, Plugin, Environment, Runner

THEOREM EachPlaceInItsStep == Spec => []PlacesInv
<1>1. Init => PlacesInv
  BY DEF Init, PlacesInv
<1> QED
  BY <1>1, PlacesNext, BagInvariant, PTL DEF Spec

\* The guards of the actions of Plugin, each with the choice it makes.
Following == {s \in Listed(cfg) : s > at}
Least(S) == {s \in S : \A t \in S : s <= t}

Due ==
  \* StopLoop, StartStep
  \/ mode = "next" /\ (Following = {} \/ ctxDone \/ Least(Following) # {})
  \* the start of each step, in StopVM by the way the VM is shut down
  \/ \E s \in Step : In(s, "body") /\ (s = Shutdown => cfg.stop \in {"poweroff", "command", "manual"})
  \* the loops of stepBuildVM over the disks, and the calls behind them
  \/ \E l \in {"uploadDisk", "requestDisk", "createVM", "powerOn"} : In(BuildVM, l)
  \/ In(BuildVM, "bindDisk") /\ i \in DOMAIN Disks
  \* the loops of the steps behind it
  \/ In(Shutdown, "poll") \/ In(CreateImage, "save")
  \/ In(CleanVM, "cdrom") /\ (Ahead = {} \/ Least(Ahead) # {})
  \* BuilderReturns, StartCleanup, EmptyCleanup, and the cleanups
  \/ mode = "unwind" /\ (deferred = {} \/ Latest(deferred) # {})
  \/ mode = "cleanup" /\ at \notin {BuildVM, CreateImage}
  \/ \E l \in {"body", "deleteMarked", "deleteVM"} : Cleaning(BuildVM, l)
  \/ \E l \in {"body", "deleteOut"} : Cleaning(CreateImage, l)

LEMMA HasLeast ==
  ASSUME NEW S \in SUBSET Nat, S # {}
  PROVE  Least(S) # {}
<1>1. PICK x \in S : \A y \in S : ~ (<<y, x>> \in Smaller)
  BY NatLessThanWellFounded, WFMin DEF Smaller
<1>2. \A y \in S : x <= y
  <2> TAKE y \in S
  <2>1. x \in Nat /\ y \in Nat
    OBVIOUS
  <2>2. ~ (y < x)
    BY <1>1, <2>1, SmallerNumbers
  <2> QED
    BY <2>1, <2>2
<1> QED
  BY <1>2 DEF Least

\* The highest of some steps is the lowest when they are counted backwards.
LEMMA HasLatest ==
  ASSUME NEW S \in SUBSET Step, S # {}
  PROVE  Latest(S) # {}
<1> DEFINE back == {14 - s : s \in S}
<1>1. back \in SUBSET Nat /\ back # {}
  <2>1. \A s \in S : 14 - s \in Nat
    BY DEF Step
  <2>2. back \in SUBSET Nat
    BY <2>1
  <2>3. back # {}
    OBVIOUS
  <2> QED
    BY <2>2, <2>3
<1>2. PICK m \in back : \A n \in back : m <= n
  BY <1>1, HasLeast DEF Least
<1>3. PICK s \in S : m = 14 - s
  BY <1>2
<1>4. \A t \in S : t <= s
  <2> TAKE t \in S
  <2>1. 14 - s <= 14 - t
    BY <1>2, <1>3
  <2> QED
    BY <2>1 DEF Step
<1> QED
  BY <1>4 DEF Latest

LEMMA AlwaysDue ==
  ASSUME BagInv, PlacesInv, InsideInv, mode # "over"
  PROVE  Due
<1>1. TypeOK /\ Listed(cfg) \subseteq Nat
  BY FromBagInv
<1>2. CASE mode = "next"
  <2>1. Following # {} => Least(Following) # {}
    BY <1>1, HasLeast DEF Following
  <2> QED
    BY <1>2, <2>1 DEF Due
<1>3. CASE mode = "run"
  <2>1. at \in Step
    BY <1>3 DEF BagInv, Listed
  <2>2. cfg.stop \in {"poweroff", "command", "manual"}
    BY <1>1, PreparedConfig DEF TypeOK
  <2>3. CASE pc = "body"
    BY <1>3, <2>1, <2>2, <2>3 DEF Due, In
  <2>4. CASE pc \in {"uploadDisk", "requestDisk", "createVM", "powerOn"}
    BY <1>3, <2>4 DEF PlacesInv, Due, In
  <2>5. CASE pc = "bindDisk"
    BY <1>3, <2>5 DEF PlacesInv, InsideInv, Due, In
  <2>6. CASE pc \in {"poll", "save"}
    BY <1>3, <2>6 DEF PlacesInv, Due, In
  <2>7. CASE pc = "cdrom"
    <3>1. Ahead # {} => Least(Ahead) # {}
      BY <1>1, HasLeast DEF TypeOK, Ahead
    <3> QED
      BY <1>3, <2>7, <3>1 DEF PlacesInv, Due, In
  <2>8. pc \in Location /\ pc \notin {"deleteOut", "deleteMarked", "deleteVM"}
    BY <1>1, <1>3 DEF TypeOK, PlacesInv
  <2> QED
    BY <2>3, <2>4, <2>5, <2>6, <2>7, <2>8 DEF Location
<1>4. CASE mode = "unwind"
  <2>1. deferred # {} => Latest(deferred) # {}
    BY <1>1, HasLatest DEF TypeOK
  <2> QED
    BY <1>4, <2>1 DEF Due
<1>5. CASE mode = "cleanup"
  <2>1. pc \in {"body", "deleteOut", "deleteMarked", "deleteVM"}
    BY <1>1, <1>5 DEF TypeOK, Location, PlacesInv
  <2>2. CASE pc = "body"
    BY <1>5, <2>2 DEF Due, Cleaning
  <2>3. CASE pc # "body"
    BY <1>5, <2>1, <2>3 DEF PlacesInv, Due, Cleaning
  <2> QED
    BY <2>2, <2>3
<1> QED
  BY <1>1, <1>2, <1>3, <1>4, <1>5 DEF TypeOK

NeverStuck == mode # "over" => Due

(* Until Builder.Run has returned the plugin has a step to take, whatever  *)
(* was configured, failed or interrupted: no location without code behind  *)
(* it, no disk read past the end of the list, and no choice of the next    *)
(* step, cleanup or CD-ROM from an empty set.                              *)
THEOREM BuildNeverStuck == Spec => []NeverStuck
<1>1. BagInv /\ PlacesInv /\ InsideInv => NeverStuck
  BY AlwaysDue DEF NeverStuck
<1> QED
  BY <1>1, BagInvariant, EachPlaceInItsStep, InsideInvariant, PTL

=============================================================================
