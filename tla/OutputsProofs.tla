---------------------------- MODULE OutputsProofs ----------------------------
(***************************************************************************)
(* Proofs about module Outputs: what is proved of the output images alone  *)
(* holds next to the exports, and whatever happens to the images and to    *)
(* the copying goroutine, the export leaves whole files or none, keeps the *)
(* promise of a step, and comes to its end without anybody being stuck.    *)
(***************************************************************************)
EXTENDS Outputs, OutputImagesProofs

-----------------------------------------------------------------------------
(* A step of the whole is a step of the builds that save their disks, or   *)
(* does not concern them.                                                  *)
LEMMA OutputsStepIsImageStep == [OutputsNext]_allVars => [Next]_vars
<1> SUFFICES ASSUME [OutputsNext]_allVars PROVE Next \/ UNCHANGED vars
  OBVIOUS
<1>1. CASE \E b \in Builds : ImageStep(b) \/ BuildEnds(b)
  BY <1>1 DEF ImageStep, BuildEnds, Next
<1>2. CASE \/ \E b \in Builds : OvaStep(b)
           \/ ExportRuns \/ ExportWaits \/ ExportStops \/ Copying \/ OvaAppears
           \/ UNCHANGED allVars
  BY <1>2 DEF OvaStep, ExportRuns, ExportWaits, ExportStops, Copying, OvaAppears, allVars
<1> QED
  BY <1>1, <1>2 DEF OutputsNext

(* With the exports, the builds save, replace and clean up their images as *)
(* they do without them: what is proved of module OutputImages holds here. *)
THEOREM OutputsImplementOutputImages == FairSpec => Spec
<1>1. OutputsInit => Init
  BY DEF OutputsInit
<1> QED
  BY <1>1, OutputsStepIsImageStep, PTL DEF FairSpec, Spec

-----------------------------------------------------------------------------
(* The inductive invariant of the export.                                  *)
Size == conf[Exporter].disks
Names == IF conf[Exporter].export THEN 1 .. Size ELSE {}

Saving == pc[Exporter] \in {"list", "delete", "create"}
Started == n # 1 \/ xpc # "get"

(* The export works on the images of a build that has saved its disks.     *)
SavedInv ==
  /\ Saving => disk[Exporter] <= Size /\ ~Started
  /\ pc[Exporter] = "saved" \/ Started => Len(made[Exporter]) = Size
  /\ Started => conf[Exporter].export

ControlInv ==
  /\ n \in Nat /\ n >= 1
  /\ xpc \in {"get", "fallback", "create", "copy", "returned"}
  /\ stream \in {"none", "file", "body", "closed"}
  /\ copier \in {"none", "copying", "ok", "error", "ended"}
  /\ result \in {"none", "continue", "halt"}
  /\ conf[Exporter].export /\ result # "continue" => n <= Size
  /\ result = "continue" => n = Size + 1
  /\ xpc = "returned" <=> result # "none"
  /\ xpc = "returned" => stream = "closed"
  /\ copier \in {"copying", "ok", "error"} => xpc \in {"copy", "returned"}
  /\ result = "none" => ~bagError
  /\ sigChan => signalled

(* Only the image at hand has a name.tmp, while it is copied, and those    *)
(* before it have a name.img.                                              *)
FilesInv ==
  /\ tmp \in [Names -> Export!FileState] /\ img \in [Names -> Export!FileState]
  /\ \A k \in Names :
       /\ tmp[k] \in {"part", "whole"} <=> k = n /\ xpc = "copy"
       /\ img[k] \in {"part", "whole"} <=> k < n
       /\ img[k] = "part" => ~conf[Exporter].sized

XInv == SavedInv /\ ControlInv /\ FilesInv

LEMMA XInvInit == OutputsInit => XInv
<1> SUFFICES ASSUME OutputsInit PROVE XInv
  OBVIOUS
<1>1. /\ conf \in Scenarios /\ conf[Exporter] \in Conf
      /\ pc[Exporter] = "list" /\ disk[Exporter] = 1
  BY ScenariosAssumption, ExporterAssumption DEF OutputsInit, Init
<1>2. Size \in Nat /\ Size >= 1
  BY <1>1 DEF Size, Conf, Disk
<1>3. /\ n = 1 /\ xpc = "get" /\ stream = "none" /\ copier = "none"
      /\ sigChan = FALSE /\ bagError = FALSE /\ result = "none"
      /\ \E s \in {"none", "stale"} : tmp = [k \in Names |-> s] /\ img = tmp
  BY DEF OutputsInit, Export!Init, Names, Size
<1>4. SavedInv /\ ControlInv
  BY <1>1, <1>2, <1>3 DEF SavedInv, Saving, Started, ControlInv
<1>5. \A k \in Names : k >= 1
  BY <1>2 DEF Names
<1>6. FilesInv
  BY <1>3, <1>5 DEF FilesInv, Export!FileState, Names
<1> QED
  BY <1>4, <1>6 DEF XInv

-----------------------------------------------------------------------------
(* Saving the disks goes on to the last, and what it made stays.           *)
LEMMA SavingGoesOn ==
  ASSUME IInv, [Next]_vars, Saving => disk[Exporter] <= Size
  PROVE  /\ conf' = conf
         /\ Saving' => Saving /\ disk'[Exporter] <= Size
         /\ pc'[Exporter] = "saved" /\ Saving => Len(made'[Exporter]) = Size
         /\ ~Saving => made'[Exporter] = made[Exporter]
         /\ pc'[Exporter] = "saved" => Saving \/ pc[Exporter] = "saved"
<1> DEFINE Goal ==
         /\ conf' = conf
         /\ Saving' => Saving /\ disk'[Exporter] <= Size
         /\ pc'[Exporter] = "saved" /\ Saving => Len(made'[Exporter]) = Size
         /\ ~Saving => made'[Exporter] = made[Exporter]
         /\ pc'[Exporter] = "saved" => Saving \/ pc[Exporter] = "saved"
<1> USE ExporterAssumption
<1>1. /\ OutputsTypeOK /\ disk[Exporter] \in Nat /\ Size \in Nat
      /\ made[Exporter] \in Seq(Nat)
      /\ Saving => Len(made[Exporter]) = disk[Exporter] - 1
  BY Types DEF IInv, BuildInv, Counted, Saving, Size, Conf, Disk
<1>2. CASE UNCHANGED vars
  BY <1>1, <1>2 DEF vars, Saving, Size
<1>3. ASSUME NEW b \in Builds, SkipList(b) \/ ListImages(b) \/ DeleteOld(b)
      PROVE  Goal
  BY <1>1, <1>3 DEF SkipList, ListImages, DeleteOld, Goto, Fail, Saving, Size, OutputsTypeOK
<1>4. ASSUME NEW b \in Builds, CreateImage(b)
      PROVE  Goal
  <2>1. conf' = conf /\ pc[b] = "create"
    BY <1>4 DEF CreateImage
  <2>2. CASE b # Exporter
    BY <1>1, <1>4, <2>1, <2>2 DEF CreateImage, Goto, Fail, Saving, Size, OutputsTypeOK
  <2>3. CASE b = Exporter /\ pc'[b] = "done"
    BY <1>1, <2>1, <2>3 DEF Saving
  <2>4. CASE b = Exporter /\ pc'[b] = "list"
    BY <1>1, <1>4, <2>1, <2>4 DEF CreateImage, Goto, Fail, Saving, Size, OutputsTypeOK
  <2>5. CASE b = Exporter /\ pc'[b] = "saved"
    <3>1. ~(disk[b] < Size)
      BY <1>1, <1>4, <2>1, <2>5 DEF CreateImage, Goto, Fail, Size, OutputsTypeOK
    <3>2. PICK i : made' = [made EXCEPT ![b] = Append(@, i)]
      BY <1>1, <1>4, <2>1, <2>5 DEF CreateImage, Goto, Fail, OutputsTypeOK
    <3>3. made'[b] = Append(made[b], i)
      BY <1>1, <3>2 DEF OutputsTypeOK
    <3>4. Len(made'[b]) = disk[b]
      BY <1>1, <2>1, <2>5, <3>3 DEF Saving
    <3> QED
      BY <1>1, <2>1, <2>5, <3>1, <3>4 DEF Saving
  <2>6. pc'[b] \in {"done", "list", "saved"}
    BY <1>1, <1>4 DEF CreateImage, Goto, Fail, OutputsTypeOK
  <2> QED
    BY <2>2, <2>3, <2>4, <2>5, <2>6
<1>5. ASSUME NEW b \in Builds, Finish(b) \/ StepFails(b) \/ Cleanup(b)
      PROVE  Goal
  BY <1>1, <1>5 DEF Finish, StepFails, StartCleanup, Cleanup, Goto, Saving, Size, OutputsTypeOK
<1> QED
  BY <1>2, <1>3, <1>4, <1>5 DEF Next, Save

(* The steps of the builds leave the export alone.                         *)
LEMMA BuildsKeep ==
  ASSUME IInv, XInv, [Next]_vars, UNCHANGED exportVars
  PROVE  XInv'
<1>1. /\ conf' = conf
      /\ Saving' => Saving /\ disk'[Exporter] <= Size
      /\ pc'[Exporter] = "saved" /\ Saving => Len(made'[Exporter]) = Size
      /\ ~Saving => made'[Exporter] = made[Exporter]
      /\ pc'[Exporter] = "saved" => Saving \/ pc[Exporter] = "saved"
  BY SavingGoesOn DEF XInv, SavedInv
<1>2. SavedInv'
  BY <1>1 DEF XInv, SavedInv, Saving, Started, Size, exportVars
<1>3. ControlInv'
  BY <1>1 DEF XInv, ControlInv, Size, exportVars
<1>4. FilesInv'
  BY <1>1 DEF XInv, FilesInv, Names, Size, exportVars
<1> QED
  BY <1>2, <1>3, <1>4 DEF XInv

-----------------------------------------------------------------------------
(* The steps of the export leave the images alone, and are those of a      *)
(* build that has saved them.                                              *)
LEMMA ExportFrame ==
  ASSUME IInv, XInv, UNCHANGED vars, pc[Exporter] = "saved" \/ Started,
         Exporting \/ (n' = n /\ xpc' = xpc)
  PROVE  /\ SavedInv'
         /\ conf' = conf /\ Names' = Names /\ Size' = Size
         /\ Size \in Nat /\ Size >= 1
         /\ Len(made[Exporter]) = Size /\ DOMAIN made[Exporter] = 1 .. Size
<1>1. UNCHANGED <<conf, pc, disk, made>>
  BY DEF vars
<1>2. Len(made[Exporter]) = Size
  BY DEF XInv, SavedInv
<1>3. Size \in Nat /\ Size >= 1
  BY Types, ExporterAssumption DEF IInv, Size, Conf, Disk
<1>4. DOMAIN made[Exporter] = 1 .. Size
  BY <1>2, Types, ExporterAssumption DEF IInv
<1>5. SavedInv'
  BY <1>1 DEF XInv, SavedInv, Saving, Started, Size, Exporting
<1> QED
  BY <1>1, <1>2, <1>3, <1>4, <1>5 DEF Names, Size

LEMMA ExportingFrame ==
  ASSUME IInv, XInv, UNCHANGED vars, Exporting
  PROVE  /\ SavedInv'
         /\ conf' = conf /\ Names' = Names /\ Size' = Size
         /\ Size \in Nat /\ DOMAIN made[Exporter] = 1 .. Size
<1>1. pc[Exporter] = "saved"
  BY DEF Exporting
<1> QED
  BY <1>1, ExportFrame DEF vars

(* What the export works on.                                               *)
LEMMA TodoFacts ==
  ASSUME XInv, DOMAIN made[Exporter] = 1 .. Size
  PROVE  /\ DOMAIN Todo = 1 .. Size
         /\ \A k \in 1 .. Size : Todo[k].sized = conf[Exporter].sized
BY DEF Todo

LEMMA Exporting_n ==
  ASSUME IInv, XInv, Exporting, result # "continue"
  PROVE  /\ Names = 1 .. Size /\ n \in Names /\ n <= Size
         /\ Len(Todo) = Size
<1>1. /\ DOMAIN made[Exporter] = 1 .. Size /\ Size \in Nat
      /\ Names = 1 .. Size /\ n \in Nat /\ 1 <= n /\ n <= Size
  BY ExportFrame, Types, ExporterAssumption
     DEF IInv, XInv, SavedInv, ControlInv, Exporting, Names, Size, Conf, Disk
<1>2. Todo = [k \in 1 .. Size |-> [uuid |-> made[Exporter][k], sized |-> conf[Exporter].sized]]
  BY <1>1 DEF Todo
<1>3. Len(Todo) = Size
  BY <1>1, <1>2
<1> QED
  BY <1>1, <1>3

-----------------------------------------------------------------------------
(* The calls that open a stream: they leave the files alone.               *)
LEMMA OpenKeeps ==
  ASSUME IInv, XInv, UNCHANGED vars, Exporting,
         Export!GetFile \/ Export!FallbackAnswers
  PROVE  XInv'
<1>1. /\ SavedInv' /\ conf' = conf /\ Names' = Names /\ Size' = Size
      /\ xpc \in {"get", "fallback"} /\ xpc' \in {"fallback", "create", "returned"}
      /\ UNCHANGED <<n, copier, tmp, img, sigChan, signalled>>
  <2>1. /\ xpc \in {"get", "fallback"} /\ xpc' \in {"fallback", "create", "returned"}
        /\ UNCHANGED <<n, copier, tmp, img, sigChan, signalled>>
    BY DEF Export!GetFile, Export!FallbackAnswers, Export!Fail, Export!Return, Export!env,
           Export!files
  <2> QED
    BY <2>1, ExportingFrame DEF vars
<1>2. \/ UNCHANGED <<bagError, result>> /\ stream' \in {stream, "file", "body"}
         /\ xpc' \in {"fallback", "create"}
      \/ xpc' = "returned" /\ result' = "halt" /\ stream' = "closed"
  BY DEF Export!GetFile, Export!FallbackAnswers, Export!Fail, Export!Return, Export!env,
         Export!files
<1>3. ControlInv'
  BY <1>1, <1>2 DEF XInv, ControlInv
<1>4. FilesInv'
  BY <1>1 DEF XInv, FilesInv, Export!FileState
<1> QED
  BY <1>1, <1>3, <1>4 DEF XInv

LEMMA CreateTmpKeeps ==
  ASSUME IInv, XInv, UNCHANGED vars, Exporting, Export!CreateTmp
  PROVE  XInv'
<1>1. /\ xpc = "create" /\ xpc' \in {"copy", "returned"}
      /\ UNCHANGED <<n, img, sigChan, signalled>>
  BY DEF Export!CreateTmp, Export!Fail, Export!Return, Export!env, Export!files
<1>2. SavedInv' /\ conf' = conf /\ Names' = Names /\ Size' = Size
  BY ExportingFrame DEF vars
<1>3. CASE /\ tmp' = [tmp EXCEPT ![n] = "part"] /\ copier' = "copying" /\ xpc' = "copy"
           /\ UNCHANGED <<stream, bagError, result>>
  <2>1. ControlInv'
    BY <1>1, <1>2, <1>3 DEF XInv, ControlInv
  <2>2. n \in Names
    BY <1>1, Exporting_n DEF XInv, ControlInv
  <2>3. FilesInv'
    BY <1>1, <1>2, <1>3, <2>2 DEF XInv, FilesInv, Export!FileState
  <2> QED
    BY <1>2, <2>1, <2>3 DEF XInv
<1>4. CASE /\ xpc' = "returned" /\ result' = "halt" /\ stream' = "closed"
           /\ UNCHANGED <<copier, tmp>>
  <2>1. ControlInv'
    BY <1>1, <1>2, <1>4 DEF XInv, ControlInv
  <2>2. FilesInv'
    BY <1>1, <1>2, <1>4 DEF XInv, FilesInv, Export!FileState
  <2> QED
    BY <1>2, <2>1, <2>2 DEF XInv
<1> QED
  BY <1>3, <1>4 DEF Export!CreateTmp, Export!Fail, Export!Return, Export!env, Export!files

(* The ways a copy ends: with an error, with a file, or with a signal.     *)
LEMMA EndCopyKeeps ==
  ASSUME IInv, XInv, UNCHANGED vars, Exporting, Export!CopyFails \/ Export!OnSignal
  PROVE  XInv'
<1>1. /\ xpc = "copy" /\ xpc' = "returned" /\ result' = "halt" /\ stream' = "closed"
      /\ copier' \in {copier, "ended"} /\ tmp' = [tmp EXCEPT ![n] = "none"]
      /\ UNCHANGED <<n, img, signalled>> /\ (sigChan' => sigChan)
  BY DEF Export!CopyFails, Export!OnSignal, Export!AfterSignal, Export!RemoveTmp,
         Export!Fail, Export!Return, Export!env
<1>2. SavedInv' /\ conf' = conf /\ Names' = Names /\ Size' = Size
  BY <1>1, ExportingFrame DEF vars
<1>3. ControlInv'
  BY <1>1, <1>2 DEF XInv, ControlInv
<1>4. n \in Names
  BY <1>1, Exporting_n DEF XInv, ControlInv
<1>5. FilesInv'
  BY <1>1, <1>2, <1>4 DEF XInv, FilesInv, Export!FileState
<1> QED
  BY <1>2, <1>3, <1>5 DEF XInv

LEMMA KeepFileKeeps ==
  ASSUME IInv, XInv, UNCHANGED vars, Exporting, Export!KeepFile
  PROVE  XInv'
<1>1. /\ xpc = "copy" /\ xpc' \in {"get", "returned"} /\ stream' = "closed"
      /\ copier' = "ended" /\ tmp' = [tmp EXCEPT ![n] = "none"]
      /\ img' = [img EXCEPT ![n] = tmp[n]] /\ n' = n + 1
      /\ UNCHANGED <<bagError, sigChan, signalled>>
      /\ Export!SizeFits(n)
      /\ IF n < Len(Todo) THEN xpc' = "get" /\ result' = result
         ELSE xpc' = "returned" /\ result' = "continue"
  BY DEF Export!KeepFile, Export!RemoveTmp, Export!Return, Export!env
<1>2. SavedInv' /\ conf' = conf /\ Names' = Names /\ Size' = Size
      /\ DOMAIN made[Exporter] = 1 .. Size /\ Size \in Nat
  BY <1>1, ExportingFrame DEF vars
<1>3. n \in Names /\ Names = 1 .. Size /\ n \in Nat /\ n <= Size /\ Len(Todo) = Size
      /\ result = "none"
  BY <1>1, Exporting_n DEF XInv, ControlInv
<1>4. ControlInv'
  BY <1>1, <1>2, <1>3 DEF XInv, ControlInv
<1>5. FilesInv'
  <2>1. tmp[n] \in {"part", "whole"} /\ (tmp[n] = "part" => ~conf[Exporter].sized)
    BY <1>1, <1>2, <1>3, TodoFacts DEF XInv, FilesInv, Export!SizeFits
  <2>2. /\ tmp' \in [Names -> Export!FileState] /\ img' \in [Names -> Export!FileState]
        /\ tmp'[n] = "none" /\ img'[n] = tmp[n]
        /\ \A k \in Names \ {n} : tmp'[k] = tmp[k] /\ img'[k] = img[k]
    BY <1>1, <1>3, <2>1 DEF XInv, FilesInv, Export!FileState
  <2>3. ASSUME NEW k \in Names
        PROVE  /\ tmp'[k] \notin {"part", "whole"} /\ xpc' # "copy"
               /\ img'[k] \in {"part", "whole"} <=> k < n + 1
               /\ img'[k] = "part" => ~conf[Exporter].sized
    <3>1. CASE k = n
      BY <1>1, <1>3, <2>1, <2>2, <3>1
    <3>2. CASE k # n
      BY <1>1, <1>3, <2>2, <3>2 DEF XInv, FilesInv
    <3> QED
      BY <3>1, <3>2
  <2> QED
    BY <1>1, <1>2, <2>2, <2>3 DEF FilesInv
<1> QED
  BY <1>2, <1>4, <1>5 DEF XInv

(* The goroutine, which goes on when the step has returned.                *)
LEMMA CopyingKeeps ==
  ASSUME IInv, XInv, UNCHANGED vars, Export!CopyEnds \/ Export!SendUnread
  PROVE  XInv'
<1>1. /\ copier \in {"copying", "ok", "error"}
      /\ copier' \in {"ok", "error", "ended"}
      /\ UNCHANGED <<n, xpc, stream, img, sigChan, signalled, bagError, result>>
  BY DEF Export!CopyEnds, Export!SendUnread, Export!env, Export!files
<1>2. SavedInv' /\ conf' = conf /\ Names' = Names /\ Size' = Size /\ xpc \in {"copy", "returned"}
  BY <1>1, ExportFrame DEF XInv, ControlInv, Started, vars
<1>3. ControlInv'
  BY <1>1, <1>2 DEF XInv, ControlInv
<1>4. tmp' = tmp \/ (xpc = "copy" /\ tmp' = [tmp EXCEPT ![n] = "whole"])
  BY <1>2 DEF XInv, ControlInv, Export!CopyEnds, Export!SendUnread, Export!files
<1>5. FilesInv'
  BY <1>1, <1>2, <1>4 DEF XInv, FilesInv, Export!FileState
<1> QED
  BY <1>2, <1>3, <1>5 DEF XInv

LEMMA SignalKeeps ==
  ASSUME IInv, XInv, UNCHANGED vars, Exporting, Export!Signal \/ Export!Cancel
  PROVE  XInv'
<1>1. /\ UNCHANGED <<n, xpc, stream, copier, tmp, img, bagError, result>>
      /\ sigChan' => signalled' \/ (sigChan /\ signalled' = signalled)
  BY DEF Export!Signal, Export!Cancel, Export!Kept, Export!files
<1>2. SavedInv' /\ conf' = conf /\ Names' = Names /\ Size' = Size
  BY <1>1, ExportingFrame DEF vars
<1>3. ControlInv'
  BY <1>1, <1>2 DEF XInv, ControlInv
<1>4. FilesInv'
  BY <1>1, <1>2 DEF XInv, FilesInv
<1> QED
  BY <1>2, <1>3, <1>4 DEF XInv

-----------------------------------------------------------------------------
LEMMA XInvStep == IInv /\ XInv /\ [OutputsNext]_allVars => XInv'
<1> SUFFICES ASSUME IInv, XInv, [OutputsNext]_allVars PROVE XInv'
  OBVIOUS
<1>1. CASE UNCHANGED exportVars
  BY <1>1, OutputsStepIsImageStep, BuildsKeep
<1>2. CASE ExportRuns \/ ExportWaits \/ ExportStops
  BY <1>2, OpenKeeps, CreateTmpKeeps, EndCopyKeeps, KeepFileKeeps, SignalKeeps
     DEF ExportRuns, ExportWaits, ExportStops, Export!Run
<1>3. CASE Copying
  BY <1>3, CopyingKeeps DEF Copying
<1>4. \/ ExportRuns \/ ExportWaits \/ ExportStops \/ Copying \/ UNCHANGED exportVars
  BY DEF OutputsNext, ImageStep, OvaStep, BuildEnds, OvaAppears, allVars
<1> QED
  BY <1>1, <1>2, <1>3, <1>4

(* The invariant of the export holds next to everything the builds do.     *)
THEOREM ExportInvariant == FairSpec => [](IInv /\ XInv)
<1>1. IInv /\ XInv /\ [OutputsNext]_allVars => (IInv /\ XInv)'
  BY XInvStep, IInvStep, OutputsStepIsImageStep
<1>2. OutputsInit => IInv /\ XInv
  BY XInvInit, IInvInit DEF OutputsInit
<1> QED
  BY <1>1, <1>2, PTL DEF FairSpec

(* However the export returns and whatever the goroutine does then, no     *)
(* name.tmp is left, and no name.img that is shorter than its image.       *)
THEOREM ExportedFilesWhole == FairSpec => []FilesWholeOrGone
<1>1. IInv /\ XInv => FilesWholeOrGone
  <2> SUFFICES ASSUME IInv, XInv PROVE Export!FinalFilesWhole /\ Export!NoTmpLeft
    BY DEF FilesWholeOrGone
  <2>1. ASSUME NEW k \in DOMAIN img, img[k] = "part"
        PROVE  ~Todo[k].sized
    <3>1. k \in Names /\ k < n
      BY <2>1 DEF XInv, FilesInv
    <3>2. Started /\ k \in 1 .. Size
      BY <3>1 DEF Started, Names, XInv, ControlInv
    <3>3. Len(made[Exporter]) = Size
      BY <3>2 DEF XInv, SavedInv
    <3>4. DOMAIN made[Exporter] = 1 .. Size
      BY <3>3, Types, ExporterAssumption DEF IInv
    <3> QED
      BY <2>1, <3>1, <3>2, <3>4, TodoFacts DEF XInv, FilesInv
  <2>2. Export!FinalFilesWhole
    BY <2>1 DEF Export!FinalFilesWhole
  <2>3. Export!NoTmpLeft
    BY DEF Export!NoTmpLeft, XInv, FilesInv, ControlInv
  <2> QED
    BY <2>2, <2>3
<1> QED
  BY <1>1, ExportInvariant, PTL

-----------------------------------------------------------------------------
(* The channels of the export have room for what is sent to them: the      *)
(* goroutine can leave its message whether or not the step still waits for *)
(* it, and a signal stays in sigChan until the step returns.  That every   *)
(* copy and every signal comes to an end is checked by TLC; that nothing   *)
(* is in their way is proved.                                              *)
ChannelInv ==
  /\ room \in BOOLEAN /\ sigChan \in BOOLEAN /\ signalled \in BOOLEAN
  /\ ctxDone \in BOOLEAN /\ bagError \in BOOLEAN
  /\ copier \in {"copying", "ok", "error"} => room
  /\ signalled /\ result = "none" => sigChan

LEMMA ChannelInvInit == OutputsInit => ChannelInv
BY DEF OutputsInit, Export!Init, ChannelInv

LEMMA ChannelInvStep ==
  XInv /\ ChannelInv /\ [OutputsNext]_allVars => ChannelInv'
<1> SUFFICES ASSUME XInv, ChannelInv, [OutputsNext]_allVars PROVE ChannelInv'
  OBVIOUS
<1>1. CASE UNCHANGED exportVars
  BY <1>1 DEF exportVars, ChannelInv
<1>2. CASE \/ Export!GetFile \/ Export!FallbackAnswers \/ Export!CopyFails
           \/ Export!OnSignal \/ Export!KeepFile
  <2>1. /\ UNCHANGED <<room, signalled, ctxDone>>
        /\ bagError' \in {bagError, TRUE}
        /\ copier' = copier \/ copier' = "ended"
        /\ \/ sigChan' = sigChan /\ result' = result
           \/ sigChan' = sigChan /\ result' \in {"continue", "halt"}
           \/ sigChan' = FALSE /\ result' = "halt"
    BY <1>2 DEF Export!GetFile, Export!FallbackAnswers, Export!CopyFails, Export!OnSignal,
                Export!KeepFile, Export!Fail, Export!Return, Export!env
  <2>2. /\ room' \in BOOLEAN /\ sigChan' \in BOOLEAN /\ signalled' \in BOOLEAN
        /\ ctxDone' \in BOOLEAN /\ bagError' \in BOOLEAN
    BY <2>1, Zenon DEF ChannelInv
  <2>3. copier' \in {"copying", "ok", "error"} => room'
    BY <2>1, Zenon DEF ChannelInv
  <2>4. signalled' /\ result' = "none" => sigChan'
    BY <2>1 DEF ChannelInv
  <2> QED
    BY <2>2, <2>3, <2>4 DEF ChannelInv
<1>3. CASE Export!CreateTmp
  <2>1. /\ UNCHANGED <<sigChan, signalled, ctxDone>>
        /\ bagError' \in {bagError, TRUE}
        /\ room' = TRUE \/ (room' = room /\ copier' = copier)
        /\ result' = result \/ result' = "halt"
    BY <1>3 DEF Export!CreateTmp, Export!Fail, Export!Return, Export!env
  <2>2. /\ room' \in BOOLEAN /\ sigChan' \in BOOLEAN /\ signalled' \in BOOLEAN
        /\ ctxDone' \in BOOLEAN /\ bagError' \in BOOLEAN
    BY <2>1, Zenon DEF ChannelInv
  <2>3. copier' \in {"copying", "ok", "error"} => room'
    BY <2>1 DEF ChannelInv
  <2>4. signalled' /\ result' = "none" => sigChan'
    BY <2>1, Zenon DEF ChannelInv
  <2> QED
    BY <2>2, <2>3, <2>4 DEF ChannelInv
<1>4. CASE ExportStops
  <2>1. CASE Export!Signal
    <3>1. sigChan' = TRUE /\ signalled' = TRUE /\ UNCHANGED <<copier, room, ctxDone, bagError>>
      BY <2>1 DEF Export!Signal, Export!Kept
    <3> QED
      BY <3>1 DEF ChannelInv
  <2>2. CASE Export!Cancel
    <3>1. ctxDone' = TRUE /\ UNCHANGED <<copier, room, sigChan, signalled, bagError, result>>
      BY <2>2 DEF Export!Cancel
    <3> QED
      BY <3>1 DEF ChannelInv
  <2> QED
    BY <1>4, <2>1, <2>2 DEF ExportStops
<1>5. CASE Copying
  <2>1. CASE Export!CopyEnds
    <3>1. copier = "copying" /\ UNCHANGED <<room, sigChan, signalled, ctxDone, bagError, result>>
      BY <2>1 DEF Export!CopyEnds, Export!env
    <3> QED
      BY <3>1 DEF ChannelInv
  <2>2. CASE Export!SendUnread
    <3>1. /\ copier' = "ended" /\ room' = FALSE
          /\ UNCHANGED <<sigChan, signalled, ctxDone, bagError, result>>
      BY <2>2 DEF Export!SendUnread, Export!env
    <3> QED
      BY <3>1 DEF ChannelInv
  <2> QED
    BY <1>5, <2>1, <2>2 DEF Copying
<1> QED
  BY <1>1, <1>2, <1>3, <1>4, <1>5
     DEF OutputsNext, ImageStep, OvaStep, BuildEnds, OvaAppears, ExportRuns, ExportWaits,
         Export!Run, allVars

(* The goroutine that copies an image is never stuck: whenever it still    *)
(* has something to send there is room for it, whether or not the step is  *)
(* there to receive.                                                       *)
CopierNotStuck == copier \in {"copying", "ok", "error"} => Export!CanSend

(* A signal that was sent is not lost while the step runs.                 *)
SignalNotLost == signalled /\ result = "none" => sigChan

THEOREM CopierNeverStuck == FairSpec => []CopierNotStuck
<1>1. ChannelInv => CopierNotStuck
  BY DEF ChannelInv, CopierNotStuck, Export!CanSend
<1> QED
  BY <1>1, ChannelInvInit, ChannelInvStep, ExportInvariant, PTL DEF FairSpec

THEOREM SignalsAreKept == FairSpec => []SignalNotLost
<1>1. ChannelInv => SignalNotLost
  BY DEF ChannelInv, SignalNotLost
<1> QED
  BY <1>1, ChannelInvInit, ChannelInvStep, ExportInvariant, PTL DEF FairSpec

-----------------------------------------------------------------------------
(* The export comes nearer to its end with every step it takes: what is    *)
(* left of it are the images, the calls for the one at hand, the goroutine *)
(* that copies it, and what the user may still do.                         *)
ImagesLeft == IF result = "none" THEN Size + 1 - n ELSE 0

CallsLeft(l) ==
  CASE l = "get" -> 4
    [] l = "fallback" -> 3
    [] l = "create" -> 2
    [] l = "copy" -> 1
    [] l = "returned" -> 0

CopyLeft(l) ==
  CASE l = "copying" -> 2
    [] l \in {"ok", "error"} -> 1
    [] l \in {"none", "ended"} -> 0

StopsLeft == (IF signalled THEN 0 ELSE 1) + (IF ctxDone THEN 0 ELSE 1)

ExportDescends ==
  \/ ImagesLeft' < ImagesLeft
  \/ ImagesLeft' = ImagesLeft /\ CallsLeft(xpc') < CallsLeft(xpc)
  \/ /\ ImagesLeft' = ImagesLeft /\ xpc' = xpc
     /\ CopyLeft(copier') < CopyLeft(copier)
  \/ /\ ImagesLeft' = ImagesLeft /\ xpc' = xpc /\ copier' = copier
     /\ StopsLeft' < StopsLeft

LEMMA Lefts ==
  /\ CallsLeft("get") = 4 /\ CallsLeft("fallback") = 3 /\ CallsLeft("create") = 2
  /\ CallsLeft("copy") = 1 /\ CallsLeft("returned") = 0
  /\ CopyLeft("copying") = 2 /\ CopyLeft("ok") = 1 /\ CopyLeft("error") = 1
  /\ CopyLeft("none") = 0 /\ CopyLeft("ended") = 0
BY DEF CallsLeft, CopyLeft

\* A step that returns leaves no image, and had one.
LEMMA ReturnDescends ==
  ASSUME IInv, XInv, Exporting, result = "none", result' # "none"
  PROVE  ExportDescends
<1>1. n \in Nat /\ Size \in Nat /\ n <= Size
  BY Exporting_n, ExportingFrame, Types, ExporterAssumption
     DEF IInv, XInv, ControlInv, Exporting, Size, Conf, Disk
<1> QED
  BY <1>1 DEF ExportDescends, ImagesLeft

LEMMA RunDescends ==
  ASSUME IInv, XInv, UNCHANGED vars, Exporting,
         Export!GetFile \/ Export!FallbackAnswers \/ Export!CreateTmp \/ Export!CopyFails
           \/ Export!KeepFile \/ Export!OnSignal
  PROVE  ExportDescends
<1>1. result = "none"
  BY DEF XInv, ControlInv, Export!GetFile, Export!FallbackAnswers, Export!CreateTmp,
     Export!CopyFails, Export!KeepFile, Export!OnSignal
<1>2. SUFFICES ASSUME result' = "none" PROVE ExportDescends
  BY <1>1, ReturnDescends
<1>3. Size' = Size
  BY ExportingFrame
<1>4. CASE Export!GetFile \/ Export!FallbackAnswers \/ Export!CreateTmp
  <2>1. /\ UNCHANGED <<n, result>>
        /\ \/ xpc = "get" /\ xpc' \in {"create", "fallback"}
           \/ xpc = "fallback" /\ xpc' = "create"
           \/ xpc = "create" /\ xpc' = "copy"
    BY <1>1, <1>2, <1>4 DEF Export!GetFile, Export!FallbackAnswers, Export!CreateTmp,
       Export!Fail, Export!Return
  <2> QED
    BY <1>3, <2>1, Lefts DEF ExportDescends, ImagesLeft
<1>5. CASE Export!KeepFile
  <2>1. n' = n + 1
    BY <1>5 DEF Export!KeepFile
  <2>2. n \in Nat /\ Size \in Nat /\ n <= Size
    BY <1>1, Exporting_n, ExportingFrame DEF XInv, ControlInv
  <2> QED
    BY <1>1, <1>2, <1>3, <2>1, <2>2 DEF ExportDescends, ImagesLeft
<1>6. CASE Export!CopyFails \/ Export!OnSignal
  BY <1>2, <1>6 DEF Export!CopyFails, Export!OnSignal, Export!Fail, Export!Return
<1> QED
  BY <1>4, <1>5, <1>6

LEMMA CopyDescends ==
  ASSUME UNCHANGED vars, Export!CopyEnds \/ Export!SendUnread
  PROVE  ExportDescends
<1>1. UNCHANGED <<n, xpc, result, conf>>
  BY DEF Export!CopyEnds, Export!SendUnread, Export!env, vars
<1>2. \/ copier = "copying" /\ copier' \in {"ok", "error"}
      \/ copier \in {"ok", "error"} /\ copier' = "ended"
  BY DEF Export!CopyEnds, Export!SendUnread
<1>3. CopyLeft(copier') < CopyLeft(copier)
  BY <1>2, Lefts
<1> QED
  BY <1>1, <1>3 DEF ExportDescends, ImagesLeft, Size

LEMMA StopDescends ==
  ASSUME UNCHANGED vars, Export!Signal \/ Export!Cancel
  PROVE  ExportDescends
<1>1. UNCHANGED <<n, xpc, copier, result, conf>>
  BY DEF Export!Signal, Export!Cancel, vars
<1>2. \/ ~signalled /\ signalled' = TRUE /\ ctxDone' = ctxDone
      \/ ~ctxDone /\ ctxDone' = TRUE /\ signalled' = signalled
  BY DEF Export!Signal, Export!Cancel
<1>3. StopsLeft' < StopsLeft
  BY <1>2 DEF StopsLeft
<1> QED
  BY <1>1, <1>3 DEF ExportDescends, ImagesLeft, Size

(* No call of the export is tried twice and no image gone back to: each    *)
(* step it takes, and each of its goroutine, of a signal or a cancellation *)
(* during it, leaves less of it, whatever the answers, the other builds    *)
(* and the number of images.                                               *)
THEOREM ExportNeverLoops == FairSpec => [][ExportDescends]_exportVars
<1>1. IInv /\ XInv /\ [OutputsNext]_allVars => [ExportDescends]_exportVars
  <2> SUFFICES ASSUME IInv, XInv, OutputsNext PROVE ExportDescends \/ UNCHANGED exportVars
    BY DEF allVars
  <2>1. CASE ExportRuns \/ ExportWaits
    BY <2>1, RunDescends DEF ExportRuns, ExportWaits, Export!Run
  <2>2. CASE Copying
    BY <2>2, CopyDescends DEF Copying
  <2>3. CASE ExportStops
    BY <2>3, StopDescends DEF ExportStops
  <2>4. CASE \/ OvaAppears
             \/ \E b \in Builds : ImageStep(b) \/ OvaStep(b) \/ BuildEnds(b)
    BY <2>4 DEF OvaAppears, ImageStep, OvaStep, BuildEnds
  <2> QED
    BY <2>1, <2>2, <2>3, <2>4 DEF OutputsNext
<1> QED
  BY <1>1, ExportInvariant, PTL DEF FairSpec

-----------------------------------------------------------------------------
(* The export is one of the steps of the contract.                         *)

(* All images have been exported exactly when the step goes on.            *)
LEMMA AllExportedIsContinue ==
  IInv /\ XInv => (Export!AllExported <=> result = "continue")
<1> SUFFICES ASSUME IInv, XInv PROVE Export!AllExported <=> result = "continue"
  OBVIOUS
<1>1. CASE result = "none"
  BY <1>1 DEF XInv, ControlInv, Export!AllExported
<1>2. CASE result # "none"
  <2>1. Started /\ xpc = "returned" /\ conf[Exporter].export
    BY <1>2 DEF XInv, ControlInv, SavedInv, Started
  <2>2. Len(made[Exporter]) = Size /\ Size \in Nat
    BY <2>1, Types, ExporterAssumption DEF IInv, XInv, SavedInv, Size, Conf, Disk
  <2>3. DOMAIN made[Exporter] = 1 .. Size /\ Names = 1 .. Size
    BY <2>1, <2>2, Types, ExporterAssumption DEF IInv, Names
  <2>4. DOMAIN Todo = Names
    BY <2>3, TodoFacts
  <2>5. Export!AllExported <=> \A k \in Names : k < n
    BY <2>1, <2>4 DEF Export!AllExported, XInv, FilesInv
  <2>6. n \in Nat /\ n >= 1 /\ (result = "continue" => n = Size + 1)
        /\ (result # "continue" => n <= Size)
    BY <2>1 DEF XInv, ControlInv
  <2> QED
    BY <2>2, <2>3, <2>5, <2>6
<1> QED
  BY <1>1, <1>2

LEMMA ContractInit == OutputsInit => Export!Step!Init
BY DEF OutputsInit, Export!Init, Export!Step!Init, Export!AllExported

LEMMA ContractStep ==
  IInv /\ XInv /\ [OutputsNext]_allVars =>
    [Export!Step!Next]_<<result, bagError, signalled, Export!AllExported>>
<1> SUFFICES ASSUME IInv, XInv, [OutputsNext]_allVars
             PROVE  Export!Step!Next \/ UNCHANGED <<result, bagError, signalled, Export!AllExported>>
  OBVIOUS
<1>1. /\ Export!AllExported <=> result = "continue"
      /\ Export!AllExported' <=> result' = "continue"
  <2>1. IInv' /\ XInv'
    BY XInvStep, IInvStep, OutputsStepIsImageStep
  <2>2. (IInv /\ XInv => (Export!AllExported <=> result = "continue"))'
    BY AllExportedIsContinue, PTL
  <2> QED
    BY <2>1, <2>2, AllExportedIsContinue
<1>2. /\ Export!AllExported \in BOOLEAN /\ Export!AllExported' \in BOOLEAN
      /\ result' = result => Export!AllExported' = Export!AllExported
      /\ result = "none" /\ result' = "halt" => Export!AllExported' = Export!AllExported
      /\ result' = "continue" => Export!AllExported' = TRUE
  BY <1>1, Zenon DEF Export!AllExported
<1>3. CASE UNCHANGED <<result, bagError, signalled>>
  BY <1>2, <1>3
<1>4. CASE /\ result = "none" /\ result' = "halt" /\ bagError' = TRUE
           /\ signalled' = signalled
  BY <1>2, <1>4 DEF Export!Step!Next, Export!Step!Fail
<1>5. CASE /\ result = "none" /\ result' = "halt" /\ signalled
           /\ UNCHANGED <<bagError, signalled>>
  BY <1>2, <1>5 DEF Export!Step!Next, Export!Step!Quit
<1>6. CASE /\ result = "none" /\ result' = "continue"
           /\ UNCHANGED <<bagError, signalled>>
  BY <1>2, <1>6 DEF Export!Step!Next, Export!Step!Complete
<1>7. CASE ~signalled /\ signalled' = TRUE /\ UNCHANGED <<result, bagError>>
  BY <1>2, <1>7 DEF Export!Step!Next, Export!Step!AskToStop
<1>8. CASE UNCHANGED exportVars
  BY <1>3, <1>8 DEF exportVars
<1>9. CASE Copying
  BY <1>3, <1>9 DEF Copying, Export!CopyEnds, Export!SendUnread, Export!env
<1>10. CASE ExportStops
  BY <1>3, <1>7, <1>10 DEF ExportStops, Export!Signal, Export!Cancel
<1>11. CASE ExportRuns \/ ExportWaits
  <2>1. (xpc # "returned" => result = "none") /\ (sigChan => signalled)
    BY DEF XInv, ControlInv
  <2>2. CASE Export!GetFile \/ Export!FallbackAnswers \/ Export!CreateTmp
    <3>1. xpc # "returned"
      BY <2>2 DEF Export!GetFile, Export!FallbackAnswers, Export!CreateTmp
    <3>2. \/ UNCHANGED <<result, bagError, signalled>>
          \/ result' = "halt" /\ bagError' = TRUE /\ signalled' = signalled
      BY <2>2 DEF Export!GetFile, Export!FallbackAnswers, Export!CreateTmp,
                  Export!Fail, Export!Return, Export!env
    <3> QED
      BY <1>3, <1>4, <2>1, <3>1, <3>2
  <2>3. CASE Export!CopyFails
    BY <1>4, <2>1, <2>3 DEF Export!CopyFails, Export!Fail, Export!Return, Export!env
  <2>4. CASE Export!OnSignal
    BY <1>5, <2>1, <2>4 DEF Export!OnSignal, Export!Return
  <2>5. CASE Export!KeepFile
    <3>1. \/ UNCHANGED <<result, bagError, signalled>>
          \/ result' = "continue" /\ UNCHANGED <<bagError, signalled>>
      BY <2>5 DEF Export!KeepFile, Export!Return, Export!env
    <3> QED
      BY <1>3, <1>6, <2>1, <2>5, <3>1 DEF Export!KeepFile
  <2> QED
    BY <1>11, <2>2, <2>3, <2>4, <2>5 DEF ExportRuns, ExportWaits, Export!Run
<1> QED
  BY <1>8, <1>9, <1>10, <1>11 DEF OutputsNext, ImageStep, OvaStep, BuildEnds, OvaAppears, allVars

(* stepExportImage goes on only with a new file for each image, and halts  *)
(* only with an error in the bag or because of a signal, whatever the      *)
(* other builds do to the images it exports.                               *)
THEOREM ExportKeepsContract == FairSpec => ExportImplementsStep
BY ContractInit, ContractStep, ExportInvariant, PTL
   DEF FairSpec, ExportImplementsStep, Export!Step!Spec

-----------------------------------------------------------------------------
(* The search for the OVA: the one a build has made is dated, and precedes *)
(* every older one as soon as it is listed.                                *)
Stages == {"create", "find", "download", "rename", "exported", "failed"}

OwnOva(b) ==
  stage[b] \in {"find", "download", "rename", "exported"} =>
    own[b] \in DOMAIN ovas /\ ovas[own[b]].dated

TakenOva(b) ==
  stage[b] \in {"download", "rename", "exported"} /\ taken[b] < own[b] => missed[b]

OvaInv ==
  /\ ovas \in Seq(Ova!Ova)
  /\ stage \in [Builds -> Stages]
  /\ own \in [Builds -> Nat] /\ taken \in [Builds -> Nat] /\ missed \in [Builds -> BOOLEAN]
  /\ \A b \in Builds : OwnOva(b) /\ TakenOva(b)

LEMMA OvaInvInit == OutputsInit => OvaInv
<1> SUFFICES ASSUME OutputsInit PROVE OvaInv
  OBVIOUS
<1>1. PICK before \in Nat : ovas \in [1 .. before -> [dated : BOOLEAN, listed : {TRUE}]]
  BY OvasAssumption DEF OutputsInit, Ova!Init
<1>2. ovas \in Seq(Ova!Ova)
  <2>1. [dated : BOOLEAN, listed : {TRUE}] \subseteq Ova!Ova
    BY DEF Ova!Ova
  <2>2. ovas \in [1 .. before -> Ova!Ova]
    BY <1>1, <2>1
  <2> QED
    BY <2>2
<1>3. /\ stage = [b \in Builds |-> "create"]
      /\ own = [b \in Builds |-> 0] /\ taken = [b \in Builds |-> 0]
      /\ missed = [b \in Builds |-> FALSE]
  BY DEF OutputsInit, Ova!Init
<1> QED
  BY <1>2, <1>3 DEF OvaInv, OwnOva, TakenOva, Stages

(* An OVA stays dated, wherever the list of them grows or is completed.    *)
LEMMA OvasGrow ==
  ASSUME OvaInv, NEW i \in DOMAIN ovas, ovas[i].dated,
         \/ ovas' = ovas
         \/ \E m \in Ova!Ova : ovas' = Append(ovas, m)
         \/ \E j \in DOMAIN ovas : ovas' = [ovas EXCEPT ![j].listed = TRUE]
  PROVE  i \in DOMAIN ovas' /\ ovas'[i].dated
<1>1. ovas \in Seq(Ova!Ova) /\ ovas[i] \in Ova!Ova
  BY DEF OvaInv
<1>2. CASE \E m \in Ova!Ova : ovas' = Append(ovas, m)
  BY <1>1, <1>2
<1>3. CASE \E j \in DOMAIN ovas : ovas' = [ovas EXCEPT ![j].listed = TRUE]
  BY <1>1, <1>3 DEF Ova!Ova
<1> QED
  BY <1>2, <1>3

LEMMA OvaStepKeeps ==
  ASSUME OvaInv, NEW b \in Builds, Ova!Step(b)
  PROVE  OvaInv'
<1>1. CASE Ova!CreateOva(b)
  <2> DEFINE m == [dated |-> TRUE, listed |-> FALSE]
  <2>1. m \in Ova!Ova /\ ovas \in Seq(Ova!Ova) /\ Len(ovas) \in Nat
    BY DEF OvaInv, Ova!Ova
  <2>2. /\ Append(ovas, m) \in Seq(Ova!Ova)
        /\ Len(Append(ovas, m)) = Len(ovas) + 1
        /\ DOMAIN Append(ovas, m) = DOMAIN ovas \cup {Len(ovas) + 1}
        /\ Append(ovas, m)[Len(ovas) + 1] = m
    BY <2>1, Appended
  <2>3. /\ ovas' \in {ovas, Append(ovas, m)} /\ UNCHANGED <<left, taken, missed>>
        /\ stage[b] = "create" /\ \E s \in {"find", "failed"} : stage' = [stage EXCEPT ![b] = s]
        /\ stage'[b] = "find" =>
             ovas' = Append(ovas, m) /\ own' = [own EXCEPT ![b] = Len(ovas) + 1]
        /\ stage'[b] = "failed" => own' = own
    BY <1>1, <2>2 DEF OvaInv, Ova!CreateOva, Ova!Goto
  <2>4. /\ ovas' \in Seq(Ova!Ova) /\ stage' \in [Builds -> Stages]
        /\ stage'[b] \in {"find", "failed"} /\ own' \in [Builds -> Nat]
        /\ \A c \in Builds \ {b} : stage'[c] = stage[c] /\ own'[c] = own[c]
    <3>1. ovas' \in Seq(Ova!Ova)
      BY <2>1, <2>2, <2>3
    <3>2. /\ stage' \in [Builds -> Stages] /\ stage'[b] \in {"find", "failed"}
          /\ \A c \in Builds \ {b} : stage'[c] = stage[c]
      BY <2>3 DEF OvaInv, Stages
    <3>3. own' \in [Builds -> Nat] /\ \A c \in Builds \ {b} : own'[c] = own[c]
      <4>1. CASE stage'[b] = "find"
        <5>1. own \in [Builds -> Nat] /\ Len(ovas) + 1 \in Nat
          BY <2>1 DEF OvaInv
        <5>2. own' = [own EXCEPT ![b] = Len(ovas) + 1]
          BY <2>3, <4>1
        <5> QED
          BY <5>1, <5>2
      <4>2. CASE stage'[b] = "failed"
        BY <2>3, <4>2 DEF OvaInv
      <4> QED
        BY <3>2, <4>1, <4>2
    <3> QED
      BY <3>1, <3>2, <3>3
  <2>5. ASSUME NEW c \in Builds PROVE OwnOva(c)' /\ TakenOva(c)'
    <3>1. CASE c = b
      BY <2>1, <2>2, <2>3, <2>4, <3>1 DEF OwnOva, TakenOva, OvaInv
    <3>2. CASE c # b
      BY <2>1, <2>3, <2>4, <3>2, OvasGrow DEF OwnOva, TakenOva, OvaInv
    <3> QED
      BY <3>1, <3>2
  <2> QED
    BY <2>3, <2>4, <2>5 DEF OvaInv
<1>2. CASE Ova!FindOva(b)
  <2>1. PICK i \in Ova!Latest :
          /\ taken' = [taken EXCEPT ![b] = i]
          /\ missed' = [missed EXCEPT ![b] = ~ovas[own[b]].listed]
    BY <1>2 DEF Ova!FindOva
  <2>2. /\ stage[b] = "find" /\ stage' = [stage EXCEPT ![b] = "download"]
        /\ UNCHANGED <<ovas, left, own>>
    BY <1>2 DEF Ova!FindOva, Ova!Goto
  <2>3. /\ i \in DOMAIN ovas /\ i \in Nat /\ own[b] \in Nat
        /\ own[b] \in DOMAIN ovas /\ ovas[own[b]].dated
    BY <2>2 DEF OvaInv, OwnOva, Ova!Latest, Ova!Listed
  <2>4. i < own[b] => ~ovas[own[b]].listed
    BY <2>3 DEF Ova!Latest, Ova!Listed, Ova!Before
  <2>5. missed' \in [Builds -> BOOLEAN]
    BY <2>1, Zenon DEF OvaInv
  <2>6. missed'[b] <=> ~ovas[own[b]].listed
    BY <2>1, Zenon DEF OvaInv
  <2>7. /\ stage' \in [Builds -> Stages] /\ taken' \in [Builds -> Nat]
        /\ stage'[b] = "download" /\ taken'[b] = i
        /\ \A c \in Builds \ {b} : stage'[c] = stage[c] /\ taken'[c] = taken[c]
    BY <2>1, <2>2, <2>3 DEF OvaInv, Stages
  <2>8. \A c \in Builds \ {b} : missed'[c] = missed[c]
    BY <2>1 DEF OvaInv
  <2>9. ASSUME NEW c \in Builds PROVE OwnOva(c)' /\ TakenOva(c)'
    <3>1. CASE c = b
      BY <2>2, <2>3, <2>4, <2>6, <2>7, <3>1 DEF OwnOva, TakenOva
    <3>2. CASE c # b
      BY <2>2, <2>7, <2>8, <3>2 DEF OwnOva, TakenOva, OvaInv
    <3> QED
      BY <3>1, <3>2
  <2> QED
    BY <2>2, <2>5, <2>7, <2>9 DEF OvaInv
<1>3. CASE Ova!FindAgain(b) \/ Ova!Download(b) \/ Ova!Rename(b)
  <2>1. /\ UNCHANGED <<ovas, own, taken, missed>>
        /\ \E s \in {stage[b], "rename", "exported", "failed"} :
             stage' = [stage EXCEPT ![b] = s]
        /\ stage[b] \in {"find", "download", "rename"}
        /\ stage[b] = "find" => stage'[b] \in {"find", "failed"}
    BY <1>3 DEF OvaInv, Ova!FindAgain, Ova!Download, Ova!Rename, Ova!Goto
  <2>2. /\ stage' \in [Builds -> Stages] /\ \A c \in Builds \ {b} : stage'[c] = stage[c]
    BY <2>1 DEF OvaInv, Stages
  <2> QED
    BY <2>1, <2>2 DEF OvaInv, OwnOva, TakenOva
<1> QED
  BY <1>1, <1>2, <1>3 DEF Ova!Step

LEMMA OvaInvStep == OvaInv /\ [OutputsNext]_allVars => OvaInv'
<1> SUFFICES ASSUME OvaInv, [OutputsNext]_allVars PROVE OvaInv'
  OBVIOUS
<1>1. CASE UNCHANGED ovaVars
  BY <1>1 DEF ovaVars, OvaInv, OwnOva, TakenOva
<1>2. CASE \E b \in Builds : Ova!Step(b)
  BY <1>2, OvaStepKeeps
<1>3. CASE \E j \in DOMAIN ovas : Ova!Appears(j)
  <2>1. PICK j \in DOMAIN ovas :
          /\ ovas' = [ovas EXCEPT ![j].listed = TRUE]
          /\ UNCHANGED <<stage, left, own, taken, missed>>
    BY <1>3 DEF Ova!Appears
  <2>2. ovas' \in Seq(Ova!Ova)
    <3>1. ovas \in Seq(Ova!Ova) /\ ovas[j] \in Ova!Ova
      BY DEF OvaInv
    <3>2. [ovas[j] EXCEPT !.listed = TRUE] \in Ova!Ova
      BY <3>1 DEF Ova!Ova
    <3>3. ovas' = [ovas EXCEPT ![j] = [ovas[j] EXCEPT !.listed = TRUE]]
      BY <2>1, <3>1
    <3> QED
      BY <3>1, <3>2, <3>3
  <2>3. ASSUME NEW c \in Builds PROVE OwnOva(c)' /\ TakenOva(c)'
    BY <2>1, OvasGrow DEF OvaInv, OwnOva, TakenOva
  <2> QED
    BY <2>1, <2>2, <2>3 DEF OvaInv
<1> QED
  BY <1>1, <1>2, <1>3
     DEF OutputsNext, ImageStep, OvaStep, OvaAppears, BuildEnds, ExportRuns, ExportWaits,
         ExportStops, Copying, allVars

(* An OVA older than the build's own is exported only if its own was not   *)
(* listed when the search ended, whatever OVAs of the name other builds    *)
(* make meanwhile and whether old ones have a date.                        *)
THEOREM OlderOvasExplained == FairSpec => []OlderOvaExplained
<1>1. OvaInv => OlderOvaExplained
  BY DEF OvaInv, TakenOva, OlderOvaExplained, Ova!OlderOvaExplained
<1> QED
  BY <1>1, OvaInvInit, OvaInvStep, PTL DEF FairSpec

-----------------------------------------------------------------------------
(* ExportOVA looks its OVA up as often as Tries allows and no more: it has *)
(* a try left wherever it looks.                                           *)
TriesInv ==
  /\ left \in [Builds -> 0 .. Tries]
  /\ \A b \in Builds : stage[b] \in {"create", "find"} => left[b] # 0

LEMMA TriesInvInit == OutputsInit => TriesInv
BY OvasAssumption DEF OutputsInit, Ova!Init, TriesInv

LEMMA TriesInvStep == OvaInv /\ TriesInv /\ [OutputsNext]_allVars => TriesInv'
<1> SUFFICES ASSUME OvaInv, TriesInv, [OutputsNext]_allVars PROVE TriesInv'
  OBVIOUS
<1>1. CASE UNCHANGED <<stage, left>>
  BY <1>1 DEF TriesInv
<1>2. ASSUME NEW b \in Builds, Ova!Step(b) PROVE TriesInv'
  <2>1. CASE Ova!FindAgain(b)
    <3>1. /\ stage[b] = "find" /\ left[b] \in 1 .. Tries
          /\ left' = [left EXCEPT ![b] = @ - 1]
          /\ IF left[b] = 1 THEN stage' = [stage EXCEPT ![b] = "failed"] ELSE stage' = stage
      BY <2>1, OvasAssumption DEF Ova!FindAgain, Ova!LastTry, Ova!Goto, TriesInv
    <3> QED
      BY <3>1, OvasAssumption DEF OvaInv, TriesInv
  <2>2. CASE ~Ova!FindAgain(b)
    <3>1. /\ left' = left
          /\ \E s \in {"find", "failed", "download", "rename", "exported"} :
               /\ stage' = [stage EXCEPT ![b] = s]
               /\ s = "find" => stage[b] = "create"
      BY <1>2, <2>2 DEF Ova!Step, Ova!CreateOva, Ova!FindOva, Ova!Download, Ova!Rename,
                        Ova!Goto
    <3> QED
      BY <3>1 DEF OvaInv, TriesInv
  <2> QED
    BY <2>1, <2>2
<1>3. CASE OvaAppears
  BY <1>1, <1>3 DEF OvaAppears, Ova!Appears
<1> QED
  BY <1>1, <1>2, <1>3
     DEF OutputsNext, ImageStep, OvaStep, BuildEnds, ExportRuns, ExportWaits,
         ExportStops, Copying, allVars, ovaVars

(* Every variable of the builds, of the export and of the OVAs keeps to    *)
(* its type, the number of tries left among them.                          *)
THEOREM OutputsTypesCorrect == FairSpec => []TypeOK
<1>1. IInv /\ XInv /\ ChannelInv => OutputsTypeOK /\ Export!TypeOK
  BY DEF IInv, XInv, ControlInv, FilesInv, ChannelInv, Export!TypeOK
<1>2. OvaInv /\ TriesInv => Ova!OvaTypeOK
  BY DEF OvaInv, TriesInv, Ova!OvaTypeOK, Stages
<1>3. IInv /\ XInv /\ ChannelInv /\ OvaInv /\ TriesInv => TypeOK
  BY <1>1, <1>2 DEF TypeOK
<1> QED
  BY <1>3, ExportInvariant, ChannelInvInit, ChannelInvStep, OvaInvInit, OvaInvStep,
     TriesInvInit, TriesInvStep, PTL DEF FairSpec

=============================================================================
