# Formal models of packer-plugin-nutanix

The plugin builds VM images on Nutanix Prism Central: it creates a builder VM,
boots it, waits for its address, provisions it over the communicator, powers it
off, saves its disks as images (and optionally a template or an OVA), exports
them, and removes what was temporary. This directory holds TLA+ models of that
process, the configurations that check them with TLC, and proofs checked by
TLAPS. Source paths are relative to the repository; `builder/nutanix/` is left
out where the file name is clear.

## The system

### Components

| Component | State | Operations | Correct when | Modules |
|---|---|---|---|---|
| Step runner of the Packer SDK (external), used by `Builder.Run` | current step, deferred cleanups | run a step, stop on halt / cancel / panic, unwind | steps in order, every deferred `Cleanup` once, last in first out | `StepRunner`, `Build` |
| `Builder.Run` (`builder.go`) | the state bag | choose the steps, run them, return artifact or error | every bag key a step reads is there; the artifact exists; a failure is reported; it ends | `Build` |
| `Config.Prepare` (`config.go`) | the configuration | default, adjust, reject | what is accepted can be executed and is what the user wrote | `Request`, `BuildConfig` |
| Lookups (`helpers.go`: cluster, subnet, GPU, project, category) | none | search by name | the one match, or an error | `Request` |
| Builder VM (`step_build_vm.go`, `CreateRequest`, `Create`, `PowerOn`, `Delete`) | VM, `vm_uuid`, `cd_uuid`, `image_to_delete`; the request | upload, download, mark, request, create, power on; clean up | the VM has the devices asked for; it is kept or deleted as configured; borrowed images are given back | `Build`, `Request` |
| VNC steps | websocket, `vnc_conn` | connect, type | - (I/O) | `Build` (one action each) |
| `stepWaitForIp`, `doGetIp`, `WaitForIP` | `ip`, `err`, `waitDone`, timers, two contexts | poll, settle, time out, cancel | a usable, settled address or a reported reason; the goroutine ends | `WaitForIp` |
| `StepShutdown` | timer | power off / command / by hand, poll | nothing is captured from a running VM | `Build` |
| `stepCleanVM`, `CleanCD` | attached CD-ROMs | remove each | no output is made of a VM with CD-ROMs left that could be removed | `Build` |
| `stepCreateImage`, `SaveVMDisk` | `imageList`, library | save, replace, clean up | only images the options name are removed, in parallel builds too | `Build`, `OutputImages` |
| `stepExportImage`, `ExportImage` | files, stream, goroutine, signal | download or fall back, copy, rename | whole files or none; a stop is heard | `ExportImage` |
| `StepCreateOVA`, `StepExportOVA`, `stepCreateTemplate` | OVAs, template | create, find, download | the build exports its own OVA | `OvaExport`, `Build` |
| Source images (`sourceImageExists`, `findImageByName`, `CreateImageURL`, `CreateImageFile`) | image library, shared by builds | look up, upload, download, replace, delete | parallel builds do not take each other's images | `SourceImages` |
| Client cache (`cache.go`, `getV4Client`, `getV4TransferClient`) | cached clients | get or create | a call gets the client with its options | not modelled |

### How they interact

`Builder.Run` puts the configuration, the driver and the UI in the state bag,
builds the list of steps and hands both to `multistep.BasicRunner`. Steps talk
to each other only through the bag (`vm_uuid`, `image_uuid`, `ip`, `error`, ...)
and to Prism Central only through the driver. The SDK's runner adds
`cancelled` and `halted` to the bag; `stepBuildVM.Cleanup`, the last cleanup
of importance to run, reads them to decide what becomes of the VM. Builds that run in
parallel are separate processes that share nothing but Prism Central, where
images and OVAs are found *by name*, and the folder they are started in.

### What is hard

* **Partial failure.** Every driver call waits for a task and may return an
  error although the task went through; each step can stop in the middle of a loop.
* **Panics.** Two steps drop the error of `GetVM` and use the nil instance. Go
  runs the deferred cleanups during the panic, in a bag without `halted`.
* **Cancellation** arrives at any moment, seen by some steps at once, by others never;
  the runner's own goroutine puts `cancelled` in the bag while a step runs.
* **Concurrency** inside `stepWaitForIp` and `stepExportImage` (a goroutine, a channel and a
  select with a timer or a signal) and between builds (the library changes between a lookup
  and the use of its result).
* **Sequences.** Which step puts which key, and when, depends on the configuration
  and on where an earlier step failed; `Prepare` checks and defaults in an order.

`PROJECT.json` lists every hazard at its line with the properties that cover it.

## The modules

```
StepRunner                          what the SDK's runner promises (abstract)
   ^ implemented by
Build  <- MCBuild <- BuildClaims    one whole build
   |  ^---- BuildProofs <- OutcomeProofs <- LibraryProofs
   v
BuildConfig                         the configurations of a build
   ^ shown to be what Prepare lets through, by

Request <- MCRequest                Prepare and CreateRequest
   ^---- RequestProofs

StepContract                        what a step promises to the runner (abstract)
   ^ implemented by
WaitForIp, ExportImage              the inside of two steps of Build
   ^---- WaitForIpProofs

OutputImages                        parallel builds that save under one name
   ^ implemented by                   <---- OutputImagesProofs
Outputs  <- MCOutputs               OutputImages with ExportImage and OvaExport
   ^---- OutputsProofs

SourceImages <- MCSourceImages <- SourceImageClaims    parallel builds, source images
   ^---- SourceImagesProofs
```

**StepRunner** has four variables: the registered steps, the mode of the
runner, its position and the deferred cleanups. It is written from how the
code uses the SDK, and says nothing about what a step does. `Rank` counts the steps and cleanups
that are left, and `LastInFirstOut` is the order of the deferred ones.

**BuildConfig** is the interface between `Request` and `Build`: the options a build depends on
(`Config`), what `Prepare` rejects of them (`Accepted`) and what it changes (`Prepare`). `Build` is
given such configurations; `Request` shows that they are those `Prepare` lets through.

**Build** is one build. Its state corresponds to the code as follows.

| TLA+ | code |
|---|---|
| `mode`, `at`, `deferred`, `panicking` | the SDK's runner and Go's defer stack |
| `bag` | the *keys* present in the state bag; of the values only `marks` (`imageToDelete`) and `images` (`imageList`) matter |
| `pc`, `i`, `img` | the executing step: where it is, its loop index, the image at hand |
| `cfg` | the configuration after `Config.Prepare` |
| `ctxDone`, `signalled` | the build's context; a signal that `stepExportImage` subscribed to |
| `vm`, `cdroms`, `lib`, `outputs` | Prism Central, and files on disk |
| `nameless` | the CD-ROMs that Prism Central will show without an `ExtId` |
| `tried` | history: what the cleanups passed to `DeleteImage` |
| `outcome` | what `Builder.Run` returned (or that the process crashed) |

One action is one driver call together with the step's code up to the next
call. `Return`, `Continue`, `Halt` and `Crash` are what the runner does with the
result of a step, and are part of the action that ends it. `Listed` is the
list that `Builder.Run` makes, `Needs` the keys each step reads with an unchecked
type assertion. `UploadCD` ... `PowerOn` are `stepBuildVM.Run` and the disk
loop of `CreateRequest`; `CleanupVM`, `DeleteMarked`, `DecideVM`, `DeleteVM` are its
`Cleanup`. `Measure` is what a build has left to do.

**StepContract** is what `Build` takes for granted of a step that is one action
there: it goes on only when its product is there, and it halts with an error in
the bag or because somebody asked it to stop. The two steps with a goroutine of
their own are shown to implement it.

**WaitForIp** opens up the action `ObtainIp`: the polling goroutine (`poller`), the
select loop (`main`), the variables and the channel they share, `time.After`, the
settle period, the context of the build and the one derived from it.

**OutputImages** has any number of builds that save any number of disks under
one `image_name`. `listed`, `made` and `tried` keep what `SaveVMDisk` saw, what
it created and what was passed to `Images.Delete`; `pc` says at which call
a build is. Images are numbered in the order of their creation.

**ExportImage** is `stepExportImage.Run` with the driver's `ExportImage`: the v4
download (`GetFile`) and the v3 fallback, `CreateTmp`, the goroutine that copies (`CopyEnds`,
`SendUnread`), and the select of `copyDone` and `sigChan` (`CopyFails`, `KeepFile`,
`OnSignal`). `tmp` and `img` are the files of the current folder.

**OvaExport** is `StepCreateOVA` and `StepExportOVA`: the OVA that was made is not
remembered but looked up by name, in a list it may not be on yet, for a limited
number of times.

**Outputs** composes the three: a build exports its images and then its OVA after it has saved
its disks, while the others go on replacing what it made. It has the order of the steps from
`stepCreateImage` on, and the fairness.

**SourceImages** has the library and any number of builds, each with one
source image of the same name, from a file or from an URI. The lookups
(`FindImageByName`, `SourceImageExists`, `Newest`, `NewestReady`) are operators
that give the *set* of images the code may return; each driver call of a build is one action, and
those of the other builds, or an image becoming ready, come between any two.

**Request** goes from what the user wrote (`user`) over `Config.Prepare` (`Defaulted`,
and the checks in the order in which they see defaults) to the `request` that `CreateRequest` makes of
the inventory `inv`: one action for each turn of its loops over disks, NICs and GPUs,
and the lookups by name as sets of matches (`ClustersNamed`, `SubnetsNamed`, `Free`, `Found`,
`ProjectsNamed`). `ForBuild` reads a configuration as one of `BuildConfig`.

**MCBuild**, **MCOutputs**, **MCSourceImages** and **MCRequest** define the configurations, libraries
and inventories used for checking. **BuildClaims** and **SourceImageClaims**
state what a document of the repository says and the code does not do.

### Abstractions

* A driver call is a choice: success; failure without its effect; failure
  with it. Names, UUIDs, sizes and payloads are not modelled, and the entities
  Prism Central returns have the fields the code dereferences. Where the code tests a field and goes on
  without it, both cases are modelled: the `ExtId` of a CD-ROM in `CleanCD` (any subset of the CD-ROMs lacks
  it, `nameless`), the checksum, the readiness and the creation time of an image.
* In `Build` an image is named by where it comes from: the CD, the path or the URI of disk
  *n*, the output of disk *n*; one image of the user may match the URI of a disk ("user")
  and one may have the name of an output ("old"). The NIC, GPU, category and
  project parts of `CreateRequest` succeed or fail there; `Request` has them.
* The VNC steps, `stepWaitForIp`, the template and the OVA steps and the export
  are one action each in `Build`: done, failed with an error, or, where the code
  looks at the context or at a signal, stopped without one.
* The runner is the SDK's for the default `-on-error=cleanup` and without `-debug`. Creating
  the driver (`builder.go:42`) precedes everything modelled.
* `Connect`, `Provision` and `StepCreateCD` are steps of the SDK, modelled from
  what they leave in the bag.
* A poll that learns nothing is a stuttering step. Time is abstract: a timer
  fires at any moment after it was set.
* `VMs.Get` honours its context, as Go's HTTP client does (`WaitForIp`).
* In `SourceImages` an image made by a build has a creation time; only older
  ones may lack it, and the same holds of OVAs in `OvaExport`. Prism Central need not return the
  `Source` an image was created with.
* In `ExportImage` the folder holds leftovers of earlier exports under every name or under
  none, one build exports into it, and removing a file succeeds. A stream is
  delivered whole or in part; only a size that the driver knows can tell.
* In `Request` CPU and memory sizes, ports and timeouts are left out, and so are
  the `Prepare` methods of the SDK's own parts. An upload gives the disk a library image; where
  images come from is in `Build` and `SourceImages`.

## The runs

All of them use TLC's breadth-first search without depth limit; the models are
finite without state constraints. `CHECK_DEADLOCK FALSE` because a build ends.

| Run | Question | Bounds |
|---|---|---|
| `lifecycle` | What becomes of the VM, the bag and the build, whatever fails and whenever the user cancels? | 48 configurations: 3 ways to stop x force delete x retain x image skipped x image deleted and exported |
| `images` | What do the outputs contain and replace, and are borrowed images given back? | one to three disks, of them up to two CD-ROMs, any of which may lack its `ExtId`; clean, skip, export and the three treatments of an existing image; two disks from every kind of source, mark and force, and of a kind the code does not know, with and without the temporary CD |
| `waitip` | Does the wait return, with which address? | two addresses inside the filter, one outside, none; failures at any query |
| `shared_images` | Do parallel builds disturb each other's source images? | two builds x 20 configurations, 7 libraries; symmetric in the builds |
| `outputs` | Do parallel builds disturb each other's images, exports and OVAs, and does an export end? | two builds, two disks, 3 libraries of older images (none, one of each name, two of one name), `Tries = 2`, one older OVA |
| `request` | Is the VM that is requested the one the user described, and is it what Prepare lets through? | four families of configurations (outputs, disks, machine, network), wrong ones included, x 9 inventories with homonyms |
| `force_cancel`, `crash_keeps`, `clean_silent`, `source_leak`, `upload_mixup`, `checksum_present` | Is a sentence of the documentation true? | the smallest configuration that decides |

Why these bounds are enough: a step's loop needs two elements to fail between
them, and `images` has two of everything that is looped over
(disks, CD-ROMs, marks, output images). The configurations of a build never change, so a run over a
set of them is as many independent checks; the sets vary together the options
the code looks at together. Two
addresses are needed for a change, one more for the filter. Two builds suffice
for one to come between any two calls of the other, and two disks for the images of one build to
bear different names; what the theorems say covers any number of either.
`Tries = 2` has a search that succeeds at once, later, and never. In `request` the families
are independent because `Prepare` and `CreateRequest` never read options of two of them
together, except for those each family varies; the inventories have zero, one and two matches for each
name, on the cluster of the VM, elsewhere, and across clusters.

### What they show

`lifecycle` - `BagReadsDefined`: no step reads a key that is not there, and the
cleanup that asserts the type of `image_to_delete` never meets its absence.
`CaptureOnlyPoweredOff`: steps after
the shutdown see a VM that is off. `FailedVMKept` and `NoVMLeftBehind`: the
decision about the VM, in both directions. `HaltsAreExplained`: a step that
stops the build leaves an error, unless the user stopped it (or it is
`stepCleanVM`). `ImplementsStepRunner`: the refinement. `Termination`: the build ends,
unless it hangs for ever in a wait that nothing bounds (see Fairness).

`images` - `CapturedWithoutCdRoms`: the only CD-ROMs of a VM that something is made of, when they were to be
removed, are those without an `ExtId`, which `CleanCD` skips (`driver.go:1508`); `ArtifactExists`: the images of an artifact are there and complete;
`OnlyNamedImagesDeleted`, an action property: no image leaves the library
unless it was temporary or an option names it. `BorrowedImagesDeleted`: once the VM was reported,
each borrowed image is passed to `DeleteImage` however the build ends. That the deletion *succeeds* is
not claimed: the cleanups use the build's context, which may be cancelled. `NeverLoops`, an action property: every
step, of the plugin or of its environment, descends in `Measure`, that is in the steps and cleanups left, then in the
location within one, then in the turns left of its loop, then in what the user and the guest may still
do. It has two elements in each loop, and calls that fail in each; this says that a call that failed is
not tried again, and needs no fairness.

`waitip` - `IpIsUsable`, `IpIsSettled`; `ImplementsStep`: the refinement of `StepContract`; and the liveness
properties `PollerEnds` (no goroutine is leaked) and `StepReturns`.

`shared_images` - `PickedImageStays`: the image a build is about to clone
disappears only if another build was told to delete or replace;
`PickedSumFits`: no image is picked that is known to have another checksum, whether the build made it or found it
(for one that it found the documentation says otherwise, see `checksum_present`); `UploadsKeptApart` and `OwnImagesDeleted` for builds without
`allow_duplicate_images`.

`outputs` - `OwnOutputStays`: a build loses an image it made only to its own cleanup
or to another build with `force_deregister`. `OlderCopyExplained`: an older image next to the new one
came after the lookup, or was one of several. `LastWriterStays`: when no build fails, the image made
last under a name is there. `FilesWholeOrGone`: no temporary file is left and no final file is short of a known
size, wherever the goroutine is when the step returns and whatever another build does
to the image. `OlderOvaExplained`: an older OVA is exported only if the build's own was not listed
when the search ended (which does happen). `ExportImplementsStep`: the refinement. `StopEndsExport`,
`SignalHeard`, `CopierEnds`: a cancelled export returns, a signal is heard at the next image at the
latest (unless the v3 request hangs), the goroutine ends.

`request` - `PreparedForBuild`: what `Prepare` accepts is a configuration that `Build` assumes
(`Accepted`), and what it makes of it is what `Build` starts from (`Prepare` of `BuildConfig`). The two models
write that down independently: in one step there, option by option and in the order of the code here
(the disks are compared as they were written, for the uploads change them later). `DevicesAsAsked`: the boot order,
chosen before the loop over the disks, names the CD-ROM exactly if the loop attached one; addresses
are distinct; a vTPM that was asked for is there. `CrashOnlyWithoutSource`: of what `Prepare` accepts only
a disk of an image without a source dereferences nil. `NicsReachable` and `NamesSingleOut`: subnets, cluster,
owner and GPUs are those the names single out.

Every property of these runs is violated when a named definition is replaced by
a plausible wrong version of it (`mutants` in `PROJECT.json`; the versions stand
just before the definition they replace).

### Disagreements found

* `force_cancel` - a cancelled build keeps its VM even with `vm_force_delete`:
  `cancelled || halted && !VmForceDelete` (`step_build_vm.go:143`).
* `crash_keeps` - a poll of the shutdown that gets no answer dereferences nil; the
  unwinding cleanup sees no `halted` and deletes the VM that a failed build keeps.
* `clean_silent` - `stepCleanVM` halts without an error: the build ends
  with neither artifact nor error.
* `source_leak` - images uploaded before the VM was reported are not deleted.
* `upload_mixup` - with `allow_duplicate_images`, two builds that upload the same
  file may both take the newest image; the other is never deleted.
* `checksum_present` - the documentation says that `source_image_checksum` works only "if image is not already
  present in the library" (`nutanix.mdx:124` and `:144`). The lookup holds it against the images that are
  present: one of the URI with another checksum is passed over and the image downloaded again beside it
  (`driver.go:320`).

Met while modelling, and not given a run of their own:

* `CleanCD` skips a CD-ROM without an `ExtId` and returns no error, so that outputs are made of a VM that still
  has it (`driver.go:1508`); its comment (`driver.go:1487`) and `nutanix.mdx:164` speak of all CD-ROMs.
* The MAC address of a NIC is checked by `Prepare` (`config.go:293`) and offered by `nutanix.mdx:221`, but
  `CreateRequest` never reads it (`driver.go:700-725`).
* A VM created but not powered on is unknown to the cleanup (`step_build_vm.go:90`).
* A failed graceful shutdown is not followed by a forced one, although
  `step_shutdown_vm.go:14-15` says so.
* The timeout of the wait drops an address that was found but not settled
  (`step_wait_for_ip.go:104` finds `ip` still empty); an address outside
  `ip_wait_address` makes `doGetIp` poll without a pause.
* With the communicator "none" and no NIC, `stepWaitForIp` can only time out.
* A disk with both a path and an URI loses track of its upload (`driver.go:532`), and so
  does a plain `DISK` with a path (both left out of `Borrowed`); `sourceImageExists` has no tier for
  the checksum between URI and name (`driver.go:280` against `354`).
* `stepCleanVM` runs before the images are saved although the documentation says after (`builder.go:87`).
* With two or more images of the name, `force_deregister` replaces none of them; the cleanup of the output images
  stops at the first it cannot delete.
* Two builds export to the same `name.tmp` if they share a folder and an image name; the file
  downloaded by the v4 API is never removed; an OVA of an earlier build is exported while the new one is not
  listed (`driver.go:1256`).
* An unknown `image_type` is passed over without a word, and so is the user data for an `os_type` that is neither
  Linux nor Windows; a `subnet_uuid` is not held against the cluster.
* `hardware_virtualization` sets `IsVcpuHardPinningEnabled` (`driver.go:793`); `string(Port)` at `driver.go:201`
  makes a character of the port.

## Fairness

* `Build`: `WF_vars(Prompt)`, where `Prompt` is a step of the plugin outside the waits that nothing bounds. Those are
  (`Unbounded`): the provisioner scripts; a shutdown command, which runs until the guest reports its end; the download of
  an image, whose v3 request has no timeout (`driver.go:1321`) and whose body is copied for as long as
  it lasts; that of an OVA; all of them until the context is cancelled. The VNC steps have neither
  a deadline nor a look at the context while they connect (`step_vnc_connect.go:95`). None of them is
  fair, and `Termination` says that the build ends or stays in one of them for ever. The premise that is left:
  the tasks Prism Central is asked for end, calls of its API return (the uploads have a read timeout,
  `driver.go:231`), and the timers of the shutdown, the wait for an address and SSH fire. Not fair either: the user, the guest powering off, the
  runner's goroutine that records a cancellation, the signal, the poll that gets no answer. So `Termination`
  does not need a guest that heeds the shutdown.
* `WaitForIp`: weak fairness of both goroutines, of the failure of a
  call whose context is cancelled, and of the total timeout. The guest, the user, the
  settle period and failing queries are free.
* `Outputs`: weak fairness of what the exporting step does by itself, of the v3 request once its context is
  cancelled, of a copy from a local or closed file or with a cancelled context, and of the goroutine's send. The
  v3 request has no timeout of its own and a response may stop to arrive: neither is fair, hence the premises of
  `StopEndsExport` and `SignalHeard`.
* `SourceImages` and `Request` have safety properties only; their specifications state no fairness.

## The proofs

Assumptions are those of the modules: the configurations are well-typed and
accepted by `Prepare` (`ConfigsAssumption`, which `PreparedIsConsistent` shows of what `Prepare` accepts), `MayInterrupt` is Boolean; `None` is not
a URI, a checksum, a build, an address or what `Prepare` writes; what the user wrote has the types of `Config`
(`UsersAssumption`), and an inventory holds finitely many clusters, subnets and projects (`InventoriesAssumption`); the libraries hold images that no build made;
one build at most exports its images.
Nothing is assumed about how many configurations, disks, NICs, builds, images, addresses, clusters, subnets or OVAs there are.

**BuildProofs**

* `TypeCorrect` and `BagInvariant`: `BagReadsDefined` is not inductive, since nothing in it says how the
  keys came to be there. `BagInv` adds that every step that let the
  build go on left its keys (`StepsGave`), that `image_to_delete` is there from before the VM
  is created (`RequestKnown`), and where the runner can be.
  The proof is by *shapes*: `NextShapes` shows that each action moves the
  control state (`mode`, `at`, `deferred`, `pc`, `bag`) and the VM in one of a few ways,
  so that the invariants are proved once per shape instead of once per action.
* `BagReads` follows: whatever step a configuration registers, an earlier one
  of the same configuration gave what it needs. This is where
  `Prepare` matters (an export makes the image step registered).
* `CapturePoweredOff`: an invariant of its own says that the VM is off from the
  successful poll on; no later action turns it on.
* `ImplementsRunner`: `Spec => Steps!Spec`, initial states and every action
  mapped to a step or a stutter of `StepRunner`.

**OutcomeProofs** uses the same shapes.

* `HaltsExplained`: inductive as it stands, next to `BagInv`, which says that `stepCleanVM`
  runs only if it is registered.
* `CdRomsGone`: while `CleanCD` goes through its list every CD-ROM it is past has no identifier or is removed (`CdInv`), so
  that those left from the moment `stepCleanVM` let the build go on are the ones without.
* `FailedVMIsKept`: `KeptInv` says that `error` never comes without `halted` or
  `cancelled`, which is all the cleanup looks at, that the decision to delete was made in view of
  them, and that no step runs once the VM is deleted, so that none can fail afterwards.
* `NoVMIsLeft`: `LeftInv` says that a build that is unwound without a verdict in the bag came to its
  end with every registered step deferred, so that the cleanup of `stepBuildVM` is still to come, is
  being executed, or has deleted the VM.
* `CleanupsLastInFirstOut`: only steps already begun are deferred, and while a cleanup runs only earlier ones.
* `BuildNeverLoops`: `NextRefines` of `BuildProofs` says which actions move the runner, and with it `Rank`; inside a step the
  actions are taken one by one (`BuildVMInward`, `LaterInward`, `CleanupInward`). `InsideInv` is needed because turns are
  counted: there are finitely many CD-ROMs (those ahead of `CleanCD` are counted, for some are
  skipped and stay), and a disk whose image is looked up is one of the list.
* `MeasureCounts` and `NoEndlessBuild`: the measure consists of natural numbers, and the lexicographic order of
  such tuples is well-founded, so that a build takes finitely many steps whatever happens.
* `BuildNeverStuck`: until the build is over the guard of one of the plugin's actions is true (`Due` lists them). `PlacesInv` says that
  each location belongs to one step, or one cleanup. The choices of the next step, cleanup and CD-ROM are
  of the least or greatest of a set, which exists because the order of numbers is well-founded.

**LibraryProofs** - what a build does to the image library. `StepKinds` sets apart the actions that touch
the library, the marks or the images from those that do not (`Elsewhere`).

* `NamedImagesDeleted`: `DelInv` says that what is marked, or is at hand and about to be, comes from a disk the
  configuration wants deleted, and that `stepCreateImage` deletes only with `image_delete`. Then `Losses` goes
  through the actions that remove an image.
* `ArtifactIsThere`: `ArtInv` relates the loop index of `stepCreateImage` to the length of the list and the number
  of disks, says that the list is empty before the step and complete once `image_uuid` is in the bag, and
  that no image of the list is lost (from `Losses`).
* `BorrowedGivenBack`: two invariants. `BorrowInv` says that at every moment of `CreateRequest` the borrowed image of a disk
  it is past is marked, so that once the VM is reported all of them are; `TriedInv`
  that from then on the cleanup is still to come, or has tried the CD and the marks below its index, or has
  tried everything. It also shows why the exceptions of `Borrowed` are needed: `BindDisk` marks the
  image at hand, which for a disk with both sources is not the uploaded one.

**WaitForIpProofs** - `WaitTypeCorrect`, `UsableIp`, `SettledIp` and `WaitImplementsStep` rest on `IInv`: the goroutine has
ended when there is a message from it, it hands over an address only after a settle period that was
not interrupted, and what the step put in the bag goes with what it returned. `PollerNeverStuck` follows from it as well: no message is in the
channel before the goroutine's own. `DrainNeverStuck` needs `MessageInv`: the message is taken only by the step on its way out, and who
waits for it has cancelled the context. `PollerWindsUp` is an action property: then the goroutine has three steps to go at most, and no
other action takes it back.

**OutputImagesProofs** - `OwnOutputsStay`, `OlderCopiesExplained`, `LastWriterKept`. None of them is inductive: `IInv` adds
where a build is in its loop (`Counted`), whose images it made (`MadeOnes`), why it deleted what it deleted (`TriedOnes`: to
replace, and then another image of that name follows unless the build fails, or to clean up), what a
listing can have found (`Listings`, `AboutToDelete`, `LookedAt`), and that what is gone was deleted by some build (`GoneOnes`).
`LibStep` and `GoneStep` are what any action may do to the library, so that the invariant of a build is shown to
survive the steps of the others once.

**OutputsProofs** - `OutputsImplementOutputImages`: the composition implements `OutputImages`, which carries the theorems above over to
it. `ExportedFilesWhole` and `ExportKeepsContract` rest on `XInv` (which files there are at each location of the export,
and that the exporter has saved its disks); `OlderOvasExplained` on `OvaInv`; `OutputsTypesCorrect` puts the types together that these invariants carry,
with `TriesInv` for the number of tries left. `ChannelInv` is about the two channels of the export: there is room for the goroutine's message as long as it has one to
send (`CopierNeverStuck`), and a signal stays in its channel while the step runs (`SignalsAreKept`). `ExportNeverLoops` is an action
property: each step of the export leaves fewer images, or fewer calls for the one at hand, or less of its copy, or fewer ways to
stop it; that there still is an image to be exported when the step returns early is in `XInv`.

**SourceImagesProofs** - `PickedStays`: `StayInv` says that an image disappears only by a `DeleteImage` of some build, that
only builds told to delete or replace call it, and that a build's pick is never one
it deleted itself. `LocalStep`, `NewStep`, `DeletingStep` and `QuietStep` are
the kinds of change to one build's state, `LibAppend`, `LibReplace`,
`LibReady` and `LibDelete` those of the library. `ImagesTypeCorrect` follows from the same invariant.
`OriginInv`, one part per build, says where the images of a build come from: what it picked is not known to have another
checksum (`SumInv`); as long as all builds only upload and tolerate no duplicate, each picks and deletes images of its own
only (`ApartInv`); and a build that tolerates no duplicate makes its only image before it picks one and then
picks that one (`OwnInv`). A step of another build adds images of that build, removes some and changes none (`StepEffect`,
`Lasting`), which keeps the part of every build but the one that moves (`OthersKeep`); what a lookup without tolerance returned was
the only image of the library (`FoundAlone`), which is what the build's own step rests on (`OwnStep`). `PickedSumIsRight`,
`UploadsAreApart` and `OwnImagesAreDeleted` are its consequences.

**RequestProofs** - all of the properties of `Request`. `RequestInv` has one part for each thing that is being put together:
`ConfigInv` says what is left of the user's configuration (`Carries` for what `Prepare` changes, `Keeps` for the rest), which of
its checks still hold (`Checked`), and that a disk without a source was written like that even after the uploads
(`SourcesWritten`); `DisksInv` that the loop over the disks has attached a CD-ROM exactly if it has passed an ISO, numbering
each bus in order; `NicsInv` that the NICs made so far are those of the specifications before `k` and reach the cluster;
`MachineInv` that the boot order is the one of the disks as they are; `NamesInv` is about the GPUs and the names. `PreparedForBuild` rests on `ConfigInv` through
two lemmas: what passed the checks is a configuration of `BuildConfig` (`WrittenForBuild`), and the options it has kept
and changed are those of `Prepare` there (`PreparedAlike`). The properties themselves
are not inductive: at the end of the loops they need what each turn left. A lookup that
wants exactly one match gives the only one (`OnlyOne`); each action has its own lemma.

Checked by TLC only: liveness, which is out of this prover's reach, as is `ENABLED`. The safety facts it rests on are proved where
they are facts of the code:

| Liveness | Proved |
|---|---|
| `Termination` | `NoEndlessBuild` and `BuildNeverStuck`: what is missing is only that a plugin with a step to take takes it, unless it is in a wait without bound |
| `PollerEnds` | `PollerWindsUp` and `PollerNeverStuck` |
| `StepReturns` | `DrainNeverStuck`; the rest is the timer |
| `CopierEnds`, `SignalHeard` | `CopierNeverStuck` and `SignalsAreKept`; the rest is fairness of the copy and of the step |
| `StopEndsExport` | `ExportNeverLoops`; the rest is that a call ends with its context |

What the `violation` runs refute is checked by TLC alone too.

## Not modelled

* The client cache: `cache.go` hands out clients by a key that leaves the transfer timeout out, but what a cached client
  does with its options is decided by prism-go-client, which is not in the repository.
* HCL2 generated code, pointer helpers, `main.go`, names, wording and logging: no behaviour.
* The websocket handshake and the scan codes of the VNC steps: pure I/O.
* The host lookup: no build calls it.

## What could follow

1. A measure for `CreateRequest` in `Request`, whose loops are those of `Build` in detail.
2. That `DiskSpec` of `Request` and `Disk` of `BuildConfig` attach the same CD-ROMs (`DisksInv` and `CdRomDisks`).
3. Two disks of one build that share an URI, with `source_image_force`.
4. Two exporters in one folder, and a folder shared with a crashed export.
