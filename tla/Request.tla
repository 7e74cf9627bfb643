------------------------------ MODULE Request ------------------------------
(***************************************************************************)
(* From what the user wrote to the VM that Prism Central is asked for:     *)
(* Config.Prepare, which fills in defaults and rejects, and CreateRequest, *)
(* which looks up the cluster, the subnets, the GPUs, the categories and   *)
(* the project in the inventory of Prism Central and puts the request      *)
(* together.  (Where the images of the disks come from is in Build.)       *)
(*                                                                         *)
(* One action is Prepare, or one turn of a loop of CreateRequest.  What    *)
(* the user left empty is None.                                            *)
(***************************************************************************)
EXTENDS Naturals, Sequences, FiniteSets

CONSTANTS
  Users,        \* what the user may have written
  Inventories,  \* what Prism Central may hold
  None

VARIABLES
  user,     \* the configuration as it was written
  inv,      \* the inventory
  config,   \* the configuration as Prepare left it
  pc,       \* "prepare" | "upload" | "cluster" | "disk" | "nic" | "gpu" | "categories"
            \* | "project" | "made" | "rejected" | "failed" | "crashed"
  k,        \* the loop index
  cluster,  \* clusterUUID
  request   \* v4vm

vars == <<user, inv, config, pc, k, cluster, request>>

-----------------------------------------------------------------------------
(* What may be written.                                                    *)

Text == STRING \cup {None}

DiskSpec ==
  [kind      : {"DISK", "DISK_IMAGE", "ISO_IMAGE", "other"},   \* image_type
   path      : Text,         \* source_image_path
   uri       : BOOLEAN,      \* source_image_uri is set
   library   : BOOLEAN,      \* source_image_uuid or source_image_name is set
   sum       : BOOLEAN,      \* source_image_checksum is set
   sumType   : Text,
   container : BOOLEAN,      \* storage_container_uuid is set
   del       : BOOLEAN,      \* source_image_delete
   force     : BOOLEAN]      \* source_image_force

NicSpec == [name : Text, uuid : Text, mac : Text, ip : Text, skip : BOOLEAN]

Written ==
  [comm : Text, credentials : BOOLEAN, clusterUUID : Text, clusterName : Text,
   bootType : Text, bootPriority : Text, vtpm : BOOLEAN, cd : BOOLEAN,
   disks : Seq(DiskSpec), nics : Seq(NicSpec), gpus : Seq(STRING), serial : BOOLEAN,
   userData : BOOLEAN, osType : Text, categories : Seq([key : Text, value : Text]),
   project : Text, vmName : Text, imageName : Text, imageSkip : BOOLEAN,
   imageExport : BOOLEAN, imageDelete : BOOLEAN, forceDeregister : BOOLEAN,
   failIfExists : BOOLEAN, ovaCreate : BOOLEAN, ovaExport : BOOLEAN, ovaFormat : Text,
   ovaName : Text, template : BOOLEAN, templateName : Text,
   \* Not looked at by Prepare: what the steps do with the VM.
   boot : BOOLEAN, command : BOOLEAN, disableStop : BOOLEAN, cleanCD : BOOLEAN,
   forceDelete : BOOLEAN, retain : BOOLEAN]

\* What Prepare writes is not None, nor is the communicator "none".
ASSUME NoneAssumption == None \notin {"ssh", "random", "none"}
ASSUME UsersAssumption == Users \subseteq Written
ASSUME InventoriesAssumption ==
  \A v \in Inventories :
    IsFiniteSet(v.clusters) /\ IsFiniteSet(v.subnets) /\ IsFiniteSet(v.projects)

-----------------------------------------------------------------------------
(* Config.Prepare: the defaults.                                           *)

BootTypes == {"legacy", "uefi", "secure_boot"}

BootType(u) == IF u.bootType \in BootTypes THEN u.bootType ELSE "legacy"
BootPriority_AsWritten(u) == u.bootPriority
BootPriority(u) == IF u.bootPriority \in {"cdrom", "disk"} THEN u.bootPriority ELSE "cdrom"

\* An export needs what it exports.
OvaCreate_AsWritten(u) == u.ovaCreate
OvaCreate(u) == u.ovaCreate \/ u.ovaExport

OvaFormat(u) == IF OvaCreate(u) /\ u.ovaFormat = None THEN "vmdk" ELSE u.ovaFormat

\* The name of the VM is random if need be, and stands in for the others.
VMName(u) == IF u.vmName = None THEN "random" ELSE u.vmName
NameOr(wanted, name, u) == IF wanted /\ name = None THEN VMName(u) ELSE name

OvaName_BeforeExport(u) == NameOr(u.ovaCreate, u.ovaName, u)
OvaName(u) == NameOr(OvaCreate(u), u.ovaName, u)

Defaulted(u) ==
  [u EXCEPT !.comm         = IF @ = None THEN "ssh" ELSE @,
            !.bootType     = BootType(u),
            !.bootPriority = BootPriority(u),
            !.ovaCreate    = OvaCreate(u),
            !.ovaFormat    = OvaFormat(u),
            !.imageSkip    = @ /\ ~u.imageExport,
            !.imageDelete  = @ \/ (u.imageSkip /\ u.imageExport),
            !.vmName       = VMName(u),
            !.imageName    = NameOr(TRUE, @, u),
            !.ovaName      = OvaName(u),
            !.templateName = NameOr(u.template, @, u)]

-----------------------------------------------------------------------------
(* Config.Prepare: what it rejects, u as written and c with the defaults.  *)

\* The boot type is looked at after its default.
VtpmFits_AsWritten(u) == u.vtpm => u.bootType # "legacy"
VtpmFits(u) == u.vtpm => BootType(u) # "legacy"

OptionsFit(c) ==
  /\ ~(c.failIfExists /\ c.forceDeregister)
  /\ c.ovaCreate => c.ovaFormat \in {"vmdk", "qcow2"}

\* nutanix_endpoint, _username and _password, and a transfer timeout >= 0.
ConnectionFits(c) == c.credentials /\ (c.clusterUUID # None \/ c.clusterName # None)

NicFits(nic) ==
  /\ nic.name # None \/ nic.uuid # None
  /\ nic.mac # "invalid"
  /\ nic.skip => nic.ip = None
  /\ nic.ip \in {None, "ipv4"}

CategoryFits(c) == c.key = None <=> c.value = None

DiskFits(d) ==
  /\ d.sum => d.uri
  /\ d.sumType \in {None, "sha1", "sha256"}
  /\ d.sum <=> d.sumType # None
  /\ d.container => d.kind = "DISK"
  /\ d.path # "missing"
  /\ d.del => d.path # None \/ d.uri

NicsFit(c) ==
  /\ c.comm # "none" => c.nics # << >>
  /\ \A j \in DOMAIN c.nics : NicFits(c.nics[j])

DisksFit(c) == c.disks # << >> /\ \A j \in DOMAIN c.disks : DiskFits(c.disks[j])

CategoriesFit(c) ==
  \A j \in DOMAIN c.categories : CategoryFits(c.categories[j])

Blank ==
  [bootOrder |-> << >>, disks |-> << >>, cdroms |-> << >>, nics |-> << >>,
   gpus |-> << >>, serial |-> FALSE, q35 |-> FALSE, vtpm |-> FALSE,
   custom |-> None, categories |-> << >>, owner |-> None]

Init ==
  /\ user \in Users /\ inv \in Inventories
  /\ config = user
  /\ pc = "prepare" /\ k = 1 /\ cluster = None
  /\ request = Blank

Prepare ==
  /\ pc = "prepare"
  /\ config' = Defaulted(user)
  /\ pc' = IF /\ VtpmFits(user)
              /\ OptionsFit(config') /\ ConnectionFits(config')
              /\ NicsFit(config') /\ CategoriesFit(config') /\ DisksFit(config')
           THEN "upload" ELSE "rejected"
  /\ UNCHANGED <<user, inv, k, cluster, request>>

-----------------------------------------------------------------------------
(* stepBuildVM.Run up to CreateRequest, and that: a call that fails ends   *)
(* both.                                                                   *)

CallFails ==
  /\ pc \in {"upload", "cluster", "disk", "nic", "categories", "project"}
  /\ pc' = "failed"
  /\ UNCHANGED <<user, inv, config, k, cluster, request>>

Goto(l) == pc' = l /\ k' = 1

\* To the next turn of the loop over s, or to what follows the loop.
Turn(s, here, next) == IF k < Len(s) THEN pc' = here /\ k' = k + 1 ELSE Goto(next)

CDDisk == [kind |-> "ISO_IMAGE", path |-> None, uri |-> FALSE, library |-> TRUE,
           sum |-> FALSE, sumType |-> None, container |-> FALSE, del |-> FALSE,
           force |-> FALSE]

\* The image of a path is uploaded, and its UUID written to the disk.
Uploaded_CopyOnly(d) == d
Uploaded(d) == [d EXCEPT !.library = @ \/ d.path # None]

\* The temporary CD becomes one more disk.
UploadSources ==
  /\ pc = "upload"
  /\ LET disks == IF config.cd THEN Append(config.disks, CDDisk) ELSE config.disks IN
       config' = [config EXCEPT !.disks = [j \in DOMAIN disks |-> Uploaded(disks[j])]]
  /\ Goto("cluster")
  /\ UNCHANGED <<user, inv, cluster, request>>

\* The loops with nothing in them are passed over.
AfterDisks ==
  IF config.nics # << >> THEN "nic" ELSE IF config.gpus # << >> THEN "gpu" ELSE "categories"
AfterNics == IF config.gpus # << >> THEN "gpu" ELSE "categories"

HasCdRoms_OfImages == \E j \in DOMAIN config.disks : config.disks[j].kind # "DISK"
HasCdRoms == \E j \in DOMAIN config.disks : config.disks[j].kind = "ISO_IMAGE"

BootOrder ==
  IF ~HasCdRoms THEN <<"DISK", "NETWORK">>
  ELSE IF config.bootPriority = "cdrom" THEN <<"CDROM", "DISK", "NETWORK">>
  ELSE <<"DISK", "CDROM", "NETWORK">>

\* The lookups by name want exactly one match.
IsOne_OrMore(s) == s # {}
IsOne(s) == Cardinality(s) = 1

\* findClusterByName: the clusters of the name that are Prism Elements.
ClustersNamed(n) == {c \in inv.clusters : c.name = n /\ c.pe}

FindCluster ==
  /\ pc = "cluster"
  /\ \E c \in inv.clusters :
       /\ IF config.clusterUUID # None THEN c.id = config.clusterUUID
          ELSE c \in ClustersNamed(config.clusterName) /\ IsOne(ClustersNamed(config.clusterName))
       /\ cluster' = c.id
  /\ request' = [request EXCEPT !.bootOrder = BootOrder,
                                !.q35 = (config.bootType = "secure_boot")]
  /\ Goto("disk")
  /\ UNCHANGED <<user, inv, config>>

HasSource(d) == d.uri \/ d.library

(* A disk gets the next SCSI index and a CD-ROM the next SATA index.  One  *)
(* of an image without any source dereferences a nil image; one of another *)
(* kind is passed over.                                                    *)
AddDisk ==
  LET d == config.disks[k] IN
  /\ pc = "disk"
  /\ \/ /\ d.kind = "DISK" \/ (d.kind = "DISK_IMAGE" /\ HasSource(d))
        /\ request' = [request EXCEPT !.disks = Append(@, [bus |-> "SCSI", index |-> Len(@)])]
        /\ Turn(config.disks, "disk", AfterDisks)
     \/ /\ d.kind = "ISO_IMAGE" /\ HasSource(d)
        /\ request' = [request EXCEPT !.cdroms = Append(@, [bus |-> "SATA", index |-> Len(@)])]
        /\ Turn(config.disks, "disk", AfterDisks)
     \/ /\ d.kind \in {"DISK_IMAGE", "ISO_IMAGE"} /\ ~HasSource(d)
        /\ pc' = "crashed"
        /\ UNCHANGED <<k, request>>
     \/ /\ d.kind \notin {"DISK", "DISK_IMAGE", "ISO_IMAGE"}
        /\ Turn(config.disks, "disk", AfterDisks)
        /\ UNCHANGED request
  /\ UNCHANGED <<user, inv, config, cluster>>

-----------------------------------------------------------------------------
Belongs_Any(s) == TRUE
\* An overlay subnet spans clusters; another one belongs to some of them.
Belongs(s) == s.overlay \/ cluster \in s.clusters

SubnetsNamed(n) == {s \in inv.subnets : s.name = n /\ Belongs(s)}

\* getSubnet: the UUID wins, and is not held against the cluster.
SubnetFor(nic, s) ==
  /\ s \in inv.subnets
  /\ IF nic.uuid # None THEN s.id = nic.uuid
     ELSE s \in SubnetsNamed(nic.name) /\ IsOne(SubnetsNamed(nic.name))

\* ip_address needs a subnet with an IPv4 configuration of its own.
AddNic ==
  LET nic == config.nics[k] IN
  /\ pc = "nic"
  /\ \E s \in inv.subnets :
       /\ SubnetFor(nic, s)
       /\ nic.ip # None => s.ipam
       /\ request' = [request EXCEPT !.nics = Append(@,
            [subnet |-> s, ip |-> nic.ip, assign |-> ~nic.skip, mac |-> None])]
  /\ Turn(config.nics, "nic", AfterNics)
  /\ UNCHANGED <<user, inv, config, cluster>>

Free_Unchecked(g, name) == g.name = name /\ g.cluster = cluster
Free(g, name) == g.name = name /\ g.cluster = cluster /\ ~g.inUse

\* getGPU: a physical GPU if its list shows a free one, else a virtual one.
\* A list that fails counts as empty.
AddGpu ==
  LET name == config.gpus[k] IN
  /\ pc = "gpu"
  /\ \E listed \in SUBSET {"physical", "virtual"} :
       LET found(kind) == {g \in inv.gpus : g.kind = kind /\ kind \in listed /\ Free(g, name)}
           first == IF found("physical") # {} THEN found("physical") ELSE found("virtual")
       IN
       \/ /\ \E g \in first : request' = [request EXCEPT !.gpus = Append(@, g)]
          /\ Turn(config.gpus, "gpu", "categories")
       \/ first = {} /\ pc' = "failed" /\ UNCHANGED <<k, request>>
  /\ UNCHANGED <<user, inv, config, cluster>>

-----------------------------------------------------------------------------
\* An os_type that is neither leaves the user data out.
Customization ==
  IF ~config.userData THEN None
  ELSE CASE config.osType = "Linux"   -> "cloudinit"
         [] config.osType = "Windows" -> "sysprep"
         [] OTHER                     -> "empty"

Found(c) == {x \in inv.categories : x.key = c.key /\ x.value = c.value}

(* The serial port, the user data and the vTPM, and the categories: each   *)
(* is looked up, the first found is taken, and one without an id is left   *)
(* out.                                                                    *)
AddOptions ==
  /\ pc = "categories"
  /\ \A j \in DOMAIN config.categories : Found(config.categories[j]) # {}
  /\ \E pick \in [DOMAIN config.categories -> inv.categories] :
       /\ \A j \in DOMAIN config.categories : pick[j] \in Found(config.categories[j])
       /\ request' = [request EXCEPT
            !.serial = config.serial,
            !.custom = Customization,
            !.vtpm = config.vtpm /\ config.bootType \in {"uefi", "secure_boot"},
            !.categories = SelectSeq([j \in DOMAIN config.categories |-> pick[j].id],
                                     LAMBDA id : id # None)]
  /\ Goto(IF config.project = None THEN "made" ELSE "project")
  /\ UNCHANGED <<user, inv, config, cluster>>

ProjectsNamed(n) == {p \in inv.projects : p.name = n}

\* findProjectByName; a project without an id owns nothing.
SetOwner ==
  /\ pc = "project"
  /\ IsOne(ProjectsNamed(config.project))
  /\ \E p \in ProjectsNamed(config.project) : request' = [request EXCEPT !.owner = p.id]
  /\ Goto("made")
  /\ UNCHANGED <<user, inv, config, cluster>>

Next ==
  \/ Prepare \/ UploadSources
  \/ FindCluster \/ AddDisk \/ AddNic \/ AddGpu \/ AddOptions \/ SetOwner
  \/ CallFails

Spec == Init /\ [][Next]_vars

-----------------------------------------------------------------------------
TypeOK ==
  /\ pc # "prepare" => config.bootType \in BootTypes /\ config.bootPriority \in {"cdrom", "disk"}
  /\ pc \in {"prepare", "upload", "cluster", "disk", "nic", "gpu", "categories", "project",
             "made", "rejected", "failed", "crashed"}
  /\ k \in Nat \ {0}
  /\ cluster \in {None} \cup {c.id : c \in inv.clusters}
  /\ DOMAIN request = DOMAIN Blank
  /\ {request.serial, request.q35, request.vtpm} \subseteq BOOLEAN
  /\ request.custom \in {None, "cloudinit", "sysprep", "empty"}
  /\ \A j \in DOMAIN request.gpus : request.gpus[j] \in inv.gpus

Accepted == pc \notin {"prepare", "rejected"}

Plan == INSTANCE BuildConfig

(* A configuration as module Build has it: which sources a disk has, how   *)
(* StepShutdown stops the VM, what SaveVMDisk does with an existing image. *)
ForBuild(c) ==
  [disks |-> [j \in DOMAIN c.disks |->
                [kind |-> c.disks[j].kind, path |-> c.disks[j].path # None,
                 uri |-> c.disks[j].uri, library |-> c.disks[j].library,
                 del |-> c.disks[j].del, force |-> c.disks[j].force]],
   stop |-> IF c.disableStop THEN "manual"
            ELSE IF c.comm # "none" /\ c.command THEN "command" ELSE "poweroff",
   existing |-> IF c.failIfExists THEN "fail"
                ELSE IF c.forceDeregister THEN "replace" ELSE "ignore",
   cd |-> c.cd, boot |-> c.boot, cleanCD |-> c.cleanCD, imageSkip |-> c.imageSkip,
   imageExport |-> c.imageExport, imageDelete |-> c.imageDelete, template |-> c.template,
   ovaCreate |-> c.ovaCreate, ovaExport |-> c.ovaExport, forceDelete |-> c.forceDelete,
   retain |-> c.retain]

(* What Prepare accepts is what module Build assumes of its configurations *)
(* and what it makes of it is what that module starts from; and it needs   *)
(* no further decision by the steps, in what order the defaults and checks *)
(* of Prepare may come: an OVA has a name and a format and a template a    *)
(* name; an existing image is replaced or refused, not both; a VM that is  *)
(* connected to has a NIC.                                                 *)
PreparedForBuild ==
  Accepted =>
    /\ ForBuild(user) \in Plan!Config /\ Plan!Accepted(ForBuild(user))
    /\ [ForBuild(config) EXCEPT !.disks = ForBuild(user).disks] = Plan!Prepare(ForBuild(user))
    /\ config.ovaCreate => config.ovaFormat \in {"vmdk", "qcow2"} /\ config.ovaName # None
    /\ config.template => config.templateName # None
    /\ None \notin {config.imageName, config.vmName, config.comm}
    /\ ~(config.forceDeregister /\ config.failIfExists)
    /\ config.comm = "none" \/ config.nics # << >>

(* The devices are those that were asked for: the boot order is chosen     *)
(* before the loop over the disks, and yet names the CD-ROM exactly if     *)
(* that loop attached one, the temporary CD included, and first only if    *)
(* the user wants it; no two devices share an address; a vTPM that was     *)
(* written is there, in whatever order Prepare defaults and rejects.       *)
DevicesAsAsked ==
  pc = "made" =>
    /\ (\E j \in DOMAIN request.bootOrder : request.bootOrder[j] = "CDROM")
         <=> request.cdroms # << >>
    /\ request.bootOrder[1] = "CDROM" => user.bootPriority # "disk"
    /\ \A i, j \in DOMAIN request.disks : i # j => request.disks[i] # request.disks[j]
    /\ \A i, j \in DOMAIN request.cdroms : i # j => request.cdroms[i] # request.cdroms[j]
    /\ user.vtpm => request.vtpm

(* Of the configurations Prepare accepts, only those with a disk of an     *)
(* image that has no source crash the plugin.                              *)
CrashOnlyWithoutSource ==
  pc = "crashed" =>
    \E j \in DOMAIN user.disks :
      LET d == user.disks[j] IN
      d.kind \in {"DISK_IMAGE", "ISO_IMAGE"} /\ d.path = None /\ ~HasSource(d)

(* A NIC found by the name of its subnet is on the cluster of the VM or on *)
(* an overlay, and no other subnet of that name is; a static address is    *)
(* asked for only where Prism Central can assign it.                       *)
NicsReachable ==
  pc = "made" =>
    /\ Len(request.nics) = Len(config.nics)
    /\ \A j \in DOMAIN request.nics :
         LET s == request.nics[j].subnet IN
         /\ request.nics[j].ip # None => s.ipam /\ request.nics[j].assign
         /\ config.nics[j].uuid = None =>
              /\ s.overlay \/ cluster \in s.clusters
              /\ \A t \in inv.subnets \ {s} :
                   t.name = s.name => ~t.overlay /\ cluster \notin t.clusters

(* The cluster and the owner of the VM are those the user's names single   *)
(* out, and its GPUs are free ones of that cluster.                        *)
NamesSingleOut ==
  /\ cluster # None /\ user.clusterUUID = None =>
       \A c \in inv.clusters : c.name = user.clusterName /\ c.pe => c.id = cluster
  /\ request.owner # None =>
       \A p \in inv.projects : p.name = user.project => p.id = request.owner
  /\ \A j \in DOMAIN request.gpus :
       ~request.gpus[j].inUse /\ request.gpus[j].cluster = cluster

=============================================================================
