----------------------------- MODULE MCRequest -----------------------------
(***************************************************************************)
(* Configurations and inventories for model-checking module Request: a     *)
(* base configuration and families of variations of it.                    *)
(***************************************************************************)
EXTENDS Request

Disk == [kind |-> "DISK", path |-> None, uri |-> FALSE, library |-> FALSE,
         sum |-> FALSE, sumType |-> None, container |-> FALSE, del |-> FALSE,
         force |-> FALSE]
FromLibrary == [Disk EXCEPT !.kind = "DISK_IMAGE", !.library = TRUE]
Iso == [FromLibrary EXCEPT !.kind = "ISO_IMAGE"]

Nic == [name |-> "net", uuid |-> None, mac |-> None, ip |-> None, skip |-> FALSE]

Base ==
  [comm |-> None, credentials |-> TRUE, clusterUUID |-> None, clusterName |-> "pe",
   bootType |-> None, bootPriority |-> None, vtpm |-> FALSE, cd |-> FALSE,
   disks |-> <<FromLibrary>>, nics |-> <<Nic>>, gpus |-> << >>, serial |-> FALSE,
   userData |-> FALSE, osType |-> "Linux", categories |-> << >>, project |-> None,
   vmName |-> None, imageName |-> None, imageSkip |-> FALSE, imageExport |-> FALSE,
   imageDelete |-> FALSE, forceDeregister |-> FALSE, failIfExists |-> FALSE,
   ovaCreate |-> FALSE, ovaExport |-> FALSE, ovaFormat |-> None, ovaName |-> None,
   template |-> FALSE, templateName |-> None, boot |-> FALSE, command |-> FALSE,
   disableStop |-> FALSE, cleanCD |-> FALSE, forceDelete |-> FALSE, retain |-> FALSE]

(* What is to be made of the VM, and what Prepare makes of that.           *)
OutputUsers ==
  {[Base EXCEPT !.imageSkip = s, !.imageExport = x, !.ovaCreate = o, !.ovaExport = y,
                !.ovaFormat = f, !.template = t, !.forceDeregister = d, !.failIfExists = t,
                !.vmName = n, !.ovaName = n] :
     s \in BOOLEAN, x \in BOOLEAN, o \in BOOLEAN, y \in BOOLEAN,
     f \in {None, "qcow2", "raw"}, t \in BOOLEAN, d \in BOOLEAN, n \in {None, "given"}}

(* Disks of every kind and source, right and wrong.                        *)
Disks ==
  {[Disk EXCEPT !.kind = d, !.path = p, !.uri = u, !.library = l, !.del = e,
                !.container = (p = None)] :
     d \in {"DISK", "DISK_IMAGE", "ISO_IMAGE", "other"}, p \in {None, "file", "missing"},
     u \in BOOLEAN, l \in BOOLEAN, e \in BOOLEAN}
  \cup
  {[Disk EXCEPT !.kind = d, !.uri = u, !.sum = c, !.sumType = t] :
     d \in {"DISK_IMAGE", "ISO_IMAGE"}, u \in BOOLEAN, c \in BOOLEAN,
     t \in {None, "sha1", "md5"}}

DiskUsers ==
  {[Base EXCEPT !.disks = s, !.cd = c, !.bootPriority = p] :
     s \in {<<d, e>> : d \in Disks, e \in {Disk, Iso}} \cup {<<d>> : d \in Disks} \cup {<< >>},
     c \in BOOLEAN, p \in {None, "disk", "cdrom"}}

(* The machine and its options.                                            *)
MachineUsers ==
  {[Base EXCEPT !.bootType = b, !.vtpm = v, !.serial = v, !.userData = TRUE, !.osType = o,
                !.gpus = g, !.categories = c, !.project = p] :
     b \in {None, "uefi", "secure_boot", "bios"}, v \in BOOLEAN,
     o \in {"Linux", "Windows", "other"}, g \in {<< >>, <<"gpu">>, <<"gpu", "gpu">>},
     c \in {<< >>, <<[key |-> "a", value |-> "x"], [key |-> "b", value |-> "x"]>>,
            <<[key |-> "a", value |-> None]>>},
     p \in {None, "mine", "shared"}}

(* Where the VM goes and how it is connected.                              *)
NicsOf ==
  {[Nic EXCEPT !.name = n, !.uuid = u, !.ip = i, !.skip = s, !.mac = m] :
     n \in {None, "net", "far"}, u \in {None, "n2"}, i \in {None, "ipv4", "ipv6"},
     s \in BOOLEAN, m \in {None, "valid", "invalid"}}

NetworkUsers ==
  {[Base EXCEPT !.nics = s, !.comm = c, !.clusterUUID = u, !.clusterName = n,
                !.credentials = (u = None \/ c = "none"), !.command = (n = None)] :
     s \in {<<x>> : x \in NicsOf} \cup {<<Nic, x>> : x \in NicsOf} \cup {<< >>},
     c \in {None, "none"}, u \in {None, "c2"}, n \in {None, "pe"}}

AllUsers == OutputUsers \cup DiskUsers \cup MachineUsers \cup NetworkUsers

(* Two clusters, of one name or not; subnets of one name on one or both of *)
(* them, or an overlay; GPUs in use; a category and a project without id.  *)
Cluster(i, n, p) == [id |-> i, name |-> n, pe |-> p]
Subnet(i, n, o, c, a) == [id |-> i, name |-> n, overlay |-> o, clusters |-> c, ipam |-> a]
Gpu(c, kind, used) == [name |-> "gpu", cluster |-> c, kind |-> kind, inUse |-> used]

Inventory(clusters, subnets) ==
  [clusters |-> clusters, subnets |-> subnets,
   gpus |-> {Gpu("c1", "physical", TRUE), Gpu("c1", "virtual", FALSE),
             Gpu("c2", "physical", FALSE)},
   categories |-> {[key |-> "a", value |-> "x", id |-> "k1"],
                   [key |-> "b", value |-> "x", id |-> None]},
   projects |-> {[name |-> "mine", id |-> "p1"], [name |-> "shared", id |-> "p2"],
                 [name |-> "shared", id |-> "p3"]}]

Distinct == {Cluster("c1", "pe", TRUE), Cluster("c2", "other", TRUE)}
PrismCentral == {Cluster("c1", "pe", FALSE), Cluster("c2", "pe", TRUE)}
Homonyms == {Cluster("c1", "pe", TRUE), Cluster("c2", "pe", TRUE)}

OneEach == {Subnet("n1", "net", FALSE, {"c1"}, TRUE), Subnet("n2", "net", FALSE, {"c2"}, FALSE),
            Subnet("n3", "far", TRUE, {}, TRUE)}
Shared == {Subnet("n1", "net", TRUE, {}, FALSE), Subnet("n2", "net", FALSE, {"c1", "c2"}, TRUE)}

Elsewhere == {Subnet("n1", "net", FALSE, {"c1"}, TRUE), Subnet("n2", "far", FALSE, {"c2"}, FALSE)}

SomeInventories ==
  {Inventory(c, s) : c \in {Distinct, PrismCentral, Homonyms}, s \in {OneEach, Shared, Elsewhere}}

=============================================================================
