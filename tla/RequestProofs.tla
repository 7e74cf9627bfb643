---------------------------- MODULE RequestProofs ----------------------------
(***************************************************************************)
(* The properties of Request, for whatever the user writes and whatever    *)
(* Prism Central holds.                                                    *)
(***************************************************************************)
EXTENDS Request, FiniteSetTheorems, TLAPS

-----------------------------------------------------------------------------
(* The configuration, as Prepare leaves it and as it stays.                *)

\* What Prepare makes of the options of u that are looked at later.
Carries(c, u) ==
  /\ c.comm = IF u.comm = None THEN "ssh" ELSE u.comm
  /\ c.bootType = BootType(u) /\ c.bootPriority = BootPriority(u)
  /\ c.ovaCreate = OvaCreate(u) /\ c.ovaFormat = OvaFormat(u) /\ c.ovaName = OvaName(u)
  /\ c.imageSkip = (u.imageSkip /\ ~u.imageExport)
  /\ c.imageDelete = (u.imageDelete \/ (u.imageSkip /\ u.imageExport))
  /\ c.vmName = VMName(u) /\ c.imageName = NameOr(TRUE, u.imageName, u)
  /\ c.templateName = NameOr(u.template, u.templateName, u)

\* Those it leaves alone.
Keeps(c, u) ==
  /\ c.imageExport = u.imageExport /\ c.ovaExport = u.ovaExport /\ c.template = u.template
  /\ c.forceDeregister = u.forceDeregister /\ c.failIfExists = u.failIfExists
  /\ c.clusterUUID = u.clusterUUID /\ c.clusterName = u.clusterName
  /\ c.nics = u.nics /\ c.gpus = u.gpus /\ c.project = u.project /\ c.vtpm = u.vtpm
  /\ c.serial = u.serial /\ c.cd = u.cd /\ c.boot = u.boot /\ c.command = u.command
  /\ c.disableStop = u.disableStop /\ c.cleanCD = u.cleanCD
  /\ c.forceDelete = u.forceDelete /\ c.retain = u.retain

Options ==
  {"comm", "bootType", "bootPriority", "ovaCreate", "ovaFormat", "ovaName", "imageSkip",
   "imageDelete", "vmName", "imageName", "templateName", "imageExport", "ovaExport",
   "template", "forceDeregister", "failIfExists", "clusterUUID", "clusterName", "nics",
   "gpus", "project", "vtpm", "serial", "cd", "boot", "command", "disableStop", "cleanCD",
   "forceDelete", "retain", "disks"}

LEMMA DefaultedKeeps ==
  ASSUME NEW u \in Written
  PROVE  /\ DOMAIN Defaulted(u) = DOMAIN u /\ Options \subseteq DOMAIN u
         /\ Keeps(Defaulted(u), u) /\ Defaulted(u).disks = u.disks
<1>1. Options \subseteq DOMAIN u
  BY DEF Options, Written
<1> QED
  BY <1>1 DEF Defaulted, Keeps, Options

LEMMA DefaultedCarries ==
  ASSUME NEW u \in Written
  PROVE  Carries(Defaulted(u), u)
<1> DEFINE d == Defaulted(u)
<1>1. Options \subseteq DOMAIN u
  BY DEF Options, Written
<1>2. d.comm = IF u.comm = None THEN "ssh" ELSE u.comm
  BY <1>1 DEF Defaulted, Options
<1>3. d.bootType = BootType(u) /\ d.bootPriority = BootPriority(u)
  BY <1>1 DEF Defaulted, Options
<1>4. d.ovaCreate = OvaCreate(u)
  BY <1>1 DEF Defaulted, Options
<1>5. d.ovaFormat = OvaFormat(u) /\ d.ovaName = OvaName(u)
  BY <1>1 DEF Defaulted, Options
<1>6. d.imageSkip = (u.imageSkip /\ ~u.imageExport)
  BY <1>1 DEF Defaulted, Options
<1>7. d.imageDelete = (u.imageDelete \/ (u.imageSkip /\ u.imageExport))
  BY <1>1 DEF Defaulted, Options
<1>8. d.vmName = VMName(u) /\ d.imageName = NameOr(TRUE, u.imageName, u)
  BY <1>1 DEF Defaulted, Options
<1>9. d.templateName = NameOr(u.template, u.templateName, u)
  BY <1>1 DEF Defaulted, Options
<1> HIDE DEF d
<1> QED
  BY <1>2, <1>3, <1>4, <1>5, <1>6, <1>7, <1>8, <1>9 DEF Carries, d

-----------------------------------------------------------------------------
(* The invariant, part by part.                                            *)

Image(d) == d.kind \in {"DISK_IMAGE", "ISO_IMAGE"}

\* Of the checks of Prepare, those the steps rely on.
Checked ==
  /\ VtpmFits(user)
  /\ ~(config.forceDeregister /\ config.failIfExists)
  /\ config.ovaCreate => config.ovaFormat \in {"vmdk", "qcow2"}
  /\ config.comm # "none" => config.nics # << >>
  /\ \A j \in DOMAIN config.nics : config.nics[j].skip => config.nics[j].ip = None
  /\ user.disks # << >>
  /\ \A j \in DOMAIN user.disks :
       user.disks[j].del => user.disks[j].path # None \/ user.disks[j].uri

\* The user wrote a disk of an image and no source for it.
SourceForgotten ==
  \E i \in DOMAIN user.disks :
    Image(user.disks[i]) /\ user.disks[i].path = None /\ ~HasSource(user.disks[i])

\* A disk of an image without a source was written like that.
SourcesWritten ==
  \A j \in DOMAIN config.disks :
    Image(config.disks[j]) /\ ~HasSource(config.disks[j]) => SourceForgotten

ConfigInv ==
  /\ user \in Users /\ inv \in Inventories
  /\ pc # "prepare" => Carries(config, user) /\ Keeps(config, user)
  /\ Accepted => /\ Options \subseteq DOMAIN config
                 /\ Checked
                 /\ config.disks \in Seq(DiskSpec) /\ config.disks # << >>
  /\ pc = "upload" => config.disks = user.disks
  /\ Accepted /\ pc \notin {"upload", "failed"} => SourcesWritten
  /\ pc = "crashed" => SourceForgotten

Made == {"disk", "nic", "gpu", "categories", "project", "made"}

MachineInv ==
  /\ pc \in {"prepare", "upload", "cluster"} => request = Blank /\ cluster = None
  /\ pc \in Made => request.bootOrder = BootOrder
  /\ pc \in {"project", "made"} =>
       request.vtpm = (config.vtpm /\ config.bootType \in {"uefi", "secure_boot"})

\* The devices of a bus are numbered in order.
Numbered(devices, bus) ==
  /\ devices \in Seq([bus : {bus}, index : Nat])
  /\ \A i \in DOMAIN devices : devices[i].index + 1 = i

DisksInv ==
  /\ Numbered(request.disks, "SCSI") /\ Numbered(request.cdroms, "SATA")
  /\ pc = "disk" =>
       /\ k \in DOMAIN config.disks
       /\ request.cdroms # << >> <=> \E j \in 1 .. k - 1 : config.disks[j].kind = "ISO_IMAGE"
  /\ pc \in Made \ {"disk"} => (request.cdroms # << >> <=> HasCdRoms)

Network == [subnet : inv.subnets, ip : Text, assign : BOOLEAN, mac : {None}]

\* The NIC is on the subnet its specification singles out.
Reaches(made, nic) ==
  /\ made.ip # None => made.subnet.ipam /\ made.assign
  /\ nic.uuid = None =>
       /\ made.subnet.overlay \/ cluster \in made.subnet.clusters
       /\ \A t \in inv.subnets \ {made.subnet} :
            t.name = made.subnet.name => ~t.overlay /\ cluster \notin t.clusters

NicsInv ==
  /\ request.nics \in Seq(Network)
  /\ pc = "disk" => request.nics = << >>
  /\ pc = "nic" => k \in DOMAIN config.nics /\ Len(request.nics) = k - 1
  /\ pc \in {"gpu", "categories", "project", "made"} => Len(request.nics) = Len(config.nics)
  /\ \A j \in DOMAIN request.nics : Reaches(request.nics[j], config.nics[j])

NamesInv ==
  /\ pc \in {"disk", "nic"} => request.gpus = << >>
  /\ pc = "gpu" => k \in DOMAIN config.gpus
  /\ request.gpus \in Seq(inv.gpus)
  /\ NamesSingleOut

RequestInv == TypeOK /\ ConfigInv /\ MachineInv /\ DisksInv /\ NicsInv /\ NamesInv

\* With the same options, the same.
LEMMA SameOptions ==
  ASSUME NEW c, NEW d, NEW u, \A f \in Options \ {"disks"} : c[f] = d[f],
         Carries(d, u), Keeps(d, u)
  PROVE  Carries(c, u) /\ Keeps(c, u)
<1>1. Keeps(c, u)
  BY DEF Keeps, Options
<1>2. /\ c.comm = d.comm /\ c.bootType = d.bootType /\ c.bootPriority = d.bootPriority
      /\ c.ovaCreate = d.ovaCreate /\ c.ovaFormat = d.ovaFormat /\ c.ovaName = d.ovaName
      /\ c.imageSkip = d.imageSkip /\ c.imageDelete = d.imageDelete
      /\ c.vmName = d.vmName /\ c.imageName = d.imageName /\ c.templateName = d.templateName
  BY DEF Options
<1> QED
  BY <1>1, <1>2 DEF Carries

LEMMA BlankFields ==
  DOMAIN Blank = {"bootOrder", "disks", "cdroms", "nics", "gpus", "serial", "q35", "vtpm",
                  "custom", "categories", "owner"}
  BY DEF Blank

LEMMA Writing ==
  ASSUME NEW u \in Written
  PROVE  /\ u.disks \in Seq(DiskSpec) /\ u.nics \in Seq(NicSpec) /\ u.gpus \in Seq(STRING)
         /\ {u.imageExport, u.vtpm, u.serial} \subseteq BOOLEAN
  BY DEF Written

LEMMA Appended ==
  ASSUME NEW S, NEW s \in Seq(S), NEW e \in S
  PROVE  /\ Append(s, e) \in Seq(S) /\ Len(Append(s, e)) = Len(s) + 1
         /\ DOMAIN Append(s, e) = DOMAIN s \cup {Len(s) + 1}
         /\ Append(s, e)[Len(s) + 1] = e
         /\ \A j \in DOMAIN s : Append(s, e)[j] = s[j]
  OBVIOUS

\* The only one of its kind is all of them.
LEMMA OnlyOne ==
  ASSUME NEW S, IsFiniteSet(S), NEW T \in SUBSET S, IsOne(T), NEW x \in T
  PROVE  T = {x}
  BY FS_Subset, FS_Singleton DEF IsOne

LEMMA RequestInit == Init => RequestInv
<1> SUFFICES ASSUME Init PROVE RequestInv
  OBVIOUS
<1>1. DOMAIN Blank = DOMAIN request /\ pc = "prepare" /\ request = Blank /\ cluster = None /\ k = 1
  BY DEF Init
<1>2. TypeOK
  BY <1>1 DEF TypeOK, Blank
<1>3. ConfigInv
  BY <1>1 DEF ConfigInv, Init, Accepted
<1>4. MachineInv
  BY <1>1 DEF MachineInv, Made
<1>5. DisksInv
  BY <1>1 DEF DisksInv, Made, Numbered, Blank
<1>6. NicsInv
  BY <1>1 DEF NicsInv, Blank
<1>7. NamesInv
  BY <1>1 DEF NamesInv, NamesSingleOut, Blank
<1> QED
  BY <1>2, <1>3, <1>4, <1>5, <1>6, <1>7 DEF RequestInv

-----------------------------------------------------------------------------
(* The actions preserve it.                                                *)

LEMMA PrepareKeeps == RequestInv /\ Prepare => RequestInv'
<1> SUFFICES ASSUME RequestInv, Prepare PROVE RequestInv'
  OBVIOUS
<1>1. /\ pc = "prepare" /\ config' = Defaulted(user) /\ pc' \in {"upload", "rejected"}
      /\ UNCHANGED <<user, inv, k, cluster, request>>
  BY DEF Prepare
<1>2. user \in Written /\ request = Blank /\ cluster = None
  BY <1>1, UsersAssumption DEF RequestInv, ConfigInv, MachineInv
<1>3. /\ Options \subseteq DOMAIN config' /\ config'.disks = user.disks
      /\ Keeps(config', user) /\ Carries(config', user)
  BY <1>1, <1>2, DefaultedKeeps, DefaultedCarries
<1>4. TypeOK'
  BY <1>1, <1>3 DEF RequestInv, TypeOK, Carries, BootType, BootTypes, BootPriority
<1>5. pc' = "upload" =>
        VtpmFits(user) /\ OptionsFit(config') /\ NicsFit(config') /\ DisksFit(config')
  BY DEF Prepare
<1>6. pc' = "upload" => Checked'
  BY <1>1, <1>3, <1>5 DEF Checked, OptionsFit, NicsFit, NicFits, VtpmFits, DisksFit, DiskFits
<1>7. ConfigInv'
  BY <1>1, <1>2, <1>3, <1>5, <1>6, Writing DEF RequestInv, ConfigInv, Accepted, DisksFit
<1>8. MachineInv'
  BY <1>1, <1>2 DEF MachineInv, Made
<1>9. DisksInv' /\ NicsInv'
  BY <1>1, <1>2 DEF RequestInv, DisksInv, NicsInv, Made, Numbered, Blank
<1>10. NamesInv'
  BY <1>1, <1>2 DEF RequestInv, NamesInv, NamesSingleOut, Blank
<1> QED
  BY <1>4, <1>7, <1>8, <1>9, <1>10 DEF RequestInv

LEMMA FailingKeeps == RequestInv /\ CallFails => RequestInv'
<1> SUFFICES ASSUME RequestInv, CallFails PROVE RequestInv'
  OBVIOUS
<1>1. /\ pc' = "failed" /\ UNCHANGED <<user, inv, config, k, cluster, request>>
      /\ pc \notin {"prepare", "rejected"}
  BY DEF CallFails
<1>2. TypeOK' /\ ConfigInv'
  BY <1>1 DEF RequestInv, TypeOK, ConfigInv, Accepted, Checked
<1>3. MachineInv' /\ DisksInv' /\ NicsInv'
  BY <1>1 DEF RequestInv, MachineInv, DisksInv, NicsInv, Made, Numbered, Network, Reaches
<1>4. NamesInv'
  BY <1>1 DEF RequestInv, NamesInv, NamesSingleOut
<1> QED
  BY <1>2, <1>3, <1>4 DEF RequestInv

WithCD(disks, cd) == IF cd THEN Append(disks, CDDisk) ELSE disks
WithSources(disks) == [j \in DOMAIN disks |-> Uploaded(disks[j])]

\* A source that an upload does not provide was never there.
LEMMA UploadedSources ==
  ASSUME NEW disks \in Seq(DiskSpec), disks # << >>, NEW cd
  PROVE  LET made == WithSources(WithCD(disks, cd)) IN
         /\ made \in Seq(DiskSpec) /\ made # << >>
         /\ \A j \in DOMAIN made : Image(made[j]) /\ ~HasSource(made[j]) =>
              j \in DOMAIN disks /\ Image(disks[j]) /\ disks[j].path = None /\ ~HasSource(disks[j])
<1> DEFINE all == WithCD(disks, cd)
           made == WithSources(all)
<1>1. CDDisk \in DiskSpec
  BY DEF CDDisk, DiskSpec, Text
<1>2. all \in Seq(DiskSpec) /\ Len(all) # 0
  BY <1>1 DEF WithCD
<1>3. ASSUME NEW d \in DiskSpec
      PROVE  /\ Uploaded(d) \in DiskSpec /\ Uploaded(d).kind = d.kind /\ Uploaded(d).uri = d.uri
             /\ Uploaded(d).library = (d.library \/ d.path # None)
  BY DEF Uploaded, DiskSpec
<1>4. made \in Seq(DiskSpec) /\ Len(made) = Len(all)
  BY <1>2, <1>3 DEF WithSources
<1>5. ASSUME NEW j \in DOMAIN made, Image(made[j]), ~HasSource(made[j])
      PROVE  j \in DOMAIN disks /\ Image(disks[j]) /\ disks[j].path = None /\ ~HasSource(disks[j])
  <2>1. j \in DOMAIN all /\ all[j] \in DiskSpec /\ made[j] = Uploaded(all[j])
    BY <1>2, <1>5 DEF WithSources
  <2>2. Image(all[j]) /\ all[j].path = None /\ ~HasSource(all[j])
    BY <1>3, <1>5, <2>1 DEF Image, HasSource
  <2>3. all[j] # CDDisk
    BY <2>2 DEF HasSource, CDDisk
  <2>4. j \in DOMAIN disks /\ all[j] = disks[j]
    BY <2>1, <2>3 DEF WithCD
  <2> QED
    BY <2>2, <2>4
<1> HIDE DEF made, all
<1>6. made # << >>
  BY <1>2, <1>4
<1> USE DEF made, all
<1> QED
  BY <1>4, <1>5, <1>6

LEMMA UploadKeeps == RequestInv /\ UploadSources => RequestInv'
<1> SUFFICES ASSUME RequestInv, UploadSources PROVE RequestInv'
  OBVIOUS
<1> DEFINE made == WithSources(WithCD(config.disks, config.cd))
<1>1. /\ pc = "upload" /\ pc' = "cluster" /\ k' = 1
      /\ config' = [config EXCEPT !.disks = made]
      /\ UNCHANGED <<user, inv, cluster, request>>
  BY DEF UploadSources, Goto, WithSources, WithCD
<1>2. /\ request = Blank /\ cluster = None /\ Options \subseteq DOMAIN config
      /\ config.disks = user.disks /\ config.disks \in Seq(DiskSpec) /\ config.disks # << >>
  BY <1>1 DEF RequestInv, ConfigInv, MachineInv, Accepted
<1>3. /\ made \in Seq(DiskSpec) /\ made # << >>
      /\ \A j \in DOMAIN made : Image(made[j]) /\ ~HasSource(made[j]) =>
           j \in DOMAIN user.disks /\ Image(user.disks[j]) /\ user.disks[j].path = None
             /\ ~HasSource(user.disks[j])
  <2> DEFINE disks == config.disks
             cd == config.cd
  <2>1. disks \in Seq(DiskSpec) /\ disks # << >> /\ disks = user.disks
    BY <1>2
  <2> HIDE DEF disks, cd
  <2>2. LET new == WithSources(WithCD(disks, cd)) IN
        /\ new \in Seq(DiskSpec) /\ new # << >>
        /\ \A j \in DOMAIN new : Image(new[j]) /\ ~HasSource(new[j]) =>
             j \in DOMAIN disks /\ Image(disks[j]) /\ disks[j].path = None /\ ~HasSource(disks[j])
    BY <2>1, UploadedSources
  <2> QED
    BY <2>1, <2>2 DEF disks, cd
<1> HIDE DEF made
<1>4. /\ config'.disks = made /\ DOMAIN config' = DOMAIN config
      /\ \A f \in Options \ {"disks"} : config'[f] = config[f]
  <2>1. "disks" \in DOMAIN config
    BY <1>2 DEF Options
  <2> QED
    BY <1>1, <1>2, <2>1
<1>5. Carries(config', user) /\ Keeps(config', user)
  <2>1. Carries(config, user) /\ Keeps(config, user)
    BY <1>1 DEF RequestInv, ConfigInv
  <2> QED
    BY <1>4, <2>1, SameOptions
<1>6. Checked'
  BY <1>1, <1>4 DEF RequestInv, ConfigInv, Accepted, Checked, Options
<1>7. SourcesWritten'
  BY <1>1, <1>3, <1>4 DEF SourcesWritten, SourceForgotten
<1>8. ConfigInv'
  BY <1>1, <1>2, <1>3, <1>4, <1>5, <1>6, <1>7 DEF RequestInv, ConfigInv
<1>9. TypeOK'
  BY <1>1, <1>4 DEF RequestInv, TypeOK, Options
<1>10. MachineInv' /\ DisksInv' /\ NicsInv' /\ NamesInv'
  BY <1>1, <1>2 DEF RequestInv, MachineInv, DisksInv, NicsInv, NamesInv, NamesSingleOut, Made,
         Numbered, Blank
<1> QED
  BY <1>8, <1>9, <1>10 DEF RequestInv

LEMMA FindClusterKeeps == RequestInv /\ FindCluster => RequestInv'
<1> SUFFICES ASSUME RequestInv, FindCluster PROVE RequestInv'
  OBVIOUS
<1>1. PICK c \in inv.clusters :
        /\ IF config.clusterUUID # None THEN c.id = config.clusterUUID
           ELSE c \in ClustersNamed(config.clusterName) /\ IsOne(ClustersNamed(config.clusterName))
        /\ cluster' = c.id
  BY DEF FindCluster
<1>2. /\ pc = "cluster" /\ pc' = "disk" /\ k' = 1
      /\ request' = [request EXCEPT !.bootOrder = BootOrder,
                                    !.q35 = (config.bootType = "secure_boot")]
      /\ UNCHANGED <<user, inv, config>>
  BY DEF FindCluster, Goto
<1>3. /\ request = Blank /\ inv \in Inventories
      /\ Keeps(config, user) /\ config.disks \in Seq(DiskSpec) /\ config.disks # << >>
  BY <1>2 DEF RequestInv, ConfigInv, MachineInv, Accepted
<1>4. /\ DOMAIN request' = DOMAIN Blank
      /\ request'.bootOrder = BootOrder
      /\ request'.disks = << >> /\ request'.cdroms = << >> /\ request'.nics = << >>
      /\ request'.gpus = << >>
  BY <1>2, <1>3 DEF Blank
<1>5. /\ request'.serial = FALSE /\ request'.q35 = (config.bootType = "secure_boot")
      /\ request'.vtpm = FALSE /\ request'.custom = None /\ request'.owner = None
  BY <1>2, <1>3 DEF Blank
<1>6. TypeOK'
  BY <1>1, <1>2, <1>4, <1>5 DEF RequestInv, TypeOK
<1>7. ConfigInv'
  BY <1>2 DEF RequestInv, ConfigInv, Accepted, Checked, SourcesWritten, SourceForgotten
<1>8. MachineInv'
  BY <1>2, <1>4 DEF MachineInv, Made, BootOrder, HasCdRoms
<1>9. DisksInv' /\ NicsInv'
  <2>1. 1 \in DOMAIN config.disks /\ 1 .. 1 - 1 = {}
    BY <1>3
  <2>2. Numbered(<< >>, "SCSI") /\ Numbered(<< >>, "SATA")
    BY DEF Numbered
  <2>3. pc' = "disk" /\ k' = 1 /\ config' = config
    BY <1>2
  <2>4. DisksInv'
    BY <1>4, <2>1, <2>2, <2>3 DEF DisksInv
  <2>5. NicsInv'
    BY <1>4, <2>3 DEF NicsInv
  <2> QED
    BY <2>4, <2>5
<1>10. config.clusterUUID = None =>
         \A d \in inv.clusters : d.name = config.clusterName /\ d.pe => d = c
  <2> SUFFICES ASSUME config.clusterUUID = None
               PROVE  \A d \in inv.clusters : d.name = config.clusterName /\ d.pe => d = c
    OBVIOUS
  <2>1. ClustersNamed(config.clusterName) = {c}
    BY <1>1, <1>3, InventoriesAssumption, OnlyOne DEF ClustersNamed
  <2> QED
    BY <2>1 DEF ClustersNamed
<1>11. NamesInv'
  <2>1. user.clusterUUID = None =>
          \A d \in inv.clusters : d.name = user.clusterName /\ d.pe => d.id = c.id
    BY <1>3, <1>10 DEF Keeps
  <2>2. NamesSingleOut'
    BY <1>1, <1>2, <1>4, <1>5, <2>1 DEF NamesSingleOut
  <2>3. pc' = "disk" /\ request'.gpus = << >>
    BY <1>2, <1>4
  <2> QED
    BY <2>2, <2>3 DEF NamesInv
<1> QED
  BY <1>6, <1>7, <1>8, <1>9, <1>11 DEF RequestInv

(* Of a turn of a loop: the next one, or what follows.                     *)
LEMMA TurnEffect ==
  ASSUME NEW s, Len(s) \in Nat, k \in 1 .. Len(s), NEW here, NEW next, Turn(s, here, next)
  PROVE  \/ k < Len(s) /\ pc' = here /\ k' = k + 1
         \/ k = Len(s) /\ pc' = next /\ k' = 1
  BY DEF Turn, Goto

LEMMA AddDiskKeeps == RequestInv /\ AddDisk => RequestInv'
<1> SUFFICES ASSUME RequestInv, AddDisk PROVE RequestInv'
  OBVIOUS
<1> DEFINE d == config.disks[k]
           Device(bus, s) == Append(s, [bus |-> bus, index |-> Len(s)])
<1>1. pc = "disk" /\ UNCHANGED <<user, inv, config, cluster>>
  BY DEF AddDisk
<1>2. /\ config.disks \in Seq(DiskSpec) /\ k \in DOMAIN config.disks /\ user \in Users
      /\ Keeps(config, user) /\ SourcesWritten
  BY <1>1 DEF RequestInv, ConfigInv, DisksInv, Accepted
<1>3. config.nics \in Seq(NicSpec) /\ config.gpus \in Seq(STRING)
  BY <1>2, UsersAssumption, Writing DEF Keeps
<1>4. \/ /\ d.kind # "ISO_IMAGE" /\ Turn(config.disks, "disk", AfterDisks)
         /\ request' = [request EXCEPT !.disks = Device("SCSI", @)] \/ UNCHANGED request
      \/ /\ d.kind = "ISO_IMAGE" /\ Turn(config.disks, "disk", AfterDisks)
         /\ request' = [request EXCEPT !.cdroms = Device("SATA", @)]
      \/ /\ pc' = "crashed" /\ Image(d) /\ ~HasSource(d) /\ UNCHANGED <<k, request>>
  BY DEF AddDisk, Image
<1>5. \/ request' = [request EXCEPT !.disks = Device("SCSI", @)]
      \/ request' = [request EXCEPT !.cdroms = Device("SATA", @)]
      \/ UNCHANGED request
  BY <1>4
<1>6. DOMAIN request = DOMAIN Blank
  BY DEF RequestInv, TypeOK
<1>7. /\ DOMAIN request' = DOMAIN Blank
      /\ \A f \in DOMAIN Blank \ {"disks", "cdroms"} : request'[f] = request[f]
  BY <1>5, <1>6
<1>8. /\ pc' \in {"disk", "nic", "gpu", "categories", "crashed"}
      /\ pc' = "disk" => k' = k + 1 /\ k' \in DOMAIN config.disks
      /\ pc' # "disk" => pc' = "crashed" \/ (k = Len(config.disks) /\ pc' = AfterDisks /\ k' = 1)
      /\ k' \in Nat \ {0}
  <2>1. CASE Turn(config.disks, "disk", AfterDisks)
    BY <1>2, <2>1, TurnEffect DEF AfterDisks
  <2>2. CASE pc' = "crashed" /\ UNCHANGED k
    BY <1>2, <2>2
  <2> QED
    BY <1>4, <2>1, <2>2
<1>9. TypeOK'
  BY <1>1, <1>7, <1>8, BlankFields DEF RequestInv, TypeOK
<1>10. ConfigInv'
  <2>1. pc' = "crashed" => Image(d) /\ ~HasSource(d)
    BY <1>4 DEF Turn, Goto, AfterDisks
  <2> QED
    BY <1>1, <1>2, <1>8, <2>1
    DEF RequestInv, ConfigInv, Accepted, Checked, SourcesWritten, SourceForgotten
<1>11. MachineInv'
  BY <1>1, <1>7, <1>8, BlankFields DEF RequestInv, MachineInv, Made, BootOrder, HasCdRoms
<1>12. Numbered(request'.disks, "SCSI") /\ Numbered(request'.cdroms, "SATA")
  <2>1. ASSUME NEW s, NEW bus, Numbered(s, bus)
        PROVE  Numbered(Device(bus, s), bus)
    BY <2>1 DEF Numbered
  <2>2. Numbered(request.disks, "SCSI") /\ Numbered(request.cdroms, "SATA")
    BY DEF RequestInv, DisksInv
  <2> HIDE DEF Device
  <2>3. /\ request'.disks \in {request.disks, Device("SCSI", request.disks)}
        /\ request'.cdroms \in {request.cdroms, Device("SATA", request.cdroms)}
    BY <1>5, <1>6, BlankFields
  <2> QED
    BY <2>1, <2>2, <2>3
<1>13. pc' # "crashed" =>
         (request'.cdroms # << >> <=> \E j \in 1 .. k : config.disks[j].kind = "ISO_IMAGE")
  <2>1. k \in Nat \ {0} /\ request.cdroms \in Seq([bus : {"SATA"}, index : Nat])
    BY DEF RequestInv, TypeOK, DisksInv, Numbered
  <2>2. request.cdroms # << >> <=> \E j \in 1 .. k - 1 : config.disks[j].kind = "ISO_IMAGE"
    BY <1>1 DEF RequestInv, DisksInv
  <2>3. CASE d.kind # "ISO_IMAGE" /\ request'.cdroms = request.cdroms
    <3>1. 1 .. k = (1 .. k - 1) \cup {k}
      BY <2>1
    <3> QED
      BY <2>2, <2>3, <3>1
  <2>4. CASE d.kind = "ISO_IMAGE" /\ request'.cdroms = Device("SATA", request.cdroms)
    <3> DEFINE s == request.cdroms
               D == [bus : {"SATA"}, index : Nat]
               e == [bus |-> "SATA", index |-> Len(s)]
    <3>0. s \in Seq(D) /\ e \in D /\ request'.cdroms = Append(s, e)
      BY <2>1, <2>4
    <3> HIDE DEF s, D, e
    <3>1. request'.cdroms # << >>
      BY <3>0, Appended
    <3> QED
      BY <2>1, <2>4, <3>1
  <2> QED
    BY <1>4, <1>6, <2>3, <2>4, BlankFields
<1>14. DisksInv'
  <2>1. pc' = "disk" => k' - 1 = k
    BY <1>2, <1>8
  <2>2. pc' \in Made \ {"disk"} => DOMAIN config.disks = 1 .. k
    BY <1>2, <1>8 DEF Made
  <2> QED
    BY <1>1, <1>8, <1>12, <1>13, <2>1, <2>2 DEF DisksInv, HasCdRoms, Made
<1>15. NicsInv'
  <2>1. request'.nics = << >> /\ request.nics = << >>
    BY <1>1, <1>7, BlankFields DEF RequestInv, NicsInv
  <2> QED
    BY <1>1, <1>3, <1>8, <2>1 DEF NicsInv, AfterDisks
<1>16. NamesInv'
  <2>1. request'.gpus = << >> /\ request.gpus = << >> /\ request'.owner = request.owner
    BY <1>1, <1>7, BlankFields DEF RequestInv, NamesInv
  <2> QED
    BY <1>1, <1>3, <1>8, <2>1 DEF RequestInv, NamesInv, NamesSingleOut, AfterDisks
<1> QED
  BY <1>9, <1>10, <1>11, <1>14, <1>15, <1>16 DEF RequestInv

LEMMA AddNicKeeps == RequestInv /\ AddNic => RequestInv'
<1> SUFFICES ASSUME RequestInv, AddNic PROVE RequestInv'
  OBVIOUS
<1> DEFINE nic == config.nics[k]
<1>1. PICK s \in inv.subnets :
        /\ SubnetFor(nic, s) /\ (nic.ip # None => s.ipam)
        /\ request' = [request EXCEPT !.nics = Append(@,
             [subnet |-> s, ip |-> nic.ip, assign |-> ~nic.skip, mac |-> None])]
  BY DEF AddNic
<1> DEFINE made == [subnet |-> s, ip |-> nic.ip, assign |-> ~nic.skip, mac |-> None]
<1>2. /\ pc = "nic" /\ Turn(config.nics, "nic", AfterNics)
      /\ UNCHANGED <<user, inv, config, cluster>>
  BY DEF AddNic
<1>3. /\ user \in Users /\ inv \in Inventories /\ Keeps(config, user) /\ Checked
      /\ k \in DOMAIN config.nics /\ k \in Nat \ {0} /\ Len(request.nics) = k - 1
      /\ request.nics \in Seq(Network)
      /\ request.gpus = << >> /\ DOMAIN request = DOMAIN Blank
  BY <1>2 DEF RequestInv, ConfigInv, NicsInv, NamesInv, TypeOK, Accepted
<1>4. config.nics \in Seq(NicSpec) /\ config.gpus \in Seq(STRING)
  BY <1>3, UsersAssumption, Writing DEF Keeps
<1>5. /\ DOMAIN request' = DOMAIN Blank
      /\ request'.nics = Append(request.nics, made)
      /\ \A f \in DOMAIN Blank \ {"nics"} : request'[f] = request[f]
  BY <1>1, <1>3, BlankFields
<1>6. /\ pc' \in {"nic", "gpu", "categories"} /\ k' \in Nat \ {0}
      /\ pc' = "nic" => k' = k + 1 /\ k' \in DOMAIN config.nics
      /\ pc' # "nic" => k = Len(config.nics) /\ pc' = AfterNics /\ k' = 1
  <2>1. DOMAIN config.nics = 1 .. Len(config.nics) /\ Len(config.nics) \in Nat
    BY <1>4
  <2>2. \/ k < Len(config.nics) /\ pc' = "nic" /\ k' = k + 1
        \/ k = Len(config.nics) /\ pc' = AfterNics /\ k' = 1
    BY <1>2, <1>3, <2>1, TurnEffect
  <2>3. AfterNics \in {"gpu", "categories"}
    BY DEF AfterNics
  <2> QED
    BY <1>3, <2>1, <2>2, <2>3
<1>7. TypeOK'
  BY <1>2, <1>5, <1>6, BlankFields DEF RequestInv, TypeOK
<1>8. ConfigInv'
  BY <1>2, <1>6 DEF RequestInv, ConfigInv, Accepted, Checked, SourcesWritten, SourceForgotten
<1>9. MachineInv'
  BY <1>2, <1>5, <1>6, BlankFields DEF RequestInv, MachineInv, Made, BootOrder, HasCdRoms
<1>10. DisksInv'
  BY <1>2, <1>5, <1>6, BlankFields DEF RequestInv, DisksInv, Made, HasCdRoms
<1>11. made \in Network
  <2>1. nic \in NicSpec
    BY <1>3, <1>4
  <2> QED
    BY <2>1 DEF Network, NicSpec
<1>12. Reaches(made, nic)
  <2>1. made.ip # None => made.subnet.ipam /\ made.assign
    BY <1>1, <1>3 DEF Checked
  <2>2. ASSUME nic.uuid = None
        PROVE  /\ s.overlay \/ cluster \in s.clusters
               /\ \A t \in inv.subnets \ {s} :
                    t.name = s.name => ~t.overlay /\ cluster \notin t.clusters
    <3>1. s \in SubnetsNamed(nic.name) /\ IsOne(SubnetsNamed(nic.name))
      BY <1>1, <2>2 DEF SubnetFor
    <3>2. SubnetsNamed(nic.name) = {s}
      BY <1>3, <3>1, InventoriesAssumption, OnlyOne DEF SubnetsNamed
    <3> QED
      BY <3>2 DEF SubnetsNamed, Belongs
  <2> QED
    BY <1>2, <2>1, <2>2 DEF Reaches
<1> HIDE DEF made
<1>13. NicsInv'
  <2>1. /\ request'.nics \in Seq(Network) /\ Len(request'.nics) = k
        /\ DOMAIN request'.nics = DOMAIN request.nics \cup {k} /\ request'.nics[k] = made
        /\ \A j \in DOMAIN request.nics : request'.nics[j] = request.nics[j]
    BY <1>3, <1>5, <1>11, Appended
  <2>2. ASSUME NEW j \in DOMAIN request'.nics
        PROVE  Reaches(request.nics[j], config.nics[j])'
    <3>1. CASE j = k
      BY <1>2, <1>12, <2>1, <3>1 DEF Reaches
    <3>2. CASE j \in DOMAIN request.nics
      <4>1. Reaches(request.nics[j], config.nics[j])
        BY <3>2 DEF RequestInv, NicsInv
      <4> QED
        BY <1>2, <2>1, <3>2, <4>1 DEF Reaches
    <3> QED
      BY <2>1, <2>2, <3>1, <3>2
  <2>3. Network' = Network
    BY <1>2 DEF Network
  <2> QED
    BY <1>2, <1>3, <1>6, <2>1, <2>2, <2>3 DEF NicsInv
<1>14. NamesInv'
  <2>1. request'.gpus = << >> /\ request'.owner = request.owner
    BY <1>3, <1>5, BlankFields
  <2> QED
    BY <1>2, <1>4, <1>6, <2>1 DEF RequestInv, NamesInv, NamesSingleOut, AfterNics
<1> QED
  BY <1>7, <1>8, <1>9, <1>10, <1>13, <1>14 DEF RequestInv

LEMMA AddGpuKeeps == RequestInv /\ AddGpu => RequestInv'
<1> SUFFICES ASSUME RequestInv, AddGpu PROVE RequestInv'
  OBVIOUS
<1>1. pc = "gpu" /\ UNCHANGED <<user, inv, config, cluster>>
  BY DEF AddGpu
<1>2. \/ /\ \E g \in inv.gpus : /\ ~g.inUse /\ g.cluster = cluster
                                /\ request' = [request EXCEPT !.gpus = Append(@, g)]
         /\ Turn(config.gpus, "gpu", "categories")
      \/ pc' = "failed" /\ UNCHANGED <<k, request>>
  BY DEF AddGpu, Free
<1>3. /\ user \in Users /\ Keeps(config, user)
      /\ k \in DOMAIN config.gpus /\ k \in Nat \ {0}
      /\ request.gpus \in Seq(inv.gpus) /\ DOMAIN request = DOMAIN Blank
  BY <1>1 DEF RequestInv, ConfigInv, NamesInv, TypeOK
<1>4. config.gpus \in Seq(STRING)
  BY <1>3, UsersAssumption, Writing DEF Keeps
<1>5. /\ DOMAIN request' = DOMAIN Blank
      /\ \A f \in DOMAIN Blank \ {"gpus"} : request'[f] = request[f]
  BY <1>2, <1>3
<1>6. /\ request'.gpus \in Seq(inv.gpus)
      /\ \A j \in DOMAIN request'.gpus :
           ~request'.gpus[j].inUse /\ request'.gpus[j].cluster = cluster
  <2>1. \A j \in DOMAIN request.gpus :
          ~request.gpus[j].inUse /\ request.gpus[j].cluster = cluster
    BY DEF RequestInv, NamesInv, NamesSingleOut
  <2>2. CASE UNCHANGED request
    BY <1>3, <2>1, <2>2
  <2>3. ASSUME NEW g \in inv.gpus, ~g.inUse, g.cluster = cluster,
               request' = [request EXCEPT !.gpus = Append(@, g)]
        PROVE  /\ request'.gpus \in Seq(inv.gpus)
               /\ \A j \in DOMAIN request'.gpus :
                    ~request'.gpus[j].inUse /\ request'.gpus[j].cluster = cluster
    <3>1. request'.gpus = Append(request.gpus, g)
      BY <1>3, <2>3, BlankFields
    <3>2. /\ request'.gpus \in Seq(inv.gpus)
          /\ DOMAIN request'.gpus = DOMAIN request.gpus \cup {Len(request.gpus) + 1}
          /\ request'.gpus[Len(request.gpus) + 1] = g
          /\ \A j \in DOMAIN request.gpus : request'.gpus[j] = request.gpus[j]
      <4> DEFINE s == request.gpus
                 S == inv.gpus
      <4>1. s \in Seq(S) /\ g \in S /\ request'.gpus = Append(s, g)
        BY <1>3, <3>1
      <4> HIDE DEF s, S
      <4>2. /\ request'.gpus \in Seq(S)
            /\ DOMAIN request'.gpus = DOMAIN s \cup {Len(s) + 1}
            /\ request'.gpus[Len(s) + 1] = g
            /\ \A j \in DOMAIN s : request'.gpus[j] = s[j]
        BY <4>1, Appended
      <4> USE DEF s, S
      <4> QED
        BY <4>2
    <3>3. ~g.inUse /\ g.cluster = cluster
      BY <2>3
    <3>4. ASSUME NEW j \in DOMAIN request'.gpus
          PROVE  ~request'.gpus[j].inUse /\ request'.gpus[j].cluster = cluster
      <4>1. CASE j \in DOMAIN request.gpus
        BY <2>1, <3>2, <4>1
      <4>2. CASE j = Len(request.gpus) + 1
        BY <3>2, <3>3, <4>2
      <4> QED
        BY <3>2, <3>4, <4>1, <4>2
    <3> QED
      BY <3>2, <3>4
  <2> QED
    BY <1>2, <2>2, <2>3
<1>7. /\ pc' \in {"gpu", "categories", "failed"} /\ k' \in Nat \ {0}
      /\ pc' = "gpu" => k' \in DOMAIN config.gpus
  <2>1. CASE Turn(config.gpus, "gpu", "categories")
    BY <1>3, <1>4, <2>1, TurnEffect
  <2> QED
    BY <1>2, <1>3, <2>1
<1>8. TypeOK'
  <2>1. \A j \in DOMAIN request'.gpus : request'.gpus[j] \in inv.gpus
    BY <1>6
  <2> QED
    BY <1>1, <1>5, <1>7, <2>1, BlankFields DEF RequestInv, TypeOK
<1>9. ConfigInv'
  BY <1>1, <1>7 DEF RequestInv, ConfigInv, Accepted, Checked, SourcesWritten, SourceForgotten
<1>10. MachineInv'
  BY <1>1, <1>5, <1>7, BlankFields DEF RequestInv, MachineInv, Made, BootOrder, HasCdRoms
<1>11. DisksInv' /\ NicsInv'
  <2>1. DisksInv'
    BY <1>1, <1>5, <1>7, BlankFields DEF RequestInv, DisksInv, Made, HasCdRoms
  <2>2. NicsInv'
    BY <1>1, <1>5, <1>7, BlankFields DEF RequestInv, NicsInv, Network, Reaches
  <2> QED
    BY <2>1, <2>2
<1>12. NamesInv'
  BY <1>1, <1>5, <1>6, <1>7, BlankFields DEF RequestInv, NamesInv, NamesSingleOut
<1> QED
  BY <1>8, <1>9, <1>10, <1>11, <1>12 DEF RequestInv

LEMMA AddOptionsKeeps == RequestInv /\ AddOptions => RequestInv'
<1> SUFFICES ASSUME RequestInv, AddOptions PROVE RequestInv'
  OBVIOUS
<1>1. PICK ids :
        request' = [request EXCEPT
          !.serial = config.serial, !.custom = Customization,
          !.vtpm = config.vtpm /\ config.bootType \in {"uefi", "secure_boot"},
          !.categories = ids]
  BY DEF AddOptions
<1>2. /\ pc = "categories" /\ pc' \in {"made", "project"} /\ k' = 1
      /\ UNCHANGED <<user, inv, config, cluster>>
  BY DEF AddOptions, Goto
<1>3. /\ user \in Users /\ Keeps(config, user) /\ DOMAIN request = DOMAIN Blank
  BY <1>2 DEF RequestInv, ConfigInv, TypeOK
<1>4. {config.serial, config.vtpm} \subseteq BOOLEAN
  BY <1>3, UsersAssumption, Writing DEF Keeps
<1>5. /\ DOMAIN request' = DOMAIN Blank
      /\ \A f \in DOMAIN Blank \ {"serial", "custom", "vtpm", "categories"} :
           request'[f] = request[f]
  BY <1>1, <1>3
<1>6. /\ request'.serial = config.serial /\ request'.custom = Customization
      /\ request'.vtpm = (config.vtpm /\ config.bootType \in {"uefi", "secure_boot"})
  BY <1>1, <1>3, BlankFields
<1>7. TypeOK'
  <2>1. Customization \in {None, "cloudinit", "sysprep", "empty"}
    BY DEF Customization
  <2>2. {request'.serial, request'.vtpm} \subseteq BOOLEAN
    BY <1>4, <1>6
  <2> QED
    BY <1>2, <1>5, <1>6, <2>1, <2>2, BlankFields DEF RequestInv, TypeOK
<1>8. ConfigInv'
  BY <1>2 DEF RequestInv, ConfigInv, Accepted, Checked, SourcesWritten, SourceForgotten
<1>9. MachineInv'
  BY <1>2, <1>5, <1>6, BlankFields DEF RequestInv, MachineInv, Made, BootOrder, HasCdRoms
<1>10. DisksInv' /\ NicsInv'
  <2>1. DisksInv'
    BY <1>2, <1>5, BlankFields DEF RequestInv, DisksInv, Made, HasCdRoms
  <2>2. NicsInv'
    BY <1>2, <1>5, BlankFields DEF RequestInv, NicsInv, Network, Reaches
  <2> QED
    BY <2>1, <2>2
<1>11. NamesInv'
  BY <1>2, <1>5, BlankFields DEF RequestInv, NamesInv, NamesSingleOut
<1> QED
  BY <1>7, <1>8, <1>9, <1>10, <1>11 DEF RequestInv

LEMMA SetOwnerKeeps == RequestInv /\ SetOwner => RequestInv'
<1> SUFFICES ASSUME RequestInv, SetOwner PROVE RequestInv'
  OBVIOUS
<1>1. PICK p \in ProjectsNamed(config.project) : request' = [request EXCEPT !.owner = p.id]
  BY DEF SetOwner
<1>2. /\ pc = "project" /\ pc' = "made" /\ k' = 1 /\ IsOne(ProjectsNamed(config.project))
      /\ UNCHANGED <<user, inv, config, cluster>>
  BY DEF SetOwner, Goto
<1>3. /\ inv \in Inventories /\ Keeps(config, user) /\ DOMAIN request = DOMAIN Blank
  BY <1>2 DEF RequestInv, ConfigInv, TypeOK
<1>4. /\ DOMAIN request' = DOMAIN Blank /\ request'.owner = p.id
      /\ \A f \in DOMAIN Blank \ {"owner"} : request'[f] = request[f]
  BY <1>1, <1>3, BlankFields
<1>5. TypeOK' /\ ConfigInv'
  BY <1>2, <1>4, BlankFields
  DEF RequestInv, TypeOK, ConfigInv, Accepted, Checked, SourcesWritten, SourceForgotten
<1>6. MachineInv'
  BY <1>2, <1>4, BlankFields DEF RequestInv, MachineInv, Made, BootOrder, HasCdRoms
<1>7. DisksInv' /\ NicsInv'
  <2>1. DisksInv'
    BY <1>2, <1>4, BlankFields DEF RequestInv, DisksInv, Made, HasCdRoms
  <2>2. NicsInv'
    BY <1>2, <1>4, BlankFields DEF RequestInv, NicsInv, Network, Reaches
  <2> QED
    BY <2>1, <2>2
<1>8. \A q \in inv.projects : q.name = user.project => q = p
  <2>1. ProjectsNamed(config.project) = {p}
    BY <1>1, <1>2, <1>3, InventoriesAssumption, OnlyOne DEF ProjectsNamed
  <2> QED
    BY <1>3, <2>1 DEF ProjectsNamed, Keeps
<1>9. NamesInv'
  BY <1>2, <1>4, <1>8, BlankFields DEF RequestInv, NamesInv, NamesSingleOut
<1> QED
  BY <1>5, <1>6, <1>7, <1>9 DEF RequestInv

LEMMA StutterKeeps == RequestInv /\ UNCHANGED vars => RequestInv'
<1> SUFFICES ASSUME RequestInv, UNCHANGED vars PROVE RequestInv'
  OBVIOUS
<1>1. TypeOK' /\ ConfigInv'
  BY DEF vars, RequestInv, TypeOK, ConfigInv, Accepted, Checked, SourcesWritten, SourceForgotten
<1>2. MachineInv' /\ DisksInv' /\ NicsInv'
  BY DEF vars, RequestInv, MachineInv, DisksInv, NicsInv, Made, BootOrder, HasCdRoms, Numbered,
         Network, Reaches
<1>3. NamesInv'
  BY DEF vars, RequestInv, NamesInv, NamesSingleOut
<1> QED
  BY <1>1, <1>2, <1>3 DEF RequestInv

-----------------------------------------------------------------------------
(* The theorems.                                                           *)

(* The strengthened invariant: what Prepare left is what the steps work    *)
(* with, and each loop of CreateRequest made what its turns so far ask for.*)
THEOREM RequestInvariant == Spec => []RequestInv
<1>1. RequestInv /\ [Next]_vars => RequestInv'
  BY PrepareKeeps, UploadKeeps, FindClusterKeeps, AddDiskKeeps, AddNicKeeps, AddGpuKeeps,
     AddOptionsKeeps, SetOwnerKeeps, FailingKeeps, StutterKeeps DEF Next
<1> QED
  BY <1>1, RequestInit, PTL DEF Spec

(* Every variable of the model keeps its type.                             *)
THEOREM RequestTypeCorrect == Spec => []TypeOK
<1>1. RequestInv => TypeOK
  BY DEF RequestInv
<1> QED
  BY <1>1, RequestInvariant, PTL

(* What is written, seen as a configuration of module Build, has the types *)
(* of one and is accepted there if Prepare accepted it.                    *)
LEMMA WrittenForBuild ==
  ASSUME NEW u \in Written, u.disks # << >>,
         \A j \in DOMAIN u.disks : u.disks[j].del => u.disks[j].path # None \/ u.disks[j].uri
  PROVE  ForBuild(u) \in Plan!Config /\ Plan!Accepted(ForBuild(u))
<1> DEFINE disk(j) == [kind |-> u.disks[j].kind, path |-> u.disks[j].path # None,
                       uri |-> u.disks[j].uri, library |-> u.disks[j].library,
                       del |-> u.disks[j].del, force |-> u.disks[j].force]
           disks == [j \in DOMAIN u.disks |-> disk(j)]
<1>1. u.disks \in Seq(DiskSpec) /\ DOMAIN u.disks = 1 .. Len(u.disks) /\ Len(u.disks) \in Nat
  BY Writing
<1>2. ASSUME NEW j \in DOMAIN u.disks PROVE disk(j) \in Plan!Disk
  <2>1. u.disks[j] \in DiskSpec
    BY <1>1
  <2>2. /\ u.disks[j].kind \in {"DISK", "DISK_IMAGE", "ISO_IMAGE", "other"}
        /\ u.disks[j].uri \in BOOLEAN /\ u.disks[j].library \in BOOLEAN
        /\ u.disks[j].del \in BOOLEAN /\ u.disks[j].force \in BOOLEAN
    BY <2>1 DEF DiskSpec
  <2> QED
    BY <2>2 DEF Plan!Disk
<1>3. disks \in Seq(Plan!Disk) /\ DOMAIN disks = DOMAIN u.disks /\ disks # << >>
  BY <1>1, <1>2
<1>4. ForBuild(u).disks = disks
  BY DEF ForBuild
<1>5. \A j \in DOMAIN disks : Plan!Deletable(disks[j])
  BY <1>1, <1>3 DEF Plan!Deletable
<1>6. ForBuild(u) \in Plan!Config
  BY <1>3, <1>4 DEF ForBuild, Plan!Config, Written
<1> QED
  BY <1>3, <1>4, <1>5, <1>6 DEF Plan!Accepted

(* Apart from the disks, which the uploads change, Prepare does here what  *)
(* it does in module Build.                                                *)
LEMMA PreparedAlike ==
  ASSUME NEW c, NEW u \in Written, Carries(c, u), Keeps(c, u)
  PROVE  [ForBuild(c) EXCEPT !.disks = ForBuild(u).disks] = Plan!Prepare(ForBuild(u))
<1> DEFINE fields == {"disks", "cd", "boot", "stop", "cleanCD", "imageSkip", "imageExport",
                      "imageDelete", "existing", "template", "ovaCreate", "ovaExport",
                      "forceDelete", "retain"}
           v == ForBuild(c)
           w == ForBuild(u)
           p == Plan!Prepare(w)
<1>1. DOMAIN v = fields /\ DOMAIN w = fields
  BY DEF ForBuild
<1>2. v.stop = w.stop /\ v.existing = w.existing
  BY NoneAssumption DEF ForBuild, Carries, Keeps
<1>3. /\ v.cd = w.cd /\ v.boot = w.boot /\ v.cleanCD = w.cleanCD /\ v.template = w.template
      /\ v.imageExport = w.imageExport /\ v.ovaExport = w.ovaExport
      /\ v.forceDelete = w.forceDelete /\ v.retain = w.retain
  BY DEF ForBuild, Keeps
<1>4. /\ v.imageSkip = (w.imageSkip /\ ~w.imageExport)
      /\ v.imageDelete = (w.imageDelete \/ (w.imageSkip /\ w.imageExport))
      /\ v.ovaCreate = (w.ovaCreate \/ w.ovaExport)
  BY DEF ForBuild, Carries, OvaCreate
<1> HIDE DEF v, w
<1>5. /\ DOMAIN p = fields /\ p = [f \in fields |-> p[f]]
      /\ \A f \in fields \ {"imageSkip", "imageDelete", "ovaCreate"} : p[f] = w[f]
      /\ p.imageSkip = v.imageSkip /\ p.imageDelete = v.imageDelete
      /\ p.ovaCreate = v.ovaCreate
  BY <1>1, <1>4 DEF Plan!Prepare
<1> HIDE DEF p
<1>6. \A f \in fields : [v EXCEPT !.disks = w.disks][f] = p[f]
  BY <1>1, <1>2, <1>3, <1>5
<1>7. [v EXCEPT !.disks = w.disks] = p
  BY <1>1, <1>5, <1>6
<1> QED
  BY <1>7 DEF v, w, p

(* Whatever the user writes, what Prepare accepts is a configuration that  *)
(* module Build assumes, prepared as it is there; and what is made has a   *)
(* name and a format (Config.Prepare).                                     *)
THEOREM PreparedIsConsistent == Spec => []PreparedForBuild
<1>1. RequestInv => PreparedForBuild
  <2> SUFFICES ASSUME RequestInv, Accepted PROVE PreparedForBuild
    BY DEF PreparedForBuild
  <2>1. /\ Carries(config, user) /\ Keeps(config, user) /\ Checked /\ user \in Written
    BY UsersAssumption DEF RequestInv, ConfigInv, Accepted
  <2>2. VMName(user) # None /\ config.comm # None
    BY <2>1, NoneAssumption DEF VMName, Carries
  <2>3. config.imageName # None /\ config.vmName # None
    BY <2>1, <2>2 DEF Carries, NameOr
  <2>4. /\ config.ovaCreate => config.ovaName # None
        /\ config.template => config.templateName # None
    BY <2>1, <2>2 DEF Carries, Keeps, NameOr, OvaName, OvaCreate
  <2>5. ForBuild(user) \in Plan!Config /\ Plan!Accepted(ForBuild(user))
    BY <2>1, WrittenForBuild DEF Checked
  <2>6. [ForBuild(config) EXCEPT !.disks = ForBuild(user).disks] = Plan!Prepare(ForBuild(user))
    BY <2>1, PreparedAlike
  <2> QED
    BY <2>1, <2>2, <2>3, <2>4, <2>5, <2>6 DEF PreparedForBuild, Checked
<1> QED
  BY <1>1, RequestInvariant, PTL

(* The boot order, chosen before the disks are attached, names the CD-ROM  *)
(* exactly if one is attached; no two devices share an address; a vTPM     *)
(* that was written is there (CreateRequest).                              *)
THEOREM DevicesAreAsAsked == Spec => []DevicesAsAsked
<1>1. RequestInv => DevicesAsAsked
  <2> SUFFICES ASSUME RequestInv, pc = "made" PROVE DevicesAsAsked
    BY DEF DevicesAsAsked
  <2>1. /\ Carries(config, user) /\ Keeps(config, user) /\ Checked /\ user \in Written
    BY UsersAssumption DEF RequestInv, ConfigInv, Accepted
  <2>2. request.bootOrder = BootOrder /\ (request.cdroms # << >> <=> HasCdRoms)
    BY DEF RequestInv, MachineInv, DisksInv, Made
  <2>3. /\ (\E j \in DOMAIN BootOrder : BootOrder[j] = "CDROM") <=> HasCdRoms
        /\ BootOrder[1] = "CDROM" => config.bootPriority = "cdrom"
    BY DEF BootOrder
  <2>4. config.bootPriority = "cdrom" => user.bootPriority # "disk"
    BY <2>1 DEF Carries, BootPriority
  <2>5. user.vtpm => request.vtpm
    BY <2>1 DEF RequestInv, MachineInv, Checked, VtpmFits, BootType, BootTypes, Carries, Keeps
  <2>6. ASSUME NEW s, NEW bus, Numbered(s, bus)
        PROVE  \A i, j \in DOMAIN s : i # j => s[i] # s[j]
    BY <2>6 DEF Numbered
  <2>7. /\ \A i, j \in DOMAIN request.disks : i # j => request.disks[i] # request.disks[j]
        /\ \A i, j \in DOMAIN request.cdroms : i # j => request.cdroms[i] # request.cdroms[j]
    BY <2>6 DEF RequestInv, DisksInv
  <2> QED
    BY <2>2, <2>3, <2>4, <2>5, <2>7 DEF DevicesAsAsked
<1> QED
  BY <1>1, RequestInvariant, PTL

(* Of what Prepare accepts, only a disk of an image that was written       *)
(* without a source crashes the plugin (CreateRequest).                    *)
THEOREM CrashNeedsNoSource == Spec => []CrashOnlyWithoutSource
<1>1. RequestInv => CrashOnlyWithoutSource
  <2> SUFFICES ASSUME RequestInv, pc = "crashed" PROVE CrashOnlyWithoutSource
    BY DEF CrashOnlyWithoutSource
  <2>1. SourceForgotten
    BY DEF RequestInv, ConfigInv
  <2> QED
    BY <2>1 DEF SourceForgotten, CrashOnlyWithoutSource, Image
<1> QED
  BY <1>1, RequestInvariant, PTL

(* Every NIC is on the subnet the user's name singles out among those of   *)
(* the cluster, and a static address is where it can be assigned           *)
(* (getSubnet).                                                            *)
THEOREM NicsAreReachable == Spec => []NicsReachable
<1>1. RequestInv => NicsReachable
  BY DEF RequestInv, NicsInv, Reaches, NicsReachable
<1> QED
  BY <1>1, RequestInvariant, PTL

(* The cluster and the owner are the only ones of the user's names, and    *)
(* the GPUs are free ones of that cluster (findClusterByName,              *)
(* findProjectByName, getGPU).                                             *)
THEOREM NamesAreSingledOut == Spec => []NamesSingleOut
<1>1. RequestInv => NamesSingleOut
  BY DEF RequestInv, NamesInv
<1> QED
  BY <1>1, RequestInvariant, PTL

=============================================================================
