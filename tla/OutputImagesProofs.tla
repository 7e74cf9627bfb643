------------------------- MODULE OutputImagesProofs -------------------------
(***************************************************************************)
(* Proofs about module OutputImages, for any number of builds with any     *)
(* number of disks, however they treat existing images and whatever the    *)
(* library holds before.                                                   *)
(***************************************************************************)
EXTENDS OutputImages, FiniteSetTheorems, TLAPS

-----------------------------------------------------------------------------
(* The inductive invariant.                                                *)

(* Where a build is in its loop over the disks.                            *)
Counted(b) ==
  /\ pc[b] \in {"list", "delete", "create"} => Len(made[b]) = disk[b] - 1
  /\ conf[b].existing # "ignore" =>
       /\ pc[b] = "list" => Len(listed[b]) = Len(made[b])
       /\ pc[b] \in {"delete", "create"} => Len(listed[b]) = Len(made[b]) + 1
       /\ Len(listed[b]) >= Len(made[b])

(* An image a build has made bears the name of the disk, and its maker's.  *)
MadeOnes(b) ==
  \A k \in DOMAIN made[b] :
    /\ made[b][k] \in DOMAIN images
    /\ images[made[b][k]].name = NameOf(k) /\ images[made[b][k]].by = b

IsMine(b, i) == \E k \in DOMAIN made[b] : made[b][k] = i

(* A build deletes to replace, never an image it has made and never        *)
(* without making another one, or it cleans up after itself.               *)
ReplacedBy(b, i) ==
  /\ conf[b].existing = "replace" /\ ~IsMine(b, i)
  /\ ok[b] =>
       \/ pc[b] = "create" /\ images[i].name = NameOf(disk[b])
       \/ \E j \in DOMAIN images : j > i /\ images[j].name = images[i].name

CleanedUpBy(b, i) ==
  conf[b].del /\ pc[b] \in {"cleanup", "done"} /\ IsMine(b, i)

TriedOnes(b) ==
  \A i \in tried[b] : i \in DOMAIN images /\ (ReplacedBy(b, i) \/ CleanedUpBy(b, i))

(* What a listing found.                                                   *)
Listings(b) ==
  \A d \in DOMAIN listed[b] :
    /\ listed[b][d].upto <= Len(images)
    /\ \A i \in listed[b][d].found : i \in DOMAIN images /\ images[i].name = NameOf(d)

AboutToDelete(b) ==
  pc[b] = "delete" =>
    /\ conf[b].existing = "replace"
    /\ Cardinality(listed[b][disk[b]].found) = 1
    /\ \A i \in DOMAIN images :
         i <= listed[b][disk[b]].upto /\ images[i].there /\ images[i].name = NameOf(disk[b])
           => i \in listed[b][disk[b]].found

(* The images of the name from before the listing that are still there.    *)
Looked(b, d) ==
  \A i \in DOMAIN images :
    i <= listed[b][d].upto /\ images[i].there /\ images[i].name = NameOf(d)
      => conf[b].existing = "replace" /\ Cardinality(listed[b][d].found) > 1

LookedAt(b) ==
  conf[b].existing # "ignore" =>
    /\ \A d \in DOMAIN made[b] : Looked(b, d)
    /\ pc[b] = "create" => Looked(b, disk[b])

GoneOnes ==
  \A i \in DOMAIN images : ~images[i].there => \E c \in Builds : i \in tried[c]

BuildInv(b) ==
  /\ Counted(b) /\ MadeOnes(b) /\ TriedOnes(b)
  /\ Listings(b) /\ AboutToDelete(b) /\ LookedAt(b)

IInv == OutputsTypeOK /\ GoneOnes /\ \A b \in Builds : BuildInv(b)

-----------------------------------------------------------------------------
(* What a step may do to the library: it grows at its end, and an image    *)
(* keeps its name and its maker, and never comes back.                     *)
LibStep ==
  /\ images' \in Seq(Image)
  /\ Len(images) <= Len(images')
  /\ \A i \in DOMAIN images :
       /\ images'[i].name = images[i].name /\ images'[i].by = images[i].by
       /\ images'[i].there => images[i].there

(* What the images there were, or the new ones, are the images there are.  *)
GoneStep ==
  \A i \in DOMAIN images' : ~images'[i].there =>
    i \in DOMAIN images /\ (~images[i].there \/ \E c \in Builds : i \in tried'[c])

LEMMA Appended ==
  ASSUME NEW S, NEW q \in Seq(S), NEW m \in S
  PROVE  /\ Append(q, m) \in Seq(S)
         /\ Len(Append(q, m)) = Len(q) + 1
         /\ \A x \in DOMAIN q : x \in DOMAIN Append(q, m) /\ Append(q, m)[x] = q[x]
         /\ DOMAIN Append(q, m) = DOMAIN q \cup {Len(q) + 1}
         /\ Append(q, m)[Len(q) + 1] = m
         /\ Len(q) + 1 \notin DOMAIN q
OBVIOUS

LEMMA DomainOf ==
  ASSUME NEW S, NEW q \in Seq(S)
  PROVE  DOMAIN q = 1 .. Len(q) /\ Len(q) \in Nat
OBVIOUS

LEMMA LibUnchanged ==
  ASSUME OutputsTypeOK, UNCHANGED images
  PROVE  LibStep /\ GoneStep
BY DEF OutputsTypeOK, LibStep, GoneStep

LEMMA LibLoses ==
  ASSUME OutputsTypeOK, NEW b \in Builds, NEW i \in DOMAIN images, i \in tried'[b],
         images' = [images EXCEPT ![i].there = FALSE]
  PROVE  LibStep /\ GoneStep /\ ~images'[i].there /\ Len(images') = Len(images)
<1>1. images \in Seq(Image) /\ images[i] \in Image
  BY DEF OutputsTypeOK
<1>2. [images[i] EXCEPT !.there = FALSE] \in Image
  BY <1>1 DEF Image
<1>3. /\ images' \in Seq(Image)
      /\ Len(images') = Len(images)
      /\ DOMAIN images' = DOMAIN images
      /\ images'[i] = [images[i] EXCEPT !.there = FALSE]
      /\ \A j \in DOMAIN images : j # i => images'[j] = images[j]
  BY <1>1, <1>2
<1>4. /\ images'[i].name = images[i].name /\ images'[i].by = images[i].by
      /\ ~images'[i].there
  BY <1>1, <1>3 DEF Image
<1>5. Len(images) \in Nat
  BY <1>1
<1> QED
  BY <1>3, <1>4, <1>5 DEF LibStep, GoneStep

LEMMA LibGrows ==
  ASSUME OutputsTypeOK, NEW m \in Image, m.there, images' = Append(images, m)
  PROVE  /\ LibStep /\ GoneStep
         /\ Len(images') = Len(images) + 1 /\ Len(images') \in DOMAIN images'
         /\ images'[Len(images')] = m /\ Len(images') \notin DOMAIN images
<1>1. images \in Seq(Image) /\ Len(images) \in Nat
  BY DEF OutputsTypeOK
<1>2. /\ images' \in Seq(Image)
      /\ Len(images') = Len(images) + 1
      /\ \A x \in DOMAIN images : images'[x] = images[x]
      /\ DOMAIN images' = DOMAIN images \cup {Len(images) + 1}
      /\ images'[Len(images) + 1] = m
      /\ Len(images) + 1 \notin DOMAIN images
  BY <1>1, Appended
<1> QED
  BY <1>1, <1>2 DEF LibStep, GoneStep

(* The images that are gone: a step adds only those it has tried to delete.*)
LEMMA GoneKeeps ==
  ASSUME GoneOnes, GoneStep, \A c \in Builds : tried[c] \subseteq tried'[c]
  PROVE  GoneOnes'
BY DEF GoneOnes, GoneStep

LEMMA ListingType ==
  ASSUME OutputsTypeOK, NEW b \in Builds
  PROVE  /\ listed[b] \in Seq(Listing)
         /\ \A d \in DOMAIN listed[b] : listed[b][d].upto \in Nat
<1>1. listed[b] \in Seq(Listing)
  BY DEF OutputsTypeOK
<1>2. \A d \in DOMAIN listed[b] : listed[b][d] \in Listing
  BY <1>1
<1> QED
  BY <1>1, <1>2 DEF Listing

(* A build that does nothing keeps its invariant, whatever the others do   *)
(* to the library.                                                         *)
LEMMA OthersKeep ==
  ASSUME OutputsTypeOK, LibStep, NEW c \in Builds, BuildInv(c),
         conf' = conf, pc'[c] = pc[c], disk'[c] = disk[c], listed'[c] = listed[c],
         made'[c] = made[c], tried'[c] = tried[c], ok'[c] = ok[c]
  PROVE  BuildInv(c)'
<1>1. /\ images \in Seq(Image) /\ images' \in Seq(Image)
      /\ Len(images) \in Nat /\ Len(images') \in Nat /\ Len(images) <= Len(images')
      /\ DOMAIN images = 1 .. Len(images) /\ DOMAIN images' = 1 .. Len(images')
  BY DomainOf DEF OutputsTypeOK, LibStep
<1>2. /\ DOMAIN images \subseteq DOMAIN images'
      /\ \A i \in DOMAIN images :
           /\ images'[i].name = images[i].name /\ images'[i].by = images[i].by
           /\ images'[i].there => images[i].there
  BY <1>1 DEF LibStep
<1>3. Counted(c)'
  BY DEF BuildInv, Counted
<1>4. MadeOnes(c)'
  BY <1>2 DEF BuildInv, MadeOnes, NameOf
<1>5. TriedOnes(c)'
  <2> SUFFICES ASSUME NEW i \in tried[c]
               PROVE  i \in DOMAIN images' /\ (ReplacedBy(c, i)' \/ CleanedUpBy(c, i)')
    BY DEF TriedOnes
  <2>1. i \in DOMAIN images /\ (ReplacedBy(c, i) \/ CleanedUpBy(c, i))
    BY DEF BuildInv, TriedOnes
  <2>2. CASE ReplacedBy(c, i)
    BY <1>2, <2>1, <2>2 DEF ReplacedBy, IsMine, NameOf
  <2>3. CASE CleanedUpBy(c, i)
    BY <1>2, <2>1, <2>3 DEF CleanedUpBy, IsMine
  <2> QED
    BY <1>2, <2>1, <2>2, <2>3
<1>6. /\ listed[c] \in Seq(Listing)
      /\ \A d \in DOMAIN listed[c] : listed[c][d].upto \in Nat
  BY ListingType
<1>7. Listings(c)'
  BY <1>1, <1>2, <1>6 DEF BuildInv, Listings, NameOf
<1>8. \A d \in DOMAIN listed[c] : \A i \in DOMAIN images' :
        i <= listed[c][d].upto => i \in DOMAIN images
  BY <1>1, <1>6 DEF BuildInv, Listings
<1>9. /\ pc[c] \in {"delete", "create"} /\ conf[c].existing # "ignore"
           => disk[c] \in DOMAIN listed[c]
      /\ conf[c].existing # "ignore" => DOMAIN made[c] \subseteq DOMAIN listed[c]
  <2>1. /\ disk[c] \in Nat /\ disk[c] >= 1
        /\ Len(made[c]) \in Nat /\ DOMAIN made[c] = 1 .. Len(made[c])
        /\ Len(listed[c]) \in Nat /\ DOMAIN listed[c] = 1 .. Len(listed[c])
    BY <1>6, DomainOf DEF OutputsTypeOK, Disk
  <2> QED
    BY <2>1 DEF BuildInv, Counted
<1>10. AboutToDelete(c)'
  <2> SUFFICES ASSUME pc[c] = "delete" PROVE AboutToDelete(c)'
    BY DEF AboutToDelete
  <2>1. conf[c].existing = "replace"
    BY DEF BuildInv, AboutToDelete
  <2>2. disk[c] \in DOMAIN listed[c]
    BY <1>9, <2>1
  <2> QED
    BY <1>2, <1>8, <2>1, <2>2 DEF BuildInv, AboutToDelete, NameOf
<1>11. LookedAt(c)'
  <2>1. ASSUME NEW d \in DOMAIN listed[c], Looked(c, d) PROVE Looked(c, d)'
    BY <1>2, <1>8, <2>1 DEF Looked, NameOf
  <2> QED
    BY <1>9, <2>1 DEF BuildInv, LookedAt
<1> QED
  BY <1>3, <1>4, <1>5, <1>7, <1>10, <1>11 DEF BuildInv

-----------------------------------------------------------------------------
(* The library alone does not change, or the build goes on without it.     *)
LEMMA Types ==
  ASSUME OutputsTypeOK, NEW b \in Builds
  PROVE  /\ images \in Seq(Image) /\ Len(images) \in Nat /\ DOMAIN images = 1 .. Len(images)
         /\ disk[b] \in Nat /\ disk[b] >= 1
         /\ made[b] \in Seq(Nat) /\ Len(made[b]) \in Nat /\ DOMAIN made[b] = 1 .. Len(made[b])
         /\ listed[b] \in Seq(Listing) /\ Len(listed[b]) \in Nat
         /\ DOMAIN listed[b] = 1 .. Len(listed[b])
         /\ tried[b] \subseteq Nat
         /\ conf[b] \in Conf
<1>1. /\ images \in Seq(Image) /\ made[b] \in Seq(Nat) /\ listed[b] \in Seq(Listing)
      /\ disk[b] \in Disk /\ tried[b] \subseteq Nat
  BY DEF OutputsTypeOK
<1>2. conf[b] \in Conf
  BY ScenariosAssumption DEF OutputsTypeOK
<1> QED
  BY <1>1, <1>2, DomainOf DEF Disk

(* A build that ends or starts to clean up, without a call.                *)
LEMMA MovesKeep ==
  ASSUME OutputsTypeOK, NEW b \in Builds, BuildInv(b),
         UNCHANGED <<conf, images, listed, made, tried>>,
         ok'[b] => ok[b],
         \/ pc'[b] = "done" /\ disk'[b] = disk[b] /\ (ok'[b] => pc[b] # "create")
         \/ pc[b] = "saved" /\ pc'[b] = "cleanup"
         \/ pc[b] = "list" /\ conf[b].existing = "ignore" /\ pc'[b] = "create"
              /\ disk'[b] = disk[b]
  PROVE  BuildInv(b)'
<1>1. Counted(b)' /\ MadeOnes(b)'
  BY DEF BuildInv, Counted, MadeOnes, NameOf
<1>2. TriedOnes(b)'
  BY DEF BuildInv, TriedOnes, ReplacedBy, CleanedUpBy, IsMine, NameOf
<1>3. Listings(b)' /\ AboutToDelete(b)' /\ LookedAt(b)'
  BY DEF BuildInv, Listings, AboutToDelete, LookedAt, Looked, NameOf
<1> QED
  BY <1>1, <1>2, <1>3 DEF BuildInv

-----------------------------------------------------------------------------
(* What is common to the actions: the acting build keeps its invariant, so *)
(* do the others, and the images that are gone are accounted for.          *)
Acts(b) ==
  /\ conf' = conf
  /\ \A c \in Builds \ {b} :
       /\ pc'[c] = pc[c] /\ disk'[c] = disk[c] /\ listed'[c] = listed[c]
       /\ made'[c] = made[c] /\ tried'[c] = tried[c] /\ ok'[c] = ok[c]

LEMMA ActKeeps ==
  ASSUME IInv, NEW b \in Builds, OutputsTypeOK', Acts(b), LibStep, GoneStep,
         tried[b] \subseteq tried'[b], BuildInv(b)'
  PROVE  IInv'
<1>1. \A c \in Builds : BuildInv(c)'
  BY OthersKeep DEF IInv, Acts
<1>2. GoneOnes'
  BY GoneKeeps DEF IInv, Acts
<1> QED
  BY <1>1, <1>2 DEF IInv

LEMMA SkipListKeeps ==
  ASSUME IInv, NEW b \in Builds, SkipList(b)
  PROVE  IInv'
<1>1. OutputsTypeOK'
  BY DEF IInv, OutputsTypeOK, SkipList, Goto
<1>2. BuildInv(b)'
  BY MovesKeep DEF IInv, OutputsTypeOK, SkipList, Goto
<1>3. Acts(b) /\ LibStep /\ GoneStep /\ tried[b] \subseteq tried'[b]
  BY LibUnchanged DEF IInv, OutputsTypeOK, SkipList, Goto, Acts
<1> QED
  BY <1>1, <1>2, <1>3, ActKeeps

LEMMA FinishKeeps ==
  ASSUME IInv, NEW b \in Builds, Finish(b) \/ StepFails(b)
  PROVE  IInv'
<1> USE DEF Finish, StepFails, StartCleanup, Goto
<1>1. OutputsTypeOK'
  <2>1. ok' \in [Builds -> BOOLEAN]
    BY DEF IInv, OutputsTypeOK
  <2>2. disk' \in [Builds -> Disk]
    <3>1. 1 \in Disk
      BY DEF Disk
    <3>2. disk \in [Builds -> Disk] /\ disk' = [disk EXCEPT ![b] = 1]
      BY DEF IInv, OutputsTypeOK
    <3> QED
      BY <3>1, <3>2
  <2>3. pc' \in [Builds -> {"list", "delete", "create", "saved", "cleanup", "done"}]
    BY DEF IInv, OutputsTypeOK
  <2> QED
    BY <2>1, <2>2, <2>3 DEF IInv, OutputsTypeOK
<1>2. BuildInv(b)'
  <2>1. /\ pc[b] = "saved" /\ pc'[b] = "cleanup" /\ (ok'[b] => ok[b])
        /\ UNCHANGED <<conf, images, listed, made, tried>>
    BY DEF IInv, OutputsTypeOK
  <2> QED
    BY <2>1, MovesKeep DEF IInv
<1>3. Acts(b) /\ LibStep /\ GoneStep /\ tried[b] \subseteq tried'[b]
  BY LibUnchanged DEF IInv, OutputsTypeOK, Acts
<1> QED
  BY <1>1, <1>2, <1>3, ActKeeps

-----------------------------------------------------------------------------
(* The listing.                                                            *)
LEMMA FoundType ==
  ASSUME OutputsTypeOK, NEW b \in Builds
  PROVE  /\ Found(disk[b]) \subseteq DOMAIN images
         /\ IsFiniteSet(Found(disk[b])) /\ Cardinality(Found(disk[b])) \in Nat
         /\ [upto |-> Len(images), found |-> Found(disk[b])] \in Listing
<1>1. Found(disk[b]) \subseteq 1 .. Len(images) /\ Len(images) \in Nat
  BY Types DEF Found
<1>2. IsFiniteSet(1 .. Len(images))
  BY <1>1, FS_Interval
<1>3. IsFiniteSet(Found(disk[b]))
  BY <1>1, <1>2, FS_Subset
<1> QED
  BY <1>1, <1>3, FS_CardinalityType, Types DEF Listing

(* After it neither rejected nor replaced, an old image can be there only  *)
(* if it was one of several that were to be replaced.                      *)
LEMMA NeitherRejectedNorReplaced ==
  ASSUME OutputsTypeOK, NEW b \in Builds, conf[b].existing # "ignore",
         ~Rejects(b, Found(disk[b])), ~Replaces(b, Found(disk[b])),
         NEW i \in Found(disk[b])
  PROVE  conf[b].existing = "replace" /\ Cardinality(Found(disk[b])) > 1
<1>1. conf[b].existing \in {"ignore", "replace", "fail"}
  BY Types DEF Conf
<1>2. conf[b].existing = "replace"
  BY <1>1 DEF Rejects
<1>3. Cardinality(Found(disk[b])) # 1
  BY <1>2 DEF Replaces
<1>4. Cardinality(Found(disk[b])) # 0 /\ Cardinality(Found(disk[b])) \in Nat
  BY FoundType, FS_EmptySet
<1> QED
  BY <1>2, <1>3, <1>4

LEMMA ListImagesKeeps ==
  ASSUME IInv, NEW b \in Builds, ListImages(b)
  PROVE  IInv'
<1> DEFINE old == Found(disk[b])
           entry == [upto |-> Len(images), found |-> old]
<1>1. /\ pc[b] = "list" /\ conf[b].existing # "ignore"
      /\ UNCHANGED <<conf, images, disk, made, tried>>
      /\ OutputsTypeOK /\ BuildInv(b)
  BY DEF ListImages, IInv
<1>2. CASE Fail(b) /\ UNCHANGED listed
  <2>1. OutputsTypeOK'
    BY <1>1, <1>2 DEF OutputsTypeOK, Fail, Goto
  <2>2. BuildInv(b)'
    BY <1>1, <1>2, MovesKeep DEF OutputsTypeOK, Fail, Goto
  <2>3. Acts(b) /\ LibStep /\ GoneStep /\ tried[b] \subseteq tried'[b]
    BY <1>1, <1>2, LibUnchanged DEF OutputsTypeOK, Fail, Goto, Acts
  <2> QED
    BY <2>1, <2>2, <2>3, ActKeeps
<1>3. CASE /\ listed' = [listed EXCEPT ![b] = Append(@, entry)]
           /\ \/ Rejects(b, old) /\ Fail(b)
              \/ Replaces(b, old) /\ Goto(b, "delete") /\ UNCHANGED ok
              \/ ~Rejects(b, old) /\ ~Replaces(b, old) /\ Goto(b, "create") /\ UNCHANGED ok
  <2>1. /\ entry \in Listing /\ entry.upto = Len(images) /\ entry.found = old
        /\ listed[b] \in Seq(Listing) /\ listed'[b] = Append(listed[b], entry)
    BY <1>1, <1>3, FoundType, Types DEF OutputsTypeOK
  <2>2. /\ Len(listed[b]) = disk[b] - 1 /\ Len(made[b]) = disk[b] - 1
        /\ disk[b] \in Nat /\ disk[b] >= 1
        /\ DOMAIN made[b] \subseteq DOMAIN listed[b]
    BY <1>1, Types DEF BuildInv, Counted
  <2>3. /\ listed'[b] \in Seq(Listing)
        /\ Len(listed'[b]) = disk[b]
        /\ \A d \in DOMAIN listed[b] : d \in DOMAIN listed'[b] /\ listed'[b][d] = listed[b][d]
        /\ DOMAIN listed'[b] = DOMAIN listed[b] \cup {disk[b]}
        /\ listed'[b][disk[b]] = entry
    BY <2>1, <2>2, Appended
  <2>4. OutputsTypeOK' /\ Acts(b)
    BY <1>1, <1>3, <2>1, <2>3 DEF OutputsTypeOK, Fail, Goto, Acts
  <2>5. Counted(b)'
    BY <1>1, <1>3, <2>2, <2>3 DEF Counted, Fail, Goto, OutputsTypeOK
  <2>6. MadeOnes(b)' /\ TriedOnes(b)'
    BY <1>1, <1>3 DEF BuildInv, MadeOnes, TriedOnes, ReplacedBy, CleanedUpBy, IsMine, NameOf,
                      Fail, Goto, OutputsTypeOK
  <2>7. Listings(b)'
    <3>1. \A i \in old : i \in DOMAIN images /\ images[i].name = NameOf(disk[b])
      BY DEF Found
    <3> QED
      BY <1>1, <2>1, <2>3, <3>1, Types DEF BuildInv, Listings, NameOf
  <2>8. AboutToDelete(b)'
    <3> SUFFICES ASSUME pc'[b] = "delete" PROVE AboutToDelete(b)'
      BY DEF AboutToDelete
    <3>1. Replaces(b, old)
      BY <1>1, <1>3 DEF Fail, Goto, OutputsTypeOK
    <3>2. conf[b].existing = "replace" /\ Cardinality(old) = 1
      BY <3>1 DEF Replaces
    <3> QED
      BY <1>1, <2>1, <2>3, <3>2 DEF AboutToDelete, Found, NameOf
  <2>9. LookedAt(b)'
    <3>1. \A d \in DOMAIN made[b] : Looked(b, d)'
      BY <1>1, <2>2, <2>3 DEF BuildInv, LookedAt, Looked, NameOf
    <3>2. ASSUME pc'[b] = "create" PROVE Looked(b, disk[b])'
      <4>1. ~Rejects(b, old) /\ ~Replaces(b, old)
        BY <1>1, <1>3, <3>2 DEF Fail, Goto, OutputsTypeOK
      <4>2. \A i \in DOMAIN images : images[i].there /\ images[i].name = NameOf(disk[b])
              => i \in old
        BY DEF Found
      <4> QED
        BY <1>1, <2>1, <2>3, <4>1, <4>2, NeitherRejectedNorReplaced DEF Looked, NameOf
    <3> QED
      BY <1>1, <3>1, <3>2 DEF LookedAt
  <2>10. LibStep /\ GoneStep /\ tried[b] \subseteq tried'[b]
    BY <1>1, LibUnchanged
  <2> QED
    BY <2>4, <2>5, <2>6, <2>7, <2>8, <2>9, <2>10, ActKeeps DEF BuildInv
<1> QED
  BY <1>2, <1>3 DEF ListImages

-----------------------------------------------------------------------------
(* The image to be replaced is deleted, or is not.                         *)
LEMMA DeleteOldKeeps ==
  ASSUME IInv, NEW b \in Builds, DeleteOld(b)
  PROVE  IInv'
<1>1. PICK i \in listed[b][Len(listed[b])].found :
        \/ Delete(b, i) /\ Goto(b, "create") /\ UNCHANGED ok
        \/ DeleteFails(b, i) /\ Fail(b)
  BY DEF DeleteOld
<1>2. /\ pc[b] = "delete" /\ UNCHANGED <<conf, disk, listed, made>>
      /\ OutputsTypeOK /\ BuildInv(b)
  BY DEF DeleteOld, IInv
<1>3. /\ conf[b].existing = "replace"
      /\ Len(made[b]) = disk[b] - 1 /\ Len(listed[b]) = disk[b]
      /\ disk[b] \in DOMAIN listed[b] /\ disk[b] \in Nat /\ disk[b] >= 1
      /\ DOMAIN made[b] = 1 .. disk[b] - 1
  BY <1>2, Types DEF BuildInv, Counted, AboutToDelete
<1>4. /\ i \in listed[b][disk[b]].found /\ i \in DOMAIN images
      /\ images[i].name = NameOf(disk[b])
  BY <1>2, <1>3 DEF BuildInv, Listings
<1>5. ~IsMine(b, i)
  <2> SUFFICES ASSUME NEW k \in DOMAIN made[b], made[b][k] = i PROVE FALSE
    BY DEF IsMine
  <2>1. images[i].name = NameOf(k)
    BY <1>2 DEF BuildInv, MadeOnes
  <2> QED
    BY <1>3, <1>4, <2>1 DEF NameOf
<1>6. /\ tried' = [tried EXCEPT ![b] = @ \cup {i}]
      /\ tried'[b] = tried[b] \cup {i}
      /\ images' = images \/ images' = [images EXCEPT ![i].there = FALSE]
  BY <1>1, <1>2 DEF Delete, DeleteFails, OutputsTypeOK
<1>7. LibStep /\ GoneStep /\ Len(images') = Len(images)
  BY <1>2, <1>4, <1>6, LibUnchanged, LibLoses
<1>8. OutputsTypeOK' /\ Acts(b)
  <2>1. i \in Nat
    BY <1>2, <1>4, Types
  <2>2. tried' \in [Builds -> SUBSET Nat]
    BY <1>2, <1>6, <2>1 DEF OutputsTypeOK
  <2> QED
    BY <1>1, <1>2, <1>6, <1>7, <2>2 DEF OutputsTypeOK, LibStep, Goto, Fail, Acts
<1>9. /\ DOMAIN images' = DOMAIN images
      /\ \A j \in DOMAIN images :
           images'[j].name = images[j].name /\ images'[j].by = images[j].by
           /\ (images'[j].there => images[j].there)
  BY <1>2, <1>7, <1>8, DomainOf DEF OutputsTypeOK, LibStep
<1>10. Counted(b)' /\ MadeOnes(b)' /\ Listings(b)'
  <2>1. pc'[b] \in {"create", "done"}
    BY <1>1, <1>2 DEF Goto, Fail, OutputsTypeOK
  <2>2. Counted(b)'
    BY <1>2, <1>3, <2>1 DEF Counted
  <2>3. MadeOnes(b) /\ Listings(b)
    BY <1>2 DEF BuildInv
  <2>4. MadeOnes(b)'
    <3> SUFFICES ASSUME NEW k \in DOMAIN made[b]
                 PROVE  /\ made[b][k] \in DOMAIN images'
                        /\ images'[made[b][k]].name = NameOf(k)
                        /\ images'[made[b][k]].by = b
      BY <1>2 DEF MadeOnes, NameOf
    <3>1. /\ made[b][k] \in DOMAIN images
          /\ images[made[b][k]].name = NameOf(k) /\ images[made[b][k]].by = b
      BY <2>3 DEF MadeOnes
    <3> QED
      BY <1>9, <3>1
  <2>5. Listings(b)'
    <3> SUFFICES ASSUME NEW d \in DOMAIN listed[b]
                 PROVE  /\ listed[b][d].upto <= Len(images')
                        /\ \A j \in listed[b][d].found :
                             j \in DOMAIN images' /\ images'[j].name = NameOf(d)
      BY <1>2 DEF Listings, NameOf
    <3>1. /\ listed[b][d].upto <= Len(images)
          /\ \A j \in listed[b][d].found : j \in DOMAIN images /\ images[j].name = NameOf(d)
      BY <2>3 DEF Listings
    <3> QED
      BY <1>7, <1>9, <3>1
  <2> QED
    BY <2>2, <2>4, <2>5
<1>11. TriedOnes(b)'
  <2>1. pc'[b] \in {"create", "done"} /\ (ok'[b] => ok[b] /\ pc'[b] = "create")
    BY <1>1, <1>2 DEF Goto, Fail, OutputsTypeOK
  <2>2. ReplacedBy(b, i)'
    BY <1>2, <1>3, <1>4, <1>5, <1>9, <2>1 DEF ReplacedBy, IsMine, NameOf
  <2>3. ASSUME NEW j \in tried[b] PROVE j \in DOMAIN images' /\ ReplacedBy(b, j)'
    BY <1>2, <1>9, <2>1 DEF BuildInv, TriedOnes, ReplacedBy, CleanedUpBy, IsMine, NameOf
  <2> QED
    BY <1>4, <1>6, <1>9, <2>2, <2>3 DEF TriedOnes
<1>12. AboutToDelete(b)'
  BY <1>1, <1>2 DEF AboutToDelete, Goto, Fail, OutputsTypeOK
<1>13. LookedAt(b)'
  <2>1. \A d \in DOMAIN made[b] : Looked(b, d)'
    BY <1>2, <1>3, <1>9 DEF BuildInv, LookedAt, Looked, NameOf
  <2>2. ASSUME pc'[b] = "create" PROVE Looked(b, disk[b])'
    <3>1. Delete(b, i)
      BY <1>1, <1>2, <2>2 DEF Fail, Goto, OutputsTypeOK
    <3>2. ~images'[i].there
      BY <1>2, <1>4, <1>6, <3>1, LibLoses DEF Delete
    <3>3. \A j \in listed[b][disk[b]].found : j = i
      <4>1. listed[b][disk[b]].found \subseteq 1 .. Len(images) /\ Len(images) \in Nat
        BY <1>2, <1>3, Types DEF BuildInv, Listings
      <4>2. IsFiniteSet(listed[b][disk[b]].found)
        <5>1. IsFiniteSet(1 .. Len(images))
          BY <4>1, FS_Interval
        <5> QED
          BY <4>1, <5>1, FS_Subset
      <4>3. Cardinality(listed[b][disk[b]].found) = 1
        BY <1>2 DEF BuildInv, AboutToDelete
      <4> QED
        BY <1>4, <4>2, <4>3, FS_Singleton
    <3>4. \A j \in DOMAIN images :
            j <= listed[b][disk[b]].upto /\ images[j].there /\ images[j].name = NameOf(disk[b])
              => j = i
      BY <1>2, <3>3 DEF BuildInv, AboutToDelete
    <3> QED
      BY <1>2, <1>9, <3>2, <3>4 DEF Looked, NameOf
  <2> QED
    BY <1>2, <2>1, <2>2 DEF LookedAt
<1> QED
  BY <1>6, <1>7, <1>8, <1>10, <1>11, <1>12, <1>13, ActKeeps DEF BuildInv

-----------------------------------------------------------------------------
(* The image of the disk is created, or is not.                            *)
LEMMA CreateImageKeeps ==
  ASSUME IInv, NEW b \in Builds, CreateImage(b)
  PROVE  IInv'
<1> DEFINE m == [name |-> NameOf(disk[b]), by |-> b, there |-> TRUE]
           new == Append(images, m)
<1>1. /\ pc[b] = "create" /\ UNCHANGED <<conf, listed, tried>>
      /\ OutputsTypeOK /\ BuildInv(b)
  BY DEF CreateImage, IInv
<1>2. /\ disk[b] \in Nat /\ disk[b] >= 1 /\ Len(images) \in Nat
      /\ Len(made[b]) = disk[b] - 1 /\ DOMAIN made[b] = 1 .. disk[b] - 1
      /\ made[b] \in Seq(Nat)
  BY <1>1, Types DEF BuildInv, Counted
<1>3. m \in Image /\ m.there /\ m.name = disk[b] /\ m.by = b
  BY <1>2 DEF Image, NameOf, Disk
<1>4. ASSUME images' = new
      PROVE  /\ LibStep /\ GoneStep
             /\ Len(images') = Len(images) + 1 /\ Len(images') \in DOMAIN images'
             /\ images'[Len(images')] = m /\ Len(images') \notin DOMAIN images
  BY <1>1, <1>3, <1>4, LibGrows
<1>5. LibStep /\ GoneStep
  <2>1. CASE UNCHANGED images
    BY <1>1, <2>1, LibUnchanged
  <2>2. CASE images' = new
    BY <1>4, <2>2
  <2> QED
    BY <2>1, <2>2 DEF CreateImage
<1>6. /\ DOMAIN images \subseteq DOMAIN images'
      /\ DOMAIN images = 1 .. Len(images) /\ DOMAIN images' = 1 .. Len(images')
      /\ Len(images') \in Nat /\ Len(images) <= Len(images')
      /\ \A j \in DOMAIN images :
           images'[j].name = images[j].name /\ images'[j].by = images[j].by
           /\ (images'[j].there => images[j].there)
  BY <1>1, <1>5, DomainOf, Types DEF LibStep
<1>7. Listings(b)'
  <2>1. \A d \in DOMAIN listed[b] : listed[b][d].upto \in Nat
    BY <1>1, ListingType
  <2> QED
    BY <1>1, <1>6, <2>1 DEF BuildInv, Listings, NameOf
<1>8. \A d \in DOMAIN listed[b] : \A j \in DOMAIN images' :
        j <= listed[b][d].upto => j \in DOMAIN images
  <2>1. \A d \in DOMAIN listed[b] : listed[b][d].upto \in Nat
    BY <1>1, ListingType
  <2> QED
    BY <1>1, <1>6, <2>1 DEF BuildInv, Listings
<1>9. ASSUME NEW d \in DOMAIN listed[b], Looked(b, d)
      PROVE  Looked(b, d)'
  BY <1>1, <1>6, <1>8, <1>9 DEF Looked, NameOf
<1>10. conf[b].existing # "ignore" => 1 .. disk[b] \subseteq DOMAIN listed[b]
  BY <1>1, <1>2, Types DEF BuildInv, Counted
<1>11. CASE /\ images' = new
            /\ made' = [made EXCEPT ![b] = Append(@, Len(new))]
            /\ IF disk[b] < conf[b].disks
               THEN Goto(b, "list") /\ disk' = [disk EXCEPT ![b] = @ + 1]
               ELSE Goto(b, "saved") /\ UNCHANGED disk
            /\ UNCHANGED ok
  <2>1. /\ Len(new) = Len(images') /\ Len(new) \in Nat
        /\ made'[b] = Append(made[b], Len(new))
    BY <1>1, <1>6, <1>11 DEF OutputsTypeOK
  <2>2. /\ made'[b] \in Seq(Nat) /\ Len(made'[b]) = disk[b]
        /\ DOMAIN made'[b] = 1 .. disk[b]
        /\ made'[b][disk[b]] = Len(images')
        /\ \A k \in DOMAIN made[b] : k \in DOMAIN made'[b] /\ made'[b][k] = made[b][k]
    BY <1>2, <2>1, Appended, DomainOf
  <2>3. pc' = [pc EXCEPT ![b] = pc'[b]] /\ pc'[b] \in {"list", "saved"}
    BY <1>1, <1>11 DEF OutputsTypeOK, Goto
  <2>4. OutputsTypeOK' /\ Acts(b)
    <3>1. disk' \in [Builds -> Disk]
      <4>1. disk[b] + 1 \in Disk
        BY <1>2 DEF Disk
      <4> QED
        BY <1>1, <1>11, <4>1 DEF OutputsTypeOK
    <3>2. made' \in [Builds -> Seq(Nat)]
      BY <1>1, <1>11, <2>1, <2>2 DEF OutputsTypeOK
    <3>3. images' \in Seq(Image)
      BY <1>5 DEF LibStep
    <3>4. pc' \in [Builds -> {"list", "delete", "create", "saved", "cleanup", "done"}]
      BY <1>1, <2>3 DEF OutputsTypeOK
    <3>5. \A c \in Builds \ {b} : pc'[c] = pc[c] /\ disk'[c] = disk[c] /\ made'[c] = made[c]
      BY <1>1, <1>11, <2>3 DEF OutputsTypeOK
    <3> QED
      BY <1>1, <1>11, <3>1, <3>2, <3>3, <3>4, <3>5 DEF OutputsTypeOK, Acts
  <2>5. Counted(b)'
    <3>1. pc'[b] = "list" => disk'[b] = disk[b] + 1
      BY <1>1, <1>11 DEF OutputsTypeOK, Goto
    <3>2. Counted(b)
      BY <1>1 DEF BuildInv
    <3>3. conf[b].existing # "ignore" => Len(listed[b]) = disk[b]
      BY <1>1, <1>2, <3>2 DEF Counted
    <3>4. pc'[b] = "list" => Len(made'[b]) = disk'[b] - 1
      BY <1>2, <2>2, <3>1
    <3>5. conf'[b].existing # "ignore" => Len(listed'[b]) = Len(made'[b])
      BY <1>1, <2>2, <3>3
    <3>6. Len(made'[b]) >= Len(made'[b])
      BY <1>2, <2>2
    <3> QED
      BY <2>3, <3>4, <3>5, <3>6 DEF Counted
  <2>6. MadeOnes(b)'
    <3>1. ASSUME NEW k \in DOMAIN made'[b]
          PROVE  /\ made'[b][k] \in DOMAIN images'
                 /\ images'[made'[b][k]].name = k /\ images'[made'[b][k]].by = b
      <4>1. CASE k = disk[b]
        BY <1>3, <1>4, <1>11, <2>2, <4>1
      <4>2. CASE k \in DOMAIN made[b]
        <5>1. /\ made[b][k] \in DOMAIN images
              /\ images[made[b][k]].name = k /\ images[made[b][k]].by = b
          BY <1>1, <4>2 DEF BuildInv, MadeOnes, NameOf
        <5>2. made'[b][k] = made[b][k]
          BY <2>2, <4>2
        <5> QED
          BY <1>6, <5>1, <5>2
      <4> QED
        BY <1>2, <2>2, <3>1, <4>1, <4>2
    <3> QED
      BY <3>1 DEF MadeOnes, NameOf
  <2>7. TriedOnes(b)'
    <3> SUFFICES ASSUME NEW i \in tried[b]
                 PROVE  i \in DOMAIN images' /\ ReplacedBy(b, i)'
      BY <1>1 DEF TriedOnes
    <3>1. i \in DOMAIN images /\ ReplacedBy(b, i)
      BY <1>1 DEF BuildInv, TriedOnes, CleanedUpBy
    <3>2. ~IsMine(b, i)'
      BY <1>2, <1>4, <1>11, <2>2, <3>1 DEF ReplacedBy, IsMine
    <3>3. Len(images') > i
      BY <1>4, <1>6, <1>11, <3>1
    <3>4. ok[b] => \E j \in DOMAIN images' : j > i /\ images'[j].name = images'[i].name
      <4>1. CASE images[i].name = NameOf(disk[b])
        BY <1>3, <1>4, <1>6, <1>11, <3>1, <3>3, <4>1 DEF NameOf
      <4>2. CASE \E j \in DOMAIN images : j > i /\ images[j].name = images[i].name
        BY <1>6, <3>1, <4>2
      <4> QED
        BY <3>1, <4>1, <4>2 DEF ReplacedBy
    <3> QED
      BY <1>1, <1>6, <1>11, <3>1, <3>2, <3>4 DEF ReplacedBy
  <2>8. AboutToDelete(b)'
    BY <2>3 DEF AboutToDelete
  <2>9. LookedAt(b)'
    <3>1. conf[b].existing # "ignore" => \A d \in 1 .. disk[b] : Looked(b, d)
      BY <1>1, <1>2 DEF BuildInv, LookedAt
    <3>2. conf[b].existing # "ignore" => \A d \in 1 .. disk[b] : Looked(b, d)'
      BY <1>9, <1>10, <3>1
    <3> QED
      BY <1>1, <2>2, <2>3, <3>2 DEF LookedAt
  <2> QED
    BY <1>1, <1>5, <1>7, <2>4, <2>5, <2>6, <2>7, <2>8, <2>9, ActKeeps DEF BuildInv
<1>12. CASE images' \in {images, new} /\ Fail(b) /\ UNCHANGED <<made, disk>>
  <2>1. pc'[b] = "done" /\ ok'[b] = FALSE
    BY <1>1, <1>12 DEF OutputsTypeOK, Fail, Goto
  <2>2. OutputsTypeOK' /\ Acts(b)
    <3>1. images' \in Seq(Image)
      BY <1>5 DEF LibStep
    <3>2. ok' \in [Builds -> BOOLEAN]
      BY <1>1, <1>12 DEF OutputsTypeOK, Fail
    <3> QED
      BY <1>1, <1>12, <3>1, <3>2 DEF OutputsTypeOK, Fail, Goto, Acts
  <2>3. Counted(b)' /\ MadeOnes(b)' /\ AboutToDelete(b)'
    <3>1. Counted(b)' /\ AboutToDelete(b)'
      BY <1>1, <1>12, <2>1 DEF BuildInv, Counted, AboutToDelete
    <3>2. MadeOnes(b)'
      BY <1>1, <1>6, <1>12 DEF BuildInv, MadeOnes, NameOf
    <3> QED
      BY <3>1, <3>2
  <2>4. TriedOnes(b)'
    BY <1>1, <1>6, <1>12, <2>1 DEF BuildInv, TriedOnes, ReplacedBy, CleanedUpBy, IsMine
  <2>5. LookedAt(b)'
    <3> SUFFICES ASSUME conf[b].existing # "ignore", NEW d \in DOMAIN made[b]
                 PROVE  Looked(b, d)'
      BY <1>1, <1>12, <2>1 DEF LookedAt
    <3>1. Looked(b, d)
      BY <1>1 DEF BuildInv, LookedAt
    <3>2. d \in DOMAIN listed[b]
      BY <1>2, <1>10
    <3> QED
      BY <1>9, <3>1, <3>2
  <2> QED
    BY <1>1, <1>5, <1>7, <2>2, <2>3, <2>4, <2>5, ActKeeps DEF BuildInv
<1> QED
  BY <1>11, <1>12 DEF CreateImage

-----------------------------------------------------------------------------
(* The cleanup deletes an image the build has made, or does not.           *)
LEMMA CleanupKeeps ==
  ASSUME IInv, NEW b \in Builds, Cleanup(b)
  PROVE  IInv'
<1>1. /\ pc[b] = "cleanup" /\ UNCHANGED <<conf, listed, made, ok>>
      /\ OutputsTypeOK /\ BuildInv(b)
  BY DEF Cleanup, IInv
<1>2. CASE Goto(b, "done") /\ UNCHANGED <<images, disk, tried>>
  <2>1. OutputsTypeOK' /\ Acts(b)
    BY <1>1, <1>2 DEF OutputsTypeOK, Goto, Acts
  <2>2. BuildInv(b)'
    BY <1>1, <1>2, MovesKeep DEF OutputsTypeOK, Goto
  <2>3. LibStep /\ GoneStep
    BY <1>1, <1>2, LibUnchanged
  <2> QED
    BY <1>2, <2>1, <2>2, <2>3, ActKeeps
<1>3. CASE /\ DeletesOutputs(b) /\ disk[b] <= Len(made[b])
           /\ \/ /\ Delete(b, made[b][disk[b]])
                 /\ disk' = [disk EXCEPT ![b] = @ + 1]
                 /\ UNCHANGED pc
              \/ /\ DeleteFails(b, made[b][disk[b]])
                 /\ Goto(b, "done")
                 /\ UNCHANGED disk
  <2>0. PICK i : i = made[b][disk[b]]
    OBVIOUS
  <2>1. /\ disk[b] \in DOMAIN made[b] /\ i \in DOMAIN images /\ i \in Nat /\ IsMine(b, i)
    <3>1. disk[b] \in DOMAIN made[b]
      BY <1>1, <1>3, Types
    <3> QED
      BY <1>1, <2>0, <3>1, Types DEF BuildInv, MadeOnes, IsMine
  <2>2. /\ tried' = [tried EXCEPT ![b] = @ \cup {i}]
        /\ tried'[b] = tried[b] \cup {i}
        /\ images' = images \/ images' = [images EXCEPT ![i].there = FALSE]
    BY <1>1, <1>3, <2>0 DEF Delete, DeleteFails, OutputsTypeOK
  <2>3. LibStep /\ GoneStep /\ Len(images') = Len(images)
    BY <1>1, <2>1, <2>2, LibUnchanged, LibLoses
  <2>4. /\ DOMAIN images' = DOMAIN images
        /\ \A j \in DOMAIN images :
             images'[j].name = images[j].name /\ images'[j].by = images[j].by
             /\ (images'[j].there => images[j].there)
    BY <1>1, <2>3, DomainOf DEF OutputsTypeOK, LibStep
  <2>5. pc'[b] \in {"cleanup", "done"}
    BY <1>1, <1>3 DEF OutputsTypeOK, Goto
  <2>6. OutputsTypeOK' /\ Acts(b)
    <3>1. tried' \in [Builds -> SUBSET Nat]
      BY <1>1, <2>1, <2>2 DEF OutputsTypeOK
    <3>2. disk' \in [Builds -> Disk]
      <4>1. disk[b] + 1 \in Disk
        BY <1>1, Types DEF Disk
      <4> QED
        BY <1>1, <1>3, <4>1 DEF OutputsTypeOK
    <3>3. images' \in Seq(Image)
      BY <2>3 DEF LibStep
    <3>4. pc' \in [Builds -> {"list", "delete", "create", "saved", "cleanup", "done"}]
      BY <1>1, <1>3 DEF OutputsTypeOK, Goto
    <3>5. \A c \in Builds \ {b} : pc'[c] = pc[c] /\ disk'[c] = disk[c] /\ tried'[c] = tried[c]
      BY <1>1, <1>3, <2>2 DEF OutputsTypeOK, Goto
    <3> QED
      BY <1>1, <3>1, <3>2, <3>3, <3>4, <3>5 DEF OutputsTypeOK, Acts
  <2>7. Counted(b)' /\ AboutToDelete(b)' /\ MadeOnes(b)' /\ Listings(b)'
    <3>1. Counted(b)' /\ AboutToDelete(b)'
      BY <1>1, <2>5 DEF BuildInv, Counted, AboutToDelete
    <3>2. MadeOnes(b)' /\ Listings(b)'
      BY <1>1, <2>3, <2>4 DEF BuildInv, MadeOnes, Listings, NameOf
    <3> QED
      BY <3>1, <3>2
  <2>8. TriedOnes(b)'
    <3>1. CleanedUpBy(b, i)'
      BY <1>1, <1>3, <2>1, <2>5 DEF CleanedUpBy, IsMine, DeletesOutputs
    <3>2. ASSUME NEW j \in tried[b]
          PROVE  j \in DOMAIN images' /\ (ReplacedBy(b, j)' \/ CleanedUpBy(b, j)')
      BY <1>1, <2>4, <2>5 DEF BuildInv, TriedOnes, ReplacedBy, CleanedUpBy, IsMine
    <3> QED
      BY <2>1, <2>2, <2>4, <3>1, <3>2 DEF TriedOnes
  <2>9. LookedAt(b)'
    BY <1>1, <2>4, <2>5 DEF BuildInv, LookedAt, Looked, NameOf
  <2> QED
    BY <2>2, <2>3, <2>6, <2>7, <2>8, <2>9, ActKeeps DEF BuildInv
<1> QED
  BY <1>2, <1>3 DEF Cleanup

-----------------------------------------------------------------------------
LEMMA IInvInit == Init => IInv
<1> SUFFICES ASSUME Init PROVE IInv
  OBVIOUS
<1>1. images \in Seq(Image) /\ \A i \in DOMAIN images : images[i].there
  BY LibrariesAssumption DEF Init
<1>2. OutputsTypeOK
  BY <1>1 DEF Init, OutputsTypeOK, Disk
<1>3. GoneOnes
  BY <1>1 DEF GoneOnes
<1>4. ASSUME NEW b \in Builds PROVE BuildInv(b)
  <2>1. /\ pc[b] = "list" /\ disk[b] = 1 /\ listed[b] = << >> /\ made[b] = << >>
        /\ tried[b] = {}
    BY DEF Init
  <2> QED
    BY <2>1 DEF BuildInv, Counted, MadeOnes, TriedOnes, Listings, AboutToDelete, LookedAt
<1> QED
  BY <1>2, <1>3, <1>4 DEF IInv

LEMMA IInvStep == IInv /\ [Next]_vars => IInv'
<1>1. CASE UNCHANGED vars
  <2>1. ASSUME IInv PROVE IInv'
    BY <1>1, <2>1 DEF vars, IInv, OutputsTypeOK, GoneOnes, BuildInv, Counted, MadeOnes, TriedOnes,
                      ReplacedBy, CleanedUpBy, IsMine, Listings, AboutToDelete, LookedAt, Looked,
                      NameOf
  <2> QED
    BY <2>1
<1>2. CASE Next
  BY <1>2, SkipListKeeps, ListImagesKeeps, DeleteOldKeeps, CreateImageKeeps, FinishKeeps,
     CleanupKeeps DEF Next, Save
<1> QED
  BY <1>1, <1>2

(* The invariant holds whatever the builds do to each other's images.      *)
THEOREM OutputsInvariant == Spec => []IInv
BY IInvInit, IInvStep, PTL DEF Spec

(* Every variable of the library and of the builds keeps its type.         *)
THEOREM OutputsTypeCorrect == Spec => []OutputsTypeOK
<1>1. IInv => OutputsTypeOK
  BY DEF IInv
<1> QED
  BY <1>1, OutputsInvariant, PTL

-----------------------------------------------------------------------------
(* A build loses an image it has made only by its own cleanup, if it was   *)
(* told to delete its images, or to another build with force_deregister.   *)
LEMMA InvOwnOutputStays == IInv => OwnOutputStays
<1> SUFFICES ASSUME IInv, NEW b \in Builds, NEW k \in DOMAIN made[b],
                    ~images[made[b][k]].there
             PROVE  \/ conf[b].del /\ pc[b] \in {"cleanup", "done"}
                    \/ \E c \in Builds \ {b} :
                         conf[c].existing = "replace" /\ made[b][k] \in tried[c]
  BY DEF OwnOutputStays
<1> DEFINE i == made[b][k]
<1>1. i \in DOMAIN images /\ images[i].by = b /\ IsMine(b, i)
  BY DEF IInv, BuildInv, MadeOnes, IsMine
<1>2. PICK c \in Builds : i \in tried[c]
  BY <1>1 DEF IInv, GoneOnes
<1>3. ReplacedBy(c, i) \/ CleanedUpBy(c, i)
  BY <1>2 DEF IInv, BuildInv, TriedOnes
<1>4. CASE ReplacedBy(c, i)
  BY <1>1, <1>2, <1>4 DEF ReplacedBy
<1>5. CASE CleanedUpBy(c, i)
  <2>1. images[i].by = c
    BY <1>5 DEF CleanedUpBy, IsMine, IInv, BuildInv, MadeOnes
  <2> QED
    BY <1>1, <1>5, <2>1 DEF CleanedUpBy
<1> QED
  BY <1>3, <1>4, <1>5

THEOREM OwnOutputsStay == Spec => []OwnOutputStays
BY InvOwnOutputStays, OutputsInvariant, PTL

(* Next to a build's image there is an older one of the name only if the   *)
(* build did not look, looked before it was created, or, with              *)
(* force_deregister, found several.                                        *)
LEMMA InvOlderCopyExplained == IInv => OlderCopyExplained
<1> SUFFICES ASSUME IInv, NEW b \in Builds, conf[b].existing # "ignore",
                    NEW d \in DOMAIN made[b], NEW i \in 1 .. made[b][d] - 1,
                    images[i].there, images[i].name = images[made[b][d]].name
             PROVE  \/ i > listed[b][d].upto
                    \/ conf[b].existing = "replace" /\ Cardinality(listed[b][d].found) > 1
  BY DEF OlderCopyExplained
<1>1. made[b][d] \in DOMAIN images /\ images[made[b][d]].name = NameOf(d) /\ Looked(b, d)
  BY DEF IInv, BuildInv, MadeOnes, LookedAt
<1>2. i \in DOMAIN images /\ i \in Nat
  BY <1>1, Types DEF IInv
<1>3. d \in DOMAIN listed[b]
  BY Types DEF IInv, BuildInv, Counted
<1>4. listed[b][d].upto \in Nat
  BY <1>3, ListingType DEF IInv
<1> QED
  BY <1>1, <1>2, <1>4 DEF Looked

THEOREM OlderCopiesExplained == Spec => []OlderCopyExplained
BY InvOlderCopyExplained, OutputsInvariant, PTL

(* When no build has failed and all are over, the image created last under *)
(* each name is there, unless its own build was told to delete it.         *)
LEMMA InvLastWriterStays == IInv => LastWriterStays
<1> SUFFICES ASSUME IInv, \A b \in Builds : pc[b] = "done" /\ ok[b],
                    NEW b \in Builds, NEW k \in DOMAIN made[b],
                    ~images[made[b][k]].there
             PROVE  \/ conf[b].del
                    \/ \E j \in DOMAIN images :
                         j > made[b][k] /\ images[j].name = images[made[b][k]].name
  BY DEF LastWriterStays
<1> DEFINE i == made[b][k]
<1>1. i \in DOMAIN images /\ images[i].by = b
  BY DEF IInv, BuildInv, MadeOnes
<1>2. PICK c \in Builds : i \in tried[c]
  BY <1>1 DEF IInv, GoneOnes
<1>3. ReplacedBy(c, i) \/ CleanedUpBy(c, i)
  BY <1>2 DEF IInv, BuildInv, TriedOnes
<1>4. CASE ReplacedBy(c, i)
  BY <1>4 DEF ReplacedBy
<1>5. CASE CleanedUpBy(c, i)
  BY <1>1, <1>5 DEF CleanedUpBy, IsMine, IInv, BuildInv, MadeOnes
<1> QED
  BY <1>3, <1>4, <1>5

THEOREM LastWriterKept == Spec => []LastWriterStays
BY InvLastWriterStays, OutputsInvariant, PTL

=============================================================================
