------------------------- MODULE SourceImagesProofs -------------------------
(***************************************************************************)
(* Proofs about module SourceImages, for any number of builds, whatever    *)
(* they are configured to do and whatever the library holds before.        *)
(***************************************************************************)
EXTENDS SourceImages, FiniteSetTheorems, TLAPS

(* The library only grows at its end, and an image keeps all but two of    *)
(* its fields for ever.                                                    *)
LEMMA NewImageType ==
  ASSUME NEW b \in Builds, NEW u \in Uris \cup {None}, NEW s \in Sums \cup {None},
         NEW r \in BOOLEAN
  PROVE  NewImage(b, u, s, r) \in Image
BY DEF NewImage, Image

LEMMA Appended ==
  ASSUME NEW S, NEW q \in Seq(S), NEW m \in S
  PROVE  /\ Append(q, m) \in Seq(S)
         /\ Len(Append(q, m)) = Len(q) + 1
         /\ DOMAIN q \subseteq DOMAIN Append(q, m)
         /\ \A x \in DOMAIN q : Append(q, m)[x] = q[x]
         /\ DOMAIN Append(q, m) = DOMAIN q \cup {Len(q) + 1}
         /\ Append(q, m)[Len(q) + 1] = m
         /\ Len(q) + 1 \notin DOMAIN q
OBVIOUS

(* What a step may do to the library: it grows, or an image disappears     *)
(* that a build has passed to DeleteImage.                                 *)
LibStep ==
  /\ images' \in Seq(Image)
  /\ Len(images) <= Len(images')
  /\ \A x \in DOMAIN images' : ~images'[x].there =>
       x \in DOMAIN images /\ (~images[x].there \/ \E c \in Builds : x \in tried'[c])

LEMMA LibUnchanged ==
  ASSUME TypeOK, UNCHANGED images
  PROVE  LibStep
BY DEF TypeOK, LibStep

LEMMA LibAppend ==
  ASSUME TypeOK, NEW m \in Image, m.there, images' = Append(images, m)
  PROVE  /\ LibStep
         /\ Len(images') = Len(images) + 1
<1>1. images \in Seq(Image)
  BY DEF TypeOK
<1>2. /\ images' \in Seq(Image)
      /\ Len(images') = Len(images) + 1
      /\ DOMAIN images' = DOMAIN images \cup {Len(images) + 1}
      /\ \A x \in DOMAIN images : images'[x] = images[x]
      /\ images'[Len(images) + 1] = m
  BY <1>1, Appended
<1>3. Len(images) \in Nat
  BY <1>1
<1> QED
  BY <1>2, <1>3 DEF LibStep

(* An image of the library is replaced by another, at the same place.      *)
LEMMA LibReplace ==
  ASSUME TypeOK, NEW x \in DOMAIN images, NEW m \in Image,
         images' = [images EXCEPT ![x] = m],
         m.there \/ ~images[x].there \/ \E c \in Builds : x \in tried'[c]
  PROVE  /\ LibStep
         /\ Len(images') = Len(images)
<1>1. images \in Seq(Image)
  BY DEF TypeOK
<1>2. /\ images' \in Seq(Image)
      /\ Len(images') = Len(images)
      /\ DOMAIN images' = DOMAIN images
  BY <1>1
<1>3. /\ images'[x] = m
      /\ \A y \in DOMAIN images : y # x => images'[y] = images[y]
  BY <1>1
<1>4. Len(images) \in Nat
  BY <1>1
<1> QED
  BY <1>2, <1>3, <1>4 DEF LibStep

LEMMA LibReady ==
  ASSUME TypeOK, NEW x \in DOMAIN images, BecomesReady(x)
  PROVE  /\ LibStep
         /\ Len(images') = Len(images)
<1> DEFINE m == [images[x] EXCEPT !.ready = TRUE]
<1>1. images[x] \in Image
  BY DEF TypeOK
<1>2. m \in Image /\ m.there = images[x].there
  BY <1>1 DEF Image
<1>3. images' = [images EXCEPT ![x] = m]
  BY DEF BecomesReady
<1>4. images[x].there
  BY DEF BecomesReady
<1> HIDE DEF m
<1> QED
  BY <1>2, <1>3, <1>4, LibReplace

LEMMA LibDelete ==
  ASSUME TypeOK, NEW b \in Builds, NEW x \in DOMAIN images, DeleteImage(b, x)
  PROVE  /\ LibStep
         /\ Len(images') = Len(images)
<1> DEFINE m == [images[x] EXCEPT !.there = FALSE]
<1>1. images[x] \in Image
  BY DEF TypeOK
<1>2. m \in Image
  BY <1>1 DEF Image
<1>3. x \in tried'[b]
  BY DEF DeleteImage, TypeOK
<1>4. CASE images' = [images EXCEPT ![x].there = FALSE]
  <2>1. images' = [images EXCEPT ![x] = m]
    BY <1>4
  <2> HIDE DEF m
  <2> QED
    BY <1>2, <1>3, <2>1, LibReplace
<1>5. CASE UNCHANGED images
  BY <1>5, LibUnchanged
<1> QED
  BY <1>4, <1>5 DEF DeleteImage

-----------------------------------------------------------------------------
(* What the lookups return is in the library.                              *)
LEMMA LookupsInLibrary ==
  ASSUME NEW c
  PROVE  /\ FindImageByName(c) \subseteq DOMAIN images
         /\ SourceImageExists(c) \subseteq {0} \cup DOMAIN images
<1>1. ASSUME NEW S \in SUBSET (DOMAIN images)
      PROVE  Newest(S) \subseteq DOMAIN images /\ Only(c, S) \subseteq DOMAIN images
  BY <1>1 DEF Newest, Only
<1>2. /\ Library \in SUBSET (DOMAIN images)
      /\ {x \in Library : images[x].ready} \in SUBSET (DOMAIN images)
      /\ NameMatched(c) \in SUBSET (DOMAIN images)
      /\ UrlMatched(c) \in SUBSET (DOMAIN images)
  BY DEF Library, NameMatched, UrlMatched
<1> QED
  BY <1>1, <1>2 DEF FindImageByName, NewestReady, SourceImageExists

LEMMA StayInit == Init => StayInv
<1> SUFFICES ASSUME Init PROVE StayInv
  OBVIOUS
<1>1. /\ images \in Seq(Image)
      /\ \A x \in DOMAIN images : images[x].there
  <2>1. images \in Seq({m \in Image : m.by = None /\ m.there})
    BY LibrariesAssumption DEF Init
  <2> QED
    BY <2>1
<1>2. TypeOK
  <2>1. Len(images) \in Nat
    BY <1>1
  <2> QED
    BY <1>1, <2>1 DEF Init, TypeOK, Location
<1>3. Deletions /\ Picks
  BY <1>1 DEF Init, Deletions, Picks
<1> QED
  BY <1>2, <1>3 DEF StayInv

(* A step of one build, or of Prism Central, that respects the library and *)
(* leaves the locals of the others alone keeps the invariant if it does so *)
(* for the build itself.                                                   *)
LEMMA LocalStep ==
  ASSUME StayInv, LibStep, NEW b \in Builds,
         NEW l \in Location, NEW p \in 0..Len(images'), NEW t \in SUBSET (DOMAIN images'),
         UNCHANGED conf,
         pc' = [pc EXCEPT ![b] = l],
         pick' = [pick EXCEPT ![b] = p],
         tried' = [tried EXCEPT ![b] = t],
         tried[b] \subseteq t,
         t # {} => conf[b].del \/ conf[b].force,
         l \in {"start", "lookup", "recreate"} => t = {},
         l = "recreate" => p # 0 /\ conf[b].force,
         l \in {"verify", "bind", "clone", "build", "cleanup"} => p # 0 /\ p \notin t
  PROVE  StayInv'
<1> USE DEF StayInv, TypeOK
<1>1. images' \in Seq(Image) /\ DOMAIN images \subseteq DOMAIN images' /\ Len(images) <= Len(images')
  BY DEF LibStep
<1>2. 0..Len(images) \subseteq 0..Len(images')
  BY <1>1
<1>3. TypeOK'
  <2>1. pc' \in [Builds -> Location]
    OBVIOUS
  <2>2. pick' \in [Builds -> 0..Len(images')]
    BY <1>2
  <2>3. tried' \in [Builds -> SUBSET (DOMAIN images')]
    BY <1>1
  <2> QED
    BY <1>1, <2>1, <2>2, <2>3
<1>4. \A c \in Builds : tried[c] \subseteq tried'[c]
  OBVIOUS
<1>5. Deletions'
  <2>1. ASSUME NEW x \in DOMAIN images', ~images'[x].there
        PROVE  \E c \in Builds : x \in tried'[c]
    BY <1>4, <2>1 DEF LibStep, Deletions
  <2>2. \A c \in Builds : tried'[c] # {} => conf'[c].del \/ conf'[c].force
    BY DEF Deletions
  <2> QED
    BY <2>1, <2>2 DEF Deletions
<1>6. Picks'
  <2> SUFFICES ASSUME NEW c \in Builds
               PROVE  /\ pc'[c] \in {"start", "lookup", "recreate"} => tried'[c] = {}
                      /\ pc'[c] = "recreate" => pick'[c] # 0 /\ conf'[c].force
                      /\ pc'[c] \in {"verify", "bind", "clone", "build", "cleanup"} =>
                           pick'[c] # 0 /\ pick'[c] \notin tried'[c]
    BY DEF Picks
  <2>1. CASE c = b
    BY <2>1
  <2>2. CASE c # b
    BY <2>2 DEF Picks
  <2> QED
    BY <2>1, <2>2
<1> QED
  BY <1>3, <1>5, <1>6

(* A step that leaves the library alone, or lets it grow, deletes nothing. *)
LEMMA QuietStep ==
  ASSUME StayInv, LibStep, NEW b \in Builds, NEW l \in Location, NEW p \in 0..Len(images'),
         UNCHANGED <<conf, tried>>,
         pc' = [pc EXCEPT ![b] = l],
         pick' = [pick EXCEPT ![b] = p],
         l \in {"start", "lookup", "recreate"} => tried[b] = {},
         l = "recreate" => p # 0 /\ conf[b].force,
         l \in {"verify", "bind", "clone", "build", "cleanup"} => p # 0 /\ p \notin tried[b]
  PROVE  StayInv'
<1>1. /\ tried[b] \in SUBSET (DOMAIN images')
      /\ tried' = [tried EXCEPT ![b] = tried[b]]
  BY DEF StayInv, TypeOK, LibStep
<1>2. tried[b] # {} => conf[b].del \/ conf[b].force
  BY DEF StayInv, Deletions
<1> QED
  BY <1>1, <1>2, LocalStep

LEMMA Failing ==
  ASSUME StayInv, LibStep, NEW b \in Builds, Fail(b)
  PROVE  StayInv'
<1>1. /\ pick[b] \in 0..Len(images')
      /\ pick' = [pick EXCEPT ![b] = pick[b]]
  BY DEF StayInv, TypeOK, LibStep, Fail
<1>2. "failed" \in Location
  BY DEF Location
<1> QED
  BY <1>1, <1>2, QuietStep DEF Fail, Goto

LEMMA DeletingStep ==
  ASSUME StayInv, NEW b \in Builds, NEW l \in {"create", "done"},
         pick[b] # 0, conf[b].del \/ conf[b].force,
         DeleteImage(b, pick[b]), Goto(b, l), UNCHANGED <<conf, pick>>
  PROVE  StayInv'
<1>1. TypeOK
  BY DEF StayInv
<1>2. pick[b] \in DOMAIN images
  BY <1>1 DEF TypeOK
<1>3. LibStep /\ Len(images') = Len(images)
  BY <1>1, <1>2, LibDelete
<1>4. /\ pick[b] \in 0..Len(images')
      /\ pick' = [pick EXCEPT ![b] = pick[b]]
      /\ tried[b] \cup {pick[b]} \in SUBSET (DOMAIN images')
  BY <1>1, <1>2, <1>3 DEF TypeOK, LibStep
<1>5. l \in Location
  BY DEF Location
<1> DEFINE t == tried[b] \cup {pick[b]}
<1>6. t \in SUBSET (DOMAIN images') /\ tried[b] \subseteq t /\ tried' = [tried EXCEPT ![b] = t]
  BY <1>4 DEF DeleteImage
<1>7. pc' = [pc EXCEPT ![b] = l] /\ UNCHANGED conf
  BY DEF Goto
<1> HIDE DEF t
<1> QED
  BY <1>3, <1>4, <1>5, <1>6, <1>7, LocalStep

(* A build that creates an image, or uploads one.                          *)
LEMMA NewStep ==
  ASSUME StayInv, NEW b \in Builds, NEW u \in Uris \cup {None}, NEW r \in BOOLEAN,
         images' = Append(images, NewImage(b, u, conf[b].sum, r))
                     \/ images' = Append(images, NewImage(b, None, None, r))
  PROVE  LibStep /\ Len(images') = Len(images) + 1
<1>1. conf[b].sum \in Sums \cup {None}
  BY ConfsAssumption DEF StayInv, TypeOK, Conf
<1>2. /\ NewImage(b, u, conf[b].sum, r) \in Image
      /\ NewImage(b, None, None, r) \in Image
  BY <1>1, NewImageType
<1>3. /\ NewImage(b, u, conf[b].sum, r).there
      /\ NewImage(b, None, None, r).there
  BY DEF NewImage
<1> QED
  BY <1>2, <1>3, LibAppend DEF StayInv

LEMMA StayNext == StayInv /\ [Next]_vars => StayInv'
<1> SUFFICES ASSUME StayInv, [Next]_vars PROVE StayInv'
  OBVIOUS
<1>0. TypeOK
  BY DEF StayInv
<1>l. UNCHANGED images => LibStep /\ Len(images') = Len(images)
  BY <1>0, LibUnchanged
<1>1. ASSUME NEW b \in Builds, Upload(b) PROVE StayInv'
  <2>1. conf[b].uri = None /\ tried[b] = {}
    BY <1>1 DEF Upload, StayInv, Picks
  <2>2. ASSUME NEW r \in BOOLEAN, images' = Append(images, NewImage(b, None, None, r))
        PROVE  LibStep /\ Len(images') = Len(images) + 1
    BY <2>2, NewStep
  <2>3. CASE Fail(b)
    BY <1>1, <1>l, <2>2, <2>3, Failing DEF Upload
  <2>4. CASE Goto(b, "lookup") /\ UNCHANGED <<conf, pick, tried>>
    <3>1. LibStep
      BY <1>1, <1>l, <2>2 DEF Upload
    <3>2. /\ pick[b] \in 0..Len(images')
          /\ pick' = [pick EXCEPT ![b] = pick[b]]
      BY <1>0, <2>4, <3>1 DEF TypeOK, LibStep
    <3> QED
      BY <2>1, <2>4, <3>1, <3>2, QuietStep DEF Goto, Location
  <2> QED
    BY <1>1, <2>3, <2>4 DEF Upload
<1>2. ASSUME NEW b \in Builds, LookUpUploaded(b) PROVE StayInv'
  <2>1. LibStep /\ Len(images') = Len(images) /\ tried[b] = {}
    BY <1>2, <1>l DEF LookUpUploaded, Fail, StayInv, Picks
  <2>2. CASE Fail(b)
    BY <2>1, <2>2, Failing
  <2>3. ASSUME NEW x \in FindImageByName(conf[b]),
               pick' = [pick EXCEPT ![b] = x], Goto(b, "bind"), UNCHANGED <<conf, images, tried>>
        PROVE  StayInv'
    <3>1. x \in 0..Len(images') /\ x # 0
      BY <1>0, <2>1, LookupsInLibrary DEF TypeOK
    <3> QED
      BY <2>1, <2>3, <3>1, QuietStep DEF Goto, Location
  <2> QED
    BY <1>2, <2>2, <2>3 DEF LookUpUploaded
<1>3. ASSUME NEW b \in Builds, FindSource(b) PROVE StayInv'
  <2>1. LibStep /\ Len(images') = Len(images) /\ tried[b] = {}
    BY <1>3, <1>l DEF FindSource, Fail, StayInv, Picks
  <2>2. CASE Fail(b)
    BY <2>1, <2>2, Failing
  <2>3. ASSUME NEW x \in SourceImageExists(conf[b]),
               pick' = [pick EXCEPT ![b] = x],
               Goto(b, IF x = 0 THEN "create" ELSE IF Recreates(conf[b]) THEN "recreate" ELSE "bind"),
               UNCHANGED <<conf, images, tried>>
        PROVE  StayInv'
    <3>1. x \in 0..Len(images')
      BY <1>0, <2>1, LookupsInLibrary DEF TypeOK
    <3> DEFINE l == IF x = 0 THEN "create" ELSE IF Recreates(conf[b]) THEN "recreate" ELSE "bind"
    <3>2. /\ l \in Location
          /\ l = "recreate" => x # 0 /\ conf[b].force
          /\ l \in {"verify", "bind", "clone", "build", "cleanup"} => x # 0
          /\ pc' = [pc EXCEPT ![b] = l]
      BY <2>3 DEF Location, Recreates, Goto
    <3> HIDE DEF l
    <3> QED
      BY <2>1, <2>3, <3>1, <3>2, QuietStep
  <2> QED
    BY <1>3, <2>2, <2>3 DEF FindSource
<1>4. ASSUME NEW b \in Builds, DeleteExisting(b) PROVE StayInv'
  BY <1>4, DeletingStep DEF DeleteExisting, StayInv, Picks
<1>5. ASSUME NEW b \in Builds, CreateImage(b) PROVE StayInv'
  <2>1. conf[b].uri \in Uris \cup {None}
    BY <1>0, ConfsAssumption DEF TypeOK, Conf
  <2>2. ASSUME NEW u \in {None, conf[b].uri}, NEW r \in BOOLEAN,
               images' = Append(images, NewImage(b, u, conf[b].sum, r))
        PROVE  LibStep /\ Len(images') = Len(images) + 1
    BY <2>1, <2>2, NewStep
  <2>3. CASE Fail(b)
    BY <1>5, <1>l, <2>2, <2>3, Failing DEF CreateImage
  <2>4. CASE /\ pick' = [pick EXCEPT ![b] = Created(b)]
             /\ Goto(b, "verify") /\ UNCHANGED <<conf, tried>>
             /\ \E u \in {None, conf[b].uri}, r \in BOOLEAN :
                  images' = Append(images, NewImage(b, u, conf[b].sum, r))
    <3>1. LibStep /\ Len(images') = Len(images) + 1
      BY <2>2, <2>4
    <3>2. Created(b) \in 0..Len(images') /\ Created(b) # 0 /\ Created(b) \notin tried[b]
      BY <1>0, <3>1 DEF Created, TypeOK
    <3> QED
      BY <2>4, <3>1, <3>2, QuietStep DEF Goto, Location
  <2> QED
    BY <1>5, <2>3, <2>4 DEF CreateImage
<1>6. ASSUME NEW b \in Builds, VerifyImage(b) \/ BindImage(b) \/ CloneImage(b) \/ FinishBuild(b)
      PROVE  StayInv'
  <2>1. LibStep /\ Len(images') = Len(images)
    BY <1>6, <1>l DEF VerifyImage, BindImage, CloneImage, FinishBuild
  <2>2. CASE Fail(b)
    BY <2>1, <2>2, Failing
  <2>3. ASSUME NEW l \in {"bind", "clone", "build", "cleanup"},
               Goto(b, l), UNCHANGED <<conf, pick, tried>>,
               pc[b] \in {"verify", "bind", "clone", "build"}
        PROVE  StayInv'
    <3>1. pick[b] # 0 /\ pick[b] \notin tried[b]
      BY <2>3 DEF StayInv, Picks
    <3>2. pick[b] \in 0..Len(images') /\ pick' = [pick EXCEPT ![b] = pick[b]]
      BY <1>0, <2>1, <2>3 DEF TypeOK
    <3>3. l \in Location /\ l \notin {"start", "lookup", "recreate"} /\ pc' = [pc EXCEPT ![b] = l]
      BY <2>3 DEF Location, Goto
    <3> QED
      BY <2>1, <2>3, <3>1, <3>2, <3>3, QuietStep
  <2> QED
    BY <1>6, <2>2, <2>3 DEF VerifyImage, BindImage, CloneImage, FinishBuild
<1>7. ASSUME NEW b \in Builds, CleanUp(b) PROVE StayInv'
  <2>1. pick[b] # 0
    BY <1>7 DEF CleanUp, StayInv, Picks
  <2>2. CASE DeletesPick(conf[b])
    BY <1>7, <2>1, <2>2, DeletingStep DEF CleanUp, DeletesPick
  <2>3. CASE ~DeletesPick(conf[b])
    <3>1. LibStep /\ Len(images') = Len(images)
      BY <1>7, <1>l, <2>3 DEF CleanUp
    <3>2. pick[b] \in 0..Len(images') /\ pick' = [pick EXCEPT ![b] = pick[b]]
      BY <1>0, <1>7, <3>1 DEF TypeOK, CleanUp
    <3> QED
      BY <1>7, <2>3, <3>1, <3>2, QuietStep DEF CleanUp, Goto, Location
  <2> QED
    BY <2>2, <2>3
<1>8. ASSUME NEW x \in DOMAIN images, BecomesReady(x) PROVE StayInv'
  <2>1. LibStep /\ Len(images') = Len(images)
    BY <1>0, <1>8, LibReady
  <2>2. UNCHANGED <<conf, pc, pick, tried>>
    BY <1>8 DEF BecomesReady
  <2>3. DOMAIN images' = DOMAIN images
    BY <1>0, <2>1 DEF TypeOK, LibStep
  <2>4. TypeOK'
    BY <1>0, <2>1, <2>2, <2>3 DEF TypeOK, LibStep
  <2>5. Deletions'
    BY <2>1, <2>2, <2>3 DEF StayInv, Deletions, LibStep
  <2>6. Picks'
    BY <2>2 DEF StayInv, Picks
  <2> QED
    BY <2>4, <2>5, <2>6 DEF StayInv
<1>9. CASE UNCHANGED vars
  BY <1>9 DEF vars, StayInv, TypeOK, Deletions, Picks
<1> QED
  BY <1>1, <1>2, <1>3, <1>4, <1>5, <1>6, <1>7, <1>8, <1>9 DEF Next

(* A build may count on the image it picked until its VM is made of it,    *)
(* unless another build was told to delete or replace source images.       *)
THEOREM PickedStays == Spec => []PickedImageStays
<1>1. StayInv => PickedImageStays
  <2> SUFFICES ASSUME StayInv, NEW b \in Builds, pc[b] \in Using, ~images[pick[b]].there
               PROVE  \E c \in Builds \ {b} : pick[b] \in tried[c] /\ (conf[c].del \/ conf[c].force)
    BY DEF PickedImageStays
  <2>1. pick[b] # 0 /\ pick[b] \notin tried[b]
    BY DEF StayInv, Picks, Using
  <2>2. pick[b] \in DOMAIN images
    BY <2>1 DEF StayInv, TypeOK
  <2>3. PICK c \in Builds : pick[b] \in tried[c]
    BY <2>2 DEF StayInv, Deletions
  <2> QED
    BY <2>1, <2>3 DEF StayInv, Deletions
<1> QED
  BY <1>1, StayInit, StayNext, PTL DEF Spec

(* Every variable of the model keeps its type.                             *)
THEOREM ImagesTypeCorrect == Spec => []TypeOK
<1>1. StayInv => TypeOK
  BY DEF StayInv
<1> QED
  BY <1>1, StayInit, StayNext, PTL DEF Spec

-----------------------------------------------------------------------------
(* Whose images a build picks, deletes and leaves.                         *)

\* The image picked is not known to have another checksum.
SumInv(b) ==
  /\ pc[b] = "lookup" => conf[b].uri = None
  /\ pc[b] \in Using \cup {"verify", "build"} /\ conf[b].uri # None /\ conf[b].sum # None =>
       images[pick[b]].sum \in {None, conf[b].sum}

\* Builds that only upload, and tolerate no duplicate, keep to their own.
ApartInv(b) ==
  Strict =>
    /\ pick[b] # 0 => images[pick[b]].by = b
    /\ \A x \in tried[b] : images[x].by = b
    /\ pc[b] = "lookup" => \E x \in DOMAIN images : images[x].by = b

\* A build makes its only image before it picks one, and then picks it.
OwnInv(b) ==
  ~conf[b].dup =>
    /\ pc[b] \in {"start", "recreate", "create"} => \A x \in DOMAIN images : images[x].by # b
    /\ pc[b] \in {"verify", "bind", "clone", "build", "cleanup"} =>
         \A x \in Library : images[x].by = b => x = pick[b]
    /\ pc[b] = "done" /\ conf[b].del => \A x \in Library : images[x].by = b => x \in tried[b]

OriginInv == \A b \in Builds : SumInv(b) /\ ApartInv(b) /\ OwnInv(b)

BuildStep(b) ==
  \/ Upload(b) \/ LookUpUploaded(b)
  \/ FindSource(b) \/ DeleteExisting(b) \/ CreateImage(b) \/ VerifyImage(b)
  \/ BindImage(b) \/ CloneImage(b) \/ FinishBuild(b) \/ CleanUp(b)

\* An image is never changed but for its data and its presence.
Lasting ==
  \A x \in DOMAIN images :
    /\ x \in DOMAIN images'
    /\ images'[x].sum = images[x].sum /\ images'[x].by = images[x].by
    /\ images'[x].there => images[x].there

NewBy(b) == \A x \in DOMAIN images' \ DOMAIN images : images'[x].by = b

LEMMA LastingAppend ==
  ASSUME TypeOK, NEW b \in Builds, NEW u, NEW s, NEW r, images' = Append(images, NewImage(b, u, s, r))
  PROVE  Lasting /\ NewBy(b)
<1>1. images \in Seq(Image) /\ Len(images) \in Nat
  BY DEF TypeOK
<1>2. /\ DOMAIN images' = 1..(Len(images) + 1) /\ DOMAIN images = 1..Len(images)
      /\ \A x \in DOMAIN images : images'[x] = images[x]
      /\ images'[Len(images) + 1] = NewImage(b, u, s, r)
  BY <1>1
<1>3. NewImage(b, u, s, r).by = b
  BY DEF NewImage
<1> QED
  BY <1>1, <1>2, <1>3 DEF Lasting, NewBy

LEMMA LastingDelete ==
  ASSUME TypeOK, NEW b, NEW x \in DOMAIN images, DeleteImage(b, x)
  PROVE  Lasting /\ DOMAIN images' = DOMAIN images
<1>1. images \in Seq(Image) /\ images[x] \in Image
  BY DEF TypeOK
<1> QED
  BY <1>1 DEF DeleteImage, Lasting, Image

LEMMA LastingReady ==
  ASSUME TypeOK, NEW x \in DOMAIN images, BecomesReady(x)
  PROVE  Lasting /\ DOMAIN images' = DOMAIN images
<1>1. images \in Seq(Image) /\ images[x] \in Image
  BY DEF TypeOK
<1> QED
  BY <1>1 DEF BecomesReady, Lasting, Image

LEMMA StepEffect ==
  ASSUME StayInv, NEW b \in Builds, BuildStep(b)
  PROVE  /\ Lasting /\ NewBy(b) /\ UNCHANGED conf
         /\ \A c \in Builds \ {b} :
              pc'[c] = pc[c] /\ pick'[c] = pick[c] /\ tried'[c] = tried[c]
<1>0. TypeOK /\ (UNCHANGED images => Lasting /\ NewBy(b))
  BY DEF StayInv, Lasting, NewBy
<1>f. Fail(b) => /\ UNCHANGED conf
                 /\ \A c \in Builds \ {b} :
                      pc'[c] = pc[c] /\ pick'[c] = pick[c] /\ tried'[c] = tried[c]
  BY <1>0 DEF Fail, Goto, TypeOK
<1>1. CASE Upload(b)
  <2>1. Lasting /\ NewBy(b)
    BY <1>0, <1>1, LastingAppend DEF Upload
  <2> QED
    BY <1>0, <1>1, <1>f, <2>1 DEF Upload, Goto, TypeOK
<1>2. CASE LookUpUploaded(b) \/ FindSource(b)
  <2>1. UNCHANGED images
    BY <1>2 DEF LookUpUploaded, FindSource
  <2> QED
    BY <1>0, <1>2, <1>f, <2>1 DEF LookUpUploaded, FindSource, Goto, TypeOK
<1>3. CASE DeleteExisting(b)
  <2>1. pick[b] \in DOMAIN images /\ DeleteImage(b, pick[b])
    BY <1>0, <1>3 DEF DeleteExisting, StayInv, Picks, TypeOK
  <2>2. Lasting /\ DOMAIN images' = DOMAIN images
    BY <1>0, <2>1, LastingDelete
  <2> QED
    BY <1>0, <1>3, <2>1, <2>2 DEF DeleteExisting, DeleteImage, NewBy, Goto, TypeOK
<1>4. CASE CreateImage(b)
  <2>1. Lasting /\ NewBy(b)
    BY <1>0, <1>4, LastingAppend DEF CreateImage
  <2> QED
    BY <1>0, <1>4, <1>f, <2>1 DEF CreateImage, Goto, TypeOK
<1>5. CASE VerifyImage(b) \/ BindImage(b) \/ CloneImage(b) \/ FinishBuild(b)
  <2>1. UNCHANGED images
    BY <1>5 DEF VerifyImage, BindImage, CloneImage, FinishBuild
  <2> QED
    BY <1>0, <1>5, <1>f, <2>1 DEF VerifyImage, BindImage, CloneImage, FinishBuild, Goto, TypeOK
<1>6. CASE CleanUp(b)
  <2>1. pick[b] \in DOMAIN images
    BY <1>0, <1>6 DEF CleanUp, StayInv, Picks, TypeOK
  <2>2. CASE DeletesPick(conf[b])
    <3>1. Lasting /\ DOMAIN images' = DOMAIN images
      BY <1>0, <1>6, <2>1, <2>2, LastingDelete DEF CleanUp
    <3> QED
      BY <1>0, <1>6, <2>2, <3>1 DEF CleanUp, DeleteImage, NewBy, Goto, TypeOK
  <2>3. CASE ~DeletesPick(conf[b])
    BY <1>0, <1>6, <2>3 DEF CleanUp, Goto, TypeOK
  <2> QED
    BY <2>2, <2>3
<1> QED
  BY <1>1, <1>2, <1>3, <1>4, <1>5, <1>6 DEF BuildStep

(* What others do does not disturb a build's part of the invariant: they   *)
(* only add images of their own and remove some.                           *)
LEMMA OthersKeep ==
  ASSUME StayInv, NEW c \in Builds, SumInv(c), ApartInv(c), OwnInv(c),
         Lasting, UNCHANGED conf,
         pc'[c] = pc[c], pick'[c] = pick[c], tried'[c] = tried[c],
         \A x \in DOMAIN images' \ DOMAIN images : images'[x].by # c
  PROVE  SumInv(c)' /\ ApartInv(c)' /\ OwnInv(c)'
<1>1. pick[c] # 0 => pick[c] \in DOMAIN images
  BY DEF StayInv, TypeOK
<1>2. tried[c] \subseteq DOMAIN images
  BY DEF StayInv, TypeOK
<1>3. SumInv(c)'
  BY <1>1 DEF SumInv, Lasting, StayInv, Picks, Using
<1>4. ApartInv(c)'
  BY <1>1, <1>2 DEF ApartInv, Lasting, Strict
<1>5. \A x \in Library' : images'[x].by = c => x \in Library /\ images[x].by = c
  BY DEF Library, Lasting
<1>6. \A x \in DOMAIN images' : images'[x].by = c => x \in DOMAIN images /\ images[x].by = c
  BY DEF Lasting
<1>7. OwnInv(c)'
  BY <1>5, <1>6 DEF OwnInv
<1> QED
  BY <1>3, <1>4, <1>7

\* What a lookup finds when it does not tolerate duplicates.
LEMMA FoundAlone ==
  ASSUME TypeOK, NEW c, ~c.dup, NEW x \in FindImageByName(c)
  PROVE  Library = {x}
<1>1. IsFiniteSet(DOMAIN images)
  BY FS_Interval DEF TypeOK
<1>2. IsFiniteSet(Library)
  BY <1>1, FS_Subset DEF Library
<1>3. Cardinality(Library) = 1 /\ x \in Library
  BY DEF FindImageByName, Tolerates
<1> QED
  BY <1>2, <1>3, FS_Singleton

LEMMA FoundFits ==
  ASSUME NEW c, NEW x \in SourceImageExists(c), x # 0
  PROVE  SumFits(c, images[x])
<1>1. ASSUME NEW S \in SUBSET NameMatched(c), x \in Only(c, S)
      PROVE  x \in NameMatched(c)
  BY <1>1 DEF Only, Newest
<1>2. UrlMatched(c) \in SUBSET NameMatched(c)
  BY DEF UrlMatched
<1>3. x \in NameMatched(c)
  BY <1>1, <1>2 DEF SourceImageExists
<1> QED
  BY <1>3 DEF NameMatched

\* The build that takes the step.
LEMMA OwnStep ==
  ASSUME StayInv, OriginInv, NEW b \in Builds, BuildStep(b)
  PROVE  SumInv(b)' /\ ApartInv(b)' /\ OwnInv(b)'
<1> DEFINE Fitting == SumInv(b)' /\ ApartInv(b)' /\ OwnInv(b)'
<1>0. /\ TypeOK /\ Lasting /\ NewBy(b) /\ UNCHANGED conf
      /\ SumInv(b) /\ ApartInv(b) /\ OwnInv(b) /\ Strict' = Strict
      /\ pick[b] # 0 => pick[b] \in DOMAIN images
      /\ tried[b] \subseteq DOMAIN images
  <2>1. UNCHANGED conf /\ TypeOK
    BY StepEffect DEF StayInv
  <2> QED
    BY <2>1, StepEffect DEF OriginInv, Strict, TypeOK
<1>f. ASSUME Fail(b) PROVE Fitting
  <2>1. pc'[b] = "failed" /\ UNCHANGED <<pick, tried>>
    BY <1>0, <1>f DEF Fail, Goto, TypeOK
  <2>2. SumInv(b)' /\ OwnInv(b)'
    BY <2>1 DEF SumInv, OwnInv, Using
  <2>3. ApartInv(b)'
    BY <1>0, <2>1 DEF ApartInv, Lasting
  <2> QED
    BY <2>2, <2>3
\* Steps that neither pick nor make nor delete.
<1>k. ASSUME UNCHANGED <<images, pick, tried>>,
             NEW l \in {"bind", "clone", "build", "cleanup", "done"}, Goto(b, l),
             pc[b] \in {"verify", "bind", "clone", "build", "cleanup"},
             l \in {"bind", "clone", "build"} => pc[b] \in {"verify", "bind", "clone"},
             l = "done" => ~conf[b].del
      PROVE  Fitting
  <2>1. pc'[b] = l /\ Library' = Library
    BY <1>0, <1>k DEF Goto, TypeOK, Library
  <2>2. SumInv(b)'
    BY <1>0, <1>k, <2>1 DEF SumInv, Using
  <2>3. ApartInv(b)'
    BY <1>0, <1>k, <2>1 DEF ApartInv
  <2>4. OwnInv(b)'
    BY <1>0, <1>k, <2>1 DEF OwnInv
  <2> QED
    BY <2>2, <2>3, <2>4
<1>1. CASE Upload(b) /\ ~Fail(b)
  <2>1. /\ pc'[b] = "lookup" /\ UNCHANGED <<pick, tried>>
        /\ \E r \in BOOLEAN : images' = Append(images, NewImage(b, None, None, r))
    BY <1>0, <1>1 DEF Upload, Goto, TypeOK
  <2>2. Len(images) + 1 \in DOMAIN images' \ DOMAIN images
    BY <1>0, <2>1 DEF TypeOK
  <2>3. ApartInv(b)'
    BY <1>0, <2>1, <2>2 DEF ApartInv, Lasting, NewBy
  <2>4. SumInv(b)' /\ OwnInv(b)'
    BY <1>0, <1>1, <2>1 DEF SumInv, OwnInv, Using, Upload
  <2> QED
    BY <2>3, <2>4
<1>2. CASE LookUpUploaded(b) /\ ~Fail(b)
  <2>1. PICK x \in FindImageByName(conf[b]) :
          /\ pick' = [pick EXCEPT ![b] = x]
          /\ Goto(b, "bind")
          /\ UNCHANGED <<conf, images, tried>>
    BY <1>2 DEF LookUpUploaded
  <2>2. pick'[b] = x /\ pc'[b] = "bind" /\ pc[b] = "lookup" /\ Library' = Library
    BY <1>0, <1>2, <2>1 DEF LookUpUploaded, Goto, TypeOK, Library
  <2>3. ~conf[b].dup => Library = {x}
    BY <1>0, <2>1, FoundAlone
  <2>4. SumInv(b)'
    <3>1. conf[b].uri = None
      BY <1>0, <2>2 DEF SumInv
    <3> QED
      BY <1>0, <3>1 DEF SumInv
  <2>5. OwnInv(b)'
    BY <1>0, <2>2, <2>3 DEF OwnInv
  <2>6. ASSUME Strict PROVE images[x].by = b
    <3>1. PICK y \in DOMAIN images : images[y].by = b
      BY <1>0, <2>2, <2>6 DEF ApartInv
    <3>2. tried[b] = {}
      BY <2>2 DEF StayInv, Picks
    <3>3. \A c \in Builds : y \notin tried[c]
      BY <2>6, <3>1, <3>2 DEF OriginInv, ApartInv
    <3>4. y \in Library
      BY <3>1, <3>3 DEF StayInv, Deletions, Library
    <3> QED
      BY <2>3, <2>6, <3>1, <3>4 DEF Strict
  <2>7. ApartInv(b)'
    BY <1>0, <2>1, <2>2, <2>6 DEF ApartInv
  <2> QED
    BY <2>4, <2>5, <2>7
<1>3. CASE FindSource(b) /\ ~Fail(b)
  <2>1. PICK x \in SourceImageExists(conf[b]) :
          /\ pick' = [pick EXCEPT ![b] = x]
          /\ Goto(b, IF x = 0 THEN "create"
                     ELSE IF Recreates(conf[b]) THEN "recreate" ELSE "bind")
          /\ UNCHANGED <<conf, images, tried>>
    BY <1>3 DEF FindSource
  <2>2. /\ pick'[b] = x /\ pc[b] = "start" /\ Library' = Library
        /\ pc'[b] \in {"create", "recreate"} \/ (pc'[b] = "bind" /\ x # 0)
    BY <1>0, <1>3, <2>1 DEF FindSource, Goto, TypeOK, Library
  <2>3. x # 0 => SumFits(conf[b], images[x])
    BY <2>1, FoundFits
  <2>4. SumInv(b)'
    BY <1>0, <2>1, <2>2, <2>3 DEF SumInv, SumFits, Using
  <2>5. ApartInv(b)'
    BY <1>0, <1>3 DEF ApartInv, Strict, FindSource
  <2>6. OwnInv(b)'
    BY <1>0, <2>1, <2>2 DEF OwnInv, Library
  <2> QED
    BY <2>4, <2>5, <2>6
<1>4. CASE DeleteExisting(b)
  <2>1. /\ pick[b] \in DOMAIN images /\ pick[b] # 0 /\ DeleteImage(b, pick[b])
        /\ pc[b] = "recreate" /\ pc'[b] = "create" /\ UNCHANGED pick
        /\ tried'[b] = tried[b] \cup {pick[b]}
    BY <1>0, <1>4 DEF DeleteExisting, DeleteImage, Goto, StayInv, Picks, TypeOK
  <2>2. DOMAIN images' = DOMAIN images
    BY <1>0, <2>1, LastingDelete
  <2>3. SumInv(b)'
    BY <2>1 DEF SumInv, Using
  <2>4. ApartInv(b)'
    BY <1>0, <2>1, <2>2 DEF ApartInv, Lasting
  <2>5. OwnInv(b)'
    BY <1>0, <2>1, <2>2 DEF OwnInv, Lasting
  <2> QED
    BY <2>3, <2>4, <2>5
<1>5. CASE CreateImage(b) /\ ~Fail(b)
  <2>1. PICK u \in {None, conf[b].uri}, r \in BOOLEAN :
          images' = Append(images, NewImage(b, u, conf[b].sum, r))
    BY <1>5 DEF CreateImage
  <2>2. /\ pc[b] = "create" /\ pc'[b] = "verify" /\ pick'[b] = Len(images') /\ UNCHANGED tried
    BY <1>0, <1>5 DEF CreateImage, Created, Goto, TypeOK
  <2>3. /\ Len(images') = Len(images) + 1
        /\ images'[Len(images) + 1] = NewImage(b, u, conf[b].sum, r)
        /\ DOMAIN images' = DOMAIN images \cup {Len(images) + 1}
    BY <1>0, <2>1 DEF TypeOK
  <2>4. NewImage(b, u, conf[b].sum, r).sum = conf[b].sum /\ NewImage(b, u, conf[b].sum, r).by = b
    BY DEF NewImage
  <2>5. SumInv(b)'
    BY <1>0, <2>2, <2>3, <2>4 DEF SumInv
  <2>6. ApartInv(b)'
    BY <1>0, <2>2, <2>3, <2>4 DEF ApartInv, Lasting
  <2>7. OwnInv(b)'
    <3>1. ASSUME ~conf[b].dup, NEW x \in Library', images'[x].by = b
          PROVE  x = pick'[b]
      BY <1>0, <2>2, <2>3, <3>1 DEF OwnInv, Lasting, Library
    <3> QED
      BY <1>0, <2>2, <3>1 DEF OwnInv
  <2> QED
    BY <2>5, <2>6, <2>7
<1>6. CASE (VerifyImage(b) \/ BindImage(b) \/ CloneImage(b) \/ FinishBuild(b)) /\ ~Fail(b)
  BY <1>6, <1>k DEF VerifyImage, BindImage, CloneImage, FinishBuild
<1>7. CASE CleanUp(b)
  <2>1. /\ pick[b] \in DOMAIN images /\ pick[b] # 0 /\ pc[b] = "cleanup" /\ pc'[b] = "done" /\ UNCHANGED pick
    BY <1>0, <1>7 DEF CleanUp, Goto, StayInv, Picks, TypeOK
  <2>2. CASE DeletesPick(conf[b])
    <3>1. DeleteImage(b, pick[b]) /\ tried'[b] = tried[b] \cup {pick[b]}
      BY <1>0, <1>7, <2>2 DEF CleanUp, DeleteImage, TypeOK
    <3>2. DOMAIN images' = DOMAIN images
      BY <1>0, <2>1, <3>1, LastingDelete
    <3>3. SumInv(b)'
      BY <2>1 DEF SumInv, Using
    <3>4. ApartInv(b)'
      BY <1>0, <2>1, <3>1, <3>2 DEF ApartInv, Lasting
    <3>5. ASSUME ~conf[b].dup, NEW x \in Library', images'[x].by = b
          PROVE  x = pick[b]
      BY <1>0, <2>1, <3>2, <3>5 DEF OwnInv, Lasting, Library
    <3>6. OwnInv(b)'
      BY <1>0, <2>1, <3>1, <3>5 DEF OwnInv
    <3> QED
      BY <3>3, <3>4, <3>6
  <2>3. CASE ~DeletesPick(conf[b])
    BY <1>7, <1>k, <2>1, <2>3 DEF CleanUp, DeletesPick
  <2> QED
    BY <2>2, <2>3
<1> QED
  BY <1>f, <1>1, <1>2, <1>3, <1>4, <1>5, <1>6, <1>7 DEF BuildStep

LEMMA OriginNext == StayInv /\ OriginInv /\ [Next]_vars => OriginInv'
<1> SUFFICES ASSUME StayInv, OriginInv, [Next]_vars PROVE OriginInv'
  OBVIOUS
<1>0. TypeOK
  BY DEF StayInv
<1>1. ASSUME NEW b \in Builds, BuildStep(b) PROVE OriginInv'
  <2>1. /\ Lasting /\ NewBy(b) /\ UNCHANGED conf
        /\ \A c \in Builds \ {b} :
             pc'[c] = pc[c] /\ pick'[c] = pick[c] /\ tried'[c] = tried[c]
    BY <1>1, StepEffect
  <2>2. ASSUME NEW c \in Builds \ {b}
        PROVE  SumInv(c)' /\ ApartInv(c)' /\ OwnInv(c)'
    <3>1. SumInv(c) /\ ApartInv(c) /\ OwnInv(c)
      BY DEF OriginInv
    <3>2. \A x \in DOMAIN images' \ DOMAIN images : images'[x].by # c
      BY <2>1 DEF NewBy
    <3> QED
      BY <2>1, <3>1, <3>2, OthersKeep
  <2>3. SumInv(b)' /\ ApartInv(b)' /\ OwnInv(b)'
    BY <1>1, OwnStep
  <2> QED
    BY <2>2, <2>3 DEF OriginInv
<1>2. ASSUME NEW x \in DOMAIN images, BecomesReady(x) PROVE OriginInv'
  <2>1. Lasting /\ DOMAIN images' = DOMAIN images /\ UNCHANGED <<conf, pc, pick, tried>>
    BY <1>0, <1>2, LastingReady DEF BecomesReady
  <2>2. ASSUME NEW c \in Builds
        PROVE  SumInv(c)' /\ ApartInv(c)' /\ OwnInv(c)'
    <3>1. SumInv(c) /\ ApartInv(c) /\ OwnInv(c)
      BY DEF OriginInv
    <3> QED
      BY <2>1, <3>1, OthersKeep
  <2> QED
    BY <2>2 DEF OriginInv
<1>3. CASE UNCHANGED vars
  BY <1>3 DEF vars, OriginInv, SumInv, ApartInv, OwnInv, Strict, Library
<1> QED
  BY <1>1, <1>2, <1>3 DEF Next, BuildStep

\* The origin of the images a build picks, deletes and leaves, at all times.
THEOREM OriginInvariant == Spec => [](StayInv /\ OriginInv)
<1>1. Init => OriginInv
  <2> SUFFICES ASSUME Init, NEW b \in Builds PROVE SumInv(b) /\ ApartInv(b) /\ OwnInv(b)
    BY DEF OriginInv
  <2>1. pc[b] = "start" /\ pick[b] = 0 /\ tried[b] = {}
    BY DEF Init
  <2>2. \A x \in DOMAIN images : images[x].by # b
    <3>1. images \in Seq({m \in Image : m.by = None /\ m.there})
      BY LibrariesAssumption DEF Init
    <3> QED
      BY <3>1, NoneAssumption
  <2> QED
    BY <2>1, <2>2 DEF SumInv, ApartInv, OwnInv, Using
<1> QED
  BY <1>1, StayInit, StayNext, OriginNext, PTL DEF Spec

(* No VM is made of an image known to have another checksum than the one   *)
(* its build asked for (sourceImageExists, CreateImageURL).                *)
THEOREM PickedSumIsRight == Spec => []PickedSumFits
<1>1. OriginInv => PickedSumFits
  BY DEF OriginInv, SumInv, PickedSumFits
<1> QED
  BY <1>1, OriginInvariant, PTL

(* Builds that upload the same file and tolerate no duplicate are never    *)
(* mixed up (CreateImageFile, findImageByName).                            *)
THEOREM UploadsAreApart == Spec => []UploadsKeptApart
<1>1. OriginInv => UploadsKeptApart
  BY DEF OriginInv, ApartInv, UploadsKeptApart
<1> QED
  BY <1>1, OriginInvariant, PTL

(* With source_image_delete and no duplicates tolerated, a build that is   *)
(* through asked for the deletion of every image it made.                  *)
THEOREM OwnImagesAreDeleted == Spec => []OwnImagesDeleted
<1>1. OriginInv => OwnImagesDeleted
  BY DEF OriginInv, OwnInv, OwnImagesDeleted
<1> QED
  BY <1>1, OriginInvariant, PTL

=============================================================================
