---------------------------- MODULE SourceImages ----------------------------
(***************************************************************************)
(* The image library of Prism Central, shared by builds that run in        *)
(* parallel, each in a process of its own, and whose source images have    *)
(* the same name: one source disk per build, from a local file             *)
(* (CreateImageFile) or from an URI (CreateImageURL).  Module Build has a  *)
(* whole build and nobody else; here each build is only its source image,  *)
(* and the others come between any two of its calls.                       *)
(*                                                                         *)
(* Every driver call is one action.  A lookup is the List call that reads  *)
(* the library; what the code then decides about the answer is decided on  *)
(* that snapshot.                                                          *)
(***************************************************************************)
EXTENDS Naturals, Sequences, FiniteSets

CONSTANTS
  Builds,      \* the builds that run in parallel
  Confs,       \* what each of them may be configured to do
  Libraries,   \* the images of that name there may be before: sequences
  Uris,        \* values of source_image_uri whose last path element is the name
  Sums,        \* checksums
  None         \* no URI, no checksum, nobody

ASSUME NoneAssumption == None \notin Uris \cup Sums \cup Builds

Conf ==
  [uri   : Uris \cup {None},    \* source_image_uri; None: source_image_path
   sum   : Sums \cup {None},    \* source_image_checksum
   del   : BOOLEAN,             \* source_image_delete
   force : BOOLEAN,             \* source_image_force
   dup   : BOOLEAN]             \* allow_duplicate_images

Image ==
  [url   : Uris \cup {None},    \* Source, which Prism Central may not return
   sum   : Sums \cup {None},    \* Checksum, as far as it is known
   dated : BOOLEAN,             \* whether CreateTime is known
   ready : BOOLEAN,             \* SizeBytes > 0
   by    : Builds \cup {None},  \* who made it
   there : BOOLEAN]             \* it is in the library

ASSUME ConfsAssumption == Confs \subseteq Conf
ASSUME LibrariesAssumption ==
  \A l \in Libraries : l \in Seq({m \in Image : m.by = None /\ m.there})

VARIABLES
  conf,     \* the configuration of each build
  images,   \* every image of the name, in the order they were created
  pc,       \* where each build is
  pick,     \* the image each build found or made: an index of images, or 0
  tried     \* history: the images each build passed to DeleteImage

vars == <<conf, images, pc, pick, tried>>

Location == {"start", "lookup", "recreate", "create", "verify", "bind", "clone",
             "build", "cleanup", "done", "failed"}

TypeOK ==
  /\ conf \in [Builds -> Confs]
  /\ images \in Seq(Image)
  /\ pc \in [Builds -> Location]
  /\ pick \in [Builds -> 0..Len(images)]
  /\ tried \in [Builds -> SUBSET (DOMAIN images)]

Library == {x \in DOMAIN images : images[x].there}

Init ==
  /\ conf \in [Builds -> Confs]
  /\ images \in Libraries
  /\ pc = [b \in Builds |-> "start"]
  /\ pick = [b \in Builds |-> 0]
  /\ tried = [b \in Builds |-> {}]

Goto(b, l) == pc' = [pc EXCEPT ![b] = l]
Fail(b) == Goto(b, "failed") /\ UNCHANGED <<conf, pick, tried>>

-----------------------------------------------------------------------------
(* Which image a lookup by name returns.  Each operator is the set of      *)
(* images that may be returned; an empty set is an error.                  *)

\* sortImagesByCreateTimeDesc and [0]: without a CreateTime an image is last.
Newest(S) ==
  LET date(x) == IF images[x].dated THEN x ELSE 0
  IN  {x \in S : \A y \in S : date(y) <= date(x)}

\* selectNewestReadyImage
NewestReady(S) == Newest({x \in S : images[x].ready})

Tolerates_Always(c) == TRUE
Tolerates(c) == c.dup

(* findImageByNameHelper: a single image is taken whether it is ready or   *)
(* not.                                                                    *)
FindImageByName(c) ==
  IF Cardinality(Library) = 1 THEN Library
  ELSE IF Tolerates(c) THEN NewestReady(Library) ELSE {}

(* The images sourceImageExists does not skip: ready, and not of another   *)
(* checksum than the one expected, as far as both are known.               *)
SumFits_Unchecked(c, m) == TRUE
SumFits(c, m) == c.sum = None \/ m.sum \in {None, c.sum}

NameMatched(c) == {x \in Library : images[x].ready /\ SumFits(c, images[x])}
UrlMatched(c)  == {x \in NameMatched(c) : images[x].url = c.uri}

Only(c, S) == IF Cardinality(S) = 1 THEN S ELSE IF Tolerates(c) THEN Newest(S) ELSE {}

\* sourceImageExists, where 0 stands for "no such image".
SourceImageExists(c) ==
  IF UrlMatched(c) # {} THEN Only(c, UrlMatched(c))
  ELSE IF NameMatched(c) # {} THEN Only(c, NameMatched(c)) ELSE {0}

-----------------------------------------------------------------------------
(* CreateImageFile.                                                        *)

NewImage_Swapped(b, u, s, r) ==
  [url |-> s, sum |-> u, dated |-> TRUE, ready |-> r, by |-> b, there |-> TRUE]

NewImage(b, u, s, r) ==
  [url |-> u, sum |-> s, dated |-> TRUE, ready |-> r, by |-> b, there |-> TRUE]

\* Images.Upload, whose failure may leave the image.
Upload(b) ==
  /\ pc[b] = "start" /\ conf[b].uri = None
  /\ \/ /\ \E r \in BOOLEAN : images' = Append(images, NewImage(b, None, None, r))
        /\ Goto(b, "lookup")
        /\ UNCHANGED <<conf, pick, tried>>
     \/ /\ \/ UNCHANGED images
           \/ images' = Append(images, NewImage(b, None, None, FALSE))
        /\ Fail(b)

(* findImageByName.  Its Images.Get of the image found fails when it is    *)
(* gone by then; so does the one of "bind", and one of them is enough.     *)
LookUpUploaded(b) ==
  /\ pc[b] = "lookup"
  /\ \/ \E x \in FindImageByName(conf[b]) :
          /\ pick' = [pick EXCEPT ![b] = x]
          /\ Goto(b, "bind")
          /\ UNCHANGED <<conf, images, tried>>
     \/ Fail(b) /\ UNCHANGED images

-----------------------------------------------------------------------------
(* CreateImageURL.                                                         *)

Recreates_Always(c) == TRUE
Recreates(c) == c.force

FindSource(b) ==
  /\ pc[b] = "start" /\ conf[b].uri # None
  /\ \/ \E x \in SourceImageExists(conf[b]) :
          /\ pick' = [pick EXCEPT ![b] = x]
          /\ Goto(b, IF x = 0 THEN "create"
                     ELSE IF Recreates(conf[b]) THEN "recreate" ELSE "bind")
          /\ UNCHANGED <<conf, images, tried>>
     \/ Fail(b) /\ UNCHANGED images

\* DeleteImage, whose failure is at most logged.
DeleteImage(b, x) ==
  /\ tried' = [tried EXCEPT ![b] = @ \cup {x}]
  /\ \/ images' = [images EXCEPT ![x].there = FALSE]
     \/ UNCHANGED images

DeleteExisting(b) ==
  /\ pc[b] = "recreate"
  /\ DeleteImage(b, pick[b])
  /\ Goto(b, "create")
  /\ UNCHANGED <<conf, pick>>

Created(b) == Len(images')

(* Images.Create.  The image keeps the URI and the checksum it was created *)
(* with, but Prism Central may not return its Source.                      *)
CreateImage(b) ==
  /\ pc[b] = "create"
  /\ \/ /\ \E u \in {None, conf[b].uri}, r \in BOOLEAN :
             images' = Append(images, NewImage(b, u, conf[b].sum, r))
        /\ pick' = [pick EXCEPT ![b] = Created(b)]
        /\ Goto(b, "verify")
        /\ UNCHANGED <<conf, tried>>
     \/ /\ \/ UNCHANGED images
           \/ images' = Append(images, NewImage(b, None, conf[b].sum, FALSE))
        /\ Fail(b)

(* The loop of twelve Images.Get: whether the image was seen ready or the  *)
(* attempts ran out ("proceeding anyway"), the image is returned.          *)
VerifyImage(b) ==
  /\ pc[b] = "verify"
  /\ Goto(b, "bind")
  /\ UNCHANGED <<conf, images, pick, tried>>

-----------------------------------------------------------------------------
(* CreateRequest's findImageByUUID, Create, and the cleanup.               *)

BindImage(b) ==
  /\ pc[b] = "bind"
  /\ \/ /\ images[pick[b]].there
        /\ Goto(b, "clone")
        /\ UNCHANGED <<conf, images, pick, tried>>
     \/ Fail(b) /\ UNCHANGED images

\* VMs.Create and PowerOn: Prism Central clones the image into the VM.
CloneImage(b) ==
  /\ pc[b] = "clone"
  /\ \/ /\ images[pick[b]].there /\ images[pick[b]].ready
        /\ Goto(b, "build")
        /\ UNCHANGED <<conf, images, pick, tried>>
     \/ Fail(b) /\ UNCHANGED images

\* Everything from the first boot to the last step.
FinishBuild(b) ==
  /\ pc[b] = "build"
  /\ Goto(b, "cleanup")
  /\ UNCHANGED <<conf, images, pick, tried>>

DeletesPick_Never(c) == FALSE
DeletesPick(c) == c.del

CleanUp(b) ==
  /\ pc[b] = "cleanup"
  /\ IF DeletesPick(conf[b]) THEN DeleteImage(b, pick[b]) ELSE UNCHANGED <<images, tried>>
  /\ Goto(b, "done")
  /\ UNCHANGED <<conf, pick>>

\* The data of an image that was created earlier becomes available.
BecomesReady(x) ==
  /\ images[x].there /\ ~images[x].ready
  /\ images' = [images EXCEPT ![x].ready = TRUE]
  /\ UNCHANGED <<conf, pc, pick, tried>>

Next ==
  \/ \E b \in Builds :
       \/ Upload(b) \/ LookUpUploaded(b)
       \/ FindSource(b) \/ DeleteExisting(b) \/ CreateImage(b) \/ VerifyImage(b)
       \/ BindImage(b) \/ CloneImage(b) \/ FinishBuild(b) \/ CleanUp(b)
  \/ \E x \in DOMAIN images : BecomesReady(x)

Spec == Init /\ [][Next]_vars

-----------------------------------------------------------------------------
Using == {"bind", "clone"}      \* an image is picked, the VM not yet made

(* A build can rely on the image it picked until the VM is made of it,     *)
(* unless another build was told to delete or to replace source images     *)
(* (source_image_delete, source_image_force): a build never takes away the *)
(* image it is about to use, and plain builds never take away each         *)
(* other's.                                                                *)
PickedImageStays ==
  \A b \in Builds : pc[b] \in Using /\ ~images[pick[b]].there =>
    \E c \in Builds \ {b} : pick[b] \in tried[c] /\ (conf[c].del \/ conf[c].force)

(* Why PickedImageStays holds: an image disappears only when a build       *)
(* passes it to DeleteImage, only builds told to do, and the image a build *)
(* has picked for its VM is never one it has already deleted.  This is the *)
(* inductive invariant of module SourceImagesProofs.                       *)
Deletions ==
  /\ \A x \in DOMAIN images : ~images[x].there => \E c \in Builds : x \in tried[c]
  /\ \A c \in Builds : tried[c] # {} => conf[c].del \/ conf[c].force

Picks ==
  \A b \in Builds :
    /\ pc[b] \in {"start", "lookup", "recreate"} => tried[b] = {}
    /\ pc[b] = "recreate" => pick[b] # 0 /\ conf[b].force
    /\ pc[b] \in {"verify", "bind", "clone", "build", "cleanup"} =>
         pick[b] # 0 /\ pick[b] \notin tried[b]

StayInv == TypeOK /\ Deletions /\ Picks

(* No VM is made of an image known to have another checksum than the one   *)
(* its build asked for, whoever made the image and however the lookup of   *)
(* one build fell between the calls of another.  The images found in the   *)
(* library are held to it as well, which the documentation denies: see     *)
(* PresentImageReused.                                                     *)
PickedSumFits ==
  \A b \in Builds : pc[b] \in Using \cup {"build"} /\ conf[b].uri # None /\ conf[b].sum # None =>
    images[pick[b]].sum \in {None, conf[b].sum}

(* Builds that upload the same file at the same time, none of them with    *)
(* allow_duplicate_images, are never mixed up: the lookup after the upload *)
(* has the build's own image, or fails because it sees two.                *)
Strict == \A b \in Builds : conf[b].uri = None /\ ~conf[b].dup

UploadsKeptApart ==
  Strict => \A b \in Builds : pick[b] # 0 => images[pick[b]].by = b

(* With source_image_delete, and nobody tolerating duplicates, a build     *)
(* that reached its cleanup has asked for the deletion of every image it   *)
(* made.                                                                   *)
OwnImagesDeleted ==
  (\A b \in Builds : ~conf[b].dup) =>
    \A b \in Builds : pc[b] = "done" /\ conf[b].del =>
      \A x \in Library : images[x].by = b => x \in tried[b]

=============================================================================
