------------------------- MODULE SourceImageClaims -------------------------
(***************************************************************************)
(* What the documentation and the comments say of source images, and the   *)
(* lookups do not do.  Each is checked by a run of its own.                *)
(***************************************************************************)
EXTENDS MCSourceImages

SharingConfs == {[uri |-> None, sum |-> None, del |-> TRUE, force |-> FALSE, dup |-> TRUE]}
SummedConfs  == {[uri |-> u1, sum |-> s1, del |-> FALSE, force |-> FALSE, dup |-> FALSE]}
OtherSum     == {<<[Old EXCEPT !.url = u1, !.sum = s2]>>}

(* docs/builders/nutanix.mdx:126, "source_image_delete (bool) - Delete     *)
(* image once build process is completed", with allow_duplicate_images,    *)
(* which line 74 recommends for parallel builds: a build that reached its  *)
(* cleanup asked for the deletion of the image it uploaded.  The lookup    *)
(* after Images.Upload takes the newest image of that name, which may be   *)
(* the one another build has just uploaded.                                *)
UploadDeletedInParallel ==
  \A b \in Builds : pc[b] = "done" /\ conf[b].del =>
    \A x \in Library : images[x].by = b => x \in tried[b]

(* docs/builders/nutanix.mdx:124 and :144, "source_image_checksum (string) *)
(* - Checksum of the image used as disk source (work only with             *)
(* source_image_uri and if image is not already present in the library)":  *)
(* the checksum has no say in whether an image that is there is reused, so *)
(* a build without source_image_force makes none of its own beside a ready *)
(* one of its URI that was there before.  sourceImageExists passes over    *)
(* the images of another checksum, and CreateImageURL downloads it again.  *)
PresentImageReused ==
  \A b \in Builds : pick[b] # 0 /\ ~conf[b].force =>
    \A x \in Library :
      images[x].by = None /\ images[x].ready /\ images[x].url = conf[b].uri
        => images[pick[b]].by # b

=============================================================================
