--------------------------- MODULE MCSourceImages ---------------------------
(***************************************************************************)
(* Configurations and libraries for model-checking module SourceImages.    *)
(***************************************************************************)
EXTENDS SourceImages, TLC

CONSTANTS b1, b2, u1, u2, s1, s2

PathConfs ==
  {[uri |-> None, sum |-> None, del |-> d, force |-> FALSE, dup |-> t] :
     d \in BOOLEAN, t \in BOOLEAN}

UriConfs ==
  {[uri |-> u1, sum |-> s, del |-> d, force |-> f, dup |-> t] :
     s \in {None, s1}, d \in BOOLEAN, f \in BOOLEAN, t \in BOOLEAN}

AllConfs == PathConfs \cup UriConfs

Old == [url |-> None, sum |-> None, dated |-> TRUE, ready |-> TRUE,
        by |-> None, there |-> TRUE]

OldImages ==
  {Old,
   [Old EXCEPT !.url = u2, !.sum = s2],
   [Old EXCEPT !.url = u1, !.sum = s1, !.dated = FALSE],
   [Old EXCEPT !.ready = FALSE]}

(* No image, one of each kind, and pairs in which the newest, the one with *)
(* the right URI and the one with the right checksum are not the same.     *)
SomeLibraries ==
  {<<>>} \cup {<<m>> : m \in OldImages}
  \cup {<<[Old EXCEPT !.sum = s1], [Old EXCEPT !.url = u1, !.sum = s2]>>,
        <<[Old EXCEPT !.url = u1], Old>>}

BuildSymmetry == Permutations(Builds)

NoImages == {<<>>}

=============================================================================
