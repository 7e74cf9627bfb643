---------------------------- MODULE ExportImage ----------------------------
(***************************************************************************)
(* stepExportImage.Run and NutanixDriver.ExportImage: for each image of    *)
(* the build a stream is opened, by the v4 API (which downloads to a local *)
(* file) or else by the v3 API, and a goroutine copies it to name.tmp,     *)
(* which is renamed to name.img once the copy is complete.  The step waits *)
(* for the goroutine or for a signal, whichever comes first.               *)
(*                                                                         *)
(* The files are those of the current folder: image k is written to tmp[k] *)
(* and ends up in img[k].  Removing a file is taken to succeed.            *)
(***************************************************************************)
EXTENDS Naturals, Sequences

VARIABLES
  todo,      \* "image_uuid": the images to export, with whether a size is known
  remote,    \* Prism Central: the images there are
  n,         \* index of the image at hand
  pc,        \* "get" | "fallback" | "create" | "copy" | "returned"
  stream,    \* the reader: "none" | "file" (v4) | "body" (v3) | "closed"
  copier,    \* the goroutine: "none" | "copying" | "ok" | "error" | "ended"
  room,      \* copyDone has room for a message
  tmp,       \* name.tmp: "none" | "stale" (an earlier process) | "part" | "whole"
  img,       \* name.img: "none" | "stale" (an earlier export) | "part" | "whole"
  sigChan,   \* a signal waits in sigChan
  signalled, \* history: a signal has been sent
  ctxDone,   \* the build's context is cancelled
  bagError,  \* "error" is in the state bag
  result     \* what Run returned: "none" | "continue" | "halt"

files == <<tmp, img>>
env   == <<sigChan, signalled, ctxDone>>
vars  == <<n, pc, stream, copier, room, tmp, img, sigChan, signalled, ctxDone, bagError, result>>

FileState == {"none", "stale", "part", "whole"}

TypeOK ==
  /\ n \in Nat \ {0}
  /\ pc \in {"get", "fallback", "create", "copy", "returned"}
  /\ stream \in {"none", "file", "body", "closed"}
  /\ copier \in {"none", "copying", "ok", "error", "ended"}
  /\ room \in BOOLEAN /\ sigChan \in BOOLEAN /\ signalled \in BOOLEAN
  /\ ctxDone \in BOOLEAN /\ bagError \in BOOLEAN
  /\ DOMAIN tmp = DOMAIN img
  /\ \A k \in DOMAIN tmp : {tmp[k], img[k]} \subseteq FileState
  /\ result \in {"none", "continue", "halt"}

\* The folder may hold what earlier exports left, then under every name.
Init(Names) ==
  /\ n = 1 /\ pc = "get" /\ stream = "none" /\ copier = "none" /\ room = TRUE
  /\ \E s \in {"none", "stale"} : tmp = [k \in Names |-> s] /\ img = tmp
  /\ sigChan = FALSE /\ signalled = FALSE /\ ctxDone = FALSE
  /\ bagError = FALSE /\ result = "none"

-----------------------------------------------------------------------------
(* The ways Run returns.  Every return closes the reader.                  *)

Return(r, e) ==
  /\ pc' = "returned" /\ result' = r /\ bagError' = e
  /\ stream' = "closed"

RemoveTmp == tmp' = [tmp EXCEPT ![n] = "none"]

Fail_Unrecorded == Return("halt", bagError) /\ UNCHANGED <<n, env>>
Fail == Return("halt", TRUE) /\ UNCHANGED <<n, env>>

-----------------------------------------------------------------------------
(* ExportImage.                                                            *)

\* Images.GetFile; a failure is not reported, the v3 API is tried.
GetFile ==
  /\ pc = "get" /\ result = "none"
  /\ \/ /\ todo[n].uuid \in remote /\ ~ctxDone
        /\ pc' = "create" /\ stream' = "file"
        /\ UNCHANGED <<n, bagError, result, env>>
     \/ /\ pc' = "fallback"
        /\ UNCHANGED <<n, stream, bagError, result, env>>
     \/ /\ todo[n].uuid \in remote       \* the downloaded file cannot be opened
        /\ Fail
  /\ UNCHANGED <<copier, room, files>>

\* exportImageViaV3: a request without a timeout, that the context ends.
FallbackAnswers ==
  /\ pc = "fallback"
  /\ \/ /\ todo[n].uuid \in remote /\ ~ctxDone
        /\ pc' = "create" /\ stream' = "body"
        /\ UNCHANGED <<n, bagError, result, env>>
     \/ Fail
  /\ UNCHANGED <<copier, room, files>>

\* What is made with the build's context ends with it.
Cancelled_Never == FALSE
Cancelled == ctxDone

FallbackCancelled == Cancelled /\ FallbackAnswers

-----------------------------------------------------------------------------
(* stepExportImage.Run.                                                    *)

\* OpenFile with O_TRUNC, the channel, and the goroutine.
CreateTmp ==
  /\ pc = "create"
  /\ \/ /\ tmp' = [tmp EXCEPT ![n] = "part"]
        /\ copier' = "copying" /\ room' = TRUE
        /\ pc' = "copy"
        /\ UNCHANGED <<n, stream, img, bagError, result, env>>
     \/ Fail /\ UNCHANGED <<copier, room, files>>

(* io.Copy comes to the end of the stream, which may be too early, or      *)
(* fails; it fails in any case once the reader is closed.                  *)
CopyEnds ==
  /\ copier = "copying"
  /\ \/ /\ stream \in {"file", "body"}
        /\ copier' = "ok"
        /\ tmp' \in {tmp, [tmp EXCEPT ![n] = "whole"]}
     \/ copier' = "error" /\ UNCHANGED tmp
  /\ UNCHANGED <<n, pc, stream, room, img, env, bagError, result>>

\* A local file ends, a closed reader and a cancelled request fail.
CopyMustEnd == (stream \in {"file", "closed"} \/ Cancelled) /\ CopyEnds

\* copyDone has room for the one message, so nobody needs to receive it.
CanSend_Unbuffered == pc = "copy"
CanSend == room

\* "copyDone <- copyErr" after the step has left: the goroutine ends.
SendUnread ==
  /\ pc = "returned" /\ copier \in {"ok", "error"} /\ CanSend
  /\ copier' = "ended" /\ room' = FALSE
  /\ UNCHANGED <<n, pc, stream, files, env, bagError, result>>

SizeFits_Unchecked(k) == TRUE
SizeFits(k) == todo[k].sized => tmp[k] = "whole"

(* copyDone is received: the error, the close, the size and the rename are *)
(* looked at in this order, and each failure removes name.tmp.             *)
CopyFails ==
  /\ pc = "copy" /\ copier \in {"ok", "error"}
  /\ copier' = "ended"
  /\ RemoveTmp
  /\ Fail
  /\ UNCHANGED <<room, img>>

KeepFile ==
  /\ pc = "copy" /\ copier = "ok" /\ SizeFits(n)
  /\ copier' = "ended"
  /\ img' = [img EXCEPT ![n] = tmp[n]]
  /\ RemoveTmp
  /\ n' = n + 1
  /\ IF n < Len(todo)
     THEN pc' = "get" /\ stream' = "closed" /\ UNCHANGED <<bagError, result>>
     ELSE Return("continue", bagError)
  /\ UNCHANGED <<room, env>>

AfterSignal_Leave == UNCHANGED tmp
AfterSignal == RemoveTmp

\* The other branch of the select, taken or not if copyDone is ready too.
OnSignal ==
  /\ pc = "copy" /\ sigChan
  /\ sigChan' = FALSE
  /\ AfterSignal
  /\ Return("halt", bagError)
  /\ UNCHANGED <<n, copier, room, img, signalled, ctxDone>>

-----------------------------------------------------------------------------
\* sigChan is subscribed to before the first image and has room for a
\* signal, so that one sent while nobody receives is kept.
Kept_Unbuffered == pc = "copy"
Kept == TRUE

Signal ==
  /\ result = "none" /\ ~signalled
  /\ sigChan' = Kept /\ signalled' = TRUE
  /\ UNCHANGED <<n, pc, stream, copier, room, files, ctxDone, bagError, result>>

Cancel ==
  /\ result = "none" /\ ~ctxDone
  /\ ctxDone' = TRUE
  /\ UNCHANGED <<n, pc, stream, copier, room, files, sigChan, signalled, bagError, result>>

\* What the step does by itself; the rest waits for Prism Central.
Run == GetFile \/ CreateTmp \/ CopyFails \/ KeepFile \/ OnSignal

Next ==
  \/ Run \/ FallbackAnswers \/ CopyEnds \/ SendUnread
  \/ Signal \/ Cancel

-----------------------------------------------------------------------------
(* A name.img this step has written is complete whenever the size of the   *)
(* image is known, however the stream ended; what an earlier export left   *)
(* under that name is replaced by a complete file or not at all.           *)
FinalFilesWhole == \A k \in DOMAIN img : img[k] = "part" => ~todo[k].sized

(* Whichever way the step returns, and wherever the goroutine is then, no  *)
(* name.tmp of its own is left.                                            *)
NoTmpLeft == result # "none" => \A k \in DOMAIN tmp : tmp[k] \notin {"part", "whole"}

(* The step goes on with a new file for each image, or it halts with an    *)
(* error, or because of a signal.                                          *)
AllExported ==
  pc = "returned" /\ \A k \in DOMAIN todo : img[k] \in {"part", "whole"}

Step == INSTANCE StepContract WITH
  error <- bagError, stopped <- signalled, product <- AllExported

=============================================================================
