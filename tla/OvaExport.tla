----------------------------- MODULE OvaExport -----------------------------
(***************************************************************************)
(* Builds that make an OVA of one name and export it: StepCreateOVA, and   *)
(* StepExportOVA with NutanixDriver.ExportOVA.  The export does not know   *)
(* the OVA the build has made: it looks the name up, until an OVA of that  *)
(* name is listed, and takes the one created last.                         *)
(*                                                                         *)
(* OVAs are kept in the order in which they were created, and are listed   *)
(* some time after that.  Those from before the builds may lack a          *)
(* CreateTime.                                                             *)
(***************************************************************************)
EXTENDS Naturals, Sequences

CONSTANTS
  Builds,    \* the builds that make and export an OVA
  Tries      \* how often ExportOVA looks the name up; 12 in the code

VARIABLES
  ovas,    \* the OVAs of the name: when each was dated, and whether it is listed
  stage,   \* "create" | "find" | "download" | "rename" | "exported" | "failed"
  left,    \* how many lookups are left
  own,     \* history: the OVA the build has made, 0 for none
  taken,   \* the OVA the build exports, 0 for none
  missed   \* history: its own OVA was not listed when that one was taken

vars == <<ovas, stage, left, own, taken, missed>>

Ova == [dated : BOOLEAN, listed : BOOLEAN]

OvaTypeOK ==
  /\ ovas \in Seq(Ova)
  /\ stage \in [Builds -> {"create", "find", "download", "rename", "exported", "failed"}]
  /\ left \in [Builds -> 0 .. Tries]
  /\ own \in [Builds -> Nat] /\ taken \in [Builds -> Nat]
  /\ missed \in [Builds -> BOOLEAN]

\* Before counts the OVAs of earlier builds.
Init(Before) ==
  /\ ovas \in [1 .. Before -> [dated : BOOLEAN, listed : {TRUE}]]
  /\ stage = [b \in Builds |-> "create"]
  /\ left = [b \in Builds |-> Tries]
  /\ own = [b \in Builds |-> 0] /\ taken = [b \in Builds |-> 0]
  /\ missed = [b \in Builds |-> FALSE]

Goto(b, s) == stage' = [stage EXCEPT ![b] = s]

\* CreateOVA waits for its task; one that fails may have made the OVA.
CreateOva(b) ==
  /\ stage[b] = "create"
  /\ LET new == Append(ovas, [dated |-> TRUE, listed |-> FALSE]) IN
       \/ ovas' = new /\ own' = [own EXCEPT ![b] = Len(new)] /\ Goto(b, "find")
       \/ ovas' \in {ovas, new} /\ Goto(b, "failed") /\ UNCHANGED own
  /\ UNCHANGED <<left, taken, missed>>

Appears(i) ==
  /\ ~ovas[i].listed
  /\ ovas' = [ovas EXCEPT ![i].listed = TRUE]
  /\ UNCHANGED <<stage, left, own, taken, missed>>

-----------------------------------------------------------------------------
Listed == {i \in DOMAIN ovas : ovas[i].listed}

\* The order of the sort: those with a CreateTime first, the newest first.
Before_Oldest(i, j) ==
  IF ovas[i].dated /\ ovas[j].dated THEN i < j ELSE ovas[i].dated
Before(i, j) ==
  IF ovas[i].dated /\ ovas[j].dated THEN i > j ELSE ovas[i].dated

\* findOvaByName: one that no other precedes.
Latest == {i \in Listed : \A j \in Listed \ {i} : ~Before(j, i)}

FindOva(b) ==
  /\ stage[b] = "find"
  /\ \E i \in Latest :
       /\ taken' = [taken EXCEPT ![b] = i]
       /\ missed' = [missed EXCEPT ![b] = ~ovas[own[b]].listed]
  /\ Goto(b, "download")
  /\ UNCHANGED <<ovas, left, own>>

LastTry_Late(b) == left[b] = 0
LastTry(b) == left[b] = 1

\* Nothing is listed, or the list failed: the error is logged, not returned.
FindAgain(b) ==
  /\ stage[b] = "find"
  /\ left' = [left EXCEPT ![b] = @ - 1]
  /\ IF LastTry(b) THEN Goto(b, "failed") ELSE UNCHANGED stage
  /\ UNCHANGED <<ovas, own, taken, missed>>

\* Ovas.GetFile, by the UUID that was found.
Download(b) ==
  /\ stage[b] = "download"
  /\ Goto(b, "rename") \/ Goto(b, "failed")
  /\ UNCHANGED <<ovas, left, own, taken, missed>>

\* os.Rename of the downloaded file to name.ova.
Rename(b) ==
  /\ stage[b] = "rename"
  /\ Goto(b, "exported") \/ Goto(b, "failed")
  /\ UNCHANGED <<ovas, left, own, taken, missed>>

Step(b) == CreateOva(b) \/ FindOva(b) \/ FindAgain(b) \/ Download(b) \/ Rename(b)

-----------------------------------------------------------------------------
(* An OVA older than the build's own, one of an earlier or of a parallel   *)
(* build, is exported only if its own was not listed when the search ended.*)
OlderOvaExplained ==
  \A b \in Builds : stage[b] = "exported" /\ taken[b] < own[b] => missed[b]

=============================================================================
