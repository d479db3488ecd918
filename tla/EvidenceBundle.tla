--------------------------- MODULE EvidenceBundle ---------------------------
(***************************************************************************)
(* What the evidence directory of a verification promises its reader        *)
(* (docs/guides/metria-verify.md, docs/guides/verification-ci.md): a file    *)
(* is published whole and never changes, the result comes last and tells    *)
(* exactly what the other files hold, and the exit status of the command    *)
(* agrees with the result.                                                  *)
(***************************************************************************)
EXTENDS Integers, Sequences

VARIABLES
  files,   \* [BundleFiles -> content, or Absent]
  exit     \* the exit status, or Running until the command ends

bundle == <<files, exit>>

BundleFiles == {"reference", "candidate", "report", "manifest", "verification"}
Absent      == [kind |-> "absent"]
Running     == -1

Init == files = [n \in BundleFiles |-> Absent] /\ exit = Running

(* A result and the files it speaks of: the report and the compatibility   *)
(* alias are made of it, and it holds the two records.                     *)
Whole(dir) ==
  /\ dir["report"] = dir["verification"]
  /\ dir["manifest"] = dir["verification"]
  /\ dir["verification"].records = <<dir["reference"], dir["candidate"]>>

Publish(name) ==
  /\ exit = Running
  /\ files[name] = Absent
  /\ files' = [files EXCEPT ![name] = files'[name]]
  /\ name = "verification" => Whole(files')
  /\ UNCHANGED exit

(* A status that speaks of evidence is the one of a published result.      *)
End ==
  /\ exit = Running
  /\ exit' \in {0, 1, 2, 3, 4, 5, 130}
  /\ exit' \in {0, 1, 3, 4} =>
       files["verification"] # Absent /\ files["verification"].exit = exit'
  /\ UNCHANGED files

Next == End \/ \E name \in BundleFiles : Publish(name)

Spec == Init /\ [][Next]_bundle

=============================================================================
