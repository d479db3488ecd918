----------------------------- MODULE AtomicFiles -----------------------------
(***************************************************************************)
(* metria.verification._write_atomic: a file of an evidence directory is    *)
(* written beside its place under a temporary name and published with a     *)
(* hard link, which fails when the place is taken.                          *)
(*                                                                         *)
(* One write is in progress at a time; its caller begins it and takes its   *)
(* outcome.  Up to MaxFaults system calls fail for no visible reason.       *)
(***************************************************************************)
EXTENDS Integers, Sequences, FiniteSets

CONSTANTS Names,       \* the files of the directory
          MaxFaults    \* bound: system calls that fail

ASSUME AtomicFilesAssumption == MaxFaults \in Nat

VARIABLES
  files,     \* [Names -> the published content, or Absent]
  temps,     \* the names whose temporary file exists
  faults,    \* system calls that have failed so far
  writing    \* the write in progress: its step, name, value and error

directory == <<files, temps, faults>>

(* Contents tell their kind: a run record, a manifest (or the report it    *)
(* renders to), or nothing.                                                *)
Absent == [kind |-> "absent"]
Steps  == {"idle", "create", "publish", "discard", "over"}
Errors == {"none", "os", "interrupt"}

Idle == [step |-> "idle", name |-> "none", value |-> Absent, error |-> "none"]

Begins(name, value) ==
  writing' = [step |-> "create", name |-> name, value |-> value, error |-> "none"]
Turns(step, error) ==
  writing' = [writing EXCEPT !.step = step, !.error = error]
Keeps(step) == Turns(step, writing.error)

Works  == UNCHANGED faults
Faults == faults < MaxFaults /\ faults' = faults + 1

(* The write is over, with or without an error.                            *)
Written(error) == writing.step = "over" /\ writing.error = error

(* open("x"): an existing temporary file is somebody else's and stays.     *)
Create ==
  /\ writing.step = "create"
  /\ \/ /\ writing.name \notin temps
        /\ temps' = temps \union {writing.name} /\ Keeps("publish") /\ Works
     \/ /\ (writing.name \in temps /\ Works) \/ Faults
        /\ temps' = temps /\ Turns("over", "os")
  /\ UNCHANGED files

(* Filling the temporary file fails.                                       *)
FillFails ==
  /\ writing.step = "publish" /\ Faults
  /\ Turns("discard", "os")
  /\ UNCHANGED <<files, temps>>

(* os.link succeeds only when the name is free.  Mistake: os.replace.      *)
Vacant_Replaces(name) == TRUE
Vacant(name) == files[name] = Absent

Publish ==
  /\ writing.step = "publish"
  /\ \/ /\ Vacant(writing.name)
        /\ files' = [files EXCEPT ![writing.name] = writing.value]
        /\ Keeps("discard") /\ Works
     \/ /\ (files[writing.name] # Absent /\ Works) \/ Faults
        /\ files' = files /\ Turns("discard", "os")
  /\ UNCHANGED temps

(* The finally block; an error of unlink is dropped.                       *)
Discard ==
  /\ writing.step = "discard"
  /\ \/ temps' = temps \ {writing.name} /\ Works
     \/ temps' = temps /\ Faults
  /\ Keeps("over")
  /\ UNCHANGED files

(* A KeyboardInterrupt inside _write_atomic.  Before `created` is set, and *)
(* in the finally block, a temporary file may stay behind.                 *)
InterruptWrite ==
  /\ writing.step \in {"create", "publish", "discard"}
  /\ Turns(IF writing.step = "publish" THEN "discard" ELSE "over", "interrupt")
  /\ \/ temps' = temps
     \/ writing.step = "create" /\ temps' = temps \union {writing.name}
  /\ UNCHANGED <<files, faults>>

WriteStep == Create \/ FillFails \/ Publish \/ Discard

=============================================================================
