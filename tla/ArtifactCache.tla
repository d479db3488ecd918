---------------------------- MODULE ArtifactCache ----------------------------
(***************************************************************************)
(* metria.artifacts.fetch_artifact: processes that share a cache directory  *)
(* fetch one artifact, named there by its SHA-256.  A fetch downloads it    *)
(* into a temporary file and publishes that with a hard link, or verifies   *)
(* the entry that is there already (verify_artifact).                       *)
(*                                                                         *)
(* A file is known by the process that made it.  Contents are sequences of  *)
(* chunks, and the digest matches exactly on Right.  The stamp of a file    *)
(* counts what st_ctime_ns tells: every write, link and unlink, which are   *)
(* taken to be further apart than the clock of the file system ticks.       *)
(***************************************************************************)
EXTENDS Integers, Sequences, FiniteSets

CONSTANTS
  Fetchers,     \* the processes, one fetch each
  Chunks,       \* the length of the artifact
  MaxBytes,     \* max_bytes, in chunks
  MaxChanges,   \* bound: changes that others make to the cache
  MaxFaults     \* bound: failing calls and interrupts of the fetchers

ASSUME ArtifactCacheAssumption ==
  /\ IsFiniteSet(Fetchers) /\ {"other", "none"} \intersect Fetchers = {}
  /\ Chunks \in Nat \ {0} /\ MaxBytes \in Nat \ {0}
  /\ MaxChanges \in Nat /\ MaxFaults \in Nat

(* The files: one per fetch, and one that somebody else puts in place.     *)
Files == Fetchers \union {"other"}
Right == [i \in 1 .. Chunks |-> "good"]

VARIABLES
  target,    \* the file at <cache>/<sha256>, or "none"
  temps,     \* the fetches whose .download- file exists
  content,   \* [Files -> its chunks]
  stamp,     \* [Files -> how often it changed]
  pc,        \* [Fetchers -> program point]
  before,    \* [Fetchers -> what lstat saw of the entry]
  read,      \* [Fetchers -> the chunks hashed so far]
  outcome,   \* [Fetchers -> none | result | integrity | error]
  changes,   \* changes others made
  faults     \* calls that failed

cache == <<target, temps, content, stamp>>
fetch == <<pc, before, read, outcome>>
vars  == <<cache, fetch, changes, faults>>

Links(i) == (IF target = i THEN 1 ELSE 0) + (IF i \in temps THEN 1 ELSE 0)
Unseen   == [file |-> "none", stamp |-> 0]

Init ==
  /\ target = "none" /\ temps = {}
  /\ content = [i \in Files |-> <<>>] /\ stamp = [i \in Files |-> 0]
  /\ pc = [f \in Fetchers |-> "exists"]
  /\ before = [f \in Fetchers |-> Unseen]
  /\ read = [f \in Fetchers |-> <<>>]
  /\ outcome = [f \in Fetchers |-> "none"]
  /\ changes = 0 /\ faults = 0

Goes(f, to) == pc' = [pc EXCEPT ![f] = to] /\ UNCHANGED outcome

(* Leaves the fetch, through its finally block once there is a temporary.  *)
Leaves(f, how) ==
  /\ outcome' = [outcome EXCEPT ![f] = how]
  /\ pc' = [pc EXCEPT ![f] = IF f \in temps THEN "unlink" ELSE "done"]

Stamped(i) == stamp' = [stamp EXCEPT ![i] = @ + 1]
Steady     == UNCHANGED <<changes, faults>>

-----------------------------------------------------------------------------
(* fetch_artifact.                                                         *)

Exists(f) ==
  /\ pc[f] = "exists"
  /\ Goes(f, IF target = "none" THEN "create" ELSE "lstat")
  /\ UNCHANGED <<cache, before, read>> /\ Steady

CreateTemp(f) ==
  /\ pc[f] = "create" /\ Goes(f, "download")
  /\ temps' = temps \union {f}
  /\ UNCHANGED <<target, content, stamp, before, read>> /\ Steady

(* _copy_hash: the server sends a chunk, the right one or not, which is    *)
(* written unless it exceeds the limit.                                    *)
Exceeds(size) == size > MaxBytes

Download(f) ==
  /\ pc[f] = "download"
  /\ IF Exceeds(Len(content[f]) + 1)
     THEN Leaves(f, "integrity") /\ UNCHANGED <<content, stamp>>
     ELSE /\ \E chunk \in {"good", "bad"} :
               content' = [content EXCEPT ![f] = Append(@, chunk)]
          /\ Stamped(f) /\ UNCHANGED <<pc, outcome>>
  /\ UNCHANGED <<target, temps, before, read>> /\ Steady

(* The response ends: _checked, the download.  Mistake: only its length    *)
(* is compared.                                                            *)
Checked_Size(data) == Len(data) = Chunks
Checked(data) == data = Right

EndDownload(f) ==
  /\ pc[f] = "download"
  /\ IF Checked(content[f]) THEN Goes(f, "link") ELSE Leaves(f, "integrity")
  /\ UNCHANGED <<cache, before, read>> /\ Steady

(* _publish_new_file.                                                       *)
Vacant == target = "none"

Link(f) ==
  /\ pc[f] = "link"
  /\ IF Vacant
     THEN target' = f /\ Stamped(f) /\ Leaves(f, "result")
     ELSE Goes(f, "lstat") /\ UNCHANGED <<target, stamp>>
  /\ UNCHANGED <<temps, content, before, read>> /\ Steady

(* The finally block.  Mistake: only a failed fetch cleans up.             *)
Discarded_Failed(f) == IF outcome[f] = "result" THEN temps ELSE temps \ {f}
Discarded(f) == temps \ {f}

Unlink(f) ==
  /\ pc[f] = "unlink" /\ Goes(f, "done")
  /\ temps' = Discarded(f) /\ Stamped(f)
  /\ UNCHANGED <<target, content, before, read>> /\ Steady

-----------------------------------------------------------------------------
(* verify_artifact, of the entry at the target.                            *)

Seen    == [file |-> target, stamp |-> stamp[target]]
Regular == Links(target) = 1

Lstat(f) ==
  /\ pc[f] = "lstat"
  /\ IF target = "none" THEN Leaves(f, "error") /\ UNCHANGED before
     ELSE IF ~Regular \/ Exceeds(Len(content[target]))
          THEN Leaves(f, "integrity") /\ UNCHANGED before
     ELSE before' = [before EXCEPT ![f] = Seen] /\ Goes(f, "open")
  /\ UNCHANGED <<cache, read>> /\ Steady

Open(f) ==
  /\ pc[f] = "open"
  /\ IF target = "none" THEN Leaves(f, "error")
     ELSE IF ~Regular \/ target # before[f].file THEN Leaves(f, "integrity")
     ELSE Goes(f, "hash")
  /\ UNCHANGED <<cache, before, read>> /\ Steady

(* The open file is read on, also when it is no longer at the target.      *)
Hash(f) ==
  /\ pc[f] = "hash"
  /\ LET data == content[before[f].file]
         next == Len(read[f]) + 1
     IN  IF next <= Len(data)
         THEN read' = [read EXCEPT ![f] = Append(@, data[next])] /\ Goes(f, "hash")
         ELSE read' = read /\ Goes(f, "compare")
  /\ UNCHANGED <<cache, before>> /\ Steady

(* The entry is still the file that lstat saw, unchanged.  As stamps only  *)
(* grow, the comparison of the two fstat results adds nothing to it.       *)
(* Mistake: only its inode is compared.                                    *)
Unchanged_Inode(f) == target = before[f].file
Unchanged(f) == Seen = before[f]

Compare(f) ==
  /\ pc[f] = "compare"
  /\ IF target = "none" THEN Leaves(f, "error")
     ELSE Leaves(f, IF Regular /\ Unchanged(f) /\ Checked(read[f])
                    THEN "result" ELSE "integrity")
  /\ UNCHANGED <<cache, before, read>> /\ Steady

-----------------------------------------------------------------------------
(* An OSError or an interrupt leaves the fetch.  The temporary file stays  *)
(* behind when it hits mkstemp after the file exists, or the unlink.       *)
FailsIn(f) == pc[f] # "create" /\ Leaves(f, "error") /\ temps' = temps

FailsOutside(f) ==
  /\ pc[f] \in {"create", "unlink"}
  /\ pc' = [pc EXCEPT ![f] = "done"]
  /\ outcome' = [outcome EXCEPT ![f] = "error"]
  /\ temps' \in {temps, temps \union {f}}

Fails(f) ==
  /\ pc[f] \notin {"done", "killed"}
  /\ faults < MaxFaults /\ faults' = faults + 1
  /\ FailsIn(f) \/ FailsOutside(f)
  /\ UNCHANGED <<target, content, stamp, before, read, changes>>

(* The process is killed.                                                  *)
Kill(f) ==
  /\ pc[f] \notin {"done", "killed"} /\ Goes(f, "killed")
  /\ faults < MaxFaults /\ faults' = faults + 1
  /\ UNCHANGED <<cache, before, read, changes>>

Fetch(f) ==
  \/ Exists(f) \/ CreateTemp(f) \/ Download(f) \/ EndDownload(f) \/ Link(f)
  \/ Lstat(f) \/ Open(f) \/ Hash(f) \/ Compare(f) \/ Unlink(f)

-----------------------------------------------------------------------------
(* What others do to the entry: overwrite a chunk of it, remove it (as the *)
(* guide tells a user with a corrupt file), or put another file there.     *)
Overwrite ==
  /\ target # "none"
  /\ \E i \in DOMAIN content[target] :
       content' = [content EXCEPT ![target][i] = "bad"]
  /\ Stamped(target)
  /\ UNCHANGED target

Remove ==
  /\ target # "none" /\ target' = "none"
  /\ Stamped(target)
  /\ UNCHANGED content

Place ==
  /\ target # "other" /\ stamp["other"] = 0 /\ target' = "other"
  /\ content' \in {[content EXCEPT !["other"] = data] : data \in {Right, <<"bad">>}}
  /\ stamp' = [i \in Files |-> IF i \in {target, "other"} THEN stamp[i] + 1
                                                          ELSE stamp[i]]

Change ==
  /\ changes < MaxChanges /\ changes' = changes + 1
  /\ Overwrite \/ Remove \/ Place
  /\ UNCHANGED <<temps, fetch, faults>>

Finished == (\A f \in Fetchers : pc[f] \in {"done", "killed"}) /\ UNCHANGED vars

Next == (\E f \in Fetchers : Fetch(f) \/ Fails(f) \/ Kill(f)) \/ Change \/ Finished

Spec == Init /\ [][Next]_vars

-----------------------------------------------------------------------------
(* Every variable of the cache and its fetches keeps its type, no file is   *)
(* downloaded or hashed beyond max_bytes, and a fetch that is over has an  *)
(* outcome, unless it was killed.                                          *)
Data == Seq({"good", "bad"})
TypeOK ==
  /\ target \in Files \union {"none"}
  /\ temps \subseteq Fetchers
  /\ content \in [Files -> Data]
  /\ \A f \in Fetchers : Len(content[f]) <= MaxBytes /\ Len(read[f]) <= MaxBytes
  /\ stamp \in [Files -> Nat]
  /\ pc \in [Fetchers -> {"exists", "create", "download", "link", "lstat", "open",
                          "hash", "compare", "unlink", "done", "killed"}]
  /\ before \in [Fetchers -> [file : Files \union {"none"}, stamp : Nat]]
  /\ read \in [Fetchers -> Data]
  /\ outcome \in [Fetchers -> {"none", "result", "integrity", "error"}]
  /\ \A f \in Fetchers : pc[f] \in {"unlink", "done"} => outcome[f] # "none"
  /\ changes \in 0 .. MaxChanges /\ faults \in 0 .. MaxFaults

(* At the step that decides on a result, the entry holds the artifact: a    *)
(* file that is exchanged or overwritten while verify_artifact hashes it is *)
(* never returned as verified.                                             *)
ReturnsVerified ==
  [][\A f \in Fetchers : outcome'[f] = "result" /\ outcome[f] # "result" =>
        target' # "none" /\ content'[target'] = Right]_vars

(* Whatever fetches race, fail or are killed, they only ever publish the   *)
(* whole artifact, and an entry that is there stays as it is: its file and *)
(* its contents change only when somebody else changes them.               *)
EntriesStay ==
  [][changes' = changes =>
       /\ target' # target => target = "none" /\ content'[target'] = Right
       /\ target # "none" => content'[target] = content[target]]_vars

(* Fetches that were left undisturbed leave a cache that every later fetch *)
(* can use: no temporary files, and an entry with a single link.           *)
CacheUsable ==
  faults = 0 /\ (\A f \in Fetchers : pc[f] = "done") =>
    temps = {} /\ (target # "none" => Regular)

=============================================================================
