----------------------------- MODULE CorpusCache -----------------------------
(***************************************************************************)
(* metria.fidelity.corpora.ensure_wikitext_2: processes that share a cache  *)
(* verify the corpus in it, or fetch its archive (ArtifactCache) and        *)
(* install the archive's members as one directory (extract_verified_zip).   *)
(*                                                                         *)
(* Chunk i of the archive is the member i.  A directory is known by the     *)
(* process that extracted it, "old" is the one found; it holds the members  *)
(* and, when it is in stray, a file of somebody else.                       *)
(***************************************************************************)
EXTENDS ArtifactCache

CONSTANTS
  Found,         \* the directories that may be there at first, or <<>>
  MaxBreaks,     \* bound: failing calls and kills of the extraction
  MaxDisturbs    \* bound: changes that others make to the directory

Members == 1 .. Chunks
Trees   == Fetchers \union {"old"}
Whole   == [i \in Members |-> "right"]

ASSUME CorpusCacheAssumption ==
  /\ "old" \notin Fetchers /\ MaxBreaks \in Nat /\ MaxDisturbs \in Nat
  /\ Found \subseteq {<<>>} \union [Members -> {"right", "bad", "absent"}]

VARIABLES
  at, next,    \* [Fetchers -> program point, and the member it is at]
  src,         \* [Fetchers -> the archive file its extraction has open]
  dir,         \* the directory at the destination, or "none"
  tree,        \* [Trees -> [Members -> right | bad | absent]]
  stray,       \* the directories with a file of somebody else
  previous,    \* [Fetchers -> the directory in its workspace, or "none"]
  spaces,      \* the fetchers whose .extract- workspace exists
  breaks, disturbs,
  late,        \* history: stray files that came when the last check was over
  removed      \* history: somebody removed the directory

process == <<at, next, src>>
bounds  == <<breaks, disturbs>>
store   == <<dir, tree, stray, previous, spaces>>
corpus  == <<process, store, bounds, late, removed>>
allVars == <<vars, corpus>>

CorpusInit ==
  /\ Init
  /\ at = [p \in Fetchers |-> "resolve"] /\ next = [p \in Fetchers |-> 1]
  /\ src = [p \in Fetchers |-> "none"]
  /\ \E found \in Found :
       /\ dir = IF found = <<>> THEN "none" ELSE "old"
       /\ tree = [t \in Trees |-> IF t = "old" /\ found # <<>> THEN found
                                  ELSE [i \in Members |-> "absent"]]
  /\ stray = {} /\ previous = [p \in Fetchers |-> "none"] /\ spaces = {}
  /\ late = {} /\ removed = FALSE /\ breaks = 0 /\ disturbs = 0

Member(i) == IF dir = "none" THEN "absent" ELSE tree[dir][i]
Empty(t)  == t \notin stray /\ \A i \in Members : tree[t][i] = "absent"

Goto(p, point) ==
  /\ at' = [at EXCEPT ![p] = point] /\ next' = [next EXCEPT ![p] = 1]
  /\ UNCHANGED <<src, disturbs, late, removed>>

To(p, point) == Goto(p, point) /\ UNCHANGED breaks

Onward(p, done) ==      \* to the next member, or on once all were seen
  IF next[p] = Chunks THEN To(p, done)
  ELSE /\ next' = [next EXCEPT ![p] = @ + 1] /\ UNCHANGED <<at, src, bounds, late, removed>>

-----------------------------------------------------------------------------
(* ensure_wikitext_2.  A missing member leads to the fetch, a corrupt one   *)
(* to an error.                                                            *)
Resolve(p) ==
  /\ at[p] = "resolve"
  /\ \/ Member(next[p]) = "right" /\ Onward(p, "over")
     \/ Member(next[p]) = "absent" /\ To(p, "fetch")
     \/ Member(next[p]) = "bad" /\ To(p, "over")
  /\ UNCHANGED <<vars, store>>

FetchArchive(p) ==
  /\ at[p] = "fetch"
  /\ \/ (Fetch(p) \/ Fails(p) \/ Kill(p)) /\ UNCHANGED corpus
     \/ /\ pc[p] \in {"done", "killed"}
        /\ To(p, IF outcome[p] = "result" THEN "archive" ELSE "over")
        /\ UNCHANGED <<vars, store>>

(* extract_verified_zip: the archive once more, then what is there already. *)
VerifyArchive(p) ==
  /\ at[p] = "archive"
  /\ To(p, IF target # "none" /\ Regular /\ Checked(content[target])
           THEN "exists" ELSE "over")
  /\ UNCHANGED <<vars, store>>

DirectoryExists(p) ==
  /\ \/ at[p] = "exists" /\ To(p, IF dir = "none" THEN "mkdir" ELSE "check")
     \/ at[p] = "again" /\ To(p, IF dir = "none" THEN "out" ELSE "recheck")
  /\ UNCHANGED <<vars, store>>

(* _check_existing_tree.  Mistake: a file that is not expected is ignored.  *)
OnlyExpected_Any(t) == t # "none"
OnlyExpected(t) == t # "none" /\ t \notin stray

CheckTree(p) ==
  /\ \/ at[p] = "check" /\ To(p, IF OnlyExpected(dir) THEN "cached" ELSE "over")
     \/ at[p] = "recheck" /\ To(p, IF OnlyExpected(dir) THEN "out" ELSE "finally")
  /\ UNCHANGED <<vars, store>>

Cached(p) ==
  /\ at[p] = "cached"
  /\ IF Member(next[p]) = "right" THEN Onward(p, "over") ELSE To(p, "mkdir")
  /\ UNCHANGED <<vars, store>>

MakeWorkspace(p) ==
  /\ at[p] = "mkdir" /\ To(p, "open") /\ spaces' = spaces \union {p}
  /\ UNCHANGED <<vars, dir, tree, stray, previous>>

-----------------------------------------------------------------------------
(* The archive is opened again by its path and its members planned, which   *)
(* refuses one that lacks members.  It stays open when it is unlinked.      *)
OpenArchive(p) ==
  /\ at[p] = "open"
  /\ IF target # "none" /\ Len(content[target]) = Chunks
     THEN /\ src' = [src EXCEPT ![p] = target] /\ at' = [at EXCEPT ![p] = "write"]
          /\ UNCHANGED <<next, bounds, late, removed>>
     ELSE To(p, "finally")
  /\ UNCHANGED <<vars, store>>

(* A member is written and compared with its pin.                           *)
Pinned(chunk) == chunk = "good"

WriteMember(p) ==
  /\ at[p] = "write"
  /\ LET chunk == content[src[p]][next[p]] IN
     /\ tree' = [tree EXCEPT ![p][next[p]] = IF chunk = "good" THEN "right" ELSE "bad"]
     /\ IF Pinned(chunk) THEN Onward(p, "again") ELSE To(p, "finally")
  /\ UNCHANGED <<vars, dir, stray, previous, spaces>>

-----------------------------------------------------------------------------
(* The exchange of the directories.                                        *)
TargetExists(p) ==
  /\ at[p] = "out" /\ To(p, IF dir = "none" THEN "in" ELSE "move")
  /\ UNCHANGED <<vars, store>>

MoveOut(p) ==
  /\ at[p] = "move"
  /\ IF dir = "none" THEN To(p, "restore") /\ UNCHANGED <<dir, previous>>
     ELSE /\ To(p, "in") /\ dir' = "none"
          /\ previous' = [previous EXCEPT ![p] = dir]
  /\ UNCHANGED <<vars, tree, stray, spaces>>

(* os.replace takes the place of an empty directory only.                  *)
MoveIn(p) ==
  /\ at[p] = "in"
  /\ IF dir = "none" \/ Empty(dir) THEN To(p, "finally") /\ dir' = p
     ELSE To(p, "restore") /\ UNCHANGED dir
  /\ UNCHANGED <<vars, tree, stray, previous, spaces>>

Restore(p) ==
  /\ at[p] = "restore" /\ To(p, "finally")
  /\ IF previous[p] # "none" /\ dir = "none"
     THEN dir' = previous[p] /\ previous' = [previous EXCEPT ![p] = "none"]
     ELSE UNCHANGED <<dir, previous>>
  /\ UNCHANGED <<vars, tree, stray, spaces>>

(* The finally block.  Mistake: the workspace is removed whatever it holds. *)
Superseded_Always(p) == TRUE
Superseded(p) == previous[p] = "none" \/ dir # "none"

Finally(p) ==
  /\ at[p] = "finally" /\ To(p, IF Superseded(p) THEN "rmtree" ELSE "over")
  /\ UNCHANGED <<vars, store>>

RemoveWorkspace(p) ==
  /\ at[p] = "rmtree" /\ To(p, "over")
  /\ spaces' = spaces \ {p} /\ stray' = stray \ {previous[p]}
  /\ previous' = [previous EXCEPT ![p] = "none"]
  /\ UNCHANGED <<vars, dir, tree>>

-----------------------------------------------------------------------------
(* A call fails or is interrupted, or the process is killed.               *)
Handler(point) ==
  IF point \in {"move", "in"} THEN "restore"
  ELSE IF point \in {"open", "write", "again", "recheck", "out", "restore"}
       THEN "finally" ELSE "over"

Breaks(p) ==
  /\ at[p] \notin {"fetch", "over"} /\ breaks < MaxBreaks /\ breaks' = breaks + 1
  /\ \/ Goto(p, Handler(at[p])) /\ spaces' \in
          {spaces, IF at[p] = "mkdir" THEN spaces \union {p} ELSE spaces}
     \/ Goto(p, "over") /\ UNCHANGED spaces
  /\ UNCHANGED <<vars, dir, tree, stray, previous>>

(* What others do to the directory.                                        *)
Disturb ==
  /\ dir # "none" /\ disturbs < MaxDisturbs /\ disturbs' = disturbs + 1
  /\ \/ /\ stray' = stray \union {dir}
        /\ late' = IF \E p \in Fetchers : at[p] \in {"out", "move"}
                   THEN late \union {dir} ELSE late
        /\ UNCHANGED <<dir, tree, removed>>
     \/ /\ \E i \in Members, state \in {"bad", "absent"} :
             tree' = [tree EXCEPT ![dir][i] = state]
        /\ UNCHANGED <<dir, stray, late, removed>>
     \/ /\ dir' = "none" /\ removed' = TRUE /\ stray' = stray \ {dir}
        /\ UNCHANGED <<tree, late>>
  /\ UNCHANGED <<vars, process, previous, spaces, breaks>>

Extract(p) ==
  \/ VerifyArchive(p) \/ DirectoryExists(p) \/ CheckTree(p) \/ Cached(p) \/ MakeWorkspace(p)
  \/ OpenArchive(p) \/ WriteMember(p) \/ TargetExists(p) \/ MoveOut(p) \/ MoveIn(p)
  \/ Restore(p) \/ Finally(p) \/ RemoveWorkspace(p)

CorpusFinished == (\A p \in Fetchers : at[p] = "over") /\ UNCHANGED allVars

CorpusNext ==
  \/ \E p \in Fetchers : Resolve(p) \/ FetchArchive(p) \/ Extract(p) \/ Breaks(p)
  \/ Change /\ UNCHANGED corpus
  \/ Disturb
  \/ CorpusFinished

CorpusSpec == CorpusInit /\ [][CorpusNext]_allVars

-----------------------------------------------------------------------------
Alone == changes' = changes /\ disturbs' = disturbs      \* a step of one of the processes

(* The directory at the destination is installed whole, with the pinned     *)
(* bytes of every member, though the archive may be exchanged after it was  *)
(* verified; or it is the one that was there before, as it was.             *)
InstalledWhole ==
  dir' # dir /\ dir' # "none" =>
    \/ tree'[dir'] = Whole /\ dir' \notin stray'
    \/ dir' \in {previous[p] : p \in Fetchers} /\ tree'[dir'] = tree[dir']

(* Unexpected user files are never removed to make room for a download: a   *)
(* file of somebody else in the directory stays, unless it came between the *)
(* last look at the directory and its exchange.                             *)
DirectoryOwned ==
  [][Alone => InstalledWhole /\ stray \ late \subseteq stray']_allVars

(* "Failed replacement restores that previous cache": however the processes *)
(* interleave, fail or are killed, there is always a copy of a corpus that  *)
(* was there once, at the destination or kept in a workspace.               *)
Copies == ({dir} \union {previous[p] : p \in Fetchers}) \ {"none"}

CopyRetained ==
  [][Alone /\ ~removed /\ Copies # {} => Copies' # {}]_allVars

=============================================================================
