-------------------------- MODULE CorpusCacheProofs --------------------------
(***************************************************************************)
(* Proofs about ArtifactCache and CorpusCache, for any number of processes, *)
(* any length of the artifact, any limit, and any number of faults, kills   *)
(* and outside changes.  The fetches of ensure_wikitext_2 are the ones of   *)
(* ArtifactCache: no step of the corpus directory touches the cache of      *)
(* archives, so what is proved of the fetches holds of the whole.           *)
(***************************************************************************)
EXTENDS CorpusCache, SequenceTheorems, TLAPS

-----------------------------------------------------------------------------
LEMMA AppendFacts ==
  ASSUME NEW s \in Data, NEW c \in {"good", "bad"}
  PROVE  /\ Append(s, c) \in Data
         /\ Len(Append(s, c)) = Len(s) + 1
         /\ \A i \in 1 .. Len(s) : Append(s, c)[i] = s[i]
         /\ Append(s, c)[Len(s) + 1] = c
  BY AppendProperties DEF Data

(* Two sequences of the same length and with the same chunks are equal.    *)
LEMMA SameChunks ==
  ASSUME NEW s \in Data, NEW t \in Data, Len(s) = Len(t),
         \A i \in 1 .. Len(s) : s[i] = t[i]
  PROVE  s = t
  BY SeqEqual DEF Data

LEMMA RightIsData == Right \in Data
<1>1. Right \in [1 .. Chunks -> {"good", "bad"}] /\ Chunks \in Nat
  BY ArtifactCacheAssumption DEF Right
<1> QED BY <1>1 DEF Data

-----------------------------------------------------------------------------
(* The inductive invariant.  A fetch that has not linked its temporary     *)
(* file yet is not at the target, and its download is right once checked;  *)
(* a verification has read what its file holds, unless the file has been   *)
(* stamped since lstat saw it.                                             *)
Fetching == {"exists", "create", "download", "link"}
Reading  == {"open", "hash", "compare"}
Steps    == Fetching \union Reading \union {"lstat", "unlink", "done", "killed"}

CacheTypes ==
  /\ target \in Files \union {"none"}
  /\ temps \subseteq Fetchers
  /\ content \in [Files -> Data]
  /\ stamp \in [Files -> Nat]
  /\ pc \in [Fetchers -> Steps]
  /\ before \in [Fetchers -> [file : Files \union {"none"}, stamp : Nat]]
  /\ read \in [Fetchers -> Data]
  /\ outcome \in [Fetchers -> {"none", "result", "integrity", "error"}]

Unlinked(f) ==
  /\ pc[f] \in Fetching => target # f
  /\ pc[f] = "link" => content[f] = Right

Agrees(data, whole) ==
  /\ Len(data) <= Len(whole)
  /\ \A i \in 1 .. Len(data) : data[i] = whole[i]

Follows(f) ==
  /\ pc[f] \in Fetching \union {"lstat", "open"} => read[f] = <<>>
  /\ pc[f] \in Reading =>
       LET i == before[f].file
       IN  /\ i \in Files /\ before[f].stamp <= stamp[i]
           /\ before[f].stamp = stamp[i] =>
                /\ Agrees(read[f], content[i])
                /\ pc[f] = "compare" => Len(read[f]) = Len(content[i])

CacheInv == CacheTypes /\ \A f \in Fetchers : Unlinked(f) /\ Follows(f)

LEMMA CacheInit == Init => CacheInv
  BY ArtifactCacheAssumption DEF Init, CacheInv, CacheTypes, Unlinked, Follows,
     Files, Unseen, Data, Steps, Fetching, Reading

(* A change of a file stamps it, so what others had read of it no longer   *)
(* counts.                                                                 *)
LEMMA FollowsChanged ==
  ASSUME CacheInv, CacheTypes', NEW g \in Fetchers,
         UNCHANGED <<pc[g], before[g], read[g]>>,
         \A j \in Files : \/ stamp'[j] = stamp[j] + 1
                          \/ stamp'[j] = stamp[j] /\ content'[j] = content[j]
  PROVE  Follows(g)'
  BY DEF CacheInv, CacheTypes, Follows, Agrees

LEMMA FollowsStamped ==
  ASSUME CacheInv, CacheTypes', NEW i \in Files, NEW g \in Fetchers,
         UNCHANGED <<pc[g], before[g], read[g]>>,
         stamp' = [stamp EXCEPT ![i] = @ + 1],
         \A j \in Files \ {i} : content'[j] = content[j]
  PROVE  Follows(g)'
<1>1. \A j \in Files : \/ stamp'[j] = stamp[j] + 1
                       \/ stamp'[j] = stamp[j] /\ content'[j] = content[j]
  BY DEF CacheInv, CacheTypes
<1> QED BY <1>1, FollowsChanged

LEMMA FollowsSteady ==
  ASSUME CacheInv, NEW g \in Fetchers,
         UNCHANGED <<pc[g], before[g], read[g], stamp, content>>
  PROVE  Follows(g)'
  BY DEF CacheInv, Follows, Agrees

(* The steps of a fetch that leave every file as it is.                    *)
Looks(f) ==
  \/ Exists(f) \/ CreateTemp(f) \/ EndDownload(f) \/ Lstat(f) \/ Open(f)
  \/ Compare(f) \/ Fails(f) \/ Kill(f)

LEMMA LooksStep ==
  ASSUME CacheInv, NEW f \in Fetchers, Looks(f)
  PROVE  CacheInv'
<1> USE DEF CacheInv, Looks, Exists, CreateTemp, EndDownload, Lstat, Open, Compare,
        Fails, FailsIn, FailsOutside, Kill, Goes, Leaves, Steady, cache
<1>1. UNCHANGED <<target, content, stamp, read>>
  OBVIOUS
<1>2. CacheTypes'
  <2>1. pc' \in [Fetchers -> Steps]
    BY DEF CacheTypes, Steps, Fetching, Reading
  <2>2. before' \in [Fetchers -> [file : Files \union {"none"}, stamp : Nat]]
    <3>1. \/ before' = before
          \/ target # "none" /\ before' = [before EXCEPT ![f] = Seen]
      OBVIOUS
    <3>2. target # "none" => Seen \in [file : Files \union {"none"}, stamp : Nat]
      BY DEF CacheTypes, Seen
    <3> QED BY <3>1, <3>2 DEF CacheTypes
  <2>3. outcome' \in [Fetchers -> {"none", "result", "integrity", "error"}]
    BY DEF CacheTypes
  <2>4. temps' \subseteq Fetchers
    BY DEF CacheTypes
  <2> QED BY <1>1, <2>1, <2>2, <2>3, <2>4 DEF CacheTypes
<1>3. ASSUME NEW g \in Fetchers \ {f} PROVE Unlinked(g)' /\ Follows(g)'
  <2>1. UNCHANGED <<pc[g], before[g], read[g]>>
    BY <1>1 DEF CacheTypes
  <2> QED BY <1>1, <2>1, FollowsSteady DEF Unlinked
<1>4. Unlinked(f)'
  BY <1>1 DEF Unlinked, CacheTypes, Fetching, Checked
<1>5. Follows(f)'
  <2>1. CASE Lstat(f)
    BY <1>1, <2>1 DEF Follows, CacheTypes, Fetching, Reading, Seen, Agrees, Data
  <2>2. CASE Open(f)
    BY <1>1, <2>2 DEF Follows, CacheTypes, Fetching, Reading
  <2>3. CASE ~Lstat(f) /\ ~Open(f)
    <3>1. before' = before /\ pc[f]' \notin Reading
      BY <2>3 DEF CacheTypes, Reading
    <3>2. pc[f]' \in Fetching \union {"lstat"} => pc[f] \in Fetching
      BY <2>3 DEF CacheTypes, Fetching
    <3> QED BY <1>1, <3>1, <3>2 DEF Follows, CacheTypes, Reading, Fetching
  <2> QED BY <2>1, <2>2, <2>3
<1> QED BY <1>2, <1>3, <1>4, <1>5

LEMMA HashStep ==
  ASSUME CacheInv, NEW f \in Fetchers, Hash(f)
  PROVE  CacheInv'
<1> DEFINE data == content[before[f].file]
           upto == Len(read[f]) + 1
<1> USE DEF CacheInv, Hash, Goes, Steady, cache
<1>1. before[f].file \in Files /\ data \in Data /\ read[f] \in Data
  BY DEF CacheTypes, Follows, Reading
<1>2. Len(data) \in Nat /\ Len(read[f]) \in Nat
  BY <1>1 DEF Data
<1>3. /\ UNCHANGED <<target, temps, content, stamp, before, outcome>>
      /\ pc[f] = "hash"
  OBVIOUS
<1>4. \/ /\ upto <= Len(data)
         /\ read' = [read EXCEPT ![f] = Append(@, data[upto])]
         /\ pc' = [pc EXCEPT ![f] = "hash"]
      \/ ~(upto <= Len(data)) /\ read' = read /\ pc' = [pc EXCEPT ![f] = "compare"]
  OBVIOUS
<1>5. upto <= Len(data) =>
        /\ data[upto] \in {"good", "bad"}
        /\ Append(read[f], data[upto]) \in Data
        /\ Len(Append(read[f], data[upto])) = upto
        /\ \A i \in 1 .. Len(read[f]) : Append(read[f], data[upto])[i] = read[f][i]
        /\ Append(read[f], data[upto])[upto] = data[upto]
  <2> SUFFICES ASSUME upto <= Len(data)
               PROVE  /\ data[upto] \in {"good", "bad"}
                      /\ Append(read[f], data[upto]) \in Data
                      /\ Len(Append(read[f], data[upto])) = upto
                      /\ \A i \in 1 .. Len(read[f]) :
                           Append(read[f], data[upto])[i] = read[f][i]
                      /\ Append(read[f], data[upto])[upto] = data[upto]
    OBVIOUS
  <2>1. data[upto] \in {"good", "bad"}
    BY <1>1, <1>2 DEF Data
  <2> QED BY <1>1, <2>1, AppendFacts
<1>6. CacheTypes'
  <2>1. read' \in [Fetchers -> Data]
    <3>1. read' = read \/ \E d \in Data : read' = [read EXCEPT ![f] = d]
      BY <1>4, <1>5
    <3> QED BY <3>1 DEF CacheTypes
  <2>2. pc' \in [Fetchers -> Steps]
    BY <1>4 DEF CacheTypes, Steps, Reading
  <2> QED BY <1>3, <2>1, <2>2 DEF CacheTypes
<1>7. ASSUME NEW g \in Fetchers \ {f} PROVE Unlinked(g)' /\ Follows(g)'
  <2>1. UNCHANGED <<pc[g], before[g], read[g]>>
    BY <1>3, <1>4 DEF CacheTypes
  <2> QED BY <1>3, <2>1, FollowsSteady DEF Unlinked
<1>8. pc[f]' \in {"hash", "compare"}
  BY <1>4 DEF CacheTypes
<1>9. Unlinked(f)'
  BY <1>8 DEF Unlinked, Fetching
<1>10. Follows(f)'
  <2>1. ASSUME before[f].stamp = stamp[before[f].file]
        PROVE  /\ Agrees(read'[f], data)
               /\ pc'[f] = "compare" => Len(read'[f]) = Len(data)
    <3>1. Agrees(read[f], data)
      BY <1>3, <2>1 DEF Follows, Reading
    <3>2. CASE upto <= Len(data)
      <4>1. read'[f] = Append(read[f], data[upto]) /\ pc'[f] = "hash"
        BY <1>4, <3>2 DEF CacheTypes
      <4> QED BY <1>2, <1>5, <3>1, <3>2, <4>1 DEF Agrees
    <3>3. CASE ~(upto <= Len(data))
      <4>1. read'[f] = read[f]
        BY <1>4, <3>3
      <4> QED BY <1>2, <3>1, <3>3, <4>1 DEF Agrees
    <3> QED BY <3>2, <3>3
  <2> QED BY <1>1, <1>3, <1>8, <2>1 DEF Follows, Fetching, Reading
<1> QED BY <1>6, <1>7, <1>9, <1>10

LEMMA DownloadStep ==
  ASSUME CacheInv, NEW f \in Fetchers, Download(f)
  PROVE  CacheInv'
<1> USE DEF CacheInv, Download, Leaves, Stamped, Steady
<1>1. /\ f \in Files /\ pc[f] = "download" /\ target # f
      /\ UNCHANGED <<target, temps, before, read>>
  BY DEF Files, Unlinked, Fetching
<1>2. CASE Exceeds(Len(content[f]) + 1)
  <2>1. CacheTypes'
    BY <1>1, <1>2 DEF CacheTypes, Steps
  <2>2. ASSUME NEW g \in Fetchers \ {f} PROVE Unlinked(g)' /\ Follows(g)'
    <3>1. UNCHANGED <<pc[g], before[g], read[g], stamp, content>>
      BY <1>1, <1>2 DEF CacheTypes
    <3> QED BY <1>1, <3>1, FollowsSteady DEF Unlinked
  <2>3. pc'[f] \in {"unlink", "done"}
    BY <1>2 DEF CacheTypes
  <2>4. Unlinked(f)' /\ Follows(f)'
    BY <2>3 DEF Unlinked, Follows, Fetching, Reading
  <2> QED BY <2>1, <2>2, <2>4
<1>3. CASE ~Exceeds(Len(content[f]) + 1)
  <2>1. PICK chunk \in {"good", "bad"} :
          content' = [content EXCEPT ![f] = Append(@, chunk)]
    BY <1>3
  <2>2. stamp' = [stamp EXCEPT ![f] = @ + 1] /\ UNCHANGED <<pc, outcome>>
    BY <1>3
  <2>3. CacheTypes'
    <3>1. content' \in [Files -> Data]
      BY <1>1, <2>1, AppendFacts DEF CacheTypes
    <3>2. stamp' \in [Files -> Nat]
      BY <1>1, <2>2 DEF CacheTypes
    <3> QED BY <1>1, <2>2, <3>1, <3>2 DEF CacheTypes
  <2>4. \A j \in Files \ {f} : content'[j] = content[j]
    BY <2>1 DEF CacheTypes
  <2>5. ASSUME NEW g \in Fetchers PROVE Follows(g)'
    BY <1>1, <2>2, <2>3, <2>4, FollowsStamped
  <2>6. ASSUME NEW g \in Fetchers PROVE Unlinked(g)'
    BY <1>1, <2>2, <2>4 DEF Unlinked, Files, Fetching
  <2> QED BY <2>3, <2>5, <2>6
<1> QED BY <1>2, <1>3

LEMMA LinkStep ==
  ASSUME CacheInv, NEW f \in Fetchers, Link(f)
  PROVE  CacheInv'
<1> USE DEF CacheInv, Link, Goes, Leaves, Stamped, Steady
<1>1. /\ f \in Files /\ pc[f] = "link"
      /\ UNCHANGED <<temps, content, before, read>>
  BY DEF Files
<1>2. /\ \E to \in {"lstat", "unlink", "done"} : pc' = [pc EXCEPT ![f] = to]
      /\ \E how \in {"result", outcome[f]} : outcome' = [outcome EXCEPT ![f] = how]
  BY DEF CacheTypes
<1>3. /\ pc' \in [Fetchers -> Steps]
      /\ pc'[f] \in {"lstat", "unlink", "done"}
      /\ \A g \in Fetchers \ {f} : pc'[g] = pc[g]
      /\ outcome' \in [Fetchers -> {"none", "result", "integrity", "error"}]
  BY <1>2 DEF CacheTypes, Steps
<1>4. /\ target' \in {target, f}
      /\ stamp' = stamp \/ stamp' = [stamp EXCEPT ![f] = @ + 1]
  OBVIOUS
<1>5. CacheTypes'
  <2>1. target' \in Files \union {"none"} /\ stamp' \in [Files -> Nat]
    BY <1>1, <1>4 DEF CacheTypes
  <2> QED BY <1>1, <1>3, <2>1 DEF CacheTypes
<1>6. ASSUME NEW g \in Fetchers \ {f} PROVE Unlinked(g)' /\ Follows(g)'
  <2>1. UNCHANGED <<pc[g], before[g], read[g], content>>
    BY <1>1, <1>3
  <2>2. Follows(g)'
    BY <1>1, <1>4, <1>5, <2>1, FollowsStamped, FollowsSteady
  <2> QED BY <1>4, <2>1, <2>2 DEF Unlinked
<1>7. Unlinked(f)' /\ Follows(f)'
  <2>1. pc'[f] = "lstat" => read'[f] = <<>>
    BY <1>1 DEF Follows, Fetching
  <2> QED BY <1>3, <2>1 DEF Unlinked, Follows, Fetching, Reading
<1> QED BY <1>5, <1>6, <1>7

LEMMA UnlinkStep ==
  ASSUME CacheInv, NEW f \in Fetchers, Unlink(f)
  PROVE  CacheInv'
<1> USE DEF CacheInv, Unlink, Goes, Stamped, Steady
<1>1. /\ f \in Files /\ pc' = [pc EXCEPT ![f] = "done"]
      /\ stamp' = [stamp EXCEPT ![f] = @ + 1]
      /\ UNCHANGED <<target, content, before, read, outcome>>
  BY DEF Files
<1>2. CacheTypes'
  BY <1>1 DEF CacheTypes, Steps, Discarded
<1>3. ASSUME NEW g \in Fetchers \ {f} PROVE Unlinked(g)' /\ Follows(g)'
  <2>1. UNCHANGED <<pc[g], before[g], read[g]>>
    BY <1>1 DEF CacheTypes
  <2> QED BY <1>1, <1>2, <2>1, FollowsStamped DEF Unlinked
<1>4. pc'[f] = "done"
  BY <1>1 DEF CacheTypes
<1> QED BY <1>2, <1>3, <1>4 DEF Unlinked, Follows, Fetching, Reading

LEMMA PlaceStamps ==
  ASSUME CacheTypes, Place
  PROVE  /\ target' = "other"
         /\ \A i \in Files :
              stamp'[i] = IF i \in {target, "other"} THEN stamp[i] + 1 ELSE stamp[i]
         /\ stamp' \in [Files -> Nat]
<1>1. target' = "other"
  BY DEF Place
<1>2. stamp' = [i \in Files |-> IF i \in {target, "other"} THEN stamp[i] + 1
                                                         ELSE stamp[i]]
  BY Zenon DEF Place
<1>3. \A i \in Files : stamp[i] \in Nat
  BY DEF CacheTypes
<1> QED BY <1>1, <1>2, <1>3

LEMMA ChangeStep ==
  ASSUME CacheInv, Change
  PROVE  CacheInv'
<1> USE DEF CacheInv, Change
<1>1. UNCHANGED <<temps, pc, before, read, outcome>>
  BY DEF fetch
<1>2. "other" \in Files /\ "other" \notin Fetchers /\ "none" \notin Fetchers
  BY ArtifactCacheAssumption DEF Files
<1>3. /\ target' \in {target, "none", "other"}
      /\ \A j \in Files : \/ stamp'[j] = stamp[j] + 1
                          \/ stamp'[j] = stamp[j] /\ content'[j] = content[j]
      /\ \A f \in Fetchers : f # target => content'[f] = content[f]
      /\ stamp' \in [Files -> Nat] /\ content' \in [Files -> Data]
  <2>1. CASE Overwrite
    <3>1. target \in Files
      BY <2>1 DEF Overwrite, CacheTypes
    <3>2. PICK i \in DOMAIN content[target] :
            content' = [content EXCEPT ![target] = [@ EXCEPT ![i] = "bad"]]
      BY <2>1 DEF Overwrite
    <3>3. content[target] \in Seq({"good", "bad"})
      BY <3>1 DEF CacheTypes, Data
    <3>4. [content[target] EXCEPT ![i] = "bad"] \in Data
      BY <3>2, <3>3, LenProperties, ExceptSeq DEF Data
    <3>5. stamp' = [stamp EXCEPT ![target] = @ + 1] /\ target' = target
      BY <2>1 DEF Overwrite, Stamped
    <3>6. stamp' \in [Files -> Nat] /\ content' \in [Files -> Data]
      BY <3>1, <3>2, <3>4, <3>5 DEF CacheTypes
    <3> QED BY <3>1, <3>2, <3>5, <3>6 DEF CacheTypes, Files
  <2>2. CASE Remove
    <3>1. target \in Files
      BY <2>2 DEF Remove, CacheTypes
    <3>2. /\ stamp' = [stamp EXCEPT ![target] = @ + 1]
          /\ target' = "none" /\ content' = content
      BY <2>2 DEF Remove, Stamped
    <3> QED BY <3>1, <3>2 DEF CacheTypes
  <2>3. CASE Place
    <3>1. <<"bad">> \in Data
      BY DEF Data
    <3>2. PICK data \in Data : content' = [content EXCEPT !["other"] = data]
      BY <2>3, <3>1, RightIsData DEF Place
    <3>3. /\ target' = "other"
          /\ \A i \in Files :
               stamp'[i] = IF i \in {target, "other"} THEN stamp[i] + 1 ELSE stamp[i]
          /\ stamp' \in [Files -> Nat]
      BY <2>3, PlaceStamps
    <3>4. content' \in [Files -> Data]
      BY <3>2 DEF CacheTypes
    <3>5. \A j \in Files : j # "other" => content'[j] = content[j]
      BY <3>2 DEF CacheTypes
    <3> QED BY <1>2, <3>3, <3>4, <3>5 DEF CacheTypes, Files
  <2> QED BY <2>1, <2>2, <2>3
<1>4. CacheTypes'
  BY <1>1, <1>2, <1>3 DEF CacheTypes
<1>5. ASSUME NEW g \in Fetchers PROVE Unlinked(g)' /\ Follows(g)'
  <2>1. Follows(g)'
    BY <1>1, <1>3, <1>4, FollowsChanged
  <2>2. Unlinked(g)'
    BY <1>1, <1>2, <1>3 DEF Unlinked, Fetching
  <2> QED BY <2>1, <2>2
<1> QED BY <1>4, <1>5

LEMMA CacheStep == CacheInv /\ [Next]_vars => CacheInv'
<1> SUFFICES ASSUME CacheInv, [Next]_vars PROVE CacheInv'
  OBVIOUS
<1>1. ASSUME NEW f \in Fetchers, Fetch(f) \/ Fails(f) \/ Kill(f) PROVE CacheInv'
  BY <1>1, LooksStep, HashStep, DownloadStep, LinkStep, UnlinkStep DEF Fetch, Looks
<1>2. CASE Change
  BY <1>2, ChangeStep
<1>3. CASE UNCHANGED vars
  <2>1. CacheTypes'
    BY <1>3 DEF vars, cache, fetch, CacheInv, CacheTypes
  <2>2. ASSUME NEW g \in Fetchers PROVE Unlinked(g)' /\ Follows(g)'
    BY <1>3, FollowsSteady DEF vars, cache, fetch, CacheInv, Unlinked
  <2> QED BY <2>1, <2>2 DEF CacheInv
<1> QED BY <1>1, <1>2, <1>3 DEF Next, Finished

LEMMA CacheAlways == Spec => []CacheInv
  BY CacheInit, CacheStep, PTL DEF Spec

-----------------------------------------------------------------------------
(* Which steps decide on a result, and which ones touch the entry.         *)
LEMMA Deciders ==
  ASSUME CacheInv, Next, NEW f \in Fetchers,
         outcome'[f] = "result", outcome[f] # "result"
  PROVE  Link(f) \/ Compare(f)
<1>1. PICK g \in Fetchers : Fetch(g) \/ Fails(g) \/ Kill(g)
  BY DEF Next, Change, Finished, vars, fetch
<1>2. \/ Link(g) \/ Compare(g)
      \/ outcome' = outcome
      \/ \E how \in {"integrity", "error"} : outcome' = [outcome EXCEPT ![g] = how]
  BY <1>1 DEF Fetch, Exists, CreateTemp, Download, EndDownload, Lstat, Open, Hash,
     Unlink, Fails, FailsIn, FailsOutside, Kill, Goes, Leaves
<1>3. Link(g) \/ Compare(g)
  BY <1>2 DEF CacheInv, CacheTypes
<1>4. \E how \in {"result", "integrity", "error", outcome[g]} :
        outcome' = [outcome EXCEPT ![g] = how]
  BY <1>3 DEF Link, Compare, Goes, Leaves, CacheInv, CacheTypes
<1>5. g = f
  BY <1>4 DEF CacheInv, CacheTypes
<1> QED BY <1>3, <1>5

(* A fetch decides on a result only when the entry at the target holds the *)
(* artifact at that very step, whatever others do to the cache meanwhile.  *)
THEOREM VerifiedWhenReturned == Spec => ReturnsVerified
<1>1. CacheInv /\ [Next]_vars =>
        [\A f \in Fetchers : outcome'[f] = "result" /\ outcome[f] # "result" =>
           target' # "none" /\ content'[target'] = Right]_vars
  <2> SUFFICES ASSUME CacheInv, Next, NEW f \in Fetchers,
                      outcome'[f] = "result", outcome[f] # "result"
               PROVE  target' # "none" /\ content'[target'] = Right
    OBVIOUS
  <2>1. CASE Link(f)
    <3>1. pc[f] = "link" /\ content[f] = Right /\ content' = content
      BY <2>1 DEF Link, CacheInv, Unlinked
    <3>2. target' = f
      BY <2>1 DEF Link, Goes
    <3> QED BY <3>1, <3>2, ArtifactCacheAssumption
  <2>2. CASE Compare(f)
    <3>1. /\ target # "none" /\ Regular /\ Unchanged(f) /\ read[f] = Right
          /\ pc[f] = "compare" /\ UNCHANGED <<target, content>>
      BY <2>2 DEF Compare, Leaves, Checked, cache, CacheInv, CacheTypes
    <3>2. before[f].file = target /\ before[f].stamp = stamp[target]
      BY <3>1 DEF Unchanged, Seen
    <3>3. /\ target \in Files /\ read[f] \in Data /\ content[target] \in Data
          /\ Agrees(read[f], content[target])
          /\ Len(read[f]) = Len(content[target])
      BY <3>1, <3>2 DEF CacheInv, CacheTypes, Follows, Reading
    <3>4. read[f] = content[target]
      BY <3>3, SameChunks DEF Agrees
    <3> QED BY <3>1, <3>4
  <2> QED BY <2>1, <2>2, Deciders
<1> QED BY <1>1, CacheAlways, PTL DEF Spec, ReturnsVerified

(* Fetches only ever publish the whole artifact, and never replace or      *)
(* change an entry that is there.                                          *)
THEOREM EntriesAreKept == Spec => EntriesStay
<1>1. CacheInv /\ [Next]_vars =>
        [changes' = changes =>
           /\ target' # target => target = "none" /\ content'[target'] = Right
           /\ target # "none" => content'[target] = content[target]]_vars
  <2> SUFFICES ASSUME CacheInv, Next, changes' = changes
               PROVE  /\ target' # target =>
                           target = "none" /\ content'[target'] = Right
                      /\ target # "none" => content'[target] = content[target]
    OBVIOUS
  <2>1. CASE Change
    BY <2>1, ArtifactCacheAssumption DEF Change
  <2>2. CASE UNCHANGED vars
    BY <2>2 DEF vars, cache
  <2>3. ASSUME NEW f \in Fetchers, Download(f)
        PROVE  target' = target /\ (target # "none" => content'[target] = content[target])
    BY <2>3 DEF Download, CacheInv, CacheTypes, Unlinked, Fetching
  <2>4. ASSUME NEW f \in Fetchers, Link(f)
        PROVE  /\ target' # target => target = "none" /\ content'[target'] = Right
               /\ content' = content
    BY <2>4 DEF Link, Vacant, CacheInv, Unlinked
  <2>5. ASSUME NEW f \in Fetchers, Looks(f) \/ Hash(f) \/ Unlink(f)
        PROVE  target' = target /\ content' = content
    BY <2>5 DEF Looks, Exists, CreateTemp, EndDownload, Lstat, Open, Compare, Fails,
       Kill, Hash, Unlink, cache
  <2> QED BY <2>1, <2>2, <2>3, <2>4, <2>5 DEF Next, Finished, Fetch, Looks
<1> QED BY <1>1, CacheAlways, PTL DEF Spec, EntriesStay

-----------------------------------------------------------------------------
(* A fetch that is over left no temporary file, unless something failed.   *)
Tidy == faults \in Nat /\ (faults = 0 => \A f \in temps : pc[f] # "done")

LEMMA TidyStep == CacheInv /\ Tidy /\ [Next]_vars => Tidy'
<1> SUFFICES ASSUME CacheInv, Tidy, [Next]_vars PROVE Tidy'
  OBVIOUS
<1> USE DEF CacheInv, CacheTypes, Tidy
<1>1. ASSUME NEW f \in Fetchers, Fails(f) \/ Kill(f) PROVE Tidy'
  BY <1>1 DEF Fails, Kill
<1>2. ASSUME NEW f \in Fetchers, Unlink(f) PROVE Tidy'
  BY <1>2 DEF Unlink, Goes, Discarded, Steady
<1>3. ASSUME NEW f \in Fetchers, CreateTemp(f) PROVE Tidy'
  BY <1>3 DEF CreateTemp, Goes, Steady
<1>4. ASSUME NEW f \in Fetchers, Fetch(f), ~Unlink(f), ~CreateTemp(f) PROVE Tidy'
  <2>1. UNCHANGED <<temps, faults>>
    BY <1>4 DEF Fetch, Exists, Download, EndDownload, Link, Lstat, Open, Hash, Compare,
       Steady, cache
  <2>2. \/ \E to \in Steps \ {"done"} : pc' = [pc EXCEPT ![f] = to]
        \/ pc' = [pc EXCEPT ![f] = IF f \in temps THEN "unlink" ELSE "done"]
        \/ pc' = pc
    BY <1>4 DEF Fetch, Exists, Download, EndDownload, Link, Lstat, Open, Hash, Compare,
       Goes, Leaves, Steps, Fetching, Reading
  <2> QED BY <2>1, <2>2
<1>5. CASE Change \/ UNCHANGED vars
  BY <1>5 DEF Change, fetch, vars, cache
<1> QED BY <1>1, <1>2, <1>3, <1>4, <1>5 DEF Next, Finished

(* Fetches that nothing failed leave no temporary file and an entry with a  *)
(* single link, which verify_artifact accepts from every later fetch.      *)
THEOREM CacheStaysUsable == Spec => []CacheUsable
<1>1. Init => Tidy
  BY DEF Init, Tidy
<1>2. CacheInv /\ Tidy => CacheUsable
  BY DEF CacheInv, CacheTypes, Tidy, CacheUsable, Regular, Links
<1> QED BY <1>1, <1>2, CacheAlways, TidyStep, PTL DEF Spec

-----------------------------------------------------------------------------
(* The steps of the extraction, and of others on the corpus directory,      *)
(* leave the archive cache and its fetches alone.                          *)
LEMMA DirectoryStepsStutter ==
  ASSUME NEW p \in Fetchers, Resolve(p) \/ Extract(p) \/ Breaks(p)
  PROVE  UNCHANGED vars
<1>1. Resolve(p) => UNCHANGED vars
  BY DEF Resolve
<1>2. Breaks(p) => UNCHANGED vars
  BY DEF Breaks
<1>3. Extract(p) => UNCHANGED vars
  <2>1. VerifyArchive(p) => UNCHANGED vars
    BY DEF VerifyArchive
  <2>2. DirectoryExists(p) => UNCHANGED vars
    BY DEF DirectoryExists
  <2>3. CheckTree(p) => UNCHANGED vars
    BY DEF CheckTree
  <2>4. Cached(p) => UNCHANGED vars
    BY DEF Cached
  <2>5. MakeWorkspace(p) => UNCHANGED vars
    BY DEF MakeWorkspace
  <2>6. OpenArchive(p) => UNCHANGED vars
    BY DEF OpenArchive
  <2>7. WriteMember(p) => UNCHANGED vars
    BY DEF WriteMember
  <2>8. TargetExists(p) => UNCHANGED vars
    BY DEF TargetExists
  <2>9. MoveOut(p) => UNCHANGED vars
    BY DEF MoveOut
  <2>10. MoveIn(p) => UNCHANGED vars
    BY DEF MoveIn
  <2>11. Restore(p) => UNCHANGED vars
    BY DEF Restore
  <2>12. Finally(p) => UNCHANGED vars
    BY DEF Finally
  <2>13. RemoveWorkspace(p) => UNCHANGED vars
    BY DEF RemoveWorkspace
  <2> QED
    BY <2>1, <2>2, <2>3, <2>4, <2>5, <2>6, <2>7, <2>8, <2>9, <2>10, <2>11, <2>12, <2>13 DEF Extract
<1> QED
  BY <1>1, <1>2, <1>3

(* A step of a process that fetches is a step of ArtifactCache.            *)
LEMMA FetchingFetches ==
  ASSUME NEW p \in Fetchers, FetchArchive(p)
  PROVE  [Next]_vars
BY DEF FetchArchive, Next

(* ensure_wikitext_2 implements fetch_artifact: seen from the archive       *)
(* cache, its processes are fetches, with every failure and every change.   *)
THEOREM CorpusImplementsFetch == CorpusSpec => Spec
<1>1. CorpusInit => Init
  BY DEF CorpusInit
<1>2. [CorpusNext]_allVars => [Next]_vars
  <2> SUFFICES ASSUME [CorpusNext]_allVars PROVE [Next]_vars
    OBVIOUS
  <2>1. CASE \E p \in Fetchers : Resolve(p) \/ Extract(p) \/ Breaks(p)
    BY <2>1, DirectoryStepsStutter
  <2>2. CASE \E p \in Fetchers : FetchArchive(p)
    BY <2>2, FetchingFetches
  <2>3. CASE Change /\ UNCHANGED corpus
    BY <2>3 DEF Next
  <2>4. CASE Disturb
    BY <2>4 DEF Disturb
  <2>5. CASE CorpusFinished \/ UNCHANGED allVars
    BY <2>5 DEF CorpusFinished, allVars
  <2> QED
    BY <2>1, <2>2, <2>3, <2>4, <2>5 DEF CorpusNext
<1> QED
  BY <1>1, <1>2, PTL DEF CorpusSpec, Spec

(* Whatever the processes of ensure_wikitext_2 do to the directory, fail    *)
(* or are killed, archives are only published whole and stay.              *)
THEOREM CorpusKeepsEntries == CorpusSpec => EntriesStay
BY CorpusImplementsFetch, EntriesAreKept, PTL

(* An archive is returned to the extraction only when the entry holds it.  *)
THEOREM CorpusVerifiesArchive == CorpusSpec => ReturnsVerified
BY CorpusImplementsFetch, VerifiedWhenReturned, PTL

(* The corpus directory shares its archive cache with every later fetch.   *)
THEOREM CorpusLeavesCacheUsable == CorpusSpec => []CacheUsable
BY CorpusImplementsFetch, CacheStaysUsable, PTL

-----------------------------------------------------------------------------
(* The directories.  A process that is before its own exchange has not      *)
(* shown its tree to anybody (New), and what it wrote of it is right        *)
(* (Extracted).  A tree is in one place at a time (OnePlace), a file of     *)
(* somebody else in one that is moved away came late (LateOnly), and some   *)
(* copy that was there is at the destination, or in a workspace that is not *)
(* about to be removed (CopySafe).                                         *)
Exchanging == {"again", "recheck", "out", "move", "in"}
Ahead  == {"resolve", "fetch", "archive", "exists", "check", "cached", "mkdir", "open",
           "write"} \union Exchanging
Points == Ahead \union {"restore", "finally", "rmtree", "over"}

CorpusTypes ==
  /\ at \in [Fetchers -> Points]
  /\ next \in [Fetchers -> Members]
  /\ dir \in Trees \union {"none"}
  /\ tree \in [Trees -> [Members -> {"right", "bad", "absent"}]]
  /\ stray \subseteq Trees
  /\ previous \in [Fetchers -> Trees \union {"none"}]
  /\ disturbs \in Nat

New(p) == at[p] \in Ahead => p \notin stray /\ p # dir /\ \A q \in Fetchers : previous[q] # p

Extracted(p) ==
  /\ at[p] = "open" => next[p] = 1
  /\ at[p] = "write" => \A i \in 1 .. next[p] - 1 : tree[p][i] = "right"
  /\ at[p] \in Exchanging => tree[p] = Whole

OnePlace ==
  \A p \in Fetchers : previous[p] # "none" =>
    previous[p] # dir /\ \A q \in Fetchers \ {p} : previous[q] # previous[p]

StrayIsLate == dir \in stray => dir \in late

LateOnly ==
  /\ \A p \in Fetchers : previous[p] \in stray => previous[p] \in late
  /\ (\E p \in Fetchers : at[p] \in {"out", "move"}) => StrayIsLate

Safe == dir # "none" \/ \E q \in Fetchers : previous[q] # "none" /\ at[q] # "rmtree"
CopySafe == removed \/ Copies = {} \/ Safe

CorpusInv ==
  /\ CorpusTypes /\ OnePlace /\ LateOnly /\ CopySafe
  /\ \A p \in Fetchers : New(p) /\ Extracted(p)

LEMMA Names ==
  /\ "none" \notin Trees /\ Fetchers \subseteq Trees /\ "old" \in Trees
  /\ "old" \notin Fetchers
  /\ Chunks \in Nat \ {0} /\ Members = 1 .. Chunks /\ 1 \in Members
BY ArtifactCacheAssumption, CorpusCacheAssumption DEF Trees, Members

LEMMA CorpusInitInv == CorpusInit => CorpusInv
<1> SUFFICES ASSUME CorpusInit PROVE CorpusInv
  OBVIOUS
<1>1. PICK found \in Found :
        /\ dir = IF found = <<>> THEN "none" ELSE "old"
        /\ tree = [t \in Trees |-> IF t = "old" /\ found # <<>> THEN found
                                   ELSE [i \in Members |-> "absent"]]
  BY DEF CorpusInit
<1>2. found # <<>> => found \in [Members -> {"right", "bad", "absent"}]
  BY CorpusCacheAssumption
<1>3. tree \in [Trees -> [Members -> {"right", "bad", "absent"}]]
  BY <1>1, <1>2
<1>4. CorpusTypes
  BY <1>1, <1>3, Names DEF CorpusInit, CorpusTypes, Points, Ahead
<1>5. OnePlace /\ LateOnly /\ CopySafe
  BY <1>1, Names DEF CorpusInit, OnePlace, LateOnly, CopySafe, Safe, Copies
<1>6. ASSUME NEW p \in Fetchers PROVE New(p) /\ Extracted(p)
  BY <1>1, Names DEF CorpusInit, New, Extracted, Exchanging
<1> QED BY <1>4, <1>5, <1>6 DEF CorpusInv

-----------------------------------------------------------------------------
(* A process that only walks on, to the point "to".                        *)
Walks(p, to) ==
  /\ at' = [at EXCEPT ![p] = to]
  /\ \E i \in Members : next' = [next EXCEPT ![p] = i]
  /\ UNCHANGED dir /\ UNCHANGED tree /\ UNCHANGED stray /\ UNCHANGED previous
  /\ UNCHANGED late /\ UNCHANGED removed /\ UNCHANGED disturbs

LEMMA WalkKeeps ==
  ASSUME CorpusInv, NEW p \in Fetchers, NEW to \in Points, Walks(p, to),
         to \in Ahead => at[p] \in Ahead,
         to \in {"open", "write"} => next'[p] = 1,
         to \in Exchanging => at[p] \in Exchanging,
         to \in {"out", "move"} => at[p] \in {"out", "move"} \/ StrayIsLate,
         to = "rmtree" => previous[p] = "none" \/ dir # "none"
  PROVE  CorpusInv'
<1> USE DEF CorpusInv, Walks
<1>1. CorpusTypes'
  BY DEF CorpusTypes
<1>2. \A q \in Fetchers : at'[q] = IF q = p THEN to ELSE at[q]
  BY DEF CorpusTypes
<1>3. \A q \in Fetchers \ {p} : next'[q] = next[q]
  BY DEF CorpusTypes
<1>4. OnePlace'
  BY DEF OnePlace
<1>5. LateOnly'
  BY <1>2 DEF LateOnly, StrayIsLate
<1>6. CopySafe'
  BY <1>2 DEF CopySafe, Safe, Copies
<1>7. ASSUME NEW q \in Fetchers PROVE New(q)' /\ Extracted(q)'
  <2>1. New(q)'
    BY <1>2 DEF New
  <2>2. Extracted(q)'
    BY <1>2, <1>3 DEF Extracted
  <2> QED BY <2>1, <2>2
<1> QED BY <1>1, <1>4, <1>5, <1>6, <1>7

LEMMA GotoWalks ==
  ASSUME CorpusTypes, NEW p \in Fetchers, NEW to, Goto(p, to),
         UNCHANGED <<dir, tree, stray, previous>>
  PROVE  Walks(p, to) /\ next'[p] = 1
BY Names DEF Goto, Walks, CorpusTypes

(* From one member to the next one, or on to "to".                         *)
LEMMA OnwardWalks ==
  ASSUME CorpusTypes, NEW p \in Fetchers, NEW to, Onward(p, to),
         UNCHANGED <<dir, tree, stray, previous>>
  PROVE  \/ next[p] = Chunks /\ Walks(p, to) /\ next'[p] = 1
         \/ /\ next[p] # Chunks /\ Walks(p, at[p])
            /\ next'[p] = next[p] + 1
<1>1. CASE next[p] = Chunks
  BY <1>1, GotoWalks DEF Onward, To
<1>2. CASE next[p] # Chunks
  <2>1. /\ next' = [next EXCEPT ![p] = next[p] + 1]
        /\ UNCHANGED <<at, late, removed, disturbs>>
    BY <1>2 DEF Onward, bounds
  <2>2. next[p] + 1 \in Members
    BY <1>2, Names DEF CorpusTypes
  <2>3. at' = [at EXCEPT ![p] = at[p]]
    BY <2>1 DEF CorpusTypes
  <2> QED BY <1>2, <2>1, <2>2, <2>3 DEF Walks, CorpusTypes
<1> QED BY <1>1, <1>2

LEMMA StillKeeps == CorpusInv /\ UNCHANGED corpus => CorpusInv'
<1> SUFFICES ASSUME CorpusInv, UNCHANGED corpus PROVE CorpusInv'
  OBVIOUS
<1>1. /\ UNCHANGED <<at, next, dir, tree, stray, previous>>
      /\ UNCHANGED <<disturbs, late, removed>>
  BY DEF corpus, process, store, bounds
<1>2. CorpusTypes' /\ OnePlace' /\ LateOnly'
  BY <1>1 DEF CorpusInv, CorpusTypes, OnePlace, LateOnly, StrayIsLate
<1>3. CopySafe'
  BY <1>1 DEF CorpusInv, CopySafe, Safe, Copies
<1>4. ASSUME NEW p \in Fetchers PROVE New(p)' /\ Extracted(p)'
  BY <1>1 DEF CorpusInv, New, Extracted
<1> QED BY <1>2, <1>3, <1>4 DEF CorpusInv

(* The steps that leave every directory where it is, and as it is.         *)
LEMMA QuietSteps ==
  ASSUME CorpusInv, NEW p \in Fetchers,
         \/ Resolve(p) \/ FetchArchive(p) \/ VerifyArchive(p) \/ DirectoryExists(p)
         \/ CheckTree(p) \/ Cached(p) \/ MakeWorkspace(p) \/ OpenArchive(p)
         \/ TargetExists(p) \/ Finally(p) \/ Breaks(p)
  PROVE  CorpusInv'
<1> USE DEF To
<1>t. CorpusTypes
  BY DEF CorpusInv
<1>a. at[p] \in Points
  BY <1>t DEF CorpusTypes
<1>1. CASE Resolve(p)
  <2>1. at[p] = "resolve" /\ UNCHANGED <<dir, tree, stray, previous>>
    BY <1>1 DEF Resolve, store
  <2>2. \E to \in {"resolve", "fetch", "over"} : Walks(p, to)
    BY <1>1, <1>t, <2>1, GotoWalks, OnwardWalks DEF Resolve
  <2> QED BY <2>1, <2>2, WalkKeeps DEF Points, Ahead, Exchanging
<1>2. CASE FetchArchive(p)
  <2>1. CASE UNCHANGED corpus
    BY <2>1, StillKeeps
  <2>2. CASE ~UNCHANGED corpus
    <3>1. at[p] = "fetch" /\ UNCHANGED <<dir, tree, stray, previous>>
      BY <1>2, <2>2 DEF FetchArchive, store
    <3>2. \E to \in {"archive", "over"} : Walks(p, to)
      BY <1>2, <1>t, <2>2, <3>1, GotoWalks DEF FetchArchive
    <3> QED BY <3>1, <3>2, WalkKeeps DEF Points, Ahead, Exchanging
  <2> QED BY <2>1, <2>2
<1>3. CASE VerifyArchive(p)
  <2>1. at[p] = "archive" /\ UNCHANGED <<dir, tree, stray, previous>>
    BY <1>3 DEF VerifyArchive, store
  <2>2. \E to \in {"exists", "over"} : Walks(p, to)
    BY <1>3, <1>t, <2>1, GotoWalks DEF VerifyArchive
  <2> QED BY <2>1, <2>2, WalkKeeps DEF Points, Ahead, Exchanging
<1>4. CASE DirectoryExists(p)
  <2>1. UNCHANGED <<dir, tree, stray, previous>>
    BY <1>4 DEF DirectoryExists, store
  <2>2. \/ at[p] = "exists" /\ \E to \in {"mkdir", "check"} : Walks(p, to)
        \/ at[p] = "again" /\ Walks(p, "recheck")
        \/ at[p] = "again" /\ dir = "none" /\ Walks(p, "out")
    BY <1>4, <1>t, <2>1, GotoWalks DEF DirectoryExists
  <2>3. dir = "none" => StrayIsLate
    BY <1>t, Names DEF CorpusTypes, StrayIsLate
  <2> QED BY <2>2, <2>3, WalkKeeps DEF Points, Ahead, Exchanging
<1>5. CASE CheckTree(p)
  <2>1. UNCHANGED <<dir, tree, stray, previous>>
    BY <1>5 DEF CheckTree, store
  <2>2. \/ at[p] = "check" /\ \E to \in {"cached", "over"} : Walks(p, to)
        \/ at[p] = "recheck" /\ dir \notin stray /\ Walks(p, "out")
        \/ at[p] = "recheck" /\ Walks(p, "finally")
    BY <1>5, <1>t, <2>1, GotoWalks DEF CheckTree, OnlyExpected
  <2> QED BY <2>2, WalkKeeps DEF Points, Ahead, Exchanging, StrayIsLate
<1>6. CASE Cached(p)
  <2>1. at[p] = "cached" /\ UNCHANGED <<dir, tree, stray, previous>>
    BY <1>6 DEF Cached, store
  <2>2. \E to \in {"cached", "over", "mkdir"} : Walks(p, to)
    BY <1>6, <1>t, <2>1, GotoWalks, OnwardWalks DEF Cached
  <2> QED BY <2>1, <2>2, WalkKeeps DEF Points, Ahead, Exchanging
<1>7. CASE MakeWorkspace(p)
  <2>1. at[p] = "mkdir" /\ Walks(p, "open")
    BY <1>7, <1>t, GotoWalks DEF MakeWorkspace
  <2>2. next'[p] = 1
    BY <1>7, <1>t, GotoWalks DEF MakeWorkspace
  <2> QED BY <2>1, <2>2, WalkKeeps DEF Points, Ahead, Exchanging
<1>8. CASE OpenArchive(p)
  <2>1. /\ at[p] = "open" /\ next[p] = 1
        /\ UNCHANGED dir /\ UNCHANGED tree /\ UNCHANGED stray /\ UNCHANGED previous
    BY <1>8 DEF OpenArchive, store, CorpusInv, Extracted
  <2>2. CASE Goto(p, "finally")
    <3>1. Walks(p, "finally")
      BY <1>t, <2>1, <2>2, GotoWalks
    <3> QED BY <2>1, <3>1, WalkKeeps DEF Points, Ahead, Exchanging
  <2>3. CASE at' = [at EXCEPT ![p] = "write"] /\ UNCHANGED <<next, bounds, late, removed>>
    <3>1. next' = [next EXCEPT ![p] = 1] /\ next'[p] = 1
      BY <1>t, <2>1, <2>3 DEF CorpusTypes
    <3>2. Walks(p, "write")
      BY <2>1, <2>3, <3>1, Names DEF Walks, bounds
    <3> QED BY <2>1, <3>1, <3>2, WalkKeeps DEF Points, Ahead, Exchanging
  <2> QED BY <1>8, <2>2, <2>3 DEF OpenArchive
<1>9. CASE TargetExists(p)
  <2>1. at[p] = "out" /\ UNCHANGED <<dir, tree, stray, previous>>
    BY <1>9 DEF TargetExists, store
  <2>2. \E to \in {"in", "move"} : Walks(p, to)
    BY <1>9, <1>t, <2>1, GotoWalks DEF TargetExists
  <2> QED BY <2>1, <2>2, WalkKeeps DEF Points, Ahead, Exchanging
<1>10. CASE Finally(p)
  <2>1. at[p] = "finally" /\ UNCHANGED <<dir, tree, stray, previous>>
    BY <1>10 DEF Finally, store
  <2>2. \/ Walks(p, "over")
        \/ (previous[p] = "none" \/ dir # "none") /\ Walks(p, "rmtree")
    BY <1>10, <1>t, <2>1, GotoWalks DEF Finally, Superseded
  <2> QED BY <2>1, <2>2, WalkKeeps DEF Points, Ahead, Exchanging
<1>11. CASE Breaks(p)
  <2>1. \E to \in {"restore", "finally", "over"} : Walks(p, to)
    BY <1>11, <1>t, GotoWalks DEF Breaks, Handler
  <2> QED BY <2>1, WalkKeeps DEF Points, Ahead, Exchanging
<1> QED BY <1>1, <1>2, <1>3, <1>4, <1>5, <1>6, <1>7, <1>8, <1>9, <1>10, <1>11

-----------------------------------------------------------------------------
(* A member is written into the new tree of its process, which nobody else  *)
(* sees yet.                                                               *)
LEMMA WriteKeeps ==
  ASSUME CorpusInv, NEW p \in Fetchers, WriteMember(p)
  PROVE  CorpusInv'
<1> DEFINE good == Pinned(content[src[p]][next[p]])
<1> USE DEF CorpusInv
<1>1. /\ at[p] = "write" /\ p \in Trees /\ next[p] \in Members
      /\ UNCHANGED <<dir, stray, previous>>
  BY Names DEF WriteMember, CorpusTypes
<1>2. tree' = [tree EXCEPT ![p] = [@ EXCEPT ![next[p]] = IF good THEN "right" ELSE "bad"]]
  BY DEF WriteMember, Pinned
<1>3. /\ UNCHANGED <<late, removed, disturbs>>
      /\ next' \in [Fetchers -> Members]
      /\ \A q \in Fetchers \ {p} : at'[q] = at[q] /\ next'[q] = next[q]
      /\ at' \in [Fetchers -> Points]
      /\ \/ ~good /\ at'[p] = "finally"
         \/ good /\ next[p] = Chunks /\ at'[p] = "again"
         \/ good /\ next[p] # Chunks /\ at'[p] = "write" /\ next'[p] = next[p] + 1
  <2>1. ASSUME NEW to \in Points, Goto(p, to)
        PROVE  /\ UNCHANGED <<late, removed, disturbs>>
               /\ next' \in [Fetchers -> Members] /\ at' \in [Fetchers -> Points]
               /\ \A q \in Fetchers \ {p} : at'[q] = at[q] /\ next'[q] = next[q]
               /\ at'[p] = to
    BY <2>1, Names DEF Goto, CorpusTypes
  <2>2. CASE ~good
    BY <2>1, <2>2 DEF WriteMember, To, Points
  <2>3. CASE good /\ next[p] = Chunks
    BY <2>1, <2>3 DEF WriteMember, Onward, To, Points, Ahead, Exchanging
  <2>4. CASE good /\ next[p] # Chunks
    <3>1. next' = [next EXCEPT ![p] = next[p] + 1] /\ UNCHANGED <<at, bounds, late, removed>>
      BY <2>4 DEF WriteMember, Onward
    <3>2. next[p] + 1 \in Members
      BY <1>1, <2>4, Names
    <3> QED BY <1>1, <2>4, <3>1, <3>2 DEF CorpusTypes, bounds
  <2> QED BY <2>2, <2>3, <2>4
<1>4. CorpusTypes'
  BY <1>1, <1>2, <1>3 DEF CorpusTypes
<1>5. OnePlace' /\ LateOnly' /\ CopySafe'
  <2>1. OnePlace'
    BY <1>1 DEF OnePlace
  <2>2. \A q \in Fetchers : at'[q] \in {"out", "move"} => at[q] \in {"out", "move"}
    BY <1>3
  <2>3. LateOnly'
    BY <1>1, <1>3, <2>2 DEF LateOnly, StrayIsLate
  <2>4. at'[p] # "rmtree"
    BY <1>3
  <2>5. CopySafe'
    BY <1>1, <1>3, <2>4 DEF CopySafe, Safe, Copies
  <2> QED BY <2>1, <2>3, <2>5
<1>6. ASSUME NEW q \in Fetchers \ {p} PROVE New(q)' /\ Extracted(q)'
  <2>1. tree'[q] = tree[q]
    BY <1>2, Names DEF CorpusTypes
  <2> QED BY <1>1, <1>3, <2>1 DEF New, Extracted
<1>7. New(p)'
  BY <1>1, <1>3 DEF New, Ahead
<1>8. Extracted(p)'
  <2>1. \A i \in Members :
          tree'[p][i] = IF i = next[p] THEN IF good THEN "right" ELSE "bad" ELSE tree[p][i]
    BY <1>1, <1>2 DEF CorpusTypes
  <2>2. \A i \in 1 .. next[p] - 1 : tree[p][i] = "right"
    BY <1>1 DEF Extracted
  <2>3. good => \A i \in 1 .. next[p] : tree'[p][i] = "right"
    BY <1>1, <2>1, <2>2, Names
  <2>4. CASE ~good
    BY <1>3, <2>4 DEF Extracted, Exchanging
  <2>5. CASE good /\ next[p] = Chunks
    <3>1. tree'[p] \in [Members -> {"right", "bad", "absent"}]
      BY <1>1, <1>4 DEF CorpusTypes
    <3>2. tree'[p] = Whole
      BY <2>3, <2>5, <3>1, Names DEF Whole
    <3> QED BY <1>3, <2>5, <3>2 DEF Extracted
  <2>6. CASE good /\ next[p] # Chunks
    <3>1. at'[p] = "write" /\ next'[p] - 1 = next[p]
      BY <1>1, <1>3, <2>6, Names
    <3> QED BY <2>3, <2>6, <3>1 DEF Extracted, Exchanging
  <2> QED BY <2>4, <2>5, <2>6
<1> QED BY <1>4, <1>5, <1>6, <1>7, <1>8

-----------------------------------------------------------------------------
(* The exchange.  MoveOut, Restore and MoveIn move one tree; what moves is  *)
(* in one place before and after it.                                       *)
LEMMA MoveOutKeeps ==
  ASSUME CorpusInv, NEW p \in Fetchers, MoveOut(p)
  PROVE  CorpusInv'
<1> USE DEF CorpusInv
<1>t. CorpusTypes
  OBVIOUS
<1>1. at[p] = "move" /\ UNCHANGED tree /\ UNCHANGED stray
  BY DEF MoveOut
<1>2. CASE dir = "none"
  <2>1. Goto(p, "restore") /\ UNCHANGED <<dir, tree, stray, previous>>
    BY <1>2 DEF MoveOut, To
  <2>2. Walks(p, "restore")
    BY <1>t, <2>1, GotoWalks
  <2> QED BY <2>2, WalkKeeps DEF Points, Ahead, Exchanging
<1>3. CASE dir # "none"
  <2>1. /\ dir \in Trees /\ dir' = "none"
        /\ previous' = [previous EXCEPT ![p] = dir]
        /\ at' = [at EXCEPT ![p] = "in"] /\ next' = [next EXCEPT ![p] = 1]
        /\ UNCHANGED disturbs /\ UNCHANGED late /\ UNCHANGED removed
    BY <1>3 DEF MoveOut, To, Goto, CorpusTypes
  <2>2. CorpusTypes'
    BY <1>1, <2>1, Names DEF CorpusTypes, Points, Ahead, Exchanging
  <2>3. \A q \in Fetchers :
          /\ previous'[q] = IF q = p THEN dir ELSE previous[q]
          /\ at'[q] = IF q = p THEN "in" ELSE at[q]
          /\ q # p => next'[q] = next[q]
    BY <2>1 DEF CorpusTypes
  <2>4. OnePlace'
    BY <2>1, <2>3 DEF OnePlace
  <2>5. LateOnly'
    BY <1>1, <2>1, <2>3, Names DEF LateOnly, StrayIsLate, CorpusTypes
  <2>6. CopySafe'
    BY <1>3, <2>3 DEF CopySafe, Safe
  <2>7. ASSUME NEW q \in Fetchers PROVE New(q)' /\ Extracted(q)'
    <3>1. New(q)'
      BY <1>1, <2>1, <2>3, Names DEF New, Ahead, Exchanging
    <3>2. Extracted(q)'
      BY <1>1, <2>3 DEF Extracted, Exchanging
    <3> QED BY <3>1, <3>2
  <2> QED BY <2>2, <2>4, <2>5, <2>6, <2>7
<1> QED BY <1>2, <1>3

LEMMA MoveInKeeps ==
  ASSUME CorpusInv, NEW p \in Fetchers, MoveIn(p)
  PROVE  CorpusInv'
<1> USE DEF CorpusInv
<1>t. CorpusTypes
  OBVIOUS
<1>1. at[p] = "in" /\ UNCHANGED tree /\ UNCHANGED stray /\ UNCHANGED previous
  BY DEF MoveIn
<1>2. CASE Goto(p, "restore") /\ UNCHANGED dir
  <2>1. Walks(p, "restore")
    BY <1>t, <1>1, <1>2, GotoWalks
  <2> QED BY <2>1, WalkKeeps DEF Points, Ahead, Exchanging
<1>3. CASE Goto(p, "finally") /\ dir' = p
  <2>1. /\ at' = [at EXCEPT ![p] = "finally"] /\ next' = [next EXCEPT ![p] = 1]
        /\ UNCHANGED disturbs /\ UNCHANGED late /\ UNCHANGED removed
    BY <1>3 DEF Goto
  <2>2. /\ p \notin stray /\ p # "none" /\ p \in Trees
        /\ \A q \in Fetchers : previous[q] # p
    BY <1>1, Names DEF New, Ahead, Exchanging
  <2>3. CorpusTypes'
    BY <1>1, <1>3, <2>1, <2>2, Names DEF CorpusTypes, Points
  <2>4. \A q \in Fetchers :
          /\ at'[q] = IF q = p THEN "finally" ELSE at[q]
          /\ q # p => next'[q] = next[q]
    BY <2>1 DEF CorpusTypes
  <2>5. OnePlace'
    BY <1>1, <1>3, <2>2 DEF OnePlace
  <2>6. LateOnly'
    BY <1>1, <1>3, <2>1, <2>2 DEF LateOnly, StrayIsLate
  <2>7. CopySafe'
    BY <1>3, <2>2 DEF CopySafe, Safe
  <2>8. ASSUME NEW q \in Fetchers PROVE New(q)' /\ Extracted(q)'
    BY <1>1, <1>3, <2>4 DEF New, Extracted, Ahead, Exchanging
  <2> QED BY <2>3, <2>5, <2>6, <2>7, <2>8
<1> QED BY <1>2, <1>3 DEF MoveIn, To

LEMMA RestoreKeeps ==
  ASSUME CorpusInv, NEW p \in Fetchers, Restore(p)
  PROVE  CorpusInv'
<1> USE DEF CorpusInv
<1>t. CorpusTypes
  OBVIOUS
<1>1. /\ at[p] = "restore" /\ Goto(p, "finally")
      /\ UNCHANGED tree /\ UNCHANGED stray
  BY DEF Restore, To
<1>2. CASE UNCHANGED <<dir, previous>>
  <2>1. Walks(p, "finally")
    BY <1>t, <1>1, <1>2, GotoWalks
  <2> QED BY <2>1, WalkKeeps DEF Points, Ahead, Exchanging
<1>3. CASE /\ previous[p] # "none" /\ dir = "none" /\ dir' = previous[p]
           /\ previous' = [previous EXCEPT ![p] = "none"]
  <2>1. /\ at' = [at EXCEPT ![p] = "finally"] /\ next' = [next EXCEPT ![p] = 1]
        /\ UNCHANGED disturbs /\ UNCHANGED late /\ UNCHANGED removed
    BY <1>1 DEF Goto
  <2>2. CorpusTypes'
    BY <1>1, <1>3, <2>1, Names DEF CorpusTypes, Points
  <2>3. \A q \in Fetchers :
          /\ previous'[q] = IF q = p THEN "none" ELSE previous[q]
          /\ at'[q] = IF q = p THEN "finally" ELSE at[q]
          /\ q # p => next'[q] = next[q]
    BY <1>3, <2>1 DEF CorpusTypes
  <2>4. OnePlace'
    BY <1>3, <2>3 DEF OnePlace
  <2>5. LateOnly'
    BY <1>1, <1>3, <2>1, <2>3, Names DEF LateOnly, StrayIsLate, CorpusTypes
  <2>6. CopySafe'
    BY <1>3 DEF CopySafe, Safe
  <2>7. ASSUME NEW q \in Fetchers PROVE New(q)' /\ Extracted(q)'
    BY <1>1, <1>3, <2>3, Names DEF New, Extracted, Ahead, Exchanging
  <2> QED BY <2>2, <2>4, <2>5, <2>6, <2>7
<1> QED BY <1>2, <1>3 DEF Restore

LEMMA RemoveKeeps ==
  ASSUME CorpusInv, NEW p \in Fetchers, RemoveWorkspace(p)
  PROVE  CorpusInv'
<1> USE DEF CorpusInv
<1>1. /\ at[p] = "rmtree" /\ UNCHANGED dir /\ UNCHANGED tree
      /\ stray' = stray \ {previous[p]}
      /\ previous' = [previous EXCEPT ![p] = "none"]
      /\ at' = [at EXCEPT ![p] = "over"] /\ next' = [next EXCEPT ![p] = 1]
      /\ UNCHANGED disturbs /\ UNCHANGED late /\ UNCHANGED removed
  BY DEF RemoveWorkspace, To, Goto
<1>2. CorpusTypes'
  BY <1>1, Names DEF CorpusTypes, Points
<1>3. \A q \in Fetchers :
        /\ previous'[q] = IF q = p THEN "none" ELSE previous[q]
        /\ at'[q] = IF q = p THEN "over" ELSE at[q]
        /\ q # p => next'[q] = next[q]
  BY <1>1 DEF CorpusTypes
<1>4. OnePlace'
  BY <1>1, <1>3 DEF OnePlace
<1>5. LateOnly'
  BY <1>1, <1>3, Names DEF LateOnly, StrayIsLate, CorpusTypes
<1>6. CopySafe'
  <2>1. Safe => Safe'
    BY <1>1, <1>3 DEF Safe
  <2>2. Copies = {} => Copies' = {}
    BY <1>1, <1>3 DEF Copies
  <2> QED BY <1>1, <2>1, <2>2 DEF CopySafe
<1>7. ASSUME NEW q \in Fetchers PROVE New(q)' /\ Extracted(q)'
  BY <1>1, <1>3, Names DEF New, Extracted, Ahead, Exchanging
<1> QED BY <1>2, <1>4, <1>5, <1>6, <1>7

(* What others do to the directory at the destination reaches no tree of a  *)
(* process that is ahead of its exchange.                                  *)
LEMMA DisturbKeeps == CorpusInv /\ Disturb => CorpusInv'
<1> SUFFICES ASSUME CorpusInv, Disturb PROVE CorpusInv'
  OBVIOUS
<1> USE DEF CorpusInv
<1>1. /\ dir # "none" /\ dir \in Trees
      /\ UNCHANGED at /\ UNCHANGED next /\ UNCHANGED previous /\ disturbs' \in Nat
  BY DEF Disturb, process, CorpusTypes
<1>2. CASE /\ stray' = stray \union {dir}
           /\ late' = IF \E p \in Fetchers : at[p] \in {"out", "move"}
                      THEN late \union {dir} ELSE late
           /\ UNCHANGED <<dir, tree, removed>>
  <2>1. CorpusTypes'
    BY <1>1, <1>2 DEF CorpusTypes
  <2>2. OnePlace' /\ CopySafe'
    BY <1>1, <1>2 DEF OnePlace, CopySafe, Safe, Copies
  <2>3. LateOnly'
    <3>1. \A p \in Fetchers : previous[p] # dir
      BY <1>1 DEF OnePlace
    <3> QED BY <1>1, <1>2, <3>1 DEF LateOnly, StrayIsLate
  <2>4. ASSUME NEW q \in Fetchers PROVE New(q)' /\ Extracted(q)'
    BY <1>1, <1>2 DEF New, Extracted
  <2> QED BY <2>1, <2>2, <2>3, <2>4
<1>3. CASE /\ \E i \in Members, state \in {"bad", "absent"} :
                tree' = [tree EXCEPT ![dir][i] = state]
           /\ UNCHANGED <<dir, stray, late, removed>>
  <2>1. PICK i \in Members, state \in {"bad", "absent"} :
          tree' = [tree EXCEPT ![dir] = [@ EXCEPT ![i] = state]]
    BY <1>3
  <2>2. CorpusTypes'
    BY <1>1, <1>3, <2>1 DEF CorpusTypes
  <2>3. OnePlace' /\ CopySafe' /\ LateOnly'
    BY <1>1, <1>3 DEF OnePlace, CopySafe, Safe, Copies, LateOnly, StrayIsLate
  <2>4. ASSUME NEW q \in Fetchers PROVE New(q)' /\ Extracted(q)'
    <3>1. at[q] \in Ahead => tree'[q] = tree[q]
      BY <2>1, Names DEF New, CorpusTypes
    <3> QED BY <1>1, <1>3, <3>1 DEF New, Extracted, Ahead
  <2> QED BY <2>2, <2>3, <2>4
<1>4. CASE /\ dir' = "none" /\ removed' = TRUE /\ stray' = stray \ {dir}
           /\ UNCHANGED <<tree, late>>
  <2>1. CorpusTypes'
    BY <1>1, <1>4 DEF CorpusTypes
  <2>2. OnePlace' /\ CopySafe' /\ LateOnly'
    BY <1>1, <1>4, Names DEF OnePlace, CopySafe, LateOnly, StrayIsLate, CorpusTypes
  <2>3. ASSUME NEW q \in Fetchers PROVE New(q)' /\ Extracted(q)'
    BY <1>1, <1>4, Names DEF New, Extracted
  <2> QED BY <2>1, <2>2, <2>3
<1> QED BY <1>2, <1>3, <1>4 DEF Disturb

LEMMA CorpusStep == CorpusInv /\ [CorpusNext]_allVars => CorpusInv'
<1> SUFFICES ASSUME CorpusInv, [CorpusNext]_allVars PROVE CorpusInv'
  OBVIOUS
<1>1. ASSUME NEW p \in Fetchers, Resolve(p) \/ FetchArchive(p) \/ Extract(p) \/ Breaks(p)
      PROVE  CorpusInv'
  BY <1>1, QuietSteps, WriteKeeps, MoveOutKeeps, MoveInKeeps, RestoreKeeps, RemoveKeeps
  DEF Extract
<1>2. CASE (Change /\ UNCHANGED corpus) \/ CorpusFinished \/ UNCHANGED allVars
  BY <1>2, StillKeeps DEF CorpusFinished, allVars
<1> QED BY <1>1, <1>2, DisturbKeeps DEF CorpusNext

LEMMA CorpusAlways == CorpusSpec => []CorpusInv
BY CorpusInitInv, CorpusStep, PTL DEF CorpusSpec

-----------------------------------------------------------------------------
(* Which steps put a directory at the destination or remove a file of      *)
(* somebody else.                                                          *)
LEMMA OnlyExchange ==
  ASSUME CorpusInv, CorpusNext, Alone
  PROVE  \/ UNCHANGED dir /\ UNCHANGED stray /\ UNCHANGED previous
         \/ \E p \in Fetchers : MoveOut(p) \/ MoveIn(p) \/ Restore(p) \/ RemoveWorkspace(p)
<1>1. ASSUME NEW p \in Fetchers,
             \/ Resolve(p) \/ FetchArchive(p) \/ VerifyArchive(p) \/ DirectoryExists(p)
             \/ CheckTree(p) \/ Cached(p) \/ MakeWorkspace(p) \/ OpenArchive(p)
             \/ WriteMember(p) \/ TargetExists(p) \/ Finally(p) \/ Breaks(p)
      PROVE  UNCHANGED dir /\ UNCHANGED stray /\ UNCHANGED previous
  BY <1>1 DEF Resolve, FetchArchive, VerifyArchive, DirectoryExists, CheckTree, Cached,
     MakeWorkspace, OpenArchive, WriteMember, TargetExists, Finally, Breaks, store, corpus
<1>2. ~Disturb
  BY DEF Disturb, Alone, CorpusInv, CorpusTypes
<1>3. (Change /\ UNCHANGED corpus) \/ CorpusFinished => UNCHANGED dir /\ UNCHANGED stray /\ UNCHANGED previous
  BY DEF CorpusFinished, allVars, corpus, store
<1> QED BY <1>1, <1>2, <1>3 DEF CorpusNext, Extract

(* Only whole directories with the pinned bytes are installed, or the one   *)
(* that was there is put back; and a file of somebody else is removed with  *)
(* a directory only if it came after the last look at it.                  *)
THEOREM UserFilesAreKept == CorpusSpec => DirectoryOwned
<1>1. CorpusInv /\ [CorpusNext]_allVars =>
        [Alone => InstalledWhole /\ stray \ late \subseteq stray']_allVars
  <2> SUFFICES ASSUME CorpusInv, CorpusNext, Alone
               PROVE  InstalledWhole /\ stray \ late \subseteq stray'
    OBVIOUS
  <2> USE DEF CorpusInv
  <2>1. CASE UNCHANGED dir /\ UNCHANGED stray /\ UNCHANGED previous
    BY <2>1 DEF InstalledWhole
  <2>2. ASSUME NEW p \in Fetchers, MoveOut(p)
        PROVE  InstalledWhole /\ stray \ late \subseteq stray'
    BY <2>2 DEF MoveOut, InstalledWhole
  <2>3. ASSUME NEW p \in Fetchers, MoveIn(p)
        PROVE  InstalledWhole /\ stray \ late \subseteq stray'
    <3>1. tree[p] = Whole /\ p \notin stray
      BY <2>3 DEF MoveIn, New, Extracted, Ahead, Exchanging
    <3> QED BY <2>3, <3>1 DEF MoveIn, InstalledWhole
  <2>4. ASSUME NEW p \in Fetchers, Restore(p)
        PROVE  InstalledWhole /\ stray \ late \subseteq stray'
    BY <2>4 DEF Restore, InstalledWhole
  <2>5. ASSUME NEW p \in Fetchers, RemoveWorkspace(p)
        PROVE  InstalledWhole /\ stray \ late \subseteq stray'
    BY <2>5 DEF RemoveWorkspace, InstalledWhole, LateOnly
  <2> QED BY <2>1, <2>2, <2>3, <2>4, <2>5, OnlyExchange
<1> QED BY <1>1, CorpusAlways, PTL DEF CorpusSpec, DirectoryOwned

(* A corpus that was there once is not lost to a failed exchange: unless    *)
(* somebody else removes it, a copy stays at the destination or in the      *)
(* workspace of the process that moved it.                                 *)
THEOREM CopiesAreRetained == CorpusSpec => CopyRetained
<1>1. CorpusInv /\ [CorpusNext]_allVars =>
        [Alone /\ ~removed /\ Copies # {} => Copies' # {}]_allVars
  <2> SUFFICES ASSUME CorpusInv, CorpusNext, Alone, ~removed, Copies # {}
               PROVE  Copies' # {}
    OBVIOUS
  <2>1. Safe
    BY DEF CorpusInv, CopySafe
  <2>2. CASE UNCHANGED dir /\ UNCHANGED previous
    BY <2>2 DEF Copies
  <2>3. ASSUME NEW p \in Fetchers, MoveOut(p) \/ MoveIn(p) \/ Restore(p) \/ RemoveWorkspace(p)
        PROVE  Copies' # {}
    <3>1. CASE RemoveWorkspace(p)
      <4>1. /\ at[p] = "rmtree" /\ UNCHANGED dir
            /\ previous' = [previous EXCEPT ![p] = "none"]
        BY <3>1 DEF RemoveWorkspace
      <4>2. dir # "none" \/ \E q \in Fetchers \ {p} : previous'[q] # "none"
        BY <2>1, <4>1 DEF Safe, CorpusInv, CorpusTypes
      <4> QED BY <4>1, <4>2 DEF Copies
    <3>2. CASE MoveOut(p)
      <4>1. \/ UNCHANGED dir /\ UNCHANGED previous
            \/ dir # "none" /\ previous' = [previous EXCEPT ![p] = dir]
        BY <3>2 DEF MoveOut
      <4>2. dir # "none" /\ previous' = [previous EXCEPT ![p] = dir] => previous'[p] # "none"
        BY DEF CorpusInv, CorpusTypes
      <4> QED BY <2>2, <4>1, <4>2 DEF Copies
    <3>3. CASE MoveIn(p)
      <4>1. UNCHANGED previous /\ (dir' = p \/ UNCHANGED dir)
        BY <3>3 DEF MoveIn
      <4> QED BY <2>2, <4>1, Names DEF Copies
    <3>4. CASE Restore(p)
      <4>1. (dir' = previous[p] /\ previous[p] # "none") \/ UNCHANGED <<dir, previous>>
        BY <3>4 DEF Restore
      <4> QED BY <2>2, <4>1 DEF Copies
    <3> QED BY <2>3, <3>1, <3>2, <3>3, <3>4
  <2> QED BY <2>2, <2>3, OnlyExchange
<1> QED BY <1>1, CorpusAlways, PTL DEF CorpusSpec, CopyRetained

=============================================================================
