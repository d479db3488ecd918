---------------------------- MODULE MCCorpusCache ----------------------------
(* Values of the constants of CorpusCache for TLC.                         *)
EXTENDS CorpusCache, TLC

CONSTANTS f1, f2

Two == {f1, f2}

(* The processes are interchangeable.                                      *)
Interchangeable == Permutations(Fetchers)

(* No corpus, one whose last member is missing, and one that also holds a  *)
(* corrupt member.                                                         *)
MCFound == {<<>>, <<"right", "absent">>, <<"absent", "bad">>}

=============================================================================
