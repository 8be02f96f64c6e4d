----------------------------- MODULE MCArchive -----------------------------
(* Small instances of Archive: one seller, two polls that are alike.       *)
EXTENDS Archive

CONSTANTS macro, p1, p2

MCSellers == {macro}
MCPolls == {p1, p2}
Alike == Permutations(MCPolls)

(* The session is put on record at two of its stages at most.              *)
FewStages == Cardinality({k \in seen : k[1] = "session"}) <= 2

(* One round may go all its way; a session with two rounds, or with a      *)
(* request that failed, says less.                                         *)
MaxSaid == 4
ShortTalk == asked > 1 \/ faults > 0 => Cardinality(thread) <= MaxSaid
=============================================================================
