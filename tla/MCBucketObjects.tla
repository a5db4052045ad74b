-------------------------- MODULE MCBucketObjects --------------------------
(* Small instances of BucketObjects for TLC.                               *)
EXTENDS BucketObjects, TLC

CONSTANTS game, film, a, t1, t2

TwoRepos == {game, film}
OneOid   == {a}
TwoTasks == {t1, t2}

Interchanging == Permutations(Tasks) \cup Permutations(Repos)
=============================================================================
