---------------------------- MODULE MCBucketSide ----------------------------
(***************************************************************************)
(* Instances of what stands between the server and a bucket, for TLC:      *)
(* DiskCache, KeyspaceClient and LargeUploads.  They share nothing, so     *)
(* each behaviour is one of one of them, and the others stay as they are.  *)
(***************************************************************************)
EXTENDS DiskCache, KeyspaceClient, LargeUploads, TLC

CONSTANTS o1, o2, t1, t2

VARIABLE side

MCInit ==
  /\ side \in {"cache", "keys", "upload"}
  /\ Init
  /\ KeyspaceInit
  /\ side # "keys" => dialect = "s3"
  /\ UploadsInit
  /\ side # "upload" => cloud = "s3" /\ length = 1

MCNext ==
  /\ UNCHANGED side
  /\ \/ side = "cache" /\ Next /\ UNCHANGED <<keyspaceVars, uploadVars>>
     \/ side = "keys" /\ KeyspaceNext /\ UNCHANGED <<vars, uploadVars>>
     \/ side = "upload" /\ UploadsNext /\ UNCHANGED <<vars, keyspaceVars>>

MCSpec == MCInit /\ [][MCNext]_<<side, vars, keyspaceVars, uploadVars>>

Alike == [o \in Oids |-> 1]

\* What a second key adds is a second page.
OneKey ==
  \A c \in Clients :
    call[c] # Idle /\ call[c].op \notin {"put", "delete"} => call[c].key = 1

\* Of the downloads, and the calls and uploads of the same names.
Symmetry == Permutations(Readers) \cup Permutations(Oids)
=============================================================================
