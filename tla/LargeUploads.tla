---------------------------- MODULE LargeUploads ----------------------------
(***************************************************************************)
(* An object on its way into a bucket, in one request or in several        *)
(* (put_file of server/src/storage/s3/keyspace/s3.rs, azure.rs and gcs.rs; *)
(* server/src/storage/s3/multipart.rs).                                    *)
(*                                                                         *)
(* S3 gathers parts under an upload and assembles them; Azure gathers      *)
(* blocks under the blob, whoever sent them, and assembles a list of them; *)
(* Google appends chunks to a session and has the object with the last.    *)
(* Two pushes of an object write the same key, and what they store of it   *)
(* differs when it is encrypted.  The stores are external.                 *)
(***************************************************************************)
EXTENDS Naturals, Sequences

CONSTANTS
  Uploads,         \* calls of put_file for one key
  Lengths,         \* of the staged file
  S3_CEILING,      \* SINGLE_PUT_CEILING of each dialect
  AZURE_CEILING,
  GCS_CEILING,
  PART,            \* multipart.rs: sizes and number of parts
  SMALLEST_PART,
  MOST_PARTS,
  BLOCK,           \* azure.rs: sizes and number of blocks
  LARGEST_BLOCK,
  MOST_BLOCKS,
  CHUNK            \* gcs.rs

ASSUME UploadsConstantsOK ==
  /\ Lengths \subseteq Nat
  /\ {S3_CEILING, AZURE_CEILING, GCS_CEILING} \subseteq Nat
  /\ {PART, SMALLEST_PART, MOST_PARTS, BLOCK, LARGEST_BLOCK, MOST_BLOCKS, CHUNK}
       \subseteq Nat \ {0}

VARIABLES
  cloud,      \* the dialect
  length,     \* of the staged files
  upload,     \* the calls
  sessions,   \* S3's uploads and Google's sessions that are open
  stash,      \* parts, blocks and chunks that belong to no object yet
  object      \* what the key holds; <<>> is nothing

uploadVars == <<cloud, length, upload, sessions, stash, object>>

Clouds == {"s3", "azure", "gcs"}

-----------------------------------------------------------------------------
(* Sizes.                                                                  *)

div_ceil(n, d) == (n + d - 1) \div d

AtLeast(m, n) == IF m < n THEN n ELSE m

AtMost(m, n) == IF m < n THEN m ELSE n

part_size(n) == AtLeast(AtLeast(PART, div_ceil(n, MOST_PARTS)), SMALLEST_PART)

block_size(n) == AtMost(AtLeast(BLOCK, div_ceil(n, MOST_BLOCKS)), LARGEST_BLOCK)

PieceSize ==
  CASE cloud = "s3" -> part_size(length)
    [] cloud = "azure" -> block_size(length)
    [] cloud = "gcs" -> CHUNK

PutCeiling ==
  CASE cloud = "s3" -> S3_CEILING
    [] cloud = "azure" -> AZURE_CEILING
    [] cloud = "gcs" -> GCS_CEILING

-----------------------------------------------------------------------------
\* Mutant of block_id: it says which block, and not whose.
block_id_of_index(u, index) == <<"any", index>>

\* A block's name: the tag of the upload, and which block it is.
block_id(u, index) == <<u, index>>

\* The parts of an upload and the chunks of a session are numbered.
Name(u, index) == IF cloud = "azure" THEN block_id(u, index) ELSE <<u, index>>

\* n bytes of the staged file of u, from at.
Piece(u, index, at, n) == [name |-> Name(u, index), of |-> u, at |-> at, n |-> n]

Requested == {"put", "begin", "send", "finish", "abort"}

\* The request a call waits for is its pc.  sent is how much of the file was
\* sent, named the names of what the store took; late is a request that was
\* given up and may still reach the store.
UploadsInit ==
  /\ cloud \in Clouds
  /\ length \in Lengths
  /\ upload = [u \in Uploads |-> [pc |-> "new", sent |-> 0, named |-> <<>>, late |-> "none"]]
  /\ sessions = {}
  /\ stash = {}
  /\ object = <<>>

Doing(u, pc) == upload[u].pc = pc

Sets(u, r) == upload' = [upload EXCEPT ![u] = r]

\* The next piece: what is left of the file, and a piece at most.
This(u) == AtMost(PieceSize, length - upload[u].sent)

Sending(u, n) == Piece(u, Len(upload[u].named) + 1, upload[u].sent, n)

IsLast(u) == upload[u].sent + This(u) = length

-----------------------------------------------------------------------------
(* What a request does when it reaches the store.                          *)

\* What is known by a name: what was sent last, or else what the object has.
Latest(name) ==
  LET waiting == {s \in stash : s.name = name}
      in == {object[i] : i \in DOMAIN object}
  IN IF waiting # {} THEN waiting
     ELSE {s \in in : cloud = "azure" /\ s.name = name}

\* A part or a block, in place of one of the same name.
PieceLands(u) ==
  /\ cloud = "s3" => u \in sessions
  /\ stash' = {s \in stash : s.name # Sending(u, 0).name} \cup {Sending(u, This(u))}
  /\ UNCHANGED <<sessions, object>>

\* The object is what the names stand for; S3 closes the upload, and Azure
\* forgets what else was sent for the blob.
Assembles(u) ==
  LET names == upload[u].named IN
  /\ cloud = "s3" => u \in sessions
  /\ \A i \in DOMAIN names : Latest(names[i]) # {}
  /\ object' = [i \in DOMAIN names |-> CHOOSE s \in Latest(names[i]) : TRUE]
  /\ sessions' = sessions \ {u}
  /\ stash' = IF cloud = "azure" THEN {} ELSE {s \in stash : s.of # u}

\* A session takes what follows on what it has, all of it or some, and has the
\* object when it has every byte.
ChunkLands(u) ==
  LET had == {s \in stash : s.of = u}
      follows == IF had = {} THEN upload[u].sent = 0
                 ELSE \E s \in had : s.at + s.n = upload[u].sent
      names == Append(upload[u].named, Sending(u, 0).name)
  IN
  /\ u \in sessions
  /\ \E n \in 0 .. This(u) :
       /\ ~follows => n = 0
       /\ LET has == had \cup (IF n = 0 THEN {} ELSE {Sending(u, n)}) IN
          IF follows /\ upload[u].sent + n = length
            THEN /\ object' = [i \in DOMAIN names |-> CHOOSE s \in has : s.name = names[i]]
                 /\ sessions' = sessions \ {u}
                 /\ stash' = stash \ had
            ELSE /\ stash' = stash \cup has
                 /\ UNCHANGED <<sessions, object>>

Lands(u, request) ==
  CASE request = "put" -> /\ object' = <<Piece(u, 1, 0, length)>>
                          /\ UNCHANGED <<sessions, stash>>
    [] request = "begin" -> /\ sessions' = sessions \cup {u}
                            /\ UNCHANGED <<stash, object>>
    [] request = "send" -> IF cloud = "gcs" THEN ChunkLands(u) ELSE PieceLands(u)
    [] request = "finish" -> Assembles(u)
    [] request = "abort" -> /\ sessions' = sessions \ {u}
                            /\ stash' = {s \in stash : s.of # u}
                            /\ UNCHANGED object

-----------------------------------------------------------------------------
(* put_file.                                                               *)

\* One request while one will carry it.  Azure starts with the first block, if
\* there are not too many; part_size sees to it that parts are never too many.
Opens(u) ==
  /\ Doing(u, "new")
  /\ Sets(u, [upload[u] EXCEPT !.pc =
       CASE length <= PutCeiling -> "put"
         [] length > PutCeiling /\ cloud # "azure" -> "begin"
         [] OTHER -> IF div_ceil(length, PieceSize) > MOST_BLOCKS THEN "failed" ELSE "send"])
  /\ UNCHANGED <<cloud, length, sessions, stash, object>>

PutsWhole(u) ==
  /\ Doing(u, "put")
  /\ Lands(u, "put")
  /\ Sets(u, [upload[u] EXCEPT !.pc = "done"])
  /\ UNCHANGED <<cloud, length>>

Starts(u) ==
  /\ Doing(u, "begin")
  /\ Lands(u, "begin")
  /\ Sets(u, [upload[u] EXCEPT !.pc = "send"])
  /\ UNCHANGED <<cloud, length>>

\* begin of multipart.rs.
BeginsUpload(u) == cloud = "s3" /\ Starts(u)

\* The first request of put_resumable.
BeginsSession(u) == cloud = "gcs" /\ Starts(u)

Sent(u, pc) ==
  Sets(u, [upload[u] EXCEPT !.pc = pc, !.sent = @ + This(u),
                            !.named = Append(@, Sending(u, 0).name)])

\* A turn of the loop in parts.
SendsPart(u) ==
  /\ Doing(u, "send")
  /\ cloud = "s3"
  /\ Lands(u, "send")
  /\ Sent(u, IF IsLast(u) THEN "finish" ELSE "send")
  /\ UNCHANGED <<cloud, length>>

\* A turn of the loop in put_in_blocks.
SendsBlock(u) ==
  /\ Doing(u, "send")
  /\ cloud = "azure"
  /\ Lands(u, "send")
  /\ Sent(u, IF IsLast(u) THEN "finish" ELSE "send")
  /\ UNCHANGED <<cloud, length>>

\* A turn of the loop in put_resumable: 308 for all but the last chunk, whatever
\* the session took, and success for that one.
SendsChunk(u) ==
  /\ Doing(u, "send")
  /\ cloud = "gcs"
  /\ Lands(u, "send")
  /\ Sent(u, IF ~IsLast(u) THEN "send" ELSE IF u \in sessions' THEN "failed" ELSE "done")
  /\ UNCHANGED <<cloud, length>>

Done(u) ==
  /\ Doing(u, "finish")
  /\ Lands(u, "finish")
  /\ Sets(u, [upload[u] EXCEPT !.pc = "done"])
  /\ UNCHANGED <<cloud, length>>

\* finish: the parts are named by their tags.
Completes(u) == cloud = "s3" /\ Done(u)

\* The block list.
Commits(u) == cloud = "azure" /\ Done(u)

Aborts(u) ==
  /\ Doing(u, "abort")
  /\ Lands(u, "abort")
  /\ Sets(u, [upload[u] EXCEPT !.pc = "failed"])
  /\ UNCHANGED <<cloud, length>>

\* A part that fails takes the upload with it, if it can.
Failed(u) == IF cloud = "s3" /\ Doing(u, "send") THEN "abort" ELSE "failed"

\* The store refuses, or cannot be reached; and the request may reach it yet.
Fails(u) ==
  /\ upload[u].pc \in Requested
  /\ \E late \in {"none", upload[u].pc} :
       Sets(u, [upload[u] EXCEPT !.pc = Failed(u), !.late = late])
  /\ UNCHANGED <<cloud, length, sessions, stash, object>>

\* The process ends, or the client goes and put_file with it.
Dies(u) ==
  /\ upload[u].pc \in Requested
  /\ Sets(u, [upload[u] EXCEPT !.pc = "failed", !.late = upload[u].pc])
  /\ UNCHANGED <<cloud, length, sessions, stash, object>>

Late(u) ==
  /\ upload[u].late # "none"
  /\ Lands(u, upload[u].late)
  /\ Sets(u, [upload[u] EXCEPT !.late = "none"])
  /\ UNCHANGED <<cloud, length>>

UploadsNext ==
  \E u \in Uploads :
    \/ Opens(u) \/ PutsWhole(u) \/ BeginsUpload(u) \/ BeginsSession(u)
    \/ SendsPart(u) \/ SendsBlock(u) \/ SendsChunk(u) \/ Completes(u) \/ Commits(u)
    \/ Aborts(u) \/ Fails(u) \/ Dies(u) \/ Late(u)

UploadsSpec == UploadsInit /\ [][UploadsNext]_uploadVars

-----------------------------------------------------------------------------
(* Properties.                                                             *)

\* Every byte of one staged file, once and in order.
Whole(o) ==
  /\ o # <<>>
  /\ o[1].at = 0
  /\ \A i \in 1 .. Len(o) - 1 : o[i + 1].at = o[i].at + o[i].n /\ o[i + 1].of = o[1].of
  /\ o[Len(o)].at + o[Len(o)].n = length

\* "The key appears whole or not at all", and it is there once a push is told
\* so: whatever fails, comes late, or is sent by another push of the object at
\* the same time (multipart.rs 16-18, docs/buckets.md, docs/gcs.md).
StoredWhole ==
  /\ object # <<>> => Whole(object)
  /\ (\E u \in Uploads : Doing(u, "done")) => object # <<>>
=============================================================================
