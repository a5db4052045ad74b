--------------------------- MODULE KeyspaceClient ---------------------------
(***************************************************************************)
(* One key at a time of a bucket, over HTTP, in the dialects of S3, Azure  *)
(* and Google Cloud Storage (server/src/storage/s3/keyspace.rs and         *)
(* keyspace/s3.rs, azure.rs, gcs.rs): what a call tells its caller when    *)
(* other servers use the same keys and requests and answers are lost.      *)
(*                                                                         *)
(* The store is external, and modelled from what the dialects make of its  *)
(* answers: it does what it is asked at one instant, and its answer may    *)
(* not arrive.  A body is known by its version: no two are alike.          *)
(***************************************************************************)
EXTENDS Naturals, FiniteSets

CONSTANTS
  Clients,      \* calls that run at a time, of any servers
  Last,         \* the keys under a prefix are 1 .. Last, in listing order
  Page,         \* keys a page of a listing has at most
  MaxWritten,   \* bound: bodies the store takes
  MaxTroubles   \* bound: requests refused, requests and answers lost

ASSUME KeyspaceConstantsOK ==
  /\ Last \in Nat
  /\ Page \in Nat \ {0}
  /\ MaxWritten \in Nat
  /\ MaxTroubles \in Nat

VARIABLES
  dialect,   \* of the Keyspace
  held,      \* the version under a key; 0 is none
  written,   \* bodies the store took
  troubles,
  call       \* the calls

keyspaceVars == <<dialect, held, written, troubles, call>>

Dialects == {"s3", "azure", "gcs"}

BucketKeys == 1 .. Last

Versions == 0 .. MaxWritten

Sized == {"head", "get_range"}

Bodies == {"get_bytes", "get_versioned"}

Lookups == Sized \cup Bodies

Puts == {"put", "put_if_absent"}

Removals == {"delete", "delete_if_unchanged"}

Ops == Lookups \cup Puts \cup Removals \cup {"entries"}

\* A page names where the next one starts; 0 is no name, and this an empty one.
EmptyToken == Last + 1

\* conflict and precondition are 409 and 412; refused is any other refusal.
Said == {"ok", "not_found", "conflict", "precondition", "refused"}

-----------------------------------------------------------------------------
(* What a dialect makes of a status: yes (a body, done, true), no (None,   *)
(* NotFound, false) or an error.                                           *)

Refusals == Said \ {"ok"}

Answer(s, no) == IF s = "ok" THEN "yes" ELSE IF s \in no THEN "no" ELSE "error"

\* Any refusal is NotFound.
S3Sizes(s) == Answer(s, Refusals)

S3Reads(s) == Answer(s, {"not_found"})

S3Puts(s) == Answer(s, {})

S3Creates(s) == Answer(s, {"precondition"})

S3Unchanged(s) == Answer(s, {"precondition", "not_found"})

\* The answer says nothing of whether the key was there, which a HEAD found out
\* before.
S3Delete(s, existed) == Answer(IF s = "ok" /\ ~existed THEN "not_found" ELSE s, {"not_found"})

AzureSizes(s) == Answer(s, Refusals)

AzureReads(s) == Answer(s, {"not_found"})

AzurePuts(s) == Answer(s, {})

\* A blob that is there is a conflict, or a condition that fails.
AzureCreates(s) == Answer(s, {"conflict", "precondition"})

AzureUnchanged(s) == Answer(s, {"precondition", "not_found"})

AzureDelete(s) == Answer(s, {"not_found"})

GcsSizes(s) == Answer(s, Refusals)

GcsReads(s) == Answer(s, {"not_found"})

GcsPuts(s) == Answer(s, {})

GcsCreates(s) == Answer(s, {"precondition"})

GcsUnchanged(s) == Answer(s, {"precondition", "not_found"})

GcsDelete(s) == Answer(s, {"not_found"})

S3(op, s, existed) ==
  CASE op \in Sized -> S3Sizes(s)
    [] op \in Bodies -> S3Reads(s)
    [] op = "put" -> S3Puts(s)
    [] op = "put_if_absent" -> S3Creates(s)
    [] op = "delete_if_unchanged" -> S3Unchanged(s)
    [] op = "delete" -> S3Delete(s, existed)

Azure(op, s) ==
  CASE op \in Sized -> AzureSizes(s)
    [] op \in Bodies -> AzureReads(s)
    [] op = "put" -> AzurePuts(s)
    [] op = "put_if_absent" -> AzureCreates(s)
    [] op = "delete_if_unchanged" -> AzureUnchanged(s)
    [] op = "delete" -> AzureDelete(s)

Gcs(op, s) ==
  CASE op \in Sized -> GcsSizes(s)
    [] op \in Bodies -> GcsReads(s)
    [] op = "put" -> GcsPuts(s)
    [] op = "put_if_absent" -> GcsCreates(s)
    [] op = "delete_if_unchanged" -> GcsUnchanged(s)
    [] op = "delete" -> GcsDelete(s)

\* Keyspace: the dialect answers.
Outcome(op, s, existed) ==
  CASE dialect = "s3"    -> S3(op, s, existed)
    [] dialect = "azure" -> Azure(op, s)
    [] dialect = "gcs"   -> Gcs(op, s)

-----------------------------------------------------------------------------
\* Mutant of Repeatable: a request with a body in memory could be sent again.
RepeatableIfSmall == Ops \ {"get_range"}

\* read_retrying: what may be sent a second time.
Repeatable == {"head", "get_bytes", "get_versioned", "entries"}

Sends(op) == IF op \in Repeatable THEN 2 ELSE 1

Idle == [step |-> "idle"]

\* A call: what it asks, the sends it has left, what the store answered (said,
\* got; next is the token of a page), what a listing has found and from where
\* it goes on, whether the HEAD before a delete found the key, and what it
\* tells the caller.  History: views, what there was to be seen while it runs;
\* mine, the version it wrote or removed; unsure, a lookup was not answered.
Calls ==
  [step : {"head", "ask", "answer", "end"}, op : Ops, key : BucketKeys, version : Versions,
   sends : 0 .. 2, said : Said, got : Versions, page : SUBSET BucketKeys,
   next : 0 .. EmptyToken, found : SUBSET BucketKeys, from : 0 .. Last, existed : BOOLEAN,
   tells : {"nothing", "yes", "no", "error"},
   views : SUBSET [BucketKeys -> Versions], mine : Versions, unsure : BOOLEAN]

KeyspaceTypeOK ==
  /\ dialect \in Dialects
  /\ held \in [BucketKeys -> Versions]
  /\ written \in Versions
  /\ troubles \in 0 .. MaxTroubles
  /\ call \in [Clients -> Calls \cup {Idle}]

\* What a call could tell of the keys h: a listing all of them, another its own.
View(r, h) ==
  [k \in BucketKeys |-> IF r.op = "entries" \/ k = r.key THEN h[k] ELSE 0]

\* The versions under its key while it ran.
Seen(r) == {h[r.key] : h \in r.views}

KeyspaceInit ==
  /\ dialect \in Dialects
  /\ held = [k \in BucketKeys |-> 0]
  /\ written = 0
  /\ troubles = 0
  /\ call = [c \in Clients |-> Idle]

At(c, step) == call[c].step = step

\* The call is r now, and the keys are h: every call has seen that.
Now(c, r, h) ==
  /\ held' = h
  /\ call' = [d \in Clients |->
       LET s == IF d = c THEN r ELSE call[d] IN
       IF s = Idle THEN s ELSE [s EXCEPT !.views = @ \cup {View(s, h)}]]

Mine(c, r) == call' = [call EXCEPT ![c] = r]

Begin(c, op, k, v) ==
  /\ call[c] = Idle
  /\ op = "delete_if_unchanged" <=> v # 0
  /\ op = "entries" => k = 1
  /\ v <= written
  /\ Now(c, [step |-> IF op = "delete" /\ dialect = "s3" THEN "head" ELSE "ask",
             op |-> op, key |-> k, version |-> v,
             sends |-> IF op = "delete" /\ dialect = "s3" THEN Sends("head") ELSE Sends(op),
             said |-> "refused", got |-> 0, page |-> {}, next |-> 0, found |-> {},
             from |-> 0, existed |-> FALSE, tells |-> "nothing", views |-> {},
             mine |-> 0, unsure |-> FALSE], held)
  /\ UNCHANGED <<dialect, written, troubles>>

-----------------------------------------------------------------------------
(* The store.                                                              *)

\* A request that changes nothing.
Answers(c, said, got) ==
  /\ Mine(c, [call[c] EXCEPT !.step = "answer", !.said = said, !.got = got])
  /\ UNCHANGED <<held, written>>

LookedUp(c) ==
  LET r == call[c] IN
  /\ At(c, "ask")
  /\ r.op \in Lookups
  /\ Answers(c, IF held[r.key] = 0 THEN "not_found" ELSE "ok", held[r.key])
  /\ UNCHANGED <<dialect, troubles>>

\* The HEAD before a delete.
Existed(c) ==
  /\ At(c, "head")
  /\ Mine(c, [call[c] EXCEPT !.step = "ask", !.sends = Sends("delete"),
                             !.existed = held[call[c].key] # 0])
  /\ UNCHANGED <<dialect, held, written, troubles>>

Written(c) ==
  LET r == call[c] IN
  /\ At(c, "ask")
  /\ r.op \in Puts
  /\ IF r.op = "put_if_absent" /\ held[r.key] # 0
       THEN /\ \E said \in IF dialect = "azure" THEN {"conflict", "precondition"}
                                                ELSE {"precondition"} :
                 Answers(c, said, 0)
       ELSE /\ written < MaxWritten
            /\ written' = written + 1
            /\ Now(c, [r EXCEPT !.step = "answer", !.said = "ok", !.mine = written + 1],
                   [held EXCEPT ![r.key] = written + 1])
  /\ UNCHANGED <<dialect, troubles>>

\* S3 says the same of a delete whether or not there was something.
Removed(c) ==
  LET r == call[c]
      v == held[r.key]
  IN
  /\ At(c, "ask")
  /\ r.op \in Removals
  /\ CASE r.op = "delete_if_unchanged" /\ v = 0 -> Answers(c, "not_found", 0)
       [] r.op = "delete_if_unchanged" /\ v \notin {0, r.version} -> Answers(c, "precondition", 0)
       [] r.op = "delete" /\ v = 0 /\ dialect # "s3" -> Answers(c, "not_found", 0)
       [] OTHER -> /\ Now(c, [r EXCEPT !.step = "answer", !.said = "ok", !.mine = v],
                          [held EXCEPT ![r.key] = 0])
                   /\ UNCHANGED written
  /\ UNCHANGED <<dialect, troubles>>

\* The keys after r.from, a page of them, and where the next page starts.
Listed(c) ==
  LET r == call[c]
      rest == {k \in BucketKeys : k > r.from /\ held[k] # 0}
  IN
  /\ At(c, "ask")
  /\ r.op = "entries"
  /\ \E page \in SUBSET rest, next \in 0 .. EmptyToken :
       /\ \A k \in page, l \in rest \ page : k < l
       /\ page = rest \/ Cardinality(page) = Page
       /\ Cardinality(page) <= Page
       /\ IF page = rest THEN next \in IF dialect = "s3" THEN {0} ELSE {0, EmptyToken}
                         ELSE next \in page /\ \A k \in page : k <= next
       /\ Mine(c, [r EXCEPT !.step = "answer", !.said = "ok", !.page = page, !.next = next])
  /\ UNCHANGED <<dialect, held, written, troubles>>

\* It cannot or will not.  What the condition of another's request gets from S3
\* while a conditional write runs is a conflict.
Refused(c) ==
  /\ troubles < MaxTroubles
  /\ troubles' = troubles + 1
  /\ \/ /\ At(c, "ask")
        /\ \E said \in IF dialect = "s3" THEN {"refused", "conflict"} ELSE {"refused"} :
             Mine(c, [call[c] EXCEPT !.step = "answer", !.said = said, !.unsure = TRUE])
     \/ /\ At(c, "head")
        /\ Mine(c, [call[c] EXCEPT !.step = "ask", !.sends = Sends("delete"), !.unsure = TRUE])
  /\ UNCHANGED <<dialect, held, written>>

-----------------------------------------------------------------------------
(* The client.                                                             *)

Tells(c, tells) == Mine(c, [call[c] EXCEPT !.step = "end", !.tells = tells])

\* The request or its answer is lost: send fails.
Lost(c) ==
  LET r == call[c] IN
  /\ troubles < MaxTroubles
  /\ troubles' = troubles + 1
  /\ \/ /\ At(c, "ask") \/ At(c, "answer")
        /\ IF r.sends > 1 THEN Mine(c, [r EXCEPT !.step = "ask", !.sends = @ - 1])
                          ELSE Tells(c, "error")
     \/ /\ At(c, "head")
        /\ IF r.sends > 1 THEN Mine(c, [r EXCEPT !.sends = @ - 1])
           ELSE Mine(c, [r EXCEPT !.step = "ask", !.sends = Sends("delete"), !.unsure = TRUE])
  /\ UNCHANGED <<dialect, held, written>>

\* A body, or a page, that breaks off: it is not asked for again.
Torn(c) ==
  /\ troubles < MaxTroubles
  /\ troubles' = troubles + 1
  /\ At(c, "answer")
  /\ call[c].op \in {"get_bytes", "get_versioned", "entries"}
  /\ Tells(c, "error")
  /\ UNCHANGED <<dialect, held, written>>

Returns(c) ==
  LET r == call[c] IN
  /\ At(c, "answer")
  /\ r.op # "entries"
  /\ Tells(c, Outcome(r.op, r.said, r.existed))
  /\ UNCHANGED <<dialect, held, written, troubles>>

\* Mutant of Continues: one page is the listing.
ContinuesNever(next) == FALSE

S3Next(next) == next # 0

AzureNext(next) == next \notin {0, EmptyToken}

GcsNext(next) == next \notin {0, EmptyToken}

\* Whether there is another page: the store named where it starts.
Continues(next) ==
  CASE dialect = "s3"    -> S3Next(next)
    [] dialect = "azure" -> AzureNext(next)
    [] dialect = "gcs"   -> GcsNext(next)

\* entries: a page, and on to the next one.
Pages(c) ==
  LET r == call[c] IN
  /\ At(c, "answer")
  /\ r.op = "entries"
  /\ CASE r.said # "ok" -> Tells(c, "error")
       [] r.said = "ok" /\ Continues(r.next) ->
            Mine(c, [r EXCEPT !.step = "ask", !.sends = Sends("entries"),
                              !.found = @ \cup r.page, !.from = r.next])
       [] OTHER ->
            Mine(c, [r EXCEPT !.step = "end", !.tells = "yes", !.found = @ \cup r.page])
  /\ UNCHANGED <<dialect, held, written, troubles>>

Ends(c) ==
  /\ At(c, "end")
  /\ Mine(c, Idle)
  /\ UNCHANGED <<dialect, held, written, troubles>>

KeyspaceNext ==
  \E c \in Clients :
    \/ \E op \in Ops, k \in BucketKeys, v \in Versions : Begin(c, op, k, v)
    \/ LookedUp(c) \/ Existed(c) \/ Written(c) \/ Removed(c) \/ Listed(c) \/ Refused(c)
    \/ Lost(c) \/ Torn(c) \/ Returns(c) \/ Pages(c) \/ Ends(c)

KeyspaceSpec == KeyspaceInit /\ [][KeyspaceNext]_keyspaceVars

-----------------------------------------------------------------------------
(* Properties.                                                             *)

\* The version that is told was there; so was its absence, unless the store was
\* asked for the size or a range and refused.
LookupHonest(r) ==
  /\ r.tells = "yes" => r.got \in Seen(r) \ {0}
  /\ r.tells = "no" => 0 \in Seen(r) \/ (r.op \in Sized /\ r.unsure)

\* "The store itself decides who arrived first": taken means by another.
WriteHonest(r) ==
  /\ r.tells = "yes" => r.mine # 0
  /\ r.tells = "no" => r.mine = 0 /\ Seen(r) \ {0} # {}

\* What is removed is what was read; and if not, it was not there any more.
RemovalHonest(r) ==
  /\ r.tells = "yes" => r.mine = r.version
  /\ r.tells = "no" => r.mine = 0 /\ Seen(r) \ {r.version} # {}

\* Of a plain removal it is told whether the key was there before, unless S3 did
\* not say when it was asked.
DeleteHonest(r) ==
  /\ r.tells = "yes" => Seen(r) \ {0} # {}
  /\ r.tells = "no" => 0 \in Seen(r) \/ r.unsure

\* Every key that was there all the time is listed, and none that never was.
ListingHonest(r) ==
  r.tells = "yes" =>
    /\ \A k \in BucketKeys : (\A h \in r.views : h[k] # 0) => k \in r.found
    /\ \A k \in r.found : \E h \in r.views : h[k] # 0

\* What a call tells its caller was so while the call ran, whatever other
\* servers did and whatever was lost: a lock that is taken was taken by another,
\* a record that was removed is the one that was read, and a listing is whole
\* (keyspace.rs 189-230, keyspace/s3.rs 246-276).
AnswersHonest ==
  \A c \in Clients :
    LET r == call[c] IN
    At(c, "end") =>
      CASE r.op \in Lookups -> LookupHonest(r)
        [] r.op \in Puts -> WriteHonest(r)
        [] r.op = "delete_if_unchanged" -> RemovalHonest(r)
        [] r.op = "delete" -> DeleteHonest(r)
        [] r.op = "entries" -> ListingHonest(r)
=============================================================================
