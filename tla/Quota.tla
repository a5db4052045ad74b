------------------------------- MODULE Quota -------------------------------
(***************************************************************************)
(* What a repository is taken to hold, and what it may still be given      *)
(* (server/src/storage/usage.rs, usage_of, adopt, write and sweep of       *)
(* storage/backend.rs, and storage/s3/usage.rs and s3/sizes.rs).           *)
(*                                                                         *)
(* One repository in a bucket, and servers that each remember for a while  *)
(* what they measured: a listing of markers and of the sizes written       *)
(* beside them, and a question for every marker without a size.  A push    *)
(* asks, stores, and adds to the figure its own server remembers; a sweep  *)
(* makes its server forget.  Objects are all of one size.                  *)
(***************************************************************************)
EXTENDS Integers, FiniteSets

CONSTANTS
  Hosts,      \* servers over the bucket
  Pushes,     \* uploads and adoptions in flight at a time
  Objects,    \* digests
  Sizeless,   \* objects held since before there was a size index
  Size,       \* bytes of an object
  Limit,      \* LFSX_REPO_QUOTA
  UsageTTL,   \* TTL, in ticks
  Measuring,  \* bound: ticks between a listing and the end of its measurement
  MaxPushed,  \* bound: pushes
  MaxSwept,   \* bound: sweeps
  MaxFailed   \* bound: requests that fail

ASSUME QuotaConstantsOK ==
  /\ Size \in Nat \ {0}
  /\ Limit \in Nat
  /\ UsageTTL \in Nat \ {0}
  /\ Measuring \in Nat
  /\ MaxPushed \in Nat
  /\ MaxSwept \in Nat
  /\ MaxFailed \in Nat
  /\ Sizeless \subseteq Objects
  /\ IsFiniteSet(Sizeless)

VARIABLES
  holds,    \* objects with a marker
  sizes,    \* the size index: an empty key per object and size
  figure,   \* what each server remembers
  push,     \* the pushes
  sweep,    \* the sweep under way, if there is one
  spent,    \* pushes and sweeps begun, and requests that failed
  fitted,   \* history: ticks since one object more fitted
  filled    \* history: ticks since it did not

stored == <<holds, sizes>>
quotaVars == <<stored, figure, push, sweep, spent, fitted, filled>>

-----------------------------------------------------------------------------
NoFigure == [bytes |-> -1]
NoPush == [pc |-> "idle"]
NoObject == "none"
NoSweep == [pc |-> "idle"]

\* How old a figure gets, from its listing on; older is as good as never.
Lag == UsageTTL + Measuring

\* What is remembered and for how long; the rest is history: how long ago the
\* listing behind it was made, whether it counts every object at its size, and
\* whether something was added to it.
Figure == [bytes : Nat, age : Nat, listed : 0 .. Lag, sound : BOOLEAN, grown : BOOLEAN]

Push ==
  [pc : {"sizing", "fresh", "mark", "size", "note"}, host : Hosts, oid : Objects \cup {NoObject},
   fresh : BOOLEAN, bytes : Nat, listed : 0 .. Lag, sound : BOOLEAN, todo : SUBSET Objects]

QuotaTypeOK ==
  /\ holds \in SUBSET Objects
  /\ sizes \in SUBSET (Objects \X {0, Size})
  /\ figure \in [Hosts -> Figure \cup {NoFigure}]
  /\ push \in [Pushes -> Push \cup {NoPush}]
  /\ sweep \in [pc : {"drop"}, host : Hosts, todo : SUBSET Objects] \cup {NoSweep}
  /\ spent \in [pushes : 0 .. MaxPushed, sweeps : 0 .. MaxSwept, failures : 0 .. MaxFailed]
  /\ fitted \in 0 .. Lag
  /\ filled \in 0 .. Lag

Older(n) == IF n < Lag THEN n + 1 ELSE n

\* Over the limit is over the limit.
Sum(bytes) == IF bytes > Limit THEN bytes ELSE bytes + Size

\* An upload of one object more would fit.
Fits == Size * Cardinality(holds) + Size <= Limit

QuotaInit ==
  /\ holds = Sizeless
  /\ sizes = {}
  /\ figure = [h \in Hosts |-> NoFigure]
  /\ push = [p \in Pushes |-> NoPush]
  /\ sweep = NoSweep
  /\ spent = [pushes |-> 0, sweeps |-> 0, failures |-> 0]
  /\ fitted = IF Fits THEN 0 ELSE Lag
  /\ filled = IF Fits THEN Lag ELSE 0

Stage(p, pc) == push[p].pc = pc

Moved(p, pc) == push' = [push EXCEPT ![p].pc = pc]

Over(p) == push' = [push EXCEPT ![p] = NoPush]

MayFail(fails) ==
  /\ fails => spent.failures < MaxFailed
  /\ spent' = IF fails THEN [spent EXCEPT !.failures = @ + 1] ELSE spent

-----------------------------------------------------------------------------
(* The figure: usage.rs and usage_of.                                      *)

\* Mutant of Aged: what is remembered stays so.
AgedSlowly(f) == IF f = NoFigure THEN f ELSE [f EXCEPT !.listed = Older(@)]

\* A tick older; what cached finds too old is read by nobody any more.
Aged(f) ==
  IF f = NoFigure \/ f.age + 1 >= UsageTTL THEN NoFigure
  ELSE [f EXCEPT !.age = @ + 1, !.listed = Older(@)]

\* Mutant of Grown: a figure something is added to is as good as new.
GrownAnew(f) ==
  IF f = NoFigure THEN f ELSE [f EXCEPT !.bytes = Sum(@), !.grown = TRUE, !.age = 0]

\* Usage::stored: added where something is remembered, and no younger for it.
Grown(f) ==
  IF f = NoFigure THEN f ELSE [f EXCEPT !.bytes = Sum(@), !.grown = TRUE]

\* The index as a map: of two sizes of an object the listing names the larger
\* one last.
Indexed(o) == \E n \in {0, Size} : <<o, n>> \in sizes

SizedRight(o) == <<o, Size>> \in sizes

\* Budget::exceeded_by, and what becomes of the push.
Judged(p, h, f) ==
  push' = [push EXCEPT ![p] =
    IF f.bytes + Size > Limit THEN NoPush
    ELSE [pc |-> "fresh", host |-> h, oid |-> NoObject, fresh |-> TRUE, bytes |-> 0,
          listed |-> 0, sound |-> TRUE, todo |-> {}]]

\* A push of an object the bucket does not say is held: it is not, or the bucket
\* says nothing.  Up to here all objects are alike, being of one size.
Remembers(p, h) ==
  /\ Stage(p, "idle")
  /\ figure[h] # NoFigure
  /\ Judged(p, h, figure[h])
  /\ spent.pushes < MaxPushed
  /\ spent' = [spent EXCEPT !.pushes = @ + 1]
  /\ UNCHANGED <<stored, figure, sweep>>

\* One listing answers for the markers and their sizes; one that fails is a
\* repository that holds nothing.
Lists(p, h, seen) ==
  /\ Stage(p, "idle")
  /\ figure[h] = NoFigure
  /\ push' = [push EXCEPT ![p] =
       [pc |-> "sizing", host |-> h, oid |-> NoObject, fresh |-> TRUE,
        bytes |-> Size * Cardinality({x \in seen : SizedRight(x)}),
        listed |-> 0,
        sound |-> seen = holds /\ \A x \in holds : Indexed(x) => SizedRight(x),
        todo |-> {x \in seen : ~Indexed(x)}]]
  /\ spent.pushes < MaxPushed
  /\ seen # holds => spent.failures < MaxFailed
  /\ spent' = [spent EXCEPT !.pushes = @ + 1, !.failures = @ + (IF seen # holds THEN 1 ELSE 0)]
  /\ UNCHANGED <<stored, figure, sweep>>

\* measure_and_index: a question that fails is a size of nothing, and is
\* written down like any other, if writing does not fail.
Measures(p, o, size, wrote) ==
  /\ Stage(p, "sizing")
  /\ o \in push[p].todo
  /\ push' = [push EXCEPT ![p] =
       [push[p] EXCEPT !.bytes = @ + size, !.todo = @ \ {o}, !.sound = @ /\ size = Size]]
  /\ sizes' = IF wrote THEN sizes \cup {<<o, size>>} ELSE sizes
  /\ MayFail(size # Size \/ ~wrote)
  /\ UNCHANGED <<holds, figure, sweep>>

Measured(p) ==
  LET f == [bytes |-> push[p].bytes, age |-> 0, listed |-> push[p].listed,
            sound |-> push[p].sound, grown |-> FALSE]
  IN
  /\ Stage(p, "sizing")
  /\ push[p].todo = {}
  /\ figure' = [figure EXCEPT ![push[p].host] = f]
  /\ Judged(p, push[p].host, f)
  /\ UNCHANGED <<stored, sweep, spent>>

-----------------------------------------------------------------------------
(* What a push does then, and a sweep.                                     *)

\* write asks again whether the object is new, and takes it to be if the bucket
\* does not answer; adopt does not ask.
AsksAgain(p, o, fresh) ==
  /\ Stage(p, "fresh")
  /\ o \notin holds => fresh
  /\ push' = [push EXCEPT ![p] = [@ EXCEPT !.pc = "mark", !.oid = o, !.fresh = fresh]]
  /\ UNCHANGED <<stored, figure, sweep, spent>>

Marks(p) ==
  /\ Stage(p, "mark")
  /\ holds' = holds \cup {push[p].oid}
  /\ Moved(p, "size")
  /\ UNCHANGED <<sizes, figure, sweep, spent>>

Indexes(p) ==
  /\ Stage(p, "size")
  /\ sizes' = sizes \cup {<<push[p].oid, Size>>}
  /\ Moved(p, "note")
  /\ UNCHANGED <<holds, figure, sweep, spent>>

\* Either write may fail, and the push with it.
Fails(p) ==
  /\ Stage(p, "mark") \/ Stage(p, "size")
  /\ Over(p)
  /\ MayFail(TRUE)
  /\ UNCHANGED <<stored, figure, sweep>>

Adds(p) ==
  LET h == push[p].host IN
  /\ Stage(p, "note")
  /\ figure' = IF push[p].fresh THEN [figure EXCEPT ![h] = Grown(@)] ELSE figure
  /\ Over(p)
  /\ UNCHANGED <<stored, sweep, spent>>

\* A sweep has listed and decided.
Sweeps(h, drop) ==
  /\ sweep = NoSweep
  /\ drop # {}
  /\ sweep' = [pc |-> "drop", host |-> h, todo |-> drop]
  /\ spent.sweeps < MaxSwept
  /\ spent' = [spent EXCEPT !.sweeps = @ + 1]
  /\ UNCHANGED <<stored, figure, push>>

\* A marker, and the last of its sizes the listing named unless that fails.  In
\* between the size counts for nothing.
Drops(o, tidy) ==
  /\ sweep # NoSweep
  /\ o \in sweep.todo
  /\ sweep' = [sweep EXCEPT !.todo = @ \ {o}]
  /\ holds' = holds \ {o}
  /\ sizes' = IF ~tidy THEN sizes
              ELSE sizes \ {<<o, IF SizedRight(o) THEN Size ELSE 0>>}
  /\ MayFail(~tidy)
  /\ UNCHANGED <<figure, push>>

Swept ==
  /\ sweep # NoSweep
  /\ sweep.todo = {}
  /\ figure' = [figure EXCEPT ![sweep.host] = NoFigure]
  /\ sweep' = NoSweep
  /\ UNCHANGED <<stored, push, spent>>

\* A sweep that fails forgets nothing, whatever it freed.
SweepFails ==
  /\ sweep # NoSweep
  /\ sweep' = NoSweep
  /\ MayFail(TRUE)
  /\ UNCHANGED <<stored, figure, push>>

Passes ==
  /\ \A p \in Pushes : Stage(p, "sizing") => push[p].listed < Measuring
  /\ figure' = [h \in Hosts |-> Aged(figure[h])]
  /\ push' = [p \in Pushes |->
       IF Stage(p, "sizing") THEN [push[p] EXCEPT !.listed = Older(@)] ELSE push[p]]
  /\ fitted' = IF Fits THEN 0 ELSE Older(fitted)
  /\ filled' = IF Fits THEN Older(filled) ELSE 0
  /\ UNCHANGED <<stored, sweep, spent>>

QuotaNext ==
  \/ /\ \/ \E p \in Pushes :
             \/ \E h \in Hosts :
                  \/ Remembers(p, h)
                  \/ \E seen \in {holds, {}} : Lists(p, h, seen)
             \/ Measured(p)
             \/ \E o \in Objects, size \in {0, Size}, wrote \in BOOLEAN :
                  Measures(p, o, size, wrote)
             \/ \E o \in Objects, fresh \in BOOLEAN : AsksAgain(p, o, fresh)
             \/ Marks(p) \/ Indexes(p) \/ Fails(p) \/ Adds(p)
        \/ \E h \in Hosts, drop \in SUBSET holds : Sweeps(h, drop)
        \/ \E o \in Objects, tidy \in BOOLEAN : Drops(o, tidy)
        \/ Swept
        \/ SweepFails
     /\ fitted' = IF Fits' THEN 0 ELSE fitted
     /\ filled' = IF Fits' THEN filled ELSE 0
  \/ Passes

QuotaSpec == QuotaInit /\ [][QuotaNext]_quotaVars

-----------------------------------------------------------------------------
(* Properties.                                                             *)

\* While a server lets pushes through, one would have fitted at some instant of
\* the last minute: other servers and pushes that overlap may take a repository
\* over its quota, but it is not overlooked for longer than a figure is
\* remembered.  Excused is a figure the bucket failed to answer for, now or
\* when it was asked an object's size (storage/usage.rs 8-18, size-limits.md).
FullRefused ==
  \A h \in Hosts :
    figure[h] # NoFigure /\ figure[h].bytes + Size <= Limit =>
      fitted < Lag \/ ~figure[h].sound

\* While it refuses them, one did not fit at some instant of the last minute,
\* or it has added to a figure measured within it, perhaps for an object the
\* listing had seen: nobody is refused for long space that is free
\* (storage/backend.rs 433-438).
RoomSeen ==
  \A h \in Hosts :
    figure[h] # NoFigure /\ figure[h].bytes + Size > Limit =>
      filled < Lag \/ (figure[h].grown /\ figure[h].listed < Lag)
=============================================================================
