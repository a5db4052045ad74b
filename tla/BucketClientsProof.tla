------------------------- MODULE BucketClientsProof --------------------------
(***************************************************************************)
(* What stands between a server and its bucket, for any number of calls,   *)
(* keys and uploads, any size of a page and of a piece, any length of a    *)
(* file and any number of lost requests.                                   *)
(*                                                                         *)
(* AnswersHonest: a call has seen the keys as they are now.  What the      *)
(* store answers is true of one of the states it has seen, and stays so:   *)
(* what a call has seen only grows.  Nothing that changes keys is sent a   *)
(* second time.                                                            *)
(*                                                                         *)
(* StoredWhole: what an upload has sent are the first shares of its file,  *)
(* and a request that may still reach the store is due at what it has      *)
(* sent.  What the store knows by a name is the share of that name: of     *)
(* nobody else, because names carry the upload; Google's sessions hold the *)
(* first shares and some of the next.                                      *)
(***************************************************************************)
EXTENDS KeyspaceClient, LargeUploads, Integers, TLAPS

-----------------------------------------------------------------------------
(* KeyspaceClient: what a call is told was so while it ran.                *)

\* A call before it is answered has written nothing, nor has one that was
\* refused; and a request with an effect is sent once.
Once(r) ==
  /\ r.op = "delete_if_unchanged" => r.version # 0
  /\ r.step = "head" => r.op = "delete" /\ ~r.existed
  /\ r.op \in Repeatable => r.mine = 0
  /\ r.step # "head" /\ r.sends > 1 => r.op \in Repeatable
  /\ r.step \in {"head", "ask"} => r.mine = 0
  /\ r.step = "answer" /\ r.said # "ok" => r.mine = 0

LookupSaid(r) ==
  r.step = "answer" /\ r.op \in Lookups =>
    /\ r.said = "ok" => r.got \in Seen(r) \ {0}
    /\ r.said = "not_found" => 0 \in Seen(r)
    /\ r.said \notin {"ok", "not_found"} => r.unsure

\* What says that the key is taken.
Taken(said) == said = "precondition" \/ (said = "conflict" /\ dialect = "azure")

WriteSaid(r) ==
  r.step = "answer" /\ r.op \in Puts =>
    /\ r.said = "ok" => r.mine # 0
    /\ r.op = "put_if_absent" /\ Taken(r.said) => Seen(r) \ {0} # {}

RemovalSaid(r) ==
  r.step = "answer" /\ r.op = "delete_if_unchanged" =>
    /\ r.said = "ok" => r.mine = r.version
    /\ r.said \in {"not_found", "precondition"} => Seen(r) \ {r.version} # {}

\* What the HEAD before a delete found out.
HeadSaid(r) ==
  dialect = "s3" /\ r.op = "delete" /\ r.step \in {"ask", "answer"} =>
    /\ r.existed => Seen(r) \ {0} # {}
    /\ ~r.existed => 0 \in Seen(r) \/ r.unsure

DeleteSaid(r) ==
  r.step = "answer" /\ r.op = "delete" =>
    /\ r.said = "ok" /\ dialect # "s3" => Seen(r) \ {0} # {}
    /\ r.said = "not_found" => 0 \in Seen(r)

\* The listing is whole up to where it goes on from, and a page up to its end.
ListedSoFar(r) ==
  r.op = "entries" =>
    /\ \A k \in 1 .. r.from : (\A h \in r.views : h[k] # 0) => k \in r.found
    /\ \A k \in r.found : \E h \in r.views : h[k] # 0

PageSaid(r) ==
  r.step = "answer" /\ r.op = "entries" /\ r.said = "ok" =>
    /\ Continues(r.next) => r.next \in BucketKeys
    /\ \A k \in BucketKeys :
         /\ r.from < k
         /\ Continues(r.next) => k <= r.next
         /\ \A h \in r.views : h[k] # 0
         => k \in r.page
    /\ \A k \in r.page : \E h \in r.views : h[k] # 0

Honest(r) ==
  /\ r.op \in Lookups => LookupHonest(r)
  /\ r.op \in Puts => WriteHonest(r)
  /\ r.op = "delete_if_unchanged" => RemovalHonest(r)
  /\ r.op = "delete" => DeleteHonest(r)
  /\ r.op = "entries" => ListingHonest(r)

CallInv(r) ==
  /\ Once(r)
  /\ LookupSaid(r) /\ WriteSaid(r) /\ RemovalSaid(r) /\ HeadSaid(r) /\ DeleteSaid(r)
  /\ ListedSoFar(r) /\ PageSaid(r)
  /\ r.step = "end" => Honest(r)

\* The state it is in is one a call has seen.
Current(r) == View(r, held) \in r.views

KeyspaceInv ==
  /\ KeyspaceTypeOK
  /\ \A c \in Clients : call[c] # Idle => CallInv(call[c]) /\ Current(call[c])

Keyholds == [BucketKeys -> Versions]

LEMMA NotIdle == \A r \in Calls : r # Idle
BY DEF Calls, Idle

LEMMA Busy ==
  ASSUME KeyspaceInv, NEW c \in Clients, call[c].step # "idle"
  PROVE  call[c] \in Calls /\ call[c] # Idle /\ CallInv(call[c]) /\ Current(call[c])
BY DEF KeyspaceInv, KeyspaceTypeOK, Idle

LEMMA ViewType ==
  ASSUME NEW r, NEW h \in Keyholds
  PROVE  View(r, h) \in Keyholds
<1>1. 0 \in Versions
  BY KeyspaceConstantsOK DEF Versions
<1> QED BY <1>1 DEF View, Keyholds

\* What holds of a call holds after it has seen more.
LEMMA Grows ==
  ASSUME NEW r \in Calls, CallInv(r), NEW v \in Keyholds
  PROVE  LET s == [r EXCEPT !.views = @ \cup {v}] IN
         s \in Calls /\ CallInv(s) /\ s.views = r.views \cup {v} /\ s.op = r.op /\ s.key = r.key
<1> DEFINE s == [r EXCEPT !.views = @ \cup {v}]
<1>1. s \in Calls
  BY DEF Calls, Keyholds
<1>2. /\ s.step = r.step /\ s.op = r.op /\ s.key = r.key /\ s.version = r.version
      /\ s.sends = r.sends /\ s.said = r.said /\ s.got = r.got /\ s.page = r.page
      /\ s.next = r.next /\ s.found = r.found /\ s.from = r.from /\ s.existed = r.existed
      /\ s.tells = r.tells /\ s.mine = r.mine /\ s.unsure = r.unsure
      /\ s.views = r.views \cup {v}
  BY DEF Calls
<1> HIDE DEF s
<1>3. Seen(r) \subseteq Seen(s)
  BY <1>2 DEF Seen
<1>4. Once(s) /\ LookupSaid(s) /\ WriteSaid(s) /\ RemovalSaid(s) /\ HeadSaid(s) /\ DeleteSaid(s)
  BY <1>2, <1>3
    DEF CallInv, Once, LookupSaid, WriteSaid, RemovalSaid, HeadSaid, DeleteSaid
<1>5. ListedSoFar(s) /\ PageSaid(s)
  BY <1>2 DEF CallInv, ListedSoFar, PageSaid
<1>6. s.step = "end" => Honest(s)
  BY <1>2, <1>3
    DEF CallInv, Honest, LookupHonest, WriteHonest, RemovalHonest, DeleteHonest,
                    ListingHonest
<1> QED BY <1>1, <1>2, <1>4, <1>5, <1>6 DEF CallInv, s

\* A step of one call that changes no key.
LEMMA MineKeeps ==
  ASSUME KeyspaceInv, NEW c \in Clients, NEW r \in Calls \cup {Idle}, Mine(c, r),
         r # Idle => CallInv(r) /\ Current(r),
         UNCHANGED <<dialect, held>>, written' \in Versions, troubles' \in 0 .. MaxTroubles
  PROVE  KeyspaceInv'
<1>1. KeyspaceTypeOK'
  BY DEF KeyspaceInv, KeyspaceTypeOK, Mine
<1>2. ASSUME NEW d \in Clients, call'[d] # Idle
      PROVE  CallInv(call'[d]) /\ Current(call'[d])
  <2>1. CASE d = c
    BY <1>2, <2>1 DEF KeyspaceInv, KeyspaceTypeOK, Mine
  <2>2. CASE d # c
    BY <1>2, <2>2 DEF KeyspaceInv, KeyspaceTypeOK, Mine
  <2> QED BY <2>1, <2>2
<1>3. ASSUME NEW d \in Clients, call'[d] # Idle
      PROVE  CallInv(call[d])' /\ Current(call[d])'
  BY <1>2, <1>3 DEF CallInv, Once, LookupSaid, WriteSaid, Taken, RemovalSaid, HeadSaid,
       DeleteSaid, ListedSoFar, PageSaid, Continues, Honest, LookupHonest, WriteHonest,
       RemovalHonest, DeleteHonest, ListingHonest, Current, View, Seen
<1> QED BY <1>1, <1>3 DEF KeyspaceInv, Idle

\* A step of one call that every call sees.
LEMMA NowKeeps ==
  ASSUME KeyspaceInv, NEW c \in Clients, NEW r \in Calls, NEW h \in Keyholds, Now(c, r, h),
         CallInv(r), UNCHANGED <<dialect, troubles>>, written' \in Versions
  PROVE  KeyspaceInv'
<1>1. ASSUME NEW d \in Clients
      PROVE  /\ call'[d] \in Calls \cup {Idle}
             /\ call'[d] # Idle => CallInv(call'[d]) /\ View(call'[d], h) \in call'[d].views
  <2> DEFINE s == IF d = c THEN r ELSE call[d]
  <2>1. call'[d] = IF s = Idle THEN s ELSE [s EXCEPT !.views = @ \cup {View(s, h)}]
    BY DEF Now
  <2>2. s \in Calls \cup {Idle} /\ (s # Idle => CallInv(s))
    BY NotIdle DEF KeyspaceInv, KeyspaceTypeOK
  <2> HIDE DEF s
  <2>3. CASE s # Idle
    <3> DEFINE t == [s EXCEPT !.views = @ \cup {View(s, h)}]
    <3>1. View(s, h) \in Keyholds
      BY ViewType
    <3>2. t \in Calls /\ CallInv(t) /\ t.views = s.views \cup {View(s, h)}
          /\ t.op = s.op /\ t.key = s.key
      BY <2>2, <2>3, <3>1, Grows
    <3>3. call'[d] = t
      BY <2>1, <2>3
    <3> HIDE DEF t
    <3>4. View(t, h) = View(s, h)
      BY <3>2 DEF View
    <3> QED BY <3>2, <3>3, <3>4
  <2>4. CASE s = Idle
    BY <2>1, <2>4
  <2> QED BY <2>3, <2>4
<1>2. held' = h /\ call' \in [Clients -> Calls \cup {Idle}]
  BY <1>1 DEF Now
<1>3. KeyspaceTypeOK'
  BY <1>2 DEF KeyspaceInv, KeyspaceTypeOK, Keyholds
<1>4. ASSUME NEW d \in Clients, call'[d] # Idle
      PROVE  CallInv(call[d])' /\ Current(call[d])'
  BY <1>1, <1>2, <1>4
    DEF CallInv, Once, LookupSaid, WriteSaid, Taken, RemovalSaid, HeadSaid,
       DeleteSaid, ListedSoFar, PageSaid, Continues, Honest, LookupHonest, WriteHonest,
       RemovalHonest, DeleteHonest, ListingHonest, Current, View, Seen
<1> QED BY <1>3, <1>4 DEF KeyspaceInv, Idle

-----------------------------------------------------------------------------
(* The steps.                                                              *)

LEMMA InitHolds == KeyspaceInit => KeyspaceInv
BY KeyspaceConstantsOK
DEF KeyspaceInit, KeyspaceInv, KeyspaceTypeOK, Versions, Keyholds

LEMMA BeginKeeps ==
  \A c \in Clients, op \in Ops, k \in BucketKeys, v \in Versions :
    KeyspaceInv /\ Begin(c, op, k, v) => KeyspaceInv'
<1> SUFFICES ASSUME NEW c \in Clients, NEW op \in Ops, NEW k \in BucketKeys, NEW v \in Versions,
                    KeyspaceInv, Begin(c, op, k, v)
             PROVE  KeyspaceInv'
  OBVIOUS
<1> DEFINE step == IF op = "delete" /\ dialect = "s3" THEN "head" ELSE "ask"
           sends == IF op = "delete" /\ dialect = "s3" THEN Sends("head") ELSE Sends(op)
           r == [step |-> step, op |-> op, key |-> k, version |-> v, sends |-> sends,
                 said |-> "refused", got |-> 0, page |-> {}, next |-> 0, found |-> {},
                 from |-> 0, existed |-> FALSE, tells |-> "nothing", views |-> {},
                 mine |-> 0, unsure |-> FALSE]
<1>1. Now(c, r, held) /\ UNCHANGED <<dialect, written, troubles>>
      /\ (op = "delete_if_unchanged" <=> v # 0)
  BY DEF Begin
<1>2. 0 \in Versions /\ 0 \in 0 .. Last /\ 0 \in 0 .. EmptyToken /\ 1 \in 0 .. 2 /\ 2 \in 0 .. 2
  BY KeyspaceConstantsOK DEF Versions, EmptyToken
<1>3. sends \in 0 .. 2 /\ step \in {"head", "ask"}
  BY <1>2 DEF Sends
<1>4. r \in Calls
  BY <1>2, <1>3 DEF Calls, Said
<1>5. CallInv(r)
  <2>1. Once(r)
    BY <1>1 DEF Once, Sends
  <2>2. LookupSaid(r) /\ WriteSaid(r) /\ RemovalSaid(r) /\ DeleteSaid(r) /\ PageSaid(r)
    BY DEF LookupSaid, WriteSaid, RemovalSaid, DeleteSaid, PageSaid
  <2>3. HeadSaid(r)
    BY DEF HeadSaid
  <2>4. ListedSoFar(r)
    BY DEF ListedSoFar
  <2> QED BY <2>1, <2>2, <2>3, <2>4 DEF CallInv
<1>6. held \in Keyholds /\ written' \in Versions
  BY <1>1 DEF KeyspaceInv, KeyspaceTypeOK, Keyholds
<1> HIDE DEF r
<1> QED BY <1>1, <1>4, <1>5, <1>6, NowKeeps

\* What a call has of the keys now.
LEMMA SeenNow ==
  ASSUME KeyspaceInv, NEW c \in Clients, call[c].step # "idle"
  PROVE  held[call[c].key] \in Seen(call[c]) /\ held[call[c].key] \in Versions
<1>1. call[c] \in Calls /\ Current(call[c])
  BY Busy
<1>2. call[c].key \in BucketKeys
  BY <1>1 DEF Calls
<1>3. View(call[c], held)[call[c].key] = held[call[c].key]
  BY <1>2 DEF View
<1>4. held[call[c].key] \in Versions
  BY <1>2 DEF KeyspaceInv, KeyspaceTypeOK
<1> QED BY <1>1, <1>3, <1>4 DEF Current, Seen

\* A call that was answered, but for what the answer is.
LEMMA AnswersKeep ==
  ASSUME KeyspaceInv, NEW c \in Clients, call[c].step = "ask",
         NEW said \in Said, NEW got \in Versions, Answers(c, said, got),
         UNCHANGED <<dialect, troubles>>, said # "ok" \/ call[c].op \in Lookups,
         call[c].op # "entries",
         LET r == [call[c] EXCEPT !.step = "answer", !.said = said, !.got = got] IN
         LookupSaid(r) /\ WriteSaid(r) /\ RemovalSaid(r) /\ DeleteSaid(r)
  PROVE  KeyspaceInv'
<1> DEFINE r == [call[c] EXCEPT !.step = "answer", !.said = said, !.got = got]
<1>1. call[c] \in Calls /\ CallInv(call[c]) /\ Current(call[c])
  BY Busy
<1>2. r \in Calls
  BY <1>1 DEF Calls
<1>3. /\ r.step = "answer" /\ r.op = call[c].op /\ r.key = call[c].key
      /\ r.version = call[c].version /\ r.sends = call[c].sends /\ r.said = said
      /\ r.found = call[c].found /\ r.from = call[c].from /\ r.existed = call[c].existed
      /\ r.views = call[c].views /\ r.mine = call[c].mine /\ r.unsure = call[c].unsure
  BY <1>1 DEF Calls
<1>4. LookupSaid(r) /\ WriteSaid(r) /\ RemovalSaid(r) /\ DeleteSaid(r)
  OBVIOUS
<1>5. Mine(c, r) /\ UNCHANGED <<held, written>>
  BY DEF Answers
<1> HIDE DEF r
<1>6. Once(r)
  BY <1>1, <1>3 DEF CallInv, Once
<1>7. HeadSaid(r) /\ ListedSoFar(r) /\ PageSaid(r)
  BY <1>1, <1>3 DEF CallInv, HeadSaid, Seen, ListedSoFar, PageSaid
<1>8. CallInv(r)
  BY <1>3, <1>4, <1>6, <1>7 DEF CallInv
<1>9. Current(r)
  BY <1>1, <1>3 DEF Current, View
<1>10. written' \in Versions /\ troubles' \in 0 .. MaxTroubles
  BY <1>5 DEF KeyspaceInv, KeyspaceTypeOK
<1> QED BY <1>2, <1>5, <1>8, <1>9, <1>10, MineKeeps

LEMMA LookedUpKeeps == \A c \in Clients : KeyspaceInv /\ LookedUp(c) => KeyspaceInv'
<1> SUFFICES ASSUME NEW c \in Clients, KeyspaceInv, LookedUp(c) PROVE KeyspaceInv'
  OBVIOUS
<1> DEFINE said == IF held[call[c].key] = 0 THEN "not_found" ELSE "ok"
           got == held[call[c].key]
           r == [call[c] EXCEPT !.step = "answer", !.said = said, !.got = got]
<1>1. /\ call[c].step = "ask" /\ call[c].op \in Lookups /\ UNCHANGED <<dialect, troubles>>
      /\ Answers(c, said, got)
  BY DEF LookedUp, At
<1>2. call[c] \in Calls
  BY <1>1, Busy
<1>3. got \in Seen(call[c]) /\ got \in Versions /\ said \in Said
  BY <1>1, SeenNow DEF Said
<1>4. /\ r.op = call[c].op /\ r.views = call[c].views /\ r.key = call[c].key
      /\ r.said = said /\ r.got = got
  BY <1>2 DEF Calls
<1>5. LookupSaid(r) /\ WriteSaid(r) /\ RemovalSaid(r) /\ DeleteSaid(r)
  <2> HIDE DEF r
  <2>1. Seen(r) = Seen(call[c])
    BY <1>4 DEF Seen
  <2> QED BY <1>1, <1>3, <1>4, <2>1
    DEF LookupSaid, WriteSaid, RemovalSaid, DeleteSaid, Lookups,
                                       Sized, Bodies, Puts
<1>6. call[c].op # "entries"
  BY <1>1 DEF Lookups, Sized, Bodies
<1> HIDE DEF said, got
<1> QED BY <1>1, <1>3, <1>5, <1>6, AnswersKeep

LEMMA ExistedKeeps == \A c \in Clients : KeyspaceInv /\ Existed(c) => KeyspaceInv'
<1> SUFFICES ASSUME NEW c \in Clients, KeyspaceInv, Existed(c) PROVE KeyspaceInv'
  OBVIOUS
<1> DEFINE existed == held[call[c].key] # 0
           r == [call[c] EXCEPT !.step = "ask", !.sends = Sends("delete"), !.existed = existed]
<1>1. call[c].step = "head" /\ Mine(c, r) /\ UNCHANGED <<dialect, held, written, troubles>>
  BY DEF Existed, At
<1>2. call[c] \in Calls /\ CallInv(call[c]) /\ Current(call[c])
  BY <1>1, Busy
<1>3. Sends("delete") = 1 /\ 1 \in 0 .. 2
  BY DEF Sends, Repeatable
<1>4. r \in Calls
  BY <1>2, <1>3 DEF Calls
<1>5. /\ r.step = "ask" /\ r.op = call[c].op /\ r.key = call[c].key /\ r.sends = 1
      /\ r.version = call[c].version /\ r.existed = existed /\ r.views = call[c].views
      /\ r.mine = call[c].mine /\ r.unsure = call[c].unsure
  BY <1>2, <1>3 DEF Calls
<1>6. held[call[c].key] \in Seen(call[c])
  BY <1>1, SeenNow
<1> HIDE DEF r
<1>7. Seen(r) = Seen(call[c])
  BY <1>5 DEF Seen
<1>8. Once(r) /\ HeadSaid(r)
  <2>1. Once(r)
    BY <1>1, <1>2, <1>5 DEF CallInv, Once
  <2>2. CASE existed
    BY <1>5, <1>6, <1>7, <2>1, <2>2 DEF HeadSaid
  <2>3. CASE ~existed
    BY <1>5, <1>6, <1>7, <2>1, <2>3 DEF HeadSaid
  <2> QED BY <2>1, <2>2, <2>3
<1>9. LookupSaid(r) /\ WriteSaid(r) /\ RemovalSaid(r) /\ DeleteSaid(r) /\ PageSaid(r)
  BY <1>5 DEF LookupSaid, WriteSaid, RemovalSaid, DeleteSaid, PageSaid
<1>10. ListedSoFar(r)
  BY <1>1, <1>2, <1>5 DEF CallInv, Once, ListedSoFar
<1>11. CallInv(r)
  BY <1>5, <1>8, <1>9, <1>10 DEF CallInv
<1>12. Current(r)
  BY <1>2, <1>5 DEF Current, View
<1>13. written' \in Versions /\ troubles' \in 0 .. MaxTroubles
  BY <1>1 DEF KeyspaceInv, KeyspaceTypeOK
<1> QED BY <1>1, <1>4, <1>11, <1>12, <1>13, MineKeeps

\* A call that did what it was asked: mine is the version it wrote or removed.
LEMMA DoneKeeps ==
  ASSUME KeyspaceInv, NEW c \in Clients, call[c].step = "ask",
         call[c].op \in Puts \cup Removals, NEW mine \in Versions, NEW h \in Keyholds,
         Now(c, [call[c] EXCEPT !.step = "answer", !.said = "ok", !.mine = mine], h),
         UNCHANGED <<dialect, troubles>>, written' \in Versions,
         call[c].op \in Puts => mine # 0,
         call[c].op = "delete_if_unchanged" => mine = call[c].version,
         call[c].op = "delete" /\ dialect # "s3" => Seen(call[c]) \ {0} # {}
  PROVE  KeyspaceInv'
<1> DEFINE r == [call[c] EXCEPT !.step = "answer", !.said = "ok", !.mine = mine]
<1>1. call[c] \in Calls /\ CallInv(call[c])
  BY Busy
<1>2. r \in Calls
  BY <1>1 DEF Calls, Said
<1>3. /\ r.step = "answer" /\ r.op = call[c].op /\ r.key = call[c].key /\ r.said = "ok"
      /\ r.version = call[c].version /\ r.sends = call[c].sends /\ r.mine = mine
      /\ r.existed = call[c].existed /\ r.views = call[c].views
      /\ r.unsure = call[c].unsure
  BY <1>1 DEF Calls
<1> HIDE DEF r
<1>4. Seen(r) = Seen(call[c])
  BY <1>3 DEF Seen
<1>5. Once(r)
  <2>1. call[c].op \notin Repeatable
    BY DEF Puts, Removals, Repeatable
  <2> QED BY <1>1, <1>3, <2>1 DEF CallInv, Once
<1>10. HeadSaid(r)
  BY <1>1, <1>3, <1>4 DEF CallInv, HeadSaid
<1>6. LookupSaid(r) /\ ListedSoFar(r) /\ PageSaid(r)
  BY <1>3 DEF LookupSaid, ListedSoFar, PageSaid, Lookups, Sized, Bodies, Puts, Removals
<1>7. WriteSaid(r) /\ RemovalSaid(r) /\ DeleteSaid(r)
  BY <1>3, <1>4 DEF WriteSaid, Taken, RemovalSaid, DeleteSaid, Puts
<1>8. CallInv(r)
  BY <1>3, <1>5, <1>6, <1>7, <1>10 DEF CallInv
<1> QED BY <1>2, <1>8, NowKeeps DEF r

LEMMA WrittenKeeps == \A c \in Clients : KeyspaceInv /\ Written(c) => KeyspaceInv'
<1> SUFFICES ASSUME NEW c \in Clients, KeyspaceInv, Written(c) PROVE KeyspaceInv'
  OBVIOUS
<1>1. call[c].step = "ask" /\ call[c].op \in Puts /\ UNCHANGED <<dialect, troubles>>
  BY DEF Written, At
<1>2. call[c] \in Calls /\ CallInv(call[c])
  BY <1>1, Busy
<1>3. held[call[c].key] \in Seen(call[c]) /\ held[call[c].key] \in Versions
  BY <1>1, SeenNow
<1>a. CASE call[c].op = "put_if_absent" /\ held[call[c].key] # 0
  <2>1. PICK said \in {"conflict", "precondition"} :
          Answers(c, said, 0) /\ (said = "conflict" => dialect = "azure")
    BY <1>a DEF Written
  <2> DEFINE r == [call[c] EXCEPT !.step = "answer", !.said = said, !.got = 0]
  <2>2. r.op = call[c].op /\ r.views = call[c].views /\ r.key = call[c].key /\ r.said = said
    BY <1>2 DEF Calls
  <2>3. LookupSaid(r) /\ WriteSaid(r) /\ RemovalSaid(r) /\ DeleteSaid(r)
    <3> HIDE DEF r
    <3>1. Seen(r) = Seen(call[c])
      BY <2>2 DEF Seen
    <3> QED BY <1>a, <1>3, <2>2, <3>1
      DEF LookupSaid, WriteSaid, RemovalSaid, DeleteSaid, Lookups,
                                          Sized, Bodies
  <2>4. said \in Said /\ said # "ok" /\ 0 \in Versions
    BY KeyspaceConstantsOK DEF Said, Versions
  <2> QED BY <1>1, <1>a, <2>1, <2>3, <2>4, AnswersKeep
<1>b. CASE ~(call[c].op = "put_if_absent" /\ held[call[c].key] # 0)
  <2> DEFINE h == [held EXCEPT ![call[c].key] = written + 1]
  <2>1. /\ written < MaxWritten /\ written' = written + 1
        /\ Now(c, [call[c] EXCEPT !.step = "answer", !.said = "ok", !.mine = written + 1], h)
    BY <1>b DEF Written
  <2>2. written + 1 \in Versions /\ written + 1 # 0
    BY <2>1, KeyspaceConstantsOK DEF KeyspaceInv, KeyspaceTypeOK, Versions
  <2>3. h \in Keyholds
    BY <2>2 DEF KeyspaceInv, KeyspaceTypeOK, Keyholds
  <2>4. call[c].op \notin {"delete", "delete_if_unchanged"}
    BY <1>1 DEF Puts
  <2> HIDE DEF h
  <2> QED BY <1>1, <2>1, <2>2, <2>3, <2>4, DoneKeeps
<1> QED BY <1>a, <1>b

LEMMA RemovedKeeps == \A c \in Clients : KeyspaceInv /\ Removed(c) => KeyspaceInv'
<1> SUFFICES ASSUME NEW c \in Clients, KeyspaceInv, Removed(c) PROVE KeyspaceInv'
  OBVIOUS
<1> DEFINE v == held[call[c].key]
<1>1. call[c].step = "ask" /\ call[c].op \in Removals /\ UNCHANGED <<dialect, troubles>>
  BY DEF Removed, At
<1>2. call[c] \in Calls /\ CallInv(call[c])
  BY <1>1, Busy
<1>3. v \in Seen(call[c]) /\ v \in Versions
  BY <1>1, SeenNow
<1>4. 0 \in Versions /\ call[c].op \notin Lookups /\ call[c].op # "entries"
  BY <1>1, KeyspaceConstantsOK DEF Versions, Removals, Lookups, Sized, Bodies
<1>a. ASSUME NEW said \in {"not_found", "precondition"}, Answers(c, said, 0),
             \/ call[c].op = "delete_if_unchanged" /\ v # call[c].version
             \/ call[c].op = "delete" /\ v = 0
      PROVE  KeyspaceInv'
  <2> DEFINE r == [call[c] EXCEPT !.step = "answer", !.said = said, !.got = 0]
  <2>1. /\ r.op = call[c].op /\ r.views = call[c].views /\ r.key = call[c].key /\ r.said = said
        /\ r.version = call[c].version
    BY <1>2 DEF Calls
  <2>2. LookupSaid(r) /\ WriteSaid(r) /\ RemovalSaid(r) /\ DeleteSaid(r)
    <3> HIDE DEF r, v
    <3>1. Seen(r) = Seen(call[c])
      BY <2>1 DEF Seen
    <3> QED BY <1>a, <1>3, <1>4, <2>1, <3>1
      DEF LookupSaid, WriteSaid, RemovalSaid, DeleteSaid, Puts
  <2>3. said \in Said /\ said # "ok"
    BY DEF Said
  <2> HIDE DEF v
  <2> QED BY <1>1, <1>4, <1>a, <2>2, <2>3, AnswersKeep
<1>b. ASSUME Now(c, [call[c] EXCEPT !.step = "answer", !.said = "ok", !.mine = v],
                 [held EXCEPT ![call[c].key] = 0]),
             UNCHANGED written,
             call[c].op = "delete_if_unchanged" => v = call[c].version,
             call[c].op = "delete" /\ dialect # "s3" => v # 0
      PROVE  KeyspaceInv'
  <2> DEFINE h == [held EXCEPT ![call[c].key] = 0]
  <2>1. h \in Keyholds /\ written' \in Versions
    BY <1>b, <1>4 DEF KeyspaceInv, KeyspaceTypeOK, Keyholds
  <2>2. call[c].op \notin Puts
    BY <1>1 DEF Removals, Puts
  <2> HIDE DEF h, v
  <2> QED BY <1>1, <1>3, <1>b, <2>1, <2>2, DoneKeeps DEF h
<1>5. call[c].op = "delete_if_unchanged" => call[c].version # 0
  BY <1>2 DEF CallInv, Once
<1>c. CASE call[c].op = "delete_if_unchanged"
  <2>1. CASE v = 0
    BY <1>a, <1>c, <1>5, <2>1 DEF Removed
  <2>2. CASE v \notin {0, call[c].version}
    BY <1>a, <1>c, <2>2 DEF Removed
  <2>3. CASE v = call[c].version
    BY <1>b, <1>c, <1>5, <2>3 DEF Removed
  <2> QED BY <2>1, <2>2, <2>3
<1>d. CASE call[c].op = "delete"
  <2>1. CASE v = 0 /\ dialect # "s3"
    BY <1>a, <1>d, <2>1 DEF Removed
  <2>2. CASE ~(v = 0 /\ dialect # "s3")
    BY <1>b, <1>d, <2>2 DEF Removed
  <2> QED BY <2>1, <2>2
<1> QED BY <1>1, <1>c, <1>d DEF Removals

LEMMA ListedKeeps == \A c \in Clients : KeyspaceInv /\ Listed(c) => KeyspaceInv'
<1> SUFFICES ASSUME NEW c \in Clients, KeyspaceInv, Listed(c) PROVE KeyspaceInv'
  OBVIOUS
<1> DEFINE rest == {k \in BucketKeys : k > call[c].from /\ held[k] # 0}
<1>1. call[c].step = "ask" /\ call[c].op = "entries"
      /\ UNCHANGED <<dialect, held, written, troubles>>
  BY DEF Listed, At
<1>2. PICK page \in SUBSET rest, next \in 0 .. EmptyToken :
        /\ \A k \in page, l \in rest \ page : k < l
        /\ IF page = rest THEN next \in IF dialect = "s3" THEN {0} ELSE {0, EmptyToken}
                          ELSE next \in page /\ \A k \in page : k <= next
        /\ Mine(c, [call[c] EXCEPT !.step = "answer", !.said = "ok", !.page = page, !.next = next])
  BY DEF Listed
<1> DEFINE r == [call[c] EXCEPT !.step = "answer", !.said = "ok", !.page = page, !.next = next]
<1>3. call[c] \in Calls /\ CallInv(call[c]) /\ Current(call[c])
  BY <1>1, Busy
<1>4. page \subseteq BucketKeys
  OBVIOUS
<1>5. r \in Calls
  BY <1>3, <1>4 DEF Calls, Said
<1>6. /\ r.step = "answer" /\ r.op = "entries" /\ r.said = "ok" /\ r.page = page /\ r.next = next
      /\ r.key = call[c].key /\ r.sends = call[c].sends /\ r.found = call[c].found
      /\ r.from = call[c].from /\ r.views = call[c].views /\ r.mine = call[c].mine
      /\ r.version = call[c].version
  BY <1>1, <1>3 DEF Calls
<1> HIDE DEF r
<1>7. View(call[c], held) \in r.views /\ \A k \in BucketKeys : View(call[c], held)[k] = held[k]
  BY <1>1, <1>3, <1>6 DEF Current, View
<1>8. Once(r) /\ ListedSoFar(r)
  BY <1>1, <1>3, <1>6 DEF CallInv, Once, ListedSoFar
<1>9. Continues(next) => page # rest /\ next \in page /\ \A k \in page : k <= next
  <2>1. CASE page = rest
    <3>1. dialect \in {"s3", "azure", "gcs"}
      BY DEF KeyspaceInv, KeyspaceTypeOK, Dialects
    <3>2. next \in {0, EmptyToken} /\ (dialect = "s3" => next = 0)
      BY <1>2, <2>1
    <3>3. ~Continues(next)
      BY <3>1, <3>2 DEF Continues, S3Next, AzureNext, GcsNext
    <3> QED BY <3>3
  <2>2. CASE page # rest
    BY <1>2, <2>2
  <2> QED BY <2>1, <2>2
<1>10. PageSaid(r)
  <2>1. Continues(next) => next \in BucketKeys
    BY <1>4, <1>9
  <2>2. ASSUME NEW k \in BucketKeys, r.from < k, Continues(next) => k <= next,
               \A h \in r.views : h[k] # 0
        PROVE  k \in page
    <3>1. r.from \in Nat /\ k \in Nat
      BY <1>5, KeyspaceConstantsOK DEF Calls, BucketKeys
    <3>2. k \in rest
      BY <1>6, <1>7, <2>2, <3>1
    <3>3. CASE page = rest
      BY <3>2, <3>3
    <3>4. CASE page # rest
      <4>1. next \in page /\ next \in Nat
        BY <1>2, <1>4, <3>4, KeyspaceConstantsOK DEF BucketKeys
      <4>2. next # 0 /\ next # EmptyToken
        BY <1>4, <4>1, KeyspaceConstantsOK DEF BucketKeys, EmptyToken
      <4>3. dialect \in {"s3", "azure", "gcs"}
        BY DEF KeyspaceInv, KeyspaceTypeOK, Dialects
      <4>4. Continues(next)
        BY <4>2, <4>3 DEF Continues, S3Next, AzureNext, GcsNext
      <4>5. k <= next
        BY <2>2, <4>4
      <4> HIDE DEF rest
      <4> QED BY <1>2, <3>1, <3>2, <4>1, <4>5
    <3> QED BY <3>3, <3>4
  <2>3. \A k \in page : \E h \in r.views : h[k] # 0
    BY <1>4, <1>7
  <2> QED BY <1>6, <2>1, <2>2, <2>3 DEF PageSaid
<1>11. LookupSaid(r) /\ WriteSaid(r) /\ RemovalSaid(r) /\ HeadSaid(r) /\ DeleteSaid(r)
  BY <1>6
    DEF LookupSaid, WriteSaid, RemovalSaid, HeadSaid, DeleteSaid, Lookups, Sized, Bodies, Puts
<1>12. CallInv(r)
  BY <1>6, <1>8, <1>10, <1>11 DEF CallInv
<1>13. Current(r)
  BY <1>1, <1>3, <1>6 DEF Current, View
<1>14. written' \in Versions /\ troubles' \in 0 .. MaxTroubles
  BY <1>1 DEF KeyspaceInv, KeyspaceTypeOK
<1> QED BY <1>1, <1>2, <1>5, <1>12, <1>13, <1>14, MineKeeps DEF r

\* A call that ends: what it tells is honest.
LEMMA TellsKeep ==
  ASSUME KeyspaceInv, NEW c \in Clients, call[c].step \in {"ask", "answer"},
         NEW tells \in {"yes", "no", "error"}, Tells(c, tells),
         UNCHANGED <<dialect, held, written>>, troubles' \in 0 .. MaxTroubles,
         call[c].op # "entries" \/ tells = "error",
         tells # "error" => Honest([call[c] EXCEPT !.step = "end", !.tells = tells])
  PROVE  KeyspaceInv'
<1> DEFINE r == [call[c] EXCEPT !.step = "end", !.tells = tells]
<1>1. call[c] \in Calls /\ CallInv(call[c]) /\ Current(call[c])
  BY Busy
<1>2. r \in Calls
  BY <1>1 DEF Calls
<1>3. /\ r.step = "end" /\ r.op = call[c].op /\ r.key = call[c].key /\ r.tells = tells
      /\ r.version = call[c].version /\ r.sends = call[c].sends /\ r.mine = call[c].mine
      /\ r.found = call[c].found /\ r.from = call[c].from /\ r.views = call[c].views
  BY <1>1 DEF Calls
<1>4. tells # "error" => Honest(r)
  OBVIOUS
<1>5. Mine(c, r)
  BY DEF Tells
<1> HIDE DEF r
<1>6. Honest(r)
  BY <1>3, <1>4
    DEF Honest, LookupHonest, WriteHonest, RemovalHonest, DeleteHonest, ListingHonest
<1>7. Once(r) /\ ListedSoFar(r)
  BY <1>1, <1>3 DEF CallInv, Once, ListedSoFar
<1>8. LookupSaid(r) /\ WriteSaid(r) /\ RemovalSaid(r) /\ HeadSaid(r) /\ DeleteSaid(r)
      /\ PageSaid(r)
  BY <1>3 DEF LookupSaid, WriteSaid, RemovalSaid, HeadSaid, DeleteSaid, PageSaid
<1>9. CallInv(r)
  BY <1>6, <1>7, <1>8 DEF CallInv
<1>10. Current(r)
  BY <1>1, <1>3 DEF Current, View
<1>11. written' \in Versions
  BY DEF KeyspaceInv, KeyspaceTypeOK
<1> QED BY <1>2, <1>5, <1>9, <1>10, <1>11, MineKeeps

LEMMA TroublesCount ==
  ASSUME KeyspaceInv, troubles < MaxTroubles
  PROVE  troubles + 1 \in 0 .. MaxTroubles
BY KeyspaceConstantsOK DEF KeyspaceInv, KeyspaceTypeOK

LEMMA TornKeeps == \A c \in Clients : KeyspaceInv /\ Torn(c) => KeyspaceInv'
BY TellsKeep, TroublesCount DEF Torn, At

LEMMA EndsKeeps == \A c \in Clients : KeyspaceInv /\ Ends(c) => KeyspaceInv'
BY MineKeeps DEF Ends, KeyspaceInv, KeyspaceTypeOK

\* The HEAD before a delete was not answered.
LEMMA HeadFails ==
  ASSUME KeyspaceInv, NEW c \in Clients, call[c].step = "head",
         Mine(c, [call[c] EXCEPT !.step = "ask", !.sends = Sends("delete"), !.unsure = TRUE]),
         UNCHANGED <<dialect, held>>, written' \in Versions, troubles' \in 0 .. MaxTroubles
  PROVE  KeyspaceInv'
<1> DEFINE r == [call[c] EXCEPT !.step = "ask", !.sends = Sends("delete"), !.unsure = TRUE]
<1>1. call[c] \in Calls /\ CallInv(call[c]) /\ Current(call[c])
  BY Busy
<1>2. Sends("delete") = 1 /\ 1 \in 0 .. 2
  BY DEF Sends, Repeatable
<1>3. r \in Calls
  BY <1>1, <1>2 DEF Calls
<1>4. /\ r.step = "ask" /\ r.op = call[c].op /\ r.key = call[c].key /\ r.sends = 1
      /\ r.version = call[c].version /\ r.existed = call[c].existed /\ r.views = call[c].views
      /\ r.mine = call[c].mine /\ r.unsure = TRUE
  BY <1>1, <1>2 DEF Calls
<1> HIDE DEF r
<1>5. call[c].op = "delete" /\ ~call[c].existed /\ call[c].mine = 0
  BY <1>1 DEF CallInv, Once
<1>6. Once(r) /\ ListedSoFar(r)
  <2>1. r.step = "ask" /\ r.op = "delete" /\ r.sends = 1 /\ r.mine = 0
    BY <1>4, <1>5
  <2>2. ~(r.sends > 1)
    BY <2>1
  <2> QED BY <2>1, <2>2 DEF Once, ListedSoFar
<1>7. HeadSaid(r)
  BY <1>4, <1>5 DEF HeadSaid
<1>8. LookupSaid(r) /\ WriteSaid(r) /\ RemovalSaid(r) /\ DeleteSaid(r) /\ PageSaid(r)
  BY <1>4 DEF LookupSaid, WriteSaid, RemovalSaid, DeleteSaid, PageSaid
<1>9. CallInv(r) /\ Current(r)
  BY <1>1, <1>4, <1>6, <1>7, <1>8 DEF CallInv, Current, View
<1> QED BY <1>3, <1>9, MineKeeps DEF r

LEMMA RefusedKeeps == \A c \in Clients : KeyspaceInv /\ Refused(c) => KeyspaceInv'
<1> SUFFICES ASSUME NEW c \in Clients, KeyspaceInv, Refused(c) PROVE KeyspaceInv'
  OBVIOUS
<1>1. /\ troubles' \in 0 .. MaxTroubles /\ written' \in Versions
      /\ UNCHANGED <<dialect, held, written>>
  BY TroublesCount DEF Refused, KeyspaceInv, KeyspaceTypeOK
<1>a. CASE call[c].step = "ask"
  <2>1. PICK said \in {"refused", "conflict"} :
          /\ Mine(c, [call[c] EXCEPT !.step = "answer", !.said = said, !.unsure = TRUE])
          /\ said = "conflict" => dialect = "s3"
    BY <1>a DEF Refused, At
  <2> DEFINE r == [call[c] EXCEPT !.step = "answer", !.said = said, !.unsure = TRUE]
  <2>2. call[c] \in Calls /\ CallInv(call[c]) /\ Current(call[c])
    BY <1>a, Busy
  <2>3. r \in Calls
    BY <2>2 DEF Calls, Said
  <2>4. /\ r.step = "answer" /\ r.op = call[c].op /\ r.key = call[c].key /\ r.said = said
        /\ r.version = call[c].version /\ r.sends = call[c].sends /\ r.mine = call[c].mine
        /\ r.found = call[c].found /\ r.from = call[c].from /\ r.existed = call[c].existed
        /\ r.views = call[c].views /\ r.unsure = TRUE
    BY <2>2 DEF Calls
  <2> HIDE DEF r
  <2>5. Seen(r) = Seen(call[c])
    BY <2>4 DEF Seen
  <2>6. Once(r) /\ ListedSoFar(r)
    BY <1>a, <2>2, <2>4 DEF CallInv, Once, ListedSoFar
  <2>7. LookupSaid(r) /\ WriteSaid(r) /\ RemovalSaid(r) /\ DeleteSaid(r) /\ PageSaid(r)
    BY <2>1, <2>4 DEF LookupSaid, WriteSaid, Taken, RemovalSaid, DeleteSaid, PageSaid
  <2>8. HeadSaid(r)
    BY <1>a, <2>2, <2>4, <2>5 DEF CallInv, HeadSaid
  <2>9. CallInv(r)
    BY <2>4, <2>6, <2>7, <2>8 DEF CallInv
  <2>10. Current(r)
    BY <2>2, <2>4 DEF Current, View
  <2> QED BY <1>1, <2>1, <2>3, <2>9, <2>10, MineKeeps DEF r
<1>b. CASE call[c].step = "head"
  <2>1. Mine(c, [call[c] EXCEPT !.step = "ask", !.sends = Sends("delete"), !.unsure = TRUE])
    BY <1>b DEF Refused, At
  <2> QED BY <1>1, <1>b, <2>1, HeadFails
<1> QED BY <1>a, <1>b DEF Refused, At

LEMMA LostKeeps == \A c \in Clients : KeyspaceInv /\ Lost(c) => KeyspaceInv'
<1> SUFFICES ASSUME NEW c \in Clients, KeyspaceInv, Lost(c) PROVE KeyspaceInv'
  OBVIOUS
<1>1. /\ troubles' \in 0 .. MaxTroubles /\ written' \in Versions
      /\ UNCHANGED <<dialect, held, written>>
  BY TroublesCount DEF Lost, KeyspaceInv, KeyspaceTypeOK
<1>2. /\ call[c].step \in {"ask", "answer", "head"}
      /\ call[c] \in Calls /\ CallInv(call[c]) /\ Current(call[c])
  BY Busy DEF Lost, At
<1>a. CASE call[c].step \in {"ask", "answer"} /\ call[c].sends > 1
  <2> DEFINE r == [call[c] EXCEPT !.step = "ask", !.sends = @ - 1]
  <2>1. Mine(c, r)
    BY <1>a DEF Lost, At
  <2>2. call[c].sends \in 0 .. 2
    BY <1>2 DEF Calls
  <2>3. call[c].sends - 1 = 1 /\ 1 \in 0 .. 2
    BY <1>a, <2>2
  <2>4. r \in Calls
    BY <1>2, <2>3 DEF Calls
  <2>5. /\ r.step = "ask" /\ r.op = call[c].op /\ r.key = call[c].key /\ r.sends = 1
        /\ r.version = call[c].version /\ r.mine = call[c].mine
        /\ r.found = call[c].found /\ r.from = call[c].from /\ r.views = call[c].views
    BY <1>2, <2>3 DEF Calls
  <2>6. call[c].op \in Repeatable
    BY <1>2, <1>a DEF CallInv, Once
  <2> HIDE DEF r
  <2>7. call[c].mine = 0
    BY <1>2, <2>6 DEF CallInv, Once
  <2>8. Once(r) /\ ListedSoFar(r)
    BY <1>2, <2>5, <2>6, <2>7 DEF CallInv, Once, ListedSoFar, Repeatable
  <2>9. LookupSaid(r) /\ WriteSaid(r) /\ RemovalSaid(r) /\ DeleteSaid(r) /\ PageSaid(r)
    BY <2>5 DEF LookupSaid, WriteSaid, RemovalSaid, DeleteSaid, PageSaid
  <2>10. HeadSaid(r)
    BY <2>5, <2>6 DEF HeadSaid, Repeatable
  <2>11. CallInv(r) /\ Current(r)
    BY <1>2, <2>5, <2>8, <2>9, <2>10 DEF CallInv, Current, View
  <2> QED BY <1>1, <2>1, <2>4, <2>11, MineKeeps
<1>b. CASE call[c].step \in {"ask", "answer"} /\ ~(call[c].sends > 1)
  <2>1. Tells(c, "error")
    BY <1>b DEF Lost, At
  <2> QED BY <1>1, <1>b, <2>1, TellsKeep
<1>c. CASE call[c].step = "head" /\ call[c].sends > 1
  <2> DEFINE r == [call[c] EXCEPT !.sends = @ - 1]
  <2>1. Mine(c, r)
    BY <1>c DEF Lost, At
  <2>2. call[c].sends \in 0 .. 2
    BY <1>2 DEF Calls
  <2>3. call[c].sends - 1 = 1 /\ 1 \in 0 .. 2
    BY <1>c, <2>2
  <2>4. r \in Calls
    BY <1>2, <2>3 DEF Calls
  <2>5. /\ r.step = "head" /\ r.op = call[c].op /\ r.key = call[c].key
        /\ r.version = call[c].version /\ r.mine = call[c].mine
        /\ r.existed = call[c].existed
        /\ r.found = call[c].found /\ r.from = call[c].from /\ r.views = call[c].views
    BY <1>2, <1>c DEF Calls
  <2> HIDE DEF r
  <2>6. Once(r) /\ ListedSoFar(r)
    BY <1>2, <1>c, <2>5 DEF CallInv, Once, ListedSoFar
  <2>7. /\ LookupSaid(r) /\ WriteSaid(r) /\ RemovalSaid(r) /\ HeadSaid(r) /\ DeleteSaid(r)
        /\ PageSaid(r)
    BY <2>5 DEF LookupSaid, WriteSaid, RemovalSaid, HeadSaid, DeleteSaid, PageSaid
  <2>8. CallInv(r) /\ Current(r)
    BY <1>2, <2>5, <2>6, <2>7 DEF CallInv, Current, View
  <2> QED BY <1>1, <2>1, <2>4, <2>8, MineKeeps
<1>d. CASE call[c].step = "head" /\ ~(call[c].sends > 1)
  <2>1. Mine(c, [call[c] EXCEPT !.step = "ask", !.sends = Sends("delete"), !.unsure = TRUE])
    BY <1>d DEF Lost, At
  <2> QED BY <1>1, <1>d, <2>1, HeadFails
<1> QED BY <1>2, <1>a, <1>b, <1>c, <1>d

LEMMA ReturnsKeep == \A c \in Clients : KeyspaceInv /\ Returns(c) => KeyspaceInv'
<1> SUFFICES ASSUME NEW c \in Clients, KeyspaceInv, Returns(c) PROVE KeyspaceInv'
  OBVIOUS
<1> DEFINE tells == Outcome(call[c].op, call[c].said, call[c].existed)
           r == [call[c] EXCEPT !.step = "end", !.tells = tells]
<1>1. /\ call[c].step = "answer" /\ call[c].op # "entries" /\ Tells(c, tells)
      /\ UNCHANGED <<dialect, held, written, troubles>>
  BY DEF Returns, At
<1>2. call[c] \in Calls /\ CallInv(call[c])
  BY <1>1, Busy
<1>3. /\ r.op = call[c].op /\ r.key = call[c].key /\ r.tells = tells /\ r.got = call[c].got
      /\ r.version = call[c].version /\ r.mine = call[c].mine /\ r.views = call[c].views
      /\ r.unsure = call[c].unsure
  BY <1>2 DEF Calls
<1>4. /\ call[c].op \in Ops /\ call[c].said \in Said /\ call[c].existed \in BOOLEAN
      /\ dialect \in {"s3", "azure", "gcs"}
  BY <1>2 DEF Calls, KeyspaceInv, KeyspaceTypeOK, Dialects
<1> HIDE DEF r
<1>5. Seen(r) = Seen(call[c])
  BY <1>3 DEF Seen
<1>a. CASE call[c].op \in Lookups
  <2>1. /\ tells \in {"yes", "no", "error"}
        /\ tells = "yes" => call[c].said = "ok"
        /\ tells = "no" =>
             \/ call[c].said = "not_found"
             \/ call[c].op \in Sized /\ call[c].said # "ok"
    BY <1>4, <1>a
      DEF Outcome, S3, Azure, Gcs, S3Sizes, S3Reads, AzureSizes, AzureReads, GcsSizes,
         GcsReads, Answer, Refusals, Lookups, Sized, Bodies
  <2> HIDE DEF tells
  <2>2. LookupHonest(r)
    BY <1>1, <1>2, <1>3, <1>5, <1>a, <2>1 DEF CallInv, LookupSaid, LookupHonest
  <2>3. call[c].op \notin Puts \cup {"delete", "delete_if_unchanged"}
    BY <1>a DEF Lookups, Sized, Bodies, Puts
  <2>4. Honest(r)
    BY <1>1, <1>3, <2>2, <2>3 DEF Honest
  <2> QED BY <1>1, <2>1, <2>4, TellsKeep DEF r, KeyspaceInv, KeyspaceTypeOK
<1>b. CASE call[c].op \in Puts
  <2>1. /\ tells \in {"yes", "no", "error"}
        /\ tells = "yes" => call[c].said = "ok"
        /\ tells = "no" => call[c].op = "put_if_absent" /\ Taken(call[c].said)
    BY <1>4, <1>b
      DEF Outcome, S3, Azure, Gcs, S3Puts, S3Creates, AzurePuts, AzureCreates, GcsPuts,
         GcsCreates, Answer, Puts, Sized, Bodies, Taken
  <2>2. Taken(call[c].said) => call[c].said # "ok"
    BY DEF Taken
  <2> HIDE DEF tells
  <2>3. WriteHonest(r)
    BY <1>1, <1>2, <1>3, <1>5, <1>b, <2>1, <2>2
      DEF CallInv, Once, WriteSaid, WriteHonest
  <2>4. call[c].op \notin Lookups \cup {"delete", "delete_if_unchanged"}
    BY <1>b DEF Lookups, Sized, Bodies, Puts
  <2>5. Honest(r)
    BY <1>1, <1>3, <2>3, <2>4 DEF Honest
  <2> QED BY <1>1, <2>1, <2>5, TellsKeep DEF r, KeyspaceInv, KeyspaceTypeOK
<1>c. CASE call[c].op = "delete_if_unchanged"
  <2>1. /\ tells \in {"yes", "no", "error"}
        /\ tells = "yes" => call[c].said = "ok"
        /\ tells = "no" => call[c].said \in {"not_found", "precondition"}
    BY <1>4, <1>c
      DEF Outcome, S3, Azure, Gcs, S3Unchanged, AzureUnchanged, GcsUnchanged, Answer,
         Sized, Bodies
  <2> HIDE DEF tells
  <2>2. RemovalHonest(r)
    BY <1>1, <1>2, <1>3, <1>5, <1>c, <2>1 DEF CallInv, Once, RemovalSaid, RemovalHonest
  <2>3. call[c].op \notin Lookups \cup Puts
    BY <1>c DEF Lookups, Sized, Bodies, Puts
  <2>4. Honest(r)
    BY <1>1, <1>3, <1>c, <2>2, <2>3 DEF Honest
  <2> QED BY <1>1, <2>1, <2>4, TellsKeep DEF r, KeyspaceInv, KeyspaceTypeOK
<1>d. CASE call[c].op = "delete"
  <2>1. /\ tells \in {"yes", "no", "error"}
        /\ tells = "yes" => call[c].said = "ok" /\ (dialect = "s3" => call[c].existed)
        /\ tells = "no" =>
             \/ call[c].said = "not_found"
             \/ dialect = "s3" /\ ~call[c].existed
    BY <1>4, <1>d
      DEF Outcome, S3, Azure, Gcs, S3Delete, AzureDelete, GcsDelete, Answer, Sized, Bodies
  <2> HIDE DEF tells
  <2>2. DeleteHonest(r)
    BY <1>1, <1>2, <1>3, <1>5, <1>d, <2>1
      DEF CallInv, HeadSaid, DeleteSaid, DeleteHonest
  <2>3. call[c].op \notin Lookups \cup Puts
    BY <1>d DEF Lookups, Sized, Bodies, Puts
  <2>4. Honest(r)
    BY <1>1, <1>3, <1>d, <2>2, <2>3 DEF Honest
  <2> QED BY <1>1, <2>1, <2>4, TellsKeep DEF r, KeyspaceInv, KeyspaceTypeOK
<1> QED BY <1>1, <1>4, <1>a, <1>b, <1>c, <1>d DEF Ops, Removals

LEMMA PagesKeep == \A c \in Clients : KeyspaceInv /\ Pages(c) => KeyspaceInv'
<1> SUFFICES ASSUME NEW c \in Clients, KeyspaceInv, Pages(c) PROVE KeyspaceInv'
  OBVIOUS
<1>1. /\ call[c].step = "answer" /\ call[c].op = "entries"
      /\ UNCHANGED <<dialect, held, written, troubles>>
  BY DEF Pages, At
<1>2. call[c] \in Calls /\ CallInv(call[c]) /\ Current(call[c])
  BY <1>1, Busy
<1>3. written' \in Versions /\ troubles' \in 0 .. MaxTroubles
  BY <1>1 DEF KeyspaceInv, KeyspaceTypeOK
<1>4. /\ call[c].from \in 0 .. Last /\ call[c].page \subseteq BucketKeys
      /\ call[c].found \subseteq BucketKeys
  BY <1>2 DEF Calls
<1>5. call[c].mine = 0
  BY <1>1, <1>2 DEF CallInv, Once, Repeatable
<1>6. /\ \A k \in 1 .. call[c].from : (\A h \in call[c].views : h[k] # 0) => k \in call[c].found
      /\ \A k \in call[c].found : \E h \in call[c].views : h[k] # 0
  BY <1>1, <1>2 DEF CallInv, ListedSoFar
<1>a. CASE call[c].said # "ok"
  BY <1>1, <1>3, <1>a, TellsKeep DEF Pages
<1>b. CASE call[c].said = "ok" /\ Continues(call[c].next)
  <2> DEFINE r == [call[c] EXCEPT !.step = "ask", !.sends = Sends("entries"),
                                  !.found = @ \cup call[c].page, !.from = call[c].next]
  <2>1. Mine(c, r)
    BY <1>b DEF Pages
  <2>2. Sends("entries") = 2 /\ 2 \in 0 .. 2
    BY DEF Sends, Repeatable
  <2>3. /\ call[c].next \in BucketKeys
        /\ \A k \in BucketKeys :
             call[c].from < k /\ k <= call[c].next /\ (\A h \in call[c].views : h[k] # 0)
               => k \in call[c].page
        /\ \A k \in call[c].page : \E h \in call[c].views : h[k] # 0
    BY <1>1, <1>2, <1>b DEF CallInv, PageSaid
  <2>4. call[c].next \in 0 .. Last
    BY <2>3, KeyspaceConstantsOK DEF BucketKeys
  <2>5. r \in Calls
    BY <1>2, <1>4, <2>2, <2>4 DEF Calls
  <2>6. /\ r.step = "ask" /\ r.op = "entries" /\ r.views = call[c].views /\ r.mine = 0
        /\ r.key = call[c].key /\ r.from = call[c].next
        /\ r.found = call[c].found \cup call[c].page
    BY <1>1, <1>2, <1>5 DEF Calls
  <2> HIDE DEF r
  <2>7. Once(r)
    BY <2>6 DEF Once, Repeatable
  <2>8. ListedSoFar(r)
    <3>1. ASSUME NEW k \in 1 .. call[c].next, \A h \in call[c].views : h[k] # 0
          PROVE  k \in call[c].found \cup call[c].page
      <4>1. k \in BucketKeys /\ k <= call[c].next
        BY <2>4, KeyspaceConstantsOK DEF BucketKeys
      <4>2. k \in 1 .. call[c].from \/ call[c].from < k
        BY <1>4, <2>4, KeyspaceConstantsOK
      <4> QED BY <1>6, <2>3, <3>1, <4>1, <4>2
    <3> QED BY <1>6, <2>3, <2>6, <3>1 DEF ListedSoFar
  <2>9. LookupSaid(r) /\ WriteSaid(r) /\ RemovalSaid(r) /\ HeadSaid(r) /\ DeleteSaid(r)
        /\ PageSaid(r)
    BY <2>6 DEF LookupSaid, WriteSaid, RemovalSaid, HeadSaid, DeleteSaid, PageSaid
  <2>10. CallInv(r) /\ Current(r)
    BY <1>1, <1>2, <2>6, <2>7, <2>8, <2>9 DEF CallInv, Current, View
  <2> QED BY <1>1, <1>3, <2>1, <2>5, <2>10, MineKeeps
<1>c. CASE call[c].said = "ok" /\ ~Continues(call[c].next)
  <2> DEFINE r == [call[c] EXCEPT !.step = "end", !.tells = "yes", !.found = @ \cup call[c].page]
  <2>1. Mine(c, r)
    BY <1>c DEF Pages
  <2>2. r \in Calls
    BY <1>2, <1>4 DEF Calls
  <2>3. /\ r.step = "end" /\ r.op = "entries" /\ r.views = call[c].views /\ r.mine = 0
        /\ r.key = call[c].key /\ r.from = call[c].from
        /\ r.found = call[c].found \cup call[c].page
    BY <1>1, <1>2, <1>5 DEF Calls
  <2>4. /\ \A k \in BucketKeys :
             call[c].from < k /\ (\A h \in call[c].views : h[k] # 0) => k \in call[c].page
        /\ \A k \in call[c].page : \E h \in call[c].views : h[k] # 0
    BY <1>1, <1>2, <1>c DEF CallInv, PageSaid
  <2> HIDE DEF r
  <2>5. Once(r)
    BY <2>3 DEF Once, Repeatable
  <2>6. ListedSoFar(r)
    BY <1>6, <2>3, <2>4 DEF ListedSoFar
  <2>7. LookupSaid(r) /\ WriteSaid(r) /\ RemovalSaid(r) /\ HeadSaid(r) /\ DeleteSaid(r)
        /\ PageSaid(r)
    BY <2>3 DEF LookupSaid, WriteSaid, RemovalSaid, HeadSaid, DeleteSaid, PageSaid
  <2>8. ListingHonest(r)
    <3>1. ASSUME NEW k \in BucketKeys, \A h \in call[c].views : h[k] # 0
          PROVE  k \in call[c].found \cup call[c].page
      <4>1. k \in 1 .. call[c].from \/ call[c].from < k
        BY <1>4, KeyspaceConstantsOK DEF BucketKeys
      <4> QED BY <1>6, <2>4, <3>1, <4>1
    <3> QED BY <1>6, <2>3, <2>4, <3>1 DEF ListingHonest
  <2>9. Honest(r)
    BY <2>3, <2>8 DEF Honest, Lookups, Sized, Bodies, Puts
  <2>10. CallInv(r) /\ Current(r)
    BY <1>1, <1>2, <2>3, <2>5, <2>6, <2>7, <2>9 DEF CallInv, Current, View
  <2> QED BY <1>1, <1>3, <2>1, <2>2, <2>10, MineKeeps
<1> QED BY <1>a, <1>b, <1>c

\* What every call was told by the store, and what it has seen, fit together:
\* for any number of calls, in any dialect.
THEOREM KeyspaceInvariant == KeyspaceSpec => []KeyspaceInv
<1>1. KeyspaceInv /\ [KeyspaceNext]_keyspaceVars => KeyspaceInv'
  <2>1. KeyspaceInv /\ UNCHANGED keyspaceVars => KeyspaceInv'
    <3> SUFFICES ASSUME KeyspaceInv, UNCHANGED keyspaceVars PROVE KeyspaceInv'
      OBVIOUS
    <3> USE DEF keyspaceVars
    <3>1. KeyspaceTypeOK'
      BY DEF KeyspaceInv, KeyspaceTypeOK
    <3>2. ASSUME NEW c \in Clients, call'[c] # Idle
          PROVE  CallInv(call[c])' /\ Current(call[c])'
      <4>1. CallInv(call[c]) /\ Current(call[c])
        BY <3>2 DEF KeyspaceInv
      <4>2. call' = call /\ dialect' = dialect /\ held' = held
        OBVIOUS
      <4>3. CallInv(call'[c]) /\ Current(call'[c])
        BY <4>1, <4>2
      <4>4. dialect' = dialect /\ held' = held
        OBVIOUS
      <4> QED BY <4>3, <4>4
        DEF CallInv, Once, LookupSaid, WriteSaid, Taken, RemovalSaid, HeadSaid,
           DeleteSaid, ListedSoFar, PageSaid, Continues, Honest, LookupHonest, WriteHonest,
           RemovalHonest, DeleteHonest, ListingHonest, Current, View, Seen
    <3> QED BY <3>1, <3>2 DEF KeyspaceInv, Idle
  <2> QED BY <2>1, BeginKeeps, LookedUpKeeps, ExistedKeeps, WrittenKeeps, RemovedKeeps, ListedKeeps,
             RefusedKeeps, LostKeeps, TornKeeps, ReturnsKeep, PagesKeep, EndsKeeps
          DEF KeyspaceNext
<1> QED BY InitHolds, <1>1, PTL DEF KeyspaceSpec

\* Whatever other servers do and however many requests and answers are lost,
\* what a call tells its caller was so while it ran (keyspace.rs 189-262).
THEOREM AnswersHold == KeyspaceSpec => []AnswersHonest
<1>1. KeyspaceInv => AnswersHonest
  <2> SUFFICES ASSUME KeyspaceInv, NEW c \in Clients, call[c].step = "end"
               PROVE  CASE call[c].op \in Lookups -> LookupHonest(call[c])
                        [] call[c].op \in Puts -> WriteHonest(call[c])
                        [] call[c].op = "delete_if_unchanged" -> RemovalHonest(call[c])
                        [] call[c].op = "delete" -> DeleteHonest(call[c])
                        [] call[c].op = "entries" -> ListingHonest(call[c])
    BY DEF AnswersHonest, At
  <2>1. call[c] \in Calls /\ Honest(call[c])
    BY Busy DEF CallInv
  <2>2. call[c].op \in Ops
    BY <2>1 DEF Calls
  <2> QED BY <2>1, <2>2 DEF Honest, Ops, Removals
<1> QED BY KeyspaceInvariant, <1>1, PTL

-----------------------------------------------------------------------------
(* LargeUploads: the key has the whole of one file, or nothing.            *)

UploadSteps == Requested \cup {"new", "done", "failed"}

UploadRecord ==
  [pc : UploadSteps, sent : Nat, named : Seq(Uploads \X Nat),
   late : Requested \cup {"none"}]

UploadsTypeOK ==
  /\ cloud \in Clouds
  /\ length \in Lengths
  /\ upload \in [Uploads -> UploadRecord]
  /\ sessions \subseteq Uploads

\* Where the i-th piece starts, and how long it is.
StartAt(i) == (i - 1) * PieceSize

Extent(i) == AtMost(PieceSize, length - StartAt(i))

\* The i-th piece of u, as it should be.
Share(u, i) == Piece(u, i, StartAt(i), Extent(i))

LEMMA UploadNumbers ==
  /\ length \in Lengths => length \in Nat
  /\ cloud \in Clouds => PutCeiling \in Nat
BY UploadsConstantsOK DEF Clouds, PutCeiling

LEMMA PieceSizeType ==
  ASSUME cloud \in Clouds, length \in Nat
  PROVE  PieceSize \in Nat /\ PieceSize > 0
<1>1. /\ PART \in Nat /\ PART > 0 /\ SMALLEST_PART \in Nat /\ SMALLEST_PART > 0
      /\ MOST_PARTS \in Nat /\ MOST_PARTS > 0
      /\ BLOCK \in Nat /\ BLOCK > 0 /\ LARGEST_BLOCK \in Nat /\ LARGEST_BLOCK > 0
      /\ MOST_BLOCKS \in Nat /\ MOST_BLOCKS > 0 /\ CHUNK \in Nat /\ CHUNK > 0
  BY UploadsConstantsOK
<1>2. \A d \in Nat : d > 0 => div_ceil(length, d) \in Int
  BY DEF div_ceil
<1>3. part_size(length) \in Nat /\ part_size(length) > 0
  BY <1>1, <1>2 DEF part_size, AtLeast
<1>4. block_size(length) \in Nat /\ block_size(length) > 0
  BY <1>1, <1>2 DEF block_size, AtLeast, AtMost
<1>5. CASE cloud = "s3"
  BY <1>3, <1>5 DEF PieceSize
<1>6. CASE cloud = "azure"
  BY <1>4, <1>6 DEF PieceSize
<1>7. CASE cloud = "gcs"
  BY <1>1, <1>7 DEF PieceSize
<1>8. QED BY <1>5, <1>6, <1>7 DEF Clouds

LEMMA Places ==
  ASSUME cloud \in Clouds, length \in Nat
  PROVE  /\ StartAt(1) = 0
         /\ \A i \in Nat : StartAt(i) \in Int
         /\ \A i \in Nat : StartAt(i + 1) = StartAt(i) + PieceSize
         /\ \A i \in Nat, j \in Nat : i < j => StartAt(i) + PieceSize <= StartAt(j)
         /\ \A i \in Nat : i > 0 => StartAt(i) >= 0
<1>1. PieceSize \in Nat /\ PieceSize > 0
  BY PieceSizeType
<1>2. PICK P \in Nat : P = PieceSize /\ P > 0
  BY <1>1
<1>3. (1 - 1) * P = 0
  BY <1>2
<1>4. \A i \in Nat : (i - 1) * P \in Int
  BY <1>2
<1>5. \A i \in Nat : (i + 1 - 1) * P = (i - 1) * P + P
  BY <1>2
<1>6. ASSUME NEW i \in Nat, NEW j \in Nat, i < j PROVE (i - 1) * P + P <= (j - 1) * P
  <2>1. i * P = (i - 1) * P + P
    BY <1>2
  <2>2. PICK d \in Nat : d = (j - 1) - i
    BY <1>6
  <2>3. d * P >= 0
    BY <1>2
  <2>4. (i + d) * P = i * P + d * P
    BY <1>2
  <2>5. j - 1 = i + d
    BY <2>2
  <2>6. i * P \in Int /\ d * P \in Int
    BY <1>2
  <2>7. QED BY <2>1, <2>3, <2>4, <2>5, <2>6
<1>7. \A i \in Nat : i > 0 => (i - 1) * P >= 0
  BY <1>2
<1>8. QED BY <1>2, <1>3, <1>4, <1>5, <1>6, <1>7 DEF StartAt

LEMMA NameIs == \A u, i : Name(u, i) = <<u, i>>
BY DEF Name, block_id


-----------------------------------------------------------------------------
(* The invariant.                                                          *)

\* What u has sent is its first shares, and a request is one that may be due.
Sound(u, r) ==
  /\ \A i \in 1 .. Len(r.named) : r.named[i] = <<u, i>>
  /\ r.sent = AtMost(StartAt(Len(r.named) + 1), length)
  /\ "send" \in {r.pc, r.late} => StartAt(Len(r.named) + 1) < length
  /\ "finish" \in {r.pc, r.late} =>
       /\ cloud # "gcs"
       /\ Len(r.named) # 0
       /\ StartAt(Len(r.named)) < length
       /\ length <= StartAt(Len(r.named) + 1)
  /\ r.pc \in {"new", "put", "begin"} => Len(r.named) = 0
  /\ r.late # "none" => r.pc \in {"abort", "failed"}
  /\ "put" \in {r.pc, r.late} => length <= PutCeiling
  /\ \A request \in {"begin", "send", "finish"} :
       request \in {r.pc, r.late} => length > PutCeiling

\* A share, or as much of one as Google's session took.
Slice(s) ==
  \E u \in Uploads, i \in Nat \ {0}, n \in Nat \ {0} :
    /\ s = Piece(u, i, StartAt(i), n)
    /\ StartAt(i) < length
    /\ n <= Extent(i)
    /\ cloud # "gcs" => n = Extent(i)

\* A session that took more of u had taken all that goes before.
Stashed(S) ==
  /\ \A s \in S : Slice(s)
  /\ \A s \in S, t \in S : s.name = t.name => s = t
  /\ cloud = "gcs" =>
       \A s \in S, i \in Nat, j \in Nat \ {0} :
         s.name = <<s.of, i>> /\ j < i => Share(s.of, j) \in S

\* Nothing more of u comes to its session.
Over(r) == r.pc \in {"abort", "failed"} /\ r.late # "send"

Reached(S, r) ==
  cloud = "gcs" =>
    \A s \in S, i \in Nat :
      s.name = <<s.of, i>> => i <= Len(r[s.of].named) \/ Over(r[s.of])

Kept(o) ==
  \/ o = <<>>
  \/ /\ length <= PutCeiling
     /\ \E u \in Uploads : o = <<Piece(u, 1, 0, length)>>
  \/ /\ length > PutCeiling
     /\ \E u \in Uploads, m \in Nat \ {0} :
          /\ o = [i \in 1 .. m |-> Share(u, i)]
          /\ StartAt(m) < length
          /\ length <= StartAt(m + 1)

UploadsInv ==
  /\ UploadsTypeOK
  /\ \A u \in Uploads : Sound(u, upload[u])
  /\ Stashed(stash)
  /\ Reached(stash, upload)
  /\ Kept(object)
  /\ \A u \in Uploads : Doing(u, "done") => object # <<>>

\* Nothing of this changes with the dialect and the length the same.
LEMMA ShapesStay ==
  ASSUME UNCHANGED <<cloud, length>>
  PROVE  /\ \A u, r : Sound(u, r)' <=> Sound(u, r)
         /\ \A S : Stashed(S)' <=> Stashed(S)
         /\ \A S, r : Reached(S, r)' <=> Reached(S, r)
         /\ \A o : Kept(o)' <=> Kept(o)
<1>1. PieceSize' = PieceSize /\ PutCeiling' = PutCeiling
  BY DEF PieceSize, PutCeiling, part_size, block_size
<1>2. \A i : StartAt(i)' = StartAt(i) /\ Extent(i)' = Extent(i)
  BY <1>1 DEF StartAt, Extent
<1>3. \A u, i, at, n : Piece(u, i, at, n)' = Piece(u, i, at, n)
  BY DEF Piece, Name
<1>4. \A u, i : Share(u, i)' = Share(u, i)
  BY <1>2, <1>3 DEF Share
<1>5. \A u, r : Sound(u, r)' <=> Sound(u, r)
  BY <1>1, <1>2 DEF Sound
<1>6. \A s : Slice(s)' <=> Slice(s)
  BY <1>2, <1>3 DEF Slice
<1>7. \A S : Stashed(S)' <=> Stashed(S)
  BY <1>4, <1>6 DEF Stashed
<1>8. \A S, r : Reached(S, r)' <=> Reached(S, r)
  BY DEF Reached
<1>9. \A o : Kept(o)' <=> Kept(o)
  BY <1>1, <1>2, <1>3, <1>4 DEF Kept
<1>10. QED BY <1>5, <1>7, <1>8, <1>9

\* A whole number of shares that reaches the end of the file is the file.
LEMMA SharesAreWhole ==
  ASSUME cloud \in Clouds, length \in Nat, NEW u, NEW m \in Nat \ {0},
         StartAt(m) < length, length <= StartAt(m + 1)
  PROVE  Whole([i \in 1 .. m |-> Share(u, i)])
<1> DEFINE o == [i \in 1 .. m |-> Share(u, i)]
<1>1. o \in Seq({Share(u, i) : i \in 1 .. m}) /\ Len(o) = m
  OBVIOUS
<1>2. \A i \in 1 .. m : o[i].at = StartAt(i) /\ o[i].n = Extent(i) /\ o[i].of = u
  BY DEF Share, Piece
<1>3. PieceSize \in Nat /\ PieceSize > 0
  BY PieceSizeType
<1>4. \A i \in 1 .. m - 1 : Extent(i) = PieceSize
  <2> TAKE i \in 1 .. m - 1
  <2>1. StartAt(i) + PieceSize <= StartAt(m) /\ StartAt(i) \in Int /\ StartAt(m) \in Int
    BY Places
  <2>2. PieceSize <= length - StartAt(i)
    BY <1>3, <2>1
  <2>3. QED BY <1>3, <2>1, <2>2 DEF Extent, AtMost
<1>5. Extent(m) = length - StartAt(m)
  <2>1. StartAt(m + 1) = StartAt(m) + PieceSize /\ StartAt(m) \in Int
    BY Places
  <2>2. QED BY <1>3, <2>1 DEF Extent, AtMost
<1>6. StartAt(1) = 0 /\ StartAt(m) \in Int
  BY Places
<1>7. \A i \in 1 .. m - 1 : o[i + 1].at = o[i].at + o[i].n
  <2> TAKE i \in 1 .. m - 1
  <2>1. StartAt(i + 1) = StartAt(i) + PieceSize
    BY Places
  <2>2. i \in 1 .. m /\ i + 1 \in 1 .. m
    OBVIOUS
  <2> HIDE DEF o
  <2>3. QED BY <1>2, <1>4, <2>1, <2>2
<1> HIDE DEF o
<1>8. o # <<>>
  BY <1>1
<1>9. o[Len(o)].at + o[Len(o)].n = length
  <2>1. Len(o) \in 1 .. m /\ Len(o) = m
    BY <1>1
  <2>2. QED BY <1>2, <1>5, <1>6, <2>1
<1>10. o[1].at = 0
  BY <1>2, <1>6
<1>11. \A i \in 1 .. Len(o) - 1 : o[i + 1].of = o[1].of
  BY <1>1, <1>2
<1>12. Whole(o)
  BY <1>1, <1>7, <1>8, <1>9, <1>10, <1>11 DEF Whole
<1>13. QED BY <1>12 DEF o

-----------------------------------------------------------------------------
(* What is sent, and what it does to the store.                            *)

LEMMA Extents ==
  ASSUME cloud \in Clouds, length \in Nat, NEW i \in Nat \ {0}, StartAt(i) < length
  PROVE  /\ Extent(i) \in Nat \ {0}
         /\ Extent(i) <= PieceSize
         /\ StartAt(i) + Extent(i) = AtMost(StartAt(i + 1), length)
         /\ StartAt(i + 1) < length => Extent(i) = PieceSize
<1>1. PieceSize \in Nat /\ PieceSize > 0
  BY PieceSizeType
<1>2. i \in Nat /\ i > 0
  OBVIOUS
<1>3. StartAt(i) \in Int /\ StartAt(i) >= 0
  BY <1>2, Places
<1>4. StartAt(i + 1) = StartAt(i) + PieceSize
  BY <1>2, Places
<1>5. QED BY <1>1, <1>3, <1>4 DEF Extent, AtMost

\* A piece that is sent, or comes late, is the next share.
LEMMA SendingIs ==
  ASSUME UploadsInv, NEW u \in Uploads, "send" \in {upload[u].pc, upload[u].late},
         NEW k, k = Len(upload[u].named)
  PROVE  /\ k \in Nat
         /\ length > PutCeiling
         /\ StartAt(k + 1) < length
         /\ upload[u].sent = StartAt(k + 1)
         /\ This(u) = Extent(k + 1)
         /\ \A n : Sending(u, n) = Piece(u, k + 1, StartAt(k + 1), n)
         /\ Sending(u, This(u)) = Share(u, k + 1)
         /\ \A n : Sending(u, n).name = <<u, k + 1>>
<1>1. upload[u] \in UploadRecord /\ Sound(u, upload[u]) /\ cloud \in Clouds /\ length \in Nat
  BY UploadNumbers DEF UploadsInv, UploadsTypeOK
<1>2. k \in Nat
  BY <1>1 DEF UploadRecord
<1>3. /\ length > PutCeiling /\ StartAt(k + 1) < length
      /\ upload[u].sent = AtMost(StartAt(k + 1), length)
  BY <1>1 DEF Sound
<1>4. StartAt(k + 1) \in Int
  <2>1. k + 1 \in Nat
    BY <1>2
  <2>2. QED BY <1>1, <2>1, Places
<1>5. upload[u].sent = StartAt(k + 1)
  BY <1>1, <1>3, <1>4 DEF AtMost
<1>6. This(u) = Extent(k + 1)
  BY <1>5 DEF This, Extent
<1>7. \A n : Sending(u, n) = Piece(u, k + 1, StartAt(k + 1), n)
  BY <1>5 DEF Sending
<1>8. Sending(u, This(u)) = Share(u, k + 1)
  BY <1>6, <1>7 DEF Share
<1>9. \A n : Sending(u, n).name = <<u, k + 1>>
  BY <1>7, NameIs DEF Piece
<1>10. QED BY <1>2, <1>3, <1>5, <1>6, <1>7, <1>8, <1>9

\* What a name stands for outside of Google is the share of that name.
LEMMA SlicesAreShares ==
  ASSUME UploadsInv, cloud # "gcs", NEW s \in stash
  PROVE  \E u \in Uploads, i \in Nat \ {0} :
           s = Share(u, i) /\ s.name = <<u, i>> /\ s.of = u /\ StartAt(i) < length
<1>1. PICK u \in Uploads, i \in Nat \ {0}, n \in Nat \ {0} :
        s = Piece(u, i, StartAt(i), n) /\ StartAt(i) < length /\ n = Extent(i)
  BY DEF UploadsInv, Stashed, Slice
<1>2. s = Share(u, i) /\ s.name = <<u, i>> /\ s.of = u
  BY <1>1, NameIs DEF Share, Piece
<1>3. QED BY <1>1, <1>2

LEMMA PieceStashed ==
  ASSUME UploadsInv, NEW u \in Uploads, "send" \in {upload[u].pc, upload[u].late},
         cloud # "gcs", NEW S,
         S = {s \in stash : s.name # Sending(u, 0).name} \cup {Sending(u, This(u))}
  PROVE  Stashed(S)
<1>1. PICK k : k = Len(upload[u].named)
  OBVIOUS
<1>2. k \in Nat /\ StartAt(k + 1) < length /\ Sending(u, This(u)) = Share(u, k + 1)
      /\ Sending(u, 0).name = <<u, k + 1>>
  BY <1>1, SendingIs
<1>3. Extent(k + 1) \in Nat \ {0} /\ k + 1 \in Nat \ {0}
  BY <1>2, Extents, UploadNumbers DEF UploadsInv, UploadsTypeOK
<1>4. Slice(Share(u, k + 1)) /\ Share(u, k + 1).name = <<u, k + 1>>
  BY <1>2, <1>3, NameIs DEF Slice, Share, Piece
<1>5. \A s \in stash : Slice(s)
  BY DEF UploadsInv, Stashed
<1>6. \A s \in stash, t \in stash : s.name = t.name => s = t
  BY DEF UploadsInv, Stashed
<1>7. QED BY <1>2, <1>4, <1>5, <1>6 DEF Stashed

\* What is in the stash of one upload can go, all at once.
LEMMA RestStashed ==
  ASSUME UploadsInv, NEW u
  PROVE  Stashed({s \in stash : s.of # u})
<1>1. \A s \in stash, i \in Nat, j \in Nat \ {0} :
        cloud = "gcs" /\ s.name = <<s.of, i>> /\ j < i => Share(s.of, j) \in stash
  BY DEF UploadsInv, Stashed
<1>2. \A v, j : Share(v, j).of = v
  BY DEF Share, Piece
<1>3. QED BY <1>1, <1>2 DEF UploadsInv, Stashed

LEMMA LatestIs ==
  ASSUME UploadsInv, cloud # "gcs", length > PutCeiling, NEW u, NEW i,
         NEW s \in Latest(<<u, i>>)
  PROVE  s = Share(u, i)
<1>1. CASE s \in stash /\ s.name = <<u, i>>
  BY <1>1, SlicesAreShares
<1>2. CASE s \in {object[j] : j \in DOMAIN object} /\ s.name = <<u, i>>
  <2>1. PICK j : j \in DOMAIN object /\ s = object[j]
    BY <1>2
  <2>2. object # <<>>
    BY <2>1
  <2>3. length \in Nat /\ PutCeiling \in Nat
    BY UploadNumbers DEF UploadsInv, UploadsTypeOK
  <2>4. PICK v \in Uploads, m \in Nat \ {0} : object = [x \in 1 .. m |-> Share(v, x)]
    BY <2>2, <2>3 DEF UploadsInv, Kept
  <2>5. s = Share(v, j)
    BY <2>1, <2>4
  <2>6. Share(v, j).name = <<v, j>>
    BY NameIs DEF Share, Piece
  <2>7. QED BY <1>2, <2>5, <2>6
<1>3. QED BY <1>1, <1>2 DEF Latest

\* The object that is assembled is one file's.
LEMMA AssembledKept ==
  ASSUME UploadsInv, NEW u \in Uploads, "finish" \in {upload[u].pc, upload[u].late},
         NEW names, names = upload[u].named,
         NEW o, o = [i \in DOMAIN names |-> o[i]],
         \A i \in DOMAIN names : o[i] \in Latest(names[i])
  PROVE  Kept(o) /\ o # <<>>
<1>1. Sound(u, upload[u]) /\ upload[u] \in UploadRecord
  BY DEF UploadsInv, UploadsTypeOK
<1>2. PICK k : k = Len(names)
  OBVIOUS
<1>3. k \in Nat /\ DOMAIN names = 1 .. k
  BY <1>1, <1>2 DEF UploadRecord
<1>4. /\ cloud # "gcs"
      /\ k # 0
      /\ StartAt(k) < length
      /\ length <= StartAt(k + 1)
      /\ length > PutCeiling
      /\ \A i \in 1 .. k : names[i] = <<u, i>>
  BY <1>1, <1>2 DEF Sound
<1>5. \A i \in 1 .. k : o[i] = Share(u, i)
  BY <1>3, <1>4, LatestIs
<1>6. o = [i \in 1 .. k |-> Share(u, i)]
  BY <1>3, <1>5
<1>7. 1 \in DOMAIN o /\ DOMAIN o = 1 .. k
  BY <1>3, <1>4, <1>6
<1>8. o # <<>>
  BY <1>7
<1>9. QED BY <1>3, <1>4, <1>6, <1>8 DEF Kept

\* What a session has while more of u may come.
LEMMA ChunksBefore ==
  ASSUME UploadsInv, NEW u \in Uploads, "send" \in {upload[u].pc, upload[u].late},
         cloud = "gcs", NEW k, k = Len(upload[u].named), NEW s \in stash, s.of = u
  PROVE  \E i \in 1 .. k, n \in Nat \ {0} :
           s = Piece(u, i, StartAt(i), n) /\ StartAt(i) < length /\ n <= Extent(i)
<1>1. PICK v \in Uploads, i \in Nat \ {0}, n \in Nat \ {0} :
        s = Piece(v, i, StartAt(i), n) /\ StartAt(i) < length /\ n <= Extent(i)
  BY DEF UploadsInv, Stashed, Slice
<1>2. v = u /\ s.name = <<u, i>>
  BY <1>1, NameIs DEF Piece
<1>3. upload[u] \in UploadRecord /\ Sound(u, upload[u])
  BY DEF UploadsInv, UploadsTypeOK
<1>4. ~Over(upload[u])
  BY <1>3 DEF Over, Sound
<1>5. i <= k
  BY <1>2, <1>4 DEF UploadsInv, Reached
<1>6. k \in Nat
  BY SendingIs
<1>7. i \in 1 .. k
  BY <1>1, <1>5, <1>6
<1>8. QED BY <1>1, <1>2, <1>7

\* A chunk that follows comes after every other.
LEMMA FollowsAll ==
  ASSUME UploadsInv, NEW u \in Uploads, "send" \in {upload[u].pc, upload[u].late},
         cloud = "gcs", NEW k, k = Len(upload[u].named),
         NEW had, had = {s \in stash : s.of = u},
         IF had = {} THEN upload[u].sent = 0
                     ELSE \E s \in had : s.at + s.n = upload[u].sent
  PROVE  \A j \in 1 .. k : Share(u, j) \in stash
<1>1. /\ k \in Nat
      /\ StartAt(k + 1) < length
      /\ upload[u].sent = StartAt(k + 1)
  BY SendingIs
<1>2. cloud \in Clouds /\ length \in Nat
  BY UploadNumbers DEF UploadsInv, UploadsTypeOK
<1>3. PieceSize \in Nat /\ PieceSize > 0
  BY <1>2, PieceSizeType
<1>4. CASE k = 0
  BY <1>4
<1>5. CASE k # 0
  <2>1. StartAt(k) \in Int /\ StartAt(k) >= 0 /\ StartAt(k + 1) = StartAt(k) + PieceSize
    <3>1. k \in Nat /\ k > 0
      BY <1>1, <1>5
    <3>2. StartAt(k) \in Int /\ StartAt(k) >= 0
      BY <1>2, <3>1, Places
    <3>3. StartAt(k + 1) = StartAt(k) + PieceSize
      BY <1>2, <3>1, Places
    <3>4. QED BY <3>2, <3>3
  <2>2. PICK s \in had : s.at + s.n = upload[u].sent
    BY <1>1, <1>3, <2>1
  <2>3. PICK i \in 1 .. k, n \in Nat \ {0} :
          s = Piece(u, i, StartAt(i), n) /\ StartAt(i) < length /\ n <= Extent(i)
    BY <2>2, ChunksBefore
  <2>4. StartAt(i) + n = StartAt(k + 1) /\ s.name = <<u, i>> /\ s.of = u
    BY <1>1, <2>2, <2>3, NameIs DEF Piece
  <2>5. Extent(i) \in Nat /\ Extent(i) <= PieceSize /\ i \in Nat \ {0}
    BY <1>1, <1>2, <2>3, Extents
  <2>6. StartAt(i) \in Int /\ (i < k => StartAt(i) + PieceSize <= StartAt(k))
    BY <1>1, <1>2, <2>5, Places
  <2>7. i = k /\ n = PieceSize
    <3>1. n \in Nat /\ n <= PieceSize
      BY <1>3, <2>3, <2>5
    <3>2. ~(i < k)
      BY <1>3, <2>1, <2>4, <2>6, <3>1
    <3>3. i = k
      BY <1>1, <2>3, <3>2
    <3>4. QED BY <1>3, <2>1, <2>4, <3>1, <3>3
  <2>8. s = Share(u, k) /\ s \in stash
    <3>1. n = Extent(k)
      BY <1>3, <2>3, <2>5, <2>7
    <3>2. QED BY <2>2, <2>3, <2>7, <3>1 DEF Share
  <2>9. \A j \in Nat \ {0} : j < k => Share(u, j) \in stash
    BY <1>1, <2>4, <2>7, <2>8 DEF UploadsInv, Stashed
  <2>10. QED BY <1>1, <2>8, <2>9
<1>6. QED BY <1>4, <1>5

\* Some of the next chunk, if it follows, goes into the stash.
LEMMA ChunkStashed ==
  ASSUME UploadsInv, NEW u \in Uploads, "send" \in {upload[u].pc, upload[u].late},
         cloud = "gcs", NEW k, k = Len(upload[u].named),
         \A j \in 1 .. k : Share(u, j) \in stash,
         NEW n \in 1 .. This(u), NEW S, S = stash \cup {Sending(u, n)}
  PROVE  Stashed(S)
<1>1. /\ k \in Nat
      /\ StartAt(k + 1) < length
      /\ This(u) = Extent(k + 1)
      /\ Sending(u, n) = Piece(u, k + 1, StartAt(k + 1), n)
      /\ Sending(u, n).name = <<u, k + 1>>
  BY SendingIs
<1>2. Extent(k + 1) \in Nat /\ k + 1 \in Nat \ {0}
  BY <1>1, Extents, UploadNumbers DEF UploadsInv, UploadsTypeOK
<1>3. PICK c : c = Sending(u, n)
  OBVIOUS
<1>4. c.name = <<u, k + 1>> /\ c.of = u
  BY <1>1, <1>3 DEF Piece
<1>5. Slice(c)
  <2>1. n \in Nat \ {0} /\ n <= Extent(k + 1)
    BY <1>1, <1>2
  <2>2. QED BY <1>1, <1>2, <1>3, <2>1 DEF Slice
<1>6. \A s \in stash : s.name # <<u, k + 1>>
  <2> SUFFICES ASSUME NEW s \in stash, s.name = <<u, k + 1>> PROVE FALSE
    OBVIOUS
  <2>1. s.of = u
    <3>1. PICK v \in Uploads, i \in Nat \ {0}, m \in Nat \ {0} : s = Piece(v, i, StartAt(i), m)
      BY DEF UploadsInv, Stashed, Slice
    <3>2. QED BY <3>1, NameIs DEF Piece
  <2>2. PICK i \in 1 .. k, m \in Nat \ {0} : s = Piece(u, i, StartAt(i), m)
    BY <2>1, ChunksBefore
  <2>3. s.name = <<u, i>>
    BY <2>2, NameIs DEF Piece
  <2>4. i = k + 1
    BY <2>3
  <2>5. QED BY <1>1, <2>2, <2>4
<1>7. \A s \in S : Slice(s)
  BY <1>3, <1>5 DEF UploadsInv, Stashed
<1>8. \A s \in S, t \in S : s.name = t.name => s = t
  BY <1>3, <1>4, <1>6 DEF UploadsInv, Stashed
<1>9. ASSUME NEW s \in S, NEW i \in Nat, NEW j \in Nat \ {0}, s.name = <<s.of, i>>, j < i
      PROVE  Share(s.of, j) \in S
  <2>1. CASE s \in stash
    BY <1>9, <2>1 DEF UploadsInv, Stashed
  <2>2. CASE s = c
    <3>1. i = k + 1
      BY <1>4, <1>9, <2>2
    <3>2. j \in 1 .. k
      BY <1>1, <1>9, <3>1
    <3>3. QED BY <1>4, <2>2, <3>2
  <2>3. QED BY <1>3, <2>1, <2>2
<1>10. QED BY <1>7, <1>8, <1>9 DEF Stashed

LEMMA NamesSent ==
  ASSUME UploadsInv, NEW u \in Uploads, "send" \in {upload[u].pc, upload[u].late},
         NEW k, k = Len(upload[u].named),
         NEW names, names = Append(upload[u].named, Sending(u, 0).name)
  PROVE  /\ Len(names) = k + 1
         /\ DOMAIN names = 1 .. k + 1
         /\ \A i \in 1 .. k + 1 : names[i] = <<u, i>>
<1>1. k \in Nat /\ Sending(u, 0).name = <<u, k + 1>>
  BY SendingIs
<1>2. upload[u] \in UploadRecord /\ Sound(u, upload[u])
  BY DEF UploadsInv, UploadsTypeOK
<1>3. upload[u].named \in Seq(Uploads \X Nat)
  BY <1>2 DEF UploadRecord
<1>4. \A i \in 1 .. k : upload[u].named[i] = <<u, i>>
  BY <1>2 DEF Sound
<1>5. DOMAIN names = 1 .. k + 1 /\ Len(names) = k + 1
  BY <1>1, <1>3
<1>6. \A i \in 1 .. k : names[i] = upload[u].named[i]
  BY <1>1, <1>3
<1>7. names[k + 1] = <<u, k + 1>>
  BY <1>1, <1>3
<1>8. ASSUME NEW i \in 1 .. k + 1 PROVE names[i] = <<u, i>>
  <2>1. CASE i = k + 1
    BY <1>7, <2>1
  <2>2. CASE i # k + 1
    <3>1. i \in 1 .. k
      BY <1>1, <2>2
    <3>2. QED BY <1>4, <1>6, <3>1
  <2>3. QED BY <2>1, <2>2
<1>9. QED BY <1>5, <1>8

\* What the session of u has with n more bytes.
Taking(u, n) ==
  {s \in stash : s.of = u} \cup (IF n = 0 THEN {} ELSE {Sending(u, n)})

\* What a session has when it has every byte is the file.
LEMMA ChunksAreShares ==
  ASSUME UploadsInv, NEW u \in Uploads, "send" \in {upload[u].pc, upload[u].late},
         cloud = "gcs", NEW k, k = Len(upload[u].named),
         \A j \in 1 .. k : Share(u, j) \in stash,
         NEW n \in 0 .. This(u), upload[u].sent + n = length,
         NEW i \in 1 .. k + 1
  PROVE  /\ k \in Nat
         /\ length > PutCeiling
         /\ StartAt(k + 1) < length
         /\ length <= StartAt(k + 2)
         /\ Share(u, i) \in Taking(u, n)
         /\ Share(u, i).name = <<u, i>>
         /\ \A s \in Taking(u, n) : s.name = <<u, i>> => s = Share(u, i)
<1>1. /\ k \in Nat
      /\ length > PutCeiling
      /\ StartAt(k + 1) < length
      /\ upload[u].sent = StartAt(k + 1)
      /\ This(u) = Extent(k + 1)
      /\ Sending(u, This(u)) = Share(u, k + 1)
      /\ Sending(u, 0).name = <<u, k + 1>>
  BY SendingIs
<1>2. cloud \in Clouds /\ length \in Nat
  BY UploadNumbers DEF UploadsInv, UploadsTypeOK
<1>4. StartAt(k + 1) \in Int /\ StartAt(k + 2) = StartAt(k + 1) + PieceSize
  <2>1. k + 1 \in Nat /\ k + 1 + 1 = k + 2
    BY <1>1
  <2>2. StartAt(k + 1) \in Int /\ StartAt(k + 1 + 1) = StartAt(k + 1) + PieceSize
    BY <1>2, <2>1, Places
  <2>3. QED BY <2>1, <2>2
<1>5. k + 1 \in Nat \ {0} /\ Extent(k + 1) \in Nat /\ Extent(k + 1) <= PieceSize
  BY <1>1, <1>2, Extents
<1>6. n = This(u) /\ n # 0 /\ length <= StartAt(k + 2)
  <2>1. PieceSize \in Nat
    BY <1>2, PieceSizeType
  <2>2. n \in Nat /\ n <= Extent(k + 1) /\ n = length - StartAt(k + 1)
    BY <1>1, <1>2, <1>4, <1>5
  <2>3. Extent(k + 1) <= length - StartAt(k + 1)
    BY <1>2, <1>4, <2>1 DEF Extent, AtMost
  <2>4. QED BY <1>1, <1>2, <1>4, <1>5, <2>1, <2>2, <2>3
<1>7. \A s : s \in Taking(u, n) <=> (s \in stash /\ s.of = u) \/ s = Share(u, k + 1)
  BY <1>1, <1>6 DEF Taking
<1>8. \A j : Share(u, j).name = <<u, j>> /\ Share(u, j).of = u
  BY NameIs DEF Share, Piece
<1>9. Share(u, i) \in Taking(u, n)
  BY <1>1, <1>7, <1>8
<1>10. ASSUME NEW s \in Taking(u, n), s.name = <<u, i>> PROVE s = Share(u, i)
  <2>1. CASE s \in stash /\ s.of = u
    <3>1. PICK j \in 1 .. k, m \in Nat \ {0} : s = Piece(u, j, StartAt(j), m)
      BY <2>1, ChunksBefore
    <3>2. s.name = <<u, j>>
      BY <3>1, NameIs DEF Piece
    <3>3. i = j
      BY <1>10, <3>2
    <3>4. Share(u, i) \in stash /\ Share(u, i).name = s.name
      BY <1>8, <1>10, <3>1, <3>3
    <3>5. QED BY <2>1, <3>4 DEF UploadsInv, Stashed
  <2>2. CASE s = Share(u, k + 1)
    <3>1. i = k + 1
      BY <1>8, <1>10, <2>2
    <3>2. QED BY <2>2, <3>1
  <2>3. QED BY <1>7, <2>1, <2>2
<1>11. QED BY <1>1, <1>6, <1>8, <1>9, <1>10

\* A request that reaches the store leaves its stash and the object in order.
LEMMA LandsKeeps ==
  ASSUME UploadsInv, NEW u \in Uploads, NEW request \in Requested,
         request \in {upload[u].pc, upload[u].late}, Lands(u, request),
         UNCHANGED <<cloud, length>>
  PROVE  /\ Stashed(stash')
         /\ Kept(object')
         /\ sessions' \subseteq Uploads
         /\ object # <<>> \/ request \in {"put", "finish"} => object' # <<>>
         /\ request = "send" /\ cloud = "gcs" /\ u \notin sessions' => object' # <<>>
         /\ \A s \in stash' :
              \/ s \in stash
              \/ cloud # "gcs"
              \/ /\ request = "send"
                 /\ s.of = u
                 /\ s.name = <<u, Len(upload[u].named) + 1>>
<1>1. /\ Sound(u, upload[u]) /\ Stashed(stash) /\ Kept(object)
      /\ sessions \subseteq Uploads /\ upload[u] \in UploadRecord
  BY DEF UploadsInv, UploadsTypeOK
<1>2. PICK k : k = Len(upload[u].named)
  OBVIOUS
<1>3. PICK S, o : S = stash' /\ o = object'
  OBVIOUS
<1>4. CASE request = "put"
  <2>1. o = <<Piece(u, 1, 0, length)>> /\ UNCHANGED <<sessions, stash>>
    BY <1>3, <1>4 DEF Lands
  <2>2. length <= PutCeiling
    BY <1>1, <1>4 DEF Sound
  <2>3. o # <<>> /\ Kept(o)
    BY <2>1, <2>2 DEF Kept
  <2>4. QED BY <1>1, <1>3, <1>4, <2>1, <2>3
<1>5. CASE request = "begin"
  BY <1>1, <1>5 DEF Lands
<1>6. CASE request = "abort"
  <2>1. S = {s \in stash : s.of # u} /\ sessions' = sessions \ {u} /\ object' = object
    BY <1>3, <1>6 DEF Lands
  <2>2. Stashed(S)
    BY <2>1, RestStashed
  <2>3. QED BY <1>1, <1>3, <1>6, <2>1, <2>2
<1>7. CASE request = "finish"
  <2>1. Assembles(u)
    BY <1>7, Zenon DEF Lands
  <2>2. cloud # "gcs"
    BY <1>1, <1>7 DEF Sound
  <2>3. PICK names : names = upload[u].named
    OBVIOUS
  <2>4. /\ \A i \in DOMAIN names : Latest(names[i]) # {}
        /\ o = [i \in DOMAIN names |-> CHOOSE s \in Latest(names[i]) : TRUE]
        /\ sessions' = sessions \ {u}
        /\ S = IF cloud = "azure" THEN {} ELSE {s \in stash : s.of # u}
    BY <1>3, <2>1, <2>3 DEF Assembles
  <2>5. Kept(o) /\ o # <<>>
    <3>1. \A i \in DOMAIN names : o[i] \in Latest(names[i])
      BY <2>4
    <3>2. o = [i \in DOMAIN names |-> o[i]]
      BY <2>4
    <3>3. QED BY <1>7, <2>3, <3>1, <3>2, AssembledKept
  <2>6. Stashed(S)
    <3>1. Stashed({})
      BY DEF Stashed
    <3>2. Stashed({s \in stash : s.of # u})
      BY RestStashed
    <3>3. QED BY <2>4, <3>1, <3>2
  <2>7. QED BY <1>1, <1>3, <1>7, <2>2, <2>4, <2>5, <2>6
<1>8. CASE request = "send" /\ cloud # "gcs"
  <2>1. /\ S = {s \in stash : s.name # Sending(u, 0).name} \cup {Sending(u, This(u))}
        /\ UNCHANGED <<sessions, object>>
    BY <1>3, <1>8 DEF Lands, PieceLands
  <2>2. Stashed(S)
    BY <1>8, <2>1, PieceStashed
  <2>3. QED BY <1>1, <1>3, <1>8, <2>1, <2>2
<1>9. CASE request = "send" /\ cloud = "gcs"
  <2>1. ChunkLands(u)
    BY <1>9, Zenon DEF Lands
  <2>2. PICK had : had = {s \in stash : s.of = u}
    OBVIOUS
  <2>3. PICK follows \in BOOLEAN :
          follows <=> IF had = {} THEN upload[u].sent = 0
                      ELSE \E s \in had : s.at + s.n = upload[u].sent
    OBVIOUS
  <2>4. PICK names : names = Append(upload[u].named, Sending(u, 0).name)
    OBVIOUS
  <2>5. PICK n \in 0 .. This(u) :
          /\ ~follows => n = 0
          /\ LET has == had \cup (IF n = 0 THEN {} ELSE {Sending(u, n)}) IN
             IF follows /\ upload[u].sent + n = length
               THEN /\ object' = [i \in DOMAIN names |-> CHOOSE s \in has : s.name = names[i]]
                    /\ sessions' = sessions \ {u}
                    /\ stash' = stash \ had
               ELSE /\ stash' = stash \cup has
                    /\ UNCHANGED <<sessions, object>>
    BY <2>1, <2>2, <2>3, <2>4 DEF ChunkLands
  <2>6. PICK has : has = had \cup (IF n = 0 THEN {} ELSE {Sending(u, n)})
    OBVIOUS
  <2>7. follows => \A j \in 1 .. k : Share(u, j) \in stash
    BY <1>2, <1>9, <2>2, <2>3, FollowsAll
  <2>8. /\ k \in Nat /\ This(u) = Extent(k + 1) /\ StartAt(k + 1) < length
        /\ \A m : Sending(u, m) = Piece(u, k + 1, StartAt(k + 1), m)
        /\ \A m : Sending(u, m).name = <<u, k + 1>>
    BY <1>2, <1>9, SendingIs
  <2>9. CASE follows /\ upload[u].sent + n = length
    <3>1. /\ o = [i \in DOMAIN names |-> CHOOSE s \in has : s.name = names[i]]
          /\ sessions' = sessions \ {u}
          /\ S = {s \in stash : s.of # u}
      BY <1>3, <2>2, <2>5, <2>6, <2>9
    <3>2. Stashed(S)
      BY <3>1, RestStashed
    <3>3. Kept(o) /\ o # <<>>
      <4>1. /\ DOMAIN names = 1 .. k + 1
            /\ \A i \in 1 .. k + 1 : names[i] = <<u, i>>
        BY <1>2, <1>9, <2>4, NamesSent
      <4>3. has = Taking(u, n)
        BY <2>2, <2>6 DEF Taking
      <4>4. /\ \A j \in 1 .. k : Share(u, j) \in stash
            /\ n \in 0 .. This(u)
            /\ upload[u].sent + n = length
            /\ "send" \in {upload[u].pc, upload[u].late}
            /\ cloud = "gcs"
        BY <1>9, <2>5, <2>7, <2>9
      <4>5. ASSUME NEW i \in 1 .. k + 1
            PROVE  /\ length > PutCeiling
                   /\ length <= StartAt(k + 2)
                   /\ (CHOOSE s \in has : s.name = names[i]) = Share(u, i)
        <5>1. /\ length > PutCeiling
              /\ length <= StartAt(k + 2)
              /\ Share(u, i) \in has
              /\ Share(u, i).name = <<u, i>>
              /\ \A s \in has : s.name = <<u, i>> => s = Share(u, i)
          <6>1. i \in 1 .. k + 1
            OBVIOUS
          <6>2. QED BY <1>2, <4>3, <4>4, <6>1, ChunksAreShares
        <5>2. PICK t : t = CHOOSE s \in has : s.name = names[i]
          OBVIOUS
        <5>3. t \in has /\ t.name = <<u, i>>
          BY <4>1, <5>1, <5>2
        <5>4. QED BY <5>1, <5>2, <5>3
      <4>6. o = [i \in 1 .. k + 1 |-> Share(u, i)]
        BY <3>1, <4>1, <4>5
      <4>7. k + 1 \in Nat \ {0} /\ k + 1 \in 1 .. k + 1 /\ (k + 1) + 1 = k + 2
        BY <2>8
      <4>8. length > PutCeiling /\ length <= StartAt((k + 1) + 1)
        BY <4>5, <4>7
      <4>9. k + 1 \in DOMAIN o
        BY <4>6, <4>7
      <4>10. o # <<>>
        BY <4>9
      <4>11. QED BY <2>8, <4>6, <4>7, <4>8, <4>10 DEF Kept
    <3>4. QED BY <1>1, <1>3, <3>1, <3>2, <3>3
  <2>10. CASE ~(follows /\ upload[u].sent + n = length)
    <3>1. stash' = stash \cup has /\ UNCHANGED <<sessions, object>>
      BY <2>5, <2>6, <2>10
    <3>2. CASE n = 0
      <4>1. S = stash
        BY <1>3, <2>2, <2>6, <3>1, <3>2
      <4>2. u \in sessions
        BY <2>1 DEF ChunkLands
      <4>3. QED BY <1>1, <1>3, <1>9, <3>1, <4>1, <4>2
    <3>3. CASE n # 0
      <4>1. S = stash \cup {Sending(u, n)}
        BY <1>3, <2>2, <2>6, <3>1, <3>3
      <4>2. n \in 1 .. This(u) /\ follows
        <5>1. This(u) \in Nat
          BY <1>9, <2>8, Extents, UploadNumbers DEF UploadsInv, UploadsTypeOK
        <5>2. QED BY <2>5, <3>3, <5>1
      <4>3. Stashed(S)
        BY <1>2, <1>9, <2>7, <4>1, <4>2, ChunkStashed
      <4>4. Sending(u, n).of = u /\ Sending(u, n).name = <<u, k + 1>>
        BY <2>8 DEF Piece
      <4>5. u \in sessions
        BY <2>1 DEF ChunkLands
      <4>6. QED BY <1>1, <1>2, <1>3, <1>9, <3>1, <4>1, <4>3, <4>4, <4>5
    <3>4. QED BY <3>2, <3>3
  <2>11. QED BY <2>9, <2>10
<1>10. QED BY <1>4, <1>5, <1>6, <1>7, <1>8, <1>9 DEF Requested

\* A call that goes no further has sent what it has.
LEMMA SoundAfter ==
  ASSUME UploadsInv, NEW u \in Uploads, NEW r \in UploadRecord,
         r.sent = upload[u].sent, r.named = upload[u].named,
         r.pc \in {"done", "failed", "abort"},
         r.late \in {"none", upload[u].pc, upload[u].late},
         r.late # "none" => r.pc \in {"abort", "failed"}
  PROVE  Sound(u, r)
<1>1. Sound(u, upload[u]) /\ upload[u] \in UploadRecord
  BY DEF UploadsInv, UploadsTypeOK
<1>2. QED BY <1>1 DEF Sound

\* And one that has sent a piece more goes on, or has sent the last.
LEMMA SoundSent ==
  ASSUME UploadsInv, NEW u \in Uploads, upload[u].pc = "send",
         NEW r \in UploadRecord,
         r.sent = upload[u].sent + This(u),
         r.named = Append(upload[u].named, Sending(u, 0).name),
         r.late = upload[u].late,
         \/ r.pc = "send" /\ ~IsLast(u)
         \/ r.pc = "finish" /\ IsLast(u) /\ cloud # "gcs"
         \/ r.pc \in {"done", "failed"} /\ IsLast(u) /\ cloud = "gcs"
  PROVE  Sound(u, r)
<1>1. PICK k : k = Len(upload[u].named)
  OBVIOUS
<1>2. /\ k \in Nat
      /\ length > PutCeiling
      /\ StartAt(k + 1) < length
      /\ upload[u].sent = StartAt(k + 1)
      /\ This(u) = Extent(k + 1)
      /\ Sending(u, 0).name = <<u, k + 1>>
  BY <1>1, SendingIs
<1>3. upload[u] \in UploadRecord /\ Sound(u, upload[u]) /\ cloud \in Clouds /\ length \in Nat
  BY UploadNumbers DEF UploadsInv, UploadsTypeOK
<1>4. upload[u].named \in Seq(Uploads \X Nat) /\ \A i \in 1 .. k : upload[u].named[i] = <<u, i>>
  BY <1>1, <1>3 DEF UploadRecord, Sound
<1>5. Len(r.named) = k + 1
  BY <1>1, <1>4
<1>6. ASSUME NEW i \in 1 .. k + 1 PROVE r.named[i] = <<u, i>>
  <2>1. CASE i = k + 1
    BY <1>1, <1>2, <1>4, <2>1
  <2>2. CASE i # k + 1
    <3>1. i \in 1 .. k
      BY <1>2, <2>2
    <3>2. r.named[i] = upload[u].named[i]
      BY <1>1, <1>4, <3>1
    <3>3. QED BY <1>4, <3>1, <3>2
  <2>3. QED BY <2>1, <2>2
<1>7. k + 1 \in Nat \ {0}
  BY <1>2
<1>8. StartAt(k + 1) \in Int /\ StartAt((k + 1) + 1) = StartAt(k + 1) + PieceSize
  BY <1>3, <1>7, Places
<1>9. /\ Extent(k + 1) \in Nat \ {0}
      /\ Extent(k + 1) <= PieceSize
      /\ StartAt(k + 1) + Extent(k + 1) = AtMost(StartAt((k + 1) + 1), length)
  BY <1>2, <1>3, <1>7, Extents
<1>10. r.sent = AtMost(StartAt((k + 1) + 1), length)
  BY <1>2, <1>9
<1>11. PieceSize \in Nat /\ PieceSize > 0
  BY <1>3, PieceSizeType
<1>12. IsLast(u) <=> length <= StartAt((k + 1) + 1)
  BY <1>2, <1>3, <1>8, <1>9, <1>11 DEF IsLast, AtMost
<1>13. r.late = "none"
  BY <1>3 DEF Sound
<1>14. r.pc = "send" => StartAt((k + 1) + 1) < length
  BY <1>3, <1>8, <1>11, <1>12
<1>15. QED
  BY <1>2, <1>5, <1>6, <1>7, <1>10, <1>12, <1>13, <1>14 DEF Sound

-----------------------------------------------------------------------------
(* The steps.                                                              *)

\* What a step has to see to, besides what its request does.
LEMMA UploadStep ==
  ASSUME UploadsInv, NEW u \in Uploads, UNCHANGED <<cloud, length>>,
         NEW r \in UploadRecord, upload' = [upload EXCEPT ![u] = r], Sound(u, r),
         Stashed(stash'), Kept(object'), sessions' \subseteq Uploads,
         object # <<>> => object' # <<>>,
         r.pc = "done" => upload[u].pc = "done" \/ object' # <<>>,
         Len(upload[u].named) <= Len(r.named),
         Over(upload[u]) => Over(r),
         \A s \in stash' :
           \/ s \in stash
           \/ cloud # "gcs"
           \/ /\ s.of = u
              /\ s.name = <<u, Len(upload[u].named) + 1>>
              /\ Over(r) \/ Len(r.named) = Len(upload[u].named) + 1
  PROVE  UploadsInv'
<1>1. UploadsTypeOK /\ upload \in [Uploads -> UploadRecord]
  BY DEF UploadsInv, UploadsTypeOK
<1>2. UploadsTypeOK'
  BY <1>1 DEF UploadsTypeOK
<1>3. upload'[u] = r /\ \A v \in Uploads : v # u => upload'[v] = upload[v]
  BY <1>1
<1>4. PICK S, o, up : S = stash' /\ o = object' /\ up = upload'
  OBVIOUS
<1>5. \A v \in Uploads : Sound(v, up[v])
  BY <1>3, <1>4 DEF UploadsInv
<1>6. Reached(S, up)
  <2> SUFFICES ASSUME cloud = "gcs", NEW s \in S, NEW i \in Nat, s.name = <<s.of, i>>
               PROVE  i <= Len(up[s.of].named) \/ Over(up[s.of])
    BY DEF Reached
  <2>1. s.of \in Uploads
    <3>1. Slice(s)
      BY <1>4 DEF Stashed
    <3>2. QED BY <3>1 DEF Slice, Piece
  <2>2. CASE s \in stash
    <3>1. i <= Len(upload[s.of].named) \/ Over(upload[s.of])
      BY <2>2 DEF UploadsInv, Reached
    <3>2. CASE s.of = u
      <4>1. Len(upload[u].named) \in Nat /\ Len(r.named) \in Nat
        BY <1>1 DEF UploadRecord
      <4>2. QED BY <1>3, <1>4, <3>1, <3>2, <4>1
    <3>3. CASE s.of # u
      BY <1>3, <1>4, <2>1, <3>1, <3>3
    <3>4. QED BY <3>2, <3>3
  <2>3. CASE s \notin stash
    <3>1. /\ s.of = u
          /\ s.name = <<u, Len(upload[u].named) + 1>>
          /\ Over(r) \/ Len(r.named) = Len(upload[u].named) + 1
      BY <1>4, <2>3
    <3>2. i = Len(upload[u].named) + 1 /\ Len(upload[u].named) \in Nat
      BY <1>1, <3>1 DEF UploadRecord
    <3>3. QED BY <1>3, <1>4, <3>1, <3>2
  <2>4. QED BY <2>2, <2>3
<1>7. \A v \in Uploads : up[v].pc = "done" => o # <<>>
  BY <1>3, <1>4 DEF UploadsInv, Doing
<1>8. /\ \A v \in Uploads : Sound(v, up[v])'
      /\ Stashed(S)' /\ Reached(S, up)' /\ Kept(o)'
  BY <1>4, <1>5, <1>6, ShapesStay
<1>9. QED BY <1>2, <1>4, <1>7, <1>8 DEF UploadsInv, Doing

LEMMA OpensKeeps ==
  ASSUME UploadsInv, NEW u \in Uploads, Opens(u)
  PROVE  UploadsInv'
<1>1. upload[u] \in UploadRecord /\ Sound(u, upload[u]) /\ cloud \in Clouds
      /\ length \in Nat /\ PutCeiling \in Nat
  BY UploadNumbers DEF UploadsInv, UploadsTypeOK
<1>2. upload[u].pc = "new" /\ upload[u].late = "none" /\ Len(upload[u].named) = 0
  BY <1>1 DEF Opens, Doing, Sound
<1>3. PICK p : p = CASE length <= PutCeiling -> "put"
         [] length > PutCeiling /\ cloud # "azure" -> "begin"
         [] OTHER -> IF div_ceil(length, PieceSize) > MOST_BLOCKS THEN "failed" ELSE "send"
  OBVIOUS
<1>4. PICK r : r = [upload[u] EXCEPT !.pc = p]
  OBVIOUS
<1>5. upload' = [upload EXCEPT ![u] = r] /\ UNCHANGED <<cloud, length, sessions, stash, object>>
  BY <1>3, <1>4 DEF Opens, Sets
<1>6. \/ p = "put" /\ length <= PutCeiling
      \/ p \in {"begin", "failed", "send"} /\ length > PutCeiling
  BY <1>1, <1>3
<1>7. r \in UploadRecord /\ r.pc = p /\ r.late = "none" /\ r.named = upload[u].named
      /\ r.sent = upload[u].sent
  BY <1>1, <1>2, <1>4, <1>6 DEF UploadRecord, UploadSteps, Requested
<1>8. StartAt(1) = 0 /\ 0 + 1 = 1
  BY <1>1, Places
<1>9. Sound(u, r)
  BY <1>1, <1>2, <1>6, <1>7, <1>8 DEF Sound
<1>10. Stashed(stash') /\ Kept(object') /\ sessions' \subseteq Uploads
  BY <1>5 DEF UploadsInv, UploadsTypeOK
<1>11. ~Over(upload[u]) /\ r.pc # "done" /\ Len(upload[u].named) <= Len(r.named)
  BY <1>1, <1>2, <1>6, <1>7 DEF Over, UploadRecord
<1>12. QED BY <1>5, <1>7, <1>9, <1>10, <1>11, UploadStep

\* The request of a call, answered as it should be, and then it is over.
LEMMA UploadEnds ==
  ASSUME UploadsInv, NEW u \in Uploads, NEW p,
         \/ upload[u].pc \in {"put", "finish"} /\ p = "done"
         \/ upload[u].pc = "abort" /\ p = "failed",
         Lands(u, upload[u].pc), Sets(u, [upload[u] EXCEPT !.pc = p]),
         UNCHANGED <<cloud, length>>
  PROVE  UploadsInv'
<1>1. upload[u] \in UploadRecord /\ Sound(u, upload[u])
  BY DEF UploadsInv, UploadsTypeOK
<1>2. PICK r : r = [upload[u] EXCEPT !.pc = p]
  OBVIOUS
<1>3. upload' = [upload EXCEPT ![u] = r]
  BY <1>2 DEF Sets
<1>4. r \in UploadRecord /\ r.pc = p /\ r.late = upload[u].late
      /\ r.named = upload[u].named /\ r.sent = upload[u].sent
  BY <1>1, <1>2 DEF UploadRecord, UploadSteps
<1>5. Sound(u, r)
  <2>1. r.late # "none" => r.pc \in {"abort", "failed"}
    BY <1>1, <1>4 DEF Sound
  <2>2. QED BY <1>4, <2>1, SoundAfter
<1>6. PICK request \in Requested : request = upload[u].pc /\ request # "send"
  BY DEF Requested
<1>7. /\ Stashed(stash') /\ Kept(object') /\ sessions' \subseteq Uploads
      /\ object # <<>> \/ request \in {"put", "finish"} => object' # <<>>
      /\ \A s \in stash' : s \in stash \/ cloud # "gcs"
  BY <1>6, LandsKeeps
<1>8. Len(upload[u].named) <= Len(r.named) /\ (Over(upload[u]) => Over(r))
  BY <1>1, <1>4 DEF Over, UploadRecord
<1>9. /\ object # <<>> => object' # <<>>
      /\ r.pc = "done" => object' # <<>>
  BY <1>4, <1>6, <1>7
<1>10. QED BY <1>3, <1>4, <1>5, <1>7, <1>8, <1>9, UploadStep

LEMMA StartsKeeps ==
  ASSUME UploadsInv, NEW u \in Uploads, Starts(u)
  PROVE  UploadsInv'
<1>1. upload[u] \in UploadRecord /\ Sound(u, upload[u]) /\ cloud \in Clouds
      /\ length \in Nat /\ PutCeiling \in Nat
  BY UploadNumbers DEF UploadsInv, UploadsTypeOK
<1>2. /\ upload[u].pc = "begin" /\ upload[u].late = "none"
      /\ Len(upload[u].named) = 0 /\ length > PutCeiling
  BY <1>1 DEF Starts, Doing, Sound
<1>3. PICK r : r = [upload[u] EXCEPT !.pc = "send"]
  OBVIOUS
<1>4. upload' = [upload EXCEPT ![u] = r] /\ Lands(u, "begin") /\ UNCHANGED <<cloud, length>>
  BY <1>3 DEF Starts, Sets
<1>5. r \in UploadRecord /\ r.pc = "send" /\ r.late = "none" /\ r.named = upload[u].named
      /\ r.sent = upload[u].sent
  BY <1>1, <1>2, <1>3 DEF UploadRecord, UploadSteps, Requested
<1>6. StartAt(1) = 0 /\ 0 + 1 = 1
  BY <1>1, Places
<1>7. Sound(u, r)
  BY <1>1, <1>2, <1>5, <1>6 DEF Sound
<1>8. "begin" \in Requested
  BY DEF Requested
<1>9. /\ Stashed(stash') /\ Kept(object') /\ sessions' \subseteq Uploads
      /\ object # <<>> => object' # <<>>
      /\ \A s \in stash' : s \in stash \/ cloud # "gcs"
  BY <1>2, <1>4, <1>8, LandsKeeps
<1>10. Len(upload[u].named) <= Len(r.named) /\ ~Over(upload[u])
  BY <1>1, <1>2, <1>5 DEF Over, UploadRecord
<1>11. QED BY <1>4, <1>5, <1>7, <1>9, <1>10, UploadStep

LEMMA SendsKeeps ==
  ASSUME UploadsInv, NEW u \in Uploads, upload[u].pc = "send", NEW p,
         Lands(u, "send"), Sent(u, p), UNCHANGED <<cloud, length>>,
         \/ p = "send" /\ ~IsLast(u)
         \/ p = "finish" /\ IsLast(u) /\ cloud # "gcs"
         \/ p = "failed" /\ IsLast(u) /\ cloud = "gcs"
         \/ p = "done" /\ IsLast(u) /\ cloud = "gcs" /\ u \notin sessions'
  PROVE  UploadsInv'
<1>1. upload[u] \in UploadRecord /\ Sound(u, upload[u])
  BY DEF UploadsInv, UploadsTypeOK
<1>2. PICK k : k = Len(upload[u].named)
  OBVIOUS
<1>3. /\ k \in Nat
      /\ StartAt(k + 1) < length
      /\ upload[u].sent = StartAt(k + 1)
      /\ This(u) = Extent(k + 1)
      /\ Sending(u, 0).name = <<u, k + 1>>
  BY <1>2, SendingIs
<1>4. PICK r : r = [upload[u] EXCEPT !.pc = p, !.sent = @ + This(u),
                                     !.named = Append(@, Sending(u, 0).name)]
  OBVIOUS
<1>5. upload' = [upload EXCEPT ![u] = r]
  BY <1>4 DEF Sent, Sets
<1>6. /\ r.pc = p /\ r.late = upload[u].late
      /\ r.sent = upload[u].sent + This(u)
      /\ r.named = Append(upload[u].named, Sending(u, 0).name)
  BY <1>1, <1>4 DEF UploadRecord
<1>7. This(u) \in Nat
  BY <1>3, Extents, UploadNumbers DEF UploadsInv, UploadsTypeOK
<1>8. r.named \in Seq(Uploads \X Nat) /\ Len(r.named) = k + 1
  <2>1. upload[u].named \in Seq(Uploads \X Nat)
    BY <1>1 DEF UploadRecord
  <2>2. <<u, k + 1>> \in Uploads \X Nat
    BY <1>3
  <2>3. QED BY <1>2, <1>3, <1>6, <2>1, <2>2
<1>9. r \in UploadRecord
  <2>1. r.sent \in Nat
    BY <1>1, <1>6, <1>7 DEF UploadRecord
  <2>2. p \in UploadSteps
    BY DEF UploadSteps, Requested
  <2>3. QED BY <1>1, <1>4, <1>6, <1>8, <2>1, <2>2 DEF UploadRecord
<1>10. Sound(u, r)
  BY <1>6, <1>9, SoundSent
<1>11. "send" \in Requested
  BY DEF Requested
<1>12. /\ Stashed(stash') /\ Kept(object') /\ sessions' \subseteq Uploads
       /\ object # <<>> => object' # <<>>
       /\ cloud = "gcs" /\ u \notin sessions' => object' # <<>>
       /\ \A s \in stash' :
            \/ s \in stash
            \/ cloud # "gcs"
            \/ s.of = u /\ s.name = <<u, k + 1>>
  BY <1>2, <1>11, LandsKeeps
<1>13. Len(upload[u].named) <= Len(r.named) /\ ~Over(upload[u])
  BY <1>2, <1>3, <1>8 DEF Over
<1>14. r.pc = "done" => object' # <<>>
  BY <1>6, <1>12
<1>15. QED BY <1>2, <1>5, <1>8, <1>9, <1>10, <1>12, <1>13, <1>14, UploadStep

\* A call that is over with nothing done for it now, and what comes late.
LEMMA GivesUpKeeps ==
  ASSUME UploadsInv, NEW u \in Uploads, NEW p \in {"failed", "abort"},
         NEW late \in {"none", upload[u].pc}, upload[u].pc \in Requested,
         Sets(u, [upload[u] EXCEPT !.pc = p, !.late = late]),
         UNCHANGED <<cloud, length, sessions, stash, object>>
  PROVE  UploadsInv'
<1>1. upload[u] \in UploadRecord /\ Sound(u, upload[u])
  BY DEF UploadsInv, UploadsTypeOK
<1>2. PICK r : r = [upload[u] EXCEPT !.pc = p, !.late = late]
  OBVIOUS
<1>3. upload' = [upload EXCEPT ![u] = r]
  BY <1>2 DEF Sets
<1>4. r \in UploadRecord /\ r.pc = p /\ r.late = late
      /\ r.named = upload[u].named /\ r.sent = upload[u].sent
  BY <1>1, <1>2 DEF UploadRecord, UploadSteps, Requested
<1>5. Sound(u, r)
  BY <1>4, SoundAfter
<1>6. Stashed(stash') /\ Kept(object') /\ sessions' \subseteq Uploads
  BY DEF UploadsInv, UploadsTypeOK
<1>7. Over(upload[u]) => Over(r)
  BY <1>4 DEF Over, Requested
<1>8. Len(upload[u].named) <= Len(r.named)
  BY <1>1, <1>4 DEF UploadRecord
<1>9. QED BY <1>3, <1>4, <1>5, <1>6, <1>7, <1>8, UploadStep

LEMMA LateKeeps ==
  ASSUME UploadsInv, NEW u \in Uploads, Late(u)
  PROVE  UploadsInv'
<1>1. upload[u] \in UploadRecord /\ Sound(u, upload[u])
  BY DEF UploadsInv, UploadsTypeOK
<1>2. PICK r : r = [upload[u] EXCEPT !.late = "none"]
  OBVIOUS
<1>3. upload' = [upload EXCEPT ![u] = r] /\ UNCHANGED <<cloud, length>>
  BY <1>2 DEF Late, Sets
<1>4. upload[u].late # "none" /\ upload[u].pc \in {"abort", "failed"}
  BY <1>1 DEF Late, Sound
<1>5. r \in UploadRecord /\ r.pc = upload[u].pc /\ r.late = "none"
      /\ r.named = upload[u].named /\ r.sent = upload[u].sent
  BY <1>1, <1>2 DEF UploadRecord
<1>6. Sound(u, r)
  BY <1>4, <1>5, SoundAfter
<1>7. PICK request \in Requested : request = upload[u].late
  BY <1>1, <1>4 DEF UploadRecord
<1>8. Lands(u, request)
  BY <1>7 DEF Late
<1>9. /\ Stashed(stash') /\ Kept(object') /\ sessions' \subseteq Uploads
      /\ object # <<>> => object' # <<>>
      /\ \A s \in stash' :
           \/ s \in stash
           \/ cloud # "gcs"
           \/ s.of = u /\ s.name = <<u, Len(upload[u].named) + 1>>
  BY <1>3, <1>7, <1>8, LandsKeeps
<1>10. Over(r) /\ Len(upload[u].named) <= Len(r.named)
  BY <1>1, <1>4, <1>5 DEF Over, UploadRecord
<1>11. r.pc # "done"
  BY <1>4, <1>5
<1>12. QED BY <1>3, <1>5, <1>6, <1>9, <1>10, <1>11, UploadStep

LEMMA UploadsInvInit == UploadsInit => UploadsInv
<1> SUFFICES ASSUME UploadsInit PROVE UploadsInv
  OBVIOUS
<1>1. cloud \in Clouds /\ length \in Nat /\ PutCeiling \in Nat
  BY UploadNumbers DEF UploadsInit
<1>2. UploadsTypeOK
  BY DEF UploadsInit, UploadsTypeOK, UploadRecord, UploadSteps
<1>3. StartAt(1) = 0 /\ 0 + 1 = 1
  BY <1>1, Places
<1>4. \A u \in Uploads : Sound(u, upload[u])
  <2> TAKE u \in Uploads
  <2>1. upload[u] = [pc |-> "new", sent |-> 0, named |-> <<>>, late |-> "none"]
    BY DEF UploadsInit
  <2>2. Len(upload[u].named) = 0
    BY <2>1
  <2>3. upload[u].sent = AtMost(StartAt(0 + 1), length)
    BY <1>1, <1>3, <2>1 DEF AtMost
  <2>4. QED BY <2>1, <2>2, <2>3 DEF Sound
<1>5. Stashed(stash) /\ Reached(stash, upload) /\ Kept(object)
  BY DEF UploadsInit, Stashed, Reached, Kept
<1>6. \A u \in Uploads : ~Doing(u, "done")
  BY DEF UploadsInit, Doing
<1>7. QED BY <1>2, <1>4, <1>5, <1>6 DEF UploadsInv

LEMMA UploadsInvStep == UploadsInv /\ [UploadsNext]_uploadVars => UploadsInv'
<1> SUFFICES ASSUME UploadsInv, [UploadsNext]_uploadVars PROVE UploadsInv'
  OBVIOUS
<1>1. CASE UNCHANGED uploadVars
  <2>1. UNCHANGED <<cloud, length, upload, sessions, stash, object>>
    BY <1>1 DEF uploadVars
  <2>2. UploadsTypeOK'
    BY <2>1 DEF UploadsInv, UploadsTypeOK
  <2>3. PICK S, o, up : S = stash /\ o = object /\ up = upload
    OBVIOUS
  <2>4. /\ \A v \in Uploads : Sound(v, up[v])'
        /\ Stashed(S)' /\ Reached(S, up)' /\ Kept(o)'
    BY <2>1, <2>3, ShapesStay DEF UploadsInv
  <2>5. QED BY <2>1, <2>2, <2>3, <2>4 DEF UploadsInv, Doing
<1>2. ASSUME NEW u \in Uploads,
             \/ Opens(u) \/ PutsWhole(u) \/ BeginsUpload(u) \/ BeginsSession(u)
             \/ SendsPart(u) \/ SendsBlock(u) \/ SendsChunk(u) \/ Completes(u) \/ Commits(u)
             \/ Aborts(u) \/ Fails(u) \/ Dies(u) \/ Late(u)
      PROVE  UploadsInv'
  <2>1. CASE Opens(u)
    BY <2>1, OpensKeeps
  <2>2. CASE PutsWhole(u)
    <3>1. /\ upload[u].pc = "put" /\ Lands(u, upload[u].pc)
          /\ Sets(u, [upload[u] EXCEPT !.pc = "done"]) /\ UNCHANGED <<cloud, length>>
      BY <2>2 DEF PutsWhole, Doing
    <3>2. QED BY <3>1, UploadEnds
  <2>3. CASE BeginsUpload(u) \/ BeginsSession(u)
    BY <2>3, StartsKeeps DEF BeginsUpload, BeginsSession
  <2>4. CASE SendsPart(u) \/ SendsBlock(u)
    <3>1. PICK p : p = IF IsLast(u) THEN "finish" ELSE "send"
      OBVIOUS
    <3>2. /\ upload[u].pc = "send" /\ cloud # "gcs" /\ Lands(u, "send")
          /\ Sent(u, p) /\ UNCHANGED <<cloud, length>>
      BY <2>4, <3>1 DEF SendsPart, SendsBlock, Doing
    <3>3. QED BY <3>1, <3>2, SendsKeeps
  <2>5. CASE SendsChunk(u)
    <3>1. PICK p : p = IF ~IsLast(u) THEN "send" ELSE IF u \in sessions' THEN "failed" ELSE "done"
      OBVIOUS
    <3>2. /\ upload[u].pc = "send" /\ cloud = "gcs" /\ Lands(u, "send")
          /\ Sent(u, p) /\ UNCHANGED <<cloud, length>>
      BY <2>5, <3>1 DEF SendsChunk, Doing
    <3>3. QED BY <3>1, <3>2, SendsKeeps
  <2>6. CASE Completes(u) \/ Commits(u)
    <3>1. /\ upload[u].pc = "finish" /\ Lands(u, upload[u].pc)
          /\ Sets(u, [upload[u] EXCEPT !.pc = "done"]) /\ UNCHANGED <<cloud, length>>
      BY <2>6 DEF Completes, Commits, Done, Doing
    <3>2. QED BY <3>1, UploadEnds
  <2>7. CASE Aborts(u)
    <3>1. /\ upload[u].pc = "abort" /\ Lands(u, upload[u].pc)
          /\ Sets(u, [upload[u] EXCEPT !.pc = "failed"]) /\ UNCHANGED <<cloud, length>>
      BY <2>7 DEF Aborts, Doing
    <3>2. QED BY <3>1, UploadEnds
  <2>8. CASE Fails(u)
    <3>1. Failed(u) \in {"failed", "abort"}
      BY DEF Failed
    <3>2. QED BY <2>8, <3>1, GivesUpKeeps DEF Fails
  <2>9. CASE Dies(u)
    BY <2>9, GivesUpKeeps DEF Dies
  <2>10. CASE Late(u)
    BY <2>10, LateKeeps
  <2>11. QED BY <1>2, <2>1, <2>2, <2>3, <2>4, <2>5, <2>6, <2>7, <2>8, <2>9, <2>10
<1>3. QED BY <1>1, <1>2 DEF UploadsNext

LEMMA UploadsInvStored == UploadsInv => StoredWhole
<1> SUFFICES ASSUME UploadsInv PROVE StoredWhole
  OBVIOUS
<1>1. length \in Nat /\ cloud \in Clouds
  BY UploadNumbers DEF UploadsInv, UploadsTypeOK
<1>2. CASE \E u \in Uploads : object = <<Piece(u, 1, 0, length)>>
  BY <1>1, <1>2 DEF Whole, Piece, UploadsInv, StoredWhole
<1>3. CASE \E u \in Uploads, m \in Nat \ {0} :
             /\ object = [i \in 1 .. m |-> Share(u, i)]
             /\ StartAt(m) < length
             /\ length <= StartAt(m + 1)
  <2>1. Whole(object)
    BY <1>1, <1>3, SharesAreWhole
  <2>2. QED BY <2>1 DEF UploadsInv, StoredWhole
<1>4. CASE object = <<>>
  BY <1>4 DEF UploadsInv, StoredWhole
<1>5. QED BY <1>2, <1>3, <1>4 DEF UploadsInv, Kept

\* The key appears whole or not at all, and it is there once a push is told so.
THEOREM ObjectsWhole == UploadsSpec => []StoredWhole
<1>1. UploadsInit => UploadsInv
  BY UploadsInvInit
<1>2. UploadsInv /\ [UploadsNext]_uploadVars => UploadsInv'
  BY UploadsInvStep
<1>3. UploadsInv => StoredWhole
  BY UploadsInvStored
<1>4. QED BY <1>1, <1>2, <1>3, PTL DEF UploadsSpec
==============================================================================
