------------------------------ MODULE Transfers ------------------------------
(***************************************************************************)
(* The slots for transfers and what gives them back                        *)
(* (server/src/transfer.rs, transfer_permit of state.rs, and upload and    *)
(* download of routes/objects.rs).                                         *)
(*                                                                         *)
(* An upload holds its slot in the handler.  A download's is held by a     *)
(* task of its own, which reads the store and hands chunks to the body     *)
(* through a channel for one; the client reads them, rests or goes.        *)
(* Neither waits longer than IDLE for the next chunk or for room.          *)
(***************************************************************************)
EXTENDS Integers

CONSTANTS
  Transfers,     \* transfers that come
  MaxTransfers,  \* LFSX_MAX_TRANSFERS
  IDLE,          \* LFSX_TRANSFER_IDLE_TIMEOUT, in ticks
  Length         \* chunks of an object

ASSUME TransfersConstantsOK ==
  /\ MaxTransfers \in Nat \ {0}
  /\ IDLE \in Nat \ {0}
  /\ Length \in Nat

VARIABLES
  slots,     \* permits of AppState.transfers
  transfer   \* the transfers

transferVars == <<slots, transfer>>

-----------------------------------------------------------------------------
\* Mutant of Waiting: a client is waited for.
WaitingForTheStore == {"receive", "read"}

\* What a timeout is around.
Waiting == {"receive", "read", "send"}

\* Longer than a slot may be held for a client at rest.
Long == 2 * IDLE + 1

Working == {"store", "open"}

\* down is set for the body of a download.  left is what is still to be moved
\* and got what the client has; waited is how long the next chunk, or room for
\* it, is waited for, and rests how long the client has left what is there for
\* it; rested is history, the longest such rest.
Transfer ==
  [pc : {"receive", "read", "send"} \cup Working \cup {"new", "over"}, down : BOOLEAN, left : 0 .. Length,
   item : {"chunk", "last", "error"}, room : {"free", "chunk", "error"},
   waited : 0 .. IDLE, client : {"reads", "rests", "gone"}, got : 0 .. Length,
   saw : {"nothing", "end", "error"}, rests : 0 .. Long, rested : 0 .. Long]

TransfersTypeOK ==
  /\ slots \in 0 .. MaxTransfers
  /\ transfer \in [Transfers -> Transfer]

TransfersInit ==
  /\ slots = MaxTransfers
  /\ transfer = [t \in Transfers |->
       [pc |-> "new", down |-> FALSE, left |-> Length, item |-> "chunk", room |-> "free",
        waited |-> 0, client |-> "reads", got |-> 0, saw |-> "nothing",
        rests |-> 0, rested |-> 0]]

Is(t, pc) == transfer[t].pc = pc

Becomes(t, r) == transfer' = [transfer EXCEPT ![t] = r]

Goes(t, pc) == transfer' = [transfer EXCEPT ![t].pc = pc, ![t].waited = 0]

\* The permit is dropped with what held it.
Ends(t) == slots' = slots + 1 /\ Goes(t, "over")

-----------------------------------------------------------------------------
(* Uploads: transfer_permit, upload_chunks, and the store's own time.      *)

\* transfer_permit: taken without waiting, or refused.
Takes(t) ==
  /\ Is(t, "new")
  /\ slots > 0
  /\ slots' = slots - 1
  /\ \E pc \in {"receive", "open"} : Goes(t, pc)

Receive(t) ==
  /\ Is(t, "receive")
  /\ transfer[t].client = "reads"
  /\ Becomes(t, IF transfer[t].left = 0
                  THEN [transfer[t] EXCEPT !.pc = "store", !.waited = 0]
                  ELSE [transfer[t] EXCEPT !.left = @ - 1, !.waited = 0])
  /\ UNCHANGED slots

\* The timeout of upload_chunks, or a chunk that is an error.
ReceiveFails(t) ==
  /\ Is(t, "receive")
  /\ transfer[t].waited = IDLE \/ transfer[t].client = "gone"
  /\ Ends(t)

\* The store has the upload, or fails.
StoreEnds(t) == Is(t, "store") /\ Ends(t)

-----------------------------------------------------------------------------
(* Downloads.                                                              *)

\* The object is not there, or the range is none of it: the permit goes with
\* the handler.
OpenFails(t) == Is(t, "open") /\ Ends(t)

Opened(t) ==
  /\ Is(t, "open")
  /\ Becomes(t, [transfer[t] EXCEPT !.pc = "read", !.down = TRUE])
  /\ UNCHANGED slots

\* The next chunk of the store, if there is one.
Read(t) ==
  /\ Is(t, "read")
  /\ IF transfer[t].left = 0 THEN Ends(t)
     ELSE /\ Becomes(t, [transfer[t] EXCEPT !.pc = "send", !.item = "chunk",
                                            !.left = @ - 1, !.waited = 0])
          /\ UNCHANGED slots

\* Mutant of ReadFails: the task stops.
ReadStops(t) == Is(t, "read") /\ Ends(t)

\* The store fails, or takes longer than IDLE: the client is told.
ReadFails(t) ==
  /\ Is(t, "read")
  /\ Becomes(t, [transfer[t] EXCEPT !.pc = "send", !.item = "error", !.waited = 0])
  /\ UNCHANGED slots

\* Room for one: what is sent is read when the client likes.
Send(t) ==
  LET r == transfer[t] IN
  /\ Is(t, "send")
  /\ r.room = "free"
  /\ r.client # "gone"
  /\ IF r.item = "error"
       THEN /\ Becomes(t, [r EXCEPT !.pc = "over", !.room = "error", !.waited = 0])
            /\ slots' = slots + 1
       ELSE /\ Becomes(t, [r EXCEPT !.pc = "read", !.room = "chunk", !.waited = 0])
            /\ UNCHANGED slots

\* Nobody to send to, or no room for IDLE.
SendFails(t) ==
  /\ Is(t, "send")
  /\ \/ transfer[t].client = "gone"
     \/ transfer[t].room # "free" /\ transfer[t].waited = IDLE
  /\ Ends(t)

-----------------------------------------------------------------------------
(* Clients and time.                                                       *)

Take(t) ==
  LET r == transfer[t] IN
  /\ r.client = "reads"
  /\ r.room # "free"
  /\ Becomes(t, [r EXCEPT !.room = "free",
                          !.rests = 0,
                          !.got = IF r.room = "chunk" THEN @ + 1 ELSE @,
                          !.saw = IF r.room = "error" THEN "error" ELSE @])
  /\ UNCHANGED slots

\* A client rests once it has read what is there, reads on, or goes.  A handler
\* that has not answered yet goes with it.
Client(t, client) ==
  LET r == transfer[t] IN
  /\ r.pc # "new"
  /\ r.client # "gone"
  /\ r.client # client
  /\ client = "rests" => r.room = "free"
  /\ IF client = "gone" /\ r.pc \in {"receive", "store", "open"}
       THEN /\ Becomes(t, [r EXCEPT !.client = client, !.pc = "over", !.waited = 0])
            /\ slots' = slots + 1
       ELSE /\ Becomes(t, [r EXCEPT !.client = client])
            /\ UNCHANGED slots

\* The body ends: the task is gone and the channel is empty.
End(t) ==
  LET r == transfer[t] IN
  /\ Is(t, "over")
  /\ r.down
  /\ r.client = "reads"
  /\ r.room = "free"
  /\ r.saw = "nothing"
  /\ Becomes(t, [r EXCEPT !.saw = "end"])
  /\ UNCHANGED slots

\* A timeout fires when it is due, a chunk is sent where there is room, and a
\* client that reads takes what is there: all of it before time passes.
Due(t) ==
  LET r == transfer[t] IN
  \/ r.pc \in Waiting /\ r.waited = IDLE
  \/ r.pc = "send" /\ r.room = "free"
  \/ r.client = "reads" /\ r.room # "free"

Up(n) == IF n < Long THEN n + 1 ELSE n

Elapses ==
  /\ \A t \in Transfers : ~Due(t)
  /\ transfer' = [t \in Transfers |->
       LET r == transfer[t]
           rests == IF r.room # "free" THEN Up(r.rests) ELSE 0
       IN [r EXCEPT !.waited = IF r.pc \in Waiting THEN @ + 1 ELSE @,
                    !.rests = rests,
                    !.rested = IF rests > @ THEN rests ELSE @]]
  /\ transfer' # transfer
  /\ UNCHANGED slots

TransfersNext ==
  \/ \E t \in Transfers :
       \/ Takes(t) \/ Receive(t) \/ ReceiveFails(t) \/ StoreEnds(t)
       \/ OpenFails(t) \/ Opened(t) \/ Read(t) \/ ReadFails(t)
       \/ Send(t) \/ SendFails(t) \/ Take(t) \/ End(t)
       \/ \E client \in {"reads", "rests", "gone"} : Client(t, client)
  \/ Elapses

TransfersSpec == TransfersInit /\ [][TransfersNext]_transferVars

-----------------------------------------------------------------------------
(* Properties.                                                             *)

Holds(t) == transfer[t].pc \notin {"new", "over"}

\* A client that leaves what was sent to it unread costs a slot for no longer
\* than the store may take for a chunk and the task may wait for room, whatever
\* the store does meanwhile (state.rs 18-22; "its body is cut and its transfer
\* slot freed", docs/configuration.md).
SlotFreed == \A t \in Transfers : Holds(t) => transfer[t].rests <= 2 * IDLE

\* A client that sees the body of a download end where the object does not
\* was told so by an error, or had rested for IDLE and knows: a store that
\* fails or hangs never looks like the end (transfer.rs 50-51).
EndsHonestly ==
  \A t \in Transfers :
    LET r == transfer[t] IN
    r.saw = "end" /\ r.got < Length => r.rested >= IDLE
=============================================================================
