---------------------------- MODULE CacheStripe ----------------------------
(***************************************************************************)
(* Writing and reading one running cache stripe: StripeSM::aggWrite and     *)
(* aggWriteDone (StripeSM.cc), the aggregation buffer, the validity tests   *)
(* of Stripe.h, the hand-over to a directory sync that waits (CacheDir.cc)  *)
(* and the reads of CacheVC.cc that go on beside it.                        *)
(*                                                                          *)
(* The stripe is a log of blocks 0 .. STRIPE_LEN - 1, start being 0.  What  *)
(* tells documents apart is where and on which lap they were written; a     *)
(* block on disk holds the document that it belongs to.  The directory is   *)
(* the set of its entries; module CacheDirectory has its buckets.           *)
(*                                                                          *)
(* aggWrite runs under the stripe's mutex: its steps are separate actions,  *)
(* and aggregating says that it has not returned.  The steps of readers and *)
(* of writers called back may fall between them, which is the same as their *)
(* coming before.  No document is preserved from being overwritten.         *)
(*                                                                          *)
(* Assumed of time: a read ends before the log has gone around and reaches  *)
(* the document again, and a writer whose document is in the buffer is      *)
(* called back before the log has wrapped twice.                            *)
(***************************************************************************)
EXTENDS Integers, Sequences, FiniteSets

CONSTANTS
  STRIPE_LEN,  \* blocks of the stripe
  AGG_SIZE,    \* blocks of the aggregation buffer
  Sizes,       \* the lengths of documents: CacheVC::agg_len
  BACKLOG,     \* cache_config_agg_write_backlog
  Readers,     \* CacheVCs that read
  NoDoc,       \* what a block holds that was never written
  MaxWriters,  \* bound: the writers that come
  MaxFailed    \* bound: the documents lost in failed writes

AGG_HIGH_WATER == AGG_SIZE \div 2

ASSUME StripeAssumption ==
  /\ STRIPE_LEN \in Nat /\ AGG_SIZE \in Nat /\ BACKLOG \in Nat
  /\ AGG_SIZE <= STRIPE_LEN
  /\ Sizes \subseteq Nat \ {0}
  /\ MaxWriters \in Nat /\ MaxFailed \in Nat

VARIABLES
  write_pos, agg_pos, phase, cycle,  \* of directory.header
  buffer, buffer_pos,                \* the documents in the aggregation buffer, and their length
  pending, bytes_pending,            \* the agg_len of the pending writers, and their sum
  io,                                \* is_io_in_progress()
  todo,                              \* blocks that the write in progress has yet to write
  disk,
  dir,                               \* the entries of the directory
  tocall,                            \* documents in the buffer or written, before their writers are called back
  reads,                             \* the reads from disk in progress
  waiting,                           \* dir_sync_waiting
  copied,                            \* history: the valid entries in the last copy that a sync took
  aggregating,                       \* aggWrite is running
  arrived,                           \* history: the number of writers so far
  lost                               \* history: the documents whose write failed

header == <<write_pos, agg_pos, phase, cycle>>
writers == <<pending, bytes_pending, arrived>>
vars == <<write_pos, agg_pos, phase, cycle, buffer, buffer_pos, pending, bytes_pending, io, todo,
          disk, dir, tocall, reads, waiting, copied, aggregating, arrived, lost>>

Positions == 0 .. STRIPE_LEN - 1
Docs == [off : Positions, len : Nat \ {0}, phase : {0, 1}, lap : Nat, gen : Nat]
Span(d) == d.off .. d.off + d.len - 1
Idle == [busy |-> FALSE, doc |-> NoDoc, next |-> 0, good |-> TRUE]
Reads == [busy : BOOLEAN, doc : Docs \cup {NoDoc}, next : Nat, good : BOOLEAN]

Init ==
  /\ write_pos = 0 /\ agg_pos = 0 /\ phase = 0 /\ cycle = 0
  /\ buffer = {} /\ buffer_pos = 0
  /\ pending = <<>> /\ bytes_pending = 0 /\ arrived = 0
  /\ io = FALSE /\ todo = {}
  /\ disk = [p \in Positions |-> NoDoc]
  /\ dir = {} /\ tocall = {} /\ copied = {} /\ lost = {}
  /\ reads = [r \in Readers |-> Idle]
  /\ waiting = FALSE /\ aggregating = FALSE

----------------------------------------------------------------------------
(* Stripe.h                                                                *)

vol_in_phase_valid(d) == d.off < write_pos + buffer_pos
vol_out_of_phase_valid(d) == d.off >= agg_pos
dir_valid(d) == IF d.phase = phase THEN vol_in_phase_valid(d) ELSE vol_out_of_phase_valid(d)

\* The document is to be read from the aggregation buffer.
dir_agg_buf_valid(d) ==
  d.phase = phase /\ d.off >= write_pos /\ d.off < write_pos + buffer_pos

----------------------------------------------------------------------------
(* Writing                                                                 *)

\* Join the pending writers, unless the document or the backlog is too large.
add_writer(l) ==
  /\ l <= AGG_SIZE
  /\ bytes_pending + l <= BACKLOG + AGG_SIZE
  /\ pending' = Append(pending, l)
  /\ bytes_pending' = bytes_pending + l

\* A writer comes; aggWrite is called unless a write is in progress.  A writer
\* that is not accepted is told so at once and leaves the stripe as it was.
handleWrite(l) ==
  /\ ~aggregating
  /\ arrived < MaxWriters
  /\ add_writer(l)
  /\ arrived' = arrived + 1
  /\ aggregating' = ~io
  /\ UNCHANGED <<header, buffer, buffer_pos, io, todo, disk, dir, tocall, reads, waiting, copied, lost>>

\* Mutant of Fits: the end of the stripe is not looked at.
FitsMutant == buffer_pos + Head(pending) <= AGG_SIZE

\* The next pending document fits into the buffer and before the end of the stripe.
Fits == /\ buffer_pos + Head(pending) <= AGG_SIZE
        /\ write_pos + buffer_pos + Head(pending) <= STRIPE_LEN

\* Where and when the next document is written.
NextDoc == [off |-> write_pos + buffer_pos, len |-> Head(pending), phase |-> phase, lap |-> cycle,
            gen |-> Cardinality(lost)]

\* The log is about to be written below position p: no read may still be under
\* way there that began two laps ago.
ReadsEnded(p) == \A r \in Readers : reads[r].busy /\ reads[r].doc.lap + 2 <= cycle => reads[r].doc.off >= p

\* aggregate_pending_writes, for one document; its writer is to be called back.
Aggregate ==
  /\ aggregating
  /\ pending # <<>> /\ Fits
  /\ ReadsEnded(write_pos + buffer_pos + Head(pending))
  /\ buffer' = buffer \cup {NextDoc}
  /\ tocall' = tocall \cup {NextDoc}
  /\ buffer_pos' = buffer_pos + Head(pending)
  /\ pending' = Tail(pending)
  /\ bytes_pending' = bytes_pending - Head(pending)
  /\ UNCHANGED <<header, io, todo, disk, dir, reads, waiting, copied, aggregating, arrived, lost>>

\* The buffer is empty and the next document does not fit before the end of
\* the stripe: start over, and drop the entries that are no longer valid.  The
\* case that it does not fit at the start either ("write aggregation exceeds vol
\* size") cannot happen, because no document is longer than the buffer.
agg_wrap ==
  /\ aggregating
  /\ buffer_pos = 0 /\ pending # <<>> /\ ~Fits
  /\ ReadsEnded(STRIPE_LEN) /\ \A d \in tocall : d.lap = cycle
  /\ write_pos' = 0 /\ agg_pos' = 0
  /\ phase' = 1 - phase /\ cycle' = cycle + 1
  /\ UNCHANGED <<buffer, buffer_pos, writers, io, todo, disk, tocall, reads, waiting, copied,
                 aggregating, lost>>
  /\ dir' = {d \in dir : dir_valid(d)'}

\* aggWrite has nothing to write, or not enough.
Lwait ==
  /\ aggregating
  /\ pending = <<>>
  /\ buffer_pos = 0 \/ (buffer_pos < AGG_HIGH_WATER /\ ~waiting)
  /\ aggregating' = FALSE
  /\ UNCHANGED <<header, buffer, buffer_pos, writers, io, todo, disk, dir, tocall, reads, waiting,
                 copied, lost>>

\* Near the end of the stripe, or of the buffer, it is written whatever its size;
\* otherwise when it is half full or a sync waits for it.
WriteNow ==
  /\ buffer_pos > 0
  /\ IF pending = <<>> THEN buffer_pos >= AGG_HIGH_WATER \/ waiting ELSE ~Fits

\* Mutant of StartWrite: the write limit is left where it was.
StartWriteMutant ==
  /\ aggregating
  /\ WriteNow
  /\ io' = TRUE
  /\ todo' = write_pos .. write_pos + buffer_pos - 1
  /\ aggregating' = FALSE
  /\ UNCHANGED <<header, buffer, buffer_pos, writers, disk, dir, tocall, reads, waiting, copied, lost>>

\* aggWrite sets the write limit and hands the buffer to the AIO thread.
StartWrite ==
  /\ aggregating
  /\ WriteNow
  /\ agg_pos' = write_pos + buffer_pos
  /\ io' = TRUE
  /\ todo' = write_pos .. write_pos + buffer_pos - 1
  /\ aggregating' = FALSE
  /\ UNCHANGED <<write_pos, phase, cycle, buffer, buffer_pos, writers, disk, dir, tocall, reads,
                 waiting, copied, lost>>

\* The blocks of the buffer reach the disk one by one in any order.
WriteBlock ==
  /\ io
  /\ \E d \in buffer : \E p \in Span(d) \cap todo :
       /\ disk' = [disk EXCEPT ![p] = d]
       /\ todo' = todo \ {p}
  /\ UNCHANGED <<header, buffer, buffer_pos, writers, io, dir, tocall, reads, waiting, copied,
                 aggregating, lost>>

\* A sync that takes its copy of the directory.
Copy == copied' = {d \in dir : dir_valid(d)'}

\* Mutant of aggWriteDone: aggWrite is called again only for a sync that waits.
aggWriteDoneMutant ==
  /\ io /\ todo = {}
  /\ write_pos' = write_pos + buffer_pos
  /\ buffer' = {} /\ buffer_pos' = 0
  /\ io' = FALSE
  /\ waiting' = FALSE
  /\ UNCHANGED <<agg_pos, phase, cycle, writers, todo, disk, dir, tocall, reads, lost>>
  /\ IF waiting THEN Copy ELSE UNCHANGED copied
  /\ aggregating' = (waiting /\ pending # <<>>)

\* aggWriteDone after a write that succeeded: advance, let a sync that waits
\* copy the directory, and go on with the writers that are pending.
aggWriteDone ==
  /\ io /\ todo = {}
  /\ write_pos' = write_pos + buffer_pos
  /\ buffer' = {} /\ buffer_pos' = 0
  /\ io' = FALSE
  /\ waiting' = FALSE
  /\ UNCHANGED <<agg_pos, phase, cycle, writers, todo, disk, dir, tocall, reads, lost>>
  /\ IF waiting THEN Copy ELSE UNCHANGED copied
  /\ aggregating' = (pending # <<>>)

\* aggWriteDone after a write that failed.  The entries that it removes are
\* looked up by a byte position, where the directory has block numbers: none is
\* found.
aggWriteFailed ==
  /\ io
  /\ Cardinality(lost) < MaxFailed
  /\ lost' = lost \cup buffer
  /\ buffer' = {} /\ buffer_pos' = 0
  /\ io' = FALSE /\ todo' = {}
  /\ waiting' = FALSE
  /\ UNCHANGED <<header, writers, disk, dir, tocall, reads>>
  /\ IF waiting THEN Copy ELSE UNCHANGED copied
  /\ aggregating' = (pending # <<>>)

\* A writer is called back and inserts its entry.
openWriteCloseHeadDone(d) ==
  /\ tocall' = tocall \ {d}
  /\ dir' = dir \cup {d}
  /\ UNCHANGED <<header, buffer, buffer_pos, writers, io, todo, disk, reads, waiting, copied,
                 aggregating, lost>>

\* The directory loses an entry: removed, overwritten or dropped for space.
Forget(d) ==
  /\ dir' = dir \ {d}
  /\ UNCHANGED <<header, buffer, buffer_pos, writers, io, todo, disk, tocall, reads, waiting, copied,
                 aggregating, lost>>

----------------------------------------------------------------------------
(* The directory sync                                                      *)

\* Mutant of mainEvent: nothing is done to have the buffer written.
mainEventPassiveMutant ==
  /\ ~aggregating /\ ~waiting
  /\ UNCHANGED <<header, buffer, buffer_pos, writers, io, todo, disk, dir, tocall, reads, lost>>
  /\ IF io \/ buffer_pos > 0
     THEN waiting' = TRUE /\ aggregating' = FALSE /\ UNCHANGED copied
     ELSE Copy /\ UNCHANGED <<waiting, aggregating>>

\* Mutant of mainEvent: a sync does not wait for the aggregation buffer.
mainEventMutant ==
  /\ ~aggregating /\ ~waiting
  /\ UNCHANGED <<header, buffer, buffer_pos, writers, io, todo, disk, dir, tocall, reads, lost>>
  /\ IF io THEN waiting' = TRUE /\ aggregating' = FALSE /\ UNCHANGED copied
     ELSE Copy /\ UNCHANGED <<waiting, aggregating>>

\* CacheSync::mainEvent before it copies the directory: wait for the buffer to
\* be written, and have it written.
mainEvent ==
  /\ ~aggregating /\ ~waiting
  /\ UNCHANGED <<header, buffer, buffer_pos, writers, io, todo, disk, dir, tocall, reads, lost>>
  /\ IF io \/ buffer_pos > 0
     THEN waiting' = TRUE /\ aggregating' = ~io /\ UNCHANGED copied
     ELSE Copy /\ UNCHANGED <<waiting, aggregating>>

----------------------------------------------------------------------------
(* Reading                                                                 *)

\* Mutant of handleRead: the aggregation buffer is not looked at.
handleReadMutant(r, d) ==
  /\ ~reads[r].busy
  /\ dir_valid(d)
  /\ reads' = [reads EXCEPT ![r] = [busy |-> TRUE, doc |-> d, next |-> 0, good |-> TRUE]]
  /\ UNCHANGED <<header, buffer, buffer_pos, writers, io, todo, disk, dir, tocall, waiting, copied,
                 aggregating, lost>>

\* CacheVC::handleRead for an entry that probe found: from the buffer it is
\* served at once, otherwise a read from disk begins.
handleRead(r, d) ==
  /\ ~reads[r].busy
  /\ dir_valid(d) /\ ~dir_agg_buf_valid(d)
  /\ reads' = [reads EXCEPT ![r] = [busy |-> TRUE, doc |-> d, next |-> 0, good |-> TRUE]]
  /\ UNCHANGED <<header, buffer, buffer_pos, writers, io, todo, disk, dir, tocall, waiting, copied,
                 aggregating, lost>>

\* The next block of the document is read.
ReadBlock(r) ==
  LET d == reads[r].doc
      n == reads[r].next
  IN  /\ reads[r].busy /\ n < d.len
      /\ reads' = [reads EXCEPT ![r] = [busy |-> TRUE, doc |-> d, next |-> n + 1,
                                        good |-> reads[r].good /\ disk[d.off + n] = d]]
      /\ UNCHANGED <<header, buffer, buffer_pos, writers, io, todo, disk, dir, tocall, waiting, copied,
                     aggregating, lost>>

\* handleReadDone: what was read is used when the entry is still valid;
\* otherwise the directory is probed again.
handleReadDone(r) ==
  /\ reads[r].busy /\ reads[r].next >= reads[r].doc.len
  /\ reads' = [reads EXCEPT ![r] = Idle]
  /\ UNCHANGED <<header, buffer, buffer_pos, writers, io, todo, disk, dir, tocall, waiting, copied,
                 aggregating, lost>>

----------------------------------------------------------------------------
aggWrite == Aggregate \/ agg_wrap \/ Lwait \/ StartWrite
Reading(r) == ReadBlock(r) \/ handleReadDone(r)

Next ==
  \/ \E l \in Sizes : handleWrite(l)
  \/ aggWrite \/ WriteBlock \/ aggWriteDone
  \/ \E d \in tocall : openWriteCloseHeadDone(d)
  \/ \E d \in dir : Forget(d)
  \/ mainEvent
  \/ \E r \in Readers : Reading(r) \/ \E d \in dir : handleRead(r, d)

Spec == Init /\ [][Next]_vars

\* The same with writes that fail.
NextFailing == Next \/ aggWriteFailed
SpecFailing == Init /\ [][NextFailing]_vars

\* aggWrite runs to its end, the AIO threads do what they are given, and events
\* that are scheduled are delivered.
Fairness ==
  /\ WF_vars(aggWrite) /\ WF_vars(WriteBlock) /\ WF_vars(aggWriteDone)
  /\ WF_vars(\E d \in tocall : openWriteCloseHeadDone(d))
  /\ \A r \in Readers : WF_vars(Reading(r))

FairSpec == Spec /\ Fairness

----------------------------------------------------------------------------
(* Properties                                                              *)

TypeOK ==
  /\ write_pos \in 0 .. STRIPE_LEN /\ agg_pos \in 0 .. STRIPE_LEN
  /\ phase \in {0, 1} /\ cycle \in Nat
  /\ buffer \subseteq Docs /\ buffer_pos \in 0 .. AGG_SIZE
  /\ pending \in Seq(Sizes) /\ bytes_pending \in Int
  /\ io \in BOOLEAN /\ todo \subseteq Positions
  /\ disk \in [Positions -> Docs \cup {NoDoc}]
  /\ dir \subseteq Docs /\ tocall \subseteq Docs /\ copied \subseteq Docs /\ lost \subseteq Docs
  /\ reads \in [Readers -> Reads]
  /\ waiting \in BOOLEAN /\ aggregating \in BOOLEAN /\ arrived \in Nat

Intact(d) == \A p \in Span(d) : disk[p] = d

\* An entry that dir_valid accepts leads to the whole document that it was
\* inserted for: in the buffer where dir_agg_buf_valid says so, on disk otherwise.
EntriesLead ==
  \A d \in dir : dir_valid(d) => IF dir_agg_buf_valid(d) THEN d \in buffer ELSE Intact(d)

\* A read from disk that handleReadDone accepts, because the entry is still
\* valid, has seen no block of another document, although the log was written
\* while it went on.
ReadsIntact ==
  \A r \in Readers :
    reads[r].busy /\ reads[r].next >= reads[r].doc.len /\ dir_valid(reads[r].doc) => reads[r].good

\* The copy of the directory that a sync takes leads to documents that are on
\* disk, and they stay there until the log comes round: whenever the process
\* dies, what the copy calls valid and the log has not reached is there.
CopyOnDisk ==
  \A d \in copied :
    d.lap = cycle \/ (d.lap + 1 = cycle /\ d.off >= agg_pos) => Intact(d)

\* aggWriteDone, of a write that failed: "delete all the directory entries that
\* we inserted for fragments is this aggregation buffer".
FailedAreGone == dir \cap lost = {}

\* A writer that was accepted is called back.
WritersServed == (pending # <<>> \/ tocall # {}) ~> (pending = <<>> /\ tocall = {})

\* A sync that waits for the buffer gets to copy the directory.
SyncServed == waiting ~> ~waiting
=============================================================================
