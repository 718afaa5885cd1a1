---------------------------- MODULE CacheRecovery ----------------------------
(***************************************************************************)
(* What a crash does to one cache stripe, and how start-up repairs it       *)
(* (src/iocore/cache/StripeSM.cc, Stripe.h, CacheDir.cc).                   *)
(*                                                                          *)
(* The stripe is a circular log of documents.  One aggregation write at a   *)
(* time is in flight; the directory and its header are copied to disk from  *)
(* time to time.  After a crash the last complete copy is read back, the    *)
(* log is scanned from last_write_pos for what was written since, and the   *)
(* directory entries that point into the overwritten region are dropped.    *)
(*                                                                          *)
(* Positions are blocks.  A document is its header stamp: write_serial,     *)
(* sync_serial and length; a disk cell is one block of a document, with     *)
(* k = 0 for the block that holds the Doc header (the one with DOC_MAGIC).  *)
(* A directory entry carries the stamp of the document it was inserted for. *)
(* The two on-disk copies of the directory are one atomically replaced      *)
(* variable here: module DirectorySync shows that they behave like one.     *)
(***************************************************************************)
EXTENDS Integers, Sequences

CONSTANTS START,       \* Stripe::start
          STRIPE_LEN,  \* blocks between start and skip + len
          AGG_SIZE,    \* size of the aggregation buffer
          Batches,     \* contents of one aggregation write: for each block the length of its
                       \* document and its place k in it
          Situations,  \* the awkward situations the environment may bring about
          MaxSerial,   \* bound on write_serial
          MaxSync,     \* bound on sync_serial
          MaxCrash     \* bound on the crashes of the stripe in service; one more during recovery

AllSituations == {"lapped", "reordered", "aligned", "relic", "readError"}

ASSUME RecoveryAssumption ==
  /\ START \in Nat \ {0}
  /\ AGG_SIZE \in Nat \ {0}
  /\ STRIPE_LEN \in Nat /\ STRIPE_LEN >= 5 * AGG_SIZE
  /\ MaxSerial \in Nat /\ MaxSync \in Nat /\ MaxCrash \in Nat
  /\ Situations \subseteq AllSituations

\* Documents lie one after the other in the aggregation buffer.
ASSUME BatchesAssumption ==
  \A b \in Batches :
    /\ b \in Seq([len : 1 .. AGG_SIZE, k : 0 .. AGG_SIZE - 1])
    /\ Len(b) \in 1 .. AGG_SIZE
    /\ b[1].k = 0
    /\ \A i \in DOMAIN b : b[i].k = 0 =>
         /\ i + b[i].len <= Len(b) + 1
         /\ \A j \in 0 .. b[i].len - 1 : b[i + j] = [len |-> b[i].len, k |-> j]
         /\ i + b[i].len <= Len(b) => b[i + b[i].len].k = 0

END             == START + STRIPE_LEN   \* skip + len
EVACUATION_SIZE == 2 * AGG_SIZE
RECOVERY_SIZE   == EVACUATION_SIZE
Positions       == START .. END - 1

VARIABLES header,   \* directory.header
          dir,      \* the directory: a set of entries
          disk,     \* the data area of the stripe
          flight,   \* the aggregation write in flight: the blocks, from write_pos on
          copying,  \* a directory sync in progress: the copy being written, or none
          durable,  \* the last complete copy of header and directory on disk
          mode,     \* run, down, check, scan or writedir
          rec,      \* the recovery's own variables
          reach,    \* blocks of the log written beyond the durable write_pos
          crashes

vars == <<header, dir, disk, flight, copying, durable, mode, rec, reach, crashes>>

NoBlock == [ws |-> -1, ss |-> -1, len |-> 1, k |-> -1]
NoCopy  == [header |-> <<>>, dir |-> {}]
NoRec   == [s |-> START, e |-> START, wrapped |-> FALSE, lastSync |-> 0, lastWrite |-> 0,
            maxSync |-> 0, prev |-> 0]

ClearedHeader == [write_pos |-> START, last_write_pos |-> START, agg_pos |-> START, phase |-> 0,
                  cycle |-> 0, write_serial |-> 0, sync_serial |-> 0, dirty |-> FALSE]

----------------------------------------------------------------------------
(* Directory entries                                                       *)

offset_to_vol_offset(pos) == pos - START + 1

vol_in_phase_valid(h, buffered, e)  == e.off < h.write_pos + buffered
vol_out_of_phase_valid(h, e)        == e.off >= h.agg_pos

dir_valid(h, buffered, e) ==
  IF e.phase = h.phase THEN vol_in_phase_valid(h, buffered, e) ELSE vol_out_of_phase_valid(h, e)

\* Directory::cleanup: drop the entries that are not valid.
cleanup(h, buffered, d) == {e \in d : dir_valid(h, buffered, e)}

\* Mutant of clear_range: leaves out the first offset of the range.
clear_rangeMutant(lo, hi, d) ==
  {e \in d : ~(offset_to_vol_offset(e.off) > lo /\ offset_to_vol_offset(e.off) < hi)}

\* Directory::clear_range, on the offsets that directory entries hold.
clear_range(lo, hi, d) ==
  {e \in d : ~(offset_to_vol_offset(e.off) >= lo /\ offset_to_vol_offset(e.off) < hi)}

\* The blocks of a batch of documents, as _copy_writer_to_aggregation lays them out.
Blocks(batch, ws, ss) ==
  [b \in DOMAIN batch |-> [ws |-> ws, ss |-> ss, len |-> batch[b].len, k |-> batch[b].k]]

\* The entries that the writers of these blocks insert.
Entries(blocks, pos, ph) ==
  {[off |-> pos + b - 1, phase |-> ph, ws |-> blocks[b].ws, ss |-> blocks[b].ss, len |-> blocks[b].len]
     : b \in {c \in DOMAIN blocks : blocks[c].k = 0}}

\* How far the log has advanced since the stripe was cleared.
LogPosition(h) == h.cycle * STRIPE_LEN + h.write_pos - START

Min2(a, b) == IF a < b THEN a ELSE b
Max2(a, b) == IF a < b THEN b ELSE a

Init ==
  /\ header = ClearedHeader
  /\ dir = {}
  /\ disk = [p \in Positions |-> NoBlock]
  /\ flight = <<>>
  /\ copying = NoCopy
  /\ durable = [header |-> ClearedHeader, dir |-> {}]
  /\ mode = "run"
  /\ rec = NoRec
  /\ reach = 0
  /\ crashes = 0

----------------------------------------------------------------------------
(* The running stripe                                                      *)

\* The block holds a Doc header.
Magic(c) == c.k = 0

\* The log leaves documents behind at the end of the stripe, where none of its own fits,
\* whose serial is not older than that of its last ones.
Relic(h) == \E p \in h.write_pos .. END - 1 : Magic(disk[p]) /\ disk[p].ss >= disk[h.last_write_pos].ss

agg_wrap(h) ==
  [h EXCEPT !.write_pos = START, !.phase = 1 - h.phase, !.cycle = @ + 1, !.agg_pos = START]

\* aggWrite: take documents into the buffer, at the start of the stripe when
\* the first one does not fit before its end, and start the write.  The writers
\* are called back and insert their entries.
aggWrite(batch) ==
  LET wraps  == header.write_pos + batch[1].len > END
      h      == IF wraps THEN agg_wrap(header) ELSE header
      d      == IF wraps THEN cleanup(h, 0, dir) ELSE dir
      blocks == Blocks(batch, h.write_serial, h.sync_serial)
      ahead  == LogPosition(h) + Len(blocks) - LogPosition(durable.header)
  IN  /\ mode = "run"
      /\ flight = <<>>
      /\ header.write_serial < MaxSerial
      /\ h.write_pos + Len(blocks) <= END
      /\ "lapped" \in Situations \/ ahead < STRIPE_LEN - EVACUATION_SIZE
      /\ "relic" \in Situations \/ ~wraps \/ ~Relic(header)
      /\ header' = [h EXCEPT !.agg_pos = h.write_pos + Len(blocks), !.dirty = TRUE]
      /\ dir' = d \cup Entries(blocks, h.write_pos, h.phase)
      /\ flight' = blocks
      /\ reach' = Max2(reach, ahead)
      /\ UNCHANGED <<disk, copying, durable, mode, rec, crashes>>

\* The disk once the blocks with these indices have reached it.
Landed(n) ==
  [p \in Positions |-> IF p - header.write_pos + 1 \in n THEN flight[p - header.write_pos + 1] ELSE disk[p]]

\* aggWriteDone after a write that succeeded.
aggWriteDone ==
  /\ mode = "run"
  /\ flight # <<>>
  /\ disk' = Landed(DOMAIN flight)
  /\ header' = [header EXCEPT !.last_write_pos = header.write_pos, !.write_pos = @ + Len(flight),
                              !.write_serial = @ + 1]
  /\ flight' = <<>>
  /\ UNCHANGED <<dir, copying, durable, mode, rec, reach, crashes>>

\* CacheSync::mainEvent at writepos 0: with no write in flight, bump the serial
\* and copy the directory.
SyncStart ==
  /\ mode = "run"
  /\ flight = <<>>
  /\ copying = NoCopy
  /\ header.dirty
  /\ header.sync_serial < MaxSync
  /\ "aligned" \in Situations \/ header.write_pos # END - EVACUATION_SIZE
  /\ header' = [header EXCEPT !.sync_serial = @ + 1, !.dirty = FALSE]
  /\ copying' = [header |-> header', dir |-> dir]
  /\ UNCHANGED <<dir, disk, flight, durable, mode, rec, reach, crashes>>

\* The footer of the copy is on disk.
SyncEnd ==
  /\ mode = "run"
  /\ copying # NoCopy
  /\ durable' = copying
  /\ copying' = NoCopy
  /\ reach' = LogPosition(header) + Len(flight) - LogPosition(copying.header)
  /\ UNCHANGED <<header, dir, disk, flight, mode, rec, crashes>>

\* The process dies.  A prefix of the write in flight has reached the disk, or
\* any part of it when the device reorders sectors.
Crash ==
  /\ mode # "down"
  /\ crashes < IF mode = "run" THEN MaxCrash ELSE MaxCrash + 1
  /\ \E n \in IF "reordered" \in Situations THEN SUBSET (DOMAIN flight)
              ELSE {1 .. b : b \in 0 .. Len(flight)} : disk' = Landed(n)
  /\ crashes' = crashes + 1
  /\ header' = ClearedHeader
  /\ dir' = {}
  /\ flight' = <<>>
  /\ copying' = NoCopy
  /\ mode' = "down"
  /\ rec' = NoRec
  /\ UNCHANGED <<durable, reach>>

----------------------------------------------------------------------------
(* Recovery                                                                *)

\* Give up: write an empty directory (clear_dir_aio).
Lclear ==
  /\ header' = ClearedHeader
  /\ dir' = {}
  /\ copying' = [header |-> ClearedHeader, dir |-> {}]
  /\ mode' = "writedir"
  /\ rec' = NoRec
  /\ UNCHANGED <<disk, flight, durable, reach, crashes>>

\* Continue with a read of the log from position p on, unless that was the last
\* read already.  Each read is a new call of the handler, so that
\* max_sync_serial starts again from the header's serial.
ReadFrom(r, p, wrapped) ==
  IF p = r.prev THEN Lclear
  ELSE /\ rec' = [r EXCEPT !.s = p, !.e = Min2(p + RECOVERY_SIZE, END), !.wrapped = wrapped,
                           !.maxSync = header.sync_serial, !.prev = p]
       /\ mode' = "scan"
       /\ UNCHANGED <<header, dir, disk, flight, copying, durable, reach, crashes>>

\* init, handle_header_read, handle_dir_read and the first call of
\* handle_recover_from_data: load the last good copy and start reading.
Restart ==
  LET h == durable.header
  IN  /\ mode = "down"
      /\ header' = h
      /\ dir' = durable.dir
      /\ IF h.sync_serial = 0
           THEN mode' = "run" /\ UNCHANGED rec
           ELSE /\ mode' = "check"
                /\ rec' = [s |-> h.last_write_pos, e |-> Min2(h.last_write_pos + RECOVERY_SIZE, END),
                           wrapped |-> FALSE, lastSync |-> 0, lastWrite |-> 0,
                           maxSync |-> h.sync_serial, prev |-> h.last_write_pos]
      /\ UNCHANGED <<disk, flight, copying, durable, reach, crashes>>

\* A read of the log fails.
ReadError ==
  /\ mode \in {"check", "scan"}
  /\ rec.s = rec.prev
  /\ "readError" \in Situations
  /\ Lclear

\* The documents written just before the sync must still be there.
CheckDoc ==
  LET doc == disk[rec.s]
  IN  /\ mode = "check"
      /\ rec.s < header.write_pos
      /\ IF ~Magic(doc) \/ doc.ws > header.write_serial
           THEN Lclear
           ELSE /\ rec' = [rec EXCEPT !.s = @ + doc.len,
                                      !.lastSync = IF doc.ss > rec.lastWrite THEN doc.ss ELSE @]
                /\ UNCHANGED <<header, dir, disk, flight, copying, durable, mode, reach, crashes>>

CheckEnd ==
  /\ mode = "check"
  /\ rec.s >= header.write_pos
  /\ rec.s < rec.e
  /\ mode' = "scan"
  /\ UNCHANGED <<header, dir, disk, flight, copying, durable, rec, reach, crashes>>

\* Mutant of ReadPastEnd: reads on only before the end of the stripe.
ReadPastEndMutant ==
  /\ mode = "check"
  /\ rec.s >= header.write_pos
  /\ rec.s >= rec.e
  /\ rec.s < END
  /\ ReadFrom([rec EXCEPT !.prev = END], START, TRUE)

\* The last write ended at the end of the stripe: nothing is left of the first
\* read and the next one starts at skip + len.  It may fail there, at the end of
\* the device; otherwise it finds no document and starts over at the front.
ReadPastEnd ==
  /\ mode = "check"
  /\ rec.s >= header.write_pos
  /\ rec.s >= rec.e
  /\ \/ "readError" \in Situations /\ Lclear
     \/ ReadFrom([rec EXCEPT !.prev = END], START, TRUE)

\* The end of the log is at pos: drop the entries between the durable write_pos
\* and a margin beyond pos, choose the next serial and write the other copy.
Ldone(pos, maxSync) ==
  LET wp     == header.write_pos
      margin == pos + EVACUATION_SIZE
      to     == IF margin > END THEN margin - END ELSE margin
      next   == IF (maxSync + 1) % 2 = header.sync_serial % 2 THEN maxSync + 2 ELSE maxSync + 1
      lo     == offset_to_vol_offset(wp)
      hi     == offset_to_vol_offset(to)
      kept   == IF lo <= hi THEN clear_range(lo, hi, dir)
                ELSE clear_range(1, hi, clear_range(lo, offset_to_vol_offset(END), dir))
  IN  CASE pos = wp /\ rec.wrapped ->
             /\ mode' = "run"
             /\ rec' = NoRec
             /\ UNCHANGED <<header, dir, disk, flight, copying, durable, reach, crashes>>
        [] ~(pos = wp /\ rec.wrapped) /\ margin < wp /\ margin + EVACUATION_SIZE >= wp -> Lclear
        [] OTHER ->
             /\ dir' = cleanup(header, 0, kept)
             /\ header' = [header EXCEPT !.sync_serial = next, !.dirty = @ \/ dir' # dir]
             /\ copying' = [header |-> header', dir |-> dir']
             /\ mode' = "writedir"
             /\ rec' = NoRec
             /\ UNCHANGED <<disk, flight, durable, reach, crashes>>

\* Move past a document; at the end of what was read, read on from there, or
\* from the document itself when it reaches beyond.
Advance(r, doc) ==
  LET s == r.s + doc.len
  IN  IF s < r.e
        THEN /\ rec' = [r EXCEPT !.s = s]
             /\ UNCHANGED <<header, dir, disk, flight, copying, durable, mode, reach, crashes>>
        ELSE LET p == IF s > r.e THEN r.s ELSE r.e
             IN  ReadFrom(r, IF p >= END THEN START ELSE p, r.wrapped \/ p >= END)

\* After wrapping, the first document at the front is from an earlier lap.
StaleFront == rec.wrapped /\ rec.s = START /\ (~Magic(disk[START]) \/ disk[START].ws < rec.lastWrite)

Expected(doc) == Magic(doc) /\ doc.ss = rec.lastSync
NewSerial(doc) == Magic(doc) /\ doc.ss > rec.lastSync /\ doc.ss <= header.sync_serial + 1

ScanFront ==
  /\ mode = "scan"
  /\ StaleFront
  /\ Ldone(END - EVACUATION_SIZE, rec.maxSync)

ScanExpected ==
  LET doc == disk[rec.s]
  IN  /\ mode = "scan"
      /\ ~StaleFront
      /\ Expected(doc)
      /\ Advance([rec EXCEPT !.lastWrite = doc.ws], doc)

ScanNewSerial ==
  LET doc == disk[rec.s]
  IN  /\ mode = "scan"
      /\ ~StaleFront
      /\ NewSerial(doc)
      /\ Advance([rec EXCEPT !.lastSync = doc.ss,
                             !.maxSync = IF doc.ss > header.sync_serial THEN doc.ss ELSE @], doc)

\* Mutant of ScanStop: goes on at the front wherever the log stops.
ScanStopMutant ==
  LET doc == disk[rec.s]
  IN  /\ mode = "scan"
      /\ ~StaleFront
      /\ ~Expected(doc) /\ ~NewSerial(doc)
      /\ ReadFrom(rec, START, TRUE)

\* Not a document of this part of the log: in the last AGG_SIZE blocks the log
\* may go on at the front, elsewhere it ends here.
ScanStop ==
  LET doc == disk[rec.s]
  IN  /\ mode = "scan"
      /\ ~StaleFront
      /\ ~Expected(doc) /\ ~NewSerial(doc)
      /\ IF rec.s > END - AGG_SIZE
           THEN ReadFrom(rec, START, TRUE)
           ELSE Ldone(rec.s, IF Magic(doc) /\ doc.ss > header.sync_serial THEN doc.ss ELSE rec.maxSync)

\* handle_recover_write_dir, or handle_dir_clear after Lclear: the copy is on
\* disk and the stripe goes into service.
WriteDirDone ==
  /\ mode = "writedir"
  /\ durable' = copying
  /\ copying' = NoCopy
  /\ mode' = "run"
  /\ reach' = 0
  /\ UNCHANGED <<header, dir, disk, flight, rec, crashes>>

Running    == (\E batch \in Batches : aggWrite(batch)) \/ aggWriteDone \/ SyncStart \/ SyncEnd
Recovering == \/ Restart \/ CheckDoc \/ CheckEnd \/ ReadPastEnd
              \/ ScanFront \/ ScanExpected \/ ScanNewSerial \/ ScanStop \/ WriteDirDone

Next == Running \/ Crash \/ ReadError \/ Recovering

Spec == Init /\ [][Next]_vars /\ WF_vars(Recovering)

----------------------------------------------------------------------------
(* Properties                                                              *)

Headers == [write_pos : START .. END, last_write_pos : START .. END - 1, agg_pos : START .. END,
            phase : {0, 1}, cycle : Nat, write_serial : 0 .. MaxSerial, sync_serial : Nat,
            dirty : BOOLEAN]

\* Type invariant; the write position never leaves the stripe.
TypeOK ==
  /\ header \in Headers
  /\ durable.header \in Headers
  /\ \A e \in dir \cup durable.dir : e.off \in Positions /\ e.off + e.len <= END
  /\ mode \in {"run", "down", "check", "scan", "writedir"}
  /\ rec.s \in START .. END
  /\ rec.e \in START .. END

\* The block that a reader of position p finds: in the aggregation buffer or on disk.
Content(p) ==
  LET b == p - header.write_pos + 1
  IN  IF b \in DOMAIN flight THEN flight[b] ELSE disk[p]

Intact(e) ==
  \A k \in 0 .. e.len - 1 : Content(e.off + k) = [ws |-> e.ws, ss |-> e.ss, len |-> e.len, k |-> k]

\* Whatever was lost in a crash, in service every directory entry that passes
\* dir_valid leads to all of the document it was inserted for; positions are in bounds.
EntriesIntact ==
  /\ TypeOK
  /\ mode = "run" => \A e \in dir : dir_valid(header, Len(flight), e) => Intact(e)

\* Beyond what was written since the last sync the stripe holds documents that recovery may
\* take for a part of the log: of an earlier life of the stripe, or of a log that was lost.
Leftover ==
  \E p \in durable.header.write_pos + reach .. END - 1 :
    Magic(disk[p]) /\ disk[p].ss >= disk[durable.header.last_write_pos].ss

\* A document whose entry was in the last synced directory, written on the lap of that sync,
\* outlives what the scan of the log decides, unless documents are left over beyond the log
\* or it had gone on to where the margin of recovery reaches the end of the stripe.
SyncedSurvives ==
  [][(CheckDoc \/ ScanFront \/ ScanExpected \/ ScanNewSerial \/ ScanStop) /\ mode' = "writedir"
       /\ durable.header.write_pos + reach + AGG_SIZE + EVACUATION_SIZE <= END /\ ~Leftover
     => {e \in durable.dir : e.phase = durable.header.phase} \subseteq dir']_vars

\* Recovery ends, with the stripe in service.
RecoveryEnds == (mode = "down") ~> (mode = "run")

=============================================================================
