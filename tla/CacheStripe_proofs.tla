------------------------- MODULE CacheStripe_proofs -------------------------
(***************************************************************************)
(* Proofs about CacheStripe for every length of the stripe and the buffer,  *)
(* every set of document lengths and any number of readers: the type        *)
(* invariant, that valid entries lead to whole documents, that accepted     *)
(* reads are of whole documents and that what a sync copies is on disk.     *)
(*                                                                          *)
(* The validity tests compare one bit of the lap and a position.  They are  *)
(* right because of what IInv adds: entries are of this lap or the one      *)
(* before, the documents of this lap lie before the write position or in    *)
(* the buffer, and those of the lap before are whole from agg_pos on.       *)
(***************************************************************************)
EXTENDS CacheStripe, FiniteSetTheorems, TLAPS

Ends(d, p) == d.off + d.len <= p

\* The cursors and the buffer.
CursorInv ==
  /\ phase = cycle % 2
  /\ write_pos + buffer_pos <= STRIPE_LEN
  /\ io => agg_pos = write_pos + buffer_pos /\ ~aggregating
  /\ ~io => agg_pos = write_pos
  /\ lost = {}

BufferInv ==
  /\ \A d \in buffer : d.lap = cycle /\ d.phase = d.lap % 2 /\ d.off >= write_pos
                         /\ Ends(d, write_pos + buffer_pos)
  /\ \A d, e \in buffer : d # e => Span(d) \cap Span(e) = {}
  /\ io => \A d \in buffer : \A p \in Span(d) : p \in todo \/ disk[p] = d

\* A document that was put into the buffer and perhaps written since.
Placed(d) ==
  /\ d.phase = d.lap % 2
  /\ Ends(d, STRIPE_LEN)
  /\ d.lap <= cycle
  /\ d.lap = cycle => d \in buffer \/ (Ends(d, write_pos) /\ Intact(d))
  /\ d.lap + 1 = cycle /\ d.off >= agg_pos => Intact(d)

DirInv == \A d \in dir \cup tocall : Placed(d) /\ d.lap + 1 >= cycle

CopiedInv ==
  \A d \in copied : Placed(d) /\ (d.lap = cycle => Ends(d, write_pos) /\ Intact(d))

ReadInv(r) ==
  LET d == reads[r].doc
  IN  reads[r].busy =>
        /\ d \in Docs
        /\ d.phase = d.lap % 2
        /\ Ends(d, STRIPE_LEN)
        /\ d.lap <= cycle /\ d.lap + 2 >= cycle
        /\ d.lap = cycle => Ends(d, write_pos) /\ Intact(d) /\ reads[r].good
        /\ d.lap + 1 = cycle /\ d.off >= agg_pos => Intact(d) /\ reads[r].good
        /\ d.lap + 2 = cycle => d.off >= write_pos + buffer_pos

ReadsInv == \A r \in Readers : ReadInv(r)

IInv == TypeOK /\ CursorInv /\ BufferInv /\ DirInv /\ CopiedInv /\ ReadsInv

USE StripeAssumption

\* The lap's parity changes from one lap to the next and comes back after two.
LEMMA Parity == \A n \in Nat : /\ n % 2 \in {0, 1}
                               /\ (n + 1) % 2 = 1 - (n % 2)
                               /\ (n + 2) % 2 = n % 2
  OBVIOUS

\* The types of the cursors and of the fields of documents.
Nats == write_pos \in Nat /\ agg_pos \in Nat /\ buffer_pos \in Nat /\ cycle \in Nat /\ STRIPE_LEN \in Nat

LEMMA NatsHold == TypeOK => Nats
  BY DEF TypeOK, Nats

LEMMA DocTypes == \A d \in Docs : d.off \in Nat /\ d.len \in Nat /\ d.len >= 1 /\ d.lap \in Nat
  BY DEF Docs, Positions

\* The invariant implies the properties that the runs check.
LEMMA IInvImplies == IInv => TypeOK /\ EntriesLead /\ ReadsIntact /\ CopyOnDisk
<1> SUFFICES ASSUME IInv PROVE TypeOK /\ EntriesLead /\ ReadsIntact /\ CopyOnDisk
  BY Zenon
<1>0. Nats
  BY Zenon, NatsHold DEF IInv
<1>1. EntriesLead
  <2> SUFFICES ASSUME NEW d \in dir, dir_valid(d)
               PROVE  IF dir_agg_buf_valid(d) THEN d \in buffer ELSE Intact(d)
    BY Zenon DEF EntriesLead
  <2>0. d \in Docs
    BY Zenon DEF IInv, TypeOK
  <2>1. Placed(d) /\ d.lap + 1 >= cycle /\ d.off \in Nat /\ d.len \in Nat /\ d.len >= 1 /\ d.lap \in Nat
    BY Zenon, <2>0, DocTypes DEF IInv, DirInv
  <2>2. CASE d.lap = cycle
    <3>1. d.phase = phase
      BY Zenon, <2>1, <2>2 DEF IInv, CursorInv, Placed
    <3>2. CASE d \in buffer
      BY <2>1, <3>1, <3>2, <1>0 DEF IInv, BufferInv, dir_agg_buf_valid, Ends, Nats
    <3>3. CASE Ends(d, write_pos) /\ Intact(d)
      BY <1>0, <2>1, <3>3 DEF dir_agg_buf_valid, Ends, Nats
    <3> QED
      BY Zenon, <2>1, <2>2, <3>2, <3>3 DEF Placed
  <2>3. CASE d.lap # cycle
    <3>1. d.lap + 1 = cycle
      BY <1>0, <2>1, <2>3 DEF Placed, Nats
    <3>2. d.phase # phase
      BY <1>0, <2>1, <3>1, Parity DEF Placed, IInv, CursorInv, Nats
    <3> QED
      BY Zenon, <2>1, <3>1, <3>2 DEF Placed, dir_valid, vol_out_of_phase_valid, dir_agg_buf_valid
  <2> QED
    BY Zenon, <2>2, <2>3
<1>2. ReadsIntact
  <2> SUFFICES ASSUME NEW r \in Readers, reads[r].busy, dir_valid(reads[r].doc) PROVE reads[r].good
    BY Zenon DEF ReadsIntact
  <2> DEFINE d == reads[r].doc
  <2>0. ReadInv(r) /\ d \in Docs
    BY Zenon DEF IInv, ReadsInv, ReadInv
  <2>1. ReadInv(r) /\ d.off \in Nat /\ d.len \in Nat /\ d.len >= 1 /\ d.lap \in Nat
    BY Zenon, <2>0, DocTypes
  <2>2. CASE d.lap = cycle
    BY Zenon, <2>1, <2>2 DEF ReadInv
  <2>3. CASE d.lap + 1 = cycle
    <3>1. d.phase # phase
      BY <2>1, <2>3, <1>0, Parity DEF ReadInv, Nats, IInv, CursorInv
    <3> QED
      BY Zenon, <2>1, <2>3, <3>1 DEF ReadInv, dir_valid, vol_out_of_phase_valid
  <2>4. CASE d.lap + 2 = cycle
    <3>1. d.phase = phase
      BY Zenon, <2>1, <2>4, <1>0, Parity DEF ReadInv, Nats, IInv, CursorInv
    <3>2. d.off >= write_pos + buffer_pos
      BY Zenon, <2>1, <2>4 DEF ReadInv
    <3>3. d.off < write_pos + buffer_pos
      BY Zenon, <3>1 DEF dir_valid, vol_in_phase_valid
    <3> QED
      BY <1>0, <2>1, <3>2, <3>3 DEF Nats
  <2>5. d.lap = cycle \/ d.lap + 1 = cycle \/ d.lap + 2 = cycle
    BY <1>0, <2>1 DEF ReadInv, Nats
  <2> QED
    BY Zenon, <2>2, <2>3, <2>4, <2>5
<1>3. CopyOnDisk
  BY Zenon DEF IInv, CopiedInv, Placed, CopyOnDisk
<1> QED
  BY Zenon, <1>1, <1>2, <1>3 DEF IInv

\* The document that Aggregate puts into the buffer.
LEMMA NextDocFacts ==
  ASSUME IInv, pending # <<>>, Fits
  PROVE  /\ Head(pending) \in Sizes /\ Head(pending) \in Nat \ {0} /\ Tail(pending) \in Seq(Sizes)
         /\ NextDoc \in Docs
         /\ NextDoc.off = write_pos + buffer_pos /\ NextDoc.len = Head(pending)
         /\ NextDoc.lap = cycle /\ NextDoc.phase = phase
<1>1. pending \in Seq(Sizes) /\ Nats
  BY Zenon, NatsHold DEF IInv, TypeOK
<1>2. Head(pending) \in Sizes /\ Tail(pending) \in Seq(Sizes)
  BY <1>1
<1>3. Head(pending) \in Nat \ {0}
  BY Zenon, <1>2
<1>4. write_pos + buffer_pos \in Positions
  BY <1>1, <1>3 DEF Fits, Nats, Positions
<1>5. Cardinality(lost) \in Nat
  BY FS_EmptySet DEF IInv, CursorInv
<1>6. phase \in {0, 1} /\ cycle \in Nat
  BY Zenon DEF IInv, TypeOK
<1> QED
  BY Zenon, <1>2, <1>3, <1>4, <1>5, <1>6 DEF NextDoc, Docs

\* Every step keeps the types.
LEMMA TypeStep == IInv /\ [Next]_vars => TypeOK'
<1> SUFFICES ASSUME IInv, [Next]_vars PROVE TypeOK'
  BY Zenon
<1>0. TypeOK /\ CursorInv /\ BufferInv
  BY Zenon DEF IInv
<1>1. ASSUME NEW l \in Sizes, handleWrite(l) PROVE TypeOK'
  <2>1. pending' \in Seq(Sizes)
    BY <1>0, <1>1 DEF handleWrite, add_writer, TypeOK
  <2>2. bytes_pending' \in Int /\ arrived' \in Nat
    BY <1>0, <1>1 DEF handleWrite, add_writer, TypeOK
  <2>3. aggregating' \in BOOLEAN
    BY <1>1, Zenon DEF handleWrite, add_writer
  <2> QED
    BY Zenon, <1>0, <1>1, <2>1, <2>2, <2>3 DEF handleWrite, add_writer, TypeOK, header
<1>2. CASE Aggregate
  <2>1. pending # <<>> /\ Fits
    BY Zenon, <1>2 DEF Aggregate
  <2>2. NextDoc \in Docs /\ Head(pending) \in Nat /\ pending' \in Seq(Sizes)
    BY Zenon, <1>2, <2>1, NextDocFacts DEF Aggregate
  <2>3. buffer_pos' \in 0 .. AGG_SIZE /\ bytes_pending' \in Int
    <3>1. buffer_pos \in Nat /\ bytes_pending \in Int /\ AGG_SIZE \in Nat
      BY <1>0 DEF TypeOK
    <3>2. /\ buffer_pos' = buffer_pos + Head(pending) /\ bytes_pending' = bytes_pending - Head(pending)
          /\ buffer_pos + Head(pending) <= AGG_SIZE
      BY Zenon, <1>2, <2>1 DEF Aggregate, Fits
    <3> QED
      BY <2>2, <3>1, <3>2
  <2>4. buffer' \subseteq Docs /\ tocall' \subseteq Docs
    BY Zenon, <1>0, <1>2, <2>2 DEF Aggregate, TypeOK
  <2> QED
    BY Zenon, <1>0, <1>2, <2>2, <2>3, <2>4 DEF Aggregate, TypeOK, header
<1>3. CASE agg_wrap
  <2>1. phase' \in {0, 1} /\ cycle' \in Nat /\ dir' \subseteq Docs
    BY <1>0, <1>3 DEF agg_wrap, TypeOK
  <2> QED
    BY <1>0, <1>3, <2>1 DEF agg_wrap, TypeOK, writers
<1>4. CASE Lwait
  BY Zenon, <1>0, <1>4 DEF Lwait, TypeOK, header, writers
<1>5. CASE StartWrite
  <2>1. agg_pos' \in 0 .. STRIPE_LEN /\ todo' \subseteq Positions
    BY <1>0, <1>5, NatsHold DEF StartWrite, CursorInv, TypeOK, Nats, Positions
  <2> QED
    BY Zenon, <1>0, <1>5, <2>1 DEF StartWrite, TypeOK, writers
<1>6. CASE WriteBlock
  <2>1. PICK d \in buffer : \E p \in Span(d) \cap todo :
          disk' = [disk EXCEPT ![p] = d] /\ todo' = todo \ {p}
    BY Zenon, <1>6 DEF WriteBlock
  <2>2. disk' \in [Positions -> Docs \cup {NoDoc}] /\ todo' \subseteq Positions
    BY Zenon, <1>0, <2>1 DEF TypeOK
  <2> QED
    BY Zenon, <1>0, <1>6, <2>2 DEF WriteBlock, TypeOK, header, writers
<1>7. CASE aggWriteDone
  <2>1. write_pos' \in 0 .. STRIPE_LEN /\ buffer_pos' \in 0 .. AGG_SIZE
    BY <1>0, <1>7, NatsHold, SMTT(30) DEF aggWriteDone, CursorInv, TypeOK, Nats
  <2>2. copied' \subseteq Docs
    BY Zenon, <1>0, <1>7 DEF aggWriteDone, Copy, TypeOK
  <2>3. aggregating' \in BOOLEAN
    BY <1>7, Zenon DEF aggWriteDone
  <2> QED
    BY Zenon, <1>0, <1>7, <2>1, <2>2, <2>3 DEF aggWriteDone, TypeOK, writers
<1>8. ASSUME NEW d \in tocall, openWriteCloseHeadDone(d) PROVE TypeOK'
  BY Zenon, <1>0, <1>8 DEF openWriteCloseHeadDone, TypeOK, header, writers
<1>9. ASSUME NEW d \in dir, Forget(d) PROVE TypeOK'
  BY Zenon, <1>0, <1>9 DEF Forget, TypeOK, header, writers
<1>10. CASE mainEvent
  <2>1. copied' \subseteq Docs
    BY Zenon, <1>0, <1>10 DEF mainEvent, Copy, TypeOK
  <2>2. waiting' \in BOOLEAN /\ aggregating' \in BOOLEAN
    BY <1>0, <1>10, Zenon DEF mainEvent, TypeOK
  <2> QED
    BY Zenon, <1>0, <1>10, <2>1, <2>2 DEF mainEvent, TypeOK, header, writers
<1>11. ASSUME NEW r \in Readers, NEW d \in dir, handleRead(r, d) PROVE TypeOK'
  <2>1. [busy |-> TRUE, doc |-> d, next |-> 0, good |-> TRUE] \in Reads
    BY Zenon, <1>0 DEF TypeOK, Reads
  <2> QED
    BY Zenon, <1>0, <1>11, <2>1 DEF handleRead, TypeOK, header, writers
<1>12. ASSUME NEW r \in Readers, ReadBlock(r) PROVE TypeOK'
  <2> DEFINE v == [busy |-> TRUE, doc |-> reads[r].doc, next |-> reads[r].next + 1,
                   good |-> reads[r].good /\ disk[reads[r].doc.off + reads[r].next] = reads[r].doc]
  <2>1. reads[r] \in Reads
    BY Zenon, <1>0 DEF TypeOK
  <2>2. v \in Reads
    <3>1. v.good \in BOOLEAN
      BY <2>1, Zenon
    <3> QED
      BY <2>1, <3>1, SMTT(30) DEF Reads
  <2>3. reads' = [reads EXCEPT ![r] = v]
    BY Zenon, <1>12 DEF ReadBlock
  <2> HIDE DEF v
  <2>4. reads' \in [Readers -> Reads]
    BY Zenon, <1>0, <2>2, <2>3 DEF TypeOK
  <2> QED
    BY Zenon, <1>0, <1>12, <2>4 DEF ReadBlock, TypeOK, header, writers
<1>13. ASSUME NEW r \in Readers, handleReadDone(r) PROVE TypeOK'
  <2>1. Idle \in Reads
    BY Zenon DEF Idle, Reads
  <2> QED
    BY Zenon, <1>0, <1>13, <2>1 DEF handleReadDone, TypeOK, header, writers
<1>14. CASE UNCHANGED vars
  BY Zenon, <1>0, <1>14 DEF vars, TypeOK
<1> QED
  BY Zenon, <1>1, <1>2, <1>3, <1>4, <1>5, <1>6, <1>7, <1>8, <1>9, <1>10, <1>11, <1>12, <1>13, <1>14
     DEF Next, aggWrite, Reading

\* The initial states satisfy the invariant.
LEMMA IInvInit == Init => IInv
<1> SUFFICES ASSUME Init PROVE IInv
  BY Zenon
<1>1. Idle \in Reads
  BY Zenon DEF Idle, Reads
<1>2. TypeOK
  <2>1. pending \in Seq(Sizes) /\ disk \in [Positions -> Docs \cup {NoDoc}] /\ reads \in [Readers -> Reads]
    BY <1>1 DEF Init
  <2>2. /\ write_pos \in 0 .. STRIPE_LEN /\ agg_pos \in 0 .. STRIPE_LEN /\ phase \in {0, 1} /\ cycle \in Nat
        /\ buffer_pos \in 0 .. AGG_SIZE /\ bytes_pending \in Int /\ arrived \in Nat
    BY DEF Init
  <2> QED
    BY Zenon, <2>1, <2>2 DEF Init, TypeOK
<1>3. CursorInv
  BY DEF Init, CursorInv
<1>4. BufferInv /\ DirInv /\ CopiedInv
  BY Zenon DEF Init, BufferInv, DirInv, CopiedInv
<1>5. ReadsInv
  BY Zenon DEF Init, ReadsInv, ReadInv, Idle
<1> QED
  BY Zenon, <1>2, <1>3, <1>4, <1>5 DEF IInv

\* A buffer of length 0 holds no document.
LEMMA EmptyBuffer == IInv /\ buffer_pos = 0 => buffer = {}
<1> SUFFICES ASSUME IInv, buffer_pos = 0, NEW d \in buffer PROVE FALSE
  BY Zenon
<1>1. d \in Docs /\ Nats /\ d.off >= write_pos /\ Ends(d, write_pos + buffer_pos)
  BY Zenon, NatsHold DEF IInv, TypeOK, BufferInv
<1> QED
  BY <1>1, DocTypes DEF Ends, Nats

\* What steps that leave the log alone cannot disturb.
LEMMA QuietStep ==
  ASSUME IInv, UNCHANGED <<header, buffer, buffer_pos, io, todo, disk, lost>>, io => ~aggregating'
  PROVE  CursorInv' /\ BufferInv' /\ (\A d : Placed(d)' <=> Placed(d))
<1>1. CursorInv'
  BY Zenon DEF IInv, CursorInv, header
<1>2. BufferInv'
  BY Zenon DEF IInv, BufferInv, header, Ends, Span
<1>3. \A d : Placed(d)' <=> Placed(d)
  BY Zenon DEF Placed, header, Intact, Ends, Span
<1> QED
  BY Zenon, <1>1, <1>2, <1>3

\* The entries, the copy and the reads, when they are left alone too.
LEMMA QuietRest ==
  ASSUME IInv, UNCHANGED <<header, buffer, buffer_pos, disk>>
  PROVE  /\ UNCHANGED <<dir, tocall>> => DirInv'
         /\ UNCHANGED copied => CopiedInv'
         /\ UNCHANGED reads => ReadsInv'
<1>1. \A d : Placed(d)' <=> Placed(d)
  BY Zenon DEF Placed, header, Intact, Ends, Span
<1>2. UNCHANGED <<dir, tocall>> => DirInv'
  BY Zenon, <1>1 DEF IInv, DirInv, header
<1>3. UNCHANGED copied => CopiedInv'
  BY Zenon, <1>1 DEF IInv, CopiedInv, header, Ends, Intact, Span
<1>4. UNCHANGED reads => ReadsInv'
  BY ZenonT(30) DEF IInv, ReadsInv, ReadInv, header, Ends, Intact, Span
<1> QED
  BY Zenon, <1>2, <1>3, <1>4

\* A copy taken when nothing is buffered.
LEMMA CopyStep ==
  ASSUME DirInv', buffer' = {}, dir' = dir, Copy
  PROVE  CopiedInv'
BY Zenon DEF DirInv, Copy, CopiedInv, Placed

\* Aggregate puts the document behind those that are in the buffer.
LEMMA AggregateStep == IInv /\ Aggregate => IInv'
<1> SUFFICES ASSUME IInv, Aggregate PROVE IInv'
  BY Zenon
<1> PICK n : n = NextDoc
  BY Zenon
<1>0. TypeOK' /\ Nats /\ ~io /\ pending # <<>> /\ Fits
  <2>1. [Next]_vars
    BY Zenon DEF Next, aggWrite
  <2> QED
    BY Zenon, <2>1, TypeStep, NatsHold DEF IInv, CursorInv, Aggregate
<1>1. /\ Head(pending) \in Nat \ {0} /\ n \in Docs /\ n.off = write_pos + buffer_pos
      /\ n.len = Head(pending) /\ n.lap = cycle /\ n.phase = phase
  BY Zenon, <1>0, NextDocFacts
<1>2. /\ buffer' = buffer \cup {n} /\ tocall' = tocall \cup {n} /\ buffer_pos' = buffer_pos + n.len
      /\ UNCHANGED <<header, io, todo, disk, dir, reads, copied, aggregating, lost>>
  BY Zenon, <1>1 DEF Aggregate
<1>3. n.off \in Nat /\ n.len \in Nat /\ n.len >= 1 /\ write_pos + buffer_pos + n.len <= STRIPE_LEN
  BY Zenon, <1>0, <1>1, DocTypes DEF Fits
<1>4. CursorInv'
  BY <1>0, <1>1, <1>2, <1>3 DEF IInv, CursorInv, header, Nats
<1>5. BufferInv'
  <2>1. ASSUME NEW d \in buffer'
        PROVE  (d.lap = cycle /\ d.phase = d.lap % 2 /\ d.off >= write_pos /\ Ends(d, write_pos + buffer_pos))'
    <3>1. CASE d \in buffer
      <4>1. d \in Docs /\ d.lap = cycle /\ d.phase = d.lap % 2 /\ d.off >= write_pos
              /\ Ends(d, write_pos + buffer_pos)
        BY Zenon, <3>1 DEF IInv, TypeOK, BufferInv
      <4> QED
        <5>1. d.off \in Nat /\ d.len \in Nat
          BY Zenon, <4>1, DocTypes
        <5>2. d.off + d.len <= write_pos' + buffer_pos'
          <6>1. write_pos \in Nat /\ buffer_pos \in Nat
            BY Zenon, <1>0 DEF Nats
          <6>2. write_pos' = write_pos /\ buffer_pos' = buffer_pos + n.len
            BY Zenon, <1>2 DEF header
          <6>3. d.off + d.len <= write_pos + buffer_pos
            BY Zenon, <4>1 DEF Ends
          <6> QED
            BY <5>1, <6>1, <6>2, <6>3, <1>3
        <5> QED
          BY Zenon, <4>1, <5>2, <1>2 DEF Ends, header
    <3>2. CASE d = n
      BY <3>2, <1>0, <1>1, <1>2, <1>3 DEF IInv, CursorInv, Ends, header, Nats
    <3> QED
      BY Zenon, <3>1, <3>2, <1>2, <2>1
  <2>2. ASSUME NEW d \in buffer PROVE Span(d) \cap Span(n) = {}
    <3>1. d \in Docs /\ Ends(d, write_pos + buffer_pos)
      BY Zenon DEF IInv, TypeOK, BufferInv
    <3> QED
      BY <3>1, <1>0, <1>1, <1>3, DocTypes DEF Ends, Span, Nats
  <2>3. ASSUME NEW d \in buffer', NEW e \in buffer', d # e PROVE Span(d) \cap Span(e) = {}
    BY Zenon, <2>2, <2>3, <1>2 DEF IInv, BufferInv
  <2> QED
    BY Zenon, <2>1, <2>3, <1>0, <1>2 DEF BufferInv, Span
<1>6. ASSUME NEW d, Placed(d) PROVE Placed(d)'
  BY Zenon, <1>2, <1>6 DEF Placed, header, Intact, Ends, Span
<1>7. DirInv'
  <2>1. Placed(n)' /\ n.lap + 1 >= cycle
    BY <1>0, <1>1, <1>2, <1>3 DEF Placed, Ends, IInv, CursorInv, header, Nats
  <2> QED
    BY Zenon, <1>2, <1>6, <2>1 DEF IInv, DirInv, header
<1>8. CopiedInv'
  BY Zenon, <1>2, <1>6 DEF IInv, CopiedInv, header, Ends, Intact, Span
<1>9. ReadsInv'
  <2> SUFFICES ASSUME NEW r \in Readers, reads[r].busy PROVE ReadInv(r)'
    BY Zenon, <1>2 DEF ReadsInv, ReadInv
  <2>1. ReadInv(r)
    BY Zenon DEF IInv, ReadsInv
  <2>2. reads[r].doc \in Docs /\ reads[r].doc.lap \in Nat
    BY Zenon, <2>1, DocTypes DEF ReadInv
  <2>3. reads[r].doc.lap + 2 = cycle => reads[r].doc.off >= write_pos + buffer_pos + n.len
    <3>1. reads[r].doc.lap + 2 <= cycle => reads[r].doc.off >= write_pos + buffer_pos + n.len
      BY Zenon, <1>1 DEF Aggregate, ReadsEnded
    <3> QED
      BY <3>1, <2>2, <1>0 DEF Nats
  <2>4. write_pos + (buffer_pos + n.len) = write_pos + buffer_pos + n.len
    BY <1>0, <1>3 DEF Nats
  <2> QED
    BY Zenon, <2>1, <2>3, <2>4, <1>2 DEF ReadInv, header, Ends, Intact, Span
<1> QED
  BY Zenon, <1>0, <1>4, <1>5, <1>7, <1>8, <1>9 DEF IInv

\* agg_wrap: this lap becomes the lap before, and the entries of the lap before
\* fail the test for this one.
LEMMA WrapStep == IInv /\ agg_wrap => IInv'
<1> SUFFICES ASSUME IInv, agg_wrap PROVE IInv'
  BY Zenon
<1>0. TypeOK' /\ Nats /\ ~io /\ buffer = {} /\ buffer_pos = 0
  <2>1. [Next]_vars
    BY Zenon DEF Next, aggWrite
  <2> QED
    BY Zenon, <2>1, TypeStep, NatsHold, EmptyBuffer DEF IInv, CursorInv, agg_wrap
<1>1. /\ write_pos' = 0 /\ agg_pos' = 0 /\ phase' = 1 - phase /\ cycle' = cycle + 1
      /\ UNCHANGED <<buffer, buffer_pos, io, todo, disk, tocall, reads, copied, lost>>
  BY Zenon DEF agg_wrap
<1>2. cycle \in Nat /\ phase = cycle % 2 /\ phase' = cycle' % 2
  BY Zenon, <1>0, <1>1, Parity DEF Nats, IInv, CursorInv
<1>3. CursorInv'
  BY <1>0, <1>1, <1>2 DEF IInv, CursorInv
<1>4. BufferInv'
  BY Zenon, <1>0, <1>1 DEF BufferInv
<1>5. ASSUME NEW d \in Docs, Placed(d) PROVE Placed(d)' /\ d.lap # cycle'
  <2>1. d.lap \in Nat /\ d.lap <= cycle
    BY Zenon, <1>5, DocTypes DEF Placed
  <2>2. d.lap <= cycle' /\ d.lap # cycle' /\ (d.lap + 1 = cycle' => d.lap = cycle)
    BY <2>1, <1>1, <1>2
  <2> QED
    BY Zenon, <2>2, <1>0, <1>1, <1>5 DEF Placed, Intact, Ends, Span
<1>6. DirInv'
  <2>1. ASSUME NEW d \in (dir \cup tocall)' PROVE Placed(d)' /\ d.lap + 1 >= cycle'
    <3>1. d \in dir \cup tocall /\ d \in Docs
      BY Zenon, <1>1 DEF agg_wrap, IInv, TypeOK
    <3>2. Placed(d) /\ d.lap + 1 >= cycle /\ d.lap \in Nat /\ d.off \in Nat
      BY Zenon, <3>1, DocTypes DEF IInv, DirInv
    <3>3. d.lap = cycle
      <4>1. CASE d \in tocall
        BY Zenon, <4>1 DEF agg_wrap
      <4>2. CASE d \in dir' /\ d.lap + 1 = cycle
        <5>1. d.phase = phase'
          BY <4>2, <3>2, <1>2, <1>1, Parity DEF Placed
        <5>2. dir_valid(d)'
          BY Zenon, <4>2 DEF agg_wrap
        <5>3. d.off < write_pos' + buffer_pos'
          BY Zenon, <5>1, <5>2 DEF dir_valid, vol_in_phase_valid
        <5> QED
          BY <5>3, <3>2, <1>0, <1>1
      <4> QED
        BY <4>1, <4>2, <3>2, <2>1, <1>1, <1>2 DEF Placed
    <3> QED
      BY <3>1, <3>2, <3>3, <1>1, <1>2, <1>5
  <2> QED
    BY Zenon, <2>1 DEF DirInv
<1>7. CopiedInv'
  BY Zenon, <1>1, <1>5 DEF IInv, TypeOK, CopiedInv
<1>8. ReadsInv'
  <2> SUFFICES ASSUME NEW r \in Readers, reads[r].busy PROVE ReadInv(r)'
    BY Zenon, <1>1 DEF ReadsInv, ReadInv
  <2> PICK d : d = reads[r].doc
    BY Zenon
  <2>1. ReadInv(r) /\ d \in Docs
    BY Zenon DEF IInv, ReadsInv, ReadInv
  <2>2. d.lap \in Nat /\ d.off \in Nat /\ d.off < STRIPE_LEN /\ d.lap <= cycle /\ d.lap + 2 >= cycle
    BY <2>1, <1>0, DocTypes, SMTT(30) DEF Docs, Positions, ReadInv, Nats
  <2>3. d.lap + 2 # cycle
    <3>1. d.lap + 2 <= cycle => d.off >= STRIPE_LEN
      BY Zenon DEF agg_wrap, ReadsEnded
    <3> QED
      BY <3>1, <2>2, <1>0, <1>2, SMTT(30) DEF Nats
  <2>4. /\ d.lap <= cycle' /\ d.lap + 2 >= cycle' /\ d.lap # cycle'
        /\ d.lap + 1 = cycle' => d.lap = cycle
        /\ d.off >= write_pos' + buffer_pos'
    BY <2>2, <2>3, <1>0, <1>1, <1>2, SMTT(30)
  <2> QED
    BY Zenon, <2>1, <2>4, <1>1 DEF ReadInv, Ends, Intact, Span
<1> QED
  BY Zenon, <1>0, <1>3, <1>4, <1>6, <1>7, <1>8 DEF IInv

\* StartWrite only moves the write limit, which disowns what is about to be
\* overwritten.
LEMMA StartStep == IInv /\ StartWrite => IInv'
<1> SUFFICES ASSUME IInv, StartWrite PROVE IInv'
  BY Zenon
<1>0. TypeOK' /\ Nats /\ ~io /\ agg_pos = write_pos
  <2>1. [Next]_vars
    BY Zenon DEF Next, aggWrite
  <2> QED
    BY Zenon, <2>1, TypeStep, NatsHold DEF IInv, CursorInv, StartWrite
<1>1. /\ agg_pos' = write_pos + buffer_pos /\ io' /\ ~aggregating'
      /\ todo' = write_pos .. write_pos + buffer_pos - 1
      /\ UNCHANGED <<write_pos, phase, cycle, buffer, buffer_pos, disk, dir, tocall, reads, copied, lost>>
  BY Zenon DEF StartWrite
<1>2. CursorInv'
  BY Zenon, <1>0, <1>1 DEF IInv, CursorInv
<1>3. BufferInv'
  <2>1. ASSUME NEW d \in buffer, NEW p \in Span(d) PROVE p \in todo'
    <3>1. d \in Docs /\ d.off >= write_pos /\ Ends(d, write_pos + buffer_pos)
      BY Zenon DEF IInv, TypeOK, BufferInv
    <3> QED
      BY <3>1, <1>0, <1>1, DocTypes DEF Span, Ends, Nats
  <2> QED
    BY Zenon, <2>1, <1>1 DEF IInv, BufferInv, Ends, Span
<1>4. ASSUME NEW d \in Docs, d.off >= agg_pos' PROVE d.off >= agg_pos
  BY <1>0, <1>1, <1>4, DocTypes DEF Nats
<1>5. ASSUME NEW d \in Docs, Placed(d) PROVE Placed(d)'
  BY Zenon, <1>1, <1>4, <1>5 DEF Placed, Intact, Ends, Span
<1>6. DirInv'
  BY Zenon, <1>1, <1>5 DEF IInv, TypeOK, DirInv
<1>7. CopiedInv'
  BY Zenon, <1>1, <1>5 DEF IInv, TypeOK, CopiedInv, Ends, Intact, Span
<1>8. ReadsInv'
  BY <1>1, <1>4, ZenonT(30) DEF IInv, ReadsInv, ReadInv, Ends, Intact, Span
<1> QED
  BY Zenon, <1>0, <1>2, <1>3, <1>6, <1>7, <1>8 DEF IInv

\* WriteBlock touches only blocks between write_pos and the write limit.
LEMMA BlockStep == IInv /\ WriteBlock => IInv'
<1> SUFFICES ASSUME IInv, WriteBlock PROVE IInv'
  BY Zenon
<1>0. TypeOK' /\ Nats /\ io /\ agg_pos = write_pos + buffer_pos
  <2>1. [Next]_vars
    BY Zenon DEF Next
  <2> QED
    BY Zenon, <2>1, TypeStep, NatsHold DEF IInv, CursorInv, WriteBlock
<1>1. UNCHANGED <<header, buffer, buffer_pos, io, dir, tocall, reads, copied, aggregating, lost>>
  BY Zenon DEF WriteBlock
<1>2. PICK b \in buffer : \E p \in Span(b) \cap todo :
        disk' = [disk EXCEPT ![p] = b] /\ todo' = todo \ {p}
  BY Zenon DEF WriteBlock
<1>3. PICK q \in Span(b) \cap todo : disk' = [disk EXCEPT ![q] = b] /\ todo' = todo \ {q}
  BY Zenon, <1>2
<1>4. disk'[q] = b /\ \A p \in Positions : p # q => disk'[p] = disk[p]
  BY Zenon, <1>3 DEF IInv, TypeOK
<1>5. q \in Nat /\ write_pos <= q /\ q < agg_pos
  <2>1. b \in Docs /\ b.off >= write_pos /\ Ends(b, write_pos + buffer_pos)
    BY Zenon DEF IInv, TypeOK, BufferInv
  <2> QED
    BY <2>1, <1>0, <1>3, DocTypes DEF Span, Ends, Nats
<1>6. ASSUME NEW d \in Docs, Ends(d, STRIPE_LEN), Ends(d, write_pos) \/ d.off >= agg_pos, Intact(d)
      PROVE  Intact(d)'
  <2>1. d.off \in Nat /\ d.len \in Nat /\ d.len >= 1
    BY Zenon, DocTypes
  <2>2. \A p \in Span(d) : p \in Positions /\ p # q
    BY <2>1, <1>0, <1>5, <1>6 DEF Span, Ends, Positions, Nats
  <2> QED
    BY Zenon, <2>2, <1>4, <1>6 DEF Intact, Span
<1>7. CursorInv'
  BY Zenon, <1>0, <1>1 DEF IInv, CursorInv, header
<1>8. BufferInv'
  <2>1. ASSUME NEW d \in buffer, NEW p \in Span(d) PROVE p \in todo' \/ disk'[p] = d
    <3>1. d \in Docs /\ d.off >= write_pos /\ Ends(d, write_pos + buffer_pos)
      BY Zenon DEF IInv, TypeOK, BufferInv
    <3>2. p \in Positions
      BY <3>1, <1>0, DocTypes DEF Span, Ends, Positions, Nats, IInv, CursorInv
    <3>3. p \in todo \/ disk[p] = d
      BY Zenon, <1>0 DEF IInv, BufferInv
    <3>4. CASE p = q
      <4>1. d = b
        BY Zenon, <3>4, <1>3 DEF IInv, BufferInv
      <4> QED
        BY Zenon, <4>1, <3>4, <1>4
    <3>5. CASE p # q
      BY Zenon, <3>2, <3>3, <3>5, <1>3, <1>4
    <3> QED
      BY Zenon, <3>4, <3>5
  <2> QED
    BY Zenon, <2>1, <1>1 DEF IInv, BufferInv, header, Ends, Span
<1>9. ASSUME NEW d \in Docs, Placed(d) PROVE Placed(d)'
  BY Zenon, <1>1, <1>6, <1>9 DEF Placed, header, Ends
<1>10. DirInv'
  BY Zenon, <1>1, <1>9 DEF IInv, TypeOK, DirInv, header
<1>11. CopiedInv'
  <2>1. ASSUME NEW d \in copied, d.lap = cycle PROVE (Ends(d, write_pos) /\ Intact(d))'
    <3>1. d \in Docs /\ Placed(d) /\ Ends(d, write_pos) /\ Intact(d)
      BY Zenon, <2>1 DEF IInv, TypeOK, CopiedInv
    <3> QED
      BY Zenon, <3>1, <1>1, <1>6 DEF Placed, Ends, header
  <2> QED
    BY Zenon, <2>1, <1>1, <1>9 DEF IInv, TypeOK, CopiedInv, header
<1>12. ReadsInv'
  <2> SUFFICES ASSUME NEW r \in Readers, reads[r].busy PROVE ReadInv(r)'
    BY Zenon, <1>1 DEF ReadsInv, ReadInv
  <2>1. ReadInv(r) /\ reads[r].doc \in Docs
    BY Zenon DEF IInv, ReadsInv, ReadInv
  <2> QED
    BY Zenon, <2>1, <1>1, <1>6 DEF ReadInv, header, Ends
<1> QED
  BY Zenon, <1>0, <1>7, <1>8, <1>10, <1>11, <1>12 DEF IInv

\* aggWriteDone: all of the buffer is on disk and behind the write position.
LEMMA DoneStep == IInv /\ aggWriteDone => IInv'
<1> SUFFICES ASSUME IInv, aggWriteDone PROVE IInv'
  BY Zenon
<1>0. TypeOK' /\ Nats /\ io /\ agg_pos = write_pos + buffer_pos /\ todo = {}
  <2>1. [Next]_vars
    BY Zenon DEF Next
  <2> QED
    BY Zenon, <2>1, TypeStep, NatsHold DEF IInv, CursorInv, aggWriteDone
<1>1. /\ write_pos' = write_pos + buffer_pos /\ buffer' = {} /\ buffer_pos' = 0 /\ ~io'
      /\ UNCHANGED <<agg_pos, phase, cycle, disk, dir, tocall, reads, lost>>
  BY Zenon DEF aggWriteDone
<1>2. CursorInv'
  BY <1>0, <1>1, SMTT(30) DEF IInv, CursorInv, Nats
<1>3. BufferInv'
  BY Zenon, <1>1 DEF BufferInv
<1>4. ASSUME NEW d \in Docs, Ends(d, write_pos) PROVE Ends(d, write_pos)'
  BY <1>0, <1>1, <1>4, DocTypes DEF Ends, Nats
<1>5. ASSUME NEW d \in buffer PROVE Ends(d, write_pos)' /\ Intact(d)
  BY Zenon, <1>0, <1>1 DEF IInv, BufferInv, Ends, Intact
<1>6. ASSUME NEW d \in Docs, Placed(d) PROVE Placed(d)'
  BY Zenon, <1>1, <1>4, <1>5, <1>6 DEF Placed, Intact, Span, Ends
<1>7. DirInv'
  BY Zenon, <1>1, <1>6 DEF IInv, TypeOK, DirInv
<1>8. CopiedInv'
  <2>1. CASE waiting
    BY Zenon, <2>1, <1>1, <1>7, CopyStep DEF aggWriteDone
  <2>2. CASE UNCHANGED copied
    <3>1. ASSUME NEW d \in copied PROVE Placed(d)' /\ (d.lap = cycle => Ends(d, write_pos) /\ Intact(d))'
      <4>1. d \in Docs /\ Placed(d) /\ (d.lap = cycle => Ends(d, write_pos) /\ Intact(d))
        BY Zenon DEF IInv, TypeOK, CopiedInv
      <4> QED
        BY Zenon, <4>1, <1>1, <1>4, <1>6 DEF Intact, Span
    <3> QED
      BY Zenon, <3>1, <2>2 DEF CopiedInv
  <2> QED
    BY Zenon, <2>1, <2>2 DEF aggWriteDone
<1>9. ReadsInv'
  <2> SUFFICES ASSUME NEW r \in Readers, reads[r].busy PROVE ReadInv(r)'
    BY Zenon, <1>1 DEF ReadsInv, ReadInv
  <2>1. ReadInv(r) /\ reads[r].doc \in Docs
    BY Zenon DEF IInv, ReadsInv, ReadInv
  <2>2. write_pos' + buffer_pos' = write_pos + buffer_pos
    BY <1>0, <1>1 DEF Nats
  <2> QED
    BY Zenon, <2>1, <2>2, <1>1, <1>4 DEF ReadInv, Intact, Span, Ends
<1> QED
  BY Zenon, <1>0, <1>2, <1>3, <1>7, <1>8, <1>9 DEF IInv

\* A read begins at a document that is whole on disk.
LEMMA ReadStep ==
  ASSUME IInv, NEW r \in Readers, NEW d \in dir, handleRead(r, d)
  PROVE  ReadsInv'
<1>1. /\ reads' = [reads EXCEPT ![r] = [busy |-> TRUE, doc |-> d, next |-> 0, good |-> TRUE]]
      /\ UNCHANGED <<header, buffer, buffer_pos, disk>>
  BY Zenon DEF handleRead
<1>2. Nats /\ d \in Docs /\ Placed(d) /\ d.lap + 1 >= cycle
  BY Zenon, NatsHold DEF IInv, TypeOK, DirInv
<1>3. d.lap \in Nat /\ d.off \in Nat /\ d.len \in Nat /\ d.len >= 1
  BY Zenon, <1>2, DocTypes
<1>4. d.lap = cycle => Ends(d, write_pos) /\ Intact(d)
  <2> SUFFICES ASSUME d.lap = cycle, d \in buffer PROVE FALSE
    BY Zenon, <1>2 DEF Placed
  <2>1. d.phase = phase
    BY Zenon, <1>2 DEF Placed, IInv, CursorInv
  <2>2. d.off >= write_pos /\ d.off < write_pos + buffer_pos
    BY <1>2, <1>3, SMTT(30) DEF IInv, BufferInv, Ends, Nats
  <2> QED
    BY Zenon, <2>1, <2>2 DEF handleRead, dir_agg_buf_valid
<1>5. d.lap + 2 >= cycle /\ d.lap + 2 # cycle
  BY <1>2, <1>3 DEF Nats
<1>6. reads'[r] = [busy |-> TRUE, doc |-> d, next |-> 0, good |-> TRUE]
  BY Zenon, <1>1 DEF IInv, TypeOK
<1>7. ReadInv(r)'
  <2>1. /\ d.phase = d.lap % 2 /\ Ends(d, STRIPE_LEN) /\ d.lap <= cycle
        /\ d.lap + 1 = cycle /\ d.off >= agg_pos => Intact(d)
    BY Zenon, <1>2 DEF Placed
  <2>2. reads'[r].doc = d /\ reads'[r].good
    BY <1>6, SMTT(30)
  <2>3. UNCHANGED <<write_pos, agg_pos, cycle, buffer_pos>> /\ (Intact(d) => Intact(d)')
    BY Zenon, <1>1 DEF header, Intact, Span
  <2> QED
    BY Zenon, <1>2, <1>4, <1>5, <2>1, <2>2, <2>3 DEF ReadInv, Ends
<1>8. ASSUME NEW s \in Readers, s # r PROVE ReadInv(s)'
  <2>1. reads'[s] = reads[s]
    BY Zenon, <1>1, <1>8 DEF IInv, TypeOK
  <2> QED
    BY <1>1, <2>1, ZenonT(30) DEF IInv, ReadsInv, ReadInv, header, Intact, Ends, Span
<1> QED
  BY Zenon, <1>7, <1>8 DEF ReadsInv

\* A read that goes on sees the document as long as that is whole.
LEMMA ReadingStep ==
  ASSUME IInv, NEW r \in Readers, Reading(r)
  PROVE  ReadsInv'
<1>1. UNCHANGED <<header, buffer, buffer_pos, disk>>
  BY Zenon DEF Reading, ReadBlock, handleReadDone
<1>2. ASSUME NEW s \in Readers, s # r PROVE ReadInv(s)'
  <2>1. reads'[s] = reads[s]
    BY Zenon, <1>2 DEF IInv, TypeOK, Reading, ReadBlock, handleReadDone
  <2> QED
    BY Zenon, <1>1, <2>1 DEF IInv, ReadsInv, ReadInv, header, Intact, Ends, Span
<1>3. CASE ReadBlock(r)
  <2> PICK d, n : d = reads[r].doc /\ n = reads[r].next
    BY Zenon
  <2>1. ReadInv(r) /\ reads[r].busy /\ d \in Docs /\ n \in Nat /\ n < d.len
    BY Zenon, <1>3 DEF ReadBlock, IInv, ReadsInv, ReadInv, TypeOK, Reads
  <2>2. d.off + n \in Span(d)
    <3>1. d.off \in Nat /\ d.len \in Nat
      BY Zenon, <2>1, DocTypes
    <3>2. d.off + n \in d.off .. d.off + d.len - 1
      BY <2>1, <3>1, SMTT(30)
    <3> QED
      BY Zenon, <3>2 DEF Span
  <2>3. reads'[r].busy /\ reads'[r].doc = d /\ (reads[r].good /\ Intact(d) => reads'[r].good)
    BY Zenon, <1>3, <2>2 DEF ReadBlock, IInv, TypeOK, Intact
  <2>4. ReadInv(r)'
    BY Zenon, <1>1, <2>1, <2>3 DEF ReadInv, header, Intact, Ends, Span
  <2> QED
    BY Zenon, <1>2, <2>4 DEF ReadsInv
<1>4. CASE handleReadDone(r)
  <2>1. ~reads'[r].busy
    BY Zenon, <1>4 DEF handleReadDone, IInv, TypeOK, Idle
  <2> QED
    BY Zenon, <1>2, <2>1 DEF ReadsInv, ReadInv
<1> QED
  BY Zenon, <1>3, <1>4 DEF Reading

\* Every step keeps the invariant.
LEMMA IInvStep == IInv /\ [Next]_vars => IInv'
<1> SUFFICES ASSUME IInv, [Next]_vars PROVE IInv'
  BY Zenon
<1>0. TypeOK' /\ (aggregating => ~io)
  BY Zenon, TypeStep DEF IInv, CursorInv
<1>1. ASSUME NEW l \in Sizes, handleWrite(l) PROVE IInv'
  BY Zenon, <1>0, <1>1, QuietStep, QuietRest DEF handleWrite, add_writer, IInv
<1>2. CASE Lwait
  BY Zenon, <1>0, <1>2, QuietStep, QuietRest DEF Lwait, IInv
<1>3. ASSUME NEW d \in tocall, openWriteCloseHeadDone(d) PROVE IInv'
  <2>1. CursorInv' /\ BufferInv' /\ \A e : Placed(e)' <=> Placed(e)
    BY Zenon, <1>0, <1>3, QuietStep DEF openWriteCloseHeadDone
  <2>2. DirInv'
    BY Zenon, <1>3, <2>1 DEF openWriteCloseHeadDone, IInv, DirInv, header
  <2> QED
    BY Zenon, <1>0, <1>3, <2>1, <2>2, QuietRest DEF openWriteCloseHeadDone, IInv
<1>4. ASSUME NEW d \in dir, Forget(d) PROVE IInv'
  <2>1. CursorInv' /\ BufferInv' /\ \A e : Placed(e)' <=> Placed(e)
    BY Zenon, <1>0, <1>4, QuietStep DEF Forget
  <2>2. DirInv'
    BY Zenon, <1>4, <2>1 DEF Forget, IInv, DirInv, header
  <2> QED
    BY Zenon, <1>0, <1>4, <2>1, <2>2, QuietRest DEF Forget, IInv
<1>5. CASE mainEvent
  <2>1. /\ UNCHANGED <<header, buffer, buffer_pos, io, todo, disk, dir, tocall, reads, lost>>
        /\ io => ~aggregating'
    BY Zenon, <1>0, <1>5 DEF mainEvent
  <2>2. CursorInv' /\ BufferInv' /\ DirInv' /\ ReadsInv' /\ (UNCHANGED copied => CopiedInv')
    BY Zenon, <2>1, QuietStep, QuietRest
  <2>3. CASE io \/ buffer_pos > 0
    BY Zenon, <1>0, <1>5, <2>2, <2>3 DEF mainEvent, IInv
  <2>4. CASE ~(io \/ buffer_pos > 0)
    <3>1. buffer_pos = 0
      BY <2>4, NatsHold DEF IInv, Nats
    <3>2. CopiedInv'
      BY Zenon, <1>5, <2>1, <2>2, <2>4, <3>1, EmptyBuffer, CopyStep DEF mainEvent
    <3> QED
      BY Zenon, <1>0, <2>2, <3>2 DEF IInv
  <2> QED
    BY Zenon, <2>3, <2>4
<1>6. ASSUME NEW r \in Readers, NEW d \in dir, handleRead(r, d) PROVE IInv'
  <2>1. ReadsInv'
    BY Zenon, <1>6, ReadStep
  <2> QED
    BY Zenon, <1>0, <1>6, <2>1, QuietStep, QuietRest DEF handleRead, IInv
<1>7. ASSUME NEW r \in Readers, Reading(r) PROVE IInv'
  <2>1. ReadsInv'
    BY Zenon, <1>7, ReadingStep
  <2> QED
    BY <1>0, <1>7, <2>1, QuietStep, QuietRest, SMTT(30) DEF Reading, ReadBlock, handleReadDone, IInv
<1>8. CASE UNCHANGED vars
  BY Zenon, <1>0, <1>8, QuietStep, QuietRest DEF vars, header, IInv
<1> QED
  BY Zenon, <1>1, <1>2, <1>3, <1>4, <1>5, <1>6, <1>7, <1>8, AggregateStep, WrapStep, StartStep, BlockStep, DoneStep
     DEF Next, aggWrite

\* The invariant holds in every reachable state.
LEMMA IInvAlways == Spec => []IInv
  BY IInvInit, IInvStep, PTL DEF Spec

\* The type invariant of the stripe: the cursors stay inside of the stripe and
\* the buffer inside of its size.
THEOREM StripeTypes == Spec => []TypeOK
  BY IInvAlways, IInvImplies, PTL

\* An entry that dir_valid accepts leads to the whole document it was inserted for.
THEOREM ValidEntriesLead == Spec => []EntriesLead
  BY IInvAlways, IInvImplies, PTL

\* A read from disk that handleReadDone accepts is of one whole document.
THEOREM AcceptedReadsIntact == Spec => []ReadsIntact
  BY IInvAlways, IInvImplies, PTL

\* What a directory sync copies as valid is on disk until the log comes round.
THEOREM CopiesOnDisk == Spec => []CopyOnDisk
  BY IInvAlways, IInvImplies, PTL
=============================================================================
