--------------------------- MODULE CacheDirectory ---------------------------
(***************************************************************************)
(* The in-memory directory of a stripe (CacheDir.cc, P_CacheDir.h): one     *)
(* segment of buckets whose entries are chained through the segment's rows, *)
(* the free list that is threaded through the unused ones, and a reader     *)
(* that goes on from last_collision in later calls of probe.                *)
(*                                                                          *)
(* Segments do not share anything.  An operation holds the stripe's mutex   *)
(* and is one action.  Row 0 of a bucket is its root, which is never on the *)
(* free list, so that the index 0 stands for "none" in next and prev.       *)
(* An entry is told from others by its offset; dir_valid is whether the     *)
(* offset has expired.  The limit on the length of a chain and the repair   *)
(* of loops are left out: Partition says that they are not needed, unless   *)
(* the directory was corrupt when it was read from disk.                    *)
(***************************************************************************)
EXTENDS Integers, FiniteSets, SequencesExt

CONSTANTS
  BUCKETS,   \* Directory::buckets
  DEPTH,     \* DIR_DEPTH
  Keys,
  Bucket(_), \* key->slice32(1) % buckets
  Tag(_),    \* DIR_MASK_TAG(key->slice32(2))
  IsHead(_), \* dir_head: the entry is for the first fragment of a document
  Offsets,   \* offsets of documents
  ReadKeys,  \* bound: the keys that are looked up
  NoKey

Nil == -1  \* nullptr
Slots == 0 .. BUCKETS * DEPTH - 1
Buckets == 0 .. BUCKETS - 1
Root(b) == b * DEPTH
Roots == {Root(b) : b \in Buckets}
max_bucket_depth == (DEPTH - 1) * BUCKETS + 1

ASSUME DirectoryAssumption ==
  /\ BUCKETS \in Nat \ {0} /\ DEPTH \in Nat \ {0}
  /\ \A k \in Keys : Bucket(k) \in Buckets
  /\ 0 \notin Offsets /\ ReadKeys \subseteq Keys

VARIABLES
  seg,      \* the segment: its entries, free list and gauge, and header->dirty
  expired,  \* offsets that dir_valid rejects
  reader,   \* a CacheVC in openReadStartHead
  hung      \* insert or overwrite goes round for ever

vars == <<seg, expired, reader, hung>>

Empty == [off |-> 0, key |-> NoKey, prev |-> 0, next |-> 0]
Pointer(i) == IF i = 0 THEN Nil ELSE i
next_dir(s, e) == Pointer(s.e[e].next)
dir_valid(s, e) == s.e[e].off \notin expired

\* The entries from e on, in order.
RECURSIVE From(_, _, _)
From(s, e, n) ==
  IF e = Nil \/ n = 0 THEN <<>> ELSE <<e>> \o From(s, next_dir(s, e), n - 1)

Chain(s, b) == IF s.e[Root(b)].off = 0 THEN <<>> ELSE From(s, Root(b), max_bucket_depth + 1)
FreeList(s) == From(s, Pointer(s.free), max_bucket_depth + 1)

----------------------------------------------------------------------------
(* The free list                                                           *)

free_entry(s, e) ==
  LET linked == [s.e EXCEPT ![e].next = s.free]
  IN  [s EXCEPT !.free = e,
                !.e = IF s.free = 0 THEN linked ELSE [linked EXCEPT ![s.free].prev = e]]

entries_used(s) == Cardinality({i \in Slots : s.e[i].off # 0})

\* All the entries but the roots are free.
init_segment(s) ==
  LET rows == [i \in 1 .. (DEPTH - 1) * BUCKETS |-> Root((i - 1) % BUCKETS) + 1 + (i - 1) \div BUCKETS]
      wiped == [e |-> [i \in Slots |-> Empty], free |-> 0, used |-> s.used - entries_used(s), dirty |-> TRUE]
  IN  FoldLeft(free_entry, wiped, rows)

\* Mutant of unlink_from_freelist: the next entry's prev is not updated.
unlink_from_freelistMutant(s, e) ==
  LET p == s.e[e].prev
      n == s.e[e].next
  IN  IF p = 0 THEN [s EXCEPT !.free = n] ELSE [s EXCEPT !.e[p].next = n]

unlink_from_freelist(s, e) ==
  LET p == s.e[e].prev
      n == s.e[e].next
      unlinked == IF p = 0 THEN [s EXCEPT !.free = n] ELSE [s EXCEPT !.e[p].next = n]
  IN  IF n = 0 THEN unlinked ELSE [unlinked EXCEPT !.e[n].prev = p]

----------------------------------------------------------------------------
(* Deleting                                                                *)

\* Mutant of Unlink: the directory is not marked dirty.
UnlinkMutant(s, e, p) ==
  free_entry([s EXCEPT !.e[p].next = s.e[e].next, !.e[e] = Empty], e)

\* delete_entry for an entry e that p precedes.
Unlink(s, e, p) ==
  free_entry([s EXCEPT !.e[p].next = s.e[e].next, !.e[e] = Empty, !.dirty = TRUE], e)

\* The segment after it and the entry to go on with.  A root cannot move: the
\* second entry is copied to it and removed in its place.
delete_entry(s, e, p) ==
  LET n == next_dir(s, e)
  IN  IF p # Nil THEN [seg |-> Unlink(s, e, p), e |-> n]
      ELSE IF n # Nil THEN [seg |-> Unlink([s EXCEPT !.e[e] = s.e[n]], n, e), e |-> e]
      ELSE [seg |-> [s EXCEPT !.e[e] = Empty, !.dirty = TRUE], e |-> Nil]

\* dir_clean_bucket from e on, p being the entry before it.
RECURSIVE CleanFrom(_, _, _)
CleanFrom(s, e, p) ==
  IF e = Nil THEN s
  ELSE IF s.e[e].off = 0 \/ ~dir_valid(s, e)
       THEN LET d == delete_entry([s EXCEPT !.used = IF s.e[e].off = 0 THEN @ ELSE @ - 1], e, p)
            IN  CleanFrom(d.seg, d.e, p)
       ELSE CleanFrom(s, next_dir(s, e), e)

clean_segment(s) ==
  FoldLeft(LAMBDA t, b : CleanFrom(t, Root(b), Nil), s, [b \in 1 .. BUCKETS |-> b - 1])

\* Offsets are zeroed first and the entries deleted by cleaning.
Zero(s, which) ==
  [s EXCEPT !.e = [i \in Slots |-> IF i \in which THEN [s.e[i] EXCEPT !.off = 0] ELSE s.e[i]],
            !.used = @ - Cardinality(which)]

\* Mutant of freelist_clean: also when cleaning freed an entry.
freelist_cleanAlways(s) ==
  LET t == clean_segment(s)
      heads == {i \in Slots : t.e[i].off # 0 /\ IsHead(t.e[i].key)}
  IN  clean_segment(Zero(t, {i \in heads : Cardinality({j \in heads : j < i}) % 10 = 0}))

\* Mutant of freelist_clean: the count begins at one.
freelist_cleanLate(s) ==
  LET t == clean_segment(s)
      heads == {i \in Slots : t.e[i].off # 0 /\ IsHead(t.e[i].key)}
      purged == {i \in heads : Cardinality({j \in heads : j < i}) % 10 = 9}
  IN  IF t.free # 0 THEN t ELSE clean_segment(Zero(t, purged))

\* Every tenth entry that begins a document is dropped if cleaning freed nothing.
freelist_clean(s) ==
  LET t == clean_segment(s)
      heads == {i \in Slots : t.e[i].off # 0 /\ IsHead(t.e[i].key)}
      purged == {i \in heads : Cardinality({j \in heads : j < i}) % 10 = 0}
  IN  IF t.free # 0 THEN t ELSE clean_segment(Zero(t, purged))

----------------------------------------------------------------------------
(* Inserting                                                               *)

freelist_pop(s) ==
  LET e == s.free
      n == s.e[e].next
      popped == [s EXCEPT !.free = n]
  IN  IF e = 0 THEN [seg |-> freelist_clean(s), e |-> Nil]
      ELSE IF s.e[e].off # 0 THEN [seg |-> init_segment(popped), e |-> Nil]
      ELSE [seg |-> IF n = 0 THEN popped ELSE [popped EXCEPT !.e[n].prev = 0], e |-> e]

\* Mutant of Link: at the head of the list, behind the root.
LinkMutant(s, b, e) ==
  [s EXCEPT !.e[e].next = s.e[Root(b)].next, !.e[Root(b)].next = e]

\* The entry becomes the last of its bucket.
Link(s, b, e) == [s EXCEPT !.e[e].next = 0, !.e[Last(Chain(s, b))].next = e]

\* Find an entry for bucket b: the root, another of its rows, one from the free
\* list, and start over when there was none.  It hangs when starting over finds
\* the segment as it was.
RECURSIVE Allocate(_, _)
Allocate(s, b) ==
  LET rows == {i \in Root(b) + 1 .. Root(b) + DEPTH - 1 : s.e[i].off = 0}
      row == CHOOSE i \in rows : \A j \in rows : i <= j
      pop == freelist_pop(s)
  IN  IF s.e[Root(b)].off = 0 THEN [seg |-> s, e |-> Root(b), hung |-> FALSE]
      ELSE IF rows # {} THEN [seg |-> Link(unlink_from_freelist(s, row), b, row), e |-> row, hung |-> FALSE]
      ELSE IF pop.e # Nil THEN [seg |-> Link(pop.seg, b, pop.e), e |-> pop.e, hung |-> FALSE]
      ELSE IF pop.seg.e = s.e THEN [seg |-> pop.seg, e |-> Nil, hung |-> TRUE]
      ELSE Allocate(pop.seg, b)

\* dir_assign_data and dir_set_tag: all but next is replaced.
Fill(s, e, k, o) ==
  [s EXCEPT !.e[e] = [off |-> o, key |-> k, prev |-> 0, next |-> s.e[e].next], !.dirty = TRUE]

insert(k, o) ==
  LET a == Allocate(seg, Bucket(k))
  IN  /\ hung' = a.hung
      /\ seg' = IF a.hung THEN a.seg ELSE Fill([a.seg EXCEPT !.used = @ + 1], a.e, k, o)

\* The place in the bucket's chain of an entry that matches, or 0.
Find(s, k, o) ==
  LET c == Chain(s, Bucket(k))
      at == {i \in 1 .. Len(c) : Tag(s.e[c[i]].key) = Tag(k) /\ s.e[c[i]].off = o}
  IN  IF at = {} THEN 0 ELSE CHOOSE i \in at : \A j \in at : i <= j

\* Mutant of overwrite: the gauge is raised for an entry that is replaced.
overwriteMutant(k, o, old, must) ==
  LET i == Find(seg, k, old)
      a == Allocate(seg, Bucket(k))
  IN  IF i # 0
         THEN seg' = Fill([seg EXCEPT !.used = @ + 1], Chain(seg, Bucket(k))[i], k, o) /\ hung' = FALSE
         ELSE IF must THEN UNCHANGED <<seg, hung>>
         ELSE /\ hung' = a.hung
              /\ seg' = IF a.hung THEN a.seg ELSE Fill([a.seg EXCEPT !.used = @ + 1], a.e, k, o)

\* Replace the entry, and insert the new one if it is not there unless it must be.
overwrite(k, o, old, must) ==
  LET i == Find(seg, k, old)
      a == Allocate(seg, Bucket(k))
  IN  IF i # 0 THEN seg' = Fill(seg, Chain(seg, Bucket(k))[i], k, o) /\ hung' = FALSE
         ELSE IF must THEN UNCHANGED <<seg, hung>>
         ELSE /\ hung' = a.hung
              /\ seg' = IF a.hung THEN a.seg ELSE Fill([a.seg EXCEPT !.used = @ + 1], a.e, k, o)


remove(k, o) ==
  LET c == Chain(seg, Bucket(k))
      i == Find(seg, k, o)
  IN  /\ i # 0
      /\ seg' = delete_entry([seg EXCEPT !.used = @ - 1], c[i], IF i = 1 THEN Nil ELSE c[i - 1]).seg
      /\ UNCHANGED hung

----------------------------------------------------------------------------
(* Probing                                                                 *)

\* From e on: entries up to and including the last collision are skipped, and
\* invalid ones deleted.
RECURSIVE Walk(_, _, _, _, _)
Walk(s, k, e, p, collision) ==
  IF e = Nil THEN [seg |-> s, found |-> Nil, collision |-> collision]
  ELSE IF Tag(s.e[e].key) # Tag(k) THEN Walk(s, k, next_dir(s, e), e, collision)
  ELSE IF collision # Nil THEN Walk(s, k, next_dir(s, e), e, IF collision = e THEN Nil ELSE collision)
  ELSE IF dir_valid(s, e) THEN [seg |-> s, found |-> e, collision |-> Nil]
  ELSE LET d == delete_entry([s EXCEPT !.used = @ - 1], e, p) IN Walk(d.seg, k, d.e, p, collision)

Search(s, k, collision) ==
  IF s.e[Root(Bucket(k))].off = 0 THEN [seg |-> s, found |-> Nil, collision |-> collision]
  ELSE Walk(s, k, Root(Bucket(k)), Nil, collision)

\* A collision that is no longer in the list: start over without it.
probe(s, k, collision) ==
  LET first == Search(s, k, collision)
  IN  IF first.found = Nil /\ first.collision # Nil THEN Search(first.seg, k, Nil) ELSE first

\* The offsets that are in chains, and those of valid entries of key k.
Held(s) == {s.e[i].off : i \in Slots} \ {0}
Present(s, k) == {s.e[i].off : i \in {j \in Slots : s.e[j].off # 0 /\ s.e[j].key = k}} \ expired

\* A reader that does nothing, but sees whether entries go away.
Noted == [reader EXCEPT !.quiet = @ /\ (reader.state = "reading" => Held(seg) \subseteq Held(seg'))]

\* Offsets that have expired, as far as anyone still has them.
StillExpired(s) == expired' = s \cap (Held(seg') \cup {reader'.off})

Idle == [state |-> "idle", key |-> NoKey, last |-> Nil, off |-> 0, doc |-> NoKey, quiet |-> TRUE, missed |-> {}]

\* The reader after a probe: it reads what was found, or has missed.
Probed(k, r, quiet) ==
  IF r.found # Nil
  THEN [state |-> "reading", key |-> k, last |-> r.found, off |-> r.seg.e[r.found].off,
        doc |-> r.seg.e[r.found].key, quiet |-> quiet, missed |-> {}]
  ELSE [Idle EXCEPT !.state = "miss", !.quiet = quiet, !.missed = Present(r.seg, k)]

\* Cache::open_read: the first probe for a key.
open_read(k) ==
  LET r == probe(seg, k, Nil)
  IN  /\ reader.state # "reading"
      /\ seg' = r.seg
      /\ reader' = Probed(k, r, TRUE)
      /\ StillExpired(expired)
      /\ UNCHANGED hung

\* The document was read.  It is another one with the same tag, or it is no
\* longer valid: probe again, in the latter case from the start.
openReadStartHead ==
  LET gone == reader.off \in expired
      r == probe(seg, reader.key, IF gone THEN Nil ELSE reader.last)
  IN  /\ reader.state = "reading"
      /\ IF ~gone /\ reader.doc = reader.key
         THEN reader' = Idle /\ UNCHANGED seg
         ELSE seg' = r.seg /\ reader' = Probed(reader.key, r, reader.quiet /\ Held(seg) \subseteq Held(r.seg))
      /\ StillExpired(expired)
      /\ UNCHANGED hung

----------------------------------------------------------------------------
(* The calls                                                               *)

Fresh == Offsets \ (Held(seg) \cup {reader.off})

Insert(k, o) ==
  /\ insert(k, o)
  /\ reader' = Noted
  /\ StillExpired(expired \ {o})

\* A document overwrites one of the same key, which may have gone.
Overwrite(k, o, old, must) ==
  /\ old \in Present(seg, k) \/ (old \in Fresh /\ old # o)
  /\ overwrite(k, o, old, must)
  /\ reader' = Noted
  /\ StillExpired(expired \ {o})

Drop(k, o) ==
  /\ remove(k, o)
  /\ reader' = Noted
  /\ StillExpired(expired)

\* The log reaches a document.
Expire(o) ==
  /\ expired' = expired \cup {o}
  /\ UNCHANGED <<seg, reader, hung>>

\* agg_wrap calls cleanup.
cleanup ==
  /\ seg' = clean_segment(seg)
  /\ reader' = Noted
  /\ StillExpired(expired)
  /\ UNCHANGED hung

clear_range(s, range) ==
  clean_segment(Zero(s, {i \in Slots : s.e[i].off \in range}))

\* A restart with the directory as it was written.  Recovery clears a range of
\* offsets, any set of them as their values are left open, and lowers the gauge
\* from 0.  Then cacheInitialized stores the number of entries used in it.
Restart(range) ==
  LET cleared == clear_range([seg EXCEPT !.used = 0], range)
  IN  /\ ~seg.dirty
      /\ seg' = [cleared EXCEPT !.used = entries_used(cleared)]
      /\ reader' = Idle
      /\ StillExpired(expired)
      /\ UNCHANGED hung

\* A directory sync has written the directory.
Sync == /\ seg.dirty
        /\ seg' = [seg EXCEPT !.dirty = FALSE]
        /\ UNCHANGED <<expired, reader, hung>>

Init ==
  /\ seg = init_segment([e |-> [i \in Slots |-> Empty], free |-> 0, used |-> 0, dirty |-> FALSE])
  /\ expired = {} /\ hung = FALSE
  /\ reader = Idle

Next ==
  /\ ~hung
  /\ \/ \E k \in Keys, o \in Fresh : Insert(k, o)
     \/ \E k \in Keys, o \in Fresh, old \in Offsets, must \in BOOLEAN : Overwrite(k, o, old, must)
     \/ \E k \in Keys, o \in Offsets : Drop(k, o)
     \/ \E o \in (Held(seg) \cup {reader.off}) \ (expired \cup {0}) : Expire(o)
     \/ cleanup
     \/ \E range \in SUBSET Held(seg) : Restart(range)
     \/ Sync
     \/ \E k \in ReadKeys : open_read(k)
     \/ openReadStartHead

Spec == Init /\ [][Next]_vars

----------------------------------------------------------------------------
(* Properties                                                              *)

Entries == [off : Offsets \cup {0}, key : Keys \cup {NoKey}, prev : Slots, next : Slots]

TypeOK ==
  /\ seg \in [e : [Slots -> Entries], free : Slots, used : 0 .. BUCKETS * DEPTH, dirty : BOOLEAN]
  /\ expired \subseteq Offsets /\ hung \in BOOLEAN
  /\ reader \in [state : {"idle", "reading", "miss"}, key : Keys \cup {NoKey}, last : Slots \cup {Nil},
                  off : Offsets \cup {0}, doc : Keys \cup {NoKey}, quiet : BOOLEAN, missed : SUBSET Offsets]

\* The chains and the free list share out the rows, whatever was inserted,
\* deleted or shuffled: an entry is in the chain of its own bucket, or it is
\* empty and on the free list, linked both ways.  What Directory::check asserts
\* follows, and no chain is longer than max_bucket_depth.
Partition ==
  LET free == FreeList(seg)
      chains == [b \in Buckets |-> Chain(seg, b)]
  IN  /\ TypeOK
      /\ \A b \in Buckets : \A i \in 1 .. Len(chains[b]) :
           LET e == chains[b][i] IN
           /\ seg.e[e].off # 0 /\ Bucket(seg.e[e].key) = b
           /\ i > 1 => e \notin Roots
      /\ \A i \in 1 .. Len(free) :
           /\ free[i] \notin Roots /\ seg.e[free[i]].off = 0
           /\ seg.e[free[i]].prev = IF i = 1 THEN 0 ELSE free[i - 1]
      /\ \A e \in Slots \ Roots :
           Cardinality({i \in 1 .. Len(free) : free[i] = e})
             + Cardinality({x \in Buckets \X (1 .. max_bucket_depth) :
                             x[2] <= Len(chains[x[1]]) /\ chains[x[1]][x[2]] = e}) = 1

\* The gauge direntries_used is the number of entries in use, also after purges,
\* cleanings and overwrites.
GaugeExact == seg.used = entries_used(seg)

\* A document that is valid loses its entry only to a call that names it, or
\* when it begins a document and every row that could be freed holds a valid one.
KeepsEntries ==
  [][\A i \in Slots :
       seg.e[i].off \in Held(seg) \ (Held(seg') \cup expired) =>
         \/ \E k \in Keys : Drop(k, seg.e[i].off)
         \/ \E k \in Keys, o \in Fresh, must \in BOOLEAN : Overwrite(k, o, seg.e[i].off, must)
         \/ \E range \in SUBSET Held(seg) : seg.e[i].off \in range /\ Restart(range)
         \/ IsHead(seg.e[i].key) /\ \A j \in Slots \ Roots : seg.e[j].off \in Held(seg) \ expired]_vars

\* CacheSync skips a directory that is not dirty: every change of an entry marks it.
ChangesMark == [][seg'.e # seg.e => seg'.dirty]_vars

\* insert and overwrite start over for ever only when the segment is full of
\* valid entries none of which begins a document.
HangsOnlyHeadless ==
  hung => \A i \in Slots \ Roots : seg.e[i].off \notin expired \cup {0} /\ ~IsHead(seg.e[i].key)

\* A reader that is told there is no document has missed none, if no entry went
\* away while it read: inserts at the tail do not hide entries from it.
QuietReaderFinds == reader.state = "miss" /\ reader.quiet => reader.missed = {}
=============================================================================
