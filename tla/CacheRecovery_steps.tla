-------------------------- MODULE CacheRecovery_steps -------------------------
(***************************************************************************)
(* The inductive invariant IInv of CacheRecovery, and that the stripe in    *)
(* service keeps it until it goes down.                                     *)
(*                                                                          *)
(* The argument follows one copy of the directory from the sync that takes  *)
(* it to the recovery that reads it back.  All that is written after the    *)
(* sync lies in one region that starts at its write_pos (Over); the         *)
(* documents of that region form a chain of growing serials that the scan   *)
(* cannot leave before its end; and a document outside it that the scan may *)
(* take for a part of the log ends at least the margin of recovery before   *)
(* the place where the next lap of the log reaches the copy's write_pos.    *)
(***************************************************************************)
EXTENDS CacheRecovery, TLAPS

\* The situations under which the properties fail are left out; reads may fail.
Ordinary == Situations \subseteq {"readError"}

Doc   == [ws : Nat, ss : Nat, len : 1 .. AGG_SIZE, k : 0 .. AGG_SIZE - 1]
Block == Doc \cup {NoBlock}
Disks == [Positions -> Block]
Entry == [off : Positions, phase : {0, 1}, ws : Nat, ss : Nat, len : 1 .. AGG_SIZE]
Recs  == [s : START .. END, e : START .. END, wrapped : BOOLEAN, lastSync : Nat, lastWrite : Nat,
          maxSync : Nat, prev : Nat]

\* The document that starts at p on disk d: its serials and where it ends.
IsDoc(d, p)   == Magic(d[p])
SyncOf(d, p)  == d[p].ss
WriteOf(d, p) == d[p].ws
EndOf(d, p)   == p + d[p].len

\* Position p of disk d holds its block of the document that e was inserted for.
Holds(d, p, e) == d[p] = [ws |-> e.ws, ss |-> e.ss, len |-> e.len, k |-> p - e.off]

\* No document that starts before b reaches beyond it.
Tiled(d, b) == \A q \in START .. b - 1 : IsDoc(d, q) => EndOf(d, q) <= b

\* The documents from a up to b follow each other, with serials that do not fall.
Chain(d, a, b) ==
  /\ a < b => IsDoc(d, a)
  /\ \A q \in a .. b - 1 : IsDoc(d, q) /\ EndOf(d, q) < b =>
       IsDoc(d, EndOf(d, q)) /\ SyncOf(d, q) <= SyncOf(d, EndOf(d, q))

----------------------------------------------------------------------------
(* A copy of the directory and the log written since.  Of the copy's header *)
(* there are W, its write_pos, L, its last_write_pos, S and C, its sync and *)
(* write serials, and whether the stripe is full: cycle > 0.  The log ends  *)
(* at F; if it has wrapped (w) it left the end of the stripe at G.          *)

\* What the log has overwritten since the copy was taken.
Over(W, w, G, F, p) == IF w THEN (W <= p /\ p < G) \/ p < F ELSE W <= p /\ p < F

\* The log stays EVACUATION_SIZE behind where it would overwrite the copy's own last documents.
Shape(W, w, G, F) ==
  /\ w => W <= G /\ G <= END /\ G > END - AGG_SIZE /\ START <= F /\ F < W - EVACUATION_SIZE
  /\ ~w => W <= F /\ F <= END /\ F - W < STRIPE_LEN - EVACUATION_SIZE

\* The write that ended at write_pos is still there.
LastWrite(W, L, C, d) ==
  /\ L < W => IsDoc(d, L)
  /\ \A q \in L .. W - 1 : IsDoc(d, q) =>
       /\ EndOf(d, q) < W => IsDoc(d, EndOf(d, q))
       /\ SyncOf(d, q) = SyncOf(d, L) /\ WriteOf(d, q) < C

\* The serials of the documents written since.
Newer(W, S, C, d, w, G, F, top) ==
  \A q \in START .. END - 1 : Over(W, w, G, F, q) /\ IsDoc(d, q) =>
    SyncOf(d, q) >= S /\ SyncOf(d, q) <= top /\ WriteOf(d, q) >= C
Below(W, d, w, G, F, C) ==
  \A q \in START .. END - 1 : Over(W, w, G, F, q) /\ IsDoc(d, q) => WriteOf(d, q) < C

\* Where the log wrapped: what it left behind at the end is older than its last document there,
\* and its first document at the front is not older than any of them.
Turn(W, L, d, G, F) ==
  /\ F > START => \A q \in W .. G - 1 : IsDoc(d, q) =>
       SyncOf(d, q) <= SyncOf(d, START) /\ WriteOf(d, q) <= WriteOf(d, START)
  /\ \A q \in W .. G - 1 : IsDoc(d, q) => EndOf(d, q) <= G
  /\ \A q \in L .. G - 1 : IsDoc(d, q) /\ EndOf(d, q) = G =>
       \A p \in G .. END - 1 : IsDoc(d, p) => SyncOf(d, p) < SyncOf(d, q)

\* Documents before the copy's write_pos, and after it when the stripe was full: older than the
\* copy, or far enough from where the log would meet write_pos again.
Ahead(W, S, C, d) ==
  \A p \in START .. W - 1 : IsDoc(d, p) =>
    (SyncOf(d, p) < S /\ WriteOf(d, p) < C) \/ EndOf(d, p) < W - EVACUATION_SIZE
Rest(W, S, C, full, d) ==
  full => \A p \in W .. END - 1 : IsDoc(d, p) =>
    SyncOf(d, p) < S \/ (WriteOf(d, p) >= C /\ EndOf(d, p) < W + STRIPE_LEN - EVACUATION_SIZE)
Older(W, S, full, d, w, G, F) ==
  \A p \in START .. END - 1 : ~Over(W, w, G, F, p) /\ IsDoc(d, p) /\ (p < W \/ full) => SyncOf(d, p) <= S

LogArgs(W, L, S, C, full, d, w, G, F, top) ==
  /\ W \in START .. END /\ L \in START .. END /\ S \in Nat /\ C \in Nat /\ full \in BOOLEAN /\ d \in Disks
  /\ w \in BOOLEAN /\ G \in START .. END /\ F \in START .. END /\ top \in Nat
Log(W, L, S, C, full, d, w, G, F, top) ==
  /\ LogArgs(W, L, S, C, full, d, w, G, F, top) /\ L < W /\ W - L <= AGG_SIZE /\ W # END - EVACUATION_SIZE
  /\ Shape(W, w, G, F) /\ LastWrite(W, L, C, d) /\ Tiled(d, W) /\ Tiled(d, L)
  /\ Chain(d, W, IF w THEN G ELSE F)
  /\ w => Chain(d, START, F) /\ Turn(W, L, d, G, F)
  /\ Newer(W, S, C, d, w, G, F, top)
  /\ Ahead(W, S, C, d) /\ Rest(W, S, C, full, d) /\ Older(W, S, full, d, w, G, F)

\* The entries lie within the stripe, those of the lap before what was written in it.
Placed(W, n, ph, first, es) ==
  \A e \in es : /\ e \in Entry /\ e.off + e.len <= END
                /\ e.phase = ph => e.off + e.len <= W + n
                /\ first => e.phase = ph

\* Every entry of the copy leads to its document unless that was overwritten since.
Kept(W, ph, es, d, w, G, F) ==
  \A e \in es : e.phase = ph \/ e.off >= W =>
    \A p \in e.off .. e.off + e.len - 1 : Over(W, w, G, F, p) \/ Holds(d, p, e)

LogSince(h, d, w, G, F, top) ==
  Log(h.write_pos, h.last_write_pos, h.sync_serial, h.write_serial, h.cycle > 0, d, w, G, F, top)
Copied(c, d, w, G, F, top) ==
  /\ c.header.agg_pos = c.header.write_pos
  /\ LogSince(c.header, d, w, G, F, top)
  /\ Placed(c.header.write_pos, 0, c.header.phase, c.header.cycle = 0, c.dir)
  /\ Kept(c.header.write_pos, c.header.phase, c.dir, d, w, G, F)

----------------------------------------------------------------------------
(* The stripe in service, with n blocks in flight *)

Flying(fl, C, S) == fl = <<>> \/ (C < MaxSerial /\ \E b \in Batches : fl = Blocks(b, C, S))

RunHead(W, L, A, dirty, n) ==
  /\ A = W + n /\ W - L <= AGG_SIZE
  /\ L >= W => W = START
  /\ n = 0 /\ W = START => ~dirty /\ L = START

\* The block that a reader finds at p, in the aggregation buffer or on disk.
Found(d, W, fl, p, e) ==
  IF W <= p /\ p < W + Len(fl) THEN fl[p - W + 1] = [ws |-> e.ws, ss |-> e.ss, len |-> e.len, k |-> p - e.off]
  ELSE Holds(d, p, e)
RunDir(W, ph, first, es, d, fl) ==
  /\ Placed(W, Len(fl), ph, first, es)
  /\ \A e \in es : e.phase = ph \/ e.off >= W + Len(fl) =>
       \A p \in e.off .. e.off + e.len - 1 : Found(d, W, fl, p, e)

RunDisk(W, L, S, C, full, d) ==
  /\ LastWrite(W, L, C, d) /\ Tiled(d, W) /\ Tiled(d, L)
  /\ \A p \in START .. END - 1 : IsDoc(d, p) /\ (p < W \/ full) => SyncOf(d, p) <= S
  /\ \A p \in START .. W - 1 : IsDoc(d, p) => WriteOf(d, p) < C \/ EndOf(d, p) < W - EVACUATION_SIZE

\* The log of header h has gone on since the copy with header g was taken.
GoneOn(g, h, n) ==
  /\ LogPosition(h) + n - LogPosition(g) < STRIPE_LEN - EVACUATION_SIZE
  /\ LogPosition(g) <= LogPosition(h) /\ g.cycle <= h.cycle /\ g.write_serial <= h.write_serial
  /\ g.sync_serial <= h.sync_serial /\ h.sync_serial <= g.sync_serial + 1
Cleared(c) == c = [header |-> ClearedHeader, dir |-> {}]
Since(c, h, n, d) ==
  /\ GoneOn(c.header, h, n)
  /\ c.header.sync_serial = 0 => Cleared(c)
  /\ c.header.sync_serial > 0 =>
       \E G \in START .. END :
         /\ Copied(c, d, h.cycle > c.header.cycle, G, h.write_pos, h.sync_serial)
         /\ Below(c.header.write_pos, d, h.cycle > c.header.cycle, G, h.write_pos, h.write_serial)

Copies == [header : Headers, dir : SUBSET Entry]
Syncing ==
  /\ copying = NoCopy => header.sync_serial = durable.header.sync_serial
  /\ copying # NoCopy =>
       /\ copying \in Copies /\ copying.header.sync_serial > 0
       /\ Since(copying, header, Len(flight), disk)
       /\ copying.header.sync_serial = header.sync_serial
       /\ header.sync_serial = durable.header.sync_serial + 1
       /\ LogPosition(durable.header) <= LogPosition(copying.header)

RunInv ==
  /\ Flying(flight, header.write_serial, header.sync_serial)
  /\ RunHead(header.write_pos, header.last_write_pos, header.agg_pos, header.dirty, Len(flight))
  /\ RunDir(header.write_pos, header.phase, header.cycle = 0, dir, disk, flight)
  /\ RunDisk(header.write_pos, header.last_write_pos, header.sync_serial, header.write_serial, header.cycle > 0, disk)
  /\ Since(durable, header, Len(flight), disk)
  /\ reach >= LogPosition(header) + Len(flight) - LogPosition(durable.header)
  /\ Syncing

----------------------------------------------------------------------------
(* The stripe down or in recovery.  Of the scan there are the position s,   *)
(* last_sync_serial ls, last_write_serial lw and recover_wrapped rw.        *)

\* Where entries of the copy may have been overwritten.
Scan(W, S, C, d, w, G, F, s, ls, lw, rw) ==
  /\ ls <= S + 1
  /\ ~rw =>
       /\ W <= s
       /\ s > W => ls >= S
       /\ s < (IF w THEN G ELSE F) => IsDoc(d, s) /\ ls <= SyncOf(d, s)
       /\ w => /\ s <= G
               /\ s = G => \A p \in G .. END - 1 : IsDoc(d, p) => SyncOf(d, p) < ls
               /\ lw = 0 \/ \E q \in W .. G - 1 : IsDoc(d, q) /\ lw = WriteOf(d, q)
               /\ ls < S \/ \E q \in W .. G - 1 : IsDoc(d, q) /\ ls = SyncOf(d, q)
       /\ ~w => /\ s < W + STRIPE_LEN - EVACUATION_SIZE
                /\ s <= W + AGG_SIZE \/ (ls = S + 1 /\ s <= W + EVACUATION_SIZE) \/ lw >= C
  /\ rw =>
       /\ s > START => s < W - EVACUATION_SIZE /\ ls >= S
       /\ w => /\ s < F => IsDoc(d, s) /\ ls <= SyncOf(d, s)
               /\ s = START => lw <= WriteOf(d, START)
       /\ ~w => ls >= S /\ (lw >= C \/ W > START + EVACUATION_SIZE)

\* Where all of what was written since the copy lies in front of the margin.
Room(W, L, d, far) ==
  /\ W + far + AGG_SIZE + EVACUATION_SIZE <= END
  /\ \A p \in W + far .. END - 1 : IsDoc(d, p) => SyncOf(d, p) < SyncOf(d, L)
Stays(W, L, d, far, s, e, prev, ls, rw) ==
  /\ ~rw /\ W <= s /\ s < W + far + AGG_SIZE /\ ls >= SyncOf(d, L)
  /\ prev <= s /\ s < e /\ e = Min2(prev + RECOVERY_SIZE, END)

Check(W, L, d, s, e, prev, ls, lw, rw) ==
  /\ L <= s /\ s <= W /\ ~rw /\ lw = 0 /\ prev = L /\ e = Min2(L + RECOVERY_SIZE, END)
  /\ s < W => IsDoc(d, s)
  /\ ls = IF s = L THEN 0 ELSE SyncOf(d, L)
  /\ s = W => \E q \in L .. W - 1 : IsDoc(d, q) /\ EndOf(d, q) = W

Scanning(h, d, r, w, G, F) ==
  w \/ (F > h.write_pos /\ h.cycle > 0) =>
    Scan(h.write_pos, h.sync_serial, h.write_serial, d, w, G, F, r.s, r.lastSync, r.lastWrite, r.wrapped)
Lost(c, d, far, w, G, F) ==
  /\ Copied(c, d, w, G, F, c.header.sync_serial + 1)
  /\ w => F > START /\ c.header.write_pos + far >= END
  /\ ~w => F <= c.header.write_pos + far

Reading(h, d, r, far) ==
  /\ h.sync_serial > 0 /\ r.maxSync >= h.sync_serial
  /\ mode = "check" =>
       Check(h.write_pos, h.last_write_pos, d, r.s, r.e, r.prev, r.lastSync, r.lastWrite, r.wrapped)
  /\ mode = "scan" =>
       /\ r.s < r.e
       /\ Room(h.write_pos, h.last_write_pos, d, far) =>
            Stays(h.write_pos, h.last_write_pos, d, far, r.s, r.e, r.prev, r.lastSync, r.wrapped)

LostInv ==
  /\ flight = <<>>
  /\ mode # "writedir" => copying = NoCopy
  /\ durable.header.sync_serial = 0 => Cleared(durable)
  /\ durable.header.sync_serial > 0 =>
       \E w \in BOOLEAN, G \in START .. END, F \in START .. END :
         /\ Lost(durable, disk, reach, w, G, F)
         /\ mode = "scan" => Scanning(durable.header, disk, rec, w, G, F)
  /\ mode \in {"check", "scan"} => header = durable.header /\ dir = durable.dir /\ Reading(header, disk, rec, reach)
  /\ mode = "writedir" =>
       /\ copying = [header |-> header, dir |-> dir]
       /\ header.sync_serial = 0 => Cleared(copying)
       /\ header.sync_serial > 0 => Copied(copying, disk, FALSE, START, header.write_pos, header.sync_serial)

Types ==
  /\ header \in Headers /\ dir \in SUBSET Entry /\ disk \in Disks /\ durable \in Copies
  /\ \A e \in dir \cup durable.dir : e.off + e.len <= END
  /\ mode \in {"run", "down", "check", "scan", "writedir"}
  /\ rec \in Recs /\ reach \in Nat

IInv ==
  /\ Types
  /\ mode = "run" => RunInv
  /\ mode # "run" => LostInv

----------------------------------------------------------------------------
(* Numbers, blocks and headers *)

\* What the assumptions say of the sizes, in the form the arithmetic needs.
LEMMA Sizes ==
  /\ START \in Nat /\ START > 0 /\ AGG_SIZE \in Nat /\ AGG_SIZE > 0 /\ STRIPE_LEN \in Nat /\ STRIPE_LEN >= 5 * AGG_SIZE
  /\ END \in Nat /\ END = START + STRIPE_LEN /\ EVACUATION_SIZE \in Nat /\ EVACUATION_SIZE = 2 * AGG_SIZE
  /\ RECOVERY_SIZE = EVACUATION_SIZE /\ Positions = START .. END - 1 /\ MaxSerial \in Nat
BY RecoveryAssumption DEF END, EVACUATION_SIZE, RECOVERY_SIZE, Positions

\* Arithmetic that is needed on fields of records.
LEMMA NoneIsZero ==
  ASSUME NEW y \in Nat
  PROVE  ~(y > 0) => y = 0
OBVIOUS

LEMMA Still ==
  ASSUME NEW x \in Int, NEW y \in Nat, NEW C \in Nat, NEW S \in Nat
  PROVE  /\ x + 0 - x < STRIPE_LEN - EVACUATION_SIZE /\ x <= x /\ y <= y /\ C <= C /\ S <= S /\ S <= S + 1 /\ ~(y > y)
         /\ x + 0 - x = 0
BY Sizes

LEMMA Between ==
  ASSUME NEW x \in Int, NEW y \in Int, NEW z \in Int, x <= y, y < z
  PROVE  x < z /\ x <= z
OBVIOUS

LEMMA EndsInside ==
  ASSUME NEW q \in START .. END - 1, NEW x \in Int, NEW y \in START .. END, x > q, x < y
  PROVE  x \in START .. END - 1 /\ q < x
BY Sizes

LEMMA FurtherOn ==
  ASSUME NEW W \in START .. END, NEW n \in Nat, NEW C \in Nat, NEW x, x = W + n
  PROVE  /\ \A y \in Nat : y < C => y < C + 1
         /\ \A y \in Int : y < W - EVACUATION_SIZE => y < x - EVACUATION_SIZE
BY Sizes

LEMMA Within ==
  ASSUME NEW s \in START .. END - 1
  PROVE  s < END
BY Sizes

LEMMA LastBefore ==
  ASSUME NEW W \in START .. END, NEW L \in START .. END, L < W
  PROVE  W = W + 0 /\ ~(L >= W) /\ ~(W = START)
BY Sizes

LEMMA StartsBefore ==
  ASSUME NEW W \in START .. END, NEW o \in START .. END - 1, NEW l \in 1 .. AGG_SIZE, o + l <= W + 0
  PROVE  o < W /\ o < W + 0
BY Sizes

LEMMA LapAhead ==
  ASSUME NEW W \in START .. END, NEW hp \in START .. END, NEW lc \in Int, NEW lh \in Int, NEW n \in Nat, NEW far \in Nat,
         lh - lc = STRIPE_LEN + hp - W, far >= lh + n - lc
  PROVE  W + far >= END
BY Sizes

\* The types of the fields of a header.
LEMMA Heads ==
  ASSUME NEW h \in Headers
  PROVE  /\ h.write_pos \in Int /\ h.write_pos >= START /\ h.write_pos <= END
         /\ h.last_write_pos \in Int /\ h.last_write_pos >= START /\ h.last_write_pos < END
         /\ h.agg_pos \in Int /\ h.phase \in {0, 1} /\ h.cycle \in Nat
         /\ h.write_serial \in Nat /\ h.sync_serial \in Nat /\ h.dirty \in BOOLEAN
BY Sizes DEF Headers

\* clear_init leaves a header.
LEMMA ClearedIsHeader == ClearedHeader \in Headers
BY Sizes DEF Headers, ClearedHeader

\* A header is not the empty sequence that stands for no copy.
LEMMA HeaderIsSome ==
  ASSUME NEW h \in Headers
  PROVE  h # <<>>
BY DEF Headers

\* The types of what a disk holds where a document starts.
LEMMA Cells ==
  ASSUME NEW d \in Disks
  PROVE  \A p \in START .. END - 1 :
           IsDoc(d, p) => /\ WriteOf(d, p) \in Nat /\ SyncOf(d, p) \in Nat
                          /\ EndOf(d, p) \in Int /\ EndOf(d, p) > p /\ EndOf(d, p) <= p + AGG_SIZE
<1> SUFFICES ASSUME NEW p \in START .. END - 1, IsDoc(d, p)
             PROVE  /\ WriteOf(d, p) \in Nat /\ SyncOf(d, p) \in Nat
                    /\ EndOf(d, p) \in Int /\ EndOf(d, p) > p /\ EndOf(d, p) <= p + AGG_SIZE
  BY Zenon
<1>1. d[p] \in Block
  BY Zenon DEF Disks, Positions
<1>2. d[p].k = 0
  BY Zenon DEF IsDoc, Magic
<1>3. d[p] \in Doc
  <2>1. d[p] # NoBlock
    BY <1>2 DEF NoBlock
  <2>2. QED BY Zenon, <2>1, <1>1 DEF Block
<1>4. d[p].ws \in Nat /\ d[p].ss \in Nat /\ d[p].len \in 1 .. AGG_SIZE
  BY Zenon, <1>3 DEF Doc
<1>5. \A l \in 1 .. AGG_SIZE : p + l \in Int /\ p + l > p /\ p + l <= p + AGG_SIZE
  BY Sizes
<1>6. QED BY Zenon, <1>4, <1>5 DEF WriteOf, SyncOf, EndOf

\* One aggregation write: documents one after the other.
WellLaid(bl, n, ws, ss) ==
  /\ bl \in Seq(Doc) /\ Len(bl) = n /\ n \in Nat /\ n >= 1 /\ n <= AGG_SIZE /\ DOMAIN bl = 1 .. n /\ bl[1].k = 0
  /\ \A i \in 1 .. n : bl[i].ws = ws /\ bl[i].ss = ss /\ bl[i] \in Doc
  /\ \A i \in 1 .. n : bl[i].k = 0 =>
       /\ i + bl[i].len <= n + 1
       /\ \A j \in 0 .. bl[i].len - 1 : bl[i + j] = [ws |-> ws, ss |-> ss, len |-> bl[i].len, k |-> j]
       /\ i + bl[i].len <= n => bl[i + bl[i].len].k = 0

\* The blocks that _agg_copy lays out for a batch: contiguous documents of one pair of serials.
LEMMA BlocksLaid ==
  ASSUME NEW b \in Batches, NEW ws \in Nat, NEW ss \in Nat
  PROVE  /\ WellLaid(Blocks(b, ws, ss), Len(b), ws, ss) 
         /\ b[1].len \in 1 .. AGG_SIZE /\ b[1].len <= Len(b)
<1> DEFINE B == [len : 1 .. AGG_SIZE, k : 0 .. AGG_SIZE - 1]
           bl == Blocks(b, ws, ss)
<1>1. /\ b \in Seq(B) /\ Len(b) \in 1 .. AGG_SIZE /\ b[1].k = 0
      /\ \A i \in DOMAIN b : b[i].k = 0 =>
           /\ i + b[i].len <= Len(b) + 1
           /\ \A j \in 0 .. b[i].len - 1 : b[i + j] = [len |-> b[i].len, k |-> j]
           /\ i + b[i].len <= Len(b) => b[i + b[i].len].k = 0
  BY Zenon, BatchesAssumption
<1>2. DOMAIN b = 1 .. Len(b) /\ Len(b) \in Nat /\ Len(b) >= 1 /\ Len(b) <= AGG_SIZE
  BY <1>1, Sizes
<1>3. \A i \in 1 .. Len(b) : b[i] \in B
  <2> HIDE DEF B
  <2> QED BY <1>1
<1>4. \A i \in 1 .. Len(b) : b[i].len \in 1 .. AGG_SIZE /\ b[i].k \in 0 .. AGG_SIZE - 1
  BY <1>3, Zenon
<1>5. bl = [i \in 1 .. Len(b) |-> [ws |-> ws, ss |-> ss, len |-> b[i].len, k |-> b[i].k]]
  BY Zenon, <1>2 DEF Blocks
<1>6. \A i \in 1 .. Len(b) : bl[i] = [ws |-> ws, ss |-> ss, len |-> b[i].len, k |-> b[i].k]
  BY Zenon, <1>5
<1>7. \A i \in 1 .. Len(b) : bl[i] \in Doc /\ bl[i].ws = ws /\ bl[i].ss = ss /\ bl[i].len = b[i].len /\ bl[i].k = b[i].k
  <2> SUFFICES ASSUME NEW i \in 1 .. Len(b)
               PROVE  bl[i] \in Doc /\ bl[i].ws = ws /\ bl[i].ss = ss /\ bl[i].len = b[i].len /\ bl[i].k = b[i].k
    OBVIOUS
  <2>1. bl[i] = [ws |-> ws, ss |-> ss, len |-> b[i].len, k |-> b[i].k]
    BY Zenon, <1>6
  <2>2. b[i].len \in 1 .. AGG_SIZE /\ b[i].k \in 0 .. AGG_SIZE - 1
    BY Zenon, <1>4
  <2> HIDE DEF bl
  <2> QED BY <2>1, <2>2 DEF Doc
<1>8. bl \in [1 .. Len(b) -> Doc]
  BY Zenon, <1>5, <1>7
<1>9. bl \in Seq(Doc) /\ Len(bl) = Len(b) /\ DOMAIN bl = 1 .. Len(b)
  <2> HIDE DEF bl
  <2> QED BY <1>8, <1>2
<1>10. ASSUME NEW i \in 1 .. Len(b), bl[i].k = 0
       PROVE  /\ i + bl[i].len <= Len(b) + 1
              /\ \A j \in 0 .. bl[i].len - 1 : bl[i + j] = [ws |-> ws, ss |-> ss, len |-> bl[i].len, k |-> j]
              /\ i + bl[i].len <= Len(b) => bl[i + bl[i].len].k = 0
  <2> HIDE DEF bl
  <2>1. b[i].k = 0 /\ bl[i].len = b[i].len
    BY Zenon, <1>7, <1>10
  <2>2. /\ i + b[i].len <= Len(b) + 1
        /\ \A j \in 0 .. b[i].len - 1 : b[i + j] = [len |-> b[i].len, k |-> j]
        /\ i + b[i].len <= Len(b) => b[i + b[i].len].k = 0
    BY Zenon, <1>1, <1>2, <2>1
  <2>3. ASSUME NEW j \in 0 .. b[i].len - 1
        PROVE  bl[i + j] = [ws |-> ws, ss |-> ss, len |-> bl[i].len, k |-> j]
    <3>1. i + j \in 1 .. Len(b)
      BY <2>2, <1>2, <1>4
    <3>2. b[i + j] = [len |-> b[i].len, k |-> j]
      BY Zenon, <2>2, <2>3
    <3>3. b[i + j].len = b[i].len /\ b[i + j].k = j
      BY <3>2
    <3>4. QED BY Zenon, <3>1, <3>3, <1>6, <2>1
  <2>4. ASSUME i + b[i].len <= Len(b)
        PROVE  bl[i + b[i].len].k = 0
    <3>1. i + b[i].len \in 1 .. Len(b)
      BY <2>4, <1>2, <1>4
    <3>2. QED BY Zenon, <3>1, <2>4, <2>2, <1>7
  <2>5. QED BY Zenon, <2>1, <2>2, <2>3, <2>4
<1>11. 1 \in 1 .. Len(b)
  BY <1>2
<1>12. b[1].len \in 1 .. AGG_SIZE /\ 1 + b[1].len <= Len(b) + 1
  BY Zenon, <1>1, <1>2, <1>4, <1>11
<1>13. b[1].len <= Len(b)
  BY <1>12, <1>2
<1>14. bl[1].k = 0
  BY Zenon, <1>7, <1>11, <1>1
<1>15. /\ bl \in Seq(Doc) /\ Len(bl) = Len(b) /\ Len(b) \in Nat /\ Len(b) >= 1 /\ Len(b) <= AGG_SIZE
       /\ DOMAIN bl = 1 .. Len(b) /\ bl[1].k = 0
  BY Zenon, <1>2, <1>9, <1>14
<1>16. \A i \in 1 .. Len(b) : bl[i].ws = ws /\ bl[i].ss = ss /\ bl[i] \in Doc
  BY Zenon, <1>7
<1>17. \A i \in 1 .. Len(b) : bl[i].k = 0 =>
         /\ i + bl[i].len <= Len(b) + 1
         /\ \A j \in 0 .. bl[i].len - 1 : bl[i + j] = [ws |-> ws, ss |-> ss, len |-> bl[i].len, k |-> j]
         /\ i + bl[i].len <= Len(b) => bl[i + bl[i].len].k = 0
  BY Zenon, <1>10
<1> HIDE DEF bl
<1>18. WellLaid(bl, Len(b), ws, ss)
  BY Zenon, <1>15, <1>16, <1>17 DEF WellLaid
<1>19. QED BY Zenon, <1>18, <1>12, <1>13 DEF bl

----------------------------------------------------------------------------
(* An aggregation write reaches the disk *)

\* The first m of n blocks at F are new on disk e, in documents with these serials.
Lands(d, e, F, m, n, ws, ss) ==
  /\ \A p \in START .. END - 1 : p < F \/ p >= F + m =>
       /\ IsDoc(e, p) <=> IsDoc(d, p)
       /\ SyncOf(e, p) = SyncOf(d, p) /\ WriteOf(e, p) = WriteOf(d, p) /\ EndOf(e, p) = EndOf(d, p)
  /\ \A p \in START .. END - 1 : p >= F /\ p < F + m /\ IsDoc(e, p) =>
       /\ WriteOf(e, p) = ws /\ SyncOf(e, p) = ss /\ EndOf(e, p) <= F + n
       /\ EndOf(e, p) < F + m => IsDoc(e, EndOf(e, p))
  /\ m > 0 => IsDoc(e, F)

\* The first m of the blocks bl are written at F, and nothing else.
Written(d, e, F, bl, m) ==
  e = [p \in Positions |-> IF p - F + 1 \in 1 .. m THEN bl[p - F + 1] ELSE d[p]]
Same(d, e, F, m) == \A p \in START .. END - 1 : p < F \/ p >= F + m => e[p] = d[p]
Filled(e, F, bl, m) == \A p \in START .. END - 1 : p >= F /\ p < F + m => e[p] = bl[p - F + 1]

\* What a write that lands at F changes, for the documents on disk.
LEMMA Landing ==
  ASSUME NEW d \in Disks, NEW F \in Int, F >= START, NEW b \in Batches, NEW ws \in Nat, NEW ss \in Nat,
         F + Len(b) <= END, NEW m \in 0 .. Len(b), NEW e,
         Written(d, e, F, Blocks(b, ws, ss), m)
  PROVE  e \in Disks /\ Lands(d, e, F, m, Len(b), ws, ss) /\ Same(d, e, F, m) /\ Filled(e, F, Blocks(b, ws, ss), m)
<1> DEFINE bl == Blocks(b, ws, ss)
           N == Len(b)
<1>1. /\ N \in Nat /\ N >= 1 /\ bl[1].k = 0
      /\ \A i \in 1 .. N :
           /\ bl[i].ws = ws /\ bl[i].ss = ss /\ bl[i] \in Doc
           /\ bl[i].k = 0 => /\ i + bl[i].len <= N + 1
                             /\ i + bl[i].len <= N => bl[i + bl[i].len].k = 0
  <2>1. WellLaid(bl, N, ws, ss)
    BY Zenon, BlocksLaid
  <2> HIDE DEF bl, N
  <2> QED BY Zenon, <2>1 DEF WellLaid
<1>2. \A p \in START .. END - 1 : e[p] = IF p - F + 1 \in 1 .. m THEN bl[p - F + 1] ELSE d[p]
  BY Zenon DEF bl, Positions, Written
<1>3. F + N <= END /\ m \in 0 .. N
  BY Zenon
<1> HIDE DEF bl, N
<1>4. m \in Int /\ m >= 0 /\ m <= N
  BY <1>1, <1>3
<1>5. ASSUME NEW p \in START .. END - 1
      PROVE  /\ p < F \/ p >= F + m => e[p] = d[p]
             /\ p >= F /\ p < F + m => p - F + 1 \in 1 .. N /\ e[p] = bl[p - F + 1]
  <2>1. p \in Int /\ (p - F + 1 \in 1 .. m <=> p >= F /\ p < F + m) /\ (p - F + 1 \in 1 .. m => p - F + 1 \in 1 .. N)
    BY <1>4, <1>1, Sizes
  <2>2. (p < F \/ p >= F + m) <=> ~(p >= F /\ p < F + m)
    BY <2>1, <1>4
  <2>3. QED BY Zenon, <2>1, <2>2, <1>2
<1>6. e \in Disks
  <2>1. ASSUME NEW p \in Positions
        PROVE  e[p] \in Block
    <3>1. p \in START .. END - 1 /\ d[p] \in Block
      BY Zenon DEF Positions, Disks
    <3>2. (p < F \/ p >= F + m) \/ (p >= F /\ p < F + m)
      BY <3>1, <1>4, Sizes
    <3>3. QED BY Zenon, <3>1, <3>2, <1>1, <1>5 DEF Block
  <2>2. e = [p \in Positions |-> e[p]]
    BY Zenon DEF Written
  <2>3. QED BY Zenon, <2>1, <2>2 DEF Disks
<1>7. ASSUME NEW p \in START .. END - 1, p < F \/ p >= F + m
      PROVE  /\ IsDoc(e, p) <=> IsDoc(d, p)
             /\ SyncOf(e, p) = SyncOf(d, p) /\ WriteOf(e, p) = WriteOf(d, p) /\ EndOf(e, p) = EndOf(d, p)
  BY Zenon, <1>5, <1>7 DEF IsDoc, SyncOf, WriteOf, EndOf
<1>8. ASSUME NEW p \in START .. END - 1, p >= F, p < F + m, IsDoc(e, p)
      PROVE  /\ WriteOf(e, p) = ws /\ SyncOf(e, p) = ss /\ EndOf(e, p) <= F + N
             /\ EndOf(e, p) < F + m => IsDoc(e, EndOf(e, p))
  <2> DEFINE i == p - F + 1  l == bl[i].len
  <2>1. i \in 1 .. N /\ e[p] = bl[i]
    BY Zenon, <1>5, <1>8
  <2>2. bl[i].k = 0
    BY Zenon, <2>1, <1>8 DEF IsDoc, Magic
  <2>3. WriteOf(e, p) = ws /\ SyncOf(e, p) = ss /\ EndOf(e, p) = p + l
    BY Zenon, <1>1, <2>1 DEF WriteOf, SyncOf, EndOf
  <2>4. i + l <= N + 1 /\ (i + l <= N => bl[i + l].k = 0)
    BY Zenon, <1>1, <2>1, <2>2
  <2>5. EndOf(e, p) \in Int /\ EndOf(e, p) > p
    BY Zenon, Cells, <1>6, <1>8
  <2>6. l \in Int /\ i \in Int /\ i = p - F + 1
    <3>1. bl[i] \in Doc
      BY Zenon, <1>1, <2>1
    <3>2. l \in 1 .. AGG_SIZE
      BY Zenon, <3>1 DEF Doc
    <3>3. QED BY <3>2, <2>1, <1>1, Sizes
  <2> HIDE DEF i, l
  <2> DEFINE x == p + l
  <2>7. x <= F + N /\ (x < F + m => x \in START .. END - 1 /\ x >= F /\ i + l <= N /\ x - F + 1 = i + l)
    <3>1. p + l > p
      BY Zenon, <2>3, <2>5
    <3>2. N \in Nat /\ m <= N /\ F + N <= END /\ p >= F /\ l \in Int /\ i \in Int /\ i = p - F + 1 /\ i + l <= N + 1
      BY Zenon, <2>4, <2>6, <1>4, <1>1, <1>3, <1>8
    <3>3. QED BY <3>1, <3>2, Sizes
  <2>a. EndOf(e, p) = x
    BY Zenon, <2>3
  <2> HIDE DEF x
  <2>8. ASSUME x < F + m
        PROVE  IsDoc(e, x)
    <3>0. x \in START .. END - 1 /\ x >= F /\ i + l <= N /\ x - F + 1 = i + l
      BY Zenon, <2>7, <2>8
    <3>a. e[x] = bl[x - F + 1]
      BY Zenon, <3>0, <2>8, <1>5
    <3>1. e[x] = bl[i + l]
      BY Zenon, <3>0, <3>a
    <3>2. bl[i + l].k = 0
      BY Zenon, <2>4, <3>0
    <3>3. QED BY Zenon, <3>1, <3>2 DEF IsDoc, Magic
  <2>9. QED BY Zenon, <2>3, <2>a, <2>7, <2>8
<1>9. ASSUME m > 0
      PROVE  IsDoc(e, F)
  <2>1. F \in START .. END - 1 /\ F >= F /\ F < F + m /\ F - F + 1 = 1
    BY <1>9, <1>1, <1>3, <1>4, Sizes
  <2>2. QED BY Zenon, <2>1, <1>5, <1>1 DEF IsDoc, Magic
<1>10. Lands(d, e, F, m, N, ws, ss)
  BY Zenon, <1>7, <1>8, <1>9 DEF Lands
<1>11. Same(d, e, F, m) /\ Filled(e, F, bl, m)
  BY Zenon, <1>5 DEF Same, Filled
<1>12. QED BY Zenon, <1>6, <1>10, <1>11 DEF N, bl

\* The log of a copy goes on as an aggregation write lands, all of it or a part.
LEMMA LogLands ==
  ASSUME NEW d, NEW e \in Disks, NEW W, NEW L, NEW S, NEW C, NEW full, NEW w, NEW G, NEW F,
         NEW n \in Nat, NEW m \in 0 .. n, NEW ws \in Nat, NEW ss,
         Log(W, L, S, C, full, d, w, G, F, ss), Lands(d, e, F, m, n, ws, ss),
         ws >= C, ss >= S, Tiled(d, F), Below(W, d, w, G, F, ws), Shape(W, w, G, F + n)
  PROVE  Log(W, L, S, C, full, e, w, G, F + m, ss) /\ Below(W, e, w, G, F + m, ws + 1)
<1>a. LogArgs(W, L, S, C, full, d, w, G, F, ss)
  BY Zenon DEF Log
<1> /\ W \in START .. END /\ L \in START .. END /\ S \in Nat /\ C \in Nat /\ full \in BOOLEAN /\ d \in Disks
    /\ w \in BOOLEAN /\ G \in START .. END /\ F \in START .. END /\ ss \in Nat
  BY Zenon, <1>a DEF LogArgs
<1>0. /\ L < W /\ W - L <= AGG_SIZE /\ W # END - EVACUATION_SIZE
      /\ Shape(W, w, G, F) /\ LastWrite(W, L, C, d) /\ Tiled(d, W) /\ Tiled(d, L)
      /\ Chain(d, W, IF w THEN G ELSE F) /\ (w => Chain(d, START, F) /\ Turn(W, L, d, G, F))
      /\ Newer(W, S, C, d, w, G, F, ss) /\ Ahead(W, S, C, d) /\ Rest(W, S, C, full, d) /\ Older(W, S, full, d, w, G, F)
  BY Zenon DEF Log
<1>1. /\ W \in Int /\ W >= START /\ W <= END /\ L \in Int /\ L >= START /\ L < END /\ L < W /\ W - L <= AGG_SIZE
      /\ F \in Int /\ F >= START /\ G \in Int /\ n \in Int /\ m \in Int /\ m >= 0 /\ m <= n
  BY <1>0, Sizes
<1>2. /\ w => F + n < W - EVACUATION_SIZE /\ F + n < L /\ G >= W /\ G <= END
      /\ ~w => F >= W /\ F + n <= END
      /\ F + m <= F + n /\ F + m >= F /\ F + m \in START .. END
  BY <1>0, <1>1, Sizes DEF Shape
<1>3. \A p \in START .. END - 1 : p < F \/ p >= F + m =>
        /\ IsDoc(e, p) <=> IsDoc(d, p)
        /\ SyncOf(e, p) = SyncOf(d, p) /\ WriteOf(e, p) = WriteOf(d, p) /\ EndOf(e, p) = EndOf(d, p)
  BY Zenon DEF Lands
<1>4. \A p \in START .. END - 1 : p >= F /\ p < F + m /\ IsDoc(e, p) =>
        /\ WriteOf(e, p) = ws /\ SyncOf(e, p) = ss /\ EndOf(e, p) <= F + n
        /\ EndOf(e, p) < F + m => IsDoc(e, EndOf(e, p))
  BY Zenon DEF Lands
<1>5. m > 0 => IsDoc(e, F)
  BY Zenon DEF Lands
<1>6. \A p \in START .. END - 1 : IsDoc(d, p) =>
        /\ WriteOf(d, p) \in Nat /\ SyncOf(d, p) \in Nat
        /\ EndOf(d, p) \in Int /\ EndOf(d, p) > p /\ EndOf(d, p) <= p + AGG_SIZE
  BY Zenon, Cells
<1>7. \A p \in START .. END - 1 : IsDoc(e, p) =>
        /\ WriteOf(e, p) \in Nat /\ SyncOf(e, p) \in Nat
        /\ EndOf(e, p) \in Int /\ EndOf(e, p) > p /\ EndOf(e, p) <= p + AGG_SIZE
  BY Zenon, Cells
<1>8. \A p \in START .. END - 1 : p >= L /\ (w \/ p < W) =>
        /\ IsDoc(e, p) <=> IsDoc(d, p)
        /\ SyncOf(e, p) = SyncOf(d, p) /\ WriteOf(e, p) = WriteOf(d, p) /\ EndOf(e, p) = EndOf(d, p)
  BY <1>1, <1>2, <1>3, Sizes
<1>10. Shape(W, w, G, F + m)
  BY <1>0, <1>1, <1>2, Sizes DEF Shape
<1>11. LastWrite(W, L, C, e)
  <2>1. \A q \in L .. W - 1 : q \in START .. END - 1 /\ q >= L /\ q < W
    BY <1>1, Sizes
  <2>2. L < W => L \in L .. W - 1
    BY <1>1
  <2>3. ASSUME NEW q \in L .. W - 1, IsDoc(e, q), EndOf(e, q) < W
        PROVE  EndOf(e, q) \in L .. W - 1
    <3>1. q \in START .. END - 1 /\ q >= L /\ q < W /\ EndOf(e, q) \in Int /\ EndOf(e, q) > q
      BY Zenon, <2>1, <2>3, <1>7
    <3>2. QED BY <3>1, <2>3, <1>1
  <2>4. \A q \in L .. W - 1 :
          /\ IsDoc(e, q) <=> IsDoc(d, q)
          /\ SyncOf(e, q) = SyncOf(d, q) /\ WriteOf(e, q) = WriteOf(d, q) /\ EndOf(e, q) = EndOf(d, q)
    BY Zenon, <2>1, <1>8
  <2>5. QED BY Zenon, <1>0, <2>2, <2>3, <2>4 DEF LastWrite
<1>12. Tiled(e, W) /\ Tiled(e, L)
  <2>1. ASSUME NEW b \in {W, L}, Tiled(d, b)
        PROVE  Tiled(e, b)
    <3>1. b \in Int /\ b >= L /\ b <= W /\ b <= END
      BY <1>1
    <3>2. ASSUME NEW q \in START .. b - 1, IsDoc(e, q)
          PROVE  EndOf(e, q) <= b
      <4>1. q \in START .. END - 1 /\ q < b
        BY <3>1, Sizes
      <4>2. CASE q < F \/ q >= F + m
        BY Zenon, <4>1, <4>2, <3>2, <2>1, <1>3 DEF Tiled
      <4>3. CASE q >= F /\ q < F + m
        <5>1. EndOf(e, q) <= F + n /\ EndOf(e, q) \in Int
          BY Zenon, <4>1, <4>3, <3>2, <1>4, <1>7
        <5>2. q \in Int /\ F + n \in Int
          BY <4>1, <1>1, Sizes
        <5>3. w
          BY <5>2, <4>1, <4>3, <3>1, <1>1, <1>2
        <5>4. F + n < L
          BY Zenon, <5>3, <1>2
        <5>5. F + n < b
          BY <5>2, <5>4, <3>1, <1>1
        <5>6. QED BY Zenon, <5>1, <5>2, <5>5, <3>1, Between
      <4>4. QED BY <4>1, <4>2, <4>3, <1>1, Sizes
    <3>3. QED BY Zenon, <3>2 DEF Tiled
  <2>2. QED BY Zenon, <2>1, <1>0
<1>13. ASSUME NEW a \in START .. END, Chain(d, a, F), a <= F,
              \A q \in START .. END - 1 : q >= a /\ q < F /\ IsDoc(d, q) => SyncOf(d, q) <= ss
       PROVE  Chain(e, a, F + m)
  <2>1. a < F + m => IsDoc(e, a)
    BY <1>13, <1>1, <1>3, <1>5, <1>2, Sizes DEF Chain
  <2>2. ASSUME NEW q \in a .. F + m - 1, IsDoc(e, q), EndOf(e, q) < F + m
        PROVE  IsDoc(e, EndOf(e, q)) /\ SyncOf(e, q) <= SyncOf(e, EndOf(e, q))
    <3>1. q \in START .. END - 1 /\ EndOf(e, q) \in START .. END - 1 /\ q < EndOf(e, q)
      <4>1. q \in START .. END - 1
        BY <1>1, <1>2, Sizes
      <4>2. EndOf(e, q) \in Int /\ EndOf(e, q) > q
        BY Zenon, <4>1, <2>2, <1>7
      <4>3. QED BY Zenon, <4>1, <4>2, <2>2, <1>2, EndsInside
    <3>2. CASE q >= F
      BY <3>1, <3>2, <2>2, <1>1, <1>4, <1>7
    <3>3. CASE q < F /\ EndOf(e, q) < F
      BY <3>1, <3>3, <2>2, <1>13, <1>1, <1>3 DEF Chain
    <3>4. CASE q < F /\ EndOf(e, q) >= F
      <4>1. EndOf(e, q) = EndOf(d, q) /\ SyncOf(e, q) = SyncOf(d, q) /\ IsDoc(d, q)
        BY <3>1, <3>4, <2>2, <1>3
      <4>2. EndOf(d, q) <= F
        BY <4>1, <3>1, <3>4, <1>1, Sizes DEF Tiled
      <4>3. EndOf(e, q) = F /\ m > 0 /\ F \in START .. END - 1
        BY <4>1, <4>2, <3>1, <3>4, <2>2, <1>1
      <4>4. IsDoc(e, F) /\ SyncOf(e, F) = ss
        BY <4>3, <1>1, <1>4, <1>5
      <4>5. SyncOf(d, q) <= ss
        BY <4>1, <3>1, <3>4, <1>13, <2>2, <1>1, <1>2
      <4>6. QED BY Zenon, <4>1, <4>3, <4>4, <4>5
    <3>5. QED BY <3>1, <3>2, <3>3, <3>4, <1>1, Sizes
  <2>3. QED BY <2>1, <2>2 DEF Chain
<1>14. \A q \in START .. END - 1 : Over(W, w, G, F, q) /\ IsDoc(d, q) =>
         SyncOf(d, q) >= S /\ SyncOf(d, q) <= ss /\ WriteOf(d, q) >= C /\ WriteOf(d, q) < ws
  BY Zenon, <1>0 DEF Newer, Below
<1>15. Chain(e, W, IF w THEN G ELSE F + m)
  <2>1. CASE w
    <3>1. Chain(d, W, G)
      BY Zenon, <1>0, <2>1
    <3>2. Chain(e, W, G)
      <4>1. \A q \in W .. G - 1 : q \in START .. END - 1 /\ q >= L /\ q < G
        BY <2>1, <1>1, <1>2, Sizes
      <4>2. W < G => W \in W .. G - 1
        BY <2>1, <1>1
      <4>3. ASSUME NEW q \in W .. G - 1, IsDoc(e, q), EndOf(e, q) < G
            PROVE  EndOf(e, q) \in W .. G - 1
        <5>1. q \in START .. END - 1 /\ EndOf(e, q) \in Int /\ EndOf(e, q) > q
          BY Zenon, <4>1, <4>3, <1>7
        <5>2. QED BY <5>1, <4>3, <1>1
      <4>4. \A q \in W .. G - 1 :
              (IsDoc(e, q) <=> IsDoc(d, q)) /\ SyncOf(e, q) = SyncOf(d, q) /\ EndOf(e, q) = EndOf(d, q)
        BY Zenon, <2>1, <4>1, <1>8
      <4>5. QED BY Zenon, <3>1, <4>2, <4>3, <4>4 DEF Chain
    <3>3. QED BY Zenon, <3>2, <2>1
  <2>2. CASE ~w
    <3>1. Chain(d, W, F)
      BY Zenon, <1>0, <2>2
    <3>2. W <= F /\ \A q \in START .. END - 1 : q >= W /\ q < F /\ IsDoc(d, q) => SyncOf(d, q) <= ss
      BY <2>2, <1>1, <1>2, <1>14 DEF Over
    <3>3. Chain(e, W, F + m)
      BY Zenon, <1>13, <3>1, <3>2
    <3>4. QED BY Zenon, <3>3, <2>2
  <2>3. QED BY Zenon, <2>1, <2>2
<1>16. ASSUME w
       PROVE  Chain(e, START, F + m)
  <2>1. Chain(d, START, F)
    BY Zenon, <1>0, <1>16
  <2>2. START \in START .. END /\ START <= F /\ \A q \in START .. END - 1 : q >= START /\ q < F /\ IsDoc(d, q) => SyncOf(d, q) <= ss
    BY <1>16, <1>1, <1>2, <1>14, Sizes DEF Over
  <2>3. QED BY Zenon, <1>13, <2>1, <2>2
<1>17. ASSUME w
       PROVE  Turn(W, L, e, G, F + m)
  <2>0. Turn(W, L, d, G, F)
    BY Zenon, <1>0, <1>17
  <2>1. \A q \in L .. END - 1 :
          /\ IsDoc(e, q) <=> IsDoc(d, q)
          /\ SyncOf(e, q) = SyncOf(d, q) /\ WriteOf(e, q) = WriteOf(d, q) /\ EndOf(e, q) = EndOf(d, q)
    BY <1>8, <1>17, <1>1, Sizes
  <2>2. \A q \in W .. G - 1 : q \in L .. END - 1 /\ q \in START .. END - 1 /\ W <= q /\ q < G
    BY <1>17, <1>1, <1>2, Sizes
  <2>3. \A q \in L .. G - 1 : q \in L .. END - 1
    BY <1>17, <1>1, <1>2, Sizes
  <2>4. \A q \in G .. END - 1 : q \in L .. END - 1
    BY <1>17, <1>1, <1>2, Sizes
  <2>5. ASSUME F + m > START, NEW q \in W .. G - 1, IsDoc(e, q)
        PROVE  SyncOf(e, q) <= SyncOf(e, START) /\ WriteOf(e, q) <= WriteOf(e, START)
    <3>1. q \in START .. END - 1 /\ W <= q /\ q < G /\ IsDoc(d, q) /\ SyncOf(e, q) = SyncOf(d, q) /\ WriteOf(e, q) = WriteOf(d, q)
      BY Zenon, <2>1, <2>2, <2>5
    <3>2. CASE F > START
      <4>1. SyncOf(e, START) = SyncOf(d, START) /\ WriteOf(e, START) = WriteOf(d, START)
        BY <1>3, <3>2, Sizes
      <4>2. QED BY Zenon, <4>1, <3>1, <3>2, <2>0, <2>5 DEF Turn
    <3>3. CASE F = START
      <4>1. IsDoc(e, START) /\ WriteOf(e, START) = ws /\ SyncOf(e, START) = ss
        BY <3>3, <2>5, <1>1, <1>4, <1>5, Sizes
      <4>2. Over(W, w, G, F, q)
        BY Zenon, <1>17, <3>1 DEF Over
      <4>3. SyncOf(d, q) <= ss /\ WriteOf(d, q) < ws
        BY Zenon, <1>14, <3>1, <4>2
      <4>4. WriteOf(d, q) <= ws
        BY <4>3, <3>1, <1>6
      <4>5. QED BY Zenon, <4>1, <4>3, <4>4, <3>1
    <3>4. F > START \/ F = START
      BY <1>1, Sizes
    <3>5. QED BY Zenon, <3>2, <3>3, <3>4
  <2>6. \A q \in W .. G - 1 : IsDoc(e, q) => EndOf(e, q) <= G
    BY Zenon, <2>0, <2>1, <2>2 DEF Turn
  <2>7. \A q \in L .. G - 1 : IsDoc(e, q) /\ EndOf(e, q) = G => \A p \in G .. END - 1 : IsDoc(e, p) => SyncOf(e, p) < SyncOf(e, q)
    BY Zenon, <2>0, <2>1, <2>3, <2>4 DEF Turn
  <2>8. QED BY Zenon, <2>5, <2>6, <2>7 DEF Turn
<1>18. ASSUME NEW q \in START .. END - 1, Over(W, w, G, F + m, q), IsDoc(e, q)
       PROVE  SyncOf(e, q) >= S /\ SyncOf(e, q) <= ss /\ WriteOf(e, q) >= C /\ WriteOf(e, q) < ws + 1
  <2>1. CASE q >= F /\ q < F + m
    <3>1. WriteOf(e, q) = ws /\ SyncOf(e, q) = ss
      BY Zenon, <2>1, <1>4, <1>18
    <3>2. QED BY <3>1
  <2>2. CASE q < F \/ q >= F + m
    <3>1. Over(W, w, G, F, q)
      BY <2>2, <1>18, <1>1, <1>2, Sizes DEF Over
    <3>2. IsDoc(d, q) /\ SyncOf(e, q) = SyncOf(d, q) /\ WriteOf(e, q) = WriteOf(d, q)
      BY Zenon, <2>2, <1>3, <1>18
    <3>3. SyncOf(d, q) >= S /\ SyncOf(d, q) <= ss /\ WriteOf(d, q) >= C /\ WriteOf(d, q) < ws /\ WriteOf(d, q) \in Nat
      BY Zenon, <3>1, <3>2, <1>14, <1>6
    <3>4. WriteOf(d, q) < ws + 1
      BY <3>3
    <3>5. QED BY Zenon, <3>2, <3>3, <3>4
  <2>3. QED BY <2>1, <2>2, <1>1, Sizes
<1>19. Newer(W, S, C, e, w, G, F + m, ss) /\ Below(W, e, w, G, F + m, ws + 1)
  BY Zenon, <1>18 DEF Newer, Below
<1>20. Ahead(W, S, C, e)
  <2>1. ASSUME NEW p \in START .. W - 1, IsDoc(e, p)
        PROVE  (SyncOf(e, p) < S /\ WriteOf(e, p) < C) \/ EndOf(e, p) < W - EVACUATION_SIZE
    <3>1. p \in START .. END - 1 /\ p < W
      BY <1>1, Sizes
    <3>2. CASE p < F \/ p >= F + m
      BY Zenon, <3>1, <3>2, <2>1, <1>0, <1>3 DEF Ahead
    <3>3. CASE p >= F /\ p < F + m
      <4>1. EndOf(e, p) <= F + n /\ EndOf(e, p) \in Int
        BY Zenon, <3>1, <3>3, <2>1, <1>4, <1>7
      <4>2. p \in Int /\ F + n \in Int /\ W - EVACUATION_SIZE \in Int
        BY <3>1, <1>1, Sizes
      <4>3. w
        BY <4>2, <3>1, <3>3, <1>1, <1>2
      <4>4. F + n < W - EVACUATION_SIZE
        BY Zenon, <4>3, <1>2
      <4>5. QED BY Zenon, <4>1, <4>2, <4>4, Between
    <3>4. QED BY <3>1, <3>2, <3>3, <1>1, Sizes
  <2>2. QED BY Zenon, <2>1 DEF Ahead
<1>21. Rest(W, S, C, full, e)
  <2>1. ASSUME full, NEW p \in W .. END - 1, IsDoc(e, p)
        PROVE  SyncOf(e, p) < S \/ (WriteOf(e, p) >= C /\ EndOf(e, p) < W + STRIPE_LEN - EVACUATION_SIZE)
    <3>1. CASE p < F \/ p >= F + m
      BY <3>1, <2>1, <1>0, <1>1, <1>3, Sizes DEF Rest
    <3>2. CASE p >= F /\ p < F + m
      <4>1. ~w /\ WriteOf(e, p) = ws /\ EndOf(e, p) <= F + n /\ EndOf(e, p) \in Int
        BY <3>2, <2>1, <1>1, <1>2, <1>4, <1>7, Sizes
      <4>2. F + n - W < STRIPE_LEN - EVACUATION_SIZE
        BY <4>1 DEF Shape
      <4>3. F + n \in Int
        BY <1>1
      <4>4. EndOf(e, p) < W + STRIPE_LEN - EVACUATION_SIZE
        <5> DEFINE x == EndOf(e, p)
        <5>1. x \in Int /\ x <= F + n
          BY Zenon, <4>1
        <5> HIDE DEF x
        <5>2. x < W + STRIPE_LEN - EVACUATION_SIZE
          BY <5>1, <4>2, <4>3, Sizes
        <5>3. QED BY Zenon, <5>2 DEF x
      <4>5. QED BY Zenon, <4>1, <4>4
    <3>3. QED BY <3>1, <3>2, <1>1, Sizes
  <2>2. QED BY Zenon, <2>1 DEF Rest
<1>22. Older(W, S, full, e, w, G, F + m)
  <2>1. ASSUME NEW p \in START .. END - 1, ~Over(W, w, G, F + m, p), IsDoc(e, p), p < W \/ full
        PROVE  SyncOf(e, p) <= S
    <3>1. (p < F \/ p >= F + m) /\ ~Over(W, w, G, F, p)
      BY <2>1, <1>1, <1>2, Sizes DEF Over
    <3>2. QED BY Zenon, <3>1, <2>1, <1>0, <1>3 DEF Older
  <2>2. QED BY Zenon, <2>1 DEF Older
<1>b. LogArgs(W, L, S, C, full, e, w, G, F + m, ss)
  BY Zenon, <1>2 DEF LogArgs
<1>23. QED BY Zenon, <1>b, <1>0, <1>10, <1>11, <1>12, <1>15, <1>16, <1>17, <1>19, <1>20, <1>21, <1>22 DEF Log

\* An entry and its blocks lie within the stripe.
LEMMA EntryRange ==
  ASSUME NEW x \in Entry, x.off + x.len <= END, NEW p \in x.off .. x.off + x.len - 1
  PROVE  p \in START .. END - 1
<1> DEFINE o == x.off  l == x.len
<1>1. o \in START .. END - 1 /\ l \in 1 .. AGG_SIZE /\ p \in o .. o + l - 1 /\ o + l <= END
  BY Zenon DEF Entry, Positions
<1>2. \A i \in START .. END - 1, j \in 1 .. AGG_SIZE : i + j <= END => \A k \in i .. i + j - 1 : k \in START .. END - 1
  BY Sizes
<1>3. QED BY Zenon, <1>1, <1>2

\* What the log has overwritten once m blocks more have landed at F.
LEMMA OverGrows ==
  ASSUME NEW W \in START .. END, NEW w \in BOOLEAN, NEW G \in Int, NEW F \in START .. END, NEW m \in Nat, Shape(W, w, G, F),
         NEW p \in START .. END - 1
  PROVE  /\ Over(W, w, G, F, p) => Over(W, w, G, F + m, p)
         /\ (p < F \/ p >= F + m) \/ Over(W, w, G, F + m, p)
BY Sizes DEF Over, Shape

Inside(es) == \A x \in es : x.off + x.len <= END

\* What was kept and not overwritten is still there.
LEMMA KeptLands ==
  ASSUME NEW d, NEW e, NEW W \in START .. END, NEW ph, NEW es \in SUBSET Entry, NEW w \in BOOLEAN, NEW G \in Int, NEW F \in START .. END,
         NEW m \in Nat, Shape(W, w, G, F), Inside(es), Kept(W, ph, es, d, w, G, F), Same(d, e, F, m)
  PROVE  Kept(W, ph, es, e, w, G, F + m)
<1> SUFFICES ASSUME NEW x \in es, x.phase = ph \/ x.off >= W, NEW p \in x.off .. x.off + x.len - 1
             PROVE  Over(W, w, G, F + m, p) \/ Holds(e, p, x)
  BY Zenon DEF Kept
<1>1. Over(W, w, G, F, p) \/ Holds(d, p, x)
  BY Zenon DEF Kept
<1>2. x \in Entry /\ x.off + x.len <= END
  BY Zenon DEF Inside
<1>3. p \in START .. END - 1
  BY Zenon, <1>2, EntryRange
<1>4. CASE p < F \/ p >= F + m
  <2>1. Over(W, w, G, F, p) => Over(W, w, G, F + m, p)
    BY Zenon, <1>3, OverGrows
  <2>2. e[p] = d[p]
    BY Zenon, <1>3, <1>4 DEF Same
  <2>3. QED BY Zenon, <1>1, <2>1, <2>2 DEF Holds
<1>5. CASE Over(W, w, G, F + m, p)
  BY Zenon, <1>5
<1>6. QED BY Zenon, <1>3, <1>4, <1>5, OverGrows

----------------------------------------------------------------------------
(* The log wraps, and a copy is taken or read back *)

\* The log ends at F with the write that started at hl, and all that lies beyond is older.
EndsHere(F, hl, hc, d) ==
  /\ hl \in START .. END /\ hc \in Nat /\ hl < F /\ Tiled(d, F) /\ Tiled(d, hl) /\ LastWrite(F, hl, hc, d)
  /\ \A p \in F .. END - 1 : IsDoc(d, p) => SyncOf(d, p) < SyncOf(d, hl)

\* The log goes on at the front; nothing has landed there yet.
LEMMA LogWraps ==
  ASSUME NEW d, NEW W, NEW L, NEW S, NEW C, NEW full, NEW G, NEW F, NEW top, NEW hl, NEW hc,
         Log(W, L, S, C, full, d, FALSE, G, F, top), EndsHere(F, hl, hc, d), Shape(W, TRUE, F, START)
  PROVE  /\ Log(W, L, S, C, full, d, TRUE, F, START, top)
         /\ \A p \in START .. END - 1 : Over(W, TRUE, F, START, p) <=> Over(W, FALSE, G, F, p)
<1>u. LogArgs(W, L, S, C, full, d, FALSE, G, F, top)
  BY Zenon DEF Log
<1> /\ W \in START .. END /\ L \in START .. END /\ S \in Nat /\ C \in Nat /\ full \in BOOLEAN /\ d \in Disks
    /\ G \in START .. END /\ F \in START .. END /\ top \in Nat
  BY Zenon, <1>u DEF LogArgs
<1> hl \in START .. END /\ hc \in Nat
  BY Zenon DEF EndsHere
<1>0. /\ L < W /\ W - L <= AGG_SIZE /\ W # END - EVACUATION_SIZE
      /\ Shape(W, FALSE, G, F) /\ LastWrite(W, L, C, d) /\ Tiled(d, W) /\ Tiled(d, L) /\ Chain(d, W, F)
      /\ Newer(W, S, C, d, FALSE, G, F, top) /\ Ahead(W, S, C, d) /\ Rest(W, S, C, full, d) /\ Older(W, S, full, d, FALSE, G, F)
  BY Zenon DEF Log
<1>a. /\ hl < F /\ Tiled(d, F) /\ Tiled(d, hl) /\ LastWrite(F, hl, hc, d)
      /\ \A p \in F .. END - 1 : IsDoc(d, p) => SyncOf(d, p) < SyncOf(d, hl)
  BY Zenon DEF EndsHere
<1>1. W \in Int /\ L \in Int /\ F \in Int /\ hl \in Int /\ hl < F /\ W <= F /\ F <= END /\ START <= W /\ START <= L /\ START <= hl
  BY <1>0, <1>a, Sizes DEF Shape
<1>2. \A p \in START .. END - 1 : IsDoc(d, p) => EndOf(d, p) \in Int
  BY Zenon, Cells
<1>3. \A p \in START .. END - 1 : Over(W, TRUE, F, START, p) <=> Over(W, FALSE, G, F, p)
  BY <1>1, Sizes DEF Over
<1>4. Chain(d, START, START)
  BY Sizes DEF Chain
<1>5. ASSUME NEW q \in L .. F - 1, IsDoc(d, q), EndOf(d, q) = F
      PROVE  \A p \in F .. END - 1 : IsDoc(d, p) => SyncOf(d, p) < SyncOf(d, q)
  <2>1. q \in START .. END - 1 /\ q < F
    BY <1>1, Sizes
  <2>2. q >= hl
    <3>1. ASSUME q < hl
          PROVE  FALSE
      <4>1. q \in START .. hl - 1
        BY <2>1, <3>1, <1>1
      <4>2. F <= hl
        BY Zenon, <4>1, <1>5, <1>a DEF Tiled
      <4>3. QED BY <4>2, <1>1
    <3>2. QED BY <3>1, <2>1, <1>1
  <2>3. q \in hl .. F - 1
    BY <2>1, <2>2, <1>1
  <2>4. SyncOf(d, q) = SyncOf(d, hl)
    BY Zenon, <2>3, <1>5, <1>a DEF LastWrite
  <2>5. QED BY Zenon, <2>4, <1>a
<1>6. \A q \in W .. F - 1 : IsDoc(d, q) => EndOf(d, q) <= F
  <2>1. \A q \in W .. F - 1 : q \in START .. F - 1
    BY <1>1, Sizes
  <2>2. QED BY Zenon, <2>1, <1>a DEF Tiled
<1>7. ~(START > START)
  BY Sizes
<1>8. Turn(W, L, d, F, START)
  BY Zenon, <1>5, <1>6, <1>7 DEF Turn
<1>9. Newer(W, S, C, d, TRUE, F, START, top) /\ Older(W, S, full, d, TRUE, F, START)
  BY Zenon, <1>0, <1>3 DEF Newer, Older
<1>v. LogArgs(W, L, S, C, full, d, TRUE, F, START, top)
  <2>1. START \in START .. END
    BY Sizes
  <2>2. QED BY Zenon, <2>1 DEF LogArgs
<1>10. QED BY Zenon, <1>v, <1>0, <1>3, <1>4, <1>8, <1>9 DEF Log

\* If nothing has landed at the front, the log ends where it left the end of the stripe.
LEMMA LogUnwraps ==
  ASSUME NEW d, NEW W, NEW L, NEW S, NEW C, NEW full, NEW G, NEW top, NEW X \in START .. END,
         Log(W, L, S, C, full, d, TRUE, G, START, top)
  PROVE  /\ Log(W, L, S, C, full, d, FALSE, X, G, top)
         /\ \A p \in START .. END - 1 : Over(W, FALSE, X, G, p) <=> Over(W, TRUE, G, START, p)
<1>u. LogArgs(W, L, S, C, full, d, TRUE, G, START, top)
  BY Zenon DEF Log
<1> /\ W \in START .. END /\ L \in START .. END /\ S \in Nat /\ C \in Nat /\ full \in BOOLEAN /\ d \in Disks
    /\ G \in START .. END /\ top \in Nat
  BY Zenon, <1>u DEF LogArgs
<1>0. /\ L < W /\ W - L <= AGG_SIZE /\ W # END - EVACUATION_SIZE
      /\ Shape(W, TRUE, G, START) /\ LastWrite(W, L, C, d) /\ Tiled(d, W) /\ Tiled(d, L) /\ Chain(d, W, G)
      /\ Newer(W, S, C, d, TRUE, G, START, top) /\ Ahead(W, S, C, d) /\ Rest(W, S, C, full, d) /\ Older(W, S, full, d, TRUE, G, START)
  BY Zenon DEF Log
<1>1. Shape(W, FALSE, X, G)
  BY <1>0, Sizes DEF Shape
<1>2. \A p \in START .. END - 1 : Over(W, FALSE, X, G, p) <=> Over(W, TRUE, G, START, p)
  BY Sizes DEF Over
<1>3. Newer(W, S, C, d, FALSE, X, G, top) /\ Older(W, S, full, d, FALSE, X, G)
  BY Zenon, <1>0, <1>2 DEF Newer, Older
<1>v. LogArgs(W, L, S, C, full, d, FALSE, X, G, top)
  BY Zenon DEF LogArgs
<1>4. QED BY Zenon, <1>v, <1>0, <1>1, <1>2, <1>3 DEF Log

\* A larger bound on the sync serials of the log also holds.
LEMMA LogTop ==
  ASSUME NEW d, NEW W, NEW L, NEW S, NEW C, NEW full, NEW w, NEW G, NEW F, NEW top, NEW up \in Nat, top <= up,
         Log(W, L, S, C, full, d, w, G, F, top)
  PROVE  Log(W, L, S, C, full, d, w, G, F, up)
<1>0. LogArgs(W, L, S, C, full, d, w, G, F, top)
  BY Zenon DEF Log
<1> d \in Disks /\ top \in Nat
  BY Zenon, <1>0 DEF LogArgs
<1>1. Newer(W, S, C, d, w, G, F, top)
  BY Zenon DEF Log
<1>2. ASSUME NEW q \in START .. END - 1, Over(W, w, G, F, q), IsDoc(d, q)
      PROVE  SyncOf(d, q) >= S /\ SyncOf(d, q) <= up /\ WriteOf(d, q) >= C
  <2>1. SyncOf(d, q) >= S /\ SyncOf(d, q) <= top /\ WriteOf(d, q) >= C /\ SyncOf(d, q) \in Nat
    BY Zenon, <1>1, <1>2, Cells DEF Newer
  <2>2. SyncOf(d, q) <= up
    BY <2>1
  <2>3. QED BY Zenon, <2>1, <2>2
<1>3. Newer(W, S, C, d, w, G, F, up)
  BY Zenon, <1>2 DEF Newer
<1>4. LogArgs(W, L, S, C, full, d, w, G, F, up)
  BY Zenon, <1>0 DEF LogArgs
<1>5. QED BY Zenon, <1>3, <1>4 DEF Log

\* Facts that hold of a log nothing was added to.
LEMMA LogNone ==
  ASSUME NEW d, NEW W, NEW L, NEW S, NEW C, NEW full, NEW G, NEW top, LogArgs(W, L, S, C, full, d, FALSE, G, W, top),
         L < W, W - L <= AGG_SIZE, W # END - EVACUATION_SIZE, LastWrite(W, L, C, d), Tiled(d, W), Tiled(d, L),
         Ahead(W, S, C, d), Rest(W, S, C, full, d),
         \A p \in START .. END - 1 : IsDoc(d, p) /\ (p < W \/ full) => SyncOf(d, p) <= S
  PROVE  /\ Log(W, L, S, C, full, d, FALSE, G, W, top)
         /\ \A p \in START .. END - 1 : ~Over(W, FALSE, G, W, p)
<1> /\ W \in START .. END /\ L \in START .. END /\ S \in Nat /\ C \in Nat /\ full \in BOOLEAN /\ d \in Disks
    /\ G \in START .. END /\ top \in Nat
  BY Zenon DEF LogArgs
<1>1. Shape(W, FALSE, G, W) /\ Chain(d, W, W)
  BY Sizes DEF Shape, Chain
<1>2. \A p \in START .. END - 1 : ~Over(W, FALSE, G, W, p)
  BY Sizes DEF Over
<1>3. Newer(W, S, C, d, FALSE, G, W, top) /\ Older(W, S, full, d, FALSE, G, W)
  BY Zenon, <1>2 DEF Newer, Older
<1>4. QED BY Zenon, <1>1, <1>2, <1>3 DEF Log

\* The header that a sync copies.
LEMMA LogFresh ==
  ASSUME NEW d, NEW W, NEW L, NEW S, NEW C, NEW full, NEW G, NEW top, LogArgs(W, L, S, C, full, d, FALSE, G, W, top),
         L < W, W - L <= AGG_SIZE, W # END - EVACUATION_SIZE, RunDisk(W, L, S, C, full, d)
  PROVE  /\ Log(W, L, S + 1, C, full, d, FALSE, G, W, top)
         /\ \A p \in START .. END - 1 : ~Over(W, FALSE, G, W, p)
<1> /\ W \in START .. END /\ L \in START .. END /\ S \in Nat /\ C \in Nat /\ full \in BOOLEAN /\ d \in Disks
    /\ G \in START .. END /\ top \in Nat
  BY Zenon DEF LogArgs
<1>1. /\ LastWrite(W, L, C, d) /\ Tiled(d, W) /\ Tiled(d, L)
      /\ \A p \in START .. END - 1 : IsDoc(d, p) /\ (p < W \/ full) => SyncOf(d, p) <= S
      /\ \A p \in START .. W - 1 : IsDoc(d, p) => WriteOf(d, p) < C \/ EndOf(d, p) < W - EVACUATION_SIZE
  BY Zenon DEF RunDisk
<1>2. \A p \in START .. END - 1 : IsDoc(d, p) => SyncOf(d, p) \in Nat
  BY Zenon, Cells
<1>3. \A p \in START .. END - 1 : IsDoc(d, p) /\ (p < W \/ full) => SyncOf(d, p) < S + 1 /\ SyncOf(d, p) <= S + 1
  <2> SUFFICES ASSUME NEW p \in START .. END - 1, IsDoc(d, p), p < W \/ full
               PROVE  SyncOf(d, p) < S + 1 /\ SyncOf(d, p) <= S + 1
    BY Zenon
  <2>1. SyncOf(d, p) \in Nat /\ SyncOf(d, p) <= S
    BY Zenon, <1>1, <1>2
  <2>2. QED BY <2>1
<1>4. Ahead(W, S + 1, C, d)
  <2>1. \A p \in START .. W - 1 : p \in START .. END - 1 /\ p < W
    BY Sizes
  <2>2. QED BY Zenon, <2>1, <1>1, <1>3 DEF Ahead
<1>5. Rest(W, S + 1, C, full, d)
  <2>1. \A p \in W .. END - 1 : p \in START .. END - 1
    BY Sizes
  <2>2. QED BY Zenon, <2>1, <1>3 DEF Rest
<1>6. LogArgs(W, L, S + 1, C, full, d, FALSE, G, W, top)
  <2>1. S + 1 \in Nat
    OBVIOUS
  <2>2. QED BY Zenon, <2>1 DEF LogArgs
<1>7. QED BY Zenon, <1>1, <1>3, <1>4, <1>5, <1>6, LogNone

\* The header that recovery writes, with a higher serial, once it has cleared what was overwritten.
LEMMA LogRecovered ==
  ASSUME NEW d, NEW W, NEW L, NEW S, NEW C, NEW full, NEW w, NEW G, NEW F, Log(W, L, S, C, full, d, w, G, F, S + 1),
         NEW T \in Nat, T > S, NEW X \in START .. END, NEW top \in Nat
  PROVE  /\ Log(W, L, T, C, full, d, FALSE, X, W, top)
         /\ \A p \in START .. END - 1 : ~Over(W, FALSE, X, W, p)
<1>u. LogArgs(W, L, S, C, full, d, w, G, F, S + 1)
  BY Zenon DEF Log
<1> W \in START .. END /\ L \in START .. END /\ S \in Nat /\ C \in Nat /\ full \in BOOLEAN /\ d \in Disks
  BY Zenon, <1>u DEF LogArgs
<1>0. /\ L < W /\ W - L <= AGG_SIZE /\ W # END - EVACUATION_SIZE
      /\ LastWrite(W, L, C, d) /\ Tiled(d, W) /\ Tiled(d, L)
      /\ Newer(W, S, C, d, w, G, F, S + 1) /\ Ahead(W, S, C, d) /\ Rest(W, S, C, full, d) /\ Older(W, S, full, d, w, G, F)
  BY Zenon DEF Log
<1>1. \A p \in START .. END - 1 : IsDoc(d, p) => SyncOf(d, p) \in Nat
  BY Zenon, Cells
<1>2. ASSUME NEW p \in START .. END - 1, IsDoc(d, p), p < W \/ full
      PROVE  SyncOf(d, p) <= T
  <2>1. SyncOf(d, p) <= S + 1 \/ SyncOf(d, p) <= S
    BY Zenon, <1>0, <1>2 DEF Newer, Older
  <2>2. SyncOf(d, p) \in Nat
    BY Zenon, <1>1, <1>2
  <2>3. QED BY <2>1, <2>2
<1>3. \A p \in START .. END - 1 : IsDoc(d, p) /\ SyncOf(d, p) < S => SyncOf(d, p) < T
  BY <1>1
<1>4. Ahead(W, T, C, d)
  <2>1. \A p \in START .. W - 1 : p \in START .. END - 1
    BY Sizes
  <2>2. QED BY Zenon, <2>1, <1>0, <1>3 DEF Ahead
<1>5. Rest(W, T, C, full, d)
  <2>1. \A p \in W .. END - 1 : p \in START .. END - 1
    BY Sizes
  <2>2. QED BY Zenon, <2>1, <1>0, <1>3 DEF Rest
<1>6. LogArgs(W, L, T, C, full, d, FALSE, X, W, top)
  BY Zenon DEF LogArgs
<1>7. QED BY Zenon, <1>0, <1>2, <1>4, <1>5, <1>6, LogNone

\* Recovery may also leave the header as it is: when nothing was written since, or on the first lap.
Idle(W, full, w, F) == ~w /\ ~(F > W /\ full)

\* A log of which nothing was overwritten yet that a full stripe held is as good as an empty one.
LEMMA LogUnchanged ==
  ASSUME NEW d, NEW W, NEW L, NEW S, NEW C, NEW full, NEW w, NEW G, NEW F, NEW to, Log(W, L, S, C, full, d, w, G, F, to),
         Idle(W, full, w, F), NEW X \in START .. END, NEW top \in Nat
  PROVE  /\ Log(W, L, S, C, full, d, FALSE, X, W, top)
         /\ \A p \in START .. END - 1 : ~Over(W, FALSE, X, W, p)
<1>u. LogArgs(W, L, S, C, full, d, w, G, F, to)
  BY Zenon DEF Log
<1> /\ W \in START .. END /\ L \in START .. END /\ S \in Nat /\ C \in Nat /\ full \in BOOLEAN /\ d \in Disks
    /\ w \in BOOLEAN /\ G \in START .. END /\ F \in START .. END
  BY Zenon, <1>u DEF LogArgs
<1>0. /\ L < W /\ W - L <= AGG_SIZE /\ W # END - EVACUATION_SIZE
      /\ LastWrite(W, L, C, d) /\ Tiled(d, W) /\ Tiled(d, L) /\ Ahead(W, S, C, d) /\ Rest(W, S, C, full, d) /\ Older(W, S, full, d, w, G, F)
  BY Zenon DEF Log
<1>1. \A p \in START .. END - 1 : p < W \/ full => ~Over(W, w, G, F, p)
  BY Sizes DEF Over, Idle
<1>2. \A p \in START .. END - 1 : IsDoc(d, p) /\ (p < W \/ full) => SyncOf(d, p) <= S
  BY Zenon, <1>0, <1>1 DEF Older
<1>3. LogArgs(W, L, S, C, full, d, FALSE, X, W, top)
  BY Zenon DEF LogArgs
<1>4. QED BY Zenon, <1>0, <1>2, <1>3, LogNone

\* What is on disk when the stripe goes into service.
LEMMA LogInService ==
  ASSUME NEW d, NEW W, NEW L, NEW S, NEW C, NEW full, NEW G, NEW top,
         Log(W, L, S, C, full, d, FALSE, G, W, top)
  PROVE  RunDisk(W, L, S, C, full, d)
<1>u. LogArgs(W, L, S, C, full, d, FALSE, G, W, top)
  BY Zenon DEF Log
<1> W \in START .. END /\ G \in START .. END
  BY Zenon, <1>u DEF LogArgs
<1>0. /\ LastWrite(W, L, C, d) /\ Tiled(d, W) /\ Tiled(d, L) /\ Ahead(W, S, C, d) /\ Older(W, S, full, d, FALSE, G, W)
  BY Zenon DEF Log
<1>1. \A p \in START .. END - 1 : ~Over(W, FALSE, G, W, p)
  BY Sizes DEF Over
<1>2. \A p \in START .. END - 1 : IsDoc(d, p) /\ (p < W \/ full) => SyncOf(d, p) <= S
  BY Zenon, <1>0, <1>1 DEF Older
<1>3. \A p \in START .. W - 1 : IsDoc(d, p) => WriteOf(d, p) < C \/ EndOf(d, p) < W - EVACUATION_SIZE
  BY Zenon, <1>0 DEF Ahead
<1>4. QED BY Zenon, <1>0, <1>2, <1>3 DEF RunDisk

----------------------------------------------------------------------------
(* A copy of the directory while the log goes on *)

\* Laps of the stripe, counted as multiples of its length.
LEMMA Multiples ==
  ASSUME NEW a \in Nat, NEW b \in Nat, NEW l \in Nat, a <= b
  PROVE  /\ a * l \in Nat /\ b * l \in Nat
         /\ b = a => b * l = a * l
         /\ b = a + 1 => b * l = a * l + l
         /\ b > a + 1 => b * l >= a * l + 2 * l
<1>1. a * l \in Nat /\ b * l \in Nat
  OBVIOUS
<1>2. b = a + 1 => b * l = a * l + l
  OBVIOUS
<1>3. ASSUME b > a + 1
      PROVE  b * l >= a * l + 2 * l
  <2>1. PICK k \in Nat : b = a + 2 + k
    <3>1. b - a - 2 \in Nat /\ b = a + 2 + (b - a - 2)
      BY <1>3
    <3>2. QED BY <3>1
  <2>2. b * l = a * l + 2 * l + k * l /\ k * l \in Nat
    BY <2>1
  <2>3. QED BY <2>2, <1>1
<1>4. QED BY <1>1, <1>2, <1>3

\* How far the log has come: whole laps and the position in this one.
LEMMA LogPositions ==
  ASSUME NEW h \in Headers
  PROVE  LogPosition(h) \in Int /\ h.cycle * STRIPE_LEN \in Nat /\ LogPosition(h) = h.cycle * STRIPE_LEN + h.write_pos - START
<1> DEFINE c == h.cycle  p == h.write_pos
<1>1. c \in Nat /\ p \in Int /\ LogPosition(h) = c * STRIPE_LEN + p - START
  BY Zenon, Heads DEF LogPosition
<1> HIDE DEF c, p
<1>2. c * STRIPE_LEN \in Nat
  BY <1>1, Sizes
<1>3. LogPosition(h) \in Int
  <2> DEFINE x == c * STRIPE_LEN
  <2>1. x \in Nat /\ LogPosition(h) = x + p - START
    BY Zenon, <1>1, <1>2
  <2> HIDE DEF x
  <2>2. QED BY <2>1, <1>1, Sizes
<1>4. QED BY Zenon, <1>1, <1>2, <1>3 DEF c, p

\* While it stays behind the margin the log wraps at most once after a copy was taken.
LEMMA Laps ==
  ASSUME NEW g \in Headers, NEW h \in Headers, NEW n \in Nat, GoneOn(g, h, n)
  PROVE  \/ /\ h.cycle = g.cycle /\ h.write_pos >= g.write_pos /\ h.write_pos + n - g.write_pos < STRIPE_LEN - EVACUATION_SIZE
            /\ LogPosition(h) - LogPosition(g) = h.write_pos - g.write_pos
         \/ /\ h.cycle = g.cycle + 1 /\ h.write_pos + n < g.write_pos - EVACUATION_SIZE
            /\ LogPosition(h) - LogPosition(g) = STRIPE_LEN + h.write_pos - g.write_pos
<1> DEFINE a == g.cycle  b == h.cycle  p == g.write_pos  q == h.write_pos  x == a * STRIPE_LEN  y == b * STRIPE_LEN
           lg == LogPosition(g)  lh == LogPosition(h)
<1>1. /\ a \in Nat /\ b \in Nat /\ p \in Int /\ q \in Int /\ START <= p /\ p <= END /\ START <= q /\ q <= END
      /\ x \in Nat /\ y \in Nat /\ lg = x + p - START /\ lh = y + q - START
  BY Zenon, Heads, LogPositions
<1>2. lh + n - lg < STRIPE_LEN - EVACUATION_SIZE /\ lg <= lh /\ a <= b
  BY Zenon DEF GoneOn
<1>3. (b = a => y = x) /\ (b = a + 1 => y = x + STRIPE_LEN) /\ (b > a + 1 => y >= x + 2 * STRIPE_LEN)
  <2> HIDE DEF a, b
  <2>1. STRIPE_LEN \in Nat
    BY Zenon, Sizes
  <2>2. a \in Nat /\ b \in Nat /\ a <= b
    BY Zenon, <1>1, <1>2
  <2>3. QED BY Multiples, <2>1, <2>2
<1> HIDE DEF a, b, p, q, x, y, lg, lh
<1>4. \/ b = a /\ q >= p /\ q + n - p < STRIPE_LEN - EVACUATION_SIZE /\ lh - lg = q - p
      \/ b = a + 1 /\ q + n < p - EVACUATION_SIZE /\ lh - lg = STRIPE_LEN + q - p
  BY <1>1, <1>2, <1>3, Sizes
<1>5. QED BY Zenon, <1>4 DEF a, b, p, q, lg, lh

\* The parts of a copy of the directory.
LEMMA CopyFields ==
  ASSUME NEW c \in Copies
  PROVE  c.header \in Headers /\ c.dir \in SUBSET Entry
BY Zenon DEF Copies

\* The types of the fields of a header that the log is made of.
LEMMA LogRange ==
  ASSUME NEW h \in Headers
  PROVE  /\ h.write_pos \in START .. END /\ h.last_write_pos \in START .. END /\ h.sync_serial \in Nat /\ h.write_serial \in Nat
         /\ (h.cycle > 0) \in BOOLEAN /\ (h.cycle > 0 <=> h.cycle # 0)
<1>1. h.write_pos \in START .. END /\ h.last_write_pos \in START .. END - 1 /\ h.sync_serial \in Nat /\ h.cycle \in Nat /\ h.write_serial \in 0 .. MaxSerial
  BY Zenon DEF Headers
<1>2. START .. END - 1 \in SUBSET (START .. END) /\ 0 .. MaxSerial \in SUBSET Nat
  BY Sizes
<1>3. \A n \in Nat : (n > 0) \in BOOLEAN /\ (n > 0 <=> n # 0)
  OBVIOUS
<1>4. QED BY Zenon, <1>1, <1>2, <1>3

\* A write is taken into the buffer without a wrap: nothing changes for a copy.
LEMMA SinceBuffered ==
  ASSUME NEW c \in Copies, NEW h \in Headers, NEW g \in Headers, NEW m, NEW n, NEW d, Since(c, h, m, d),
         g.write_pos = h.write_pos, g.cycle = h.cycle, g.write_serial = h.write_serial, g.sync_serial = h.sync_serial,
         LogPosition(g) + n - LogPosition(c.header) < STRIPE_LEN - EVACUATION_SIZE
  PROVE  Since(c, g, n, d)
<1>1. LogPosition(g) = LogPosition(h)
  BY Zenon DEF LogPosition
<1>2. GoneOn(c.header, g, n)
  BY Zenon, <1>1 DEF Since, GoneOn
<1>3. QED BY Zenon, <1>2 DEF Since

\* The log wraps.
Behind(c, g, n) == LogPosition(g) + n - LogPosition(c.header) < STRIPE_LEN - EVACUATION_SIZE
WrapsTo(h, g, d) ==
  /\ g.write_pos = START /\ g.cycle = h.cycle + 1 /\ g.write_serial = h.write_serial /\ g.sync_serial = h.sync_serial
  /\ h.write_pos > END - AGG_SIZE /\ h.last_write_pos < h.write_pos
  /\ \A p \in h.write_pos .. END - 1 : IsDoc(d, p) => SyncOf(d, p) < SyncOf(d, h.last_write_pos)

\* agg_wrap keeps what is known of a copy taken before it.
LEMMA SinceWraps ==
  ASSUME NEW c \in Copies, NEW h \in Headers, NEW g \in Headers, NEW n \in Nat, NEW d \in Disks, Since(c, h, 0, d),
         WrapsTo(h, g, d), Behind(c, g, n),
         RunDisk(h.write_pos, h.last_write_pos, h.sync_serial, h.write_serial, h.cycle > 0, d)
  PROVE  Since(c, g, n, d)
<1>0. c.header \in Headers
  BY Zenon, CopyFields
<1>1. LogPosition(h) <= LogPosition(g)
  <2> DEFINE b == h.cycle  x == b * STRIPE_LEN  y == (b + 1) * STRIPE_LEN  q == h.write_pos  lg == LogPosition(g)  lh == LogPosition(h)
  <2>1. b \in Nat /\ x \in Nat /\ y \in Nat /\ lh = x + q - START /\ lg = y + START - START /\ q \in Int /\ q <= END
    BY Zenon, Heads, LogPositions DEF WrapsTo
  <2>2. y = x + STRIPE_LEN
    BY <2>1, Sizes
  <2> HIDE DEF b, x, y, q, lg, lh
  <2>3. lh <= lg
    BY <2>1, <2>2, Sizes
  <2>4. QED BY Zenon, <2>3 DEF lg, lh
<1>2. GoneOn(c.header, g, n)
  <2> DEFINE a == c.header.cycle  b == h.cycle  lc == LogPosition(c.header)  lh == LogPosition(h)  lg == LogPosition(g)
  <2>1. a \in Nat /\ b \in Nat /\ a <= b /\ lc \in Int /\ lh \in Int /\ lg \in Int /\ lc <= lh /\ lh <= lg /\ g.cycle = b + 1
    BY Zenon, <1>0, <1>1, Heads, LogPositions DEF Since, GoneOn, WrapsTo
  <2>2. /\ c.header.write_serial <= g.write_serial /\ c.header.sync_serial <= g.sync_serial /\ g.sync_serial <= c.header.sync_serial + 1
        /\ lg + n - lc < STRIPE_LEN - EVACUATION_SIZE
    BY Zenon DEF Since, GoneOn, WrapsTo, Behind
  <2> HIDE DEF a, b, lc, lh, lg
  <2>3. a <= b + 1 /\ lc <= lg
    BY <2>1
  <2>4. QED BY Zenon, <2>1, <2>2, <2>3 DEF GoneOn, a, lc, lg
<1>3. ASSUME c.header.sync_serial > 0
      PROVE  \E G \in START .. END : /\ Copied(c, d, g.cycle > c.header.cycle, G, g.write_pos, g.sync_serial)
                                     /\ Below(c.header.write_pos, d, g.cycle > c.header.cycle, G, g.write_pos, g.write_serial)
  <2> DEFINE W == c.header.write_pos  L == c.header.last_write_pos  S == c.header.sync_serial  C == c.header.write_serial
             full == c.header.cycle > 0  F == h.write_pos  hl == h.last_write_pos  hc == h.write_serial  top == h.sync_serial
             a == c.header.cycle  b == h.cycle
  <2>0. /\ W \in START .. END /\ L \in START .. END /\ S \in Nat /\ C \in Nat /\ full \in BOOLEAN /\ F \in START .. END
        /\ hl \in START .. END /\ hc \in Nat /\ top \in Nat /\ a \in Nat /\ b \in Nat
    BY Zenon, <1>0, LogRange, Heads
  <2>1. \/ h.cycle = c.header.cycle /\ F >= W /\ F + 0 - W < STRIPE_LEN - EVACUATION_SIZE
        \/ h.cycle = c.header.cycle + 1 /\ F + 0 < W - EVACUATION_SIZE
    <3>1. GoneOn(c.header, h, 0) /\ 0 \in Nat
      BY Zenon DEF Since
    <3>2. QED BY Zenon, <3>1, <1>0, Laps
  <2>2. \/ g.cycle = c.header.cycle
        \/ g.cycle = c.header.cycle + 1 /\ START + n < W - EVACUATION_SIZE
    BY Zenon, <1>0, <1>2, Laps DEF WrapsTo
  <2>3. h.cycle = c.header.cycle /\ START + n < W - EVACUATION_SIZE /\ W <= F
    <3>1. (b = a /\ F >= W) \/ (b = a + 1 /\ F + 0 < W - EVACUATION_SIZE)
      BY Zenon, <2>1
    <3>2. b + 1 = a \/ (b + 1 = a + 1 /\ START + n < W - EVACUATION_SIZE)
      BY Zenon, <2>2 DEF WrapsTo
    <3>3. b = a /\ W <= F /\ START + n < W - EVACUATION_SIZE
      <4> HIDE DEF W, L, S, C, full, F, hl, hc, top, a, b
      <4> QED BY <3>1, <3>2, <2>0, Sizes
    <3>4. QED BY Zenon, <3>3
  <2>4. ~(h.cycle > c.header.cycle) /\ g.cycle > c.header.cycle
    <3>1. ~(a > a) /\ a + 1 > a
      <4> HIDE DEF a
      <4> QED BY <2>0
    <3>2. QED BY Zenon, <3>1, <2>3 DEF WrapsTo
  <2>5. (h.cycle > c.header.cycle) = FALSE /\ (g.cycle > c.header.cycle) = TRUE
    BY <2>4
  <2>6. PICK G \in START .. END : Copied(c, d, FALSE, G, F, top) /\ Below(W, d, FALSE, G, F, hc)
    BY Zenon, <1>3, <2>5 DEF Since
  <2>7. /\ Log(W, L, S, C, full, d, FALSE, G, F, top) /\ Placed(W, 0, c.header.phase, c.header.cycle = 0, c.dir)
        /\ Kept(W, c.header.phase, c.dir, d, FALSE, G, F) /\ c.header.agg_pos = W
    BY Zenon, <2>6 DEF Copied, LogSince
  <2>8. Tiled(d, F) /\ Tiled(d, hl) /\ LastWrite(F, hl, hc, d) /\ hl < F
    BY Zenon DEF RunDisk, WrapsTo
  <2>9. /\ F > END - AGG_SIZE
        /\ \A p \in F .. END - 1 : IsDoc(d, p) => SyncOf(d, p) < SyncOf(d, hl)
    BY Zenon DEF WrapsTo
  <2>10. START + n < W - EVACUATION_SIZE /\ W <= F
    BY Zenon, <2>3
  <2> HIDE DEF W, L, S, C, full, F, hl, hc, top, a, b
  <2>8a. EndsHere(F, hl, hc, d)
    BY Zenon, <2>0, <2>8, <2>9 DEF EndsHere
  <2>11. Shape(W, TRUE, F, START)
    BY <2>0, <2>9, <2>10, Sizes DEF Shape
  <2>12. /\ Log(W, L, S, C, full, d, TRUE, F, START, top)
         /\ \A p \in START .. END - 1 : Over(W, TRUE, F, START, p) <=> Over(W, FALSE, G, F, p)
    BY Zenon, <2>7, <2>8a, <2>11, LogWraps
  <2>13. Kept(W, c.header.phase, c.dir, d, TRUE, F, START)
    <3>1. ASSUME NEW e \in c.dir, e.phase = c.header.phase \/ e.off >= W, NEW p \in e.off .. e.off + e.len - 1
          PROVE  Over(W, TRUE, F, START, p) \/ Holds(d, p, e)
      <4>1. e \in Entry /\ e.off + e.len <= END
        BY Zenon, <2>7 DEF Placed
      <4>3. p \in START .. END - 1
        BY Zenon, <4>1, EntryRange
      <4>4. QED BY Zenon, <4>3, <3>1, <2>7, <2>12 DEF Kept
    <3>2. QED BY Zenon, <3>1 DEF Kept
  <2>14. Below(W, d, TRUE, F, START, hc)
    BY Zenon, <2>6, <2>12 DEF Below
  <2>15. Copied(c, d, TRUE, F, START, top)
    BY Zenon, <2>7, <2>12, <2>13 DEF Copied, LogSince, W, L, S, C, full
  <2>16. F \in START .. END /\ Copied(c, d, TRUE, F, g.write_pos, g.sync_serial) /\ Below(W, d, TRUE, F, g.write_pos, g.write_serial)
    BY Zenon, <2>0, <2>14, <2>15 DEF top, hc, WrapsTo
  <2>17. QED BY Zenon, <2>16, <2>5 DEF W
<1>4. QED BY Zenon, <1>2, <1>3 DEF Since

\* A part of the write in flight, or all of it, reaches the disk: the copy's log goes on by as much.
Fits(h, n) == h.write_pos + n <= END
Arrives(h, d, e, m, n) ==
  /\ Lands(d, e, h.write_pos, m, n, h.write_serial, h.sync_serial) /\ Same(d, e, h.write_pos, m)
  /\ Tiled(d, h.write_pos) /\ Fits(h, n)

\* A prefix of a write that lands extends the log since the copy and keeps what the log spares.
LEMMA CopyLands ==
  ASSUME NEW c \in Copies, NEW h \in Headers, NEW n \in Nat, NEW m \in 0 .. n, NEW d \in Disks, NEW e \in Disks,
         Since(c, h, n, d), c.header.sync_serial > 0, Arrives(h, d, e, m, n)
  PROVE  \E G \in START .. END :
           /\ Copied(c, e, h.cycle > c.header.cycle, G, h.write_pos + m, h.sync_serial)
           /\ Below(c.header.write_pos, e, h.cycle > c.header.cycle, G, h.write_pos + m, h.write_serial + 1)
<1> DEFINE W == c.header.write_pos  L == c.header.last_write_pos  S == c.header.sync_serial  C == c.header.write_serial
           full == c.header.cycle > 0  F == h.write_pos  hc == h.write_serial  top == h.sync_serial
           a == c.header.cycle  b == h.cycle  w == h.cycle > c.header.cycle  ph == c.header.phase
<1>0. c.header \in Headers
  BY Zenon, CopyFields
<1>1. /\ W \in START .. END /\ S \in Nat /\ C \in Nat /\ F \in START .. END
      /\ hc \in Nat /\ top \in Nat /\ a \in Nat /\ b \in Nat
  BY Zenon, <1>0, LogRange, Heads
<1>2. \/ b = a /\ F >= W /\ F + n - W < STRIPE_LEN - EVACUATION_SIZE
      \/ b = a + 1 /\ F + n < W - EVACUATION_SIZE
  <2>1. GoneOn(c.header, h, n)
    BY Zenon DEF Since
  <2>2. QED BY Zenon, <2>1, <1>0, Laps
<1>3. PICK G \in START .. END : Copied(c, d, w, G, F, top) /\ Below(W, d, w, G, F, hc)
  BY Zenon DEF Since
<1>4. /\ Log(W, L, S, C, full, d, w, G, F, top) /\ Placed(W, 0, ph, c.header.cycle = 0, c.dir)
      /\ Kept(W, ph, c.dir, d, w, G, F) /\ c.header.agg_pos = W
  BY Zenon, <1>3 DEF Copied, LogSince
<1>5. /\ Lands(d, e, F, m, n, hc, top) /\ Tiled(d, F) /\ F + n <= END
      /\ Same(d, e, F, m)
  BY Zenon DEF Arrives, Fits
<1>6. hc >= C /\ top >= S
  <2>1. C <= hc /\ S <= top
    BY Zenon DEF Since, GoneOn
  <2> HIDE DEF W, L, S, C, full, F, hc, top, a, b, w, ph
  <2>2. QED BY <2>1, <1>1
<1>7. w <=> b > a
  BY Zenon
<1>8. c.dir \in SUBSET Entry /\ \A x \in c.dir : x.off + x.len <= END
  BY Zenon, <1>4 DEF Placed
<1>9. w \in BOOLEAN
  <2> HIDE DEF a, b
  <2>1. (b > a) \in BOOLEAN
    OBVIOUS
  <2>2. QED BY Zenon, <2>1 DEF a, b
<1> HIDE DEF W, L, S, C, full, F, hc, top, a, b, w, ph
<1>10. Shape(W, w, G, F)
  BY Zenon, <1>4 DEF Log
<1>11. Shape(W, w, G, F + n)
  BY <1>1, <1>2, <1>5, <1>7, <1>9, <1>10, Sizes DEF Shape
<1>12. Log(W, L, S, C, full, e, w, G, F + m, top) /\ Below(W, e, w, G, F + m, hc + 1)
  <2>1. Log(W, L, S, C, full, d, w, G, F, top)
    BY Zenon, <1>4
  <2>2. Lands(d, e, F, m, n, hc, top) /\ Tiled(d, F) /\ hc >= C /\ top >= S /\ hc \in Nat /\ Below(W, d, w, G, F, hc)
    BY Zenon, <1>1, <1>3, <1>5, <1>6
  <2>3. QED BY Zenon, <2>1, <2>2, <1>11, LogLands
<1>13. Kept(W, ph, c.dir, e, w, G, F + m)
  <2>1. m \in Nat /\ G \in Int
    BY Sizes
  <2>2. Kept(W, ph, c.dir, d, w, G, F) /\ W \in START .. END /\ F \in START .. END
    BY Zenon, <1>1, <1>4
  <2>3. c.dir \in SUBSET Entry /\ Inside(c.dir)
    BY Zenon, <1>8 DEF Inside
  <2>4. Same(d, e, F, m)
    BY Zenon, <1>5
  <2>5. QED BY Zenon, <2>1, <2>2, <2>3, <2>4, <1>9, <1>10, KeptLands
<1>14. Copied(c, e, w, G, F + m, top)
  BY Zenon, <1>4, <1>12, <1>13 DEF Copied, LogSince, W, L, S, C, full, ph
<1>15. QED BY Zenon, <1>12, <1>14 DEF W, w, F, top, hc

\* The write in flight is done.
DoneTo(h, g, n) ==
  /\ g.write_pos = h.write_pos + n /\ g.cycle = h.cycle /\ g.write_serial = h.write_serial + 1 /\ g.sync_serial = h.sync_serial

\* aggWriteDone moves the log on by what landed.
LEMMA DoneAdvances ==
  ASSUME NEW h \in Headers, NEW g \in Headers, NEW n \in Nat, DoneTo(h, g, n)
  PROVE  LogPosition(g) = LogPosition(h) + n
<1> DEFINE x == h.cycle * STRIPE_LEN  q == h.write_pos  lg == LogPosition(g)  lh == LogPosition(h)
<1>1. x \in Nat /\ lh = x + q - START /\ lg = x + (q + n) - START /\ q \in Int
  BY Zenon, Heads, LogPositions DEF DoneTo
<1> HIDE DEF x, q, lg, lh
<1>2. lg = lh + n
  BY <1>1, Sizes
<1>3. QED BY Zenon, <1>2 DEF lg, lh

\* aggWriteDone keeps what is known of a copy taken before the write landed.
LEMMA SinceLands ==
  ASSUME NEW c \in Copies, NEW h \in Headers, NEW g \in Headers, NEW n \in Nat, NEW d \in Disks, NEW e \in Disks,
         Since(c, h, n, d), DoneTo(h, g, n), Arrives(h, d, e, n, n)
  PROVE  Since(c, g, 0, e)
<1>0. c.header \in Headers
  BY Zenon, CopyFields
<1>1. LogPosition(g) = LogPosition(h) + n
  BY Zenon, DoneAdvances
<1>2. GoneOn(c.header, g, 0)
  <2> DEFINE lc == LogPosition(c.header)  lh == LogPosition(h)  lg == LogPosition(g)
             a == c.header.write_serial  b == h.write_serial
  <2>1. /\ lc \in Int /\ lh \in Int /\ lg = lh + n /\ lh + n - lc < STRIPE_LEN - EVACUATION_SIZE /\ lc <= lh
        /\ a \in Nat /\ b \in Nat /\ a <= b
    BY Zenon, <1>0, <1>1, LogPositions, Heads DEF Since, GoneOn
  <2>2. c.header.cycle <= g.cycle /\ c.header.sync_serial <= g.sync_serial /\ g.sync_serial <= c.header.sync_serial + 1 /\ g.write_serial = b + 1
    BY Zenon DEF Since, GoneOn, DoneTo
  <2> HIDE DEF lc, lh, lg, a, b
  <2>3. lg + 0 - lc < STRIPE_LEN - EVACUATION_SIZE /\ lc <= lg /\ a <= b + 1
    BY <2>1
  <2>4. QED BY Zenon, <2>2, <2>3 DEF GoneOn, lc, lg, a
<1>3. ASSUME c.header.sync_serial > 0
      PROVE  \E G \in START .. END : /\ Copied(c, e, g.cycle > c.header.cycle, G, g.write_pos, g.sync_serial)
                                     /\ Below(c.header.write_pos, e, g.cycle > c.header.cycle, G, g.write_pos, g.write_serial)
  <2>1. n \in 0 .. n
    OBVIOUS
  <2>2. \E G \in START .. END :
           /\ Copied(c, e, h.cycle > c.header.cycle, G, h.write_pos + n, h.sync_serial)
           /\ Below(c.header.write_pos, e, h.cycle > c.header.cycle, G, h.write_pos + n, h.write_serial + 1)
    BY Zenon, <1>3, <2>1, CopyLands
  <2>3. QED BY Zenon, <2>2 DEF DoneTo
<1>4. QED BY Zenon, <1>2, <1>3 DEF Since

\* A sync starts: the earlier copy, and the one that is taken.
SyncTo(h, g) ==
  /\ g.write_pos = h.write_pos /\ g.last_write_pos = h.last_write_pos /\ g.agg_pos = h.agg_pos /\ g.phase = h.phase
  /\ g.cycle = h.cycle /\ g.write_serial = h.write_serial /\ g.sync_serial = h.sync_serial + 1

\* Taking a copy (sync_serial + 1) keeps what is known of the one before it.
LEMMA SinceSync ==
  ASSUME NEW c \in Copies, NEW h \in Headers, NEW g \in Headers, NEW d \in Disks,
         Since(c, h, 0, d), SyncTo(h, g), h.sync_serial = c.header.sync_serial
  PROVE  Since(c, g, 0, d)
<1>0. c.header \in Headers
  BY Zenon, CopyFields
<1>1. LogPosition(g) = LogPosition(h)
  BY Zenon DEF SyncTo, LogPosition
<1> DEFINE s == h.sync_serial
<1>2. s \in Nat /\ g.sync_serial = s + 1 /\ c.header.sync_serial = s
  BY Zenon, Heads DEF SyncTo
<1>3. s <= s + 1 /\ s + 1 <= s + 1 /\ s + 1 \in Nat
  <2> HIDE DEF s
  <2> QED BY <1>2
<1>4. GoneOn(c.header, g, 0)
  BY Zenon, <1>1, <1>2, <1>3 DEF Since, GoneOn, SyncTo
<1>5. ASSUME c.header.sync_serial > 0
      PROVE  \E G \in START .. END : /\ Copied(c, d, g.cycle > c.header.cycle, G, g.write_pos, g.sync_serial)
                                     /\ Below(c.header.write_pos, d, g.cycle > c.header.cycle, G, g.write_pos, g.write_serial)
  <2>1. PICK G \in START .. END : /\ Copied(c, d, g.cycle > c.header.cycle, G, g.write_pos, s)
                                  /\ Below(c.header.write_pos, d, g.cycle > c.header.cycle, G, g.write_pos, g.write_serial)
    BY Zenon, <1>5 DEF Since, SyncTo
  <2>2. Copied(c, d, g.cycle > c.header.cycle, G, g.write_pos, s + 1)
    BY Zenon, <2>1, <1>3, LogTop DEF Copied, LogSince
  <2>3. QED BY Zenon, <2>1, <2>2, <1>2
<1>6. QED BY Zenon, <1>4, <1>5 DEF Since

\* Where a copy may be taken.
Settled(h, es, d) ==
  /\ h.last_write_pos < h.write_pos /\ h.write_pos - h.last_write_pos <= AGG_SIZE /\ h.write_pos # END - EVACUATION_SIZE
  /\ h.agg_pos = h.write_pos
  /\ RunDisk(h.write_pos, h.last_write_pos, h.sync_serial, h.write_serial, h.cycle > 0, d)
  /\ RunDir(h.write_pos, h.phase, h.cycle = 0, es, d, <<>>)

\* With nothing in flight all entries lead to what is on disk.
LEMMA DirOnDisk ==
  ASSUME NEW W \in START .. END, NEW ph, NEW first, NEW es \in SUBSET Entry, NEW d, RunDir(W, ph, first, es, d, <<>>), NEW w, NEW G, NEW F
  PROVE  /\ Placed(W, 0, ph, first, es) /\ Kept(W, ph, es, d, w, G, F)
         /\ \A e \in es : e.phase = ph \/ e.off >= W => \A p \in e.off .. e.off + e.len - 1 : Holds(d, p, e)
<1>1. Len(<<>>) = 0 /\ W + 0 = W
  BY Sizes
<1>2. Placed(W, 0, ph, first, es)
  BY Zenon, <1>1 DEF RunDir
<1>3. ASSUME NEW e \in es, e.phase = ph \/ e.off >= W, NEW p \in e.off .. e.off + e.len - 1
      PROVE  Holds(d, p, e)
  <2>1. Found(d, W, <<>>, p, e)
    BY Zenon, <1>1, <1>3 DEF RunDir
  <2>2. e \in Entry /\ e.off + e.len <= END
    BY Zenon, <1>2 DEF Placed
  <2>3. p \in START .. END - 1
    BY Zenon, <2>2, EntryRange
  <2>4. ~(W <= p /\ p < W + Len(<<>>))
    BY <1>1, <2>3, Sizes
  <2>5. QED BY Zenon, <2>1, <2>4 DEF Found
<1>4. QED BY Zenon, <1>2, <1>3 DEF Kept

\* With nothing in flight the entries of the stripe lead to what is on disk.
LEMMA OnDiskDir ==
  ASSUME NEW W \in START .. END, NEW ph, NEW first, NEW es, NEW d, Placed(W, 0, ph, first, es),
         \A e \in es : e.phase = ph \/ e.off >= W => \A p \in e.off .. e.off + e.len - 1 : Holds(d, p, e)
  PROVE  RunDir(W, ph, first, es, d, <<>>)
<1>1. Len(<<>>) = 0 /\ W + 0 = W
  BY Sizes
<1>2. ASSUME NEW e \in es, e.phase = ph \/ e.off >= W + Len(<<>>), NEW p \in e.off .. e.off + e.len - 1
      PROVE  Found(d, W, <<>>, p, e)
  <2>1. Holds(d, p, e)
    BY Zenon, <1>1, <1>2
  <2>2. e \in Entry /\ e.off + e.len <= END
    BY Zenon DEF Placed
  <2>3. p \in START .. END - 1
    BY Zenon, <2>2, EntryRange
  <2>4. ~(W <= p /\ p < W + Len(<<>>))
    BY <1>1, <2>3, Sizes
  <2>5. QED BY Zenon, <2>1, <2>4 DEF Found
<1>3. QED BY Zenon, <1>1, <1>2 DEF RunDir

\* A copy just taken has an empty log.
LEMMA SinceFresh ==
  ASSUME NEW h \in Headers, NEW g \in Headers, NEW d \in Disks, NEW es \in SUBSET Entry, Settled(h, es, d), SyncTo(h, g)
  PROVE  Since([header |-> g, dir |-> es], g, 0, d)
<1> DEFINE c == [header |-> g, dir |-> es]
           W == h.write_pos  L == h.last_write_pos  S == h.sync_serial  C == h.write_serial  full == h.cycle > 0
           x == LogPosition(g)  y == g.cycle  z == g.write_serial
<1>1. c.header = g /\ c.dir = es
  OBVIOUS
<1>2. /\ W \in START .. END /\ L \in START .. END /\ S \in Nat /\ C \in Nat /\ full \in BOOLEAN
      /\ x \in Int /\ y \in Nat /\ z \in Nat /\ g.sync_serial = S + 1
  BY Zenon, LogRange, LogPositions, Heads DEF SyncTo
<1>3. /\ L < W /\ W - L <= AGG_SIZE /\ W # END - EVACUATION_SIZE /\ RunDisk(W, L, S, C, full, d)
      /\ RunDir(W, h.phase, h.cycle = 0, es, d, <<>>) /\ h.agg_pos = W
  BY Zenon DEF Settled
<1>4. ~(g.cycle > g.cycle)
  <2>1. ~(y > y)
    <3> HIDE DEF y
    <3> QED BY <1>2
  <2>2. QED BY Zenon, <2>1
<1>5. GoneOn(g, g, 0) /\ ~(g.sync_serial = 0)
  <2>1. /\ x + 0 - x < STRIPE_LEN - EVACUATION_SIZE /\ x <= x /\ y <= y /\ z <= z
        /\ S + 1 <= S + 1 /\ S + 1 <= S + 1 + 1 /\ ~(S + 1 = 0)
    <3> HIDE DEF x, y, z, S
    <3> QED BY <1>2, Sizes
  <2>2. QED BY Zenon, <2>1, <1>2 DEF GoneOn
<1>6. START \in START .. END /\ S + 1 \in Nat
  <2> HIDE DEF S
  <2> QED BY <1>2, Sizes
<1>7. (g.cycle > g.cycle) = FALSE
  BY <1>4
<1>8. Placed(W, 0, h.phase, h.cycle = 0, es) /\ Kept(W, h.phase, es, d, FALSE, START, W)
  BY Zenon, <1>2, <1>3, DirOnDisk
<1>9. Log(W, L, S + 1, C, full, d, FALSE, START, W, S + 1) /\ \A p \in START .. END - 1 : ~Over(W, FALSE, START, W, p)
  <2> HIDE DEF W, L, S, C, full
  <2>1. LogArgs(W, L, S, C, full, d, FALSE, START, W, S + 1)
    BY Zenon, <1>2, <1>6 DEF LogArgs
  <2>2. QED BY Zenon, <1>3, <2>1, LogFresh
<1>10. Copied(c, d, FALSE, START, g.write_pos, g.sync_serial)
  BY Zenon, <1>1, <1>3, <1>8, <1>9 DEF Copied, LogSince, SyncTo
<1>11. Below(g.write_pos, d, FALSE, START, g.write_pos, g.write_serial)
  BY Zenon, <1>9 DEF Below, SyncTo
<1> HIDE DEF c
<1>12. QED BY Zenon, <1>1, <1>5, <1>6, <1>7, <1>10, <1>11 DEF Since, c

\* The stripe goes down: what has reached the disk is the log that recovery has to find.
Reached(c, h, n, far) == far >= LogPosition(h) + n - LogPosition(c.header)

SomeLost(c, d, far) == \E w \in BOOLEAN, G \in START .. END, F \in START .. END : Lost(c, d, far, w, G, F)

\* A crash leaves of any write in flight some prefix, and of the copy the log up to there.
LEMMA SinceLost ==
  ASSUME NEW c \in Copies, NEW h \in Headers, NEW n \in Nat, NEW m \in 0 .. n, NEW d \in Disks, NEW e \in Disks, NEW far \in Nat,
         Since(c, h, n, d), c.header.sync_serial > 0, Arrives(h, d, e, m, n), Reached(c, h, n, far)
  PROVE  SomeLost(c, e, far)
<1> DEFINE W == c.header.write_pos  L == c.header.last_write_pos  S == c.header.sync_serial  C == c.header.write_serial
           full == c.header.cycle > 0  hp == h.write_pos  F == hp + m  top == h.sync_serial
           a == c.header.cycle  b == h.cycle  w == h.cycle > c.header.cycle  ph == c.header.phase
           lc == LogPosition(c.header)  lh == LogPosition(h)
<1>0. c.header \in Headers
  BY Zenon, CopyFields
<1>1. /\ W \in START .. END /\ hp \in START .. END /\ S \in Nat /\ top \in Nat /\ a \in Nat /\ b \in Nat /\ lc \in Int /\ lh \in Int
      /\ hp + n <= END /\ far >= lh + n - lc
  BY Zenon, <1>0, LogRange, Heads, LogPositions DEF Arrives, Fits, Reached
<1>2. GoneOn(c.header, h, n)
  BY Zenon DEF Since
<1>3. \/ b = a /\ lh - lc = hp - W
      \/ b = a + 1 /\ lh - lc = STRIPE_LEN + hp - W
  BY Zenon, <1>0, <1>2, Laps
<1>4. top <= S + 1
  BY Zenon, <1>2 DEF GoneOn
<1>5. PICK G \in START .. END : Copied(c, e, w, G, F, top)
  BY Zenon, CopyLands
<1>6. /\ Log(W, L, S, C, full, e, w, G, F, top) /\ Placed(W, 0, ph, c.header.cycle = 0, c.dir)
      /\ Kept(W, ph, c.dir, e, w, G, F) /\ c.header.agg_pos = W
  BY Zenon, <1>5 DEF Copied, LogSince
<1>7. Log(W, L, S, C, full, e, w, G, F, S + 1)
  <2>1. S + 1 \in Nat
    <3> HIDE DEF S
    <3> QED BY <1>1
  <2> HIDE DEF W, L, S, C, full, F, top, w
  <2>2. QED BY Zenon, <2>1, <1>4, <1>6, LogTop
<1>8. w <=> b > a
  BY Zenon
<1>9. w \in BOOLEAN /\ F \in START .. END
  BY Zenon, <1>7 DEF Log, LogArgs
<1>10. CASE ~w
  <2>1. F <= W + far
    <3>1. F = hp + m
      OBVIOUS
    <3> HIDE DEF W, hp, a, b, lc, lh, w, F
    <3> QED BY <3>1, <1>10, <1>1, <1>3, <1>8, Sizes
  <2>2. Copied(c, e, w, G, F, S + 1)
    BY Zenon, <1>6, <1>7 DEF Copied, LogSince
  <2>3. Lost(c, e, far, w, G, F)
    BY Zenon, <2>1, <2>2, <1>10 DEF Lost
  <2>4. QED BY Zenon, <2>3, <1>9 DEF SomeLost
<1>11. CASE w
  <2>0. w = TRUE
    BY Zenon, <1>9, <1>11
  <2>1. W + far >= END
    <3>1. b > a
      BY Zenon, <1>8, <1>11
    <3> HIDE DEF W, hp, a, b, lc, lh, w, F
    <3>2. lh - lc = STRIPE_LEN + hp - W
      BY <3>1, <1>1, <1>3
    <3>3. QED BY Zenon, <3>2, <1>1, LapAhead
  <2>2. CASE F > START
    <3>1. Copied(c, e, w, G, F, S + 1)
      BY Zenon, <1>6, <1>7 DEF Copied, LogSince
    <3>2. Lost(c, e, far, w, G, F)
      BY Zenon, <2>1, <2>2, <3>1, <1>11 DEF Lost
    <3>3. QED BY Zenon, <3>2, <1>9 DEF SomeLost
  <2>3. CASE ~(F > START)
    <3>1. F = START
      <4> HIDE DEF F
      <4> QED BY <2>3, <1>9, Sizes
    <3>2. START \in START .. END
      BY Sizes
    <3>3. Log(W, L, S, C, full, e, TRUE, G, START, S + 1)
      BY Zenon, <1>7, <2>0, <3>1
    <3>4. /\ Log(W, L, S, C, full, e, FALSE, START, G, S + 1)
          /\ \A p \in START .. END - 1 : Over(W, FALSE, START, G, p) <=> Over(W, TRUE, G, START, p)
      <4> HIDE DEF W, L, S, C, full
      <4> QED BY Zenon, <3>2, <3>3, LogUnwraps
    <3>5. Kept(W, ph, c.dir, e, TRUE, G, START)
      BY Zenon, <1>6, <2>0, <3>1
    <3>6. Kept(W, ph, c.dir, e, FALSE, START, G)
      <4>1. ASSUME NEW x \in c.dir, x.phase = ph \/ x.off >= W, NEW p \in x.off .. x.off + x.len - 1
            PROVE  Over(W, FALSE, START, G, p) \/ Holds(e, p, x)
        <5>1. x \in Entry /\ x.off + x.len <= END
          BY Zenon, <1>6 DEF Placed
        <5>2. p \in START .. END - 1
          BY Zenon, <5>1, EntryRange
        <5>3. QED BY Zenon, <5>2, <4>1, <3>5, <3>4 DEF Kept
      <4>2. QED BY Zenon, <4>1 DEF Kept
    <3>7. Copied(c, e, FALSE, START, G, S + 1)
      BY Zenon, <1>6, <3>4, <3>6 DEF Copied, LogSince
    <3>8. G <= W + far
      <4> HIDE DEF W
      <4> QED BY <2>1, <1>1, Sizes
    <3>9. Lost(c, e, far, FALSE, START, G)
      BY Zenon, <3>7, <3>8 DEF Lost
    <3>10. QED BY Zenon, <3>2, <3>9 DEF SomeLost
  <2>4. QED BY Zenon, <2>2, <2>3
<1>12. QED BY Zenon, <1>10, <1>11

----------------------------------------------------------------------------
(* Steps of the stripe in service: the header *)

\* What aggWriteDone does to the header.
LEMMA HeadDone ==
  ASSUME NEW h \in Headers, NEW n \in Nat, h.write_pos + n \in START .. END, h.write_pos \in START .. END - 1,
         h.write_serial + 1 \in 0 .. MaxSerial, NEW g,
         g = [h EXCEPT !.last_write_pos = h.write_pos, !.write_pos = @ + n, !.write_serial = @ + 1]
  PROVE  /\ g \in Headers /\ DoneTo(h, g, n)
         /\ g.last_write_pos = h.write_pos /\ g.agg_pos = h.agg_pos /\ g.phase = h.phase /\ g.dirty = h.dirty
BY Zenon DEF Headers, DoneTo

\* What the step of dir_sync that takes the copy does to the header.
LEMMA HeadSync ==
  ASSUME NEW h \in Headers, h.sync_serial + 1 \in Nat, NEW g, g = [h EXCEPT !.sync_serial = @ + 1, !.dirty = FALSE]
  PROVE  g \in Headers /\ SyncTo(h, g) /\ g.dirty = FALSE
BY Zenon DEF Headers, SyncTo

BufferedTo(h, g, a) ==
  /\ g \in Headers /\ g.write_pos = h.write_pos /\ g.last_write_pos = h.last_write_pos /\ g.agg_pos = a /\ g.phase = h.phase
  /\ g.cycle = h.cycle /\ g.write_serial = h.write_serial /\ g.sync_serial = h.sync_serial

\* What aggWrite does to the header when it fills the buffer.
LEMMA HeadBuffer ==
  ASSUME NEW h \in Headers, NEW a \in START .. END, NEW g, g = [h EXCEPT !.agg_pos = a, !.dirty = TRUE]
  PROVE  BufferedTo(h, g, a)
BY Zenon DEF Headers, BufferedTo

\* What agg_wrap does to the header.
LEMMA HeadWrap ==
  ASSUME NEW h \in Headers, NEW g, g = agg_wrap(h)
  PROVE  /\ g \in Headers /\ g.write_pos = START /\ g.last_write_pos = h.last_write_pos /\ g.phase = 1 - h.phase
         /\ g.agg_pos = START /\ g.cycle = h.cycle + 1 /\ g.write_serial = h.write_serial /\ g.sync_serial = h.sync_serial
<1>1. START \in START .. END /\ 1 - 0 \in {0, 1} /\ 1 - 1 \in {0, 1} /\ (\A x \in Nat : x + 1 \in Nat)
  BY Sizes
<1>2. h.phase \in {0, 1} /\ h.cycle \in Nat
  BY Zenon DEF Headers
<1>3. 1 - h.phase \in {0, 1} /\ h.cycle + 1 \in Nat
  BY Zenon, <1>1, <1>2
<1>4. QED BY Zenon, <1>1, <1>3 DEF Headers, agg_wrap

----------------------------------------------------------------------------
(* The write in flight lands: entries and documents *)

\* The entries of a write lead to its blocks once it has landed.
LEMMA DirLands ==
  ASSUME NEW d, NEW e, NEW W \in START .. END, NEW ph, NEW first, NEW es \in SUBSET Entry, NEW fl, NEW n \in Nat, Len(fl) = n,
         W + n <= END, RunDir(W, ph, first, es, d, fl), Same(d, e, W, n), Filled(e, W, fl, n)
  PROVE  RunDir(W + n, ph, first, es, e, <<>>)
<1> DEFINE x == W + n
<1>0. x = W + n /\ x + 0 = x /\ Len(<<>>) = 0 /\ x \in Int
  BY Sizes
<1>1. Placed(W, n, ph, first, es)
  BY Zenon DEF RunDir
<1> HIDE DEF x
<1>2. Placed(x, Len(<<>>), ph, first, es)
  BY Zenon, <1>0, <1>1 DEF Placed
<1>3. ASSUME NEW y \in es, y.phase = ph \/ y.off >= x + Len(<<>>), NEW p \in y.off .. y.off + y.len - 1
      PROVE  Found(e, x, <<>>, p, y)
  <2>1. Found(d, W, fl, p, y)
    BY Zenon, <1>0, <1>3 DEF RunDir
  <2>2. y \in Entry /\ y.off + y.len <= END
    BY Zenon, <1>1 DEF Placed
  <2>3. p \in START .. END - 1
    BY Zenon, <2>2, EntryRange
  <2>4. ~(x <= p /\ p < x + Len(<<>>)) /\ (p < W \/ p >= x \/ (p >= W /\ p < x)) /\ (W <= p <=> p >= W) /\ (p < W => ~(W <= p)) /\ (p >= x => ~(p < x))
    BY <1>0, <2>3, Sizes
  <2>5. CASE p < W \/ p >= x
    <3>1. e[p] = d[p]
      BY Zenon, <1>0, <2>3, <2>5 DEF Same
    <3>2. Holds(d, p, y)
      BY Zenon, <1>0, <2>1, <2>4, <2>5 DEF Found
    <3>3. QED BY Zenon, <3>1, <3>2, <2>4 DEF Found, Holds
  <2>6. CASE p >= W /\ p < x
    BY Zenon, <1>0, <2>1, <2>3, <2>4, <2>6 DEF Found, Holds, Filled
  <2>7. QED BY Zenon, <2>4, <2>5, <2>6
<1>4. RunDir(x, ph, first, es, e, <<>>)
  BY Zenon, <1>2, <1>3 DEF RunDir
<1>5. QED BY Zenon, <1>0, <1>4

RunArgs(W, L, S, C, full, d) ==
  W \in START .. END /\ L \in START .. END /\ S \in Nat /\ C \in Nat /\ full \in BOOLEAN /\ d \in Disks

\* A write that lands keeps the documents before write_pos in order.
LEMMA DiskLands ==
  ASSUME NEW d, NEW e \in Disks, NEW W, NEW L, NEW S, NEW C, NEW full, RunArgs(W, L, S, C, full, d),
         NEW n \in Nat, n > 0, W + n <= END, RunDisk(W, L, S, C, full, d), Lands(d, e, W, n, n, C, S)
  PROVE  RunDisk(W + n, W, S, C + 1, full, e)
<1> W \in START .. END /\ S \in Nat /\ C \in Nat /\ full \in BOOLEAN /\ d \in Disks
  BY Zenon DEF RunArgs
<1> DEFINE x == W + n
<1>0. x = W + n /\ x \in Int
  BY Sizes
<1> HIDE DEF x
<1>1. /\ Tiled(d, W)
      /\ \A p \in START .. END - 1 : IsDoc(d, p) /\ (p < W \/ full) => SyncOf(d, p) <= S
      /\ \A p \in START .. W - 1 : IsDoc(d, p) => WriteOf(d, p) < C \/ EndOf(d, p) < W - EVACUATION_SIZE
  BY Zenon DEF RunDisk
<1>2. /\ \A p \in START .. END - 1 : p < W \/ p >= x =>
           /\ IsDoc(e, p) <=> IsDoc(d, p)
           /\ SyncOf(e, p) = SyncOf(d, p) /\ WriteOf(e, p) = WriteOf(d, p) /\ EndOf(e, p) = EndOf(d, p)
      /\ \A p \in START .. END - 1 : p >= W /\ p < x /\ IsDoc(e, p) =>
           /\ WriteOf(e, p) = C /\ SyncOf(e, p) = S /\ EndOf(e, p) <= x
           /\ EndOf(e, p) < x => IsDoc(e, EndOf(e, p))
      /\ IsDoc(e, W)
  BY Zenon, <1>0 DEF Lands
<1>3. \A p \in START .. END - 1 : IsDoc(e, p) => WriteOf(e, p) \in Nat /\ EndOf(e, p) \in Int
  BY Zenon, Cells
<1>4. LastWrite(x, W, C + 1, e)
  <2>1. ASSUME NEW q \in W .. x - 1, IsDoc(e, q)
        PROVE  (EndOf(e, q) < x => IsDoc(e, EndOf(e, q))) /\ SyncOf(e, q) = SyncOf(e, W) /\ WriteOf(e, q) < C + 1
    <3>1. q \in START .. END - 1 /\ q >= W /\ q < x /\ W \in START .. END - 1 /\ W >= W /\ W < x /\ C < C + 1
      BY <1>0, Sizes
    <3>2. QED BY Zenon, <3>1, <2>1, <1>2
  <2>2. QED BY Zenon, <2>1, <1>2 DEF LastWrite
<1>5. Tiled(e, W)
  BY <1>1, <1>2, <1>0, Sizes DEF Tiled
<1>6. Tiled(e, x)
  BY <1>1, <1>2, <1>3, <1>0, Sizes DEF Tiled
<1>7. ASSUME NEW p \in START .. END - 1, IsDoc(e, p), p < x \/ full
      PROVE  SyncOf(e, p) <= S
  BY <1>1, <1>2, <1>7, <1>0, Sizes
<1>8. ASSUME NEW p \in START .. x - 1, IsDoc(e, p)
      PROVE  WriteOf(e, p) < C + 1 \/ EndOf(e, p) < x - EVACUATION_SIZE
  <2>1. p \in START .. END - 1 /\ (p < W \/ (p >= W /\ p < x)) /\ C < C + 1
    BY <1>0, Sizes
  <2>2. CASE p >= W /\ p < x
    <3>1. WriteOf(e, p) = C
      BY Zenon, <1>2, <1>8, <2>1, <2>2
    <3>2. QED BY Zenon, <2>1, <3>1
  <2>3. CASE p < W
    <3>1. IsDoc(d, p) /\ WriteOf(e, p) = WriteOf(d, p) /\ EndOf(e, p) = EndOf(d, p)
      BY Zenon, <1>2, <1>8, <2>1, <2>3
    <3>2. p \in START .. W - 1
      BY <2>1, <2>3, Sizes
    <3>3. WriteOf(e, p) < C \/ EndOf(e, p) < W - EVACUATION_SIZE
      BY Zenon, <3>1, <3>2, <1>1
    <3>4. WriteOf(e, p) \in Nat /\ EndOf(e, p) \in Int
      BY Zenon, <1>3, <1>8, <2>1
    <3>5. QED BY Zenon, <3>3, <3>4, <1>0, FurtherOn
  <2>4. QED BY Zenon, <2>1, <2>2, <2>3
<1>9. RunDisk(x, W, S, C + 1, full, e)
  BY Zenon, <1>4, <1>5, <1>6, <1>7, <1>8 DEF RunDisk
<1>10. QED BY Zenon, <1>0, <1>9

----------------------------------------------------------------------------
(* A write is taken into the buffer: entries and documents *)

\* The entry leads to its document in the buffer.
NewEntry(x, bl, W, n, ph) ==
  /\ x \in Entry /\ x.phase = ph /\ x.off + x.len <= W + n /\ x.off + x.len <= END
  /\ \A p \in x.off .. x.off + x.len - 1 :
       W <= p /\ p < W + n /\ bl[p - W + 1] = [ws |-> x.ws, ss |-> x.ss, len |-> x.len, k |-> p - x.off]

\* The entries of a batch lie where its blocks will land.
LEMMA EntriesLaid ==
  ASSUME NEW bl, NEW n, NEW ws \in Nat, NEW ss \in Nat, WellLaid(bl, n, ws, ss), NEW W \in START .. END, W + n <= END,
         NEW ph \in {0, 1}, NEW x \in Entries(bl, W, ph)
  PROVE  NewEntry(x, bl, W, n, ph)
<1>1. /\ n \in Nat /\ DOMAIN bl = 1 .. n
      /\ \A i \in 1 .. n : bl[i].ws = ws /\ bl[i].ss = ss /\ bl[i] \in Doc
      /\ \A i \in 1 .. n : bl[i].k = 0 =>
           /\ i + bl[i].len <= n + 1
           /\ \A j \in 0 .. bl[i].len - 1 : bl[i + j] = [ws |-> ws, ss |-> ss, len |-> bl[i].len, k |-> j]
  BY Zenon DEF WellLaid
<1>2. PICK i \in {c \in DOMAIN bl : bl[c].k = 0} :
        x = [off |-> W + i - 1, phase |-> ph, ws |-> bl[i].ws, ss |-> bl[i].ss, len |-> bl[i].len]
  BY Zenon DEF Entries
<1> DEFINE l == bl[i].len  o == W + i - 1
<1>3. i \in 1 .. n /\ bl[i].k = 0 /\ bl[i].ws = ws /\ bl[i].ss = ss /\ bl[i] \in Doc
  BY Zenon, <1>1, <1>2
<1>4. /\ l \in 1 .. AGG_SIZE /\ i + l <= n + 1
      /\ \A j \in 0 .. l - 1 : bl[i + j] = [ws |-> ws, ss |-> ss, len |-> l, k |-> j]
  BY Zenon, <1>1, <1>3 DEF Doc
<1>5. x = [off |-> o, phase |-> ph, ws |-> ws, ss |-> ss, len |-> l]
  BY Zenon, <1>2, <1>3
<1>6. o = W + i - 1
  OBVIOUS
<1> HIDE DEF l, o
<1>7. x.off = o /\ x.phase = ph /\ x.ws = ws /\ x.ss = ss /\ x.len = l
  BY Zenon, <1>5
<1>8. /\ o \in START .. END - 1 /\ o + l <= W + n /\ o + l <= END
      /\ \A p \in o .. o + l - 1 : W <= p /\ p < W + n /\ p - o \in 0 .. l - 1 /\ i + (p - o) = p - W + 1
  <2>1. n \in Nat /\ i \in 1 .. n /\ l \in 1 .. AGG_SIZE /\ i + l <= n + 1
    BY Zenon, <1>1, <1>3, <1>4
  <2>2. o \in START .. END - 1 /\ o + l <= W + n /\ o + l <= END
    BY <2>1, <1>6, Sizes
  <2>3. ASSUME NEW p \in o .. o + l - 1
        PROVE  W <= p /\ p < W + n /\ p - o \in 0 .. l - 1 /\ i + (p - o) = p - W + 1
    BY <2>1, <2>2, <1>6, Sizes
  <2>4. QED BY Zenon, <2>2, <2>3
<1>9. x \in Entry
  BY Zenon, <1>4, <1>5, <1>8 DEF Entry, Positions
<1>10. ASSUME NEW p \in o .. o + l - 1
       PROVE  W <= p /\ p < W + n /\ bl[p - W + 1] = [ws |-> ws, ss |-> ss, len |-> l, k |-> p - o]
  <2> DEFINE j == p - o
  <2>1. W <= p /\ p < W + n /\ j \in 0 .. l - 1 /\ i + j = p - W + 1
    BY Zenon, <1>8
  <2> HIDE DEF j
  <2>2. bl[i + j] = [ws |-> ws, ss |-> ss, len |-> l, k |-> j]
    BY Zenon, <2>1, <1>4
  <2>3. QED BY Zenon, <2>1, <2>2 DEF j
<1>11. QED BY Zenon, <1>7, <1>8, <1>9, <1>10 DEF NewEntry

\* Inserting the entries of a buffered batch keeps every entry leading to its document.
LEMMA DirBuffered ==
  ASSUME NEW d, NEW W \in START .. END, NEW ph \in {0, 1}, NEW first, NEW es \in SUBSET Entry, RunDir(W, ph, first, es, d, <<>>),
         NEW bl, NEW n, NEW ws \in Nat, NEW ss \in Nat, WellLaid(bl, n, ws, ss), W + n <= END
  PROVE  RunDir(W, ph, first, es \cup Entries(bl, W, ph), d, bl)
<1> DEFINE new == Entries(bl, W, ph)
<1>1. n \in Nat /\ Len(bl) = n
  BY Zenon DEF WellLaid
<1>2. /\ Placed(W, 0, ph, first, es)
      /\ \A e \in es : e.phase = ph \/ e.off >= W => \A p \in e.off .. e.off + e.len - 1 : Holds(d, p, e)
  BY Zenon, DirOnDisk
<1>a. ASSUME NEW x \in new
      PROVE  NewEntry(x, bl, W, n, ph)
  BY Zenon, EntriesLaid
<1>3. \A x \in new :
        /\ x \in Entry /\ x.phase = ph /\ x.off + x.len <= W + n /\ x.off + x.len <= END
        /\ \A p \in x.off .. x.off + x.len - 1 :
             W <= p /\ p < W + n /\ bl[p - W + 1] = [ws |-> x.ws, ss |-> x.ss, len |-> x.len, k |-> p - x.off]
  <2> HIDE DEF new
  <2> QED BY Zenon, <1>a DEF NewEntry
<1> HIDE DEF new
<1>4. ASSUME NEW e \in es, e.phase = ph
      PROVE  e.off + e.len <= W + n
  <2> DEFINE o == e.off  l == e.len
  <2>1. o + l <= W + 0 /\ o \in START .. END - 1 /\ l \in 1 .. AGG_SIZE
    BY Zenon, <1>2, <1>4 DEF Placed, Entry, Positions
  <2> HIDE DEF o, l
  <2>2. o + l <= W + n
    BY <2>1, <1>1, Sizes
  <2>3. QED BY Zenon, <2>2 DEF o, l
<1>5. Placed(W, n, ph, first, es \cup new)
  BY Zenon, <1>2, <1>3, <1>4 DEF Placed
<1>6. ASSUME NEW e \in es, e.phase = ph \/ e.off >= W + n, NEW p \in e.off .. e.off + e.len - 1
      PROVE  Found(d, W, bl, p, e)
  <2> DEFINE o == e.off  l == e.len
  <2>1. o \in START .. END - 1 /\ l \in 1 .. AGG_SIZE /\ p \in o .. o + l - 1 /\ ((e.phase = ph /\ o + l <= W + 0) \/ o >= W + n)
    BY Zenon, <1>2, <1>6 DEF Placed, Entry, Positions
  <2> HIDE DEF o, l
  <2>2. ~(W <= p /\ p < W + n) /\ (o >= W + n => o >= W)
    BY <2>1, <1>1, Sizes
  <2>3. Holds(d, p, e)
    BY Zenon, <2>1, <2>2, <1>2 DEF o, l
  <2>4. QED BY Zenon, <2>2, <2>3, <1>1 DEF Found
<1>7. ASSUME NEW e \in new, NEW p \in e.off .. e.off + e.len - 1
      PROVE  Found(d, W, bl, p, e)
  BY Zenon, <1>1, <1>3, <1>7 DEF Found
<1>8. RunDir(W, ph, first, es \cup new, d, bl)
  BY Zenon, <1>1, <1>5, <1>6, <1>7 DEF RunDir
<1>9. QED BY Zenon, <1>8 DEF new

\* After a wrap only entries of the lap that ended are valid.
OfLap(kept, es, ph) == \A e \in kept : e \in es /\ e.phase = ph

\* agg_wrap leaves the entries of the lap that ends (vol_out_of_phase_valid).
LEMMA DirWraps ==
  ASSUME NEW d, NEW W \in START .. END, NEW ph, NEW first, NEW es \in SUBSET Entry, RunDir(W, ph, first, es, d, <<>>),
         NEW kept, NEW nph, nph # ph, OfLap(kept, es, ph)
  PROVE  RunDir(START, nph, FALSE, kept, d, <<>>)
<1>1. /\ Placed(W, 0, ph, first, es)
      /\ \A e \in es : e.phase = ph \/ e.off >= W => \A p \in e.off .. e.off + e.len - 1 : Holds(d, p, e)
  BY Zenon, DirOnDisk
<1>2. \A e \in kept : e.phase = ph /\ e \in es
  BY Zenon DEF OfLap
<1>3. Placed(START, 0, nph, FALSE, kept)
  BY Zenon, <1>1, <1>2 DEF Placed
<1>4. START \in START .. END
  BY Sizes
<1>5. QED BY Zenon, <1>1, <1>2, <1>3, <1>4, OnDiskDir

AllOlder(W, L, d) == \A p \in W .. END - 1 : IsDoc(d, p) => SyncOf(d, p) < SyncOf(d, L)

\* agg_wrap keeps the documents in order.
LEMMA DiskWraps ==
  ASSUME NEW d, NEW W, NEW L, NEW S, NEW C, NEW full, RunArgs(W, L, S, C, full, d), L < W,
         RunDisk(W, L, S, C, full, d), AllOlder(W, L, d)
  PROVE  RunDisk(START, L, S, C, TRUE, d)
<1> W \in START .. END /\ L \in START .. END /\ S \in Nat /\ d \in Disks
  BY Zenon DEF RunArgs
<1>1. /\ LastWrite(W, L, C, d) /\ Tiled(d, L)
      /\ \A p \in START .. END - 1 : IsDoc(d, p) /\ (p < W \/ full) => SyncOf(d, p) <= S
  BY Zenon DEF RunDisk
<1>2. L \in START .. END - 1 /\ IsDoc(d, L) /\ SyncOf(d, L) <= S
  <2>1. L \in START .. END - 1
    BY Sizes
  <2>2. QED BY Zenon, <2>1, <1>1 DEF LastWrite
<1>3. \A p \in START .. END - 1 : IsDoc(d, p) => SyncOf(d, p) \in Nat
  BY Zenon, Cells
<1>4. ASSUME NEW p \in START .. END - 1, IsDoc(d, p)
      PROVE  SyncOf(d, p) <= S
  <2>1. CASE p < W
    BY Zenon, <1>1, <1>4, <2>1
  <2>2. CASE ~(p < W)
    <3>1. p \in W .. END - 1
      BY <2>2, Sizes
    <3>2. SyncOf(d, p) < SyncOf(d, L) /\ SyncOf(d, p) \in Nat /\ SyncOf(d, L) \in Nat
      BY Zenon, <3>1, <1>2, <1>3, <1>4 DEF AllOlder
    <3>3. QED BY <3>2, <1>2
  <2>3. QED BY Zenon, <2>1, <2>2
<1>5. \A p \in START .. START - 1 : FALSE
  BY Sizes
<1>6. \A p \in L .. START - 1 : FALSE
  BY Sizes
<1>7. ~(L < START)
  BY Sizes
<1>8. LastWrite(START, L, C, d) /\ Tiled(d, START)
  BY Zenon, <1>5, <1>6, <1>7 DEF LastWrite, Tiled
<1>9. QED BY Zenon, <1>1, <1>4, <1>5, <1>8 DEF RunDisk

----------------------------------------------------------------------------
(* Steps of the stripe in service *)

\* What is in flight is a batch with the serials of the header.
LEMMA InFlight ==
  ASSUME NEW fl, NEW C \in Nat, NEW S \in Nat, Flying(fl, C, S), fl # <<>>
  PROVE  \E b \in Batches : /\ fl = Blocks(b, C, S) /\ Len(fl) = Len(b) /\ WellLaid(fl, Len(b), C, S) /\ C < MaxSerial
                            /\ Len(b) \in Nat /\ Len(b) >= 1 /\ Len(b) <= AGG_SIZE /\ DOMAIN fl = 1 .. Len(b)
<1>1. PICK b \in Batches : fl = Blocks(b, C, S) /\ C < MaxSerial
  BY Zenon DEF Flying
<1>2. WellLaid(fl, Len(b), C, S)
  BY Zenon, <1>1, BlocksLaid
<1>3. Len(fl) = Len(b) /\ Len(b) \in Nat /\ Len(b) >= 1 /\ Len(b) <= AGG_SIZE /\ DOMAIN fl = 1 .. Len(b)
  BY Zenon, <1>2 DEF WellLaid
<1>4. QED BY Zenon, <1>1, <1>2, <1>3

\* A part m of what is in flight reaches the disk.
LEMMA PartLands ==
  ASSUME Types, RunInv, NEW m \in 0 .. Len(flight), NEW e,
         Written(disk, e, header.write_pos, flight, m)
  PROVE  /\ e \in Disks /\ Len(flight) \in Nat /\ Arrives(header, disk, e, m, Len(flight))
         /\ Filled(e, header.write_pos, flight, m)
<1> DEFINE W == header.write_pos  C == header.write_serial  S == header.sync_serial  n == Len(flight)  A == header.agg_pos
<1>1. /\ header \in Headers /\ disk \in Disks
      /\ W \in START .. END /\ A \in START .. END /\ C \in Nat /\ S \in Nat
  <2>1. header \in Headers /\ disk \in Disks
    BY Zenon DEF Types
  <2>2. header.agg_pos \in START .. END
    BY Zenon, <2>1 DEF Headers
  <2>3. QED BY Zenon, <2>1, <2>2, LogRange
<1>2. Flying(flight, C, S) /\ A = W + n /\ Tiled(disk, W)
  BY Zenon DEF RunInv, RunHead, RunDisk
<1>3. CASE flight = <<>>
  <2>1. n = 0 /\ m = 0 /\ W + 0 = W /\ W <= END
    <3>1. n = 0
      BY <1>3
    <3>2. m \in 0 .. n
      BY Zenon
    <3> HIDE DEF W, n
    <3> QED BY <3>1, <3>2, <1>1, Sizes
  <2>2. \A p \in START .. END - 1 : ~(p - W + 1 \in 1 .. m) /\ ~(p >= W /\ p < W + m)
    <3> HIDE DEF W, n
    <3> QED BY <2>1, <1>1, Sizes
  <2>3. \A p \in START .. END - 1 : e[p] = disk[p]
    BY Zenon, <2>2 DEF Positions, Written
  <2>4. e \in Disks
    <3>1. \A p \in Positions : e[p] \in Block
      BY Zenon, <2>3, <1>1 DEF Positions, Disks
    <3>2. e = [p \in Positions |-> e[p]]
      BY Zenon DEF Written
    <3>3. QED BY Zenon, <3>1, <3>2 DEF Disks
  <2>5. \A p \in START .. END - 1 : /\ IsDoc(e, p) <=> IsDoc(disk, p)
                                    /\ SyncOf(e, p) = SyncOf(disk, p) /\ WriteOf(e, p) = WriteOf(disk, p) /\ EndOf(e, p) = EndOf(disk, p)
    BY Zenon, <2>3 DEF IsDoc, SyncOf, WriteOf, EndOf
  <2>6. ~(m > 0) /\ n \in Nat
    <3> HIDE DEF n
    <3> QED BY <2>1
  <2>7. Lands(disk, e, W, m, n, C, S) /\ Same(disk, e, W, m)
    BY Zenon, <2>2, <2>3, <2>5, <2>6 DEF Lands, Same
  <2>8. Fits(header, n)
    BY Zenon, <2>1 DEF Fits
  <2>9. QED BY Zenon, <2>2, <2>4, <2>6, <2>7, <2>8, <1>2 DEF Arrives, Filled
<1>4. CASE flight # <<>>
  <2>1. PICK b \in Batches : flight = Blocks(b, C, S) /\ n = Len(b) /\ Len(b) \in Nat
    <3>1. C \in Nat /\ S \in Nat /\ Flying(flight, C, S) /\ flight # <<>>
      BY Zenon, <1>1, <1>2, <1>4
    <3> HIDE DEF C, S
    <3>2. \E b \in Batches : /\ flight = Blocks(b, C, S) /\ Len(flight) = Len(b) /\ WellLaid(flight, Len(b), C, S) /\ C < MaxSerial
                             /\ Len(b) \in Nat /\ Len(b) >= 1 /\ Len(b) <= AGG_SIZE /\ DOMAIN flight = 1 .. Len(b)
      BY ZenonT(30), <3>1, InFlight
    <3>3. QED BY Zenon, <3>2
  <2>2. W \in Int /\ W >= START /\ W + Len(b) <= END /\ m \in 0 .. Len(b)
    <3>1. A = W + Len(b) /\ m \in 0 .. Len(b)
      BY Zenon, <1>2, <2>1
    <3> HIDE DEF W, n, A
    <3> QED BY <3>1, <1>1, <2>1, Sizes
  <2>3. e \in Disks /\ Lands(disk, e, W, m, Len(b), C, S) /\ Same(disk, e, W, m) /\ Filled(e, W, Blocks(b, C, S), m)
    <3>1. Written(disk, e, W, Blocks(b, C, S), m)
      BY Zenon, <2>1
    <3> HIDE DEF W, C, S
    <3> QED BY Zenon, <3>1, <1>1, <2>2, Landing
  <2>4. QED BY Zenon, <2>1, <2>2, <2>3, <1>2 DEF Arrives, Fits
<1>5. QED BY Zenon, <1>3, <1>4

\* aggWriteDone keeps the invariant.
LEMMA DoneStep ==
  ASSUME Types, RunInv, aggWriteDone
  PROVE  Types' /\ RunInv' /\ mode' = "run"
<1> DEFINE W == header.write_pos  L == header.last_write_pos  A == header.agg_pos  C == header.write_serial  S == header.sync_serial
           n == Len(flight)  full == header.cycle > 0
<1>1. /\ header \in Headers /\ dir \in SUBSET Entry /\ disk \in Disks /\ durable \in Copies /\ reach \in Nat /\ rec \in Recs
      /\ \A e \in dir \cup durable.dir : e.off + e.len <= END
  BY Zenon DEF Types
<1>2. /\ W \in START .. END /\ L \in START .. END /\ C \in Nat /\ S \in Nat /\ full \in BOOLEAN /\ A \in START .. END
  <2>1. header.agg_pos \in START .. END
    BY Zenon, <1>1 DEF Headers
  <2>2. QED BY Zenon, <2>1, <1>1, LogRange
<1>3. /\ mode = "run" /\ flight # <<>> /\ disk' = Landed(DOMAIN flight) /\ flight' = <<>>
      /\ header' = [header EXCEPT !.last_write_pos = header.write_pos, !.write_pos = @ + n, !.write_serial = @ + 1]
      /\ UNCHANGED <<dir, copying, durable, mode, rec, reach, crashes>>
  BY Zenon DEF aggWriteDone
<1>4. /\ Flying(flight, C, S) /\ RunHead(W, L, A, header.dirty, n)
      /\ RunDir(W, header.phase, header.cycle = 0, dir, disk, flight) /\ RunDisk(W, L, S, C, full, disk)
      /\ Since(durable, header, n, disk) /\ reach >= LogPosition(header) + n - LogPosition(durable.header) /\ Syncing
  BY Zenon DEF RunInv
<1>5. n \in Nat /\ n >= 1 /\ n <= AGG_SIZE /\ DOMAIN flight = 1 .. n /\ C < MaxSerial
  BY Zenon, <1>2, <1>3, <1>4, InFlight
<1>6. A = W + n
  BY Zenon, <1>4 DEF RunHead
<1>7. /\ W + n \in START .. END /\ W \in START .. END - 1 /\ C + 1 \in 0 .. MaxSerial /\ n \in 0 .. n /\ n > 0 /\ W + n <= END
      /\ RunHead(W + n, W, A, header.dirty, 0)
  <2> HIDE DEF W, L, A, C, S, n, full
  <2>1. W + n \in START .. END /\ W \in START .. END - 1 /\ C + 1 \in 0 .. MaxSerial /\ n \in 0 .. n /\ n > 0 /\ W + n <= END
    BY <1>2, <1>5, <1>6, Sizes
  <2>2. A = W + n + 0 /\ W + n - W <= AGG_SIZE /\ ~(W >= W + n) /\ ~(W + n = START)
    BY <1>2, <1>5, <1>6, Sizes
  <2>3. QED BY <2>1, <2>2 DEF RunHead
<1>8. /\ header' \in Headers /\ DoneTo(header, header', n)
      /\ header'.last_write_pos = W /\ header'.agg_pos = A /\ header'.phase = header.phase /\ header'.dirty = header.dirty
  <2>1. /\ header \in Headers /\ n \in Nat /\ header.write_pos + n \in START .. END /\ header.write_pos \in START .. END - 1
        /\ header.write_serial + 1 \in 0 .. MaxSerial
    BY Zenon, <1>1, <1>5, <1>7
  <2>2. header' = [header EXCEPT !.last_write_pos = header.write_pos, !.write_pos = @ + n, !.write_serial = @ + 1]
    BY Zenon, <1>3
  <2> HIDE DEF n
  <2>3. QED BY ZenonT(30), <2>1, <2>2, HeadDone
<1>9. Written(disk, disk', W, flight, n)
  BY Zenon, <1>3, <1>5 DEF Written, Landed
<1>10. disk' \in Disks /\ Arrives(header, disk, disk', n, n) /\ Filled(disk', W, flight, n)
  BY Zenon, <1>7, <1>9, PartLands
<1>11. /\ header'.write_pos = W + n /\ header'.cycle = header.cycle /\ header'.write_serial = C + 1 /\ header'.sync_serial = S
  BY Zenon, <1>8 DEF DoneTo
<1>12. Types' /\ mode' = "run"
  BY Zenon, <1>1, <1>3, <1>8, <1>10 DEF Types
<1>13. RunDir(W + n, header.phase, header.cycle = 0, dir, disk', <<>>)
  <2>1. Same(disk, disk', W, n)
    BY Zenon, <1>10 DEF Arrives
  <2> HIDE DEF W
  <2>2. QED BY Zenon, <1>1, <1>2, <1>4, <1>5, <1>7, <1>10, <2>1, DirLands
<1>14. RunDisk(W + n, W, S, C + 1, full, disk')
  <2>1. Lands(disk, disk', W, n, n, C, S)
    BY Zenon, <1>10 DEF Arrives
  <2> HIDE DEF W, L, S, C, n, full
  <2>2. RunArgs(W, L, S, C, full, disk)
    BY Zenon, <1>1, <1>2 DEF RunArgs
  <2>3. QED BY Zenon, <1>4, <1>5, <1>7, <1>10, <2>1, <2>2, DiskLands
<1>15. Len(<<>>) = 0
  OBVIOUS
<1>16. Since(durable, header', 0, disk')
  BY Zenon, <1>1, <1>4, <1>5, <1>8, <1>10, SinceLands
<1>17. LogPosition(header') = LogPosition(header) + n
  BY Zenon, <1>1, <1>5, <1>8, DoneAdvances
<1>18. Syncing'
  <2>1. CASE copying = NoCopy
    BY Zenon, <2>1, <1>3, <1>4, <1>11 DEF Syncing
  <2>2. CASE copying # NoCopy
    <3>1. copying \in Copies /\ Since(copying, header, n, disk)
      BY Zenon, <2>2, <1>4 DEF Syncing
    <3>2. Since(copying, header', 0, disk')
      BY Zenon, <3>1, <1>1, <1>5, <1>8, <1>10, SinceLands
    <3>3. QED BY Zenon, <2>2, <3>2, <1>3, <1>4, <1>11, <1>15 DEF Syncing
  <2>3. QED BY Zenon, <2>1, <2>2
<1>19. reach' >= LogPosition(header') + 0 - LogPosition(durable'.header)
  <2> DEFINE x == LogPosition(header)  y == LogPosition(header')  z == LogPosition(durable.header)
  <2>1. x \in Int /\ z \in Int /\ y = x + n /\ reach >= x + n - z /\ reach' = reach /\ durable' = durable
    BY Zenon, <1>1, <1>3, <1>4, <1>17, LogPositions, CopyFields
  <2> HIDE DEF x, y, z, n
  <2>2. reach' >= y + 0 - z
    BY <2>1, <1>1, <1>5
  <2>3. QED BY Zenon, <2>1, <2>2 DEF y, z
<1>20. Flying(flight', header'.write_serial, header'.sync_serial)
  BY Zenon, <1>3 DEF Flying
<1>21. RunInv'
  BY Zenon, <1>3, <1>7, <1>8, <1>11, <1>13, <1>14, <1>15, <1>16, <1>18, <1>19, <1>20 DEF RunInv
<1>22. QED BY Zenon, <1>12, <1>21

\* The header and the entries that a write is taken into the buffer with.
Ready(h, es) ==
  /\ h \in Headers /\ es \in SUBSET dir /\ h.write_serial = header.write_serial /\ h.sync_serial = header.sync_serial
  /\ RunDir(h.write_pos, h.phase, h.cycle = 0, es, disk, <<>>)
  /\ RunDisk(h.write_pos, h.last_write_pos, h.sync_serial, h.write_serial, h.cycle > 0, disk)
  /\ h.write_pos - h.last_write_pos <= AGG_SIZE /\ (h.last_write_pos >= h.write_pos => h.write_pos = START)

\* After agg_wrap the stripe is ready for the batch.
LEMMA WrapReady ==
  ASSUME Types, RunInv, flight = <<>>, ~Relic(header), header.write_pos > END - AGG_SIZE, NEW h, h = agg_wrap(header)
  PROVE  /\ Ready(h, cleanup(h, 0, dir))
         /\ \A c \in Copies, n \in Nat : Since(c, header, 0, disk) /\ Behind(c, h, n) => Since(c, h, n, disk)
<1> DEFINE W == header.write_pos  L == header.last_write_pos  C == header.write_serial  S == header.sync_serial
           full == header.cycle > 0  ph == header.phase  nph == h.phase  kept == cleanup(h, 0, dir)  cy == header.cycle
<1>1. header \in Headers /\ dir \in SUBSET Entry /\ disk \in Disks
  BY Zenon DEF Types
<1>2. W \in START .. END /\ L \in START .. END /\ C \in Nat /\ S \in Nat /\ full \in BOOLEAN /\ ph \in {0, 1} /\ cy \in Nat
  BY Zenon, <1>1, LogRange, Heads
<1>3. /\ RunHead(W, L, header.agg_pos, header.dirty, 0) /\ RunDisk(W, L, S, C, full, disk)
      /\ RunDir(W, ph, cy = 0, dir, disk, <<>>)
  <2>1. Len(<<>>) = 0
    OBVIOUS
  <2>2. QED BY Zenon, <2>1 DEF RunInv
<1>4. /\ h \in Headers /\ h.write_pos = START /\ h.last_write_pos = L /\ nph = 1 - ph
      /\ h.cycle = cy + 1 /\ h.write_serial = C /\ h.sync_serial = S
  BY Zenon, <1>1, HeadWrap
<1>5. L < W /\ START - L <= AGG_SIZE /\ ~(cy + 1 = 0) /\ cy + 1 > 0 /\ nph # ph /\ {0, 1} = {ph, nph} /\ START + 0 = START
  <2>1. L >= W => W = START
    BY Zenon, <1>3 DEF RunHead
  <2>2. nph = 1 - ph /\ W > END - AGG_SIZE /\ W \in START .. END /\ L \in START .. END /\ ph \in {0, 1} /\ cy \in Nat
    BY Zenon, <1>2, <1>4
  <2> HIDE DEF W, L, ph, nph, cy
  <2>3. QED BY <2>1, <2>2, Sizes
<1>6. \A p \in W .. END - 1 : IsDoc(disk, p) => SyncOf(disk, p) < SyncOf(disk, L)
  <2>1. \A p \in W .. END - 1 : ~(IsDoc(disk, p) /\ SyncOf(disk, p) >= SyncOf(disk, L))
    BY Zenon DEF Relic, IsDoc, SyncOf
  <2>2. IsDoc(disk, L)
    BY Zenon, <1>3, <1>5 DEF RunDisk, LastWrite
  <2>3. \A p \in START .. END - 1 : IsDoc(disk, p) => SyncOf(disk, p) \in Nat
    BY Zenon, <1>1, Cells
  <2> HIDE DEF W, L
  <2>4. SyncOf(disk, L) \in Nat
    <3>1. L \in START .. END - 1
      BY <1>2, <1>5, Sizes
    <3>2. QED BY Zenon, <3>1, <2>2, <2>3
  <2>5. ASSUME NEW p \in W .. END - 1, IsDoc(disk, p)
        PROVE  SyncOf(disk, p) < SyncOf(disk, L)
    <3>1. p \in START .. END - 1
      BY <1>2, Sizes
    <3>2. SyncOf(disk, p) \in Nat /\ ~(SyncOf(disk, p) >= SyncOf(disk, L))
      BY Zenon, <3>1, <2>1, <2>3, <2>5
    <3>3. QED BY <3>2, <2>4
  <2>6. QED BY Zenon, <2>5
<1>7. kept \in SUBSET dir /\ \A e \in kept : e.phase # nph
  <2>1. kept \in SUBSET dir
    BY Zenon DEF cleanup
  <2>2. ASSUME NEW e \in kept, e.phase = nph
        PROVE  FALSE
    <3>1. e.off < START /\ e \in Entry
      BY Zenon, <2>1, <2>2, <1>1, <1>4, <1>5 DEF cleanup, dir_valid, vol_in_phase_valid
    <3>2. e.off \in START .. END - 1
      BY Zenon, <3>1 DEF Entry, Positions
    <3>3. \A o \in START .. END - 1 : ~(o < START)
      BY Sizes
    <3>4. QED BY Zenon, <3>1, <3>2, <3>3
  <2>3. QED BY Zenon, <2>1, <2>2
<1>8. RunDir(START, nph, FALSE, kept, disk, <<>>)
  <2>1. OfLap(kept, dir, ph)
    <3>1. \A e \in Entry : e.phase \in {ph, nph}
      BY Zenon, <1>5 DEF Entry
    <3> HIDE DEF ph, nph, kept
    <3>2. QED BY Zenon, <3>1, <1>1, <1>7 DEF OfLap
  <2>2. W \in START .. END /\ dir \in SUBSET Entry /\ RunDir(W, ph, cy = 0, dir, disk, <<>>) /\ nph # ph
    BY Zenon, <1>1, <1>2, <1>3, <1>5
  <2> HIDE DEF W, ph, nph, kept, cy
  <2>3. QED BY Zenon, <2>1, <2>2, DirWraps
<1>9. RunDisk(START, L, S, C, TRUE, disk)
  <2>1. RunArgs(W, L, S, C, full, disk)
    BY Zenon, <1>1, <1>2 DEF RunArgs
  <2>2. AllOlder(W, L, disk)
    BY Zenon, <1>6 DEF AllOlder
  <2>3. L < W /\ RunDisk(W, L, S, C, full, disk)
    BY Zenon, <1>3, <1>5
  <2> HIDE DEF W, L, S, C, full
  <2>4. QED BY Zenon, <2>1, <2>2, <2>3, DiskWraps
<1>10. (h.cycle = 0) = FALSE /\ (h.cycle > 0) = TRUE
  <2>1. ~(h.cycle = 0) /\ h.cycle > 0
    BY Zenon, <1>4, <1>5
  <2>2. QED BY <2>1
<1>11. Ready(h, kept)
  BY Zenon, <1>4, <1>5, <1>7, <1>8, <1>9, <1>10 DEF Ready
<1>12. WrapsTo(header, h, disk)
  BY Zenon, <1>4, <1>5, <1>6 DEF WrapsTo
<1>13. ASSUME NEW c \in Copies, NEW n \in Nat, Since(c, header, 0, disk), Behind(c, h, n)
       PROVE  Since(c, h, n, disk)
  BY Zenon, <1>1, <1>3, <1>4, <1>12, <1>13, SinceWraps
<1>14. QED BY Zenon, <1>11, <1>13

\* Without a wrap the stripe is ready for the batch as it is.
LEMMA PlainReady ==
  ASSUME Types, RunInv, flight = <<>>
  PROVE  /\ Ready(header, dir)
         /\ \A c \in Copies, n \in Nat : Since(c, header, 0, disk) /\ Behind(c, header, n) => Since(c, header, n, disk)
<1>1. header \in Headers
  BY Zenon DEF Types
<1>2. Ready(header, dir)
  BY Zenon, <1>1 DEF RunInv, Ready, RunHead
<1>3. ASSUME NEW c \in Copies, NEW n \in Nat, Since(c, header, 0, disk), Behind(c, header, n)
       PROVE  Since(c, header, n, disk)
  BY Zenon, <1>1, <1>3, SinceBuffered DEF Behind
<1>4. QED BY Zenon, <1>2, <1>3

Carries(h, n) == \A c \in Copies : Since(c, header, 0, disk) /\ Behind(c, h, n) => Since(c, h, n, disk)
Taken(h, es, b) ==
  /\ header' = [h EXCEPT !.agg_pos = h.write_pos + Len(b), !.dirty = TRUE]
  /\ flight' = Blocks(b, h.write_serial, h.sync_serial)
  /\ dir' = es \cup Entries(flight', h.write_pos, h.phase)
  /\ reach' = Max2(reach, LogPosition(h) + Len(b) - LogPosition(durable.header))
  /\ UNCHANGED <<disk, copying, durable, mode, rec, crashes>>

\* Buffering a batch on a stripe that is ready for it keeps the invariant.
LEMMA BufferStep ==
  ASSUME Types, RunInv, mode = "run", flight = <<>>, NEW b \in Batches, NEW h, NEW es, Ready(h, es), Fits(h, Len(b)),
         header.write_serial < MaxSerial, Carries(h, Len(b)), Behind(durable, h, Len(b)), Taken(h, es, b)
  PROVE  Types' /\ RunInv' /\ mode' = "run"
<1> DEFINE W == h.write_pos  L == h.last_write_pos  C == h.write_serial  S == h.sync_serial  ph == h.phase
           n == Len(b)  new == Entries(flight', W, ph)
<1>1. /\ header \in Headers /\ dir \in SUBSET Entry /\ disk \in Disks /\ durable \in Copies /\ reach \in Nat /\ rec \in Recs
      /\ \A e \in dir \cup durable.dir : e.off + e.len <= END
  BY Zenon DEF Types
<1>2. /\ h \in Headers /\ es \in SUBSET dir /\ C = header.write_serial /\ S = header.sync_serial
      /\ RunDir(W, ph, h.cycle = 0, es, disk, <<>>) /\ RunDisk(W, L, S, C, h.cycle > 0, disk)
      /\ W - L <= AGG_SIZE /\ (L >= W => W = START)
  BY Zenon DEF Ready
<1>3. /\ W \in START .. END /\ L \in START .. END /\ C \in Nat /\ S \in Nat /\ ph \in {0, 1} /\ W + n <= END
  BY Zenon, <1>2, LogRange, Heads DEF Fits
<1>4. /\ header' = [h EXCEPT !.agg_pos = W + n, !.dirty = TRUE] /\ flight' = Blocks(b, C, S) /\ dir' = es \cup new
      /\ reach' = Max2(reach, LogPosition(h) + n - LogPosition(durable.header))
      /\ disk' = disk /\ copying' = copying /\ durable' = durable /\ mode' = mode /\ rec' = rec
  BY Zenon DEF Taken
<1>5. WellLaid(flight', n, C, S)
  BY Zenon, <1>3, <1>4, BlocksLaid
<1>6. Len(flight') = n /\ n \in Nat /\ n >= 1
  BY Zenon, <1>5 DEF WellLaid
<1>7. W + n \in START .. END
  <2> HIDE DEF W, n
  <2> QED BY <1>3, <1>6, Sizes
<1>8. /\ header' \in Headers /\ header'.write_pos = W /\ header'.last_write_pos = L /\ header'.agg_pos = W + n
      /\ header'.phase = ph /\ header'.cycle = h.cycle /\ header'.write_serial = C /\ header'.sync_serial = S
  <2> DEFINE a == W + n
  <2>1. a \in START .. END /\ header' = [h EXCEPT !.agg_pos = a, !.dirty = TRUE] /\ h \in Headers
    BY Zenon, <1>2, <1>4, <1>7
  <2> HIDE DEF a
  <2>2. BufferedTo(h, header', a)
    BY Zenon, <2>1, HeadBuffer
  <2>3. QED BY Zenon, <2>2 DEF a, BufferedTo
<1>9. RunDir(W, ph, h.cycle = 0, es \cup new, disk, flight')
  <2>1. es \in SUBSET Entry
    BY Zenon, <1>1, <1>2
  <2>2. RunDir(W, ph, h.cycle = 0, es, disk, <<>>)
    BY Zenon, <1>2
  <2> HIDE DEF W, ph, C, S, n
  <2>3. QED BY Zenon, <2>1, <2>2, <1>3, <1>5, DirBuffered DEF new
<1>10. \A e \in es \cup new : e \in Entry /\ e.off + e.len <= END
  BY Zenon, <1>9 DEF RunDir, Placed
<1>11. reach' \in Nat /\ reach' >= LogPosition(header') + n - LogPosition(durable'.header)
  <2> DEFINE x == LogPosition(h)  z == LogPosition(durable.header)
  <2>1. x \in Int /\ z \in Int /\ reach' = (IF reach < x + n - z THEN x + n - z ELSE reach)
    BY Zenon, <1>1, <1>2, <1>4, LogPositions, CopyFields DEF Max2
  <2>2. LogPosition(header') = x /\ LogPosition(durable'.header) = z
    BY Zenon, <1>4, <1>8 DEF LogPosition
  <2> HIDE DEF x, z, n
  <2>3. reach' \in Nat /\ reach' >= x + n - z
    BY <2>1, <1>1, <1>6
  <2>4. QED BY Zenon, <2>2, <2>3
<1>12. Types' /\ mode' = "run"
  BY Zenon, <1>1, <1>4, <1>8, <1>10, <1>11 DEF Types
<1>13. ASSUME NEW c \in Copies, Since(c, header, 0, disk), Behind(c, h, n)
       PROVE  Since(c, header', n, disk)
  <2>1. Since(c, h, n, disk)
    BY Zenon, <1>13 DEF Carries
  <2>2. LogPosition(header') = LogPosition(h)
    BY Zenon, <1>8 DEF LogPosition
  <2>3. LogPosition(header') + n - LogPosition(c.header) < STRIPE_LEN - EVACUATION_SIZE
    BY Zenon, <1>13, <2>2 DEF Behind
  <2> HIDE DEF n
  <2>4. QED BY Zenon, <2>1, <2>3, <1>2, <1>8, SinceBuffered
<1>14. Len(flight) = 0
  OBVIOUS
<1>15. Since(durable, header', n, disk)
  BY Zenon, <1>1, <1>13, <1>14 DEF RunInv
<1>16. Syncing'
  <2>1. CASE copying = NoCopy
    BY Zenon, <2>1, <1>2, <1>4, <1>8 DEF Syncing, RunInv
  <2>2. CASE copying # NoCopy
    <3>1. /\ copying \in Copies /\ Since(copying, header, 0, disk) /\ LogPosition(durable.header) <= LogPosition(copying.header)
      BY Zenon, <2>2, <1>14 DEF Syncing, RunInv
    <3>2. Behind(copying, h, n)
      <4> DEFINE x == LogPosition(h)  z == LogPosition(durable.header)  y == LogPosition(copying.header)
      <4>1. x \in Int /\ z \in Int /\ y \in Int /\ z <= y /\ x + n - z < STRIPE_LEN - EVACUATION_SIZE
        BY Zenon, <1>1, <1>2, <3>1, LogPositions, CopyFields DEF Behind
      <4> HIDE DEF x, y, z, n
      <4>2. x + n - y < STRIPE_LEN - EVACUATION_SIZE
        BY <4>1, <1>6, Sizes
      <4>3. QED BY Zenon, <4>2 DEF Behind, x, y, n
    <3>3. Since(copying, header', n, disk)
      BY Zenon, <3>1, <3>2, <1>13
    <3>4. QED BY Zenon, <2>2, <3>3, <1>2, <1>4, <1>6, <1>8 DEF Syncing, RunInv
  <2>3. QED BY Zenon, <2>1, <2>2
<1>17. RunHead(W, L, W + n, header'.dirty, n)
  <2>1. W + n = W + n /\ ~(n = 0)
    <3> HIDE DEF n
    <3> QED BY <1>6
  <2>2. QED BY Zenon, <2>1, <1>2 DEF RunHead
<1>18. Flying(flight', C, S)
  BY Zenon, <1>2, <1>4 DEF Flying
<1>19. RunInv'
  BY Zenon, <1>2, <1>4, <1>6, <1>8, <1>9, <1>11, <1>15, <1>16, <1>17, <1>18 DEF RunInv
<1>20. QED BY Zenon, <1>12, <1>19

\* aggWrite keeps the invariant.
LEMMA WriteStep ==
  ASSUME Ordinary, Types, RunInv, NEW b \in Batches, aggWrite(b)
  PROVE  Types' /\ RunInv' /\ mode' = "run"
<1> DEFINE wraps == header.write_pos + b[1].len > END
           h  == IF wraps THEN agg_wrap(header) ELSE header
           es == IF wraps THEN cleanup(h, 0, dir) ELSE dir
           bl == Blocks(b, h.write_serial, h.sync_serial)
           n  == Len(b)
<1>1. header \in Headers
  BY Zenon DEF Types
<1>2. h \in Headers
  BY Zenon, <1>1, HeadWrap
<1>3. h.write_serial \in Nat /\ h.sync_serial \in Nat
  BY Zenon, <1>2, Heads
<1> HIDE DEF h
<1>4. WellLaid(bl, n, h.write_serial, h.sync_serial) /\ b[1].len \in 1 .. AGG_SIZE
  BY Zenon, <1>3, BlocksLaid
<1>5. Len(bl) = n /\ n \in Nat
  <2> HIDE DEF bl, n
  <2> QED BY Zenon, <1>4 DEF WellLaid
<1>6. /\ mode = "run" /\ flight = <<>> /\ header.write_serial < MaxSerial /\ h.write_pos + Len(bl) <= END
      /\ "lapped" \in Situations \/ LogPosition(h) + Len(bl) - LogPosition(durable.header) < STRIPE_LEN - EVACUATION_SIZE
      /\ "relic" \in Situations \/ ~wraps \/ ~Relic(header)
      /\ header' = [h EXCEPT !.agg_pos = h.write_pos + Len(bl), !.dirty = TRUE]
      /\ dir' = es \cup Entries(bl, h.write_pos, h.phase)
      /\ flight' = bl
      /\ reach' = Max2(reach, LogPosition(h) + Len(bl) - LogPosition(durable.header))
      /\ UNCHANGED <<disk, copying, durable, mode, rec, crashes>>
  BY Zenon DEF aggWrite, h
<1>7. ~("lapped" \in Situations) /\ ~("relic" \in Situations)
  BY DEF Ordinary
<1>8. Behind(durable, h, n) /\ Fits(h, n) /\ Taken(h, es, b)
  BY Zenon, <1>5, <1>6, <1>7 DEF Behind, Fits, Taken
<1>9. Ready(h, es) /\ Carries(h, n)
  <2>1. CASE wraps
    <3>1. header.write_pos > END - AGG_SIZE
      <4> DEFINE W == header.write_pos  l == b[1].len
      <4>1. W + l > END /\ l \in 1 .. AGG_SIZE /\ W \in START .. END
        BY Zenon, <2>1, <1>1, <1>4, LogRange
      <4> HIDE DEF W, l
      <4>2. W > END - AGG_SIZE
        BY <4>1, Sizes
      <4>3. QED BY Zenon, <4>2 DEF W
    <3>2. h = agg_wrap(header) /\ es = cleanup(h, 0, dir) /\ ~Relic(header)
      BY Zenon, <2>1, <1>6, <1>7 DEF h
    <3> HIDE DEF es, n
    <3>3. QED BY Zenon, <3>1, <3>2, <1>5, <1>6, WrapReady DEF Carries
  <2>2. CASE ~wraps
    <3>1. h = header /\ es = dir
      BY Zenon, <2>2 DEF h
    <3> HIDE DEF es, n
    <3>2. QED BY Zenon, <3>1, <1>5, <1>6, PlainReady DEF Carries
  <2>3. QED BY Zenon, <2>1, <2>2
<1> HIDE DEF es, n
<1>10. QED BY Zenon, <1>6, <1>8, <1>9, BufferStep DEF n

\* The step of dir_sync that takes the copy keeps the invariant.
LEMMA SyncStartStep ==
  ASSUME Ordinary, Types, RunInv, SyncStart
  PROVE  Types' /\ RunInv' /\ mode' = "run"
<1> DEFINE W == header.write_pos  L == header.last_write_pos  A == header.agg_pos  C == header.write_serial  S == header.sync_serial
           full == header.cycle > 0  ph == header.phase  dirty == header.dirty
<1>1. /\ header \in Headers /\ dir \in SUBSET Entry /\ disk \in Disks /\ durable \in Copies /\ reach \in Nat /\ rec \in Recs
      /\ \A e \in dir \cup durable.dir : e.off + e.len <= END
  BY Zenon DEF Types
<1>2. W \in START .. END /\ L \in START .. END /\ S \in Nat
  BY Zenon, <1>1, LogRange
<1>3. /\ mode = "run" /\ flight = <<>> /\ copying = NoCopy /\ header.dirty
      /\ "aligned" \in Situations \/ W # END - EVACUATION_SIZE
      /\ header' = [header EXCEPT !.sync_serial = @ + 1, !.dirty = FALSE]
      /\ copying' = [header |-> header', dir |-> dir]
      /\ dir' = dir /\ disk' = disk /\ flight' = flight /\ durable' = durable /\ mode' = mode /\ rec' = rec /\ reach' = reach
  BY Zenon DEF SyncStart
<1>4. ~("aligned" \in Situations)
  BY DEF Ordinary
<1>5. Len(flight) = 0
  BY <1>3
<1>6. /\ RunHead(W, L, A, dirty, 0) /\ RunDir(W, ph, header.cycle = 0, dir, disk, <<>>) /\ RunDisk(W, L, S, C, full, disk)
      /\ Since(durable, header, 0, disk) /\ reach >= LogPosition(header) + 0 - LogPosition(durable.header) /\ Syncing
  BY Zenon, <1>3, <1>5 DEF RunInv
<1>7. A = W /\ W - L <= AGG_SIZE /\ L < W
  <2>1. A = W + 0 /\ W - L <= AGG_SIZE /\ (L >= W => W = START) /\ ~(W = START)
    BY Zenon, <1>3, <1>6 DEF RunHead
  <2> HIDE DEF W, L, A
  <2>2. QED BY <2>1, <1>2, Sizes
<1>8. Settled(header, dir, disk)
  BY Zenon, <1>3, <1>4, <1>6, <1>7 DEF Settled
<1>9. S + 1 \in Nat /\ S + 1 > 0
  <2> HIDE DEF S
  <2> QED BY <1>2
<1>10. header' \in Headers /\ SyncTo(header, header') /\ header'.dirty = FALSE
  BY Zenon, <1>1, <1>3, <1>9, HeadSync
<1>11. /\ header'.write_pos = W /\ header'.last_write_pos = L /\ header'.agg_pos = A /\ header'.phase = ph
       /\ header'.cycle = header.cycle /\ header'.write_serial = C /\ header'.sync_serial = S + 1
  BY Zenon, <1>10 DEF SyncTo
<1>12. Types' /\ mode' = "run"
  BY Zenon, <1>1, <1>3, <1>10 DEF Types
<1>13. S = durable.header.sync_serial
  BY Zenon, <1>3, <1>6 DEF Syncing
<1>14. Since(durable, header', 0, disk)
  BY Zenon, <1>1, <1>6, <1>10, <1>13, SinceSync
<1>15. Since(copying', header', 0, disk)
  BY Zenon, <1>1, <1>3, <1>8, <1>10, SinceFresh
<1>16. LogPosition(header') = LogPosition(header)
  BY Zenon, <1>11 DEF LogPosition
<1>17. /\ copying' \in Copies /\ copying'.header = header' /\ copying' # NoCopy
  <2>1. copying' \in Copies
    BY Zenon, <1>1, <1>3, <1>10 DEF Copies
  <2>2. copying'.header = header'
    BY Zenon, <1>3
  <2>3. header' # <<>>
    BY Zenon, <1>10, HeaderIsSome
  <2>4. copying' # NoCopy
    <3>1. NoCopy.header = <<>>
      BY DEF NoCopy
    <3>2. QED BY Zenon, <3>1, <2>2, <2>3
  <2>5. QED BY Zenon, <2>1, <2>2, <2>4
<1>18. Syncing'
  <2>1. LogPosition(durable.header) <= LogPosition(header)
    BY Zenon, <1>6 DEF Since, GoneOn
  <2>2. QED BY Zenon, <2>1, <1>3, <1>5, <1>9, <1>11, <1>13, <1>15, <1>16, <1>17 DEF Syncing
<1>19. RunDisk(W, L, S + 1, C, full, disk)
  <2>1. \A p \in START .. END - 1 : IsDoc(disk, p) => SyncOf(disk, p) \in Nat
    BY Zenon, <1>1, Cells
  <2>2. \A p \in START .. END - 1 : IsDoc(disk, p) /\ (p < W \/ full) => SyncOf(disk, p) <= S
    BY Zenon, <1>6 DEF RunDisk
  <2>3. ASSUME NEW p \in START .. END - 1, IsDoc(disk, p), p < W \/ full
        PROVE  SyncOf(disk, p) <= S + 1
    <3>1. SyncOf(disk, p) \in Nat /\ SyncOf(disk, p) <= S
      BY Zenon, <2>1, <2>2, <2>3
    <3> HIDE DEF S
    <3>2. QED BY <3>1, <1>2
  <2>4. QED BY Zenon, <2>3, <1>6 DEF RunDisk
<1>20. RunHead(W, L, A, FALSE, 0)
  BY Zenon, <1>6 DEF RunHead
<1>21. Flying(flight', header'.write_serial, header'.sync_serial)
  BY Zenon, <1>3 DEF Flying
<1>22. RunInv'
  BY Zenon, <1>3, <1>5, <1>6, <1>10, <1>11, <1>14, <1>16, <1>18, <1>19, <1>20, <1>21 DEF RunInv
<1>23. QED BY Zenon, <1>12, <1>22

\* The step of dir_sync that makes the copy durable keeps the invariant.
LEMMA SyncEndStep ==
  ASSUME Types, RunInv, SyncEnd
  PROVE  Types' /\ RunInv' /\ mode' = "run"
<1> DEFINE n == Len(flight)  x == LogPosition(header)  y == LogPosition(copying.header)
<1>1. /\ header \in Headers /\ dir \in SUBSET Entry /\ disk \in Disks /\ durable \in Copies /\ reach \in Nat /\ rec \in Recs
      /\ \A e \in dir \cup durable.dir : e.off + e.len <= END
  BY Zenon DEF Types
<1>2. /\ mode = "run" /\ copying # NoCopy /\ durable' = copying /\ copying' = NoCopy /\ reach' = x + n - y
      /\ header' = header /\ dir' = dir /\ disk' = disk /\ flight' = flight /\ mode' = mode /\ rec' = rec
  BY Zenon DEF SyncEnd
<1>3. /\ copying \in Copies /\ copying.header.sync_serial > 0 /\ Since(copying, header, n, disk)
      /\ copying.header.sync_serial = header.sync_serial
  BY Zenon, <1>2 DEF RunInv, Syncing
<1>4. n \in Nat
  <2>1. CASE flight = <<>>
    BY <2>1
  <2>2. CASE flight # <<>>
    BY Zenon, <1>1, <2>2, InFlight, Heads DEF RunInv
  <2>3. QED BY Zenon, <2>1, <2>2
<1>5. reach' \in Nat /\ reach' >= x + n - y
  <2>1. x \in Int /\ y \in Int /\ y <= x
    BY Zenon, <1>1, <1>3, LogPositions, CopyFields DEF Since, GoneOn
  <2> HIDE DEF x, y, n
  <2>2. QED BY <2>1, <1>2, <1>4
<1>6. \A e \in copying.dir : e.off + e.len <= END
  <2>1. \E G \in START .. END : Copied(copying, disk, header.cycle > copying.header.cycle, G, header.write_pos, header.sync_serial)
    BY Zenon, <1>3 DEF Since
  <2>2. QED BY Zenon, <2>1 DEF Copied, Placed
<1>7. Types' /\ mode' = "run"
  BY Zenon, <1>1, <1>2, <1>3, <1>5, <1>6 DEF Types
<1>8. Syncing'
  BY Zenon, <1>2, <1>3 DEF Syncing
<1>9. RunInv'
  BY Zenon, <1>2, <1>3, <1>5, <1>8 DEF RunInv
<1>10. QED BY Zenon, <1>7, <1>9

\* A stripe goes into service cleared, whatever is on disk.
NoEntries == [header |-> ClearedHeader, dir |-> {}]

\* The fields of a cleared header.
LEMMA ClearedFields ==
  /\ ClearedHeader.write_pos = START /\ ClearedHeader.last_write_pos = START /\ ClearedHeader.agg_pos = START
  /\ ClearedHeader.phase = 0 /\ ClearedHeader.cycle = 0 /\ ClearedHeader.write_serial = 0 /\ ClearedHeader.sync_serial = 0
  /\ ClearedHeader.dirty = FALSE
  /\ NoEntries.header = ClearedHeader /\ NoEntries.dir = {}
BY Zenon DEF ClearedHeader, NoEntries

\* A cleared header without entries is a copy.
LEMMA NoEntriesIsCopy == NoEntries \in Copies /\ Cleared(NoEntries)
<1>1. ClearedHeader \in Headers /\ {} \in SUBSET Entry
  BY Zenon, ClearedIsHeader
<1>2. QED BY Zenon, <1>1 DEF Copies, NoEntries, Cleared

\* A cleared stripe goes into service.
LEMMA ClearedRun ==
  ASSUME NEW d \in Disks
  PROVE  /\ RunHead(START, START, START, FALSE, 0) /\ RunDir(START, 0, TRUE, {}, d, <<>>) /\ RunDisk(START, START, 0, 0, FALSE, d)
         /\ Since(NoEntries, ClearedHeader, 0, d) /\ LogPosition(ClearedHeader) = 0 /\ 0 + 0 - 0 = 0
         /\ (ClearedHeader.cycle = 0) = TRUE /\ (ClearedHeader.cycle > 0) = FALSE
<1>1. /\ START = START + 0 /\ START - START <= AGG_SIZE /\ ~(START < START) /\ ~(0 > 0) /\ 0 <= 0 /\ 0 <= 0 + 1
      /\ 0 + 0 - 0 < STRIPE_LEN - EVACUATION_SIZE /\ 0 * STRIPE_LEN + START - START = 0 /\ 0 + 0 - 0 = 0
  BY Sizes
<1>2. \A p \in START .. START - 1 : FALSE
  BY Sizes
<1>3. \A p \in START .. END - 1 : ~(p < START)
  BY Sizes
<1>4. RunHead(START, START, START, FALSE, 0)
  BY Zenon, <1>1 DEF RunHead
<1>5. RunDir(START, 0, TRUE, {}, d, <<>>)
  BY Zenon DEF RunDir, Placed
<1>6. RunDisk(START, START, 0, 0, FALSE, d)
  BY Zenon, <1>1, <1>2, <1>3 DEF RunDisk, LastWrite, Tiled
<1>7. LogPosition(ClearedHeader) = 0
  BY Zenon, <1>1, ClearedFields DEF LogPosition
<1>8. GoneOn(ClearedHeader, ClearedHeader, 0)
  BY Zenon, <1>1, <1>7, ClearedFields DEF GoneOn
<1>9. Since(NoEntries, ClearedHeader, 0, d)
  BY Zenon, <1>1, <1>8, ClearedFields, NoEntriesIsCopy DEF Since
<1>10. (ClearedHeader.cycle = 0) /\ ~(ClearedHeader.cycle > 0)
  BY Zenon, <1>1, ClearedFields
<1>11. (ClearedHeader.cycle = 0) = TRUE /\ (ClearedHeader.cycle > 0) = FALSE
  BY <1>10
<1>12. QED BY Zenon, <1>1, <1>4, <1>5, <1>6, <1>7, <1>9, <1>11

\* The state of a recovery that has not begun.
LEMMA NoRecIsRec == NoRec \in Recs
<1>1. START \in START .. END /\ 0 \in Nat
  BY Sizes
<1>2. QED BY Zenon, <1>1 DEF NoRec, Recs

\* The stripe starts with the invariant.
LEMMA InitInv ==
  ASSUME Init
  PROVE  IInv
<1>1. /\ header = ClearedHeader /\ dir = {} /\ flight = <<>> /\ copying = NoCopy /\ durable = NoEntries /\ mode = "run"
      /\ rec = NoRec /\ reach = 0 /\ disk = [p \in Positions |-> NoBlock]
  BY Zenon DEF Init, NoEntries
<1>2. disk \in Disks
  BY Zenon, <1>1 DEF Disks, Block
<1>3. Types
  <2>1. 0 \in Nat
    OBVIOUS
  <2>2. QED BY Zenon, <2>1, <1>1, <1>2, ClearedIsHeader, ClearedFields, NoEntriesIsCopy, NoRecIsRec DEF Types
<1>4. Len(<<>>) = 0 /\ 0 >= 0
  OBVIOUS
<1>5. Syncing
  BY Zenon, <1>1, ClearedFields DEF Syncing
<1>6. Flying(flight, header.write_serial, header.sync_serial)
  BY Zenon, <1>1 DEF Flying
<1>7. RunInv
  BY Zenon, <1>1, <1>2, <1>4, <1>5, <1>6, ClearedRun, ClearedFields DEF RunInv
<1>8. QED BY Zenon, <1>1, <1>3, <1>7 DEF IInv

\* A crash in service.
LEMMA CrashInService ==
  ASSUME Ordinary, Types, RunInv, mode = "run", Crash
  PROVE  Types' /\ LostInv' /\ mode' = "down"
<1>1. /\ header \in Headers /\ dir \in SUBSET Entry /\ disk \in Disks /\ durable \in Copies /\ reach \in Nat /\ rec \in Recs
      /\ \A e \in dir \cup durable.dir : e.off + e.len <= END
  BY Zenon DEF Types
<1>2. /\ \E n \in IF "reordered" \in Situations THEN SUBSET (DOMAIN flight) ELSE {1 .. b : b \in 0 .. Len(flight)} : disk' = Landed(n)
      /\ header' = ClearedHeader /\ dir' = {} /\ flight' = <<>> /\ copying' = NoCopy /\ mode' = "down" /\ rec' = NoRec
      /\ durable' = durable /\ reach' = reach
  BY Zenon DEF Crash
<1>3. ~("reordered" \in Situations)
  BY DEF Ordinary
<1>4. PICK m \in 0 .. Len(flight) : disk' = Landed(1 .. m)
  BY Zenon, <1>2, <1>3
<1>5. Written(disk, disk', header.write_pos, flight, m)
  BY Zenon, <1>4 DEF Written, Landed
<1>6. disk' \in Disks /\ Len(flight) \in Nat /\ Arrives(header, disk, disk', m, Len(flight))
  BY Zenon, <1>4, <1>5, PartLands
<1>7. Types' /\ mode' = "down"
  BY Zenon, <1>1, <1>2, <1>6, ClearedIsHeader, NoRecIsRec DEF Types
<1>8. Since(durable, header, Len(flight), disk) /\ Reached(durable, header, Len(flight), reach)
  BY Zenon DEF RunInv, Reached
<1>9. durable.header.sync_serial = 0 => Cleared(durable)
  BY Zenon, <1>8 DEF Since
<1>10. ASSUME durable.header.sync_serial > 0
       PROVE  SomeLost(durable, disk', reach)
  <2> DEFINE n == Len(flight)
  <2>1. n \in Nat /\ m \in 0 .. n /\ Arrives(header, disk, disk', m, n) /\ Since(durable, header, n, disk) /\ Reached(durable, header, n, reach)
    BY Zenon, <1>4, <1>6, <1>8
  <2> HIDE DEF n
  <2>2. QED BY Zenon, <2>1, <1>1, <1>6, <1>10, SinceLost
<1>11. LostInv'
  BY Zenon, <1>2, <1>9, <1>10 DEF LostInv, SomeLost
<1>12. QED BY Zenon, <1>7, <1>11

=============================================================================
