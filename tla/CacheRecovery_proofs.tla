------------------------- MODULE CacheRecovery_proofs -------------------------
(***************************************************************************)
(* Proofs about CacheRecovery for any stripe, aggregation buffer and bound: *)
(* what a crash leaves behind never makes an entry of the stripe in service *)
(* lead to anything but the document it was inserted for, and a document    *)
(* that was synced on the lap of the sync outlives the scan of the log.     *)
(* CacheRecovery_steps has the invariant and the stripe in service; here is *)
(* recovery: where the scan stops, the margin covers all that was           *)
(* overwritten since the copy was taken.                                    *)
(***************************************************************************)
EXTENDS CacheRecovery_steps

----------------------------------------------------------------------------
(* The scan of the log.  At s it takes a document, with nl and nw for the   *)
(* serials that it goes on with.                                            *)

Accepts(d, s, S, ls, lw, nl, nw) ==
  /\ IsDoc(d, s) /\ nl = SyncOf(d, s) /\ nl <= S + 1
  /\ (nl = ls /\ nw = WriteOf(d, s)) \/ (nl > ls /\ nw = lw)
Fresh(d, s, lw, rw) == rw /\ s = START => IsDoc(d, START) /\ WriteOf(d, START) >= lw

\* Something was overwritten that entries of the copy may lead to.
Active(W, full, w, F) == (w => F > START) /\ (w \/ (F > W /\ full))
ScanArgs(s, ls, lw, rw) == s \in START .. END - 1 /\ ls \in Nat /\ lw \in Nat /\ rw \in BOOLEAN

\* A document that the scan takes is of the log, or far enough from the copy's write_pos.
Seen(W, S, C, d, w, G, s, rw) ==
  /\ SyncOf(d, s) >= S
  /\ ~rw /\ w => s < G
  /\ ~rw => W <= s
  /\ ~rw /\ ~w => WriteOf(d, s) >= C /\ EndOf(d, s) < W + STRIPE_LEN - EVACUATION_SIZE
  /\ rw => s < W /\ EndOf(d, s) < W - EVACUATION_SIZE

\* The parts of Log.
LEMMA LogFacts ==
  ASSUME NEW d, NEW W, NEW L, NEW S, NEW C, NEW full, NEW w, NEW G, NEW F, NEW top, Log(W, L, S, C, full, d, w, G, F, top)
  PROVE  /\ W \in START .. END /\ L \in START .. END /\ S \in Nat /\ C \in Nat /\ full \in BOOLEAN /\ d \in Disks
         /\ w \in BOOLEAN /\ G \in START .. END /\ F \in START .. END /\ top \in Nat
         /\ L < W /\ W - L <= AGG_SIZE /\ W # END - EVACUATION_SIZE
         /\ Shape(W, w, G, F) /\ LastWrite(W, L, C, d) /\ Tiled(d, W) /\ Tiled(d, L)
         /\ Chain(d, W, IF w THEN G ELSE F) /\ (w => Chain(d, START, F) /\ Turn(W, L, d, G, F))
         /\ Newer(W, S, C, d, w, G, F, top) /\ Ahead(W, S, C, d) /\ Rest(W, S, C, full, d) /\ Older(W, S, full, d, w, G, F)
BY Zenon DEF Log, LogArgs

\* A document that the scan accepts belongs to the log, or lies far from where its end could be missed.
LEMMA ScanSees ==
  ASSUME NEW d, NEW W, NEW L, NEW S, NEW C, NEW full, NEW w, NEW G, NEW F, Log(W, L, S, C, full, d, w, G, F, S + 1),
         Active(W, full, w, F), NEW s, NEW ls, NEW lw, NEW rw, ScanArgs(s, ls, lw, rw),
         Scan(W, S, C, d, w, G, F, s, ls, lw, rw), NEW nl, NEW nw, Accepts(d, s, S, ls, lw, nl, nw)
  PROVE  Seen(W, S, C, d, w, G, s, rw)
<1>1. /\ W \in START .. END /\ L \in START .. END /\ S \in Nat /\ C \in Nat /\ full \in BOOLEAN /\ d \in Disks
      /\ w \in BOOLEAN /\ G \in START .. END /\ F \in START .. END
      /\ L < W /\ Shape(W, w, G, F)
      /\ Newer(W, S, C, d, w, G, F, S + 1) /\ Ahead(W, S, C, d) /\ Rest(W, S, C, full, d)
  BY Zenon, LogFacts
<1>2. s \in START .. END - 1 /\ ls \in Nat /\ lw \in Nat /\ rw \in BOOLEAN
  BY Zenon DEF ScanArgs
<1>3. IsDoc(d, s) /\ SyncOf(d, s) = nl /\ (nl = ls \/ nl > ls)
  BY Zenon DEF Accepts
<1>4. SyncOf(d, s) \in Nat /\ WriteOf(d, s) \in Nat /\ EndOf(d, s) \in Int
  BY Zenon, <1>1, <1>2, <1>3, Cells
<1>5. Over(W, w, G, F, s) => SyncOf(d, s) >= S
  BY Zenon, <1>1, <1>2, <1>3 DEF Newer
<1>6. CASE ~rw
  <2>1. /\ W <= s /\ (s > W => ls >= S)
        /\ w => s <= G /\ (s = G => \A p \in G .. END - 1 : IsDoc(d, p) => SyncOf(d, p) < ls)
    BY Zenon, <1>6 DEF Scan
  <2>2. w => s < G
    <3>1. ASSUME w, s = G
          PROVE  FALSE
      <4>1. s \in G .. END - 1
        BY <3>1, <1>1, <1>2, Sizes
      <4>2. SyncOf(d, s) < ls
        BY Zenon, <3>1, <4>1, <2>1, <1>3
      <4>3. QED BY <4>2, <1>2, <1>3, <1>4
    <3>2. w => s <= G /\ s # G
      BY Zenon, <3>1, <2>1
    <3>3. QED BY <3>2, <1>1, <1>2, Sizes
  <2>3. (w \/ (F > W /\ full)) /\ W <= W
    <3>1. W <= W
      BY <1>1, Sizes
    <3>2. QED BY Zenon, <3>1 DEF Active
  <2>4. s = W => Over(W, w, G, F, s)
    BY <2>2, <2>3, <1>1, Sizes DEF Over
  <2>5. SyncOf(d, s) >= S
    <3>1. CASE s = W
      BY Zenon, <3>1, <2>4, <1>5
    <3>2. CASE s # W
      BY <3>2, <2>1, <1>1, <1>2, <1>3, <1>4, Sizes
    <3>3. QED BY Zenon, <3>1, <3>2
  <2>6. ASSUME ~w
        PROVE  WriteOf(d, s) >= C /\ EndOf(d, s) < W + STRIPE_LEN - EVACUATION_SIZE
    <3>1. full /\ s \in W .. END - 1
      <4>1. full
        BY Zenon, <2>6, <2>3
      <4>2. s \in W .. END - 1
        BY <2>1, <1>1, <1>2, Sizes
      <4>3. QED BY Zenon, <4>1, <4>2
    <3>2. SyncOf(d, s) < S \/ (WriteOf(d, s) >= C /\ EndOf(d, s) < W + STRIPE_LEN - EVACUATION_SIZE)
      BY Zenon, <3>1, <1>1, <1>3 DEF Rest
    <3>3. ~(SyncOf(d, s) < S)
      BY <2>5, <1>4, <1>1
    <3>4. QED BY Zenon, <3>2, <3>3
  <2>7. QED BY Zenon, <1>6, <2>1, <2>2, <2>5, <2>6 DEF Seen
<1>7. CASE rw
  <2>1. /\ s > START => s < W - EVACUATION_SIZE /\ ls >= S
        /\ ~w => ls >= S
    BY Zenon, <1>7 DEF Scan
  <2>2. s < W
    BY <2>1, <1>1, <1>2, Sizes
  <2>3. SyncOf(d, s) >= S
    <3>1. CASE w /\ ~(s > START)
      <4>1. F > START
        BY Zenon, <3>1 DEF Active
      <4>2. Over(W, w, G, F, s)
        BY <4>1, <3>1, <1>1, <1>2, Sizes DEF Over
      <4>3. QED BY Zenon, <4>2, <1>5
    <3>2. CASE ~w \/ s > START
      BY <3>2, <2>1, <1>1, <1>2, <1>3, <1>4
    <3>3. QED BY Zenon, <3>1, <3>2
  <2>4. s \in START .. W - 1 /\ ~(SyncOf(d, s) < S)
    BY <2>2, <2>3, <1>1, <1>2, <1>4, Sizes
  <2>5. EndOf(d, s) < W - EVACUATION_SIZE
    BY Zenon, <2>4, <1>1, <1>3 DEF Ahead
  <2>6. QED BY Zenon, <1>7, <2>2, <2>3, <2>5 DEF Seen
<1>8. QED BY Zenon, <1>2, <1>6, <1>7

\* The scan moves past the document.
LEMMA ScanNext ==
  ASSUME NEW d, NEW W, NEW L, NEW S, NEW C, NEW full, NEW w, NEW G, NEW F, Log(W, L, S, C, full, d, w, G, F, S + 1),
         Active(W, full, w, F), NEW s, NEW ls, NEW lw, NEW rw, ScanArgs(s, ls, lw, rw),
         Scan(W, S, C, d, w, G, F, s, ls, lw, rw), NEW nl, NEW nw, Accepts(d, s, S, ls, lw, nl, nw)
  PROVE  Scan(W, S, C, d, w, G, F, EndOf(d, s), nl, nw, rw)
<1> DEFINE t == EndOf(d, s)
<1>1. /\ W \in START .. END /\ L \in START .. END /\ S \in Nat /\ C \in Nat /\ full \in BOOLEAN /\ d \in Disks
      /\ w \in BOOLEAN /\ G \in START .. END /\ F \in START .. END
      /\ L < W /\ Shape(W, w, G, F) /\ Chain(d, W, IF w THEN G ELSE F) /\ (w => Chain(d, START, F) /\ Turn(W, L, d, G, F))
  BY Zenon, LogFacts
<1>2. s \in START .. END - 1 /\ ls \in Nat /\ lw \in Nat /\ rw \in BOOLEAN
  BY Zenon DEF ScanArgs
<1>3. IsDoc(d, s) /\ nl = SyncOf(d, s) /\ nl <= S + 1 /\ ((nl = ls /\ nw = WriteOf(d, s)) \/ (nl > ls /\ nw = lw))
  BY Zenon DEF Accepts
<1>4. nl \in Nat /\ WriteOf(d, s) \in Nat /\ t \in Int /\ t > s /\ t <= s + AGG_SIZE
  BY Zenon, <1>1, <1>2, <1>3, Cells
<1>5. /\ nl >= S /\ (~rw /\ w => s < G) /\ (~rw => W <= s)
      /\ ~rw /\ ~w => WriteOf(d, s) >= C /\ t < W + STRIPE_LEN - EVACUATION_SIZE
      /\ rw => s < W /\ t < W - EVACUATION_SIZE
  <2>1. Seen(W, S, C, d, w, G, s, rw)
    BY Zenon, ScanSees
  <2>2. QED BY Zenon, <2>1, <1>3 DEF Seen
<1> HIDE DEF t
<1>6. CASE ~rw
  <2> DEFINE b == IF w THEN G ELSE F
  <2>1. W <= t
    BY <1>4, <1>5, <1>6, <1>1, <1>2, Sizes
  <2>2. ASSUME t < b
        PROVE  IsDoc(d, t) /\ nl <= SyncOf(d, t)
    <3>1. b \in START .. END
      BY Zenon, <1>1
    <3> HIDE DEF b
    <3>2. s \in W .. b - 1
      BY <3>1, <2>2, <1>1, <1>2, <1>4, <1>5, <1>6, Sizes
    <3>3. QED BY Zenon, <3>2, <2>2, <1>1, <1>3 DEF Chain, t, b
  <2>3. ASSUME w
        PROVE  /\ t <= G /\ (t = G => \A p \in G .. END - 1 : IsDoc(d, p) => SyncOf(d, p) < nl)
               /\ nw = 0 \/ \E q \in W .. G - 1 : IsDoc(d, q) /\ nw = WriteOf(d, q)
               /\ nl < S \/ \E q \in W .. G - 1 : IsDoc(d, q) /\ nl = SyncOf(d, q)
    <3>1. s \in W .. G - 1 /\ s \in L .. G - 1
      BY <2>3, <1>1, <1>2, <1>5, <1>6, Sizes
    <3>2. Turn(W, L, d, G, F)
      BY Zenon, <2>3, <1>1
    <3>3. t <= G
      BY Zenon, <3>1, <3>2, <1>3 DEF Turn, t
    <3>4. t = G => \A p \in G .. END - 1 : IsDoc(d, p) => SyncOf(d, p) < nl
      BY Zenon, <3>1, <3>2, <1>3 DEF Turn, t
    <3>5. nw = 0 \/ \E q \in W .. G - 1 : IsDoc(d, q) /\ nw = WriteOf(d, q)
      <4>1. lw = 0 \/ \E q \in W .. G - 1 : IsDoc(d, q) /\ lw = WriteOf(d, q)
        BY Zenon, <2>3, <1>6 DEF Scan
      <4>2. QED BY Zenon, <4>1, <3>1, <1>3
    <3>6. QED BY Zenon, <3>1, <3>3, <3>4, <3>5, <1>3
  <2>4. ASSUME ~w
        PROVE  t <= W + AGG_SIZE \/ (nl = S + 1 /\ t <= W + EVACUATION_SIZE) \/ nw >= C
    <3>1. /\ s <= W + AGG_SIZE \/ (ls = S + 1 /\ s <= W + EVACUATION_SIZE) \/ lw >= C
          /\ s > W => ls >= S
      BY Zenon, <2>4, <1>6 DEF Scan
    <3>2. CASE nl = ls /\ nw = WriteOf(d, s)
      BY Zenon, <3>2, <1>5, <1>6, <2>4
    <3>3. CASE nl > ls /\ nw = lw
      <4>1. CASE lw >= C
        BY Zenon, <4>1, <3>3
      <4>2. CASE ls = S + 1
        BY <4>2, <3>3, <1>1, <1>2, <1>3, <1>4
      <4>3. CASE s <= W + AGG_SIZE
        BY <4>3, <3>1, <3>3, <1>1, <1>2, <1>3, <1>4, <1>5, <1>6, Sizes
      <4>4. QED BY Zenon, <3>1, <4>1, <4>2, <4>3
    <3>4. QED BY Zenon, <1>3, <3>2, <3>3
  <2>5. QED BY Zenon, <1>3, <1>5, <1>6, <2>1, <2>2, <2>3, <2>4 DEF Scan, t
<1>7. CASE rw
  <2>1. ~(t = START)
    BY <1>2, <1>4, Sizes
  <2>2. ASSUME w, t < F
        PROVE  IsDoc(d, t) /\ nl <= SyncOf(d, t)
    <3>1. s \in START .. F - 1 /\ Chain(d, START, F)
      <4>1. s \in START .. F - 1
        BY <2>2, <1>1, <1>2, <1>4, Sizes
      <4>2. QED BY Zenon, <4>1, <2>2, <1>1
    <3>2. QED BY Zenon, <3>1, <2>2, <1>3 DEF Chain, t
  <2>3. W > START + EVACUATION_SIZE
    BY <1>1, <1>2, <1>4, <1>5, <1>7, Sizes
  <2>4. QED BY Zenon, <1>3, <1>5, <1>7, <2>1, <2>2, <2>3 DEF Scan, t
<1>8. QED BY Zenon, <1>2, <1>6, <1>7

\* The scan reads again from the start of the document, which reaches beyond what was read.
LEMMA ScanSame ==
  ASSUME NEW d, NEW W, NEW L, NEW S, NEW C, NEW full, NEW w, NEW G, NEW F, Log(W, L, S, C, full, d, w, G, F, S + 1),
         Active(W, full, w, F), NEW s, NEW ls, NEW lw, NEW rw, ScanArgs(s, ls, lw, rw),
         Scan(W, S, C, d, w, G, F, s, ls, lw, rw), NEW nl, NEW nw, Accepts(d, s, S, ls, lw, nl, nw), Fresh(d, s, lw, rw)
  PROVE  Scan(W, S, C, d, w, G, F, s, nl, nw, rw)
<1>1. /\ W \in START .. END /\ S \in Nat /\ C \in Nat /\ full \in BOOLEAN /\ d \in Disks
      /\ w \in BOOLEAN /\ G \in START .. END /\ F \in START .. END
  BY Zenon, LogFacts
<1>2. s \in START .. END - 1 /\ ls \in Nat /\ lw \in Nat /\ rw \in BOOLEAN
  BY Zenon DEF ScanArgs
<1>3. IsDoc(d, s) /\ nl = SyncOf(d, s) /\ nl <= S + 1 /\ ((nl = ls /\ nw = WriteOf(d, s)) \/ (nl > ls /\ nw = lw))
  BY Zenon DEF Accepts
<1>4. nl \in Nat /\ WriteOf(d, s) \in Nat
  BY Zenon, <1>1, <1>2, <1>3, Cells
<1>5. /\ nl >= S /\ (~rw /\ w => s < G) /\ (~rw => W <= s)
      /\ ~rw /\ ~w => WriteOf(d, s) >= C
      /\ rw => s < W
  <2>1. Seen(W, S, C, d, w, G, s, rw)
    BY Zenon, ScanSees
  <2>2. QED BY Zenon, <2>1, <1>3 DEF Seen
<1>6. nl <= nl
  BY <1>4
<1>7. CASE ~rw
  <2>1. ASSUME w
        PROVE  /\ s <= G /\ ~(s = G)
               /\ nw = 0 \/ \E q \in W .. G - 1 : IsDoc(d, q) /\ nw = WriteOf(d, q)
               /\ nl < S \/ \E q \in W .. G - 1 : IsDoc(d, q) /\ nl = SyncOf(d, q)
    <3>1. s \in W .. G - 1 /\ s <= G /\ ~(s = G)
      BY <2>1, <1>1, <1>2, <1>5, <1>7, Sizes
    <3>2. lw = 0 \/ \E q \in W .. G - 1 : IsDoc(d, q) /\ lw = WriteOf(d, q)
      BY Zenon, <2>1, <1>7 DEF Scan
    <3>3. QED BY Zenon, <3>1, <3>2, <1>3
  <2>2. ASSUME ~w
        PROVE  /\ s < W + STRIPE_LEN - EVACUATION_SIZE
               /\ s <= W + AGG_SIZE \/ (nl = S + 1 /\ s <= W + EVACUATION_SIZE) \/ nw >= C
    <3>1. /\ s < W + STRIPE_LEN - EVACUATION_SIZE
          /\ s <= W + AGG_SIZE \/ (ls = S + 1 /\ s <= W + EVACUATION_SIZE) \/ lw >= C
      BY Zenon, <2>2, <1>7 DEF Scan
    <3>2. CASE nl = ls /\ nw = WriteOf(d, s)
      BY Zenon, <3>1, <3>2, <1>5, <1>7, <2>2
    <3>3. CASE nl > ls /\ nw = lw
      <4>1. ~(ls = S + 1)
        BY <3>3, <1>1, <1>2, <1>3, <1>4
      <4>2. QED BY Zenon, <4>1, <3>1, <3>3
    <3>4. QED BY Zenon, <1>3, <3>2, <3>3
  <2>3. QED BY Zenon, <1>3, <1>5, <1>6, <1>7, <2>1, <2>2 DEF Scan
<1>8. CASE rw
  <2>1. /\ s > START => s < W - EVACUATION_SIZE
        /\ w => (s = START => lw <= WriteOf(d, START))
        /\ ~w => lw >= C \/ W > START + EVACUATION_SIZE
    BY Zenon, <1>8 DEF Scan
  <2>2. ASSUME w, s = START
        PROVE  nw <= WriteOf(d, START)
    <3>1. CASE nw = WriteOf(d, s)
      <4>1. WriteOf(d, s) <= WriteOf(d, s)
        BY <1>4
      <4>2. QED BY Zenon, <4>1, <3>1, <2>2
    <3>2. CASE nw = lw
      BY Zenon, <3>2, <2>1, <2>2
    <3>3. QED BY Zenon, <1>3, <3>1, <3>2
  <2>3. ASSUME ~w
        PROVE  nw >= C \/ W > START + EVACUATION_SIZE
    <3>1. CASE s > START
      BY <3>1, <2>1, <1>1, <1>2, Sizes
    <3>2. CASE ~(s > START)
      <4>1. s = START
        BY <3>2, <1>2, Sizes
      <4>2. WriteOf(d, s) >= lw
        BY Zenon, <4>1, <1>8 DEF Fresh
      <4>3. CASE nw = lw
        BY Zenon, <4>3, <2>1, <2>3
      <4>4. CASE nw = WriteOf(d, s)
        BY <4>2, <4>4, <2>1, <2>3, <1>1, <1>2, <1>4
      <4>5. QED BY Zenon, <1>3, <4>3, <4>4
    <3>3. QED BY Zenon, <3>1, <3>2
  <2>4. QED BY Zenon, <1>3, <1>5, <1>6, <1>8, <2>1, <2>2, <2>3 DEF Scan
<1>9. QED BY Zenon, <1>2, <1>7, <1>8

\* The scan goes on at the front of the stripe.
LEMMA ScanTurn ==
  ASSUME NEW d, NEW W, NEW L, NEW S, NEW C, NEW full, NEW w, NEW G, NEW F, Log(W, L, S, C, full, d, w, G, F, S + 1),
         Active(W, full, w, F), NEW s, NEW ls, NEW lw, s \in START .. END, ls \in Nat, lw \in Nat,
         Scan(W, S, C, d, w, G, F, s, ls, lw, FALSE), s > END - AGG_SIZE, ~w => s >= F
  PROVE  Scan(W, S, C, d, w, G, F, START, ls, lw, TRUE)
<1>1. /\ W \in START .. END /\ L \in START .. END /\ S \in Nat /\ C \in Nat /\ full \in BOOLEAN /\ d \in Disks
      /\ w \in BOOLEAN /\ G \in START .. END /\ F \in START .. END
      /\ L < W /\ Shape(W, w, G, F) /\ (w => Chain(d, START, F) /\ Turn(W, L, d, G, F)) /\ Newer(W, S, C, d, w, G, F, S + 1)
  BY Zenon, LogFacts
<1>2. /\ ls <= S + 1 /\ (s > W => ls >= S)
      /\ w => /\ lw = 0 \/ \E q \in W .. G - 1 : IsDoc(d, q) /\ lw = WriteOf(d, q)
              /\ ls < S \/ \E q \in W .. G - 1 : IsDoc(d, q) /\ ls = SyncOf(d, q)
      /\ ~w => s <= W + AGG_SIZE \/ (ls = S + 1 /\ s <= W + EVACUATION_SIZE) \/ lw >= C
  BY Zenon DEF Scan
<1>3. ~(START > START)
  BY Sizes
<1>4. ASSUME w
      PROVE  IsDoc(d, START) /\ ls <= SyncOf(d, START) /\ lw <= WriteOf(d, START)
  <2>1. F > START
    BY Zenon, <1>4 DEF Active
  <2>2. START < F /\ START \in START .. END - 1 /\ Over(W, w, G, F, START)
    BY <2>1, <1>1, <1>4, Sizes DEF Over
  <2>3. IsDoc(d, START)
    BY Zenon, <2>2, <1>1, <1>4 DEF Chain
  <2>4. SyncOf(d, START) \in Nat /\ WriteOf(d, START) \in Nat /\ SyncOf(d, START) >= S
    <3>1. SyncOf(d, START) \in Nat /\ WriteOf(d, START) \in Nat
      BY Zenon, <2>2, <2>3, <1>1, Cells
    <3>2. SyncOf(d, START) >= S
      BY Zenon, <2>2, <2>3, <1>1 DEF Newer
    <3>3. QED BY Zenon, <3>1, <3>2
  <2>5. \A q \in W .. G - 1 : IsDoc(d, q) => SyncOf(d, q) <= SyncOf(d, START) /\ WriteOf(d, q) <= WriteOf(d, START)
    BY Zenon, <2>1, <1>1, <1>4 DEF Turn
  <2>6. lw <= WriteOf(d, START)
    <3>1. lw = 0 => lw <= WriteOf(d, START)
      BY <2>4
    <3>2. QED BY Zenon, <3>1, <2>5, <1>2, <1>4
  <2>7. ls <= SyncOf(d, START)
    <3>1. ls < S => ls <= SyncOf(d, START)
      BY <2>4, <1>1
    <3>2. QED BY Zenon, <3>1, <2>5, <1>2, <1>4
  <2>8. QED BY Zenon, <2>3, <2>6, <2>7
<1>5. ASSUME ~w
      PROVE  ls >= S /\ (lw >= C \/ W > START + EVACUATION_SIZE)
  <2>1. F > W /\ s >= F
    BY Zenon, <1>5 DEF Active
  <2>2. ls >= S
    BY <2>1, <1>1, <1>2, Sizes
  <2>3. W > START + EVACUATION_SIZE \/ lw >= C
    <3>1. s <= W + AGG_SIZE \/ s <= W + EVACUATION_SIZE \/ lw >= C
      BY Zenon, <1>2, <1>5
    <3>2. s <= W + AGG_SIZE \/ s <= W + EVACUATION_SIZE => W > START + EVACUATION_SIZE
      BY <1>1, Sizes
    <3>3. QED BY Zenon, <3>1, <3>2
  <2>4. QED BY Zenon, <2>2, <2>3
<1>6. QED BY Zenon, <1>2, <1>3, <1>4, <1>5 DEF Scan

\* The scan takes no document at s.
Stops(d, s, S, ls) == IsDoc(d, s) => SyncOf(d, s) # ls /\ ~(SyncOf(d, s) > ls /\ SyncOf(d, s) <= S + 1)
Beyond(s, w, G, F, rw) == (~rw => ~(s < IF w THEN G ELSE F)) /\ (rw /\ w => ~(s < F))

\* The scan does not stop before the end of the log.
LEMMA ScanEnds ==
  ASSUME NEW d, NEW W, NEW L, NEW S, NEW C, NEW full, NEW w, NEW G, NEW F, Log(W, L, S, C, full, d, w, G, F, S + 1),
         NEW s, NEW ls, NEW lw, NEW rw, ScanArgs(s, ls, lw, rw),
         Scan(W, S, C, d, w, G, F, s, ls, lw, rw), Stops(d, s, S, ls)
  PROVE  Beyond(s, w, G, F, rw)
<1>1. /\ W \in START .. END /\ S \in Nat /\ d \in Disks
      /\ w \in BOOLEAN /\ G \in START .. END /\ F \in START .. END /\ Newer(W, S, C, d, w, G, F, S + 1)
  BY Zenon, LogFacts
<1>2. s \in START .. END - 1 /\ ls \in Nat /\ lw \in Nat /\ rw \in BOOLEAN
  BY Zenon DEF ScanArgs
<1>3. ASSUME Over(W, w, G, F, s), IsDoc(d, s), ls <= SyncOf(d, s)
      PROVE  FALSE
  <2>1. SyncOf(d, s) <= S + 1
    BY Zenon, <1>1, <1>2, <1>3 DEF Newer
  <2>2. SyncOf(d, s) \in Nat
    BY Zenon, <1>1, <1>2, <1>3, Cells
  <2>3. SyncOf(d, s) # ls /\ ~(SyncOf(d, s) > ls /\ SyncOf(d, s) <= S + 1)
    BY Zenon, <1>3 DEF Stops
  <2>4. QED BY <2>1, <2>2, <2>3, <1>2, <1>3
<1>4. ~rw => /\ W <= s
             /\ s < (IF w THEN G ELSE F) => IsDoc(d, s) /\ ls <= SyncOf(d, s)
  BY Zenon DEF Scan
<1>5. rw /\ w => (s < F => IsDoc(d, s) /\ ls <= SyncOf(d, s))
  BY Zenon DEF Scan
<1>6. /\ W <= s /\ s < (IF w THEN G ELSE F) => Over(W, w, G, F, s)
      /\ w /\ s < F => Over(W, w, G, F, s)
  BY Zenon DEF Over
<1>7. QED BY Zenon, <1>3, <1>4, <1>5, <1>6 DEF Beyond

----------------------------------------------------------------------------
(* The end of the log is at pos: what recovery leaves of the directory.     *)

Clip(m) == IF m > END THEN m - END ELSE m
\* An entry for offset o is not dropped when the entries from W to a are.
Spared(W, a, o) == IF W <= a THEN ~(W <= o /\ o < a) ELSE o < W /\ ~(o < a)
\* The document from o on with l blocks was not overwritten.
Untouched(W, w, G, F, o, l) == \A p \in o .. o + l - 1 : ~Over(W, w, G, F, p)
\* The entries that stay, of documents on one side of W, are of documents that were not overwritten.
AllClear(W, a, w, G, F) ==
  \A o \in START .. END - 1, l \in 1 .. AGG_SIZE :
    Spared(W, a, o) /\ (o + l <= W \/ o >= W) => Untouched(W, w, G, F, o, l)

\* Where recovery may find the end of the log: where the scan stopped, or, when the front holds a
\* document of an earlier lap, before the end of the stripe.
EndAt(d, S, s, ls, lw, rw, pos) ==
  \/ Stops(d, s, S, ls) /\ Fresh(d, s, lw, rw) /\ s <= END - AGG_SIZE /\ pos = s
  \/ ~Fresh(d, s, lw, rw) /\ pos = END - EVACUATION_SIZE

\* Where the scan ends the log has ended, and the margin covers all that it overwrote.
LEMMA EndFound ==
  ASSUME NEW d, NEW W, NEW L, NEW S, NEW C, NEW full, NEW w, NEW G, NEW F, Log(W, L, S, C, full, d, w, G, F, S + 1),
         Active(W, full, w, F), NEW s, NEW ls, NEW lw, NEW rw, ScanArgs(s, ls, lw, rw),
         Scan(W, S, C, d, w, G, F, s, ls, lw, rw), NEW pos, EndAt(d, S, s, ls, lw, rw, pos)
  PROVE  ~(pos = W /\ rw) /\ AllClear(W, Clip(pos + EVACUATION_SIZE), w, G, F)
<1>1. /\ W \in START .. END /\ L \in START .. END /\ S \in Nat /\ C \in Nat /\ full \in BOOLEAN /\ d \in Disks
      /\ w \in BOOLEAN /\ G \in START .. END /\ F \in START .. END
      /\ L < W /\ W # END - EVACUATION_SIZE /\ Shape(W, w, G, F) /\ Ahead(W, S, C, d) /\ (w => Chain(d, START, F))
  BY Zenon, LogFacts
<1>2. s \in START .. END - 1 /\ ls \in Nat /\ lw \in Nat /\ rw \in BOOLEAN
  BY Zenon DEF ScanArgs
<1>3. /\ rw /\ s > START => s < W - EVACUATION_SIZE
      /\ rw /\ w /\ s = START => lw <= WriteOf(d, START)
      /\ rw /\ ~w => lw >= C \/ W > START + EVACUATION_SIZE
      /\ ~rw => W <= s
      /\ ~rw /\ w => s <= G
      /\ ~rw /\ ~w => s < W + STRIPE_LEN - EVACUATION_SIZE
  BY Zenon DEF Scan
<1>4. (w => F > START) /\ (w \/ F > W)
  BY Zenon DEF Active
<1>5. ~(pos = W /\ rw)
  <2>1. pos = s \/ pos = END - EVACUATION_SIZE
    BY Zenon DEF EndAt
  <2>2. QED BY <2>1, <1>1, <1>2, <1>3, Sizes
<1>6. pos = s => Stops(d, s, S, ls) \/ ~Fresh(d, s, lw, rw)
  BY Zenon DEF EndAt
<1>7. ASSUME rw, s = START, IsDoc(d, START), WriteOf(d, START) >= lw, lw >= C
      PROVE  W > START + EVACUATION_SIZE
  <2>1. START \in START .. W - 1 /\ START \in START .. END - 1
    BY <1>1, Sizes
  <2>2. WriteOf(d, START) \in Nat /\ EndOf(d, START) \in Int /\ EndOf(d, START) > START
    BY Zenon, <2>1, <1>1, <1>7, Cells
  <2>3. WriteOf(d, START) < C \/ EndOf(d, START) < W - EVACUATION_SIZE
    BY Zenon, <2>1, <1>1, <1>7 DEF Ahead
  <2>4. QED BY <2>2, <2>3, <1>1, <1>2, <1>7, Sizes
\* Stopped at s.
<1>8. CASE Stops(d, s, S, ls) /\ Fresh(d, s, lw, rw) /\ s <= END - AGG_SIZE /\ pos = s
  <2> DEFINE a == Clip(pos + EVACUATION_SIZE)
  <2>0. Stops(d, s, S, ls)
    BY Zenon, <1>8
  <2>1. (~rw => ~(s < IF w THEN G ELSE F)) /\ (rw /\ w => ~(s < F))
    <3>1. Beyond(s, w, G, F, rw)
      BY Zenon, <2>0, ScanEnds
    <3>2. QED BY Zenon, <3>1 DEF Beyond
  <2>a. pos = s
    BY Zenon, <1>8
  <2>b. a = Clip(s + EVACUATION_SIZE)
    BY Zenon, <2>a
  <2> HIDE DEF a
  <2>2. a = IF s + EVACUATION_SIZE > END THEN s + EVACUATION_SIZE - END ELSE s + EVACUATION_SIZE
    BY <2>b, <1>2, Sizes DEF Clip
  <2>3. rw => s + EVACUATION_SIZE < W
    <3>1. CASE s > START
      BY <3>1, <1>1, <1>2, <1>3, Sizes
    <3>2. CASE ~(s > START)
      <4>1. s = START
        BY <3>2, <1>2, Sizes
      <4>2. rw /\ w => s + EVACUATION_SIZE < W
        BY <4>1, <2>1, <1>1, <1>4, Sizes
      <4>3. rw => IsDoc(d, START) /\ WriteOf(d, START) >= lw
        BY Zenon, <4>1, <1>8 DEF Fresh
      <4>4. rw /\ ~w => W > START + EVACUATION_SIZE
        BY Zenon, <4>1, <4>3, <1>3, <1>7
      <4>5. rw /\ ~w => s + EVACUATION_SIZE < W
        BY <4>1, <4>4, <1>1, Sizes
      <4>6. QED BY Zenon, <4>2, <4>5
    <3>3. QED BY Zenon, <3>1, <3>2
  <2>4. ASSUME NEW o \in START .. END - 1, NEW l \in 1 .. AGG_SIZE, Spared(W, a, o), o + l <= W \/ o >= W,
               NEW p \in o .. o + l - 1
        PROVE  ~Over(W, w, G, F, p)
    <3>1. CASE rw
      <4>1. a = s + EVACUATION_SIZE /\ a < W
        BY <2>2, <2>3, <3>1, <1>1, <1>2, Sizes
      <4>2. o < W /\ ~(o < a)
        BY <4>1, <2>4, <1>1, <1>2, Sizes DEF Spared
      <4>3. QED BY <4>1, <4>2, <2>1, <3>1, <2>4, <1>1, <1>2, <1>3, Sizes DEF Over
    <3>2. CASE ~rw
      <4>1. ~w
        BY <2>1, <3>2, <1>1, <1>2, <1>3, <1>8, Sizes DEF Shape
      <4>2. s >= F /\ s >= W /\ s < W + STRIPE_LEN - EVACUATION_SIZE
        BY <4>1, <2>1, <3>2, <1>1, <1>2, <1>3, Sizes
      <4>3. o < W \/ o >= F
        BY <4>2, <2>2, <2>4, <1>1, <1>2, Sizes DEF Spared
      <4>4. QED BY <4>1, <4>3, <2>4, <1>1, Sizes DEF Over
    <3>3. QED BY Zenon, <3>1, <3>2, <1>2
  <2>5. QED BY Zenon, <1>5, <2>4 DEF AllClear, Untouched, a
\* An earlier lap at the front.
<1>9. CASE ~Fresh(d, s, lw, rw) /\ pos = END - EVACUATION_SIZE
  <2>1. rw /\ s = START /\ ~(IsDoc(d, START) /\ WriteOf(d, START) >= lw)
    BY Zenon, <1>9 DEF Fresh
  <2>2. ~w
    <3>1. ASSUME w
          PROVE  FALSE
      <4>1. START < F /\ START \in START .. END - 1
        BY <3>1, <1>1, <1>4, Sizes
      <4>2. IsDoc(d, START)
        BY Zenon, <4>1, <3>1, <1>1 DEF Chain
      <4>3. WriteOf(d, START) \in Nat
        BY Zenon, <4>1, <4>2, <1>1, Cells
      <4>4. lw <= WriteOf(d, START)
        BY Zenon, <3>1, <2>1, <1>3
      <4>5. WriteOf(d, START) >= lw
        BY <4>3, <4>4, <1>2
      <4>6. QED BY Zenon, <4>2, <4>5, <2>1
    <3>2. QED BY Zenon, <3>1
  <2>3. pos + EVACUATION_SIZE = END /\ ~(END > END)
    BY <1>9, Sizes
  <2>4. Clip(pos + EVACUATION_SIZE) = END
    BY Zenon, <2>3 DEF Clip
  <2>5. ASSUME NEW o \in START .. END - 1, NEW l \in 1 .. AGG_SIZE, Spared(W, END, o), o + l <= W \/ o >= W,
               NEW p \in o .. o + l - 1
        PROVE  ~Over(W, w, G, F, p)
    <3>1. o < W
      BY <2>5, <1>1, Sizes DEF Spared
    <3>2. QED BY <3>1, <2>2, <2>5, <1>1, Sizes DEF Over
  <2>6. QED BY Zenon, <1>5, <2>4, <2>5 DEF AllClear, Untouched
<1>10. QED BY Zenon, <1>8, <1>9 DEF EndAt

\* A copy that nothing was overwritten of goes into service.
LEMMA InService ==
  ASSUME NEW c \in Copies, NEW d \in Disks, NEW h, h = c.header, h.sync_serial > 0,
         NEW X \in START .. END, Copied(c, d, FALSE, X, h.write_pos, h.sync_serial)
  PROVE  /\ RunHead(h.write_pos, h.last_write_pos, h.agg_pos, h.dirty, 0)
         /\ RunDir(h.write_pos, h.phase, h.cycle = 0, c.dir, d, <<>>)
         /\ RunDisk(h.write_pos, h.last_write_pos, h.sync_serial, h.write_serial, h.cycle > 0, d)
         /\ Since(c, h, 0, d) /\ LogPosition(h) + 0 - LogPosition(h) = 0
<1> DEFINE W == h.write_pos  L == h.last_write_pos  S == h.sync_serial  C == h.write_serial  full == h.cycle > 0
           x == LogPosition(h)  y == h.cycle
<1>0. h \in Headers
  BY Zenon, CopyFields
<1>1. /\ W \in START .. END /\ L \in START .. END /\ S \in Nat /\ C \in Nat /\ x \in Int /\ y \in Nat
  BY Zenon, <1>0, LogRange, LogPositions, Heads
<1>2. /\ h.agg_pos = W /\ Log(W, L, S, C, full, d, FALSE, X, W, S)
      /\ Placed(W, 0, h.phase, h.cycle = 0, c.dir) /\ Kept(W, h.phase, c.dir, d, FALSE, X, W)
  BY Zenon DEF Copied, LogSince
<1>3. L < W /\ W - L <= AGG_SIZE
  <2> HIDE DEF W, L, S, C, full
  <2> QED BY Zenon, <1>2, LogFacts
<1>4. RunHead(W, L, h.agg_pos, h.dirty, 0)
  <2>1. W = W + 0 /\ ~(L >= W) /\ ~(W = START)
    BY Zenon, <1>1, <1>3, LastBefore
  <2>2. QED BY Zenon, <2>1, <1>2, <1>3 DEF RunHead
<1>5. \A p : p \in START .. END - 1 => ~Over(W, FALSE, X, W, p)
  <2> HIDE DEF W
  <2> QED BY <1>1, Sizes DEF Over
<1>6. RunDir(W, h.phase, h.cycle = 0, c.dir, d, <<>>)
  <2> DEFINE ph == h.phase  first == h.cycle = 0  es == c.dir
  <2>1. Placed(W, 0, ph, first, es) /\ Kept(W, ph, es, d, FALSE, X, W)
    BY Zenon, <1>2
  <2> HIDE DEF W, ph, first, es
  <2>2. ASSUME NEW e \in es, e.phase = ph \/ e.off >= W, NEW p \in e.off .. e.off + e.len - 1
        PROVE  Holds(d, p, e)
    <3>1. e \in Entry /\ e.off + e.len <= END
      BY Zenon, <2>1 DEF Placed
    <3>2. p \in START .. END - 1
      BY Zenon, <3>1, EntryRange
    <3>3. QED BY Zenon, <3>2, <2>1, <2>2, <1>5 DEF Kept
  <2>3. RunDir(W, ph, first, es, d, <<>>)
    BY Zenon, <2>1, <2>2, <1>1, OnDiskDir
  <2>4. QED BY Zenon, <2>3 DEF ph, first, es
<1>7. RunDisk(W, L, S, C, full, d)
  <2> HIDE DEF W, L, S, C, full
  <2> QED BY Zenon, <1>2, LogInService
<1>8. /\ x + 0 - x < STRIPE_LEN - EVACUATION_SIZE /\ x <= x /\ y <= y /\ C <= C /\ S <= S /\ S <= S + 1 /\ ~(y > y)
      /\ x + 0 - x = 0
  <2> HIDE DEF x, y, S, C
  <2> QED BY Zenon, <1>1, Still
<1>9. ~(S = 0)
  <2>1. S > 0
    BY Zenon
  <2> HIDE DEF S
  <2> QED BY <2>1, <1>1
<1>10. (y > y) = FALSE
  BY <1>8
<1>11. Below(W, d, y > y, X, W, C)
  BY Zenon, <1>5, <1>10 DEF Below
<1>12. Since(c, h, 0, d)
  BY Zenon, <1>8, <1>9, <1>10, <1>11 DEF Since, GoneOn
<1>13. QED BY Zenon, <1>4, <1>6, <1>7, <1>8, <1>12

\* The entries that recovery keeps.
Left(es, W, m) ==
  LET lo == offset_to_vol_offset(W)
      hi == offset_to_vol_offset(Clip(m))
  IN  IF lo <= hi THEN clear_range(lo, hi, es)
      ELSE clear_range(1, hi, clear_range(lo, offset_to_vol_offset(END), es))

\* No entry that starts in the margin outlives clear_range.
LEMMA LeftSpared ==
  ASSUME NEW es \in SUBSET Entry, NEW W \in START .. END, NEW m \in Int
  PROVE  Left(es, W, m) \subseteq es /\ \A x \in Left(es, W, m) : Spared(W, Clip(m), x.off)
<1> DEFINE a == Clip(m)
<1>1. a \in Int
  BY Sizes DEF Clip
<1> HIDE DEF a
<1>2. \A i \in START .. END - 1 : ~(offset_to_vol_offset(i) >= offset_to_vol_offset(W) /\ offset_to_vol_offset(i) < offset_to_vol_offset(a))
                                   <=> ~(W <= i /\ i < a)
  BY <1>1, Sizes DEF offset_to_vol_offset
<1>3. \A i \in START .. END - 1 : ~(offset_to_vol_offset(i) >= offset_to_vol_offset(W) /\ offset_to_vol_offset(i) < offset_to_vol_offset(END))
                                   <=> i < W
  BY <1>1, Sizes DEF offset_to_vol_offset
<1>4. \A i \in START .. END - 1 : ~(offset_to_vol_offset(i) >= 1 /\ offset_to_vol_offset(i) < offset_to_vol_offset(a))
                                   <=> ~(i < a)
  BY <1>1, Sizes DEF offset_to_vol_offset
<1>5. (offset_to_vol_offset(W) <= offset_to_vol_offset(a)) <=> W <= a
  BY <1>1, Sizes DEF offset_to_vol_offset
<1>6. \A x \in es : x.off \in START .. END - 1
  BY Zenon DEF Entry, Positions
<1>7. CASE W <= a
  <2>1. Left(es, W, m) = clear_range(offset_to_vol_offset(W), offset_to_vol_offset(a), es)
    BY Zenon, <1>5, <1>7 DEF Left, a
  <2>2. Left(es, W, m) \subseteq es /\ \A x \in Left(es, W, m) : ~(W <= x.off /\ x.off < a)
    BY Zenon, <2>1, <1>2, <1>6 DEF clear_range
  <2>3. QED BY Zenon, <2>2, <1>7 DEF Spared, a
<1>8. CASE ~(W <= a)
  <2>1. Left(es, W, m) = clear_range(1, offset_to_vol_offset(a), clear_range(offset_to_vol_offset(W), offset_to_vol_offset(END), es))
    BY Zenon, <1>5, <1>8 DEF Left, a
  <2>2. Left(es, W, m) \subseteq es /\ \A x \in Left(es, W, m) : x.off < W /\ ~(x.off < a)
    BY Zenon, <2>1, <1>3, <1>4, <1>6 DEF clear_range
  <2>3. QED BY Zenon, <2>2, <1>8 DEF Spared, a
<1>9. QED BY Zenon, <1>7, <1>8

\* A part of the copy whose documents were not overwritten.
Harmless(es, W, ph, w, G, F) ==
  \A x \in es : x.phase = ph \/ x.off >= W => Untouched(W, w, G, F, x.off, x.len)

\* Entries that the margin spared still lead to their documents.
LEMMA KeptOn ==
  ASSUME NEW W, NEW ph, NEW first, NEW es, NEW d, NEW w, NEW G, NEW F, Placed(W, 0, ph, first, es), Kept(W, ph, es, d, w, G, F),
         NEW fs \in SUBSET es, Harmless(fs, W, ph, w, G, F), NEW X, NEW Y
  PROVE  Placed(W, 0, ph, first, fs) /\ Kept(W, ph, fs, d, FALSE, X, Y)
<1>1. Placed(W, 0, ph, first, fs)
  BY Zenon DEF Placed
<1>2. ASSUME NEW e \in fs, e.phase = ph \/ e.off >= W, NEW p \in e.off .. e.off + e.len - 1
      PROVE  Holds(d, p, e)
  <2>1. ~Over(W, w, G, F, p)
    BY Zenon, <1>2 DEF Harmless, Untouched
  <2>2. e \in es /\ (Over(W, w, G, F, p) \/ Holds(d, p, e))
    BY Zenon, <1>2 DEF Kept
  <2>3. QED BY Zenon, <2>1, <2>2
<1>3. QED BY Zenon, <1>1, <1>2 DEF Kept

\* What is not active has overwritten nothing that an entry leads to.
LEMMA IdleHarmless ==
  ASSUME NEW W, NEW ph, NEW first, NEW es, NEW full, NEW w, NEW G, NEW F, Placed(W, 0, ph, first, es),
         W \in START .. END, F \in START .. END, full \in BOOLEAN, Idle(W, full, w, F), ~full => first
  PROVE  Harmless(es, W, ph, w, G, F)
<1> SUFFICES ASSUME NEW x \in es, x.phase = ph \/ x.off >= W, NEW p \in x.off .. x.off + x.len - 1
             PROVE  ~Over(W, w, G, F, p)
  BY Zenon DEF Harmless, Untouched
<1> DEFINE o == x.off  l == x.len
<1>1. /\ x \in Entry /\ o + l <= END /\ (x.phase = ph => o + l <= W + 0) /\ (first => x.phase = ph)
  BY Zenon DEF Placed
<1>2. o \in START .. END - 1 /\ l \in 1 .. AGG_SIZE /\ p \in o .. o + l - 1
  BY Zenon, <1>1 DEF Entry, Positions
<1> HIDE DEF o, l
<1>3. CASE full
  BY <1>2, <1>3, Sizes DEF Over, Idle
<1>4. CASE ~full
  <2>1. o + l <= W + 0
    BY Zenon, <1>1, <1>4
  <2>2. QED BY <2>1, <1>2, Sizes DEF Over, Idle
<1>5. QED BY Zenon, <1>3, <1>4

\* The entries that recovery keeps and that are valid.
LEMMA LeftHarmless ==
  ASSUME NEW W, NEW ph, NEW first, NEW es \in SUBSET Entry, NEW w, NEW G, NEW F, Placed(W, 0, ph, first, es),
         W \in START .. END, NEW m \in Int, AllClear(W, Clip(m), w, G, F)
  PROVE  Harmless(Left(es, W, m), W, ph, w, G, F)
<1> SUFFICES ASSUME NEW x \in Left(es, W, m), x.phase = ph \/ x.off >= W
             PROVE  Untouched(W, w, G, F, x.off, x.len)
  BY Zenon DEF Harmless
<1>1. x \in es /\ Spared(W, Clip(m), x.off)
  BY Zenon, LeftSpared
<1>2. x \in Entry /\ (x.phase = ph => x.off + x.len <= W + 0)
  BY Zenon, <1>1 DEF Placed
<1>3. x.off \in START .. END - 1 /\ x.len \in 1 .. AGG_SIZE
  BY Zenon, <1>2 DEF Entry, Positions
<1>4. W + 0 = W
  BY Sizes
<1>5. x.off + x.len <= W \/ x.off >= W
  BY Zenon, <1>2, <1>4
<1>6. QED BY Zenon, <1>1, <1>3, <1>5 DEF AllClear

\* The three outcomes of Ldone: as it was, cleared, or with what is left of the directory.
Leaves(pos, next) ==
  /\ dir' = cleanup(header, 0, Left(dir, header.write_pos, pos + EVACUATION_SIZE))
  /\ header' = [header EXCEPT !.sync_serial = next, !.dirty = @ \/ dir' # dir]
  /\ copying' = [header |-> header', dir |-> dir']
  /\ mode' = "writedir" /\ rec' = NoRec
  /\ disk' = disk /\ flight' = flight /\ durable' = durable /\ reach' = reach
AsItWas ==
  /\ mode' = "run" /\ rec' = NoRec
  /\ header' = header /\ dir' = dir /\ disk' = disk /\ flight' = flight /\ copying' = copying /\ durable' = durable /\ reach' = reach

\* The three outcomes of Ldone: the stripe as it was, cleared, or with the margin taken out.
LEMMA LdoneCases ==
  ASSUME NEW pos, NEW ms, Ldone(pos, ms)
  PROVE  \/ pos = header.write_pos /\ rec.wrapped /\ AsItWas
         \/ pos + EVACUATION_SIZE < header.write_pos /\ Lclear
         \/ \E next \in {ms + 1, ms + 2} : Leaves(pos, next)
<1> DEFINE A == pos = header.write_pos /\ rec.wrapped
           B == pos + EVACUATION_SIZE < header.write_pos /\ pos + EVACUATION_SIZE + EVACUATION_SIZE >= header.write_pos
           next == IF (ms + 1) % 2 = header.sync_serial % 2 THEN ms + 2 ELSE ms + 1
<1>1. next \in {ms + 1, ms + 2}
  BY Zenon
<1>2. CASE A
  BY Zenon, <1>2 DEF Ldone, AsItWas
<1>3. CASE ~A /\ B
  BY Zenon, <1>3 DEF Ldone
<1>4. CASE ~A /\ ~B
  <2>1. Leaves(pos, next)
    BY Zenon, <1>4 DEF Ldone, Leaves, Left, Clip
  <2>2. QED BY Zenon, <2>1, <1>1
<1>5. QED BY Zenon, <1>2, <1>3, <1>4

\* What LostInv says of the durable copy, whatever the mode.
OnDurable ==
  /\ durable.header.sync_serial = 0 => Cleared(durable)
  /\ durable.header.sync_serial > 0 => SomeLost(durable, disk, reach)

\* What is lost stays the same while the durable copy and the disk do.
LEMMA DurableStays ==
  ASSUME LostInv, durable' = durable, disk' = disk, reach' = reach
  PROVE  OnDurable /\ OnDurable'
<1>1. OnDurable
  BY Zenon DEF LostInv, OnDurable, SomeLost
<1>2. QED BY Zenon, <1>1 DEF OnDurable

\* Recovery gives up.
LEMMA LclearStep ==
  ASSUME Types, LostInv, Lclear
  PROVE  IInv'
<1>1. /\ header \in Headers /\ dir \in SUBSET Entry /\ disk \in Disks /\ durable \in Copies /\ reach \in Nat /\ rec \in Recs
      /\ \A e \in dir \cup durable.dir : e.off + e.len <= END
  BY Zenon DEF Types
<1>2. /\ header' = ClearedHeader /\ dir' = {} /\ copying' = NoEntries /\ mode' = "writedir" /\ rec' = NoRec
      /\ disk' = disk /\ flight' = flight /\ durable' = durable /\ reach' = reach
  BY Zenon DEF Lclear, NoEntries
<1>3. Types'
  BY Zenon, <1>1, <1>2, ClearedIsHeader, NoRecIsRec DEF Types
<1>4. OnDurable'
  BY Zenon, <1>2, DurableStays
<1>5. ~(0 > 0)
  OBVIOUS
<1>6. mode' # "run" /\ mode' # "check" /\ mode' # "scan"
  BY <1>2
<1>7. copying' = [header |-> header', dir |-> dir'] /\ Cleared(copying') /\ header'.sync_serial = 0
  BY Zenon, <1>2, ClearedFields, NoEntriesIsCopy DEF NoEntries
<1>8. LostInv'
  BY Zenon, <1>2, <1>4, <1>5, <1>6, <1>7 DEF LostInv, OnDurable, SomeLost
<1>9. QED BY Zenon, <1>3, <1>6, <1>8 DEF IInv

RecoveredTo(h, g, T) ==
  /\ g.write_pos = h.write_pos /\ g.last_write_pos = h.last_write_pos /\ g.agg_pos = h.agg_pos /\ g.phase = h.phase
  /\ g.cycle = h.cycle /\ g.write_serial = h.write_serial /\ g.sync_serial = T

\* What Ldone does to the header.
LEMMA HeadRecovered ==
  ASSUME NEW h \in Headers, NEW T \in Nat, NEW b \in BOOLEAN, NEW g, g = [h EXCEPT !.sync_serial = T, !.dirty = b]
  PROVE  g \in Headers /\ RecoveredTo(h, g, T)
BY Zenon DEF Headers, RecoveredTo

\* What is left is a copy that nothing was overwritten of.
LEMMA LeftCopied ==
  ASSUME NEW c \in Copies, NEW d \in Disks, NEW w, NEW G, NEW F, NEW far, Lost(c, d, far, w, G, F),
         NEW fs \in SUBSET c.dir, Harmless(fs, c.header.write_pos, c.header.phase, w, G, F),
         NEW g, NEW T \in Nat, T > c.header.sync_serial, RecoveredTo(c.header, g, T)
  PROVE  Copied([header |-> g, dir |-> fs], d, FALSE, START, g.write_pos, g.sync_serial)
<1> DEFINE W == c.header.write_pos  L == c.header.last_write_pos  S == c.header.sync_serial  C == c.header.write_serial
           full == c.header.cycle > 0  ph == c.header.phase  first == c.header.cycle = 0  es == c.dir
<1>1. /\ c.header.agg_pos = W /\ Log(W, L, S, C, full, d, w, G, F, S + 1)
      /\ Placed(W, 0, ph, first, es) /\ Kept(W, ph, es, d, w, G, F)
  BY Zenon DEF Lost, Copied, LogSince
<1>2. START \in START .. END
  BY Sizes
<1>3. Log(W, L, T, C, full, d, FALSE, START, W, T)
  <2>1. T > S
    BY Zenon
  <2> HIDE DEF W, L, S, C, full
  <2> QED BY Zenon, <2>1, <1>1, <1>2, LogRecovered
<1>4. Placed(W, 0, ph, first, fs) /\ Kept(W, ph, fs, d, FALSE, START, W)
  <2>1. Harmless(fs, W, ph, w, G, F) /\ fs \in SUBSET es
    BY Zenon
  <2> HIDE DEF W, ph, first, es
  <2> QED BY Zenon, <2>1, <1>1, KeptOn
<1>5. [header |-> g, dir |-> fs].header = g /\ [header |-> g, dir |-> fs].dir = fs
  BY Zenon
<1>6. QED BY Zenon, <1>1, <1>3, <1>4, <1>5 DEF RecoveredTo, Copied, LogSince

\* A copy that nothing was overwritten of, as it was.
LEMMA IdleCopied ==
  ASSUME NEW c \in Copies, NEW d \in Disks, NEW w, NEW G, NEW F, NEW far, Lost(c, d, far, w, G, F),
         Harmless(c.dir, c.header.write_pos, c.header.phase, w, G, F),
         Idle(c.header.write_pos, c.header.cycle > 0, w, F)
  PROVE  Copied(c, d, FALSE, START, c.header.write_pos, c.header.sync_serial)
<1> DEFINE W == c.header.write_pos  L == c.header.last_write_pos  S == c.header.sync_serial  C == c.header.write_serial
           full == c.header.cycle > 0  ph == c.header.phase  first == c.header.cycle = 0  es == c.dir
<1>1. /\ c.header.agg_pos = W /\ Log(W, L, S, C, full, d, w, G, F, S + 1)
      /\ Placed(W, 0, ph, first, es) /\ Kept(W, ph, es, d, w, G, F)
  BY Zenon DEF Lost, Copied, LogSince
<1>2. START \in START .. END /\ S \in Nat
  <2>1. START \in START .. END
    BY Sizes
  <2>2. QED BY Zenon, <2>1, CopyFields, Heads
<1>3. Log(W, L, S, C, full, d, FALSE, START, W, S)
  <2> DEFINE to == S + 1
  <2>1. Idle(W, full, w, F) /\ Log(W, L, S, C, full, d, w, G, F, to)
    BY Zenon, <1>1
  <2> HIDE DEF W, L, S, C, full, to
  <2> QED BY Zenon, <2>1, <1>1, <1>2, LogUnchanged
<1>4. Kept(W, ph, es, d, FALSE, START, W)
  <2>1. Harmless(es, W, ph, w, G, F) /\ es \in SUBSET es
    BY Zenon
  <2> HIDE DEF W, ph, first, es
  <2> QED BY Zenon, <2>1, <1>1, KeptOn
<1>5. QED BY Zenon, <1>1, <1>3, <1>4 DEF Copied, LogSince

\* The scan's own variables against the durable copy.
Scans(h, d, r, w, G, F) ==
  Scan(h.write_pos, h.sync_serial, h.write_serial, d, w, G, F, r.s, r.lastSync, r.lastWrite, r.wrapped)
Actives(h, w, F) == Active(h.write_pos, h.cycle > 0, w, F)
Idles(h, w, F) == Idle(h.write_pos, h.cycle > 0, w, F)
Stands(h, r) ==
  /\ h \in Headers /\ h.sync_serial > 0 /\ r \in Recs /\ r.maxSync >= h.sync_serial
  /\ ScanArgs(r.s, r.lastSync, r.lastWrite, r.wrapped)

\* What the invariant says during the scan.
LEMMA ScanState ==
  ASSUME Types, LostInv, mode = "scan"
  PROVE  /\ header = durable.header /\ dir = durable.dir /\ Stands(header, rec)
         /\ \E w \in BOOLEAN, G \in START .. END, F \in START .. END :
              /\ Lost(durable, disk, reach, w, G, F)
              /\ (Actives(header, w, F) /\ Scans(header, disk, rec, w, G, F)) \/ Idles(header, w, F)
<1>1. header \in Headers /\ durable \in Copies /\ rec \in Recs
  BY Zenon DEF Types
<1>2. header = durable.header /\ dir = durable.dir /\ Reading(header, disk, rec, reach)
  <2>1. mode \in {"check", "scan"}
    BY Zenon
  <2>2. QED BY Zenon, <2>1 DEF LostInv
<1>3. header.sync_serial > 0 /\ rec.maxSync >= header.sync_serial /\ rec.s < rec.e
  BY Zenon, <1>2 DEF Reading
<1>4. ScanArgs(rec.s, rec.lastSync, rec.lastWrite, rec.wrapped)
  <2> DEFINE s == rec.s  e == rec.e
  <2>1. s \in START .. END /\ e \in START .. END /\ rec.lastSync \in Nat /\ rec.lastWrite \in Nat /\ rec.wrapped \in BOOLEAN
    BY Zenon, <1>1 DEF Recs
  <2>2. s < e
    BY Zenon, <1>3
  <2>3. s \in START .. END - 1
    <3> HIDE DEF s, e
    <3> QED BY <2>1, <2>2, Sizes
  <2>4. QED BY Zenon, <2>1, <2>3 DEF ScanArgs
<1>5. PICK w \in BOOLEAN, G \in START .. END, F \in START .. END :
        Lost(durable, disk, reach, w, G, F) /\ Scanning(durable.header, disk, rec, w, G, F)
  BY Zenon, <1>2, <1>3 DEF LostInv
<1>6. w => F > START
  BY Zenon, <1>5 DEF Lost
<1>7. (Actives(header, w, F) /\ Scans(header, disk, rec, w, G, F)) \/ Idles(header, w, F)
  <2>1. CASE w \/ (F > header.write_pos /\ header.cycle > 0)
    BY Zenon, <2>1, <1>2, <1>5, <1>6 DEF Scanning, Actives, Active, Scans
  <2>2. CASE ~(w \/ (F > header.write_pos /\ header.cycle > 0))
    BY Zenon, <2>2 DEF Idles, Idle
  <2>3. QED BY Zenon, <2>1, <2>2
<1>8. QED BY Zenon, <1>1, <1>2, <1>3, <1>4, <1>5, <1>7 DEF Stands

EndOfLog(h, d, r, pos) == EndAt(d, h.sync_serial, r.s, r.lastSync, r.lastWrite, r.wrapped, pos)

\* What is left of the durable directory when the log ends at pos.
LEMMA LdoneLeaves ==
  ASSUME NEW c \in Copies, NEW d \in Disks, NEW r, NEW far, NEW w, NEW G, NEW F, Lost(c, d, far, w, G, F),
         Stands(c.header, r), (Actives(c.header, w, F) /\ Scans(c.header, d, r, w, G, F)) \/ Idles(c.header, w, F),
         NEW pos \in START .. END, EndOfLog(c.header, d, r, pos)
  PROVE  /\ Harmless(Left(c.dir, c.header.write_pos, pos + EVACUATION_SIZE), c.header.write_pos, c.header.phase, w, G, F)
         /\ pos = c.header.write_pos /\ r.wrapped =>
              Idles(c.header, w, F) /\ Harmless(c.dir, c.header.write_pos, c.header.phase, w, G, F)
<1> DEFINE W == c.header.write_pos  L == c.header.last_write_pos  S == c.header.sync_serial  C == c.header.write_serial
           full == c.header.cycle > 0  ph == c.header.phase  first == c.header.cycle = 0  es == c.dir  y == c.header.cycle
           m == pos + EVACUATION_SIZE  s == r.s  ls == r.lastSync  lw == r.lastWrite  rw == r.wrapped
<1>1. /\ Log(W, L, S, C, full, d, w, G, F, S + 1) /\ Placed(W, 0, ph, first, es)
  BY Zenon DEF Lost, Copied, LogSince
<1>2. es \in SUBSET Entry /\ y \in Nat /\ ScanArgs(s, ls, lw, rw) /\ EndAt(d, S, s, ls, lw, rw, pos)
  BY Zenon, CopyFields, Heads DEF Stands, EndOfLog
<1>3. W \in START .. END /\ F \in START .. END /\ full \in BOOLEAN
  <2> HIDE DEF W, L, S, C, full
  <2>1. Log(W, L, S, C, full, d, w, G, F, S + 1)
    BY Zenon, <1>1
  <2>2. QED BY Zenon, <2>1 DEF Log, LogArgs
<1>4. m \in Int
  BY Sizes
<1>5. CASE Actives(c.header, w, F) /\ Scans(c.header, d, r, w, G, F)
  <2>1. Active(W, full, w, F) /\ Scan(W, S, C, d, w, G, F, s, ls, lw, rw)
    BY Zenon, <1>5 DEF Actives, Scans
  <2>2. ~(pos = W /\ rw) /\ AllClear(W, Clip(m), w, G, F)
    <3> HIDE DEF W, L, S, C, full, s, ls, lw, rw
    <3> QED BY Zenon, <1>1, <1>2, <2>1, EndFound DEF m
  <2>3. Harmless(Left(es, W, m), W, ph, w, G, F)
    <3> HIDE DEF W, ph, first, es, m
    <3> QED BY Zenon, <1>1, <1>2, <1>3, <1>4, <2>2, LeftHarmless
  <2>4. QED BY Zenon, <2>2, <2>3
<1>6. CASE Idles(c.header, w, F)
  <2>1. Idle(W, full, w, F)
    BY Zenon, <1>6 DEF Idles
  <2>2. ~full => first
    <3>1. ~(y > 0) => y = 0
      BY Zenon, <1>2, NoneIsZero
    <3>2. QED BY Zenon, <3>1
  <2>3. Harmless(es, W, ph, w, G, F)
    <3> HIDE DEF W, ph, first, es, full
    <3> QED BY Zenon, <1>1, <1>3, <2>1, <2>2, IdleHarmless
  <2>4. Left(es, W, m) \subseteq es
    <3> HIDE DEF W, es, m
    <3> QED BY Zenon, <1>2, <1>3, <1>4, LeftSpared
  <2>5. Harmless(Left(es, W, m), W, ph, w, G, F)
    BY Zenon, <2>3, <2>4 DEF Harmless
  <2>6. QED BY Zenon, <2>3, <2>5, <1>6
<1>7. QED BY Zenon, <1>5, <1>6

\* The scan has found the end of the log.
LEMMA LdoneStep ==
  ASSUME Types, LostInv, mode = "scan", NEW pos \in START .. END, NEW ms \in Nat, ms >= header.sync_serial,
         EndOfLog(header, disk, rec, pos), Ldone(pos, ms)
  PROVE  IInv'
<1>1. /\ header \in Headers /\ dir \in SUBSET Entry /\ disk \in Disks /\ durable \in Copies /\ reach \in Nat /\ rec \in Recs
      /\ \A e \in dir \cup durable.dir : e.off + e.len <= END
  BY Zenon DEF Types
<1>2. header = durable.header /\ dir = durable.dir /\ Stands(header, rec)
  BY Zenon, ScanState
<1>3. PICK w \in BOOLEAN, G \in START .. END, F \in START .. END :
              /\ Lost(durable, disk, reach, w, G, F)
              /\ (Actives(header, w, F) /\ Scans(header, disk, rec, w, G, F)) \/ Idles(header, w, F)
  BY Zenon, ScanState
<1> DEFINE fs == Left(dir, header.write_pos, pos + EVACUATION_SIZE)
<1>4. /\ Harmless(fs, header.write_pos, header.phase, w, G, F)
      /\ pos = header.write_pos /\ rec.wrapped =>
           Idles(header, w, F) /\ Harmless(dir, header.write_pos, header.phase, w, G, F)
  BY Zenon, <1>1, <1>2, <1>3, LdoneLeaves
<1>5. flight = <<>> /\ copying = NoCopy /\ header.sync_serial > 0
  <2>1. mode # "writedir"
    OBVIOUS
  <2>2. QED BY Zenon, <2>1, <1>2 DEF LostInv, Stands
<1>6. CASE Lclear
  BY Zenon, <1>6, LclearStep
<1>7. CASE pos = header.write_pos /\ rec.wrapped /\ AsItWas
  <2>1. /\ mode' = "run" /\ rec' = NoRec /\ header' = header /\ dir' = dir /\ disk' = disk /\ flight' = flight
        /\ copying' = copying /\ durable' = durable /\ reach' = reach
    BY Zenon, <1>7 DEF AsItWas
  <2>2. Types'
    BY Zenon, <2>1, <1>1, NoRecIsRec DEF Types
  <2>3. Copied(durable, disk, FALSE, START, header.write_pos, header.sync_serial)
    BY Zenon, <1>1, <1>2, <1>3, <1>4, <1>7, IdleCopied DEF Idles
  <2>4. /\ RunHead(header.write_pos, header.last_write_pos, header.agg_pos, header.dirty, 0)
        /\ RunDir(header.write_pos, header.phase, header.cycle = 0, dir, disk, <<>>)
        /\ RunDisk(header.write_pos, header.last_write_pos, header.sync_serial, header.write_serial, header.cycle > 0, disk)
        /\ Since(durable, header, 0, disk) /\ LogPosition(header) + 0 - LogPosition(header) = 0
    <3>1. START \in START .. END
      BY Sizes
    <3>2. QED BY Zenon, <3>1, <2>3, <1>1, <1>2, <1>5, InService
  <2>5. Syncing'
    BY Zenon, <2>1, <1>2, <1>5 DEF Syncing
  <2>6. Flying(flight', header'.write_serial, header'.sync_serial)
    BY Zenon, <2>1, <1>5 DEF Flying
  <2>7. Len(flight) = 0 /\ reach >= 0
    BY <1>1, <1>5
  <2>8. RunInv'
    BY Zenon, <2>1, <2>4, <2>5, <2>6, <2>7, <1>2, <1>5 DEF RunInv
  <2>9. QED BY Zenon, <2>1, <2>2, <2>8 DEF IInv
<1>8. CASE \E next \in {ms + 1, ms + 2} : Leaves(pos, next)
  <2>1. PICK next \in {ms + 1, ms + 2} : Leaves(pos, next)
    BY Zenon, <1>8
  <2>2. /\ dir' = cleanup(header, 0, fs)
        /\ header' = [header EXCEPT !.sync_serial = next, !.dirty = @ \/ dir' # dir]
        /\ copying' = [header |-> header', dir |-> dir']
        /\ mode' = "writedir" /\ rec' = NoRec
        /\ disk' = disk /\ flight' = flight /\ durable' = durable /\ reach' = reach
    BY Zenon, <2>1 DEF Leaves
  <2>3. next \in Nat /\ next > header.sync_serial
    <3> DEFINE S == header.sync_serial
    <3>1. S \in Nat /\ ms >= S
      BY Zenon, <1>1, Heads
    <3> HIDE DEF S
    <3>2. next \in Nat /\ next > S
      BY <3>1
    <3>3. QED BY Zenon, <3>2 DEF S
  <2>4. header' \in Headers /\ RecoveredTo(header, header', next)
    <3>1. (header.dirty \/ dir' # dir) \in BOOLEAN
      BY Zenon
    <3>2. header' = [header EXCEPT !.sync_serial = next, !.dirty = (header.dirty \/ dir' # dir)]
      BY Zenon, <2>2
    <3>3. QED BY Zenon, <3>1, <3>2, <2>3, <1>1, HeadRecovered
  <2>5. fs \subseteq dir
    <3>1. pos + EVACUATION_SIZE \in Int
      BY Sizes
    <3>2. header.write_pos \in START .. END
      BY Zenon, <1>1, LogRange
    <3>3. QED BY Zenon, <3>1, <3>2, <1>1, LeftSpared
  <2>6. dir' \subseteq fs
    BY Zenon, <2>2 DEF cleanup
  <2>7. dir' \in SUBSET dir /\ Harmless(dir', header.write_pos, header.phase, w, G, F)
    BY Zenon, <2>5, <2>6, <1>4 DEF Harmless
  <2>8. Copied(copying', disk, FALSE, START, header'.write_pos, header'.sync_serial)
    BY Zenon, <2>2, <2>3, <2>4, <2>7, <1>1, <1>2, <1>3, LeftCopied
  <2>9. Types'
    BY Zenon, <2>2, <2>4, <2>7, <1>1, NoRecIsRec DEF Types
  <2>10. OnDurable'
    BY Zenon, <2>2, DurableStays
  <2>11. mode' # "run" /\ mode' # "check" /\ mode' # "scan"
    BY <2>2
  <2>12. ~(header'.sync_serial = 0)
    <3> DEFINE S == header.sync_serial
    <3>1. S \in Nat /\ next \in Nat /\ next > S /\ header'.sync_serial = next
      BY Zenon, <2>3, <2>4, <1>1, Heads DEF RecoveredTo
    <3> HIDE DEF S
    <3>2. ~(next = 0)
      BY <3>1
    <3>3. QED BY Zenon, <3>1, <3>2
  <2>13. LostInv'
    BY Zenon, <2>2, <2>8, <2>10, <2>11, <2>12, <1>5 DEF LostInv, OnDurable, SomeLost
  <2>14. QED BY Zenon, <2>9, <2>11, <2>13 DEF IInv
<1>9. QED BY Zenon, <1>6, <1>7, <1>8, LdoneCases

----------------------------------------------------------------------------
(* The steps of the scan *)

Rooms(h, d, far) == Room(h.write_pos, h.last_write_pos, d, far)
StaysAt(h, d, r, far) ==
  Stays(h.write_pos, h.last_write_pos, d, far, r.s, r.e, r.prev, r.lastSync, r.wrapped)
\* Only the recovery's own variables change.
Undisturbed ==
  /\ header' = header /\ dir' = dir /\ disk' = disk /\ flight' = flight /\ copying' = copying /\ durable' = durable
  /\ reach' = reach
\* The scan of the durable copy's log, for some end of that log.
ScansOn(c, d, r, far) ==
  \E w \in BOOLEAN, G \in START .. END, F \in START .. END :
    /\ Lost(c, d, far, w, G, F)
    /\ (Actives(c.header, w, F) /\ Scans(c.header, d, r, w, G, F)) \/ Idles(c.header, w, F)
GoodScan(h, d, r, far) ==
  /\ r \in Recs /\ r.maxSync >= h.sync_serial /\ r.s < r.e
  /\ Rooms(h, d, far) => StaysAt(h, d, r, far)

\* A step that leaves the scan in a good state keeps the invariant.
LEMMA ScanOn ==
  ASSUME Types, LostInv, mode \in {"check", "scan"}, mode' = "scan", Undisturbed,
         ScansOn(durable, disk, rec', reach), GoodScan(header, disk, rec', reach)
  PROVE  IInv'
<1>1. /\ header \in Headers /\ dir \in SUBSET Entry /\ disk \in Disks /\ durable \in Copies /\ reach \in Nat /\ rec \in Recs
      /\ \A e \in dir \cup durable.dir : e.off + e.len <= END
  BY Zenon DEF Types
<1>2. /\ header' = header /\ dir' = dir /\ disk' = disk /\ flight' = flight /\ copying' = copying /\ durable' = durable
      /\ reach' = reach
  BY Zenon DEF Undisturbed
<1>3. Types'
  BY Zenon, <1>1, <1>2 DEF Types, GoodScan
<1>4. header = durable.header /\ dir = durable.dir /\ header.sync_serial > 0 /\ flight = <<>> /\ copying = NoCopy
      /\ (durable.header.sync_serial = 0 => Cleared(durable))
  <2>1. mode # "writedir"
    OBVIOUS
  <2>2. QED BY Zenon, <2>1 DEF LostInv, Reading
<1>5. mode' # "run" /\ mode' # "check" /\ mode' # "writedir"
  OBVIOUS
<1>6. PICK w \in BOOLEAN, G \in START .. END, F \in START .. END :
         /\ Lost(durable, disk, reach, w, G, F)
         /\ (Actives(durable.header, w, F) /\ Scans(durable.header, disk, rec', w, G, F)) \/ Idles(durable.header, w, F)
  BY Zenon DEF ScansOn
<1>7. Scanning(durable.header, disk, rec', w, G, F)
  BY Zenon, <1>6 DEF Scanning, Scans, Idles, Idle
<1>8. \E v \in BOOLEAN, H \in START .. END, E \in START .. END :
        Lost(durable, disk, reach, v, H, E) /\ Scanning(durable.header, disk, rec', v, H, E)
  BY Zenon, <1>6, <1>7
<1>9. Reading(header, disk, rec, reach)'
  BY Zenon, <1>2, <1>4, <1>5 DEF Reading, GoodScan, Rooms, StaysAt
<1>10. LostInv'
  BY Zenon, <1>2, <1>4, <1>5, <1>8, <1>9 DEF LostInv
<1>11. QED BY Zenon, <1>3, <1>5, <1>10 DEF IInv

\* The scan takes the document at s.
Takes(d, s, S, ls, lw, nl, nw) ==
  /\ IsDoc(d, s) /\ nl = SyncOf(d, s)
  /\ (nl = ls /\ nw = WriteOf(d, s)) \/ (nl > ls /\ nl <= S + 1 /\ nw = lw)

\* A document taken where there is room leaves the scan where there is room, and makes progress.
Progress(W, L, d, far, s, e, prev, nl, t) ==
  /\ t < END
  /\ t < e => Stays(W, L, d, far, t, e, prev, nl, FALSE)
  /\ t = e => e # prev /\ Stays(W, L, d, far, e, Min2(e + RECOVERY_SIZE, END), e, nl, FALSE)
  /\ t > e => s # prev /\ Stays(W, L, d, far, s, Min2(s + RECOVERY_SIZE, END), s, nl, FALSE)

\* Where there is room the scan stays in front of the end of the stripe.
LEMMA RoomMoves ==
  ASSUME NEW d, NEW W, NEW L, NEW S, NEW C, NEW full, NEW w, NEW G, NEW F, NEW top, Log(W, L, S, C, full, d, w, G, F, top), NEW far \in Nat,
         NEW s, NEW ls, NEW lw, NEW rw, ScanArgs(s, ls, lw, rw), NEW e \in Int, NEW prev \in Int, Room(W, L, d, far),
         Stays(W, L, d, far, s, e, prev, ls, rw), NEW nl, NEW nw, Takes(d, s, S, ls, lw, nl, nw)
  PROVE  ~rw /\ Progress(W, L, d, far, s, e, prev, nl, EndOf(d, s))
<1> DEFINE t == EndOf(d, s)  y == SyncOf(d, L)
<1>1. W \in START .. END /\ L \in START .. END /\ d \in Disks /\ L < W /\ LastWrite(W, L, C, d)
  BY Zenon DEF Log, LogArgs
<1>2. s \in START .. END - 1 /\ ls \in Nat
  BY Zenon DEF ScanArgs
<1>3. IsDoc(d, s) /\ nl = SyncOf(d, s) /\ (nl = ls \/ nl > ls)
  BY Zenon DEF Takes
<1>4. nl \in Nat /\ t \in Int /\ t > s /\ t <= s + AGG_SIZE
  BY Zenon, <1>1, <1>2, <1>3, Cells
<1>5. y \in Nat
  <2>1. L \in START .. END - 1
    BY <1>1, Sizes
  <2>2. IsDoc(d, L)
    BY Zenon, <1>1 DEF LastWrite
  <2>3. QED BY Zenon, <2>1, <2>2, <1>1, Cells
<1>6. /\ W + far + AGG_SIZE + EVACUATION_SIZE <= END
      /\ \A p \in W + far .. END - 1 : IsDoc(d, p) => SyncOf(d, p) < y
  BY Zenon DEF Room
<1>7. /\ ~rw /\ W <= s /\ s < W + far + AGG_SIZE /\ ls >= y
      /\ prev <= s /\ s < e /\ e = Min2(prev + RECOVERY_SIZE, END)
  BY Zenon DEF Stays
<1> HIDE DEF t, y
<1>8. s < W + far
  <2>1. ~(s \in W + far .. END - 1)
    <3>1. s \in W + far .. END - 1 => nl < y
      BY Zenon, <1>3, <1>6
    <3>2. QED BY <3>1, <1>2, <1>3, <1>4, <1>5, <1>7
  <2>2. QED BY <2>1, <1>1, <1>2, Sizes
<1>9. e = IF prev + EVACUATION_SIZE < END THEN prev + EVACUATION_SIZE ELSE END
  BY Zenon, <1>7, Sizes DEF Min2
<1>10. nl >= y /\ t < W + far + AGG_SIZE /\ t < END /\ W <= t /\ prev <= t
  BY <1>1, <1>2, <1>3, <1>4, <1>5, <1>6, <1>7, <1>8, Sizes
<1>11. t < e => Stays(W, L, d, far, t, e, prev, nl, FALSE)
  BY Zenon, <1>7, <1>10 DEF Stays, y
<1>12. ASSUME t = e
       PROVE  e # prev /\ Stays(W, L, d, far, e, Min2(e + RECOVERY_SIZE, END), e, nl, FALSE)
  <2>1. e # prev /\ e <= e /\ e < Min2(e + RECOVERY_SIZE, END)
    BY <1>4, <1>7, <1>9, <1>10, <1>12, <1>2, Sizes DEF Min2
  <2>2. QED BY Zenon, <2>1, <1>10, <1>12 DEF Stays, y
<1>13. ASSUME t > e
       PROVE  s # prev /\ Stays(W, L, d, far, s, Min2(s + RECOVERY_SIZE, END), s, nl, FALSE)
  <2>1. s # prev /\ s <= s /\ s < Min2(s + RECOVERY_SIZE, END)
    BY <1>4, <1>7, <1>9, <1>10, <1>13, <1>2, Sizes DEF Min2
  <2>2. QED BY Zenon, <2>1, <1>7, <1>10 DEF Stays, y
<1>14. QED BY Zenon, <1>7, <1>10, <1>11, <1>12, <1>13 DEF Progress, t

\* The scan of the durable copy's log may go on at s.
ScansFrom(c, d, far, s, ls, lw, rw) ==
  \E w \in BOOLEAN, G \in START .. END, F \in START .. END :
    /\ Lost(c, d, far, w, G, F)
    /\ \/ /\ Actives(c.header, w, F)
          /\ Scan(c.header.write_pos, c.header.sync_serial, c.header.write_serial, d, w, G, F, s, ls, lw, rw)
       \/ Idles(c.header, w, F)
StaysFrom(h, d, far, p, ls, rw) ==
  Rooms(h, d, far) =>
    Stays(h.write_pos, h.last_write_pos, d, far, p, Min2(p + RECOVERY_SIZE, END), p, ls, rw)
Took(h, d, r, nl, nw) ==
  /\ Takes(d, r.s, h.sync_serial, r.lastSync, r.lastWrite, nl, nw)
  /\ Fresh(d, r.s, r.lastWrite, r.wrapped)

\* From a document that the scan takes it may go on at its end, at its start or at the front.
LEMMA MovesOn ==
  ASSUME NEW c \in Copies, NEW d, NEW far, NEW r, Stands(c.header, r), ScansOn(c, d, r, far), NEW nl, NEW nw, Took(c.header, d, r, nl, nw)
  PROVE  /\ ScansFrom(c, d, far, EndOf(d, r.s), nl, nw, r.wrapped) /\ ScansFrom(c, d, far, r.s, nl, nw, r.wrapped)
         /\ EndOf(d, r.s) = END => ScansFrom(c, d, far, START, nl, nw, TRUE)
<1> DEFINE W == c.header.write_pos  L == c.header.last_write_pos  S == c.header.sync_serial  C == c.header.write_serial
           full == c.header.cycle > 0  s == r.s  ls == r.lastSync  lw == r.lastWrite  rw == r.wrapped  t == EndOf(d, s)
<1>1. PICK w \in BOOLEAN, G \in START .. END, F \in START .. END :
         /\ Lost(c, d, far, w, G, F)
         /\ (Actives(c.header, w, F) /\ Scans(c.header, d, r, w, G, F)) \/ Idles(c.header, w, F)
  BY Zenon DEF ScansOn
<1>2. CASE Idles(c.header, w, F)
  BY Zenon, <1>1, <1>2 DEF ScansFrom
<1>3. CASE Actives(c.header, w, F) /\ Scans(c.header, d, r, w, G, F)
  <2>1. Active(W, full, w, F) /\ Scan(W, S, C, d, w, G, F, s, ls, lw, rw) /\ ScanArgs(s, ls, lw, rw)
    BY Zenon, <1>3 DEF Actives, Scans, Stands
  <2>2. Log(W, L, S, C, full, d, w, G, F, S + 1)
    BY Zenon, <1>1 DEF Lost, Copied, LogSince
  <2>3. Accepts(d, s, S, ls, lw, nl, nw) /\ Fresh(d, s, lw, rw)
    <3>1. ls <= S + 1
      BY Zenon, <2>1 DEF Scan
    <3>2. QED BY Zenon, <3>1 DEF Took, Takes, Accepts
  <2> HIDE DEF W, L, S, C, full, s, ls, lw, rw
  <2>4. Scan(W, S, C, d, w, G, F, t, nl, nw, rw)
    BY Zenon, <2>1, <2>2, <2>3, ScanNext
  <2>5. Scan(W, S, C, d, w, G, F, s, nl, nw, rw)
    BY Zenon, <2>1, <2>2, <2>3, ScanSame
  <2>6. ASSUME t = END
        PROVE  Scan(W, S, C, d, w, G, F, START, nl, nw, TRUE)
    <3>1. W \in START .. END /\ d \in Disks /\ rw \in BOOLEAN /\ s \in START .. END - 1 /\ ls \in Nat /\ lw \in Nat
      BY Zenon, <2>1, <2>2 DEF Log, LogArgs, ScanArgs
    <3>2. IsDoc(d, s) /\ nl = SyncOf(d, s) /\ (nw = WriteOf(d, s) \/ nw = lw)
      BY Zenon, <2>3 DEF Accepts
    <3>3. nl \in Nat /\ nw \in Nat
      BY Zenon, <3>1, <3>2, Cells
    <3>4. ~rw
      <4>1. rw /\ t > START => t < W - EVACUATION_SIZE
        BY Zenon, <2>4 DEF Scan
      <4> HIDE DEF t
      <4>2. QED BY <4>1, <3>1, <2>6, Sizes
    <3>5. rw = FALSE
      BY Zenon, <3>1, <3>4
    <3>6. END \in START .. END /\ END > END - AGG_SIZE /\ END >= F
      BY <1>1, Sizes
    <3>7. Scan(W, S, C, d, w, G, F, END, nl, nw, FALSE)
      BY Zenon, <2>4, <2>6, <3>5
    <3>8. QED BY Zenon, <2>1, <2>2, <3>3, <3>6, <3>7, ScanTurn
  <2>7. QED BY Zenon, <1>1, <1>3, <2>4, <2>5, <2>6 DEF ScansFrom, W, S, C, s, rw, t
<1>4. QED BY Zenon, <1>1, <1>2, <1>3

\* A block read by recovery ends behind its start and within the stripe.
LEMMA Min2Range ==
  ASSUME NEW p \in START .. END - 1
  PROVE  Min2(p + RECOVERY_SIZE, END) \in START .. END /\ p < Min2(p + RECOVERY_SIZE, END) /\ p \in Nat /\ p \in START .. END
BY Sizes DEF Min2

\* Reading on from p.
LEMMA ReadFromStep ==
  ASSUME Types, LostInv, mode \in {"check", "scan"}, NEW r \in Recs, NEW p \in START .. END - 1, NEW v \in BOOLEAN, ReadFrom(r, p, v),
         ScansFrom(durable, disk, reach, p, r.lastSync, r.lastWrite, v), StaysFrom(header, disk, reach, p, r.lastSync, v)
  PROVE  IInv'
<1>1. CASE p = r.prev
  BY Zenon, <1>1, LclearStep DEF ReadFrom
<1>2. CASE p # r.prev
  <2>1. /\ rec' = [r EXCEPT !.s = p, !.e = Min2(p + RECOVERY_SIZE, END), !.wrapped = v, !.maxSync = header.sync_serial, !.prev = p]
        /\ mode' = "scan" /\ Undisturbed
    BY Zenon, <1>2 DEF ReadFrom, Undisturbed
  <2>2. header.sync_serial \in Nat
    BY Zenon, Heads DEF Types
  <2>3. header.sync_serial >= header.sync_serial
    <3> DEFINE S == header.sync_serial
    <3>1. S \in Nat
      BY Zenon, <2>2
    <3> HIDE DEF S
    <3>2. S >= S
      BY <3>1
    <3>3. QED BY Zenon, <3>2 DEF S
  <2>4. /\ rec' \in Recs /\ rec'.s = p /\ rec'.e = Min2(p + RECOVERY_SIZE, END) /\ rec'.wrapped = v /\ rec'.prev = p
        /\ rec'.maxSync = header.sync_serial /\ rec'.lastSync = r.lastSync /\ rec'.lastWrite = r.lastWrite
    BY Zenon, <2>1, <2>2, Min2Range DEF Recs
  <2>5. ScansOn(durable, disk, rec', reach)
    BY Zenon, <2>4 DEF ScansOn, ScansFrom, Scans
  <2>6. GoodScan(header, disk, rec', reach)
    BY Zenon, <2>3, <2>4, Min2Range DEF GoodScan, StaysFrom, StaysAt
  <2>7. QED BY Zenon, <2>1, <2>5, <2>6, ScanOn
<1>3. QED BY Zenon, <1>1, <1>2

Likewise(q, r) == r.s = q.s /\ r.e = q.e /\ r.wrapped = q.wrapped /\ r.prev = q.prev

\* Where the scan goes on after a document that ends at t.
LEMMA AdvanceCases ==
  ASSUME NEW r \in Recs, r.s < END, NEW doc, NEW t \in Int, t = r.s + doc.len, Advance(r, doc)
  PROVE  \/ t < r.e /\ rec' = [r EXCEPT !.s = t] /\ mode' = mode /\ Undisturbed
         \/ t > r.e /\ ReadFrom(r, r.s, r.wrapped)
         \/ t = r.e /\ r.e < END /\ ReadFrom(r, r.e, r.wrapped)
         \/ t = r.e /\ r.e = END /\ ReadFrom(r, START, TRUE)
<1> DEFINE s == r.s  e == r.e  v == r.wrapped
<1>1. s \in START .. END /\ e \in START .. END /\ v \in BOOLEAN /\ s < END
  BY Zenon DEF Recs
<1>2. CASE t < e
  BY Zenon, <1>2 DEF Advance, Undisturbed
<1>3. CASE t > e
  <2>1. ~(t < e) /\ ~(s >= END)
    <3> HIDE DEF s, e
    <3> QED BY <1>1, <1>3, Sizes
  <2>2. (v \/ s >= END) = v
    <3> HIDE DEF s, v
    <3> QED BY <2>1, <1>1, Sizes
  <2>3. ReadFrom(r, IF s >= END THEN START ELSE s, v \/ s >= END)
    BY Zenon, <1>3, <2>1 DEF Advance
  <2>4. (IF s >= END THEN START ELSE s) = s
    BY Zenon, <2>1
  <2>5. QED BY Zenon, <1>3, <2>2, <2>3, <2>4
<1>4. CASE t = e
  <2>1. ~(t < e) /\ ~(t > e)
    <3> HIDE DEF e
    <3> QED BY <1>1, <1>4, Sizes
  <2>2. ReadFrom(r, IF e >= END THEN START ELSE e, v \/ e >= END)
    BY Zenon, <2>1 DEF Advance
  <2>3. CASE e < END
    <3>1. ~(e >= END)
      <4> HIDE DEF e
      <4> QED BY <1>1, <2>3, Sizes
    <3>2. (v \/ e >= END) = v
      <4> HIDE DEF e, v
      <4> QED BY <3>1, <1>1, Sizes
    <3>3. (IF e >= END THEN START ELSE e) = e
      BY Zenon, <3>1
    <3>4. QED BY Zenon, <1>4, <2>2, <2>3, <3>2, <3>3
  <2>4. CASE e = END
    <3>1. e >= END
      <4> HIDE DEF e
      <4> QED BY <1>1, <2>4, Sizes
    <3>2. (v \/ e >= END) = TRUE
      <4>1. v \/ e >= END
        BY Zenon, <3>1
      <4> DEFINE u == v \/ e >= END
      <4>2. u /\ u \in BOOLEAN
        BY Zenon, <4>1
      <4> HIDE DEF u
      <4>3. u = TRUE
        BY <4>2
      <4>4. QED BY Zenon, <4>3 DEF u
    <3>3. (IF e >= END THEN START ELSE e) = START
      BY Zenon, <3>1
    <3>4. QED BY Zenon, <1>4, <2>2, <2>4, <3>2, <3>3
  <2>5. e < END \/ e = END
    <3> HIDE DEF e
    <3> QED BY <1>1, Sizes
  <2>6. QED BY Zenon, <2>3, <2>4, <2>5
<1>5. t < e \/ t > e \/ t = e
  <2> HIDE DEF e
  <2> QED BY <1>1
<1>6. QED BY Zenon, <1>2, <1>3, <1>4, <1>5

\* The scan takes a document.
LEMMA AdvanceStep ==
  ASSUME Types, LostInv, mode = "scan", NEW r \in Recs, Likewise(rec, r), r.maxSync >= header.sync_serial,
         Took(header, disk, rec, r.lastSync, r.lastWrite), Advance(r, disk[rec.s])
  PROVE  IInv' /\ (Rooms(header, disk, reach) => mode' = "scan")
<1> DEFINE s == rec.s  t == EndOf(disk, s)  nl == r.lastSync  nw == r.lastWrite  e == rec.e  prev == rec.prev
           W == header.write_pos  L == header.last_write_pos  S == header.sync_serial  C == header.write_serial  full == header.cycle > 0
           lw == rec.lastWrite  ls == rec.lastSync  rw == rec.wrapped
<1>1. header \in Headers /\ disk \in Disks /\ durable \in Copies /\ rec \in Recs /\ reach \in Nat
  BY Zenon DEF Types
<1>2. header = durable.header /\ Stands(header, rec) /\ ScansOn(durable, disk, rec, reach)
  BY Zenon, ScanState DEF ScansOn
<1>3. /\ s \in START .. END - 1 /\ Takes(disk, s, S, ls, lw, nl, nw) /\ Fresh(disk, s, lw, rw) /\ ScanArgs(s, ls, lw, rw)
      /\ e \in START .. END /\ prev \in Nat /\ rw \in BOOLEAN
  BY Zenon, <1>1, <1>2 DEF Took, Stands, ScanArgs, Recs
<1>4. IsDoc(disk, s)
  BY Zenon, <1>3 DEF Takes
<1>5. t \in Int /\ t > s
  BY Zenon, <1>1, <1>3, <1>4, Cells
<1>6. r.s = s /\ r.e = e /\ r.wrapped = rw /\ r.prev = prev
  BY Zenon DEF Likewise
<1>7. r.s < END
  <2>1. s < END
    BY Zenon, <1>3, Within
  <2>2. QED BY Zenon, <2>1, <1>6
<1>8. /\ ScansFrom(durable, disk, reach, t, nl, nw, rw) /\ ScansFrom(durable, disk, reach, s, nl, nw, rw)
      /\ t = END => ScansFrom(durable, disk, reach, START, nl, nw, TRUE)
  BY Zenon, <1>1, <1>2, MovesOn
<1>9. ASSUME Rooms(header, disk, reach)
      PROVE  ~rw /\ Progress(W, L, disk, reach, s, e, prev, nl, t)
  <2>1. Room(W, L, disk, reach) /\ Stays(W, L, disk, reach, s, e, prev, ls, rw)
    <3>1. mode \in {"check", "scan"}
      BY Zenon
    <3>2. QED BY Zenon, <3>1, <1>9 DEF LostInv, Reading, Rooms
  <2>2. PICK w \in BOOLEAN, G \in START .. END, F \in START .. END : Log(W, L, S, C, full, disk, w, G, F, S + 1)
    BY Zenon, <1>2 DEF ScansOn, Lost, Copied, LogSince
  <2>3. e \in Int /\ prev \in Int
    <3> HIDE DEF e, prev
    <3> QED BY <1>3, Sizes
  <2> HIDE DEF W, L, S, C, full, s, ls, lw, rw, nl, nw, e, prev
  <2> DEFINE top == S + 1
  <2>4. Log(W, L, S, C, full, disk, w, G, F, top)
    BY Zenon, <2>2
  <2> HIDE DEF top
  <2>5. QED BY Zenon, <2>1, <2>3, <2>4, <1>1, <1>3, RoomMoves
<1>10. t = r.s + disk[rec.s].len
  BY Zenon, <1>6 DEF EndOf
<1>11. CASE t < r.e /\ rec' = [r EXCEPT !.s = t] /\ mode' = mode /\ Undisturbed
  <2>1. t \in START .. END /\ t < e
    <3>1. t < e
      BY Zenon, <1>6, <1>11
    <3> HIDE DEF t, e, s
    <3>2. QED BY <3>1, <1>3, <1>5, Sizes
  <2>2. /\ rec' \in Recs /\ rec'.s = t /\ rec'.e = e /\ rec'.wrapped = rw /\ rec'.prev = prev
        /\ rec'.maxSync = r.maxSync /\ rec'.lastSync = nl /\ rec'.lastWrite = nw
    <3> HIDE DEF t
    <3> QED BY Zenon, <1>6, <1>11, <2>1 DEF Recs
  <2>3. ScansOn(durable, disk, rec', reach)
    BY Zenon, <2>2, <1>8 DEF ScansOn, ScansFrom, Scans
  <2>4. Rooms(header, disk, reach) => StaysAt(header, disk, rec', reach)
    <3>1. ASSUME Rooms(header, disk, reach)
          PROVE  StaysAt(header, disk, rec', reach)
      <4>1. rw = FALSE
        BY Zenon, <3>1, <1>3, <1>9
      <4>2. Stays(W, L, disk, reach, t, e, prev, nl, FALSE)
        BY Zenon, <3>1, <1>9, <2>1 DEF Progress
      <4>3. QED BY Zenon, <4>1, <4>2, <2>2 DEF StaysAt
    <3>2. QED BY Zenon, <3>1
  <2>5. GoodScan(header, disk, rec', reach)
    BY Zenon, <2>1, <2>2, <2>4 DEF GoodScan
  <2>6. mode' = "scan" /\ mode \in {"check", "scan"}
    BY Zenon, <1>11
  <2>7. IInv'
    BY Zenon, <2>3, <2>5, <2>6, <1>11, ScanOn
  <2>8. QED BY Zenon, <2>6, <2>7
<1>12. CASE t > r.e /\ ReadFrom(r, r.s, r.wrapped)
  <2>1. t > e /\ ReadFrom(r, s, rw)
    BY Zenon, <1>6, <1>12
  <2>2. StaysFrom(header, disk, reach, s, nl, rw)
    <3>1. ASSUME Rooms(header, disk, reach)
          PROVE  Stays(W, L, disk, reach, s, Min2(s + RECOVERY_SIZE, END), s, nl, rw)
      <4>1. rw = FALSE
        BY Zenon, <3>1, <1>3, <1>9
      <4>2. QED BY Zenon, <4>1, <3>1, <2>1, <1>9 DEF Progress
    <3>2. QED BY Zenon, <3>1 DEF StaysFrom
  <2>3. mode \in {"check", "scan"}
    BY Zenon
  <2>4. IInv'
    BY Zenon, <2>1, <2>2, <2>3, <1>3, <1>8, ReadFromStep
  <2>5. Rooms(header, disk, reach) => s # r.prev
    BY Zenon, <2>1, <1>6, <1>9 DEF Progress
  <2>6. QED BY Zenon, <2>1, <2>4, <2>5 DEF ReadFrom
<1>13. CASE t = r.e /\ r.e < END /\ ReadFrom(r, r.e, r.wrapped)
  <2>1. t = e /\ ReadFrom(r, e, rw) /\ e < END
    BY Zenon, <1>6, <1>13
  <2>2. e \in START .. END - 1
    <3> HIDE DEF e
    <3> QED BY <1>3, <2>1, Sizes
  <2>3. StaysFrom(header, disk, reach, e, nl, rw)
    <3>1. ASSUME Rooms(header, disk, reach)
          PROVE  Stays(W, L, disk, reach, e, Min2(e + RECOVERY_SIZE, END), e, nl, rw)
      <4>1. rw = FALSE
        BY Zenon, <3>1, <1>3, <1>9
      <4>2. QED BY Zenon, <4>1, <3>1, <2>1, <1>9 DEF Progress
    <3>2. QED BY Zenon, <3>1 DEF StaysFrom
  <2>4. mode \in {"check", "scan"} /\ ScansFrom(durable, disk, reach, e, nl, nw, rw)
    BY Zenon, <2>1, <1>8
  <2>5. IInv'
    BY Zenon, <2>1, <2>2, <2>3, <2>4, <1>3, ReadFromStep
  <2>6. Rooms(header, disk, reach) => e # r.prev
    BY Zenon, <2>1, <1>6, <1>9 DEF Progress
  <2>7. QED BY Zenon, <2>1, <2>5, <2>6 DEF ReadFrom
<1>14. CASE t = r.e /\ r.e = END /\ ReadFrom(r, START, TRUE)
  <2>1. t = END /\ ReadFrom(r, START, TRUE)
    BY Zenon, <1>14
  <2>2. START \in START .. END - 1
    BY Sizes
  <2>a. ~Rooms(header, disk, reach)
    <3>1. ASSUME Rooms(header, disk, reach)
          PROVE  FALSE
      <4>1. t < END
        BY Zenon, <3>1, <1>9 DEF Progress
      <4>2. QED
        <5> HIDE DEF t
        <5> QED BY <4>1, <2>1, Sizes
    <3>2. QED BY Zenon, <3>1
  <2>3. StaysFrom(header, disk, reach, START, nl, TRUE)
    BY Zenon, <2>a DEF StaysFrom
  <2>4. mode \in {"check", "scan"} /\ ScansFrom(durable, disk, reach, START, nl, nw, TRUE)
    BY Zenon, <2>1, <1>8
  <2>5. QED BY Zenon, <2>a, <2>1, <2>2, <2>3, <2>4, ReadFromStep
<1>15. QED
  <2> HIDE DEF t
  <2> QED BY Zenon, <1>5, <1>7, <1>10, <1>11, <1>12, <1>13, <1>14, AdvanceCases

\* The front holds no document of this lap of the log exactly when the code finds it stale.
LEMMA StaleIsNotFresh ==
  ASSUME disk \in Disks, rec \in Recs, rec.s \in START .. END - 1
  PROVE  StaleFront <=> ~Fresh(disk, rec.s, rec.lastWrite, rec.wrapped)
<1> DEFINE lw == rec.lastWrite  x == WriteOf(disk, START)
<1>1. START \in START .. END - 1
  BY Sizes
<1>2. IsDoc(disk, START) => x \in Nat
  BY Zenon, <1>1, Cells
<1>3. lw \in Nat
  BY Zenon DEF Recs
<1>4. IsDoc(disk, START) => (x < lw <=> ~(x >= lw))
  <2> HIDE DEF x, lw
  <2> QED BY <1>2, <1>3
<1>5. QED BY Zenon, <1>4 DEF StaleFront, Fresh, IsDoc, WriteOf

\* A document with the expected serial keeps the scan going and the invariant.
LEMMA ScanExpectedStep ==
  ASSUME Types, LostInv, ScanExpected
  PROVE  IInv' /\ (Rooms(header, disk, reach) => mode' = "scan")
<1> DEFINE s == rec.s  r == [rec EXCEPT !.lastWrite = disk[rec.s].ws]
<1>1. mode = "scan" /\ ~StaleFront /\ Expected(disk[s]) /\ Advance(r, disk[s])
  BY Zenon DEF ScanExpected
<1>2. disk \in Disks /\ rec \in Recs
  BY Zenon DEF Types
<1>3. s \in START .. END - 1 /\ rec.maxSync >= header.sync_serial
  BY Zenon, <1>1, ScanState DEF Stands, ScanArgs
<1>4. IsDoc(disk, s) /\ SyncOf(disk, s) = rec.lastSync
  BY Zenon, <1>1 DEF Expected, IsDoc, SyncOf
<1>5. WriteOf(disk, s) \in Nat
  BY Zenon, <1>2, <1>3, <1>4, Cells
<1>6. r \in Recs /\ Likewise(rec, r) /\ r.maxSync = rec.maxSync /\ r.lastSync = rec.lastSync /\ r.lastWrite = WriteOf(disk, s)
  BY Zenon, <1>2, <1>5 DEF Recs, Likewise, WriteOf
<1>7. Fresh(disk, s, rec.lastWrite, rec.wrapped)
  BY Zenon, <1>1, <1>2, <1>3, StaleIsNotFresh
<1>8. Took(header, disk, rec, r.lastSync, r.lastWrite)
  BY Zenon, <1>4, <1>6, <1>7 DEF Took, Takes
<1> HIDE DEF r
<1>9. QED BY Zenon, <1>1, <1>3, <1>6, <1>8, AdvanceStep

\* So does the first document of a newer sync.
LEMMA ScanNewSerialStep ==
  ASSUME Types, LostInv, ScanNewSerial
  PROVE  IInv' /\ (Rooms(header, disk, reach) => mode' = "scan")
<1> DEFINE s == rec.s  S == header.sync_serial
           ms == IF disk[rec.s].ss > header.sync_serial THEN disk[rec.s].ss ELSE rec.maxSync
           r == [rec EXCEPT !.lastSync = disk[rec.s].ss, !.maxSync = ms]
<1>1. mode = "scan" /\ ~StaleFront /\ NewSerial(disk[s]) /\ Advance(r, disk[s])
  BY Zenon DEF ScanNewSerial
<1>2. disk \in Disks /\ rec \in Recs /\ S \in Nat
  BY Zenon, Heads DEF Types
<1>3. s \in START .. END - 1 /\ rec.maxSync >= S /\ rec.maxSync \in Nat
  BY Zenon, <1>1, ScanState DEF Stands, ScanArgs, Recs
<1>4. IsDoc(disk, s) /\ SyncOf(disk, s) > rec.lastSync /\ SyncOf(disk, s) <= S + 1
  BY Zenon, <1>1 DEF NewSerial, IsDoc, SyncOf
<1>5. SyncOf(disk, s) \in Nat
  BY Zenon, <1>2, <1>3, <1>4, Cells
<1>6. ms \in Nat /\ ms >= S
  <2> DEFINE y == SyncOf(disk, s)  z == rec.maxSync
  <2>1. ms = IF y > S THEN y ELSE z
    BY Zenon DEF SyncOf
  <2>2. y \in Nat /\ z \in Nat /\ z >= S
    BY Zenon, <1>3, <1>5
  <2> HIDE DEF y, z, S, ms
  <2>3. QED BY <2>1, <2>2, <1>2
<1>7. r \in Recs /\ Likewise(rec, r) /\ r.maxSync = ms /\ r.lastSync = SyncOf(disk, s) /\ r.lastWrite = rec.lastWrite
  <2> HIDE DEF ms
  <2> QED BY Zenon, <1>2, <1>5, <1>6 DEF Recs, Likewise, SyncOf
<1>8. Fresh(disk, s, rec.lastWrite, rec.wrapped)
  BY Zenon, <1>1, <1>2, <1>3, StaleIsNotFresh
<1> HIDE DEF r, ms
<1>9. Took(header, disk, rec, r.lastSync, r.lastWrite)
  BY Zenon, <1>4, <1>7, <1>8 DEF Took, Takes
<1>10. QED BY Zenon, <1>1, <1>6, <1>7, <1>9, AdvanceStep

\* A stale document at the front ends the log at the end of the stripe.
LEMMA ScanFrontStep ==
  ASSUME Types, LostInv, ScanFront
  PROVE  IInv'
<1>1. mode = "scan" /\ StaleFront /\ Ldone(END - EVACUATION_SIZE, rec.maxSync)
  BY Zenon DEF ScanFront
<1>2. disk \in Disks /\ rec \in Recs
  BY Zenon DEF Types
<1>3. rec.s \in START .. END - 1 /\ rec.maxSync >= header.sync_serial /\ rec.maxSync \in Nat
  BY Zenon, <1>1, ScanState DEF Stands, ScanArgs, Recs
<1>4. ~Fresh(disk, rec.s, rec.lastWrite, rec.wrapped)
  BY Zenon, <1>1, <1>2, <1>3, StaleIsNotFresh
<1> DEFINE pos == END - EVACUATION_SIZE
<1>5. pos \in START .. END
  BY Sizes
<1>6. EndOfLog(header, disk, rec, pos)
  BY Zenon, <1>4 DEF EndOfLog, EndAt
<1>7. Ldone(pos, rec.maxSync)
  BY Zenon, <1>1
<1> HIDE DEF pos
<1>8. QED BY Zenon, <1>1, <1>3, <1>5, <1>6, <1>7, LdoneStep

\* Where the log may have gone on at the front, the scan does too.
LEMMA TurnsOn ==
  ASSUME NEW c \in Copies, NEW d, NEW far, NEW r, Stands(c.header, r), ScansOn(c, d, r, far),
         Stops(d, r.s, c.header.sync_serial, r.lastSync), r.s > END - AGG_SIZE
  PROVE  ScansFrom(c, d, far, START, r.lastSync, r.lastWrite, TRUE)
<1> DEFINE W == c.header.write_pos  L == c.header.last_write_pos  S == c.header.sync_serial  C == c.header.write_serial
           full == c.header.cycle > 0  s == r.s  ls == r.lastSync  lw == r.lastWrite  rw == r.wrapped
<1>1. PICK w \in BOOLEAN, G \in START .. END, F \in START .. END :
         /\ Lost(c, d, far, w, G, F)
         /\ (Actives(c.header, w, F) /\ Scans(c.header, d, r, w, G, F)) \/ Idles(c.header, w, F)
  BY Zenon DEF ScansOn
<1>2. CASE Idles(c.header, w, F)
  BY Zenon, <1>1, <1>2 DEF ScansFrom
<1>3. CASE Actives(c.header, w, F) /\ Scans(c.header, d, r, w, G, F)
  <2>1. /\ Active(W, full, w, F) /\ Scan(W, S, C, d, w, G, F, s, ls, lw, rw) /\ ScanArgs(s, ls, lw, rw) /\ Stops(d, s, S, ls)
        /\ s > END - AGG_SIZE
    BY Zenon, <1>3 DEF Actives, Scans, Stands
  <2>2. Log(W, L, S, C, full, d, w, G, F, S + 1)
    BY Zenon, <1>1 DEF Lost, Copied, LogSince
  <2> HIDE DEF W, L, S, C, full, s, ls, lw, rw
  <2>3. Beyond(s, w, G, F, rw)
    BY Zenon, <2>1, <2>2, ScanEnds
  <2>4. W \in START .. END /\ rw \in BOOLEAN /\ s \in START .. END - 1 /\ ls \in Nat /\ lw \in Nat
    BY Zenon, <2>1, <2>2 DEF Log, LogArgs, ScanArgs
  <2>5. ~rw
    <3>1. rw /\ s > START => s < W - EVACUATION_SIZE
      BY Zenon, <2>1 DEF Scan
    <3>2. QED BY <3>1, <2>1, <2>4, Sizes
  <2>6. Scan(W, S, C, d, w, G, F, s, ls, lw, FALSE)
    <3>1. rw = FALSE
      BY Zenon, <2>4, <2>5
    <3>2. QED BY Zenon, <3>1, <2>1
  <2>7. ~w => s >= F
    <3>1. ~w => ~(s < F)
      BY Zenon, <2>3, <2>5 DEF Beyond
    <3>2. QED BY <3>1, <2>4, <1>1, Sizes
  <2>8. s \in START .. END
    BY <2>4, Sizes
  <2>9. Scan(W, S, C, d, w, G, F, START, ls, lw, TRUE)
    BY Zenon, <2>1, <2>2, <2>4, <2>6, <2>7, <2>8, ScanTurn
  <2>10. QED BY Zenon, <1>1, <1>3, <2>9 DEF ScansFrom, W, S, C, ls, lw
<1>4. QED BY Zenon, <1>1, <1>2, <1>3

\* A document that is no part of the log ends it.
LEMMA ScanStopStep ==
  ASSUME Types, LostInv, ScanStop
  PROVE  IInv'
<1> DEFINE s == rec.s  S == header.sync_serial
           ms == IF Magic(disk[rec.s]) /\ disk[rec.s].ss > header.sync_serial THEN disk[rec.s].ss ELSE rec.maxSync
<1>1. /\ mode = "scan" /\ ~StaleFront /\ ~Expected(disk[s]) /\ ~NewSerial(disk[s])
      /\ IF s > END - AGG_SIZE THEN ReadFrom(rec, START, TRUE) ELSE Ldone(s, ms)
  BY Zenon DEF ScanStop
<1>2. disk \in Disks /\ rec \in Recs /\ S \in Nat /\ durable \in Copies /\ reach \in Nat /\ header.write_pos \in START .. END
  BY Zenon, Heads, LogRange DEF Types
<1>3. header = durable.header /\ Stands(header, rec) /\ ScansOn(durable, disk, rec, reach)
  BY Zenon, <1>1, ScanState DEF ScansOn
<1>4. s \in START .. END - 1 /\ rec.maxSync >= S /\ rec.maxSync \in Nat
  BY Zenon, <1>3 DEF Stands, ScanArgs, Recs
<1>5. Stops(disk, s, S, rec.lastSync)
  BY Zenon, <1>1 DEF Expected, NewSerial, Stops, IsDoc, SyncOf
<1>6. Fresh(disk, s, rec.lastWrite, rec.wrapped)
  BY Zenon, <1>1, <1>2, <1>4, StaleIsNotFresh
<1>7. CASE s > END - AGG_SIZE
  <2>1. ReadFrom(rec, START, TRUE)
    BY Zenon, <1>1, <1>7
  <2>2. START \in START .. END - 1 /\ mode \in {"check", "scan"}
    BY <1>1, Sizes
  <2>3. ScansFrom(durable, disk, reach, START, rec.lastSync, rec.lastWrite, TRUE)
    BY Zenon, <1>2, <1>3, <1>5, <1>7, TurnsOn
  <2>4. StaysFrom(header, disk, reach, START, rec.lastSync, TRUE)
    <3> DEFINE W == header.write_pos
    <3>1. ASSUME Rooms(header, disk, reach)
          PROVE  FALSE
      <4>1. s < W + reach + AGG_SIZE /\ W + reach + AGG_SIZE + EVACUATION_SIZE <= END
        BY Zenon, <3>1, <1>1, <2>2 DEF LostInv, Reading, Rooms, Stays, Room
      <4>2. W \in START .. END
        BY Zenon, <1>2
      <4> HIDE DEF s, W
      <4>3. QED BY <4>1, <4>2, <1>2, <1>4, <1>7, Sizes
    <3>2. QED BY Zenon, <3>1 DEF StaysFrom
  <2>5. QED BY Zenon, <2>1, <2>2, <2>3, <2>4, <1>2, ReadFromStep
<1>8. CASE ~(s > END - AGG_SIZE)
  <2>1. Ldone(s, ms)
    BY Zenon, <1>1, <1>8
  <2>2. s <= END - AGG_SIZE /\ s \in START .. END
    <3> HIDE DEF s
    <3> QED BY <1>4, <1>8, Sizes
  <2>3. EndOfLog(header, disk, rec, s)
    BY Zenon, <2>2, <1>5, <1>6 DEF EndOfLog, EndAt
  <2>4. ms \in Nat /\ ms >= S
    <3> DEFINE y == SyncOf(disk, s)  z == rec.maxSync  b == IsDoc(disk, s)
    <3>1. ms = IF b /\ y > S THEN y ELSE z
      BY Zenon DEF SyncOf, IsDoc
    <3>2. (b => y \in Nat) /\ z \in Nat /\ z >= S
      BY Zenon, <1>2, <1>4, Cells
    <3> HIDE DEF y, z, S, ms, b
    <3>3. QED BY <3>1, <3>2, <1>2
  <2> HIDE DEF ms
  <2>5. QED BY Zenon, <2>1, <2>2, <2>3, <2>4, <1>1, LdoneStep
<1>9. QED BY Zenon, <1>7, <1>8

----------------------------------------------------------------------------
(* The steps before and after the scan *)

\* Once the last write before the sync is checked the scan starts at write_pos.
LEMMA CheckScans ==
  ASSUME NEW d, NEW W, NEW L, NEW S, NEW C, NEW full, NEW w, NEW G, NEW F, Log(W, L, S, C, full, d, w, G, F, S + 1),
         NEW s, NEW e, NEW prev, NEW ls, NEW lw, NEW rw, Check(W, L, d, s, e, prev, ls, lw, rw), s = W
  PROVE  Scan(W, S, C, d, w, G, F, s, ls, lw, FALSE) /\ ls = SyncOf(d, L)
<1>1. /\ W \in START .. END /\ L \in START .. END /\ S \in Nat /\ C \in Nat /\ full \in BOOLEAN /\ d \in Disks
      /\ w \in BOOLEAN /\ G \in START .. END /\ F \in START .. END
      /\ L < W /\ W - L <= AGG_SIZE /\ Shape(W, w, G, F) /\ LastWrite(W, L, C, d)
      /\ Chain(d, W, IF w THEN G ELSE F) /\ (w => Chain(d, START, F) /\ Turn(W, L, d, G, F))
      /\ Newer(W, S, C, d, w, G, F, S + 1) /\ Ahead(W, S, C, d) /\ Older(W, S, full, d, w, G, F)
  BY Zenon, LogFacts
<1>2. /\ lw = 0 /\ ls = SyncOf(d, L)
      /\ \E q \in L .. W - 1 : IsDoc(d, q) /\ EndOf(d, q) = W
  <2>1. ~(W = L)
    BY <1>1, Sizes
  <2>2. QED BY Zenon, <2>1 DEF Check
<1>3. IsDoc(d, L)
  BY Zenon, <1>1 DEF LastWrite
<1>4. L \in START .. END - 1 /\ L \in START .. W - 1 /\ L \in L .. W - 1 /\ ~Over(W, w, G, F, L)
  BY <1>1, Sizes DEF Over, Shape
<1>5. SyncOf(d, L) \in Nat /\ EndOf(d, L) \in Int /\ EndOf(d, L) > L
  BY Zenon, <1>1, <1>3, <1>4, Cells
<1>6. SyncOf(d, L) < S
  <2>1. SyncOf(d, L) < S \/ EndOf(d, L) < W - EVACUATION_SIZE
    BY Zenon, <1>1, <1>3, <1>4 DEF Ahead
  <2>2. ~(EndOf(d, L) < W - EVACUATION_SIZE)
    BY <1>1, <1>5, Sizes
  <2>3. QED BY Zenon, <2>1, <2>2
<1>7. SyncOf(d, L) <= S + 1 /\ W <= W /\ ~(W > W)
  BY <1>1, <1>5, <1>6
<1>8. ASSUME W < IF w THEN G ELSE F
      PROVE  IsDoc(d, W) /\ SyncOf(d, L) <= SyncOf(d, W)
  <2>1. IsDoc(d, W)
    BY Zenon, <1>1, <1>8 DEF Chain
  <2>2. W \in START .. END - 1 /\ Over(W, w, G, F, W)
    <3>1. W < G \/ W < F
      BY Zenon, <1>8
    <3>2. W \in START .. END - 1
      BY <3>1, <1>1, Sizes
    <3>3. QED BY Zenon, <3>2, <1>7, <1>8 DEF Over
  <2>3. SyncOf(d, W) >= S
    BY Zenon, <2>1, <2>2, <1>1 DEF Newer
  <2>4. SyncOf(d, W) \in Nat
    BY Zenon, <2>1, <2>2, <1>1, Cells
  <2>5. SyncOf(d, L) <= SyncOf(d, W)
    BY <2>3, <2>4, <1>1, <1>5, <1>6
  <2>6. QED BY Zenon, <2>1, <2>5
<1>9. w => W <= G
  BY Zenon, <1>1 DEF Shape
<1>10. ASSUME w, W = G
       PROVE  \A p \in G .. END - 1 : IsDoc(d, p) => SyncOf(d, p) < SyncOf(d, L)
  <2>1. PICK q \in L .. W - 1 : IsDoc(d, q) /\ EndOf(d, q) = W
    BY Zenon, <1>2
  <2>2. SyncOf(d, q) = SyncOf(d, L)
    BY Zenon, <2>1, <1>1 DEF LastWrite
  <2>3. q \in L .. G - 1 /\ EndOf(d, q) = G
    BY Zenon, <2>1, <1>10
  <2>4. QED BY Zenon, <2>1, <2>2, <2>3, <1>1, <1>10 DEF Turn
<1>11. W < W + STRIPE_LEN - EVACUATION_SIZE /\ W <= W + AGG_SIZE
  BY <1>1, Sizes
<1>12. Scan(W, S, C, d, w, G, F, W, SyncOf(d, L), 0, FALSE)
  BY Zenon, <1>6, <1>7, <1>8, <1>9, <1>10, <1>11 DEF Scan
<1>13. QED BY Zenon, <1>2, <1>12

CheckAt(h, d, r) == Check(h.write_pos, h.last_write_pos, d, r.s, r.e, r.prev, r.lastSync, r.lastWrite, r.wrapped)

\* What is known while the last write before the sync is checked.
LEMMA CheckState ==
  ASSUME Types, LostInv, mode = "check"
  PROVE  /\ header = durable.header /\ dir = durable.dir /\ CheckAt(header, disk, rec) /\ header.sync_serial > 0
         /\ rec.maxSync >= header.sync_serial
         /\ \E w \in BOOLEAN, G \in START .. END, F \in START .. END :
              Lost(durable, disk, reach, w, G, F) /\ (Actives(header, w, F) \/ Idles(header, w, F))
<1>1. header = durable.header /\ dir = durable.dir /\ Reading(header, disk, rec, reach)
  <2>1. mode \in {"check", "scan"}
    BY Zenon
  <2>2. QED BY Zenon, <2>1 DEF LostInv
<1>2. header.sync_serial > 0 /\ rec.maxSync >= header.sync_serial /\ CheckAt(header, disk, rec)
  BY Zenon, <1>1 DEF Reading, CheckAt
<1>3. PICK w \in BOOLEAN, G \in START .. END, F \in START .. END : Lost(durable, disk, reach, w, G, F)
  BY Zenon, <1>1, <1>2 DEF LostInv
<1>4. w => F > START
  BY Zenon, <1>3 DEF Lost
<1>5. Actives(header, w, F) \/ Idles(header, w, F)
  BY Zenon, <1>4 DEF Actives, Idles, Active, Idle
<1>6. QED BY Zenon, <1>1, <1>2, <1>3, <1>5

\* The scan begins where the check of the last write ended.
LEMMA CheckScansOn ==
  ASSUME Types, LostInv, mode = "check", rec.s = header.write_pos
  PROVE  /\ ScansFrom(durable, disk, reach, rec.s, rec.lastSync, rec.lastWrite, FALSE)
         /\ rec.lastSync = SyncOf(disk, header.last_write_pos) /\ rec.lastSync \in Nat
<1> DEFINE W == header.write_pos  L == header.last_write_pos  S == header.sync_serial  C == header.write_serial
           full == header.cycle > 0  s == rec.s  ls == rec.lastSync  lw == rec.lastWrite  rw == rec.wrapped  e == rec.e  prev == rec.prev
<1>1. header = durable.header /\ CheckAt(header, disk, rec)
  BY Zenon, CheckState
<1>2. PICK w \in BOOLEAN, G \in START .. END, F \in START .. END :
         Lost(durable, disk, reach, w, G, F) /\ (Actives(header, w, F) \/ Idles(header, w, F))
  BY Zenon, CheckState
<1>3. Log(W, L, S, C, full, disk, w, G, F, S + 1) /\ Check(W, L, disk, s, e, prev, ls, lw, rw) /\ s = W
  BY Zenon, <1>1, <1>2 DEF Lost, Copied, LogSince, CheckAt
<1>4. Scan(W, S, C, disk, w, G, F, s, ls, lw, FALSE) /\ ls = SyncOf(disk, L)
  <2>1. Log(W, L, S, C, full, disk, w, G, F, S + 1) /\ Check(W, L, disk, s, e, prev, ls, lw, rw)
    BY Zenon, <1>3
  <2>2. s = W
    BY Zenon, <1>3
  <2> HIDE DEF W, L, S, C, full, s, ls, lw, rw, e, prev
  <2>3. QED BY Zenon, <2>1, <2>2, CheckScans
<1>5. ls \in Nat
  BY Zenon DEF Types, Recs
<1>6. QED BY Zenon, <1>1, <1>2, <1>4, <1>5 DEF ScansFrom

\* The check that reaches write_pos goes over to the scan.
LEMMA CheckEndStep ==
  ASSUME Types, LostInv, CheckEnd
  PROVE  IInv'
<1> DEFINE W == header.write_pos  L == header.last_write_pos  s == rec.s  ls == rec.lastSync
<1>1. /\ mode = "check" /\ s >= W /\ s < rec.e /\ mode' = "scan" /\ rec' = rec /\ Undisturbed
  BY Zenon DEF CheckEnd, Undisturbed
<1>2. CheckAt(header, disk, rec) /\ rec.maxSync >= header.sync_serial
  BY Zenon, <1>1, CheckState
<1>3. rec \in Recs /\ W \in START .. END /\ s \in START .. END /\ reach \in Nat /\ header \in Headers
  BY Zenon, LogRange DEF Types, Recs
<1>4. L <= s /\ s <= W /\ ~rec.wrapped /\ rec.prev = L /\ rec.e = Min2(L + RECOVERY_SIZE, END) /\ rec.wrapped \in BOOLEAN
  BY Zenon, <1>2, <1>3 DEF CheckAt, Check, Recs
<1>5. s = W
  <2> HIDE DEF s, W
  <2> QED BY <1>1, <1>3, <1>4, Sizes
<1>6. ScansFrom(durable, disk, reach, s, ls, rec.lastWrite, FALSE) /\ ls = SyncOf(disk, L) /\ ls \in Nat
  BY Zenon, <1>1, <1>5, CheckScansOn
<1>7. ScansOn(durable, disk, rec', reach)
  <2>1. rec.wrapped = FALSE
    BY Zenon, <1>4
  <2>2. QED BY Zenon, <2>1, <1>1, <1>6 DEF ScansOn, ScansFrom, Scans
<1>8. W <= W /\ W < W + reach + AGG_SIZE /\ ls >= ls
  <2> HIDE DEF W, ls
  <2> QED BY <1>3, <1>6, Sizes
<1>9. StaysAt(header, disk, rec, reach)
  BY Zenon, <1>1, <1>4, <1>5, <1>6, <1>8 DEF StaysAt, Stays
<1>10. GoodScan(header, disk, rec', reach)
  BY Zenon, <1>1, <1>2, <1>3, <1>9 DEF GoodScan
<1>11. mode \in {"check", "scan"}
  BY Zenon, <1>1
<1>12. QED BY Zenon, <1>1, <1>7, <1>10, <1>11, ScanOn

\* A read that would cross the end of the stripe is cut at it.
LEMMA ReadPastEndStep ==
  ASSUME Types, LostInv, ReadPastEnd
  PROVE  IInv'
<1> DEFINE W == header.write_pos  L == header.last_write_pos  s == rec.s  ls == rec.lastSync  e == rec.e
           r == [rec EXCEPT !.prev = END]
<1>1. mode = "check" /\ s >= W /\ s >= e /\ (Lclear \/ ReadFrom(r, START, TRUE))
  BY Zenon DEF ReadPastEnd
<1>2. CheckAt(header, disk, rec) /\ header = durable.header
  BY Zenon, <1>1, CheckState
<1>3. /\ rec \in Recs /\ W \in START .. END /\ L \in START .. END /\ s \in START .. END /\ reach \in Nat /\ header \in Headers
      /\ rec.lastWrite \in Nat
  BY Zenon, LogRange DEF Types, Recs
<1>4. L <= s /\ s <= W /\ e = Min2(L + RECOVERY_SIZE, END)
  BY Zenon, <1>2, <1>3 DEF CheckAt, Check, Recs
<1>5. s = W
  <2> HIDE DEF s, W
  <2> QED BY <1>1, <1>3, <1>4, Sizes
<1>6. PICK w \in BOOLEAN, G \in START .. END, F \in START .. END :
         /\ Lost(durable, disk, reach, w, G, F)
         /\ \/ /\ Actives(durable.header, w, F)
               /\ Scan(durable.header.write_pos, durable.header.sync_serial, durable.header.write_serial, disk, w, G, F,
                       s, ls, rec.lastWrite, FALSE)
            \/ Idles(durable.header, w, F)
  BY Zenon, <1>1, <1>5, CheckScansOn DEF ScansFrom
<1>7. ls \in Nat
  BY Zenon, <1>1, <1>5, CheckScansOn
<1>8. W - L <= AGG_SIZE
  BY Zenon, <1>2, <1>6 DEF Lost, Copied, LogSince, Log
<1>9. s = END /\ W = END
  <2>1. e = IF L + EVACUATION_SIZE < END THEN L + EVACUATION_SIZE ELSE END
    BY Zenon, <1>4, Sizes DEF Min2
  <2>2. /\ s >= e /\ W \in START .. END /\ L \in START .. END /\ s \in START .. END /\ s = W /\ W - L <= AGG_SIZE
    BY Zenon, <1>1, <1>3, <1>5, <1>8
  <2> HIDE DEF s, W, L, e
  <2>3. QED BY <2>1, <2>2, Sizes
<1>10. CASE Lclear
  BY Zenon, <1>10, LclearStep
<1>11. CASE ReadFrom(r, START, TRUE)
  <2>1. r \in Recs /\ r.lastSync = ls /\ r.lastWrite = rec.lastWrite
    <3>1. END \in Nat
      BY Zenon, Sizes
    <3>2. QED BY Zenon, <3>1, <1>3 DEF Recs
  <2>2. START \in START .. END - 1 /\ mode \in {"check", "scan"} /\ END \in START .. END /\ END > END - AGG_SIZE /\ END >= F
    BY <1>1, <1>6, Sizes
  <2>3. ScansFrom(durable, disk, reach, START, ls, rec.lastWrite, TRUE)
    <3>1. CASE Idles(durable.header, w, F)
      BY Zenon, <3>1, <1>6 DEF ScansFrom
    <3>2. CASE ~Idles(durable.header, w, F)
      <4> DEFINE S == header.sync_serial  C == header.write_serial  full == header.cycle > 0  lw == rec.lastWrite
      <4>1. /\ Actives(header, w, F) /\ Active(W, full, w, F) /\ Scan(W, S, C, disk, w, G, F, s, ls, lw, FALSE)
            /\ Log(W, L, S, C, full, disk, w, G, F, S + 1)
        BY Zenon, <3>2, <1>2, <1>6 DEF Actives, Lost, Copied, LogSince
      <4>2. s \in START .. END /\ s > END - AGG_SIZE /\ s >= F /\ ls \in Nat /\ lw \in Nat
        BY Zenon, <2>2, <1>3, <1>7, <1>9
      <4> HIDE DEF W, L, S, C, full, s, ls, lw
      <4>3. Scan(W, S, C, disk, w, G, F, START, ls, lw, TRUE)
        BY Zenon, <4>1, <4>2, ScanTurn
      <4>4. QED BY Zenon, <4>1, <4>3, <1>2, <1>6 DEF ScansFrom, W, S, C, ls, lw
    <3>3. QED BY Zenon, <3>1, <3>2
  <2>4. StaysFrom(header, disk, reach, START, ls, TRUE)
    <3>1. ASSUME Rooms(header, disk, reach)
          PROVE  FALSE
      <4>1. W + reach + AGG_SIZE + EVACUATION_SIZE <= END
        BY Zenon, <3>1 DEF Rooms, Room
      <4> HIDE DEF W
      <4>2. QED BY <4>1, <1>3, <1>9, Sizes
    <3>2. QED BY Zenon, <3>1 DEF StaysFrom
  <2> HIDE DEF r
  <2>5. QED BY Zenon, <1>11, <2>1, <2>2, <2>3, <2>4, ReadFromStep
<1>12. QED BY Zenon, <1>1, <1>10, <1>11

\* The next document of the last write.
LEMMA CheckNext ==
  ASSUME NEW d, NEW W, NEW L, NEW S, NEW C, NEW full, NEW w, NEW G, NEW F, NEW top, Log(W, L, S, C, full, d, w, G, F, top),
         NEW s, NEW e, NEW prev, NEW ls, NEW lw, NEW rw, Check(W, L, d, s, e, prev, ls, lw, rw), s < W, s \in START .. END, ls \in Nat
  PROVE  /\ IsDoc(d, s) /\ WriteOf(d, s) < C /\ SyncOf(d, s) \in Nat /\ EndOf(d, s) \in START .. END
         /\ Check(W, L, d, EndOf(d, s), e, prev, IF SyncOf(d, s) > lw THEN SyncOf(d, s) ELSE ls, lw, rw)
<1> DEFINE t == EndOf(d, s)  y == SyncOf(d, s)  z == SyncOf(d, L)
<1>1. /\ W \in START .. END /\ L \in START .. END /\ C \in Nat /\ d \in Disks /\ L < W /\ LastWrite(W, L, C, d) /\ Tiled(d, W)
  BY Zenon DEF Log, LogArgs
<1>2. /\ L <= s /\ ~rw /\ lw = 0 /\ prev = L /\ e = Min2(L + RECOVERY_SIZE, END) /\ IsDoc(d, s)
      /\ ls = IF s = L THEN 0 ELSE SyncOf(d, L)
  BY Zenon DEF Check
<1>3. s \in START .. END - 1 /\ s \in START .. W - 1 /\ s \in L .. W - 1
  BY <1>1, <1>2, Sizes
<1>4. y \in Nat /\ t \in Int /\ t > s
  BY Zenon, <1>1, <1>2, <1>3, Cells
<1>5. t <= W
  BY Zenon, <1>1, <1>2, <1>3 DEF Tiled
<1>6. (t < W => IsDoc(d, t)) /\ y = z /\ WriteOf(d, s) < C
  BY Zenon, <1>1, <1>2, <1>3 DEF LastWrite
<1>7. L <= t /\ ~(t = L) /\ t \in START .. END
  <2> HIDE DEF t
  <2> QED BY <1>1, <1>2, <1>3, <1>4, <1>5, Sizes
<1>8. (IF y > lw THEN y ELSE ls) = IF t = L THEN 0 ELSE z
  <2>1. CASE y > 0
    BY Zenon, <2>1, <1>2, <1>6, <1>7
  <2>2. CASE ~(y > 0)
    <3>1. y = 0
      <4> HIDE DEF y
      <4> QED BY <2>2, <1>4
    <3>2. z = 0
      BY Zenon, <3>1, <1>6
    <3>3. QED BY Zenon, <2>2, <3>2, <1>2, <1>7
  <2>3. QED BY Zenon, <2>1, <2>2
<1>9. Check(W, L, d, t, e, prev, IF y > lw THEN y ELSE ls, lw, rw)
  BY Zenon, <1>2, <1>3, <1>5, <1>6, <1>7, <1>8 DEF Check
<1>10. QED BY Zenon, <1>2, <1>4, <1>6, <1>7, <1>9

\* The check never fails: the last write before the sync is still there.
LEMMA CheckDocStep ==
  ASSUME Types, LostInv, CheckDoc
  PROVE  IInv' /\ mode' = "check"
<1> DEFINE W == header.write_pos  L == header.last_write_pos  S == header.sync_serial  C == header.write_serial
           full == header.cycle > 0  s == rec.s  ls == rec.lastSync  lw == rec.lastWrite  rw == rec.wrapped  e == rec.e  prev == rec.prev
           y == SyncOf(disk, s)  t == EndOf(disk, s)  nl == IF y > lw THEN y ELSE ls
<1>1. /\ mode = "check" /\ s < W
      /\ IF ~Magic(disk[s]) \/ disk[s].ws > C THEN Lclear
         ELSE rec' = [rec EXCEPT !.s = @ + disk[s].len, !.lastSync = IF disk[s].ss > lw THEN disk[s].ss ELSE @]
              /\ Undisturbed /\ mode' = mode
  BY Zenon DEF CheckDoc, Undisturbed
<1>2. /\ header = durable.header /\ dir = durable.dir /\ CheckAt(header, disk, rec) /\ S > 0 /\ rec.maxSync >= S
  BY Zenon, <1>1, CheckState
<1>3. PICK w \in BOOLEAN, G \in START .. END, F \in START .. END : Lost(durable, disk, reach, w, G, F)
  BY Zenon, <1>1, CheckState
<1>4. /\ header \in Headers /\ dir \in SUBSET Entry /\ disk \in Disks /\ durable \in Copies /\ reach \in Nat /\ rec \in Recs
      /\ \A x \in dir \cup durable.dir : x.off + x.len <= END
  BY Zenon DEF Types
<1>5. /\ IsDoc(disk, s) /\ WriteOf(disk, s) < C /\ y \in Nat /\ t \in START .. END
      /\ Check(W, L, disk, t, e, prev, nl, lw, rw)
  <2> DEFINE top == S + 1
  <2>1. /\ Log(W, L, S, C, full, disk, w, G, F, top) /\ Check(W, L, disk, s, e, prev, ls, lw, rw) /\ s < W
        /\ s \in START .. END /\ ls \in Nat
    BY Zenon, <1>1, <1>2, <1>3, <1>4 DEF Lost, Copied, LogSince, CheckAt, Recs
  <2> HIDE DEF W, L, S, C, full, s, ls, lw, rw, e, prev, top
  <2>2. QED BY Zenon, <2>1, CheckNext
<1>6. ~(WriteOf(disk, s) > C)
  <2> DEFINE x == WriteOf(disk, s)
  <2>1. s \in START .. END - 1 /\ C \in Nat /\ x < C
    <3>1. s \in START .. END /\ W \in START .. END /\ s < W
      BY Zenon, <1>1, <1>4, LogRange DEF Recs
    <3>2. s \in START .. END - 1
      <4> HIDE DEF s, W
      <4> QED BY <3>1, Sizes
    <3>3. QED BY Zenon, <3>2, <1>4, <1>5, Heads
  <2>2. x \in Nat
    BY Zenon, <2>1, <1>4, <1>5, Cells
  <2> HIDE DEF x, C
  <2>3. ~(x > C)
    BY <2>1, <2>2
  <2>4. QED BY Zenon, <2>3 DEF x, C
<1>7. rec' = [rec EXCEPT !.s = t, !.lastSync = nl] /\ Undisturbed /\ mode' = "check"
  BY Zenon, <1>1, <1>5, <1>6 DEF IsDoc, WriteOf, SyncOf, EndOf
<1>8. nl \in Nat
  BY Zenon, <1>4, <1>5 DEF Recs
<1>9. /\ rec' \in Recs /\ rec'.s = t /\ rec'.e = e /\ rec'.wrapped = rw /\ rec'.prev = prev /\ rec'.lastSync = nl
      /\ rec'.lastWrite = lw /\ rec'.maxSync = rec.maxSync
  <2> HIDE DEF t, nl
  <2> QED BY Zenon, <1>4, <1>5, <1>7, <1>8 DEF Recs
<1>10. /\ header' = header /\ dir' = dir /\ disk' = disk /\ flight' = flight /\ copying' = copying /\ durable' = durable
       /\ reach' = reach
  BY Zenon, <1>7 DEF Undisturbed
<1>11. Types'
  BY Zenon, <1>4, <1>7, <1>9, <1>10 DEF Types
<1>12. mode' # "run" /\ mode' # "scan" /\ mode' # "writedir" /\ mode # "writedir"
  BY <1>1, <1>7
<1>13. OnDurable'
  BY Zenon, <1>10, DurableStays
<1>14. Reading(header, disk, rec, reach)'
  BY Zenon, <1>2, <1>5, <1>9, <1>10, <1>12 DEF Reading
<1>15. flight = <<>> /\ copying = NoCopy
  BY Zenon, <1>12 DEF LostInv
<1>16. LostInv'
  BY Zenon, <1>2, <1>10, <1>12, <1>13, <1>14, <1>15 DEF LostInv, OnDurable, SomeLost
<1>17. QED BY Zenon, <1>7, <1>11, <1>12, <1>16 DEF IInv

\* A cleared stripe goes into service.
LEMMA ClearedStep ==
  ASSUME Types, header' = ClearedHeader, dir' = {}, durable' = NoEntries, mode' = "run", copying' = NoCopy, flight' = <<>>,
         disk' = disk, rec' \in Recs, reach' \in Nat
  PROVE  IInv'
<1>1. disk \in Disks
  BY Zenon DEF Types
<1>2. Types'
  BY Zenon, <1>1, ClearedIsHeader, ClearedFields, NoEntriesIsCopy DEF Types
<1>3. Len(<<>>) = 0 /\ reach' >= 0
  OBVIOUS
<1>4. Syncing'
  BY Zenon, ClearedFields DEF Syncing
<1>5. Flying(flight', header'.write_serial, header'.sync_serial)
  BY Zenon DEF Flying
<1>6. RunInv'
  BY Zenon, <1>1, <1>3, <1>4, <1>5, ClearedRun, ClearedFields DEF RunInv
<1>7. QED BY Zenon, <1>2, <1>6 DEF IInv

\* A start of the server reads the durable copy.
LEMMA RestartStep ==
  ASSUME Types, LostInv, Restart
  PROVE  IInv'
<1> DEFINE h == durable.header  L == h.last_write_pos  S == h.sync_serial
<1>1. /\ mode = "down" /\ header' = h /\ dir' = durable.dir
      /\ disk' = disk /\ flight' = flight /\ copying' = copying /\ durable' = durable /\ reach' = reach
      /\ IF S = 0 THEN mode' = "run" /\ rec' = rec
         ELSE /\ mode' = "check"
              /\ rec' = [s |-> L, e |-> Min2(L + RECOVERY_SIZE, END), wrapped |-> FALSE, lastSync |-> 0, lastWrite |-> 0,
                         maxSync |-> S, prev |-> L]
  BY Zenon DEF Restart
<1>2. /\ header \in Headers /\ dir \in SUBSET Entry /\ disk \in Disks /\ durable \in Copies /\ reach \in Nat /\ rec \in Recs
      /\ \A x \in dir \cup durable.dir : x.off + x.len <= END
  BY Zenon DEF Types
<1>3. mode # "writedir"
  BY <1>1
<1>4. flight = <<>> /\ copying = NoCopy /\ (S = 0 => Cleared(durable))
  BY Zenon, <1>3 DEF LostInv
<1>5. h \in Headers /\ S \in Nat
  BY Zenon, <1>2, CopyFields, Heads
<1>6. CASE S = 0
  <2>1. durable = NoEntries
    BY Zenon, <1>4, <1>6 DEF Cleared, NoEntries
  <2>2. header' = ClearedHeader /\ dir' = {} /\ durable' = NoEntries /\ mode' = "run"
    BY Zenon, <2>1, <1>1, <1>6, ClearedFields
  <2>3. QED BY Zenon, <2>2, <1>1, <1>2, <1>4, ClearedStep
<1>7. CASE ~(S = 0)
  <2>1. S > 0 /\ S >= S
    <3> HIDE DEF S
    <3> QED BY <1>5, <1>7
  <2>2. PICK w \in BOOLEAN, G \in START .. END, F \in START .. END : Lost(durable, disk, reach, w, G, F)
    BY Zenon, <2>1 DEF LostInv
  <2> DEFINE W == h.write_pos  C == h.write_serial  full == h.cycle > 0
  <2>3. LastWrite(W, L, C, disk) /\ L < W /\ L \in START .. END /\ W \in START .. END
    <3>1. Log(W, L, S, C, full, disk, w, G, F, S + 1)
      BY Zenon, <2>2 DEF Lost, Copied, LogSince
    <3>2. QED BY Zenon, <3>1 DEF Log, LogArgs
  <2>4. L \in START .. END - 1 /\ L <= L /\ L <= W /\ ~(L = W) /\ 0 \in Nat
    <3> HIDE DEF L, W
    <3> QED BY <2>3, Sizes
  <2>5. IsDoc(disk, L)
    BY Zenon, <2>3 DEF LastWrite
  <2>6. mode' = "check" /\ mode' # "run" /\ mode' # "scan" /\ mode' # "writedir"
    <3>1. mode' = "check"
      BY Zenon, <1>1, <1>7
    <3>2. QED BY <3>1
  <2>7. /\ rec' \in Recs /\ rec'.s = L /\ rec'.e = Min2(L + RECOVERY_SIZE, END) /\ rec'.wrapped = FALSE /\ rec'.lastSync = 0
        /\ rec'.lastWrite = 0 /\ rec'.maxSync = S /\ rec'.prev = L
    <3>1. rec' = [s |-> L, e |-> Min2(L + RECOVERY_SIZE, END), wrapped |-> FALSE, lastSync |-> 0, lastWrite |-> 0,
                  maxSync |-> S, prev |-> L]
      BY Zenon, <1>1, <1>7
    <3>2. Min2(L + RECOVERY_SIZE, END) \in START .. END /\ L \in Nat /\ L \in START .. END
      BY Zenon, <2>4, Min2Range
    <3> HIDE DEF L, S
    <3>3. QED BY Zenon, <3>1, <3>2, <2>4, <1>5 DEF Recs
  <2>8. Types'
    BY Zenon, <1>1, <1>2, <1>5, <2>6, <2>7, CopyFields DEF Types
  <2>9. Reading(header, disk, rec, reach)'
    BY Zenon, <1>1, <2>1, <2>4, <2>5, <2>6, <2>7 DEF Reading, Check
  <2>10. OnDurable'
    BY Zenon, <1>1, DurableStays
  <2>11. LostInv'
    BY Zenon, <1>1, <1>4, <2>6, <2>9, <2>10 DEF LostInv, OnDurable, SomeLost
  <2>12. QED BY Zenon, <2>6, <2>8, <2>11 DEF IInv
<1>8. QED BY Zenon, <1>6, <1>7

\* The recovered directory goes into service once it is durable.
LEMMA WriteDirDoneStep ==
  ASSUME Types, LostInv, WriteDirDone
  PROVE  IInv'
<1>1. /\ mode = "writedir" /\ durable' = copying /\ copying' = NoCopy /\ mode' = "run" /\ reach' = 0
      /\ header' = header /\ dir' = dir /\ disk' = disk /\ flight' = flight /\ rec' = rec
  BY Zenon DEF WriteDirDone
<1>2. /\ header \in Headers /\ dir \in SUBSET Entry /\ disk \in Disks /\ rec \in Recs
      /\ \A x \in dir \cup durable.dir : x.off + x.len <= END
  BY Zenon DEF Types
<1>3. /\ flight = <<>> /\ copying = [header |-> header, dir |-> dir]
      /\ header.sync_serial = 0 => Cleared(copying)
      /\ header.sync_serial > 0 => Copied(copying, disk, FALSE, START, header.write_pos, header.sync_serial)
  BY Zenon, <1>1 DEF LostInv
<1>4. copying \in Copies /\ copying.header = header /\ copying.dir = dir
  BY Zenon, <1>2, <1>3 DEF Copies
<1>5. 0 \in Nat /\ START \in START .. END /\ Len(<<>>) = 0 /\ 0 >= 0
  BY Sizes
<1>6. CASE header.sync_serial = 0
  <2>1. copying = NoEntries
    BY Zenon, <1>3, <1>6 DEF Cleared, NoEntries
  <2>2. header' = ClearedHeader /\ dir' = {} /\ durable' = NoEntries
    BY Zenon, <2>1, <1>1, <1>4, ClearedFields
  <2>3. QED BY Zenon, <2>2, <1>1, <1>2, <1>3, <1>5, ClearedStep
<1>7. CASE header.sync_serial > 0
  <2>1. Types'
    BY Zenon, <1>1, <1>2, <1>4, <1>5 DEF Types
  <2>2. /\ RunHead(header.write_pos, header.last_write_pos, header.agg_pos, header.dirty, 0)
        /\ RunDir(header.write_pos, header.phase, header.cycle = 0, dir, disk, <<>>)
        /\ RunDisk(header.write_pos, header.last_write_pos, header.sync_serial, header.write_serial, header.cycle > 0, disk)
        /\ Since(copying, header, 0, disk) /\ LogPosition(header) + 0 - LogPosition(header) = 0
    BY Zenon, <1>2, <1>3, <1>4, <1>5, <1>7, InService
  <2>3. Syncing'
    BY Zenon, <1>1, <1>4 DEF Syncing
  <2>4. Flying(flight', header'.write_serial, header'.sync_serial)
    BY Zenon, <1>1, <1>3 DEF Flying
  <2>5. RunInv'
    BY Zenon, <2>2, <2>3, <2>4, <1>1, <1>3, <1>4, <1>5 DEF RunInv
  <2>6. QED BY Zenon, <2>1, <2>5, <1>1 DEF IInv
<1>8. header.sync_serial = 0 \/ header.sync_serial > 0
  <2> DEFINE S == header.sync_serial
  <2>1. S \in Nat
    BY Zenon, <1>2, Heads
  <2> HIDE DEF S
  <2>2. S = 0 \/ S > 0
    BY <2>1
  <2>3. QED BY Zenon, <2>2 DEF S
<1>9. QED BY Zenon, <1>6, <1>7, <1>8

\* A crash during recovery loses what recovery had done, and nothing else.
LEMMA CrashInRecovery ==
  ASSUME Ordinary, Types, LostInv, Crash
  PROVE  IInv'
<1>1. /\ header \in Headers /\ dir \in SUBSET Entry /\ disk \in Disks /\ durable \in Copies /\ reach \in Nat /\ rec \in Recs
      /\ \A e \in dir \cup durable.dir : e.off + e.len <= END
  BY Zenon DEF Types
<1>2. /\ \E n \in IF "reordered" \in Situations THEN SUBSET (DOMAIN flight) ELSE {1 .. b : b \in 0 .. Len(flight)} : disk' = Landed(n)
      /\ header' = ClearedHeader /\ dir' = {} /\ flight' = <<>> /\ copying' = NoCopy /\ mode' = "down" /\ rec' = NoRec
      /\ durable' = durable /\ reach' = reach
  BY Zenon DEF Crash
<1>3. ~("reordered" \in Situations)
  BY DEF Ordinary
<1>4. PICK m \in 0 .. Len(flight) : disk' = Landed(1 .. m)
  BY Zenon, <1>2, <1>3
<1>5. \A i : ~(i \in 1 .. m)
  <2>1. flight = <<>>
    BY Zenon DEF LostInv
  <2>2. Len(flight) = 0
    BY <2>1
  <2>3. m = 0
    BY <2>2
  <2>4. QED BY <2>3
<1>6. disk' = disk
  <2>1. disk' = [p \in Positions |-> disk[p]]
    BY Zenon, <1>4, <1>5 DEF Landed
  <2>2. disk \in [Positions -> Block]
    BY Zenon, <1>1 DEF Disks
  <2>3. QED BY Zenon, <2>1, <2>2
<1>7. Types'
  BY Zenon, <1>1, <1>2, <1>6, ClearedIsHeader, NoRecIsRec DEF Types
<1>8. mode' # "run" /\ mode' # "check" /\ mode' # "scan" /\ mode' # "writedir"
  BY <1>2
<1>9. OnDurable'
  BY Zenon, <1>2, <1>6, DurableStays
<1>10. LostInv'
  BY Zenon, <1>2, <1>8, <1>9 DEF LostInv, OnDurable, SomeLost
<1>11. QED BY Zenon, <1>7, <1>8, <1>10 DEF IInv

\* A step that changes nothing keeps the invariant.
LEMMA Stutters ==
  ASSUME IInv, UNCHANGED vars
  PROVE  IInv'
<1>1. /\ header' = header /\ dir' = dir /\ disk' = disk /\ flight' = flight /\ copying' = copying /\ durable' = durable
      /\ mode' = mode /\ rec' = rec /\ reach' = reach
  BY Zenon DEF vars
<1>2. Types'
  BY Zenon, <1>1 DEF IInv, Types
<1>3. Syncing => Syncing'
  BY Zenon, <1>1 DEF Syncing
<1>4. RunInv => RunInv'
  BY Zenon, <1>1, <1>3 DEF RunInv
<1>5. Reading(header, disk, rec, reach) => Reading(header, disk, rec, reach)'
  BY Zenon, <1>1 DEF Reading
<1>6. LostInv => LostInv'
  BY Zenon, <1>1, <1>5 DEF LostInv
<1>7. QED BY Zenon, <1>1, <1>2, <1>4, <1>6 DEF IInv

\* Every step keeps the invariant.
LEMMA StepInv ==
  ASSUME Ordinary, IInv, Next
  PROVE  IInv'
<1>1. Types /\ (mode = "run" => RunInv) /\ (mode # "run" => LostInv)
  BY Zenon DEF IInv
<1>2. CASE \E b \in Batches : aggWrite(b)
  <2>1. PICK b \in Batches : aggWrite(b)
    BY Zenon, <1>2
  <2>2. mode = "run"
    BY Zenon, <2>1 DEF aggWrite
  <2>3. Types' /\ RunInv' /\ mode' = "run"
    BY Zenon, <2>1, <2>2, <1>1, WriteStep
  <2>4. QED BY Zenon, <2>3 DEF IInv
<1>3. CASE aggWriteDone
  <2>1. mode = "run"
    BY Zenon, <1>3 DEF aggWriteDone
  <2>2. Types' /\ RunInv' /\ mode' = "run"
    BY Zenon, <2>1, <1>1, <1>3, DoneStep
  <2>3. QED BY Zenon, <2>2 DEF IInv
<1>4. CASE SyncStart
  <2>1. mode = "run"
    BY Zenon, <1>4 DEF SyncStart
  <2>2. Types' /\ RunInv' /\ mode' = "run"
    BY Zenon, <2>1, <1>1, <1>4, SyncStartStep
  <2>3. QED BY Zenon, <2>2 DEF IInv
<1>5. CASE SyncEnd
  <2>1. mode = "run"
    BY Zenon, <1>5 DEF SyncEnd
  <2>2. Types' /\ RunInv' /\ mode' = "run"
    BY Zenon, <2>1, <1>1, <1>5, SyncEndStep
  <2>3. QED BY Zenon, <2>2 DEF IInv
<1>6. CASE Crash
  <2>1. CASE mode = "run"
    <3>1. Types' /\ LostInv' /\ mode' = "down"
      BY Zenon, <2>1, <1>1, <1>6, CrashInService
    <3>2. mode' # "run"
      BY <3>1
    <3>3. QED BY Zenon, <3>1, <3>2 DEF IInv
  <2>2. CASE mode # "run"
    BY Zenon, <2>2, <1>1, <1>6, CrashInRecovery
  <2>3. QED BY Zenon, <2>1, <2>2
<1>7. ASSUME mode # "run", ReadError \/ Recovering
      PROVE  IInv'
  <2>1. LostInv /\ Types
    BY Zenon, <1>1, <1>7
  <2>2. CASE ReadError
    BY Zenon, <2>1, <2>2, LclearStep DEF ReadError
  <2>3. CASE Recovering
    BY Zenon, <2>1, <2>3, RestartStep, CheckDocStep, CheckEndStep, ReadPastEndStep, ScanFrontStep, ScanExpectedStep,
       ScanNewSerialStep, ScanStopStep, WriteDirDoneStep DEF Recovering
  <2>4. QED BY Zenon, <1>7, <2>2, <2>3
<1>8. ASSUME ReadError \/ Recovering
      PROVE  mode # "run"
  <2>1. ReadError => mode \in {"check", "scan"}
    BY Zenon DEF ReadError
  <2>2. Recovering => mode \in {"down", "check", "scan", "writedir"}
    BY Zenon DEF Recovering, Restart, CheckDoc, CheckEnd, ReadPastEnd, ScanFront, ScanExpected, ScanNewSerial, ScanStop, WriteDirDone
  <2>3. mode \in {"down", "check", "scan", "writedir"}
    BY Zenon, <1>8, <2>1, <2>2
  <2>4. QED BY <2>3
<1>9. QED BY Zenon, <1>2, <1>3, <1>4, <1>5, <1>6, <1>7, <1>8 DEF Next, Running

----------------------------------------------------------------------------
(* The theorems *)

\* Whatever the stripe, the aggregation buffer and the bounds are: what the log has overwritten
\* since the last sync, what the scan of recovery takes for a part of it, and what it leaves of
\* the directory are related as IInv says (StripeSM::aggWrite, CacheSync, handle_recover_from_data).
THEOREM Invariance ==
  ASSUME Ordinary
  PROVE  Spec => []IInv
<1>1. Init => IInv
  BY Zenon, InitInv
<1>2. IInv /\ [Next]_vars => IInv'
  BY Zenon, StepInv, Stutters
<1>3. QED BY <1>1, <1>2, PTL DEF Spec

\* The invariant implies that entries lead to their documents.
LEMMA InvEntriesIntact ==
  ASSUME IInv
  PROVE  EntriesIntact
<1>1. /\ header \in Headers /\ dir \in SUBSET Entry /\ disk \in Disks /\ durable \in Copies /\ rec \in Recs
      /\ \A e \in dir \cup durable.dir : e.off + e.len <= END
      /\ mode \in {"run", "down", "check", "scan", "writedir"}
  BY Zenon DEF IInv, Types
<1>2. TypeOK
  <2>1. durable.header \in Headers /\ durable.dir \in SUBSET Entry
    BY Zenon, <1>1, CopyFields
  <2>2. \A e \in dir \cup durable.dir : e.off \in Positions /\ e.off + e.len <= END
    BY Zenon, <1>1, <2>1 DEF Entry
  <2>3. rec.s \in START .. END /\ rec.e \in START .. END
    BY Zenon, <1>1 DEF Recs
  <2>4. QED BY Zenon, <1>1, <2>1, <2>2, <2>3 DEF TypeOK
<1>3. ASSUME mode = "run", NEW e \in dir, dir_valid(header, Len(flight), e)
      PROVE  Intact(e)
  <2> DEFINE W == header.write_pos  n == Len(flight)  o == e.off  l == e.len
  <2>1. RunInv
    BY Zenon, <1>3 DEF IInv
  <2>2. n \in Nat /\ DOMAIN flight = 1 .. n
    <3>1. CASE flight = <<>>
      BY <3>1
    <3>2. CASE flight # <<>>
      <4>1. \E ss : WellLaid(flight, n, header.write_serial, ss)
        BY Zenon, <2>1, <3>2, <1>1, Heads, InFlight DEF RunInv
      <4>2. QED BY Zenon, <4>1 DEF WellLaid
    <3>3. QED BY Zenon, <3>1, <3>2
  <2>3. header.agg_pos = W + n
    BY Zenon, <2>1 DEF RunInv, RunHead
  <2>4. e.phase = header.phase \/ o >= W + n
    BY Zenon, <2>3, <1>3 DEF dir_valid, vol_out_of_phase_valid
  <2>5. \A p \in o .. o + l - 1 : Found(disk, W, flight, p, e)
    BY Zenon, <2>1, <2>4 DEF RunInv, RunDir
  <2>6. o \in START .. END - 1 /\ l \in 1 .. AGG_SIZE /\ W \in START .. END
    BY Zenon, <1>1, LogRange DEF Entry, Positions
  <2>7. ASSUME NEW k \in 0 .. l - 1
        PROVE  Content(o + k) = [ws |-> e.ws, ss |-> e.ss, len |-> e.len, k |-> k]
    <3> DEFINE p == o + k
    <3>1. p \in o .. o + l - 1 /\ p - o = k /\ ((p - W + 1 \in 1 .. n) <=> (W <= p /\ p < W + n))
      <4> HIDE DEF o, l, W, n
      <4> QED BY <2>2, <2>6, Sizes
    <3>2. Found(disk, W, flight, p, e)
      BY Zenon, <3>1, <2>5
    <3> HIDE DEF p
    <3>3. CASE W <= p /\ p < W + n
      <4>1. flight[p - W + 1] = [ws |-> e.ws, ss |-> e.ss, len |-> e.len, k |-> p - e.off]
        BY Zenon, <3>2, <3>3 DEF Found
      <4>2. Content(p) = flight[p - W + 1]
        BY Zenon, <3>1, <3>3, <2>2 DEF Content
      <4>3. QED BY Zenon, <4>1, <4>2, <3>1 DEF p
    <3>4. CASE ~(W <= p /\ p < W + n)
      <4>1. disk[p] = [ws |-> e.ws, ss |-> e.ss, len |-> e.len, k |-> p - e.off]
        BY Zenon, <3>2, <3>4 DEF Found, Holds
      <4>2. Content(p) = disk[p]
        BY Zenon, <3>1, <3>4, <2>2 DEF Content
      <4>3. QED BY Zenon, <4>1, <4>2, <3>1 DEF p
    <3>5. QED BY Zenon, <3>3, <3>4
  <2>8. QED BY Zenon, <2>7 DEF Intact
<1>4. QED BY Zenon, <1>2, <1>3 DEF EntriesIntact

\* Whatever was lost in a crash, in service every directory entry that passes dir_valid leads to
\* all of the document it was inserted for.
THEOREM EntriesStayIntact ==
  ASSUME Ordinary
  PROVE  Spec => []EntriesIntact
<1>1. Spec => []IInv
  BY Zenon, Invariance
<1>2. IInv => EntriesIntact
  BY Zenon, InvEntriesIntact
<1>3. QED BY <1>1, <1>2, PTL

\* Where there is room the margin of recovery reaches only what was not synced.
LEMMA LeftKeeps ==
  ASSUME NEW es \in SUBSET Entry, NEW W \in START .. END, NEW a \in Int, W <= a, a <= END, NEW x \in es, x.off < W
  PROVE  x \in Left(es, W, a)
<1>1. ~(a > END)
  BY Sizes
<1>2. Clip(a) = a
  BY Zenon, <1>1 DEF Clip
<1>3. x.off \in START .. END - 1
  BY Zenon DEF Entry, Positions
<1> DEFINE o == x.off
<1>4. offset_to_vol_offset(W) <= offset_to_vol_offset(a) /\ ~(offset_to_vol_offset(o) >= offset_to_vol_offset(W))
  <2>1. o < W
    BY Zenon
  <2> HIDE DEF o
  <2>2. QED BY <2>1, <1>3, Sizes DEF offset_to_vol_offset, o
<1>5. QED BY Zenon, <1>2, <1>4 DEF Left, clear_range

\* The step that ends the scan keeps the synced entries where there is room.
LEMMA SurvivesStop ==
  ASSUME Types, LostInv, ScanStop, Rooms(header, disk, reach), mode' = "writedir", NEW x \in durable.dir, x.phase = durable.header.phase
  PROVE  x \in dir'
<1> DEFINE s == rec.s  W == header.write_pos
           ms == IF Magic(disk[rec.s]) /\ disk[rec.s].ss > header.sync_serial THEN disk[rec.s].ss ELSE rec.maxSync
<1>1. /\ mode = "scan" /\ IF s > END - AGG_SIZE THEN ReadFrom(rec, START, TRUE) ELSE Ldone(s, ms)
  BY Zenon DEF ScanStop
<1>2. rec \in Recs /\ durable \in Copies /\ reach \in Nat /\ W \in START .. END /\ s \in START .. END /\ dir \in SUBSET Entry
  BY Zenon, LogRange DEF Types, Recs
<1>3. header = durable.header /\ dir = durable.dir
  BY Zenon, <1>1, ScanState
<1>4. s < W + reach + AGG_SIZE /\ W + reach + AGG_SIZE + EVACUATION_SIZE <= END /\ W <= s /\ ~rec.wrapped
  <2>1. mode \in {"check", "scan"}
    BY Zenon, <1>1
  <2>2. QED BY Zenon, <2>1, <1>1 DEF LostInv, Reading, Rooms, Stays, Room
<1> DEFINE a == s + EVACUATION_SIZE
<1>5. ~(s > END - AGG_SIZE) /\ W <= a /\ a <= END /\ ~(a < W) /\ a \in Int
  <2> HIDE DEF s, W
  <2> QED BY <1>2, <1>4, Sizes
<1>6. Ldone(s, ms)
  BY Zenon, <1>1, <1>5
<1>7. \E next : Leaves(s, next)
  <2> HIDE DEF s, ms
  <2> QED BY Zenon, <1>4, <1>5, <1>6, LdoneCases DEF a
<1>8. dir' = cleanup(header, 0, Left(dir, W, a))
  BY Zenon, <1>7 DEF Leaves
<1>9. x \in Entry /\ x.off + x.len <= W + 0
  <2>1. \E w \in BOOLEAN, G \in START .. END, F \in START .. END : Lost(durable, disk, reach, w, G, F)
    BY Zenon, <1>1, ScanState
  <2>2. QED BY Zenon, <2>1, <1>3 DEF Lost, Copied, Placed
<1>10. x.off < W /\ x.off < W + 0
  <2> DEFINE o == x.off  l == x.len
  <2>1. o \in START .. END - 1 /\ l \in 1 .. AGG_SIZE /\ o + l <= W + 0
    BY Zenon, <1>9 DEF Entry, Positions
  <2> HIDE DEF o, l, W
  <2>2. o < W /\ o < W + 0
    BY Zenon, <2>1, <1>2, StartsBefore
  <2>3. QED BY Zenon, <2>2 DEF o
<1>11. x \in Left(dir, W, a)
  <2> HIDE DEF W, a
  <2> QED BY Zenon, <1>2, <1>3, <1>5, <1>10, LeftKeeps
<1>12. QED BY Zenon, <1>3, <1>8, <1>10, <1>11 DEF cleanup, dir_valid, vol_in_phase_valid

\* A document whose entry was in the last synced directory, written on the lap of that sync,
\* outlives what the scan of the log decides (handle_recover_from_data, Ldone and Lclear), when
\* nothing is left over beyond the log that it could take for a part of it and the margin of
\* recovery does not reach the end of the stripe.
THEOREM SyncedSurvive ==
  ASSUME Ordinary
  PROVE  Spec => SyncedSurvives
<1> DEFINE A == CheckDoc \/ ScanFront \/ ScanExpected \/ ScanNewSerial \/ ScanStop
           Enough == durable.header.write_pos + reach + AGG_SIZE + EVACUATION_SIZE <= END /\ ~Leftover
           Lap == {e \in durable.dir : e.phase = durable.header.phase}
<1>1. ASSUME IInv, A, mode' = "writedir", Enough
      PROVE  Lap \subseteq dir'
  <2>1. mode \in {"check", "scan"}
    BY Zenon, <1>1 DEF CheckDoc, ScanFront, ScanExpected, ScanNewSerial, ScanStop
  <2>2. mode # "run"
    BY <2>1
  <2>3. Types /\ LostInv
    BY Zenon, <1>1, <2>2 DEF IInv
  <2>4. header = durable.header /\ Reading(header, disk, rec, reach)
    BY Zenon, <2>1, <2>3 DEF LostInv
  <2>5. Rooms(header, disk, reach)
    <3> DEFINE W == header.write_pos  L == header.last_write_pos
    <3>1. W + reach + AGG_SIZE + EVACUATION_SIZE <= END
      BY Zenon, <1>1, <2>4
    <3>2. ASSUME NEW p \in W + reach .. END - 1, IsDoc(disk, p)
          PROVE  SyncOf(disk, p) < SyncOf(disk, L)
      <4>1. ~(SyncOf(disk, p) >= SyncOf(disk, L))
        BY Zenon, <1>1, <2>4, <3>2 DEF Leftover, IsDoc, SyncOf
      <4>2. disk \in Disks /\ W \in START .. END /\ reach \in Nat
        BY Zenon, <2>3, LogRange DEF Types
      <4>3. p \in START .. END - 1
        <5> HIDE DEF W
        <5> QED BY <4>2, <3>2, Sizes
      <4>4. SyncOf(disk, p) \in Nat
        BY Zenon, <4>2, <4>3, <3>2, Cells
      <4>5. SyncOf(disk, L) \in Nat
        <5>1. header.sync_serial > 0
          BY Zenon, <2>4 DEF Reading
        <5>2. PICK w \in BOOLEAN, G \in START .. END, F \in START .. END : Lost(durable, disk, reach, w, G, F)
          BY Zenon, <5>1, <2>3, <2>4 DEF LostInv
        <5>3. LastWrite(W, L, header.write_serial, disk) /\ L < W /\ L \in START .. END
          BY Zenon, <5>2, <2>4 DEF Lost, Copied, LogSince, Log, LogArgs
        <5>4. IsDoc(disk, L)
          BY Zenon, <5>3 DEF LastWrite
        <5>5. L \in START .. END - 1
          <6> HIDE DEF L, W
          <6> QED BY <5>3, <4>2, Sizes
        <5>6. QED BY Zenon, <5>4, <5>5, <4>2, Cells
      <4> DEFINE y == SyncOf(disk, p)  z == SyncOf(disk, L)
      <4>6. y \in Nat /\ z \in Nat /\ ~(y >= z)
        BY Zenon, <4>1, <4>4, <4>5
      <4> HIDE DEF y, z
      <4>7. y < z
        BY <4>6
      <4>8. QED BY Zenon, <4>7 DEF y, z
    <3>3. QED BY Zenon, <3>1, <3>2 DEF Rooms, Room
  <2>6. CASE CheckDoc
    <3>1. mode' = "check"
      BY Zenon, <2>3, <2>6, CheckDocStep
    <3>2. FALSE
      BY <3>1, <1>1
    <3>3. QED BY Zenon, <3>2
  <2>7. CASE ScanExpected \/ ScanNewSerial
    <3>1. mode' = "scan"
      BY Zenon, <2>3, <2>5, <2>7, ScanExpectedStep, ScanNewSerialStep
    <3>2. FALSE
      BY <3>1, <1>1
    <3>3. QED BY Zenon, <3>2
  <2>8. CASE ScanFront
    <3>1. mode = "scan" /\ rec.wrapped
      BY Zenon, <2>8 DEF ScanFront, StaleFront
    <3>2. ~rec.wrapped
      BY Zenon, <3>1, <2>4, <2>5 DEF Reading, Rooms, Stays
    <3>3. QED BY Zenon, <3>1, <3>2
  <2>9. CASE ScanStop
    BY Zenon, <2>3, <2>5, <2>9, <1>1, SurvivesStop
  <2>10. QED BY Zenon, <1>1, <2>6, <2>7, <2>8, <2>9
<1>2. Spec => []IInv
  BY Zenon, Invariance
<1>3. IInv /\ [Next]_vars => [A /\ mode' = "writedir" /\ Enough => Lap \subseteq dir']_vars
  BY Zenon, <1>1
<1>4. QED BY <1>2, <1>3, PTL DEF Spec, SyncedSurvives

=============================================================================
