------------------------ MODULE DirectorySync_proofs ------------------------
(***************************************************************************)
(* Proofs about DirectorySync for directories and bodies of any size, when  *)
(* none of the three situations that the code does not handle arises.       *)
(***************************************************************************)
EXTENDS DirectorySync, TLAPS

Writers == {"sync", "recover", "shutdown"}

\* Copy A is as clearing leaves it.
Zero == \A p \in Parts : disk["A"][p] = Cleared

\* The serials of a copy agree and come from a write, and the copy is a whole one.
Good(h) == Matched(disk, h) /\ disk[h][Footer].serial # 0
Sound(h) ==
  /\ Whole(disk, h)
  /\ disk[h][Header].content \in past
  /\ Half(Serial(disk, h)) = h

\* Serials agree only in whole copies, but for those that clearing left
\* agreeing on 0, and these start-up does not choose.
CopyInv ==
  /\ \A h \in Halves : Good(h) => Sound(h)
  /\ disk["B"][Footer].serial = 0 => Zero
  /\ disk["A"][Footer].serial = 0 => Zero \/ Good("B")

\* The copy being written is the one that start-up does not choose.
WriterInv ==
  job.kind \in Writers =>
    /\ job.val.serial = memory.serial /\ job.val.serial > 0 /\ Half(job.val.serial) = job.half
    /\ job.val.content \in Contents
    /\ \A p \in Parts : p < job.part => disk[job.half][p] = job.val
    /\ job.part \in Parts =>
         /\ Chosen(disk) = {Other(job.half)}
         /\ Serial(disk, Other(job.half)) < job.val.serial
         /\ disk[job.half][Footer].serial # job.val.serial
    /\ job.part \notin Parts => Chosen(disk) = {job.half}

ClearInv ==
  /\ job.kind \in {"clear", "clearB"} => job.val = Cleared /\ memory = Cleared
  /\ job.kind = "clear" => job.half = "A" /\ \A p \in Parts : p < job.part => disk["A"][p] = Cleared
  /\ job.kind = "clearB" => job.half = "B" /\ job.part = Header /\ Zero

ModeInv ==
  /\ stray = NoJob
  /\ job.kind = "none" => job = NoJob
  /\ mode = "down" => job.kind = "none"
  /\ mode = "up" => job.kind \in {"none", "sync"}
  /\ mode = "up" => (syncing <=> job.kind = "sync")
  /\ mode \in {"down", "start"} => ~syncing
  /\ mode = "start" => job.kind \in {"recover", "clear", "clearB"}
  /\ mode = "stop" => job.kind \in {"none", "shutdown"}
  /\ mode \in {"up", "stop"} /\ job.kind = "none" =>
       \E h \in Halves : Chosen(disk) = {h} /\ memory.serial = Serial(disk, h)

IInv ==
  /\ TypeOK
  /\ memory.content \in Contents /\ past \subseteq Contents /\ Empty \in past
  /\ CopyInv /\ WriterInv /\ ClearInv /\ ModeInv


USE SyncAssumption

\* Consecutive serials belong to different copies.
LEMMA HalfAlternates == \A n \in Nat : Half(n + 1) = Other(Half(n)) /\ Half(n) \in Halves
  BY DEF Half, Other, Halves

LEMMA HalfOfZero == Half(0) = "A"
  BY DEF Half

LEMMA PartsFacts ==
  /\ Header \in Parts /\ Footer \in Parts /\ Header # Footer /\ Footer \in Nat /\ Footer + 1 \notin Parts
  /\ \A p \in 0 .. Chunks + 2 : p \in Parts \/ p = Footer + 1
  /\ \A p \in Parts : p + 1 \in 0 .. Chunks + 2 /\ p >= 0
  /\ \A p \in Parts : p # Footer => p + 1 \in Parts
  /\ Parts \subseteq Nat
  BY DEF Header, Footer, Parts

\* Start-up chooses whole copies of contents that were completed.
LEMMA ChosenSound ==
  ASSUME IInv, NEW h \in Chosen(disk)
  PROVE  Sound(h) /\ h \in Halves /\ Matched(disk, h) /\ Chosen(disk) = {h}
<1>1. CASE h = "A"
  <2>1. CASE disk["A"][Footer].serial # 0
    BY Zenon, <1>1, <2>1 DEF IInv, CopyInv, Good, Chosen, Halves
  <2>2. CASE disk["A"][Footer].serial = 0
    <3>1. Matched(disk, "A") /\ Serial(disk, "A") = 0 /\ (0 >= Serial(disk, "B") \/ ~Matched(disk, "B"))
      BY Zenon, <1>1, <2>2 DEF Chosen, Matched, Serial
    <3>2. ~Good("B")
      BY <3>1, PartsFacts DEF Good, Matched, Serial, IInv, TypeOK, Part, Halves
    <3>3. Zero
      BY Zenon, <2>2, <3>2 DEF IInv, CopyInv
    <3> QED
      BY <1>1, <3>1, <3>3, HalfOfZero, PartsFacts DEF Sound, Whole, Zero, Cleared, IInv, Halves, Chosen, Serial
  <2> QED
    BY Zenon, <2>1, <2>2
<1>2. CASE h = "B"
  <2>1. ~(Matched(disk, "A") /\ Serial(disk, "A") >= Serial(disk, "B")) /\ Matched(disk, "B") /\ Chosen(disk) = {"B"}
    BY Zenon, <1>2 DEF Chosen
  <2>2. disk["B"][Footer].serial # 0
    BY <2>1, PartsFacts DEF IInv, CopyInv, Zero, Cleared, Matched, Serial
  <2> QED
    BY Zenon, <1>2, <2>1, <2>2 DEF IInv, CopyInv, Good, Halves
<1> QED
  BY Zenon, <1>1, <1>2 DEF Chosen

\* The copy that is not being written holds what start-up would choose.
LEMMA WriterFacts ==
  ASSUME IInv, job.kind \in Writers, job.part \in Parts
  PROVE  /\ job.half = "A" => Good("B")
         /\ job.half = "B" => (disk["A"][Footer].serial = 0 => Zero)
<1>1. Chosen(disk) = {Other(job.half)}
  BY Zenon DEF IInv, WriterInv
<1>2. ASSUME job.half = "A" PROVE Good("B")
  <2>1. Chosen(disk) = {"B"} /\ Matched(disk, "B")
    BY Zenon, <1>1, <1>2, ChosenSound DEF Other
  <2>2. disk["B"][Footer].serial # 0
    <3>1. SUFFICES ASSUME disk["B"][Footer].serial = 0 PROVE Chosen(disk) = {"A"}
      BY Zenon, <2>1
    <3>2. disk["A"][Header].serial = 0 /\ disk["A"][Footer].serial = 0 /\ disk["B"][Header].serial = 0
      BY <2>1, <3>1, PartsFacts DEF IInv, CopyInv, Zero, Cleared, Matched
    <3> QED
      BY <3>2 DEF Chosen, Matched, Serial
  <2> QED
    BY Zenon, <2>1, <2>2 DEF Good
<1>3. ASSUME job.half = "B", disk["A"][Footer].serial = 0 PROVE Zero
  <2>1. Matched(disk, "A") /\ Serial(disk, "A") = 0
    BY Zenon, <1>1, <1>3, ChosenSound DEF Other, Matched, Serial
  <2>2. ~Good("B")
    <3>1. SUFFICES ASSUME Good("B") PROVE Chosen(disk) # {"A"}
      BY Zenon, <1>1, <1>3 DEF Other
    <3>2. Serial(disk, "B") \in Nat /\ Serial(disk, "B") # 0 /\ Matched(disk, "B")
      BY Zenon, <3>1, PartsFacts DEF Good, Matched, Serial, IInv, TypeOK, Part, Halves
    <3> QED
      BY <2>1, <3>2 DEF Chosen
  <2> QED
    BY Zenon, <1>3, <2>2 DEF IInv, CopyInv
<1> QED
  BY Zenon, <1>2, <1>3

\* A sync, a recovery or a shutdown writes the copy that is not chosen; its
\* footer makes that copy the chosen one.
LEMMA WriterChosen ==
  ASSUME IInv, NEW kind \in Writers, WriteNext(kind)
  PROVE  /\ disk' \in [Halves -> [Parts -> Part]]
         /\ \A p \in Parts : p <= job.part => disk'[job.half][p] = job.val
         /\ \A p \in Parts : disk'[Other(job.half)][p] = disk[Other(job.half)][p]
         /\ job.part # Footer => disk'[job.half][Footer] = disk[job.half][Footer]
         /\ job.part # Footer => ~Matched(disk', job.half)
         /\ Chosen(disk') = {IF job.part = Footer THEN job.half ELSE Other(job.half)}
<1> DEFINE g == job.half
           o == Other(job.half)
           n == job.val.serial
<1>1. /\ job.kind \in Writers /\ job.part \in Parts /\ g \in Halves /\ o \in Halves /\ g # o
      /\ job.val \in Part /\ n \in Nat /\ disk \in [Halves -> [Parts -> Part]]
      /\ disk' = [disk EXCEPT ![g][job.part] = job.val]
  BY Zenon DEF WriteNext, IInv, TypeOK, Job, Part, Halves, Other
<1>2. /\ Chosen(disk) = {o} /\ Serial(disk, o) < n /\ disk[g][Footer].serial # n
      /\ \A p \in Parts : p < job.part => disk[g][p] = job.val
  BY Zenon, <1>1 DEF IInv, WriterInv
<1>3. disk' \in [Halves -> [Parts -> Part]]
  BY Zenon, <1>1
<1>4. \A p \in Parts : disk'[o][p] = disk[o][p]
  BY Zenon, <1>1
<1>5. \A p \in Parts : p # job.part => disk'[g][p] = disk[g][p]
  BY Zenon, <1>1
<1>6. disk'[g][job.part] = job.val
  BY Zenon, <1>1
<1>7. ASSUME NEW p \in Parts, p <= job.part PROVE disk'[g][p] = job.val
  <2>0. p \in Nat /\ job.part \in Nat
    BY Zenon, <1>1, PartsFacts
  <2>1. p = job.part \/ p < job.part
    BY <1>7, <2>0
  <2>2. CASE p = job.part
    BY Zenon, <1>6, <2>2
  <2>3. CASE p < job.part
    <3>1. p # job.part
      BY <2>3, <1>1, PartsFacts
    <3> QED
      BY Zenon, <1>2, <1>5, <2>3, <3>1
  <2> QED
    BY Zenon, <2>1, <2>2, <2>3
<1>8. job.part # Footer => disk'[g][Footer] = disk[g][Footer]
  BY Zenon, <1>5, PartsFacts
<1>9. disk'[g][Header] = job.val
  BY Zenon, <1>1, <1>7, PartsFacts DEF Header
<1>10. job.part # Footer => ~Matched(disk', g)
  BY Zenon, <1>2, <1>8, <1>9 DEF Matched
<1>11. job.part = Footer => disk'[g][Footer] = job.val
  BY Zenon, <1>6
<1>12. Matched(disk, o) /\ Matched(disk', o) /\ Serial(disk', o) = Serial(disk, o)
  BY Zenon, <1>2, <1>4, ChosenSound, PartsFacts DEF Matched, Serial
<1>13. Serial(disk', o) \in Nat /\ Serial(disk', g) = n
  BY Zenon, <1>3, <1>1, <1>9, PartsFacts DEF Serial, Part
<1>14. Chosen(disk') = {IF job.part = Footer THEN g ELSE o}
  <2>1. CASE job.part = Footer
    <3>1. Matched(disk', g)
      BY Zenon, <1>9, <1>11, <2>1 DEF Matched
    <3>2. Serial(disk', o) < Serial(disk', g) /\ Serial(disk', g) \in Nat /\ Serial(disk', o) \in Nat
      BY Zenon, <1>1, <1>2, <1>12, <1>13 DEF Part
    <3>3. ~(Serial(disk', o) >= Serial(disk', g)) /\ Serial(disk', g) >= Serial(disk', o)
      BY <3>2
    <3>4. CASE g = "A"
      BY Zenon, <1>12, <2>1, <3>1, <3>3, <3>4 DEF Chosen, Other
    <3>5. CASE g = "B"
      BY Zenon, <1>12, <2>1, <3>1, <3>3, <3>5 DEF Chosen, Other
    <3> QED
      BY Zenon, <1>1, <3>4, <3>5 DEF Halves
  <2>2. CASE job.part # Footer
    BY Zenon, <1>1, <1>10, <1>12, <2>2 DEF Chosen, Halves, Other
  <2> QED
    BY Zenon, <2>1, <2>2
<1> QED
  BY Zenon, <1>3, <1>4, <1>7, <1>8, <1>10, <1>14

LEMMA WriterStep ==
  ASSUME IInv, NEW kind \in Writers, WriteNext(kind)
  PROVE  IInv'
<1> DEFINE g == job.half
           o == Other(job.half)
           n == job.val.serial
<1>0. /\ disk' \in [Halves -> [Parts -> Part]]
      /\ \A p \in Parts : p <= job.part => disk'[g][p] = job.val
      /\ \A p \in Parts : disk'[o][p] = disk[o][p]
      /\ job.part # Footer => disk'[g][Footer] = disk[g][Footer]
      /\ job.part # Footer => ~Matched(disk', g)
      /\ Chosen(disk') = {IF job.part = Footer THEN g ELSE o}
  BY Zenon, WriterChosen
<1>1. /\ job.kind \in Writers /\ job.part \in Parts /\ g \in Halves /\ o \in Halves /\ g # o
      /\ Halves = {g, o} /\ job \in Job
      /\ job.val \in Part /\ n \in Nat /\ n > 0 /\ job.val.content \in Contents /\ Half(n) = g
      /\ job' = [job EXCEPT !.part = @ + 1]
      /\ past' = IF job.part = Footer THEN past \union {job.val.content} ELSE past
      /\ UNCHANGED <<memory, dirty, syncing, stray, mode>>
  BY Zenon DEF WriteNext, IInv, TypeOK, Job, Part, Halves, Other, WriterInv
<1>2. Chosen(disk) = {o} /\ Serial(disk, o) < n /\ disk[g][Footer].serial # n
  BY Zenon, <1>1 DEF IInv, WriterInv
<1>3. TypeOK' /\ memory'.content \in Contents /\ past' \subseteq Contents /\ Empty \in past'
  BY Zenon, <1>0, <1>1, PartsFacts DEF IInv, TypeOK, Job
<1>4. /\ job'.kind = job.kind /\ job'.half = g /\ job'.val = job.val /\ job'.part = job.part + 1
  BY Zenon, <1>1 DEF Job
<1>5. CopyInv'
  <2>1. Good(g)' => Sound(g)'
    <3>1. CASE job.part = Footer
      <4>1. \A p \in Parts : disk'[g][p] = job.val
        BY <1>0, <3>1, PartsFacts DEF Parts, Header, Footer
      <4> QED
        BY <1>1, <3>1, <4>1, PartsFacts DEF Sound, Whole, Serial
    <3>2. CASE job.part # Footer
      BY Zenon, <1>0, <1>4, <3>2 DEF Good
    <3> QED
      BY Zenon, <3>1, <3>2
  <2>2. Good(o)' <=> Good(o)
    BY <1>0, <1>1, PartsFacts DEF Good, Matched
  <2>3. Sound(o) => Sound(o)'
    BY <1>0, <1>1, PartsFacts DEF Sound, Whole, Serial
  <2>4. CASE g = "A"
    <3>1. Good("B") /\ disk["B"][Footer].serial # 0
      BY Zenon, <1>1, <2>4, WriterFacts DEF Good
    <3> QED
      BY <1>0, <1>1, <2>1, <2>2, <2>3, <2>4, <3>1, PartsFacts DEF IInv, CopyInv, Other, Halves
  <2>5. CASE g = "B"
    <3>1. Zero' <=> Zero
      BY Zenon, <1>0, <2>5 DEF Zero, Other
    <3>2. disk'["A"][Footer].serial = 0 => Zero
      BY Zenon, <1>0, <1>1, <2>5, WriterFacts, PartsFacts DEF Other
    <3>3. disk'["B"][Footer].serial = 0 => Zero
      BY <1>0, <1>1, <2>5, PartsFacts DEF IInv, CopyInv
    <3> QED
      BY <1>0, <1>1, <2>1, <2>2, <2>3, <2>5, <3>1, <3>2, <3>3 DEF IInv, CopyInv, Other, Halves
  <2> QED
    BY Zenon, <1>1, <2>4, <2>5 DEF Halves
<1>6. WriterInv'
  <2>1. \A p \in Parts : p < job.part + 1 => disk'[g][p] = job.val
    BY <1>0, <1>1, PartsFacts
  <2>2. job.part + 1 \in Parts => job.part # Footer
    BY Zenon, PartsFacts
  <2>3. job.part + 1 \notin Parts => job.part = Footer
    BY Zenon, <1>1, PartsFacts
  <2>4. Serial(disk', o) = Serial(disk, o)
    BY Zenon, <1>0, PartsFacts DEF Serial
  <2>5. n = memory.serial
    BY Zenon, <1>1 DEF IInv, WriterInv
  <2> QED
    BY Zenon, <1>0, <1>1, <1>2, <1>4, <2>1, <2>2, <2>3, <2>4, <2>5 DEF WriterInv
<1>7. ClearInv' /\ ModeInv'
  BY Zenon, <1>1, <1>4 DEF IInv, ClearInv, ModeInv, Writers
<1> QED
  BY Zenon, <1>3, <1>5, <1>6, <1>7 DEF IInv

\* Clearing writes copy A from its header to its footer.
LEMMA ClearStep ==
  ASSUME IInv, mode = "start", WriteNext("clear")
  PROVE  IInv'
<1>1. /\ job \in Job /\ job.kind = "clear" /\ job.half = "A" /\ job.val = Cleared /\ job.part \in Parts
      /\ disk \in [Halves -> [Parts -> Part]] /\ "A" \in Halves /\ "B" \in Halves
      /\ Cleared \in Part /\ Cleared.serial = 0
      /\ \A p \in Parts : p < job.part => disk["A"][p] = Cleared
      /\ disk' = [disk EXCEPT !["A"][job.part] = Cleared]
      /\ job' = [job EXCEPT !.part = @ + 1]
      /\ UNCHANGED <<memory, dirty, syncing, stray, mode>>
  BY Zenon DEF WriteNext, IInv, TypeOK, ClearInv, Halves, Cleared, Part
<1>0. past' = past
  BY <1>1 DEF WriteNext, IInv, Cleared
<1>2. /\ \A p \in Parts : disk'["B"][p] = disk["B"][p]
      /\ \A p \in Parts : p # job.part => disk'["A"][p] = disk["A"][p]
      /\ disk'["A"][job.part] = Cleared
      /\ disk' \in [Halves -> [Parts -> Part]]
  BY Zenon, <1>1
<1>3. ASSUME NEW p \in Parts, p < job.part + 1 PROVE disk'["A"][p] = Cleared
  <2>0. p \in Nat /\ job.part \in Nat
    BY Zenon, <1>1, PartsFacts
  <2>1. p = job.part \/ (p < job.part /\ p # job.part)
    BY <1>3, <2>0
  <2> QED
    BY Zenon, <1>1, <1>2, <2>1
<1>4. TypeOK' /\ memory'.content \in Contents /\ past' \subseteq Contents /\ Empty \in past'
  BY Zenon, <1>0, <1>1, <1>2, PartsFacts DEF IInv, TypeOK, Job
<1>5. job'.kind = "clear" /\ job'.half = "A" /\ job'.val = Cleared /\ job'.part = job.part + 1
  BY Zenon, <1>1 DEF Job
<1>6. CopyInv'
  <2>1. disk'["A"][Header].serial = 0
    BY <1>1, <1>3, PartsFacts DEF Header
  <2>2. Zero => Zero'
    BY <1>2 DEF Zero
  <2>3. (Good("B")' <=> Good("B")) /\ (Sound("B") => Sound("B")')
    BY Zenon, <1>0, <1>1, <1>2, PartsFacts DEF Good, Matched, Sound, Whole, Serial
  <2>4. ~Good("A")'
    BY Zenon, <2>1 DEF Good, Matched
  <2>5. disk'["A"][Footer].serial = 0 => Zero' \/ Good("B")
    <3>1. CASE job.part = Footer
      BY <1>3, <3>1 DEF Zero, Parts, Header, Footer
    <3>2. CASE job.part # Footer
      BY Zenon, <1>2, <2>2, <3>2, PartsFacts DEF IInv, CopyInv
    <3> QED
      BY Zenon, <3>1, <3>2
  <2>6. disk'["B"][Footer].serial = 0 => Zero'
    BY Zenon, <1>2, <2>2, PartsFacts DEF IInv, CopyInv
  <2> QED
    BY Zenon, <2>3, <2>4, <2>5, <2>6 DEF IInv, CopyInv, Halves
<1>7. ClearInv' /\ WriterInv' /\ ModeInv'
  BY Zenon, <1>1, <1>3, <1>5 DEF IInv, ClearInv, WriterInv, ModeInv, Writers
<1> QED
  BY Zenon, <1>4, <1>6, <1>7 DEF IInv

\* Clearing ends with the header of copy B, which then disagrees with its footer.
LEMMA ClearDoneStep ==
  ASSUME IInv, ClearDone
  PROVE  IInv' /\ Chosen(disk') = {"A"} /\ Zero'
<1>1. /\ job \in Job /\ job.kind = "clearB" /\ job.val = Cleared /\ Zero /\ mode = "start" /\ mode' = "up"
      /\ disk \in [Halves -> [Parts -> Part]] /\ "A" \in Halves /\ "B" \in Halves
      /\ Cleared \in Part /\ Cleared.serial = 0 /\ Cleared.content = Empty
      /\ disk' = [disk EXCEPT !["B"][Header] = Cleared]
      /\ job' = NoJob /\ past' = {Empty}
      /\ UNCHANGED <<memory, dirty, syncing, stray>>
  BY Zenon DEF ClearDone, IInv, TypeOK, ClearInv, Halves, Cleared, Part
<1>2. /\ \A p \in Parts : disk'["A"][p] = disk["A"][p]
      /\ \A p \in Parts : p # Header => disk'["B"][p] = disk["B"][p]
      /\ disk'["B"][Header] = Cleared
      /\ disk' \in [Halves -> [Parts -> Part]]
  BY Zenon, <1>1, PartsFacts
<1>3. Zero'
  BY Zenon, <1>1, <1>2 DEF Zero
<1>4. Matched(disk', "A") /\ Serial(disk', "A") = 0 /\ Serial(disk', "B") = 0 /\ ~Good("A")'
  BY Zenon, <1>1, <1>2, <1>3, PartsFacts DEF Zero, Matched, Serial, Good
<1>5. Chosen(disk') = {"A"}
  BY <1>4 DEF Chosen
<1>6. ~Good("B")'
  BY Zenon, <1>1, <1>2 DEF Good, Matched
<1>7. CopyInv'
  BY Zenon, <1>3, <1>4, <1>6 DEF CopyInv, Halves
<1>8. NoJob \in Job /\ NoJob.kind = "none"
  BY Zenon, PartsFacts DEF NoJob, Job, Halves, Kinds, Part, Cleared, Footer
<1>9. TypeOK' /\ memory'.content \in Contents /\ past' \subseteq Contents /\ Empty \in past'
  BY Zenon, <1>1, <1>2, <1>8 DEF IInv, TypeOK
<1>10. WriterInv' /\ ClearInv'
  BY Zenon, <1>1, <1>8 DEF WriterInv, ClearInv, Writers
<1>11. memory'.serial = Serial(disk', "A") /\ syncing' = FALSE
  BY Zenon, <1>1, <1>4 DEF IInv, ClearInv, Cleared, ModeInv, TypeOK
<1>12. ModeInv'
  BY Zenon, <1>1, <1>5, <1>8, <1>11 DEF IInv, ModeInv
<1> QED
  BY Zenon, <1>3, <1>5, <1>7, <1>9, <1>10, <1>12 DEF IInv

\* A crash leaves copies whose serials agree whole.
LEMMA CrashStep ==
  ASSUME IInv, Crash
  PROVE  IInv'
<1>1. /\ mode' = "down" /\ job' = NoJob /\ stray' = NoJob /\ memory' = Cleared
      /\ dirty' = FALSE /\ syncing' = FALSE /\ past' = past
  BY Zenon DEF Crash
<1>2. /\ disk \in [Halves -> [Parts -> Part]] /\ job \in Job /\ NoJob \in Job /\ NoJob.kind = "none"
      /\ Cleared \in Part /\ Cleared.content = Empty /\ Cleared.serial = 0
  BY Zenon, PartsFacts DEF IInv, TypeOK, NoJob, Job, Halves, Kinds, Part, Cleared, Footer
<1>3. ASSUME disk' \in [Halves -> [Parts -> Part]], CopyInv' PROVE IInv'
  BY Zenon, <1>1, <1>2, <1>3 DEF IInv, TypeOK, WriterInv, ClearInv, ModeInv, Writers
<1>4. CASE UNCHANGED disk
  BY Zenon, <1>1, <1>2, <1>3, <1>4 DEF IInv, CopyInv, Good, Sound, Zero
<1>5. CASE /\ job.part \in Parts \ {Footer}
           /\ disk[job.half][job.part].content # job.val.content
           /\ disk' = [disk EXCEPT ![job.half][job.part] = [job.val EXCEPT !.content = Torn]]
  <2> DEFINE torn == [job.val EXCEPT !.content = Torn]
  <2>1. torn \in Part /\ torn.serial = job.val.serial /\ job.half \in Halves /\ job.val \in Part
    BY Zenon, <1>2 DEF Job, Part
  <2>2. /\ disk' \in [Halves -> [Parts -> Part]]
        /\ disk'[job.half][job.part] = torn
        /\ \A p \in Parts : p # job.part => disk'[job.half][p] = disk[job.half][p]
        /\ \A p \in Parts : disk'[Other(job.half)][p] = disk[Other(job.half)][p]
    BY Zenon, <1>2, <1>5, <2>1 DEF Other, Halves
  <2>3. disk'[job.half][Footer] = disk[job.half][Footer]
    BY Zenon, <1>5, <2>2, PartsFacts
  <2>4. (\A p \in Parts : p < job.part => disk[job.half][p] = job.val) => disk'[job.half][Header].serial = job.val.serial
    <3>1. CASE job.part = Header
      BY Zenon, <2>1, <2>2, <3>1
    <3>2. CASE job.part # Header
      <4>1. Header < job.part
        BY <1>5, <3>2, PartsFacts DEF Header
      <4> QED
        BY Zenon, <2>2, <3>2, <4>1, PartsFacts
    <3> QED
      BY Zenon, <3>1, <3>2
  <2>5. ASSUME NEW g \in Halves, g = job.half, ~Matched(disk', g) \/ disk'[g][Footer].serial = 0
        PROVE  \A h \in Halves : Good(h)' => Sound(h)' /\ h = Other(g) /\ Good(h)
    <3>1. ~Good(g)'
      BY Zenon, <2>5 DEF Good
    <3>2. ASSUME NEW h \in Halves, h # g, Good(h)' PROVE Sound(h)' /\ h = Other(g) /\ Good(h)
      <4>1. h = Other(g) /\ \A p \in Parts : disk'[h][p] = disk[h][p]
        BY Zenon, <2>2, <2>5, <3>2 DEF Other, Halves
      <4>2. Good(h) /\ Sound(h)
        BY Zenon, <3>2, <4>1, PartsFacts DEF Good, Matched, IInv, CopyInv
      <4> QED
        BY Zenon, <1>1, <4>1, <4>2, PartsFacts DEF Sound, Whole, Serial
    <3> QED
      BY Zenon, <3>1, <3>2
  <2>6. CASE job.kind \in Writers
    <3>1. ~Matched(disk', job.half)
      BY Zenon, <1>5, <2>3, <2>4, <2>6 DEF IInv, WriterInv, Matched
    <3>2. CASE job.half = "A"
      <4>1. Good("B") /\ \A p \in Parts : disk'["B"][p] = disk["B"][p]
        BY Zenon, <1>5, <2>2, <2>6, <3>2, WriterFacts DEF Other
      <4>2. Good("B")' /\ disk'["B"][Footer].serial # 0
        BY Zenon, <4>1, PartsFacts DEF Good, Matched
      <4> QED
        BY Zenon, <1>3, <2>1, <2>2, <2>5, <3>1, <3>2, <4>2 DEF CopyInv
    <3>3. CASE job.half = "B"
      <4>1. (Zero => Zero') /\ disk'["A"][Footer] = disk["A"][Footer]
        BY Zenon, <2>2, <3>3, PartsFacts DEF Zero, Other
      <4>2. disk'["A"][Footer].serial = 0 => Zero'
        BY Zenon, <1>5, <2>6, <3>3, <4>1, WriterFacts
      <4>3. disk'["B"][Footer].serial = 0 => Zero'
        BY Zenon, <2>3, <3>3, <4>1 DEF IInv, CopyInv
      <4> QED
        BY Zenon, <1>3, <2>1, <2>2, <2>5, <3>1, <3>3, <4>2, <4>3 DEF CopyInv
    <3> QED
      BY Zenon, <2>1, <3>2, <3>3 DEF Halves
  <2>7. CASE job.kind = "clear"
    <3>1. job.half = "A" /\ job.val = Cleared /\ disk'["A"][Header].serial = 0
      BY Zenon, <1>2, <2>4, <2>7 DEF IInv, ClearInv
    <3>2. ~Matched(disk', "A") \/ disk'["A"][Footer].serial = 0
      BY Zenon, <3>1 DEF Matched
    <3>3. ~Zero
      BY Zenon, <1>2, <1>5, <3>1 DEF Zero
    <3>4. disk'["A"][Footer] = disk["A"][Footer] /\ \A p \in Parts : disk'["B"][p] = disk["B"][p]
      BY Zenon, <2>2, <2>3, <3>1 DEF Other
    <3>5. disk'["B"][Footer].serial # 0
      BY Zenon, <3>3, <3>4, PartsFacts DEF IInv, CopyInv
    <3>6. disk'["A"][Footer].serial = 0 => Good("B")'
      BY Zenon, <3>3, <3>4, PartsFacts DEF IInv, CopyInv, Good, Matched
    <3> QED
      BY Zenon, <1>3, <2>1, <2>2, <2>5, <3>1, <3>2, <3>5, <3>6 DEF CopyInv
  <2>8. CASE job.kind = "clearB"
    <3>1. job.half = "B" /\ job.val = Cleared /\ disk'["B"][Header].serial = 0 /\ Zero
      BY Zenon, <1>2, <2>1, <2>2, <2>8 DEF IInv, ClearInv
    <3>2. ~Matched(disk', "B") \/ disk'["B"][Footer].serial = 0
      BY Zenon, <3>1 DEF Matched
    <3>3. Zero'
      BY Zenon, <2>2, <3>1 DEF Zero, Other
    <3> QED
      BY Zenon, <1>3, <2>1, <2>2, <2>5, <3>1, <3>2, <3>3 DEF CopyInv
  <2> QED
    <3>1. job.kind \in Kinds
      BY Zenon, <1>2 DEF Job
    <3>2. job.kind # "none"
      <4>1. job = NoJob => job.part = Footer + 1
        BY DEF NoJob
      <4>2. job # NoJob
        BY Zenon, <1>5, <4>1, PartsFacts
      <4> QED
        BY Zenon, <4>2 DEF IInv, ModeInv
    <3> QED
      BY Zenon, <2>6, <2>7, <2>8, <3>1, <3>2 DEF Kinds, Writers
<1> QED
  BY Zenon, <1>4, <1>5 DEF Crash

\* A write that starts goes to the copy that is not chosen.
LEMMA StartFacts ==
  ASSUME IInv, NEW h \in Halves, Chosen(disk) = {h}, NEW n \in Nat,
         n > Serial(disk, h), Half(n) # Half(Serial(disk, h)), disk[Half(n)][Footer].serial # n
  PROVE  /\ Half(n) \in Halves /\ h = Other(Half(n)) /\ n > 0
         /\ Chosen(disk) = {Other(Half(n))} /\ Serial(disk, Other(Half(n))) < n
<1>1. Half(Serial(disk, h)) = h
  BY Zenon, ChosenSound DEF Sound
<1>2. Serial(disk, h) \in Nat
  BY PartsFacts DEF IInv, TypeOK, Part, Serial
<1>3. Half(n) \in Halves /\ h = Other(Half(n))
  BY Zenon, <1>1, HalfAlternates DEF Halves, Other
<1> QED
  BY <1>2, <1>3

LEMMA IdleStep ==
  ASSUME IInv, Situations = {}, UNCHANGED disk,
         Update \/ SyncStart \/ SyncFinish \/ SyncError \/ ShutdownStart \/ ShutdownIdle
           \/ Boot \/ BootRecover \/ RecoverDone \/ BootClear \/ ClearHeaderB
  PROVE  IInv'
<1>0. /\ disk \in [Halves -> [Parts -> Part]] /\ job \in Job /\ NoJob \in Job /\ NoJob.kind = "none"
      /\ Cleared \in Part /\ Cleared.content = Empty /\ Cleared.serial = 0 /\ memory \in Part
      /\ NoJob.part \notin Parts /\ disk' = disk /\ Header \in 0 .. Chunks + 2
  BY PartsFacts, SMTT(30) DEF IInv, TypeOK, NoJob, Job, Halves, Kinds, Part, Cleared, Footer, Header
<1>1. past' = past => CopyInv'
  BY Zenon, <1>0 DEF IInv, CopyInv, Good, Sound, Zero
<1>2. ASSUME Update PROVE IInv'
  <2>1. PICK c \in Contents : memory' = [memory EXCEPT !.content = c]
    BY Zenon, <1>2 DEF Update
  <2>2. memory' \in Part /\ memory'.serial = memory.serial /\ memory'.content \in Contents
    BY Zenon, <1>0, <2>1 DEF Part
  <2>3. dirty' = TRUE /\ UNCHANGED <<disk, syncing, job, stray, mode, past>> /\ mode = "up"
    BY Zenon, <1>2 DEF Update
  <2>4. TypeOK' /\ CopyInv'
    BY Zenon, <1>1, <2>2, <2>3 DEF IInv, TypeOK
  <2>5. WriterInv' /\ ClearInv' /\ ModeInv'
    BY Zenon, <2>2, <2>3 DEF IInv, WriterInv, ClearInv, ModeInv, Zero
  <2> QED
    BY Zenon, <2>2, <2>3, <2>4, <2>5 DEF IInv
<1>3. ASSUME NEW kind \in Writers, NEW val \in Part, val.content \in Contents,
             NEW h \in Halves, Chosen(disk) = {h},
             val.serial > Serial(disk, h), Half(val.serial) # Half(Serial(disk, h)),
             disk[Half(val.serial)][Footer].serial # val.serial,
             memory' = val, Start(kind, Half(val.serial), val), past' = past, stray' = NoJob,
             dirty' \in BOOLEAN, syncing' \in BOOLEAN,
             \/ kind = "sync" /\ mode' = "up" /\ syncing' = TRUE
             \/ kind = "recover" /\ mode' = "start" /\ syncing' = FALSE
             \/ kind = "shutdown" /\ mode' = "stop"
      PROVE  IInv'
  <2>1. /\ Half(val.serial) \in Halves /\ val.serial > 0 /\ val.serial \in Nat
        /\ Chosen(disk) = {Other(Half(val.serial))} /\ Serial(disk, Other(Half(val.serial))) < val.serial
    BY Zenon, <1>3, StartFacts DEF Part
  <2>2. /\ job' \in Job /\ job'.kind = kind /\ job'.half = Half(val.serial) /\ job'.part = Header /\ job'.val = val
    BY Zenon, <1>0, <1>3, <2>1 DEF Start, Job, Kinds, Writers
  <2>3. TypeOK' /\ CopyInv'
    BY Zenon, <1>0, <1>1, <1>3, <2>2 DEF IInv, TypeOK
  <2>4. WriterInv'
    <3>1. \A p \in Parts : ~(p < Header)
      BY PartsFacts DEF Header
    <3> QED
      BY Zenon, <1>0, <1>3, <2>1, <2>2, <3>1, PartsFacts DEF WriterInv
  <2>5. ClearInv' /\ ModeInv'
    BY Zenon, <1>3, <2>2 DEF ClearInv, ModeInv, Writers
  <2> QED
    BY Zenon, <1>3, <2>3, <2>4, <2>5 DEF IInv
<1>4. ASSUME SyncStart PROVE IInv'
  <2> DEFINE val == [memory EXCEPT !.serial = @ + 1]
  <2>1. /\ val \in Part /\ val.serial = memory.serial + 1 /\ val.content \in Contents /\ memory.serial \in Nat
    BY <1>0 DEF Part, IInv
  <2>2. job = NoJob /\ mode = "up" /\ stray = NoJob
    BY Zenon, <1>4 DEF SyncStart, IInv, ModeInv
  <2>3. PICK h \in Halves : Chosen(disk) = {h} /\ memory.serial = Serial(disk, h)
    BY Zenon, <1>0, <2>2 DEF IInv, ModeInv
  <2>4. Half(val.serial) # Half(Serial(disk, h)) /\ val.serial > Serial(disk, h)
    BY <2>1, <2>3, HalfAlternates DEF Other, Halves
  <2>5. /\ disk[Half(val.serial)][Footer].serial # val.serial /\ memory' = val
        /\ Start("sync", Half(val.serial), val) /\ past' = past /\ stray' = NoJob
        /\ dirty' \in BOOLEAN /\ syncing' = TRUE /\ mode' = "up"
    BY Zenon, <1>4, <2>2 DEF SyncStart, Fresh
  <2> QED
    BY Zenon, <1>3, <2>1, <2>3, <2>4, <2>5 DEF Writers
<1>5. ASSUME SyncFinish PROVE IInv'
  <2>1. /\ job.kind = "sync" /\ job.part = Footer + 1 /\ job' = NoJob /\ syncing' = FALSE /\ mode = "up"
        /\ UNCHANGED <<memory, dirty, stray, mode, past>>
    BY Zenon, <1>5 DEF SyncFinish
  <2>2. Chosen(disk) = {job.half} /\ job.half \in Halves /\ memory.serial = job.val.serial /\ disk[job.half][Header] = job.val
    BY <1>0, <2>1, PartsFacts, SMTT(30) DEF IInv, WriterInv, Writers, Job, Header
  <2>3. TypeOK' /\ CopyInv' /\ WriterInv' /\ ClearInv'
    BY Zenon, <1>0, <1>1, <2>1 DEF IInv, TypeOK, WriterInv, ClearInv, Writers
  <2>4. ModeInv'
    BY Zenon, <1>0, <2>1, <2>2 DEF IInv, ModeInv, Serial
  <2> QED
    BY Zenon, <2>1, <2>3, <2>4 DEF IInv
<1>6. ASSUME ShutdownStart PROVE IInv'
  <2>1. /\ mode = "up" /\ mode' = "stop" /\ stray' = NoJob /\ past' = past /\ UNCHANGED <<dirty, syncing>>
        /\ job = NoJob \/ job.part \in Parts
    BY Zenon, <1>6 DEF ShutdownStart
  <2>2. CASE syncing
    <3>1. /\ job.kind = "sync" /\ job.part \in Parts /\ memory' = memory
          /\ Start("shutdown", Half(memory.serial), memory)
      BY Zenon, <1>0, <1>6, <2>1, <2>2 DEF ShutdownStart, IInv, ModeInv
    <3>2. /\ memory.serial = job.val.serial /\ Half(job.val.serial) = job.half /\ job.half \in Halves
          /\ Chosen(disk) = {Other(job.half)} /\ Serial(disk, Other(job.half)) < job.val.serial
          /\ disk[job.half][Footer].serial # job.val.serial
      BY Zenon, <1>0, <3>1 DEF IInv, WriterInv, Writers, Job
    <3>3. /\ Other(job.half) \in Halves /\ Half(Serial(disk, Other(job.half))) = Other(job.half)
          /\ Other(job.half) # job.half
      BY Zenon, <3>2, ChosenSound DEF Sound, Other, Halves
    <3>4. Serial(disk, Other(job.half)) \in Nat /\ memory.serial \in Nat
      BY <1>0, <3>3, PartsFacts DEF Serial, Part
    <3> QED
      BY Zenon, <1>0, <1>3, <2>1, <3>1, <3>2, <3>3, <3>4 DEF Writers, IInv, TypeOK
  <2>3. CASE ~syncing
    <3> DEFINE val == [memory EXCEPT !.serial = @ + 1]
    <3>1. /\ val \in Part /\ val.serial = memory.serial + 1 /\ val.content \in Contents /\ memory.serial \in Nat
      BY <1>0 DEF Part, IInv
    <3>2. PICK h \in Halves : Chosen(disk) = {h} /\ memory.serial = Serial(disk, h)
      BY Zenon, <1>0, <2>1, <2>3 DEF IInv, ModeInv
    <3>3. Half(val.serial) # Half(Serial(disk, h)) /\ val.serial > Serial(disk, h)
      BY <3>1, <3>2, HalfAlternates DEF Other, Halves
    <3>4. /\ disk[Half(val.serial)][Footer].serial # val.serial /\ memory' = val
          /\ Start("shutdown", Half(val.serial), val)
      BY Zenon, <1>6, <2>3 DEF ShutdownStart, Fresh
    <3> QED
      BY Zenon, <1>3, <2>1, <3>1, <3>2, <3>3, <3>4 DEF Writers, IInv, TypeOK
  <2> QED
    BY Zenon, <2>2, <2>3
<1>7. ASSUME ShutdownIdle PROVE IInv'
  <2>1. /\ mode = "up" /\ ~syncing /\ mode' = "stop" /\ UNCHANGED <<memory, dirty, syncing, job, stray, past>>
    BY Zenon, <1>7 DEF ShutdownIdle
  <2>2. TypeOK' /\ CopyInv' /\ WriterInv' /\ ClearInv'
    BY Zenon, <1>1, <1>0, <2>1 DEF IInv, TypeOK, WriterInv, ClearInv, Zero
  <2>3. ModeInv'
    BY Zenon, <1>0, <2>1 DEF IInv, ModeInv
  <2> QED
    BY Zenon, <2>1, <2>2, <2>3 DEF IInv
<1>8. ASSUME NEW h \in Chosen(disk)
      PROVE  /\ Read(h) \in Part /\ Read(h).serial = Serial(disk, h)
             /\ Read(h).content \in Contents /\ Read(h).content = disk[h][Header].content
  <2>1. h \in Halves /\ Whole(disk, h) /\ disk[h][Header].content \in Contents
    BY Zenon, ChosenSound DEF Sound, IInv
  <2>2. disk[h][Header] \in Part
    BY <1>0, <2>1, PartsFacts
  <2> QED
    BY Zenon, <2>1, <2>2 DEF Read, Serial, Part
<1>9. ASSUME Boot PROVE IInv'
  <2>1. PICK h \in Chosen(disk) : memory' = Read(h)
    BY Zenon, <1>9 DEF Boot
  <2>2. mode = "down" /\ mode' = "up" /\ UNCHANGED <<dirty, syncing, job, stray, past>>
    BY Zenon, <1>9 DEF Boot
  <2>3. job = NoJob /\ ~syncing
    BY Zenon, <2>2 DEF IInv, ModeInv
  <2>4. TypeOK' /\ CopyInv' /\ WriterInv' /\ ClearInv'
    BY Zenon, <1>0, <1>1, <1>8, <2>1, <2>2, <2>3 DEF IInv, TypeOK, WriterInv, ClearInv, Writers
  <2>5. ModeInv'
    BY Zenon, <1>0, <1>8, <2>1, <2>2, <2>3, ChosenSound DEF IInv, ModeInv
  <2> QED
    BY Zenon, <1>8, <2>1, <2>2, <2>4, <2>5 DEF IInv
<1>10. ASSUME BootRecover PROVE IInv'
  <2>0. PICK h \in Chosen(disk), n \in 1 .. MaxSerial :
          /\ n > Read(h).serial /\ Half(n) # Half(Read(h).serial) /\ Fresh(n)
          /\ \E c \in Repaired(Read(h).content) :
               /\ memory' = [serial |-> n, content |-> c]
               /\ Start("recover", Half(n), [serial |-> n, content |-> c])
    BY Zenon, <1>10 DEF BootRecover
  <2>1. PICK c \in Repaired(Read(h).content) :
          /\ memory' = [serial |-> n, content |-> c]
          /\ Start("recover", Half(n), [serial |-> n, content |-> c])
    BY Zenon, <2>0
  <2>2. mode = "down" /\ mode' = "start" /\ UNCHANGED <<dirty, syncing, stray, past>>
    BY Zenon, <1>10 DEF BootRecover
  <2>3. c \in Contents
    BY Zenon, <1>8, <2>1 DEF Repaired
  <2>4. stray = NoJob /\ ~syncing /\ dirty \in BOOLEAN /\ syncing \in BOOLEAN
    BY Zenon, <2>2 DEF IInv, ModeInv, TypeOK
  <2>5. h \in Halves /\ Chosen(disk) = {h}
    BY Zenon, ChosenSound
  <2>6. n \in Nat /\ [serial |-> n, content |-> c] \in Part
    BY <2>3 DEF Part
  <2> PICK v : v = [serial |-> n, content |-> c]
    BY Zenon
  <2>7. v \in Part /\ v.serial = n /\ v.content \in Contents /\ memory' = v /\ Start("recover", Half(v.serial), v)
    BY Zenon, <2>1, <2>3, <2>6
  <2>8. n > Serial(disk, h) /\ Half(n) # Half(Serial(disk, h))
    BY Zenon, <1>8, <2>0
  <2>9. disk[Half(n)][Footer].serial # n
    BY Zenon, <2>0 DEF Fresh
  <2>10. "recover" \in Writers
    BY Zenon DEF Writers
  <2>11. dirty' \in BOOLEAN /\ syncing' \in BOOLEAN /\ syncing' = FALSE /\ past' = past /\ stray' = NoJob
    BY Zenon, <2>2, <2>4
  <2> QED
    BY Zenon, <1>3, <2>2, <2>5, <2>7, <2>8, <2>9, <2>10, <2>11
<1>11. ASSUME RecoverDone PROVE IInv'
  <2>1. /\ job.kind = "recover" /\ job.part = Footer + 1 /\ job' = NoJob /\ mode = "start" /\ mode' = "up"
        /\ UNCHANGED <<memory, dirty, syncing, stray, past>>
    BY Zenon, <1>11 DEF RecoverDone
  <2>2. Chosen(disk) = {job.half} /\ job.half \in Halves /\ memory.serial = job.val.serial /\ disk[job.half][Header] = job.val
    BY <1>0, <2>1, PartsFacts DEF IInv, WriterInv, Writers, Job, Header
  <2>3. TypeOK' /\ CopyInv' /\ WriterInv' /\ ClearInv'
    BY Zenon, <1>0, <1>1, <2>1 DEF IInv, TypeOK, WriterInv, ClearInv, Writers
  <2>4. ModeInv'
    BY Zenon, <1>0, <2>1, <2>2 DEF IInv, ModeInv, Serial
  <2> QED
    BY Zenon, <2>1, <2>3, <2>4 DEF IInv
<1>12. ASSUME BootClear PROVE IInv'
  <2>1. /\ mode = "down" /\ mode' = "start" /\ memory' = Cleared /\ Start("clear", "A", Cleared)
        /\ UNCHANGED <<dirty, syncing, stray, past>>
    BY Zenon, <1>12 DEF BootClear
  <2>2. job' \in Job /\ job'.kind = "clear" /\ job'.half = "A" /\ job'.val = Cleared /\ job'.part = Header
    BY Zenon, <1>0, <2>1 DEF Start, Job, Kinds, Halves
  <2>3. \A p \in Parts : ~(p < Header)
    BY PartsFacts DEF Header
  <2>4. TypeOK' /\ CopyInv' /\ WriterInv' /\ ClearInv'
    BY Zenon, <1>0, <1>1, <2>1, <2>2, <2>3 DEF IInv, TypeOK, WriterInv, ClearInv, Writers
  <2>5. ModeInv'
    BY Zenon, <2>1, <2>2 DEF IInv, ModeInv
  <2> QED
    BY Zenon, <1>0, <2>1, <2>4, <2>5 DEF IInv
<1>13. ASSUME ClearHeaderB PROVE IInv'
  <2>1. /\ job.kind = "clear" /\ job.part = Footer + 1 /\ mode = "start"
        /\ Start("clearB", "B", job.val) /\ UNCHANGED <<memory, dirty, syncing, stray, mode, past>>
    BY Zenon, <1>13 DEF ClearHeaderB
  <2>2. job.val = Cleared /\ memory = Cleared /\ Zero
    <3>1. \A p \in Parts : p < Footer + 1
      BY DEF Parts, Header, Footer
    <3> QED
      BY Zenon, <2>1, <3>1 DEF IInv, ClearInv, Zero
  <2>3. job' \in Job /\ job'.kind = "clearB" /\ job'.half = "B" /\ job'.val = Cleared /\ job'.part = Header
    BY Zenon, <1>0, <2>1, <2>2 DEF Start, Job, Kinds, Halves
  <2>4. TypeOK' /\ CopyInv' /\ WriterInv' /\ ClearInv'
    BY Zenon, <1>0, <1>1, <2>1, <2>2, <2>3 DEF IInv, TypeOK, WriterInv, ClearInv, Writers, Zero
  <2>5. ModeInv'
    BY Zenon, <2>1, <2>3 DEF IInv, ModeInv
  <2> QED
    BY Zenon, <2>1, <2>4, <2>5 DEF IInv
<1> QED
  BY Zenon, <1>2, <1>4, <1>5, <1>6, <1>7, <1>9, <1>10, <1>11, <1>12, <1>13 DEF SyncError

LEMMA IInvInit == Init => IInv
<1> SUFFICES ASSUME Init PROVE IInv
  BY Zenon
<1>1. /\ Cleared \in Part /\ Cleared.serial = 0 /\ Cleared.content = Empty
      /\ NoJob \in Job /\ NoJob.kind = "none"
  BY Zenon, PartsFacts DEF NoJob, Job, Halves, Kinds, Part, Cleared, Footer
<1>2. \A h \in Halves : \A p \in Parts : disk[h][p] = Cleared
  BY Zenon DEF Init
<1>3. TypeOK /\ memory.content \in Contents /\ past \subseteq Contents /\ Empty \in past
  BY Zenon, <1>1 DEF Init, TypeOK
<1>4. Zero /\ \A h \in Halves : ~Good(h)
  BY Zenon, <1>1, <1>2, PartsFacts DEF Zero, Good, Halves
<1>5. CopyInv
  BY Zenon, <1>4 DEF CopyInv
<1>6. WriterInv /\ ClearInv /\ ModeInv
  BY Zenon, <1>1 DEF Init, WriterInv, ClearInv, ModeInv, Writers
<1> QED
  BY Zenon, <1>3, <1>5, <1>6 DEF IInv

LEMMA IInvStep == Situations = {} /\ IInv /\ [Next]_vars => IInv'
<1> SUFFICES ASSUME Situations = {}, IInv, [Next]_vars PROVE IInv'
  BY Zenon
<1>1. CASE Update \/ SyncStart \/ SyncFinish \/ SyncError \/ ShutdownStart \/ ShutdownIdle
             \/ Boot \/ BootRecover \/ RecoverDone \/ BootClear \/ ClearHeaderB
  <2>1. UNCHANGED disk
    BY Zenon, <1>1 DEF Update, SyncStart, SyncFinish, SyncError, ShutdownStart, ShutdownIdle, Boot, BootRecover,
                RecoverDone, BootClear, ClearHeaderB
  <2> QED
    BY Zenon, <1>1, <2>1, IdleStep
<1>2. CASE SyncWrite \/ ShutdownWrite \/ RecoverWrite
  BY Zenon, <1>2, WriterStep DEF SyncWrite, ShutdownWrite, RecoverWrite, Writers
<1>3. CASE StrayWrite
  BY Zenon, <1>3 DEF StrayWrite, IInv, ModeInv
<1>4. CASE Crash
  BY Zenon, <1>4, CrashStep
<1>5. CASE ClearWrite
  BY Zenon, <1>5, ClearStep DEF ClearWrite
<1>6. CASE ClearDone
  BY Zenon, <1>6, ClearDoneStep
<1>7. CASE UNCHANGED vars
  <2>1. TypeOK' /\ memory'.content \in Contents /\ past' \subseteq Contents /\ Empty \in past'
    BY Zenon, <1>7 DEF vars, IInv, TypeOK
  <2>2. CopyInv'
    BY Zenon, <1>7 DEF vars, IInv, CopyInv, Zero, Good, Sound, Whole, Matched, Serial
  <2>3. WriterInv'
    BY Zenon, <1>7 DEF vars, IInv, WriterInv, Chosen, Matched, Serial
  <2>4. ClearInv'
    BY Zenon, <1>7 DEF vars, IInv, ClearInv, Zero
  <2>5. ModeInv'
    BY Zenon, <1>7 DEF vars, IInv, ModeInv, Chosen, Matched, Serial
  <2> QED
    BY Zenon, <2>1, <2>2, <2>3, <2>4, <2>5 DEF IInv
<1> QED
  BY Zenon, <1>1, <1>2, <1>3, <1>4, <1>5, <1>6, <1>7 DEF Next

LEMMA Invariance == Situations = {} /\ Spec => []IInv
<1>1. Situations = {} => [](Situations = {})
  BY Zenon
<1> QED
  BY IInvInit, IInvStep, <1>1, PTL DEF Spec
-----------------------------------------------------------------------------
\* The copy chosen at start-up is whole, at whatever point of a sync, a
\* shutdown, a recovery or a clearing the server dies.
THEOREM ChosenCopyIsWhole == Situations = {} /\ Spec => [](TypeOK /\ WholeCopy)
<1>1. IInv => TypeOK /\ WholeCopy
  BY Zenon, ChosenSound DEF IInv, WholeCopy, Sound
<1> QED
  BY Invariance, <1>1, PTL

\* Unless the stripe is being cleared one copy can be chosen.
THEOREM GoodCopyIsKept == Situations = {} /\ Spec => []KeepsCopy
<1>1. IInv => KeepsCopy
  BY Zenon DEF IInv, TypeOK, KeepsCopy, WriterInv, ModeInv, Writers
<1> QED
  BY Invariance, <1>1, PTL

\* Once its footer is written the copy chosen is the one just written, whether by the
\* sync, by recovery or at shutdown (CacheSync::mainEvent, sync_cache_dir_on_shutdown).
THEOREM SyncedCopyWins == Situations = {} /\ Spec => []SyncWins
<1>1. IInv => SyncWins
  BY Zenon, PartsFacts DEF IInv, SyncWins, WriterInv, Writers
<1> QED
  BY Invariance, <1>1, PTL
-----------------------------------------------------------------------------
(* The two copies implement the one stored directory of DirectoryStore. *)
SnapshotBar == IF job.kind \in {"sync", "recover", "shutdown"} /\ job.part \in Parts THEN job.val.content ELSE None
StateBar == CASE mode = "down" -> "down"
             [] job.kind \in {"clear", "clearB"} -> "clearing"
             [] OTHER -> "up"

StoredIsChosen ==
  /\ Stored \in past
  /\ \A h \in Chosen(disk) : Stored = Read(h).content /\ Stored = disk[h][Header].content

LEMMA StoredFacts == IInv => StoredIsChosen
<1> SUFFICES ASSUME IInv PROVE StoredIsChosen
  BY Zenon
<1>1. ASSUME NEW h \in Chosen(disk) PROVE Stored = Read(h).content /\ Stored = disk[h][Header].content /\ Stored \in past
  <2>1. Sound(h) /\ h \in {"A", "B"} /\ Chosen(disk) = {h}
    BY Zenon, ChosenSound DEF Halves
  <2>2. disk[h][Header] \in Part
    BY <2>1, PartsFacts DEF IInv, TypeOK, Halves
  <2>3. Read(h).content = disk[h][Header].content
    BY Zenon, <2>1, <2>2 DEF Read, Sound, Part
  <2> QED
    BY Zenon, <2>1, <2>3 DEF Stored, Sound
<1>2. Chosen(disk) = {} => Stored \in past
  BY Zenon DEF Stored, IInv
<1> QED
  BY Zenon, <1>1, <1>2 DEF StoredIsChosen

LEMMA StoreInit == Init => Store!Init
  BY PartsFacts DEF Init, Store!Init, NoJob, Stored, Chosen, Matched, Serial, Read, Whole, Cleared, Halves

\* A part written changes nothing that start-up sees, until the footer commits.
LEMMA StoreWrite ==
  ASSUME IInv, IInv', NEW kind \in Writers, WriteNext(kind), mode # "down"
  PROVE  Store!Next \/ UNCHANGED Store!vars
<1>1. /\ job.kind = kind /\ job.part \in Parts /\ job' = [job EXCEPT !.part = @ + 1] /\ job \in Job
      /\ UNCHANGED <<memory, mode>> /\ past' = IF job.part = Footer THEN past \union {job.val.content} ELSE past
  BY Zenon DEF WriteNext, IInv, TypeOK
<1>2. job'.kind = kind /\ job'.part = job.part + 1 /\ job'.val = job.val
  BY Zenon, <1>1 DEF Job
<1>3. StateBar = "up" /\ StateBar' = "up" /\ SnapshotBar = job.val.content
  BY Zenon, <1>1, <1>2, PartsFacts DEF StateBar, SnapshotBar, Writers
<1>4. /\ \A p \in Parts : p <= job.part => disk'[job.half][p] = job.val
      /\ \A p \in Parts : disk'[Other(job.half)][p] = disk[Other(job.half)][p]
      /\ Chosen(disk') = {IF job.part = Footer THEN job.half ELSE Other(job.half)}
  BY Zenon, WriterChosen
<1>0. StoredIsChosen /\ StoredIsChosen'
  BY StoredFacts, PTL
<1>5. \A h \in Chosen(disk') : Stored' = disk'[h][Header].content
  BY Zenon, <1>0 DEF StoredIsChosen
<1>6. CASE job.part = Footer
  <2>1. Stored' = job.val.content
    BY Zenon, <1>4, <1>5, <1>6, PartsFacts DEF Header
  <2>2. SnapshotBar' = None
    BY Zenon, <1>2, <1>6, PartsFacts DEF SnapshotBar
  <2>3. job.val.content # None
    BY Zenon, <1>1 DEF IInv, WriterInv
  <2> QED
    BY Zenon, <1>1, <1>3, <1>6, <2>1, <2>2, <2>3 DEF Store!Next, Store!Commit, StateBar, SnapshotBar
<1>7. CASE job.part # Footer
  <2>1. Stored' = Stored
    BY <1>0, <1>1, <1>4, <1>5, <1>7, PartsFacts, SMTT(30) DEF IInv, WriterInv, StoredIsChosen
  <2>2. SnapshotBar' = SnapshotBar
    BY <1>1, <1>2, <1>7, PartsFacts DEF SnapshotBar
  <2> QED
    BY Zenon, <1>1, <1>3, <1>7, <2>1, <2>2 DEF Store!vars, StateBar, SnapshotBar
<1> QED
  BY Zenon, <1>6, <1>7

LEMMA StoreStep == Situations = {} /\ IInv /\ IInv' /\ [Next]_vars => [Store!Next]_(Store!vars)
<1> SUFFICES ASSUME Situations = {}, IInv, IInv', [Next]_vars
             PROVE  Store!Next \/ UNCHANGED Store!vars
  BY Zenon
<1> USE DEF Store!Next
<1>a. StoredIsChosen /\ StoredIsChosen'
  BY StoredFacts, PTL
<1>b. disk' = disk => Stored' = Stored
  BY DEF Stored, Read
<1>0. StoredIsChosen /\ StoredIsChosen' /\ (disk' = disk => Stored' = Stored)
  BY Zenon, <1>a, <1>b
<1>1. job \in Job /\ job' \in Job /\ memory \in Part /\ memory.content \in Contents /\ past \subseteq Contents
  BY Zenon DEF IInv, TypeOK
<1>2. CASE Update
  BY Zenon, <1>0, <1>1, <1>2 DEF Update, Store!Update, Part, IInv, ModeInv
<1>3. CASE SyncStart
  BY Zenon, <1>0, <1>1, <1>3, PartsFacts DEF SyncStart, Start, Store!Snapshot, Part, NoJob
<1>4. CASE SyncFinish
  BY Zenon, <1>0, <1>1, <1>4, PartsFacts DEF SyncFinish, Store!vars, NoJob
<1>5. CASE ShutdownStart
  BY Zenon, <1>0, <1>1, <1>5, PartsFacts DEF ShutdownStart, Start, Store!Snapshot, Part, NoJob, IInv, ModeInv
<1>6. CASE ShutdownIdle
  BY Zenon, <1>0, <1>6 DEF ShutdownIdle, Store!vars, IInv, ModeInv
<1>7. CASE SyncWrite \/ ShutdownWrite \/ RecoverWrite
  BY Zenon, <1>7, StoreWrite DEF SyncWrite, ShutdownWrite, RecoverWrite, Writers
<1>8. CASE StrayWrite
  BY Zenon, <1>8 DEF StrayWrite, IInv, ModeInv
<1>9. CASE SyncError
  BY Zenon, <1>9 DEF SyncError
<1>10. CASE Boot
  BY Zenon, <1>0, <1>1, <1>10, PartsFacts DEF Boot, Store!Restart, StoredIsChosen, IInv, ModeInv, NoJob
<1>11. CASE RecoverDone
  BY Zenon, <1>0, <1>1, <1>11, PartsFacts DEF RecoverDone, Store!vars, NoJob
<1>12. CASE BootClear
  BY Zenon, <1>0, <1>1, <1>12, PartsFacts DEF BootClear, Start, Cleared, Store!StartClear, IInv, ModeInv
<1>13. CASE ClearHeaderB
  BY Zenon, <1>0, <1>1, <1>13, PartsFacts DEF ClearHeaderB, Start, Store!vars
<1>14. CASE BootRecover
  <2>1. PICK h \in Chosen(disk), n \in 1 .. MaxSerial :
          \E c \in Repaired(Read(h).content) :
            /\ memory' = [serial |-> n, content |-> c]
            /\ Start("recover", Half(n), [serial |-> n, content |-> c])
    BY Zenon, <1>14 DEF BootRecover
  <2>2. PICK c \in Repaired(Read(h).content) :
          /\ memory' = [serial |-> n, content |-> c]
          /\ Start("recover", Half(n), [serial |-> n, content |-> c])
    BY Zenon, <2>1
  <2>3. Read(h).content = Stored /\ Stored \in Contents
    BY Zenon, <1>0, <1>1 DEF StoredIsChosen
  <2>4. c \in Repairs[Stored]
    BY Zenon, <2>2, <2>3 DEF Repaired
  <2>5. memory'.content = c /\ job'.kind = "recover" /\ job'.part = Header /\ job'.val.content = c
    BY Zenon, <2>2 DEF Start
  <2>6. mode = "down" /\ mode' = "start" /\ past' = past /\ disk' = disk
    BY Zenon, <1>14 DEF BootRecover
  <2>7. Stored' = Stored
    BY Zenon, <1>0, <2>6
  <2>8. StateBar = "down" /\ StateBar' = "up"
    BY Zenon, <2>5, <2>6 DEF StateBar, IInv, ModeInv
  <2>9. SnapshotBar' = c
    BY Zenon, <2>5, PartsFacts DEF SnapshotBar
  <2> QED
    BY Zenon, <2>4, <2>5, <2>6, <2>7, <2>8, <2>9 DEF Store!Restart, StateBar, SnapshotBar
<1>15. CASE Crash
  <2>1. mode # "down" /\ mode' = "down" /\ job' = NoJob /\ memory' = Cleared /\ past' = past
    BY Zenon, <1>15 DEF Crash
  <2>2. Stored' \in past
    BY Zenon, <1>0, <2>1 DEF StoredIsChosen
  <2>3. CASE job.kind \in {"clear", "clearB"}
    BY Zenon, <2>1, <2>2, <2>3, PartsFacts DEF Store!Crash, NoJob, Cleared
  <2>4. CASE job.kind \notin {"clear", "clearB"}
    <3>1. Stored' = Stored
      <4>1. CASE UNCHANGED disk
        BY Zenon, <1>0, <4>1
      <4>2. CASE /\ job.part \in Parts \ {Footer}
                 /\ disk' = [disk EXCEPT ![job.half][job.part] = [job.val EXCEPT !.content = Torn]]
        <5> DEFINE g == job.half
                   o == Other(job.half)
        <5>1. /\ job.kind \in Writers /\ Chosen(disk) = {o} /\ disk[g][Footer].serial # job.val.serial
              /\ \A p \in Parts : p < job.part => disk[g][p] = job.val
          BY <1>1, <2>4, <4>2, PartsFacts, SMTT(30) DEF IInv, WriterInv, ModeInv, NoJob, Job, Kinds, Writers
        <5>2. /\ g \in Halves /\ disk \in [Halves -> [Parts -> Part]] /\ job.val \in Part
          BY Zenon, <1>1 DEF Job, IInv, TypeOK
        <5>3. /\ \A p \in Parts : p # job.part => disk'[g][p] = disk[g][p]
              /\ \A p \in Parts : disk'[o][p] = disk[o][p]
              /\ disk'[g][job.part].serial = job.val.serial
          BY Zenon, <4>2, <5>2 DEF Other, Halves, Part
        <5>4. disk'[g][Header].serial = job.val.serial
          <6>1. CASE job.part = Header
            BY Zenon, <5>3, <6>1
          <6>2. CASE job.part # Header
            <7>1. Header < job.part
              BY <4>2, <6>2, PartsFacts DEF Header
            <7> QED
              BY Zenon, <5>1, <5>3, <6>2, <7>1, PartsFacts
          <6> QED
            BY Zenon, <6>1, <6>2
        <5>5. ~Matched(disk', g)
          BY Zenon, <4>2, <5>1, <5>3, <5>4, PartsFacts DEF Matched
        <5>6. Matched(disk', o)
          BY Zenon, <5>1, <5>3, ChosenSound, PartsFacts DEF Matched
        <5>7. Chosen(disk') = {o}
          BY Zenon, <5>2, <5>5, <5>6 DEF Chosen, Other, Halves
        <5>8. Stored' = disk'[o][Header].content /\ Stored = disk[o][Header].content
          BY Zenon, <1>0, <5>1, <5>7 DEF StoredIsChosen
        <5> QED
          BY Zenon, <5>3, <5>8, PartsFacts
      <4> QED
        BY Zenon, <1>15, <4>1, <4>2 DEF Crash
    <3> QED
      BY Zenon, <2>1, <2>4, <3>1, PartsFacts DEF Store!Crash, NoJob, Cleared
  <2> QED
    BY Zenon, <2>3, <2>4
<1>16. CASE ClearWrite
  <2>1. /\ mode = "start" /\ mode' = "start" /\ job.kind = "clear" /\ job' = [job EXCEPT !.part = @ + 1] /\ memory' = memory
        /\ past' = past
    <3>1. mode = "start" /\ WriteNext("clear") /\ job.val.content = Empty /\ Empty \in past
      BY <1>16 DEF ClearWrite, WriteNext, IInv, ClearInv, Cleared
    <3> QED
      BY Zenon, <3>1 DEF WriteNext
  <2>2. Stored' \in past
    BY Zenon, <1>0, <2>1 DEF StoredIsChosen
  <2> QED
    BY Zenon, <1>1, <2>1, <2>2 DEF Store!FallBack, Job
<1>17. CASE ClearDone
  <2>1. Chosen(disk') = {"A"} /\ Zero'
    BY Zenon, <1>17, ClearDoneStep
  <2>2. Stored' = Empty
    BY <1>0, <2>1, PartsFacts, SMTT(30) DEF StoredIsChosen, Zero, Cleared
  <2> QED
    BY Zenon, <1>17, <2>2, PartsFacts DEF ClearDone, Store!Cleared, NoJob
<1>18. CASE UNCHANGED vars
  BY Zenon, <1>0, <1>18 DEF vars, Store!vars
<1> QED
  BY Zenon, <1>2, <1>3, <1>4, <1>5, <1>6, <1>7, <1>8, <1>9, <1>10, <1>11, <1>12, <1>13, <1>14, <1>15, <1>16, <1>17, <1>18 DEF Next

\* The copies, written part by part and torn by crashes, act as one stored
\* directory that a snapshot replaces in one step.
THEOREM TwoCopiesActAsOne == Situations = {} /\ Spec => ImplementsStore
<1>1. Situations = {} => [](Situations = {})
  BY Zenon
<1> QED
  BY Invariance, StoreInit, StoreStep, <1>1, PTL DEF Spec, ImplementsStore, Store!Spec
=============================================================================
