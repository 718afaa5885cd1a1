---------------------------- MODULE DirectorySync ----------------------------
(***************************************************************************)
(* The two copies of a stripe's directory on disk: CacheSync::mainEvent     *)
(* (CacheDir.cc), which writes them alternately, StripeSM::shutdown, and    *)
(* the parts of start-up in StripeSM.cc that choose, repair or clear them.  *)
(*                                                                          *)
(* A copy is a sequence of parts: the header, the chunks of the body and    *)
(* the footer.  Header and footer carry the sync serial.  A part holds the  *)
(* serial and the contents of the write that it came from; the code reads   *)
(* the serials of headers and footers only.  A write in progress is a job,  *)
(* and a crash may tear the part that the job has come to.                  *)
(*                                                                          *)
(* Three circumstances that the code does not handle happen only where      *)
(* Situations names them:                                                   *)
(*   "writeError"    a write of a part by a sync or by recovery fails;      *)
(*   "reusedSerial"  a copy is given the serial that its stale footer has;  *)
(*   "lateShutdown"  the server is shut down while a part of a sync is in   *)
(*                   flight or after its footer, before it has finished.    *)
(* Writes that fail while a stripe is being cleared are left out.           *)
(***************************************************************************)
EXTENDS Naturals

CONSTANTS
  Chunks,          \* the number of writes that the body of the directory takes
  Contents, Empty, \* what a directory may hold
  Torn, None,      \* the contents of a torn part; no contents
  Repairs,         \* what recovery may make of each contents
  Situations,
  MaxSerial        \* bound: no serial goes above it

AllSituations == {"writeError", "reusedSerial", "lateShutdown"}

ASSUME SyncAssumption ==
  /\ Chunks \in Nat \ {0}
  /\ MaxSerial \in Nat
  /\ Empty \in Contents /\ Torn \notin Contents /\ None \notin Contents
  /\ Repairs \in [Contents -> SUBSET Contents]
  /\ Situations \subseteq AllSituations

VARIABLES
  disk,    \* disk[h][p]: part p of copy h
  memory,  \* directory.raw_dir: its contents and header->sync_serial
  dirty,   \* header->dirty
  syncing, \* dir_sync_in_progress
  job,     \* the write in progress, or NoJob
  stray,   \* a part of a sync in flight when shutdown began, or NoJob
  mode,    \* "down", "start" (start-up is writing), "up" or "stop" (shutdown is writing)
  past     \* history: the contents of the copies completed since the last clearing

vars == <<disk, memory, dirty, syncing, job, stray, mode, past>>

Halves == {"A", "B"}
Other(h) == IF h = "A" THEN "B" ELSE "A"
Header == 0
Footer == Chunks + 1
Parts == Header .. Footer
Kinds == {"none", "sync", "recover", "clear", "clearB", "shutdown"}
Cleared == [serial |-> 0, content |-> Empty]
Part == [serial : Nat, content : Contents \union {Torn}]
NoJob == [kind |-> "none", half |-> "A", part |-> Footer + 1, val |-> Cleared]
Job == [kind : Kinds, half : Halves, part : 0 .. Chunks + 2, val : Part]

\* size_t B = sync_serial & 1
Half(serial) == IF serial % 2 = 1 THEN "B" ELSE "A"

Serial(d, h) == d[h][Header].serial
Matched(d, h) == d[h][Header].serial = d[h][Footer].serial

\* The copy that handle_header_read reads into memory.
ChosenMutant(d) ==
  IF Matched(d, "A") THEN {"A"} ELSE IF Matched(d, "B") THEN {"B"} ELSE {}
Chosen(d) ==
  IF Matched(d, "A") /\ (Serial(d, "A") >= Serial(d, "B") \/ ~Matched(d, "B")) THEN {"A"}
  ELSE IF Matched(d, "B") THEN {"B"}
  ELSE {}

\* All parts of copy h are of one directory.
Whole(d, h) == \A p \in Parts : d[h][p].content = d[h][Header].content /\ d[h][p].content # Torn

\* The stale footer of the copy does not have the serial that is to be written.
Fresh(serial) == "reusedSerial" \in Situations \/ disk[Half(serial)][Footer].serial # serial

Start(kind, half, val) == job' = [kind |-> kind, half |-> half, part |-> Header, val |-> val]

\* The next part of the job reaches the disk; the footer completes a copy.
WriteNext(kind) ==
  /\ job.kind = kind /\ job.part \in Parts
  /\ disk' = [disk EXCEPT ![job.half][job.part] = job.val]
  /\ job' = [job EXCEPT !.part = @ + 1]
  /\ past' = IF job.part = Footer THEN past \union {job.val.content} ELSE past
  /\ UNCHANGED <<memory, dirty, syncing, stray, mode>>

\* A stripe whose copies have been cleared.
Init ==
  /\ disk = [h \in Halves |-> [p \in Parts |-> Cleared]]
  /\ memory = Cleared
  /\ dirty = FALSE /\ syncing = FALSE /\ job = NoJob /\ stray = NoJob
  /\ mode = "down" /\ past = {Empty}

\* Directory::insert, overwrite and remove, while the server runs
Update ==
  /\ mode = "up"
  /\ \E c \in Contents : memory' = [memory EXCEPT !.content = c]
  /\ dirty' = TRUE
  /\ UNCHANGED <<disk, syncing, job, stray, mode, past>>

(* CacheSync::mainEvent *)
SyncStart ==
  /\ mode = "up" /\ job = NoJob /\ dirty
  /\ memory.serial < MaxSerial
  /\ LET val == [memory EXCEPT !.serial = @ + 1] IN
       /\ Fresh(val.serial)
       /\ memory' = val
       /\ Start("sync", Half(val.serial), val)
  /\ dirty' = FALSE /\ syncing' = TRUE
  /\ UNCHANGED <<disk, stray, mode, past>>

SyncWriteMutant ==
  /\ mode = "up" /\ job.kind = "sync" /\ job.part \in Parts
  /\ disk' = [disk EXCEPT ![job.half][IF job.part = Header THEN Header ELSE Footer + 1 - job.part] = job.val]
  /\ job' = [job EXCEPT !.part = @ + 1]
  /\ past' = IF job.part = Footer THEN past \union {job.val.content} ELSE past
  /\ UNCHANGED <<memory, dirty, syncing, stray, mode>>
SyncWrite == mode = "up" /\ WriteNext("sync")

SyncFinish ==
  /\ mode = "up" /\ job.kind = "sync" /\ job.part = Footer + 1
  /\ job' = NoJob /\ syncing' = FALSE
  /\ UNCHANGED <<disk, memory, dirty, stray, mode, past>>

\* !io.ok(): the sync is given up; dir_sync_in_progress stays set and dirty stays clear.
SyncError ==
  /\ "writeError" \in Situations
  /\ mode = "up" /\ job.kind = "sync" /\ job.part \in Parts
  /\ job' = NoJob
  /\ UNCHANGED <<disk, memory, dirty, syncing, stray, mode, past>>

(* StripeSM::shutdown *)
ShutdownStart ==
  /\ mode = "up" /\ (dirty \/ syncing)
  /\ job = NoJob \/ "lateShutdown" \in Situations \/ job.part \in Parts
  /\ LET val == IF syncing THEN memory ELSE [memory EXCEPT !.serial = @ + 1] IN
       /\ val.serial <= MaxSerial
       /\ Fresh(val.serial) \/ syncing
       /\ memory' = val
       /\ Start("shutdown", Half(val.serial), val)
  /\ stray' \in IF job.part \in Parts /\ "lateShutdown" \in Situations
                THEN {NoJob, job} ELSE {NoJob}
  /\ mode' = "stop"
  /\ UNCHANGED <<disk, dirty, syncing, past>>

ShutdownWrite == mode = "stop" /\ WriteNext("shutdown")

ShutdownIdle ==
  /\ mode = "up" /\ ~dirty /\ ~syncing
  /\ mode' = "stop"
  /\ UNCHANGED <<disk, memory, dirty, syncing, job, stray, past>>

\* The AIO thread completes the write that shutdown did not wait for.
StrayWrite ==
  /\ stray # NoJob
  /\ disk' = [disk EXCEPT ![stray.half][stray.part] = stray.val]
  /\ stray' = NoJob
  /\ UNCHANGED <<memory, dirty, syncing, job, mode, past>>

\* The process ends, at any point; of the part being written only the first sectors may have been written; a footer is one sector.
Crash ==
  /\ mode # "down"
  /\ \/ UNCHANGED disk
     \/ /\ job.part \in Parts \ {Footer}
        /\ disk[job.half][job.part].content # job.val.content
        /\ disk' = [disk EXCEPT ![job.half][job.part] = [job.val EXCEPT !.content = Torn]]
  /\ mode' = "down" /\ job' = NoJob /\ stray' = NoJob
  /\ memory' = Cleared /\ dirty' = FALSE /\ syncing' = FALSE
  /\ UNCHANGED past

(* Start-up: handle_header_read, handle_dir_read, handle_recover_from_data *)
\* A copy whose parts are not of one directory is read as a torn one.
Read(h) == [disk[h][Header] EXCEPT !.content = IF Whole(disk, h) THEN @ ELSE Torn]

\* What recovery may make of the contents it has read.
Repaired(c) == IF c = Torn THEN {Torn} ELSE Repairs[c]

\* Nothing to recover.
Boot ==
  /\ mode = "down"
  /\ \E h \in Chosen(disk) : memory' = Read(h)
  /\ mode' = "up"
  /\ UNCHANGED <<disk, dirty, syncing, job, stray, past>>

\* Entries were removed: the result goes to the other copy, under a serial above all serials seen.
BootRecoverMutant ==
  /\ mode = "down"
  /\ \E h \in Chosen(disk), n \in 1 .. MaxSerial :
       /\ n > Read(h).serial /\ Fresh(n)
       /\ \E c \in Repaired(Read(h).content) :
            LET val == [serial |-> n, content |-> c] IN
              memory' = val /\ Start("recover", Half(n), val)
  /\ mode' = "start"
  /\ UNCHANGED <<disk, dirty, syncing, stray, past>>
BootRecover ==
  /\ mode = "down"
  /\ \E h \in Chosen(disk), n \in 1 .. MaxSerial :
       /\ n > Read(h).serial /\ Half(n) # Half(Read(h).serial) /\ Fresh(n)
       /\ \E c \in Repaired(Read(h).content) :
            LET val == [serial |-> n, content |-> c] IN
              memory' = val /\ Start("recover", Half(n), val)
  /\ mode' = "start"
  /\ UNCHANGED <<disk, dirty, syncing, stray, past>>

RecoverWrite == mode = "start" /\ WriteNext("recover")

\* handle_recover_write_dir, which does not look at the result of the writes
RecoverDone ==
  /\ mode = "start" /\ job.kind = "recover"
  /\ job.part = Footer + 1 \/ "writeError" \in Situations
  /\ job' = NoJob /\ mode' = "up"
  /\ UNCHANGED <<disk, memory, dirty, syncing, stray, past>>

\* clear_dir_aio: no good copy, a failed read, a log that has come round, or a request to clear
BootClear ==
  /\ mode = "down"
  /\ memory' = Cleared /\ Start("clear", "A", Cleared)
  /\ mode' = "start"
  /\ UNCHANGED <<disk, dirty, syncing, stray, past>>

ClearWrite == mode = "start" /\ WriteNext("clear")

\* handle_dir_clear: after all of A, the header of B
ClearHeaderB ==
  /\ mode = "start" /\ job.kind = "clear" /\ job.part = Footer + 1
  /\ Start("clearB", "B", job.val)
  /\ UNCHANGED <<disk, memory, dirty, syncing, stray, mode, past>>

ClearDoneMutant ==
  /\ mode = "start" /\ job.kind = "clearB"
  /\ job' = NoJob /\ mode' = "up"
  /\ past' = {Empty}
  /\ UNCHANGED <<disk, memory, dirty, syncing, stray>>
ClearDone ==
  /\ mode = "start" /\ job.kind = "clearB"
  /\ disk' = [disk EXCEPT !["B"][Header] = job.val]
  /\ job' = NoJob /\ mode' = "up"
  /\ past' = {Empty}
  /\ UNCHANGED <<memory, dirty, syncing, stray>>

Next ==
  \/ Update \/ SyncStart \/ SyncWrite \/ SyncFinish \/ SyncError
  \/ ShutdownStart \/ ShutdownWrite \/ ShutdownIdle \/ StrayWrite
  \/ Crash
  \/ Boot \/ BootRecover \/ RecoverWrite \/ RecoverDone \/ BootClear \/ ClearWrite \/ ClearHeaderB \/ ClearDone

Spec == Init /\ [][Next]_vars
-----------------------------------------------------------------------------
TypeOK ==
  /\ disk \in [Halves -> [Parts -> Part]]
  /\ memory \in Part
  /\ dirty \in BOOLEAN /\ syncing \in BOOLEAN
  /\ job \in Job /\ stray \in Job
  /\ mode \in {"down", "start", "up", "stop"}
  /\ past \subseteq Contents \union {Torn}

\* The copy that handle_header_read would choose, whenever the server dies, is
\* one that a sync, a recovery or a clearing wrote from its header to its footer.
WholeCopy == \A h \in Chosen(disk) : Whole(disk, h)

\* Unless the stripe is being cleared there is a copy to choose: the good copy
\* is not overwritten before the other one is complete.
KeepsCopy == Chosen(disk) = {} => mode = "down" \/ job.kind \in {"clear", "clearB"}

\* Once its footer is on disk, what a sync or a shutdown has written is what
\* start-up chooses: no older copy has a serial that wins over it.
SyncWins == job.kind \in {"sync", "shutdown"} /\ job.part = Footer + 1 => Chosen(disk) = {job.half}

\* The two copies act as one directory that is replaced atomically.
Stored ==
  IF "A" \in Chosen(disk) THEN Read("A").content
  ELSE IF "B" \in Chosen(disk) THEN Read("B").content
  ELSE Empty

Store == INSTANCE DirectoryStore WITH
  memory <- memory.content,
  snapshot <- IF job.kind \in {"sync", "recover", "shutdown"} /\ job.part \in Parts THEN job.val.content ELSE None,
  stored <- Stored,
  past <- past,
  state <- CASE mode = "down" -> "down"
             [] job.kind \in {"clear", "clearB"} -> "clearing"
             [] OTHER -> "up"

ImplementsStore == Store!Spec
=============================================================================
