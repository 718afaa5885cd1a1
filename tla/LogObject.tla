----------------------------- MODULE LogObject -----------------------------
(***************************************************************************)
(* The buffers of one log (LogObject.cc, LogBuffer.cc, LogFile.cc, Log.cc). *)
(* Threads that log reserve room in the current LogBuffer with a            *)
(* compare-and-swap, write their entry and check it in; the one that finds  *)
(* the buffer full swaps in another and queues the old one.  A preproc      *)
(* thread takes queued buffers that nobody uses any more, and the flush     *)
(* thread writes them and makes idle buffers full.  There is no lock: a     *)
(* buffer is kept alive by a count that is held in the version half of the  *)
(* pointer to it while it is current, and in m_references afterwards.       *)
(*                                                                          *)
(* A successful compare-and-swap loop is one step.  Addresses are reused;   *)
(* what a deleted buffer held is reset when it is deleted, not when its     *)
(* address is allocated again.  Preproc threads have a queue each and do    *)
(* not meet: there is one.  A thread that waits and then pops a list does   *)
(* both in one step: a push between the two has its signal still to come;   *)
(* the first pass, which does not wait, is a wait for a signal sent.  The   *)
(* server is not shut down.                                                 *)
(***************************************************************************)
EXTENDS Integers, FiniteSets

CONSTANTS Threads,          \* threads that log
          Flusher,          \* the flush thread, which also runs periodic_tasks
          Addrs,            \* addresses of LogBuffers
          Alloc(_),         \* the addresses new may choose from the free ones
          None,
          Size,             \* room for entries in a buffer
          EntrySizes,       \* actual_write_size of the entries
          Formats,          \* of {"ascii", "binary"}; a pipe is as ascii
          FLUSH_ARRAY_SIZE,
          EntriesMod,       \* 2^16: num_entries has 16 bits
          MaxLog            \* bound: entries each thread logs

ASSUME ProcsAssumption == Flusher \notin Threads
ASSUME ThreadsAssumption == IsFiniteSet(Threads)
ASSUME AddrsAssumption == None \notin Addrs /\ \A S \in SUBSET Addrs : Alloc(S) \subseteq S
ASSUME SizesAssumption == /\ Size \in Nat /\ EntrySizes \subseteq Nat \ {0} /\ MaxLog \in Nat
                          /\ EntriesMod \in Nat /\ Size < EntriesMod

Procs == Threads \union {Flusher}
Entries == Threads \X (1 .. MaxLog)

VARIABLES
  m_log_buffer,   \* head_p: the current buffer and the count of its users
  m_state,        \* LB_State of each buffer
  m_references,   \* of each buffer
  content,        \* the entries room was reserved for in each buffer
  live,           \* the buffers that are allocated
  write_list, num_flush_buffers,   \* LogBufferManager
  preproc_notify, flush_notify,    \* EventNotify: a signal waits for its waiter
  pp, cur, q, new_q,               \* the preproc thread: where it is, its buffer and its lists
  flush_buffers, flush_text,       \* flush_data_list: buffers, or text made from them
  gone,           \* entries written to the file, or counted as lost
  format,
  pc, buffer, size, offset, old_version,   \* a process and the locals of its call
  count           \* how many entries a process has logged

buffers == <<m_log_buffer, m_state, m_references, content, live>>
lists == <<write_list, num_flush_buffers, pp, cur, q, new_q, flush_buffers, flush_text, gone, format>>
signals == <<preproc_notify, flush_notify>>
locals == <<buffer, size, offset, old_version, count>>
vars == <<buffers, lists, signals, pc, locals>>

Empty == [offset |-> 0, num_entries |-> 0, full |-> FALSE, num_writers |-> 0]

Goto(t, label) == pc' = [pc EXCEPT ![t] = label]
At(t, label) == pc[t] = label

\* The entry t is logging.
Entry(t) == <<t, count[t]>>

\* delete of the buffers of B
Delete(B) ==
  /\ live' = live \ B
  /\ m_state' = [b \in Addrs |-> IF b \in B THEN Empty ELSE m_state[b]]
  /\ content' = [b \in Addrs |-> IF b \in B THEN {} ELSE content[b]]

Init ==
  \E b \in Alloc(Addrs) :
    /\ m_log_buffer = [ptr |-> b, version |-> 0]
    /\ m_state = [a \in Addrs |-> Empty]
    /\ m_references = [a \in Addrs |-> 0]
    /\ content = [a \in Addrs |-> {}]
    /\ live = {b}
    /\ write_list = {} /\ num_flush_buffers = 0
    /\ preproc_notify = TRUE /\ flush_notify = TRUE
    /\ pp = "wait" /\ cur = None /\ q = {} /\ new_q = {}
    /\ flush_buffers = {} /\ flush_text = {} /\ gone = {}
    /\ format \in Formats
    /\ pc = [t \in Procs |-> IF t = Flusher THEN "wait" ELSE "idle"]
    /\ buffer = [t \in Procs |-> None]
    /\ size = [t \in Procs |-> 0] /\ offset = [t \in Procs |-> 0]
    /\ old_version = [t \in Procs |-> 0] /\ count = [t \in Procs |-> 0]
-----------------------------------------------------------------------------
(* LogObject::log *)
Log(t) ==
  /\ At(t, "idle") /\ count[t] < MaxLog
  /\ \E s \in EntrySizes : size' = [size EXCEPT ![t] = s]
  /\ count' = [count EXCEPT ![t] = @ + 1]
  /\ Goto(t, "acquire")
  /\ UNCHANGED <<buffers, lists, signals, buffer, offset, old_version>>

(* LogObject::_checkout_write; the flush thread passes no write_offset *)
\* Where a process goes when its call is over; the locals of the call go.
Back(t) == IF t \in Threads THEN "idle" ELSE "wait"
Return(t) ==
  /\ Goto(t, Back(t))
  /\ buffer' = [buffer EXCEPT ![t] = None]
  /\ size' = [size EXCEPT ![t] = 0]
  /\ offset' = [offset EXCEPT ![t] = 0]
\* Without a write_offset there is no second try.
Retry(t) ==
  IF t \in Threads
  THEN Goto(t, "acquire") /\ buffer' = [buffer EXCEPT ![t] = None] /\ UNCHANGED <<size, offset>>
  ELSE Return(t)

\* increment_pointer_version
Acquire(t) ==
  /\ At(t, "acquire")
  /\ m_log_buffer' = [m_log_buffer EXCEPT !.version = @ + 1]
  /\ buffer' = [buffer EXCEPT ![t] = m_log_buffer.ptr]
  /\ Goto(t, "checkout")
  /\ UNCHANGED <<m_state, m_references, content, live, lists, signals, size, offset, old_version, count>>

\* Mutant: full is not looked at when there is no room.
CheckoutResultMutant(t, s) ==
  CASE t \in Threads /\ ~s.full /\ s.offset + size[t] <= Size -> "LB_OK"
    [] t \in Threads /\ s.offset + size[t] > Size /\ s.num_entries = 0 -> "LB_BUFFER_TOO_SMALL"
    [] t \notin Threads /\ s.num_entries = 0 -> "LB_OK"
    [] OTHER -> "LB_FULL"
\* What LogBuffer::checkout_write answers in state s; LB_FULL stands for both of its forms.
CheckoutResult(t, s) ==
  CASE s.full -> "LB_RETRY"
    [] ~s.full /\ t \in Threads /\ s.offset + size[t] <= Size -> "LB_OK"
    [] ~s.full /\ t \in Threads /\ s.offset + size[t] > Size /\ s.num_entries = 0 -> "LB_BUFFER_TOO_SMALL"
    [] ~s.full /\ t \notin Threads /\ s.num_entries = 0 -> "LB_OK"
    [] OTHER -> "LB_FULL"

\* Mutant: the offset stays.
ReserveMutant(s, n) ==
  [s EXCEPT !.num_writers = @ + 1, !.num_entries = (@ + 1) % EntriesMod]
\* The state with room taken for an entry of size n
Reserve(s, n) ==
  [s EXCEPT !.num_writers = @ + 1, !.num_entries = (@ + 1) % EntriesMod, !.offset = @ + n]

\* LogBuffer::checkout_write; the process goes on at its result.
Checkout(t) ==
  LET b == buffer[t]
      r == CheckoutResult(t, m_state[b]) IN
  /\ At(t, "checkout") /\ Goto(t, r)
  /\ \/ /\ r = "LB_OK" /\ t \in Threads
        /\ m_state' = [m_state EXCEPT ![b] = Reserve(@, size[t])]
        /\ offset' = [offset EXCEPT ![t] = m_state[b].offset]
        /\ content' = [content EXCEPT ![b] = @ \union {Entry(t)}]
     \/ /\ r = "LB_FULL"
        /\ m_state' = [m_state EXCEPT ![b].full = TRUE]
        /\ UNCHANGED <<offset, content>>
     \/ /\ r \in {"LB_RETRY", "LB_BUFFER_TOO_SMALL"} \/ (r = "LB_OK" /\ t \notin Threads)
        /\ UNCHANGED <<m_state, offset, content>>
  /\ UNCHANGED <<m_log_buffer, m_references, live, lists, signals, buffer, size, old_version, count>>

\* new LogBuffer, and write_pointer_version puts it in the place of the full one; nobody
\* knows the new buffer before.
Replace(t) ==
  /\ At(t, "LB_FULL") /\ m_log_buffer.ptr = buffer[t]
  /\ \E b \in Alloc(Addrs \ live) :
       /\ live' = live \union {b}
       /\ m_log_buffer' = [ptr |-> b, version |-> 0]
  /\ old_version' = [old_version EXCEPT ![t] = m_log_buffer.version]
  /\ Goto(t, "count")
  /\ UNCHANGED <<m_state, m_references, content, lists, signals, buffer, size, offset, count>>

\* Mutant: the thread's own reference is added too.
CountUsersMutant(t) ==
  /\ At(t, "count")
  /\ m_references' = [m_references EXCEPT ![buffer[t]] = @ + old_version[t]]
  /\ old_version' = [old_version EXCEPT ![t] = 0]
  /\ Goto(t, "queue")
  /\ UNCHANGED <<m_log_buffer, m_state, content, live, lists, signals, buffer, size, offset, count>>
\* The users counted in the pointer, but for this one, are added to m_references.
CountUsers(t) ==
  /\ At(t, "count")
  /\ m_references' = [m_references EXCEPT ![buffer[t]] = @ + old_version[t] - 1]
  /\ old_version' = [old_version EXCEPT ![t] = 0]
  /\ Goto(t, "queue")
  /\ UNCHANGED <<m_log_buffer, m_state, content, live, lists, signals, buffer, size, offset, count>>

\* add_to_flush_queue pushes, then counts; the preproc thread is signalled.
Queue(t) ==
  /\ At(t, "queue")
  /\ write_list' = write_list \union {buffer[t]}
  /\ Goto(t, "signal")
  /\ UNCHANGED <<buffers, num_flush_buffers, pp, cur, q, new_q, flush_buffers, flush_text, gone, format, signals, locals>>
Signal(t) ==
  /\ At(t, "signal")
  /\ num_flush_buffers' = num_flush_buffers + 1
  /\ preproc_notify' = TRUE
  /\ Retry(t)
  /\ UNCHANGED <<buffers, write_list, pp, cur, q, new_q, flush_buffers, flush_text, gone, format,
                 flush_notify, old_version, count>>

\* Mutant: the pointer is not looked at again.
ReleaseMutant(t) ==
  /\ pc[t] \in {"LB_OK", "LB_RETRY", "LB_BUFFER_TOO_SMALL"}
  /\ m_log_buffer' = [m_log_buffer EXCEPT !.version = @ - 1]
  /\ \/ At(t, "LB_OK") /\ t \in Threads /\ Goto(t, "marshal") /\ UNCHANGED <<buffer, size, offset>>
     \/ At(t, "LB_OK") /\ t \notin Threads /\ Return(t)
     \/ At(t, "LB_RETRY") /\ Retry(t)
     \/ At(t, "LB_BUFFER_TOO_SMALL") /\ Return(t)
  /\ UNCHANGED <<m_state, m_references, content, live, lists, signals, old_version, count>>
\* The reference is given back where it is counted now.
Release(t) ==
  /\ pc[t] \in {"LB_OK", "LB_RETRY", "LB_BUFFER_TOO_SMALL"}
  /\ IF m_log_buffer.ptr = buffer[t]
     THEN /\ m_log_buffer' = [m_log_buffer EXCEPT !.version = @ - 1]
          /\ UNCHANGED m_references
     ELSE /\ m_references' = [m_references EXCEPT ![buffer[t]] = @ - 1]
          /\ UNCHANGED m_log_buffer
  /\ \/ At(t, "LB_OK") /\ t \in Threads /\ Goto(t, "marshal") /\ UNCHANGED <<buffer, size, offset>>
     \/ At(t, "LB_OK") /\ t \notin Threads /\ Return(t)
     \/ At(t, "LB_RETRY") /\ Retry(t)
     \/ At(t, "LB_BUFFER_TOO_SMALL") /\ Return(t)
  /\ UNCHANGED <<m_state, content, live, lists, signals, old_version, count>>

\* The entry is marshalled while t is at "marshal"; LogBuffer::checkin_write ends it.
Checkin(t) ==
  /\ At(t, "marshal")
  /\ m_state' = [m_state EXCEPT ![buffer[t]].num_writers = @ - 1]
  /\ Return(t)
  /\ UNCHANGED <<m_log_buffer, m_references, content, live, lists, signals, old_version, count>>
-----------------------------------------------------------------------------
(* Log::preproc_thread_main and LogBufferManager::preproc_buffers *)
Preproc(at, label) == pp = at /\ pp' = label

\* wait() and write_list.popall()
PreprocTake ==
  /\ preproc_notify /\ Preproc("wait", "test")
  /\ preproc_notify' = FALSE
  /\ q' = write_list /\ write_list' = {}
  /\ UNCHANGED <<buffers, num_flush_buffers, cur, new_q, flush_buffers, flush_text, gone, format,
                 flush_notify, pc, locals>>

\* Mutant: m_references is not looked at.
PreprocTestReferencesMutant ==
  \E b \in q :
    /\ q' = q \ {b} /\ cur' = b
    /\ Preproc("test", "writers")
    /\ UNCHANGED <<buffers, write_list, num_flush_buffers, new_q, flush_buffers, flush_text, gone, format, signals, pc, locals>>
\* q.pop() and the first half of the test: m_references is read before num_writers.
PreprocTestReferences ==
  \E b \in q :
    /\ q' = q \ {b}
    /\ IF m_references[b] # 0
       THEN /\ Preproc("test", "test")
            /\ write_list' = write_list \union {b}
            /\ UNCHANGED cur
       ELSE /\ Preproc("test", "writers")
            /\ cur' = b
            /\ UNCHANGED write_list
    /\ UNCHANGED <<buffers, num_flush_buffers, new_q, flush_buffers, flush_text, gone, format, signals, pc, locals>>

\* Mutant: num_writers is not looked at.
PreprocTestWritersMutant ==
  /\ Preproc("writers", "test")
  /\ cur' = None /\ new_q' = new_q \union {cur}
  /\ UNCHANGED <<buffers, write_list, num_flush_buffers, q, flush_buffers, flush_text, gone, format, signals, pc, locals>>
\* Mutant: a buffer pushed back is counted out.
PreprocTestWritersCountMutant ==
  /\ Preproc("writers", "test")
  /\ cur' = None /\ write_list' = write_list \union {cur}
  /\ num_flush_buffers' = num_flush_buffers - 1
  /\ UNCHANGED <<buffers, q, new_q, flush_buffers, flush_text, gone, format, signals, pc, locals>>
PreprocTestWriters ==
  /\ Preproc("writers", "test")
  /\ cur' = None
  /\ \/ /\ m_state[cur].num_writers # 0
        /\ write_list' = write_list \union {cur}
        /\ UNCHANGED <<live, m_state, content, num_flush_buffers, new_q, gone>>
     \/ /\ m_state[cur].num_writers = 0 /\ num_flush_buffers > FLUSH_ARRAY_SIZE
        /\ num_flush_buffers' = num_flush_buffers - 1
        /\ gone' = gone \union content[cur]
        /\ Delete({cur})
        /\ UNCHANGED <<write_list, new_q>>
     \/ /\ m_state[cur].num_writers = 0 /\ num_flush_buffers <= FLUSH_ARRAY_SIZE
        /\ new_q' = new_q \union {cur}
        /\ UNCHANGED <<live, m_state, content, num_flush_buffers, write_list, gone>>
  /\ UNCHANGED <<m_log_buffer, m_references, q, flush_buffers, flush_text, format, signals, pc, locals>>

\* LogFile::preproc_and_try_delete: a binary buffer goes to the flush thread with a
\* reference, of a text log the lines go and the buffer is destroyed.
PreprocFormat ==
  /\ q = {} /\ Preproc("test", "test")
  /\ \E b \in new_q :
       /\ new_q' = new_q \ {b}
       /\ num_flush_buffers' = num_flush_buffers - 1
       /\ \/ /\ format = "binary"
             /\ flush_buffers' = flush_buffers \union {b}
             /\ m_references' = [m_references EXCEPT ![b] = @ + 1]
             /\ UNCHANGED <<flush_text, live, m_state, content>>
          \/ /\ format = "ascii"
             /\ flush_text' = flush_text \union content[b]
             /\ Delete(IF m_references[b] = 0 THEN {b} ELSE {})
             /\ UNCHANGED <<flush_buffers, m_references>>
  /\ flush_notify' = TRUE
  /\ UNCHANGED <<m_log_buffer, write_list, cur, q, gone, format, preproc_notify, pc, locals>>

PreprocEnd ==
  /\ q = {} /\ new_q = {} /\ Preproc("test", "wait")
  /\ UNCHANGED <<buffers, write_list, num_flush_buffers, cur, q, new_q, flush_buffers, flush_text, gone, format,
                 signals, pc, locals>>

\* PeriodicWakeup::wakeup, every second
Wakeup ==
  /\ preproc_notify' = TRUE /\ flush_notify' = TRUE
  /\ UNCHANGED <<buffers, lists, pc, locals>>
-----------------------------------------------------------------------------
(* Log::flush_thread_main: wait(), then the data it pops is its own, and is written or lost *)
Flush ==
  /\ At(Flusher, "wait") /\ flush_notify /\ flush_notify' = FALSE
  /\ gone' = gone \union flush_text \union UNION {content[b] : b \in flush_buffers}
  /\ Delete({b \in flush_buffers : m_references[b] = 1})
  /\ m_references' = [b \in Addrs |-> IF b \in flush_buffers THEN m_references[b] - 1 ELSE m_references[b]]
  /\ flush_buffers' = {} /\ flush_text' = {}
  /\ Goto(Flusher, "periodic")
  /\ UNCHANGED <<m_log_buffer, write_list, num_flush_buffers, pp, cur, q, new_q, format,
                 preproc_notify, locals>>

\* Log::periodic_tasks is not due, or check_buffer_expiration finds the buffer young.
NotExpired ==
  /\ At(Flusher, "periodic") /\ Goto(Flusher, "wait")
  /\ UNCHANGED <<buffers, lists, signals, locals>>
\* The current buffer is older than max_secs_per_buffer: force_new_buffer.
Expired ==
  /\ At(Flusher, "periodic") /\ Goto(Flusher, "acquire")
  /\ UNCHANGED <<buffers, lists, signals, locals>>
-----------------------------------------------------------------------------
\* A step of a process inside _checkout_write or log.
Step(t) ==
  \/ Acquire(t) \/ Checkout(t) \/ Replace(t) \/ CountUsers(t)
  \/ Queue(t) \/ Signal(t) \/ Release(t) \/ Checkin(t)
PreprocStep == PreprocTake \/ PreprocTestReferences \/ PreprocTestWriters \/ PreprocFormat \/ PreprocEnd
FlushStep == Flush \/ NotExpired \/ Expired

Next ==
  \/ \E t \in Threads : Log(t)
  \/ \E t \in Procs : Step(t)
  \/ PreprocStep \/ Wakeup \/ FlushStep

Spec == Init /\ [][Next]_vars

\* Threads finish what they began and the wake-up comes every second; a buffer grows
\* old, so that the flush thread finds it expired if it looks again and again.
Fairness ==
  /\ \A t \in Threads : WF_vars(Step(t))
  /\ WF_vars(PreprocStep) /\ WF_vars(Wakeup)
  /\ WF_vars(FlushStep \/ Step(Flusher)) /\ SF_vars(Expired)
FairSpec == Spec /\ Fairness
-----------------------------------------------------------------------------
TypeOK ==
  /\ m_log_buffer \in [ptr : Addrs, version : Nat]
  /\ m_state \in [Addrs -> [offset : Nat, num_entries : Nat, full : BOOLEAN, num_writers : Nat]]
  /\ m_references \in [Addrs -> Int]
  /\ content \in [Addrs -> SUBSET Entries]
  /\ live \subseteq Addrs /\ write_list \subseteq Addrs /\ q \subseteq Addrs /\ new_q \subseteq Addrs
  /\ flush_buffers \subseteq Addrs /\ flush_text \subseteq Entries /\ gone \subseteq Entries
  /\ num_flush_buffers \in Int
  /\ preproc_notify \in BOOLEAN /\ flush_notify \in BOOLEAN
  /\ pp \in {"test", "writers", "wait"} /\ cur \in Addrs \union {None}
  /\ format \in Formats
  /\ pc \in [Procs -> {"idle", "acquire", "checkout", "LB_OK", "LB_FULL", "LB_RETRY", "LB_BUFFER_TOO_SMALL",
                       "count", "queue", "signal", "marshal", "periodic", "wait"}]
  /\ buffer \in [Procs -> Addrs \union {None}]
  /\ size \in [Procs -> Nat] /\ offset \in [Procs -> Nat] /\ old_version \in [Procs -> Nat]
  /\ count \in [Procs -> Nat]

\* A process counts on buffer b not being deleted: it holds a reference ...
Holds(t, b) == buffer[t] = b /\ pc[t] \in {"checkout", "LB_OK", "LB_FULL", "LB_RETRY", "LB_BUFFER_TOO_SMALL"}
\* ... or it is between checkout_write and checkin_write.
Writes(t, b) == buffer[t] = b /\ t \in Threads /\ pc[t] \in {"LB_OK", "marshal"}
\* The buffers that nobody but the preproc or the flush thread may touch.
Taken == new_q \union flush_buffers

\* No buffer is deleted or formatted under a thread: whoever refers to a buffer or is
\* writing its entry finds it allocated, and preproc_buffers passes on only buffers
\* without references and writers (LogObject.cc:73).
UsersKeepBuffers ==
  \A t \in Procs, b \in Addrs : Holds(t, b) \/ Writes(t, b) => b \in live \ Taken

\* Two entries being written never share room, and all have room (LogBuffer.cc:274).
RoomIsOwn ==
  \A t, u \in Threads, b \in Addrs :
    Writes(t, b) =>
      /\ offset[t] + size[t] <= m_state[b].offset /\ m_state[b].offset <= Size
      /\ Writes(u, b) /\ t # u => offset[t] + size[t] <= offset[u] \/ offset[u] + size[u] <= offset[t]

\* Only the thread whose checkout_write made a buffer full replaces it, so that it
\* finds it still current: the branch that gives a new buffer up is never taken.
OneReplaces ==
  \A t \in Procs : At(t, "LB_FULL") => m_log_buffer.ptr = buffer[t]

\* The buffers in which an entry may still be: the current one, one being replaced
\* and queued, and the ones on a list.
Replacing == {b \in Addrs : \E t \in Procs : buffer[t] = b /\ pc[t] \in {"count", "queue"}}
Held == {m_log_buffer.ptr} \union Replacing \union write_list \union q \union ({cur} \ {None}) \union Taken

\* No entry is lost or written twice: an entry that was given room is in exactly one
\* buffer that is on its way to the file, or in the text that is, or gone.
EntriesOnce ==
  /\ \A b, c \in Held : b # c => content[b] \intersect content[c] = {}
  /\ \A b \in Held : content[b] \intersect (flush_text \union gone) = {}
  /\ flush_text \intersect gone = {}
  /\ \A t \in Threads, b \in Addrs : Writes(t, b) => b \in Held /\ Entry(t) \in content[b]

\* _num_flush_buffers, by which preproc_buffers drops buffers, counts the queued ones but
\* for those add_to_flush_queue has pushed and not yet counted.
QueueCounted ==
  num_flush_buffers + Cardinality({t \in Procs : At(t, "signal")})
    = Cardinality(write_list) + Cardinality(q) + Cardinality({cur} \ {None}) + Cardinality(new_q)

\* When the threads stop logging (they log MaxLog entries at most), every log() has
\* returned, whatever buffer it waited for, and every entry that was given room is written
\* or counted as lost, however idle the log is.
AllFlushed ==
  <>[](/\ \A t \in Threads : At(t, "idle")
       /\ \A b \in Held : content[b] = {}
       /\ flush_text = {})
=============================================================================
