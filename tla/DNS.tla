-------------------------------- MODULE DNS --------------------------------
(***************************************************************************)
(* The DNS client (src/iocore/dns): lookups that wait in DNSHandler, queries *)
(* sent to name servers over UDP, answers that come late or never,          *)
(* timeouts with retries, the failover between name servers and the         *)
(* delivery of the result.                                                  *)
(*                                                                          *)
(* All of DNSHandler runs under its mutex: dns holds what that protects,    *)
(* the operators take it from one value to the next, and mainEvent puts     *)
(* together what it may receive, its look at the name servers and           *)
(* write_dns.                                                               *)
(*                                                                          *)
(* A name is a pair of what was asked for and how many search domains have  *)
(* been tried with it.  Time is left open: a period may or may not have     *)
(* passed.  A mainEvent receives one message at most: more of them are more *)
(* of it.  Names can be encoded, and the connections are UDP only.          *)
(***************************************************************************)
EXTENDS Integers, Sequences, FiniteSetsExt

CONSTANTS MaxLookups,              \* bound: of lookups, numbered in the order they come
          Names(_), Dotless,       \* the names they may ask for; those without a dot
          Local,                   \* the lookups of the thread of DNSHandler
          Cancellable,             \* the lookups that may be cancelled
          Servers,                 \* number of name servers
          Ids, Pick(_),            \* query ids; which one of the free ones is taken
          None,
          dns_retries, dns_max_dns_in_flight, dns_failover_number,
          Domains,                 \* number of search domains
          dns_validate_qname,
          RoundRobin,              \* the values of dns_ns_rr
          TxnTimeouts,             \* the values of txn_lookup_timeout: of {TRUE, FALSE}
          MaxFaults,               \* bound: of errors of sockets and of servers found dead
          MaxNet                   \* bound: of queries that may still be answered

Lookups == 1 .. MaxLookups
ASSUME DNSAssumption ==
  /\ MaxLookups \in Nat /\ Local \subseteq Lookups /\ Cancellable \subseteq Lookups /\ Servers \in Nat \ {0} /\ None \notin Ids
  /\ Ids # {} /\ \A S \in SUBSET Ids : S # {} => Pick(S) \in S
  /\ dns_retries \in 0 .. 8        \* id has MAX_DNS_RETRIES = 9 places
  /\ dns_failover_number \in Nat /\ Domains \in Nat /\ MaxNet \in Nat /\ MaxFaults \in Nat
  /\ RoundRobin \subseteq BOOLEAN /\ TxnTimeouts \subseteq BOOLEAN

VARIABLES dns, dns_ns_rr,
          retried                  \* the last step was that of _dns_retry_event

vars == <<dns, dns_ns_rr, retried>>
NS == 0 .. Servers - 1

Blank == [state |-> "new", name |-> None, retries |-> 0, id |-> [i \in 0 .. dns_retries |-> None], written |-> FALSE,
          once_written |-> FALSE, which_ns |-> None, domains |-> 0, last |-> FALSE, timeout |-> "none",
          dups |-> <<>>, result |-> None, cancelled |-> FALSE]

Init ==
  /\ retried = FALSE
  /\ dns_ns_rr \in RoundRobin
  /\ dns = [entries |-> <<>>, entry |-> [l \in Lookups |-> Blank], in_flight |-> 0, name_server |-> 0,
            ns_down |-> [i \in NS |-> ~dns_ns_rr /\ i # 0], failover_number |-> [i \in NS |-> 0],
            txn_lookup_timeout |-> FALSE, qid_in_flight |-> {}, net |-> {}, faults |-> 0]

\* What the moment brings: which of the writes fails (0: none), whether a socket can be
\* opened, whose continuation has its mutex taken.
Moment(s, taken) ==
  LET more == s.faults < MaxFaults IN
  [fail : IF more THEN 0 .. Len(s.entries) ELSE {0}, opened : IF more THEN BOOLEAN ELSE {TRUE}, busy : taken]
Chances(s) == Moment(s, SUBSET {l \in Local : s.entry[l].state \in {"head", "dup", "post"}})
Quiet(s) == Moment(s, {{}})
Fault(s) == [s EXCEPT !.faults = @ + 1]
\* The servers that may still fail
Failing(s) == {i \in NS : s.faults < MaxFaults}

Failed == <<>>
qname(s, l) == <<s.entry[l].name, s.entry[l].domains>>
Query(id, name, ns) == [id |-> id, name |-> name, ns |-> ns]
\* Of more than MaxNet queries one is lost.
Out(net, q) == {q} \union IF Cardinality(net) < MaxNet THEN net ELSE net \ {CHOOSE m \in net : TRUE}
-----------------------------------------------------------------------------
(* Name servers *)
\* The queries of a socket that is replaced are not answered any more.
open_con(s, i, opened) ==
  LET t == [s EXCEPT !.net = {m \in @ : m.ns # i}] IN
  IF opened THEN [t EXCEPT !.ns_down[i] = FALSE] ELSE Fault(t)

received_one(s, i) == [s EXCEPT !.failover_number[i] = 0]

\* The entries L are to be written again, with another chance.
Unwrite(s, L) ==
  [s EXCEPT !.entry = [l \in Lookups |-> IF l \notin L THEN s.entry[l]
                         ELSE [s.entry[l] EXCEPT !.written = FALSE, !.retries = Min({@ + 1, dns_retries})]]]

\* Mutant: in_flight is kept.
switch_namedMutant(s, i) == received_one([Unwrite(s, Range(s.entries)) EXCEPT !.name_server = i], i)
switch_named(s, i) ==
  received_one([Unwrite(s, Range(s.entries)) EXCEPT !.name_server = i, !.in_flight = 0], i)

failover(s, c) ==
  LET down == [s EXCEPT !.ns_down[s.name_server] = TRUE]
      next == (s.name_server + 1) % Servers IN
  IF Servers > 1 THEN switch_named(open_con(down, next, c.opened), next) ELSE [down EXCEPT !.net = {}]

rr_failure(s, i) ==
  LET down == [s EXCEPT !.ns_down[i] = TRUE]
      moved == {l \in Range(s.entries) : s.entry[l].which_ns = i \/ \A j \in NS : down.ns_down[j]} IN
  [Unwrite(down, moved) EXCEPT !.in_flight = @ - Cardinality(moved)]

Lost(s, i, c) == IF dns_ns_rr THEN rr_failure(s, i) ELSE IF i = s.name_server THEN failover(s, c) ELSE s
-----------------------------------------------------------------------------
(* Writing *)
\* Mutant: the earlier id is not released.
get_query_idReleaseMutant(s, l) ==
  LET id == Pick(IF Ids \ s.qid_in_flight = {} THEN Ids ELSE Ids \ s.qid_in_flight) IN
  [s EXCEPT !.entry[l].id[dns_retries - s.entry[l].retries] = id, !.qid_in_flight = @ \union {id}]
\* The entry has a new id for this try, and an earlier one of the same place is released.
get_query_id(s, l) ==
  LET place == dns_retries - s.entry[l].retries
      free == Ids \ s.qid_in_flight
      id == Pick(IF free = {} THEN Ids ELSE free) IN
  [s EXCEPT !.entry[l] = [@ EXCEPT !.id[place] = id],
            !.qid_in_flight = (@ \union {id}) \ {s.entry[l].id[place]}]

\* write_dns_event once send has succeeded
Sent(s, l) ==
  LET i == s.name_server IN
  [s EXCEPT !.entry[l] = [@ EXCEPT !.written = TRUE, !.once_written = TRUE, !.which_ns = i, !.timeout = "lookup"],
            !.in_flight = @ + 1,
            !.failover_number[i] = Min({@ + 1, dns_failover_number}),
            !.net = Out(@, Query(s.entry[l].id[dns_retries - s.entry[l].retries], qname(s, l), i))]

\* Round robin: the next name server that is not down.
NextServer(s) ==
  LET at(k) == (s.name_server + k) % Servers IN
  IF ~dns_ns_rr THEN s
  ELSE [s EXCEPT !.name_server = at(Min({k \in 1 .. Servers : k = Servers \/ ~s.ns_down[at(k)]}))]

\* One turn of the loop of write_dns: on, the loop goes on; fail, the writes up to the one that fails.
WriteOne(w, l, c) ==
  LET t == NextServer(w.s)
      u == get_query_id(t, l)
      full == w.s.in_flight >= dns_max_dns_in_flight IN
  CASE ~w.on \/ full -> [s |-> w.s, on |-> FALSE, fail |-> w.fail]
    [] w.on /\ ~full /\ w.s.entry[l].written -> w
    [] OTHER -> IF t.ns_down[t.name_server] THEN [s |-> t, on |-> FALSE, fail |-> w.fail]
                ELSE IF w.fail = 1 THEN [s |-> Lost(Fault(u), u.name_server, c), on |-> FALSE, fail |-> 0]
                ELSE [s |-> Sent(u, l), on |-> TRUE, fail |-> w.fail - 1]
Writes(s, c) ==
  LET w[i \in 0 .. Len(s.entries)] ==
        IF i = 0 THEN [s |-> s, on |-> TRUE, fail |-> c.fail] ELSE WriteOne(w[i - 1], s.entries[i], c) IN w
write_dns(s, c) == Writes(s, c)[Len(s.entries)].s
-----------------------------------------------------------------------------
(* Results *)
\* DNSEntry::post: the continuation is called, or postOneEvent is scheduled on its thread.
Posted(name, result, called) ==
  [Blank EXCEPT !.state = IF called THEN "done" ELSE "posting", !.name = name, !.result = result]

\* Mutant: a lookup that waits with l is forgotten when its mutex is taken.
postAllEventMutant(s, l, c) ==
  LET e == s.entry[l]
      missed == {i \in DOMAIN e.dups : e.dups[i] \in c.busy}
      t == [s EXCEPT !.entry = [d \in Lookups |->
              IF d \in Range(e.dups) \ c.busy THEN Posted(s.entry[d].name, e.result, d \in Local) ELSE s.entry[d]]] IN
  IF missed = {} THEN [t EXCEPT !.entry[l] = Posted(e.name, e.result, l \in Local \ c.busy)]
  ELSE [t EXCEPT !.entry[l].dups = <<>>, !.entry[l].state = "post", !.entry[l].timeout = "post"]
postAllEvent(s, l, c) ==
  LET e == s.entry[l]
      missed == {i \in DOMAIN e.dups : e.dups[i] \in c.busy}
      n == IF missed = {} THEN Len(e.dups) ELSE Min(missed) - 1
      t == [s EXCEPT !.entry = [d \in Lookups |->
              IF d \in Range(SubSeq(e.dups, 1, n)) THEN Posted(s.entry[d].name, e.result, d \in Local) ELSE s.entry[d]]] IN
  IF missed = {} THEN [t EXCEPT !.entry[l] = Posted(e.name, e.result, l \in Local \ c.busy)]
  ELSE [t EXCEPT !.entry[l] = [@ EXCEPT !.dups = Append(SubSeq(e.dups, n + 2, Len(e.dups)), e.dups[n + 1]),
                                        !.state = "post", !.timeout = "post"]]

\* entries.remove(e)
Without(entries, l) ==
  LET i == CHOOSE i \in DOMAIN entries : entries[i] = l IN
  SubSeq(entries, 1, i - 1) \o SubSeq(entries, i + 1, Len(entries))

\* The ids of the entry up to its first empty place
IdsOf(e) == {e.id[i] : i \in {i \in DOMAIN e.id : \A j \in 0 .. i : e.id[j] # None}}

Finish(s, l, result, c) ==
  postAllEvent([s EXCEPT !.entries = Without(@, l),
                         !.qid_in_flight = @ \ IdsOf(s.entry[l]),
                         !.entry[l] = [@ EXCEPT !.id = Blank.id, !.result = result, !.retries = 0]], l, c)

\* dns_result: result is the name that was answered, or Failed.
dns_result(s, l, result, retry, c) ==
  LET e == s.entry[l]
      again == result = Failed /\ ~e.cancelled IN
  CASE again /\ retry /\ e.retries > 0 -> write_dns([s EXCEPT !.entry[l] = [@ EXCEPT !.retries = e.retries - 1]], c)
    [] again /\ ~(retry /\ e.retries > 0) /\ e.domains < Domains ->
         write_dns([s EXCEPT !.entry[l] = [@ EXCEPT !.domains = e.domains + 1, !.retries = dns_retries]], c)
    [] again /\ ~(retry /\ e.retries > 0) /\ Domains = 0 /\ e.name \in Dotless /\ ~e.last ->
         write_dns([s EXCEPT !.entry[l] = [@ EXCEPT !.last = TRUE]], c)
    [] OTHER -> Finish(s, l, result, c)
-----------------------------------------------------------------------------
(* DNSHandler::recv_dns *)
good_rcode(rcode) == rcode \in {"answer", "nxdomain"}

\* The first entry with the id
get_dns(s, id) ==
  LET at == {i \in DOMAIN s.entries : s.entry[s.entries[i]].once_written /\ id \in IdsOf(s.entry[s.entries[i]])} IN
  IF at = {} THEN None ELSE s.entries[Min(at)]

\* An answer to m tells that its server is there; the primary server is gone back to.
Heard(s, m, rcode) ==
  CASE ~good_rcode(rcode) -> s
    [] good_rcode(rcode) /\ dns_ns_rr -> [received_one(s, m.ns) EXCEPT !.ns_down[m.ns] = FALSE]
    [] good_rcode(rcode) /\ ~dns_ns_rr /\ m.ns = 0 /\ s.name_server # 0 -> switch_named(s, 0)
    [] good_rcode(rcode) /\ ~dns_ns_rr /\ m.ns = 0 /\ s.name_server = 0 -> received_one(s, 0)
    [] OTHER -> s

\* Mutant: the name of the answer is not compared.
dns_processMutant(s, l, m, rcode, c) ==
  LET t == [s EXCEPT !.entry[l] = [@ EXCEPT !.written = FALSE], !.in_flight = @ - 1]
      u == dns_result(t, l, IF rcode = "answer" THEN m.name ELSE Failed, rcode = "servfail", c) IN
  IF rcode # "refused" /\ m.ns = u.name_server THEN received_one(u, m.ns) ELSE u
dns_process(s, l, m, rcode, c) ==
  LET t == [s EXCEPT !.entry[l] = [@ EXCEPT !.written = FALSE], !.in_flight = @ - 1]
      good == rcode = "answer" /\ (dns_validate_qname => m.name = qname(s, l))
      u == dns_result(t, l, IF good THEN m.name ELSE Failed, rcode = "servfail", c) IN
  IF rcode # "refused" /\ m.ns = u.name_server THEN received_one(u, m.ns) ELSE u

\* recv_dns: nothing, an answer to a query that is out, or an error of a socket.  A server
\* that is down, or does not answer, is also sent queries whose answers only tell that it
\* is there again (retry_named, try_primary_named); one may come at any time.
Answered(s, m, rcode, c) ==
  LET t == Heard([s EXCEPT !.net = @ \ {m}], m, rcode)
      l == get_dns(t, m.id) IN
  IF l # None /\ t.entry[l].written THEN dns_process(t, l, m, rcode, c) ELSE t
recv_dns(s) ==
  {s} \union {Answered(s, m, rcode, c) : m \in s.net, rcode \in {"answer", "nxdomain", "servfail", "refused"}, c \in Chances(s)}
      \union {Heard(s, Query(None, None, i), "answer") : i \in IF dns_ns_rr THEN NS ELSE {0}}
      \union {Lost(Fault(s), i, c) : i \in Failing(s), c \in Quiet(s)}
-----------------------------------------------------------------------------
(* The rest of DNSHandler::mainEvent *)
EachFails(s, D) ==
  LET f[n \in 0 .. Servers] ==
        IF n = 0 THEN s ELSE IF n - 1 \in D THEN rr_failure(Fault(f[n - 1]), n - 1) ELSE f[n - 1] IN f

Crossed(s) == {i \in NS : ~s.ns_down[i] /\ s.failover_number[i] = dns_failover_number}

\* Round robin: the servers of dead have not answered for dns_failover_period; one of
\* those that are down has its socket opened again.
CheckServers(s, reopen, dead, c) ==
  LET down == {i \in NS : s.ns_down[i]} IN
  EachFails(IF reopen /\ down # {} THEN open_con(s, Min(down), c.opened) ELSE s, dead)[Servers]

\* Primary and secondaries: the same for the current server and for the primary one.
CheckPrimary(s, reopen, dead, c) ==
  CASE s.ns_down[s.name_server] -> failover(s, c)
    [] s.name_server \in dead -> failover(Fault(s), c)
    [] s.name_server \notin {0} \union dead /\ ~s.ns_down[s.name_server] /\ reopen -> open_con(s, 0, c.opened)
    [] OTHER -> s

CheckNamed(s, reopen) ==
  {IF dns_ns_rr THEN CheckServers(s, reopen, dead, c) ELSE CheckPrimary(s, reopen, dead, c)
     : dead \in SUBSET (Crossed(s) \intersect Failing(s)), c \in Quiet(s)}

Bounded(S) == {s \in S : s.faults <= MaxFaults}
To(S) == dns' \in Bounded(S) /\ UNCHANGED dns_ns_rr
Step(S) == To(S) /\ retried' = FALSE
ThenWrite(S) == UNION {{write_dns(s, c) : c \in Quiet(s)} : s \in Bounded(S)}
mainEvent == Step(ThenWrite(UNION {CheckNamed(s, reopen) : s \in Bounded(recv_dns(dns)), reopen \in BOOLEAN}))

\* mainEvent by _dns_retry_event, with its periods over and nothing to receive
RetryEvent == To(ThenWrite(CheckNamed(dns, TRUE))) /\ retried' = TRUE
-----------------------------------------------------------------------------
(* Lookups *)
\* DNSProcessor::getby and DNSEntry::mainEvent(EVENT_IMMEDIATE)
getby(l, name, txn) ==
  LET new == [Blank EXCEPT !.name = name, !.domains = IF Domains > 0 /\ name \in Dotless THEN 1 ELSE 0]
      same == {d \in Range(dns.entries) : qname(dns, d) = <<new.name, new.domains>>}
      head == CHOOSE d \in same : TRUE
      s == [dns EXCEPT !.txn_lookup_timeout = txn,
                       !.entry[l] = IF same # {} THEN [new EXCEPT !.state = "dup"]
                                    ELSE [new EXCEPT !.state = "head", !.retries = dns_retries]] IN
  /\ \A k \in 1 .. l : dns.entry[k].state = "new" <=> k = l
  /\ Step({IF same # {} THEN [s EXCEPT !.entry[head] = [dns.entry[head] EXCEPT !.dups = Append(@, l)]]
           ELSE [s EXCEPT !.entries = Append(@, l)]})

\* Mutant: written_flag stays set.
TimeoutMutant(l) ==
  /\ dns.entry[l].timeout = "lookup"
  /\ Step({dns_result([dns EXCEPT !.entry[l].timeout = "none"], l, Failed, ~dns.txn_lookup_timeout, c) : c \in Chances(dns)})
\* DNSEntry::mainEvent(EVENT_INTERVAL)
Timeout(l) ==
  LET e == dns.entry[l]
      s == [dns EXCEPT !.entry[l] = [@ EXCEPT !.timeout = "none"]]
      t == [s EXCEPT !.entry[l] = [@ EXCEPT !.written = FALSE], !.in_flight = IF e.written THEN @ - 1 ELSE @] IN
  /\ e.timeout = "lookup"
  /\ Step({IF dns.txn_lookup_timeout THEN dns_result(s, l, Failed, FALSE, c) ELSE dns_result(t, l, Failed, TRUE, c)
             : c \in Chances(dns)})

\* The event with which postAllEvent tries again
PostAgain(l, busy) ==
  /\ dns.entry[l].timeout = "post"
  /\ Step({postAllEvent(dns, l, c) : c \in {c \in Chances(dns) : c.busy = busy}})

\* postOneEvent on the thread of the lookup
postOneEvent(l) ==
  /\ dns.entry[l].state = "posting"
  /\ Step({[dns EXCEPT !.entry[l] = [@ EXCEPT !.state = "done"]]})

\* Action::cancel; a lookup that waits with another, or has its result, does not come to
\* the test of it in dns_result.
Cancel(l) ==
  /\ l \in Cancellable /\ dns.entry[l].state = "head"
  /\ Step({[dns EXCEPT !.entry[l] = [@ EXCEPT !.cancelled = TRUE]]})

Next ==
  \/ mainEvent
  \/ RetryEvent
  \/ \E l \in Lookups : \E name \in Names(l), txn \in TxnTimeouts : getby(l, name, txn)
  \/ \E l \in Lookups : Timeout(l) \/ postOneEvent(l) \/ Cancel(l) \/ \E busy \in SUBSET Local : PostAgain(l, busy)

Spec == Init /\ [][Next]_vars

\* mainEvent runs again and again, by _dns_retry_event and otherwise; timers come, the threads of
\* the lookups run, their mutexes are not always taken.  Of a timer that comes it is enough
\* that it is not left as it was: Timeout spends a try or ends the lookup.
Tries(l) == <<dns.entry[l].retries, dns.entry[l].domains, dns.entry[l].last>>
Fairness ==
  /\ WF_retried(retried' = ~retried)
  /\ \A l \in Lookups :
       /\ \A t \in (0 .. dns_retries) \X (0 .. Domains) \X BOOLEAN : []<>(dns.entry[l].timeout # "lookup" \/ Tries(l) # t)
       /\ []<>(dns.entry[l].timeout # "post")
       /\ []<>(dns.entry[l].state # "posting")
FairSpec == Spec /\ Fairness
-----------------------------------------------------------------------------
Asked == {None} \union UNION {Names(l) : l \in Lookups}
Queried == Asked \X (0 .. Domains)
Entry ==
  [state : {"new", "head", "dup", "post", "posting", "done"}, name : Asked, retries : 0 .. dns_retries,
   id : [0 .. dns_retries -> Ids \union {None}], written : BOOLEAN, once_written : BOOLEAN, which_ns : NS \union {None},
   domains : 0 .. Domains, last : BOOLEAN, timeout : {"none", "lookup", "post"}, dups : Seq(Lookups),
   result : {None, Failed} \union Queried, cancelled : BOOLEAN]
State ==
  [entries : Seq(Lookups), entry : [Lookups -> Entry], in_flight : Int, name_server : NS, ns_down : [NS -> BOOLEAN],
   failover_number : [NS -> 0 .. dns_failover_number], txn_lookup_timeout : BOOLEAN, qid_in_flight : SUBSET Ids,
   net : SUBSET [id : Ids \union {None}, name : Queried, ns : NS], faults : Nat]
TypeOK == dns \in State /\ dns_ns_rr \in BOOLEAN

Written == {l \in Lookups : dns.entry[l].state = "head" /\ dns.entry[l].written}

\* No lookup is lost or answered twice when equal ones are put together: each is an entry,
\* or waits with exactly one that is not answered yet, or is on its way back; timers are
\* only left for those that wait.
Accounted ==
  /\ TypeOK
  /\ IsInjective(dns.entries)
  /\ \A l \in Lookups :
       LET e == dns.entry[l]
           with == {d \in Lookups : l \in Range(dns.entry[d].dups)} IN
       /\ e.state = "head" <=> l \in Range(dns.entries)
       /\ e.state = "dup" <=> with # {}
       /\ \A d \in with : with = {d} /\ dns.entry[d].state \in {"head", "post"} /\ dns.entry[d].name = e.name
       /\ IsInjective(e.dups)
       /\ e.timeout = "lookup" => e.state = "head"
       /\ e.timeout = "post" <=> e.state = "post"

\* The query ids in use are those of the entries that wait, no two have one in common, and
\* a query that is out is found by the id it was last sent with.
IdsOwned ==
  /\ dns.qid_in_flight = UNION {Range(dns.entry[l].id) : l \in Lookups} \ {None}
  /\ \A l, d \in Lookups : \A i, j \in 0 .. dns_retries :
       dns.entry[l].id[i] = dns.entry[d].id[j] /\ dns.entry[l].id[i] # None => l = d /\ i = j
  /\ \A l \in Written : get_dns(dns, dns.entry[l].id[dns_retries - dns.entry[l].retries]) = l

\* With a primary server in_flight counts the queries that are out.
InFlightExact == ~dns_ns_rr => dns.in_flight = Cardinality(Written)

\* When dns_process compares names, no lookup is given the answer to another one, however
\* late the answer came.
RightAnswer ==
  dns_validate_qname =>
    \A l \in Lookups :
      dns.entry[l].result \in {None, Failed} \union {<<dns.entry[l].name, i>> : i \in 0 .. Domains}

\* Every lookup is answered in the end.
AllAnswered == <>[](\A l \in Lookups : dns.entry[l].state \in {"new", "done"})
=============================================================================
