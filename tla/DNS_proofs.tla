------------------------------ MODULE DNS_proofs ------------------------------
(***************************************************************************)
(* Proofs about DNS for any number of lookups, name servers, search domains *)
(* and query ids: no lookup is lost or answered twice, none is given the    *)
(* answer to another name, and with a primary server in_flight is exact.    *)
(*                                                                          *)
(* What is sent, and to whom, only changes the entries that wait, and only  *)
(* in what Keeps leaves open; every operator for that is shown to keep to   *)
(* it.  What is left are the steps that put lookups together and the ones   *)
(* that give results out.                                                   *)
(***************************************************************************)
EXTENDS DNS, FiniteSetTheorems, TLAPS

Heads(s) == Range(s.entries)
WrittenIn(s) == {l \in Lookups : s.entry[l].written}
\* in_flight counts the entries that are out, all of which wait.
Flight(s) == WrittenIn(s) \subseteq Heads(s) /\ (~dns_ns_rr => s.in_flight = Cardinality(WrittenIn(s)))

\* What sending may do: nothing to a lookup that is not in entries, and to the others
\* nothing but tries, ids and a new timer.
SameLookup(e, f) ==
  f.state = e.state /\ f.name = e.name /\ f.dups = e.dups /\ f.result = e.result /\ f.timeout \in {e.timeout, "lookup"}
Keeps(s, t) ==
  /\ t \in State /\ t.entries = s.entries /\ t.txn_lookup_timeout = s.txn_lookup_timeout
  /\ \A l \in Lookups : SameLookup(s.entry[l], t.entry[l]) /\ (l \notin Heads(s) => t.entry[l] = s.entry[l])
  /\ Flight(s) => Flight(t)
-----------------------------------------------------------------------------
(* Numbers and sets *)
\* Sequences put together and cut
LEMMA Concatenated ==
  ASSUME NEW S, NEW a \in Seq(S), NEW b \in Seq(S)
  PROVE  /\ a \o b \in Seq(S) /\ DOMAIN (a \o b) = 1 .. Len(a) + Len(b)
         /\ \A j \in 1 .. Len(a) + Len(b) : (a \o b)[j] = IF j <= Len(a) THEN a[j] ELSE b[j - Len(a)]
OBVIOUS

LEMMA CutBefore ==
  ASSUME NEW S, NEW q \in Seq(S), NEW i \in 1 .. Len(q)
  PROVE  /\ SubSeq(q, 1, i - 1) \in Seq(S) /\ Len(SubSeq(q, 1, i - 1)) = i - 1
         /\ \A j \in 1 .. i - 1 : SubSeq(q, 1, i - 1)[j] = q[j]
OBVIOUS

LEMMA CutAfter ==
  ASSUME NEW S, NEW q \in Seq(S), NEW i \in 1 .. Len(q)
  PROVE  /\ SubSeq(q, i + 1, Len(q)) \in Seq(S) /\ Len(SubSeq(q, i + 1, Len(q))) = Len(q) - i
         /\ \A j \in 1 .. Len(q) - i : SubSeq(q, i + 1, Len(q))[j] = q[i + j]
OBVIOUS

\* Every set of numbers has a least one: induction, in the form the provers can use.
LEMMA Least ==
  ASSUME NEW T \in SUBSET Nat, T # {}
  PROVE  \E x \in T : \A y \in T : x <= y
<1>1. IsWellFoundedOn(OpToRel(<, Nat), Nat)
  BY Zenon, NatLessThanWellFounded
<1>2. OpToRel(<, Nat) = {p \in Nat \X Nat : p[1] < p[2]}
  BY Zenon DEF OpToRel
<1>3. \A S \in SUBSET Nat : S # {} => \E x \in S : \A y \in S : ~(<<y, x>> \in {p \in Nat \X Nat : p[1] < p[2]})
  BY ZenonT(30), <1>1, <1>2, WFMin
<1>4. PICK x \in T : \A y \in T : ~(<<y, x>> \in {p \in Nat \X Nat : p[1] < p[2]})
  BY Zenon, <1>3
<1>5. \A y \in T : x \in Nat /\ y \in Nat /\ ~(y < x)
  BY Zenon, <1>4
<1>6. QED BY <1>5

LEMMA MinLeast ==
  ASSUME NEW T \in SUBSET Nat, T # {}
  PROVE  Min(T) \in T /\ \A y \in T : Min(T) <= y
<1>1. PICK x \in T : \A y \in T : x <= y
  BY Zenon, Least
<1>2. QED BY Zenon, <1>1 DEF Min

LEMMA MinOfTwo ==
  ASSUME NEW n \in Nat, NEW a \in 0 .. n
  PROVE  Min({a + 1, n}) \in 0 .. n
<1>1. {a + 1, n} \in SUBSET Nat
  OBVIOUS
<1>2. Min({a + 1, n}) \in {a + 1, n} /\ Min({a + 1, n}) <= n
  BY Zenon, <1>1, MinLeast
<1>3. QED BY <1>2

LEMMA Constants ==
  /\ MaxLookups \in Nat /\ Servers \in Nat /\ Servers > 0 /\ dns_retries \in Nat /\ dns_failover_number \in Nat /\ Domains \in Nat
  /\ NS = 0 .. Servers - 1 /\ Lookups = 1 .. MaxLookups
BY DNSAssumption DEF NS, Lookups

LEMMA LookupSets ==
  ASSUME NEW L \in SUBSET Lookups
  PROVE  IsFiniteSet(L) /\ Cardinality(L) \in Nat
<1>1. 1 \in Int /\ MaxLookups \in Int /\ Lookups = 1 .. MaxLookups
  BY Constants
<1>2. IsFiniteSet(Lookups)
  BY Zenon, <1>1, FS_Interval
<1>3. QED BY Zenon, <1>2, FS_Subset, FS_CardinalityType
-----------------------------------------------------------------------------
(* States *)
LEMMA Fields ==
  ASSUME NEW s \in State
  PROVE  /\ s.entries \in Seq(Lookups) /\ s.entry \in [Lookups -> Entry] /\ s.in_flight \in Int /\ s.name_server \in NS
         /\ s.ns_down \in [NS -> BOOLEAN] /\ s.failover_number \in [NS -> 0 .. dns_failover_number]
         /\ s.txn_lookup_timeout \in BOOLEAN /\ s.qid_in_flight \in SUBSET Ids
         /\ s.net \in SUBSET [id : Ids \union {None}, name : Queried, ns : NS] /\ s.faults \in Nat
         /\ \A l \in Lookups : s.entry[l] \in Entry
BY Zenon DEF State

LEMMA EntryFields ==
  ASSUME NEW e \in Entry
  PROVE  /\ e.state \in {"new", "head", "dup", "post", "posting", "done"} /\ e.name \in Asked /\ e.retries \in 0 .. dns_retries
         /\ e.id \in [0 .. dns_retries -> Ids \union {None}] /\ e.written \in BOOLEAN /\ e.domains \in 0 .. Domains
         /\ e.timeout \in {"none", "lookup", "post"} /\ e.dups \in Seq(Lookups)
         /\ e.result \in {None, Failed} \union Queried /\ e.cancelled \in BOOLEAN
BY Zenon DEF Entry

LEMMA HeadsAre ==
  ASSUME NEW s \in State
  PROVE  /\ Heads(s) \in SUBSET Lookups /\ Len(s.entries) \in Nat /\ DOMAIN s.entries = 1 .. Len(s.entries)
         /\ \A i \in 1 .. Len(s.entries) : s.entries[i] \in Heads(s)
<1>1. s.entries \in Seq(Lookups)
  BY Zenon, Fields
<1>2. /\ Len(s.entries) \in Nat /\ DOMAIN s.entries = 1 .. Len(s.entries)
      /\ \A i \in 1 .. Len(s.entries) : s.entries[i] \in Lookups
  BY <1>1
<1>3. QED BY Zenon, <1>2 DEF Heads, Range

LEMMA KeepsSelf ==
  ASSUME NEW s \in State
  PROVE  Keeps(s, s)
BY Zenon DEF Keeps, SameLookup

LEMMA KeepsMore ==
  ASSUME NEW s, NEW t, NEW u, Keeps(s, t), Keeps(t, u)
  PROVE  Keeps(s, u)
<1>1. Heads(t) = Heads(s)
  BY Zenon DEF Keeps, Heads
<1>2. ASSUME NEW l \in Lookups
      PROVE  SameLookup(s.entry[l], u.entry[l]) /\ (l \notin Heads(s) => u.entry[l] = s.entry[l])
  <2>1. SameLookup(s.entry[l], t.entry[l]) /\ SameLookup(t.entry[l], u.entry[l])
    BY Zenon DEF Keeps
  <2>2. SameLookup(s.entry[l], u.entry[l])
    BY Zenon, <2>1 DEF SameLookup
  <2>3. QED BY Zenon, <1>1, <2>2 DEF Keeps
<1>3. QED BY Zenon, <1>2 DEF Keeps

\* A step that leaves the entries alone
LEMMA KeepsEntries ==
  ASSUME NEW s, NEW t \in State, t.entries = s.entries, t.entry = s.entry, t.in_flight = s.in_flight,
         t.txn_lookup_timeout = s.txn_lookup_timeout
  PROVE  Keeps(s, t)
<1>1. Flight(s) => Flight(t)
  BY Zenon DEF Flight, WrittenIn, Heads
<1>2. QED BY Zenon, <1>1 DEF Keeps, SameLookup

LEMMA FaultKeeps ==
  ASSUME NEW s \in State
  PROVE  Keeps(s, Fault(s))
<1>1. s.faults + 1 \in Nat
  BY Fields
<1>2. /\ Fault(s) \in State /\ Fault(s).entries = s.entries /\ Fault(s).entry = s.entry /\ Fault(s).in_flight = s.in_flight
      /\ Fault(s).txn_lookup_timeout = s.txn_lookup_timeout
  BY Zenon, <1>1 DEF Fault, State
<1>3. QED BY Zenon, <1>2, KeepsEntries
-----------------------------------------------------------------------------
(* Name servers *)
LEMMA OpenKeeps ==
  ASSUME NEW s \in State, NEW i \in NS, NEW opened
  PROVE  Keeps(s, open_con(s, i, opened))
<1> DEFINE t == [s EXCEPT !.net = {m \in @ : m.ns # i}]
           u == [t EXCEPT !.ns_down[i] = FALSE]
<1>1. /\ t \in State /\ t.entries = s.entries /\ t.entry = s.entry /\ t.in_flight = s.in_flight
      /\ t.txn_lookup_timeout = s.txn_lookup_timeout
  BY Zenon DEF State
<1>2. Keeps(s, t)
  BY Zenon, <1>1, KeepsEntries
<1> HIDE DEF t
<1>3. /\ u \in State /\ u.entries = t.entries /\ u.entry = t.entry /\ u.in_flight = t.in_flight
      /\ u.txn_lookup_timeout = t.txn_lookup_timeout
  BY Zenon, <1>1 DEF State
<1>4. Keeps(t, u)
  BY Zenon, <1>3, KeepsEntries
<1>5. Keeps(t, Fault(t))
  BY Zenon, <1>1, FaultKeeps
<1>6. open_con(s, i, opened) = IF opened THEN u ELSE Fault(t)
  BY Zenon DEF open_con, t
<1> HIDE DEF u
<1>7. QED BY Zenon, <1>2, <1>4, <1>5, <1>6, KeepsMore

LEMMA ReceivedKeeps ==
  ASSUME NEW s \in State, NEW i \in NS
  PROVE  Keeps(s, received_one(s, i))
<1> DEFINE t == [s EXCEPT !.failover_number[i] = 0]
<1>1. 0 \in 0 .. dns_failover_number
  BY Constants
<1>2. /\ t \in State /\ t.entries = s.entries /\ t.entry = s.entry /\ t.in_flight = s.in_flight
      /\ t.txn_lookup_timeout = s.txn_lookup_timeout
  BY Zenon, <1>1 DEF State
<1>3. received_one(s, i) = t
  BY Zenon DEF received_one
<1> HIDE DEF t
<1>4. QED BY Zenon, <1>2, <1>3, KeepsEntries

LEMMA UnwriteDoes ==
  ASSUME NEW s \in State, NEW L \in SUBSET Heads(s)
  PROVE  LET u == Unwrite(s, L) IN
         /\ u \in State /\ u.entries = s.entries /\ u.in_flight = s.in_flight /\ u.name_server = s.name_server
         /\ u.ns_down = s.ns_down /\ u.txn_lookup_timeout = s.txn_lookup_timeout
         /\ \A l \in Lookups : /\ SameLookup(s.entry[l], u.entry[l])
                               /\ l \notin L => u.entry[l] = s.entry[l]
                               /\ l \in L => ~u.entry[l].written
<1> DEFINE Put(l) == [s.entry[l] EXCEPT !.written = FALSE, !.retries = Min({@ + 1, dns_retries})]
           f == [l \in Lookups |-> IF l \notin L THEN s.entry[l] ELSE Put(l)]
<1>1. ASSUME NEW l \in Lookups
      PROVE  Put(l) \in Entry /\ SameLookup(s.entry[l], Put(l)) /\ Put(l).written = FALSE
  <2> DEFINE e == s.entry[l]
             m == Min({e.retries + 1, dns_retries})
             p == [e EXCEPT !.written = FALSE, !.retries = m]
  <2>1. e \in Entry
    BY Zenon, Fields
  <2>2. e.retries \in 0 .. dns_retries
    BY Zenon, <2>1, EntryFields
  <2>3. m \in 0 .. dns_retries
    BY Zenon, <2>2, Constants, MinOfTwo
  <2>4. Put(l) = p
    BY Zenon
  <2> HIDE DEF e, m
  <2>5. p \in Entry /\ p.written = FALSE /\ p.state = e.state /\ p.name = e.name /\ p.dups = e.dups /\ p.result = e.result
        /\ p.timeout = e.timeout
    BY Zenon, <2>1, <2>3 DEF Entry
  <2> HIDE DEF p, Put
  <2>6. QED BY Zenon, <2>4, <2>5 DEF SameLookup, e
<1> HIDE DEF Put
<1>2. f \in [Lookups -> Entry]
  BY Zenon, <1>1, Fields
<1>3. Unwrite(s, L) = [s EXCEPT !.entry = f]
  BY Zenon DEF Unwrite, Put
<1>4. ASSUME NEW l \in Lookups
      PROVE  SameLookup(s.entry[l], f[l]) /\ (l \notin L => f[l] = s.entry[l]) /\ (l \in L => ~f[l].written)
  BY Zenon, <1>1 DEF SameLookup
<1> HIDE DEF f
<1> DEFINE u == [s EXCEPT !.entry = f]
<1>5. /\ u \in State /\ u.entries = s.entries /\ u.in_flight = s.in_flight /\ u.name_server = s.name_server
      /\ u.ns_down = s.ns_down /\ u.txn_lookup_timeout = s.txn_lookup_timeout /\ u.entry = f
  BY Zenon, <1>2 DEF State
<1> HIDE DEF u
<1>6. Unwrite(s, L) = u
  BY Zenon, <1>3 DEF u
<1>7. QED BY Zenon, <1>4, <1>5, <1>6

LEMMA SwitchKeeps ==
  ASSUME NEW s \in State, NEW i \in NS
  PROVE  Keeps(s, switch_named(s, i))
<1> DEFINE v == Unwrite(s, Heads(s))
           u == [v EXCEPT !.name_server = i, !.in_flight = 0]
<1>1. /\ v \in State /\ v.entries = s.entries /\ v.txn_lookup_timeout = s.txn_lookup_timeout
      /\ \A l \in Lookups : /\ SameLookup(s.entry[l], v.entry[l])
                            /\ l \notin Heads(s) => v.entry[l] = s.entry[l]
                            /\ l \in Heads(s) => ~v.entry[l].written
  <2>1. Heads(s) \in SUBSET Heads(s)
    OBVIOUS
  <2>2. QED BY Zenon, <2>1, UnwriteDoes
<1>2. switch_named(s, i) = received_one(u, i)
  BY Zenon DEF switch_named, Heads
<1> HIDE DEF v
<1>3. /\ u \in State /\ u.entries = v.entries /\ u.entry = v.entry /\ u.in_flight = 0
      /\ u.txn_lookup_timeout = v.txn_lookup_timeout
  <2>1. 0 \in Int
    OBVIOUS
  <2>2. QED BY Zenon, <1>1, <2>1 DEF State
<1> HIDE DEF u
<1>4. ASSUME Flight(s)
      PROVE  Flight(u)
  <2>1. WrittenIn(u) = {}
    BY Zenon, <1>1, <1>3, <1>4 DEF Flight, WrittenIn
  <2>2. Cardinality(WrittenIn(u)) = 0
    BY Zenon, <2>1, FS_EmptySet
  <2>3. QED BY Zenon, <1>3, <2>1, <2>2 DEF Flight
<1>5. Keeps(s, u)
  BY Zenon, <1>1, <1>3, <1>4 DEF Keeps
<1>6. Keeps(u, received_one(u, i))
  BY Zenon, <1>3, ReceivedKeeps
<1>7. QED BY Zenon, <1>2, <1>5, <1>6, KeepsMore

LEMMA FailoverKeeps ==
  ASSUME NEW s \in State, NEW c
  PROVE  Keeps(s, failover(s, c))
<1> DEFINE d == [s EXCEPT !.ns_down[s.name_server] = TRUE]
           next == (s.name_server + 1) % Servers
           o == open_con(d, next, c.opened)
           e == [d EXCEPT !.net = {}]
<1>1. s.name_server \in NS
  BY Zenon, Fields
<1>2. next \in NS
  BY <1>1, Constants
<1>3. /\ d \in State /\ d.entries = s.entries /\ d.entry = s.entry /\ d.in_flight = s.in_flight
      /\ d.txn_lookup_timeout = s.txn_lookup_timeout
  BY Zenon, <1>1 DEF State
<1>4. failover(s, c) = IF Servers > 1 THEN switch_named(o, next) ELSE e
  BY Zenon DEF failover
<1> HIDE DEF d, next
<1>5. Keeps(s, d)
  BY Zenon, <1>3, KeepsEntries
<1>6. Keeps(d, o)
  BY Zenon, <1>2, <1>3, OpenKeeps
<1>7. Keeps(o, switch_named(o, next))
  BY Zenon, <1>2, <1>6, SwitchKeeps DEF Keeps
<1>8. /\ e \in State /\ e.entries = d.entries /\ e.entry = d.entry /\ e.in_flight = d.in_flight
      /\ e.txn_lookup_timeout = d.txn_lookup_timeout
  BY Zenon, <1>3 DEF State
<1> HIDE DEF o, e
<1>9. Keeps(d, e)
  BY Zenon, <1>8, KeepsEntries
<1>10. Keeps(s, e) /\ Keeps(s, o)
  BY Zenon, <1>5, <1>6, <1>9, KeepsMore
<1>11. Keeps(s, switch_named(o, next))
  BY Zenon, <1>7, <1>10, KeepsMore
<1>12. QED BY Zenon, <1>4, <1>10, <1>11

LEMMA FailureKeeps ==
  ASSUME NEW s \in State, NEW i \in NS, dns_ns_rr
  PROVE  Keeps(s, rr_failure(s, i))
<1> DEFINE d == [s EXCEPT !.ns_down[i] = TRUE]
           moved == {l \in Heads(s) : s.entry[l].which_ns = i \/ \A j \in NS : d.ns_down[j]}
           v == Unwrite(d, moved)
           u == [v EXCEPT !.in_flight = @ - Cardinality(moved)]
<1>1. /\ d \in State /\ d.entries = s.entries /\ d.entry = s.entry /\ d.in_flight = s.in_flight
      /\ d.txn_lookup_timeout = s.txn_lookup_timeout
  BY Zenon DEF State
<1>2. rr_failure(s, i) = u
  BY Zenon DEF rr_failure, Heads
<1>3. Heads(d) = Heads(s) /\ moved \in SUBSET Heads(s)
  BY Zenon, <1>1 DEF Heads
<1> HIDE DEF d, moved
<1>4. /\ v \in State /\ v.entries = d.entries /\ v.in_flight = d.in_flight /\ v.txn_lookup_timeout = d.txn_lookup_timeout
      /\ \A l \in Lookups : /\ SameLookup(d.entry[l], v.entry[l])
                            /\ l \notin moved => v.entry[l] = d.entry[l]
                            /\ l \in moved => ~v.entry[l].written
  BY Zenon, <1>1, <1>3, UnwriteDoes
<1> HIDE DEF v
<1>5. v.in_flight - Cardinality(moved) \in Int
  <2>1. moved \in SUBSET Lookups
    BY Zenon, <1>3, HeadsAre
  <2>2. Cardinality(moved) \in Nat /\ v.in_flight \in Int
    BY Zenon, <1>4, <2>1, LookupSets, Fields
  <2>3. QED BY <2>2
<1>6. /\ u \in State /\ u.entries = v.entries /\ u.entry = v.entry /\ u.txn_lookup_timeout = v.txn_lookup_timeout
  BY Zenon, <1>4, <1>5 DEF State
<1> HIDE DEF u
<1>7. Flight(s) => Flight(u)
  BY Zenon, <1>1, <1>4, <1>6 DEF Flight, WrittenIn, Heads
<1>8. QED BY Zenon, <1>1, <1>2, <1>3, <1>4, <1>6, <1>7 DEF Keeps

LEMMA LostKeeps ==
  ASSUME NEW s \in State, NEW i \in NS, NEW c
  PROVE  Keeps(s, Lost(s, i, c))
<1>1. CASE dns_ns_rr
  BY Zenon, <1>1, FailureKeeps DEF Lost
<1>2. CASE ~dns_ns_rr
  BY Zenon, <1>2, FailoverKeeps, KeepsSelf DEF Lost
<1>3. QED BY Zenon, <1>1, <1>2
-----------------------------------------------------------------------------
(* Writing *)
\* A change of one entry that waits
LEMMA KeepsOne ==
  ASSUME NEW s \in State, NEW t \in State, t.entries = s.entries, t.txn_lookup_timeout = s.txn_lookup_timeout,
         NEW l \in Heads(s), NEW e \in Entry, t.entry = [s.entry EXCEPT ![l] = e], SameLookup(s.entry[l], e),
         Flight(s) => Flight(t)
  PROVE  Keeps(s, t)
<1>1. s.entry \in [Lookups -> Entry]
  BY Zenon, Fields
<1>2. ASSUME NEW k \in Lookups
      PROVE  SameLookup(s.entry[k], t.entry[k]) /\ (k \notin Heads(s) => t.entry[k] = s.entry[k])
  <2>1. CASE k = l
    BY Zenon, <1>1, <2>1
  <2>2. CASE k # l
    BY Zenon, <1>1, <2>2 DEF SameLookup
  <2>3. QED BY Zenon, <2>1, <2>2
<1>3. QED BY Zenon, <1>2 DEF Keeps

LEMMA PlaceIs ==
  ASSUME NEW e \in Entry
  PROVE  dns_retries - e.retries \in 0 .. dns_retries
<1>1. e.retries \in 0 .. dns_retries
  BY Zenon, EntryFields
<1>2. QED BY <1>1, Constants

LEMMA IdKeeps ==
  ASSUME NEW s \in State, NEW l \in Heads(s)
  PROVE  Keeps(s, get_query_id(s, l)) /\ get_query_id(s, l).entry[l].written = s.entry[l].written
<1> DEFINE place == dns_retries - s.entry[l].retries
           free == Ids \ s.qid_in_flight
           id == Pick(IF free = {} THEN Ids ELSE free)
           e == [s.entry[l] EXCEPT !.id[place] = id]
           q == (s.qid_in_flight \union {id}) \ {s.entry[l].id[place]}
           u == [s EXCEPT !.entry[l] = e, !.qid_in_flight = q]
<1>1. get_query_id(s, l) = u
  BY Zenon DEF get_query_id
<1>2. l \in Lookups /\ s.entry[l] \in Entry
  BY Zenon, HeadsAre, Fields
<1>3. id \in Ids
  <2>1. (IF free = {} THEN Ids ELSE free) \in SUBSET Ids /\ (IF free = {} THEN Ids ELSE free) # {}
    BY Zenon, DNSAssumption
  <2> HIDE DEF free
  <2>2. QED BY Zenon, <2>1, DNSAssumption
<1> HIDE DEF id
<1>4. place \in 0 .. dns_retries
  BY Zenon, <1>2, PlaceIs
<1>5. q \in SUBSET Ids
  BY Zenon, <1>3, Fields
<1> HIDE DEF place
<1>6. /\ e \in Entry /\ e.written = s.entry[l].written
      /\ e.state = s.entry[l].state /\ e.name = s.entry[l].name /\ e.dups = s.entry[l].dups
      /\ e.result = s.entry[l].result /\ e.timeout = s.entry[l].timeout
  BY Zenon, <1>2, <1>3, <1>4 DEF Entry
<1> HIDE DEF e, q
<1>7. /\ u \in State /\ u.entries = s.entries /\ u.txn_lookup_timeout = s.txn_lookup_timeout /\ u.in_flight = s.in_flight
      /\ u.entry = [s.entry EXCEPT ![l] = e]
  BY Zenon, <1>2, <1>5, <1>6 DEF State
<1> HIDE DEF u
<1>8. \A k \in Lookups : u.entry[k].written = s.entry[k].written
  BY Zenon, <1>6, <1>7, Fields
<1>9. WrittenIn(u) = WrittenIn(s)
  BY Zenon, <1>8 DEF WrittenIn
<1>10. Flight(s) => Flight(u)
  BY Zenon, <1>7, <1>9 DEF Flight, Heads
<1>11. SameLookup(s.entry[l], e)
  BY Zenon, <1>6 DEF SameLookup
<1>12. Keeps(s, u)
  BY Zenon, <1>6, <1>7, <1>10, <1>11, KeepsOne
<1>13. u.entry[l] = e
  BY Zenon, <1>2, <1>7, Fields
<1>14. u.entry[l].written = s.entry[l].written
  BY Zenon, <1>6, <1>13
<1>15. QED BY Zenon, <1>1, <1>12, <1>14

LEMMA SentKeeps ==
  ASSUME NEW s \in State, NEW l \in Heads(s), ~s.entry[l].written
  PROVE  Keeps(s, Sent(s, l))
<1> DEFINE i == s.name_server
           e == [s.entry[l] EXCEPT !.written = TRUE, !.once_written = TRUE, !.which_ns = i, !.timeout = "lookup"]
           q == Query(s.entry[l].id[dns_retries - s.entry[l].retries], qname(s, l), i)
           n == Min({s.failover_number[i] + 1, dns_failover_number})
           t == [s EXCEPT !.entry[l] = e, !.in_flight = @ + 1, !.failover_number[i] = n, !.net = Out(@, q)]
<1>1. Sent(s, l) = t
  BY Zenon DEF Sent
<1>2. l \in Lookups /\ s.entry[l] \in Entry /\ i \in NS /\ s.in_flight \in Int
  BY Zenon, HeadsAre, Fields
<1>3. q \in [id : Ids \union {None}, name : Queried, ns : NS]
  <2> DEFINE id == s.entry[l].id[dns_retries - s.entry[l].retries]
  <2>1. id \in Ids \union {None}
    BY Zenon, <1>2, PlaceIs, EntryFields
  <2>2. qname(s, l) \in Queried
    BY Zenon, <1>2, EntryFields DEF qname, Queried
  <2> HIDE DEF id
  <2>3. q = [id |-> id, name |-> qname(s, l), ns |-> i]
    BY Zenon DEF id, Query
  <2>4. QED BY <1>2, <2>1, <2>2, <2>3
<1>4. n \in 0 .. dns_failover_number
  <2>1. s.failover_number[i] \in 0 .. dns_failover_number
    BY Zenon, <1>2, Fields
  <2>2. QED BY Zenon, <2>1, Constants, MinOfTwo
<1> HIDE DEF q, n
<1>5. Out(s.net, q) \in SUBSET [id : Ids \union {None}, name : Queried, ns : NS]
  BY Zenon, <1>3, Fields DEF Out
<1>6. /\ e \in Entry /\ e.written = TRUE /\ e.timeout = "lookup"
      /\ e.state = s.entry[l].state /\ e.name = s.entry[l].name /\ e.dups = s.entry[l].dups /\ e.result = s.entry[l].result
  BY Zenon, <1>2 DEF Entry
<1> HIDE DEF e, i
<1>7. s.in_flight + 1 \in Int
  BY <1>2
<1>8. /\ t \in State /\ t.entries = s.entries /\ t.txn_lookup_timeout = s.txn_lookup_timeout
      /\ t.in_flight = s.in_flight + 1 /\ t.entry = [s.entry EXCEPT ![l] = e]
  BY Zenon, <1>2, <1>4, <1>5, <1>6, <1>7 DEF State
<1> HIDE DEF t
<1>9. ASSUME Flight(s)
      PROVE  Flight(t)
  <2>1. t.entry[l] = e /\ \A k \in Lookups \ {l} : t.entry[k] = s.entry[k]
    BY Zenon, <1>2, <1>8, Fields
  <2>2. WrittenIn(t) = WrittenIn(s) \union {l} /\ l \notin WrittenIn(s)
    BY Zenon, <1>2, <1>6, <2>1 DEF WrittenIn
  <2>3. WrittenIn(s) \in SUBSET Lookups
    BY Zenon DEF WrittenIn
  <2>4. Cardinality(WrittenIn(t)) = Cardinality(WrittenIn(s)) + 1
    BY Zenon, <2>2, <2>3, LookupSets, FS_AddElement
  <2>5. QED BY Zenon, <1>8, <1>9, <2>2, <2>4 DEF Flight, Heads
<1>10. SameLookup(s.entry[l], e)
  BY Zenon, <1>6 DEF SameLookup
<1>11. QED BY Zenon, <1>1, <1>6, <1>8, <1>9, <1>10, KeepsOne

LEMMA NextKeeps ==
  ASSUME NEW s \in State
  PROVE  Keeps(s, NextServer(s)) /\ NextServer(s).entry = s.entry
<1> DEFINE at(k) == (s.name_server + k) % Servers
           m == Min({k \in 1 .. Servers : k = Servers \/ ~s.ns_down[at(k)]})
           t == [s EXCEPT !.name_server = at(m)]
<1>1. {k \in 1 .. Servers : k = Servers \/ ~s.ns_down[at(k)]} \in SUBSET Nat
  OBVIOUS
<1>2. Servers \in {k \in 1 .. Servers : k = Servers \/ ~s.ns_down[at(k)]}
  BY Constants
<1>3. m \in Nat
  BY Zenon, <1>1, <1>2, MinLeast
<1>4. NextServer(s) = IF ~dns_ns_rr THEN s ELSE t
  BY Zenon DEF NextServer
<1> HIDE DEF m
<1>5. at(m) \in NS
  <2>1. s.name_server \in NS
    BY Zenon, Fields
  <2>2. QED BY <1>3, <2>1, Constants
<1> HIDE DEF at
<1>6. /\ t \in State /\ t.entries = s.entries /\ t.entry = s.entry /\ t.in_flight = s.in_flight
      /\ t.txn_lookup_timeout = s.txn_lookup_timeout
  BY Zenon, <1>5 DEF State
<1> HIDE DEF t
<1>7. Keeps(s, t)
  BY Zenon, <1>6, KeepsEntries
<1>8. QED BY Zenon, <1>4, <1>6, <1>7, KeepsSelf

LEMMA WriteOneKeeps ==
  ASSUME NEW s \in State, NEW w, Keeps(s, w.s), NEW l \in Heads(s), NEW c
  PROVE  Keeps(s, WriteOne(w, l, c).s)
<1> DEFINE t == NextServer(w.s)
           u == get_query_id(t, l)
           lost == Lost(Fault(u), u.name_server, c)
<1>1. w.s \in State /\ Keeps(s, w.s) /\ Heads(w.s) = Heads(s)
  BY Zenon DEF Keeps, Heads
<1>2. Keeps(s, t) /\ t.entry = w.s.entry /\ t \in State /\ Heads(t) = Heads(s)
  <2>1. Keeps(w.s, t) /\ t.entry = w.s.entry
    BY Zenon, <1>1, NextKeeps
  <2>2. Keeps(s, t)
    BY Zenon, <1>1, <2>1, KeepsMore
  <2>3. QED BY Zenon, <2>1, <2>2 DEF Keeps, Heads
<1> HIDE DEF t
<1>3. Keeps(s, u) /\ u.entry[l].written = t.entry[l].written /\ u \in State /\ Heads(u) = Heads(s)
  <2>1. Keeps(t, u) /\ u.entry[l].written = t.entry[l].written
    BY Zenon, <1>2, IdKeeps
  <2>2. Keeps(s, u)
    BY Zenon, <1>2, <2>1, KeepsMore
  <2>3. QED BY Zenon, <2>1, <2>2 DEF Keeps, Heads
<1> HIDE DEF u
<1>4. Keeps(s, lost)
  <2>1. Keeps(u, Fault(u)) /\ u.name_server \in NS
    BY Zenon, <1>3, FaultKeeps, Fields
  <2>2. Keeps(Fault(u), lost)
    BY Zenon, <2>1, LostKeeps DEF Keeps
  <2>3. Keeps(s, Fault(u))
    BY Zenon, <1>3, <2>1, KeepsMore
  <2>4. QED BY Zenon, <2>2, <2>3, KeepsMore
<1>5. ASSUME ~w.s.entry[l].written
      PROVE  Keeps(s, Sent(u, l))
  <2>1. Keeps(u, Sent(u, l))
    BY Zenon, <1>2, <1>3, <1>5, SentKeeps
  <2>2. QED BY Zenon, <1>3, <2>1, KeepsMore
<1> DEFINE full == w.s.in_flight >= dns_max_dns_in_flight
<1>6. WriteOne(w, l, c) =
        CASE ~w.on \/ full -> [s |-> w.s, on |-> FALSE, fail |-> w.fail]
          [] w.on /\ ~full /\ w.s.entry[l].written -> w
          [] OTHER -> IF t.ns_down[t.name_server] THEN [s |-> t, on |-> FALSE, fail |-> w.fail]
                      ELSE IF w.fail = 1 THEN [s |-> lost, on |-> FALSE, fail |-> 0]
                      ELSE [s |-> Sent(u, l), on |-> TRUE, fail |-> w.fail - 1]
  BY Zenon DEF WriteOne, t, u
<1> HIDE DEF full, lost
<1>7. CASE ~w.on \/ full
  BY <1>1, <1>6, <1>7
<1>8. CASE w.on /\ ~full /\ w.s.entry[l].written
  BY <1>1, <1>6, <1>8
<1>9. CASE ~(~w.on \/ full) /\ ~(w.on /\ ~full /\ w.s.entry[l].written)
  BY <1>2, <1>4, <1>5, <1>6, <1>9
<1>10. QED BY Zenon, <1>7, <1>8, <1>9

\* A loop over 1 .. n that goes from one value to the next
LEMMA WritesAre ==
  ASSUME NEW s \in State, NEW c
  PROVE  /\ Writes(s, c)[0] = [s |-> s, on |-> TRUE, fail |-> c.fail]
         /\ \A i \in 1 .. Len(s.entries) : Writes(s, c)[i] = WriteOne(Writes(s, c)[i - 1], s.entries[i], c)
<1> DEFINE w0 == [s |-> s, on |-> TRUE, fail |-> c.fail]
           D(n, g) == g = [i \in 0 .. n |-> IF i = 0 THEN w0 ELSE WriteOne(g[i - 1], s.entries[i], c)]
           T == {n \in Nat : ~\E g : D(n, g)}
<1>1. \E g : D(0, g)
  <2> DEFINE g == [i \in 0 .. 0 |-> w0]
  <2>1. g = [i \in 0 .. 0 |-> IF i = 0 THEN w0 ELSE WriteOne(g[i - 1], s.entries[i], c)]
    <3> HIDE DEF w0
    <3>1. QED OBVIOUS
  <2>2. QED BY Zenon, <2>1
<1> HIDE DEF w0
<1>2. ASSUME NEW n \in Nat, NEW g, D(n, g)
      PROVE  \E h : D(n + 1, h)
  <2> DEFINE h == [i \in 0 .. n + 1 |-> IF i <= n THEN g[i] ELSE WriteOne(g[n], s.entries[i], c)]
  <2>1. ASSUME NEW i \in 0 .. n + 1
        PROVE  h[i] = IF i = 0 THEN w0 ELSE WriteOne(h[i - 1], s.entries[i], c)
    <3>1. CASE i = 0
      BY <1>2, <3>1
    <3>2. CASE i \in 1 .. n
      BY <1>2, <3>2
    <3>3. CASE i = n + 1
      BY <1>2, <3>3
    <3>4. QED BY <3>1, <3>2, <3>3
  <2>2. h = [i \in 0 .. n + 1 |-> h[i]]
    BY Zenon
  <2> HIDE DEF h
  <2>3. D(n + 1, h)
    BY Zenon, <2>1, <2>2
  <2>4. QED BY Zenon, <2>3
<1> HIDE DEF D
<1>3. T = {}
  <2>1. SUFFICES ASSUME T # {}
                 PROVE  FALSE
    OBVIOUS
  <2>2. PICK n \in T : \A y \in T : n <= y
    BY Zenon, <2>1, Least
  <2>3. n \in Nat /\ n # 0
    BY Zenon, <1>1, <2>2
  <2>4. n - 1 \in Nat /\ n - 1 \notin T /\ (n - 1) + 1 = n
    BY <2>2, <2>3
  <2>5. \E h : D((n - 1) + 1, h)
    BY Zenon, <1>2, <2>4
  <2>6. QED BY Zenon, <2>2, <2>4, <2>5
<1>4. \E g : D(Len(s.entries), g)
  BY Zenon, <1>3, HeadsAre
<1>5. PICK g : g = [i \in 0 .. Len(s.entries) |-> IF i = 0 THEN [s |-> s, on |-> TRUE, fail |-> c.fail]
                                                    ELSE WriteOne(g[i - 1], s.entries[i], c)]
  BY Zenon, <1>4 DEF D, w0
<1> DEFINE w == Writes(s, c)
<1>6. w = [i \in 0 .. Len(s.entries) |-> IF i = 0 THEN [s |-> s, on |-> TRUE, fail |-> c.fail]
                                        ELSE WriteOne(w[i - 1], s.entries[i], c)]
  BY Zenon, <1>5 DEF Writes
<1> HIDE DEF w
<1>7. D(Len(s.entries), w)
  BY Zenon, <1>6 DEF D, w0
<1>8. \A i \in 0 .. Len(s.entries) : w[i] = IF i = 0 THEN w0 ELSE WriteOne(w[i - 1], s.entries[i], c)
  BY Zenon, <1>7 DEF D
<1>9. Len(s.entries) \in Nat
  BY Zenon, HeadsAre
<1>10. w[0] = w0 /\ \A i \in 1 .. Len(s.entries) : w[i] = WriteOne(w[i - 1], s.entries[i], c)
  BY <1>8, <1>9
<1>11. QED BY Zenon, <1>10 DEF w, w0

LEMMA WriteKeeps ==
  ASSUME NEW s \in State, NEW c
  PROVE  Keeps(s, write_dns(s, c))
<1> DEFINE N == Len(s.entries)
           w == Writes(s, c)
           T == {n \in 0 .. N : ~Keeps(s, w[n].s)}
<1>1. N \in Nat
  BY Zenon, HeadsAre
<1>2. w[0] = [s |-> s, on |-> TRUE, fail |-> c.fail] /\ \A i \in 1 .. N : w[i] = WriteOne(w[i - 1], s.entries[i], c)
  BY Zenon, WritesAre
<1> HIDE DEF w, N
<1>3. w[0].s = s
  BY <1>2
<1>4. T = {}
  <2>1. SUFFICES ASSUME T # {}
                 PROVE  FALSE
    OBVIOUS
  <2>2. T \in SUBSET Nat
    BY <1>1
  <2>3. PICK n \in T : \A y \in T : n <= y
    BY Zenon, <2>1, <2>2, Least
  <2>4. n \in 0 .. N /\ n # 0
    BY Zenon, <1>3, <2>3, KeepsSelf
  <2>5. n \in 1 .. N /\ n - 1 \in 0 .. N /\ n - 1 \notin T
    BY <1>1, <2>3, <2>4
  <2>6. s.entries[n] \in Heads(s)
    BY Zenon, <2>5, HeadsAre DEF N
  <2>7. Keeps(s, w[n].s)
    BY Zenon, <1>2, <2>5, <2>6, WriteOneKeeps
  <2>8. QED BY Zenon, <2>3, <2>7
<1>5. N \in 0 .. N
  BY <1>1
<1>6. QED BY Zenon, <1>4, <1>5 DEF write_dns, w, N

LEMMA FailsAre ==
  ASSUME NEW s, NEW D
  PROVE  /\ EachFails(s, D)[0] = s
         /\ \A n \in 1 .. Servers : EachFails(s, D)[n] = IF n - 1 \in D THEN rr_failure(Fault(EachFails(s, D)[n - 1]), n - 1)
                                                         ELSE EachFails(s, D)[n - 1]
<1> DEFINE E(n, x) == IF n - 1 \in D THEN rr_failure(Fault(x), n - 1) ELSE x
           F(n, g) == g = [i \in 0 .. n |-> IF i = 0 THEN s ELSE E(i, g[i - 1])]
           T == {n \in Nat : ~\E g : F(n, g)}
<1> HIDE DEF E
<1>1. \E g : F(0, g)
  <2> DEFINE g == [i \in 0 .. 0 |-> s]
  <2>1. g = [i \in 0 .. 0 |-> IF i = 0 THEN s ELSE E(i, g[i - 1])]
    OBVIOUS
  <2>2. QED BY Zenon, <2>1
<1>2. ASSUME NEW n \in Nat, NEW g, F(n, g)
      PROVE  \E h : F(n + 1, h)
  <2> DEFINE h == [i \in 0 .. n + 1 |-> IF i <= n THEN g[i] ELSE E(i, g[n])]
  <2>1. ASSUME NEW i \in 0 .. n + 1
        PROVE  h[i] = IF i = 0 THEN s ELSE E(i, h[i - 1])
    <3>1. CASE i = 0
      BY <1>2, <3>1
    <3>2. CASE i \in 1 .. n
      BY <1>2, <3>2
    <3>3. CASE i = n + 1
      BY <1>2, <3>3
    <3>4. QED BY <3>1, <3>2, <3>3
  <2>2. h = [i \in 0 .. n + 1 |-> h[i]]
    BY Zenon
  <2> HIDE DEF h
  <2>3. F(n + 1, h)
    BY Zenon, <2>1, <2>2
  <2>4. QED BY Zenon, <2>3
<1> HIDE DEF F
<1>3. T = {}
  <2>1. SUFFICES ASSUME T # {}
                 PROVE  FALSE
    OBVIOUS
  <2>2. PICK n \in T : \A y \in T : n <= y
    BY Zenon, <2>1, Least
  <2>3. n \in Nat /\ n # 0
    BY Zenon, <1>1, <2>2
  <2>4. n - 1 \in Nat /\ n - 1 \notin T /\ (n - 1) + 1 = n
    BY <2>2, <2>3
  <2>5. \E h : F((n - 1) + 1, h)
    BY Zenon, <1>2, <2>4
  <2>6. QED BY Zenon, <2>2, <2>4, <2>5
<1>4. \E g : F(Servers, g)
  BY Zenon, <1>3, Constants
<1>5. PICK g : g = [n \in 0 .. Servers |-> IF n = 0 THEN s ELSE IF n - 1 \in D THEN rr_failure(Fault(g[n - 1]), n - 1) ELSE g[n - 1]]
  BY Zenon, <1>4 DEF F, E
<1> DEFINE f == EachFails(s, D)
<1>6. f = [n \in 0 .. Servers |-> IF n = 0 THEN s ELSE IF n - 1 \in D THEN rr_failure(Fault(f[n - 1]), n - 1) ELSE f[n - 1]]
  BY Zenon, <1>5 DEF EachFails
<1> HIDE DEF f
<1>7. F(Servers, f)
  BY Zenon, <1>6 DEF F, E
<1>8. \A i \in 0 .. Servers : f[i] = IF i = 0 THEN s ELSE E(i, f[i - 1])
  BY Zenon, <1>7 DEF F
<1>9. f[0] = s /\ \A i \in 1 .. Servers : f[i] = E(i, f[i - 1])
  BY <1>8, Constants
<1>10. QED BY Zenon, <1>9 DEF f, E

LEMMA FailsKeeps ==
  ASSUME NEW s \in State, NEW D, dns_ns_rr
  PROVE  Keeps(s, EachFails(s, D)[Servers])
<1> DEFINE f == EachFails(s, D)
           T == {n \in 0 .. Servers : ~Keeps(s, f[n])}
<1>1. f[0] = s /\ \A n \in 1 .. Servers : f[n] = IF n - 1 \in D THEN rr_failure(Fault(f[n - 1]), n - 1) ELSE f[n - 1]
  BY FailsAre
<1> HIDE DEF f
<1>2. T = {}
  <2>1. SUFFICES ASSUME T # {}
                 PROVE  FALSE
    OBVIOUS
  <2>2. T \in SUBSET Nat
    BY Constants
  <2>3. PICK n \in T : \A y \in T : n <= y
    BY Zenon, <2>1, <2>2, Least
  <2>4. n \in 0 .. Servers /\ n # 0
    BY Zenon, <1>1, <2>3, KeepsSelf
  <2>5. n \in 1 .. Servers /\ n - 1 \in 0 .. Servers /\ n - 1 \in NS /\ n - 1 \notin T
    BY Constants, <2>3, <2>4
  <2> DEFINE x == f[n - 1]
  <2>6. Keeps(s, x) /\ x \in State
    BY Zenon, <2>5 DEF Keeps
  <2>7. f[n] = IF n - 1 \in D THEN rr_failure(Fault(x), n - 1) ELSE x
    BY Zenon, <1>1, <2>5
  <2> HIDE DEF x
  <2>8. Keeps(x, Fault(x))
    BY Zenon, <2>6, FaultKeeps
  <2>9. Keeps(Fault(x), rr_failure(Fault(x), n - 1))
    BY Zenon, <2>5, <2>8, FailureKeeps DEF Keeps
  <2>10. Keeps(s, Fault(x))
    BY Zenon, <2>6, <2>8, KeepsMore
  <2>11. Keeps(s, rr_failure(Fault(x), n - 1))
    BY Zenon, <2>9, <2>10, KeepsMore
  <2>12. QED BY Zenon, <2>3, <2>6, <2>7, <2>11
<1>3. Servers \in 0 .. Servers
  BY Constants
<1>4. QED BY Zenon, <1>2, <1>3 DEF f
-----------------------------------------------------------------------------
(* What is received, and the look at the name servers *)
LEMMA HeardKeeps ==
  ASSUME NEW s \in State, NEW m, m.ns \in NS, NEW rcode
  PROVE  Keeps(s, Heard(s, m, rcode))
<1> DEFINE r == received_one(s, m.ns)
           t == [r EXCEPT !.ns_down[m.ns] = FALSE]
<1>1. Keeps(s, r) /\ r \in State
  BY Zenon, ReceivedKeeps DEF Keeps
<1> HIDE DEF r
<1>2. /\ t \in State /\ t.entries = r.entries /\ t.entry = r.entry /\ t.in_flight = r.in_flight
      /\ t.txn_lookup_timeout = r.txn_lookup_timeout
  BY Zenon, <1>1 DEF State
<1> HIDE DEF t
<1>3. Keeps(s, t)
  BY Zenon, <1>1, <1>2, KeepsEntries, KeepsMore
<1>4. 0 \in NS
  BY Constants
<1>5. Keeps(s, switch_named(s, 0)) /\ Keeps(s, received_one(s, 0)) /\ Keeps(s, s)
  BY Zenon, <1>4, SwitchKeeps, ReceivedKeeps, KeepsSelf
<1>6. Heard(s, m, rcode) \in {s, t, switch_named(s, 0), received_one(s, 0)}
  <2>1. Heard(s, m, rcode) =
          CASE ~good_rcode(rcode) -> s
            [] good_rcode(rcode) /\ dns_ns_rr -> t
            [] good_rcode(rcode) /\ ~dns_ns_rr /\ m.ns = 0 /\ s.name_server # 0 -> switch_named(s, 0)
            [] good_rcode(rcode) /\ ~dns_ns_rr /\ m.ns = 0 /\ s.name_server = 0 -> received_one(s, 0)
            [] OTHER -> s
    BY Zenon DEF Heard, t, r
  <2>2. QED BY <2>1
<1>7. QED BY Zenon, <1>3, <1>5, <1>6

LEMMA ServersKeep ==
  ASSUME NEW s \in State, NEW reopen, NEW dead, NEW c, dns_ns_rr
  PROVE  Keeps(s, CheckServers(s, reopen, dead, c))
<1> DEFINE down == {i \in NS : s.ns_down[i]}
           t == IF reopen /\ down # {} THEN open_con(s, Min(down), c.opened) ELSE s
<1>1. down # {} => Min(down) \in NS
  <2>1. down \in SUBSET Nat
    BY Constants
  <2>2. QED BY Zenon, <2>1, MinLeast
<1>2. CheckServers(s, reopen, dead, c) = EachFails(t, dead)[Servers]
  BY Zenon DEF CheckServers
<1> HIDE DEF down
<1>3. Keeps(s, t) /\ t \in State
  BY ZenonT(30), <1>1, OpenKeeps, KeepsSelf DEF Keeps
<1> HIDE DEF t
<1>4. Keeps(t, EachFails(t, dead)[Servers])
  BY <1>3, FailsKeeps
<1>5. QED BY Zenon, <1>2, <1>3, <1>4, KeepsMore

LEMMA PrimaryKeeps ==
  ASSUME NEW s \in State, NEW reopen, NEW dead, NEW c
  PROVE  Keeps(s, CheckPrimary(s, reopen, dead, c))
<1> DEFINE f == failover(Fault(s), c)
           o == open_con(s, 0, c.opened)
<1>1. Keeps(s, Fault(s)) /\ Fault(s) \in State
  BY Zenon, FaultKeeps DEF Keeps
<1>2. Keeps(s, f)
  BY Zenon, <1>1, FailoverKeeps, KeepsMore
<1>3. 0 \in NS
  BY Constants
<1>4. Keeps(s, o) /\ Keeps(s, failover(s, c)) /\ Keeps(s, s)
  BY Zenon, <1>3, OpenKeeps, FailoverKeeps, KeepsSelf
<1> HIDE DEF f, o
<1>5. CheckPrimary(s, reopen, dead, c) \in {s, f, o, failover(s, c)}
  <2>1. CheckPrimary(s, reopen, dead, c) =
          CASE s.ns_down[s.name_server] -> failover(s, c)
            [] s.name_server \in dead -> f
            [] s.name_server \notin {0} \union dead /\ ~s.ns_down[s.name_server] /\ reopen -> o
            [] OTHER -> s
    BY Zenon DEF CheckPrimary, f, o
  <2>2. QED BY <2>1
<1>6. QED BY Zenon, <1>2, <1>4, <1>5

LEMMA NamedKeeps ==
  ASSUME NEW s \in State, NEW reopen, NEW t \in CheckNamed(s, reopen)
  PROVE  Keeps(s, t)
<1>1. PICK dead, c : t = IF dns_ns_rr THEN CheckServers(s, reopen, dead, c) ELSE CheckPrimary(s, reopen, dead, c)
  BY DEF CheckNamed
<1>2. CASE dns_ns_rr
  BY Zenon, <1>1, <1>2, ServersKeep
<1>3. CASE ~dns_ns_rr
  BY Zenon, <1>1, <1>3, PrimaryKeeps
<1>4. QED BY Zenon, <1>2, <1>3
-----------------------------------------------------------------------------
(* Lookups and their results *)
DupsOf(s, d) == Range(s.entry[d].dups)

\* Who waits with whom, and what a lookup is given
Together(s) ==
  /\ IsInjective(s.entries)
  /\ \A l \in Lookups :
       /\ s.entry[l].state = "dup" <=> \E d \in Lookups : l \in DupsOf(s, d)
       /\ IsInjective(s.entry[l].dups)
       /\ s.entry[l].state = "new" => s.entry[l] = Blank
  /\ \A l, d \in Lookups : l \in DupsOf(s, d) =>
       /\ s.entry[d].state \in {"head", "post"} /\ s.entry[d].name = s.entry[l].name
       /\ \A k \in Lookups : l \in DupsOf(s, k) => k = d
RightFor(name, result) == dns_validate_qname => result \in {None, Failed} \union {<<name, i>> : i \in 0 .. Domains}
Right(s) == \A l \in Lookups : RightFor(s.entry[l].name, s.entry[l].result)
Placed(s, l) ==
  /\ s.entry[l].state = "head" <=> l \in Heads(s)
  /\ s.entry[l].timeout = "lookup" => s.entry[l].state = "head"
  /\ s.entry[l].timeout = "post" <=> s.entry[l].state = "post"
Good(s) == s \in State /\ Together(s) /\ Right(s) /\ \A l \in Lookups : Placed(s, l)

LEMMA KeepsGood ==
  ASSUME NEW s, NEW t, Good(s), Keeps(s, t)
  PROVE  Good(t)
<1>1. Heads(t) = Heads(s) /\ t.entries = s.entries /\ t \in State
  BY Zenon DEF Keeps, Heads
<1>2. \A l \in Lookups : /\ t.entry[l].state = s.entry[l].state /\ t.entry[l].name = s.entry[l].name
                         /\ t.entry[l].dups = s.entry[l].dups /\ t.entry[l].result = s.entry[l].result
                         /\ t.entry[l].timeout \in {s.entry[l].timeout, "lookup"}
                         /\ (l \notin Heads(s) => t.entry[l] = s.entry[l])
  BY Zenon DEF Keeps, SameLookup
<1>3. Right(t)
  BY Zenon, <1>2 DEF Good, Right
<1>4. \A l \in Lookups : DupsOf(t, l) = DupsOf(s, l)
  BY Zenon, <1>2 DEF DupsOf
<1>5. ASSUME NEW l \in Lookups
      PROVE  Placed(t, l) /\ (t.entry[l].state = "new" => t.entry[l] = Blank)
  <2>1. Placed(s, l) /\ (s.entry[l].state = "new" => s.entry[l] = Blank)
    BY Zenon DEF Good, Together
  <2>2. CASE l \in Heads(s)
    <3>1. s.entry[l].state = "head"
      BY Zenon, <2>1, <2>2 DEF Placed
    <3>2. QED BY <1>1, <1>2, <2>1, <2>2, <3>1 DEF Placed
  <2>3. CASE l \notin Heads(s)
    BY Zenon, <1>1, <1>2, <2>1, <2>3 DEF Placed
  <2>4. QED BY Zenon, <2>2, <2>3
<1>6. Together(t)
  <2>1. IsInjective(t.entries)
    BY Zenon, <1>1 DEF Good, Together
  <2>2. ASSUME NEW l \in Lookups
        PROVE  /\ t.entry[l].state = "dup" <=> \E d \in Lookups : l \in DupsOf(t, d)
               /\ IsInjective(t.entry[l].dups)
    <3>1. (s.entry[l].state = "dup" <=> \E d \in Lookups : l \in DupsOf(s, d)) /\ IsInjective(s.entry[l].dups)
      BY Zenon DEF Good, Together
    <3>2. QED BY Zenon, <1>2, <1>4, <3>1
  <2>3. ASSUME NEW l \in Lookups, NEW d \in Lookups, l \in DupsOf(t, d)
        PROVE  /\ t.entry[d].state \in {"head", "post"} /\ t.entry[d].name = t.entry[l].name
               /\ \A k \in Lookups : l \in DupsOf(t, k) => k = d
    <3>1. l \in DupsOf(s, d)
      BY Zenon, <1>4, <2>3
    <3>2. /\ s.entry[d].state \in {"head", "post"} /\ s.entry[d].name = s.entry[l].name
          /\ \A k \in Lookups : l \in DupsOf(s, k) => k = d
      BY Zenon, <3>1 DEF Good, Together
    <3>3. QED BY Zenon, <1>2, <1>4, <3>2
  <2>4. QED BY Zenon, <1>5, <2>1, <2>2, <2>3 DEF Together
<1>7. QED BY Zenon, <1>1, <1>3, <1>5, <1>6 DEF Good

\* The rest of a sequence of which the first i - 1 are taken away and the i-th goes to the end
LEMMA Rotated ==
  ASSUME NEW S, NEW q \in Seq(S), IsInjective(q), NEW i \in 1 .. Len(q)
  PROVE  LET r == Append(SubSeq(q, i + 1, Len(q)), q[i])
             p == SubSeq(q, 1, i - 1) IN
         /\ r \in Seq(S) /\ IsInjective(r)
         /\ Range(p) \subseteq Range(q) /\ Range(r) = Range(q) \ Range(p)
<1> DEFINE r == Append(SubSeq(q, i + 1, Len(q)), q[i])
           p == SubSeq(q, 1, i - 1)
           n == Len(q)
<1>1. n \in Nat /\ DOMAIN q = 1 .. n /\ \A j, k \in 1 .. n : q[j] = q[k] => j = k
  BY DEF IsInjective
<1>2. /\ r \in Seq(S) /\ Len(r) = n - i + 1 /\ DOMAIN r = 1 .. n - i + 1
      /\ \A j \in 1 .. n - i + 1 : r[j] = IF j = n - i + 1 THEN q[i] ELSE q[i + j]
  OBVIOUS
<1>3. Len(p) = i - 1 /\ DOMAIN p = 1 .. i - 1 /\ \A j \in 1 .. i - 1 : p[j] = q[j]
  OBVIOUS
<1> HIDE DEF r, p, n
<1>4. i \in 1 .. n
  BY Zenon DEF n
<1>5. IsInjective(r)
  <2>1. SUFFICES ASSUME NEW j \in 1 .. n - i + 1, NEW k \in 1 .. n - i + 1, r[j] = r[k]
                 PROVE  j = k
    BY Zenon, <1>2 DEF IsInjective
  <2>2. CASE j = n - i + 1 /\ k = n - i + 1
    BY Zenon, <2>2
  <2>3. CASE j = n - i + 1 /\ k # n - i + 1
    <3>1. i + k \in 1 .. n /\ i + k # i /\ q[i + k] = q[i]
      BY <1>1, <1>2, <1>4, <2>1, <2>3
    <3>2. QED BY Zenon, <1>1, <1>4, <3>1
  <2>4. CASE j # n - i + 1 /\ k = n - i + 1
    <3>1. i + j \in 1 .. n /\ i + j # i /\ q[i + j] = q[i]
      BY <1>1, <1>2, <1>4, <2>1, <2>4
    <3>2. QED BY Zenon, <1>1, <1>4, <3>1
  <2>5. CASE j # n - i + 1 /\ k # n - i + 1
    <3>1. i + j \in 1 .. n /\ i + k \in 1 .. n /\ q[i + j] = q[i + k]
      BY <1>1, <1>2, <1>4, <2>1, <2>5
    <3>2. i + j = i + k
      BY Zenon, <1>1, <3>1
    <3>3. QED BY <1>1, <1>4, <3>2
  <2>6. QED BY Zenon, <2>2, <2>3, <2>4, <2>5
<1>6. /\ \A x : x \in Range(p) <=> \E j \in 1 .. i - 1 : x = q[j]
      /\ \A x : x \in Range(q) <=> \E j \in 1 .. n : x = q[j]
  BY <1>1, <1>3 DEF Range
<1>7. \A x : x \in Range(r) <=> \E k \in i .. n : x = q[k]
  <2>1. \A x : x \in Range(r) <=> \E j \in 1 .. n - i + 1 : x = r[j]
    BY <1>2 DEF Range
  <2>2. ASSUME NEW j \in 1 .. n - i + 1
        PROVE  \E k \in i .. n : r[j] = q[k]
    <3>1. CASE j = n - i + 1
      BY <1>1, <1>2, <1>4, <3>1
    <3>2. CASE j # n - i + 1
      <4>1. i + j \in i .. n /\ r[j] = q[i + j]
        BY <1>1, <1>2, <1>4, <3>2
      <4>2. QED BY Zenon, <4>1
    <3>3. QED BY Zenon, <3>1, <3>2
  <2>3. ASSUME NEW k \in i .. n
        PROVE  \E j \in 1 .. n - i + 1 : r[j] = q[k]
    <3>1. CASE k = i
      <4>1. n - i + 1 \in 1 .. n - i + 1 /\ r[n - i + 1] = q[i]
        BY <1>1, <1>2, <1>4
      <4>2. QED BY Zenon, <3>1, <4>1
    <3>2. CASE k # i
      <4>1. k - i \in 1 .. n - i + 1 /\ r[k - i] = q[k]
        BY <1>1, <1>2, <1>4, <3>2
      <4>2. QED BY Zenon, <4>1
    <3>3. QED BY Zenon, <3>1, <3>2
  <2>4. ASSUME NEW x, x \in Range(r)
        PROVE  \E k \in i .. n : x = q[k]
    <3>1. PICK j \in 1 .. n - i + 1 : x = r[j]
      BY Zenon, <2>1, <2>4
    <3>2. QED BY Zenon, <2>2, <3>1
  <2>5. ASSUME NEW x, NEW k \in i .. n, x = q[k]
        PROVE  x \in Range(r)
    <3>1. PICK j \in 1 .. n - i + 1 : r[j] = q[k]
      BY Zenon, <2>3
    <3>2. QED BY Zenon, <2>1, <2>5, <3>1
  <2>6. QED BY Zenon, <2>4, <2>5
<1>8. Range(p) \subseteq Range(q) /\ Range(r) = Range(q) \ Range(p)
  <2>1. \A j \in 1 .. i - 1 : j \in 1 .. n
    BY <1>1, <1>4
  <2>2. \A j \in i .. n : j \in 1 .. n /\ \A k \in 1 .. i - 1 : q[j] # q[k]
    BY <1>1, <1>4
  <2>3. \A j \in 1 .. n : j \in 1 .. i - 1 \/ j \in i .. n
    BY <1>1, <1>4
  <2>4. ASSUME NEW x, x \in Range(p)
        PROVE  x \in Range(q) /\ x \notin Range(r)
    <3>1. PICK k \in 1 .. i - 1 : x = q[k]
      BY Zenon, <1>6, <2>4
    <3>2. x \in Range(q)
      BY Zenon, <1>6, <2>1, <3>1
    <3>3. ~\E j \in i .. n : x = q[j]
      BY Zenon, <2>2, <3>1
    <3>4. QED BY Zenon, <1>7, <3>2, <3>3
  <2>5. ASSUME NEW x, x \in Range(r)
        PROVE  x \in Range(q)
    <3>1. PICK k \in i .. n : x = q[k]
      BY Zenon, <1>7, <2>5
    <3>2. QED BY Zenon, <1>6, <2>2, <3>1
  <2>6. ASSUME NEW x, x \in Range(q), x \notin Range(p)
        PROVE  x \in Range(r)
    <3>1. PICK k \in 1 .. n : x = q[k]
      BY Zenon, <1>6, <2>6
    <3>2. k \in i .. n
      BY Zenon, <1>6, <2>3, <2>6, <3>1
    <3>3. QED BY Zenon, <1>7, <3>1, <3>2
  <2>7. QED BY Zenon, <2>4, <2>5, <2>6
<1>9. QED BY Zenon, <1>2, <1>5, <1>8 DEF r, p

LEMMA Removed ==
  ASSUME NEW S, NEW q \in Seq(S), IsInjective(q), NEW l \in Range(q)
  PROVE  Without(q, l) \in Seq(S) /\ IsInjective(Without(q, l)) /\ Range(Without(q, l)) = Range(q) \ {l}
<1> DEFINE i == CHOOSE i \in DOMAIN q : q[i] = l
           n == Len(q)
           r == SubSeq(q, 1, i - 1) \o SubSeq(q, i + 1, n)
<1>1. n \in Nat /\ DOMAIN q = 1 .. n /\ \A j, k \in 1 .. n : q[j] = q[k] => j = k
  BY DEF IsInjective
<1>2. i \in 1 .. n /\ q[i] = l
  BY Zenon, <1>1 DEF Range
<1>3. Without(q, l) = r
  BY Zenon DEF Without
<1> HIDE DEF i
<1>4. /\ r \in Seq(S) /\ DOMAIN r = 1 .. n - 1
      /\ \A j \in 1 .. n - 1 : r[j] = IF j < i THEN q[j] ELSE q[j + 1]
  <2>1. n = Len(q) /\ i \in 1 .. Len(q)
    BY Zenon, <1>2
  <2> DEFINE a == SubSeq(q, 1, i - 1)
             b == SubSeq(q, i + 1, n)
  <2>2. a \in Seq(S) /\ Len(a) = i - 1 /\ \A j \in 1 .. i - 1 : a[j] = q[j]
    BY Zenon, <2>1, CutBefore
  <2>3. b \in Seq(S) /\ Len(b) = n - i /\ \A j \in 1 .. n - i : b[j] = q[i + j]
    BY Zenon, <2>1, CutAfter
  <2> HIDE DEF a, b
  <2>4. /\ a \o b \in Seq(S) /\ DOMAIN (a \o b) = 1 .. Len(a) + Len(b)
        /\ \A j \in 1 .. Len(a) + Len(b) : (a \o b)[j] = IF j <= Len(a) THEN a[j] ELSE b[j - Len(a)]
    <3>1. a \in Seq(S) /\ b \in Seq(S)
      BY Zenon, <2>2, <2>3
    <3>2. QED BY Zenon, <3>1, Concatenated
  <2>5. Len(a) + Len(b) = n - 1
    BY <1>1, <1>2, <2>2, <2>3
  <2>6. r = a \o b /\ a \o b \in Seq(S) /\ DOMAIN (a \o b) = 1 .. n - 1
    <3>1. r = a \o b
      BY Zenon DEF a, b
    <3>2. QED BY Zenon, <2>4, <2>5, <3>1
  <2>7. ASSUME NEW j \in 1 .. n - 1
        PROVE  (a \o b)[j] = IF j < i THEN q[j] ELSE q[j + 1]
    <3>1. (a \o b)[j] = IF j <= Len(a) THEN a[j] ELSE b[j - Len(a)]
      BY Zenon, <2>4, <2>5
    <3>2. CASE j < i
      BY <1>1, <1>2, <2>2, <3>1, <3>2
    <3>3. CASE ~(j < i)
      <4>1. j - Len(a) \in 1 .. n - i /\ i + (j - Len(a)) = j + 1 /\ ~(j <= Len(a))
        BY <1>1, <1>2, <2>2, <3>3
      <4>2. QED BY <2>3, <3>1, <3>3, <4>1
    <3>4. QED BY Zenon, <3>2, <3>3
  <2> HIDE DEF r
  <2>8. QED BY Zenon, <2>6, <2>7
<1> HIDE DEF r, n
<1>5. IsInjective(r)
  BY <1>1, <1>2, <1>4 DEF IsInjective
<1>6. /\ \A x : x \in Range(r) <=> \E j \in 1 .. n - 1 : x = r[j]
      /\ \A x : x \in Range(q) <=> \E j \in 1 .. n : x = q[j]
  BY <1>1, <1>4 DEF Range
<1>7. ASSUME NEW j \in 1 .. n - 1
      PROVE  \E k \in 1 .. n : k # i /\ r[j] = q[k]
  <2>1. CASE j < i
    <3>1. j \in 1 .. n /\ j # i /\ r[j] = q[j]
      BY <1>1, <1>2, <1>4, <2>1
    <3>2. QED BY Zenon, <3>1
  <2>2. CASE ~(j < i)
    <3>1. j + 1 \in 1 .. n /\ j + 1 # i /\ r[j] = q[j + 1]
      BY <1>1, <1>2, <1>4, <2>2
    <3>2. QED BY Zenon, <3>1
  <2>3. QED BY Zenon, <2>1, <2>2
<1>8. ASSUME NEW k \in 1 .. n, k # i
      PROVE  \E j \in 1 .. n - 1 : r[j] = q[k]
  <2>1. CASE k < i
    <3>1. k \in 1 .. n - 1 /\ r[k] = q[k]
      BY <1>1, <1>2, <1>4, <2>1
    <3>2. QED BY Zenon, <3>1
  <2>2. CASE ~(k < i)
    <3>1. k - 1 \in 1 .. n - 1 /\ r[k - 1] = q[k]
      BY <1>1, <1>2, <1>4, <1>8, <2>2
    <3>2. QED BY Zenon, <3>1
  <2>3. QED BY Zenon, <2>1, <2>2
<1>9. \A k \in 1 .. n : q[k] = l <=> k = i
  BY Zenon, <1>1, <1>2
<1>10. ASSUME NEW x
       PROVE  x \in Range(r) <=> x \in Range(q) \ {l}
  <2>1. ASSUME x \in Range(r)
        PROVE  x \in Range(q) \ {l}
    <3>1. PICK j \in 1 .. n - 1 : x = r[j]
      BY Zenon, <1>6, <2>1
    <3>2. PICK k \in 1 .. n : k # i /\ r[j] = q[k]
      BY Zenon, <1>7
    <3>3. QED BY Zenon, <1>6, <1>9, <3>1, <3>2
  <2>2. ASSUME x \in Range(q) \ {l}
        PROVE  x \in Range(r)
    <3>1. PICK k \in 1 .. n : x = q[k]
      BY Zenon, <1>6, <2>2
    <3>2. k # i
      BY Zenon, <1>2, <2>2, <3>1
    <3>3. PICK j \in 1 .. n - 1 : r[j] = q[k]
      BY Zenon, <1>8, <3>2
    <3>4. QED BY Zenon, <1>6, <3>1, <3>3
  <2>3. QED BY Zenon, <2>1, <2>2
<1>11. Range(r) = Range(q) \ {l}
  BY Zenon, <1>10
<1>12. QED BY Zenon, <1>3, <1>4, <1>5, <1>11
-----------------------------------------------------------------------------
(* The delivery of a result *)
IsPosted(e, name, result) ==
  e.state \in {"done", "posting"} /\ e.name = name /\ e.result = result /\ e.dups = <<>> /\ e.timeout = "none" /\ e.written = FALSE

\* postAllEvent has given the result of l to the lookups P that waited with it, and to l
\* itself when these were all.
Given(s, t, l, P) ==
  /\ t \in State /\ t.entries = s.entries /\ t.in_flight = s.in_flight /\ t.txn_lookup_timeout = s.txn_lookup_timeout
  /\ \A d \in Lookups : d \notin P /\ d # l => t.entry[d] = s.entry[d]
  /\ \A d \in P : IsPosted(t.entry[d], s.entry[d].name, s.entry[l].result)
  /\ \/ P = DupsOf(s, l) /\ IsPosted(t.entry[l], s.entry[l].name, s.entry[l].result)
     \/ /\ t.entry[l].state = "post" /\ t.entry[l].timeout = "post" /\ t.entry[l].name = s.entry[l].name
        /\ t.entry[l].result = s.entry[l].result /\ t.entry[l].written = s.entry[l].written
        /\ IsInjective(t.entry[l].dups) /\ DupsOf(t, l) = DupsOf(s, l) \ P

LEMMA BlankIs == Blank \in Entry
<1>1. None \in Asked
  BY Zenon DEF Asked
<1>2. 0 \in 0 .. dns_retries /\ 0 \in 0 .. Domains
  BY Constants
<1>3. [i \in 0 .. dns_retries |-> None] \in [0 .. dns_retries -> Ids \union {None}]
  BY Zenon
<1>4. <<>> \in Seq(Lookups)
  OBVIOUS
<1>5. QED BY <1>1, <1>2, <1>3, <1>4 DEF Blank, Entry

LEMMA PostedIs ==
  ASSUME NEW name \in Asked, NEW result \in {None, Failed} \union Queried, NEW called
  PROVE  Posted(name, result, called) \in Entry /\ IsPosted(Posted(name, result, called), name, result)
<1> DEFINE st == IF called THEN "done" ELSE "posting"
<1>1. st \in {"done", "posting"}
  BY Zenon
<1> HIDE DEF st
<1>2. Posted(name, result, called) = [Blank EXCEPT !.state = st, !.name = name, !.result = result]
  BY Zenon DEF Posted, st
<1>3. Blank.dups = <<>> /\ Blank.timeout = "none" /\ Blank.written = FALSE
  BY DEF Blank
<1>4. Posted(name, result, called) \in Entry
  BY ZenonT(30), <1>1, <1>2, BlankIs DEF Entry
<1>5. /\ Posted(name, result, called).state = st /\ Posted(name, result, called).name = name
      /\ Posted(name, result, called).result = result /\ Posted(name, result, called).dups = Blank.dups
      /\ Posted(name, result, called).timeout = Blank.timeout /\ Posted(name, result, called).written = Blank.written
  BY Zenon, <1>2, BlankIs DEF Entry
<1>6. QED BY Zenon, <1>1, <1>3, <1>4, <1>5 DEF IsPosted

LEMMA LenDomain ==
  ASSUME NEW S, NEW q \in Seq(S)
  PROVE  Len(q) \in Nat /\ DOMAIN q = 1 .. Len(q)
OBVIOUS

LEMMA WholeSeq ==
  ASSUME NEW S, NEW q \in Seq(S)
  PROVE  SubSeq(q, 1, Len(q)) = q
OBVIOUS

LEMMA RangeIn ==
  ASSUME NEW S, NEW q \in Seq(S)
  PROVE  Range(q) \subseteq S
BY DEF Range

LEMMA PostGives ==
  ASSUME NEW s \in State, NEW l \in Lookups, NEW c, IsInjective(s.entry[l].dups), l \notin DupsOf(s, l)
  PROVE  \E P \in SUBSET DupsOf(s, l) : Given(s, postAllEvent(s, l, c), l, P)
<1> DEFINE e == s.entry[l]
           missed == {i \in DOMAIN e.dups : e.dups[i] \in c.busy}
           n == IF missed = {} THEN Len(e.dups) ELSE Min(missed) - 1
           P == Range(SubSeq(e.dups, 1, n))
           Put(d) == Posted(s.entry[d].name, e.result, d \in Local)
           f == [d \in Lookups |-> IF d \in P THEN Put(d) ELSE s.entry[d]]
           t == [s EXCEPT !.entry = f]
           own == Posted(e.name, e.result, l \in Local \ c.busy)
           r == Append(SubSeq(e.dups, n + 2, Len(e.dups)), e.dups[n + 1])
           more == [f[l] EXCEPT !.dups = r, !.state = "post", !.timeout = "post"]
           all == [t EXCEPT !.entry[l] = own]
           some == [t EXCEPT !.entry[l] = more]
<1>1. e \in Entry /\ e.dups \in Seq(Lookups) /\ s.entry \in [Lookups -> Entry] /\ e.name \in Asked
      /\ e.result \in {None, Failed} \union Queried
  BY Zenon, Fields, EntryFields
<1>2. Len(e.dups) \in Nat /\ DOMAIN e.dups = 1 .. Len(e.dups)
  BY Zenon, <1>1, LenDomain
<1>3. /\ missed = {} => P = DupsOf(s, l)
      /\ missed # {} => /\ P \subseteq DupsOf(s, l) /\ r \in Seq(Lookups) /\ IsInjective(r) /\ Range(r) = DupsOf(s, l) \ P
  <2>1. CASE missed = {}
    <3>1. n = Len(e.dups)
      BY Zenon, <2>1
    <3>2. SubSeq(e.dups, 1, Len(e.dups)) = e.dups
      BY Zenon, <1>1, WholeSeq
    <3>3. QED BY Zenon, <2>1, <3>1, <3>2 DEF DupsOf
  <2>2. CASE missed # {}
    <3> DEFINE i == Min(missed)
    <3>1. missed \in SUBSET Nat
      BY <1>2
    <3>2. i \in missed
      BY Zenon, <2>2, <3>1, MinLeast
    <3>3. i \in 1 .. Len(e.dups)
      BY Zenon, <1>2, <3>2
    <3>4. n = i - 1
      BY Zenon, <2>2
    <3> HIDE DEF i, n, missed
    <3>5. n + 1 = i /\ n + 2 = i + 1
      BY <3>3, <3>4
    <3> DEFINE q == e.dups
    <3>6. q \in Seq(Lookups) /\ IsInjective(q) /\ i \in 1 .. Len(q)
      BY Zenon, <1>1, <3>3
    <3> HIDE DEF q
    <3>7. /\ Append(SubSeq(q, i + 1, Len(q)), q[i]) \in Seq(Lookups) /\ IsInjective(Append(SubSeq(q, i + 1, Len(q)), q[i]))
          /\ Range(SubSeq(q, 1, i - 1)) \subseteq Range(q)
          /\ Range(Append(SubSeq(q, i + 1, Len(q)), q[i])) = Range(q) \ Range(SubSeq(q, 1, i - 1))
      BY Zenon, <3>6, Rotated
    <3>8. r = Append(SubSeq(q, i + 1, Len(q)), q[i]) /\ P = Range(SubSeq(q, 1, i - 1)) /\ DupsOf(s, l) = Range(q)
      BY Zenon, <3>4, <3>5 DEF q, DupsOf
    <3>9. QED BY Zenon, <2>2, <3>7, <3>8
  <2>3. QED BY Zenon, <2>1, <2>2
<1>4. P \in SUBSET DupsOf(s, l)
  BY Zenon, <1>3
<1>5. DupsOf(s, l) \subseteq Lookups
  BY Zenon, <1>1, RangeIn DEF DupsOf
<1>6. postAllEvent(s, l, c) = IF missed = {} THEN all ELSE some
  BY Zenon DEF postAllEvent, State
<1>7. \A d \in Lookups : Put(d) \in Entry /\ IsPosted(Put(d), s.entry[d].name, e.result)
  <2> TAKE d \in Lookups
  <2>1. s.entry[d].name \in Asked
    BY Zenon, Fields, EntryFields
  <2>2. QED BY Zenon, <1>1, <2>1, PostedIs
<1>8. own \in Entry /\ IsPosted(own, e.name, e.result)
  BY Zenon, <1>1, PostedIs
<1> HIDE DEF n, P, Put, own, missed, r
<1>9. f \in [Lookups -> Entry] /\ f[l] = e
  BY Zenon, <1>1, <1>4, <1>7
<1>10. \A d \in Lookups : (d \in P => f[d] = Put(d)) /\ (d \notin P => f[d] = s.entry[d])
  BY Zenon
<1> HIDE DEF f
<1>11. /\ t \in State /\ t.entry = f /\ t.entries = s.entries /\ t.in_flight = s.in_flight
       /\ t.txn_lookup_timeout = s.txn_lookup_timeout
  BY Zenon, <1>9 DEF State
<1> HIDE DEF t
<1>12. CASE missed = {}
  <2>1. /\ all \in State /\ all.entry = [f EXCEPT ![l] = own] /\ all.entries = s.entries /\ all.in_flight = s.in_flight
        /\ all.txn_lookup_timeout = s.txn_lookup_timeout
    BY Zenon, <1>8, <1>11 DEF State
  <2>2. all.entry[l] = own /\ \A d \in Lookups : d # l => all.entry[d] = f[d]
    BY ZenonT(30), <1>9, <2>1
  <2>3. postAllEvent(s, l, c) = all /\ P = DupsOf(s, l)
    BY Zenon, <1>3, <1>6, <1>12
  <2> HIDE DEF all
  <2>4. \A d \in P : d # l /\ d \in Lookups
    BY Zenon, <1>4, <1>5
  <2>5. \A d \in P : IsPosted(all.entry[d], s.entry[d].name, e.result)
    BY Zenon, <1>7, <1>10, <2>2, <2>4
  <2>6. Given(s, all, l, P)
    BY Zenon, <1>8, <1>10, <2>1, <2>2, <2>3, <2>5 DEF Given
  <2>7. QED BY Zenon, <1>4, <2>3, <2>6
<1>13. CASE missed # {}
  <2>1. r \in Seq(Lookups) /\ IsInjective(r) /\ Range(r) = DupsOf(s, l) \ P
    BY Zenon, <1>3, <1>13
  <2>2. /\ more \in Entry /\ more.dups = r /\ more.state = "post" /\ more.timeout = "post" /\ more.name = e.name
        /\ more.result = e.result /\ more.written = e.written
    BY ZenonT(30), <1>1, <1>9, <2>1 DEF Entry
  <2> HIDE DEF more
  <2>3. /\ some \in State /\ some.entry = [f EXCEPT ![l] = more] /\ some.entries = s.entries /\ some.in_flight = s.in_flight
        /\ some.txn_lookup_timeout = s.txn_lookup_timeout
    BY Zenon, <1>11, <2>2 DEF State
  <2>4. some.entry[l] = more /\ \A d \in Lookups : d # l => some.entry[d] = f[d]
    BY Zenon, <1>9, <2>3
  <2>5. postAllEvent(s, l, c) = some
    BY Zenon, <1>6, <1>13
  <2> HIDE DEF some
  <2>6. \A d \in P : d # l /\ d \in Lookups
    BY Zenon, <1>4, <1>5
  <2>7. \A d \in P : IsPosted(some.entry[d], s.entry[d].name, e.result)
    BY Zenon, <1>7, <1>10, <2>4, <2>6
  <2>8. Given(s, some, l, P)
    BY Zenon, <1>10, <2>1, <2>2, <2>3, <2>4, <2>7 DEF Given, DupsOf
  <2>9. QED BY Zenon, <1>4, <2>5, <2>8
<1>14. QED BY Zenon, <1>12, <1>13

LEMMA GivenGood ==
  ASSUME NEW s \in State, Together(s), Right(s), NEW l \in Lookups, s.entry[l].state \in {"head", "post"}, l \notin Heads(s),
         \A k \in Lookups : k # l => Placed(s, k),
         NEW t, NEW P \in SUBSET DupsOf(s, l), Given(s, t, l, P)
  PROVE  Good(t) /\ (Flight(s) => Flight(t))
<1>1. /\ t \in State /\ t.entries = s.entries /\ t.in_flight = s.in_flight /\ Heads(t) = Heads(s)
      /\ \A d \in Lookups : d \notin P /\ d # l => t.entry[d] = s.entry[d]
      /\ \A d \in P : IsPosted(t.entry[d], s.entry[d].name, s.entry[l].result)
  BY Zenon DEF Given, Heads
<1>2. DupsOf(s, l) \subseteq Lookups
  <2>1. s.entry[l].dups \in Seq(Lookups)
    BY Zenon, Fields, EntryFields
  <2>2. QED BY Zenon, <2>1, RangeIn DEF DupsOf
<1>3. /\ \A k \in Lookups : s.entry[k].state = "dup" <=> \E d \in Lookups : k \in DupsOf(s, d)
      /\ \A k, d \in Lookups : k \in DupsOf(s, d) =>
           /\ s.entry[d].state \in {"head", "post"} /\ s.entry[d].name = s.entry[k].name
           /\ \A j \in Lookups : k \in DupsOf(s, j) => j = d
  BY Zenon DEF Together
<1>4. \A d \in P : d \in Lookups /\ d # l /\ s.entry[d].state = "dup" /\ s.entry[d].name = s.entry[l].name /\ d \notin Heads(s)
  <2> TAKE d \in P
  <2>1. d \in Lookups /\ d \in DupsOf(s, l)
    BY Zenon, <1>2
  <2>2. s.entry[d].state = "dup" /\ s.entry[d].name = s.entry[l].name
    BY Zenon, <1>3, <2>1
  <2>3. d # l
    BY Zenon, <2>2
  <2>4. Placed(s, d)
    BY Zenon, <2>1, <2>3
  <2>5. QED BY Zenon, <2>1, <2>2, <2>3, <2>4 DEF Placed
<1>5. \A e, name, result : IsPosted(e, name, result) => Range(e.dups) = {} /\ IsInjective(e.dups)
  <2>1. Range(<<>>) = {} /\ IsInjective(<<>>)
    BY DEF Range, IsInjective
  <2>2. QED BY Zenon, <2>1 DEF IsPosted
<1>6. /\ t.entry[l].state \in {"done", "posting", "post"} /\ t.entry[l].name = s.entry[l].name
      /\ t.entry[l].result = s.entry[l].result /\ t.entry[l].timeout # "lookup"
      /\ t.entry[l].timeout = "post" <=> t.entry[l].state = "post"
      /\ IsInjective(t.entry[l].dups) /\ DupsOf(t, l) = DupsOf(s, l) \ P
      /\ P # DupsOf(s, l) => t.entry[l].state = "post"
      /\ s.entry[l].written = FALSE => t.entry[l].written = FALSE
  <2>1. CASE P = DupsOf(s, l) /\ IsPosted(t.entry[l], s.entry[l].name, s.entry[l].result)
    <3>1. DupsOf(t, l) = {} /\ IsInjective(t.entry[l].dups)
      BY Zenon, <1>5, <2>1 DEF DupsOf
    <3>2. QED BY Zenon, <2>1, <3>1 DEF IsPosted
  <2>2. CASE /\ t.entry[l].state = "post" /\ t.entry[l].timeout = "post" /\ t.entry[l].name = s.entry[l].name
             /\ t.entry[l].result = s.entry[l].result /\ t.entry[l].written = s.entry[l].written
             /\ IsInjective(t.entry[l].dups) /\ DupsOf(t, l) = DupsOf(s, l) \ P
    BY Zenon, <2>2
  <2>3. QED BY Zenon, <2>1, <2>2 DEF Given
<1>7. \A d \in P : /\ t.entry[d].state \in {"done", "posting"} /\ t.entry[d].name = s.entry[l].name /\ t.entry[d].result = s.entry[l].result
                   /\ t.entry[d].timeout = "none" /\ t.entry[d].written = FALSE /\ DupsOf(t, d) = {} /\ IsInjective(t.entry[d].dups)
  <2> TAKE d \in P
  <2>1. IsPosted(t.entry[d], s.entry[d].name, s.entry[l].result)
    BY Zenon, <1>1
  <2>2. QED BY Zenon, <1>4, <1>5, <2>1 DEF IsPosted, DupsOf
<1>8. \A d \in Lookups : d # l => DupsOf(t, d) = DupsOf(s, d)
  <2> TAKE d \in Lookups
  <2>1. CASE d \in P
    <3>1. ASSUME NEW x, x \in DupsOf(s, d)
          PROVE  FALSE
      <4>1. s.entry[d].dups \in Seq(Lookups)
        BY Zenon, Fields, EntryFields
      <4>2. x \in Lookups
        BY Zenon, <3>1, <4>1, RangeIn DEF DupsOf
      <4>3. s.entry[d].state \in {"head", "post"} /\ s.entry[d].state = "dup"
        BY Zenon, <1>3, <1>4, <2>1, <3>1, <4>2
      <4>4. QED BY Zenon, <4>3
    <3>2. QED BY Zenon, <1>7, <2>1, <3>1
  <2>2. CASE d \notin P
    BY Zenon, <1>1, <2>2 DEF DupsOf
  <2>3. QED BY Zenon, <2>1, <2>2
<1>9. Together(t)
  <2>1. IsInjective(t.entries)
    BY Zenon, <1>1 DEF Together
  <2>2. ASSUME NEW k \in Lookups
        PROVE  /\ t.entry[k].state = "dup" <=> \E d \in Lookups : k \in DupsOf(t, d)
               /\ IsInjective(t.entry[k].dups)
               /\ t.entry[k].state = "new" => t.entry[k] = Blank
    <3>1. CASE k = l
      <4>1. \A d \in Lookups : k \notin DupsOf(s, d)
        BY Zenon, <1>3, <3>1
      <4>2. \A d \in Lookups : k \notin DupsOf(t, d)
        BY Zenon, <1>6, <1>8, <4>1
      <4>3. QED BY Zenon, <1>6, <3>1, <4>2
    <3>2. CASE k \in P
      <4>1. \A d \in Lookups : k \in DupsOf(s, d) => d = l
        BY Zenon, <1>3, <3>2
      <4>2. \A d \in Lookups : k \notin DupsOf(t, d)
        BY Zenon, <1>6, <1>8, <3>2, <4>1
      <4>3. QED BY Zenon, <1>7, <3>2, <4>2
    <3>3. CASE k # l /\ k \notin P
      <4>1. \A d \in Lookups : k \in DupsOf(t, d) <=> k \in DupsOf(s, d)
        BY Zenon, <1>6, <1>8, <3>3
      <4>2. t.entry[k] = s.entry[k]
        BY Zenon, <1>1, <3>3
      <4>3. QED BY Zenon, <4>1, <4>2 DEF Together
    <3>4. QED BY Zenon, <3>1, <3>2, <3>3
  <2>3. ASSUME NEW k \in Lookups, NEW d \in Lookups, k \in DupsOf(t, d)
        PROVE  /\ t.entry[d].state \in {"head", "post"} /\ t.entry[d].name = t.entry[k].name
               /\ \A j \in Lookups : k \in DupsOf(t, j) => j = d
    <3>1. k \in DupsOf(s, d)
      BY Zenon, <1>6, <1>8, <2>3
    <3>2. /\ s.entry[d].state \in {"head", "post"} /\ s.entry[d].name = s.entry[k].name
          /\ \A j \in Lookups : k \in DupsOf(s, j) => j = d
      BY Zenon, <1>3, <3>1
    <3>3. k \notin P
      BY Zenon, <1>6, <2>3, <3>1, <3>2
    <3>4. s.entry[k].state = "dup"
      BY Zenon, <1>3, <3>1
    <3>5. k # l
      BY Zenon, <3>4
    <3>6. t.entry[k] = s.entry[k]
      BY Zenon, <1>1, <3>3, <3>5
    <3>7. t.entry[d].state \in {"head", "post"} /\ t.entry[d].name = s.entry[d].name
      <4>1. CASE d = l
        BY Zenon, <1>6, <3>1, <3>3, <4>1
      <4>2. CASE d # l
        <5>1. d \notin P
          BY Zenon, <1>4, <3>2
        <5>2. QED BY Zenon, <1>1, <3>2, <4>2, <5>1
      <4>3. QED BY Zenon, <4>1, <4>2
    <3>8. \A j \in Lookups : k \in DupsOf(t, j) => j = d
      BY Zenon, <1>6, <1>8, <3>2
    <3>9. QED BY Zenon, <3>2, <3>6, <3>7, <3>8
  <2>4. QED BY Zenon, <2>1, <2>2, <2>3 DEF Together
<1>10. Right(t)
  <2>1. SUFFICES ASSUME NEW k \in Lookups
                 PROVE  RightFor(t.entry[k].name, t.entry[k].result)
    BY Zenon DEF Right
  <2>2. PICK j \in Lookups : t.entry[k].result = s.entry[j].result /\ t.entry[k].name = s.entry[j].name
    <3>1. CASE k = l \/ k \in P
      <4>1. t.entry[k].result = s.entry[l].result /\ t.entry[k].name = s.entry[l].name
        BY Zenon, <1>6, <1>7, <3>1
      <4>2. QED BY Zenon, <4>1
    <3>2. CASE k # l /\ k \notin P
      <4>1. t.entry[k] = s.entry[k]
        BY Zenon, <1>1, <3>2
      <4>2. QED BY Zenon, <4>1
    <3>3. QED BY Zenon, <3>1, <3>2
  <2>3. QED BY Zenon, <2>2 DEF Right
<1>11. ASSUME NEW k \in Lookups
       PROVE  Placed(t, k)
  <2>1. CASE k = l
    BY Zenon, <1>1, <1>6, <2>1 DEF Placed
  <2>2. CASE k \in P
    BY Zenon, <1>1, <1>4, <1>7, <2>2 DEF Placed
  <2>3. CASE k # l /\ k \notin P
    <3>1. t.entry[k] = s.entry[k] /\ Heads(t) = Heads(s)
      BY Zenon, <1>1, <2>3
    <3>2. Placed(s, k)
      BY Zenon, <2>3
    <3>3. QED BY Zenon, <3>1, <3>2 DEF Placed
  <2>4. QED BY Zenon, <2>1, <2>2, <2>3
<1>12. ASSUME Flight(s)
       PROVE  Flight(t)
  <2>1. \A k \in Lookups : s.entry[k].written \in BOOLEAN
    BY Zenon, Fields, EntryFields
  <2>2. \A k \in Lookups : s.entry[k].written => k \in Heads(s)
    BY Zenon, <1>12 DEF Flight, WrittenIn
  <2>3. ASSUME NEW k \in Lookups
        PROVE  t.entry[k].written = s.entry[k].written
    <3>1. CASE k = l
      BY Zenon, <1>6, <2>1, <2>2, <3>1
    <3>2. CASE k \in P
      <4>1. k \notin Heads(s) /\ t.entry[k].written = FALSE
        BY Zenon, <1>4, <1>7, <3>2
      <4>2. s.entry[k].written = FALSE
        BY Zenon, <2>1, <2>2, <4>1
      <4>3. QED BY Zenon, <4>1, <4>2
    <3>3. CASE k # l /\ k \notin P
      BY Zenon, <1>1, <3>3
    <3>4. QED BY Zenon, <3>1, <3>2, <3>3
  <2>4. WrittenIn(t) = WrittenIn(s)
    BY Zenon, <2>3 DEF WrittenIn
  <2>5. QED BY Zenon, <1>1, <1>12, <2>4 DEF Flight
<1>13. QED BY Zenon, <1>1, <1>9, <1>10, <1>11, <1>12 DEF Good

LEMMA PostGood ==
  ASSUME NEW s \in State, Together(s), Right(s), NEW l \in Lookups, s.entry[l].state \in {"head", "post"}, l \notin Heads(s),
         \A k \in Lookups : k # l => Placed(s, k), NEW c
  PROVE  /\ Good(postAllEvent(s, l, c)) /\ (Flight(s) => Flight(postAllEvent(s, l, c)))
         /\ postAllEvent(s, l, c).txn_lookup_timeout = s.txn_lookup_timeout
<1>1. IsInjective(s.entry[l].dups) /\ l \notin DupsOf(s, l)
  BY Zenon DEF Together
<1>2. PICK P \in SUBSET DupsOf(s, l) : Given(s, postAllEvent(s, l, c), l, P)
  BY Zenon, <1>1, PostGives
<1>3. Good(postAllEvent(s, l, c)) /\ (Flight(s) => Flight(postAllEvent(s, l, c)))
  BY Zenon, <1>2, GivenGood
<1>4. QED BY Zenon, <1>2, <1>3 DEF Given
-----------------------------------------------------------------------------
(* Results *)
\* What every step of the handler does
Goes(s, t) == Good(t) /\ (Flight(s) => Flight(t)) /\ t.txn_lookup_timeout = s.txn_lookup_timeout
\* The same for a step that may end lookup l
Ends(s, t, l) ==
  Good(t) /\ (Flight(s) /\ ~s.entry[l].written => Flight(t)) /\ t.txn_lookup_timeout = s.txn_lookup_timeout

LEMMA KeepsGoes ==
  ASSUME NEW s, NEW t, Good(s), Keeps(s, t)
  PROVE  Goes(s, t)
<1>1. Good(t)
  BY Zenon, KeepsGood
<1>2. QED BY Zenon, <1>1 DEF Goes, Keeps

LEMMA GoesMore ==
  ASSUME NEW s, NEW t, NEW u, Goes(s, t), Goes(t, u)
  PROVE  Goes(s, u)
BY Zenon DEF Goes

\* A change of one entry that waits as before
AsBefore(e, f) ==
  /\ f.name = e.name /\ f.dups = e.dups /\ f.state # "new" /\ (f.state = "dup" <=> e.state = "dup")
  /\ e.state \in {"head", "post"} => f.state \in {"head", "post"}
OneChanged(s, t, l, e) ==
  /\ s \in State /\ Together(s) /\ Right(s) /\ l \in Lookups
  /\ t \in State /\ IsInjective(t.entries) /\ t.entry = [s.entry EXCEPT ![l] = e]
  /\ AsBefore(s.entry[l], e) /\ RightFor(e.name, e.result)

LEMMA OneEntry ==
  ASSUME NEW s, NEW t, NEW l, NEW e, OneChanged(s, t, l, e)
  PROVE  Together(t) /\ Right(t)
<1> USE DEF OneChanged
<1>1. s.entry \in [Lookups -> Entry]
  BY Zenon, Fields
<1>2. t.entry[l] = e /\ \A k \in Lookups : k # l => t.entry[k] = s.entry[k]
  BY Zenon, <1>1
<1>3. \A k \in Lookups : /\ t.entry[k].name = s.entry[k].name /\ t.entry[k].dups = s.entry[k].dups /\ DupsOf(t, k) = DupsOf(s, k)
                         /\ (t.entry[k].state = "dup" <=> s.entry[k].state = "dup")
                         /\ (s.entry[k].state \in {"head", "post"} => t.entry[k].state \in {"head", "post"})
  <2> TAKE k \in Lookups
  <2>1. CASE k = l
    BY Zenon, <1>2, <2>1 DEF DupsOf, AsBefore
  <2>2. CASE k # l
    BY Zenon, <1>2, <2>2 DEF DupsOf
  <2>3. QED BY ZenonT(30), <2>1, <2>2
<1>4. Right(t)
  BY Zenon, <1>2 DEF Right
<1>5. Together(t)
  <2>1. ASSUME NEW k \in Lookups
        PROVE  /\ t.entry[k].state = "dup" <=> \E d \in Lookups : k \in DupsOf(t, d)
               /\ IsInjective(t.entry[k].dups)
               /\ t.entry[k].state = "new" => t.entry[k] = Blank
    <3>1. /\ s.entry[k].state = "dup" <=> \E d \in Lookups : k \in DupsOf(s, d)
          /\ IsInjective(s.entry[k].dups)
          /\ s.entry[k].state = "new" => s.entry[k] = Blank
      BY Zenon DEF Together
    <3>2. t.entry[k].state = "dup" <=> \E d \in Lookups : k \in DupsOf(t, d)
      BY Zenon, <1>3, <3>1
    <3>3. t.entry[k].state = "new" => t.entry[k] = Blank
      BY Zenon, <1>2, <3>1 DEF AsBefore
    <3>4. QED BY Zenon, <1>3, <3>1, <3>2, <3>3
  <2>2. ASSUME NEW k \in Lookups, NEW d \in Lookups, k \in DupsOf(t, d)
        PROVE  /\ t.entry[d].state \in {"head", "post"} /\ t.entry[d].name = t.entry[k].name
               /\ \A j \in Lookups : k \in DupsOf(t, j) => j = d
    <3>1. k \in DupsOf(s, d)
      BY Zenon, <1>3, <2>2
    <3>2. /\ s.entry[d].state \in {"head", "post"} /\ s.entry[d].name = s.entry[k].name
          /\ \A j \in Lookups : k \in DupsOf(s, j) => j = d
      BY Zenon, <3>1 DEF Together
    <3>3. QED BY Zenon, <1>3, <3>2
  <2>3. QED BY Zenon, <2>1, <2>2 DEF Together
<1>6. QED BY Zenon, <1>4, <1>5

\* The entry is taken off the list, and its result goes out.
LEMMA FinishGood ==
  ASSUME NEW s, Good(s), NEW l \in Heads(s), NEW result \in {Failed} \union Queried, NEW c,
         RightFor(s.entry[l].name, result)
  PROVE  Ends(s, Finish(s, l, result, c), l)
<1> DEFINE e == [s.entry[l] EXCEPT !.id = Blank.id, !.result = result, !.retries = 0]
           left == Without(s.entries, l)
           ids == s.qid_in_flight \ IdsOf(s.entry[l])
           u == [s EXCEPT !.entries = left, !.qid_in_flight = ids, !.entry[l] = e]
<1>1. s \in State /\ Together(s) /\ Right(s) /\ \A k \in Lookups : Placed(s, k)
  BY Zenon DEF Good
<1>2. l \in Lookups
  BY Zenon, <1>1, HeadsAre
<1>3. s.entry[l] \in Entry /\ s.entry \in [Lookups -> Entry] /\ s.entries \in Seq(Lookups) /\ IsInjective(s.entries)
  BY Zenon, <1>1, <1>2, Fields DEF Together
<1>4. left \in Seq(Lookups) /\ IsInjective(left) /\ Range(left) = Heads(s) \ {l}
  BY Zenon, <1>3, Removed DEF Heads
<1>5. ids \in SUBSET Ids
  BY Zenon, <1>1, Fields
<1>6. Finish(s, l, result, c) = postAllEvent(u, l, c)
  BY Zenon, <1>1 DEF Finish, State
<1> HIDE DEF left, ids
<1>7. 0 \in 0 .. dns_retries
  BY Constants
<1>8. Blank.id \in [0 .. dns_retries -> Ids \union {None}]
  BY Zenon, BlankIs DEF Entry
<1>9. /\ e \in Entry /\ e.result = result /\ e.name = s.entry[l].name /\ e.dups = s.entry[l].dups /\ e.state = s.entry[l].state
      /\ e.timeout = s.entry[l].timeout /\ e.written = s.entry[l].written
  BY Zenon, <1>3, <1>7, <1>8 DEF Entry
<1> HIDE DEF e
<1>10. /\ u \in State /\ u.entry = [s.entry EXCEPT ![l] = e] /\ u.entries = left /\ u.in_flight = s.in_flight
       /\ u.txn_lookup_timeout = s.txn_lookup_timeout
  BY Zenon, <1>1, <1>4, <1>5, <1>9 DEF State
<1> HIDE DEF u
<1>11. s.entry[l].state = "head"
  BY Zenon, <1>1, <1>2 DEF Placed
<1>12. Together(u) /\ Right(u) /\ u.entry[l] = e /\ \A k \in Lookups : k # l => u.entry[k] = s.entry[k]
  <2>1. IsInjective(u.entries)
    BY Zenon, <1>4, <1>10
  <2>2. RightFor(e.name, e.result)
    BY Zenon, <1>9
  <2>3. AsBefore(s.entry[l], e)
    BY Zenon, <1>9, <1>11 DEF AsBefore
  <2>4. OneChanged(s, u, l, e)
    BY Zenon, <1>1, <1>2, <1>10, <2>1, <2>2, <2>3 DEF OneChanged
  <2>5. u.entry[l] = e /\ \A k \in Lookups : k # l => u.entry[k] = s.entry[k]
    BY Zenon, <1>2, <1>3, <1>10
  <2>6. QED BY Zenon, <2>4, <2>5, OneEntry
<1>13. Heads(u) = Heads(s) \ {l}
  BY Zenon, <1>4, <1>10 DEF Heads
<1>14. ASSUME NEW k \in Lookups, k # l
       PROVE  Placed(u, k)
  BY Zenon, <1>1, <1>12, <1>13, <1>14 DEF Placed
<1>15. u.entry[l].state \in {"head", "post"} /\ l \notin Heads(u)
  BY Zenon, <1>9, <1>11, <1>12, <1>13
<1>16. /\ Good(postAllEvent(u, l, c)) /\ (Flight(u) => Flight(postAllEvent(u, l, c)))
       /\ postAllEvent(u, l, c).txn_lookup_timeout = u.txn_lookup_timeout
  <2>1. \A k \in Lookups : k # l => Placed(u, k)
    BY Zenon, <1>14
  <2>2. u \in State /\ Together(u) /\ Right(u)
    BY Zenon, <1>10, <1>12
  <2>3. QED BY Zenon, <1>2, <1>15, <2>1, <2>2, PostGood
<1>17. ASSUME Flight(s), ~s.entry[l].written
       PROVE  Flight(u)
  <2>1. \A k \in Lookups : u.entry[k].written = s.entry[k].written
    BY Zenon, <1>9, <1>12
  <2>2. WrittenIn(u) = WrittenIn(s) /\ l \notin WrittenIn(s)
    BY Zenon, <1>17, <2>1 DEF WrittenIn
  <2>3. QED BY Zenon, <1>10, <1>13, <1>17, <2>2 DEF Flight
<1>18. Ends(s, postAllEvent(u, l, c), l)
  BY Zenon, <1>10, <1>16, <1>17 DEF Ends
<1>19. QED BY Zenon, <1>6, <1>18

\* Another try is made of an entry.
LEMMA AgainGoes ==
  ASSUME NEW s, Good(s), NEW l \in Heads(s), NEW e \in Entry, SameLookup(s.entry[l], e), e.written = s.entry[l].written, NEW c
  PROVE  Goes(s, write_dns([s EXCEPT !.entry[l] = e], c))
<1> DEFINE t == [s EXCEPT !.entry[l] = e]
<1>1. s \in State /\ s.entry \in [Lookups -> Entry] /\ l \in Lookups
  BY Zenon, Fields, HeadsAre DEF Good
<1>2. /\ t \in State /\ t.entries = s.entries /\ t.entry = [s.entry EXCEPT ![l] = e] /\ t.in_flight = s.in_flight
      /\ t.txn_lookup_timeout = s.txn_lookup_timeout
  BY Zenon, <1>1 DEF State
<1> HIDE DEF t
<1>3. WrittenIn(t) = WrittenIn(s)
  <2>1. \A k \in Lookups : t.entry[k].written = s.entry[k].written
    BY Zenon, <1>1, <1>2
  <2>2. QED BY Zenon, <2>1 DEF WrittenIn
<1>4. Flight(s) => Flight(t)
  BY Zenon, <1>2, <1>3 DEF Flight, Heads
<1>5. Keeps(s, t)
  BY Zenon, <1>1, <1>2, <1>4, KeepsOne
<1>6. Keeps(t, write_dns(t, c))
  BY Zenon, <1>2, WriteKeeps
<1>7. Keeps(s, write_dns(t, c))
  BY Zenon, <1>5, <1>6, KeepsMore
<1>8. QED BY Zenon, <1>7, KeepsGoes DEF t

LEMMA ResultGood ==
  ASSUME NEW s, Good(s), NEW l \in Heads(s), NEW result \in {Failed} \union Queried, NEW retry, NEW c,
         RightFor(s.entry[l].name, result)
  PROVE  Ends(s, dns_result(s, l, result, retry, c), l)
<1> DEFINE e == s.entry[l]
           again == result = Failed /\ ~e.cancelled
           a == [e EXCEPT !.retries = e.retries - 1]
           b == [e EXCEPT !.domains = e.domains + 1, !.retries = dns_retries]
           d == [e EXCEPT !.last = TRUE]
           one == again /\ retry /\ e.retries > 0
           two == again /\ ~(retry /\ e.retries > 0) /\ e.domains < Domains
           three == again /\ ~(retry /\ e.retries > 0) /\ Domains = 0 /\ e.name \in Dotless /\ ~e.last
           r == dns_result(s, l, result, retry, c)
<1>1. s \in State /\ l \in Lookups
  BY Zenon, HeadsAre DEF Good
<1>2. e \in Entry /\ s.entry \in [Lookups -> Entry]
  BY Zenon, <1>1, Fields
<1>3. \/ one /\ r = write_dns([s EXCEPT !.entry[l] = a], c)
      \/ two /\ r = write_dns([s EXCEPT !.entry[l] = b], c)
      \/ three /\ r = write_dns([s EXCEPT !.entry[l] = d], c)
      \/ r = Finish(s, l, result, c)
  <2> DEFINE A == [s EXCEPT !.entry[l] = a]
             B == [s EXCEPT !.entry[l] = b]
             D == [s EXCEPT !.entry[l] = d]
  <2>1. r = CASE one -> write_dns(A, c) [] two -> write_dns(B, c) [] three -> write_dns(D, c) [] OTHER -> Finish(s, l, result, c)
    BY Zenon DEF dns_result
  <2> HIDE DEF A, B, D, r, one, two, three
  <2>2. (one /\ r = write_dns(A, c)) \/ (two /\ r = write_dns(B, c)) \/ (three /\ r = write_dns(D, c)) \/ r = Finish(s, l, result, c)
    BY <2>1
  <2>3. QED BY Zenon, <2>2 DEF A, B, D
<1> HIDE DEF r
<1> SUFFICES Ends(s, r, l)
  BY Zenon DEF r
<1>4. CASE one /\ r = write_dns([s EXCEPT !.entry[l] = a], c)
  <2>1. e.retries - 1 \in 0 .. dns_retries
    <3>1. e.retries \in 0 .. dns_retries /\ e.retries > 0
      BY Zenon, <1>2, <1>4, EntryFields
    <3> HIDE DEF e
    <3>2. QED BY <3>1, Constants
  <2>2. a \in Entry /\ SameLookup(e, a) /\ a.written = e.written
    BY Zenon, <1>2, <2>1 DEF Entry, SameLookup
  <2>3. Goes(s, r)
    BY Zenon, <1>4, <2>2, AgainGoes
  <2>4. QED BY Zenon, <2>3 DEF Goes, Ends
<1>5. CASE two /\ r = write_dns([s EXCEPT !.entry[l] = b], c)
  <2>1. e.domains + 1 \in 0 .. Domains /\ dns_retries \in 0 .. dns_retries
    <3>1. e.domains \in 0 .. Domains /\ e.domains < Domains
      BY Zenon, <1>2, <1>5, EntryFields
    <3> HIDE DEF e
    <3>2. QED BY <3>1, Constants
  <2>2. b \in Entry /\ SameLookup(e, b) /\ b.written = e.written
    BY Zenon, <1>2, <2>1 DEF Entry, SameLookup
  <2>3. Goes(s, r)
    BY Zenon, <1>5, <2>2, AgainGoes
  <2>4. QED BY Zenon, <2>3 DEF Goes, Ends
<1>6. CASE three /\ r = write_dns([s EXCEPT !.entry[l] = d], c)
  <2>1. d \in Entry /\ SameLookup(e, d) /\ d.written = e.written
    BY Zenon, <1>2 DEF Entry, SameLookup
  <2>2. Goes(s, r)
    BY Zenon, <1>6, <2>1, AgainGoes
  <2>3. QED BY Zenon, <2>2 DEF Goes, Ends
<1>7. CASE r = Finish(s, l, result, c)
  BY Zenon, <1>7, FinishGood
<1>8. QED BY Zenon, <1>3, <1>4, <1>5, <1>6, <1>7

LEMMA ReceivedGoes ==
  ASSUME NEW s, NEW i \in NS, Good(s)
  PROVE  Goes(s, received_one(s, i))
BY Zenon, ReceivedKeeps, KeepsGoes DEF Good

\* An entry is not out any more.
LEMMA BackKeeps ==
  ASSUME NEW s \in State, NEW l \in Heads(s), NEW n \in Int, n = IF s.entry[l].written THEN s.in_flight - 1 ELSE s.in_flight
  PROVE  LET t == [s EXCEPT !.entry[l] = [@ EXCEPT !.written = FALSE], !.in_flight = n] IN
         Keeps(s, t) /\ ~t.entry[l].written /\ t.entry[l].name = s.entry[l].name
<1> DEFINE e == [s.entry[l] EXCEPT !.written = FALSE]
           t == [s EXCEPT !.entry[l] = e, !.in_flight = n]
<1>1. l \in Lookups
  BY Zenon, HeadsAre
<1>2. s.entry[l] \in Entry /\ s.entry \in [Lookups -> Entry]
  BY Zenon, <1>1, Fields
<1>3. s.entry[l].written \in BOOLEAN
  BY Zenon, <1>2, EntryFields
<1>4. e \in Entry /\ SameLookup(s.entry[l], e) /\ e.written = FALSE
  BY Zenon, <1>2 DEF Entry, SameLookup
<1>5. t = [s EXCEPT !.entry[l] = [@ EXCEPT !.written = FALSE], !.in_flight = n]
  BY Zenon DEF State
<1> HIDE DEF e
<1>6. /\ t \in State /\ t.entries = s.entries /\ t.entry = [s.entry EXCEPT ![l] = e] /\ t.in_flight = n
      /\ t.txn_lookup_timeout = s.txn_lookup_timeout
  BY Zenon, <1>4 DEF State
<1> HIDE DEF t
<1>7. t.entry[l] = e /\ \A k \in Lookups : k # l => t.entry[k] = s.entry[k]
  BY Zenon, <1>1, <1>2, <1>6
<1>8. WrittenIn(t) = WrittenIn(s) \ {l} /\ (l \in WrittenIn(s) <=> s.entry[l].written) /\ WrittenIn(s) \in SUBSET Lookups
  <2>1. ~t.entry[l].written
    BY Zenon, <1>4, <1>7
  <2>2. ASSUME NEW k
        PROVE  k \in WrittenIn(t) <=> k \in WrittenIn(s) \ {l}
    <3>1. CASE k = l
      BY Zenon, <2>1, <3>1 DEF WrittenIn
    <3>2. CASE k # l
      <4>1. k \in Lookups => t.entry[k] = s.entry[k]
        BY Zenon, <1>7, <3>2
      <4>2. QED BY Zenon, <3>2, <4>1 DEF WrittenIn
    <3>3. QED BY Zenon, <3>1, <3>2
  <2>3. WrittenIn(t) = WrittenIn(s) \ {l}
    BY Zenon, <2>2
  <2>4. QED BY Zenon, <1>1, <2>3 DEF WrittenIn
<1>9. s.entry[l].written => Cardinality(WrittenIn(t)) = Cardinality(WrittenIn(s)) - 1
  <2>1. IsFiniteSet(WrittenIn(s))
    BY Zenon, <1>8, LookupSets
  <2>2. Cardinality(WrittenIn(s) \ {l}) = IF l \in WrittenIn(s) THEN Cardinality(WrittenIn(s)) - 1 ELSE Cardinality(WrittenIn(s))
    BY Zenon, <2>1, FS_RemoveElement
  <2>3. QED BY Zenon, <1>8, <2>2
<1>10. Flight(s) => Flight(t)
  <2>1. ~s.entry[l].written => WrittenIn(t) = WrittenIn(s)
    BY Zenon, <1>8
  <2>2. QED BY Zenon, <1>3, <1>6, <1>8, <1>9, <2>1 DEF Flight, Heads
<1>11. Keeps(s, t)
  BY Zenon, <1>4, <1>6, <1>10, KeepsOne
<1>12. QED BY Zenon, <1>4, <1>5, <1>7, <1>11 DEF SameLookup

LEMMA ProcessGoes ==
  ASSUME NEW s, Good(s), NEW l \in Heads(s), s.entry[l].written, NEW m, m.name \in Queried, m.ns \in NS, NEW rcode, NEW c
  PROVE  Goes(s, dns_process(s, l, m, rcode, c))
<1> DEFINE n == s.in_flight - 1
           t == [s EXCEPT !.entry[l] = [@ EXCEPT !.written = FALSE], !.in_flight = n]
           good == rcode = "answer" /\ (dns_validate_qname => m.name = qname(s, l))
           result == IF good THEN m.name ELSE Failed
           retry == rcode = "servfail"
           u == dns_result(t, l, result, retry, c)
<1>1. s \in State /\ l \in Lookups
  BY Zenon, HeadsAre DEF Good
<1>2. Keeps(s, t) /\ ~t.entry[l].written /\ t.entry[l].name = s.entry[l].name
  <2>1. n \in Int
    BY <1>1, Fields
  <2>2. n = IF s.entry[l].written THEN s.in_flight - 1 ELSE s.in_flight
    BY Zenon
  <2> HIDE DEF n
  <2>3. QED BY Zenon, <1>1, <2>1, <2>2, BackKeeps
<1>3. dns_process(s, l, m, rcode, c) = IF rcode # "refused" /\ m.ns = u.name_server THEN received_one(u, m.ns) ELSE u
  BY Zenon DEF dns_process
<1>4. result \in {Failed} \union Queried
  BY Zenon
<1>5. RightFor(s.entry[l].name, result)
  <2>1. s.entry[l].domains \in 0 .. Domains
    BY Zenon, <1>1, Fields, EntryFields
  <2>2. qname(s, l) \in {<<s.entry[l].name, i>> : i \in 0 .. Domains}
    BY Zenon, <2>1 DEF qname
  <2>3. QED BY Zenon, <2>2 DEF RightFor
<1> HIDE DEF t, result, retry
<1>6. Goes(s, t) /\ Good(t) /\ l \in Heads(t)
  BY Zenon, <1>2, KeepsGoes DEF Goes, Keeps, Heads
<1>7. RightFor(t.entry[l].name, result)
  BY Zenon, <1>2, <1>5
<1>8. Ends(t, u, l)
  BY Zenon, <1>4, <1>6, <1>7, ResultGood
<1>9. Goes(t, u) /\ Good(u)
  BY Zenon, <1>2, <1>8 DEF Goes, Ends
<1>10. Goes(s, u)
  BY Zenon, <1>6, <1>9, GoesMore
<1> HIDE DEF u
<1>11. Goes(s, received_one(u, m.ns))
  BY Zenon, <1>9, <1>10, ReceivedGoes, GoesMore
<1>12. QED BY Zenon, <1>3, <1>10, <1>11

LEMMA AnsweredGoes ==
  ASSUME NEW s, Good(s), NEW m \in s.net, NEW rcode, NEW c
  PROVE  Goes(s, Answered(s, m, rcode, c))
<1> DEFINE v == [s EXCEPT !.net = @ \ {m}]
           t == Heard(v, m, rcode)
           at == {i \in DOMAIN t.entries : t.entry[t.entries[i]].once_written /\ m.id \in IdsOf(t.entry[t.entries[i]])}
           l == get_dns(t, m.id)
<1>1. s \in State
  BY Zenon DEF Good
<1>2. m \in [id : Ids \union {None}, name : Queried, ns : NS]
  BY Zenon, <1>1, Fields
<1>3. m.name \in Queried /\ m.ns \in NS
  BY Zenon, <1>2
<1>4. /\ v \in State /\ v.entries = s.entries /\ v.entry = s.entry /\ v.in_flight = s.in_flight
      /\ v.txn_lookup_timeout = s.txn_lookup_timeout
  <2>1. s.net \ {m} \in SUBSET [id : Ids \union {None}, name : Queried, ns : NS]
    BY Zenon, <1>1, Fields
  <2>2. QED BY Zenon, <1>1, <2>1 DEF State
<1>5. Keeps(s, v)
  BY Zenon, <1>4, KeepsEntries
<1>6. Keeps(s, t)
  BY Zenon, <1>3, <1>4, <1>5, HeardKeeps, KeepsMore
<1>7. Goes(s, t) /\ Good(t) /\ t \in State
  BY Zenon, <1>6, KeepsGoes DEF Goes, Keeps
<1>8. Answered(s, m, rcode, c) = IF l # None /\ t.entry[l].written THEN dns_process(t, l, m, rcode, c) ELSE t
  BY Zenon DEF Answered
<1> HIDE DEF t
<1>9. l # None => l \in Heads(t)
  <2>1. DOMAIN t.entries = 1 .. Len(t.entries) /\ \A i \in 1 .. Len(t.entries) : t.entries[i] \in Heads(t)
    BY Zenon, <1>7, HeadsAre
  <2>2. at \in SUBSET Nat
    BY <2>1
  <2>3. at # {} => Min(at) \in DOMAIN t.entries
    BY Zenon, <2>2, MinLeast
  <2>4. l = IF at = {} THEN None ELSE t.entries[Min(at)]
    BY Zenon DEF get_dns
  <2>5. QED BY Zenon, <2>1, <2>3, <2>4
<1> HIDE DEF l
<1>10. l # None /\ t.entry[l].written => Goes(t, dns_process(t, l, m, rcode, c))
  BY ZenonT(30), <1>3, <1>7, <1>9, ProcessGoes
<1>11. QED BY Zenon, <1>7, <1>8, <1>10, GoesMore

LEMMA ReceiveGoes ==
  ASSUME NEW s, Good(s), NEW t \in recv_dns(s)
  PROVE  Goes(s, t)
<1>1. s \in State
  BY Zenon DEF Good
<1>2. CASE t = s
  BY Zenon, <1>1, <1>2, KeepsSelf, KeepsGoes
<1>3. CASE t \in {Answered(s, m, rcode, c) : m \in s.net, rcode \in {"answer", "nxdomain", "servfail", "refused"}, c \in Chances(s)}
  <2>1. PICK m \in s.net, rcode \in {"answer", "nxdomain", "servfail", "refused"}, c \in Chances(s) : t = Answered(s, m, rcode, c)
    BY SMT, <1>3
  <2>2. QED BY Zenon, <2>1, AnsweredGoes
<1>4. CASE t \in {Heard(s, Query(None, None, i), "answer") : i \in IF dns_ns_rr THEN NS ELSE {0}}
  <2>1. PICK i \in IF dns_ns_rr THEN NS ELSE {0} : t = Heard(s, Query(None, None, i), "answer")
    BY Zenon, <1>4
  <2>2. 0 \in NS
    BY Constants
  <2>3. Query(None, None, i).ns = i /\ i \in NS
    BY <2>1, <2>2 DEF Query
  <2>4. Keeps(s, t)
    BY Zenon, <1>1, <2>1, <2>3, HeardKeeps
  <2>5. QED BY Zenon, <2>4, KeepsGoes
<1>5. CASE t \in {Lost(Fault(s), i, c) : i \in Failing(s), c \in Quiet(s)}
  <2>1. PICK i \in NS, c \in Quiet(s) : t = Lost(Fault(s), i, c)
    BY SMT, <1>5 DEF Failing
  <2>2. Keeps(s, Fault(s)) /\ Fault(s) \in State
    BY Zenon, <1>1, FaultKeeps DEF Keeps
  <2>3. Keeps(s, t)
    BY Zenon, <2>1, <2>2, LostKeeps, KeepsMore
  <2>4. QED BY Zenon, <2>3, KeepsGoes
<1>6. QED BY SMT, <1>2, <1>3, <1>4, <1>5 DEF recv_dns
-----------------------------------------------------------------------------
(* The steps *)
Moves(s, t) ==
  /\ Good(t) /\ t.txn_lookup_timeout \in {s.txn_lookup_timeout} \union TxnTimeouts
  /\ Flight(s) /\ ~s.txn_lookup_timeout => Flight(t)

LEMMA WriteGoes ==
  ASSUME NEW s, NEW S, \A u \in S : Goes(s, u), NEW t \in ThenWrite(S)
  PROVE  Moves(s, t)
<1>1. PICK u \in S : \E c : t = write_dns(u, c)
  BY Zenon DEF ThenWrite, Bounded
<1>2. Goes(s, u) /\ Good(u) /\ u \in State
  BY Zenon DEF Goes, Good
<1>3. Goes(u, t)
  BY Zenon, <1>1, <1>2, WriteKeeps, KeepsGoes
<1>4. Goes(s, t)
  BY Zenon, <1>2, <1>3, GoesMore
<1>5. QED BY Zenon, <1>4 DEF Goes, Moves

LEMMA MainMoves ==
  ASSUME Good(dns), mainEvent
  PROVE  Moves(dns, dns')
<1> DEFINE S == UNION {CheckNamed(s, reopen) : s \in Bounded(recv_dns(dns)), reopen \in BOOLEAN}
<1>1. dns' \in ThenWrite(S)
  BY SMT DEF mainEvent, Step, To, Bounded
<1> HIDE DEF S
<1>2. ASSUME NEW s \in Bounded(recv_dns(dns)), NEW reopen \in BOOLEAN, NEW u \in CheckNamed(s, reopen)
      PROVE  Goes(dns, u)
  <2>1. Goes(dns, s) /\ Good(s) /\ s \in State
    BY Zenon, ReceiveGoes DEF Bounded, Goes, Good
  <2>2. Goes(s, u)
    BY Zenon, <2>1, NamedKeeps, KeepsGoes
  <2>3. QED BY Zenon, <2>1, <2>2, GoesMore
<1>3. \A u \in S : Goes(dns, u)
  BY SMT, <1>2 DEF S
<1>4. QED BY Zenon, <1>1, <1>3, WriteGoes

LEMMA RetryMoves ==
  ASSUME Good(dns), RetryEvent
  PROVE  Moves(dns, dns')
<1>1. dns' \in ThenWrite(CheckNamed(dns, TRUE))
  BY Zenon DEF RetryEvent, To, Bounded
<1>2. dns \in State
  BY Zenon DEF Good
<1>3. \A u \in CheckNamed(dns, TRUE) : Goes(dns, u)
  BY Zenon, <1>2, NamedKeeps, KeepsGoes
<1>4. QED BY Zenon, <1>1, <1>3, WriteGoes

\* The timer of an entry is taken away.
LEMMA TimerGood ==
  ASSUME NEW s, Good(s), NEW l \in Lookups, s.entry[l].timeout = "lookup"
  PROVE  LET v == [s EXCEPT !.entry[l] = [@ EXCEPT !.timeout = "none"]] IN
         Goes(s, v) /\ l \in Heads(v) /\ v.entry[l].written = s.entry[l].written /\ v.in_flight = s.in_flight
<1> DEFINE e == [s.entry[l] EXCEPT !.timeout = "none"]
           v == [s EXCEPT !.entry[l] = e]
<1>1. s \in State /\ Together(s) /\ Right(s) /\ \A k \in Lookups : Placed(s, k)
  BY Zenon DEF Good
<1>2. s.entry[l] \in Entry /\ s.entry \in [Lookups -> Entry]
  BY Zenon, <1>1, Fields
<1>3. /\ e \in Entry /\ e.timeout = "none" /\ e.state = s.entry[l].state /\ e.name = s.entry[l].name /\ e.dups = s.entry[l].dups
      /\ e.result = s.entry[l].result /\ e.written = s.entry[l].written
  BY Zenon, <1>2 DEF Entry
<1> HIDE DEF e
<1>4. /\ v \in State /\ v.entry = [s.entry EXCEPT ![l] = e] /\ v.entries = s.entries /\ v.in_flight = s.in_flight
      /\ v.txn_lookup_timeout = s.txn_lookup_timeout
  BY Zenon, <1>1, <1>3 DEF State
<1> HIDE DEF v
<1>5. v.entry[l] = e /\ \A k \in Lookups : k # l => v.entry[k] = s.entry[k]
  BY Zenon, <1>2, <1>4
<1>6. s.entry[l].state = "head" /\ l \in Heads(s) /\ Heads(v) = Heads(s)
  BY Zenon, <1>1, <1>4 DEF Placed, Heads
<1>7. Together(v) /\ Right(v)
  <2>1. AsBefore(s.entry[l], e)
    BY Zenon, <1>3, <1>6 DEF AsBefore
  <2>2. RightFor(e.name, e.result) /\ IsInjective(v.entries)
    BY Zenon, <1>1, <1>3, <1>4 DEF Right, Together
  <2>3. OneChanged(s, v, l, e)
    BY Zenon, <1>1, <1>4, <2>1, <2>2 DEF OneChanged
  <2>4. QED BY Zenon, <2>3, OneEntry
<1>8. ASSUME NEW k \in Lookups
      PROVE  Placed(v, k)
  <2>1. CASE k = l
    BY Zenon, <1>3, <1>5, <1>6, <2>1 DEF Placed
  <2>2. CASE k # l
    BY Zenon, <1>1, <1>5, <1>6, <2>2 DEF Placed
  <2>3. QED BY Zenon, <2>1, <2>2
<1>9. WrittenIn(v) = WrittenIn(s)
  <2>1. \A k \in Lookups : v.entry[k].written = s.entry[k].written
    BY Zenon, <1>3, <1>5
  <2>2. QED BY Zenon, <2>1 DEF WrittenIn
<1>10. Flight(s) => Flight(v)
  BY Zenon, <1>4, <1>6, <1>9 DEF Flight
<1>11. Good(v)
  BY Zenon, <1>4, <1>7, <1>8 DEF Good
<1>12. Goes(s, v)
  BY Zenon, <1>4, <1>10, <1>11 DEF Goes
<1>13. Goes(s, v) /\ l \in Heads(v) /\ v.entry[l].written = s.entry[l].written /\ v.in_flight = s.in_flight
  BY Zenon, <1>3, <1>4, <1>5, <1>6, <1>12
<1>14. QED BY Zenon, <1>13 DEF v, e

LEMMA TimeoutMoves ==
  ASSUME Good(dns), NEW l \in Lookups, Timeout(l)
  PROVE  Moves(dns, dns')
<1> DEFINE e == dns.entry[l]
           f == [dns.entry[l] EXCEPT !.timeout = "none"]
           v == [dns EXCEPT !.entry[l] = f]
           n == IF e.written THEN v.in_flight - 1 ELSE v.in_flight
           t == [v EXCEPT !.entry[l] = [@ EXCEPT !.written = FALSE], !.in_flight = n]
<1>1. e.timeout = "lookup"
  BY Zenon DEF Timeout
<1>2. Goes(dns, v) /\ l \in Heads(v) /\ v.entry[l].written = e.written /\ v.in_flight = dns.in_flight
  BY Zenon, <1>1, TimerGood
<1>3. PICK c : dns' = IF dns.txn_lookup_timeout THEN dns_result(v, l, Failed, FALSE, c) ELSE dns_result(t, l, Failed, TRUE, c)
  BY Zenon DEF Timeout, Step, To, Bounded
<1> HIDE DEF v
<1>4. Good(v) /\ v \in State /\ v.txn_lookup_timeout = dns.txn_lookup_timeout /\ (Flight(dns) => Flight(v))
  BY Zenon, <1>2 DEF Goes, Good
<1>5. Failed \in {Failed} \union Queried /\ \A name : RightFor(name, Failed)
  BY Zenon DEF RightFor
<1>6. CASE dns.txn_lookup_timeout
  <2>1. Ends(v, dns', l)
    BY Zenon, <1>2, <1>3, <1>4, <1>5, <1>6, ResultGood
  <2>2. QED BY Zenon, <1>4, <1>6, <2>1 DEF Ends, Moves
<1>7. CASE ~dns.txn_lookup_timeout
  <2>1. n \in Int /\ n = IF v.entry[l].written THEN v.in_flight - 1 ELSE v.in_flight
    <3>1. v.in_flight \in Int /\ v.in_flight - 1 \in Int
      BY <1>4, Fields
    <3>2. QED BY Zenon, <1>2, <3>1
  <2> HIDE DEF n
  <2>2. Keeps(v, t) /\ ~t.entry[l].written
    BY Zenon, <1>2, <1>4, <2>1, BackKeeps
  <2> HIDE DEF t
  <2>3. Goes(v, t) /\ Good(t) /\ l \in Heads(t)
    BY Zenon, <1>2, <1>4, <2>2, KeepsGoes DEF Goes, Keeps, Heads
  <2>4. Ends(t, dns', l)
    BY Zenon, <1>3, <1>5, <1>7, <2>3, ResultGood
  <2>5. QED BY Zenon, <1>4, <2>2, <2>3, <2>4 DEF Ends, Goes, Moves
<1>8. QED BY Zenon, <1>6, <1>7

LEMMA PostMoves ==
  ASSUME Good(dns), NEW l \in Lookups, NEW busy, PostAgain(l, busy)
  PROVE  Moves(dns, dns')
<1>1. PICK c : dns' = postAllEvent(dns, l, c)
  BY Zenon DEF PostAgain, Step, To, Bounded
<1>2. dns \in State /\ Together(dns) /\ Right(dns) /\ \A k \in Lookups : Placed(dns, k)
  BY Zenon DEF Good
<1>3. dns.entry[l].timeout = "post"
  BY Zenon DEF PostAgain
<1>4. dns.entry[l].state = "post" /\ l \notin Heads(dns)
  BY Zenon, <1>2, <1>3 DEF Placed
<1>5. dns.entry[l].state \in {"head", "post"}
  BY Zenon, <1>4
<1>6. /\ Good(postAllEvent(dns, l, c)) /\ (Flight(dns) => Flight(postAllEvent(dns, l, c)))
      /\ postAllEvent(dns, l, c).txn_lookup_timeout = dns.txn_lookup_timeout
  BY Zenon, <1>2, <1>4, <1>5, PostGood
<1>7. QED BY Zenon, <1>1, <1>6 DEF Moves

\* A step that changes no more of one entry than its state or that it is cancelled
LEMMA ChangeMoves ==
  ASSUME NEW s, Good(s), NEW l \in Lookups, NEW e \in Entry, AsBefore(s.entry[l], e), e.result = s.entry[l].result,
         e.timeout = s.entry[l].timeout, e.written = s.entry[l].written,
         e.state = s.entry[l].state \/ (s.entry[l].state = "posting" /\ e.state = "done")
  PROVE  Moves(s, [s EXCEPT !.entry[l] = e])
<1> DEFINE t == [s EXCEPT !.entry[l] = e]
<1>1. s \in State /\ Together(s) /\ Right(s) /\ \A k \in Lookups : Placed(s, k)
  BY Zenon DEF Good
<1>2. s.entry \in [Lookups -> Entry]
  BY Zenon, <1>1, Fields
<1>3. /\ t \in State /\ t.entry = [s.entry EXCEPT ![l] = e] /\ t.entries = s.entries /\ t.in_flight = s.in_flight
      /\ t.txn_lookup_timeout = s.txn_lookup_timeout
  BY Zenon, <1>1 DEF State
<1> HIDE DEF t
<1>4. t.entry[l] = e /\ \A k \in Lookups : k # l => t.entry[k] = s.entry[k]
  BY Zenon, <1>2, <1>3
<1>5. Together(t) /\ Right(t)
  <2>1. RightFor(e.name, e.result) /\ IsInjective(t.entries)
    BY Zenon, <1>1, <1>3 DEF Right, Together, AsBefore
  <2>2. OneChanged(s, t, l, e)
    BY Zenon, <1>1, <1>3, <2>1 DEF OneChanged
  <2>3. QED BY Zenon, <2>2, OneEntry
<1>6. Heads(t) = Heads(s)
  BY Zenon, <1>3 DEF Heads
<1>7. ASSUME NEW k \in Lookups
      PROVE  Placed(t, k)
  <2>1. Placed(s, k)
    BY Zenon, <1>1
  <2>2. CASE k = l
    BY Zenon, <1>4, <1>6, <2>1, <2>2 DEF Placed
  <2>3. CASE k # l
    BY Zenon, <1>4, <1>6, <2>1, <2>3 DEF Placed
  <2>4. QED BY Zenon, <2>2, <2>3
<1>8. WrittenIn(t) = WrittenIn(s)
  <2>1. \A k \in Lookups : t.entry[k].written = s.entry[k].written
    BY Zenon, <1>4
  <2>2. QED BY Zenon, <2>1 DEF WrittenIn
<1>9. Flight(s) => Flight(t)
  BY Zenon, <1>3, <1>6, <1>8 DEF Flight
<1>10. Good(t)
  BY Zenon, <1>3, <1>5, <1>7 DEF Good
<1>11. Moves(s, t)
  BY Zenon, <1>3, <1>9, <1>10 DEF Moves
<1>12. QED BY Zenon, <1>11 DEF t

LEMMA CalledMoves ==
  ASSUME Good(dns), NEW l \in Lookups, postOneEvent(l)
  PROVE  Moves(dns, dns')
<1> DEFINE e == [dns.entry[l] EXCEPT !.state = "done"]
<1>1. dns' = [dns EXCEPT !.entry[l] = e] /\ dns.entry[l].state = "posting"
  BY Zenon DEF postOneEvent, Step, To, Bounded
<1>2. dns.entry[l] \in Entry
  BY Zenon, Fields DEF Good
<1>3. /\ e \in Entry /\ AsBefore(dns.entry[l], e) /\ e.result = dns.entry[l].result /\ e.timeout = dns.entry[l].timeout
      /\ e.written = dns.entry[l].written /\ e.state = "done"
  BY Zenon, <1>1, <1>2 DEF Entry, AsBefore
<1> HIDE DEF e
<1>4. QED BY Zenon, <1>1, <1>3, ChangeMoves

LEMMA CancelMoves ==
  ASSUME Good(dns), NEW l \in Lookups, Cancel(l)
  PROVE  Moves(dns, dns')
<1> DEFINE e == [dns.entry[l] EXCEPT !.cancelled = TRUE]
<1>1. dns' = [dns EXCEPT !.entry[l] = e] /\ dns.entry[l].state = "head"
  BY Zenon DEF Cancel, Step, To, Bounded
<1>2. dns.entry[l] \in Entry
  BY Zenon, Fields DEF Good
<1>3. /\ e \in Entry /\ AsBefore(dns.entry[l], e) /\ e.result = dns.entry[l].result /\ e.timeout = dns.entry[l].timeout
      /\ e.written = dns.entry[l].written /\ e.state = dns.entry[l].state
  BY Zenon, <1>1, <1>2 DEF Entry, AsBefore
<1> HIDE DEF e
<1>4. QED BY Zenon, <1>1, <1>3, ChangeMoves

\* x may be added to q, a sequence over S without repetition.
Addable(S, q, x) == q \in Seq(S) /\ x \in S /\ IsInjective(q) /\ x \notin Range(q)

\* r, a sequence over S without repetition, holds what q holds and x.
Adds(S, q, x, r) == r \in Seq(S) /\ IsInjective(r) /\ Range(r) = Range(q) \union {x}

LEMMA Appended ==
  ASSUME NEW S, NEW q, NEW x, Addable(S, q, x)
  PROVE  Adds(S, q, x, Append(q, x))
<1> SUFFICES ASSUME q \in Seq(S), x \in S, IsInjective(q), x \notin Range(q)
             PROVE  Append(q, x) \in Seq(S) /\ IsInjective(Append(q, x)) /\ Range(Append(q, x)) = Range(q) \union {x}
  BY Zenon DEF Addable, Adds
<1> DEFINE n == Len(q)
           r == Append(q, x)
<1>1. n \in Nat /\ DOMAIN q = 1 .. n /\ \A j, k \in 1 .. n : q[j] = q[k] => j = k
  BY DEF IsInjective
<1>2. r \in Seq(S) /\ DOMAIN r = 1 .. n + 1 /\ r[n + 1] = x /\ \A j \in 1 .. n : r[j] = q[j]
  OBVIOUS
<1> HIDE DEF r, n
<1>3. \A j \in 1 .. n : q[j] # x
  BY Zenon, <1>1 DEF Range
<1>4. IsInjective(r)
  BY <1>1, <1>2, <1>3 DEF IsInjective
<1>5. ASSUME NEW y
      PROVE  y \in Range(r) <=> y \in Range(q) \union {x}
  <2>1. \A j \in 1 .. n + 1 : j \in 1 .. n \/ j = n + 1
    BY <1>1
  <2>2. n + 1 \in 1 .. n + 1 /\ \A j \in 1 .. n : j \in 1 .. n + 1
    BY <1>1
  <2>3. ASSUME y \in Range(r)
        PROVE  y \in Range(q) \union {x}
    <3>1. PICK j \in 1 .. n + 1 : y = r[j]
      BY Zenon, <1>2, <2>3 DEF Range
    <3>2. QED BY Zenon, <1>1, <1>2, <2>1, <3>1 DEF Range
  <2>4. ASSUME y \in Range(q)
        PROVE  y \in Range(r)
    <3>1. PICK j \in 1 .. n : y = q[j]
      BY Zenon, <1>1, <2>4 DEF Range
    <3>2. QED BY Zenon, <1>2, <2>2, <3>1 DEF Range
  <2>5. x \in Range(r)
    BY Zenon, <1>2, <2>2 DEF Range
  <2>6. QED BY Zenon, <2>3, <2>4, <2>5
<1>6. QED BY Zenon, <1>2, <1>4, <1>5 DEF r

\* A new lookup l is an entry, or waits with the one of W.
Joined(s, t, l, W) ==
  /\ t \in State /\ IsInjective(t.entries) /\ t.in_flight = s.in_flight
  /\ \A x \in Lookups : x \in Heads(t) <=> x \in Heads(s) \/ (x = l /\ W = {})
  /\ W \in SUBSET Heads(s) /\ \A d, k \in W : d = k
  /\ t.entry[l].state = (IF W = {} THEN "head" ELSE "dup") /\ t.entry[l].dups = <<>> /\ t.entry[l].result = None
  /\ t.entry[l].timeout = "none" /\ t.entry[l].written = FALSE
  /\ \A d \in W : s.entry[d].name = t.entry[l].name
  /\ \A k \in Lookups : k # l =>
       /\ t.entry[k].state = s.entry[k].state /\ t.entry[k].name = s.entry[k].name /\ t.entry[k].result = s.entry[k].result
       /\ t.entry[k].timeout = s.entry[k].timeout /\ t.entry[k].written = s.entry[k].written
       /\ IsInjective(t.entry[k].dups) /\ (k \notin W => t.entry[k] = s.entry[k])
       /\ \A x \in Lookups : x \in DupsOf(t, k) <=> x \in DupsOf(s, k) \/ (x = l /\ k \in W)

LEMMA JoinedGood ==
  ASSUME NEW s, Good(s), NEW l \in Lookups, s.entry[l] = Blank, NEW t, NEW W, Joined(s, t, l, W)
  PROVE  Good(t) /\ (Flight(s) => Flight(t))
<1>1. s \in State /\ Together(s) /\ Right(s) /\ \A k \in Lookups : Placed(s, k)
  BY Zenon DEF Good
<1>2. s.entry[l].state = "new" /\ s.entry[l].dups = <<>> /\ s.entry[l].written = FALSE
  BY DEF Blank
<1>3. DupsOf(s, l) = {} /\ DupsOf(t, l) = {} /\ IsInjective(t.entry[l].dups)
  <2>1. Range(<<>>) = {} /\ IsInjective(<<>>)
    BY DEF Range, IsInjective
  <2>2. QED BY Zenon, <1>2, <2>1 DEF DupsOf, Joined
<1>4. l \notin Heads(s) /\ \A k \in Lookups : l \notin DupsOf(s, k)
  <2>1. s.entry[l].state # "head" /\ s.entry[l].state # "dup"
    BY Zenon, <1>2
  <2>2. QED BY Zenon, <1>1, <2>1 DEF Placed, Together
<1>5. W \in SUBSET Heads(s) /\ W \in SUBSET Lookups /\ l \notin W /\ \A d, k \in W : d = k
  BY Zenon, <1>1, <1>4, HeadsAre DEF Joined
<1>6. /\ t.entry[l].state = (IF W = {} THEN "head" ELSE "dup") /\ t.entry[l].result = None
      /\ t.entry[l].timeout = "none" /\ t.entry[l].written = FALSE
      /\ \A d \in W : s.entry[d].name = t.entry[l].name
  BY Zenon DEF Joined
<1>7. \A k \in Lookups : k # l =>
        /\ t.entry[k].state = s.entry[k].state /\ t.entry[k].name = s.entry[k].name /\ t.entry[k].result = s.entry[k].result
        /\ t.entry[k].timeout = s.entry[k].timeout /\ t.entry[k].written = s.entry[k].written
        /\ IsInjective(t.entry[k].dups) /\ (k \notin W => t.entry[k] = s.entry[k])
  BY Zenon DEF Joined
<1>8. \A k, x \in Lookups : x \in DupsOf(t, k) <=> x \in DupsOf(s, k) \/ (x = l /\ k \in W)
  BY Zenon, <1>3, <1>5 DEF Joined
<1>9. \A x \in Lookups : x \in Heads(t) <=> x \in Heads(s) \/ (x = l /\ W = {})
  BY Zenon DEF Joined
<1>10. \A d \in W : s.entry[d].state = "head"
  BY Zenon, <1>1, <1>5 DEF Placed
<1>11. Together(t)
  <2>1. ASSUME NEW k \in Lookups
        PROVE  /\ t.entry[k].state = "dup" <=> \E d \in Lookups : k \in DupsOf(t, d)
               /\ IsInjective(t.entry[k].dups)
               /\ t.entry[k].state = "new" => t.entry[k] = Blank
    <3>1. CASE k = l
      <4>1. \A d \in Lookups : k \in DupsOf(t, d) <=> d \in W
        BY Zenon, <1>4, <1>8, <3>1
      <4>2. (\E d \in Lookups : k \in DupsOf(t, d)) <=> W # {}
        BY Zenon, <1>5, <4>1
      <4>3. CASE W = {}
        BY Zenon, <1>3, <1>6, <3>1, <4>2, <4>3
      <4>4. CASE W # {}
        BY Zenon, <1>3, <1>6, <3>1, <4>2, <4>4
      <4>5. QED BY Zenon, <4>3, <4>4
    <3>2. CASE k # l
      <4>1. /\ s.entry[k].state = "dup" <=> \E d \in Lookups : k \in DupsOf(s, d)
            /\ s.entry[k].state = "new" => s.entry[k] = Blank
        BY Zenon, <1>1 DEF Together
      <4>2. \A d \in Lookups : k \in DupsOf(t, d) <=> k \in DupsOf(s, d)
        BY Zenon, <1>8, <3>2
      <4>3. s.entry[k].state = "new" => k \notin W
        BY Zenon, <1>10
      <4>4. t.entry[k].state = s.entry[k].state /\ IsInjective(t.entry[k].dups) /\ (k \notin W => t.entry[k] = s.entry[k])
        BY Zenon, <1>7, <3>2
      <4>5. QED BY Zenon, <4>1, <4>2, <4>3, <4>4
    <3>3. QED BY Zenon, <3>1, <3>2
  <2>2. ASSUME NEW k \in Lookups, NEW d \in Lookups, k \in DupsOf(t, d)
        PROVE  /\ t.entry[d].state \in {"head", "post"} /\ t.entry[d].name = t.entry[k].name
               /\ \A j \in Lookups : k \in DupsOf(t, j) => j = d
    <3>1. d # l
      BY Zenon, <1>3, <2>2
    <3>2. t.entry[d].state = s.entry[d].state /\ t.entry[d].name = s.entry[d].name
      BY Zenon, <1>7, <3>1
    <3>3. CASE k = l
      <4>1. \A j \in Lookups : k \in DupsOf(t, j) => j \in W
        BY Zenon, <1>4, <1>8, <3>3
      <4>2. d \in W
        BY Zenon, <2>2, <4>1
      <4>3. QED BY Zenon, <1>5, <1>6, <1>10, <3>2, <3>3, <4>1, <4>2
    <3>4. CASE k # l
      <4>1. \A j \in Lookups : k \in DupsOf(t, j) <=> k \in DupsOf(s, j)
        BY Zenon, <1>8, <3>4
      <4>2. k \in DupsOf(s, d)
        BY Zenon, <2>2, <4>1
      <4>3. /\ s.entry[d].state \in {"head", "post"} /\ s.entry[d].name = s.entry[k].name
            /\ \A j \in Lookups : k \in DupsOf(s, j) => j = d
        BY Zenon, <1>1, <4>2 DEF Together
      <4>4. t.entry[k].name = s.entry[k].name
        BY Zenon, <1>7, <3>4
      <4>5. QED BY Zenon, <3>2, <4>1, <4>3, <4>4
    <3>5. QED BY Zenon, <3>3, <3>4
  <2>3. IsInjective(t.entries)
    BY Zenon DEF Joined
  <2>4. QED BY Zenon, <2>1, <2>2, <2>3 DEF Together
<1>12. Right(t)
  <2>1. \A name : RightFor(name, None)
    BY Zenon DEF RightFor
  <2>2. QED BY Zenon, <1>1, <1>6, <1>7, <2>1 DEF Right
<1>13. ASSUME NEW k \in Lookups
       PROVE  Placed(t, k)
  <2>1. CASE k = l
    <3>1. CASE W = {}
      BY Zenon, <1>6, <1>9, <2>1, <3>1 DEF Placed
    <3>2. CASE W # {}
      BY Zenon, <1>4, <1>6, <1>9, <2>1, <3>2 DEF Placed
    <3>3. QED BY Zenon, <3>1, <3>2
  <2>2. CASE k # l
    <3>1. /\ Placed(s, k) /\ (k \in Heads(t) <=> k \in Heads(s))
          /\ t.entry[k].state = s.entry[k].state /\ t.entry[k].timeout = s.entry[k].timeout
      BY Zenon, <1>1, <1>7, <1>9, <2>2
    <3>2. QED BY Zenon, <3>1 DEF Placed
  <2>3. QED BY Zenon, <2>1, <2>2
<1>14. t \in State /\ t.in_flight = s.in_flight
  BY Zenon DEF Joined
<1>15. WrittenIn(t) = WrittenIn(s)
  <2>1. \A k \in Lookups : t.entry[k].written = s.entry[k].written
    BY Zenon, <1>2, <1>6, <1>7
  <2>2. QED BY Zenon, <2>1 DEF WrittenIn
<1>16. ASSUME Flight(s)
       PROVE  Flight(t)
  <2>1. WrittenIn(s) \subseteq Heads(t)
    <3>1. WrittenIn(s) \subseteq Lookups /\ WrittenIn(s) \subseteq Heads(s)
      BY Zenon, <1>16 DEF WrittenIn, Flight
    <3>2. QED BY Zenon, <1>9, <3>1
  <2>2. QED BY Zenon, <1>14, <1>15, <1>16, <2>1 DEF Flight
<1>17. QED BY Zenon, <1>11, <1>12, <1>13, <1>14, <1>16 DEF Good

LEMMA GetMoves ==
  ASSUME Good(dns), NEW l \in Lookups, NEW name \in Names(l), NEW txn \in TxnTimeouts, getby(l, name, txn)
  PROVE  Moves(dns, dns')
<1> DEFINE d0 == IF Domains > 0 /\ name \in Dotless THEN 1 ELSE 0
           new == [Blank EXCEPT !.name = name, !.domains = d0]
           same == {d \in Heads(dns) : qname(dns, d) = <<new.name, new.domains>>}
           head == CHOOSE d \in same : TRUE
           dup == [new EXCEPT !.state = "dup"]
           first == [new EXCEPT !.state = "head", !.retries = dns_retries]
           own == IF same # {} THEN dup ELSE first
           s == [dns EXCEPT !.txn_lookup_timeout = txn, !.entry[l] = own]
           more == Append(dns.entry[head].dups, l)
           h == [dns.entry[head] EXCEPT !.dups = more]
           with == [s EXCEPT !.entry[head] = h]
           alone == [s EXCEPT !.entries = Append(@, l)]
<1>1. dns \in State /\ Together(dns) /\ Right(dns) /\ \A k \in Lookups : Placed(dns, k)
  BY Zenon DEF Good
<1>2. dns' = IF same # {} THEN with ELSE alone
  BY Zenon DEF getby, Step, To, Bounded, Heads
<1>3. dns.entry[l].state = "new" /\ dns.entry[l] = Blank
  <2>1. l \in 1 .. l
    BY Constants
  <2>2. dns.entry[l].state = "new"
    BY Zenon, <2>1 DEF getby
  <2>3. QED BY Zenon, <1>1, <2>2 DEF Together
<1>4. l \notin Heads(dns) /\ \A k \in Lookups : l \notin DupsOf(dns, k)
  <2>1. dns.entry[l].state # "head" /\ dns.entry[l].state # "dup"
    BY Zenon, <1>3
  <2>2. QED BY Zenon, <1>1, <2>1 DEF Placed, Together
<1>5. name \in Asked /\ d0 \in 0 .. Domains /\ dns_retries \in 0 .. dns_retries
  <2>1. name \in Asked
    BY Zenon DEF Asked
  <2>2. d0 \in 0 .. Domains /\ dns_retries \in 0 .. dns_retries
    BY Constants
  <2>3. QED BY Zenon, <2>1, <2>2
<1> HIDE DEF d0
<1>6. Blank.dups = <<>> /\ Blank.timeout = "none" /\ Blank.written = FALSE /\ Blank.result = None
  BY DEF Blank
<1>7. /\ new \in Entry /\ new.name = name /\ new.domains = d0 /\ new.dups = Blank.dups /\ new.timeout = Blank.timeout
      /\ new.written = Blank.written /\ new.result = Blank.result
  BY Zenon, <1>5, BlankIs DEF Entry
<1> HIDE DEF new
<1>8. /\ dup \in Entry /\ dup.state = "dup" /\ dup.name = name /\ dup.dups = <<>> /\ dup.timeout = "none"
      /\ dup.written = FALSE /\ dup.result = None
  BY Zenon, <1>6, <1>7 DEF Entry
<1>9. /\ first \in Entry /\ first.state = "head" /\ first.name = name /\ first.dups = <<>> /\ first.timeout = "none"
      /\ first.written = FALSE /\ first.result = None
  BY Zenon, <1>5, <1>6, <1>7 DEF Entry
<1> HIDE DEF dup, first
<1>10. /\ s \in State /\ s.entry = [dns.entry EXCEPT ![l] = own] /\ s.entries = dns.entries /\ s.in_flight = dns.in_flight /\ s.txn_lookup_timeout = txn
  <2>1. txn \in BOOLEAN
    BY Zenon, DNSAssumption
  <2>2. own \in Entry
    BY Zenon, <1>8, <1>9
  <2> HIDE DEF own
  <2>3. QED BY Zenon, <1>1, <2>1, <2>2 DEF State
<1> HIDE DEF s
<1>11. dns.entry \in [Lookups -> Entry] /\ dns.entries \in Seq(Lookups)
  BY Zenon, <1>1, Fields
<1>12. CASE same = {}
  <2> DEFINE q == Append(s.entries, l)
  <2>1. q \in Seq(Lookups) /\ IsInjective(q) /\ Range(q) = Heads(dns) \union {l}
    <3>1. Addable(Lookups, dns.entries, l)
      BY Zenon, <1>1, <1>4, <1>11 DEF Together, Heads, Addable
    <3>2. Adds(Lookups, dns.entries, l, Append(dns.entries, l))
      BY Zenon, <3>1, Appended
    <3>3. QED BY Zenon, <1>10, <3>2 DEF Heads, Adds
  <2> HIDE DEF q
  <2>2. alone = [s EXCEPT !.entries = q] /\ own = first
    BY Zenon, <1>12 DEF q
  <2> HIDE DEF own
  <2>3. /\ alone \in State /\ alone.entries = q /\ alone.entry = [dns.entry EXCEPT ![l] = first]
        /\ alone.in_flight = dns.in_flight /\ alone.txn_lookup_timeout = txn
    BY Zenon, <1>10, <2>1, <2>2 DEF State
  <2> HIDE DEF alone
  <2>4. alone.entry[l] = first /\ \A k \in Lookups : k # l => alone.entry[k] = dns.entry[k]
    BY Zenon, <1>11, <2>3
  <2>5. Heads(alone) = Heads(dns) \union {l}
    BY Zenon, <2>1, <2>3 DEF Heads
  <2>6. Joined(dns, alone, l, {})
    <3>1. \A x \in Lookups : x \in Heads(alone) <=> x \in Heads(dns) \/ (x = l /\ {} = {})
      BY Zenon, <2>5
    <3>2. ASSUME NEW k \in Lookups, k # l
          PROVE  /\ alone.entry[k].state = dns.entry[k].state /\ alone.entry[k].name = dns.entry[k].name
                 /\ alone.entry[k].result = dns.entry[k].result
                 /\ alone.entry[k].timeout = dns.entry[k].timeout /\ alone.entry[k].written = dns.entry[k].written
                 /\ IsInjective(alone.entry[k].dups) /\ (k \notin {} => alone.entry[k] = dns.entry[k])
                 /\ \A x \in Lookups : x \in DupsOf(alone, k) <=> x \in DupsOf(dns, k) \/ (x = l /\ k \in {})
      <4>1. alone.entry[k] = dns.entry[k] /\ IsInjective(dns.entry[k].dups)
        BY Zenon, <1>1, <2>4, <3>2 DEF Together
      <4>2. DupsOf(alone, k) = DupsOf(dns, k)
        BY Zenon, <4>1 DEF DupsOf
      <4>3. QED BY Zenon, <4>1, <4>2
    <3>3. /\ alone \in State /\ IsInjective(alone.entries) /\ alone.in_flight = dns.in_flight
          /\ {} \in SUBSET Heads(dns) /\ \A d, k \in {} : d = k
      BY Zenon, <2>1, <2>3
    <3>4. /\ alone.entry[l].state = (IF {} = {} THEN "head" ELSE "dup") /\ alone.entry[l].dups = <<>>
          /\ alone.entry[l].result = None /\ alone.entry[l].timeout = "none" /\ alone.entry[l].written = FALSE
          /\ \A d \in {} : dns.entry[d].name = alone.entry[l].name
      BY Zenon, <1>9, <2>4
    <3>5. QED BY Zenon, <3>1, <3>2, <3>3, <3>4 DEF Joined
  <2>7. Good(alone) /\ (Flight(dns) => Flight(alone))
    BY Zenon, <1>3, <2>6, JoinedGood
  <2>8. dns' = alone
    BY Zenon, <1>2, <1>12
  <2>9. QED BY Zenon, <2>3, <2>7, <2>8 DEF Moves
<1>13. CASE same # {}
  <2>1. head \in Heads(dns) /\ qname(dns, head) = <<new.name, new.domains>>
    BY Zenon, <1>13
  <2>2. head \in Lookups /\ head # l /\ dns.entry[head].name = name
    <3>1. head \in Lookups /\ head # l
      BY Zenon, <1>1, <1>4, <2>1, HeadsAre
    <3>2. qname(dns, head)[1] = new.name
      BY <2>1
    <3>3. qname(dns, head)[1] = dns.entry[head].name
      BY DEF qname
    <3>4. QED BY Zenon, <1>7, <3>1, <3>2, <3>3
  <2>3. dns' = with
    BY Zenon, <1>2, <1>13
  <2> HIDE DEF head, same
  <2>4. dns.entry[head] \in Entry /\ dns.entry[head].dups \in Seq(Lookups)
    BY Zenon, <1>1, <2>2, Fields, EntryFields
  <2>5. more \in Seq(Lookups) /\ IsInjective(more) /\ Range(more) = DupsOf(dns, head) \union {l}
    <3>1. IsInjective(dns.entry[head].dups) /\ l \notin Range(dns.entry[head].dups)
      BY Zenon, <1>1, <1>4, <2>2 DEF Together, DupsOf
    <3> DEFINE dups == dns.entry[head].dups
    <3>2. Addable(Lookups, dups, l)
      BY Zenon, <2>4, <3>1 DEF Addable
    <3> HIDE DEF dups
    <3>3. Adds(Lookups, dups, l, Append(dups, l))
      BY Zenon, <3>2, Appended
    <3>4. QED BY Zenon, <3>3 DEF DupsOf, dups, Adds
  <2> HIDE DEF more
  <2> DEFINE f == [dns.entry EXCEPT ![l] = dup]
  <2>6. f \in [Lookups -> Entry] /\ f[l] = dup /\ \A k \in Lookups : k # l => f[k] = dns.entry[k]
    BY Zenon, <1>8, <1>11
  <2>7. /\ h \in Entry /\ h.dups = more /\ h.state = dns.entry[head].state /\ h.name = dns.entry[head].name
        /\ h.result = dns.entry[head].result /\ h.timeout = dns.entry[head].timeout /\ h.written = dns.entry[head].written
    BY Zenon, <2>4, <2>5 DEF Entry
  <2> HIDE DEF h
  <2> DEFINE g == [f EXCEPT ![head] = h]
  <2>8. own = dup
    BY Zenon, <1>13
  <2>9. s.entry = f
    BY Zenon, <1>10, <2>8
  <2> HIDE DEF own, f
  <2>10. /\ with \in State /\ with.entries = dns.entries /\ with.entry = g
         /\ with.in_flight = dns.in_flight /\ with.txn_lookup_timeout = txn
    BY Zenon, <1>10, <2>7, <2>9 DEF State
  <2> HIDE DEF g
  <2> HIDE DEF with
  <2>11. with.entry[head] = h /\ with.entry[l] = dup /\ \A k \in Lookups : k # l /\ k # head => with.entry[k] = dns.entry[k]
    BY Zenon, <2>2, <2>6, <2>10 DEF g
  <2>12. Joined(dns, with, l, {head})
    <3>1. \A x \in Lookups : x \in Heads(with) <=> x \in Heads(dns) \/ (x = l /\ {head} = {})
      BY Zenon, <2>10 DEF Heads
    <3>2. ASSUME NEW k \in Lookups, k # l
          PROVE  /\ with.entry[k].state = dns.entry[k].state /\ with.entry[k].name = dns.entry[k].name
                 /\ with.entry[k].result = dns.entry[k].result
                 /\ with.entry[k].timeout = dns.entry[k].timeout /\ with.entry[k].written = dns.entry[k].written
                 /\ IsInjective(with.entry[k].dups) /\ (k \notin {head} => with.entry[k] = dns.entry[k])
                 /\ \A x \in Lookups : x \in DupsOf(with, k) <=> x \in DupsOf(dns, k) \/ (x = l /\ k \in {head})
      <4>1. CASE k = head
        <5>1. DupsOf(with, k) = DupsOf(dns, k) \union {l}
          BY Zenon, <2>5, <2>7, <2>11, <4>1 DEF DupsOf
        <5>2. QED BY Zenon, <2>5, <2>7, <2>11, <4>1, <5>1
      <4>2. CASE k # head
        <5>1. with.entry[k] = dns.entry[k] /\ IsInjective(dns.entry[k].dups)
          BY Zenon, <1>1, <2>11, <3>2, <4>2 DEF Together
        <5>2. DupsOf(with, k) = DupsOf(dns, k)
          BY Zenon, <5>1 DEF DupsOf
        <5>3. QED BY Zenon, <4>2, <5>1, <5>2
      <4>3. QED BY Zenon, <4>1, <4>2
    <3>3. IsInjective(with.entries)
      BY Zenon, <1>1, <2>10 DEF Together
    <3>4. QED BY Zenon, <1>8, <2>1, <2>2, <2>10, <2>11, <3>1, <3>2, <3>3 DEF Joined
  <2>13. Good(with) /\ (Flight(dns) => Flight(with))
    BY Zenon, <1>3, <2>12, JoinedGood
  <2>14. QED BY Zenon, <2>3, <2>10, <2>13 DEF Moves
<1>14. QED BY Zenon, <1>12, <1>13
-----------------------------------------------------------------------------
(* The invariant *)
LookupsInv == dns_ns_rr \in BOOLEAN /\ Good(dns)

LEMMA InitInv ==
  ASSUME Init
  PROVE  LookupsInv /\ Flight(dns) /\ dns.txn_lookup_timeout = FALSE
<1>1. /\ dns.entries = <<>> /\ dns.entry = [l \in Lookups |-> Blank] /\ dns.in_flight = 0 /\ dns.txn_lookup_timeout = FALSE
      /\ dns_ns_rr \in BOOLEAN
  BY DNSAssumption DEF Init
<1>2. dns \in State
  <2> DEFINE down == [i \in NS |-> ~dns_ns_rr /\ i # 0]
             fails == [i \in NS |-> 0]
             blanks == [l \in Lookups |-> Blank]
  <2>1. down \in [NS -> BOOLEAN] /\ blanks \in [Lookups -> Entry]
    BY Zenon, BlankIs
  <2>2. fails \in [NS -> 0 .. dns_failover_number]
    BY Constants
  <2>3. <<>> \in Seq(Lookups) /\ 0 \in Int /\ 0 \in NS /\ 0 \in Nat
    BY Constants
  <2>4. dns = [entries |-> <<>>, entry |-> blanks, in_flight |-> 0, name_server |-> 0, ns_down |-> down,
               failover_number |-> fails, txn_lookup_timeout |-> FALSE, qid_in_flight |-> {}, net |-> {}, faults |-> 0]
    BY Zenon DEF Init
  <2> HIDE DEF down, fails, blanks
  <2>5. QED BY <2>1, <2>2, <2>3, <2>4 DEF State
<1>3. \A l \in Lookups : dns.entry[l] = Blank
  BY Zenon, <1>1
<1>4. /\ Blank.state = "new" /\ Blank.dups = <<>> /\ Blank.timeout = "none" /\ Blank.written = FALSE /\ Blank.result = None
  BY DEF Blank
<1>5. Range(<<>>) = {} /\ IsInjective(<<>>)
  BY DEF Range, IsInjective
<1>6. Heads(dns) = {} /\ \A l \in Lookups : DupsOf(dns, l) = {}
  BY Zenon, <1>1, <1>3, <1>4, <1>5 DEF Heads, DupsOf
<1>7. Together(dns)
  <2>1. ASSUME NEW l \in Lookups
        PROVE  /\ dns.entry[l].state = "dup" <=> \E d \in Lookups : l \in DupsOf(dns, d)
               /\ IsInjective(dns.entry[l].dups)
               /\ dns.entry[l].state = "new" => dns.entry[l] = Blank
    <3>1. dns.entry[l].state # "dup" /\ IsInjective(dns.entry[l].dups)
      BY Zenon, <1>3, <1>4, <1>5
    <3>2. QED BY Zenon, <1>3, <1>6, <3>1
  <2>2. QED BY Zenon, <1>1, <1>5, <1>6, <2>1 DEF Together
<1>8. Right(dns)
  <2>1. \A name : RightFor(name, None)
    BY Zenon DEF RightFor
  <2>2. QED BY Zenon, <1>3, <1>4, <2>1 DEF Right
<1>9. ASSUME NEW l \in Lookups
      PROVE  Placed(dns, l)
  <2>1. dns.entry[l].state = "new" /\ dns.entry[l].timeout = "none"
    BY Zenon, <1>3, <1>4
  <2>2. QED BY Zenon, <1>6, <2>1 DEF Placed
<1>10. WrittenIn(dns) = {}
  BY Zenon, <1>3, <1>4 DEF WrittenIn
<1>11. Flight(dns)
  BY Zenon, <1>1, <1>10, FS_EmptySet DEF Flight
<1>12. QED BY ZenonT(30), <1>1, <1>2, <1>7, <1>8, <1>9, <1>11 DEF LookupsInv, Good

LEMMA NextMoves ==
  ASSUME LookupsInv, [Next]_vars
  PROVE  dns_ns_rr' = dns_ns_rr /\ Moves(dns, dns')
<1>1. Good(dns)
  BY Zenon DEF LookupsInv
<1>2. CASE UNCHANGED vars
  <2>1. dns' = dns /\ dns_ns_rr' = dns_ns_rr
    BY <1>2 DEF vars
  <2>2. Moves(dns, dns)
    BY Zenon, <1>1 DEF Moves
  <2>3. QED BY Zenon, <2>1, <2>2
<1>3. CASE mainEvent
  <2>1. dns_ns_rr' = dns_ns_rr
    BY <1>3 DEF mainEvent, Step, To
  <2>2. QED BY Zenon, <1>1, <1>3, <2>1, MainMoves
<1>4. CASE RetryEvent
  BY Zenon, <1>1, <1>4, RetryMoves DEF RetryEvent, To
<1>5. ASSUME NEW l \in Lookups, NEW name \in Names(l), NEW txn \in TxnTimeouts, getby(l, name, txn)
      PROVE  dns_ns_rr' = dns_ns_rr /\ Moves(dns, dns')
  <2>1. dns_ns_rr' = dns_ns_rr
    BY Zenon, <1>5 DEF getby, Step, To
  <2>2. QED BY Zenon, <1>1, <1>5, <2>1, GetMoves
<1>6. ASSUME NEW l \in Lookups, Timeout(l) \/ postOneEvent(l) \/ Cancel(l) \/ \E busy \in SUBSET Local : PostAgain(l, busy)
      PROVE  dns_ns_rr' = dns_ns_rr /\ Moves(dns, dns')
  <2>1. CASE Timeout(l)
    BY Zenon, <1>1, <2>1, TimeoutMoves DEF Timeout, Step, To
  <2>2. CASE postOneEvent(l)
    BY Zenon, <1>1, <2>2, CalledMoves DEF postOneEvent, Step, To
  <2>3. CASE Cancel(l)
    BY Zenon, <1>1, <2>3, CancelMoves DEF Cancel, Step, To
  <2>4. ASSUME NEW busy \in SUBSET Local, PostAgain(l, busy)
        PROVE  dns_ns_rr' = dns_ns_rr /\ Moves(dns, dns')
    <3>1. dns_ns_rr' = dns_ns_rr
      BY Zenon, <2>4 DEF PostAgain, Step, To
    <3>2. QED BY Zenon, <1>1, <2>4, <3>1, PostMoves
  <2>5. QED BY Zenon, <1>6, <2>1, <2>2, <2>3, <2>4
<1>7. QED BY Zenon, <1>2, <1>3, <1>4, <1>5, <1>6 DEF Next

\* Who waits with whom, what a lookup is given and when it has a timer: the invariant that
\* getby, dns_result and postAllEvent keep, whatever is sent to whichever server between them.
THEOREM LookupsTogether == Spec => []LookupsInv
<1>1. Init => LookupsInv
  BY Zenon, InitInv
<1>2. LookupsInv /\ [Next]_vars => LookupsInv'
  <2>1. SUFFICES ASSUME LookupsInv, [Next]_vars
                 PROVE  LookupsInv'
    OBVIOUS
  <2>2. dns_ns_rr' = dns_ns_rr /\ Good(dns')
    BY Zenon, <2>1, NextMoves DEF Moves
  <2>3. Good(dns)'
    BY Zenon, <2>2 DEF Good, Together, Right, RightFor, Placed, Heads, DupsOf
  <2>4. QED BY Zenon, <2>1, <2>2, <2>3 DEF LookupsInv
<1>3. QED BY <1>1, <1>2, PTL DEF Spec

\* getby puts equal lookups together and postAllEvent gives the result out in parts, in any
\* order of timeouts, answers, failures of servers and taken mutexes: no lookup is lost or
\* answered twice, and a timer is only left for one that waits.
THEOREM LookupsAreAccounted == Spec => []Accounted
<1>1. LookupsInv => Accounted
  <2> SUFFICES ASSUME LookupsInv
               PROVE  Accounted
    OBVIOUS
  <2>1. dns \in State /\ Together(dns) /\ \A l \in Lookups : Placed(dns, l)
    BY Zenon DEF LookupsInv, Good
  <2>2. TypeOK /\ IsInjective(dns.entries)
    BY Zenon, <2>1 DEF LookupsInv, TypeOK, Together
  <2>3. ASSUME NEW l \in Lookups
        PROVE  LET e == dns.entry[l]
                   with == {d \in Lookups : l \in Range(dns.entry[d].dups)} IN
               /\ e.state = "head" <=> l \in Range(dns.entries)
               /\ e.state = "dup" <=> with # {}
               /\ \A d \in with : with = {d} /\ dns.entry[d].state \in {"head", "post"} /\ dns.entry[d].name = e.name
               /\ IsInjective(e.dups)
               /\ e.timeout = "lookup" => e.state = "head"
               /\ e.timeout = "post" <=> e.state = "post"
    <3> DEFINE e == dns.entry[l]
               with == {d \in Lookups : l \in Range(dns.entry[d].dups)}
    <3>1. /\ e.state = "head" <=> l \in Range(dns.entries)
          /\ e.timeout = "lookup" => e.state = "head"
          /\ e.timeout = "post" <=> e.state = "post"
      BY Zenon, <2>1 DEF Placed, Heads
    <3>2. (e.state = "dup" <=> with # {}) /\ IsInjective(e.dups)
      BY Zenon, <2>1 DEF Together, DupsOf
    <3>3. ASSUME NEW d \in with
          PROVE  with = {d} /\ dns.entry[d].state \in {"head", "post"} /\ dns.entry[d].name = e.name
      <4>1. d \in Lookups /\ l \in DupsOf(dns, d)
        BY Zenon DEF DupsOf
      <4>2. /\ dns.entry[d].state \in {"head", "post"} /\ dns.entry[d].name = dns.entry[l].name
            /\ \A k \in Lookups : l \in DupsOf(dns, k) => k = d
        BY Zenon, <2>1, <4>1 DEF Together
      <4>3. \A k \in with : k = d
        BY Zenon, <4>2 DEF DupsOf
      <4> HIDE DEF with
      <4>4. QED BY Zenon, <4>2, <4>3
    <3> HIDE DEF e, with
    <3>4. \A d \in with : with = {d} /\ dns.entry[d].state \in {"head", "post"} /\ dns.entry[d].name = e.name
      BY Zenon, <3>3
    <3>5. QED BY Zenon, <3>1, <3>2, <3>4 DEF e, with
  <2>4. QED BY Zenon, <2>2, <2>3 DEF Accounted
<1>2. QED BY <1>1, LookupsTogether, PTL

\* dns_process compares the name of an answer with the one that was asked, and postAllEvent
\* only gives it to lookups of that name: none has the answer to another one.
THEOREM AnswersAreRight == Spec => []RightAnswer
<1>1. LookupsInv => RightAnswer
  BY Zenon DEF LookupsInv, Good, Right, RightFor, RightAnswer
<1>2. QED BY <1>1, LookupsTogether, PTL

\* Every place that sets or clears written_flag counts it in in_flight, unless a transaction
\* timeout ends a lookup that is out: without those, and with a primary server, in_flight is
\* exact through timeouts, late answers, failed writes and failovers.
THEOREM InFlightIsExact ==
  ASSUME TxnTimeouts \subseteq {FALSE}
  PROVE  Spec => []InFlightExact
<1> DEFINE Inv == LookupsInv /\ Flight(dns) /\ dns.txn_lookup_timeout = FALSE
<1>1. Init => Inv
  BY Zenon, InitInv
<1>2. Inv /\ [Next]_vars => (Flight(dns) /\ dns.txn_lookup_timeout = FALSE)'
  <2>1. SUFFICES ASSUME Inv, [Next]_vars
                 PROVE  (Flight(dns) /\ dns.txn_lookup_timeout = FALSE)'
    BY Zenon
  <2>2. dns_ns_rr' = dns_ns_rr /\ Flight(dns') /\ dns'.txn_lookup_timeout = FALSE
    BY Zenon, <2>1, NextMoves DEF Moves
  <2>3. QED BY Zenon, <2>2 DEF Flight, WrittenIn, Heads
<1>3. Inv => InFlightExact
  <2>1. SUFFICES ASSUME Inv
                 PROVE  InFlightExact
    BY Zenon
  <2>2. Written = WrittenIn(dns)
    <3>1. \A l \in Lookups : dns.entry[l].written => l \in Heads(dns)
      BY Zenon, <2>1 DEF Flight, WrittenIn
    <3>2. \A l \in Lookups : dns.entry[l].state = "head" <=> l \in Heads(dns)
      BY Zenon, <2>1 DEF LookupsInv, Good, Placed
    <3>3. QED BY Zenon, <3>1, <3>2 DEF Written, WrittenIn
  <2>3. QED BY Zenon, <2>1, <2>2 DEF InFlightExact, Flight
<1>4. QED BY <1>1, <1>2, <1>3, LookupsTogether, PTL DEF Spec
===============================================================================
