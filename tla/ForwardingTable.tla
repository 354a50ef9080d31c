---------------------------- MODULE ForwardingTable ----------------------------
(***************************************************************************)
(* The forwarding table with its entries and their TTL timers             *)
(* (controller/forwarding_table.cpp, controller/forwarding_table_entry.cpp)*)
(*                                                                         *)
(* Entries are named by the RoutingInfo message that created them (1, 2,  *)
(* ... in order).  An entry with a Timeout owns a deadline timer whose     *)
(* completion handler, ForwardingTable::onEntryExpired, carries the        *)
(* session ID only.  Once the timer has expired its success completion is  *)
(* queued in the reactor: a later cancel() -- from a lookup that re-arms   *)
(* the timer, or from the entry's destructor -- no longer stops it.        *)
(* Cancelled completions (operation_aborted) return at once and are left   *)
(* out.  An entry is destroyed when the table and every in-flight lookup   *)
(* have dropped their shared_ptr.                                          *)
(*                                                                         *)
(* The weighted draws of the Splitter and Generic entries are operators   *)
(* over integer weights; rand() ranges over 0..RandMax.                    *)
(***************************************************************************)
EXTENDS Naturals, Sequences, SequencesExt

CONSTANTS
    Sessions,    \* session ids of RoutingInfo messages
    Workers,     \* reactor threads that look the table up (Crossbar::process)
    Kinds,       \* entry shapes the controller sends: "Simple", "Splitter", "Generic"
    Ttls,        \* Timeout values: 0 (no timer) or a positive one
    Hops,        \* the next-hop node ids of the Simple entry
    SplitIn,     \* the Splitter entry: <<[w, hop], ...>> in JSON order
    GenericIn,   \* the Generic entry: a sequence of such sub-arrays
    Garbage,     \* what dereferencing the end() of the weighted map yields
    RandMax,     \* RAND_MAX
    MaxInstalls, \* bound on RoutingInfo messages
    MaxHits      \* bound on lookups

EntryIds == 1..MaxInstalls
NoEntry == 0

VARIABLES
    table,     \* table_[s]: the entry in the slot, or NoEntry
    installs,  \* entries created so far
    ekind,     \* ekind[e]: the shape of entry e
    ettl,      \* ettl[e]: expire_time_ of entry e
    esess,     \* esess[e]: sessionID_ of entry e
    armed,     \* armed[e]: entry e's timer has a wait pending
    fired,     \* fired[e]: success completions of e's timer queued, not run
    hold,      \* hold[w]: the entry lookup w loaded and still holds
    hits,      \* lookups so far
    lastHit,   \* [kind, r, res] of the latest next hop a lookup returned
    erased     \* [entry, by]: deleteOneEntry run by entry by's timer erased entry

vars == <<table, installs, ekind, ettl, esess, armed, fired, hold, hits,
          lastHit, erased>>

-----------------------------------------------------------------------------
(* The weighted entries *)

\* std::multimap<double, nodeID_t, std::greater<double>>::insert: after
\* every element of greater or equal weight.
RECURSIVE InsertDesc(_, _)
InsertDesc(ws, x) ==
    IF ws = <<>> \/ Head(ws).w < x.w THEN <<x>> \o ws
    ELSE <<Head(ws)>> \o InsertDesc(Tail(ws), x)

\* The constructor's loop: each {NextHop, Weight} inserted in JSON order.
WeightedMap(in) == FoldLeft(InsertDesc, <<>>, in)

\* total_weight_ (subtotal_weight): the weights summed in JSON order.
TotalWeight(in) == FoldLeft(LAMBDA acc, x : acc + x.w, 0, in)

\* Fault variant of Pick: the loop stops only at a weight > rd.
RECURSIVE PickStrict(_, _, _)
PickStrict(ws, num, den) ==
    IF ws = <<>> THEN Garbage
    ELSE IF Head(ws).w * den > num THEN Head(ws).hop
    ELSE PickStrict(Tail(ws), num - Head(ws).w * den, den)

\* The selection loop, with rd = num / den: stop at the first weight >= rd,
\* otherwise subtract it and go on; past the last element the iterator is
\* end() and i->second is Garbage.
RECURSIVE Pick(_, _, _)
Pick(ws, num, den) ==
    IF ws = <<>> THEN Garbage
    ELSE IF Head(ws).w * den >= num THEN Head(ws).hop
    ELSE Pick(Tail(ws), num - Head(ws).w * den, den)

\* SimpleForwardingTableEntry::nextHop: the whole set.
SimpleNextHop == Hops

\* SplitterForwardingTableEntry::nextHop: rd = rand() / RAND_MAX * total.
SplitterNextHop(r) ==
    {Pick(WeightedMap(SplitIn), r * TotalWeight(SplitIn), RandMax)}

\* GenericForwardingTableEntry::nextHop: per sub-array,
\* rd = rand() * subtotal -- with no division by RAND_MAX.
GenericNextHop(r) ==
    {Pick(WeightedMap(GenericIn[j]), r * TotalWeight(GenericIn[j]), 1) :
        j \in DOMAIN GenericIn}

NextHop(k, r) ==
    CASE k = "Simple"   -> SimpleNextHop
      [] k = "Splitter" -> SplitterNextHop(r)
      [] k = "Generic"  -> GenericNextHop(r)

-----------------------------------------------------------------------------
(* The table *)

InTable(e) == \E s \in Sessions : table[s] = e
Held(e) == \E w \in Workers : hold[w] = e

\* The timers of entries whose last shared_ptr is gone: ~ForwardingTableEntry
\* cancels the pending wait.
Destroy(dead) == [e \in EntryIds |-> IF e \in dead THEN FALSE ELSE armed[e]]

\* The ForwardingTable and its entry factory; no entry, no timer.
Init ==
    /\ table = [s \in Sessions |-> NoEntry]
    /\ installs = 0
    /\ ekind = [e \in EntryIds |-> "Simple"]
    /\ ettl = [e \in EntryIds |-> 0]
    /\ esess = [e \in EntryIds |-> CHOOSE s \in Sessions : TRUE]
    /\ armed = [e \in EntryIds |-> FALSE]
    /\ fired = [e \in EntryIds |-> 0]
    /\ hold = [w \in Workers |-> NoEntry]
    /\ hits = 0
    /\ lastHit = [kind |-> "none", r |-> 0, res |-> {}]
    /\ erased = {}

\* A RoutingInfo for session s: ForwardingTable::newEntry reads Timeout and
\* the factory builds the entry of the message's shape, whose constructor
\* arms the timer when expire_time > 0; insertEntry then swaps it into the
\* slot (atomic_exchange) or inserts it.  The replaced entry is destroyed
\* unless a lookup still holds it.
Install(s, k, ttl) ==
    LET e == installs + 1
        old == table[s]
    IN
    /\ installs < MaxInstalls
    /\ installs' = e
    /\ ekind' = [ekind EXCEPT ![e] = k]
    /\ ettl' = [ettl EXCEPT ![e] = ttl]
    /\ esess' = [esess EXCEPT ![e] = s]
    /\ table' = [table EXCEPT ![s] = e]
    /\ armed' = [Destroy(IF old # NoEntry /\ ~Held(old) THEN {old} ELSE {})
                    EXCEPT ![e] = ttl > 0]
    /\ UNCHANGED <<fired, hold, hits, lastHit, erased>>

\* ForwardingTable::getNextHop on worker w: under the shared table lock,
\* find the slot and atomic_load the entry.  A miss returns {} at once.
Lookup(w, s) ==
    /\ hold[w] = NoEntry /\ hits < MaxHits
    /\ hits' = hits + 1
    /\ hold' = [hold EXCEPT ![w] = table[s]]
    /\ UNCHANGED <<table, installs, ekind, ettl, esess, armed, fired,
                   lastHit, erased>>

\* Fault variant of EntryGetNextHop: the hit cancels the timer but does
\* not arm it again.
EntryGetNextHopNoRearm(w, r) ==
    LET e == hold[w] IN
    /\ e # NoEntry
    /\ lastHit' = [kind |-> ekind[e], r |-> r, res |-> NextHop(ekind[e], r)]
    /\ hold' = [hold EXCEPT ![w] = NoEntry]
    /\ armed' = [armed EXCEPT ![e] = IF ettl[e] > 0 THEN FALSE ELSE @]
    /\ UNCHANGED <<table, installs, ekind, ettl, esess, fired, hits, erased>>

\* ForwardingTableEntry::getNextHop, after the lock is released: with a
\* Timeout the timer is cancelled and armed again (a completion already
\* queued is not stopped), then nextHop() draws with rand() = r.  The
\* lookup's shared_ptr goes out of scope: an entry no longer in the table
\* is destroyed here.
EntryGetNextHop(w, r) ==
    LET e == hold[w]
        rearmed == [armed EXCEPT ![e] = IF ettl[e] > 0 THEN TRUE ELSE @]
    IN
    /\ e # NoEntry
    /\ lastHit' = [kind |-> ekind[e], r |-> r, res |-> NextHop(ekind[e], r)]
    /\ hold' = [hold EXCEPT ![w] = NoEntry]
    /\ armed' = IF InTable(e) \/ \E v \in Workers \ {w} : hold[v] = e
                THEN rearmed
                ELSE [rearmed EXCEPT ![e] = FALSE]
    /\ UNCHANGED <<table, installs, ekind, ettl, esess, fired, hits, erased>>

\* Entry e's deadline passes: its success completion is queued.
Fire(e) ==
    /\ armed[e]
    /\ armed' = [armed EXCEPT ![e] = FALSE]
    /\ fired' = [fired EXCEPT ![e] = @ + 1]
    /\ UNCHANGED <<table, installs, ekind, ettl, esess, hold, hits, lastHit, erased>>

\* ForwardingTable::onEntryExpired(success, sessionID_ of e): deleteOneEntry
\* erases whatever entry the slot holds now, under the unique lock.
OnEntryExpired(e) ==
    LET s == esess[e]
        gone == table[s]
    IN
    /\ fired[e] > 0
    /\ fired' = [fired EXCEPT ![e] = @ - 1]
    /\ table' = [table EXCEPT ![s] = NoEntry]
    /\ erased' = IF gone # NoEntry THEN erased \cup {[entry |-> gone, by |-> e]}
                 ELSE erased
    /\ armed' = Destroy(IF gone # NoEntry /\ ~Held(gone) THEN {gone} ELSE {})
    /\ UNCHANGED <<installs, ekind, ettl, esess, hold, hits, lastHit>>

\* Every RoutingInfo and lookup has happened and no timer is left.
TableDone ==
    /\ installs = MaxInstalls /\ hits = MaxHits
    /\ \A w \in Workers : hold[w] = NoEntry
    /\ \A e \in EntryIds : ~armed[e] /\ fired[e] = 0
    /\ UNCHANGED vars

Next ==
    \/ \E s \in Sessions, k \in Kinds, t \in Ttls : Install(s, k, t)
    \/ \E w \in Workers :
         \/ \E s \in Sessions : Lookup(w, s)
         \/ \E r \in 0..RandMax : EntryGetNextHop(w, r)
    \/ \E e \in EntryIds : Fire(e) \/ OnEntryExpired(e)
    \/ TableDone

\* Timers expire, the reactor runs their completions, and a lookup that
\* has loaded an entry finishes.  The controller and the packets are not
\* fair.
Spec ==
    /\ Init /\ [][Next]_vars
    /\ \A e \in EntryIds : WF_vars(Fire(e)) /\ WF_vars(OnEntryExpired(e))
    /\ \A w \in Workers : WF_vars(\E r \in 0..RandMax : EntryGetNextHop(w, r))

-----------------------------------------------------------------------------
(* Properties *)

\* The weighted choice the spec describes (spec.md 4.3): a draw rd in
\* [0, W], laid over the weights in descending order, selects the hop
\* whose interval (sum of the weights before it, that sum plus its own]
\* holds rd (the first hop for rd = 0).
RefChoice(in, num, den) ==
    LET ws == WeightedMap(in)
        upto(i) == TotalWeight(SubSeq(ws, 1, i))
    IN ws[CHOOSE i \in DOMAIN ws :
             /\ upto(i) * den >= num
             /\ \A j \in 1..(i - 1) : upto(j) * den < num].hop

\* Per entry shape, the reference result for rand() = r.
RefNextHop(k, r) ==
    CASE k = "Simple"   -> Hops
      [] k = "Splitter" -> {RefChoice(SplitIn, r * TotalWeight(SplitIn), RandMax)}
      [] k = "Generic"  -> {RefChoice(GenericIn[j], r * TotalWeight(GenericIn[j]), RandMax) :
                               j \in DOMAIN GenericIn}

\* Every next hop a lookup returns is the weighted choice for the value
\* rand() produced: nextHop() never walks off the end of the weighted map.
HitMatchesReference ==
    lastHit.kind # "none" => lastHit.res = RefNextHop(lastHit.kind, lastHit.r)

\* Sliding TTL: an entry with a Timeout that stays in the table is
\* eventually removed once lookups stop re-arming its timer.
EventuallyExpires ==
    \A e \in EntryIds : (InTable(e) /\ ettl[e] > 0) ~> ~InTable(e)

\* spec.md 4.3: an entry is removed only by its own TTL timer or by being
\* replaced -- never by the expiry of the entry it replaced.
RemovedOnlyByOwnTimer == \A x \in erased : x.entry = x.by
====
