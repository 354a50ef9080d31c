------------------------------- MODULE Crossbar -------------------------------
(***************************************************************************)
(* The routing stop (controller/crossbar.cpp) together with the pending     *)
(* packet archive and the forwarding table (controller/forwarding_table.cpp)*)
(* it reads.  Reactor threads run Crossbar::process for arriving minions;   *)
(* the controller's RoutingInfo messages run installForwardingTableEntry,   *)
(* one at a time; entries with a Timeout expire through their timer.        *)
(*                                                                          *)
(* Each step below is one critical section of the code (one acquisition of *)
(* map_lock_ or table_mutex_, one atomic load, store or exchange of a       *)
(* shared_ptr, one MPSCQueue::popAll, one compare_exchange of push).  With Serial = TRUE the reactor has  *)
(* one thread (ThreadPool with hardware_concurrency 1): a handler then runs *)
(* to completion before another one starts.                                 *)
(***************************************************************************)
EXTENDS Integers, Sequences, FiniteSets, SequencesExt, Functions

CONSTANTS
    Workers,      \* reactor threads that carry minions into Crossbar::process
    Minions,      \* the minions that arrive at the crossbar
    Sessions,     \* session ids
    SessionOf,    \* header()->session_id() of each minion's message
    Parent,       \* util::GetParentSessionID: the text before '@', or itself
    Payloadless,  \* minions whose message has no payload
    MaxInstalls,  \* bound on the RoutingInfo messages the controller sends
    Serial        \* TRUE when the reactor runs a single thread

ASSUME SessionOf \in [Minions -> Sessions] /\ Parent \in [Sessions -> Sessions]
ASSUME Payloadless \subseteq Minions /\ MaxInstalls \in Nat /\ Serial \in BOOLEAN

\* Values of the archive map and of local shared_ptr<MPSCQueue> variables:
\* Absent (no map element), NullQ (a null shared_ptr), or a queue id >= 1.
Absent == -1
NullQ == 0
QueueIds == 1..Cardinality(Minions)

\* A forwarding table slot: no entry, an entry with a Timeout, or without.
NoEntry == "NoEntry"
Entries == {"TtlEntry", "StaticEntry"}

NoMinion == "NoMinion"

VARIABLES
    table,     \* ForwardingTable::table_, per session
    archive,   \* PendingPacketArchive::pending_minion_map_, per session
    queues,    \* contents of each MPSCQueue, oldest first
    nextQ,     \* number of queues allocated so far
    wpc,       \* each worker's position in Crossbar::process
    wm,        \* the minion each worker carries
    wq,        \* each worker's local q (resetSessionFromArchive result)
    wlist,     \* each worker's node_packet list (popAll result)
    wstale,    \* each worker's stale_head in MPSCQueue::push
    cpc,       \* the controller handler's position in installForwardingTableEntry
    cs,        \* the session of the entry being installed
    ce,        \* the entry being installed
    cq,        \* the install's local q (getPendingPacketQueue result)
    pending,   \* RoutingInfo queries emitted and not yet answered, per session
    installs,  \* RoutingInfo messages handled so far
    where,     \* where each minion is
    arrived,   \* minions in the order they entered Crossbar::process
    out,       \* minions in the order they were sent on to a next hop
    crashed    \* a null pointer was dereferenced

vars == <<table, archive, queues, nextQ, wpc, wm, wq, wlist, wstale, cpc, cs, ce, cq,
          pending, installs, where, arrived, out, crashed>>

Init ==
    /\ table = [s \in Sessions |-> NoEntry]
    /\ archive = [s \in Sessions |-> Absent]
    /\ queues = [q \in QueueIds |-> <<>>]
    /\ nextQ = 0
    /\ wpc = [w \in Workers |-> "idle"]
    /\ wm = [w \in Workers |-> NoMinion]
    /\ wq = [w \in Workers |-> NullQ]
    /\ wlist = [w \in Workers |-> <<>>]
    /\ wstale = [w \in Workers |-> NoMinion]
    /\ cpc = "idle" /\ cs = (CHOOSE s \in Sessions : TRUE) /\ ce = NoEntry /\ cq = NullQ
    /\ pending = [s \in Sessions |-> 0]
    /\ installs = 0
    /\ where = [m \in Minions |-> "new"]
    /\ arrived = <<>> /\ out = <<>>
    /\ crashed = FALSE

-----------------------------------------------------------------------------
(* Helpers *)

\* With one reactor thread no handler starts while another is unfinished.
NoOtherHandlerBusy(w) ==
    Serial => /\ \A v \in Workers \ {w} : wpc[v] = "idle"
              /\ w # "controller" => cpc = "idle"

\* map_lock_ is held shared by a worker between the load and the store of
\* resetSessionFromArchive, and unique by a worker pushing into an archive
\* queue; a unique_lock of map_lock_ waits for both.
MapLockFree == \A w \in Workers : wpc[w] \notin {"reset_store", "push"}

\* A shared_lock of map_lock_ waits only for a unique holder.
MapLockShareable == \A w \in Workers : wpc[w] # "push"

\* getNextHop(sessionID), then getNextHop(parent) if that was empty.
Routed(s) == table[s] # NoEntry \/ (Parent[s] # s /\ table[Parent[s]] # NoEntry)

\* boost::atomic_load of the archive element, or nullptr when absent.
LoadQueue(s) == IF archive[s] = Absent THEN NullQ ELSE archive[s]

\* Send minion m on to its next hop (wakeup, or returned as next stop).
SendOn(m) ==
    /\ out' = Append(out, m)

-----------------------------------------------------------------------------
(* Crossbar::process *)

\* A minion enters process(): no payload returns pool_; otherwise the
\* forwarding table is consulted for the session and then its parent.
Arrive(w, m) ==
    /\ wpc[w] = "idle" /\ where[m] = "new" /\ NoOtherHandlerBusy(w)
    /\ arrived' = Append(arrived, m)
    /\ IF m \in Payloadless
         THEN /\ where' = [where EXCEPT ![m] = "pool"]
              /\ UNCHANGED <<wpc, wm>>
         ELSE /\ where' = [where EXCEPT ![m] = "worker"]
              /\ wm' = [wm EXCEPT ![w] = m]
              /\ wpc' = [wpc EXCEPT ![w] = IF Routed(SessionOf[m]) THEN "reset_load"
                                                                    ELSE "archive"]
    /\ UNCHANGED <<table, archive, queues, nextQ, wq, wlist, wstale, cpc, cs, ce, cq,
                   pending, installs, out, crashed>>

\* The queue archiveMinion pushes minion m of session s into: the element's
\* queue, or a fresh one when the element is absent or null.
ArchiveTarget(s) == IF archive[s] > NullQ THEN archive[s] ELSE nextQ + 1

\* head_ of queue q: the newest node, or null when the queue is empty.
HeadNode(q) == IF queues[q] = <<>> THEN NoMinion ELSE Last(queues[q])

\* Fault variant of Archive: the query is not emitted (the result of
\* archiveMinion is not tested).
ArchiveNoQuery(w) ==
    LET s == SessionOf[wm[w]] IN
    /\ wpc[w] = "archive" /\ MapLockFree
    /\ archive' = [archive EXCEPT ![s] = ArchiveTarget(s)]
    /\ nextQ' = IF archive[s] > NullQ THEN nextQ ELSE nextQ + 1
    /\ wq' = [wq EXCEPT ![w] = ArchiveTarget(s)]
    /\ wstale' = [wstale EXCEPT ![w] = HeadNode(ArchiveTarget(s))]
    /\ wpc' = [wpc EXCEPT ![w] = "push"]
    /\ UNCHANGED <<table, queues, wm, wlist, cpc, cs, ce, cq, pending, installs,
                   where, arrived, out, crashed>>

\* archiveMinion takes the unique map_lock_, finds the element or emplaces
\* one (a null element gets a fresh queue by atomic_store), and starts
\* push: head_.load into stale_head.  A created element emits the query.
Archive(w) ==
    LET s == SessionOf[wm[w]] IN
    /\ wpc[w] = "archive" /\ MapLockFree
    /\ archive' = [archive EXCEPT ![s] = ArchiveTarget(s)]
    /\ nextQ' = IF archive[s] > NullQ THEN nextQ ELSE nextQ + 1
    /\ pending' = IF archive[s] = Absent THEN [pending EXCEPT ![s] = @ + 1]
                                         ELSE pending
    /\ wq' = [wq EXCEPT ![w] = ArchiveTarget(s)]
    /\ wstale' = [wstale EXCEPT ![w] = HeadNode(ArchiveTarget(s))]
    /\ wpc' = [wpc EXCEPT ![w] = "push"]
    /\ UNCHANGED <<table, queues, wm, wlist, cpc, cs, ce, cq, installs, where,
                   arrived, out, crashed>>

\* The minion's node is linked in; the unique map_lock_ is released and
\* process() returns nullptr.
Pushed(w) ==
    /\ where' = [where EXCEPT ![wm[w]] = "archived"]
    /\ wpc' = [wpc EXCEPT ![w] = "idle"]
    /\ wm' = [wm EXCEPT ![w] = NoMinion]

\* Fault variant of PushCas: head_.store(n) with n->next = stale_head.  When
\* a popAll took the list since the load, stale_head is its newest node,
\* whose next the reversal in popAll has set to null.
PushStore(w) ==
    LET q == wq[w] IN
    /\ wpc[w] = "push"
    /\ queues' = [queues EXCEPT ![q] =
                     IF HeadNode(q) = wstale[w] THEN Append(@, wm[w])
                     ELSE IF wstale[w] = NoMinion THEN <<wm[w]>>
                     ELSE <<wstale[w], wm[w]>>]
    /\ Pushed(w)
    /\ UNCHANGED <<table, archive, nextQ, wq, wlist, wstale, cpc, cs, ce, cq,
                   pending, installs, arrived, out, crashed>>

\* One iteration of push's loop: n->next = stale_head, then
\* compare_exchange_weak(stale_head, n).  It fails when a popAll exchanged
\* head_ since the load, and reloads stale_head.  Pushers hold the unique
\* map_lock_, so only popAll can move head_ under a pusher.  A spurious
\* failure of the weak form reloads the same value and is a stutter.
PushCas(w) ==
    LET q == wq[w] IN
    /\ wpc[w] = "push"
    /\ IF HeadNode(q) = wstale[w]
         THEN /\ queues' = [queues EXCEPT ![q] = Append(@, wm[w])]
              /\ Pushed(w)
              /\ UNCHANGED wstale
         ELSE /\ wstale' = [wstale EXCEPT ![w] = HeadNode(q)]
              /\ UNCHANGED <<queues, where, wpc, wm>>
    /\ UNCHANGED <<table, archive, nextQ, wq, wlist, cpc, cs, ce, cq,
                   pending, installs, arrived, out, crashed>>

\* Routed: resetSessionFromArchive takes map_lock_ shared and loads the
\* element; an absent element returns nullptr and the minion is sent on.
ResetLoad(w) ==
    LET m == wm[w] IN
    /\ wpc[w] = "reset_load" /\ MapLockShareable
    /\ IF archive[SessionOf[m]] = Absent
         THEN /\ SendOn(m)
              /\ where' = [where EXCEPT ![m] = "out"]
              /\ wpc' = [wpc EXCEPT ![w] = "idle"]
              /\ wm' = [wm EXCEPT ![w] = NoMinion]
              /\ UNCHANGED wq
         ELSE /\ wq' = [wq EXCEPT ![w] = archive[SessionOf[m]]]
              /\ wpc' = [wpc EXCEPT ![w] = "reset_store"]
              /\ UNCHANGED <<where, out, wm>>
    /\ UNCHANGED <<table, archive, queues, nextQ, wlist, wstale, cpc, cs, ce, cq,
                   pending, installs, arrived, crashed>>

\* The atomic_store of a null pointer into the element; the shared lock is
\* released.  A null q sends the minion on at once.
ResetStore(w) ==
    LET m == wm[w] IN
    /\ wpc[w] = "reset_store"
    /\ archive' = [archive EXCEPT ![SessionOf[m]] = NullQ]
    /\ IF wq[w] = NullQ
         THEN /\ SendOn(m)
              /\ where' = [where EXCEPT ![m] = "out"]
              /\ wpc' = [wpc EXCEPT ![w] = "idle"]
              /\ wm' = [wm EXCEPT ![w] = NoMinion]
         ELSE /\ wpc' = [wpc EXCEPT ![w] = "pop"]
              /\ UNCHANGED <<where, out, wm>>
    /\ UNCHANGED <<table, queues, nextQ, wq, wlist, wstale, cpc, cs, ce, cq,
                   pending, installs, arrived, crashed>>

\* Fault variant of PopAll: the list is read without being detached.
PopAllCopy(w) ==
    /\ wpc[w] = "pop"
    /\ wlist' = [wlist EXCEPT ![w] = queues[wq[w]]]
    /\ wpc' = [wpc EXCEPT ![w] = "handle"]
    /\ UNCHANGED <<table, archive, queues, nextQ, wm, wq, wstale, cpc, cs, ce, cq, pending,
                   installs, where, arrived, out, crashed>>

\* q->popAll(): one atomic exchange takes the whole list.
PopAll(w) ==
    /\ wpc[w] = "pop"
    /\ wlist' = [wlist EXCEPT ![w] = queues[wq[w]]]
    /\ queues' = [queues EXCEPT ![wq[w]] = <<>>]
    /\ wpc' = [wpc EXCEPT ![w] = "handle"]
    /\ UNCHANGED <<table, archive, nextQ, wm, wq, wstale, cpc, cs, ce, cq, pending,
                   installs, where, arrived, out, crashed>>

\* handleArchivedPacket(node_packet, getEntry(sessionID)): entry->getNextHop()
\* and packet_node->data dereference both pointers; only the head of the
\* list is woken.  Then process() returns the current minion's next stop.
Handle(w) ==
    LET m == wm[w]
        list == wlist[w]
    IN
    /\ wpc[w] = "handle"
    /\ IF table[SessionOf[m]] = NoEntry \/ list = <<>>
         THEN /\ crashed' = TRUE
              /\ UNCHANGED <<where, out>>
         ELSE /\ out' = out \o <<Head(list), m>>
              /\ where' = [where EXCEPT ![Head(list)] = "out", ![m] = "out"]
              /\ UNCHANGED crashed
    /\ wpc' = [wpc EXCEPT ![w] = "idle"]
    /\ wm' = [wm EXCEPT ![w] = NoMinion]
    /\ wlist' = [wlist EXCEPT ![w] = <<>>]
    /\ UNCHANGED <<table, archive, queues, nextQ, wq, wstale, cpc, cs, ce, cq, pending,
                   installs, arrived>>

-----------------------------------------------------------------------------
(* Crossbar::installForwardingTableEntry, run for each RoutingInfo message *)

\* newEntry parses the message (SessionID, Entry, optional Timeout), then
\* getPendingPacketQueue loads the archive element under the shared lock.
\* The controller answers a pending query, or installs unprompted.
InstallGet(s, e) ==
    /\ cpc = "idle" /\ installs < MaxInstalls /\ NoOtherHandlerBusy("controller")
    /\ MapLockShareable
    /\ installs' = installs + 1
    /\ pending' = [pending EXCEPT ![s] = IF @ > 0 THEN @ - 1 ELSE 0]
    /\ cs' = s /\ ce' = e /\ cq' = LoadQueue(s)
    /\ cpc' = IF LoadQueue(s) # NullQ THEN "drain" ELSE "insert"
    /\ UNCHANGED <<table, archive, queues, nextQ, wpc, wm, wq, wlist, wstale, where,
                   arrived, out, crashed>>

\* q->popAll() and handleArchivedPacket(node_packet, new entry): only the
\* head of the popped list is woken; an empty list is dereferenced.
InstallDrain ==
    LET list == queues[cq] IN
    /\ cpc = "drain"
    /\ queues' = [queues EXCEPT ![cq] = <<>>]
    /\ IF list = <<>>
         THEN /\ crashed' = TRUE
              /\ UNCHANGED <<where, out>>
         ELSE /\ SendOn(Head(list))
              /\ where' = [where EXCEPT ![Head(list)] = "out"]
              /\ UNCHANGED crashed
    /\ cpc' = "insert"
    /\ UNCHANGED <<table, archive, nextQ, wpc, wm, wq, wlist, wstale, cs, ce, cq,
                   pending, installs, arrived>>

\* forwarding_table_.insertEntry: atomic_exchange of an existing slot, or an
\* insert under the unique table lock.
InstallInsert ==
    /\ cpc = "insert"
    /\ table' = [table EXCEPT ![cs] = ce]
    /\ cpc' = "remove"
    /\ UNCHANGED <<archive, queues, nextQ, wpc, wm, wq, wlist, wstale, cs, ce, cq,
                   pending, installs, where, arrived, out, crashed>>

\* Fault variant of InstallRemove: the archive element is left in place.
InstallRemoveNoErase ==
    /\ cpc = "remove"
    /\ cpc' = "idle"
    /\ UNCHANGED <<table, archive, queues, nextQ, wpc, wm, wq, wlist, wstale, cs, ce, cq,
                   pending, installs, where, arrived, out, crashed>>

\* removeSessionFromArchive: load the element, and erase it under the unique
\* map_lock_ only when the loaded pointer is not null.
InstallRemove ==
    /\ cpc = "remove"
    /\ MapLockShareable
    /\ LoadQueue(cs) # NullQ => MapLockFree
    /\ archive' = IF LoadQueue(cs) # NullQ THEN [archive EXCEPT ![cs] = Absent]
                                           ELSE archive
    /\ cpc' = "idle"
    /\ UNCHANGED <<table, queues, nextQ, wpc, wm, wq, wlist, wstale, cs, ce, cq,
                   pending, installs, where, arrived, out, crashed>>

\* ForwardingTable::onEntryExpired with a success code: deleteOneEntry.
Expire(s) ==
    /\ table[s] = "TtlEntry" /\ NoOtherHandlerBusy("timer")
    /\ table' = [table EXCEPT ![s] = NoEntry]
    /\ UNCHANGED <<archive, queues, nextQ, wpc, wm, wq, wlist, wstale, cpc, cs, ce, cq,
                   pending, installs, where, arrived, out, crashed>>

\* Every minion has arrived and every handler has returned, or the process
\* has crashed: nothing is left to happen.
Done ==
    /\ crashed \/ (/\ \A m \in Minions : where[m] # "new"
                   /\ \A w \in Workers : wpc[w] = "idle"
                   /\ cpc = "idle")
    /\ UNCHANGED vars

Next ==
    \/ /\ ~crashed
       /\ \/ \E w \in Workers :
               \/ \E m \in Minions : Arrive(w, m)
               \/ Archive(w) \/ PushCas(w) \/ ResetLoad(w) \/ ResetStore(w) \/ PopAll(w) \/ Handle(w)
          \/ \E s \in Sessions, e \in Entries : InstallGet(s, e)
          \/ InstallDrain \/ InstallInsert \/ InstallRemove
          \/ \E s \in Sessions : Expire(s)
    \/ Done

Spec == Init /\ [][Next]_vars

-----------------------------------------------------------------------------
TypeOK ==
    /\ table \in [Sessions -> Entries \cup {NoEntry}]
    /\ archive \in [Sessions -> {Absent, NullQ} \cup QueueIds]
    /\ queues \in [QueueIds -> Seq(Minions)]
    /\ wpc \in [Workers -> {"idle", "archive", "push", "reset_load", "reset_store", "pop", "handle"}]
    /\ cpc \in {"idle", "drain", "insert", "remove"}
    /\ where \in [Minions -> {"new", "pool", "worker", "archived", "out"}]
    /\ crashed \in BOOLEAN

\* The process never dereferences a null pointer in handleArchivedPacket:
\* the popped list is never empty and getEntry(sessionID) is never null.
NoCrash == ~crashed

\* A queue is still reachable from the archive map or a handler's local.
Reachable(q) ==
    \/ \E s \in Sessions : archive[s] = q
    \/ \E w \in Workers : wpc[w] \in {"reset_store", "pop"} /\ wq[w] = q
    \/ cpc = "drain" /\ cq = q

\* spec.md section 8: archived packets are all delivered, none is lost.  Every
\* minion parked by archiveMinion is still in a reachable queue or in a
\* list popped by a handler that has not yet handled it.
NoMinionLost ==
    \A m \in Minions : where[m] = "archived" =>
        \/ \E q \in QueueIds : Reachable(q) /\ m \in Range(queues[q])
        \/ \E w \in Workers : wpc[w] = "handle" /\ m \in Range(wlist[w])

\* No minion is sent on twice: the drains of the install and of concurrent
\* process() calls never wake the same archived minion.
NoDuplicateSend == IsInjective(out)

\* The places a node of minion m is linked at: a position in an archive
\* queue, or in the list a worker has popped and not yet handled.
NodePlaces(m) ==
    {<<"queue", q>> : q \in {q \in QueueIds : m \in Range(queues[q])}} \cup
    {<<"popped", w>> : w \in {w \in Workers : m \in Range(wlist[w])}}

\* MPSCQueue as the crossbar uses it: pushes (CAS loop) race with popAll
\* exchanges by both the install and a routed packet, although the queue
\* allows one consumer.  Every node is linked in at most one list, and a
\* minion already sent on is linked in none, so no drain can wake it again.
NodeInOneList ==
    \A m \in Minions :
        /\ \A q \in QueueIds : Len(SelectSeq(queues[q], LAMBDA x : x = m)) <= 1
        /\ Cardinality(NodePlaces(m)) <= 1
        /\ where[m] = "out" => NodePlaces(m) = {}

\* spec.md invariant 3: a session with a queue in the archive has no
\* forwarding entry, whenever no install is half done.
ArchiveExcludesEntry ==
    cpc = "idle" => \A s \in Sessions : archive[s] > NullQ => table[s] = NoEntry

\* spec.md section 4.4: the first minion archived for a session emits the
\* query, and the archive element stays until the answer is installed.  So
\* whenever no handler is half done and nothing has crashed, a session with
\* minions parked in its archive queue and no route has a query the
\* controller has not answered; otherwise its minions wait for a
\* RoutingInfo nobody asked for.
ArchivedSessionQueried ==
    (~crashed /\ cpc = "idle" /\ \A w \in Workers : wpc[w] = "idle") =>
        \A s \in Sessions :
            (archive[s] > NullQ /\ queues[archive[s]] # <<>> /\ ~Routed(s))
                => pending[s] > 0

ArrivalIndex(m) == CHOOSE i \in DOMAIN arrived : arrived[i] = m

\* spec.md section 8: the packets of one session are sent on in the order
\* they arrived at the crossbar, archived or not.
SendInArrivalOrder ==
    \A i, j \in DOMAIN out :
        (i < j /\ SessionOf[out[i]] = SessionOf[out[j]])
            => ArrivalIndex(out[i]) < ArrivalIndex(out[j])
=============================================================================
