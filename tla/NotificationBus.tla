---------------------------- MODULE NotificationBus ----------------------------
(***************************************************************************)
(* The notification bus of controller/notification_observers.hpp and       *)
(* controller/notification_center.hpp on a reactor of several threads.     *)
(*                                                                         *)
(* An emitter (an INotification) holds a boost::signals2 signal per        *)
(* message type; slots[i][ty] counts the slots connected to the signal of  *)
(* emitter i for type ty.  Every slot is the observer's wrappedHandler:    *)
(* an IObserver posts handleNotification to the io_context (ios), an       *)
(* ISerializedObserver posts it to its strand.  Emitter Crossbar is the    *)
(* crossbar, registered once by the NotificationCenter at start-up.        *)
(*                                                                         *)
(* A NotificationGroup keeps emitters in a hash map under a shared_mutex.  *)
(* Each of its calls takes the lock for the map operation only: the        *)
(* registration of handlers in getNotificationInGroup, createNewNotification*)
(* and addNewNotification, and the dereference of the iterator in          *)
(* findNotificationInGroup, happen after the unlock, as separate steps.    *)
(***************************************************************************)
EXTENDS Integers, Sequences

CONSTANTS
    Threads,     \* reactor threads: they call the group and run handlers
    Keys,        \* keys of the group
    Types,       \* NotificationMsgType, NotificationMsgTypes...
    Serialized,  \* types whose observer is an ISerializedObserver
    MaxInst,     \* bound: emitters the group creates (make_shared<T>)
    MaxWrites,   \* bound: create, add and delete calls per key
    MaxEmits     \* bound: notify calls

ASSUME Serialized \subseteq Types /\ MaxInst \in Nat /\ MaxEmits \in Nat

Crossbar == 0
CrossbarType == CHOOSE ty \in Serialized : TRUE  \* ControlMsgNotificationType
NoInst == -1
Insts == 0..MaxInst
NoRun == [ty |-> "none", e |-> 0]
Held == [k : Keys \cup {"none"}, i : Insts \cup {NoInst}, via : {"get", "find", "none"},
         v : 0..MaxWrites, g : 0..MaxWrites]
Nothing == [k |-> "none", i |-> NoInst, via |-> "none", v |-> 0, g |-> 0]

VARIABLES
    hasHandler, \* has_handler_ (handler_map_ filled)
    map,        \* the group's hash map: map[k] = emitter, or NoInst
    made,       \* emitters the group has created so far
    slots,      \* slots[i][ty]: slots connected to emitter i's signal for ty
    pc,         \* pc[t]: "idle", "reg" (handlers not yet registered), "deref"
    held,       \* held[t]: the emitter (or iterator) thread t holds
    ver,        \* ver[k]: create, add and delete calls on k so far (history)
    gen,        \* gen[k]: erasures of k so far (iterator validity)
    ios,        \* handlers posted to the io_context, in order
    strand,     \* strand[ty]: handlers posted to the observer's strand
    running,    \* running[t]: the handler thread t executes, or NoRun
    emits,      \* emits[e]: [i, ty, n]: emitter, type, slots called (history)
    handled     \* handled[e]: handleNotification runs for emission e

vars == <<hasHandler, map, made, slots, pc, held, ver, gen, ios, strand,
          running, emits, handled>>
group == <<map, made, ver, gen>>
bus == <<ios, strand, running, emits, handled>>

\* NotificationCenter::NotificationCenter and registerNotification for the
\* crossbar (aggregator start): one slot, the ControllerProxy's handler.
Init ==
    /\ hasHandler = FALSE
    /\ map = [k \in Keys |-> NoInst]
    /\ made = 0
    /\ slots = [i \in Insts |-> [ty \in Types |->
                    IF i = Crossbar /\ ty = CrossbarType THEN 1 ELSE 0]]
    /\ pc = [t \in Threads |-> "idle"]
    /\ held = [t \in Threads |-> Nothing]
    /\ ver = [k \in Keys |-> 0]
    /\ gen = [k \in Keys |-> 0]
    /\ ios = <<>>
    /\ strand = [ty \in Serialized |-> <<>>]
    /\ running = [t \in Threads |-> NoRun]
    /\ emits = <<>>
    /\ handled = <<>>

Idle(t) == pc[t] = "idle" /\ running[t] = NoRun

\* NotificationCenter::registerNotificationGroup: the group stores the
\* observers' handlers (registerNotificationHandlers).
RegisterGroup ==
    /\ ~hasHandler
    /\ hasHandler' = TRUE
    /\ UNCHANGED <<group, slots, pc, held, bus>>

GetInGroupAlwaysCreates(t, k) ==
    /\ Idle(t) /\ hasHandler /\ made < MaxInst
    /\ made' = made + 1
    /\ map' = [map EXCEPT ![k] = made + 1]
    /\ held' = [held EXCEPT ![t] = [k |-> k, i |-> made + 1, via |-> "get",
                                    v |-> ver[k], g |-> gen[k]]]
    /\ pc' = [pc EXCEPT ![t] = "reg"]
    /\ UNCHANGED <<hasHandler, slots, ver, gen, bus>>

\* getNotificationInGroup, under the unique lock: return the emitter found,
\* or create one, store it and go on to register its handlers unlocked.
GetInGroup(t, k) ==
    /\ Idle(t) /\ hasHandler
    /\ \/ /\ map[k] # NoInst
          /\ held' = [held EXCEPT ![t] = [k |-> k, i |-> map[k], via |-> "get",
                                          v |-> ver[k], g |-> gen[k]]]
          /\ UNCHANGED <<map, made, pc>>
       \/ /\ map[k] = NoInst /\ made < MaxInst
          /\ made' = made + 1
          /\ map' = [map EXCEPT ![k] = made + 1]
          /\ held' = [held EXCEPT ![t] = [k |-> k, i |-> made + 1, via |-> "get",
                                          v |-> ver[k], g |-> gen[k]]]
          /\ pc' = [pc EXCEPT ![t] = "reg"]
    /\ UNCHANGED <<hasHandler, slots, ver, gen, bus>>

\* createNewNotification: a new emitter replaces whatever k maps to.
CreateNewNotification(t, k) ==
    /\ Idle(t) /\ hasHandler /\ made < MaxInst /\ ver[k] < MaxWrites
    /\ made' = made + 1
    /\ map' = [map EXCEPT ![k] = made + 1]
    /\ ver' = [ver EXCEPT ![k] = @ + 1]
    /\ held' = [held EXCEPT ![t] = [k |-> k, i |-> made + 1, via |-> "none",
                                    v |-> ver[k] + 1, g |-> gen[k]]]
    /\ pc' = [pc EXCEPT ![t] = "reg"]
    /\ UNCHANGED <<hasHandler, slots, gen, bus>>

\* addNewNotification with the emitter the caller holds.
AddNewNotification(t, k) ==
    /\ Idle(t) /\ hasHandler /\ held[t].i \notin {NoInst, Crossbar} /\ ver[k] < MaxWrites
    /\ map' = [map EXCEPT ![k] = held[t].i]
    /\ ver' = [ver EXCEPT ![k] = @ + 1]
    /\ held' = [held EXCEPT ![t].k = k, ![t].via = "none"]
    /\ pc' = [pc EXCEPT ![t] = "reg"]
    /\ UNCHANGED <<hasHandler, made, slots, gen, bus>>

\* INotification::registerNotificationHandler, once per type:
\* observer_signal_.connect adds a slot (observer_conn_ keeps the last).
Connect(i) == [slots EXCEPT ![i] = [ty \in Types |-> @[ty] + 1]]

\* The unlocked tail of the three calls above: register all handlers.
RegisterHandlers(t) ==
    /\ pc[t] = "reg"
    /\ slots' = Connect(held[t].i)
    /\ pc' = [pc EXCEPT ![t] = "idle"]
    /\ UNCHANGED <<hasHandler, group, held, bus>>

\* findNotificationInGroup, under the shared lock: itr = find(key).
FindLocked(t, k) ==
    /\ Idle(t)
    /\ IF map[k] = NoInst
         THEN /\ held' = [held EXCEPT ![t] = Nothing]
              /\ UNCHANGED pc
         ELSE /\ held' = [held EXCEPT ![t] = [k |-> k, i |-> NoInst, via |-> "find",
                                              v |-> ver[k], g |-> gen[k]]]
              /\ pc' = [pc EXCEPT ![t] = "deref"]
    /\ UNCHANGED <<hasHandler, group, slots, bus>>

\* ... then, unlocked, itr->second.  An iterator whose element was erased
\* meanwhile dangles: the read returns whatever the freed node holds.
FindDeref(t) ==
    /\ pc[t] = "deref"
    /\ LET k == held[t].k
       IN \E i \in IF gen[k] = held[t].g THEN {map[k]} ELSE Insts \cup {NoInst} :
            held' = [held EXCEPT ![t].i = i]
    /\ pc' = [pc EXCEPT ![t] = "idle"]
    /\ UNCHANGED <<hasHandler, group, slots, bus>>

\* deleteNotificationInGroup, under the unique lock.
DeleteNotificationInGroup(t, k) ==
    /\ Idle(t) /\ map[k] # NoInst /\ ver[k] < MaxWrites
    /\ map' = [map EXCEPT ![k] = NoInst]
    /\ ver' = [ver EXCEPT ![k] = @ + 1]
    /\ gen' = [gen EXCEPT ![k] = @ + 1]
    /\ UNCHANGED <<hasHandler, made, slots, pc, held, bus>>

\* IObserver::wrappedHandler posts handleNotification to the io_context;
\* ISerializedObserver::wrappedHandler posts it to its strand.  The signal
\* calls every connected slot, n of them.
WrappedHandler(ty, e, n) ==
    LET calls == [j \in 1..n |-> [ty |-> ty, e |-> e]]
    IN IF ty \in Serialized
         THEN /\ strand' = [strand EXCEPT ![ty] = @ \o calls]
              /\ UNCHANGED ios
         ELSE /\ ios' = ios \o calls
              /\ UNCHANGED strand

\* INotification::notify on emitter i, by thread t (the crossbar's process
\* emits its query on any thread; a group's emitter is notified by the
\* thread that holds it).  With no slot connected it logs an error and the
\* signal calls nothing.
Notify(t, i, ty) ==
    /\ Idle(t) /\ Len(emits) < MaxEmits
    /\ \/ i = Crossbar /\ ty = CrossbarType
       \/ i = held[t].i /\ i \notin {NoInst, Crossbar}
    /\ emits' = Append(emits, [i |-> i, ty |-> ty, n |-> slots[i][ty]])
    /\ handled' = Append(handled, 0)
    /\ WrappedHandler(ty, Len(emits) + 1, slots[i][ty])
    /\ UNCHANGED <<hasHandler, group, slots, pc, held, running>>

\* io_context::run on thread t takes the next posted handler.
RunPosted(t) ==
    /\ Idle(t) /\ ios # <<>>
    /\ running' = [running EXCEPT ![t] = Head(ios)]
    /\ ios' = Tail(ios)
    /\ UNCHANGED <<hasHandler, group, slots, pc, held, strand, emits, handled>>

\* The strand hands thread t its next handler when none of its handlers runs.
RunStranded(t, ty) ==
    /\ Idle(t) /\ strand[ty] # <<>>
    /\ \A u \in Threads : running[u].ty # ty
    /\ running' = [running EXCEPT ![t] = Head(strand[ty])]
    /\ strand' = [strand EXCEPT ![ty] = Tail(@)]
    /\ UNCHANGED <<hasHandler, group, slots, pc, held, ios, emits, handled>>

\* handleNotification returns.
Finish(t) ==
    /\ running[t] # NoRun
    /\ handled' = [handled EXCEPT ![running[t].e] = @ + 1]
    /\ running' = [running EXCEPT ![t] = NoRun]
    /\ UNCHANGED <<hasHandler, group, slots, pc, held, ios, strand, emits>>

Next ==
    \/ RegisterGroup
    \/ \E t \in Threads :
          \/ RegisterHandlers(t) \/ FindDeref(t) \/ RunPosted(t) \/ Finish(t)
          \/ \E ty \in Serialized : RunStranded(t, ty)
          \/ \E i \in Insts, ty \in Types : Notify(t, i, ty)
          \/ \E k \in Keys :
                \/ GetInGroup(t, k) \/ CreateNewNotification(t, k)
                \/ AddNewNotification(t, k) \/ FindLocked(t, k)
                \/ DeleteNotificationInGroup(t, k)

Spec == Init /\ [][Next]_vars

TypeOK ==
    /\ hasHandler \in BOOLEAN
    /\ map \in [Keys -> Insts \cup {NoInst}]
    /\ slots \in [Insts -> [Types -> Nat]]
    /\ pc \in [Threads -> {"idle", "reg", "deref"}]
    /\ held \in [Threads -> Held]
    /\ running \in [Threads -> {NoRun} \cup [ty : Types, e : Nat]]

\* getNotificationInGroup finds or creates under one unique lock: two calls
\* for the same key with no create, add or delete of it in between return
\* the same emitter.
GetReturnsOneEmitter ==
    \A t, u \in Threads :
        (/\ held[t].via = "get" /\ held[u].via = "get"
         /\ held[t].k = held[u].k /\ held[t].v = held[u].v)
            => held[t].i = held[u].i

\* notify logs an error when the emitter has no observer yet: every
\* notification reaches the observer.
NotifyReachesObserver == \A e \in 1..Len(emits) : emits[e].n > 0

\* Each notification is handled once: no emitter has two slots for a type.
NoDuplicateDelivery == \A e \in 1..Len(emits) : emits[e].n <= 1

\* findNotificationInGroup dereferences its iterator after the shared lock
\* is released: the element must not have been erased meanwhile.
NoDanglingIterator ==
    \A t \in Threads : pc[t] = "deref" => gen[held[t].k] = held[t].g
====
