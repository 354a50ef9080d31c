------------------------------- MODULE PseudoApp -------------------------------
(***************************************************************************)
(* The pseudo application source of one session (apps/pseudo_app.cpp)    *)
(* with its token bucket, on a node whose reactor runs on Threads.        *)
(*                                                                         *)
(* The source is a chain of handlers: onTokenAvailable takes a token and  *)
(* requests a minion from the pool; the minion runs                       *)
(* PseudoAppSource::process on the thread that hands it over (at once, or *)
(* later when a minion comes back to MinionPool::process), which stamps   *)
(* seq_++, posts the next onTokenAvailable and sends the minion on to the *)
(* crossbar.  When the bucket is empty the chain ends and sets            *)
(* should_send_ontoken_available_; the refill timer's generateOneToken    *)
(* restarts a chain when it finds that flag set (compare_exchange).       *)
(*                                                                         *)
(* bucket_level_ is kept in whole tokens: a timer tick adds the tokens of *)
(* the intervals that elapsed (one, or two for a late tick), capped at    *)
(* bucket_depth_.  Downstream of the source (crossbar, peer link or sink) *)
(* is one step, Return, that brings the minion back to the pool.  The     *)
(* pool is its atomic rendezvous (MinionStopQueue.tla checks it).         *)
(***************************************************************************)
EXTENDS Naturals, Sequences, Functions

CONSTANTS
    Threads,     \* the reactor's worker threads (ThreadPool)
    Minions,     \* the node's minion pool
    Depth,       \* bucket_depth_ = refill_amount_ (1) + burst_size
    MaxStarts,   \* bound on start() calls (NodeManager::newOnlineNode)
    MaxMsgs      \* bound on the messages the source stamps

VARIABLES
    level,      \* bucket_level_, in whole tokens
    flag,       \* should_send_ontoken_available_
    ota,        \* onTokenAvailable handlers posted and not yet run
    waiters,    \* requests of the source parked in the pool
    mloc,       \* mloc[m]: "pool", "source" (in process) or "away"
    pc,         \* pc[t]: "idle", "ota_store" or "seq_write"
    tseq,       \* tseq[t]: the value of seq_ thread t read in process
    tmin,       \* tmin[t]: the minion thread t runs process for
    seq,        \* seq_
    stamped,    \* the seq numbers the source stamped, in order
    starts      \* start() calls so far

vars == <<level, flag, ota, waiters, mloc, pc, tseq, tmin, seq, stamped, starts>>

Running(t) == pc[t] # "idle"

\* TokenBucket's and PseudoAppSource's constructors (flag set, seq_ 0) and
\* the first start() from NodeManager::newOnlineNode: the bucket full,
\* generateOneToken arms the refill timer and, finding the flag set,
\* clears it and posts onTokenAvailable.  The pool holds every minion.
Init ==
    /\ level = Depth
    /\ flag = FALSE
    /\ ota = 1
    /\ waiters = 0
    /\ mloc = [m \in Minions |-> "pool"]
    /\ pc = [t \in Threads |-> "idle"]
    /\ tseq = [t \in Threads |-> 0]
    /\ tmin = [t \in Threads |-> CHOOSE m \in Minions : TRUE]
    /\ seq = 0
    /\ stamped = <<>>
    /\ starts = 1

\* The tail of generateOneToken: the compare_exchange of the flag from
\* true to false, and the post of onTokenAvailable when it succeeds.
PostIfFlagged ==
    IF flag THEN flag' = FALSE /\ ota' = ota + 1
            ELSE UNCHANGED <<flag, ota>>

\* PseudoAppSource::process begins on thread t for minion m: the session
\* ID is stamped and seq_ is read for seq_++ (a plain size_t).
BeginProcess(t, m) ==
    /\ pc' = [pc EXCEPT ![t] = "seq_write"]
    /\ tseq' = [tseq EXCEPT ![t] = seq]
    /\ tmin' = [tmin EXCEPT ![t] = m]
    /\ mloc' = [mloc EXCEPT ![m] = "source"]

\* start() again, when the destination node is announced online once more:
\* last_refill_time_ = now, bucket_level_ = bucket_depth_, and
\* generateOneToken (no time has elapsed; the timer is re-armed, which
\* aborts the pending wait, whose handler returns at once).
Start(t) ==
    /\ ~Running(t) /\ Len(stamped) < MaxMsgs
    /\ starts < MaxStarts
    /\ starts' = starts + 1
    /\ level' = Depth
    /\ PostIfFlagged
    /\ UNCHANGED <<waiters, mloc, pc, tseq, tmin, seq, stamped>>

\* The refill timer fires: generateOneToken tops the bucket up under
\* level_mtx_ by the intervals elapsed, re-arms the timer and runs the
\* compare_exchange.
GenerateOneToken(t) ==
    /\ ~Running(t) /\ Len(stamped) < MaxMsgs
    /\ \E k \in {1, 2} :
         level' = IF level < Depth
                  THEN IF level + k < Depth THEN level + k ELSE Depth
                  ELSE level
    /\ PostIfFlagged
    /\ UNCHANGED <<waiters, mloc, pc, tseq, tmin, seq, stamped, starts>>

\* Fault variant of OnTokenAvailable: with no token the chain just ends;
\* neither consumeOneToken nor the handler sets the flag.
OnTokenAvailableNoFlag(t) ==
    /\ ~Running(t) /\ ota > 0 /\ Len(stamped) < MaxMsgs
    /\ ota' = ota - 1
    /\ IF level >= 1
       THEN /\ level' = level - 1
            /\ IF \E m \in Minions : mloc[m] = "pool"
               THEN \E m \in {x \in Minions : mloc[x] = "pool"} :
                      BeginProcess(t, m) /\ UNCHANGED waiters
               ELSE waiters' = waiters + 1 /\ UNCHANGED <<mloc, pc, tseq, tmin>>
       ELSE UNCHANGED <<level, waiters, mloc, pc, tseq, tmin>>
    /\ UNCHANGED <<flag, seq, stamped, starts>>

\* PseudoAppSource::onTokenAvailable on thread t.  consumeOneToken, under
\* level_mtx_: a token is taken, or the flag is set.  With a token the
\* source requests a minion: one in the pool runs process on this thread,
\* otherwise the request is parked.  Without one the handler sets the
\* flag a second time, as a separate step after the lock is released.
OnTokenAvailable(t) ==
    /\ ~Running(t) /\ ota > 0 /\ Len(stamped) < MaxMsgs
    /\ ota' = ota - 1
    /\ IF level >= 1
       THEN /\ level' = level - 1
            /\ IF \E m \in Minions : mloc[m] = "pool"
               THEN \E m \in {x \in Minions : mloc[x] = "pool"} :
                      BeginProcess(t, m) /\ UNCHANGED waiters
               ELSE waiters' = waiters + 1 /\ UNCHANGED <<mloc, pc, tseq, tmin>>
            /\ UNCHANGED flag
       ELSE /\ flag' = TRUE
            /\ pc' = [pc EXCEPT ![t] = "ota_store"]
            /\ UNCHANGED <<level, waiters, mloc, tseq, tmin>>
    /\ UNCHANGED <<seq, stamped, starts>>

\* The else branch of onTokenAvailable: should_send_ontoken_available_
\* .store(true), outside level_mtx_.
FlagStore(t) ==
    /\ pc[t] = "ota_store"
    /\ flag' = TRUE
    /\ pc' = [pc EXCEPT ![t] = "idle"]
    /\ UNCHANGED <<level, ota, waiters, mloc, tseq, tmin, seq, stamped, starts>>

\* Fault variant of SeqWrite: process does not post the next
\* onTokenAvailable.
SeqWriteNoPost(t) ==
    /\ pc[t] = "seq_write"
    /\ seq' = tseq[t] + 1
    /\ stamped' = Append(stamped, tseq[t])
    /\ mloc' = [mloc EXCEPT ![tmin[t]] = "away"]
    /\ pc' = [pc EXCEPT ![t] = "idle"]
    /\ UNCHANGED <<level, flag, ota, waiters, tseq, tmin, starts>>

\* The rest of PseudoAppSource::process: seq_ is written back from the
\* value read, the header carries that value, onTokenAvailable is posted
\* and the minion goes on to the crossbar.
SeqWrite(t) ==
    /\ pc[t] = "seq_write"
    /\ seq' = tseq[t] + 1
    /\ stamped' = Append(stamped, tseq[t])
    /\ ota' = ota + 1
    /\ mloc' = [mloc EXCEPT ![tmin[t]] = "away"]
    /\ pc' = [pc EXCEPT ![t] = "idle"]
    /\ UNCHANGED <<level, flag, waiters, tseq, tmin, starts>>

\* Minion m, sent on by the crossbar, reaches MinionPool::process on
\* thread t (after the peer link's onDataSent, or from the sink): it is
\* recycled and serves a parked request of the source on this thread
\* (process begins), or is queued in the pool.
Return(t, m) ==
    /\ ~Running(t) /\ mloc[m] = "away" /\ Len(stamped) < MaxMsgs
    /\ IF waiters > 0
       THEN waiters' = waiters - 1 /\ BeginProcess(t, m)
       ELSE /\ mloc' = [mloc EXCEPT ![m] = "pool"]
            /\ UNCHANGED <<waiters, pc, tseq, tmin>>
    /\ UNCHANGED <<level, flag, ota, seq, stamped, starts>>

\* The source has stamped its MaxMsgs messages.
MsgsDone ==
    /\ Len(stamped) >= MaxMsgs
    /\ UNCHANGED vars

Next ==
    \/ \E t \in Threads :
         \/ Start(t) \/ GenerateOneToken(t) \/ OnTokenAvailable(t)
         \/ FlagStore(t) \/ SeqWrite(t)
         \/ \E m \in Minions : Return(t, m)
    \/ MsgsDone

\* The timer keeps firing, the reactor runs every posted handler, a thread
\* inside process finishes it, and minions come back from downstream.
\* Re-announcements (Start) are not fair.
Spec ==
    /\ Init /\ [][Next]_vars
    /\ WF_vars(\E t \in Threads : GenerateOneToken(t))
    /\ WF_vars(\E t \in Threads : OnTokenAvailable(t))
    /\ \A t \in Threads : WF_vars(FlagStore(t)) /\ WF_vars(SeqWrite(t))
    /\ WF_vars(\E t \in Threads, m \in Minions : Return(t, m))

-----------------------------------------------------------------------------
(* Properties *)

\* A chain of onTokenAvailable is alive: a handler posted, a request
\* parked in the pool, or a thread inside process (which posts the next).
ChainAlive ==
    ota > 0 \/ waiters > 0 \/ \E t \in Threads : pc[t] = "seq_write"

\* The flag is the source's only way back: whenever it is clear, some
\* chain is alive to take the next token.  Otherwise generateOneToken
\* never posts onTokenAvailable again and the source stops for good.
NoLostWakeup == ~flag => ChainAlive

\* The source never stalls: it eventually stamps all its messages.
SourceProgress == <>(Len(stamped) >= MaxMsgs)

\* spec.md 4.10: the source stamps an incrementing seq, so no two of its
\* messages carry the same seq number.
SeqUnique == IsInjective(stamped)
=============================================================================
