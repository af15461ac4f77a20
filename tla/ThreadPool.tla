----------------------------- MODULE ThreadPool -----------------------------
(***************************************************************************)
(* The SDK's thread pool (lib/utils/thread_pool.hpp) over its lock-free    *)
(* queue (lib/lfq): worker threads take work entries from the queue and    *)
(* sleep on a semaphore when it is empty; a poster hands in rounds of work *)
(* and waits for each at a barrier of its own.  A call of the boost queue  *)
(* is atomic (external).                                                   *)
(***************************************************************************)
EXTENDS Naturals, Sequences, FiniteSets

CONSTANTS
    Workers,     \* worker threads
    OnceThreads, \* threads of work_post_once
    Rounds,      \* rounds the poster hands in, each with its barrier
    Count        \* works of a round

ASSUME PoolAssumption ==
    /\ IsFiniteSet(Workers) /\ IsFiniteSet(OnceThreads)
    /\ Rounds \in Nat /\ Count \in Nat \ {0}

VARIABLES
    pool,      \* stop_, pending_, the semaphore, active_nthreads_
    work_q,    \* lfq_: the round each work belongs to
    worker,    \* worker -> where it is and the round of its work
    barrier,   \* round -> pending_ and whether wait_lock_ is taken
    poster,    \* the thread that owns the pool
    once,      \* threads of work_post_once: where they are
    ran        \* round -> callbacks that have returned

poolVars == <<pool, work_q, worker, barrier, poster, once, ran>>

RoundIds == 1 .. Rounds

PoolTypeOK ==
    /\ pool \in [stop: BOOLEAN, pending: 0 .. Count * Rounds, sem: Nat,
                 active: 0 .. Cardinality(Workers) + Cardinality(OnceThreads)]
    /\ work_q \in Seq(RoundIds)
    /\ worker \in [Workers -> [pc: {"off", "loop", "get", "sleep", "run", "ran", "done", "check",
                                    "exit"}, round: 0 .. Rounds]]
    /\ barrier \in [RoundIds -> [pending: 0 .. Count, locked: BOOLEAN]]
    /\ poster \in [pc: {"no pool", "idle", "post", "signal", "wait", "join"},
                   round: 0 .. Rounds, left: 0 .. Count]
    /\ once \in [OnceThreads -> {"none", "run", "done"}]
    /\ ran \in [RoundIds -> 0 .. Count]

Go(w, pc)  == worker' = [worker EXCEPT ![w].pc = pc]

-----------------------------------------------------------------------------
\* factory and start_: the threads are counted, then created.
PoolFactory ==
    /\ poster.pc = "no pool"
    /\ pool' = [stop |-> FALSE, pending |-> 0, sem |-> 0,
                active |-> pool.active + Cardinality(Workers)]
    /\ worker' = [w \in Workers |-> [pc |-> "loop", round |-> 0]]
    /\ poster' = [poster EXCEPT !.pc = "idle"]
    /\ UNCHANGED <<work_q, barrier, once, ran>>

\* barrier_init: the mutex starts locked.
barrier_init ==
    /\ poster.pc = "idle"
    /\ poster.round < Rounds
    /\ poster' = [pc |-> "post", round |-> poster.round + 1, left |-> Count]
    /\ barrier' = [barrier EXCEPT ![poster.round + 1] = [pending |-> Count, locked |-> TRUE]]
    /\ UNCHANGED <<pool, work_q, worker, once, ran>>

\* Mutant of work_post: the semaphore is posted first.
work_postMutant ==
    \/ /\ poster.pc = "post"
       /\ pool' = [pool EXCEPT !.pending = @ + 1, !.sem = @ + 1]
       /\ poster' = [poster EXCEPT !.pc = "signal"]
       /\ UNCHANGED <<work_q, worker, barrier, once, ran>>
    \/ /\ poster.pc = "signal"
       /\ work_q' = Append(work_q, poster.round)
       /\ poster' = [poster EXCEPT !.pc = IF poster.left = 1 THEN "wait" ELSE "post", !.left = @ - 1]
       /\ UNCHANGED <<pool, worker, barrier, once, ran>>

\* work_post: counted and queued, then the semaphore is posted.
work_post ==
    \/ /\ poster.pc = "post"
       /\ pool' = [pool EXCEPT !.pending = @ + 1]
       /\ work_q' = Append(work_q, poster.round)
       /\ poster' = [poster EXCEPT !.pc = "signal"]
       /\ UNCHANGED <<worker, barrier, once, ran>>
    \/ /\ poster.pc = "signal"
       /\ pool' = [pool EXCEPT !.sem = @ + 1]
       /\ poster' = [poster EXCEPT !.pc = IF poster.left = 1 THEN "wait" ELSE "post", !.left = @ - 1]
       /\ UNCHANGED <<work_q, worker, barrier, once, ran>>

\* barrier_wait: takes the mutex once a worker has let go of it.
barrier_wait ==
    /\ poster.pc = "wait"
    /\ ~barrier[poster.round].locked
    /\ barrier' = [barrier EXCEPT ![poster.round].locked = TRUE]
    /\ poster' = [poster EXCEPT !.pc = "idle"]
    /\ UNCHANGED <<pool, work_q, worker, once, ran>>

\* destroy: refused while work is pending; else every worker is woken to stop.
PoolDestroy ==
    /\ poster.pc = "idle"
    /\ pool.pending = 0
    /\ pool' = [pool EXCEPT !.stop = TRUE, !.sem = @ + Cardinality(Workers)]
    /\ poster' = [poster EXCEPT !.pc = "join"]
    /\ UNCHANGED <<work_q, worker, barrier, once, ran>>

\* ... and joined.
PoolJoined ==
    /\ poster.pc = "join"
    /\ \A w \in Workers : worker[w].pc = "exit"
    /\ pool' = [pool EXCEPT !.active = @ - Cardinality(Workers)]
    /\ worker' = [w \in Workers |-> [pc |-> "off", round |-> 0]]
    /\ poster' = [poster EXCEPT !.pc = "no pool"]
    /\ UNCHANGED <<work_q, barrier, once, ran>>

-----------------------------------------------------------------------------
\* work_loop_: stop_ is read before the next work is asked for.
WorkLoop(w) ==
    /\ worker[w].pc = "loop"
    /\ Go(w, IF pool.stop THEN "exit" ELSE "get")
    /\ UNCHANGED <<pool, work_q, barrier, poster, once, ran>>

\* work_get_: an entry of the queue, or to sleep.
work_get(w) ==
    /\ worker[w].pc = "get"
    /\ \/ /\ work_q = <<>>
          /\ Go(w, "sleep")
          /\ UNCHANGED work_q
       \/ /\ work_q # <<>>
          /\ worker' = [worker EXCEPT ![w] = [pc |-> "run", round |-> Head(work_q)]]
          /\ work_q' = Tail(work_q)
    /\ UNCHANGED <<pool, barrier, poster, once, ran>>

\* sem_wait returns.
Wake(w) ==
    /\ worker[w].pc = "sleep"
    /\ pool.sem > 0
    /\ pool' = [pool EXCEPT !.sem = @ - 1]
    /\ Go(w, "loop")
    /\ UNCHANGED <<work_q, barrier, poster, once, ran>>

\* The callback and the status callback return.
RunWork(w) ==
    /\ worker[w].pc = "run"
    /\ ran' = [ran EXCEPT ![worker[w].round] = @ + 1]
    /\ Go(w, "ran")
    /\ UNCHANGED <<pool, work_q, barrier, poster, once>>

CountDown(w) ==
    /\ worker[w].pc = "ran"
    /\ pool' = [pool EXCEPT !.pending = @ - 1]
    /\ Go(w, "done")
    /\ UNCHANGED <<work_q, barrier, poster, once, ran>>

\* done_: the count goes down, is read again, and the mutex is unlocked at zero
\* (by two workers, if both read after both have counted down).
work_barrier_done(w) ==
    \/ /\ worker[w].pc = "done"
       /\ barrier' = [barrier EXCEPT ![worker[w].round].pending = @ - 1]
       /\ Go(w, "check")
       /\ UNCHANGED <<pool, work_q, poster, once, ran>>
    \/ /\ worker[w].pc = "check"
       /\ barrier' = [barrier EXCEPT ![worker[w].round].locked =
                        @ /\ barrier[worker[w].round].pending # 0]
       /\ Go(w, "loop")
       /\ UNCHANGED <<pool, work_q, poster, once, ran>>

-----------------------------------------------------------------------------
\* work_post_once and thread_run_: a thread for one work, counted as active.
work_post_once(o) ==
    /\ once[o] = "none"
    /\ once' = [once EXCEPT ![o] = "run"]
    /\ pool' = [pool EXCEPT !.active = @ + 1]
    /\ UNCHANGED <<work_q, worker, barrier, poster, ran>>

thread_run(o) ==
    /\ once[o] = "run"
    /\ once' = [once EXCEPT ![o] = "done"]
    /\ pool' = [pool EXCEPT !.active = @ - 1]
    /\ UNCHANGED <<work_q, worker, barrier, poster, ran>>

PoolInit ==
    /\ pool = [stop |-> FALSE, pending |-> 0, sem |-> 0, active |-> 0]
    /\ work_q = <<>>
    /\ worker = [w \in Workers |-> [pc |-> "off", round |-> 0]]
    /\ barrier = [r \in RoundIds |-> [pending |-> 0, locked |-> FALSE]]
    /\ poster = [pc |-> "no pool", round |-> 0, left |-> 0]
    /\ once = [o \in OnceThreads |-> "none"]
    /\ ran = [r \in RoundIds |-> 0]

PoolNext ==
    \/ PoolFactory \/ barrier_init \/ work_post \/ barrier_wait \/ PoolDestroy \/ PoolJoined
    \/ \E w \in Workers : WorkLoop(w) \/ work_get(w) \/ Wake(w) \/ RunWork(w)
                            \/ CountDown(w) \/ work_barrier_done(w)
    \/ \E o \in OnceThreads : work_post_once(o) \/ thread_run(o)

PoolSpec == PoolInit /\ [][PoolNext]_poolVars

-----------------------------------------------------------------------------
\* The poster passes a barrier only when every work of the round has run
\* (barrier_wait, done_), though the mutex may be unlocked twice.
BarrierMeansRan ==
    \A r \in RoundIds :
        r < poster.round \/ (r = poster.round /\ poster.pc \in {"idle", "join"}) => ran[r] = Count

\* Work is not left behind: while the queue holds an entry whose semaphore was
\* posted, or the pool is being destroyed, a worker that sleeps has a token to
\* wake up on, or another worker is awake and will look (work_post, work_get_).
NobodySleepsOverWork ==
    LET asleep == {w \in Workers : worker[w].pc = "sleep"} IN
    /\ work_q # <<>> /\ poster.pc # "signal" /\ asleep = Workers => pool.sem > 0
    /\ pool.stop => pool.sem >= Cardinality(asleep)

\* A barrier waits for all of its works, and every work finds a worker
\* (thread_pool.hpp).
PoolSound == BarrierMeansRan /\ NobodySleepsOverWork
=============================================================================
