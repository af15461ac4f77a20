----------------------------- MODULE TimerWheel -----------------------------
(***************************************************************************)
(* The SDK's timer wheel (lib/twheel) and the periodic thread that turns   *)
(* it (lib/periodic).  Each slice of the wheel is a list of entries under  *)
(* its own spinlock.  The periodic thread walks the current slice with the *)
(* lock held and takes a second lock to move an entry; other threads add,  *)
(* delete and update timers.  Time is counted in slices walked.            *)
(***************************************************************************)
EXTENDS Naturals, Sequences, SequencesExt, FiniteSetsExt

CONSTANTS
    Timers,        \* memory for entries (the slab)
    WheelUsers,    \* threads that call timer_schedule and its friends
    NSlices,       \* nslices_
    SliceIntvl,    \* slice_intvl_
    Timeouts,      \* timeouts a caller asks for, in the unit of SliceIntvl
    MaxTimeout,    \* the largest one that timeout_ can hold (a uint32_t)
    DelayDelete,   \* TWHEEL_DELAY_DELETE
    MaxMissed      \* bound on expirations that pile up in the timer fd

ASSUME WheelAssumption ==
    /\ NSlices \in Nat /\ NSlices > 1
    /\ SliceIntvl \in Nat \ {0}
    /\ MaxTimeout \in Nat /\ Timeouts \subseteq 0 .. MaxTimeout
    /\ DelayDelete \in Nat /\ MaxMissed \in Nat
    /\ WheelUsers \intersect {"nobody", "ticker"} = {}

VARIABLES
    curr_slice,    \* slice to be walked next, or being walked
    wheel,         \* slice -> list of its entries, head first
    twentry,       \* entry -> its fields
    slock,         \* slice -> who holds its spinlock
    ticker,        \* the periodic thread: phase, entries left to visit, entry and slice to insert
    user,          \* the calls of other threads
    age,           \* slices walked since a timer was armed
    skips,         \* timers armed in a way that misses a turn of the wheel (see NeverEarly)
    missed,        \* expirations of the timer fd not served
    is_running     \* g_twheel_is_running

wheelVars == <<curr_slice, wheel, twentry, slock, ticker, user, age, skips, missed, is_running>>

Slices    == 0 .. NSlices - 1
WheelSpan == NSlices * SliceIntvl
NoLock    == "nobody"
Ticker    == "ticker"
NoCall    == [op |-> "none"]
MaxAge    == MaxTimeout \div SliceIntvl + 1   \* ages above it are not told apart

WheelTypeOK ==
    /\ curr_slice \in Slices
    /\ wheel \in [Slices -> Seq(Timers)]
    /\ twentry \in [Timers -> [home: {"slab", "list", "held"}, slice: Slices,
                               nspins: Nat, valid: BOOLEAN, periodic: BOOLEAN,
                               timeout: Nat]]
    /\ slock \in [Slices -> {NoLock, Ticker} \union WheelUsers]
    /\ ticker.phase \in {"new", "idle", "walk", "move", "off"}
    /\ ticker.phase = "move" => ticker.entry.slice \in Slices
    /\ \A u \in WheelUsers : user[u] # NoCall => user[u].entry.slice \in Slices
    /\ age \in [Timers -> 0 .. MaxAge]
    /\ skips \subseteq Timers
    /\ missed \in 0 .. MaxMissed
    /\ is_running \in BOOLEAN

-----------------------------------------------------------------------------

\* The slice a timeout from now falls into; an update avoids the entry's own
\* slice, whose lock the caller holds.
next_slice(timeout, entry_slice, update) ==
    LET num_slices == Max({1, (timeout % WheelSpan) \div SliceIntvl})
        slice      == (curr_slice + num_slices) % NSlices
    IN  IF update /\ slice = entry_slice THEN (slice + 1) % NSlices ELSE slice

\* Mutant of init_twentry: a timeout of exactly one turn does not spin.
init_twentryMutant(timeout, periodic, slice, valid) ==
    [home |-> "list", slice |-> slice, nspins |-> (Max({1, timeout}) - 1) \div WheelSpan,
     valid |-> valid, periodic |-> periodic, timeout |-> timeout]

\* The fields init_twentry_ gives an entry, and insert_timer_ its valid_.
init_twentry(timeout, periodic, slice, valid) ==
    [home |-> "list", slice |-> slice, nspins |-> timeout \div WheelSpan,
     valid |-> valid, periodic |-> periodic, timeout |-> timeout]

\* insert_timer_: at the head of its slice.
insert_timer(t, entry) ==
    /\ wheel' = [wheel EXCEPT ![entry.slice] = <<t>> \o @]
    /\ twentry' = [twentry EXCEPT ![t] = entry]

\* unlink_timer_: the entry leaves its list, its neighbours are linked.
unlink_timer(list, t) == RemoveAt(list, CHOOSE i \in DOMAIN list : list[i] = t)

\* remove_timer_: out of the list of the slice the entry says it is in.
remove_timer(t) ==
    /\ wheel' = [wheel EXCEPT ![twentry[t].slice] = unlink_timer(@, t)]
    /\ twentry' = [twentry EXCEPT ![t].home = "held", ![t].valid = FALSE]

-----------------------------------------------------------------------------
\* timer_schedule and add_timer: an entry from the slab, its slice worked out
\* from curr_slice, which no lock protects.  The turns to wait are those of the
\* timeout, without the initial delay.
AddTimer(u, t, timeout, delay, periodic) ==
    /\ ticker.phase # "new"
    /\ user[u] = NoCall
    /\ twentry[t].home = "slab"
    /\ twentry' = [twentry EXCEPT ![t].home = "held"]
    /\ age' = [age EXCEPT ![t] = 0]
    /\ user' = [user EXCEPT ![u] = [op |-> "add", t |-> t, entry |->
                  init_twentry(timeout, periodic, next_slice(delay + timeout, 0, FALSE), TRUE)]]
    /\ skips' = IF (delay + timeout) \div WheelSpan = timeout \div WheelSpan
                THEN skips \ {t} ELSE skips \union {t}
    /\ UNCHANGED <<curr_slice, wheel, slock, ticker, missed, is_running>>

\* The entry goes into its slice, under the lock.
AddInsert(u) ==
    /\ user[u].op = "add"
    /\ slock[user[u].entry.slice] = NoLock
    /\ insert_timer(user[u].t, user[u].entry)
    /\ user' = [user EXCEPT ![u] = NoCall]
    /\ UNCHANGED <<curr_slice, slock, ticker, age, skips, missed, is_running>>

\* del_timer: a timer that is not valid any more is left alone; a valid one is
\* taken out, and its slice for the delayed free is worked out.
DelTimer(u, t) ==
    /\ user[u] = NoCall
    /\ twentry[t].home = "list" /\ twentry[t].valid
    /\ slock[twentry[t].slice] = NoLock
    /\ remove_timer(t)
    /\ user' = [user EXCEPT ![u] = [op |-> "del", t |-> t, entry |->
                  init_twentry(DelayDelete, FALSE,
                               next_slice(DelayDelete, twentry[t].slice, TRUE), FALSE)]]
    /\ UNCHANGED <<curr_slice, slock, ticker, age, skips, missed, is_running>>

\* delay_delete_: back into a list, not valid, to be freed when it comes round.
DelInsert(u) ==
    /\ user[u].op = "del"
    /\ slock[user[u].entry.slice] = NoLock
    /\ insert_timer(user[u].t, user[u].entry)
    /\ user' = [user EXCEPT ![u] = NoCall]
    /\ UNCHANGED <<curr_slice, slock, ticker, age, skips, missed, is_running>>

\* upd_timer: taken out under the lock of its slice, which is kept.
UpdTimer(u, t, timeout, periodic) ==
    /\ user[u] = NoCall
    /\ twentry[t].home = "list" /\ twentry[t].valid
    /\ slock[twentry[t].slice] = NoLock
    /\ slock' = [slock EXCEPT ![twentry[t].slice] = u]
    /\ remove_timer(t)
    /\ LET slice == next_slice(timeout, twentry[t].slice, TRUE) IN
         /\ user' = [user EXCEPT ![u] = [op |-> "upd", t |-> t, from |-> twentry[t].slice,
                       entry |-> init_twentry(timeout, periodic, slice, TRUE)]]
         /\ skips' = IF slice = curr_slice THEN skips \union {t} ELSE skips \ {t}
    /\ age' = [age EXCEPT ![t] = 0]
    /\ UNCHANGED <<curr_slice, ticker, missed, is_running>>

\* ... and put into the new slice, under both locks.
UpdInsert(u) ==
    /\ user[u].op = "upd"
    /\ slock[user[u].entry.slice] = NoLock
    /\ insert_timer(user[u].t, user[u].entry)
    /\ slock' = [slock EXCEPT ![user[u].from] = NoLock]
    /\ user' = [user EXCEPT ![u] = NoCall]
    /\ UNCHANGED <<curr_slice, ticker, age, skips, missed, is_running>>

-----------------------------------------------------------------------------
\* periodic_thread_init: the wheel exists and the timer fd is armed.
PeriodicInit ==
    /\ ticker.phase = "new"
    /\ ticker' = [phase |-> "idle"]
    /\ is_running' = TRUE
    /\ UNCHANGED <<curr_slice, wheel, twentry, slock, user, age, skips, missed>>

\* The timer fd expires.
Expire ==
    /\ is_running
    /\ missed < MaxMissed
    /\ missed' = missed + 1
    /\ UNCHANGED <<curr_slice, wheel, twentry, slock, ticker, user, age, skips, is_running>>

\* tick, for one of the missed slices: lock it and start at its last entry.
TickSlice ==
    /\ ticker.phase = "idle"
    /\ missed > 0
    /\ slock[curr_slice] = NoLock
    /\ missed' = missed - 1
    /\ slock' = [slock EXCEPT ![curr_slice] = Ticker]
    /\ ticker' = [phase |-> "walk", left |-> wheel[curr_slice]]
    /\ UNCHANGED <<curr_slice, wheel, twentry, user, age, skips, is_running>>

\* A deleted entry is unlinked and freed.
TickFree(t) ==
    /\ ~twentry[t].valid
    /\ wheel' = [wheel EXCEPT ![twentry[t].slice] = unlink_timer(@, t)]
    /\ twentry' = [twentry EXCEPT ![t].home = "slab"]
    /\ ticker' = [ticker EXCEPT !.left = Front(@)]
    /\ UNCHANGED <<age, skips>>

\* A timer longer than the wheel waits for another turn.
TickSpin(t) ==
    /\ twentry[t].valid
    /\ twentry[t].nspins > 0
    /\ twentry' = [twentry EXCEPT ![t].nspins = @ - 1]
    /\ ticker' = [ticker EXCEPT !.left = Front(@)]
    /\ UNCHANGED <<wheel, age, skips>>

\* The callback runs; a periodic timer is armed again, another one goes to the
\* delayed free.  Either way it leaves its slice and waits for another lock.
TickFire(t) ==
    /\ twentry[t].valid
    /\ twentry[t].nspins = 0
    /\ remove_timer(t)
    /\ LET rearm   == twentry[t].periodic
           timeout == IF rearm THEN twentry[t].timeout ELSE DelayDelete
       IN  ticker' = [phase |-> "move", left |-> Front(ticker.left), t |-> t, entry |->
              init_twentry(timeout, rearm, next_slice(timeout, twentry[t].slice, TRUE), rearm)]
    /\ age' = [age EXCEPT ![t] = 0]
    /\ skips' = skips \ {t}

\* The walk, one entry from the tail of the list.
TickVisit ==
    /\ ticker.phase = "walk"
    /\ ticker.left # <<>>
    /\ \/ TickFree(Last(ticker.left))
       \/ TickSpin(Last(ticker.left))
       \/ TickFire(Last(ticker.left))
    /\ UNCHANGED <<curr_slice, slock, user, missed, is_running>>

\* upd_timer_ and delay_delete_ take the second lock and insert the entry.
TickMove ==
    /\ ticker.phase = "move"
    /\ slock[ticker.entry.slice] = NoLock
    /\ insert_timer(ticker.t, ticker.entry)
    /\ ticker' = [phase |-> "walk", left |-> ticker.left]
    /\ UNCHANGED <<curr_slice, slock, user, age, skips, missed, is_running>>

\* The slice is done.
TickDone ==
    /\ ticker.phase = "walk"
    /\ ticker.left = <<>>
    /\ slock' = [slock EXCEPT ![curr_slice] = NoLock]
    /\ curr_slice' = (curr_slice + 1) % NSlices
    /\ age' = [t \in Timers |-> IF twentry[t].home = "slab" THEN 0 ELSE Min({age[t] + 1, MaxAge})]
    /\ ticker' = [phase |-> "idle"]
    /\ UNCHANGED <<wheel, twentry, user, skips, missed, is_running>>

\* timerfd_wait fails: the periodic thread leaves its loop; the wheel stays.
PeriodicExit ==
    /\ ticker.phase = "idle"
    /\ ticker' = [phase |-> "off"]
    /\ is_running' = FALSE
    /\ UNCHANGED <<curr_slice, wheel, twentry, slock, user, age, skips, missed>>

WheelInit ==
    /\ curr_slice = 0
    /\ wheel = [s \in Slices |-> <<>>]
    /\ twentry = [t \in Timers |-> [home |-> "slab", slice |-> 0, nspins |-> 0,
                                    valid |-> FALSE, periodic |-> FALSE, timeout |-> 0]]
    /\ slock = [s \in Slices |-> NoLock]
    /\ ticker = [phase |-> "new"]
    /\ user = [u \in WheelUsers |-> NoCall]
    /\ age = [t \in Timers |-> 0]
    /\ skips = {}
    /\ missed = 0
    /\ is_running = FALSE

WheelNext ==
    \/ \E u \in WheelUsers, t \in Timers :
         \/ \E timeout \in Timeouts, delay \in {0, SliceIntvl}, periodic \in BOOLEAN :
              AddTimer(u, t, timeout, delay, periodic)
         \/ DelTimer(u, t)
         \/ \E timeout \in Timeouts, periodic \in BOOLEAN : UpdTimer(u, t, timeout, periodic)
    \/ \E u \in WheelUsers : AddInsert(u) \/ DelInsert(u) \/ UpdInsert(u)
    \/ PeriodicInit \/ Expire \/ TickSlice \/ TickVisit \/ TickMove \/ TickDone
    \/ PeriodicExit

WheelSpec == WheelInit /\ [][WheelNext]_wheelVars

-----------------------------------------------------------------------------
\* Entries that some thread has taken out of the lists and will put back.
InHand == {user[u].t : u \in {v \in WheelUsers : user[v] # NoCall}}
            \union (IF ticker.phase = "move" THEN {ticker.t} ELSE {})

\* The lists stay sound while entries move between slices under two locks taken
\* one after the other (unlink_timer_, insert_timer_): an entry sits in the list
\* of the slice it names and in no other, once; one that is in no list is free,
\* or in the hand of exactly one thread.
WheelSound ==
    /\ \A s \in Slices : IsInjective(wheel[s])
    /\ \A t \in Timers :
         /\ {s \in Slices : t \in Range(wheel[s])} =
              IF twentry[t].home = "list" THEN {twentry[t].slice} ELSE {}
         /\ (twentry[t].home = "held") <=> (t \in InHand)
    /\ \A u, v \in WheelUsers : user[u] # NoCall /\ user[v] # NoCall /\ user[u].t = user[v].t
                                => u = v

\* No callback runs before its timeout has passed, counted in whole slices,
\* however long the timeout is against the wheel and however often it is
\* updated (next_slice_, nspins_).  Two ways to arm a timer miss a turn and are
\* left out: an initial delay that crosses the end of a turn, and an update
\* that would stay in its slice and is moved on into the current one.
NeverEarly ==
    ticker.phase = "walk" /\ ticker.left # <<>> =>
      LET t == Last(ticker.left) IN
      twentry[t].valid /\ twentry[t].nspins = 0 /\ t \notin skips =>
        age[t] >= twentry[t].timeout \div SliceIntvl

\* The wheel keeps every timer in one place and fires none before its time, with
\* threads and the tick at work on it at once (twheel.cc).
WheelKeepsTimers == WheelSound /\ NeverEarly
=============================================================================
