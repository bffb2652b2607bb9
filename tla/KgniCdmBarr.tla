----------------------------- MODULE KgniCdmBarr -----------------------------
(***************************************************************************)
(* The job-wide barrier of the host kgni driver: kgni_cdm_barr() of        *)
(* kgni_ops.c, called by GNI_IOC_CDM_BARR.  All instances that share a     *)
(* ptag share one kgni_barr_res_t, res->barr.  Every section the code runs *)
(* under kgni_dev->rsrc_lock is one step; between the sections a caller is *)
(* inside kzalloc() or in down_timeout()/down_interruptible().             *)
(*                                                                         *)
(* The NIC handle of a caller holds a reference on resources[ptag] and the *)
(* ioctl holds the open file, so resources[ptag] stays allocated.          *)
(***************************************************************************)
EXTENDS Integers, Sequences, FiniteSets

CONSTANTS Procs,      \* the instances that may call the barrier
          Sizes,      \* the values of the size argument they pass
          MaxCalls,   \* bound: calls each instance makes
          GivesUp,    \* may down_timeout()/down_interruptible() fail
          AllocFails  \* may kzalloc() fail

ASSUME BarrAssumption ==
  /\ IsFiniteSet(Procs)
  /\ Sizes \subseteq Nat
  /\ MaxCalls \in Nat
  /\ GivesUp \in BOOLEAN
  /\ AllocFails \in BOOLEAN

VARIABLES exists,   \* res->barr # NULL
          bsize,    \* barr->size
          count,    \* barr->count
          ref_cnt,  \* barr->ref_cnt
          sem,      \* the count of barr->sem
          sleepers, \* the wait list of barr->sem, first come first served
          pc,       \* where each caller is
          size,     \* the size argument of each call
          ret,      \* what down...() left in rc, then what the call returned
          calls,    \* how many calls each instance has started
          arrived,  \* ghost: the instances that joined the round in progress
          released  \* ghost: the waiters whose round size instances joined

barr == <<exists, bsize, count, ref_cnt, sem, sleepers>>
ghosts == <<arrived, released>>
vars == <<barr, pc, size, ret, calls, ghosts>>

\* Where a caller can be: outside; in kzalloc(); past the unlock and before
\* down(); asleep on the semaphore; awake and about to take rsrc_lock again.
Locations == {"out", "alloc", "down", "asleep", "awake"}

\* The locations of a caller that has raised ref_cnt and not lowered it yet.
Inside == {"down", "asleep", "awake"}

Results == {"OK", "EINVAL", "ENOMEM", "EAGAIN", "none"}

Init ==
  /\ exists = FALSE
  /\ bsize = 0 /\ count = 0 /\ ref_cnt = 0
  /\ sem = 0 /\ sleepers = <<>>
  /\ pc = [p \in Procs |-> "out"]
  /\ size = [p \in Procs |-> 0]
  /\ ret = [p \in Procs |-> "none"]
  /\ calls = [p \in Procs |-> 0]
  /\ arrived = {}
  /\ released = {}

-----------------------------------------------------------------------------

\* The caller leaves the function with rc.
Return(p, rc) ==
  /\ pc' = [pc EXCEPT ![p] = "out"]
  /\ ret' = [ret EXCEPT ![p] = rc]

\* How many times the last one to join calls up().
WakesOneTooFew(s) == s - 2
WakesOneTooMany(s) == s
Wakes(s) == s - 1

\* The tokens of a new semaphore.
OneToken == 1
InitialTokens == 0

\* The caller that has just lowered ref_cnt to r frees the barrier.
FreesTooEarly(r) == r = 1
Frees(r) == r = 0

\* n times up(): each one hands the token to the longest sleeper, and only a
\* token nobody sleeps for is added to the semaphore's count.
Woken(n) ==
  {sleepers[i] : i \in {j \in 1..Len(sleepers) : j <= n}}

Up(n) ==
  IF n < Len(sleepers)
  THEN /\ sleepers' = SubSeq(sleepers, n + 1, Len(sleepers))
       /\ sem' = sem
  ELSE /\ sleepers' = <<>>
       /\ sem' = sem + n - Len(sleepers)

\* The barrier exists, holds count = size and somebody may still be inside:
\* the caller sets it up again for a round of its own.
ReuseUncounted(p, s) ==
  /\ count = bsize
  /\ bsize' = s
  /\ count' = 1
  /\ pc' = [pc EXCEPT ![p] = "down"]
  /\ arrived' = {p}
  /\ ret' = [ret EXCEPT ![p] = "none"]
  /\ UNCHANGED <<exists, ref_cnt, sem, sleepers, released>>

Reuse(p, s) ==
  /\ count = bsize
  /\ bsize' = s
  /\ count' = 1
  /\ ref_cnt' = ref_cnt + 1
  /\ pc' = [pc EXCEPT ![p] = "down"]
  /\ arrived' = {p}
  /\ ret' = [ret EXCEPT ![p] = "none"]
  /\ UNCHANGED <<exists, sem, sleepers, released>>

\* The caller's size is not the one of the round being collected.
Mismatch(p, s) ==
  /\ count # bsize
  /\ bsize # s
  /\ Return(p, "EINVAL")
  /\ UNCHANGED <<barr, ghosts>>

\* The caller is counted and is not the last one.
JoinNotLast(p, s) ==
  /\ count # bsize
  /\ bsize = s
  /\ count + 1 # bsize
  /\ count' = count + 1
  /\ ref_cnt' = ref_cnt + 1
  /\ pc' = [pc EXCEPT ![p] = "down"]
  /\ arrived' = arrived \cup {p}
  /\ ret' = [ret EXCEPT ![p] = "none"]
  /\ UNCHANGED <<exists, bsize, sem, sleepers, released>>

\* The caller is the last one: size - 1 times up(), and out without waiting
\* and without ever raising ref_cnt.
JoinLast(p, s) ==
  /\ count # bsize
  /\ bsize = s
  /\ count + 1 = bsize
  /\ count' = count + 1
  /\ Up(Wakes(s))
  /\ pc' = [q \in Procs |->
              IF q = p THEN "out"
              ELSE IF q \in Woken(Wakes(s)) THEN "awake"
              ELSE pc[q]]
  /\ ret' = [q \in Procs |->
               IF q = p \/ q \in Woken(Wakes(s)) THEN "OK"
               ELSE ret[q]]
  /\ released' = IF Cardinality(arrived \cup {p}) = s
                 THEN released \cup {q \in arrived : pc[q] \in Inside}
                 ELSE released
  /\ arrived' = {}
  /\ UNCHANGED <<exists, bsize, ref_cnt>>

\* if(!init_barr) { ... }, for a caller that found res->barr != NULL.
JoinBarr(p, s) ==
  \/ Reuse(p, s)
  \/ Mismatch(p, s)
  \/ JoinNotLast(p, s)
  \/ JoinLast(p, s)

-----------------------------------------------------------------------------

\* A call with a size below 2 returns at once.
CallTrivial(p, s) ==
  /\ pc[p] = "out" /\ calls[p] < MaxCalls
  /\ s < 2
  /\ Return(p, IF s < 1 THEN "EINVAL" ELSE "OK")
  /\ calls' = [calls EXCEPT ![p] = @ + 1]
  /\ size' = [size EXCEPT ![p] = s]
  /\ UNCHANGED <<barr, ghosts>>

\* The first locked section finds no barrier: unlock, kzalloc().
CallAlloc(p, s) ==
  /\ pc[p] = "out" /\ calls[p] < MaxCalls
  /\ s >= 2
  /\ ~exists
  /\ pc' = [pc EXCEPT ![p] = "alloc"]
  /\ size' = [size EXCEPT ![p] = s]
  /\ ret' = [ret EXCEPT ![p] = "none"]
  /\ calls' = [calls EXCEPT ![p] = @ + 1]
  /\ UNCHANGED <<barr, ghosts>>

\* The first locked section finds a barrier and joins it.
CallJoin(p, s) ==
  /\ pc[p] = "out" /\ calls[p] < MaxCalls
  /\ s >= 2
  /\ exists
  /\ size' = [size EXCEPT ![p] = s]
  /\ calls' = [calls EXCEPT ![p] = @ + 1]
  /\ JoinBarr(p, s)

\* kzalloc() fails.
AllocFail(p) ==
  /\ AllocFails
  /\ pc[p] = "alloc"
  /\ Return(p, "ENOMEM")
  /\ UNCHANGED <<barr, size, calls, ghosts>>

\* kzalloc() succeeds and, back under the lock, there is still no barrier.
InstallUnchecked(p) ==
  /\ pc[p] = "alloc"
  /\ exists' = TRUE
  /\ bsize' = size[p]
  /\ count' = 1
  /\ ref_cnt' = 1
  /\ sem' = InitialTokens
  /\ sleepers' = <<>>
  /\ pc' = [pc EXCEPT ![p] = "down"]
  /\ arrived' = {p}
  /\ UNCHANGED <<size, ret, calls, released>>

Install(p) ==
  /\ pc[p] = "alloc"
  /\ ~exists
  /\ exists' = TRUE
  /\ bsize' = size[p]
  /\ count' = 1
  /\ ref_cnt' = 1
  /\ sem' = InitialTokens
  /\ sleepers' = <<>>
  /\ pc' = [pc EXCEPT ![p] = "down"]
  /\ arrived' = {p}
  /\ UNCHANGED <<size, ret, calls, released>>

\* kzalloc() succeeds, but somebody else installed a barrier in the meantime:
\* kfree() the new one and join the other.
LostRace(p) ==
  /\ pc[p] = "alloc"
  /\ exists
  /\ JoinBarr(p, size[p])
  /\ UNCHANGED <<size, calls>>

\* down...() finds a token, whoever it was meant for.
DownTakes(p) ==
  /\ pc[p] = "down"
  /\ sem > 0
  /\ sem' = sem - 1
  /\ pc' = [pc EXCEPT ![p] = "awake"]
  /\ ret' = [ret EXCEPT ![p] = "OK"]
  /\ UNCHANGED <<exists, bsize, count, ref_cnt, sleepers, size, calls, ghosts>>

\* down...() finds no token and sleeps.
DownSleeps(p) ==
  /\ pc[p] = "down"
  /\ sem = 0
  /\ sleepers' = Append(sleepers, p)
  /\ pc' = [pc EXCEPT ![p] = "asleep"]
  /\ UNCHANGED <<exists, bsize, count, ref_cnt, sem, size, ret, calls, ghosts>>

\* The timeout expires or a signal arrives while the caller sleeps.
GiveUp(p) ==
  /\ GivesUp
  /\ pc[p] = "asleep"
  /\ \E i \in 1..Len(sleepers) :
       /\ sleepers[i] = p
       /\ sleepers' = SubSeq(sleepers, 1, i - 1)
                        \o SubSeq(sleepers, i + 1, Len(sleepers))
  /\ pc' = [pc EXCEPT ![p] = "awake"]
  /\ ret' = [ret EXCEPT ![p] = "EAGAIN"]
  /\ UNCHANGED <<exists, bsize, count, ref_cnt, sem, size, calls, ghosts>>

\* The last locked section: whoever takes ref_cnt to 0 frees the barrier (the
\* fields of a freed barrier are kept at 0).
Leave(p) ==
  /\ pc[p] = "awake"
  /\ ref_cnt' = ref_cnt - 1
  /\ IF Frees(ref_cnt')
     THEN exists' = FALSE /\ bsize' = 0 /\ count' = 0 /\ sem' = 0 /\ sleepers' = <<>>
     ELSE UNCHANGED <<exists, bsize, count, sem, sleepers>>
  /\ pc' = [pc EXCEPT ![p] = "out"]
  /\ released' = released \ {p}
  /\ UNCHANGED <<size, ret, calls, arrived>>

-----------------------------------------------------------------------------

Call(p) == \E s \in Sizes : CallTrivial(p, s) \/ CallAlloc(p, s) \/ CallJoin(p, s)

Step(p) ==
  \/ AllocFail(p)
  \/ Install(p)
  \/ LostRace(p)
  \/ DownTakes(p)
  \/ DownSleeps(p)
  \/ GiveUp(p)
  \/ Leave(p)

Next == \E p \in Procs : Call(p) \/ Step(p)

Spec == Init /\ [][Next]_vars

\* A caller inside the function is a runnable kernel thread that sleeps only
\* in the semaphore.  That a timeout fires, and that an instance calls the
\* barrier at all, is not promised.
Running(p) ==
  Install(p) \/ LostRace(p) \/ DownTakes(p) \/ DownSleeps(p) \/ Leave(p)

FairSpec == Spec /\ \A p \in Procs : WF_vars(Running(p))

-----------------------------------------------------------------------------

\* Type correctness of the state of kgni_cdm_barr.
TypeOK ==
  /\ exists \in BOOLEAN
  /\ bsize \in Nat /\ count \in Nat /\ ref_cnt \in Nat
  /\ sem \in Nat /\ sleepers \in Seq(Procs)
  /\ pc \in [Procs -> Locations]
  /\ size \in [Procs -> Nat]
  /\ ret \in [Procs -> Results]
  /\ calls \in [Procs -> Nat]
  /\ arrived \in SUBSET Procs
  /\ released \in SUBSET Procs

Users == {p \in Procs : pc[p] \in Inside}

\* ref_cnt counts exactly the callers between ++ref_cnt and --ref_cnt, and the
\* barrier is freed exactly when there are none: no caller ever touches
\* res->barr after kfree(), and none is left behind when all are gone.
RefCntCountsUsers ==
  /\ exists <=> Users # {}
  /\ ref_cnt = Cardinality(Users)

\* The callers that have not taken their wake-up yet, and the wake-ups they can
\* count on: the tokens in the semaphore, and those the last one to join the
\* round in progress will add.
Waiters == {p \in Procs : pc[p] \in {"down", "asleep"}}
Owed == sem + (IF count = bsize THEN 0 ELSE count)

\* No up() is lost: however rounds, timeouts and allocation failures overlap in
\* the one semaphore, there is a wake-up for every waiter.  Without timeouts
\* none is made twice either.
TokensAreOwed ==
  exists => /\ Cardinality(Waiters) <= Owed
            /\ ~GivesUp => Cardinality(Waiters) = Owed

\* "wait for the last instance to join": a caller woken with success belongs to
\* a round that as many different instances as its size have joined.
NobodyReturnsEarly ==
  \A p \in Procs : pc[p] = "awake" /\ ret[p] = "OK" => p \in released

\* When every instance of the job has made its call, every call returns.
EveryoneReturns ==
  (\A p \in Procs : calls[p] = MaxCalls) ~> (\A p \in Procs : pc[p] = "out")

\* The barrier an instance relies on, of which kgni_cdm_barr is one
\* implementation as long as each instance calls it once and waits without a
\* limit.
Abstract == INSTANCE BarrierSpec WITH
              Size <- Cardinality(Procs),
              waiting <- Users \ released,
              done <- released

ImplementsBarrier == Abstract!Spec

=============================================================================
