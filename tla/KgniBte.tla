------------------------------ MODULE KgniBte ------------------------------
(***************************************************************************)
(* The transmit side of the block transfer engine (BTE) of the modified    *)
(* kgni driver: kgni_rdma_post (kgni_ops.c) and the transmit rings, the    *)
(* backlog tasklet, the transmit interrupt, the periodic check and the     *)
(* channel reset (kgni_main.c).                                            *)
(*                                                                         *)
(* Threads that post, the tasklet, one interrupt handler per channel, the  *)
(* periodic work and the reset work all run concurrently.  What a spin     *)
(* lock covers is one step; the tasklet keeps a channel's tx_lock over     *)
(* several steps, so tx_lock is held exactly while push.pc says so.  One   *)
(* job (ptag) is modelled: jobs meet only in the capacity of the rings.    *)
(* Descriptors are abstracted to the generation of the job that posted     *)
(* them.  The channels are in direct mode (FLBTE needs Aries), and carry   *)
(* RDMA transactions only: kgni_chnl_send is not part of the repository.   *)
(***************************************************************************)
EXTENDS Integers, Sequences, FiniteSets

CONSTANTS Nics,         \* NIC handles, each driven by one thread
          Single,       \* those in GNI_CDM_MODE_BTE_SINGLE_CHANNEL
          KernelNics,   \* those of type GNI_CDM_TYPE_KERNEL, the others are USER
          NumChnls,     \* num_bte_chnls
          Count,        \* tx_ring.count
          Limit,        \* rdma.limit of the job
          MaxPosts,     \* bound: transactions posted
          MaxJobs,      \* bound: times the job's resources are created
          MaxErrors,    \* bound: critical channel errors
          MaxLost,      \* bound: transmit interrupts lost
          MaxNoMem,     \* bound: failed allocations of a backlog element
          MaxNoIrq      \* bound: failures of kgni_setup_isr

ASSUME BteAssumption ==
    /\ Single \subseteq Nics /\ KernelNics \subseteq Nics
    /\ NumChnls \in Nat \ {0}
    /\ Count \in Nat \ {0, 1}
    /\ {Limit, MaxPosts, MaxJobs, MaxErrors, MaxLost, MaxNoMem, MaxNoIrq} \subseteq Nat

VARIABLES resource,       \* resources[ptag]
          job_generation, \* how many times resources[ptag] was created
          attached,       \* NIC handles that hold a reference to it
          post,           \* where each NIC's thread is in kgni_rdma_post
          cur_bte_chnl,   \* round robin over the channels, modulo their number
          backlog,        \* domain_bte_txq[].pkt_queue
          ring,           \* tx_ring: indices and status, by channel
          txd,            \* transmit descriptors and their buffer_info
          irq,            \* transmit interrupt raised, by channel
          hndlr,          \* kgni_irq_tx_hndlr, by channel
          sched,          \* bte_tx_tasklet is scheduled
          push,           \* kgni_push_tx_queue with its kgni_bte_push_tx_t
          chnl,           \* what a reset switches off: isr, enabled, errmask
          reset,          \* kgni_bte_reset: queued work and where it is
          used            \* how much of each bound is used up

vars == <<resource, job_generation, attached, post, cur_bte_chnl, backlog, ring, txd,
          irq, hndlr, sched, push, chnl, reset, used>>

jobVars  == <<resource, job_generation, attached>>
ringVars == <<ring, txd>>
chnlVars == <<chnl, reset>>

Chnls   == 0 .. NumChnls - 1
Entries == 0 .. Count - 1
Domains == {"USER", "KERNEL"}
AnyVcid == -1        \* KGNI_BTE_VCID_ANY
NoRsrc  == [generation |-> 0, ref_cnt |-> 0, count |-> 0]
NoElm   == [generation |-> 0, vcid |-> AnyVcid]

domain(n) == IF n \in KernelNics THEN "KERNEL" ELSE "USER"
Other(d)  == IF d = "USER" THEN "KERNEL" ELSE "USER"

\* domain_bte_ctrl: users have the first channel, the kernel the second if there is one
cur_bte_ctrl(n) == IF n \in KernelNics /\ NumChnls > 1 THEN 1 ELSE 0

NextChnlUnwrapped(c) == c + 1
NextChnl(c)  == (c + 1) % NumChnls
NextEntry(e) == (e + 1) % Count

Elms   == [generation : 1 .. MaxJobs, vcid : Chnls \cup {AnyVcid}]
Bounds == [posts : 0 .. MaxPosts, errors : 0 .. MaxErrors, lost : 0 .. MaxLost,
           nomem : 0 .. MaxNoMem, noirq : 0 .. MaxNoIrq]

Spend(b) == used' = [used EXCEPT ![b] = @ + 1]

PushOff  == [pc |-> "off", chnl |-> 0, next_chnl |-> 0, tries |-> 0, chnls_left |-> 0,
             next_txq |-> "KERNEL", txqs |-> 0, blocked |-> "NONE", elm |-> NoElm]
PostIdle == [pc |-> "idle", chnl |-> 0]
HndlrOff == [pc |-> "off", entry |-> 0, handled |-> FALSE, by |-> "irq"]
FreeTxd  == [state |-> "free", generation |-> 0]

Init ==
    /\ resource = NoRsrc /\ job_generation = 0 /\ attached = {}
    /\ post = [n \in Nics |-> PostIdle]
    /\ cur_bte_chnl = 0
    /\ backlog = [d \in Domains |-> <<>>]
    /\ ring = [c \in Chnls |-> [next_to_use |-> 0, next_to_clean |-> 0, status |-> "EMPTY"]]
    /\ txd = [c \in Chnls |-> [e \in Entries |-> FreeTxd]]
    /\ irq = [c \in Chnls |-> FALSE]
    /\ hndlr = [c \in Chnls |-> HndlrOff]
    /\ sched = FALSE /\ push = PushOff
    /\ chnl = [c \in Chnls |-> [isr |-> TRUE, enabled |-> TRUE, errmask |-> TRUE]]
    /\ reset = [c \in Chnls |-> [work |-> FALSE, pc |-> "off", reclaim_off |-> 0]]
    /\ used = [posts |-> 0, errors |-> 0, lost |-> 0, nomem |-> 0, noirq |-> 0]

-----------------------------------------------------------------------------
(***************************************************************************)
(* The job's resources.  rsrc_lock makes both operations atomic; the       *)
(* allocation kgni_resource_incref does outside the lock is thrown away    *)
(* when somebody else was faster.  Every NIC may create them: the driver   *)
(* runs with kgni_unprotected_ops, and all NICs are of the same job.       *)
(***************************************************************************)
kgni_resource_incref(n) ==
    /\ n \notin attached
    /\ \/ /\ resource # NoRsrc
          /\ resource' = [resource EXCEPT !.ref_cnt = @ + 1]
          /\ UNCHANGED job_generation
       \/ /\ resource = NoRsrc
          /\ job_generation < MaxJobs
          /\ job_generation' = job_generation + 1
          /\ resource' = [generation |-> job_generation', ref_cnt |-> 1, count |-> 0]
    /\ attached' = attached \cup {n}
    /\ UNCHANGED <<post, cur_bte_chnl, backlog, ringVars, irq, hndlr, sched, push,
                   chnlVars, used>>

kgni_resource_decref(n) ==
    /\ n \in attached /\ post[n].pc = "idle"
    /\ attached' = attached \ {n}
    /\ resource' = IF resource.ref_cnt = 1 THEN NoRsrc
                   ELSE [resource EXCEPT !.ref_cnt = @ - 1]
    /\ UNCHANGED <<job_generation, post, cur_bte_chnl, backlog, ringVars, irq, hndlr, sched,
                   push, chnlVars, used>>

IsCurrent(g) == resource # NoRsrc /\ resource.generation = g

-----------------------------------------------------------------------------
(***************************************************************************)
(* Locks and rings.                                                        *)
(***************************************************************************)
tx_lock(c) == push.pc \in {"queue", "launch"} /\ push.chnl = c

\* status & KGNI_RING_FULL; a LOCKED ring refuses descriptors as a full one does
Full(c) == ring[c].status \in {"FULL", "LOCKED"}

BacklogEmpty == \A d \in Domains : backlog[d] = <<>>

\* the header's KGNI_NEXT_RING_ENTRY and the write of the descriptor it is used for
KGNI_NEXT_RING_ENTRY(c, g) ==
    LET e == ring[c].next_to_use
        u == NextEntry(e)
    IN  /\ txd' = [txd EXCEPT ![c][e] = [state |-> "posted", generation |-> g]]
        /\ ring' = [ring EXCEPT ![c].next_to_use = u,
                                ![c].status = IF NextEntry(u) = ring[c].next_to_clean
                                              THEN "FULL" ELSE @]

-----------------------------------------------------------------------------
(***************************************************************************)
(* kgni_rdma_post.                                                         *)
(***************************************************************************)
At(n, pc) == post' = [post EXCEPT ![n].pc = pc]
Done(n)   == post' = [post EXCEPT ![n] = PostIdle]

LimitPassed  == resource.count > Limit
LimitReached == resource.count >= Limit

\* choose a channel; below the limit, go on (the argument checks only return errors)
PostBegin(n) ==
    /\ n \in attached /\ post[n].pc = "idle"
    /\ used.posts < MaxPosts /\ Spend("posts")
    /\ cur_bte_chnl' = IF n \in Single THEN cur_bte_chnl ELSE NextChnl(cur_bte_chnl)
    /\ post' = [post EXCEPT ![n] =
                  IF LimitReached THEN PostIdle
                  ELSE [pc |-> "below",
                        chnl |-> IF n \in Single THEN cur_bte_ctrl(n) ELSE cur_bte_chnl']]
    /\ UNCHANGED <<jobVars, backlog, ringVars, irq, hndlr, sched, push, chnlVars>>

PostCount(n) ==
    /\ post[n].pc = "below"
    /\ resource' = [resource EXCEPT !.count = @ + 1]
    /\ At(n, "counted")
    /\ UNCHANGED <<job_generation, attached, cur_bte_chnl, backlog, ringVars, irq, hndlr,
                   sched, push, chnlVars, used>>

QueueElm(n) ==
    /\ backlog' = [backlog EXCEPT ![domain(n)] =
                     Append(@, [generation |-> resource.generation,
                                vcid |-> IF n \in Single THEN cur_bte_ctrl(n) ELSE AnyVcid])]
    /\ UNCHANGED <<resource, used>>

QueueNoMemCounted ==
    /\ used.nomem < MaxNoMem /\ Spend("nomem")
    /\ UNCHANGED <<resource, backlog>>

QueueNoMem ==
    /\ used.nomem < MaxNoMem /\ Spend("nomem")
    /\ resource' = [resource EXCEPT !.count = @ - 1]
    /\ UNCHANGED backlog

\* a backlog that is not empty takes the transaction, so that posts keep their order
PostBacklog(n) ==
    /\ post[n].pc = "counted"
    /\ \/ /\ backlog[domain(n)] # <<>>
          /\ QueueElm(n) \/ QueueNoMem
          /\ Done(n)
       \/ /\ backlog[domain(n)] = <<>>
          /\ At(n, "ring")
          /\ UNCHANGED <<resource, backlog, used>>
    /\ UNCHANGED <<job_generation, attached, cur_bte_chnl, ringVars, irq, hndlr, sched, push,
                   chnlVars>>

PostRing(n) ==
    /\ post[n].pc = "ring" /\ ~ tx_lock(post[n].chnl)
    /\ \/ /\ ~ Full(post[n].chnl)
          /\ KGNI_NEXT_RING_ENTRY(post[n].chnl, resource.generation)
          /\ Done(n)
       \/ /\ Full(post[n].chnl)
          /\ At(n, "again")
          /\ UNCHANGED ringVars
    /\ UNCHANGED <<jobVars, cur_bte_chnl, backlog, irq, hndlr, sched, push, chnlVars, used>>

\* the second try, on the domain's own channel; tx_lock is kept while the element is queued
PostAgain(n) ==
    /\ post[n].pc = "again" /\ ~ tx_lock(cur_bte_ctrl(n))
    /\ \/ /\ ~ Full(cur_bte_ctrl(n))
          /\ KGNI_NEXT_RING_ENTRY(cur_bte_ctrl(n), resource.generation)
          /\ UNCHANGED <<resource, backlog, used>>
       \/ /\ Full(cur_bte_ctrl(n))
          /\ QueueElm(n) \/ QueueNoMem
          /\ UNCHANGED ringVars
    /\ Done(n)
    /\ UNCHANGED <<job_generation, attached, cur_bte_chnl, irq, hndlr, sched, push, chnlVars>>

PostStep(n) == PostCount(n) \/ PostBacklog(n) \/ PostRing(n) \/ PostAgain(n)

-----------------------------------------------------------------------------
(***************************************************************************)
(* kgni_push_tx_queue, the tasklet that moves the backlog into the rings.  *)
(***************************************************************************)
GetQueuedEntry(p) == [p EXCEPT !.pc = "chnl", !.tries = NumChnls, !.chnls_left = NumChnls,
                               !.chnl = 0, !.txqs = 0, !.blocked = "NONE", !.elm = NoElm]

\* kgni_push_tx_init; a disabled tasklet stays scheduled
PushBegin ==
    /\ sched /\ push.pc = "off"
    /\ \A c \in Chnls : chnl[c].isr
    /\ sched' = FALSE
    /\ push' = GetQueuedEntry([PushOff EXCEPT !.next_chnl = cur_bte_chnl])
    /\ UNCHANGED <<jobVars, post, cur_bte_chnl, backlog, ringVars, irq, hndlr, chnlVars, used>>

\* kgni_push_tx_get_chnl, one channel: keep its tx_lock unless it is full
PushChnl ==
    /\ push.pc = "chnl"
    /\ push' = IF push.tries = 0 THEN PushOff
               ELSE IF Full(push.next_chnl)
               THEN [push EXCEPT !.tries = @ - 1, !.next_chnl = NextChnl(@)]
               ELSE [push EXCEPT !.pc = "queue", !.chnl = push.next_chnl, !.tries = 0,
                                 !.next_chnl = NextChnl(@), !.txqs = Cardinality(Domains),
                                 !.blocked = "NONE"]
    /\ UNCHANGED <<jobVars, post, cur_bte_chnl, backlog, ringVars, irq, hndlr, sched,
                   chnlVars, used>>

\* start with the blocked queue next time
FromBlocked(p) == [p EXCEPT !.next_txq = IF p.blocked = "NONE" THEN @ ELSE p.blocked]

\* neither queue has something for this channel: unlock it and try the next, or stop
NothingForChnl ==
    IF push.blocked # "NONE" /\ push.chnls_left > 1
    THEN [FromBlocked(push) EXCEPT !.pc = "chnl", !.chnl = 0, !.tries = NumChnls,
                                   !.chnls_left = @ - 1]
    ELSE PushOff

\* kgni_push_tx_get_queue, one queue
PushQueue ==
    LET q    == push.next_txq
        next == [push EXCEPT !.next_txq = Other(q), !.txqs = @ - 1]
    IN
    /\ push.pc = "queue"
    /\ \/ /\ push.txqs = 0
          /\ push' = NothingForChnl
          /\ UNCHANGED backlog
       \/ /\ push.txqs > 0 /\ backlog[q] = <<>>
          /\ push' = next
          /\ UNCHANGED backlog
       \/ /\ push.txqs > 0 /\ backlog[q] # <<>>
          /\ Head(backlog[q]).vcid \notin {AnyVcid, push.chnl}
          /\ push' = [next EXCEPT !.blocked = q]
          /\ UNCHANGED backlog
       \/ /\ push.txqs > 0 /\ backlog[q] # <<>>
          /\ Head(backlog[q]).vcid \in {AnyVcid, push.chnl}
          /\ push' = [FromBlocked(next) EXCEPT !.pc = "launch", !.elm = Head(backlog[q])]
          /\ backlog' = [backlog EXCEPT ![q] = Tail(@)]
    /\ UNCHANGED <<jobVars, post, cur_bte_chnl, ringVars, irq, hndlr, sched, chnlVars, used>>

\* if the job is gone or another has its ptag, the transaction is dropped
AlwaysLaunch(elm) == TRUE
MayLaunch(elm) == IsCurrent(elm.generation)

\* launch it or drop it; then go on, or yield the processor
PushLaunch ==
    /\ push.pc = "launch"
    /\ IF MayLaunch(push.elm) THEN KGNI_NEXT_RING_ENTRY(push.chnl, push.elm.generation)
                              ELSE UNCHANGED ringVars
    /\ \/ /\ push' = GetQueuedEntry(push)
          /\ UNCHANGED sched
       \/ /\ push' = PushOff
          /\ sched' = TRUE
    /\ UNCHANGED <<jobVars, post, cur_bte_chnl, backlog, irq, hndlr, chnlVars, used>>

PushStep == PushBegin \/ PushChnl \/ PushQueue \/ PushLaunch

-----------------------------------------------------------------------------
(***************************************************************************)
(* The hardware, and kgni_irq_tx_hndlr, called by the interrupt or by the  *)
(* periodic kgni_check_tx (which holds the interrupt off meanwhile).       *)
(***************************************************************************)
TxdComplete(c) ==
    /\ chnl[c].enabled
    /\ \E e \in Entries :
          /\ txd[c][e].state = "posted"
          /\ txd' = [txd EXCEPT ![c][e].state = "complete"]
    /\ irq' = [irq EXCEPT ![c] = TRUE]
    /\ UNCHANGED <<jobVars, post, cur_bte_chnl, backlog, ring, hndlr, sched, push, chnlVars,
                   used>>

LoseIrq(c) ==
    /\ irq[c] /\ used.lost < MaxLost /\ Spend("lost")
    /\ irq' = [irq EXCEPT ![c] = FALSE]
    /\ UNCHANGED <<jobVars, post, cur_bte_chnl, backlog, ringVars, hndlr, sched, push, chnlVars>>

HndlrBegin(c, by) ==
    /\ hndlr[c].pc = "off"
    /\ hndlr' = [hndlr EXCEPT ![c] = [pc |-> "loop", entry |-> ring[c].next_to_clean,
                                      handled |-> FALSE, by |-> by]]
    /\ UNCHANGED <<jobVars, post, cur_bte_chnl, backlog, ringVars, sched, push, chnlVars, used>>

TxIrq(c) ==
    /\ irq[c] /\ chnl[c].isr
    /\ irq' = [irq EXCEPT ![c] = FALSE]
    /\ HndlrBegin(c, "irq")

Handled(c)     == hndlr[c].handled

kgni_check_tx(c) == HndlrBegin(c, "check") /\ UNCHANGED irq

\* one completed descriptor: its job, if it is still the same, has one fewer outstanding
TxEntry(c) ==
    LET e == hndlr[c].entry IN
    /\ hndlr[c].pc = "loop" /\ txd[c][e].state = "complete"
    /\ resource' = IF IsCurrent(txd[c][e].generation)
                   THEN [resource EXCEPT !.count = @ - 1] ELSE resource
    /\ txd' = [txd EXCEPT ![c][e] = FreeTxd]
    /\ hndlr' = [hndlr EXCEPT ![c].entry = NextEntry(e), ![c].handled = TRUE]
    /\ UNCHANGED <<job_generation, attached, post, cur_bte_chnl, backlog, ring, irq, sched,
                   push, chnlVars, used>>

Unlocked(status) == IF status = "LOCKED" THEN "LOCKED" ELSE "EMPTY"

TxDone(c) ==
    /\ hndlr[c].pc = "loop" /\ txd[c][hndlr[c].entry].state # "complete"
    /\ \/ /\ Handled(c) /\ ~ tx_lock(c)
          /\ ring' = [ring EXCEPT ![c].next_to_clean = hndlr[c].entry,
                                  ![c].status = Unlocked(@)]
          /\ hndlr' = [hndlr EXCEPT ![c] = [HndlrOff EXCEPT !.pc = "kick", !.by = hndlr[c].by]]
       \/ /\ ~ Handled(c)
          /\ hndlr' = [hndlr EXCEPT ![c] = HndlrOff]
          /\ UNCHANGED ring
    /\ UNCHANGED <<jobVars, post, cur_bte_chnl, backlog, txd, irq, sched, push, chnlVars, used>>

KickUser   == sched' = (sched \/ backlog["USER"] # <<>>)
Kick       == sched' = (sched \/ ~ BacklogEmpty)

TxKick(c) ==
    /\ hndlr[c].pc = "kick"
    /\ Kick
    /\ hndlr' = [hndlr EXCEPT ![c] = HndlrOff]
    /\ UNCHANGED <<jobVars, post, cur_bte_chnl, backlog, ringVars, irq, push, chnlVars, used>>

HndlrStep(c) == TxEntry(c) \/ TxDone(c) \/ TxKick(c)

-----------------------------------------------------------------------------
(***************************************************************************)
(* kgni_error_handler and the work it queues, kgni_bte_reset.              *)
(***************************************************************************)
kgni_error_handler(c) ==
    /\ chnl[c].errmask /\ ~ tx_lock(c)
    /\ used.errors < MaxErrors /\ Spend("errors")
    /\ ring' = [ring EXCEPT ![c].status = "LOCKED"]
    /\ reset' = [reset EXCEPT ![c].work = TRUE, ![c].reclaim_off = @ + 1]
    /\ UNCHANGED <<jobVars, post, cur_bte_chnl, backlog, txd, irq, hndlr, sched, push, chnl>>

\* kgni_bte_down: the channel and its errors are switched off
ResetDown(c) ==
    /\ reset[c].work /\ reset[c].pc = "off"
    /\ reset' = [reset EXCEPT ![c].work = FALSE, ![c].pc = "isr"]
    /\ chnl' = [chnl EXCEPT ![c].enabled = FALSE, ![c].errmask = FALSE]
    /\ UNCHANGED <<jobVars, post, cur_bte_chnl, backlog, ringVars, irq, hndlr, sched, push, used>>

\* kgni_remove_isr waits for a handler the interrupt runs and for the tasklet
IsrStopped(c) == hndlr[c].pc = "off" \/ hndlr[c].by = "check"

ResetIsr(c) ==
    /\ reset[c].pc = "isr"
    /\ IsrStopped(c) /\ push.pc = "off"
    /\ reset' = [reset EXCEPT ![c].pc = "rings"]
    /\ chnl' = [chnl EXCEPT ![c].isr = FALSE]
    /\ UNCHANGED <<jobVars, post, cur_bte_chnl, backlog, ringVars, irq, hndlr, sched, push, used>>

\* ghal_reset_vc, kgni_kill_tx_apps and kgni_reset_rings; the status stays as it is
ResetRings(c) ==
    /\ reset[c].pc = "rings"
    /\ reset' = [reset EXCEPT ![c].pc = "up"]
    /\ txd' = [txd EXCEPT ![c] = [e \in Entries |-> FreeTxd]]
    /\ ring' = [ring EXCEPT ![c].next_to_use = 0, ![c].next_to_clean = 0]
    /\ irq' = [irq EXCEPT ![c] = FALSE]
    /\ UNCHANGED <<jobVars, post, cur_bte_chnl, backlog, hndlr, sched, push, chnl, used>>

\* kgni_bte_up; its error is not looked at
ResetUp(c) ==
    /\ reset[c].pc = "up"
    /\ reset' = [reset EXCEPT ![c].pc = "unlock"]
    /\ \/ /\ chnl' = [chnl EXCEPT ![c] = [isr |-> TRUE, enabled |-> TRUE, errmask |-> TRUE]]
          /\ UNCHANGED used
       \/ /\ used.noirq < MaxNoIrq /\ Spend("noirq")
          /\ UNCHANGED chnl
    /\ UNCHANGED <<jobVars, post, cur_bte_chnl, backlog, ringVars, irq, hndlr, sched, push>>

ResetUnlock(c) ==
    /\ reset[c].pc = "unlock" /\ ~ tx_lock(c)
    /\ reset' = [reset EXCEPT ![c].pc = "kick"]
    /\ ring' = [ring EXCEPT ![c].status = "EMPTY"]
    /\ UNCHANGED <<jobVars, post, cur_bte_chnl, backlog, txd, irq, hndlr, sched, push, chnl, used>>

ResetKick(c) ==
    /\ reset[c].pc = "kick"
    /\ reset' = [reset EXCEPT ![c].pc = "off", ![c].reclaim_off = @ - 1]
    /\ Kick
    /\ UNCHANGED <<jobVars, post, cur_bte_chnl, backlog, ringVars, irq, hndlr, push, chnl, used>>

ResetStep(c) == \/ ResetDown(c) \/ ResetIsr(c) \/ ResetRings(c)
                \/ ResetUp(c) \/ ResetUnlock(c) \/ ResetKick(c)

Next ==
    \/ \E n \in Nics : \/ kgni_resource_incref(n) \/ kgni_resource_decref(n)
                       \/ PostBegin(n) \/ PostStep(n)
    \/ PushStep
    \/ \E c \in Chnls : \/ TxdComplete(c) \/ LoseIrq(c) \/ TxIrq(c) \/ kgni_check_tx(c)
                        \/ HndlrStep(c) \/ kgni_error_handler(c) \/ ResetStep(c)

Spec == Init /\ [][Next]_vars

\* The threads, the tasklet, the works, the interrupts and the hardware make progress.
FairSpec ==
    /\ Spec
    /\ \A n \in Nics : WF_vars(PostStep(n))
    /\ WF_vars(PushStep)
    /\ \A c \in Chnls : /\ WF_vars(TxdComplete(c)) /\ WF_vars(TxIrq(c))
                        /\ WF_vars(kgni_check_tx(c)) /\ WF_vars(HndlrStep(c))
                        /\ WF_vars(ResetStep(c))

-----------------------------------------------------------------------------
(***************************************************************************)
(* Properties.                                                             *)
(***************************************************************************)

\* Every variable has its type; the reference count is the number of attached NICs.
TypeOK ==
    /\ resource \in [generation : 0 .. MaxJobs, ref_cnt : 0 .. Cardinality(Nics),
                     count : 0 .. MaxPosts]
    /\ resource.ref_cnt = Cardinality(attached)
    /\ job_generation \in 0 .. MaxJobs
    /\ attached \subseteq Nics
    /\ post \in [Nics -> [pc : {"idle", "below", "counted", "ring", "again"}, chnl : Chnls]]
    /\ cur_bte_chnl \in Chnls
    /\ \A d \in Domains : \A i \in DOMAIN backlog[d] : backlog[d][i] \in Elms
    /\ ring \in [Chnls -> [next_to_use : Entries, next_to_clean : Entries,
                           status : {"EMPTY", "FULL", "LOCKED"}]]
    /\ txd \in [Chnls -> [Entries -> [state : {"free", "posted", "complete"},
                                      generation : 0 .. MaxJobs]]]
    /\ irq \in [Chnls -> BOOLEAN]
    /\ hndlr \in [Chnls -> [pc : {"off", "loop", "kick"}, entry : Entries,
                            handled : BOOLEAN, by : {"irq", "check"}]]
    /\ sched \in BOOLEAN
    /\ push \in [pc : {"off", "chnl", "queue", "launch"}, chnl : Chnls, next_chnl : Chnls,
                 tries : 0 .. NumChnls, chnls_left : 0 .. NumChnls, next_txq : Domains,
                 txqs : 0 .. 2, blocked : Domains \cup {"NONE"}, elm : Elms \cup {NoElm}]
    /\ chnl \in [Chnls -> [isr : BOOLEAN, enabled : BOOLEAN, errmask : BOOLEAN]]
    /\ reset \in [Chnls -> [work : BOOLEAN, reclaim_off : 0 .. MaxErrors,
                            pc : {"off", "isr", "rings", "up", "unlock", "kick"}]]
    /\ used \in Bounds

Counted(g) ==
    LET queued(d) == {i \in DOMAIN backlog[d] : backlog[d][i].generation = g}
        inring    == {ce \in Chnls \X Entries : /\ txd[ce[1]][ce[2]].state # "free"
                                                /\ txd[ce[1]][ce[2]].generation = g}
    IN  Cardinality({n \in Nics : post[n].pc \in {"counted", "ring", "again"}})
        + Cardinality(queued("USER")) + Cardinality(queued("KERNEL"))
        + Cardinality(inring)
        + (IF push.pc = "launch" /\ push.elm.generation = g THEN 1 ELSE 0)

\* rdma.count of a job is the number of its transactions in a post, in the backlogs, with the
\* tasklet or in the rings: an early return gives its count back, and what an earlier job with
\* the same ptag left behind is not taken off this one's count ("bug if rdma count already
\* zero").  A channel reset forgets descriptors and not the count.
CountsOutstanding ==
    resource # NoRsrc =>
        IF used.errors = 0 THEN resource.count = Counted(resource.generation)
                           ELSE resource.count >= Counted(resource.generation)

\* kgni_rdma_post compares rdma.count with the limit some time before it increments it: a job
\* exceeds its limit by no more than its other NICs' posts under way.
LimitOverrun ==
    resource.count <= Limit + Cardinality(Nics) - 1



\* The tasklet and the posts only launch transactions of the present job: "if ptag is gone or
\* reallocated - do not launch RDMA".
LaunchesCurrent ==
    [][\A c \in Chnls, e \in Entries :
          (txd[c][e].state = "free" /\ txd'[c][e].state = "posted")
             => IsCurrent(txd'[c][e].generation)]_vars

\* What is queued is launched or dropped in the end, with interrupts lost on the way, as long
\* as no reset failed to get its interrupts back.
BacklogDrains ==
    (~ BacklogEmpty) ~> (BacklogEmpty \/ used.noirq > 0)

\* kgni_error_handler: "Force all future sends to go on packet queue": between an error and
\* the reset it asked for, no descriptor is written into the channel's ring.
SendsQueued ==
    [][\A c \in Chnls, e \in Entries :
          reset[c].work /\ txd[c][e].state = "free" => txd'[c][e].state # "posted"]_vars
=============================================================================
