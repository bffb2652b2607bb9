------------------------------- MODULE KgniSm -------------------------------
(***************************************************************************)
(* Datagram sessions of the kgni driver (kgni_ops.c): two endpoints post   *)
(* small datagrams to each other and every one of them ends COMPLETED,     *)
(* TERMINATED or TIMEOUT.                                                  *)
(*                                                                         *)
(* A node is one communication domain instance with its channel.  Three    *)
(* contexts work on its sessions: the user's ioctls and the receive        *)
(* callback, which hold kgni_sm_lock; the work item kgni_sm_task, which    *)
(* holds the lock during a whole pass over kgni_sm_list; and the channel's *)
(* send events, which take no lock and so fall between the steps of a      *)
(* pass.  The channel itself is external: it delivers packets in order     *)
(* between two nodes, or reports that a packet was not delivered.          *)
(*                                                                         *)
(* Sequence numbers are left out (a wrong one is only logged), so is the   *)
(* translation of virtual node numbers, and a session's post_id is the     *)
(* number of the post it belongs to.                                       *)
(***************************************************************************)
EXTENDS Integers, Sequences, FiniteSets

CONSTANTS
    Nodes,          \* the instances that talk to each other
    Posts,          \* the ways a node may post, a subset of {"bound", "open"}
    MaxPosts,       \* posts of one node
    MaxCancels,     \* calls of kgni_sm_terminate, all nodes together
    MaxFails,       \* packets lost with a transaction error, or -EAGAIN
    MaxNoRx,        \* packets lost for want of a receive descriptor
    MaxRetransmits, \* KGNI_SM_MAX_RETRANSMITS
    MaxNoMem,       \* allocations that fail in the receive callback
    FreeNoRx        \* how many such losses do not delay the packet: 2

ASSUME SmAssumption ==
    /\ IsFiniteSet(Nodes) /\ Cardinality(Nodes) > 1
    /\ Posts \subseteq {"bound", "open"}
    /\ {MaxPosts, MaxCancels, MaxFails, MaxNoRx, MaxRetransmits, MaxNoMem,
        FreeNoRx} \subseteq Nat

VARIABLES
    sessions,       \* cdm_handle->sessions of a node, in list order
    sm_generation,  \* the next local generation of a node
    onlist,         \* generations of the sessions linked in kgni_sm_list
    work,           \* kgni_sm_work is queued
    todo,           \* entries the pass has still to visit
    look,           \* the entry it visits, with the pkts_out it read
    pend,           \* send events that have not been handled to the end
    wire,           \* packets under way from one node to another
    datagram_cnt,   \* the counter the user program polls
    posted,         \* data of each generation of a node (for the properties)
    posts, cancels, fails, norx, nomem

vars == <<sessions, sm_generation, onlist, work, todo, look, pend, wire,
          datagram_cnt, posted, posts, cancels, fails, norx, nomem>>
task == <<todo, look>>
bounds == <<posts, cancels, fails, norx, nomem>>

AnyPe == "any"      \* remote pe -1: an open-ended session, not matched yet
NoLook == [gen |-> 0, out |-> 0]
Gens == 1 .. 2 * (Cardinality(Nodes) + 1) * (MaxPosts + 1)
Final == {"COMPLETED", "TERMINATED", "TIMEOUT"}
States == Final \cup {"LOCINFO_READY", "REMINFO_READY", "TERMINATE_INIT"}

Session(remote, state, gen, rgen, udata, rem, post) ==
    [remote |-> remote, state |-> state, local_gen |-> gen, remote_gen |-> rgen,
     udata |-> udata, rem |-> rem, post_id |-> post,
     changed |-> FALSE, failed |-> FALSE, notified |-> FALSE,
     pkts_out |-> 0, flrcnt |-> 0, nrx_cnt |-> 0, norx |-> FALSE,
     delay |-> FALSE]

-----------------------------------------------------------------------------
(* Access to the sessions of a node *)

Least(S) == CHOOSE i \in S : \A j \in S : i <= j

Find(n, Matches(_)) == {i \in DOMAIN sessions[n] : Matches(sessions[n][i])}
IndexOf(n, g) == CHOOSE i \in DOMAIN sessions[n] : sessions[n][i].local_gen = g
Of(n, g) == sessions[n][IndexOf(n, g)]

Store(n, i, s) == sessions' = [sessions EXCEPT ![n][i] = s]

Free(n, i) ==
    sessions' = [sessions EXCEPT
        ![n] = SubSeq(@, 1, i - 1) \o SubSeq(@, i + 1, Len(@))]

QueueWork(n) == work' = [work EXCEPT ![n] = TRUE]
Link(n, g) == onlist' = [onlist EXCEPT ![n] = @ \cup {g}]
Unlink(n, g) == onlist' = [onlist EXCEPT ![n] = @ \ {g}]

Counted(n, s) == [datagram_cnt EXCEPT ![n] = @ + IF s.notified THEN 0 ELSE 1]

kgni_notify_user(n, i, s) ==
    /\ Store(n, i, [s EXCEPT !.notified = TRUE])
    /\ datagram_cnt' = Counted(n, s)

\* kgni_sm_task holds kgni_sm_lock from the first entry of a pass to the last.
lock(n) == todo[n] # {} \/ look[n] # NoLook

Ready(n, s) == s.state \in Final /\ s.local_gen \notin onlist[n]
-----------------------------------------------------------------------------
(* The user's calls *)

\* A post that finds the peer's datagram already here completes at once.
Meets(n, i, id) ==
    LET s == sessions[n][i]
    IN /\ Store(n, i, [s EXCEPT !.state = "COMPLETED", !.udata = posts[n] + 1,
                                !.changed = TRUE, !.failed = FALSE,
                                !.notified = FALSE, !.post_id = id])
       /\ posted' = [posted EXCEPT ![n][s.local_gen] = posts[n] + 1]
       /\ Link(n, s.local_gen)
       /\ UNCHANGED sm_generation

StartsAlways(remote) == TRUE
Starts(remote) == remote # AnyPe

NewSession(n, remote, id) ==
    LET g == sm_generation[n]
        s == Session(remote, "LOCINFO_READY", g, 0, posts[n] + 1, 0, id)
    IN /\ sessions' = [sessions EXCEPT
              ![n] = Append(@, [s EXCEPT !.changed = remote # AnyPe])]
       /\ sm_generation' = [sm_generation EXCEPT ![n] = g + 1]
       /\ posted' = [posted EXCEPT ![n][g] = posts[n] + 1]
       /\ IF Starts(remote) THEN Link(n, g) ELSE UNCHANGED onlist

\* The first session the loop stops at: one the post meets, or a duplicate.
Stops(n, remote) ==
    Find(n, LAMBDA s : \/ s.remote = remote /\ remote # AnyPe
                       \/ s.state = "REMINFO_READY" /\ remote = AnyPe)

AddSession(n, remote) ==
    LET hits == Stops(n, remote)
        id == IF remote = AnyPe THEN posts[n] + 1 ELSE 0
    IN /\ ~lock(n) /\ posts[n] < MaxPosts
       /\ (remote = AnyPe) => ("open" \in Posts)
       /\ (remote # AnyPe) => ("bound" \in Posts)
       /\ \/ /\ hits # {}
             /\ sessions[n][Least(hits)].state = "REMINFO_READY"
             /\ Meets(n, Least(hits), id)
          \/ /\ hits = {}
             /\ NewSession(n, remote, id)
       /\ posts' = [posts EXCEPT ![n] = @ + 1]
       /\ QueueWork(n)
       /\ UNCHANGED <<task, pend, wire, datagram_cnt, cancels, fails, norx, nomem>>

kgni_sm_add_session(n) ==
    \E remote \in (Nodes \ {n}) \cup {AnyPe} : AddSession(n, remote)

\* A session is named by its remote, or by post_id when the endpoint is open.
Named(n, remote, id) ==
    Find(n, LAMBDA s : \/ remote # AnyPe /\ s.remote = remote
                       \/ remote = AnyPe /\ s.post_id = id)

Names(n) == ((Nodes \ {n}) \X {0}) \cup ({AnyPe} \X (1 .. posts[n]))

\* kgni_sm_get_state takes a final session off the list, unless the task still
\* has business with it; in every other case it changes nothing.
GetState(n, remote, id) ==
    LET hits == Named(n, remote, id)
        i == Least(hits)
    IN /\ ~lock(n) /\ hits # {}
       /\ Ready(n, sessions[n][i])
       /\ datagram_cnt' = [datagram_cnt EXCEPT ![n] = @ - 1]
       /\ Free(n, i)
       /\ UNCHANGED <<sm_generation, onlist, work, task, pend, wire, posted, bounds>>

kgni_sm_get_state(n) == \E name \in Names(n) : GetState(n, name[1], name[2])

TerminateOpen(n, i) ==
    /\ Free(n, i)
    /\ datagram_cnt' = [datagram_cnt EXCEPT ![n] = @ + 1]
    /\ UNCHANGED <<onlist, work>>

TerminateBound(n, i) ==
    LET s == sessions[n][i]
    IN /\ Store(n, i, [s EXCEPT !.state = "TERMINATE_INIT", !.changed = TRUE,
                                !.failed = FALSE, !.notified = FALSE])
       /\ Link(n, s.local_gen)
       /\ QueueWork(n)
       /\ UNCHANGED datagram_cnt

Terminate(n, remote, id) ==
    LET hits == Named(n, remote, id)
        i == Least(hits)
    IN /\ ~lock(n) /\ cancels < MaxCancels /\ hits # {}
       /\ \/ remote = AnyPe /\ sessions[n][i].remote = AnyPe /\ TerminateOpen(n, i)
          \/ ~(remote = AnyPe /\ sessions[n][i].remote = AnyPe) /\ TerminateBound(n, i)
       /\ cancels' = cancels + 1
       /\ UNCHANGED <<sm_generation, task, pend, wire, posted, posts, fails, norx, nomem>>

kgni_sm_terminate(n) == \E name \in Names(n) : Terminate(n, name[1], name[2])
-----------------------------------------------------------------------------
(* The work item *)

TaskBegin(n) ==
    /\ work[n] /\ ~lock(n)
    /\ work' = [work EXCEPT ![n] = FALSE]
    /\ todo' = [todo EXCEPT ![n] = onlist[n]]
    /\ UNCHANGED <<sessions, sm_generation, onlist, look, pend, wire,
                   datagram_cnt, posted, bounds>>

TaskLook(n) ==
    /\ look[n] = NoLook
    /\ \E g \in todo[n] :
         /\ look' = [look EXCEPT ![n] = [gen |-> g, out |-> Of(n, g).pkts_out]]
         /\ todo' = [todo EXCEPT ![n] = @ \ {g}]
    /\ UNCHANGED <<sessions, sm_generation, onlist, work, pend, wire,
                   datagram_cnt, posted, bounds>>

\* The pass has held the lock for more than a jiffy and is queued again.
TaskBreak(n) ==
    /\ look[n] = NoLook /\ todo[n] # {}
    /\ fails < MaxFails
    /\ fails' = fails + 1
    /\ todo' = [todo EXCEPT ![n] = {}]
    /\ QueueWork(n)
    /\ UNCHANGED <<sessions, sm_generation, onlist, look, pend, wire,
                   datagram_cnt, posted, posts, cancels, norx, nomem>>

Looking(n) == look[n] # NoLook
Seen(n) == Of(n, look[n].gen)
NextEntry(n) == look' = [look EXCEPT ![n] = NoLook]

MustSendAgain(n) ==
    /\ Seen(n).changed \/ Seen(n).failed
    /\ Seen(n).state # "TERMINATED"
MustSend(n) ==
    /\ look[n].out = 0
    /\ Seen(n).changed \/ Seen(n).failed
    /\ Seen(n).state # "TERMINATED"

TimesOut(n) == Seen(n).failed /\ Seen(n).flrcnt > MaxRetransmits

TaskTimeout(n) ==
    /\ Looking(n) /\ MustSend(n) /\ TimesOut(n)
    /\ kgni_notify_user(n, IndexOf(n, look[n].gen), [Seen(n) EXCEPT !.state = "TIMEOUT"])
    /\ Unlink(n, look[n].gen)
    /\ NextEntry(n)
    /\ UNCHANGED <<sm_generation, work, todo, pend, wire, posted, bounds>>

\* nrx_cnt stops at MaxNrx, which stands for every larger value: the delay grows
\* with its square, is cut at a second, and is 0 when the square overflows.
MaxNrx == FreeNoRx + 2

kgni_sm_rx_set_delay(nrx_cnt) ==
    CASE nrx_cnt <= FreeNoRx -> {FALSE}
      [] nrx_cnt \in FreeNoRx + 1 .. MaxNrx - 1 -> {TRUE}
      [] nrx_cnt = MaxNrx -> BOOLEAN

CountNoRx(s) == IF s.nrx_cnt < MaxNrx THEN s.nrx_cnt + 1 ELSE MaxNrx

\* What the pass makes of the session before it looks at the delay.
Blamed(s) ==
    IF ~s.failed THEN {s}
    ELSE IF ~s.norx THEN {[s EXCEPT !.flrcnt = @ + 1]}
    ELSE {[s EXCEPT !.nrx_cnt = CountNoRx(s), !.delay = d] :
              d \in kgni_sm_rx_set_delay(CountNoRx(s))}

TaskDelay(n) ==
    /\ Looking(n) /\ MustSend(n) /\ ~TimesOut(n)
    /\ \E s \in Blamed(Seen(n)) :
         s.delay /\ Store(n, IndexOf(n, look[n].gen), s)
    /\ NextEntry(n)
    /\ QueueWork(n)
    /\ UNCHANGED <<sm_generation, onlist, todo, pend, wire, datagram_cnt,
                   posted, bounds>>

Packet(n, s) ==
    [from |-> n, state |-> s.state, local_gen |-> s.local_gen,
     remote_gen |-> s.remote_gen, udata |-> s.udata]

\* kgni_chnl_send and the fate of the packet: the event that will follow.
Sent(n, s) ==
    \/ /\ wire' = [wire EXCEPT ![n][s.remote] = Append(@, Packet(n, s))]
       /\ pend' = [pend EXCEPT ![n] = @ \cup
              {[gen |-> s.local_gen, status |-> "SUCCESS", half |-> FALSE]}]
       /\ UNCHANGED <<fails, norx>>
    \/ /\ fails < MaxFails /\ fails' = fails + 1
       /\ pend' = [pend EXCEPT ![n] = @ \cup
              {[gen |-> s.local_gen, status |-> "TRANSACTION_ERROR", half |-> FALSE]}]
       /\ UNCHANGED <<wire, norx>>
    \/ /\ norx < MaxNoRx /\ norx' = norx + 1
       /\ pend' = [pend EXCEPT ![n] = @ \cup
              {[gen |-> s.local_gen, status |-> "ERROR_RESOURCE", half |-> FALSE]}]
       /\ UNCHANGED <<wire, fails>>

TaskSend(n) ==
    /\ Looking(n) /\ MustSend(n) /\ ~TimesOut(n)
    /\ \E s \in Blamed(Seen(n)) :
         /\ ~s.delay
         /\ Sent(n, s)
         /\ Store(n, IndexOf(n, look[n].gen),
                  [s EXCEPT !.changed = FALSE, !.failed = FALSE, !.norx = FALSE,
                            !.pkts_out = @ + 1])
    /\ NextEntry(n)
    /\ UNCHANGED <<sm_generation, onlist, work, todo, datagram_cnt, posted,
                   posts, cancels, nomem>>

\* kgni_chnl_send answers -EAGAIN: flags and flrcnt are taken back, nrx_cnt, the
\* delay and snd_status are not; the pass ends and is queued again.
TaskAgain(n) ==
    /\ Looking(n) /\ MustSend(n) /\ ~TimesOut(n)
    /\ fails < MaxFails /\ fails' = fails + 1
    /\ \E s \in Blamed(Seen(n)) :
         /\ ~s.delay
         /\ Store(n, IndexOf(n, look[n].gen),
                  [s EXCEPT !.flrcnt = Seen(n).flrcnt, !.norx = FALSE])
    /\ todo' = [todo EXCEPT ![n] = {}]
    /\ NextEntry(n)
    /\ QueueWork(n)
    /\ UNCHANGED <<sm_generation, onlist, pend, wire, datagram_cnt, posted,
                   posts, cancels, norx, nomem>>

Settled(s) ==
    [s EXCEPT !.state = IF @ = "TERMINATE_INIT" THEN "TERMINATED" ELSE @]

TaskRemove(n) ==
    /\ Looking(n) /\ ~MustSend(n)
    /\ look[n].out = 0
    /\ kgni_notify_user(n, IndexOf(n, look[n].gen), Settled(Seen(n)))
    /\ Unlink(n, look[n].gen)
    /\ NextEntry(n)
    /\ UNCHANGED <<sm_generation, work, todo, pend, wire, posted, bounds>>

TaskSkip(n) ==
    /\ Looking(n) /\ look[n].out # 0
    /\ NextEntry(n)
    /\ UNCHANGED <<sessions, sm_generation, onlist, work, todo, pend, wire,
                   datagram_cnt, posted, bounds>>

kgni_sm_task(n) ==
    \/ TaskBegin(n) \/ TaskLook(n) \/ TaskBreak(n)
    \/ TaskTimeout(n) \/ TaskDelay(n) \/ TaskSend(n) \/ TaskAgain(n)
    \/ TaskRemove(n) \/ TaskSkip(n)

\* rx_delay passes.
Elapse(n, i) ==
    /\ ~lock(n) /\ sessions[n][i].delay
    /\ Store(n, i, [sessions[n][i] EXCEPT !.delay = FALSE])
    /\ UNCHANGED <<sm_generation, onlist, work, task, pend, wire, datagram_cnt,
                   posted, bounds>>
-----------------------------------------------------------------------------
(* The channel's callbacks *)

Marked(s, status) ==
    IF status = "SUCCESS" THEN s
    ELSE [Settled(s) EXCEPT !.failed = TRUE, !.norx = status = "ERROR_RESOURCE"]

Returned(s) == [s EXCEPT !.pkts_out = @ - 1]

\* The event handler holds no lock: it marks the session first and counts the
\* packet as returned afterwards.
EventStepSwapped(s, status, half) ==
    IF half THEN Marked(s, status) ELSE Returned(s)
EventStep(s, status, half) == IF half THEN Returned(s) ELSE Marked(s, status)

WakesNobody(half) == FALSE
Wakes(half) == half

kgni_sm_chnl_event(n) ==
    \E e \in pend[n] :
      /\ \E i \in DOMAIN sessions[n] :
           /\ sessions[n][i].local_gen = e.gen
           /\ Store(n, i, EventStep(sessions[n][i], e.status, e.half))
      /\ pend' = [pend EXCEPT ![n] =
             (@ \ {e}) \cup IF e.half THEN {} ELSE {[e EXCEPT !.half = TRUE]}]
      /\ work' = [work EXCEPT ![n] = @ \/ Wakes(e.half)]
      /\ UNCHANGED <<sm_generation, onlist, task, wire, datagram_cnt, posted, bounds>>

\* The sessions of the sender the loop does not pass over: a COMPLETED one is
\* passed over when its peer has begun another exchange.
Current(n, pkt) ==
    Find(n, LAMBDA s :
        /\ s.remote = pkt.from
        /\ ~(/\ s.state = "COMPLETED"
             /\ pkt.state = "LOCINFO_READY"
             /\ pkt.remote_gen \in {0, s.local_gen}))

Outdated(s, pkt) ==
    \/ pkt.remote_gen = 0 /\ pkt.state = "COMPLETED"
    \/ pkt.remote_gen # 0 /\ pkt.remote_gen # s.local_gen

RcvTerminate(n, i, pkt) ==
    LET s == sessions[n][i]
    IN /\ pkt.state = "TERMINATE_INIT"
       /\ \/ /\ s.state = "REMINFO_READY"
             /\ Free(n, i)
             /\ UNCHANGED datagram_cnt
          \/ /\ s.state # "REMINFO_READY"
             /\ kgni_notify_user(n, i,
                    [s EXCEPT !.state = "TERMINATED", !.changed = FALSE,
                              !.failed = FALSE, !.remote_gen = pkt.local_gen])
       /\ UNCHANGED <<onlist, work>>

CompletedUnpaired(s, pkt) ==
    [s EXCEPT !.state = "COMPLETED", !.rem = pkt.udata]
Completed(s, pkt) ==
    [s EXCEPT !.state = "COMPLETED", !.rem = pkt.udata, !.remote_gen = pkt.local_gen]

\* Both sides have sent their datagram: tell the peer that this one got here.
RcvLocinfoSilent(n, i, pkt) ==
    LET s == sessions[n][i]
    IN /\ s.state = "LOCINFO_READY" /\ pkt.state = "LOCINFO_READY"
       /\ Store(n, i, Completed(s, pkt))
       /\ Link(n, s.local_gen)
       /\ QueueWork(n)
       /\ UNCHANGED datagram_cnt
RcvLocinfo(n, i, pkt) ==
    LET s == sessions[n][i]
    IN /\ s.state = "LOCINFO_READY" /\ pkt.state = "LOCINFO_READY"
       /\ Store(n, i, [Completed(s, pkt) EXCEPT !.changed = TRUE])
       /\ Link(n, s.local_gen)
       /\ QueueWork(n)
       /\ UNCHANGED datagram_cnt

RcvCompleted(n, i, pkt) ==
    LET s == sessions[n][i]
    IN /\ s.state = "LOCINFO_READY" /\ pkt.state = "COMPLETED"
       /\ kgni_notify_user(n, i, Completed(s, pkt))
       /\ UNCHANGED <<onlist, work>>

RcvUnexpected(n, i, pkt) ==
    /\ sessions[n][i].state # "LOCINFO_READY" /\ pkt.state # "TERMINATE_INIT"
    /\ UNCHANGED <<sessions, onlist, work, datagram_cnt>>

RcvMatching(n, i, pkt) ==
    /\ \/ /\ Outdated(sessions[n][i], pkt)
          /\ UNCHANGED <<sessions, onlist, work, datagram_cnt>>
       \/ /\ ~Outdated(sessions[n][i], pkt)
          /\ \/ RcvTerminate(n, i, pkt)
             \/ RcvLocinfo(n, i, pkt)
             \/ RcvCompleted(n, i, pkt)
             \/ RcvUnexpected(n, i, pkt)
    /\ UNCHANGED <<sm_generation, nomem>>

Opens(n) == Find(n, LAMBDA s : s.remote = AnyPe)

RcvOpen(n, i, pkt) ==
    LET s == [sessions[n][i] EXCEPT !.remote = pkt.from]
    IN /\ Store(n, i, [Completed(s, pkt) EXCEPT !.changed = TRUE, !.failed = FALSE,
                                                !.notified = FALSE])
       /\ Link(n, s.local_gen)
       /\ QueueWork(n)
       /\ UNCHANGED <<sm_generation, datagram_cnt>>

RcvNew(n, pkt) ==
    LET g == sm_generation[n]
    IN /\ sessions' = [sessions EXCEPT ![n] = Append(@,
              Session(pkt.from, "REMINFO_READY", g, pkt.local_gen, 0, pkt.udata, 0))]
       /\ sm_generation' = [sm_generation EXCEPT ![n] = g + 1]
       /\ UNCHANGED <<onlist, work, datagram_cnt>>

RcvNoMemory(n, pkt) ==
    /\ nomem < MaxNoMem /\ nomem' = nomem + 1
    /\ UNCHANGED <<sessions, sm_generation, onlist, work, datagram_cnt>>

OldNews(pkt) == pkt.state \in {"COMPLETED", "TERMINATE_INIT"} \/ pkt.remote_gen # 0

RcvStray(n, pkt) ==
    \/ /\ OldNews(pkt)
       /\ UNCHANGED <<sessions, sm_generation, onlist, work, datagram_cnt, nomem>>
    \/ /\ ~OldNews(pkt) /\ Opens(n) # {}
       /\ RcvOpen(n, Least(Opens(n)), pkt)
       /\ UNCHANGED nomem
    \/ /\ ~OldNews(pkt) /\ Opens(n) = {}
       /\ \/ RcvNew(n, pkt) /\ UNCHANGED nomem
          \/ RcvNoMemory(n, pkt)

kgni_sm_chnl_rcv(n) ==
    \E m \in Nodes \ {n} :
      /\ ~lock(n) /\ wire[m][n] # <<>>
      /\ LET pkt == Head(wire[m][n])
             hits == Current(n, pkt)
         IN IF hits # {} THEN RcvMatching(n, Least(hits), pkt) ELSE RcvStray(n, pkt)
      /\ wire' = [wire EXCEPT ![m][n] = Tail(@)]
      /\ UNCHANGED <<task, pend, posted, posts, cancels, fails, norx>>
-----------------------------------------------------------------------------
Init ==
    /\ sessions = [n \in Nodes |-> <<>>]
    /\ sm_generation = [n \in Nodes |-> 1]
    /\ onlist = [n \in Nodes |-> {}]
    /\ work = [n \in Nodes |-> FALSE]
    /\ todo = [n \in Nodes |-> {}]
    /\ look = [n \in Nodes |-> NoLook]
    /\ pend = [n \in Nodes |-> {}]
    /\ wire = [n \in Nodes |-> [m \in Nodes |-> <<>>]]
    /\ datagram_cnt = [n \in Nodes |-> 0]
    /\ posted = [n \in Nodes |-> [g \in Gens |-> 0]]
    /\ posts = [n \in Nodes |-> 0]
    /\ cancels = 0 /\ fails = 0 /\ norx = 0 /\ nomem = 0

Next ==
    \E n \in Nodes :
      \/ kgni_sm_add_session(n)
      \/ kgni_sm_get_state(n)
      \/ kgni_sm_terminate(n)
      \/ kgni_sm_task(n)
      \/ kgni_sm_chnl_event(n)
      \/ kgni_sm_chnl_rcv(n)
      \/ \E i \in DOMAIN sessions[n] : Elapse(n, i)

Spec == Init /\ [][Next]_vars

(***************************************************************************)
(* The work queue runs queued work, the channel reports every packet and   *)
(* delivers what it accepted, and time goes on.  Users need not do         *)
(* anything.                                                               *)
(***************************************************************************)
FairSpec ==
    /\ Spec
    /\ \A n \in Nodes :
         /\ WF_vars(kgni_sm_task(n))
         /\ WF_vars(kgni_sm_chnl_event(n))
         /\ SF_vars(kgni_sm_chnl_rcv(n))
         /\ WF_vars(\E i \in DOMAIN sessions[n] : Elapse(n, i))
-----------------------------------------------------------------------------
Sessions == [remote : Nodes \cup {AnyPe}, state : States, local_gen : Gens,
             remote_gen : Gens \cup {0}, udata : 0 .. MaxPosts,
             rem : 0 .. MaxPosts, post_id : 0 .. MaxPosts, changed : BOOLEAN,
             failed : BOOLEAN, notified : BOOLEAN, pkts_out : {0, 1},
             flrcnt : 0 .. MaxRetransmits + 1, nrx_cnt : 0 .. MaxNrx, norx : BOOLEAN,
             delay : BOOLEAN]

(***************************************************************************)
(* Types.  At most one packet of a session is out at any time, and flrcnt  *)
(* does not pass KGNI_SM_MAX_RETRANSMITS + 1 before the session times out. *)
(***************************************************************************)
TypeOK ==
    /\ \A n \in Nodes : \A i \in DOMAIN sessions[n] : sessions[n][i] \in Sessions
    /\ sm_generation \in [Nodes -> Gens]
    /\ onlist \in [Nodes -> SUBSET Gens]
    /\ work \in [Nodes -> BOOLEAN]
    /\ datagram_cnt \in [Nodes -> Int]

(***************************************************************************)
(* The comment in kgni_sm_chnl_event: sm_task must not take a session off  *)
(* its list by mistake.  A session that has something to send, or whose    *)
(* packet is out, is on kgni_sm_list, so that it is neither forgotten nor  *)
(* freed while an event will still write to it; and a listed session with  *)
(* no packet out is about to be visited.                                   *)
(***************************************************************************)
Busy(s) == s.pkts_out > 0 \/ (s.state \notin Final /\ (s.changed \/ s.failed))

NothingForgotten ==
    \A n \in Nodes :
      /\ \A i \in DOMAIN sessions[n] :
           Busy(sessions[n][i]) => sessions[n][i].local_gen \in onlist[n]
      /\ \A e \in pend[n] : \E i \in DOMAIN sessions[n] : sessions[n][i].local_gen = e.gen
      /\ \A g \in onlist[n] :
           Of(n, g).pkts_out = 0 => (work[n] \/ lock(n))

(***************************************************************************)
(* The three GASSERTs on smtask_list: a session that only holds the peer's *)
(* datagram, and an open-ended one nobody has answered, is never on        *)
(* kgni_sm_list when a post or a packet completes it or frees it.          *)
(***************************************************************************)
IdleOffList ==
    \A n \in Nodes : \A i \in DOMAIN sessions[n] :
      (sessions[n][i].state = "REMINFO_READY" \/ sessions[n][i].remote = AnyPe)
        => sessions[n][i].local_gen \notin onlist[n]


(***************************************************************************)
(* A completed session holds the datagram its peer posted in the very      *)
(* generation the session is paired with.                                  *)
(***************************************************************************)
DataOfPairedPost ==
    \A n \in Nodes : \A i \in DOMAIN sessions[n] :
      LET s == sessions[n][i]
      IN s.state = "COMPLETED" =>
           s.remote_gen # 0 /\ s.rem # 0 /\ s.rem = posted[s.remote][s.remote_gen]

(***************************************************************************)
(* No half-open exchange: when a session has completed and the user may    *)
(* fetch it, its peer is not left waiting - the peer's session of that     *)
(* generation is past LOCINFO_READY, or the packet that completes it is on *)
(* its way.                                                                *)
(***************************************************************************)
PeerKnows ==
    \A n \in Nodes : \A i \in DOMAIN sessions[n] :
      LET s == sessions[n][i]
      IN (s.state = "COMPLETED" /\ s.local_gen \notin onlist[n]) =>
           \A j \in DOMAIN sessions[s.remote] :
             LET t == sessions[s.remote][j]
             IN (t.local_gen = s.remote_gen /\ t.state = "LOCINFO_READY") =>
                  \E k \in DOMAIN wire[n][s.remote] :
                    /\ wire[n][s.remote][k].state = "COMPLETED"
                    /\ wire[n][s.remote][k].remote_gen = t.local_gen

(***************************************************************************)
(* When all nodes have made the same number of posts, nobody cancels,      *)
(* memory lasts and too few packets are lost for a session to time out or  *)
(* to be delayed, every session gets ready for the user, unless somebody   *)
(* posts again.                                                            *)
(***************************************************************************)
Undisturbed == cancels + nomem = 0 /\ fails <= MaxRetransmits /\ norx <= FreeNoRx
Even == \A m, n \in Nodes : posts[m] = posts[n]
AllReady == \A n \in Nodes : \A i \in DOMAIN sessions[n] : Ready(n, sessions[n][i])

PostsFinish == (Even /\ Undisturbed) ~> (AllReady \/ ~Even \/ ~Undisturbed)

(***************************************************************************)
(* A packet that cancels one exchange does not undo another: a completed   *)
(* session becomes TERMINATED by a packet only if that packet comes from   *)
(* the generation the session was completed with.                          *)
(***************************************************************************)
CancelsItsOwn ==
    [][\A n \in Nodes : \A i \in DOMAIN sessions[n] :
         LET s == sessions[n][i]
         IN (/\ s.state = "COMPLETED"
             /\ \E j \in DOMAIN sessions'[n] :
                  sessions'[n][j].local_gen = s.local_gen /\ sessions'[n][j].state = "TERMINATED")
            => /\ wire[s.remote][n] # <<>>
               /\ Head(wire[s.remote][n]).local_gen = s.remote_gen]_vars
=============================================================================
