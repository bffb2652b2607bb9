----------------------------- MODULE XpmemChnl ------------------------------
(***************************************************************************)
(* The proxy of nvl/pisces/cray.  Each rank of the job has an enclave      *)
(* program with the interposing client library (xpmem_chnl_client.c) and,  *)
(* on the Linux side, a shadow server (xpmem_chnl_serv.c) that owns the    *)
(* real /dev/kgni0 and the real PMI.  The two share one Hobbes command     *)
(* queue (hcq).  A buffer of the program is known to the server by the     *)
(* XEMEM segment id the client exported it under: the client replaces      *)
(* addresses by segids (pack_args), the server replaces segids by the      *)
(* addresses at which it attached the segments.                            *)
(*                                                                         *)
(* The program is single threaded, so a rank has at most one command in    *)
(* the queue.  hcq hands the reply to the client when the server has       *)
(* called hcq_cmd_return() and not before: every caller reads the reply    *)
(* right after it has issued the command.                                  *)
(***************************************************************************)
EXTENDS Integers, Sequences, FiniteSets, XmemList

CONSTANTS NRanks,    \* size of the job
          Regions,   \* the buffers of a program: records [addr, len]
          Offsets,   \* where in a buffer a post may start
          Commands,  \* the ioctls and PMI calls the program makes
          Links,     \* the clients: TRUE is static-link/, FALSE the preloaded one
          Fails,     \* may xemem, the device, select or hcq_connect fail
          MaxCalls,  \* bound: calls of each program
          SegBase,   \* segids are drawn from here upwards
          MapBase,   \* the server's attachments are here and upwards
          MapStep,   \* distance of two attachments
          FmaBase,   \* the client's attachments of the FMA windows
          FmaLen     \* FMA_WINDOW_SIZE

ASSUME ChnlAssumption ==
  /\ NRanks \in Nat \ {0}
  /\ Regions \subseteq [addr : Nat, len : Nat]
  /\ Offsets \subseteq Nat
  /\ Links \subseteq BOOLEAN /\ Fails \in BOOLEAN
  /\ {MaxCalls, SegBase, MapBase, MapStep, FmaBase, FmaLen} \subseteq Nat

Ranks == 0..(NRanks - 1)

VARIABLES
  \* the program and the client library of each rank
  connected, \* already_init of kgni_open(), and the queue handle is valid
  mt,        \* the client's segment list
  pc,        \* "idle", or "waiting" for the reply to a command
  comm_size, \* the client's copy of the job size
  handle,    \* the memory handle the program holds for each buffer, or 0
  cur,       \* the buffer the current call is about
  pdesc,     \* local_addr as the program last stored it in its descriptor
  desc,      \* local_addr as it is in that descriptor
  dh,        \* local_mem_hndl of that descriptor
  saved,     \* save_local_addr of pack_args() in static-link/
  gout,      \* what the last allgather returned to the program
  calls,     \* calls made so far
  gathers,   \* allgathers called so far
  \* the command queue of each rank
  status,    \* "none", "issued", "taken" or "returned"
  code,      \* command code
  arg,       \* the address field of the data, or the number returned
  hndl,      \* the memory handle field of the data
  \* the server of each rank
  serv,      \* "select", "ranks" or "data" (in PMI_Allgather), or "exited"
  smt,       \* the server's segment list
  made,      \* XEMEM segments made for this rank
  ivec,      \* ivec_ptr of allgather(), empty until it has been called
  outbuf,    \* outbuf of the last PMI_IOC_ALLGATHER
  dev,       \* the last address given to the device: got, for meant and hndl
  \* PMI
  contrib,   \* what each rank passed to its PMI_Allgather calls so far
  order,     \* the order in which each rank's PMI_Allgather returns them
  sent,      \* ghost: what each rank's k-th allgather is to deliver
  \* how the job was built
  Static     \* with the sources under static-link/

given == <<order, Static>>
program == <<handle, cur, pdesc, dh, calls, gathers, sent>>
client == <<connected, mt, comm_size, desc, saved, gout>>
queue == <<status, code, arg, hndl>>
server == <<serv, smt, ivec, outbuf, dev>>
vars == <<program, client, pc, queue, server, made, contrib, given>>

NoBuffer == [addr |-> 0, len |-> 0]
NoDev == [meant |-> NotFound, got |-> NotFound, hndl |-> 0]

\* A rank's n-th segment id.
Segid(r, n) == SegBase + NRanks * n + r

\* xemem_attach() of a whole segment: where the server finds it.
Attach(segid) == MapBase + MapStep * segid

\* PMI_Allgather() promises no order of ranks, only the same one every time.
Orders == {f \in [1..NRanks -> Ranks] : \A r \in Ranks : \E i \in 1..NRanks : f[i] = r}

Init ==
  /\ connected = [r \in Ranks |-> FALSE]
  /\ mt = [r \in Ranks |-> list_new]
  /\ pc = [r \in Ranks |-> "idle"]
  /\ comm_size = [r \in Ranks |-> 0]
  /\ handle = [r \in Ranks |-> [g \in Regions |-> 0]]
  /\ cur = [r \in Ranks |-> NoBuffer]
  /\ pdesc = [r \in Ranks |-> NotFound]
  /\ desc = [r \in Ranks |-> NotFound]
  /\ dh = [r \in Ranks |-> 0]
  /\ saved = [r \in Ranks |-> NotFound]
  /\ gout = [r \in Ranks |-> <<>>]
  /\ calls = [r \in Ranks |-> 0]
  /\ gathers = [r \in Ranks |-> 0]
  /\ status = [r \in Ranks |-> "none"]
  /\ code = [r \in Ranks |-> "NONE"]
  /\ arg = [r \in Ranks |-> 0]
  /\ hndl = [r \in Ranks |-> 0]
  /\ serv = [r \in Ranks |-> "select"]
  /\ smt = [r \in Ranks |-> list_new]
  /\ made = [r \in Ranks |-> 0]
  /\ ivec = [r \in Ranks |-> <<>>]
  /\ outbuf = [r \in Ranks |-> <<>>]
  /\ dev = [r \in Ranks |-> NoDev]
  /\ contrib = [r \in Ranks |-> <<>>]
  /\ order \in [Ranks -> Orders]
  /\ Static \in Links
  /\ sent = [r \in Ranks |-> <<>>]

-----------------------------------------------------------------------------
(* The client library, entered from the program's open() and ioctl().      *)

Calling(r, c) ==
  /\ pc[r] = "idle"
  /\ connected[r]
  /\ c \in Commands
  /\ calls[r] < MaxCalls
  /\ calls' = [calls EXCEPT ![r] = @ + 1]

\* hcq_cmd_issue(): the program does not go on before the reply is there.
Issue(r, c, a, h) ==
  /\ Calling(r, c)
  /\ pc' = [pc EXCEPT ![r] = "waiting"]
  /\ status' = [status EXCEPT ![r] = "issued"]
  /\ code' = [code EXCEPT ![r] = c]
  /\ arg' = [arg EXCEPT ![r] = a]
  /\ hndl' = [hndl EXCEPT ![r] = h]
  /\ UNCHANGED <<connected, comm_size, gout, server, contrib, given>>

OpenStarts(r) == ~connected[r]

Open(r) ==
  /\ pc[r] = "idle"
  /\ calls[r] < MaxCalls
  /\ calls' = [calls EXCEPT ![r] = @ + 1]
  /\ mt' = IF OpenStarts(r) THEN [mt EXCEPT ![r] = list_new] ELSE mt
  /\ \/ connected' = [connected EXCEPT ![r] = TRUE]
     \/ Fails /\ UNCHANGED connected
  /\ UNCHANGED <<handle, cur, pdesc, dh, gathers, sent, pc, comm_size,
                 desc, saved, gout, queue, server, made, contrib, given>>

\* GNI_IOC_MEM_REGISTER: export the buffer, remember it, send the segid.
\* A failed xemem_make() is not noticed here.
MemRegister(r, g, segid) ==
  /\ segid \in {Segid(r, made[r])} \cup (IF Fails THEN {NotFound} ELSE {})
  /\ handle[r][g] = 0
  /\ made' = [made EXCEPT ![r] = @ + 1]
  /\ mt' = [mt EXCEPT ![r] = list_add_element(@, segid, g.addr, g.len)]
  /\ cur' = [cur EXCEPT ![r] = g]
  /\ Issue(r, "MEM_REGISTER", segid, 0)
  /\ UNCHANGED <<handle, pdesc, dh, gathers, sent, desc, saved>>

\* GNI_IOC_MEM_DEREGISTER and the other commands the client only prints:
\* ioctl() returns 0, the server never hears of them, the list keeps the entry.
MemDeregister(r, g) ==
  /\ handle[r][g] # 0
  /\ Calling(r, "MEM_DEREGISTER")
  /\ handle' = [handle EXCEPT ![r][g] = 0]
  /\ UNCHANGED <<cur, pdesc, dh, gathers, sent, client, pc, queue, server, made, contrib, given>>

\* GNI_IOC_CQ_CREATE, on a copy of the arguments.
CqCreate(r, g) ==
  /\ handle[r][g] # 0
  /\ cur' = [cur EXCEPT ![r] = g]
  /\ Issue(r, "CQ_CREATE", list_find_segid_by_vaddr(mt[r], g.addr), handle[r][g])
  /\ UNCHANGED <<handle, pdesc, dh, gathers, sent, mt, desc, saved, made>>

\* GNI_IOC_POST_RDMA with d in local_addr: the segid takes its place in the
\* program's own descriptor.
PostRdma(r, d, h) ==
  LET segid == list_find_segid_by_vaddr(mt[r], d) IN
  /\ saved' = [saved EXCEPT ![r] = d]
  /\ desc' = [desc EXCEPT ![r] = segid]
  /\ Issue(r, "POST_RDMA", segid, h)
  /\ UNCHANGED <<handle, cur, gathers, sent, mt, made>>

\* The program fills the descriptor in, or posts it again as it is.
FillAndPost(r, g, o) ==
  /\ handle[r][g] # 0
  /\ o < g.len
  /\ pdesc' = [pdesc EXCEPT ![r] = g.addr + o]
  /\ dh' = [dh EXCEPT ![r] = handle[r][g]]
  /\ PostRdma(r, g.addr + o, handle[r][g])

Repost(r) ==
  /\ \E g \in Regions : dh[r] # 0 /\ handle[r][g] = dh[r]
  /\ PostRdma(r, desc[r], dh[r])
  /\ UNCHANGED <<pdesc, dh>>

\* PMI_IOC_ALLGATHER of a memory handle and its address: the length of the
\* data tells it from other data.  The segid replaces addr in the program's own
\* mdh_addr_t, which the program here fills in before every call.  Every rank
\* gathers numbers first and handles after that.
GatherMdh(r, g) ==
  LET segid == list_find_segid_by_vaddr(mt[r], g.addr) IN
  /\ gathers[r] % 2 = 1
  /\ handle[r][g] # 0
  /\ gathers' = [gathers EXCEPT ![r] = @ + 1]
  /\ sent' = [sent EXCEPT ![r] = Append(@, <<handle[r][g], handle[r][g]>>)]
  /\ Issue(r, "ALLGATHER_MDH", segid, handle[r][g])
  /\ UNCHANGED <<handle, cur, pdesc, dh, mt, desc, saved, made>>

GatherInt(r) ==
  /\ gathers[r] % 2 = 0
  /\ gathers' = [gathers EXCEPT ![r] = @ + 1]
  /\ sent' = [sent EXCEPT ![r] = Append(@, <<r, 0>>)]
  /\ Issue(r, "ALLGATHER_INT", r, 0)
  /\ UNCHANGED <<handle, cur, pdesc, dh, mt, desc, saved, made>>

\* GNI_IOC_CQ_WAIT_EVENT on the queue in a buffer.
CqWaitEvent(r, g) ==
  /\ handle[r][g] # 0
  /\ Issue(r, "CQ_WAIT_EVENT", list_find_segid_by_vaddr(mt[r], g.addr), 0)
  /\ UNCHANGED <<handle, cur, pdesc, dh, gathers, sent, mt, desc, saved, made>>

\* The commands without an address in them.  The preloaded client does not
\* forward GNI_IOC_NIC_FMA_CONFIG.
Plain == {"NIC_SETATTR", "GETSIZE", "GETRANK", "FINALIZE", "BARRIER",
          "CQ_DESTROY"}
         \cup (IF Static THEN {"FMA_CONFIG"} ELSE {})

SendPlain(r, c) ==
  /\ c \in Plain
  /\ Issue(r, c, 0, 0)
  /\ UNCHANGED <<handle, cur, pdesc, dh, gathers, sent, mt, desc, saved, made>>

-----------------------------------------------------------------------------
(* The server: one pass through its select loop per command.               *)

Taking(r, c) ==
  /\ serv[r] = "select"
  /\ status[r] = "issued"
  /\ code[r] = c

\* hcq_cmd_return() with a and h in the reply.
Reply(r, a, h) ==
  /\ status' = [status EXCEPT ![r] = "returned"]
  /\ arg' = [arg EXCEPT ![r] = a]
  /\ hndl' = [hndl EXCEPT ![r] = h]
  /\ UNCHANGED code

\* main() returns: the command is never answered.
Exit(r) ==
  /\ serv' = [serv EXCEPT ![r] = "exited"]
  /\ UNCHANGED queue

\* The device ioctl with address a and handle h succeeds.
Device(r, meant, a, h) ==
  /\ a # NotFound
  /\ dev' = [dev EXCEPT ![r] = [meant |-> meant, got |-> a, hndl |-> h]]

outside == <<program, client, pc, given>>

\* GNI_IOC_NIC_SETATTR: configure the NIC, export its four windows.
ServNicSetattr(r) ==
  /\ Taking(r, "NIC_SETATTR")
  /\ \/ /\ made' = [made EXCEPT ![r] = @ + 4]
        /\ Reply(r, Segid(r, made[r]), 0)
        /\ UNCHANGED serv
     \/ Fails /\ Exit(r) /\ UNCHANGED made
  /\ UNCHANGED <<outside, smt, ivec, outbuf, dev, contrib>>

\* GNI_IOC_MEM_REGISTER: attach the segment, remember where, register it.
\* The device's memory handle is here the address it was made for.
ServMemRegister(r) ==
  /\ Taking(r, "MEM_REGISTER")
  /\ LET known == [smt EXCEPT ![r] =
                     list_add_element(@, arg[r], Attach(arg[r]), cur[r].len)] IN
     \/ /\ arg[r] # NotFound
        /\ smt' = known
        /\ Reply(r, Attach(arg[r]), Attach(arg[r]))
        /\ UNCHANGED serv
     \/ Fails /\ arg[r] # NotFound /\ smt' = known /\ Exit(r)
     \/ Fails /\ UNCHANGED smt /\ Exit(r)
  /\ UNCHANGED <<outside, made, ivec, outbuf, dev, contrib>>

\* GNI_IOC_POST_RDMA and GNI_IOC_CQ_CREATE: from segid to address.
ServPostRdma(r) ==
  LET buffer == list_find_vaddr_by_segid(smt[r], arg[r]) IN
  /\ Taking(r, "POST_RDMA")
  /\ \/ Device(r, pdesc[r], buffer, hndl[r]) /\ Reply(r, 0, 0) /\ UNCHANGED serv
     \/ (Fails \/ buffer = NotFound) /\ Exit(r) /\ UNCHANGED dev
  /\ UNCHANGED <<outside, made, smt, ivec, outbuf, contrib>>

ServCqCreate(r) ==
  LET buffer == list_find_vaddr_by_segid(smt[r], arg[r]) IN
  /\ Taking(r, "CQ_CREATE")
  /\ \/ Device(r, cur[r].addr, buffer, hndl[r]) /\ Reply(r, buffer, hndl[r]) /\ UNCHANGED serv
     \/ (Fails \/ buffer = NotFound) /\ Exit(r) /\ UNCHANGED dev
  /\ UNCHANGED <<outside, made, smt, ivec, outbuf, contrib>>

\* GNI_IOC_NIC_FMA_CONFIG, a case of the server in static-link/ only.
ServFmaConfig(r) ==
  /\ Static
  /\ Taking(r, "FMA_CONFIG")
  /\ \/ Reply(r, 0, 0) /\ UNCHANGED serv
     \/ Fails /\ Exit(r)
  /\ UNCHANGED <<outside, made, smt, ivec, outbuf, dev, contrib>>

\* The PMI calls that wait for nobody.
PmiAnswerOneMore(r) == [GETRANK |-> r, GETSIZE |-> NRanks + 1, FINALIZE |-> 0]
PmiAnswer(r) == [GETRANK |-> r, GETSIZE |-> NRanks, FINALIZE |-> 0]


ServPmi(r) ==
  /\ \E c \in DOMAIN PmiAnswer(r) : Taking(r, c) /\ Reply(r, PmiAnswer(r)[c], 0)
  /\ UNCHANGED <<outside, made, server, contrib>>

\* The default case: the command is taken from the queue and forgotten.
Unknown == {"BARRIER", "CQ_WAIT_EVENT", "CQ_DESTROY"}

ServDefault(r) ==
  /\ \E c \in Unknown : Taking(r, c)
  /\ status' = [status EXCEPT ![r] = "taken"]
  /\ UNCHANGED <<outside, code, arg, hndl, made, server, contrib>>

\* PMI_IOC_ALLGATHER.  The first allgather() of a server collects the ranks
\* before the data, to learn the order in which PMI returns them.
ServAllgather(r) ==
  /\ Taking(r, "ALLGATHER_MDH") \/ Taking(r, "ALLGATHER_INT")
  /\ status' = [status EXCEPT ![r] = "taken"]
  /\ arg' = IF code[r] = "ALLGATHER_MDH"
            THEN [arg EXCEPT ![r] = list_find_vaddr_by_segid(smt[r], @)]
            ELSE arg
  /\ IF ivec[r] = <<>>
     THEN /\ serv' = [serv EXCEPT ![r] = "ranks"]
          /\ contrib' = [contrib EXCEPT ![r] = Append(@, <<r, 0>>)]
     ELSE /\ serv' = [serv EXCEPT ![r] = "data"]
          /\ contrib' = [contrib EXCEPT ![r] = Append(@, <<arg'[r], hndl[r]>>)]
  /\ UNCHANGED <<outside, code, hndl, made, smt, ivec, outbuf, dev>>

\* PMI_Allgather() returns when every rank has made as many calls.
Gathered(r) == \A q \in Ranks : Len(contrib[q]) >= Len(contrib[r])
Result(r) == [i \in 1..NRanks |-> contrib[order[r][i]][Len(contrib[r])]]

GatherRanks(r) ==
  /\ serv[r] = "ranks"
  /\ Gathered(r)
  /\ ivec' = [ivec EXCEPT ![r] = [i \in 1..NRanks |-> Result(r)[i][1]]]
  /\ serv' = [serv EXCEPT ![r] = "data"]
  /\ contrib' = [contrib EXCEPT ![r] = Append(@, <<arg[r], hndl[r]>>)]
  /\ UNCHANGED <<outside, queue, made, smt, outbuf, dev>>

\* The i-th contribution PMI returned goes to the place of its rank.
Unpermuted(r) == Result(r)
Permuted(r) == [k \in 1..NRanks |-> Result(r)[CHOOSE i \in 1..NRanks : ivec[r][i] = k - 1]]

GatherData(r) ==
  /\ serv[r] = "data"
  /\ Gathered(r)
  /\ outbuf' = [outbuf EXCEPT ![r] = Permuted(r)]
  /\ serv' = [serv EXCEPT ![r] = "select"]
  /\ Reply(r, arg[r], hndl[r])
  /\ UNCHANGED <<outside, made, smt, ivec, dev, contrib>>

\* select() fails: the loop ends, the queue is freed.
ServSelectFails(r) ==
  /\ Fails
  /\ serv[r] = "select"
  /\ Exit(r)
  /\ UNCHANGED <<outside, made, smt, ivec, outbuf, dev, contrib>>

ServStep(r) ==
  \/ ServNicSetattr(r) \/ ServMemRegister(r) \/ ServPostRdma(r) \/ ServCqCreate(r)
  \/ ServFmaConfig(r) \/ ServPmi(r) \/ ServDefault(r) \/ ServAllgather(r)
  \/ GatherRanks(r) \/ GatherData(r)

-----------------------------------------------------------------------------
(* The client library goes on with the reply.                              *)

Complete(r, codes) ==
  /\ pc[r] = "waiting"
  /\ status[r] = "returned"
  /\ code[r] \in codes
  /\ pc' = [pc EXCEPT ![r] = "idle"]
  /\ status' = [status EXCEPT ![r] = "none"]
  /\ UNCHANGED <<code, arg, hndl, server, made, contrib, given>>

DoneMemRegister(r) ==
  /\ Complete(r, {"MEM_REGISTER"})
  /\ handle' = [handle EXCEPT ![r][cur[r]] = hndl[r]]
  /\ UNCHANGED <<cur, pdesc, dh, calls, gathers, sent, client>>

\* unpack_args() of the preloaded client: look the four windows up by name,
\* attach and list them, all with FMA_WINDOW_SIZE.  A window that cannot be
\* attached ends the function; ioctl() returns 0 all the same.
WithWindows(s, segid, n) ==
  s \o [i \in 1..n |-> [segid |-> segid + NRanks * (i - 1),
                        address |-> FmaBase + FmaLen * (i - 1),
                        length |-> FmaLen]]

DoneNicSetattrPreload(r) ==
  /\ ~Static
  /\ Complete(r, {"NIC_SETATTR"})
  /\ \E n \in IF Fails THEN 0..4 ELSE {4} :
       mt' = [mt EXCEPT ![r] = WithWindows(@, arg[r], n)]
  /\ UNCHANGED <<program, connected, comm_size, desc, saved, gout>>

\* In static-link/ the segids of the windows are in the reply, and the list
\* does not learn of them.
DoneNicSetattrStatic(r) ==
  /\ Static
  /\ Complete(r, {"NIC_SETATTR"})
  /\ UNCHANGED <<program, client>>

\* Only static-link/ puts local_addr back.
NeverRestored(r) == desc[r]
Restored(r) == IF Static THEN saved[r] ELSE desc[r]

DonePostRdma(r) ==
  /\ Complete(r, {"POST_RDMA"})
  /\ desc' = [desc EXCEPT ![r] = Restored(r)]
  /\ UNCHANGED <<program, connected, mt, comm_size, saved, gout>>

DoneGetsize(r) ==
  /\ Complete(r, {"GETSIZE"})
  /\ comm_size' = [comm_size EXCEPT ![r] = arg[r]]
  /\ UNCHANGED <<program, connected, mt, desc, saved, gout>>

\* memcpy() of comm_size elements to the program.
DoneAllgather(r) ==
  /\ Complete(r, {"ALLGATHER_MDH", "ALLGATHER_INT"})
  /\ gout' = [gout EXCEPT ![r] = SubSeq(outbuf[r], 1, comm_size[r])]
  /\ UNCHANGED <<program, connected, mt, comm_size, desc, saved>>

DonePlain(r) ==
  /\ Complete(r, {"CQ_CREATE", "GETRANK", "FINALIZE", "FMA_CONFIG"})
  /\ UNCHANGED <<program, client>>

ClientGoesOn(r) ==
  \/ DoneMemRegister(r) \/ DoneNicSetattrPreload(r) \/ DoneNicSetattrStatic(r)
  \/ DonePostRdma(r) \/ DoneGetsize(r) \/ DoneAllgather(r) \/ DonePlain(r)

Program(r) ==
  \/ Open(r)
  \/ \E g \in Regions :
       \/ \E segid \in {Segid(r, made[r]), NotFound} : MemRegister(r, g, segid)
       \/ MemDeregister(r, g) \/ CqCreate(r, g) \/ CqWaitEvent(r, g)
       \/ GatherMdh(r, g)
       \/ \E o \in Offsets : FillAndPost(r, g, o)
  \/ Repost(r)
  \/ GatherInt(r)
  \/ \E c \in Plain : SendPlain(r, c)

Next == \E r \in Ranks : Program(r) \/ ServStep(r) \/ ServSelectFails(r) \/ ClientGoesOn(r)

Spec == Init /\ [][Next]_vars

\* Both processes of a rank keep running as long as they can; the program may
\* stop calling.
FairSpec == Spec /\ \A r \in Ranks : WF_vars(ServStep(r)) /\ WF_vars(ClientGoesOn(r))

-----------------------------------------------------------------------------
(* Properties                                                              *)

Codes == Plain \cup Unknown \cup {"NONE", "MEM_REGISTER", "CQ_CREATE", "POST_RDMA",
                                  "ALLGATHER_MDH", "ALLGATHER_INT"}

\* Every field of the client, the queue and the server holds a value of its
\* type: in particular an address or segid field always holds a number, and
\* the lists hold whole elements.
TypeOK ==
  /\ connected \in [Ranks -> BOOLEAN]
  /\ mt \in [Ranks -> Seq(Segs)] /\ smt \in [Ranks -> Seq(Segs)]
  /\ pc \in [Ranks -> {"idle", "waiting"}]
  /\ comm_size \in [Ranks -> {0, NRanks}]
  /\ handle \in [Ranks -> [Regions -> Int]]
  /\ cur \in [Ranks -> Regions \cup {NoBuffer}]
  /\ {pdesc, desc, dh, saved, arg, hndl} \subseteq [Ranks -> Int]
  /\ {calls, gathers, made} \subseteq [Ranks -> Nat]
  /\ status \in [Ranks -> {"none", "issued", "taken", "returned"}]
  /\ code \in [Ranks -> Codes]
  /\ serv \in [Ranks -> {"select", "ranks", "data", "exited"}]
  /\ dev \in [Ranks -> [meant : Int, got : Int, hndl : Int]]


Disjoint(s) ==
  \A i, j \in DOMAIN s : \/ i = j
                         \/ s[i].address + s[i].length <= s[j].address
                         \/ s[j].address + s[j].length <= s[i].address

\* The address the server gives to the device, for a post or for a completion
\* queue, is where it attached the very byte the program named, in the
\* registration whose memory handle goes with it, as long as the program has not
\* registered an address twice (the list keeps what was deregistered).
RightByte ==
  \A r \in Ranks :
    dev[r] # NoDev /\ Disjoint(mt[r]) =>
      \E i \in DOMAIN mt[r] :
        /\ dev[r].hndl = Attach(mt[r][i].segid)
        /\ dev[r].got = dev[r].hndl + (dev[r].meant - mt[r][i].address)

\* When GNI_PostRdma() of static-link/ has returned, local_addr of the
\* program's descriptor is what the program stored there.
DescriptorPreserved ==
  Static => \A r \in Ranks : pc[r] = "idle" => desc[r] = pdesc[r]

\* An allgather delivers, in the order of the ranks, what each rank passed to
\* its own allgather of the same number, with addresses that its server can
\* hand to the network; a program that did not ask for the size gets nothing.
GatheredByRank ==
  \A r \in Ranks :
    pc[r] = "idle" /\ gout[r] # <<>> =>
      \A q \in Ranks : gout[r][q + 1] = sent[q][gathers[r]]


=============================================================================
