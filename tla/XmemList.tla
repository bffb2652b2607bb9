------------------------------ MODULE XmemList ------------------------------
(***************************************************************************)
(* The segment list of xmem_list.h, which the proxy client and the proxy   *)
(* server each keep: a singly linked FIFO of struct xpmem_seg, here the    *)
(* sequence of its elements from head to tail.                             *)
(***************************************************************************)
LOCAL INSTANCE Integers
LOCAL INSTANCE Sequences

\* What both searches return when no element matches.
NotFound == -1

\* The elements: [segid, address, length].
Segs == [segid : Int, address : Int, length : Int]

list_new == <<>>

\* The new element becomes the tail.
list_add_element(s, segid, addr, len) ==
  Append(s, [segid |-> segid, address |-> addr, length |-> len])


Covers(p, addr) ==
  \/ p.address = addr
  \/ addr > p.address /\ addr < p.address + p.length

\* The positions the searches can stop at, and the one they do: they walk
\* from the head and take the first.
AddressHits(ps, addr) == {i \in DOMAIN ps : Covers(ps[i], addr)}
SegidHits(ps, segid) == {i \in DOMAIN ps : ps[i].segid = segid}

FirstOf(hits) == CHOOSE i \in hits : \A j \in hits : i <= j

list_find_segid_by_vaddr(ps, addr) ==
  LET hits == AddressHits(ps, addr)
  IN  IF hits = {} THEN NotFound ELSE ps[FirstOf(hits)].segid

\* The result is the start of the segment, whatever address inside it was
\* looked up to obtain the segid.
list_find_vaddr_by_segid(ps, segid) ==
  LET hits == SegidHits(ps, segid)
  IN  IF hits = {} THEN NotFound ELSE ps[FirstOf(hits)].address

=============================================================================
