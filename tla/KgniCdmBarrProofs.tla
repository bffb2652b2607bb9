-------------------------- MODULE KgniCdmBarrProofs --------------------------
(***************************************************************************)
(* The barrier kgni_cdm_barr() shares between the instances of a job is    *)
(* neither used after it is freed nor leaked, for any number of instances, *)
(* any sizes, any timeouts and any allocation failures.                    *)
(***************************************************************************)
EXTENDS KgniCdmBarr, FiniteSetTheorems, SequenceTheorems, TLAPS

\* The callers queued on the semaphore are asleep, and each is queued once.
SleepersAsleep ==
  /\ \A i \in 1..Len(sleepers) : pc[sleepers[i]] = "asleep"
  /\ \A i, j \in 1..Len(sleepers) : sleepers[i] = sleepers[j] => i = j

\* Only calls with a size of at least 2 get as far as kzalloc().
AllocSizes == \A p \in Procs : pc[p] = "alloc" => size[p] >= 2

\* The inductive invariant.
IInv == TypeOK /\ SleepersAsleep /\ RefCntCountsUsers /\ AllocSizes

\* The set of users is finite, so that its cardinality is a number.
LEMMA UsersFinite == IsFiniteSet(Users) /\ Cardinality(Users) \in Nat
<1>1. Users \subseteq Procs
  BY DEF Users
<1>2. IsFiniteSet(Users)
  BY <1>1, FS_Subset, BarrAssumption
<1> QED
  BY <1>2, FS_CardinalityType

\* A caller that comes in and raises ref_cnt is one more user.
LEMMA UserEnters ==
  ASSUME NEW p \in Procs, p \notin Users, Users' = Users \cup {p},
         ref_cnt = Cardinality(Users), ref_cnt' = ref_cnt + 1, exists'
  PROVE  RefCntCountsUsers'
<1>1. Cardinality(Users') = Cardinality(Users) + 1
  BY UsersFinite, FS_AddElement, SMTT(30)
<1> QED
  BY <1>1 DEF RefCntCountsUsers

\* A caller that goes and lowers ref_cnt is one user less, and the last one
\* takes the barrier with it.
LEMMA UserLeaves ==
  ASSUME NEW p \in Procs, p \in Users, Users' = Users \ {p},
         ref_cnt = Cardinality(Users), ref_cnt' = ref_cnt - 1,
         exists' <=> ref_cnt' # 0
  PROVE  RefCntCountsUsers'
<1>1. IsFiniteSet(Users \ {p}) /\ Cardinality(Users \ {p}) = Cardinality(Users) - 1
  BY UsersFinite, FS_RemoveElement
<1>2. Cardinality(Users \ {p}) = 0 <=> Users \ {p} = {}
  BY <1>1, FS_EmptySet, Zenon
<1> QED
  BY <1>1, <1>2 DEF RefCntCountsUsers

\* A step that leaves the users and the reference count alone.
LEMMA UsersSame ==
  ASSUME RefCntCountsUsers, Users' = Users, ref_cnt' = ref_cnt, exists' = exists
  PROVE  RefCntCountsUsers'
BY DEF RefCntCountsUsers

\* What the type of sleepers says of its elements.
LEMMA SleepersType ==
  ASSUME TypeOK
  PROVE  /\ Len(sleepers) \in Nat
         /\ \A i \in 1..Len(sleepers) : sleepers[i] \in Procs
BY DEF TypeOK

\* The empty queue.
LEMMA NoSleepers == <<>> \in Seq(Procs) /\ Len(<<>>) = 0 /\ 1..Len(<<>>) = {}
OBVIOUS

\* Dropping the first n elements of a sequence.
LEMMA DropFirst ==
  ASSUME NEW S, NEW q \in Seq(S), NEW n \in Nat, n < Len(q),
         NEW t, t = SubSeq(q, n + 1, Len(q))
  PROVE  /\ t \in Seq(S)
         /\ Len(t) = Len(q) - n
         /\ \A i \in 1..Len(t) : i + n \in 1..Len(q) /\ t[i] = q[i + n]
<1>1. Len(q) \in Nat /\ \A i \in (n + 1)..Len(q) : q[i] \in S
  OBVIOUS
<1>2. /\ t \in Seq(S)
      /\ Len(t) = IF n + 1 <= Len(q) THEN Len(q) - (n + 1) + 1 ELSE 0
      /\ \A i \in 1..(Len(q) - (n + 1) + 1) : t[i] = q[n + 1 + i - 1]
  BY <1>1, SubSeqProperties
<1> QED
  BY <1>1, <1>2

\* The first n callers leave the queue.
LEMMA WakeFirst ==
  ASSUME NEW q \in Seq(Procs), NEW n \in Nat, n < Len(q)
  PROVE  \A t : t = SubSeq(q, n + 1, Len(q)) =>
           /\ t \in Seq(Procs)
           /\ Len(t) = Len(q) - n
           /\ \A i \in 1..Len(t) : i + n \in 1..Len(q) /\ t[i] = q[i + n]
<1> SUFFICES ASSUME NEW t, t = SubSeq(q, n + 1, Len(q))
             PROVE  /\ t \in Seq(Procs)
                    /\ Len(t) = Len(q) - n
                    /\ \A i \in 1..Len(t) : i + n \in 1..Len(q) /\ t[i] = q[i + n]
  OBVIOUS
<1> QED
  BY DropFirst

\* A caller that is not asleep moves and the queue stays as it is.
LEMMA SleepersSame ==
  ASSUME TypeOK, SleepersAsleep, NEW p \in Procs, pc[p] # "asleep", NEW l,
         pc' = [pc EXCEPT ![p] = l], sleepers' = sleepers
  PROVE  SleepersAsleep'
<1>1. \A i \in 1..Len(sleepers) : sleepers[i] \in Procs /\ sleepers[i] # p
  BY SleepersType DEF SleepersAsleep
<1>2. pc \in [Procs -> Locations]
  BY DEF TypeOK
<1>3. \A i \in 1..Len(sleepers) : pc'[sleepers[i]] = "asleep"
  BY <1>1, <1>2 DEF SleepersAsleep
<1> QED
  BY <1>3 DEF SleepersAsleep

\* The ways in which a caller that is not inside joins a barrier that exists
\* keep the invariant.
LEMMA JoinKeepsIInv ==
  ASSUME IInv, NEW p \in Procs, NEW s \in Nat, pc[p] \in {"out", "alloc"},
         s >= 2, exists, JoinBarr(p, s),
         calls' \in [Procs -> Nat],
         size' = size \/ size' = [size EXCEPT ![p] = s]
  PROVE  IInv'
<1> USE DEF Locations, Inside, Results, Wakes, Frees, InitialTokens
<1>0. TypeOK /\ SleepersAsleep /\ RefCntCountsUsers /\ AllocSizes
  BY DEF IInv
<1> size' \in [Procs -> Nat]
  BY <1>0, Zenon DEF TypeOK
<1>1. p \notin Users /\ ref_cnt = Cardinality(Users)
  BY <1>0 DEF Users, RefCntCountsUsers
<1>2. CASE Reuse(p, s)
  <2>1. TypeOK'
    BY <1>0, <1>2 DEF TypeOK, Reuse
  <2>2. SleepersAsleep'
    BY <1>0, <1>2, SleepersSame, Zenon DEF Reuse
  <2>3. Users' = Users \cup {p}
    BY <1>0, <1>2 DEF TypeOK, Reuse, Users
  <2>4. RefCntCountsUsers'
    BY <1>1, <1>2, <2>3, UserEnters DEF Reuse
  <2>5. AllocSizes'
    BY <1>0, <1>2 DEF TypeOK, Reuse, AllocSizes
  <2> QED
    BY <2>1, <2>2, <2>4, <2>5 DEF IInv
<1>3. CASE Mismatch(p, s)
  <2>1. TypeOK'
    BY <1>0, <1>3 DEF TypeOK, Mismatch, Return, barr, ghosts
  <2>2. SleepersAsleep'
    BY <1>0, <1>3, SleepersSame, Zenon DEF Mismatch, Return, barr
  <2>3. Users' = Users
    BY <1>0, <1>3 DEF TypeOK, Mismatch, Return, Users
  <2>4. RefCntCountsUsers'
    BY <1>0, <1>3, <2>3, UsersSame DEF Mismatch, barr
  <2>5. AllocSizes'
    BY <1>0, <1>3 DEF TypeOK, Mismatch, AllocSizes, Return
  <2> QED
    BY <2>1, <2>2, <2>4, <2>5 DEF IInv
<1>4. CASE JoinNotLast(p, s)
  <2>1. TypeOK'
    BY <1>0, <1>4 DEF TypeOK, JoinNotLast
  <2>2. SleepersAsleep'
    BY <1>0, <1>4, SleepersSame, Zenon DEF JoinNotLast
  <2>3. Users' = Users \cup {p}
    BY <1>0, <1>4 DEF TypeOK, JoinNotLast, Users
  <2>4. RefCntCountsUsers'
    BY <1>1, <1>4, <2>3, UserEnters DEF JoinNotLast
  <2>5. AllocSizes'
    BY <1>0, <1>4 DEF TypeOK, JoinNotLast, AllocSizes
  <2> QED
    BY <2>1, <2>2, <2>4, <2>5 DEF IInv
<1>5. CASE JoinLast(p, s)
  <2>0. s - 1 \in Nat /\ sem \in Nat /\ sleepers \in Seq(Procs) /\ Len(sleepers) \in Nat
    BY <1>0 DEF TypeOK
  <2>1. \A q \in Woken(Wakes(s)) : q \in Procs /\ pc[q] = "asleep"
    BY <1>0, SleepersType DEF SleepersAsleep, Woken
  <2>2. Up(Wakes(s))
    BY <1>5 DEF JoinLast
  <2>3. Users' = Users
    BY <1>0, <1>5, <2>1 DEF TypeOK, JoinLast, Users
  <2>4. SleepersAsleep' /\ sem' \in Nat /\ sleepers' \in Seq(Procs)
    <3>1. CASE s - 1 < Len(sleepers)
      <4>1. sleepers' = SubSeq(sleepers, (s - 1) + 1, Len(sleepers)) /\ sem' = sem
        BY <2>2, <3>1 DEF Up
      <4>2. /\ sleepers' \in Seq(Procs)
            /\ Len(sleepers') = Len(sleepers) - (s - 1)
            /\ \A i \in 1..Len(sleepers') :
                 i + (s - 1) \in 1..Len(sleepers) /\ sleepers'[i] = sleepers[i + (s - 1)]
        <5>1. \A t : t = SubSeq(sleepers, (s - 1) + 1, Len(sleepers)) =>
                /\ t \in Seq(Procs)
                /\ Len(t) = Len(sleepers) - (s - 1)
                /\ \A i \in 1..Len(t) :
                     i + (s - 1) \in 1..Len(sleepers) /\ t[i] = sleepers[i + (s - 1)]
          BY <2>0, <3>1, WakeFirst, Zenon
        <5> QED
          BY <4>1, <5>1, Zenon
      <4>3. ASSUME NEW i \in 1..Len(sleepers')
            PROVE  sleepers'[i] \in Procs /\ pc'[sleepers'[i]] = "asleep"
        <5>1. i + (s - 1) \in 1..Len(sleepers) /\ sleepers'[i] = sleepers[i + (s - 1)]
          BY <4>2, Zenon
        <5>2. sleepers'[i] \in Procs /\ pc[sleepers'[i]] = "asleep"
          BY <1>0, <5>1, SleepersType DEF SleepersAsleep
        <5>3. sleepers'[i] \notin Woken(Wakes(s))
          <6>1. \A j \in 1..Len(sleepers) : j <= s - 1 => j # i + (s - 1)
            BY <2>0, <4>2
          <6> QED
            BY <1>0, <5>1, <6>1 DEF Woken, SleepersAsleep
        <5> QED
          BY <1>5, <5>2, <5>3 DEF JoinLast
      <4>4. ASSUME NEW i \in 1..Len(sleepers'), NEW j \in 1..Len(sleepers'),
                   sleepers'[i] = sleepers'[j]
            PROVE  i = j
        <5>1. /\ i + (s - 1) \in 1..Len(sleepers)
              /\ j + (s - 1) \in 1..Len(sleepers)
              /\ sleepers[i + (s - 1)] = sleepers[j + (s - 1)]
          BY <4>2, <4>4
        <5>2. i + (s - 1) = j + (s - 1)
          BY <1>0, <5>1, Zenon DEF SleepersAsleep
        <5> QED
          BY <2>0, <4>2, <5>2
      <4> QED
        BY <2>0, <4>1, <4>2, <4>3, <4>4, Zenon DEF SleepersAsleep
    <3>2. CASE ~(s - 1 < Len(sleepers))
      <4>1. sleepers' = <<>> /\ sem' = sem + (s - 1) - Len(sleepers)
        BY <2>2, <3>2 DEF Up
      <4> QED
        BY <2>0, <3>2, <4>1 DEF SleepersAsleep
    <3> QED
      BY <3>1, <3>2
  <2>6. TypeOK'
    <3>1. count' \in Nat /\ pc' \in [Procs -> Locations] /\ ret' \in [Procs -> Results]
      BY <1>0, <1>5 DEF TypeOK, JoinLast
    <3> QED
      BY <1>0, <1>5, <2>4, <3>1, Zenon DEF TypeOK, JoinLast
  <2>5. RefCntCountsUsers'
    BY <1>0, <1>5, <2>3, UsersSame DEF JoinLast
  <2>7. AllocSizes'
    BY <1>0, <1>5, SMTT(30) DEF TypeOK, JoinLast, AllocSizes
  <2> QED
    BY <2>4, <2>5, <2>6, <2>7 DEF IInv
<1> QED
  BY <1>2, <1>3, <1>4, <1>5 DEF JoinBarr

\* Removing the i-th element of a sequence.
LEMMA RemoveIth ==
  ASSUME NEW S, NEW q \in Seq(S), NEW i \in 1..Len(q)
  PROVE  LET t == SubSeq(q, 1, i - 1) \o SubSeq(q, i + 1, Len(q))
         IN  /\ t \in Seq(S)
             /\ Len(t) = Len(q) - 1
             /\ \A j \in 1..Len(t) :
                  t[j] = IF j < i THEN q[j] ELSE q[j + 1]
<1> DEFINE l == SubSeq(q, 1, i - 1)
           r == SubSeq(q, i + 1, Len(q))
<1>0. Len(q) \in Nat /\ i \in Int /\ 1 <= i /\ i <= Len(q)
  OBVIOUS
<1>1. l \in Seq(S) /\ Len(l) = i - 1 /\ \A j \in 1..(i - 1) : l[j] = q[j]
  <2>1. \A j \in 1..(i - 1) : q[j] \in S
    BY <1>0
  <2>2. /\ l \in Seq(S)
        /\ Len(l) = IF 1 <= i - 1 THEN i - 1 - 1 + 1 ELSE 0
        /\ \A j \in 1..(i - 1 - 1 + 1) : l[j] = q[1 + j - 1]
    BY <1>0, <2>1, SubSeqProperties
  <2> QED
    BY <1>0, <2>2
<1>2. r \in Seq(S) /\ Len(r) = Len(q) - i /\ \A j \in 1..(Len(q) - i) : r[j] = q[i + j]
  <2>1. \A j \in (i + 1)..Len(q) : q[j] \in S
    BY <1>0
  <2>2. /\ r \in Seq(S)
        /\ Len(r) = IF i + 1 <= Len(q) THEN Len(q) - (i + 1) + 1 ELSE 0
        /\ \A j \in 1..(Len(q) - (i + 1) + 1) : r[j] = q[i + 1 + j - 1]
    BY <1>0, <2>1, SubSeqProperties
  <2> QED
    BY <1>0, <2>2
<1> HIDE DEF l, r
<1>3. /\ l \o r \in Seq(S)
      /\ Len(l \o r) = Len(l) + Len(r)
      /\ \A j \in 1..(Len(l) + Len(r)) :
           (l \o r)[j] = IF j <= Len(l) THEN l[j] ELSE r[j - Len(l)]
  BY <1>1, <1>2, ConcatProperties, Zenon
<1>4. ASSUME NEW j \in 1..(Len(q) - 1)
      PROVE  (l \o r)[j] = IF j < i THEN q[j] ELSE q[j + 1]
  <2>1. CASE j < i
    BY <1>0, <1>1, <1>2, <1>3, <2>1
  <2>2. CASE ~(j < i)
    <3>1. j - (i - 1) \in 1..(Len(q) - i) /\ i + (j - (i - 1)) = j + 1
      BY <1>0, <2>2
    <3>2. (l \o r)[j] = r[j - (i - 1)]
      BY <1>0, <1>1, <1>2, <1>3, <2>2, SMTT(30)
    <3>3. r[j - (i - 1)] = q[i + (j - (i - 1))]
      BY <1>2, <3>1, SMTT(30)
    <3> QED
      BY <2>2, <3>1, <3>2, <3>3
  <2> QED
    BY <2>1, <2>2, Zenon
<1>5. Len(l \o r) = Len(q) - 1
  BY <1>0, <1>1, <1>2, <1>3
<1> QED
  BY <1>3, <1>4, <1>5, Zenon DEF l, r

\* Every step keeps the invariant.
LEMMA NextKeepsIInv == IInv /\ [Next]_vars => IInv'
<1> USE DEF Locations, Inside, Results, Wakes, Frees, InitialTokens
<1> SUFFICES ASSUME IInv, [Next]_vars PROVE IInv'
  OBVIOUS
<1>0. TypeOK /\ SleepersAsleep /\ RefCntCountsUsers /\ AllocSizes
  BY DEF IInv
<1>1. ASSUME NEW p \in Procs, NEW s \in Sizes, CallTrivial(p, s)
      PROVE  IInv'
  <2>1. s \in Nat /\ pc[p] = "out"
    BY <1>1, BarrAssumption DEF CallTrivial
  <2>2. TypeOK' /\ AllocSizes'
    BY <1>0, <1>1, <2>1 DEF TypeOK, AllocSizes, CallTrivial, Return, barr, ghosts
  <2>3. SleepersAsleep'
    BY <1>0, <1>1, <2>1, SleepersSame, Zenon DEF CallTrivial, Return, barr
  <2>4. Users' = Users
    BY <1>0, <1>1 DEF TypeOK, CallTrivial, Return, Users
  <2> QED
    BY <1>0, <1>1, <2>2, <2>3, <2>4, UsersSame DEF IInv, CallTrivial, barr
<1>2. ASSUME NEW p \in Procs, NEW s \in Sizes, CallAlloc(p, s)
      PROVE  IInv'
  <2>1. s \in Nat /\ pc[p] = "out"
    BY <1>2, BarrAssumption DEF CallAlloc
  <2>2. TypeOK' /\ AllocSizes'
    BY <1>0, <1>2, <2>1 DEF TypeOK, AllocSizes, CallAlloc, barr, ghosts
  <2>3. SleepersAsleep'
    BY <1>0, <1>2, <2>1, SleepersSame, Zenon DEF CallAlloc, barr
  <2>4. Users' = Users
    BY <1>0, <1>2 DEF TypeOK, CallAlloc, Users
  <2> QED
    BY <1>0, <1>2, <2>2, <2>3, <2>4, UsersSame DEF IInv, CallAlloc, barr
<1>3. ASSUME NEW p \in Procs, NEW s \in Sizes, CallJoin(p, s)
      PROVE  IInv'
  <2>1. s \in Nat /\ s >= 2 /\ pc[p] = "out" /\ exists /\ JoinBarr(p, s)
    BY <1>3, BarrAssumption DEF CallJoin
  <2>2. size' = [size EXCEPT ![p] = s] /\ calls' \in [Procs -> Nat]
    BY <1>0, <1>3, <2>1 DEF CallJoin, TypeOK
  <2> QED
    BY <2>1, <2>2, JoinKeepsIInv, Zenon
<1>4. ASSUME NEW p \in Procs, AllocFail(p)
      PROVE  IInv'
  <2>1. TypeOK' /\ AllocSizes'
    BY <1>0, <1>4 DEF TypeOK, AllocSizes, AllocFail, Return, barr, ghosts
  <2>2. SleepersAsleep'
    BY <1>0, <1>4, SleepersSame, Zenon DEF AllocFail, Return, barr
  <2>3. Users' = Users
    BY <1>0, <1>4 DEF TypeOK, AllocFail, Return, Users
  <2> QED
    BY <1>0, <1>4, <2>1, <2>2, <2>3, UsersSame DEF IInv, AllocFail, barr
<1>5. ASSUME NEW p \in Procs, Install(p)
      PROVE  IInv'
  <2>1. TypeOK' /\ AllocSizes'
    BY <1>0, <1>5 DEF TypeOK, AllocSizes, Install
  <2>2. SleepersAsleep'
    BY <1>5 DEF SleepersAsleep, Install
  <2>3. Users = {} /\ p \notin Users
    BY <1>0, <1>5 DEF RefCntCountsUsers, Install
  <2>4. Users' = Users \cup {p}
    BY <1>0, <1>5 DEF TypeOK, Install, Users
  <2>5. ref_cnt = 0
    BY <1>0, <2>3, FS_EmptySet DEF RefCntCountsUsers
  <2>6. ref_cnt' = ref_cnt + 1 /\ exists'
    BY <1>5, <2>5 DEF Install
  <2>7. RefCntCountsUsers'
    BY <1>0, <2>3, <2>4, <2>6, UserEnters DEF RefCntCountsUsers
  <2> QED
    BY <2>1, <2>2, <2>7 DEF IInv
<1>6. ASSUME NEW p \in Procs, LostRace(p)
      PROVE  IInv'
  <2>1. pc[p] = "alloc" /\ exists /\ JoinBarr(p, size[p]) /\ size' = size
    BY <1>6 DEF LostRace
  <2>2. size[p] \in Nat /\ size[p] >= 2 /\ calls' \in [Procs -> Nat]
    BY <1>0, <1>6, <2>1 DEF TypeOK, AllocSizes, LostRace
  <2> QED
    BY <2>1, <2>2, JoinKeepsIInv
<1>7. ASSUME NEW p \in Procs, DownTakes(p)
      PROVE  IInv'
  <2>1. TypeOK' /\ AllocSizes'
    BY <1>0, <1>7 DEF TypeOK, AllocSizes, DownTakes, ghosts
  <2>2. SleepersAsleep'
    BY <1>0, <1>7, SleepersSame, Zenon DEF DownTakes
  <2>3. Users' = Users
    BY <1>0, <1>7 DEF TypeOK, DownTakes, Users
  <2> QED
    BY <1>0, <1>7, <2>1, <2>2, <2>3, UsersSame DEF IInv, DownTakes
<1>8. ASSUME NEW p \in Procs, DownSleeps(p)
      PROVE  IInv'
  <2>1. sleepers' = Append(sleepers, p) /\ sleepers \in Seq(Procs)
    BY <1>0, <1>8 DEF DownSleeps, TypeOK
  <2>2. /\ sleepers' \in Seq(Procs)
        /\ Len(sleepers') = Len(sleepers) + 1
        /\ \A i \in 1..Len(sleepers) : sleepers'[i] = sleepers[i]
        /\ sleepers'[Len(sleepers) + 1] = p
    BY <2>1, AppendProperties
  <2>3. TypeOK' /\ AllocSizes'
    BY <1>0, <1>8, <2>2 DEF TypeOK, AllocSizes, DownSleeps, ghosts
  <2>4. \A i \in 1..Len(sleepers) :
          /\ sleepers[i] \in Procs
          /\ sleepers[i] # p
          /\ pc'[sleepers[i]] = "asleep"
    BY <1>0, <1>8, SleepersType, SMTT(30) DEF SleepersAsleep, DownSleeps, TypeOK
  <2>5. pc'[p] = "asleep" /\ Len(sleepers) \in Nat
    BY <1>0, <1>8, <2>1 DEF DownSleeps, TypeOK
  <2>6. SleepersAsleep'
    BY <1>0, <2>2, <2>4, <2>5 DEF SleepersAsleep
  <2>7. Users' = Users
    BY <1>0, <1>8 DEF TypeOK, DownSleeps, Users
  <2> QED
    BY <1>0, <1>8, <2>3, <2>6, <2>7, UsersSame DEF IInv, DownSleeps
<1>9. ASSUME NEW p \in Procs, GiveUp(p)
      PROVE  IInv'
  <2>1. PICK k \in 1..Len(sleepers) :
          /\ sleepers[k] = p
          /\ sleepers' = SubSeq(sleepers, 1, k - 1)
                           \o SubSeq(sleepers, k + 1, Len(sleepers))
    BY <1>9, Zenon DEF GiveUp
  <2>2. sleepers \in Seq(Procs) /\ Len(sleepers) \in Nat
    BY <1>0 DEF TypeOK
  <2>3. /\ sleepers' \in Seq(Procs)
        /\ Len(sleepers') = Len(sleepers) - 1
        /\ \A j \in 1..Len(sleepers') :
             sleepers'[j] = IF j < k THEN sleepers[j] ELSE sleepers[j + 1]
    BY <2>1, <2>2, RemoveIth, Zenon
  <2>4. TypeOK' /\ AllocSizes'
    BY <1>0, <1>9, <2>3, Zenon DEF TypeOK, AllocSizes, GiveUp, ghosts
  <2>5. \A j \in 1..Len(sleepers) :
          j # k => sleepers[j] # p /\ pc'[sleepers[j]] = "asleep"
    <3>1. \A j \in 1..Len(sleepers) : sleepers[j] \in Procs /\ pc[sleepers[j]] = "asleep"
      BY <1>0, SleepersType DEF SleepersAsleep
    <3>2. \A j \in 1..Len(sleepers) : j # k => sleepers[j] # p
      BY <1>0, <2>1, Zenon DEF SleepersAsleep
    <3>3. \A q \in Procs : q # p => pc'[q] = pc[q]
      BY <1>0, <1>9 DEF GiveUp, TypeOK
    <3> QED
      BY <3>1, <3>2, <3>3, Zenon
  <2>6. SleepersAsleep'
    <3>1. \A j \in 1..Len(sleepers') : pc'[sleepers'[j]] = "asleep"
      BY <2>2, <2>3, <2>5
    <3> DEFINE Old(j) == IF j < k THEN j ELSE j + 1
    <3>2. ASSUME NEW j \in 1..Len(sleepers')
          PROVE  Old(j) \in 1..Len(sleepers) /\ sleepers'[j] = sleepers[Old(j)]
      <4>1. Old(j) \in 1..Len(sleepers)
        BY <2>2, <2>3
      <4>2. sleepers'[j] = IF j < k THEN sleepers[j] ELSE sleepers[j + 1]
        BY <2>3
      <4> QED
        BY <4>1, <4>2
    <3>3. \A i, j \in 1..Len(sleepers') : Old(i) = Old(j) => i = j
      BY <2>2, <2>3
    <3> HIDE DEF Old
    <3>4. \A i, j \in 1..Len(sleepers') : sleepers'[i] = sleepers'[j] => i = j
      BY <1>0, <3>2, <3>3, SMTT(30) DEF SleepersAsleep
    <3> QED
      BY <3>1, <3>4 DEF SleepersAsleep
  <2>7. Users' = Users
    BY <1>0, <1>9 DEF TypeOK, GiveUp, Users
  <2> QED
    BY <1>0, <1>9, <2>4, <2>6, <2>7, UsersSame DEF IInv, GiveUp
<1>10. ASSUME NEW p \in Procs, Leave(p)
       PROVE  IInv'
  <2>1. p \in Users /\ ref_cnt = Cardinality(Users)
    BY <1>0, <1>10 DEF Leave, Users, RefCntCountsUsers
  <2>2. ref_cnt \in Nat /\ ref_cnt # 0 /\ exists
    BY <1>0, <2>1, UsersFinite, FS_EmptySet DEF RefCntCountsUsers
  <2>3. TypeOK' /\ AllocSizes'
    <3>1. ref_cnt' \in Nat
      BY <1>10, <2>2 DEF Leave
    <3>2. /\ exists' \in BOOLEAN /\ bsize' \in Nat /\ count' \in Nat
          /\ sem' \in Nat /\ sleepers' \in Seq(Procs)
      <4>1. CASE ref_cnt' = 0
        <5>1. /\ exists' = FALSE /\ bsize' = 0 /\ count' = 0
              /\ sem' = 0 /\ sleepers' = <<>>
          BY <1>10, <4>1, Zenon DEF Leave
        <5> QED
          BY <5>1, NoSleepers, Zenon
      <4>2. CASE ref_cnt' # 0
        BY <1>0, <1>10, <4>2 DEF Leave, TypeOK
      <4> QED
        BY <4>1, <4>2
    <3> QED
      BY <1>0, <1>10, <3>1, <3>2, SMTT(30) DEF TypeOK, AllocSizes, Leave
  <2>4. SleepersAsleep'
    <3>1. CASE ref_cnt' = 0
      <4>1. sleepers' = <<>>
        BY <1>10, <3>1, Zenon DEF Leave
      <4> QED
        BY <4>1, NoSleepers DEF SleepersAsleep
    <3>2. CASE ref_cnt' # 0
      BY <1>0, <1>10, <3>2, SleepersSame, Zenon DEF Leave
    <3> QED
      BY <3>1, <3>2
  <2>5. Users' = Users \ {p}
    BY <1>0, <1>10 DEF TypeOK, Leave, Users
  <2>6. ref_cnt' = ref_cnt - 1 /\ (exists' <=> ref_cnt' # 0)
    BY <1>10, <2>2, Zenon DEF Leave
  <2>7. RefCntCountsUsers'
    BY <2>1, <2>5, <2>6, UserLeaves
  <2> QED
    BY <2>3, <2>4, <2>7 DEF IInv
<1>11. CASE UNCHANGED vars
  <2>1. Users' = Users
    BY <1>11 DEF vars, Users
  <2> QED
    BY <1>0, <1>11, <2>1, UsersSame
    DEF IInv, TypeOK, SleepersAsleep, AllocSizes, vars, barr, ghosts
<1> QED
  BY <1>1, <1>2, <1>3, <1>4, <1>5, <1>6, <1>7, <1>8, <1>9, <1>10, <1>11
  DEF Next, Call, Step

\* The barrier starts out absent and nobody is inside.
LEMMA InitIInv == Init => IInv
<1> SUFFICES ASSUME Init PROVE IInv
  OBVIOUS
<1>1. TypeOK /\ SleepersAsleep /\ AllocSizes
  BY NoSleepers, Zenon DEF Init, TypeOK, SleepersAsleep, AllocSizes, Locations, Results
<1>2. Users = {}
  BY DEF Init, Users, Inside
<1> QED
  BY <1>1, <1>2, FS_EmptySet DEF Init, IInv, RefCntCountsUsers

\* The state of kgni_cdm_barr always has its type.
THEOREM TypeCorrect == Spec => []TypeOK
<1>1. IInv => TypeOK
  BY DEF IInv
<1> QED
  BY InitIInv, NextKeepsIInv, <1>1, PTL DEF Spec

\* For every number of instances, every choice of sizes, and whatever waits
\* time out and allocations fail: ref_cnt counts the callers inside, and the
\* barrier exists exactly while there is one.
THEOREM BarrierLifetime == Spec => []RefCntCountsUsers
<1>1. IInv => RefCntCountsUsers
  BY DEF IInv
<1> QED
  BY InitIInv, NextKeepsIInv, <1>1, PTL DEF Spec

=============================================================================
