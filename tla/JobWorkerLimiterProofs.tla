------------------------ MODULE JobWorkerLimiterProofs ------------------------
(***************************************************************************)
(* The accounting of worker slots, for every number of wrappers, permits   *)
(* and threads.                                                            *)
(*                                                                         *)
(* Every step moves at most one wrapper and hands on at most one slot, so  *)
(* it changes the sets Holders, Tracked and grants by at most one element  *)
(* (Moved, Released); the sums are then kept by counting.                  *)
(***************************************************************************)
EXTENDS JobWorkerLimiter, FiniteSetTheorems, TLAPS

\* What the scan still owes: jobs and permits that it has not used, out of what it
\* reserved.
ScanShape ==
  /\ scan.at \in {"off", "reserving"} => scan.permits = 0 /\ scan.jobs = 0 /\ scan.made = 0
  /\ scan.at = "off" => scan.reserved = 0
  /\ scan.jobs <= scan.permits
  /\ scan.permits + scan.made <= scan.reserved

\* Recovered jobs get their permit from the scan, they never wait.
RecoveredNeverWait ==
  \A t \in Recovered : pc[t] \notin {"waiting", "quitting", "granted", "refusing"}

\* The inductive invariant.  SlotsAccounted needs WaitersQueued, since a slot handed
\* to a wrapper that already carries one would vanish; RecoveryCount needs
\* ScanShape, since a decrement that is clamped at zero loses count.
LInv == /\ TypeOK /\ SlotsAccounted /\ occupied <= MaxActive /\ NoIdleSlot
        /\ WaitersQueued /\ RecoveryCount /\ ScanShape /\ RecoveredNeverWait

-----------------------------------------------------------------------------
(* Sequences.                                                              *)

LEMMA DropFront ==
  ASSUME NEW S, NEW s \in Seq(S), NEW i \in DOMAIN s
  PROVE  /\ SubSeq(s, i + 1, Len(s)) \in Seq(S)
         /\ Len(SubSeq(s, i + 1, Len(s))) = Len(s) - i
         /\ \A k \in 1 .. Len(s) - i : /\ i + k \in DOMAIN s
                                       /\ SubSeq(s, i + 1, Len(s))[k] = s[i + k]
OBVIOUS

LEMMA DropOne ==
  ASSUME NEW S, NEW s \in Seq(S), NEW i \in DOMAIN s
  PROVE  /\ RemoveAt(s, i) \in Seq(S)
         /\ Len(RemoveAt(s, i)) = Len(s) - 1
         /\ \A k \in 1 .. Len(s) - 1 :
              RemoveAt(s, i)[k] = IF k < i THEN s[k] ELSE s[k + 1]
<1> DEFINE a == SubSeq(s, 1, i - 1)
           b == SubSeq(s, i + 1, Len(s))
<1>1. /\ a \in Seq(S) /\ Len(a) = i - 1
      /\ \A k \in 1 .. i - 1 : a[k] = s[k]
  OBVIOUS
<1>2. /\ b \in Seq(S) /\ Len(b) = Len(s) - i
      /\ \A k \in 1 .. Len(s) - i : b[k] = s[i + k]
  OBVIOUS
<1>3. RemoveAt(s, i) = a \o b  BY DEF RemoveAt
<1> HIDE DEF a, b
<1>4. a \o b \in Seq(S) /\ Len(a \o b) = Len(s) - 1  BY <1>1, <1>2
<1>5. ASSUME NEW k \in 1 .. Len(s) - 1
      PROVE  (a \o b)[k] = IF k < i THEN s[k] ELSE s[k + 1]
  <2>1. k < i => (a \o b)[k] = s[k]  BY <1>1, <1>2
  <2>2. ASSUME ~(k < i)  PROVE (a \o b)[k] = s[k + 1]
    <3>1. k \in Int /\ i \in Int /\ k >= i  BY <2>2
    <3>2. (a \o b)[k] = b[k - (i - 1)]
      <4>1. k \in 1 .. Len(a) + Len(b) /\ ~(k <= Len(a))  BY <3>1, <1>1, <1>2
      <4>2. a \in Seq(S) /\ b \in Seq(S)  BY <1>1, <1>2
      <4>3. (a \o b)[k] = b[k - Len(a)]  BY <4>1, <4>2
      <4> QED BY <4>3, <1>1
    <3>3. b[k - (i - 1)] = s[i + (k - (i - 1))]  BY <3>1, <1>2
    <3>4. i + (k - (i - 1)) = k + 1  BY <3>1
    <3> QED BY <3>2, <3>3, <3>4
  <2> QED BY <2>1, <2>2
<1> QED BY <1>3, <1>4, <1>5

-----------------------------------------------------------------------------
(* Counting.                                                               *)

LEMMA TasksFinite == IsFiniteSet(Tasks)
BY TaskAssumption, FS_Union DEF Tasks

LEMMA CountsFinite ==
  ASSUME TypeOK
  PROVE  /\ IsFiniteSet(Holders) /\ Cardinality(Holders) \in Nat
         /\ IsFiniteSet(Tracked) /\ Cardinality(Tracked) \in Nat
         /\ IsFiniteSet(InThreads) /\ Cardinality(InThreads) \in Nat
         /\ IsFiniteSet(grants) /\ Cardinality(grants) \in Nat
<1>1. /\ Holders \in SUBSET Tasks /\ InThreads \in SUBSET Tasks
      /\ Tracked \in SUBSET Recovered /\ grants \in SUBSET Background
  BY DEF Holders, InThreads, Tracked, TypeOK
<1>2. /\ IsFiniteSet(Holders) /\ IsFiniteSet(Tracked)
      /\ IsFiniteSet(InThreads) /\ IsFiniteSet(grants)
  BY <1>1, TasksFinite, TaskAssumption, FS_Subset
<1> QED BY <1>2, FS_CardinalityType

LEMMA CountUp ==
  ASSUME NEW S, IsFiniteSet(S), NEW x, x \notin S
  PROVE  Cardinality(S \cup {x}) = Cardinality(S) + 1
BY FS_AddElement

LEMMA CountDown ==
  ASSUME NEW S, IsFiniteSet(S), NEW x \in S
  PROVE  Cardinality(S \ {x}) = Cardinality(S) - 1 /\ Cardinality(S) >= 1
<1>1. Cardinality(S \ {x}) = Cardinality(S) - 1  BY FS_RemoveElement
<1>2. Cardinality(S) \in Nat /\ Cardinality(S \ {x}) \in Nat
  BY FS_RemoveElement, FS_CardinalityType
<1> QED BY <1>1, <1>2

\* What the move of one wrapper does to the sets that are counted.
LEMMA Moved ==
  ASSUME TypeOK, NEW t \in Tasks, NEW p \in Points, Move(t, p)
  PROVE  /\ pc' \in [Tasks -> Points]
         /\ pc'[t] = p /\ \A q \in Tasks \ {t} : pc'[q] = pc[q]
         /\ Holders' = IF p \in Holding THEN Holders \cup {t} ELSE Holders \ {t}
         /\ t \in Recovered =>
              Tracked' = IF p \in Supervised THEN Tracked \cup {t} ELSE Tracked \ {t}
         /\ t \notin Recovered => Tracked' = Tracked
<1>1. /\ pc' \in [Tasks -> Points]
      /\ pc'[t] = p /\ \A q \in Tasks \ {t} : pc'[q] = pc[q]
  BY DEF TypeOK, Move
<1>2. Recovered \subseteq Tasks  BY DEF Tasks
<1> QED BY <1>1, <1>2 DEF Holders, Tracked

-----------------------------------------------------------------------------
(* A released slot.                                                        *)

\* It leaves with the counter, or it goes to a wrapper that waits and carries none;
\* the queue stays in order.
Freed(mine) ==
  /\ waiters' \in Seq(Background) /\ waiting' = Len(waiters')
  /\ \A i, k \in DOMAIN waiters' : i # k => waiters'[i] # waiters'[k]
  /\ \A i \in DOMAIN waiters' : /\ pc[waiters'[i]] \in {"waiting", "quitting"}
                                /\ waiters'[i] \notin grants'
                                /\ \E k \in DOMAIN waiters : waiters'[i] = waiters[k]
  /\ \A t \in Background : pc[t] = "waiting" /\ t \in grants \cup ToSet(waiters)
       => t \in (grants \ mine) \cup grants' \cup ToSet(waiters')
  /\ \/ occupied' = occupied - 1 /\ grants' = mine /\ waiters' = <<>>
     \/ \E w \in Background \ grants : /\ pc[w] = "waiting" /\ waiters # <<>>
                                      /\ occupied' = occupied /\ grants' = mine \cup {w}

LEMMA Released ==
  ASSUME TypeOK, WaitersQueued, NEW mine \in SUBSET grants, ReleaseSlot(mine)
  PROVE  Freed(mine)
<1> DEFINE able == {i \in DOMAIN waiters : pc[waiters[i]] # "quitting"}
<1>1. waiters \in Seq(Background) /\ waiting = Len(waiters)
  BY DEF TypeOK, WaitersQueued
<1>2. CASE /\ able = {} /\ waiters' = <<>> /\ waiting' = Monus(waiting, Len(waiters))
           /\ occupied' = occupied - 1 /\ grants' = mine
  <2>1. waiting' = 0  BY <1>1, <1>2 DEF Monus
  <2>2. \A t \in ToSet(waiters) : pc[t] = "quitting"  BY <1>2 DEF ToSet
  <2> QED BY <1>2, <2>1, <2>2 DEF Freed
<1>3. ASSUME NEW i \in able, \A k \in able : i <= k,
             waiters' = SubSeq(waiters, i + 1, Len(waiters)),
             waiting' = Monus(waiting, i), grants' = mine \cup {waiters[i]},
             occupied' = occupied
      PROVE  Freed(mine)
  <2> DEFINE n == Len(waiters)
             w == waiters[i]
  <2>1. i \in 1 .. n /\ n \in Nat /\ w \in Background /\ pc[w] = "waiting" /\ w \notin grants
    BY <1>1 DEF WaitersQueued
  <2>2. /\ waiters' \in Seq(Background) /\ Len(waiters') = n - i
        /\ \A k \in 1 .. n - i : i + k \in DOMAIN waiters /\ waiters'[k] = waiters[i + k]
    BY <1>1, <1>3, DropFront
  <2>3. DOMAIN waiters' = 1 .. n - i  BY <2>2
  <2>4. waiting' = Len(waiters')  BY <1>1, <1>3, <2>1, <2>2 DEF Monus
  <2>5. \A k \in DOMAIN waiters' : /\ waiters'[k] # w /\ waiters'[k] \notin grants
                                  /\ pc[waiters'[k]] \in {"waiting", "quitting"}
    BY <2>1, <2>2, <2>3 DEF WaitersQueued
  <2>6. \A k, m \in DOMAIN waiters' : k # m => waiters'[k] # waiters'[m]
    <3> TAKE k, m \in DOMAIN waiters'
    <3> HAVE k # m
    <3>1. i + k # i + m  BY <2>1, <2>3
    <3> QED BY <3>1, <2>2, <2>3 DEF WaitersQueued
  <2>7. ASSUME NEW t \in Background, pc[t] = "waiting", t \in ToSet(waiters)
        PROVE  t = w \/ t \in ToSet(waiters')
    <3>1. PICK k \in DOMAIN waiters : waiters[k] = t  BY <2>7 DEF ToSet
    <3>2. k \in able  BY <3>1, <2>7
    <3>3. k \in 1 .. n /\ i <= k  BY <1>1, <3>1, <3>2, <1>3
    <3>4. CASE k = i  BY <3>4, <3>1
    <3>5. CASE k > i
      <4>1. k - i \in 1 .. n - i  BY <2>1, <3>3, <3>5
      <4>2. waiters'[k - i] = t  BY <4>1, <2>1, <2>2, <3>1, <3>3
      <4> QED BY <4>1, <4>2, <2>3 DEF ToSet
    <3> QED BY <3>3, <3>4, <3>5, <2>1
  <2>8. waiters # <<>>  BY <2>1
  <2> QED
    <3>1. \A k \in DOMAIN waiters' : \E m \in DOMAIN waiters : waiters'[k] = waiters[m]
      BY <2>2, <2>3
    <3>2. \A k \in DOMAIN waiters' : waiters'[k] \notin grants'  BY <2>5, <1>3
    <3> HIDE DEF n, able
    <3> QED BY <1>3, <2>1, <2>2, <2>4, <2>5, <2>6, <2>7, <2>8, <3>1, <3>2 DEF Freed
<1> QED BY <1>2, <1>3 DEF ReleaseSlot

\* Whoever releases passes on exactly the slot it had.
LEMMA FreedOne ==
  ASSUME TypeOK, NEW mine \in SUBSET grants, Freed(mine)
  PROVE  /\ IsFiniteSet(mine) /\ Cardinality(mine) \in Nat
         /\ \/ occupied' = occupied - 1 /\ Cardinality(grants') = Cardinality(mine)
            \/ occupied' = occupied /\ Cardinality(grants') = Cardinality(mine) + 1
         /\ grants' \in SUBSET Background
         /\ waiters' # <<>> => occupied' = occupied /\ waiters # <<>>
<1>1. IsFiniteSet(mine) /\ Cardinality(mine) \in Nat
  BY CountsFinite, FS_Subset, FS_CardinalityType
<1>2. mine \in SUBSET Background  BY DEF TypeOK
<1>3. CASE occupied' = occupied - 1 /\ grants' = mine /\ waiters' = <<>>
  BY <1>1, <1>2, <1>3
<1>4. ASSUME NEW w \in Background \ grants, waiters # <<>>,
             occupied' = occupied, grants' = mine \cup {w}
      PROVE  /\ Cardinality(grants') = Cardinality(mine) + 1
             /\ grants' \in SUBSET Background
  BY <1>1, <1>2, <1>4, CountUp
<1> QED BY <1>1, <1>3, <1>4 DEF Freed

\* The queue after the move of a wrapper that is not in it.
LEMMA QueueFreed ==
  ASSUME TypeOK, WaitersQueued, NEW t \in Tasks, NEW mine \in SUBSET grants,
         Freed(mine), grants \ mine \subseteq {t},
         pc' \in [Tasks -> Points], \A q \in Tasks \ {t} : pc'[q] = pc[q],
         pc'[t] # "waiting", pc[t] = "waiting" => FALSE, pc[t] = "quitting" => pc'[t] = pc[t]
  PROVE  WaitersQueued'
<1>1. Background \subseteq Tasks  BY DEF Tasks
<1>2. \A i \in DOMAIN waiters' : waiters'[i] \in Background  BY DEF Freed
<1>3. \A i \in DOMAIN waiters' : pc'[waiters'[i]] \in {"waiting", "quitting"}
  BY <1>1, <1>2 DEF Freed
<1>4. ASSUME NEW q \in Background, pc'[q] = "waiting"
      PROVE  q \in grants' \cup ToSet(waiters')
  <2>1. q # t /\ pc[q] = "waiting"  BY <1>1, <1>4
  <2>2. q \in grants \cup ToSet(waiters)  BY <2>1 DEF WaitersQueued
  <2>3. q \notin grants \ mine  BY <2>1
  <2> QED BY <2>1, <2>2, <2>3 DEF Freed
<1>5. ToSet(waiters)' = ToSet(waiters')  OBVIOUS
<1> QED BY <1>3, <1>4, <1>5 DEF WaitersQueued, Freed

\* The queue when nobody enters or leaves it.
LEMMA QueueKept ==
  ASSUME TypeOK, WaitersQueued, NEW t \in Tasks,
         UNCHANGED <<waiters, waiting, grants>>,
         pc' \in [Tasks -> Points], \A q \in Tasks \ {t} : pc'[q] = pc[q],
         pc'[t] # "waiting", pc[t] \in {"waiting", "quitting"} => pc'[t] = "quitting"
  PROVE  WaitersQueued'
<1>1. Background \subseteq Tasks  BY DEF Tasks
<1>2. \A i \in DOMAIN waiters : waiters[i] \in Background  BY DEF TypeOK
<1>3. \A i \in DOMAIN waiters : pc'[waiters[i]] \in {"waiting", "quitting"}
  BY <1>1, <1>2 DEF WaitersQueued
<1>4. \A q \in Background : pc'[q] = "waiting" => q \in grants \cup ToSet(waiters)
  BY <1>1 DEF WaitersQueued
<1>5. ToSet(waiters)' = ToSet(waiters)  OBVIOUS
<1> QED BY <1>3, <1>4, <1>5 DEF WaitersQueued

-----------------------------------------------------------------------------
(* The steps of wrappers and workers.                                      *)

Bit(x, X) == IF x \in X THEN 1 ELSE 0

LEMMA Counted ==
  ASSUME NEW S, IsFiniteSet(S), NEW t, NEW T, NEW X, NEW p, NEW q,
         t \in S <=> q \in X, T = IF p \in X THEN S \cup {t} ELSE S \ {t}
  PROVE  /\ Cardinality(T) = Cardinality(S) + Bit(p, X) - Bit(q, X)
         /\ q \in X => Cardinality(S) >= 1
<1>0. Cardinality(S) \in Nat  BY FS_CardinalityType
<1>1. CASE p \in X /\ q \in X
  <2>1. T = S  BY <1>1
  <2>2. Cardinality(T) = Cardinality(S)  BY <2>1
  <2>3. Cardinality(S) >= 1  BY <1>1, CountDown
  <2> QED BY <1>0, <1>1, <2>2, <2>3 DEF Bit
<1>2. CASE p \in X /\ q \notin X
  <2>1. Cardinality(T) = Cardinality(S) + 1  BY <1>2, CountUp
  <2> QED BY <1>0, <1>2, <2>1 DEF Bit
<1>3. CASE p \notin X /\ q \in X
  <2>1. Cardinality(T) = Cardinality(S) - 1 /\ Cardinality(S) >= 1  BY <1>3, CountDown
  <2> QED BY <1>0, <1>3, <2>1 DEF Bit
<1>4. CASE p \notin X /\ q \notin X
  <2>1. T = S  BY <1>4
  <2>2. Cardinality(T) = Cardinality(S)  BY <2>1
  <2> QED BY <1>0, <1>4, <2>2 DEF Bit
<1> QED BY <1>1, <1>2, <1>3, <1>4

\* Counted sets after the move of one wrapper, as its points say.
LEMMA MovedCounts ==
  ASSUME TypeOK, NEW t \in Tasks, NEW p \in Points, Move(t, p)
  PROVE  /\ Cardinality(Holders)' =
              Cardinality(Holders) + Bit(p, Holding) - Bit(pc[t], Holding)
         /\ pc[t] \in Holding => Cardinality(Holders) >= 1
         /\ t \in Recovered =>
              /\ Cardinality(Tracked)' =
                   Cardinality(Tracked) + Bit(p, Supervised) - Bit(pc[t], Supervised)
              /\ pc[t] \in Supervised => Cardinality(Tracked) >= 1
         /\ t \notin Recovered => Cardinality(Tracked)' = Cardinality(Tracked)
<1>1. IsFiniteSet(Holders) /\ IsFiniteSet(Tracked)  BY CountsFinite
<1>2. /\ Holders' = IF p \in Holding THEN Holders \cup {t} ELSE Holders \ {t}
      /\ t \in Recovered =>
           Tracked' = IF p \in Supervised THEN Tracked \cup {t} ELSE Tracked \ {t}
      /\ t \notin Recovered => Tracked' = Tracked
  BY Moved
<1>3. t \in Holders <=> pc[t] \in Holding  BY DEF Holders
<1>4. t \in Recovered => (t \in Tracked <=> pc[t] \in Supervised)  BY DEF Tracked
<1>6. /\ Cardinality(Holders') =
           Cardinality(Holders) + Bit(p, Holding) - Bit(pc[t], Holding)
      /\ pc[t] \in Holding => Cardinality(Holders) >= 1
  BY <1>1, <1>2, <1>3, Counted
<1>7. ASSUME t \in Recovered
      PROVE  /\ Cardinality(Tracked') =
                  Cardinality(Tracked) + Bit(p, Supervised) - Bit(pc[t], Supervised)
             /\ pc[t] \in Supervised => Cardinality(Tracked) >= 1
  BY <1>1, <1>2, <1>4, <1>7, Counted
<1>8. t \notin Recovered => Cardinality(Tracked') = Cardinality(Tracked)  BY <1>2
<1> QED BY <1>6, <1>7, <1>8

-----------------------------------------------------------------------------
(* Steps that move a wrapper and leave the slots alone.                    *)

LEMMA SubmitKeeps ==
  ASSUME LInv, NEW t \in Tasks, Submit(t)
  PROVE  LInv'
<1> USE DEF LInv
<1>1. Move(t, "queued") /\ "queued" \in Points  BY DEF Submit, Points
<1>2. TypeOK'  BY <1>1, Moved DEF Submit, TypeOK, slots
<1>3. WaitersQueued'  BY <1>1, Moved, QueueKept DEF Submit, slots
<1>4. pc[t] \in Holding /\ "queued" \in Holding  BY DEF Submit, Holding
<1>5. Cardinality(Holders)' = Cardinality(Holders)
  BY <1>1, <1>4, MovedCounts, CountsFinite DEF Bit
<1>6. t \in Recovered => pc[t] \in Supervised /\ "queued" \in Supervised
  BY DEF Submit, Supervised, RecoveredNeverWait
<1>7. Cardinality(Tracked)' = Cardinality(Tracked)
  BY <1>1, <1>6, MovedCounts, CountsFinite DEF Bit
<1>8. RecoveredNeverWait'  BY <1>1, Moved DEF RecoveredNeverWait, Tasks
<1> QED BY <1>2, <1>3, <1>5, <1>7, <1>8
        DEF Submit, slots, SlotsAccounted, NoIdleSlot, RecoveryCount, ScanShape

LEMMA StartWorkerKeeps ==
  ASSUME LInv, NEW t \in Tasks, StartWorker(t)
  PROVE  LInv'
<1> USE DEF LInv
<1>1. Move(t, "running") /\ "running" \in Points  BY DEF StartWorker, Points
<1>2. TypeOK'  BY <1>1, Moved DEF StartWorker, TypeOK, slots
<1>3. WaitersQueued'  BY <1>1, Moved, QueueKept DEF StartWorker, slots
<1>4. /\ pc[t] \in Holding /\ "running" \in Holding
      /\ pc[t] \in Supervised /\ "running" \in Supervised
  BY DEF StartWorker, Holding, Supervised
<1>5. /\ Cardinality(Holders)' = Cardinality(Holders)
      /\ Cardinality(Tracked)' = Cardinality(Tracked)
  BY <1>1, <1>4, MovedCounts, CountsFinite DEF Bit
<1>6. RecoveredNeverWait'  BY <1>1, Moved DEF RecoveredNeverWait, Tasks
<1> QED BY <1>2, <1>3, <1>5, <1>6
        DEF StartWorker, slots, SlotsAccounted, NoIdleSlot, RecoveryCount, ScanShape

LEMMA EndWrapperKeeps ==
  ASSUME LInv, NEW t \in Tasks, EndWrapper(t)
  PROVE  LInv'
<1> USE DEF LInv
<1>1. Move(t, "idle") /\ "idle" \in Points  BY DEF EndWrapper, Points
<1>2. TypeOK'  BY <1>1, Moved DEF EndWrapper, TypeOK, slots, Monus
<1>3. WaitersQueued'  BY <1>1, Moved, QueueKept DEF EndWrapper, slots
<1>4. /\ pc[t] \notin Holding /\ "idle" \notin Holding
      /\ pc[t] \in Supervised /\ "idle" \notin Supervised
  BY DEF EndWrapper, Holding, Supervised
<1>5. Cardinality(Holders)' = Cardinality(Holders)
  BY <1>1, <1>4, MovedCounts, CountsFinite DEF Bit
<1>6. RecoveryCount'
  <2>1. scan.reserved \in Nat /\ scan.made \in Nat /\ scan.permits \in Nat
    BY DEF TypeOK, ScanRecord
  <2>2. scan.reserved - scan.made >= 0  BY <2>1 DEF ScanShape
  <2>3. CASE t \in Recovered
    <3>1. /\ Cardinality(Tracked)' = Cardinality(Tracked) - 1 /\ Cardinality(Tracked) >= 1
      BY <1>1, <1>4, <2>3, MovedCounts, CountsFinite DEF Bit
    <3>2. active' = active - 1
      BY <2>1, <2>2, <2>3, <3>1, CountsFinite DEF EndWrapper, RecoveryCount, Monus
    <3> QED BY <3>1, <3>2, <2>1, CountsFinite DEF EndWrapper, RecoveryCount
  <2>4. CASE t \notin Recovered
    BY <1>1, <2>4, MovedCounts DEF EndWrapper, RecoveryCount
  <2> QED BY <2>3, <2>4
<1>7. RecoveredNeverWait'  BY <1>1, Moved DEF RecoveredNeverWait, Tasks
<1> QED BY <1>2, <1>3, <1>5, <1>6, <1>7
        DEF EndWrapper, slots, SlotsAccounted, NoIdleSlot, ScanShape

LEMMA CancelKeeps ==
  ASSUME LInv, NEW t \in Tasks, Cancel(t)
  PROVE  LInv'
<1> USE DEF LInv
<1>1. PICK p \in Points :
        /\ Move(t, p)
        /\ \/ pc[t] = "waiting" /\ p = "quitting"
           \/ pc[t] = "granted" /\ p = "refusing"
           \/ pc[t] = "queued" /\ p = "lost"
           \/ pc[t] = "running" /\ p = "detached"
        /\ t \in Recovered => pc[t] \in {"queued", "running"}
  BY TaskAssumption DEF Cancel, Points, RecoveredNeverWait
<1>2. TypeOK'  BY <1>1, Moved DEF Cancel, TypeOK, slots, Monus
<1>3. WaitersQueued'  BY <1>1, Moved, QueueKept DEF Cancel, slots
<1>4. pc[t] \in Holding <=> p \in Holding  BY <1>1 DEF Holding
<1>5. Cardinality(Holders)' = Cardinality(Holders)
  BY <1>1, <1>4, MovedCounts, CountsFinite DEF Bit
<1>6. RecoveryCount'
  <2>1. scan.reserved \in Nat /\ scan.made \in Nat /\ scan.permits \in Nat
    BY DEF TypeOK, ScanRecord
  <2>2. scan.reserved - scan.made >= 0  BY <2>1 DEF ScanShape
  <2>3. CASE t \in Recovered
    <3>0. pc[t] \in Supervised /\ p \notin Supervised  BY <1>1, <2>3 DEF Supervised
    <3>1. Cardinality(Tracked)' = Cardinality(Tracked) - 1 /\ Cardinality(Tracked) >= 1
      BY <1>1, <3>0, <2>3, MovedCounts, CountsFinite DEF Bit
    <3>2. active' = active - 1
      BY <2>1, <2>2, <2>3, <3>1, CountsFinite DEF Cancel, RecoveryCount, Monus
    <3> QED BY <3>1, <3>2, <2>1, CountsFinite DEF Cancel, RecoveryCount
  <2>4. CASE t \notin Recovered
    BY <1>1, <2>4, MovedCounts DEF Cancel, RecoveryCount
  <2> QED BY <2>3, <2>4
<1>7. RecoveredNeverWait'  BY <1>1, Moved DEF RecoveredNeverWait, Tasks
<1> QED BY <1>2, <1>3, <1>5, <1>6, <1>7
        DEF Cancel, slots, SlotsAccounted, NoIdleSlot, ScanShape

-----------------------------------------------------------------------------
(* Steps that take, pass on or give back a slot.                           *)

LEMMA ArriveKeeps ==
  ASSUME LInv, NEW t \in Tasks, Arrive(t)
  PROVE  LInv'
<1> USE DEF LInv
<1>0. /\ scan.permits \in Nat /\ occupied \in Nat /\ MaxActive \in Nat
      /\ t \in Background /\ t \notin Recovered /\ pc[t] = "idle" /\ t \notin grants
  BY TaskAssumption, SizeAssumption DEF TypeOK, ScanRecord, Arrive
<1>1. CASE /\ occupied < MaxActive /\ occupied' = occupied + 1
           /\ Move(t, "queued") /\ UNCHANGED <<waiters, waiting>>
  <2>1. "queued" \in Points  BY DEF Points
  <2>2. TypeOK'  BY <1>1, <2>1, Moved DEF Arrive, TypeOK
  <2>3. WaitersQueued'  BY <1>0, <1>1, <2>1, Moved, QueueKept DEF Arrive
  <2>4. pc[t] \notin Holding /\ "queued" \in Holding  BY <1>0 DEF Holding
  <2>5. Cardinality(Holders)' = Cardinality(Holders) + 1
    BY <1>1, <2>1, <2>4, MovedCounts, CountsFinite DEF Bit
  <2>6. SlotsAccounted'
    BY <1>0, <1>1, <2>5, CountsFinite DEF Arrive, SlotsAccounted
  <2>7. occupied' <= MaxActive /\ NoIdleSlot'  BY <1>0, <1>1 DEF NoIdleSlot
  <2>8. RecoveryCount'  BY <1>0, <1>1, <2>1, MovedCounts DEF Arrive, RecoveryCount
  <2>9. RecoveredNeverWait'  BY <1>1, <2>1, Moved DEF RecoveredNeverWait, Tasks
  <2> QED BY <2>2, <2>3, <2>6, <2>7, <2>8, <2>9 DEF Arrive, ScanShape
<1>2. CASE /\ occupied >= MaxActive /\ waiters' = Append(waiters, t) /\ waiting' = waiting + 1
           /\ Move(t, "waiting") /\ UNCHANGED occupied
  <2>1. "waiting" \in Points  BY DEF Points
  <2>2. TypeOK'  BY <1>0, <1>2, <2>1, Moved DEF Arrive, TypeOK
  <2>3. WaitersQueued'
    <3> DEFINE n == Len(waiters)
    <3>1. waiters \in Seq(Background) /\ n \in Nat /\ waiting = n
      BY DEF TypeOK, WaitersQueued
    <3>2. /\ DOMAIN waiters = 1 .. n /\ DOMAIN waiters' = 1 .. n + 1 /\ Len(waiters') = n + 1
          /\ waiters'[n + 1] = t /\ \A i \in 1 .. n : waiters'[i] = waiters[i]
      BY <1>0, <1>2, <3>1
    <3>3. \A i \in 1 .. n : waiters[i] # t /\ waiters[i] \in Tasks \ {t}
      BY <1>0, <3>1, <3>2 DEF WaitersQueued, Tasks
    <3>4. /\ pc'[t] = "waiting" /\ \A q \in Tasks \ {t} : pc'[q] = pc[q]
      BY <1>2, <2>1, Moved
    <3>5. \A i \in 1 .. n + 1 : i # n + 1 => i \in 1 .. n  BY <3>1
    <3> HIDE DEF n
    <3>6. \A i, k \in DOMAIN waiters' : i # k => waiters'[i] # waiters'[k]
      BY <3>2, <3>3, <3>5 DEF WaitersQueued
    <3>7. \A i \in DOMAIN waiters' : /\ pc'[waiters'[i]] \in {"waiting", "quitting"}
                                    /\ waiters'[i] \notin grants'
      BY <1>0, <3>2, <3>3, <3>4, <3>5 DEF WaitersQueued, Arrive
    <3>8. ASSUME NEW q \in Background, pc'[q] = "waiting"
          PROVE  q \in grants' \cup ToSet(waiters')
      <4>1. n + 1 \in DOMAIN waiters'  BY <3>1, <3>2
      <4>2. CASE q = t  BY <3>2, <4>1, <4>2 DEF ToSet
      <4>3. CASE q # t
        <5>1. pc[q] = "waiting"  BY <3>4, <3>8, <4>3 DEF Tasks
        <5>2. q \in grants \cup ToSet(waiters)  BY <5>1 DEF WaitersQueued
        <5>3. ASSUME NEW i \in 1 .. n  PROVE i \in DOMAIN waiters'
          BY <3>1, <3>2
        <5>4. ToSet(waiters) \subseteq ToSet(waiters')  BY <3>2, <5>3 DEF ToSet
        <5> QED BY <5>2, <5>4 DEF Arrive
      <4> QED BY <4>2, <4>3
    <3>9. waiting' = Len(waiters')  BY <1>2, <3>1, <3>2
    <3>10. ToSet(waiters)' = ToSet(waiters')  OBVIOUS
    <3> QED BY <3>6, <3>7, <3>8, <3>9, <3>10 DEF WaitersQueued
  <2>4. pc[t] \notin Holding /\ "waiting" \notin Holding  BY <1>0 DEF Holding
  <2>5. Cardinality(Holders)' = Cardinality(Holders)
    BY <1>2, <2>1, <2>4, MovedCounts, CountsFinite DEF Bit
  <2>6. SlotsAccounted'  BY <1>2, <2>5 DEF Arrive, SlotsAccounted
  <2>7. occupied' <= MaxActive /\ NoIdleSlot'  BY <1>0, <1>2 DEF NoIdleSlot
  <2>8. RecoveryCount'  BY <1>0, <1>2, <2>1, MovedCounts DEF Arrive, RecoveryCount
  <2>9. RecoveredNeverWait'  BY <1>0, <1>2, <2>1, Moved DEF RecoveredNeverWait, Tasks
  <2> QED BY <2>2, <2>3, <2>6, <2>7, <2>8, <2>9 DEF Arrive, ScanShape
<1> QED BY <1>1, <1>2 DEF Arrive

\* A wrapper that held a slot has none after its move, and passed it on.
LEMMA GiveBack ==
  ASSUME LInv, NEW t \in Tasks, NEW p \in Points, Move(t, p), ReleaseSlot(grants),
         pc[t] \in Holding, p \notin Holding, p # "waiting",
         UNCHANGED <<scan, stopping, cancels>>
  PROVE  /\ Freed(grants) /\ WaitersQueued' /\ SlotsAccounted'
         /\ occupied' \in Nat /\ occupied' <= MaxActive /\ NoIdleSlot'
         /\ grants' \in SUBSET Background
<1> USE DEF LInv
<1>0. /\ scan.permits \in Nat /\ occupied \in Nat /\ MaxActive \in Nat
      /\ pc[t] # "waiting" /\ pc[t] # "quitting"
  BY SizeAssumption DEF TypeOK, ScanRecord, Holding
<1>1. Freed(grants)  BY Released
<1>2. WaitersQueued'  BY <1>0, <1>1, Moved, QueueFreed
<1>3. Cardinality(Holders)' = Cardinality(Holders) - 1 /\ Cardinality(Holders) >= 1
  BY MovedCounts, CountsFinite DEF Bit
<1>4. /\ \/ occupied' = occupied - 1 /\ Cardinality(grants') = Cardinality(grants)
         \/ occupied' = occupied /\ Cardinality(grants') = Cardinality(grants) + 1
      /\ grants' \in SUBSET Background
      /\ waiters' # <<>> => occupied' = occupied /\ waiters # <<>>
  BY <1>1, FreedOne
<1>5. SlotsAccounted'  BY <1>0, <1>3, <1>4, CountsFinite DEF SlotsAccounted
<1>6. occupied' \in Nat /\ occupied' <= MaxActive
  BY <1>0, <1>3, <1>4, CountsFinite DEF SlotsAccounted
<1>7. NoIdleSlot'  BY <1>4 DEF NoIdleSlot
<1> QED BY <1>1, <1>2, <1>4, <1>5, <1>6, <1>7

LEMMA RefuseKeeps ==
  ASSUME LInv, NEW t \in Tasks, Refuse(t)
  PROVE  LInv'
<1> USE DEF LInv
<1>1. /\ Move(t, "idle") /\ "idle" \in Points /\ ReleaseSlot(grants)
      /\ pc[t] \in Holding /\ "idle" \notin Holding /\ t \notin Recovered
      /\ UNCHANGED <<active, scan, stopping, cancels>>
  BY DEF Refuse, Points, Holding, RecoveredNeverWait
<1>2. /\ Freed(grants) /\ WaitersQueued' /\ SlotsAccounted'
      /\ occupied' \in Nat /\ occupied' <= MaxActive /\ NoIdleSlot'
      /\ grants' \in SUBSET Background
  BY <1>1, GiveBack
<1>3. TypeOK'  BY <1>1, <1>2, Moved DEF TypeOK, Freed
<1>4. RecoveryCount'  BY <1>1, MovedCounts DEF RecoveryCount
<1>5. RecoveredNeverWait'  BY <1>1, Moved DEF RecoveredNeverWait, Tasks
<1> QED BY <1>1, <1>2, <1>3, <1>4, <1>5 DEF ScanShape

LEMMA EndWorkerKeeps ==
  ASSUME LInv, NEW t \in Tasks, EndWorker(t)
  PROVE  LInv'
<1> USE DEF LInv
<1>1. PICK p \in Points : /\ Move(t, p) /\ ReleaseSlot(grants)
                          /\ \/ pc[t] = "running" /\ p = "finished"
                             \/ pc[t] = "detached" /\ p = "idle"
                          /\ UNCHANGED <<active, scan, stopping, cancels>>
  BY DEF EndWorker, Points
<1>2. pc[t] \in Holding /\ p \notin Holding /\ p # "waiting"  BY <1>1 DEF Holding
<1>3. /\ Freed(grants) /\ WaitersQueued' /\ SlotsAccounted'
      /\ occupied' \in Nat /\ occupied' <= MaxActive /\ NoIdleSlot'
      /\ grants' \in SUBSET Background
  BY <1>1, <1>2, GiveBack
<1>4. TypeOK'  BY <1>1, <1>3, Moved DEF TypeOK, Freed
<1>5. pc[t] \in Supervised <=> p \in Supervised  BY <1>1 DEF Supervised
<1>6. Cardinality(Tracked)' = Cardinality(Tracked)
  BY <1>1, <1>5, MovedCounts, CountsFinite DEF Bit
<1>7. RecoveryCount'  BY <1>1, <1>6 DEF RecoveryCount
<1>8. RecoveredNeverWait'  BY <1>1, Moved DEF RecoveredNeverWait, Tasks
<1> QED BY <1>1, <1>3, <1>4, <1>7, <1>8 DEF ScanShape

LEMMA GrantKeeps ==
  ASSUME LInv, NEW t \in Tasks, Grant(t)
  PROVE  LInv'
<1> USE DEF LInv
<1> DEFINE mine == grants \ {t}
<1>0. /\ scan.permits \in Nat /\ occupied \in Nat /\ MaxActive \in Nat
      /\ t \in grants /\ t \in Background /\ t \notin Recovered
      /\ UNCHANGED <<active, scan, stopping, cancels>>
  BY TaskAssumption, SizeAssumption DEF TypeOK, ScanRecord, Grant
<1>1. Cardinality(mine) = Cardinality(grants) - 1 /\ Cardinality(grants) >= 1
  BY <1>0, CountsFinite, CountDown
<1>2. CASE /\ pc[t] = "waiting" /\ Move(t, "granted") /\ grants' = mine
           /\ UNCHANGED <<occupied, waiters, waiting>>
  <2>1. "granted" \in Points  BY DEF Points
  <2>2. TypeOK'  BY <1>0, <1>2, <2>1, Moved DEF TypeOK
  <2>3. WaitersQueued'
    <3>1. \A i \in DOMAIN waiters : waiters[i] \in Tasks \ {t}
      BY <1>0 DEF WaitersQueued, TypeOK, Tasks
    <3>2. \A q \in Tasks \ {t} : pc'[q] = pc[q]  BY <1>2, <2>1, Moved
    <3>3. pc'[t] = "granted"  BY <1>2, <2>1, Moved
    <3>4. \A i \in DOMAIN waiters : pc'[waiters[i]] \in {"waiting", "quitting"}
      BY <3>1, <3>2 DEF WaitersQueued
    <3>5. \A q \in Background : pc'[q] = "waiting" => q \in grants' \cup ToSet(waiters)
      BY <1>2, <3>2, <3>3 DEF WaitersQueued, Tasks
    <3>6. ToSet(waiters)' = ToSet(waiters)  BY <1>2
    <3> QED BY <1>2, <3>4, <3>5, <3>6 DEF WaitersQueued
  <2>4. pc[t] \notin Holding /\ "granted" \in Holding  BY <1>2 DEF Holding
  <2>5. Cardinality(Holders)' = Cardinality(Holders) + 1
    BY <1>2, <2>1, <2>4, MovedCounts, CountsFinite DEF Bit
  <2>6. Cardinality(grants') = Cardinality(grants) - 1  BY <1>1, <1>2
  <2>7. SlotsAccounted'  BY <1>0, <1>2, <2>5, <2>6, CountsFinite DEF SlotsAccounted
  <2>8. occupied' <= MaxActive /\ NoIdleSlot'  BY <1>2 DEF NoIdleSlot
  <2>9. RecoveryCount'  BY <1>0, <1>2, <2>1, MovedCounts DEF RecoveryCount
  <2>10. RecoveredNeverWait'  BY <1>0, <1>2, <2>1, Moved DEF RecoveredNeverWait, Tasks
  <2> QED BY <1>0, <2>2, <2>3, <2>7, <2>8, <2>9, <2>10 DEF ScanShape
<1>3. CASE pc[t] # "waiting" /\ ReleaseSlot(mine) /\ UNCHANGED pc
  <2>1. Freed(mine)  BY <1>3, Released
  <2>2. pc' \in [Tasks -> Points]  BY <1>3 DEF TypeOK
  <2>3. WaitersQueued'
    <3>1. grants \ mine \subseteq {t}  OBVIOUS
    <3>2. pc'[t] # "waiting" /\ \A q \in Tasks : pc'[q] = pc[q]  BY <1>3
    <3> HIDE DEF mine
    <3>3. mine \in SUBSET grants  BY DEF mine
    <3> QED BY <1>3, <2>1, <2>2, <3>1, <3>2, <3>3, QueueFreed
  <2>4. /\ \/ occupied' = occupied - 1 /\ Cardinality(grants') = Cardinality(mine)
           \/ occupied' = occupied /\ Cardinality(grants') = Cardinality(mine) + 1
        /\ grants' \in SUBSET Background
        /\ waiters' # <<>> => occupied' = occupied /\ waiters # <<>>
    BY <2>1, FreedOne
  <2>5. Holders' = Holders /\ Tracked' = Tracked  BY <1>3 DEF Holders, Tracked
  <2>6. SlotsAccounted'
    BY <1>0, <1>1, <2>4, <2>5, CountsFinite DEF SlotsAccounted
  <2>7. occupied' \in Nat /\ occupied' <= MaxActive
    BY <1>0, <1>1, <2>4, CountsFinite DEF SlotsAccounted
  <2>8. NoIdleSlot'  BY <2>4 DEF NoIdleSlot
  <2>9. TypeOK'  BY <1>0, <2>1, <2>2, <2>4, <2>7 DEF TypeOK, Freed
  <2>10. RecoveryCount'  BY <1>0, <2>5 DEF RecoveryCount
  <2> QED BY <1>0, <1>3, <2>3, <2>6, <2>7, <2>8, <2>9, <2>10 DEF ScanShape, RecoveredNeverWait
<1> QED BY <1>2, <1>3 DEF Grant

LEMMA QuitKeeps ==
  ASSUME LInv, NEW t \in Tasks, Quit(t)
  PROVE  LInv'
<1> USE DEF LInv
<1> DEFINE n == Len(waiters)
<1>0. /\ Move(t, "idle") /\ "idle" \in Points /\ pc[t] = "quitting" /\ t \notin Recovered
      /\ UNCHANGED <<occupied, grants, active, scan, stopping, cancels>>
      /\ waiters \in Seq(Background) /\ n \in Nat /\ waiting = n /\ DOMAIN waiters = 1 .. n
  BY DEF Quit, Points, RecoveredNeverWait, TypeOK, WaitersQueued
<1>1. pc'[t] = "idle" /\ \A q \in Tasks \ {t} : pc'[q] = pc[q]  BY <1>0, Moved
\* What is left is the queue without t.
<1>2. /\ waiters' \in Seq(Background) /\ waiting' = Len(waiters')
      /\ \A i, k \in DOMAIN waiters' : i # k => waiters'[i] # waiters'[k]
      /\ ToSet(waiters') = ToSet(waiters) \ {t}
      /\ waiters' # <<>> => waiters # <<>>
  <2>1. CASE (\A i \in DOMAIN waiters : waiters[i] # t) /\ UNCHANGED <<waiters, waiting>>
    BY <1>0, <2>1 DEF WaitersQueued, ToSet
  <2>2. ASSUME NEW i \in DOMAIN waiters, waiters[i] = t, waiters' = RemoveAt(waiters, i),
               waiting' = Monus(waiting, 1)
        PROVE  <1>2!:
    <3>1. /\ waiters' \in Seq(Background) /\ Len(waiters') = n - 1
          /\ \A k \in 1 .. n - 1 : waiters'[k] = IF k < i THEN waiters[k] ELSE waiters[k + 1]
      BY <1>0, <2>2, DropOne
    <3>2. i \in 1 .. n /\ n >= 1 /\ DOMAIN waiters' = 1 .. n - 1  BY <1>0, <3>1
    <3> DEFINE at(k) == IF k < i THEN k ELSE k + 1
    <3>3. \A k \in 1 .. n - 1 : at(k) \in 1 .. n /\ at(k) # i /\ waiters'[k] = waiters[at(k)]
      BY <1>0, <3>1, <3>2
    <3>4. \A k, m \in 1 .. n - 1 : k # m => at(k) # at(m)  BY <1>0, <3>2
    <3>5. \A k \in 1 .. n : k # i => \E m \in 1 .. n - 1 : at(m) = k
      <4> TAKE k \in 1 .. n
      <4> HAVE k # i
      <4>1. CASE k < i
        <5>1. k \in 1 .. n - 1 /\ at(k) = k  BY <1>0, <3>2, <4>1
        <5> QED BY <5>1
      <4>2. CASE k > i
        <5>1. k - 1 \in 1 .. n - 1 /\ at(k - 1) = k  BY <1>0, <3>2, <4>2
        <5> QED BY <5>1
      <4> QED BY <1>0, <3>2, <4>1, <4>2
    <3> HIDE DEF at
    <3>6. \A k, m \in DOMAIN waiters' : k # m => waiters'[k] # waiters'[m]
      BY <1>0, <3>2, <3>3, <3>4 DEF WaitersQueued
    <3>7. ToSet(waiters') \subseteq ToSet(waiters) \ {t}
      BY <1>0, <2>2, <3>2, <3>3 DEF ToSet, WaitersQueued
    <3>8. ToSet(waiters) \ {t} \subseteq ToSet(waiters')
      <4> SUFFICES ASSUME NEW k \in 1 .. n, waiters[k] # t
                   PROVE  waiters[k] \in ToSet(waiters')
        BY <1>0 DEF ToSet
      <4>1. PICK m \in 1 .. n - 1 : at(m) = k  BY <2>2, <3>5
      <4> QED BY <3>2, <3>3, <4>1 DEF ToSet
    <3>9. waiting' = Len(waiters')  BY <1>0, <2>2, <3>1, <3>2 DEF Monus
    <3>10. waiters # <<>>  BY <1>0, <3>2
    <3> QED BY <3>1, <3>6, <3>7, <3>8, <3>9, <3>10
  <2> QED BY <2>1, <2>2 DEF Quit
<1>3. TypeOK'  BY <1>0, <1>2, Moved DEF TypeOK
<1>4. WaitersQueued'
  <2>1. \A i \in DOMAIN waiters' : waiters'[i] \in ToSet(waiters) \ {t}
    BY <1>2 DEF ToSet
  <2>2. \A x \in ToSet(waiters) : x \in Tasks /\ pc[x] \in {"waiting", "quitting"} /\ x \notin grants
    BY <1>0 DEF ToSet, WaitersQueued, Tasks
  <2>3. \A i \in DOMAIN waiters' : /\ pc'[waiters'[i]] \in {"waiting", "quitting"}
                                  /\ waiters'[i] \notin grants'
    BY <1>0, <1>1, <2>1, <2>2
  <2>4. \A q \in Background : pc'[q] = "waiting" => q \in grants' \cup ToSet(waiters')
    BY <1>0, <1>1, <1>2 DEF WaitersQueued, Tasks
  <2>5. ToSet(waiters)' = ToSet(waiters')  OBVIOUS
  <2> QED BY <1>2, <2>3, <2>4, <2>5 DEF WaitersQueued
<1>5. pc[t] \notin Holding /\ "idle" \notin Holding  BY <1>0 DEF Holding
<1>6. Cardinality(Holders)' = Cardinality(Holders)
  BY <1>0, <1>5, MovedCounts, CountsFinite DEF Bit
<1>7. SlotsAccounted'  BY <1>0, <1>6 DEF SlotsAccounted
<1>8. RecoveryCount'  BY <1>0, MovedCounts DEF RecoveryCount
<1>9. RecoveredNeverWait'  BY <1>0, Moved DEF RecoveredNeverWait, Tasks
<1> QED BY <1>0, <1>2, <1>3, <1>4, <1>7, <1>8, <1>9 DEF ScanShape, NoIdleSlot

-----------------------------------------------------------------------------
(* The steps of the scan.                                                  *)

\* Nobody moves and the queue stays: what is left to show is about the numbers.
LEMMA NobodyMoves ==
  ASSUME LInv, UNCHANGED <<waiters, waiting, grants, pc>>
  PROVE  /\ WaitersQueued' /\ RecoveredNeverWait'
         /\ Holders' = Holders /\ Tracked' = Tracked
<1>1. ToSet(waiters)' = ToSet(waiters)  OBVIOUS
<1>2. WaitersQueued'  BY <1>1 DEF LInv, WaitersQueued
<1> QED BY <1>2 DEF LInv, RecoveredNeverWait, Holders, Tracked

LEMMA ScanNumbers ==
  ASSUME LInv
  PROVE  /\ scan.reserved \in Nat /\ scan.permits \in Nat /\ scan.jobs \in Nat
         /\ scan.made \in Nat /\ active \in Nat /\ occupied \in Nat
         /\ MaxActive \in Nat /\ Batch \in Nat
         /\ scan \in ScanRecord
BY SizeAssumption DEF LInv, TypeOK, ScanRecord

LEMMA ScanReserveKeeps ==
  ASSUME LInv, ScanReserve
  PROVE  LInv'
<1> DEFINE n == Least(Batch, Monus(MaxActive, active))
<1>1. n \in Nat  BY ScanNumbers DEF Least, Monus
<1> HIDE DEF n
<1>2. /\ active' = active + n
      /\ scan' = [at |-> "reserving", reserved |-> n, permits |-> 0, jobs |-> 0, made |-> 0]
      /\ UNCHANGED <<occupied, waiters, waiting, grants, pc, stopping, cancels>>
      /\ scan.at = "off"
  BY DEF ScanReserve, NoScan, slots, n
<1>3. /\ scan' \in ScanRecord /\ scan'.at = "reserving" /\ scan'.reserved = n
      /\ scan'.permits = 0 /\ scan'.jobs = 0 /\ scan'.made = 0
  BY <1>1, <1>2 DEF ScanRecord
<1>4. TypeOK'  BY <1>1, <1>2, <1>3, ScanNumbers DEF LInv, TypeOK
<1>5. /\ WaitersQueued' /\ RecoveredNeverWait' /\ Holders' = Holders /\ Tracked' = Tracked
  BY <1>2, NobodyMoves
<1>6. scan.permits = 0 /\ scan.reserved = 0 /\ scan.made = 0  BY <1>2 DEF LInv, ScanShape
<1>7. SlotsAccounted'  BY <1>2, <1>3, <1>5, <1>6 DEF LInv, SlotsAccounted
<1>8. RecoveryCount'
  BY <1>1, <1>2, <1>3, <1>5, <1>6, CountsFinite DEF LInv, RecoveryCount
<1>9. ScanShape'  BY <1>1, <1>3 DEF ScanShape
<1> QED BY <1>2, <1>4, <1>5, <1>7, <1>8, <1>9 DEF LInv, NoIdleSlot

LEMMA ScanAdmitHolds ==
  ASSUME LInv, ScanAdmit
  PROVE  LInv'
<1> DEFINE p == Least(scan.reserved, Monus(MaxActive, occupied))
<1>1. p \in Nat /\ p <= scan.reserved /\ occupied + p <= MaxActive
  BY ScanNumbers DEF Least, Monus, LInv
<1>2. p > 0 => occupied < MaxActive  BY ScanNumbers DEF Least, Monus
<1> HIDE DEF p
<1>3. /\ scan.at = "reserving"
      /\ occupied' = occupied + p
      /\ active' = Monus(active, scan.reserved - p)
      /\ scan' = IF p = 0 THEN NoScan
                 ELSE [scan EXCEPT !.at = "submitted", !.reserved = p, !.permits = p]
      /\ UNCHANGED <<waiters, waiting, grants, pc, stopping, cancels>>
  BY DEF ScanAdmit, p
<1>4. scan.permits = 0 /\ scan.jobs = 0 /\ scan.made = 0  BY <1>3 DEF LInv, ScanShape
<1>5. /\ scan' \in ScanRecord /\ scan'.reserved = p /\ scan'.permits = p
      /\ scan'.jobs = 0 /\ scan'.made = 0
      /\ scan'.at \in {"off", "reserving"} => p = 0
  <2>1. CASE p = 0  BY <1>3, <2>1 DEF NoScan, ScanRecord
  <2>2. CASE p # 0  BY <1>1, <1>3, <1>4, <2>2, ScanNumbers DEF ScanRecord
  <2> QED BY <2>1, <2>2
<1>6. active' = active - (scan.reserved - p) /\ active' \in Nat
  <2>1. active = Cardinality(Tracked) + scan.reserved
    BY <1>4, ScanNumbers, CountsFinite DEF LInv, RecoveryCount
  <2>2. active >= scan.reserved - p /\ scan.reserved - p >= 0
    BY <1>1, <2>1, ScanNumbers, CountsFinite DEF LInv
  <2> QED BY <1>1, <1>3, <2>2, ScanNumbers DEF Monus
<1>7. TypeOK'
  <2>1. occupied' \in 0 .. MaxActive /\ occupied' \in Nat  BY <1>1, <1>3, ScanNumbers
  <2>2. TypeOK  BY DEF LInv
  <2> QED BY <1>3, <1>5, <1>6, <2>1, <2>2 DEF TypeOK
<1>8. /\ WaitersQueued' /\ RecoveredNeverWait' /\ Holders' = Holders /\ Tracked' = Tracked
  BY <1>3, NobodyMoves
<1>9. SlotsAccounted'
  BY <1>1, <1>3, <1>4, <1>5, <1>8, ScanNumbers, CountsFinite DEF LInv, SlotsAccounted
<1>10. RecoveryCount'
  BY <1>1, <1>4, <1>5, <1>6, <1>8, ScanNumbers, CountsFinite DEF LInv, RecoveryCount
<1>11. ScanShape'  BY <1>1, <1>5 DEF ScanShape
<1>12. NoIdleSlot'
  BY <1>1, <1>2, <1>3, ScanNumbers DEF LInv, NoIdleSlot
<1> QED BY <1>1, <1>3, <1>7, <1>8, <1>9, <1>10, <1>11, <1>12 DEF LInv

LEMMA ScanWaitsKeeps ==
  ASSUME LInv, ScanStart \/ ScanClaimed \/ Stop
  PROVE  LInv'
<1>1. /\ UNCHANGED <<occupied, waiters, waiting, grants, pc, active, cancels>>
      /\ stopping' \in BOOLEAN
  BY DEF ScanStart, ScanClaimed, Stop, slots, LInv, TypeOK
<1>2. /\ scan' \in ScanRecord /\ ScanShape' /\ scan'.permits = scan.permits
      /\ scan'.reserved = scan.reserved /\ scan'.made = scan.made
  <2>1. CASE ScanStart  BY <2>1, ScanNumbers DEF ScanStart, ScanRecord, LInv, ScanShape
  <2>2. CASE ScanClaimed
    <3>1. PICK k \in 0 .. scan.permits : scan' = [scan EXCEPT !.at = "claimed", !.jobs = k]
      BY <2>2 DEF ScanClaimed
    <3>2. k \in Nat /\ k <= scan.permits /\ scan \in ScanRecord  BY ScanNumbers
    <3>3. /\ scan' \in ScanRecord /\ scan'.at = "claimed" /\ scan'.jobs = k
          /\ scan'.permits = scan.permits /\ scan'.reserved = scan.reserved
          /\ scan'.made = scan.made
      BY <3>1, <3>2 DEF ScanRecord
    <3> QED BY <3>2, <3>3 DEF LInv, ScanShape
  <2>3. CASE Stop  BY <2>3, ScanNumbers DEF Stop, LInv, ScanShape
  <2> QED BY <2>1, <2>2, <2>3
<1>3. TypeOK'  BY <1>1, <1>2 DEF LInv, TypeOK
<1>4. /\ WaitersQueued' /\ RecoveredNeverWait' /\ Holders' = Holders /\ Tracked' = Tracked
  BY <1>1, NobodyMoves
<1> QED BY <1>1, <1>2, <1>3, <1>4 DEF LInv, SlotsAccounted, NoIdleSlot, RecoveryCount

LEMMA ScanDispatchKeeps ==
  ASSUME LInv, NEW t \in Recovered, ScanDispatch(t)
  PROVE  LInv'
<1>1. /\ t \in Tasks /\ Move(t, "starting") /\ "starting" \in Points /\ pc[t] = "idle"
      /\ scan.at \in {"claimed", "dispatching"} /\ scan.jobs > 0
      /\ UNCHANGED <<occupied, waiters, waiting, grants, active, stopping, cancels>>
  BY DEF ScanDispatch, Tasks, Points, slots
<1>2. /\ scan' \in ScanRecord /\ scan'.at = "dispatching" /\ scan'.jobs = scan.jobs - 1
      /\ scan'.permits = scan.permits - 1 /\ scan'.made = scan.made + 1
      /\ scan'.reserved = scan.reserved /\ scan.permits >= 1
  <2>1. scan.permits >= 1  BY <1>1, ScanNumbers DEF LInv, ScanShape
  <2> DEFINE j == scan.jobs - 1
             p == scan.permits - 1
             m == scan.made + 1
  <2>2. j \in Nat /\ p \in Nat /\ m \in Nat /\ scan \in ScanRecord
    BY <1>1, <2>1, ScanNumbers
  <2>3. scan' = [scan EXCEPT !.at = "dispatching", !.jobs = j, !.permits = p, !.made = m]
    BY DEF ScanDispatch
  <2> HIDE DEF j, p, m
  <2>4. /\ scan' \in ScanRecord /\ scan'.at = "dispatching" /\ scan'.jobs = j
        /\ scan'.permits = p /\ scan'.made = m /\ scan'.reserved = scan.reserved
    BY <2>2, <2>3 DEF ScanRecord
  <2> QED BY <2>1, <2>4 DEF j, p, m
<1>3. TypeOK  BY DEF LInv
<1>4. TypeOK'  BY <1>1, <1>2, <1>3, Moved DEF TypeOK
<1>5. WaitersQueued'  BY <1>1, <1>3, Moved, QueueKept DEF LInv
<1>6. /\ Cardinality(Holders)' = Cardinality(Holders) + 1
      /\ Cardinality(Tracked)' = Cardinality(Tracked) + 1
  <2>1. /\ pc[t] \notin Holding /\ "starting" \in Holding
        /\ pc[t] \notin Supervised /\ "starting" \in Supervised
    BY <1>1 DEF Holding, Supervised
  <2> QED BY <1>1, <1>3, <2>1, MovedCounts, CountsFinite DEF Bit
<1>7. SlotsAccounted'
  BY <1>1, <1>2, <1>3, <1>6, ScanNumbers, CountsFinite DEF LInv, SlotsAccounted
<1>8. RecoveryCount'
  BY <1>1, <1>2, <1>3, <1>6, ScanNumbers, CountsFinite DEF LInv, RecoveryCount
<1>9. ScanShape'  BY <1>1, <1>2, ScanNumbers DEF LInv, ScanShape
<1>10. RecoveredNeverWait'  BY <1>1, <1>3, Moved DEF LInv, RecoveredNeverWait, Tasks
<1> QED BY <1>1, <1>4, <1>5, <1>7, <1>8, <1>9, <1>10 DEF LInv, NoIdleSlot

LEMMA ScanReleaseKeeps ==
  ASSUME LInv, ScanRelease
  PROVE  LInv'
<1>1. /\ scan.at \in {"claimed", "dispatching"} /\ scan.jobs = 0 /\ scan.permits > 0
      /\ ReleaseSlot(grants) /\ UNCHANGED <<pc, active, stopping, cancels>>
      /\ scan' = [scan EXCEPT !.at = "dispatching", !.permits = scan.permits - 1]
  BY DEF ScanRelease
<1>2. /\ scan' \in ScanRecord /\ scan'.at = "dispatching" /\ scan'.jobs = 0
      /\ scan'.permits = scan.permits - 1 /\ scan'.made = scan.made
      /\ scan'.reserved = scan.reserved
  <2> DEFINE p == scan.permits - 1
  <2>1. p \in Nat /\ scan \in ScanRecord  BY <1>1, ScanNumbers
  <2>2. scan' = [scan EXCEPT !.at = "dispatching", !.permits = p]  BY <1>1
  <2> HIDE DEF p
  <2>3. /\ scan' \in ScanRecord /\ scan'.at = "dispatching" /\ scan'.jobs = scan.jobs
        /\ scan'.permits = p /\ scan'.made = scan.made /\ scan'.reserved = scan.reserved
    BY <2>1, <2>2 DEF ScanRecord
  <2> QED BY <1>1, <2>3 DEF p
<1>3. TypeOK /\ WaitersQueued  BY DEF LInv
<1>4. Freed(grants)  BY <1>1, <1>3, Released
<1>5. /\ \/ occupied' = occupied - 1 /\ Cardinality(grants') = Cardinality(grants)
         \/ occupied' = occupied /\ Cardinality(grants') = Cardinality(grants) + 1
      /\ grants' \in SUBSET Background
      /\ waiters' # <<>> => occupied' = occupied /\ waiters # <<>>
  BY <1>3, <1>4, FreedOne
<1>6. WaitersQueued'
  <2>1. \A q \in Background : pc'[q] = "waiting" => q \in grants' \cup ToSet(waiters')
    BY <1>1, <1>3, <1>4 DEF WaitersQueued, Freed
  <2>2. ToSet(waiters)' = ToSet(waiters')  OBVIOUS
  <2> QED BY <1>1, <1>4, <2>1, <2>2 DEF WaitersQueued, Freed
<1>7. Holders' = Holders /\ Tracked' = Tracked  BY <1>1 DEF Holders, Tracked
<1>0. /\ Cardinality(Holders) \in Nat /\ Cardinality(grants) \in Nat /\ scan.permits \in Nat
      /\ scan.permits > 0 /\ occupied \in Nat /\ MaxActive \in Nat /\ occupied <= MaxActive
      /\ occupied = Cardinality(Holders) + Cardinality(grants) + scan.permits
  BY <1>1, <1>3, ScanNumbers, CountsFinite DEF LInv, SlotsAccounted
<1>8. SlotsAccounted'
  <2>1. Cardinality(Holders') = Cardinality(Holders) /\ scan'.permits = scan.permits - 1
    BY <1>2, <1>7
  <2>2. occupied' = Cardinality(Holders) + Cardinality(grants') + (scan.permits - 1)
    BY <1>5, <1>0
  <2> QED BY <2>1, <2>2 DEF SlotsAccounted
<1>9. occupied' \in Nat /\ occupied' <= MaxActive
  BY <1>5, <1>0
<1>10. TypeOK'  BY <1>1, <1>2, <1>3, <1>4, <1>5, <1>9 DEF TypeOK, Freed
<1>11. NoIdleSlot'  BY <1>5 DEF LInv, NoIdleSlot
<1>12. RecoveryCount'  BY <1>1, <1>2, <1>7 DEF LInv, RecoveryCount
<1>13. ScanShape'  BY <1>1, <1>2, ScanNumbers DEF LInv, ScanShape
<1>14. RecoveredNeverWait'  BY <1>1 DEF LInv, RecoveredNeverWait
<1> QED BY <1>6, <1>8, <1>9, <1>10, <1>11, <1>12, <1>13, <1>14 DEF LInv

LEMMA ScanEndKeeps ==
  ASSUME LInv, ScanEnd
  PROVE  LInv'
<1>1. /\ scan.at \in {"claimed", "dispatching"} /\ scan.jobs = 0 /\ scan.permits = 0
      /\ active' = Monus(active, scan.reserved - scan.made) /\ scan' = NoScan
      /\ UNCHANGED <<occupied, waiters, waiting, grants, pc, stopping, cancels>>
  BY DEF ScanEnd, slots
<1>2. /\ scan' \in ScanRecord /\ scan'.permits = 0 /\ scan'.jobs = 0
      /\ scan'.made = 0 /\ scan'.reserved = 0
  BY <1>1 DEF NoScan, ScanRecord
<1>3. active' = Cardinality(Tracked) /\ active' \in Nat
  <2>1. TypeOK  BY DEF LInv
  <2>2. scan.reserved - scan.made >= 0  BY <1>1, ScanNumbers DEF LInv, ScanShape
  <2>3. active = Cardinality(Tracked) + (scan.reserved - scan.made)  BY DEF LInv, RecoveryCount
  <2> QED BY <1>1, <2>1, <2>2, <2>3, ScanNumbers, CountsFinite DEF Monus
<1>4. TypeOK'  BY <1>1, <1>2, <1>3 DEF LInv, TypeOK
<1>5. /\ WaitersQueued' /\ RecoveredNeverWait' /\ Holders' = Holders /\ Tracked' = Tracked
  BY <1>1, NobodyMoves
<1>6. SlotsAccounted'  BY <1>1, <1>2, <1>5 DEF LInv, SlotsAccounted
<1>7. RecoveryCount'
  <2>1. TypeOK  BY DEF LInv
  <2> QED BY <1>2, <1>3, <1>5, <2>1, CountsFinite DEF RecoveryCount
<1>8. ScanShape'  BY <1>2 DEF ScanShape
<1> QED BY <1>1, <1>4, <1>5, <1>6, <1>7, <1>8 DEF LInv, NoIdleSlot

-----------------------------------------------------------------------------
(* The theorems.                                                           *)

\* The slots are accounted for in every reachable state.
THEOREM SlotInvariance == Spec => []LInv
<1>1. Init => LInv
  <2> SUFFICES ASSUME Init PROVE LInv  OBVIOUS
  <2>1. NoScan \in ScanRecord /\ NoScan.permits = 0 /\ NoScan.jobs = 0
        /\ NoScan.made = 0 /\ NoScan.reserved = 0
    BY DEF NoScan, ScanRecord
  <2>2. TypeOK
    <3>1. pc \in [Tasks -> Points]  BY DEF Init, Points
    <3>2. waiters \in Seq(Background) /\ grants \in SUBSET Background  BY DEF Init
    <3>3. scan \in ScanRecord /\ stopping \in BOOLEAN  BY <2>1 DEF Init
    <3>4. occupied \in Nat /\ waiting \in Nat /\ active \in Nat /\ cancels \in Nat  BY DEF Init
    <3> QED BY <3>1, <3>2, <3>3, <3>4 DEF TypeOK
  <2>3. Holders = {} /\ Tracked = {}
    BY DEF Init, Holders, Tracked, Holding, Supervised, Tasks
  <2>4. SlotsAccounted /\ RecoveryCount
    BY <2>1, <2>3, FS_EmptySet DEF Init, SlotsAccounted, RecoveryCount
  <2>5. WaitersQueued /\ NoIdleSlot
    BY DEF Init, WaitersQueued, NoIdleSlot, ToSet, Tasks
  <2>6. ScanShape /\ RecoveredNeverWait /\ occupied <= MaxActive
    BY <2>1, SizeAssumption DEF Init, ScanShape, RecoveredNeverWait, Tasks
  <2> QED BY <2>2, <2>4, <2>5, <2>6 DEF LInv
<1>2. LInv /\ [Next]_vars => LInv'
  <2> SUFFICES ASSUME LInv, [Next]_vars PROVE LInv'  OBVIOUS
  <2>1. ASSUME NEW t \in Tasks,
               Arrive(t) \/ LoopStep(t) \/ Cancel(t) \/ StartWorker(t) \/ EndWorker(t)
        PROVE  LInv'
    BY <2>1, ArriveKeeps, GrantKeeps, SubmitKeeps, QuitKeeps, RefuseKeeps,
       EndWrapperKeeps, CancelKeeps, StartWorkerKeeps, EndWorkerKeeps DEF LoopStep
  <2>2. CASE ScanStep
    BY <2>2, ScanAdmitHolds, ScanWaitsKeeps, ScanReleaseKeeps, ScanEndKeeps,
       ScanDispatchKeeps DEF ScanStep
  <2>3. CASE ScanReserve \/ ScanStart \/ Stop  BY <2>3, ScanReserveKeeps, ScanWaitsKeeps
  <2>4. CASE UNCHANGED vars
    <3>1. /\ UNCHANGED <<waiters, waiting, grants, pc>>
          /\ UNCHANGED <<occupied, active, scan, stopping, cancels>>
      BY <2>4 DEF vars
    <3>2. /\ WaitersQueued' /\ RecoveredNeverWait' /\ Holders' = Holders /\ Tracked' = Tracked
      BY <3>1, NobodyMoves
    <3> QED BY <3>1, <3>2
            DEF LInv, TypeOK, SlotsAccounted, NoIdleSlot, RecoveryCount, ScanShape
  <2> QED BY <2>1, <2>2, <2>3, <2>4 DEF Next
<1> QED BY <1>1, <1>2, PTL DEF Spec

\* Every variable keeps its type.
THEOREM LimiterTypes == Spec => []TypeOK
<1>1. LInv => TypeOK  BY DEF LInv
<1> QED BY <1>1, SlotInvariance, PTL

\* Every occupied slot has exactly one owner, so none is lost or released twice.
THEOREM SlotsNeverLost == Spec => []SlotsAccounted
<1>1. LInv => SlotsAccounted  BY DEF LInv
<1> QED BY <1>1, SlotInvariance, PTL

\* At most MaxActive workers run, however many wrappers were cancelled.
THEOREM CapacityHolds == Spec => []CapacityKept
<1>1. LInv => CapacityKept
  <2> SUFFICES ASSUME LInv PROVE CapacityKept  OBVIOUS
  <2>1. TypeOK  BY DEF LInv
  <2>2. InThreads \in SUBSET Holders  BY DEF InThreads, Holders, Holding
  <2>3. Cardinality(InThreads) <= Cardinality(Holders)
    BY <2>1, <2>2, CountsFinite, FS_Subset
  <2>4. Cardinality(Holders) <= occupied
    BY <2>1, ScanNumbers, CountsFinite DEF LInv, SlotsAccounted
  <2> QED BY <2>1, <2>3, <2>4, ScanNumbers, CountsFinite DEF LInv, CapacityKept
<1> QED BY <1>1, SlotInvariance, PTL

\* No wrapper waits while a slot is free: no wake-up is lost.
THEOREM NoLostWakeup == Spec => []NoIdleSlot
<1>1. LInv => NoIdleSlot  BY DEF LInv
<1> QED BY <1>1, SlotInvariance, PTL

\* Every wrapper that waits is in the queue or about to get its permit, once.
THEOREM QueueConsistent == Spec => []WaitersQueued
<1>1. LInv => WaitersQueued  BY DEF LInv
<1> QED BY <1>1, SlotInvariance, PTL

\* The recovery state counts exactly what it supervises; the clamp at zero of its
\* decrements never hides a wrong one.
THEOREM RecoveryCounts == Spec => []RecoveryCount
<1>1. LInv => RecoveryCount  BY DEF LInv
<1> QED BY <1>1, SlotInvariance, PTL

=============================================================================
