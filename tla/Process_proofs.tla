-------------------------- MODULE Process_proofs ------------------------------
(***************************************************************************)
(* What a process is made of, for every number of calls, callers, requests *)
(* and runners: the bounds and the order of ArgonExecutor, and the safety  *)
(* of ManagedCache, ServerLifecycle, JobQueue and Migrations.              *)
(*                                                                         *)
(* The inductive invariants: IInv ties the counter to the operations that  *)
(* hold a place and the queue to those that wait (InOrder: what was        *)
(* accepted is what was begun followed by the queue); CacheInv says which  *)
(* close took which resource; ServerInv what is left to close; QueueInv    *)
(* counts the jobs that a key has named; GateInv says that only the holder *)
(* of the lock knows the rows, and that it knows all of them.              *)
(***************************************************************************)
EXTENDS MCProcess, FiniteSetTheorems, SequenceTheorems, TLAPS

Waiting ==
  /\ \A i \in 1 .. Len(queue) : place[queue[i]] = "queued"
  /\ \A i, j \in 1 .. Len(queue) : queue[i] = queue[j] => i = j
  /\ closed => queue = <<>>

InOrder ==
  /\ Len(begun) <= Len(accepted)
  /\ \A i \in 1 .. Len(begun) : begun[i] = accepted[i]
  /\ ~closed => Len(accepted) = Len(begun) + Len(queue)
  /\ ~closed => \A i \in 1 .. Len(queue) : accepted[Len(begun) + i] = queue[i]

IInv == TypeOK /\ Waiting /\ Bounded /\ NobodyWaitsForAFreePlace /\ InOrder

-----------------------------------------------------------------------------
LEMMA InitIInv == Init => IInv
<1> SUFFICES ASSUME Init PROVE IInv
  OBVIOUS
<1> USE ArgonAssumption
<1>1. TypeOK
  <2>1. place \in [Operations -> Places]
    BY DEF Init, Places
  <2>2. <<>> \in Seq(Operations)
    OBVIOUS
  <2>3. QED
    BY <2>1, <2>2 DEF Init, TypeOK
<1>2. Waiting /\ InOrder /\ NobodyWaitsForAFreePlace
  BY DEF Init, Waiting, InOrder, NobodyWaitsForAFreePlace
<1>3. Bounded
  <2>1. Holding = {}
    BY DEF Init, Holding
  <2>2. QED
    BY <2>1, FS_EmptySet DEF Init, Bounded
<1>4. QED
  BY <1>1, <1>2, <1>3 DEF IInv

\* Holding is finite, so an operation that takes or leaves a place changes its size by one.
LEMMA HoldingFinite ==
  ASSUME TypeOK
  PROVE  /\ IsFiniteSet(Holding) /\ Cardinality(Holding) \in Nat
         /\ \A o \in Operations \ Holding : Cardinality(Holding \cup {o}) = Cardinality(Holding) + 1
         /\ \A o \in Holding : Cardinality(Holding \ {o}) = Cardinality(Holding) - 1
<1>1. Holding \subseteq Operations
  BY DEF Holding
<1>2. IsFiniteSet(Holding) /\ Cardinality(Holding) \in Nat
  BY <1>1, ArgonAssumption, FS_Subset, FS_CardinalityType
<1>3. QED
  BY <1>2, FS_AddElement, FS_RemoveElement

LEMMA RefuseInv ==
  ASSUME IInv, NEW o \in Operations, place[o] = "new", Refuse(o), UNCHANGED closed
  PROVE  IInv'
<1> USE DEF IInv
<1>0. /\ place' = [place EXCEPT ![o] = "left"] /\ answered' = answered \cup {o}
      /\ UNCHANGED <<active, queue, closed, accepted, begun>>
  BY DEF Refuse
<1>1. TypeOK'
  BY <1>0 DEF TypeOK, Places
<1>2. Waiting'
  BY <1>0 DEF TypeOK, Waiting
<1>3. Bounded'
  <2>1. Holding' = Holding
    BY <1>0 DEF TypeOK, Holding
  <2>2. QED
    BY <1>0, <2>1 DEF Bounded
<1>4. InOrder' /\ NobodyWaitsForAFreePlace'
  BY <1>0 DEF InOrder, NobodyWaitsForAFreePlace
<1>5. QED
  BY <1>1, <1>2, <1>3, <1>4

LEMMA StartInv ==
  ASSUME IInv, NEW o \in Operations, place[o] = "new", ~closed, active < concurrency, Start(o),
         UNCHANGED closed
  PROVE  IInv'
<1> USE DEF IInv
<1> USE ArgonAssumption
<1>0. /\ active' = active + 1 /\ place' = [place EXCEPT ![o] = "started"]
      /\ begun' = Append(begun, o) /\ accepted' = Append(accepted, o)
      /\ UNCHANGED <<answered, queue, closed>>
  BY DEF Start
<1>1. queue = <<>> /\ Len(queue) = 0
  BY DEF TypeOK, NobodyWaitsForAFreePlace
<1>2. TypeOK'
  BY <1>0 DEF TypeOK, Places
<1>3. Waiting' /\ NobodyWaitsForAFreePlace'
  BY <1>0, <1>1 DEF Waiting, NobodyWaitsForAFreePlace
<1>4. Bounded'
  <2>1. Holding' = Holding \cup {o} /\ o \notin Holding
    BY <1>0 DEF TypeOK, Holding
  <2>2. Cardinality(Holding') = Cardinality(Holding) + 1
    BY <2>1, HoldingFinite
  <2>3. QED
    BY <1>0, <2>2 DEF TypeOK, Bounded
<1>5. InOrder'
  <2>1. Len(accepted) = Len(begun)
    BY <1>1 DEF TypeOK, InOrder
  <2>2. Len(accepted') = Len(accepted) + 1 /\ Len(begun') = Len(begun) + 1 /\ Len(queue') = 0
    BY <1>0, <1>1 DEF TypeOK
  <2>3. \A i \in 1 .. Len(begun') : begun'[i] = accepted'[i]
    BY <1>0, <2>1 DEF TypeOK, InOrder
  <2>4. QED
    BY <2>1, <2>2, <2>3 DEF TypeOK, InOrder
<1>6. QED
  BY <1>2, <1>3, <1>4, <1>5

LEMMA EnqueueInv ==
  ASSUME IInv, NEW o \in Operations, place[o] = "new", ~closed, active >= concurrency,
         Len(queue) < queueLimit, Enqueue(o), UNCHANGED closed
  PROVE  IInv'
<1> USE DEF IInv
<1> USE ArgonAssumption
<1>0. /\ queue' = Append(queue, o) /\ accepted' = Append(accepted, o)
      /\ place' = [place EXCEPT ![o] = "queued"]
      /\ UNCHANGED <<answered, active, begun, closed>>
  BY DEF Enqueue
<1>1. TypeOK'
  BY <1>0 DEF TypeOK, Places
<1>2. /\ Len(queue') = Len(queue) + 1 /\ queue'[Len(queue) + 1] = o
      /\ \A i \in 1 .. Len(queue) : queue'[i] = queue[i] /\ queue[i] \in Operations /\ queue[i] # o
  BY <1>0 DEF TypeOK, Waiting
<1>3. Waiting'
  <2>1. \A i \in 1 .. Len(queue') : place'[queue'[i]] = "queued"
    BY <1>0, <1>2 DEF TypeOK, Waiting
  <2>2. \A i, j \in 1 .. Len(queue') : queue'[i] = queue'[j] => i = j
    BY <1>2 DEF TypeOK, Waiting
  <2>3. QED
    BY <1>0, <2>1, <2>2 DEF Waiting
<1>4. Bounded' /\ NobodyWaitsForAFreePlace'
  <2>1. Holding' = Holding
    BY <1>0 DEF TypeOK, Holding
  <2>2. QED
    BY <1>0, <1>2, <2>1 DEF TypeOK, Bounded, NobodyWaitsForAFreePlace
<1>5. InOrder'
  <2>1. /\ Len(accepted') = Len(accepted) + 1 /\ accepted'[Len(accepted) + 1] = o
        /\ \A i \in 1 .. Len(accepted) : accepted'[i] = accepted[i]
    BY <1>0 DEF TypeOK
  <2>2. Len(accepted) = Len(begun) + Len(queue) /\ Len(begun) \in Nat /\ Len(queue) \in Nat
    BY DEF TypeOK, InOrder
  <2>3. \A i \in 1 .. Len(begun) : begun[i] = accepted'[i]
    BY <2>1, <2>2 DEF InOrder
  <2>4. \A i \in 1 .. Len(queue') : accepted'[Len(begun) + i] = queue'[i]
    <3> SUFFICES ASSUME NEW i \in 1 .. Len(queue') PROVE accepted'[Len(begun) + i] = queue'[i]
      OBVIOUS
    <3>1. CASE i = Len(queue) + 1
      BY <1>2, <2>1, <2>2, <3>1
    <3>2. CASE i # Len(queue) + 1
      <4>1. i \in 1 .. Len(queue) /\ Len(begun) + i \in 1 .. Len(accepted)
        BY <1>2, <2>2, <3>2
      <4>2. accepted[Len(begun) + i] = queue[i]
        BY <4>1 DEF InOrder
      <4>3. QED
        BY <1>2, <2>1, <4>1, <4>2
    <3>3. QED
      BY <3>1, <3>2
  <2>5. QED
    BY <1>0, <1>2, <2>1, <2>2, <2>3, <2>4 DEF InOrder
<1>6. QED
  BY <1>1, <1>3, <1>4, <1>5

LEMMA SettleInv == ASSUME IInv, NEW o \in Operations, Settle(o) PROVE IInv'
<1> USE DEF IInv
<1>0. /\ place[o] = "started" /\ place' = [place EXCEPT ![o] = "settled"]
      /\ answered' = answered \cup {o}
      /\ UNCHANGED <<active, queue, closed, accepted, begun>>
  BY DEF Settle
<1>1. TypeOK'
  BY <1>0 DEF TypeOK, Places
<1>2. Waiting'
  BY <1>0 DEF TypeOK, Waiting
<1>3. Bounded'
  <2>1. Holding' = Holding
    BY <1>0 DEF TypeOK, Holding
  <2>2. QED
    BY <1>0, <2>1 DEF Bounded
<1>4. InOrder' /\ NobodyWaitsForAFreePlace'
  BY <1>0 DEF InOrder, NobodyWaitsForAFreePlace
<1>5. QED
  BY <1>1, <1>2, <1>3, <1>4

\* Leave, with somebody to call in.
LEMMA DrainInv ==
  ASSUME IInv, NEW o \in Operations, place[o] = "settled", ~closed, queue # <<>>,
         place' = [place EXCEPT ![o] = "left", ![Head(queue)] = "started"],
         queue' = Tail(queue), begun' = Append(begun, Head(queue)),
         UNCHANGED <<active, answered, closed, accepted>>
  PROVE  IInv'
<1> USE DEF IInv
<1> USE ArgonAssumption
<1> DEFINE h == Head(queue)
<1>1. /\ h = queue[1] /\ h \in Operations /\ place[h] = "queued" /\ h # o
      /\ Len(queue) \in Nat \ {0}
      /\ Len(queue') = Len(queue) - 1
      /\ \A i \in 1 .. Len(queue') : queue'[i] = queue[i + 1] /\ i + 1 \in 1 .. Len(queue)
  BY DEF TypeOK, Waiting
<1> HIDE DEF h
<1>2. place' = [place EXCEPT ![o] = "left", ![h] = "started"] /\ begun' = Append(begun, h)
  BY DEF h
<1>3. TypeOK'
  <2>1. queue' \in Seq(Operations)
    BY DEF TypeOK
  <2>2. begun' \in Seq(Operations)
    BY <1>1, <1>2 DEF TypeOK
  <2>3. place' \in [Operations -> Places]
    BY <1>2 DEF TypeOK, Places
  <2>4. QED
    BY <2>1, <2>2, <2>3 DEF TypeOK
<1>4. Waiting'
  <2>1. \A i \in 1 .. Len(queue') : queue[i + 1] # h /\ queue[i + 1] # o /\ queue[i + 1] \in Operations
    BY <1>1 DEF TypeOK, Waiting
  <2>2. \A i \in 1 .. Len(queue') : place'[queue'[i]] = "queued"
    BY <1>1, <1>2, <2>1 DEF TypeOK, Waiting
  <2>3. \A i, j \in 1 .. Len(queue') : queue'[i] = queue'[j] => i = j
    BY <1>1 DEF Waiting
  <2>4. QED
    BY <2>2, <2>3 DEF Waiting
<1>5. Bounded' /\ NobodyWaitsForAFreePlace'
  <2>1. Holding' = (Holding \ {o}) \cup {h} /\ o \in Holding /\ h \notin Holding
    BY <1>1, <1>2 DEF TypeOK, Holding
  <2>2. IsFiniteSet(Holding \ {o}) /\ Cardinality(Holding \ {o}) = Cardinality(Holding) - 1
        /\ Cardinality(Holding) \in Nat
    BY <2>1, HoldingFinite, FS_Subset
  <2>3. Cardinality((Holding \ {o}) \cup {h}) = Cardinality(Holding \ {o}) + 1
    BY <2>1, <2>2, FS_AddElement
  <2>4. Cardinality(Holding') = Cardinality(Holding)
    BY <2>1, <2>2, <2>3
  <2>5. QED
    BY <1>1, <2>4 DEF TypeOK, Bounded, NobodyWaitsForAFreePlace
<1>6. InOrder'
  <2>1. /\ Len(begun') = Len(begun) + 1 /\ begun'[Len(begun) + 1] = h
        /\ \A i \in 1 .. Len(begun) : begun'[i] = begun[i]
        /\ Len(begun) \in Nat
    BY <1>1, <1>2 DEF TypeOK
  <2>2. Len(accepted) = Len(begun) + Len(queue) /\ accepted[Len(begun) + 1] = h
    BY <1>1 DEF InOrder
  <2>3. \A i \in 1 .. Len(begun') : begun'[i] = accepted[i]
    BY <2>1, <2>2 DEF InOrder
  <2>4. \A i \in 1 .. Len(queue') : accepted[Len(begun') + i] = queue'[i]
    <3> SUFFICES ASSUME NEW i \in 1 .. Len(queue') PROVE accepted[Len(begun') + i] = queue'[i]
      OBVIOUS
    <3>1. queue'[i] = queue[i + 1] /\ i + 1 \in 1 .. Len(queue)
      BY <1>1
    <3>2. accepted[Len(begun) + (i + 1)] = queue[i + 1]
      BY <3>1 DEF InOrder
    <3>3. Len(begun') + i = Len(begun) + (i + 1)
      BY <1>1, <2>1
    <3>4. QED
      BY <3>1, <3>2, <3>3
  <2>5. QED
    BY <1>1, <2>1, <2>2, <2>3, <2>4 DEF InOrder
<1>7. QED
  BY <1>3, <1>4, <1>5, <1>6

LEMMA LeaveInv == ASSUME IInv, NEW o \in Operations, Leave(o) PROVE IInv'
<1> USE DEF IInv
<1> USE ArgonAssumption
<1>1. CASE ~closed /\ queue # <<>>
  BY <1>1, DrainInv DEF Leave
<1>2. CASE closed \/ queue = <<>>
  <2>0. /\ place[o] = "settled" /\ place' = [place EXCEPT ![o] = "left"]
        /\ active' = active - 1 /\ UNCHANGED <<queue, begun, answered, closed, accepted>>
    BY <1>2 DEF Leave
  <2>1. queue = <<>>
    BY <1>2 DEF Waiting
  <2>2. Cardinality(Holding') = Cardinality(Holding) - 1 /\ o \in Holding
    <3>1. Holding' = Holding \ {o} /\ o \in Holding
      BY <2>0 DEF TypeOK, Holding
    <3>2. QED
      BY <3>1, HoldingFinite
  <2>3. active # 0
    <3>1. Holding # {}
      BY <2>2
    <3>2. QED
      BY <3>1, HoldingFinite, FS_EmptySet DEF Bounded
  <2>4. TypeOK'
    BY <2>0, <2>3 DEF TypeOK, Places
  <2>5. Waiting' /\ NobodyWaitsForAFreePlace'
    BY <2>0, <2>1 DEF Waiting, NobodyWaitsForAFreePlace
  <2>6. Bounded'
    BY <2>0, <2>2 DEF TypeOK, Bounded
  <2>7. InOrder'
    BY <2>0 DEF InOrder
  <2>8. QED
    BY <2>4, <2>5, <2>6, <2>7
<1>3. QED
  BY <1>1, <1>2

LEMMA CloseInv == ASSUME IInv, Close PROVE IInv'
<1> USE DEF IInv
<1> USE ArgonAssumption
<1>0. /\ closed' = TRUE /\ queue' = <<>>
      /\ place' = [o \in Operations |-> IF place[o] = "queued" THEN "left" ELSE place[o]]
      /\ answered' = answered \cup {o \in Operations : place[o] = "queued"}
      /\ UNCHANGED <<active, accepted, begun>>
  BY DEF Close
<1>1. TypeOK'
  BY <1>0 DEF TypeOK, Places
<1>2. Waiting' /\ NobodyWaitsForAFreePlace' /\ InOrder'
  BY <1>0 DEF Waiting, NobodyWaitsForAFreePlace, InOrder
<1>3. Bounded'
  <2>1. Holding' = Holding
    BY <1>0 DEF Holding
  <2>2. QED
    BY <1>0, <2>1 DEF Bounded
<1>4. QED
  BY <1>1, <1>2, <1>3

LEMMA StutterInv == ASSUME IInv, UNCHANGED vars PROVE IInv'
<1>1. UNCHANGED <<place, answered, active, queue, closed, accepted, begun>>
  BY DEF vars
<1>2. Holding' = Holding
  BY <1>1 DEF Holding
<1>3. QED
  BY <1>1, <1>2 DEF IInv, TypeOK, Waiting, Bounded, NobodyWaitsForAFreePlace, InOrder

LEMMA NextIInv == ASSUME IInv, [Next]_vars PROVE IInv'
<1>1. ASSUME NEW o \in Operations, Schedule(o) PROVE IInv'
  BY <1>1, RefuseInv, StartInv, EnqueueInv DEF Schedule
<1>2. ASSUME NEW o \in Operations, Settle(o) \/ Leave(o) PROVE IInv'
  BY <1>2, SettleInv, LeaveInv
<1>3. QED
  BY <1>1, <1>2, CloseInv, StutterInv DEF Next

-----------------------------------------------------------------------------
\* The types of the executor's state.
THEOREM TypeCorrect == Spec => []TypeOK
<1>1. IInv => TypeOK
  BY DEF IInv
<1>2. QED
  BY <1>1, InitIInv, NextIInv, PTL DEF Spec

\* The executor never runs more than concurrency hashes nor keeps more than queueLimit
\* waiting, and its counter is exact, however calls, ends and close interleave.
THEOREM HashesAreBounded == Spec => []Bounded
<1>1. IInv => Bounded
  BY DEF IInv
<1>2. QED
  BY <1>1, InitIInv, NextIInv, PTL DEF Spec

\* Nobody is left in the queue while a place is free.
THEOREM DrainIsNeverForgotten == Spec => []NobodyWaitsForAFreePlace
<1>1. IInv => NobodyWaitsForAFreePlace
  BY DEF IInv
<1>2. QED
  BY <1>1, InitIInv, NextIInv, PTL DEF Spec

\* Operations start in the order they were accepted.
THEOREM FirstComeFirstServed == Spec => []NoOvertaking
<1>1. IInv => NoOvertaking
  <2> SUFFICES ASSUME IInv PROVE NoOvertaking
    OBVIOUS
  <2> DEFINE s == SubSeq(accepted, 1, Len(begun))
  <2>1. /\ Len(begun) <= Len(accepted) /\ Len(begun) \in Nat /\ Len(accepted) \in Nat
        /\ begun \in Seq(Operations) /\ accepted \in Seq(Operations)
    BY DEF IInv, TypeOK, InOrder
  <2>2. s \in Seq(Operations) /\ Len(s) = Len(begun) /\ \A i \in 1 .. Len(begun) : s[i] = accepted[i]
    BY <2>1
  <2>3. \A i \in 1 .. Len(begun) : begun[i] = s[i]
    BY <2>2 DEF IInv, InOrder
  <2> HIDE DEF s
  <2>4. begun = s
    BY <2>1, <2>2, <2>3
  <2>5. QED
    BY <2>1, <2>4 DEF NoOvertaking, s
<1>2. QED
  BY <1>1, InitIInv, NextIInv, PTL DEF Spec

\* The executor keeps its bounds, leaves no place free while somebody waits, and
\* starts operations in their order.
THEOREM HashingIsBoundedAndFair == Spec => []HashesAreBoundedAndFair
<1>1. TypeOK /\ Bounded /\ NobodyWaitsForAFreePlace /\ NoOvertaking => HashesAreBoundedAndFair
  BY DEF HashesAreBoundedAndFair
<1>2. QED
  BY <1>1, TypeCorrect, HashesAreBounded, DrainIsNeverForgotten, FirstComeFirstServed, PTL

-----------------------------------------------------------------------------
(* The managed cache *)

CloseRecords == [of : Generations \cup {0}, end : {"open", "ok", "failed"}]
CallPhases == {"idle", "await", "wait", "got", "failed", "join", "closed"}

\* Closes are numbered as they begin, and one at a time is open: the one gets wait for.
ClosesOK ==
  \E n \in 0 .. MaxCloses :
    /\ DOMAIN closes = 1 .. n
    /\ closes \in [1 .. n -> CloseRecords]
    /\ \A m \in 1 .. n : closes[m].of <= made
    /\ closing \in 0 .. n
    /\ \A m \in 1 .. n : ~Settled(m) <=> m = closing
    /\ \A c \in Callers : closedAt[c] <= n
    /\ \A c \in Callers : call[c].pc \in {"wait", "join"} => call[c].on \in 1 .. n

\* What has become of a generation: it is shared, or a close took it, once.
GenerationsOK ==
  /\ \A g \in Generations : resource[g] = "none" <=> g > made
  /\ closing # 0 => current = 0
  /\ current # 0 => /\ resource[current] \in {"pending", "live"}
                    /\ \A n \in DOMAIN closes : closes[n].of # current
  /\ NoneLost
  /\ \A n \in DOMAIN closes : closes[n].of # 0 =>
       IF Settled(n) THEN resource[closes[n].of] \in {"rejected", "disposed", "kept"}
                     ELSE resource[closes[n].of] \in {"pending", "live", "rejected"}

\* What a call shares was not taken by a close before its get.
CallsOK ==
  \A c \in Callers : call[c].pc \in {"await", "got"} =>
    /\ call[c].on \in 1 .. made
    /\ \A n \in DOMAIN closes : n <= closedAt[c] => closes[n].of # call[c].on

CacheInv ==
  /\ CacheTypeOK
  /\ call \in [Callers -> [pc : CallPhases, on : Nat]]
  /\ ClosesOK /\ GenerationsOK /\ CallsOK

LEMMA BegunIs == \A n \in Nat : Cardinality(1 .. n) = n
BY FS_Interval

LEMMA CacheInitInv == CacheInit => CacheInv
<1> SUFFICES ASSUME CacheInit PROVE CacheInv
  OBVIOUS
<1> USE ManagedCacheAssumption
<1>1. DOMAIN closes = {} /\ DOMAIN closes = 1 .. 0 /\ Begun = 0
  BY BegunIs DEF CacheInit, Begun
<1>2. CacheTypeOK
  BY <1>1 DEF CacheInit, CacheTypeOK, Fates, Generations, CloseIds
<1>3. ClosesOK
  BY <1>1 DEF CacheInit, ClosesOK, NoCall
<1>4. GenerationsOK /\ CallsOK
  BY <1>1 DEF CacheInit, GenerationsOK, NoneLost, CallsOK, NoCall, Generations
<1> QED  BY <1>2, <1>3, <1>4 DEF CacheInit, CacheInv, CallPhases, NoCall

\* The number of closes begun.
LEMMA CacheFacts ==
  ASSUME CacheInv
  PROVE  /\ Begun \in 0 .. MaxCloses /\ DOMAIN closes = 1 .. Begun
         /\ closes \in [1 .. Begun -> CloseRecords]
         /\ made \in 0 .. MaxGenerations /\ MaxGenerations \in Nat /\ MaxCloses \in Nat
         /\ \A m \in 1 .. Begun : closes[m].of <= made /\ (~Settled(m) <=> m = closing)
         /\ \A c \in Callers : closedAt[c] \in 0 .. Begun
         /\ \A c \in Callers : call[c].pc \in {"wait", "join"} => call[c].on \in 1 .. Begun
<1> USE ManagedCacheAssumption
<1>1. PICK n \in 0 .. MaxCloses :
        /\ DOMAIN closes = 1 .. n
        /\ closes \in [1 .. n -> CloseRecords]
        /\ \A m \in 1 .. n : closes[m].of <= made
        /\ closing \in 0 .. n
        /\ \A m \in 1 .. n : ~Settled(m) <=> m = closing
        /\ \A c \in Callers : closedAt[c] <= n
        /\ \A c \in Callers : call[c].pc \in {"wait", "join"} => call[c].on \in 1 .. n
  BY DEF CacheInv, ClosesOK
<1>2. Begun = n
  BY <1>1, BegunIs DEF Begun
<1> QED  BY <1>1, <1>2 DEF CacheInv, CacheTypeOK

\* A step of a call that leaves the cache alone.
LEMMA CallStep ==
  ASSUME CacheInv, NEW c \in Callers, NEW u \in [pc : CallPhases, on : Nat],
         call' = [call EXCEPT ![c] = u],
         UNCHANGED <<current, closing, made, resource, closes>>,
         closedAt' \in {closedAt, [closedAt EXCEPT ![c] = Begun]},
         u.pc \in {"wait", "join"} => u.on \in 1 .. Begun,
         u.pc \in {"await", "got"} =>
           /\ u.on \in 1 .. made
           /\ \A n \in DOMAIN closes : n <= closedAt'[c] => closes[n].of # u.on
  PROVE  CacheInv'
<1> USE CacheFacts
<1>1. call' \in [Callers -> [pc : CallPhases, on : Nat]]
  BY DEF CacheInv
<1>2. CacheTypeOK' /\ Begun' = Begun
  BY DEF CacheInv, CacheTypeOK, Begun
<1>3. \A d \in Callers : closedAt'[d] \in 0 .. Begun /\ (d # c => closedAt'[d] = closedAt[d])
  BY DEF CacheInv, CacheTypeOK
<1>4. \A d \in Callers : call'[d] = IF d = c THEN u ELSE call[d]
  BY DEF CacheInv
<1>5. \A d \in Callers : call'[d].pc \in {"wait", "join"} => call'[d].on \in 1 .. Begun
  BY <1>4
<1>6. \A m \in 1 .. Begun : Settled(m)' <=> Settled(m)
  BY DEF Settled
<1>7. ClosesOK'
  <2>1. closing \in 0 .. Begun
    BY DEF CacheInv, CacheTypeOK
  <2>2. \A m \in 1 .. Begun : ~Settled(m)' <=> m = closing'
    BY <1>6
  <2>3. \A d \in Callers : closedAt'[d] <= Begun
    BY <1>3
  <2> HIDE DEF CacheInv
  <2> QED  BY <1>5, <2>1, <2>2, <2>3 DEF ClosesOK
<1>8. GenerationsOK'
  BY <1>6 DEF CacheInv, GenerationsOK, NoneLost
<1>9. CallsOK'
  BY <1>3, <1>4 DEF CacheInv, CallsOK
<1> QED  BY <1>1, <1>2, <1>7, <1>8, <1>9 DEF CacheInv

LEMMA ShareInv ==
  ASSUME CacheInv, NEW c \in Callers, closing = 0, Share(c), UNCHANGED <<closing, closes>>,
         closedAt' \in {closedAt, [closedAt EXCEPT ![c] = Begun]}
  PROVE  CacheInv'
<1> USE CacheFacts
<1>1. CASE current # 0 /\ call' = [call EXCEPT ![c] = [pc |-> "await", on |-> current]]
           /\ UNCHANGED <<current, made, resource>>
  <2>1. current \in 1 .. made /\ \A n \in DOMAIN closes : closes[n].of # current
    BY <1>1 DEF CacheInv, CacheTypeOK, GenerationsOK
  <2>2. [pc |-> "await", on |-> current] \in [pc : CallPhases, on : Nat]
    BY <2>1 DEF CallPhases
  <2> QED  BY <1>1, <2>1, <2>2, CallStep
<1>2. CASE /\ current = 0 /\ made < MaxGenerations
           /\ made' = made + 1 /\ current' = made + 1
           /\ resource' = [resource EXCEPT ![made + 1] = "pending"]
           /\ call' = [call EXCEPT ![c] = [pc |-> "await", on |-> made + 1]]
  <2> DEFINE g == made + 1
             u == [pc |-> "await", on |-> g]
  <2>1. g \in Generations /\ g \in Nat /\ u \in [pc : CallPhases, on : Nat]
    BY <1>2 DEF Generations, CallPhases
  <2>2. Begun' = Begun /\ \A m : Settled(m)' <=> Settled(m)
    BY DEF Begun, Settled
  <2>3. CacheTypeOK'
    <3>1. resource' \in [Generations -> Fates]
      BY <1>2 DEF CacheInv, CacheTypeOK, Fates
    <3>2. closedAt' \in [Callers -> 0 .. MaxCloses]
      BY DEF CacheInv, CacheTypeOK
    <3>3. closing' \in 0 .. Begun' /\ DOMAIN closes' \subseteq CloseIds
      BY <2>2 DEF CacheInv, CacheTypeOK
    <3>4. current' \in 0 .. made' /\ made' \in 0 .. MaxGenerations
      BY <1>2
    <3> QED  BY <3>1, <3>2, <3>3, <3>4 DEF CacheTypeOK
  <2>4. call' \in [Callers -> [pc : CallPhases, on : Nat]]
    BY <1>2, <2>1 DEF CacheInv
  <2>5. \A d \in Callers : closedAt'[d] \in 0 .. Begun /\ (d # c => closedAt'[d] = closedAt[d])
    BY DEF CacheInv, CacheTypeOK
  <2>6. \A d \in Callers : call'[d] = IF d = c THEN u ELSE call[d]
    BY <1>2 DEF CacheInv
  <2>7. ClosesOK'
    <3>1. closing' \in 0 .. Begun
      BY DEF CacheInv, CacheTypeOK
    <3>2. \A m \in 1 .. Begun : closes'[m].of <= made' /\ (~Settled(m)' <=> m = closing')
      <4> SUFFICES ASSUME NEW m \in 1 .. Begun PROVE closes[m].of <= made + 1
        BY <1>2, <2>2
      <4>1. closes[m].of \in Nat /\ closes[m].of <= made
        BY DEF CloseRecords, Generations
      <4> QED  BY <4>1
    <3>3. \A d \in Callers : closedAt'[d] <= Begun
      BY <2>5
    <3>4. \A d \in Callers : call'[d].pc \in {"wait", "join"} => call'[d].on \in 1 .. Begun
      BY <2>6
    <3> HIDE DEF CacheInv
    <3> QED  BY <3>1, <3>2, <3>3, <3>4 DEF ClosesOK
  <2>8. resource'[g] = "pending" /\ \A h \in Generations : h # g => resource'[h] = resource[h]
    BY <1>2, <2>1 DEF CacheInv, CacheTypeOK
  <2>9. \A n \in DOMAIN closes : closes[n].of \in Generations \cup {0} /\ closes[n].of # g
    BY DEF CloseRecords, Generations
  <2>10. GenerationsOK'
    <3>1. \A h \in Generations : resource'[h] = "none" <=> h > made'
      BY <1>2, <2>1, <2>8 DEF CacheInv, GenerationsOK, Generations
    <3>2. NoneLost'
      <4> SUFFICES ASSUME NEW h \in Generations, resource'[h] \in {"pending", "live"}, h # g
                   PROVE  \E n \in DOMAIN closes : closes[n].of = h /\ ~Settled(n)'
        BY <1>2 DEF NoneLost
      <4>1. \E n \in DOMAIN closes : closes[n].of = h /\ ~Settled(n)
        BY <1>2, <2>8 DEF CacheInv, GenerationsOK, NoneLost, Generations
      <4> QED  BY <2>2, <4>1
    <3>3. \A n \in DOMAIN closes : closes[n].of # 0 => resource'[closes[n].of] = resource[closes[n].of]
      BY <2>8, <2>9
    <3> QED  BY <1>2, <2>2, <2>8, <2>9, <3>1, <3>2, <3>3 DEF CacheInv, GenerationsOK
  <2>11. CallsOK'
    <3> SUFFICES ASSUME NEW d \in Callers, call'[d].pc \in {"await", "got"}
                 PROVE  /\ call'[d].on \in 1 .. made'
                        /\ \A n \in DOMAIN closes : n <= closedAt'[d] => closes[n].of # call'[d].on
      BY DEF CallsOK
    <3>1. CASE d = c
      BY <1>2, <2>1, <2>6, <2>9, <3>1
    <3>2. CASE d # c
      BY <1>2, <2>5, <2>6, <3>2 DEF CacheInv, CallsOK
    <3> QED  BY <3>1, <3>2
  <2> QED  BY <2>3, <2>4, <2>7, <2>10, <2>11 DEF CacheInv
<1> QED  BY <1>1, <1>2 DEF Share

LEMMA GetOrWaitInv ==
  ASSUME CacheInv, NEW c \in Callers, GetOrWait(c), UNCHANGED <<closing, closes>>,
         closedAt' \in {closedAt, [closedAt EXCEPT ![c] = Begun]}
  PROVE  CacheInv'
<1>1. CASE closing # 0 /\ call' = [call EXCEPT ![c] = [pc |-> "wait", on |-> closing]]
           /\ UNCHANGED <<current, made, resource>>
  <2>1. closing \in 1 .. Begun
    BY <1>1, CacheFacts DEF CacheInv, CacheTypeOK
  <2>2. [pc |-> "wait", on |-> closing] \in [pc : CallPhases, on : Nat]
    BY <2>1, CacheFacts DEF CallPhases
  <2> QED  BY <1>1, <2>1, <2>2, CallStep
<1> QED  BY <1>1, ShareInv DEF GetOrWait

\* A call that waits for nothing, or has ended.
LEMMA CallEnds ==
  ASSUME CacheInv, NEW c \in Callers, NEW how \in {"failed", "closed"},
         call' = [call EXCEPT ![c] = [pc |-> how, on |-> 0]],
         UNCHANGED <<current, closing, made, resource, closes, closedAt>>
  PROVE  CacheInv'
<1>1. [pc |-> how, on |-> 0] \in [pc : CallPhases, on : Nat]
  BY DEF CallPhases
<1> QED  BY <1>1, CallStep

LEMMA ReceiveInv ==
  ASSUME CacheInv, NEW c \in Callers, Receive(c)
  PROVE  CacheInv'
<1>1. CASE call' = [call EXCEPT ![c] = [pc |-> "got", on |-> call[c].on]]
  <2>1. call[c].on \in 1 .. made
        /\ \A n \in DOMAIN closes : n <= closedAt[c] => closes[n].of # call[c].on
    BY DEF CacheInv, CallsOK, Receive
  <2>2. call[c].on \in Nat
    BY DEF CacheInv
  <2>3. PICK g \in Nat : g = call[c].on
    BY <2>2
  <2>4. [pc |-> "got", on |-> g] \in [pc : CallPhases, on : Nat]
    BY DEF CallPhases
  <2> QED  BY <1>1, <2>1, <2>3, <2>4, CallStep DEF Receive
<1>2. CASE call' = [call EXCEPT ![c] = [pc |-> "failed", on |-> 0]]
  BY <1>2, CallEnds DEF Receive
<1> QED  BY <1>1, <1>2 DEF Receive

\* A factory that settles.
LEMMA FactoryInv ==
  ASSUME CacheInv, NEW g \in Generations, FactoryResolves(g) \/ FactoryRejects(g)
  PROVE  CacheInv'
<1> USE CacheFacts
<1>1. PICK fate \in {"live", "rejected"} :
        /\ resource' = [resource EXCEPT ![g] = fate]
        /\ current' = IF fate = "rejected" /\ current = g THEN 0 ELSE current
  BY DEF FactoryResolves, FactoryRejects
<1>2. resource[g] = "pending" /\ UNCHANGED <<closing, made, closes, call, closedAt>>
  BY DEF FactoryResolves, FactoryRejects
<1>3. Begun' = Begun /\ \A m : Settled(m)' <=> Settled(m)
  BY <1>2 DEF Begun, Settled
<1>4. CacheTypeOK'
  BY <1>1, <1>2, <1>3 DEF CacheInv, CacheTypeOK, Fates
<1>5. ClosesOK'
  BY <1>2, <1>3 DEF CacheInv, ClosesOK
<1>6. CallsOK'
  BY <1>2 DEF CacheInv, CallsOK
<1>7. resource'[g] = fate /\ \A h \in Generations : h # g => resource'[h] = resource[h]
  BY <1>1 DEF CacheInv, CacheTypeOK
<1>8. \A n \in DOMAIN closes : closes[n].of \in Generations \cup {0}
  BY DEF CloseRecords
<1>9. GenerationsOK'
  <2>1. \A h \in Generations : resource'[h] = "none" <=> h > made'
    BY <1>2, <1>7 DEF CacheInv, GenerationsOK
  <2>2. NoneLost'
    <3> SUFFICES ASSUME NEW h \in Generations, resource'[h] \in {"pending", "live"}
                 PROVE  current' = h \/ \E n \in DOMAIN closes : closes[n].of = h /\ ~Settled(n)'
      BY <1>2 DEF NoneLost
    <3>1. current = h \/ \E n \in DOMAIN closes : closes[n].of = h /\ ~Settled(n)
      BY <1>2, <1>7 DEF CacheInv, GenerationsOK, NoneLost
    <3> QED  BY <1>1, <1>3, <1>7, <3>1
  <2>3. \A n \in DOMAIN closes : closes[n].of # 0 =>
          IF Settled(n) THEN resource'[closes[n].of] \in {"rejected", "disposed", "kept"}
                        ELSE resource'[closes[n].of] \in {"pending", "live", "rejected"}
    BY <1>2, <1>7, <1>8 DEF CacheInv, GenerationsOK
  <2>4. current' # 0 => current' = current /\ resource'[current] \in {"pending", "live"}
    <3> SUFFICES ASSUME current' # 0
                 PROVE  current' = current /\ resource'[current] \in {"pending", "live"}
      OBVIOUS
    <3>1. current' = current /\ current \in Generations
      BY <1>1 DEF CacheInv, CacheTypeOK, Generations
    <3> QED  BY <1>1, <1>7, <3>1 DEF CacheInv, GenerationsOK
  <2>5. closing' # 0 => current' = 0
    BY <1>1, <1>2 DEF CacheInv, GenerationsOK
  <2> QED  BY <1>2, <1>3, <2>1, <2>2, <2>3, <2>4, <2>5 DEF CacheInv, GenerationsOK
<1> QED  BY <1>2, <1>4, <1>5, <1>6, <1>9 DEF CacheInv

LEMMA CloseCacheInv ==
  ASSUME CacheInv, NEW c \in Callers, CloseCache(c)
  PROVE  CacheInv'
<1> USE CacheFacts
<1>0. UNCHANGED <<made, resource, closedAt>>
  BY DEF CloseCache
<1>1. CASE /\ closing # 0 /\ call' = [call EXCEPT ![c] = [pc |-> "join", on |-> closing]]
           /\ UNCHANGED <<current, closing, closes>>
  <2>1. closing \in 1 .. Begun
    BY <1>1 DEF CacheInv, CacheTypeOK
  <2>2. [pc |-> "join", on |-> closing] \in [pc : CallPhases, on : Nat]
    BY <2>1 DEF CallPhases
  <2> QED  BY <1>0, <1>1, <2>1, <2>2, CallStep
<1>2. CASE closing = 0 /\ BeginClose(c, current, TRUE)
  <2>0. PICK n \in 1 .. MaxCloses : n = Begun + 1
    BY <1>2 DEF BeginClose
  <2> DEFINE new == [of |-> current, end |-> "open"]
             u == [pc |-> "join", on |-> n]
  <2>1. n \in 1 .. MaxCloses /\ n \notin DOMAIN closes /\ DOMAIN closes \cup {n} = 1 .. n
    BY <2>0
  <2>2. closes' = [m \in 1 .. n |-> IF m = n THEN new ELSE closes[m]]
    BY <1>2, <2>0, <2>1 DEF BeginClose
  <2>3. current' = 0 /\ closing' = n /\ call' = [call EXCEPT ![c] = u]
    BY <1>2, <2>0 DEF BeginClose
  <2>4. Begun' = n
    BY <2>1, <2>2, BegunIs DEF Begun
  <2>5. new \in CloseRecords /\ current \in 0 .. made /\ u \in [pc : CallPhases, on : Nat]
    BY <2>1 DEF CacheInv, CacheTypeOK, CloseRecords, Generations, CallPhases
  <2>6. closes'[n] = new /\ \A m \in 1 .. Begun : closes'[m] = closes[m]
    BY <2>0, <2>2
  <2>7. ~Settled(n)' /\ \A m \in 1 .. Begun : Settled(m)' <=> Settled(m)
    BY <2>6 DEF Settled, new
  <2>8. \A m \in 1 .. Begun : Settled(m)
    BY <1>2
  <2> HIDE DEF new, u
  <2>9. CacheTypeOK'
    <3>1. DOMAIN closes' \subseteq CloseIds
      BY <2>1, <2>2 DEF CloseIds
    <3>2. closing' \in 0 .. Begun' /\ current' \in 0 .. made'
      BY <1>0, <2>1, <2>3, <2>4
    <3> QED  BY <1>0, <3>1, <3>2 DEF CacheInv, CacheTypeOK
  <2>10. call' \in [Callers -> [pc : CallPhases, on : Nat]]
    BY <2>3, <2>5 DEF CacheInv
  <2>11. ClosesOK'
    <3>1. closes' \in [1 .. n -> CloseRecords]
      BY <2>1, <2>2, <2>5
    <3>2. \A m \in 1 .. n : closes'[m].of <= made'
      <4> SUFFICES ASSUME NEW m \in 1 .. n PROVE closes'[m].of <= made
        BY <1>0
      <4>1. CASE m = n
        BY <2>5, <2>6, <4>1 DEF new
      <4>2. CASE m # n
        BY <2>0, <2>1, <2>6, <4>2
      <4> QED  BY <4>1, <4>2
    <3>3. \A m \in 1 .. n : ~Settled(m)' <=> m = closing'
      BY <2>0, <2>1, <2>3, <2>7, <2>8
    <3>4. \A d \in Callers : closedAt'[d] <= n
      BY <1>0, <2>0, <2>1
    <3>5. \A d \in Callers : call'[d].pc \in {"wait", "join"} => call'[d].on \in 1 .. n
      BY <2>1, <2>3 DEF CacheInv, u
    <3>6. n \in 0 .. MaxCloses /\ DOMAIN closes' = 1 .. n /\ closing' \in 0 .. n
      BY <2>1, <2>2, <2>3
    <3> QED  BY <3>1, <3>2, <3>3, <3>4, <3>5, <3>6 DEF ClosesOK
  <2>12. GenerationsOK'
    <3>1. NoneLost'
      <4> SUFFICES ASSUME NEW g \in Generations, resource[g] \in {"pending", "live"}
                   PROVE  \E m \in DOMAIN closes' : closes'[m].of = g /\ ~Settled(m)'
        BY <1>0 DEF NoneLost
      <4>1. current = g
        BY <2>8 DEF CacheInv, GenerationsOK, NoneLost
      <4> QED  BY <2>0, <2>1, <2>2, <2>6, <2>7, <4>1 DEF new
    <3>2. \A m \in DOMAIN closes' : closes'[m].of # 0 =>
            IF Settled(m)' THEN resource[closes'[m].of] \in {"rejected", "disposed", "kept"}
                           ELSE resource[closes'[m].of] \in {"pending", "live", "rejected"}
      <4> SUFFICES ASSUME NEW m \in 1 .. n, closes'[m].of # 0
                   PROVE  IF Settled(m)' THEN resource[closes'[m].of] \in {"rejected", "disposed", "kept"}
                           ELSE resource[closes'[m].of] \in {"pending", "live", "rejected"}
        BY <2>1, <2>2
      <4>1. CASE m = n
        BY <1>2, <2>6, <2>7, <4>1 DEF new, CacheInv, GenerationsOK
      <4>2. CASE m # n
        <5>1. m \in DOMAIN closes /\ closes'[m] = closes[m] /\ (Settled(m)' <=> Settled(m))
          BY <2>0, <2>1, <2>6, <2>7, <4>2
        <5> QED  BY <5>1 DEF CacheInv, GenerationsOK
      <4> QED  BY <4>1, <4>2
    <3> QED  BY <1>0, <2>3, <3>1, <3>2 DEF CacheInv, GenerationsOK
  <2>13. CallsOK'
    <3> SUFFICES ASSUME NEW d \in Callers, call'[d].pc \in {"await", "got"}
                 PROVE  /\ call'[d].on \in 1 .. made
                        /\ \A m \in DOMAIN closes' : m <= closedAt[d] => closes'[m].of # call'[d].on
      BY <1>0 DEF CallsOK
    <3>1. d # c /\ call'[d] = call[d]
      BY <2>3 DEF CacheInv, u
    <3>2. \A m \in 1 .. n : m <= closedAt[d] => m \in 1 .. Begun
      BY <2>0, <2>1
    <3> QED  BY <2>0, <2>1, <2>2, <2>6, <3>1, <3>2 DEF CacheInv, CallsOK
  <2> QED  BY <2>9, <2>10, <2>11, <2>12, <2>13 DEF CacheInv
<1> QED  BY <1>1, <1>2 DEF CloseCache

LEMMA CloseGenerationInv ==
  ASSUME CacheInv, NEW n \in CloseIds, CloseGeneration(n)
  PROVE  CacheInv'
<1> USE CacheFacts
<1> DEFINE g == closes[n].of
<1>1. n \in 1 .. Begun /\ n = closing /\ ~Settled(n) /\ UNCHANGED <<current, made, call, closedAt>>
  BY DEF CloseGeneration
<1>2. PICK fate \in {"none", "rejected", "disposed", "kept"}, how \in {"ok", "failed"} :
        EndClose(n, fate, how) /\ (g # 0 => fate # "none" /\ resource[g] \in {"live", "rejected"})
  BY DEF CloseGeneration
<1>3. g \in Generations \cup {0} /\ g <= made
  BY <1>1 DEF CloseRecords
<1>4. current = 0 /\ closing' = 0
  BY <1>1, <1>2 DEF EndClose, CacheInv, GenerationsOK
<1>5. /\ closes' = [closes EXCEPT ![n].end = how]
      /\ resource' = IF g = 0 THEN resource ELSE [resource EXCEPT ![g] = fate]
  BY <1>2 DEF EndClose
<1>6. /\ closes' \in [1 .. Begun -> CloseRecords]
      /\ \A m \in 1 .. Begun : closes'[m].of = closes[m].of
      /\ Settled(n)' /\ \A m \in 1 .. Begun : m # n => (Settled(m)' <=> Settled(m))
  BY <1>1, <1>5 DEF CloseRecords, Settled
<1>7. Begun' = Begun /\ DOMAIN closes' = 1 .. Begun
  BY <1>6, BegunIs DEF Begun
<1>8. \A m \in 1 .. Begun : Settled(m)'
  BY <1>1, <1>6
<1>9. /\ resource' \in [Generations -> Fates]
      /\ \A h \in Generations : resource'[h] = IF h = g THEN fate ELSE resource[h]
  BY <1>3, <1>5 DEF CacheInv, CacheTypeOK, Fates, Generations
<1> HIDE DEF g
<1>10. CacheTypeOK'
  BY <1>1, <1>4, <1>7, <1>9 DEF CacheInv, CacheTypeOK
<1>11. ClosesOK'
  <2>1. \A m \in 1 .. Begun : closes'[m].of <= made' /\ (~Settled(m)' <=> m = closing')
    BY <1>1, <1>4, <1>6, <1>8
  <2>2. Begun \in 0 .. MaxCloses /\ closing' \in 0 .. Begun
    BY <1>4
  <2>3. /\ \A d \in Callers : closedAt'[d] <= Begun
        /\ \A d \in Callers : call'[d].pc \in {"wait", "join"} => call'[d].on \in 1 .. Begun
    BY <1>1
  <2> HIDE DEF CacheInv
  <2> QED  BY <1>6, <1>7, <2>1, <2>2, <2>3 DEF ClosesOK
<1>12. GenerationsOK'
  <2>1. \A h \in Generations : resource'[h] = "none" <=> h > made'
    BY <1>1, <1>2, <1>3, <1>9 DEF CacheInv, GenerationsOK, Generations
  <2>2. \A h \in Generations : resource'[h] \notin {"pending", "live"}
    <3> SUFFICES ASSUME NEW h \in Generations, h # g, resource[h] \in {"pending", "live"} PROVE FALSE
      BY <1>2, <1>9
    <3>1. PICK m \in DOMAIN closes : closes[m].of = h /\ ~Settled(m)
      BY <1>4 DEF CacheInv, GenerationsOK, NoneLost, Generations
    <3>2. m = n
      BY <1>1, <3>1
    <3> QED  BY <3>1, <3>2 DEF g
  <2>3. \A m \in 1 .. Begun : closes[m].of # 0 => resource'[closes[m].of] \in {"rejected", "disposed", "kept"}
    <3> SUFFICES ASSUME NEW m \in 1 .. Begun, closes[m].of # 0
                 PROVE  resource'[closes[m].of] \in {"rejected", "disposed", "kept"}
      OBVIOUS
    <3>1. closes[m].of \in Generations
      BY DEF CloseRecords
    <3>2. CASE closes[m].of = g
      BY <1>2, <1>9, <3>1, <3>2 DEF Generations
    <3>3. CASE closes[m].of # g
      <4>1. m # n /\ Settled(m)
        BY <1>1, <3>3 DEF g
      <4> QED  BY <1>9, <3>1, <3>3, <4>1 DEF CacheInv, GenerationsOK
    <3> QED  BY <3>2, <3>3
  <2> QED  BY <1>1, <1>4, <1>6, <1>7, <1>8, <2>1, <2>2, <2>3 DEF GenerationsOK, NoneLost
<1>13. CallsOK'
  BY <1>1, <1>6, <1>7 DEF CacheInv, CallsOK
<1> QED  BY <1>1, <1>10, <1>11, <1>12, <1>13 DEF CacheInv

LEMMA CacheNextInv == CacheInv /\ [CacheNext]_cacheVars => CacheInv'
<1> SUFFICES ASSUME CacheInv, [CacheNext]_cacheVars PROVE CacheInv'
  OBVIOUS
<1>1. ASSUME NEW c \in Callers, Get(c)
      PROVE  CacheInv'
  BY <1>1, GetOrWaitInv DEF Get
<1>2. ASSUME NEW c \in Callers, Wake(c)
      PROVE  CacheInv'
  BY <1>2, GetOrWaitInv, CallEnds DEF Wake
<1>3. ASSUME NEW c \in Callers, Closed(c)
      PROVE  CacheInv'
  BY <1>3, CallEnds DEF Closed
<1>4. CASE UNCHANGED cacheVars
  <2>1. Begun' = Begun /\ \A m : Settled(m)' <=> Settled(m)
    BY <1>4 DEF cacheVars, Begun, Settled
  <2> QED  BY <1>4, <2>1 DEF cacheVars, CacheInv, CacheTypeOK, ClosesOK, GenerationsOK, NoneLost, CallsOK
<1> QED
  BY <1>1, <1>2, <1>3, <1>4, ReceiveInv, FactoryInv, CloseCacheInv, CloseGenerationInv
  DEF CacheNext, CacheSettles

\* One resource of a kind at a time, and none is lost or handed out behind the close that
\* took it, however gets, closes, factories and disposers interleave.
THEOREM CachesAreSafe == CacheSpec => []CacheIsSafe
<1>1. CacheInv => CacheIsSafe
  <2> SUFFICES ASSUME CacheInv PROVE CacheIsSafe
    OBVIOUS
  <2> DEFINE Living == {g \in Generations : resource[g] \in {"pending", "live"}}
  <2>1. \A g, h \in Living : g = h
    <3> SUFFICES ASSUME NEW g \in Living, NEW h \in Living PROVE g = h
      OBVIOUS
    <3>1. /\ current = g \/ \E n \in DOMAIN closes : closes[n].of = g /\ ~Settled(n)
          /\ current = h \/ \E n \in DOMAIN closes : closes[n].of = h /\ ~Settled(n)
      BY DEF CacheInv, GenerationsOK, NoneLost
    <3>2. \A n \in DOMAIN closes : ~Settled(n) => n = closing /\ closing # 0 /\ current = 0
      BY CacheFacts DEF CacheInv, GenerationsOK
    <3>3. g # 0 /\ h # 0
      BY DEF Generations
    <3> QED  BY <3>1, <3>2, <3>3
  <2>2. Cardinality(Living) <= 1
    <3>1. CASE Living = {}
      BY <3>1, FS_EmptySet
    <3>2. CASE \E g \in Living : Living = {g}
      BY <3>2, FS_Singleton
    <3> QED  BY <2>1, <3>1, <3>2
  <2>3. OneAtATime
    BY <2>2 DEF OneAtATime
  <2>4. NotWhatWasClosed
    BY DEF NotWhatWasClosed, CacheInv, CallsOK
  <2> QED  BY <2>3, <2>4 DEF CacheInv, GenerationsOK, CacheIsSafe
<1> QED  BY <1>1, CacheInitInv, CacheNextInv, PTL DEF CacheSpec

-----------------------------------------------------------------------------
(* The start and the shutdown of the API *)

\* What start has come to: everything behind it has been acquired.
Starting ==
  /\ closer = {} /\ signals = 0 /\ ~failed
  /\ \A r \in Resources : attempts[r] = 0
  /\ \A i \in 1 .. step - 1 : Steps[i] \in Resources /\ Wanted(Steps[i]) => Steps[i] \in open
  /\ inFlight # {} => step = 12

\* What shutdown has to do: closers that have not been attempted close what is open, and
\* the application's comes first as long as requests are in flight.
Closing ==
  /\ \A r \in open : \E c \in closer : r \in ClosedWith(c)
  /\ \A r \in closer : attempts[r] = 0
  /\ inFlight # {} => "app" \in closer /\ Used \subseteq open
  /\ phase = "closing" <=> signals > 0

ServerInv ==
  /\ ServerTypeOK
  /\ selfRegistration \in BOOLEAN /\ signals \in Nat
  /\ attempts \in [Resources -> {0, 1}] /\ closer \subseteq Resources
  /\ open \subseteq initialized \cup Session \cup {"app"}
  /\ phase \in {"bootstrap", "running"} => Starting
  /\ phase \in {"bootstrap", "closing_failed"} => handlers = {}
  /\ phase = "running" => step = 12
  /\ phase \in {"closing", "closing_failed"} => Closing
  /\ phase = "exited" => inFlight = {} /\ open = {} /\ FailuresShow
  /\ phase = "killed" => inFlight = {}

LEMMA StepsAre ==
  /\ Len(Steps) = 12
  /\ Steps[3] = "database" /\ Steps[5] = "usersLimiter" /\ Steps[6] = "argonExecutor"
  /\ Steps[7] = "sessionLimiter" /\ Steps[9] = "objectStore" /\ Steps[10] = "app"
  /\ \A i \in 1 .. 12 : Steps[i] = "announce" => i = 12
BY DEF Steps

LEMMA AppIsFirst ==
  ASSUME NEW r, FirstCloser(r), "app" \in closer
  PROVE  r = "app"
<1>1. CloseOrder[1] = "app" /\ DOMAIN CloseOrder = 1 .. 7
  BY DEF CloseOrder
<1>2. PICK i \in 1 .. 7 : r = CloseOrder[i] /\ \A j \in 1 .. i - 1 : CloseOrder[j] \notin closer
  BY <1>1 DEF FirstCloser
<1>3. i = 1
  BY <1>1, <1>2
<1> QED  BY <1>1, <1>2, <1>3

\* A started server has what its handlers use.
LEMMA StartedHasAll ==
  ASSUME ServerInv, Starting, step = 12
  PROVE  Used \subseteq open /\ "app" \in open
<1>1. \A i \in 1 .. 11 : Steps[i] \in Resources /\ Wanted(Steps[i]) => Steps[i] \in open
  BY DEF Starting
<1>2. \A r \in Used \cup {"app"} : r \in Resources /\ Wanted(r)
  BY DEF Used, Resources, Wanted
<1>3. /\ Steps[3] \in open /\ Steps[5] \in open /\ Steps[6] \in open /\ Steps[7] \in open
      /\ Steps[9] \in open /\ Steps[10] \in open
  BY <1>1, <1>2, StepsAre DEF Used
<1> QED  BY <1>3, StepsAre DEF Used

LEMMA ServerInitInv == ServerInit => ServerInv
<1> SUFFICES ASSUME ServerInit PROVE ServerInv
  OBVIOUS
<1>1. Starting
  BY DEF ServerInit, Starting
<1>2. ServerTypeOK
  <2>1. step \in 1 .. Len(Steps)
    BY StepsAre DEF ServerInit
  <2> QED  BY <2>1 DEF ServerInit, ServerTypeOK, Phases
<1> QED  BY <1>1, <1>2 DEF ServerInit, ServerInv

LEMMA AcquireInv == ASSUME ServerInv, Acquire PROVE ServerInv'
<1> DEFINE r == Steps[step]
<1>0. phase = "bootstrap" /\ Starting /\ step \in 1 .. 12 /\ handlers = {}
      /\ UNCHANGED <<selfRegistration, closer, attempts, inFlight, failed, exitCode, signals, failures>>
  BY StepsAre DEF Acquire, ServerInv, ServerTypeOK, bounds
<1>1. /\ open' = IF r \in Resources /\ Wanted(r) THEN open \cup {r} ELSE open
      /\ initialized' = IF r \in Resources \ (Session \cup {"app"}) /\ Wanted(r)
                        THEN initialized \cup {r} ELSE initialized
  BY DEF Acquire
<1>2. \/ step = 12 /\ phase' = "running" /\ step' = step /\ handlers' = Signals
      \/ step # 12 /\ step' = step + 1 /\ UNCHANGED <<phase, handlers>>
  BY StepsAre DEF Acquire
<1>3. Wanted(r) = (r = "registrationLimiter" => selfRegistration)
  BY DEF Wanted
<1>4. \A i : Wanted(Steps[i])' = Wanted(Steps[i])
  BY <1>0 DEF Wanted
<1>5. \A i \in 1 .. step' - 1 : Steps[i] \in Resources /\ Wanted(Steps[i]) => Steps[i] \in open'
  <2> SUFFICES ASSUME NEW i \in 1 .. step' - 1, Steps[i] \in Resources, Wanted(Steps[i])
               PROVE  Steps[i] \in open'
    OBVIOUS
  <2>1. CASE i \in 1 .. step - 1
    BY <1>0, <1>1, <2>1 DEF Starting
  <2>2. CASE i = step
    BY <1>1, <2>2
  <2> QED  BY <1>0, <1>2, <2>1, <2>2
<1>6. inFlight # {} => step' = 12
  BY <1>0, <1>2 DEF Starting
<1>7. Starting'
  BY <1>0, <1>4, <1>5, <1>6 DEF Starting
<1>8. open' \subseteq initialized' \cup Session \cup {"app"}
  BY <1>1 DEF ServerInv
<1>9. open' \subseteq Resources /\ initialized' \subseteq Resources
  BY <1>1 DEF ServerInv, ServerTypeOK
<1>10. phase' \in {"bootstrap", "running"} /\ step' \in 1 .. 12
  BY <1>0, <1>2
<1>11. ServerTypeOK'
  BY <1>0, <1>2, <1>9, <1>10, StepsAre DEF ServerInv, ServerTypeOK, Phases
<1> QED  BY <1>0, <1>2, <1>7, <1>8, <1>10, <1>11 DEF ServerInv

LEMMA StartFailsInv == ASSUME ServerInv, StartFails PROVE ServerInv'
<1>0. phase = "bootstrap" /\ phase' = "closing_failed" /\ Starting /\ handlers = {}
      /\ UNCHANGED <<selfRegistration, step, initialized, attempts, inFlight, failed, handlers,
                     exitCode, signals>>
  BY DEF StartFails, ServerInv
<1>1. /\ open' = IF "app" \in open THEN open ELSE open \ Session
      /\ closer' = IF "app" \in open THEN {"app"} \cup initialized ELSE initialized
  BY DEF StartFails, ClosersOf
<1>2. \A r \in open' : \E c \in closer' : r \in ClosedWith(c)
  <2> SUFFICES ASSUME NEW r \in open' PROVE \E c \in closer' : r \in ClosedWith(c)
    OBVIOUS
  <2>1. CASE r \in initialized
    <3>1. r \in closer' /\ r \in ClosedWith(r)
      BY <1>1, <2>1 DEF ClosedWith
    <3> QED  BY <3>1
  <2>2. CASE r \notin initialized
    <3>1. "app" \in closer' /\ r \in Session \cup {"app"}
      BY <1>1, <2>2 DEF ServerInv
    <3>2. r \in ClosedWith("app")
      BY <3>1 DEF ClosedWith
    <3> QED  BY <3>1, <3>2
  <2> QED  BY <2>1, <2>2
<1>3. inFlight # {} => "app" \in closer' /\ Used \subseteq open'
  BY <1>0, <1>1, StartedHasAll DEF Starting
<1>4. closer' \subseteq Resources
  BY <1>1 DEF ServerInv, ServerTypeOK, Resources
<1>5. Closing'
  BY <1>0, <1>2, <1>3, <1>4 DEF Closing, Starting, ClosedWith
<1>6. open' \subseteq open
  BY <1>1
<1>7. ServerTypeOK'
  BY <1>0, <1>6 DEF ServerInv, ServerTypeOK, Phases
<1> QED  BY <1>0, <1>4, <1>5, <1>6, <1>7 DEF ServerInv

LEMMA SignalInv == ASSUME ServerInv, NEW sig \in Signals, Signal(sig) PROVE ServerInv'
<1>0. /\ phase \notin {"exited", "killed"} /\ signals' = signals + 1
      /\ UNCHANGED <<selfRegistration, step, open, initialized, attempts, failed, exitCode, failures>>
  BY DEF Signal
<1>1. CASE phase' = "killed" /\ inFlight' = {} /\ UNCHANGED <<closer, handlers>>
  <2>1. ServerTypeOK'
    BY <1>0, <1>1 DEF ServerInv, ServerTypeOK, Phases
  <2> QED  BY <1>0, <1>1, <2>1 DEF ServerInv
<1>2. CASE /\ sig \in handlers
           /\ handlers' = handlers \ {sig}
           /\ phase' = "closing"
           /\ closer' = IF phase = "running" THEN ClosersOf(initialized, TRUE) ELSE closer
           /\ UNCHANGED inFlight
  <2>1. phase \in {"running", "closing"}
    BY <1>0, <1>2 DEF ServerInv, ServerTypeOK, Phases
  <2>2. ServerTypeOK'
    BY <1>0, <1>2 DEF ServerInv, ServerTypeOK, Phases
  <2> DEFINE Rest == /\ selfRegistration \in BOOLEAN /\ signals \in Nat
                     /\ attempts \in [Resources -> {0, 1}]
                     /\ open \subseteq initialized \cup Session \cup {"app"}
  <2>5. Rest'
    BY <1>0 DEF ServerInv
  <2>6. ASSUME Closing', closer' \subseteq Resources PROVE ServerInv'
    <3> HIDE DEF Rest
    <3>1. phase' \notin {"bootstrap", "running", "closing_failed", "exited", "killed"}
      BY <1>2
    <3> QED  BY <2>2, <2>5, <2>6, <3>1 DEF ServerInv, Rest
  <2>3. CASE phase = "running"
    <3>1. Starting /\ step = 12 /\ closer' = {"app"} \cup initialized
      BY <1>2, <2>3 DEF ServerInv, ClosersOf
    <3>2. Used \subseteq open /\ closer' \subseteq Resources
      BY <3>1, StartedHasAll DEF ServerInv, ServerTypeOK, Resources
    <3>3. \A r \in open : \E c \in closer' : r \in ClosedWith(c)
      <4> SUFFICES ASSUME NEW r \in open PROVE \E c \in closer' : r \in ClosedWith(c)
        OBVIOUS
      <4>1. r \in ClosedWith(r) /\ Session \cup {"app"} \subseteq ClosedWith("app")
        BY DEF ClosedWith
      <4> QED  BY <3>1, <4>1 DEF ServerInv
    <3>4. signals' > 0
      BY <1>0 DEF ServerInv
    <3>5. Closing'
      BY <1>0, <1>2, <3>1, <3>2, <3>3, <3>4 DEF Closing, Starting, ClosedWith
    <3> QED  BY <2>6, <3>2, <3>5
  <2>4. CASE phase = "closing"
    <3>1. Closing /\ closer' = closer /\ signals' > 0
      BY <1>0, <1>2, <2>4 DEF ServerInv
    <3>2. Closing'
      BY <1>0, <1>2, <3>1 DEF Closing, ClosedWith
    <3>3. closer' \subseteq Resources
      BY <3>1 DEF ServerInv
    <3> QED  BY <2>6, <3>2, <3>3
  <2> QED  BY <2>1, <2>3, <2>4
<1> QED  BY <1>1, <1>2 DEF Signal

LEMMA CloseResourceInv == ASSUME ServerInv, CloseResource PROVE ServerInv'
<1>0. /\ phase \in {"closing", "closing_failed"} /\ Closing
      /\ UNCHANGED <<selfRegistration, step, phase, initialized, inFlight, handlers, exitCode, signals>>
      /\ failed' \in BOOLEAN
  BY DEF CloseResource, ServerInv, ServerTypeOK
<1>1. PICK r \in Resources :
        /\ FirstCloser(r)
        /\ r = "app" => inFlight = {}
        /\ open' = open \ ClosedWith(r)
        /\ attempts' = [attempts EXCEPT ![r] = @ + 1]
        /\ closer' = closer \ {r}
  BY DEF CloseResource
<1>2. r \in closer /\ attempts[r] = 0
  BY <1>0, <1>1 DEF FirstCloser, Closing
<1>3. /\ attempts' \in [Resources -> {0, 1}]
      /\ \A z \in Resources : z # r => attempts'[z] = attempts[z]
  BY <1>1, <1>2 DEF ServerInv
<1>4. inFlight = {}
  BY <1>0, <1>1, AppIsFirst DEF Closing
<1>5. \A z \in open' : \E c \in closer' : z \in ClosedWith(c)
  BY <1>0, <1>1 DEF Closing
<1>6. \A z \in closer' : attempts'[z] = 0
  BY <1>0, <1>1, <1>3 DEF Closing, ServerInv
<1>7. Closing'
  BY <1>0, <1>4, <1>5, <1>6 DEF Closing, ClosedWith
<1>8. ServerTypeOK'
  BY <1>0, <1>1 DEF ServerInv, ServerTypeOK
<1> QED  BY <1>0, <1>1, <1>3, <1>7, <1>8 DEF ServerInv

LEMMA ExitInv == ASSUME ServerInv, Exit PROVE ServerInv'
<1>0. /\ phase \in {"closing", "closing_failed"} /\ Closing /\ closer = {} /\ phase' = "exited"
      /\ exitCode' = IF phase = "closing_failed" \/ failed THEN 1 ELSE 0
      /\ UNCHANGED <<selfRegistration, step, open, initialized, closer, attempts, inFlight, failed,
                     handlers, signals, failures>>
  BY DEF Exit, ServerInv, bounds
<1>1. open = {} /\ inFlight = {}
  BY <1>0 DEF Closing
<1>2. FailuresShow'
  <2>1. phase = "closing_failed" <=> ~(signals > 0)
    BY <1>0 DEF Closing, ServerInv
  <2>2. failed \in BOOLEAN
    BY DEF ServerInv, ServerTypeOK
  <2>3. CASE failed
    BY <1>0, <2>3 DEF FailuresShow
  <2>4. CASE ~failed
    BY <1>0, <2>1, <2>4 DEF FailuresShow
  <2> QED  BY <2>3, <2>4
<1>3. ServerTypeOK'
  BY <1>0 DEF ServerInv, ServerTypeOK, Phases
<1> QED  BY <1>0, <1>1, <1>2, <1>3 DEF ServerInv

\* Requests come only to a started server, and go.
LEMMA RequestsInv ==
  ASSUME ServerInv, NEW q \in Requests, Accept(q) \/ Finish(q)
  PROVE  ServerInv'
<1>0. /\ UNCHANGED <<selfRegistration, step, phase, open, initialized, closer, attempts, failed,
                     handlers, exitCode, signals, failures>>
  BY DEF Accept, Finish, bounds
<1>1. CASE Accept(q)
  <2>1. phase \in {"bootstrap", "running"} /\ step = 12 /\ inFlight' = inFlight \cup {q}
    BY <1>1, StepsAre DEF Accept, ServerInv, ServerTypeOK
  <2>2. Starting'
    BY <1>0, <2>1 DEF ServerInv, Starting, Wanted
  <2>3. ServerTypeOK'
    BY <1>0, <2>1 DEF ServerInv, ServerTypeOK
  <2> QED  BY <1>0, <2>1, <2>2, <2>3 DEF ServerInv
<1>2. CASE Finish(q)
  <2>1. inFlight' \subseteq inFlight
    BY <1>2 DEF Finish
  <2>2. Starting => Starting'
    BY <1>0, <2>1 DEF Starting, Wanted
  <2>3. Closing => Closing'
    BY <1>0, <2>1 DEF Closing, ClosedWith
  <2>4. ServerTypeOK'
    BY <1>0, <2>1 DEF ServerInv, ServerTypeOK
  <2> QED  BY <1>0, <2>1, <2>2, <2>3, <2>4 DEF ServerInv, FailuresShow
<1> QED  BY <1>1, <1>2

LEMMA ServerNextInv == ServerInv /\ [ServerNext]_serverVars => ServerInv'
<1> SUFFICES ASSUME ServerInv, [ServerNext]_serverVars PROVE ServerInv'
  OBVIOUS
<1>1. CASE UNCHANGED serverVars
  BY <1>1 DEF serverVars, ServerInv, ServerTypeOK, Starting, Closing, Wanted, ClosedWith, FailuresShow
<1> QED
  BY <1>1, AcquireInv, StartFailsInv, CloseResourceInv, ExitInv, SignalInv, RequestsInv DEF ServerNext

\* Whatever step of start or shutdown fails and whatever signals arrive: what was acquired
\* is closed, once, behind the requests that use it, and the exit code tells.
THEOREM ServersAreSafe == ServerSpec => []ServerIsSafe
<1>1. ServerInv => ServerIsSafe
  <2> SUFFICES ASSUME ServerInv PROVE ServerIsSafe
    OBVIOUS
  <2>1. ClosedOnce
    BY DEF ServerInv, ClosedOnce
  <2>2. HandlersHaveResources
    BY StartedHasAll DEF ServerInv, ServerTypeOK, Phases, HandlersHaveResources, Closing, Starting
  <2>3. NothingLeftOpen /\ FailuresShow
    BY DEF ServerInv, NothingLeftOpen, FailuresShow
  <2> QED  BY <2>1, <2>2, <2>3 DEF ServerInv, ServerIsSafe
<1> QED  BY <1>1, ServerInitInv, ServerNextInv, PTL DEF ServerSpec

-----------------------------------------------------------------------------
(* The Redis queue *)

\* The jobs that key k has named: pushed under it, about to be, reported or reserved.
Named(k) ==
  (pushed \cap CallsFor(k)) \cup {c \in CallsFor(k) : at[c] \in {"push", "trim"}}
    \cup ({answer[c] : c \in CallsFor(k)} \ {NoJob}) \cup ({reservation[k]} \ {NoJob})

\* The reservations of k so far.
Reserved(k) == expired[k] + (IF reservation[k] = NoJob THEN 0 ELSE 1)

Trimming == {c \in Calls : at[c] = "trim"}

NamesOK ==
  \A k \in IdempotencyKeys : IsFiniteSet(Named(k)) /\ Cardinality(Named(k)) <= Reserved(k)

QueueInv ==
  /\ QueueTypeOK
  /\ key \in [Calls -> IdempotencyKeys] /\ losses \in Nat
  /\ expired \in [IdempotencyKeys -> Nat]
  /\ NamesOK
  /\ IsFiniteSet(Trimming) /\ ListBounded

LEMMA FewerOnes ==
  ASSUME NEW S, IsFiniteSet(S), NEW T, T \subseteq S
  PROVE  IsFiniteSet(T) /\ Cardinality(T) \in Nat /\ Cardinality(S) \in Nat
         /\ Cardinality(T) <= Cardinality(S)
BY FS_Subset, FS_CardinalityType

LEMMA OneMore ==
  ASSUME NEW S, IsFiniteSet(S), NEW x, NEW T, T \subseteq S \cup {x}
  PROVE  IsFiniteSet(T) /\ Cardinality(T) \in Nat /\ Cardinality(S) \in Nat
         /\ Cardinality(T) <= Cardinality(S) + 1
<1>0. Cardinality(S) \in Nat
  BY FS_CardinalityType
<1>1. /\ IsFiniteSet(S \cup {x})
      /\ Cardinality(S \cup {x}) <= Cardinality(S) + 1
  <2>1. /\ IsFiniteSet(S \cup {x})
        /\ Cardinality(S \cup {x}) = IF x \in S THEN Cardinality(S) ELSE Cardinality(S) + 1
    BY FS_AddElement
  <2> QED  BY <1>0, <2>1
<1>2. IsFiniteSet(T) /\ Cardinality(T) <= Cardinality(S \cup {x})
      /\ Cardinality(T) \in Nat /\ Cardinality(S \cup {x}) \in Nat
  BY <1>1, FewerOnes
<1> QED  BY <1>0, <1>1, <1>2

\* A key names another job only when it is reserved again.
LEMMA NamesStep ==
  ASSUME QueueInv,
         expired' \in [IdempotencyKeys -> Nat],
         \A k \in IdempotencyKeys :
           \/ Named(k)' \subseteq Named(k) /\ Reserved(k) <= Reserved(k)'
           \/ \E c \in Calls : Named(k)' \subseteq Named(k) \cup {c} /\ Reserved(k) + 1 <= Reserved(k)'
  PROVE  NamesOK'
<1> SUFFICES ASSUME NEW k \in IdempotencyKeys
             PROVE  IsFiniteSet(Named(k)') /\ Cardinality(Named(k)') <= Reserved(k)'
  BY DEF NamesOK
<1>1. IsFiniteSet(Named(k)) /\ Cardinality(Named(k)) <= Reserved(k)
  BY DEF QueueInv, NamesOK
<1>2. Reserved(k) \in Nat /\ Reserved(k)' \in Nat
  BY DEF QueueInv, Reserved
<1>3. CASE Named(k)' \subseteq Named(k) /\ Reserved(k) <= Reserved(k)'
  <2>1. /\ IsFiniteSet(Named(k)') /\ Cardinality(Named(k)') \in Nat /\ Cardinality(Named(k)) \in Nat
        /\ Cardinality(Named(k)') <= Cardinality(Named(k))
    BY <1>1, <1>3, FewerOnes
  <2> QED  BY <1>1, <1>2, <1>3, <2>1
<1>4. CASE \E c \in Calls : Named(k)' \subseteq Named(k) \cup {c} /\ Reserved(k) + 1 <= Reserved(k)'
  <2>1. PICK c \in Calls : Named(k)' \subseteq Named(k) \cup {c} /\ Reserved(k) + 1 <= Reserved(k)'
    BY <1>4
  <2>2. /\ IsFiniteSet(Named(k)') /\ Cardinality(Named(k)') \in Nat /\ Cardinality(Named(k)) \in Nat
        /\ Cardinality(Named(k)') <= Cardinality(Named(k)) + 1
    BY <1>1, <2>1, OneMore
  <2> QED  BY <1>1, <1>2, <2>1, <2>2
<1> QED  BY <1>3, <1>4

LEMMA QueueInitInv == QueueInit => QueueInv
<1> SUFFICES ASSUME QueueInit PROVE QueueInv
  OBVIOUS
<1>1. \A k \in IdempotencyKeys : Named(k) = {}
  BY DEF QueueInit, Named, CallsFor
<1>2. \A k \in IdempotencyKeys : Reserved(k) = 0
  BY DEF QueueInit, Reserved
<1>3. NamesOK
  BY <1>1, <1>2, FS_EmptySet DEF NamesOK
<1>4. Trimming = {}
  BY DEF QueueInit, Trimming
<1>5. list \in Seq(Calls) /\ Len(list) = 0
  BY DEF QueueInit
<1>6. ListBounded
  <2>1. Cardinality({c \in Calls : at[c] = "trim"}) = 0
    BY <1>4, FS_EmptySet DEF Trimming
  <2>2. losses = 0 /\ MaxLength \in Nat
    BY JobQueueAssumption DEF QueueInit
  <2> QED  BY <1>5, <2>1, <2>2 DEF ListBounded
<1>7. QueueTypeOK
  BY <1>5 DEF QueueInit, QueueTypeOK, QueueSteps
<1> QED  BY <1>3, <1>4, <1>6, <1>7, FS_EmptySet DEF QueueInit, QueueInv

\* A call goes on with what its key has named.
LEMMA CallNames ==
  ASSUME QueueInv, NEW c \in Calls, NEW to, NEW job,
         UNCHANGED <<key, reservation, expired>>,
         at' = [at EXCEPT ![c] = to], answer' = [answer EXCEPT ![c] = job],
         pushed' \subseteq pushed \cup {c},
         to \in {"push", "trim"} \/ c \in pushed' => at[c] \in {"push", "trim"} \/ c \in pushed,
         \/ job \in {answer[c], reservation[key[c]]}
         \/ job = c /\ at[c] \in {"push", "trim"}
  PROVE  NamesOK'
<1>1. ASSUME NEW k \in IdempotencyKeys
      PROVE  Named(k)' \subseteq Named(k) /\ Reserved(k)' = Reserved(k)
  <2>1. CallsFor(k)' = CallsFor(k)
    BY DEF CallsFor
  <2>2. \A d \in CallsFor(k) : d # c => at'[d] = at[d] /\ answer'[d] = answer[d]
    BY DEF QueueInv, QueueTypeOK, CallsFor
  <2>3. at'[c] = to /\ answer'[c] = job
    BY DEF QueueInv, QueueTypeOK
  <2>4. ASSUME NEW x \in Named(k)' PROVE x \in Named(k)
    <3>1. CASE x \in pushed' \cap CallsFor(k)
      BY <3>1 DEF Named
    <3>2. CASE x \in {d \in CallsFor(k) : at'[d] \in {"push", "trim"}}
      BY <2>2, <2>3, <3>2 DEF Named
    <3>3. CASE x \in {answer'[d] : d \in CallsFor(k)} \ {NoJob}
      <4>1. PICK d \in CallsFor(k) : x = answer'[d] /\ x # NoJob
        BY <3>3
      <4>2. CASE d = c
        <5>1. key[c] = k
          BY <4>2 DEF CallsFor
        <5> QED  BY <2>3, <4>1, <4>2, <5>1 DEF Named
      <4>3. CASE d # c
        BY <2>2, <4>1, <4>3 DEF Named
      <4> QED  BY <4>2, <4>3
    <3>4. CASE x \in {reservation[k]} \ {NoJob}
      BY <3>4 DEF Named
    <3> QED  BY <2>1, <3>1, <3>2, <3>3, <3>4 DEF Named
  <2> QED  BY <2>4 DEF Reserved
<1>2. \A k \in IdempotencyKeys : Reserved(k) \in Nat
  BY DEF QueueInv, Reserved
<1>3. expired' \in [IdempotencyKeys -> Nat]
  BY DEF QueueInv
<1>4. \A k \in IdempotencyKeys : Named(k)' \subseteq Named(k) /\ Reserved(k) <= Reserved(k)'
  BY <1>1, <1>2
<1> QED  BY <1>3, <1>4, NamesStep

\* The list grows with a call that has to trim it, or with a failure.
LEMMA ListStep ==
  ASSUME QueueInv, NEW c \in Calls,
         \/ Len(list') = Len(list) /\ Trimming' = Trimming /\ losses' \in {losses, losses + 1}
         \/ Len(list') = Len(list) /\ Trimming' = Trimming \ {c} /\ losses' = losses + 1
         \/ /\ Len(list') = Len(list) + 1 /\ c \notin Trimming /\ Trimming' = Trimming \cup {c}
            /\ losses' = losses
         \/ Len(list') = Len(list) + 1 /\ Trimming' = Trimming /\ losses' = losses + 1
         \/ Len(list') <= MaxLength /\ Trimming' = Trimming \ {c} /\ losses' = losses,
         Len(list') \in Nat
  PROVE  IsFiniteSet(Trimming)' /\ ListBounded' /\ losses' \in Nat
<1> DEFINE T == Trimming
           n == Cardinality(Trimming)
<1>1. IsFiniteSet(T) /\ n \in Nat /\ Len(list) <= MaxLength + n + losses
      /\ losses \in Nat /\ Len(list) \in Nat /\ MaxLength \in Nat
  BY FS_CardinalityType, JobQueueAssumption DEF QueueInv, QueueTypeOK, ListBounded, Trimming
<1>2. /\ IsFiniteSet(T \ {c}) /\ Cardinality(T \ {c}) \in {n, n - 1} /\ Cardinality(T \ {c}) \in Nat
      /\ IsFiniteSet(T \cup {c}) /\ (c \notin T => Cardinality(T \cup {c}) = n + 1)
  BY <1>1, FS_AddElement, FS_RemoveElement, FS_CardinalityType
<1> DEFINE m == Cardinality(Trimming')
<1>3. IsFiniteSet(Trimming') /\ Len(list') <= MaxLength + m + losses' /\ losses' \in Nat
  <2> HIDE DEF n
  <2>0. Len(list') \in Nat
    OBVIOUS
  <2>1. ASSUME Len(list') = Len(list), Trimming' = T, losses' \in {losses, losses + 1}
        PROVE  /\ IsFiniteSet(Trimming') /\ losses' \in Nat
               /\ Len(list') <= MaxLength + Cardinality(Trimming') + losses'
    <3>1. Cardinality(Trimming') = n
      BY <2>1 DEF n
    <3> QED  BY <1>1, <2>1, <3>1
  <2>2. ASSUME Len(list') = Len(list), Trimming' = T \ {c}, losses' = losses + 1
        PROVE  /\ IsFiniteSet(Trimming') /\ losses' \in Nat
               /\ Len(list') <= MaxLength + Cardinality(Trimming') + losses'
    <3>1. Cardinality(Trimming') \in {n, n - 1}
      BY <1>2, <2>2
    <3> QED  BY <1>1, <1>2, <2>2, <3>1
  <2>3. ASSUME Len(list') = Len(list) + 1, c \notin T, Trimming' = T \cup {c}, losses' = losses
        PROVE  /\ IsFiniteSet(Trimming') /\ losses' \in Nat
               /\ Len(list') <= MaxLength + Cardinality(Trimming') + losses'
    <3>1. Cardinality(Trimming') = n + 1
      BY <1>2, <2>3
    <3> QED  BY <1>1, <1>2, <2>3, <3>1
  <2>4. ASSUME Len(list') = Len(list) + 1, Trimming' = T, losses' = losses + 1
        PROVE  /\ IsFiniteSet(Trimming') /\ losses' \in Nat
               /\ Len(list') <= MaxLength + Cardinality(Trimming') + losses'
    <3>1. Cardinality(Trimming') = n
      BY <2>4 DEF n
    <3> QED  BY <1>1, <2>4, <3>1
  <2>5. ASSUME Len(list') <= MaxLength, Trimming' = T \ {c}, losses' = losses
        PROVE  /\ IsFiniteSet(Trimming') /\ losses' \in Nat
               /\ Len(list') <= MaxLength + Cardinality(Trimming') + losses'
    <3>1. Cardinality(Trimming') \in Nat /\ IsFiniteSet(Trimming')
      BY <1>2, <2>5
    <3> QED  BY <1>1, <2>0, <2>5, <3>1
  <2> QED  BY <2>1, <2>2, <2>3, <2>4, <2>5
<1> QED  BY <1>3 DEF ListBounded, Trimming

\* A call that only waits, goes on or ends.
LEMMA CallMoves ==
  ASSUME QueueInv, NEW c \in Calls, NEW to \in QueueSteps \ {"push", "trim"}, NEW job,
         UNCHANGED <<key, list, pushed, reservation, expired>>,
         job \in {answer[c], reservation[key[c]]},
         at' = [at EXCEPT ![c] = to], answer' = [answer EXCEPT ![c] = job],
         at[c] = "trim" => losses' = losses + 1, losses' \in {losses, losses + 1},
         connection' \in {"none", "connecting", "connected", "closed"}
  PROVE  QueueInv'
<1>1. NamesOK'
  <2>1. c \in pushed' => c \in pushed
    OBVIOUS
  <2> QED  BY <2>1, CallNames
<1>2. Trimming' = Trimming \ {c}
  BY DEF Trimming, QueueInv, QueueTypeOK
<1>3. at[c] # "trim" => Trimming' = Trimming
  BY <1>2 DEF Trimming
<1>4. Len(list') = Len(list) /\ Len(list) \in Nat
  BY DEF QueueInv, QueueTypeOK
<1>5. IsFiniteSet(Trimming)' /\ ListBounded' /\ losses' \in Nat
  BY <1>2, <1>3, <1>4, ListStep
<1>6. QueueTypeOK'
  <2>1. job \in Calls \cup {NoJob}
    BY DEF QueueInv, QueueTypeOK
  <2> QED  BY <2>1 DEF QueueInv, QueueTypeOK
<1> QED  BY <1>1, <1>5, <1>6 DEF QueueInv

LEMMA CallSame == ASSUME QueueInv, NEW c \in Calls PROVE answer = [answer EXCEPT ![c] = answer[c]]
BY DEF QueueInv, QueueTypeOK

\* The connection comes or goes for all the calls that wait for it.
LEMMA ConnectionInv ==
  ASSUME QueueInv, NEW to \in {"get", "threw"},
         UNCHANGED <<key, answer, list, pushed, reservation, expired>>,
         at' = [c \in Calls |-> IF at[c] = "connect" THEN to ELSE at[c]],
         losses' \in {losses, losses + 1},
         connection' \in {"none", "connecting", "connected", "closed"}
  PROVE  QueueInv'
<1>1. NamesOK'
  <2>1. \A k \in IdempotencyKeys : Named(k)' \subseteq Named(k)
    BY DEF Named, CallsFor
  <2>2. \A k \in IdempotencyKeys : Reserved(k)' = Reserved(k) /\ Reserved(k) \in Nat
    BY DEF QueueInv, Reserved
  <2>3. expired' \in [IdempotencyKeys -> Nat]
    BY DEF QueueInv
  <2>4. \A k \in IdempotencyKeys : Reserved(k) <= Reserved(k)'
    BY <2>2
  <2> QED  BY <2>1, <2>3, <2>4, NamesStep
<1>2. Trimming' = Trimming
  BY DEF Trimming
<1>3. IsFiniteSet(Trimming)' /\ ListBounded' /\ losses' \in Nat
  <2>1. Cardinality(Trimming) \in Nat /\ losses \in Nat /\ Len(list) \in Nat /\ MaxLength \in Nat
        /\ Len(list) <= MaxLength + Cardinality(Trimming) + losses
    BY FS_CardinalityType, JobQueueAssumption DEF QueueInv, QueueTypeOK, ListBounded, Trimming
  <2>2. Len(list) <= MaxLength + Cardinality(Trimming) + losses' /\ losses' \in Nat
    BY <2>1
  <2>3. Cardinality({c \in Calls : at'[c] = "trim"}) = Cardinality(Trimming)
    BY <1>2 DEF Trimming
  <2> QED  BY <1>2, <2>2, <2>3 DEF QueueInv, ListBounded
<1>4. QueueTypeOK'
  BY DEF QueueInv, QueueTypeOK, QueueSteps
<1> QED  BY <1>1, <1>3, <1>4 DEF QueueInv

\* A reservation is made, whether its reply arrives or not.
LEMMA ReserveInv ==
  ASSUME QueueInv, NEW c \in Calls, NEW to \in {"push", "threw"},
         UNCHANGED <<key, answer, connection, list, pushed, expired>>,
         at[c] = "set", at' = [at EXCEPT ![c] = to], reservation[key[c]] = NoJob,
         reservation' = [reservation EXCEPT ![key[c]] = c],
         losses' \in {losses, losses + 1}
  PROVE  QueueInv'
<1> DEFINE z == key[c]
<1>0. z \in IdempotencyKeys /\ c # NoJob /\ reservation'[z] = c
      /\ \A k \in IdempotencyKeys : k # z => reservation'[k] = reservation[k]
  BY JobQueueAssumption DEF QueueInv, QueueTypeOK
<1>1. \A d \in Calls : d # c => at'[d] = at[d]
  BY DEF QueueInv, QueueTypeOK
<1>2. NamesOK'
  <2>1. \A k \in IdempotencyKeys : CallsFor(k)' = CallsFor(k) /\ (k # z => c \notin CallsFor(k))
    BY DEF CallsFor
  <2>2. \A k \in IdempotencyKeys : k # z => Named(k)' \subseteq Named(k)
    BY <1>0, <1>1, <2>1 DEF Named
  <2>3. Named(z)' \subseteq Named(z) \cup {c}
    BY <1>0, <1>1, <2>1 DEF Named, CallsFor
  <2>4. Reserved(z)' = Reserved(z) + 1
    BY <1>0 DEF QueueInv, Reserved
  <2>5. \A k \in IdempotencyKeys : k # z => Reserved(k)' = Reserved(k)
    BY <1>0 DEF Reserved
  <2>6. \A k \in IdempotencyKeys : Reserved(k) \in Nat
    BY DEF QueueInv, Reserved
  <2>7. expired' \in [IdempotencyKeys -> Nat]
    BY DEF QueueInv
  <2>8. \A k \in IdempotencyKeys :
           \/ Named(k)' \subseteq Named(k) /\ Reserved(k) <= Reserved(k)'
           \/ \E d \in Calls : Named(k)' \subseteq Named(k) \cup {d} /\ Reserved(k) + 1 <= Reserved(k)'
    <3> SUFFICES ASSUME NEW k \in IdempotencyKeys
                 PROVE  \/ Named(k)' \subseteq Named(k) /\ Reserved(k) <= Reserved(k)'
                        \/ /\ Named(k)' \subseteq Named(k) \cup {c}
                           /\ Reserved(k) + 1 <= Reserved(k)'
      OBVIOUS
    <3>1. CASE k = z
      BY <2>3, <2>4, <2>6, <3>1
    <3>2. CASE k # z
      BY <2>2, <2>5, <2>6, <3>2
    <3> QED  BY <3>1, <3>2
  <2> QED  BY <2>7, <2>8, NamesStep
<1>3. Trimming' = Trimming
  BY DEF Trimming, QueueInv, QueueTypeOK
<1>4. Len(list') = Len(list) /\ Len(list) \in Nat
  BY DEF QueueInv, QueueTypeOK
<1>5. IsFiniteSet(Trimming)' /\ ListBounded' /\ losses' \in Nat
  BY <1>3, <1>4, ListStep
<1>6. QueueTypeOK'
  BY DEF QueueInv, QueueTypeOK, QueueSteps
<1> QED  BY <1>2, <1>5, <1>6 DEF QueueInv

\* A job is pushed, whether its reply arrives or not.
LEMMA PushInv ==
  ASSUME QueueInv, NEW c \in Calls,
         UNCHANGED <<key, answer, connection, reservation, expired>>,
         at[c] = "push", list' = <<c>> \o list, pushed' = pushed \cup {c},
         \/ at' = [at EXCEPT ![c] = "trim"] /\ losses' = losses
         \/ at' = [at EXCEPT ![c] = "threw"] /\ losses' = losses + 1
  PROVE  QueueInv'
<1>1. NamesOK'
  BY CallNames, CallSame
<1>2. list' \in Seq(Calls) /\ Len(list') = Len(list) + 1 /\ Len(list') \in Nat
  <2>1. <<c>> \in Seq(Calls) /\ Len(<<c>>) = 1 /\ list \in Seq(Calls)
    BY DEF QueueInv, QueueTypeOK
  <2>2. list' \in Seq(Calls) /\ Len(list') = 1 + Len(list)
    BY <2>1, ConcatProperties
  <2> QED  BY <2>1, <2>2
<1>3. c \notin Trimming
  BY DEF Trimming
<1>4. \/ at' = [at EXCEPT ![c] = "trim"] /\ Trimming' = Trimming \cup {c}
      \/ at' = [at EXCEPT ![c] = "threw"] /\ Trimming' = Trimming
  BY DEF Trimming, QueueInv, QueueTypeOK
<1>5. IsFiniteSet(Trimming)' /\ ListBounded' /\ losses' \in Nat
  <2>1. CASE Trimming' = Trimming \cup {c} /\ losses' = losses
    BY <1>2, <1>3, <2>1, ListStep
  <2>2. CASE Trimming' = Trimming /\ losses' = losses + 1
    BY <1>2, <2>2, ListStep
  <2>3. [at EXCEPT ![c] = "trim"] # [at EXCEPT ![c] = "threw"]
    BY DEF QueueInv, QueueTypeOK
  <2> QED  BY <1>4, <2>1, <2>2, <2>3
<1>6. QueueTypeOK'
  BY <1>2 DEF QueueInv, QueueTypeOK, QueueSteps
<1> QED  BY <1>1, <1>5, <1>6 DEF QueueInv

LEMMA TrimInv == ASSUME QueueInv, NEW c \in Calls, Trim(c) PROVE QueueInv'
<1>0. /\ at[c] = "trim" /\ at' = [at EXCEPT ![c] = "answered"]
      /\ answer' = [answer EXCEPT ![c] = c]
      /\ UNCHANGED <<key, connection, reservation, pushed, expired, losses>>
  BY DEF Trim, Report, Go
<1> DEFINE n == IF Len(list) > MaxLength THEN MaxLength ELSE Len(list)
<1>1. n \in Nat /\ n <= MaxLength /\ n <= Len(list) /\ Len(list) \in Nat /\ list \in Seq(Calls)
  BY JobQueueAssumption DEF QueueInv, QueueTypeOK
<1>2. list' = SubSeq(list, 1, n)
  BY DEF Trim
<1> HIDE DEF n
<1>3. list' \in Seq(Calls) /\ Len(list') = n
  <2>1. \A i \in 1 .. n : list[i] \in Calls
    BY <1>1
  <2>2. /\ SubSeq(list, 1, n) \in Seq(Calls)
        /\ Len(SubSeq(list, 1, n)) = IF 1 <= n THEN n - 1 + 1 ELSE 0
    BY <1>1, <2>1, SubSeqProperties
  <2> QED  BY <1>1, <1>2, <2>2
<1>4. NamesOK'
  BY <1>0, CallNames
<1>5. Trimming' = Trimming \ {c}
  BY <1>0 DEF Trimming, QueueInv, QueueTypeOK
<1>6. IsFiniteSet(Trimming)' /\ ListBounded' /\ losses' \in Nat
  BY <1>0, <1>1, <1>3, <1>5, ListStep
<1>7. QueueTypeOK'
  BY <1>0, <1>3 DEF QueueInv, QueueTypeOK, QueueSteps
<1> QED  BY <1>0, <1>4, <1>6, <1>7 DEF QueueInv

LEMMA ExpireKeyInv == ASSUME QueueInv, NEW k \in IdempotencyKeys, Expire(k) PROVE QueueInv'
<1>0. /\ reservation[k] # NoJob
      /\ reservation' = [reservation EXCEPT ![k] = NoJob]
      /\ expired' = [expired EXCEPT ![k] = @ + 1]
      /\ UNCHANGED <<key, at, answer, connection, list, pushed, losses>>
  BY DEF Expire
<1>1. expired' \in [IdempotencyKeys -> Nat]
  BY <1>0 DEF QueueInv
<1>2. \A z \in IdempotencyKeys : Named(z)' \subseteq Named(z)
  BY <1>0 DEF Named, CallsFor, QueueInv, QueueTypeOK
<1>3. \A z \in IdempotencyKeys : Reserved(z)' = Reserved(z) /\ Reserved(z) \in Nat
  BY <1>0 DEF QueueInv, QueueTypeOK, Reserved
<1>4. \A z \in IdempotencyKeys : Reserved(z) <= Reserved(z)'
  BY <1>3
<1>5. NamesOK'
  BY <1>1, <1>2, <1>4, NamesStep
<1>6. QueueTypeOK'
  BY <1>0 DEF QueueInv, QueueTypeOK
<1> QED  BY <1>0, <1>1, <1>5, <1>6 DEF QueueInv, Trimming, ListBounded

LEMMA QueueNextInv == QueueInv /\ [QueueNext]_queueVars => QueueInv'
<1> SUFFICES ASSUME QueueInv, [QueueNext]_queueVars PROVE QueueInv'
  OBVIOUS
<1>0. connection \in {"none", "connecting", "connected", "closed"} /\ losses \in Nat
  BY DEF QueueInv, QueueTypeOK
<1>1. ASSUME NEW c \in Calls,
             Connect(c) \/ ReadKey(c) \/ Reread(c) \/ Fail(c) PROVE QueueInv'
  <2>1. PICK to \in QueueSteps \ {"push", "trim"} :
          /\ at' = [at EXCEPT ![c] = to]
          /\ \/ answer' = answer
             \/ answer' = [answer EXCEPT ![c] = reservation[key[c]]]
    BY <1>1 DEF Connect, ReadKey, Reread, Fail, Report, Go, QueueSteps
  <2>2. PICK job \in {answer[c], reservation[key[c]]} : answer' = [answer EXCEPT ![c] = job]
    BY <2>1, CallSame
  <2>3. /\ UNCHANGED <<key, list, pushed, reservation, expired>>
        /\ losses' \in {losses, losses + 1}
        /\ connection' \in {"none", "connecting", "connected", "closed"}
        /\ at[c] = "trim" => losses' = losses + 1
    BY <1>0, <1>1 DEF Connect, ReadKey, Reread, Fail, redis
  <2> QED  BY <2>1, <2>2, <2>3, CallMoves
<1>2. ASSUME NEW c \in Calls, Reserve(c) PROVE QueueInv'
  <2>1. CASE reservation[key[c]] = NoJob
    <3>1. /\ reservation' = [reservation EXCEPT ![key[c]] = c] /\ at[c] = "set"
          /\ at' = [at EXCEPT ![c] = "push"]
          /\ UNCHANGED <<key, answer, connection, list, pushed, expired, losses>>
      BY <1>2, <2>1 DEF Reserve, Go
    <3> QED  BY <2>1, <3>1, ReserveInv
  <2>2. CASE reservation[key[c]] # NoJob
    <3>1. /\ at[c] = "set" /\ at' = [at EXCEPT ![c] = "reread"]
          /\ UNCHANGED <<key, answer, connection, reservation, list, pushed, expired, losses>>
      BY <1>2, <2>2 DEF Reserve, Go
    <3>2. answer' = [answer EXCEPT ![c] = answer[c]]
      BY <3>1, CallSame
    <3>3. "reread" \in QueueSteps \ {"push", "trim"}
      BY DEF QueueSteps
    <3> QED  BY <1>0, <3>1, <3>2, <3>3, CallMoves
  <2> QED  BY <2>1, <2>2
<1>3. ASSUME NEW c \in Calls, Push(c) PROVE QueueInv'
  BY <1>3, PushInv DEF Push, Go
<1>4. ASSUME NEW c \in Calls, FailBehind(c) PROVE QueueInv'
  <2>1. /\ losses' = losses + 1 /\ at' = [at EXCEPT ![c] = "threw"]
        /\ UNCHANGED <<key, answer, connection, expired>>
    BY <1>4 DEF FailBehind, Go
  <2>2. CASE /\ at[c] = "set" /\ reservation[key[c]] = NoJob
             /\ reservation' = [reservation EXCEPT ![key[c]] = c]
             /\ UNCHANGED <<list, pushed>>
    BY <2>1, <2>2, ReserveInv
  <2>3. CASE /\ at[c] = "push" /\ list' = <<c>> \o list /\ pushed' = pushed \cup {c}
             /\ UNCHANGED reservation
    BY <2>1, <2>3, PushInv
  <2> QED  BY <1>4, <2>2, <2>3 DEF FailBehind
<1>5. ASSUME NEW ok \in BOOLEAN, ConnectEnds(ok) PROVE QueueInv'
  <2>1. CASE ok
    <3>1. /\ losses' = losses /\ connection' = "connected"
          /\ at' = [c \in Calls |-> IF at[c] = "connect" THEN "get" ELSE at[c]]
          /\ UNCHANGED <<key, answer, list, pushed, reservation, expired>>
      BY <1>5, <2>1 DEF ConnectEnds, redis
    <3> QED  BY <3>1, ConnectionInv
  <2>2. CASE ~ok
    <3>1. /\ losses' = losses + 1 /\ connection' = "none"
          /\ at' = [c \in Calls |-> IF at[c] = "connect" THEN "threw" ELSE at[c]]
          /\ UNCHANGED <<key, answer, list, pushed, reservation, expired>>
      BY <1>5, <2>2 DEF ConnectEnds, redis
    <3> QED  BY <3>1, ConnectionInv
  <2> QED  BY <2>1, <2>2
<1>6. CASE CloseQueue
  BY <1>6, ConnectionInv DEF CloseQueue, redis
<1>7. CASE UNCHANGED queueVars
  BY <1>7 DEF queueVars, QueueInv, QueueTypeOK, NamesOK, Named, Reserved, CallsFor, Trimming,
              ListBounded
<1> QED  BY <1>1, <1>2, <1>3, <1>4, <1>5, <1>6, <1>7, TrimInv, ExpireKeyInv DEF QueueNext

\* What the Redis queue promises: however calls interleave, fail and come again, a key stands
\* for one job per reservation, and the list grows past its limit only by jobs between their
\* push and their trim.
THEOREM QueueKeepsKeys == QueueSpec => [](QueueTypeOK /\ PushedOnce /\ OneAnswer /\ ListBounded)
<1>1. QueueInv => QueueTypeOK /\ PushedOnce /\ OneAnswer /\ ListBounded
  <2> SUFFICES ASSUME QueueInv PROVE PushedOnce /\ OneAnswer
    BY DEF QueueInv
  <2>1. ASSUME NEW k \in IdempotencyKeys, NEW S, S \subseteq Named(k)
        PROVE  Cardinality(S) <= 1 + expired[k]
    <3>1. IsFiniteSet(Named(k)) /\ Cardinality(Named(k)) <= Reserved(k)
      BY DEF QueueInv, NamesOK
    <3>2. Cardinality(S) \in Nat /\ Cardinality(Named(k)) \in Nat
          /\ Cardinality(S) <= Cardinality(Named(k))
      BY <2>1, <3>1, FewerOnes
    <3>3. Reserved(k) \in Nat /\ expired[k] \in Nat /\ Reserved(k) <= 1 + expired[k]
      BY DEF QueueInv, Reserved
    <3> QED  BY <3>1, <3>2, <3>3
  <2>2. \A k \in IdempotencyKeys : pushed \cap CallsFor(k) \subseteq Named(k)
    BY DEF Named
  <2>3. \A k \in IdempotencyKeys :
          {answer[c] : c \in {d \in CallsFor(k) : answer[d] # NoJob}} \subseteq Named(k)
    BY DEF Named
  <2> QED  BY <2>1, <2>2, <2>3 DEF PushedOnce, OneAnswer
<1> QED  BY <1>1, QueueInitInv, QueueNextInv, PTL DEF QueueSpec

-----------------------------------------------------------------------------
(* The migration gate *)

Locking == {"read", "apply", "applied", "unlock", "unlockFailed"}
GateSteps == Locking \cup {"start", "wait", "done", "failed"}

\* One file for a version.
OneVersion(files) == \A f, g \in files : f.version = g.version => f = g

\* What is known of rows when the plan is files: they are files of it, and what is missing
\* comes after them.
Follows(files, rows) ==
  rows \subseteq files /\ \A f \in files \ rows, a \in rows : f.version > a.version

\* Rows that a gate left or came upon later.
UpToDate(files, rows) ==
  files \subseteq rows /\ \A a \in rows \ files, f \in files : a.version > f.version

\* What step p of a runner means for its plan, the rows that it knows and those there are.
RunnerOK(p, files, rows, all) ==
  /\ p \in {"apply", "applied", "unlock"} => rows = all /\ Follows(files, all)
  /\ p = "applied" => files \ rows # {}
  /\ p = "unlock" => files \ rows = {}
  /\ p = "done" => UpToDate(files, all)

RowsOK ==
  /\ {schema[i] : i \in DOMAIN schema} = ledger
  /\ \A i, j \in DOMAIN schema : i < j => schema[i].version < schema[j].version

GateInv ==
  /\ directory \in [Runners -> SUBSET File] /\ pc \in [Runners -> GateSteps]
  /\ plan \in [Runners -> SUBSET File] /\ known \in [Runners -> SUBSET File]
  /\ lock \in Runners \cup {None} /\ ledger \subseteq File /\ schema \in Seq(File)
  /\ \A r \in Runners : pc[r] \in Locking => lock = r
  /\ \A r \in Runners : OneVersion(plan[r])
  /\ \A r \in Runners : RunnerOK(pc[r], plan[r], known[r], ledger)
  /\ RowsOK

LEMMA LeastNatural ==
  ASSUME NEW S, S \subseteq Nat, S # {}
  PROVE  \E n \in S : \A m \in S : n <= m
<1> DEFINE less == OpToRel(<, Nat)
<1>1. IsWellFoundedOn(less, Nat)
  BY NatLessThanWellFounded
<1>2. \A x, y \in Nat : x < y => <<x, y>> \in less
  BY DEF OpToRel
<1> HIDE DEF less
<1>3. \E n \in S : \A m \in S : ~ (<<m, n>> \in less)
  BY <1>1, WFMin
<1>4. PICK n \in S : \A m \in S : ~ (<<m, n>> \in less)
  BY <1>3
<1>5. ASSUME NEW m \in S PROVE n <= m
  <2>1. m \in Nat /\ n \in Nat
    OBVIOUS
  <2>2. ~(m < n)
    BY <1>2, <1>4, <2>1
  <2> QED  BY <2>1, <2>2
<1> QED  BY <1>5

\* The next file of a plan is there, and no other comes before it.
LEMMA FirstIsFirst ==
  ASSUME NEW files \in SUBSET File, files # {}
  PROVE  First(files) \in files /\ \A g \in files : First(files).version <= g.version
<1>1. \A f \in files : f.version \in Nat
  BY MigrationsAssumption DEF File
<1> DEFINE S == {f.version : f \in files}
<1>2. S \subseteq Nat /\ S # {}
  BY <1>1
<1>3. PICK n \in S : \A m \in S : n <= m
  BY <1>2, LeastNatural
<1>4. PICK f \in files : f.version = n
  BY <1>3
<1>5. \A g \in files : f.version <= g.version
  BY <1>3, <1>4
<1> QED  BY <1>4, <1>5 DEF First

LEMMA GateInitInv == GateInit => GateInv
<1> SUFFICES ASSUME GateInit PROVE GateInv
  OBVIOUS
<1>1. schema \in Seq(File) /\ DOMAIN schema = {}
  BY DEF GateInit
<1>2. \A r \in Runners : pc[r] = "start" /\ plan[r] = {} /\ known[r] = {}
  BY DEF GateInit
<1>3. RowsOK
  BY <1>1 DEF GateInit, RowsOK
<1>4. /\ directory \in [Runners -> SUBSET File] /\ pc \in [Runners -> GateSteps]
      /\ plan \in [Runners -> SUBSET File] /\ known \in [Runners -> SUBSET File]
      /\ lock \in Runners \cup {None} /\ ledger \subseteq File
  BY DEF GateInit, GateSteps
<1>5. \A r \in Runners : pc[r] \notin Locking /\ OneVersion(plan[r])
                         /\ RunnerOK(pc[r], plan[r], known[r], ledger)
  BY <1>2 DEF Locking, OneVersion, RunnerOK
<1> QED  BY <1>1, <1>3, <1>4, <1>5 DEF GateInv

\* One runner moves, or gets or gives up the lock, and the rows stay.
LEMMA RunnerMoves ==
  ASSUME GateInv, NEW r \in Runners, NEW to \in GateSteps,
         NEW files \in SUBSET File, NEW rows \in SUBSET File,
         directory' \in [Runners -> SUBSET File], UNCHANGED <<ledger, schema>>,
         pc' = [pc EXCEPT ![r] = to], plan' = [plan EXCEPT ![r] = files],
         known' = [known EXCEPT ![r] = rows],
         lock' = lock \/ lock \in {r, None}, lock' \in Runners \cup {None},
         to \in Locking => lock' = r,
         OneVersion(files), RunnerOK(to, files, rows, ledger)
  PROVE  GateInv'
<1>1. /\ pc' \in [Runners -> GateSteps] /\ pc'[r] = to
      /\ plan' \in [Runners -> SUBSET File] /\ plan'[r] = files
      /\ known' \in [Runners -> SUBSET File] /\ known'[r] = rows
  BY DEF GateInv
<1>2. \A s \in Runners : s # r => pc'[s] = pc[s] /\ plan'[s] = plan[s] /\ known'[s] = known[s]
  BY DEF GateInv
<1>3. ASSUME NEW s \in Runners, pc'[s] \in Locking PROVE lock' = s
  <2>1. CASE s = r
    BY <1>1, <1>3, <2>1
  <2>2. CASE s # r
    <3>1. lock = s
      BY <1>2, <1>3, <2>2 DEF GateInv
    <3>2. s # None
      BY MigrationsAssumption
    <3> QED  BY <2>2, <3>1, <3>2
  <2> QED  BY <2>1, <2>2
<1>4. \A s \in Runners : OneVersion(plan'[s])
  BY <1>1, <1>2 DEF GateInv
<1>5. \A s \in Runners : RunnerOK(pc'[s], plan'[s], known'[s], ledger')
  BY <1>1, <1>2 DEF GateInv
<1>6. RowsOK'
  BY DEF GateInv, RowsOK
<1> QED  BY <1>1, <1>3, <1>4, <1>5, <1>6 DEF GateInv

\* A file takes effect: it was missing, and comes after all that there are.
LEMMA CommittedInv ==
  ASSUME GateInv, NEW r \in Runners, NEW to \in {"apply", "unlockFailed"},
         pc[r] = "applied", Committed(r), pc' = [pc EXCEPT ![r] = to],
         UNCHANGED <<directory, plan, lock>>
  PROVE  GateInv'
<1>1. PICK f : f = First(Missing(r))
  OBVIOUS
<1>2. ledger' = ledger \cup {f} /\ schema' = Append(schema, f)
      /\ known' = [known EXCEPT ![r] = @ \cup {f}]
  BY <1>1 DEF Committed
<1>3. known[r] = ledger /\ Follows(plan[r], ledger) /\ Missing(r) # {} /\ lock = r
      /\ OneVersion(plan[r]) /\ plan[r] \in SUBSET File /\ Missing(r) = plan[r] \ ledger
  BY DEF GateInv, RunnerOK, Missing, Locking
<1>4. f \in Missing(r) /\ \A g \in Missing(r) : f.version <= g.version
  BY <1>1, <1>3, FirstIsFirst
<1>5. f \in File /\ f \in plan[r] /\ f \notin ledger
      /\ \A a \in ledger : f.version > a.version
  BY <1>3, <1>4 DEF Follows
<1>6. \A g \in File : g.version \in Nat
  BY MigrationsAssumption DEF File
<1>7. Follows(plan[r], ledger')
  <2>1. ledger' \subseteq plan[r]
    BY <1>2, <1>3, <1>5 DEF Follows
  <2>2. ASSUME NEW g \in plan[r] \ ledger', NEW a \in ledger' PROVE g.version > a.version
    <3>1. g \in Missing(r) /\ g # f /\ g.version \in Nat /\ f.version \in Nat
      BY <1>2, <1>3, <1>5, <1>6, <2>2
    <3>2. CASE a \in ledger
      BY <1>3, <3>1, <3>2 DEF Follows
    <3>3. CASE a = f
      <4>1. f.version <= g.version /\ f.version # g.version
        BY <1>3, <1>4, <1>5, <3>1 DEF OneVersion
      <4> QED  BY <3>1, <3>3, <4>1
    <3> QED  BY <1>2, <3>2, <3>3
  <2> QED  BY <2>1, <2>2 DEF Follows
<1>8. /\ pc' \in [Runners -> GateSteps] /\ pc'[r] = to
      /\ known' \in [Runners -> SUBSET File] /\ known'[r] = ledger'
      /\ ledger' \subseteq File
  BY <1>2, <1>3, <1>5 DEF GateInv, GateSteps, Locking
<1>9. \A s \in Runners : s # r => pc'[s] = pc[s] /\ pc[s] \notin Locking
  BY <1>3 DEF GateInv
<1>10. \A s \in Runners : pc'[s] \in Locking => lock' = s
  BY <1>3, <1>9
<1>11. ASSUME NEW s \in Runners PROVE RunnerOK(pc'[s], plan'[s], known'[s], ledger')
  <2>1. CASE s = r
    BY <1>7, <1>8, <2>1 DEF RunnerOK
  <2>2. CASE s # r
    <3>1. pc'[s] = pc[s] /\ pc[s] \notin {"apply", "applied", "unlock"} /\ plan'[s] = plan[s]
      BY <1>9, <2>2 DEF Locking
    <3>2. ASSUME pc[s] = "done" PROVE UpToDate(plan[s], ledger')
      <4>1. UpToDate(plan[s], ledger)
        BY <3>2 DEF GateInv, RunnerOK
      <4>2. ASSUME NEW a \in ledger' \ plan[s], NEW g \in plan[s] PROVE a.version > g.version
        BY <1>2, <1>5, <4>1, <4>2 DEF UpToDate
      <4> QED  BY <1>2, <4>1, <4>2 DEF UpToDate
    <3> QED  BY <3>1, <3>2 DEF RunnerOK
  <2> QED  BY <2>1, <2>2
<1>12. schema' \in Seq(File) /\ RowsOK'
  <2>1. schema \in Seq(File) /\ Len(schema) \in Nat /\ DOMAIN schema = 1 .. Len(schema)
    BY DEF GateInv
  <2>2. /\ schema' \in Seq(File) /\ Len(schema') = Len(schema) + 1
        /\ DOMAIN schema' = 1 .. (Len(schema) + 1)
        /\ \A i \in 1 .. Len(schema) : schema'[i] = schema[i]
        /\ schema'[Len(schema) + 1] = f
    BY <1>2, <1>5, <2>1
  <2>3. {schema'[i] : i \in DOMAIN schema'} = ledger'
    <3>1. {schema[i] : i \in 1 .. Len(schema)} = ledger
      BY <2>1 DEF GateInv, RowsOK
    <3>2. 1 .. (Len(schema) + 1) = (1 .. Len(schema)) \cup {Len(schema) + 1}
      BY <2>1
    <3>3. \A x : x \in {schema'[i] : i \in DOMAIN schema'} <=> x \in ledger'
      BY <1>2, <2>2, <3>1, <3>2
    <3> QED  BY <3>3
  <2>4. ASSUME NEW i \in DOMAIN schema', NEW j \in DOMAIN schema', i < j
        PROVE  schema'[i].version < schema'[j].version
    <3>1. CASE j \in 1 .. Len(schema)
      BY <2>1, <2>2, <2>4, <3>1 DEF GateInv, RowsOK
    <3>2. CASE j = Len(schema) + 1
      <4>1. i \in 1 .. Len(schema)
        BY <2>1, <2>2, <2>4, <3>2
      <4>2. schema[i] \in ledger
        BY <2>1, <4>1 DEF GateInv, RowsOK
      <4>3. schema[i].version \in Nat /\ f.version \in Nat /\ f.version > schema[i].version
        BY <1>5, <1>6, <4>2 DEF GateInv
      <4> QED  BY <2>2, <3>2, <4>1, <4>3
    <3> QED  BY <2>1, <2>2, <3>1, <3>2
  <2> QED  BY <2>2, <2>3, <2>4 DEF RowsOK
<1> QED  BY <1>8, <1>10, <1>11, <1>12 DEF GateInv

LEMMA GateNextInv == GateInv /\ [GateNext]_gateVars => GateInv'
<1> SUFFICES ASSUME GateInv, [GateNext]_gateVars PROVE GateInv'
  OBVIOUS
<1>0. directory \in [Runners -> SUBSET File]
  BY DEF GateInv
<1>1. ASSUME NEW r \in Runners
      PROVE  /\ pc[r] \in GateSteps /\ plan[r] \in SUBSET File /\ known[r] \in SUBSET File
             /\ plan = [plan EXCEPT ![r] = plan[r]] /\ known = [known EXCEPT ![r] = known[r]]
             /\ lock \in Runners \cup {None} /\ r # None
             /\ pc[r] \in Locking => lock = r
             /\ OneVersion(plan[r]) /\ RunnerOK(pc[r], plan[r], known[r], ledger)
  BY MigrationsAssumption DEF GateInv
<1>2. ASSUME NEW r \in Runners, Discover(r) PROVE GateInv'
  <2>0. directory' = directory /\ UNCHANGED <<known, lock, ledger, schema>>
    BY <1>2 DEF Discover
  <2>1. CASE Plannable(directory[r]) /\ plan' = [plan EXCEPT ![r] = directory[r]] /\ Goto(r, "wait")
    <3>1. directory[r] \in SUBSET File /\ OneVersion(directory[r])
      BY <1>0, <2>1 DEF Plannable, OneVersion
    <3>2. RunnerOK("wait", directory[r], known[r], ledger) /\ "wait" \in GateSteps
          /\ "wait" \notin Locking
      BY DEF RunnerOK, GateSteps, Locking
    <3> QED  BY <1>0, <1>1, <2>0, <2>1, <3>1, <3>2, RunnerMoves DEF Goto
  <2>2. CASE ~Plannable(directory[r]) /\ Goto(r, "failed") /\ UNCHANGED plan
    <3>1. RunnerOK("failed", plan[r], known[r], ledger) /\ "failed" \in GateSteps
          /\ "failed" \notin Locking
      BY DEF RunnerOK, GateSteps, Locking
    <3> QED  BY <1>0, <1>1, <2>0, <2>2, <3>1, RunnerMoves DEF Goto
  <2> QED  BY <1>2, <2>1, <2>2 DEF Discover
<1>3. ASSUME NEW r \in Runners, Lock(r) PROVE GateInv'
  <2>1. RunnerOK("read", plan[r], known[r], ledger) /\ "read" \in GateSteps
    BY DEF RunnerOK, GateSteps, Locking
  <2> QED  BY <1>0, <1>1, <1>3, <2>1, RunnerMoves DEF Lock, Goto
<1>4. ASSUME NEW r \in Runners, ReadLedger(r) PROVE GateInv'
  <2>0. /\ pc[r] = "read" /\ known' = [known EXCEPT ![r] = ledger]
        /\ UNCHANGED <<directory, plan, lock, ledger, schema>>
    BY <1>4 DEF ReadLedger
  <2>1. lock = r /\ ledger \in SUBSET File
    BY <1>1, <2>0 DEF Locking, GateInv
  <2>2. PICK to \in {"apply", "unlockFailed"} :
          pc' = [pc EXCEPT ![r] = to] /\ (to = "apply" => Valid(r))
    BY <1>4 DEF ReadLedger, Goto
  <2>3. RunnerOK(to, plan[r], ledger, ledger)
    BY <2>2 DEF RunnerOK, Valid, Follows
  <2>4. to \in GateSteps
    BY <2>2 DEF GateSteps, Locking
  <2> QED  BY <1>0, <1>1, <2>0, <2>1, <2>2, <2>3, <2>4, RunnerMoves
<1>5. ASSUME NEW r \in Runners, ApplyFile(r) \/ FileFails(r) \/ NothingMissing(r) PROVE GateInv'
  <2>0. pc[r] = "apply" /\ UNCHANGED <<directory, plan, known, lock, ledger, schema>>
    BY <1>5 DEF ApplyFile, FileFails, NothingMissing
  <2>1. PICK to \in {"applied", "unlockFailed", "unlock"} :
          /\ pc' = [pc EXCEPT ![r] = to]
          /\ to = "applied" => Missing(r) # {}
          /\ to = "unlock" => Missing(r) = {}
    BY <1>5 DEF ApplyFile, FileFails, NothingMissing, Goto
  <2>2. lock = r
    BY <1>1, <2>0 DEF Locking
  <2>3. RunnerOK(to, plan[r], known[r], ledger)
    BY <1>1, <2>0, <2>1 DEF RunnerOK, Missing
  <2>4. to \in GateSteps
    BY <2>1 DEF GateSteps, Locking
  <2> QED  BY <1>0, <1>1, <2>0, <2>1, <2>2, <2>3, <2>4, RunnerMoves
<1>6. ASSUME NEW r \in Runners, Commit(r) PROVE GateInv'
  BY <1>6, CommittedInv DEF Commit, Goto
<1>7. ASSUME NEW r \in Runners, CommitFails(r) PROVE GateInv'
  <2>0. pc[r] = "applied" /\ pc' = [pc EXCEPT ![r] = "unlockFailed"]
        /\ UNCHANGED <<directory, plan, lock>>
    BY <1>7 DEF CommitFails, Goto
  <2>1. CASE Committed(r)
    BY <2>0, <2>1, CommittedInv
  <2>2. CASE UNCHANGED <<ledger, schema, known>>
    <3>1. RunnerOK("unlockFailed", plan[r], known[r], ledger) /\ "unlockFailed" \in GateSteps
      BY DEF RunnerOK, GateSteps, Locking
    <3>2. lock = r
      BY <1>1, <2>0 DEF Locking
    <3> QED  BY <1>0, <1>1, <2>0, <2>2, <3>1, <3>2, RunnerMoves
  <2> QED  BY <1>7, <2>1, <2>2 DEF CommitFails
<1>8. ASSUME NEW r \in Runners, Unlock(r) \/ Break(r) PROVE GateInv'
  <2>0. /\ UNCHANGED <<directory, plan, known, ledger, schema>>
        /\ lock' = IF lock = r THEN None ELSE lock
    BY <1>8 DEF Unlock, Break
  <2>1. PICK to \in {"done", "failed"} :
          pc' = [pc EXCEPT ![r] = to] /\ (to = "done" => pc[r] = "unlock")
    BY <1>8 DEF Unlock, Break, Goto
  <2>2. RunnerOK(to, plan[r], known[r], ledger)
    BY <1>1, <2>1 DEF RunnerOK, Follows, UpToDate
  <2>3. to \in GateSteps /\ to \notin Locking
    BY <2>1 DEF GateSteps, Locking
  <2>4. (lock' = lock \/ lock \in {r, None}) /\ lock' \in Runners \cup {None}
    BY <1>1, <2>0
  <2> QED  BY <1>0, <1>1, <2>0, <2>1, <2>2, <2>3, <2>4, RunnerMoves
<1>9. ASSUME NEW r \in Runners, Restart(r) PROVE GateInv'
  <2>0. /\ plan' = [plan EXCEPT ![r] = {}] /\ known' = [known EXCEPT ![r] = {}]
        /\ pc' = [pc EXCEPT ![r] = "start"] /\ UNCHANGED <<lock, ledger, schema>>
    BY <1>9 DEF Restart, Goto
  <2>1. directory' \in [Runners -> SUBSET File]
    BY <1>0, <1>9 DEF Restart
  <2>2. RunnerOK("start", {}, {}, ledger) /\ OneVersion({}) /\ "start" \in GateSteps
        /\ "start" \notin Locking
    BY DEF RunnerOK, OneVersion, GateSteps, Locking
  <2>3. PICK none \in SUBSET File : none = {}
    OBVIOUS
  <2>4. /\ plan' = [plan EXCEPT ![r] = none] /\ known' = [known EXCEPT ![r] = none]
        /\ RunnerOK("start", none, none, ledger) /\ OneVersion(none)
    BY <2>0, <2>2, <2>3
  <2>5. lock' = lock /\ lock \in Runners \cup {None}
    BY <1>1, <2>0
  <2> QED  BY <2>0, <2>1, <2>2, <2>4, <2>5, RunnerMoves
<1>10. CASE UNCHANGED gateVars
  BY <1>10 DEF gateVars, GateInv, RowsOK
<1> QED  BY <1>2, <1>3, <1>4, <1>5, <1>6, <1>7, <1>8, <1>9, <1>10 DEF GateNext, Work

\* What the migration gate promises: whatever releases run side by side, break and come again,
\* each file takes effect once and in order, and a gate that let its release start left the
\* schema of its files.
THEOREM MigrationsAreOnceInOrder == GateSpec => [](GateTypeOK /\ OnceInOrder /\ DoneMeansUpToDate)
<1>1. GateInv => GateTypeOK /\ OnceInOrder /\ DoneMeansUpToDate
  <2> SUFFICES ASSUME GateInv PROVE GateTypeOK /\ OnceInOrder /\ DoneMeansUpToDate
    OBVIOUS
  <2>1. GateTypeOK
    BY DEF GateInv, GateTypeOK, GateSteps, Locking, RunnerOK, Missing
  <2>2. OnceInOrder
    BY DEF GateInv, RowsOK, OnceInOrder
  <2>3. DoneMeansUpToDate
    BY DEF GateInv, RunnerOK, UpToDate, DoneMeansUpToDate
  <2> QED  BY <2>1, <2>2, <2>3
<1> QED  BY <1>1, GateInitInv, GateNextInv, PTL DEF GateSpec

-----------------------------------------------------------------------------
(* What the runs check of all of them *)

\* Caches and servers side by side lose, double and misuse no resource.
THEOREM ResourcesStaySafe == CacheSpec /\ ServerSpec => []ResourcesAreSafe
BY CachesAreSafe, ServersAreSafe, PTL DEF ResourcesAreSafe

\* The queue and the migration gate do once what is to be done once.
THEOREM OnceIsOnce == QueueSpec /\ GateSpec => []DoneOnce
<1>1. (QueueTypeOK /\ PushedOnce /\ OneAnswer /\ ListBounded)
      /\ (GateTypeOK /\ OnceInOrder /\ DoneMeansUpToDate) => DoneOnce
  BY DEF DoneOnce
<1> QED  BY <1>1, QueueKeepsKeys, MigrationsAreOnceInOrder, PTL
=============================================================================
