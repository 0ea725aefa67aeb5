----------------------------- MODULE ModLockProofs -----------------------------
(* Proofs about ModLock, for any finite set of threads: the counters count,  *)
(* and who collects is alone unless a thread prints.                         *)
EXTENDS ModLock, FiniteSetTheorems, TLAPS

(* The invariant needs, beside the types and the counters, what is known of  *)
(* a thread from the place where it is, ...                                  *)
PlaceOK(t) ==
  /\ At(t, "in") => back[t] # "out"
  /\ At(t, "get") => back[t] = "get"
  /\ At(t, "swap") => back[t] = "swap"
  /\ ~At(t, "out") /\ back[t] = "out" => ~printing[t]
  /\ At(t, "collect") <=> collector = t
PlacesOK == \A t \in Threads : PlaceOK(t)

(* ... and that no more threads are counted than wait, but the one, for as   *)
(* long as it collects: nobody can be counted meanwhile.                     *)
CollectorOK == collector # NoThread => nThreads <= waitCount + 1

IInv == TypeOK /\ PlacesOK /\ CountersExact /\ CollectorOK

Holders == {t \in Threads : ~At(t, "out")}
Hidden == {t \in Threads : Uncounted(t)}
Waiters == {t \in Threads : pc[t] \in {"wait", "woken"}}

-----------------------------------------------------------------------------
(* Counting: two sets of threads that agree but for one.                     *)
One(b) == IF b THEN 1 ELSE 0

LEMMA CountOne ==
  ASSUME NEW A \in SUBSET Threads, NEW B \in SUBSET Threads, NEW t \in Threads,
         A \ {t} = B \ {t}
  PROVE  /\ Cardinality(A) \in Nat /\ Cardinality(B) \in Nat
         /\ Cardinality(B) = Cardinality(A) + One(t \in B) - One(t \in A)
<1>1. IsFiniteSet(A) /\ IsFiniteSet(B)
  BY FS_Subset, ModLockAssumption
<1>2. Cardinality(A) \in Nat /\ Cardinality(B) \in Nat
  BY <1>1, FS_CardinalityType
<1>3. CASE t \in A <=> t \in B
  <2>1. A = B
    BY <1>3
  <2> QED BY <2>1, <1>2 DEF One
<1>4. CASE t \in A /\ t \notin B
  <2>1. B = A \ {t}
    BY <1>4
  <2>2. Cardinality(A \ {t}) = Cardinality(A) - 1
    BY <1>1, <1>4, FS_RemoveElement
  <2> QED BY <2>1, <2>2, <1>2, <1>4 DEF One
<1>5. CASE t \notin A /\ t \in B
  <2>1. B = A \cup {t}
    BY <1>5
  <2>2. Cardinality(A \cup {t}) = Cardinality(A) + 1
    BY <1>1, <1>5, FS_AddElement
  <2> QED BY <2>1, <2>2, <1>2, <1>5 DEF One
<1> QED BY <1>3, <1>4, <1>5

(* What a step of thread t does to the counters: they follow where it goes   *)
(* (p), where it will go on (b) and whether it prints (q).                   *)
IsHolder(p) == p # "out"
IsHidden(p, b, q) == q \/ (b = "out" /\ p # "out")
IsWaiter(p) == p \in {"wait", "woken"}

Steps(t, p, b, q) ==
  /\ pc' = [pc EXCEPT ![t] = p]
  /\ back' = [back EXCEPT ![t] = b]
  /\ printing' = [printing EXCEPT ![t] = q]

Counts(t, p, b, q) ==
  /\ nThreads' = nThreads + One(IsHolder(p)) - One(IsHolder(pc[t]))
                 - (One(IsHidden(p, b, q)) - One(IsHidden(pc[t], back[t], printing[t])))
  /\ waitCount' = waitCount + One(IsWaiter(p)) - One(IsWaiter(pc[t]))

LEMMA StepCounts ==
  ASSUME TypeOK, CountersExact, NEW t \in Threads, NEW p, NEW b, NEW q,
         Steps(t, p, b, q), Counts(t, p, b, q)
  PROVE  CountersExact' /\ nThreads' \in Int /\ waitCount' \in Nat
<1>1. \A u \in Threads \ {t} : /\ pc'[u] = pc[u] /\ back'[u] = back[u]
                               /\ printing'[u] = printing[u]
  BY DEF Steps, TypeOK
<1>2. pc'[t] = p /\ back'[t] = b /\ printing'[t] = q
  BY DEF Steps, TypeOK
<1>3. Cardinality(Holders') = Cardinality(Holders) + One(IsHolder(p)) - One(IsHolder(pc[t]))
      /\ Cardinality(Holders) \in Nat /\ Cardinality(Holders') \in Nat
  <2>1. Holders \ {t} = Holders' \ {t}
    BY <1>1 DEF Holders, At
  <2>2. (t \in Holders <=> IsHolder(pc[t])) /\ (t \in Holders' <=> IsHolder(p))
    BY <1>2 DEF Holders, At, IsHolder
  <2>3. Holders \in SUBSET Threads /\ Holders' \in SUBSET Threads
    BY DEF Holders
  <2>4. Cardinality(Holders') = Cardinality(Holders) + One(t \in Holders') - One(t \in Holders)
        /\ Cardinality(Holders) \in Nat /\ Cardinality(Holders') \in Nat
    BY <2>1, <2>3, CountOne
  <2> QED BY <2>2, <2>4 DEF One
<1>4. Cardinality(Hidden') = Cardinality(Hidden) + One(IsHidden(p, b, q))
                             - One(IsHidden(pc[t], back[t], printing[t]))
      /\ Cardinality(Hidden) \in Nat /\ Cardinality(Hidden') \in Nat
  <2>1. Hidden \ {t} = Hidden' \ {t}
    BY <1>1 DEF Hidden, Uncounted, At
  <2>2. /\ t \in Hidden <=> IsHidden(pc[t], back[t], printing[t])
        /\ t \in Hidden' <=> IsHidden(p, b, q)
    BY <1>2 DEF Hidden, Uncounted, At, IsHidden
  <2>3. Hidden \in SUBSET Threads /\ Hidden' \in SUBSET Threads
    BY DEF Hidden
  <2>4. Cardinality(Hidden') = Cardinality(Hidden) + One(t \in Hidden') - One(t \in Hidden)
        /\ Cardinality(Hidden) \in Nat /\ Cardinality(Hidden') \in Nat
    BY <2>1, <2>3, CountOne
  <2> QED BY <2>2, <2>4 DEF One
<1>5. Cardinality(Waiters') = Cardinality(Waiters) + One(IsWaiter(p)) - One(IsWaiter(pc[t]))
      /\ Cardinality(Waiters) \in Nat /\ Cardinality(Waiters') \in Nat
  <2>1. Waiters \ {t} = Waiters' \ {t}
    BY <1>1 DEF Waiters
  <2>2. (t \in Waiters <=> IsWaiter(pc[t])) /\ (t \in Waiters' <=> IsWaiter(p))
    BY <1>2 DEF Waiters, IsWaiter
  <2>3. Waiters \in SUBSET Threads /\ Waiters' \in SUBSET Threads
    BY DEF Waiters
  <2>4. Cardinality(Waiters') = Cardinality(Waiters) + One(t \in Waiters') - One(t \in Waiters)
        /\ Cardinality(Waiters) \in Nat /\ Cardinality(Waiters') \in Nat
    BY <2>1, <2>3, CountOne
  <2> QED BY <2>2, <2>4 DEF One
<1>6. nThreads = Cardinality(Holders) - Cardinality(Hidden)
      /\ waitCount = Cardinality(Waiters)
  BY DEF CountersExact, Holders, Hidden, Waiters
<1>7. nThreads' = Cardinality(Holders') - Cardinality(Hidden')
      /\ waitCount' = Cardinality(Waiters')
  BY <1>3, <1>4, <1>5, <1>6 DEF Counts, One
<1> QED BY <1>3, <1>4, <1>5, <1>7 DEF CountersExact, Holders, Hidden, Waiters

(* What a step of thread t does to the places.                               *)
MayBeAt(p, b, q) ==
  /\ p \in Places /\ b \in {"out", "in", "get", "swap"} /\ q \in BOOLEAN
  /\ p = "in" => b # "out"
  /\ p = "get" => b = "get"
  /\ p = "swap" => b = "swap"
  /\ p # "out" /\ b = "out" => ~q

CollectorSteps(t, p) ==
  \/ collector' = collector /\ p # "collect" /\ collector # t
  \/ collector = NoThread /\ collector' = t /\ p = "collect"
  \/ collector = t /\ collector' = NoThread /\ p # "collect"

LEMMA StepPlaces ==
  ASSUME TypeOK, PlacesOK, NEW t \in Threads, NEW p, NEW b, NEW q,
         Steps(t, p, b, q), MayBeAt(p, b, q), CollectorSteps(t, p)
  PROVE  /\ PlacesOK'
         /\ pc' \in [Threads -> Places] /\ collector' \in Threads \cup {NoThread}
         /\ back' \in [Threads -> {"out", "in", "get", "swap"}]
         /\ printing' \in [Threads -> BOOLEAN]
<1>1. /\ pc' \in [Threads -> Places] /\ collector' \in Threads \cup {NoThread}
      /\ back' \in [Threads -> {"out", "in", "get", "swap"}]
      /\ printing' \in [Threads -> BOOLEAN]
  BY DEF Steps, TypeOK, MayBeAt, CollectorSteps
<1>2. ASSUME NEW u \in Threads PROVE PlaceOK(u)'
  <2>1. CASE u = t
    <3>1. pc'[u] = p /\ back'[u] = b /\ printing'[u] = q
      BY <2>1 DEF Steps, TypeOK
    <3>2. p = "collect" <=> collector' = u
      BY <2>1, ModLockAssumption DEF CollectorSteps
    <3> QED BY <3>1, <3>2 DEF PlaceOK, At, MayBeAt
  <2>2. CASE u # t
    <3>1. pc'[u] = pc[u] /\ back'[u] = back[u] /\ printing'[u] = printing[u]
      BY <2>2 DEF Steps, TypeOK
    <3>2. collector' = u <=> collector = u
      BY <2>2, ModLockAssumption DEF CollectorSteps
    <3> QED BY <3>1, <3>2 DEF PlaceOK, PlacesOK, At
  <2> QED BY <2>1, <2>2
<1> QED BY <1>1, <1>2 DEF PlacesOK

(* A step that leaves the collector alone, and does not change the counters  *)
(* while somebody collects.                                                  *)
LEMMA QuietStep ==
  ASSUME IInv, NEW t \in Threads, NEW p, NEW b, NEW q,
         Steps(t, p, b, q), MayBeAt(p, b, q), Counts(t, p, b, q),
         collector' = collector, collector # t, p # "collect",
         GiantLockFree \/ UNCHANGED <<nThreads, waitCount>>
  PROVE  /\ PlacesOK' /\ CountersExact' /\ CollectorOK'
         /\ nThreads' \in Int /\ waitCount' \in Nat
         /\ pc' \in [Threads -> Places] /\ collector' \in Threads \cup {NoThread}
         /\ back' \in [Threads -> {"out", "in", "get", "swap"}]
         /\ printing' \in [Threads -> BOOLEAN]
<1>1. CountersExact' /\ nThreads' \in Int /\ waitCount' \in Nat
  BY StepCounts DEF IInv
<1>2. CollectorSteps(t, p)
  BY DEF CollectorSteps
<1>3. CollectorOK'
  BY DEF CollectorOK, GiantLockFree, IInv
<1> QED BY <1>1, <1>2, <1>3, StepPlaces DEF IInv

(* The bottleneck: t waits, collects or goes on.                             *)
LEMMA LoopStep ==
  ASSUME IInv, NEW t \in Threads, NEW open,
         At(t, "check") \/ At(t, "get") \/ At(t, "swap") \/ At(t, "woken"),
         GiantLockFree, open \in BOOLEAN,
         BottleneckLoop(t, open, waitCount - One(IsWaiter(pc[t]))),
         UNCHANGED <<nThreads, back, printing>>
  PROVE  /\ PlacesOK' /\ CountersExact' /\ CollectorOK'
         /\ nThreads' \in Int /\ waitCount' \in Nat /\ bottleneck' \in BOOLEAN
         /\ pc' \in [Threads -> Places] /\ collector' \in Threads \cup {NoThread}
         /\ back' \in [Threads -> {"out", "in", "get", "swap"}]
         /\ printing' \in [Threads -> BOOLEAN]
<1> DEFINE w == waitCount - One(IsWaiter(pc[t]))
           b == back[t]
           q == printing[t]
<1>1. bottleneck' = open
  BY DEF BottleneckLoop
<1>2. /\ pc \in [Threads -> Places] /\ back \in [Threads -> {"out", "in", "get", "swap"}]
      /\ printing \in [Threads -> BOOLEAN] /\ nThreads \in Int /\ waitCount \in Nat
      /\ collector = NoThread /\ PlaceOK(t) /\ collector # t /\ w \in Int
      /\ pc[t] # "out"
  BY ModLockAssumption DEF IInv, TypeOK, PlacesOK, GiantLockFree, One, At
<1>3. ASSUME NEW p \in Places, pc' = [pc EXCEPT ![t] = p] PROVE Steps(t, p, b, q)
  BY <1>2, <1>3 DEF Steps
<1>4. IsHidden(pc[t], b, q) <=> q \/ b = "out"
  BY <1>2 DEF IsHidden
<1>5. b = "out" => ~q
  BY <1>2 DEF PlaceOK, At
<1>6. CASE open /\ ~AllWait(w)
  <2>1. pc' = [pc EXCEPT ![t] = "wait"] /\ waitCount' = w + 1 /\ collector' = collector
    BY <1>6 DEF BottleneckLoop, Move, OneMore
  <2>2. Counts(t, "wait", b, q)
    BY <2>1, <1>2, <1>4 DEF Counts, One, IsHolder, IsHidden, IsWaiter
  <2>3. MayBeAt("wait", b, q)
    BY <1>2, <1>5 DEF MayBeAt, Places
  <2>4. Steps(t, "wait", b, q)
    BY <2>1, <1>3 DEF Places
  <2> QED BY <2>1, <2>2, <2>3, <2>4, <1>1, <1>2, QuietStep
<1>7. CASE ~open /\ ~AllWait(w)
  <2>1. pc' = [pc EXCEPT ![t] = b] /\ waitCount' = w /\ collector' = collector
    BY <1>7 DEF BottleneckLoop, Move
  <2>2. Counts(t, b, b, q)
    BY <2>1, <1>2, <1>4, <1>5 DEF Counts, One, IsHolder, IsHidden, IsWaiter
  <2>3. MayBeAt(b, b, q) /\ b # "collect" /\ b \in Places
    BY <1>2, <1>5 DEF MayBeAt, Places
  <2>4. Steps(t, b, b, q)
    BY <2>1, <2>3, <1>3
  <2> QED BY <2>1, <2>2, <2>3, <2>4, <1>1, <1>2, QuietStep
<1>8. CASE AllWait(w)
  <2>1. pc' = [pc EXCEPT ![t] = "collect"] /\ waitCount' = w /\ collector' = t
    BY <1>8 DEF BottleneckLoop, Move
  <2>2. Counts(t, "collect", b, q)
    BY <2>1, <1>2, <1>4 DEF Counts, One, IsHolder, IsHidden, IsWaiter
  <2>3. MayBeAt("collect", b, q)
    BY <1>2, <1>5 DEF MayBeAt, Places
  <2>4. Steps(t, "collect", b, q)
    BY <2>1, <1>3 DEF Places
  <2>5. CollectorSteps(t, "collect")
    BY <2>1, <1>2 DEF CollectorSteps
  <2>6. CollectorOK'
    BY <2>1, <1>2, <1>8 DEF CollectorOK, AllWait
  <2>7. CountersExact' /\ nThreads' \in Int /\ waitCount' \in Nat
    BY <2>2, <2>4, StepCounts DEF IInv
  <2> QED BY <2>3, <2>4, <2>5, <2>6, <2>7, <1>1, StepPlaces DEF IInv
<1> QED BY <1>6, <1>7, <1>8

-----------------------------------------------------------------------------
LEMMA InitIInv == Init => IInv
<1> SUFFICES ASSUME Init PROVE IInv
  OBVIOUS
<1>1. TypeOK
  <2>1. printing \in [Threads -> BOOLEAN]
    BY DEF Init
  <2>2. pc \in [Threads -> Places] /\ back \in [Threads -> {"out", "in", "get", "swap"}]
    BY DEF Init, Places
  <2>3. /\ bottleneck \in BOOLEAN /\ needGC \in BOOLEAN /\ spent \in BOOLEAN
        /\ full \in BOOLEAN
    BY DEF Init
  <2>4. /\ nThreads \in Int /\ waitCount \in Nat /\ sem \in 0..MaxTokens
        /\ collector \in Threads \cup {NoThread}
    BY ModLockAssumption DEF Init
  <2> QED BY <2>1, <2>2, <2>3, <2>4 DEF TypeOK
<1>2. PlacesOK
  BY ModLockAssumption DEF Init, PlacesOK, PlaceOK, At
<1>3. CountersExact
  <2>1. /\ {t \in Threads : ~At(t, "out")} = {} /\ {t \in Threads : Uncounted(t)} = {}
        /\ {t \in Threads : pc[t] \in {"wait", "woken"}} = {}
    BY DEF Init, At, Uncounted
  <2> QED BY <2>1, FS_EmptySet DEF CountersExact, Init
<1>4. CollectorOK
  BY DEF Init, CollectorOK
<1> QED BY <1>1, <1>2, <1>3, <1>4 DEF IInv

(* The semaphore is counted up to its bound. *)
LEMMA UpOK ==
  ASSUME sem \in 0..MaxTokens, NEW n \in Nat, Up(n)
  PROVE  sem' \in 0..MaxTokens
BY ModLockAssumption DEF Up

LEMMA NextIInv == IInv /\ [Next]_vars => IInv'
<1> SUFFICES ASSUME IInv, [Next]_vars PROVE IInv'
  OBVIOUS
<1> USE DEF IInv
<1>1. CASE UNCHANGED vars
  <2>1. TypeOK' /\ CollectorOK'
    BY <1>1 DEF vars, TypeOK, CollectorOK
  <2>2. PlacesOK'
    BY <1>1 DEF vars, PlacesOK, PlaceOK, At
  <2>3. /\ {t \in Threads : ~At(t, "out")}' = {t \in Threads : ~At(t, "out")}
        /\ {t \in Threads : Uncounted(t)}' = {t \in Threads : Uncounted(t)}
        /\ {t \in Threads : pc[t] \in {"wait", "woken"}}'
             = {t \in Threads : pc[t] \in {"wait", "woken"}}
    BY <1>1 DEF vars, At, Uncounted
  <2>4. CountersExact'
    BY <1>1, <2>3 DEF vars, CountersExact
  <2> QED BY <2>1, <2>2, <2>4
<1>2. ASSUME NEW t \in Threads, InLock(t) \/ Code(t) PROVE IInv'
  <2>1. /\ nThreads \in Int /\ waitCount \in Nat /\ sem \in 0..MaxTokens
        /\ bottleneck \in BOOLEAN /\ needGC \in BOOLEAN /\ spent \in BOOLEAN
        /\ full \in BOOLEAN /\ PlaceOK(t)
        /\ pc \in [Threads -> Places] /\ back \in [Threads -> {"out", "in", "get", "swap"}]
        /\ printing \in [Threads -> BOOLEAN]
    BY DEF TypeOK, PlacesOK
  <2>2. CASE Enter(t)
    <3>1. Steps(t, "check", "in", printing[t])
      BY <2>1, <2>2 DEF Enter, Steps, Move, Lock
    <3>2. MayBeAt("check", "in", printing[t]) /\ collector' = collector /\ collector # t
      BY <2>1, <2>2, ModLockAssumption DEF Enter, MayBeAt, PlaceOK, At, Places, Lock
    <3>3. Counts(t, "check", "in", printing[t])
      BY <2>1, <2>2 DEF Enter, Counts, One, IsHolder, IsHidden, IsWaiter, PlaceOK, At, Lock
    <3>4. GiantLockFree \/ UNCHANGED <<nThreads, waitCount>>
      BY <2>2 DEF Enter, Lock
    <3>5. /\ needGC' \in BOOLEAN /\ spent' \in BOOLEAN /\ full' \in BOOLEAN
          /\ bottleneck' \in BOOLEAN /\ sem' \in 0..MaxTokens
      BY <2>1, <2>2 DEF Enter, Lock
    <3> QED BY <3>1, <3>2, <3>3, <3>4, <3>5, QuietStep DEF TypeOK
  <2>3. CASE Leave(t)
    <3>1. Steps(t, "out", back[t], printing[t])
      BY <2>1, <2>3 DEF Leave, Steps, Move, At
    <3>2. MayBeAt("out", back[t], printing[t]) /\ collector' = collector /\ collector # t
      BY <2>1, <2>3, ModLockAssumption DEF Leave, MayBeAt, PlaceOK, At, Places
    <3>3. Counts(t, "out", back[t], printing[t])
      BY <2>1, <2>3 DEF Leave, Unlock, Counts, One, IsHolder, IsHidden, IsWaiter, PlaceOK, At
    <3>4. GiantLockFree
      BY <2>3 DEF Leave, Unlock
    <3>5. /\ needGC' \in BOOLEAN /\ spent' \in BOOLEAN /\ full' \in BOOLEAN
          /\ bottleneck' \in BOOLEAN
      BY <2>1, <2>3 DEF Leave
    <3>6. sem' \in 0..MaxTokens
      BY <2>1, <2>3, UpOK DEF Leave, Unlock
    <3> QED BY <3>1, <3>2, <3>3, <3>4, <3>5, <3>6, QuietStep DEF TypeOK
  <2>4. CASE BeginPrint(t)
    <3>1. Steps(t, "out", back[t], TRUE)
      BY <2>1, <2>4 DEF BeginPrint, Steps, Move, At
    <3>2. MayBeAt("out", back[t], TRUE) /\ collector' = collector /\ collector # t
      BY <2>1, <2>4, ModLockAssumption DEF BeginPrint, MayBeAt, PlaceOK, At, Places
    <3>3. Counts(t, "out", back[t], TRUE)
      BY <2>1, <2>4 DEF BeginPrint, Unlock, Counts, One, IsHolder, IsHidden, IsWaiter, PlaceOK, At
    <3>4. GiantLockFree
      BY <2>4 DEF BeginPrint, Unlock
    <3>5. /\ needGC' \in BOOLEAN /\ spent' \in BOOLEAN /\ full' \in BOOLEAN
          /\ bottleneck' \in BOOLEAN
      BY <2>1, <2>4 DEF BeginPrint
    <3>6. sem' \in 0..MaxTokens
      BY <2>1, <2>4, UpOK DEF BeginPrint, Unlock
    <3> QED BY <3>1, <3>2, <3>3, <3>4, <3>5, <3>6, QuietStep DEF TypeOK
  <2>5. CASE EndPrint(t)
    <3>1. Steps(t, "check", "out", FALSE)
      BY <2>1, <2>5 DEF EndPrint, Steps, Move, Lock
    <3>2. MayBeAt("check", "out", FALSE) /\ collector' = collector /\ collector # t
      BY <2>1, <2>5, ModLockAssumption DEF EndPrint, MayBeAt, PlaceOK, At, Places, Lock
    <3>3. Counts(t, "check", "out", FALSE)
      BY <2>1, <2>5 DEF EndPrint, Counts, One, IsHolder, IsHidden, IsWaiter, PlaceOK, At, Lock
    <3>4. GiantLockFree \/ UNCHANGED <<nThreads, waitCount>>
      BY <2>5 DEF EndPrint, Lock
    <3>5. /\ needGC' \in BOOLEAN /\ spent' \in BOOLEAN /\ full' \in BOOLEAN
          /\ bottleneck' \in BOOLEAN /\ sem' \in 0..MaxTokens
      BY <2>1, <2>5 DEF EndPrint, Lock
    <3> QED BY <3>1, <3>2, <3>3, <3>4, <3>5, QuietStep DEF TypeOK
  <2>6. CASE JmpLoop(t)
    <3>1. Steps(t, "check", "in", printing[t])
      BY <2>1, <2>6 DEF JmpLoop, Steps, Move
    <3>2. MayBeAt("check", "in", printing[t]) /\ collector' = collector /\ collector # t
      BY <2>1, <2>6, ModLockAssumption DEF JmpLoop, MayBeAt, PlaceOK, At, Places
    <3>3. Counts(t, "check", "in", printing[t])
      BY <2>1, <2>6 DEF JmpLoop, Counts, One, IsHolder, IsHidden, IsWaiter, PlaceOK, At
    <3>4. GiantLockFree \/ UNCHANGED <<nThreads, waitCount>>
      BY <2>6 DEF JmpLoop
    <3>5. /\ needGC' \in BOOLEAN /\ spent' \in BOOLEAN /\ full' \in BOOLEAN
          /\ bottleneck' \in BOOLEAN /\ sem' \in 0..MaxTokens
      BY <2>1, <2>6 DEF JmpLoop
    <3> QED BY <3>1, <3>2, <3>3, <3>4, <3>5, QuietStep DEF TypeOK
  <2>7. CASE Allocate(t)
    <3>1. Steps(t, "check", "get", printing[t])
      BY <2>1, <2>7 DEF Allocate, Steps, Move
    <3>2. MayBeAt("check", "get", printing[t]) /\ collector' = collector /\ collector # t
      BY <2>1, <2>7, ModLockAssumption DEF Allocate, MayBeAt, PlaceOK, At, Places
    <3>3. Counts(t, "check", "get", printing[t])
      BY <2>1, <2>7 DEF Allocate, Counts, One, IsHolder, IsHidden, IsWaiter, PlaceOK, At
    <3>4. GiantLockFree \/ UNCHANGED <<nThreads, waitCount>>
      BY <2>7 DEF Allocate
    <3>5. /\ needGC' \in BOOLEAN /\ spent' \in BOOLEAN /\ full' \in BOOLEAN
          /\ bottleneck' \in BOOLEAN /\ sem' \in 0..MaxTokens
      BY <2>1, <2>7 DEF Allocate
    <3> QED BY <3>1, <3>2, <3>3, <3>4, <3>5, QuietStep DEF TypeOK
  <2>8. CASE SwapFree(t)
    <3>1. Steps(t, "swap", "swap", printing[t])
      BY <2>1, <2>8 DEF SwapFree, Steps, Move
    <3>2. MayBeAt("swap", "swap", printing[t]) /\ collector' = collector /\ collector # t
      BY <2>1, <2>8, ModLockAssumption DEF SwapFree, MayBeAt, PlaceOK, At, Places
    <3>3. Counts(t, "swap", "swap", printing[t])
      BY <2>1, <2>8 DEF SwapFree, Counts, One, IsHolder, IsHidden, IsWaiter, PlaceOK, At
    <3>4. GiantLockFree \/ UNCHANGED <<nThreads, waitCount>>
      BY <2>8 DEF SwapFree
    <3>5. /\ needGC' \in BOOLEAN /\ spent' \in BOOLEAN /\ full' \in BOOLEAN
          /\ bottleneck' \in BOOLEAN /\ sem' \in 0..MaxTokens
      BY <2>1, <2>8 DEF SwapFree
    <3> QED BY <3>1, <3>2, <3>3, <3>4, <3>5, QuietStep DEF TypeOK
  <2>9. CASE SemDown(t)
    <3>1. Steps(t, "woken", back[t], printing[t])
      BY <2>1, <2>9 DEF SemDown, Steps, Move
    <3>2. MayBeAt("woken", back[t], printing[t]) /\ collector' = collector /\ collector # t
      BY <2>1, <2>9, ModLockAssumption DEF SemDown, MayBeAt, PlaceOK, At, Places
    <3>3. Counts(t, "woken", back[t], printing[t])
      BY <2>1, <2>9 DEF SemDown, Counts, One, IsHolder, IsHidden, IsWaiter, PlaceOK, At
    <3>4. GiantLockFree \/ UNCHANGED <<nThreads, waitCount>>
      BY <2>9 DEF SemDown
    <3>5. /\ needGC' \in BOOLEAN /\ spent' \in BOOLEAN /\ full' \in BOOLEAN
          /\ bottleneck' \in BOOLEAN /\ sem' \in 0..MaxTokens
      BY <2>1, <2>9, ModLockAssumption DEF SemDown
    <3> QED BY <3>1, <3>2, <3>3, <3>4, <3>5, QuietStep DEF TypeOK
  <2>10. CASE Check(t) /\ bottleneck
    <3>1. /\ At(t, "check") /\ GiantLockFree /\ UNCHANGED <<nThreads, back, printing>>
          /\ BottleneckLoop(t, TRUE, waitCount)
      BY <2>10 DEF Check
    <3>2. waitCount = waitCount - One(IsWaiter(pc[t]))
      BY <2>1, <3>1 DEF One, IsWaiter, At
    <3>3. /\ PlacesOK' /\ CountersExact' /\ CollectorOK'
          /\ nThreads' \in Int /\ waitCount' \in Nat /\ bottleneck' \in BOOLEAN
          /\ pc' \in [Threads -> Places] /\ collector' \in Threads \cup {NoThread}
          /\ back' \in [Threads -> {"out", "in", "get", "swap"}]
          /\ printing' \in [Threads -> BOOLEAN]
      BY <2>1, <3>1, <3>2, LoopStep
    <3>4. /\ needGC' \in BOOLEAN /\ spent' \in BOOLEAN /\ full' \in BOOLEAN
          /\ sem' \in 0..MaxTokens
      BY <2>1, <2>10 DEF Check
    <3> QED BY <3>3, <3>4 DEF TypeOK
  <2>11. CASE Check(t) /\ ~bottleneck
    <3>1. Steps(t, back[t], back[t], printing[t])
      BY <2>1, <2>11 DEF Check, Steps, Move
    <3>2. MayBeAt(back[t], back[t], printing[t]) /\ collector' = collector /\ collector # t
      BY <2>1, <2>11 DEF Check, MayBeAt, PlaceOK, At, Places
    <3>3. Counts(t, back[t], back[t], printing[t])
      <4>1. nThreads' = nThreads /\ waitCount' = waitCount /\ pc[t] = "check"
        BY <2>11 DEF Check, At
      <4>2. back[t] = "out" => ~printing[t]
        BY <2>1, <4>1 DEF PlaceOK, At
      <4> QED BY <2>1, <4>1, <4>2 DEF Counts, One, IsHolder, IsHidden, IsWaiter
    <3>4. UNCHANGED <<nThreads, waitCount>> /\ back[t] # "collect"
      BY <2>1, <2>11 DEF Check
    <3>5. /\ needGC' \in BOOLEAN /\ spent' \in BOOLEAN /\ full' \in BOOLEAN
          /\ bottleneck' \in BOOLEAN /\ sem' \in 0..MaxTokens
      BY <2>1, <2>11 DEF Check
    <3> QED BY <3>1, <3>2, <3>3, <3>4, <3>5, QuietStep DEF TypeOK
  <2>12. CASE Get(t) /\ spent
    <3>1. /\ At(t, "get") /\ GiantLockFree /\ UNCHANGED <<nThreads, back, printing>>
          /\ BottleneckLoop(t, TRUE, waitCount)
      BY <2>12 DEF Get
    <3>2. waitCount = waitCount - One(IsWaiter(pc[t]))
      BY <2>1, <3>1 DEF One, IsWaiter, At
    <3>3. /\ PlacesOK' /\ CountersExact' /\ CollectorOK'
          /\ nThreads' \in Int /\ waitCount' \in Nat /\ bottleneck' \in BOOLEAN
          /\ pc' \in [Threads -> Places] /\ collector' \in Threads \cup {NoThread}
          /\ back' \in [Threads -> {"out", "in", "get", "swap"}]
          /\ printing' \in [Threads -> BOOLEAN]
      BY <2>1, <3>1, <3>2, LoopStep
    <3>4. /\ needGC' \in BOOLEAN /\ spent' \in BOOLEAN /\ full' \in BOOLEAN
          /\ sem' \in 0..MaxTokens
      BY <2>1, <2>12 DEF Get
    <3> QED BY <3>3, <3>4 DEF TypeOK
  <2>13. CASE Get(t) /\ ~spent
    <3>1. Steps(t, "in", back[t], printing[t])
      BY <2>1, <2>13 DEF Get, Steps, Move
    <3>2. MayBeAt("in", back[t], printing[t]) /\ collector' = collector /\ collector # t
      BY <2>1, <2>13, ModLockAssumption DEF Get, MayBeAt, PlaceOK, At, Places
    <3>3. Counts(t, "in", back[t], printing[t])
      BY <2>1, <2>13 DEF Get, Counts, One, IsHolder, IsHidden, IsWaiter, PlaceOK, At
    <3>4. GiantLockFree \/ UNCHANGED <<nThreads, waitCount>>
      BY <2>13 DEF Get
    <3>5. /\ needGC' \in BOOLEAN /\ spent' \in BOOLEAN /\ full' \in BOOLEAN
          /\ bottleneck' \in BOOLEAN /\ sem' \in 0..MaxTokens
      BY <2>1, <2>13 DEF Get
    <3> QED BY <3>1, <3>2, <3>3, <3>4, <3>5, QuietStep DEF TypeOK
  <2>14. CASE Swap(t) /\ full
    <3>1. /\ At(t, "swap") /\ GiantLockFree /\ UNCHANGED <<nThreads, back, printing>>
          /\ BottleneckLoop(t, TRUE, waitCount)
      BY <2>14 DEF Swap
    <3>2. waitCount = waitCount - One(IsWaiter(pc[t]))
      BY <2>1, <3>1 DEF One, IsWaiter, At
    <3>3. /\ PlacesOK' /\ CountersExact' /\ CollectorOK'
          /\ nThreads' \in Int /\ waitCount' \in Nat /\ bottleneck' \in BOOLEAN
          /\ pc' \in [Threads -> Places] /\ collector' \in Threads \cup {NoThread}
          /\ back' \in [Threads -> {"out", "in", "get", "swap"}]
          /\ printing' \in [Threads -> BOOLEAN]
      BY <2>1, <3>1, <3>2, LoopStep
    <3>4. /\ needGC' \in BOOLEAN /\ spent' \in BOOLEAN /\ full' \in BOOLEAN
          /\ sem' \in 0..MaxTokens
      BY <2>1, <2>14 DEF Swap
    <3> QED BY <3>3, <3>4 DEF TypeOK
  <2>15. CASE Swap(t) /\ ~full
    <3>1. Steps(t, "in", back[t], printing[t])
      BY <2>1, <2>15 DEF Swap, Steps, Move
    <3>2. MayBeAt("in", back[t], printing[t]) /\ collector' = collector /\ collector # t
      BY <2>1, <2>15, ModLockAssumption DEF Swap, MayBeAt, PlaceOK, At, Places
    <3>3. Counts(t, "in", back[t], printing[t])
      BY <2>1, <2>15 DEF Swap, Counts, One, IsHolder, IsHidden, IsWaiter, PlaceOK, At
    <3>4. GiantLockFree \/ UNCHANGED <<nThreads, waitCount>>
      BY <2>15 DEF Swap
    <3>5. /\ needGC' \in BOOLEAN /\ spent' \in BOOLEAN /\ full' \in BOOLEAN
          /\ bottleneck' \in BOOLEAN /\ sem' \in 0..MaxTokens
      BY <2>1, <2>15 DEF Swap
    <3> QED BY <3>1, <3>2, <3>3, <3>4, <3>5, QuietStep DEF TypeOK
  <2>16. CASE Wake(t)
    <3>1. /\ At(t, "woken") /\ GiantLockFree /\ UNCHANGED <<nThreads, back, printing>>
          /\ BottleneckLoop(t, bottleneck, OneLess(waitCount))
      BY <2>16 DEF Wake
    <3>2. OneLess(waitCount) = waitCount - One(IsWaiter(pc[t]))
      BY <2>1, <3>1 DEF One, IsWaiter, At, OneLess
    <3>3. /\ PlacesOK' /\ CountersExact' /\ CollectorOK'
          /\ nThreads' \in Int /\ waitCount' \in Nat /\ bottleneck' \in BOOLEAN
          /\ pc' \in [Threads -> Places] /\ collector' \in Threads \cup {NoThread}
          /\ back' \in [Threads -> {"out", "in", "get", "swap"}]
          /\ printing' \in [Threads -> BOOLEAN]
      BY <2>1, <3>1, <3>2, LoopStep
    <3>4. /\ needGC' \in BOOLEAN /\ spent' \in BOOLEAN /\ full' \in BOOLEAN
          /\ sem' \in 0..MaxTokens
      BY <2>1, <2>16 DEF Wake
    <3> QED BY <3>3, <3>4 DEF TypeOK
  <2>17. CASE Collected(t)
    <3>1. Steps(t, back[t], back[t], printing[t])
      BY <2>1, <2>17 DEF Collected, Steps, Move
    <3>2. /\ pc[t] = "collect" /\ collector = t /\ collector' = NoThread
          /\ nThreads' = nThreads /\ waitCount' = waitCount
          /\ back[t] = "out" => ~printing[t]
      BY <2>1, <2>17 DEF Collected, At, PlaceOK
    <3>3. MayBeAt(back[t], back[t], printing[t]) /\ CollectorSteps(t, back[t])
      BY <2>1, <3>2 DEF MayBeAt, CollectorSteps, Places
    <3>4. Counts(t, back[t], back[t], printing[t])
      BY <2>1, <3>2 DEF Counts, One, IsHolder, IsHidden, IsWaiter
    <3>5. CountersExact' /\ nThreads' \in Int /\ waitCount' \in Nat
      BY <3>1, <3>4, StepCounts
    <3>6. CollectorOK'
      BY <3>2 DEF CollectorOK
    <3>7. /\ needGC' \in BOOLEAN /\ spent' \in BOOLEAN /\ full' \in BOOLEAN
          /\ bottleneck' \in BOOLEAN /\ sem' \in 0..MaxTokens
      BY <2>1, <2>17, UpOK DEF Collected
    <3> QED BY <3>1, <3>3, <3>5, <3>6, <3>7, StepPlaces DEF TypeOK
  <2>18. CASE InLock(t)
    <3>1. Check(t) \/ Get(t) \/ Swap(t) \/ SemDown(t) \/ Wake(t) \/ Collected(t)
      BY <2>18 DEF InLock
    <3> QED BY <3>1, <2>9, <2>10, <2>11, <2>12, <2>13, <2>14, <2>15, <2>16, <2>17
  <2>19. CASE Code(t)
    <3>1. \/ Enter(t) \/ Leave(t) \/ BeginPrint(t) \/ EndPrint(t)
          \/ JmpLoop(t) \/ Allocate(t) \/ SwapFree(t)
      BY <2>19 DEF Code
    <3> QED BY <3>1, <2>2, <2>3, <2>4, <2>5, <2>6, <2>7, <2>8
  <2> QED BY <1>2, <2>18, <2>19
<1> QED BY <1>1, <1>2 DEF Next

LEMMA IInvInductive == Spec => []IInv
BY InitIInv, NextIInv, PTL DEF Spec

-----------------------------------------------------------------------------
(* The threads that wait and the one that collects are all there are inside. *)
LEMMA AloneFromCounts ==
  ASSUME IInv, \A u \in Threads : ~Uncounted(u),
         NEW t \in Threads, At(t, "collect"), NEW u \in Threads, u # t
  PROVE  ~At(u, "in")
<1>1. collector = t /\ nThreads <= waitCount + 1
  BY ModLockAssumption DEF IInv, PlacesOK, PlaceOK, CollectorOK
<1>2. nThreads = Cardinality(Holders) /\ waitCount = Cardinality(Waiters)
  <2>1. Hidden = {}
    BY DEF Hidden
  <2>2. /\ nThreads = Cardinality(Holders) - Cardinality(Hidden)
        /\ waitCount = Cardinality(Waiters)
    BY DEF IInv, CountersExact, Holders, Hidden, Waiters
  <2>3. Cardinality(Holders) \in Nat
    BY FS_Subset, FS_CardinalityType, ModLockAssumption DEF Holders
  <2> QED BY <2>1, <2>2, <2>3, FS_EmptySet
<1> SUFFICES ASSUME At(u, "in") PROVE FALSE
  OBVIOUS
<1>3. Waiters \cup {t, u} \subseteq Holders /\ t \notin Waiters /\ u \notin Waiters \cup {t}
  BY DEF Waiters, Holders, At
<1>4. /\ IsFiniteSet(Holders) /\ IsFiniteSet(Waiters) /\ IsFiniteSet(Waiters \cup {t})
      /\ Cardinality(Holders) \in Nat /\ Cardinality(Waiters) \in Nat
  BY FS_Subset, FS_CardinalityType, FS_AddElement, ModLockAssumption DEF Holders, Waiters
<1>5. Cardinality((Waiters \cup {t}) \cup {u}) = Cardinality(Waiters) + 2
  <2>1. Cardinality(Waiters \cup {t}) = Cardinality(Waiters) + 1
    BY <1>3, <1>4, FS_AddElement
  <2>2. Cardinality((Waiters \cup {t}) \cup {u}) = Cardinality(Waiters \cup {t}) + 1
    BY <1>3, <1>4, FS_AddElement
  <2> QED BY <2>1, <2>2, <1>4
<1>6. Cardinality((Waiters \cup {t}) \cup {u}) <= Cardinality(Holders)
  <2>1. (Waiters \cup {t}) \cup {u} \subseteq Holders
    BY <1>3
  <2> QED BY <2>1, <1>4, FS_Subset
<1> QED BY <1>1, <1>2, <1>4, <1>5, <1>6

(* The lock's variables keep their types.                                    *)
THEOREM LockTypeCorrect == Spec => []TypeOK
<1>1. IInv => TypeOK
  BY DEF IInv
<1> QED BY <1>1, IInvInductive, PTL

(* The counters of the bottleneck are exact, for any finite set of threads.  *)
THEOREM CountersCount == Spec => []CountersExact
<1>1. IInv => CountersExact
  BY DEF IInv
<1> QED BY <1>1, IInvInductive, PTL

(* While no thread prints with the lock released, nobody runs Nasal code     *)
(* beside the collector.                                                     *)
THEOREM CollectorIsAlone == Spec => []CollectsAloneUnlessPrinting
<1>1. IInv => CollectsAloneUnlessPrinting
  BY AloneFromCounts DEF CollectsAloneUnlessPrinting, CollectsAlone
<1> QED BY <1>1, IInvInductive, PTL
===============================================================================
