-------------------------------- MODULE ModLock --------------------------------
(***************************************************************************)
(* The modification lock of the Nasal interpreter.  Any number of threads  *)
(* hold it while they run Nasal code (naModLock, naModUnlock); to collect  *)
(* garbage all of them have to be stopped at the "bottleneck", and the     *)
(* last that comes there collects alone.                                   *)
(*                                                                         *)
(* What a thread does between LOCK() and UNLOCK() is one action, but for   *)
(* the collection, during which `collector' holds that lock.  C functions  *)
(* release the modification lock while they block; when one of them prints *)
(* to the log window, the print handler releases and retakes it, too.      *)
(***************************************************************************)
EXTENDS Naturals, Integers, FiniteSets

CONSTANTS
  Threads,   \* the threads that may run Nasal code
  NoThread,  \* "nobody collects"
  Printers,  \* those that may print while the lock is released, as
             \* csound's dump_messages does
  MaxTokens  \* sem is not counted beyond this

ASSUME ModLockAssumption ==
  /\ IsFiniteSet(Threads) /\ NoThread \notin Threads
  /\ Printers \subseteq Threads
  /\ MaxTokens \in Nat /\ MaxTokens >= Cardinality(Threads)

VARIABLES
  nThreads,    \* the counters of struct Globals
  waitCount,
  bottleneck,
  needGC,
  sem,         \* the semaphore the bottleneck waits on
  collector,   \* who is in garbageCollect, holding the giant lock
  spent,       \* the allocators are empty until the next collection
  full,        \* the list of dead blocks is full, likewise
  pc,          \* per thread: where it is
  back,        \* per thread: where it goes on after the bottleneck
  printing     \* per thread: the lock has been released twice

vars == <<nThreads, waitCount, bottleneck, needGC, sem, collector, spent, full, pc, back, printing>>

(* "out" does not hold the lock; "in" runs Nasal code; "check" is about to   *)
(* look at bottleneck, "get" to take new objects, "swap" to drop a block; "wait" and "woken" are     *)
(* before and after the semaphore; "collect" is in garbageCollect.           *)
Places == {"out", "in", "check", "get", "swap", "wait", "woken", "collect"}

(* Every variable stays in its range: nThreads may miss the threads that     *)
(* print.                                                                    *)
TypeOK ==
  /\ nThreads \in Int /\ waitCount \in Nat /\ sem \in 0..MaxTokens
  /\ bottleneck \in BOOLEAN /\ needGC \in BOOLEAN /\ spent \in BOOLEAN
  /\ full \in BOOLEAN
  /\ collector \in Threads \cup {NoThread}
  /\ pc \in [Threads -> Places]
  /\ back \in [Threads -> {"out", "in", "get", "swap"}]
  /\ printing \in [Threads -> BOOLEAN]

Init ==
  /\ nThreads = 0 /\ waitCount = 0 /\ bottleneck = FALSE /\ needGC = FALSE
  /\ sem = 0 /\ collector = NoThread /\ spent = FALSE /\ full = FALSE
  /\ pc = [t \in Threads |-> "out"]
  /\ back = [t \in Threads |-> "in"]
  /\ printing = [t \in Threads |-> FALSE]

-----------------------------------------------------------------------------
GiantLockFree == collector = NoThread

At(t, place) == pc[t] = place
Move(t, place) == pc' = [pc EXCEPT ![t] = place]

Up(n) == sem' = IF sem + n < MaxTokens THEN sem + n ELSE MaxTokens

(* naModLock: count the thread, then look whether there is a bottleneck.    *)
Lock(t, then) ==
  /\ GiantLockFree
  /\ nThreads' = nThreads + 1
  /\ Move(t, "check") /\ back' = [back EXCEPT ![t] = then]

(* naModUnlock: the thread that leaves may be the last the others wait for  *)
(* (mutant: they are not told).                                             *)
LastAwaited_Never == FALSE
LastAwaited == waitCount = nThreads'

Unlock(t) ==
  /\ GiantLockFree
  /\ nThreads' = nThreads - 1
  /\ IF LastAwaited THEN Up(1) ELSE sem' = sem

(* naCall takes the lock and gives it back; a C function that blocks gives  *)
(* it back and takes it again.                                              *)
Enter(t) ==
  /\ At(t, "out") /\ Lock(t, "in")
  /\ UNCHANGED <<waitCount, bottleneck, needGC, sem, collector, spent, full, printing>>

Leave(t) ==
  /\ At(t, "in") /\ Unlock(t) /\ Move(t, "out")
  /\ UNCHANGED <<waitCount, bottleneck, needGC, collector, spent, full, back, printing>>

(* The print handler's wrapper: unlock, naCall (Enter ... Leave), lock.  It *)
(* is right when it is called with the lock held (Leave is its unlock).     *)
BeginPrint(t) ==
  /\ t \in Printers /\ At(t, "out") /\ ~printing[t] /\ Unlock(t)
  /\ printing' = [printing EXCEPT ![t] = TRUE]
  /\ UNCHANGED <<waitCount, bottleneck, needGC, collector, spent, full, pc, back>>

EndPrint(t) ==
  /\ At(t, "out") /\ printing[t] /\ Lock(t, "out")
  /\ printing' = [printing EXCEPT ![t] = FALSE]
  /\ UNCHANGED <<waitCount, bottleneck, needGC, sem, collector, spent, full>>

-----------------------------------------------------------------------------
(* All other threads that count are waiting (mutant: all but one); one more *)
(* waits, or one less (mutant: still counted).                              *)
AllWait_Most(w) == w >= nThreads - 2
AllWait(w) == w >= nThreads - 1

OneMore(w) == w + 1

OneLess_Kept(w) == w
OneLess(w) == w - 1

(* The head of bottleneck's loop, with bottleneck = b and waitCount = w.    *)
BottleneckLoop(t, b, w) ==
  \/ /\ b /\ ~AllWait(w)
     /\ bottleneck' = b /\ waitCount' = OneMore(w)
     /\ Move(t, "wait") /\ UNCHANGED collector
  \/ /\ ~b \/ AllWait(w)
     /\ bottleneck' = b /\ waitCount' = w
     /\ IF AllWait(w)
        THEN Move(t, "collect") /\ collector' = t
        ELSE Move(t, back[t]) /\ UNCHANGED collector

(* naCheckBottleneck, at every naModLock, loop and allocation: bottleneck   *)
(* is read without the lock.                                                *)
Check(t) ==
  /\ At(t, "check")
  /\ IF bottleneck
     THEN GiantLockFree /\ BottleneckLoop(t, TRUE, waitCount)
     ELSE Move(t, back[t]) /\ UNCHANGED <<bottleneck, waitCount, collector>>
  /\ UNCHANGED <<nThreads, needGC, sem, spent, full, back, printing>>

JmpLoop(t) ==
  /\ At(t, "in") /\ Move(t, "check")
  /\ back' = [back EXCEPT ![t] = "in"]
  /\ UNCHANGED <<nThreads, waitCount, bottleneck, needGC, sem, collector, spent, full, printing>>

(* naGC_get: check, then collect until there is something to hand out.      *)
Allocate(t) ==
  /\ At(t, "in") /\ Move(t, "check")
  /\ back' = [back EXCEPT ![t] = "get"]
  /\ UNCHANGED <<nThreads, waitCount, bottleneck, needGC, sem, collector, spent, full, printing>>

Get(t) ==
  /\ At(t, "get") /\ GiantLockFree
  /\ IF spent
     THEN /\ needGC' = TRUE
          /\ BottleneckLoop(t, TRUE, waitCount)
          /\ UNCHANGED spent
     ELSE /\ spent' \in BOOLEAN
          /\ Move(t, "in")
          /\ UNCHANGED <<needGC, bottleneck, waitCount, collector>>
  /\ UNCHANGED <<nThreads, sem, full, back, printing>>

(* naGC_swapfree: drop a block that other threads may still read.           *)
SwapFree(t) ==
  /\ At(t, "in") /\ Move(t, "swap")
  /\ back' = [back EXCEPT ![t] = "swap"]
  /\ UNCHANGED <<nThreads, waitCount, bottleneck, needGC, sem, collector, spent, full,
                 printing>>

Swap(t) ==
  /\ At(t, "swap") /\ GiantLockFree
  /\ IF full
     THEN BottleneckLoop(t, TRUE, waitCount) /\ UNCHANGED full
     ELSE /\ full' \in BOOLEAN
          /\ Move(t, "in")
          /\ UNCHANGED <<bottleneck, waitCount, collector>>
  /\ UNCHANGED <<nThreads, needGC, sem, spent, back, printing>>

SemDown(t) ==
  /\ At(t, "wait") /\ sem > 0
  /\ sem' = sem - 1
  /\ Move(t, "woken")
  /\ UNCHANGED <<nThreads, waitCount, bottleneck, needGC, collector, spent, full, back, printing>>

Wake(t) ==
  /\ At(t, "woken") /\ GiantLockFree
  /\ BottleneckLoop(t, bottleneck, OneLess(waitCount))
  /\ UNCHANGED <<nThreads, needGC, sem, spent, full, back, printing>>

(* The collection ends: wake all that wait, and open the bottleneck.        *)
Collected(t) ==
  /\ At(t, "collect") /\ Move(t, back[t])
  /\ spent' = (spent /\ ~needGC) /\ needGC' = FALSE /\ full' = FALSE
  /\ Up(waitCount)
  /\ bottleneck' = FALSE
  /\ collector' = NoThread
  /\ UNCHANGED <<nThreads, waitCount, back, printing>>

-----------------------------------------------------------------------------
InLock(t) ==
  \/ Check(t)
  \/ Get(t)
  \/ Swap(t)
  \/ SemDown(t)
  \/ Wake(t)
  \/ Collected(t)

Code(t) ==
  \/ Enter(t)
  \/ Leave(t)
  \/ BeginPrint(t)
  \/ EndPrint(t)
  \/ JmpLoop(t)
  \/ Allocate(t)
  \/ SwapFree(t)

Next == \E t \in Threads : InLock(t) \/ Code(t)

Spec == Init /\ [][Next]_vars

(* A thread goes on inside the lock's own functions, and code that runs     *)
(* comes to a loop, an allocation or a release while the bottleneck is      *)
(* closed: straight-line code is finite, and drops finitely many blocks.    *)
Fairness ==
  \A t \in Threads :
    /\ WF_vars(InLock(t))
    /\ SF_vars(bottleneck /\ (Leave(t) \/ JmpLoop(t) \/ Allocate(t)))

FairSpec == Spec /\ Fairness

-----------------------------------------------------------------------------
(* Whoever frees dead blocks and collects garbage is the only thread that   *)
(* can touch Nasal data: no other runs Nasal code.  "All threads will block  *)
(* so that one can run alone" (gc.c).                                        *)
CollectsAlone ==
  \A t, u \in Threads : t # u /\ At(t, "collect") => ~At(u, "in")

(* Between the second release and the end of the naModLock that undoes it,  *)
(* nThreads does not count the thread.                                      *)
Uncounted(t) == printing[t] \/ (back[t] = "out" /\ ~At(t, "out"))

(* The only thing that breaks this is a thread that prints while the lock   *)
(* is released.                                                              *)
CollectsAloneUnlessPrinting ==
  (\A t \in Threads : ~Uncounted(t)) => CollectsAlone

(* The counters count: nThreads those that hold the lock, less the           *)
(* uncounted, and waitCount those that are before or behind the semaphore.       *)
CountersExact ==
  /\ nThreads = Cardinality({t \in Threads : ~At(t, "out")})
                - Cardinality({t \in Threads : Uncounted(t)})
  /\ waitCount = Cardinality({t \in Threads : pc[t] \in {"wait", "woken"}})

(* A collection that is wanted takes place: whatever threads enter, leave   *)
(* and arrive, they never all wait for each other.                          *)
BottleneckOpens == bottleneck ~> ~bottleneck
=============================================================================
