--------------------------- MODULE BackgroundRender ---------------------------
(***************************************************************************)
(* How AlgoScore renders output busses in background threads.              *)
(*                                                                         *)
(* The user-interface (UI) thread runs the update handlers of the score    *)
(* (ASObject.update, Score.update_all, outbus.cancel_all), which first     *)
(* stop the rendering threads of every bus that reads the data about to    *)
(* change (cancel_generate), then regenerate the source objects, and then  *)
(* start one new thread per bus (generate).  A timer on the same UI thread *)
(* runs the thread_monitor of each bus.                                    *)
(*                                                                         *)
(* One source object feeds every bus.  A critical section of thread_lock   *)
(* is one action, because nothing it reads or writes is touched without    *)
(* the lock; the one section that can be left with the lock held is in     *)
(* SigBus.generate, and `locked' records it.                               *)
(***************************************************************************)
EXTENDS Naturals

CONSTANTS
  Buses,     \* the output busses, all fed by the one source object
  SigBuses,  \* those that are signal busses; the others are Csound busses
  Delayed,   \* those whose delay_update property is set
  NoBus,     \* "the UI thread waits for no bus"
  Workers,   \* identities of rendering threads; one that ended is reused
  Chunks,    \* iterations of the rendering loop up to the end mark
  DelayModes,\* the values Score.delay_update may take
  Faults,    \* the kinds of failure that may happen
  MaxFaults  \* how many of them, over a whole run

FaultKinds == {"source", "open", "compile", "spawn", "render"}

ASSUME RenderAssumption ==
  /\ SigBuses \subseteq Buses
  /\ Delayed \subseteq Buses
  /\ NoBus \notin Buses
  /\ Chunks \in Nat
  /\ DelayModes \subseteq BOOLEAN /\ DelayModes # {}
  /\ Faults \subseteq FaultKinds
  /\ MaxFaults \in Nat

VARIABLES
  ui,             \* where the UI thread is in an update handler
  op,             \* which handler it is in
  scope,          \* the busses that handler is about
  todo,           \* those its current loop has still to visit
  waiting,        \* the bus in whose semdown the UI thread is, or NoBus
  delay_update,   \* Score.delay_update: updates are queued, not run
  thread_working, \* per bus: 0 idle, 1 a thread renders, 2 it is done
  thread_cancel,  \* per bus: the thread has been asked to stop
  thread_sem,     \* per bus: count of the semaphore cancel_generate waits on
  locked,         \* per bus: thread_lock was left held by the UI thread
  pending_update, \* per bus: the object is shown as in need of an update
  src_pending,    \* the same flag of the source object
  pc, bus, t, do_semup,  \* per thread: position, its bus, loop counter, flag
  clean,          \* per thread: the data it reads has not changed under it
  fresh,          \* per bus: its file is a whole rendering of the current data
  faults          \* failures so far

uiVars   == <<ui, op, scope, todo, waiting>>
busVars  == <<thread_working, thread_cancel, thread_sem, locked, pending_update>>
thrVars  == <<pc, bus, t, do_semup>>
dataVars == <<clean, fresh>>
vars == <<uiVars, delay_update, busVars, src_pending, thrVars, dataVars, faults>>

-----------------------------------------------------------------------------
(* The handlers that are ASObject.update: after an edit of the source or of a *)
(* bus, and by the `u' key on one of them.                                    *)
BusUpdates == {"property", "key_bus"}
Updates    == {"edit", "key_source"} \cup BusUpdates

InLoop(w) == pc[w] \in {"check", "compute"}
Live(w)   == pc[w] # "end"
Free(w)   == pc[w] = "end"

(* Every variable stays in its range, and the body of the loop is entered   *)
(* only with time left; thread_sem is not bounded here.                     *)
TypeOK ==
  /\ ui \in {"idle", "cancel", "source", "regen", "stuck"}
  /\ op \in Updates \cup {"flush", "force", "stop"}
  /\ scope \subseteq Buses /\ todo \subseteq scope
  /\ waiting \in Buses \cup {NoBus}
  /\ delay_update \in BOOLEAN
  /\ thread_working \in [Buses -> 0..2]
  /\ thread_cancel \in [Buses -> BOOLEAN]
  /\ thread_sem \in [Buses -> Nat]
  /\ locked \in [Buses -> BOOLEAN]
  /\ pending_update \in [Buses -> BOOLEAN]
  /\ src_pending \in BOOLEAN
  /\ pc \in [Workers -> {"check", "compute", "closing", "semup", "failed", "end"}]
  /\ bus \in [Workers -> Buses]
  /\ t \in [Workers -> 0..Chunks]
  /\ \A w \in Workers : pc[w] = "compute" => t[w] < Chunks
  /\ do_semup \in [Workers -> BOOLEAN]
  /\ clean \in [Workers -> BOOLEAN]
  /\ fresh \in [Buses -> BOOLEAN]
  /\ faults \in Nat

(* A score that has just been loaded: nothing is rendered and all updates   *)
(* are queued, because load_from_file holds them.  Its unhold_update runs   *)
(* update_all, unless updates were delayed before.                          *)
Init ==
  /\ delay_update \in DelayModes
  /\ ui = IF delay_update THEN "idle" ELSE "cancel"
  /\ op = "flush" /\ waiting = NoBus
  /\ scope = Buses /\ todo = IF delay_update THEN {} ELSE Buses
  /\ thread_working = [b \in Buses |-> 0]
  /\ thread_cancel = [b \in Buses |-> FALSE]
  /\ thread_sem = [b \in Buses |-> 0]
  /\ locked = [b \in Buses |-> FALSE]
  /\ pending_update = [b \in Buses |-> TRUE]
  /\ src_pending = TRUE
  /\ pc = [w \in Workers |-> "end"]
  /\ bus \in [Workers -> Buses]
  /\ t = [w \in Workers |-> 0]
  /\ do_semup = [w \in Workers |-> FALSE]
  /\ clean = [w \in Workers |-> FALSE]
  /\ fresh = [b \in Buses |-> FALSE]
  /\ faults = 0

-----------------------------------------------------------------------------
(* The UI thread enters a handler; its first loop calls cancel_generate on  *)
(* every bus in scope.                                                      *)
Enter(handler, busses) ==
  /\ ui = "idle"
  /\ ui' = "cancel" /\ op' = handler
  /\ scope' = busses /\ todo' = busses
  /\ UNCHANGED <<waiting, busVars, src_pending, thrVars, faults>>

(* ASObject.update on the source object. *)
UpdateSource(handler) == Enter(handler, Buses) /\ UNCHANGED <<delay_update, dataVars>>

(* ASObject.update on a bus, of which a property may have been changed.     *)
UpdateBus(b, handler) ==
  /\ Enter(handler, {b})
  /\ fresh' = [fresh EXCEPT ![b] = @ /\ handler = "key_bus"]
  /\ UNCHANGED <<delay_update, clean>>

(* Score.update_all: all that is pending, with `force' also what is delayed. *)
UpdateAll(handler) == Enter(handler, Buses) /\ UNCHANGED <<delay_update, dataVars>>

(* The "Delay update" button: switching it off flushes the queue.           *)
ToggleDelay ==
  /\ (~delay_update) \in DelayModes
  /\ delay_update' = ~delay_update
  /\ UNCHANGED dataVars
  /\ IF delay_update
     THEN Enter("flush", Buses)
     ELSE /\ ui = "idle"
          /\ UNCHANGED <<uiVars, busVars, src_pending, thrVars, faults>>

(* outbus.cancel_all, "Stop background updates". *)
CancelAll == Enter("stop", Buses) /\ UNCHANGED <<delay_update, dataVars>>

(* What cancel_generate looks at under the lock.  (Mutant: a restart that   *)
(* does not wait for the thread.)                                           *)
MustStop_Never(b) == FALSE
MustStop(b) == thread_working[b] = 1

(* cancel_generate of one bus: either it has nothing to stop, or it asks    *)
(* the thread to stop and goes to wait for it.                              *)
CancelGenerate(b) ==
  /\ ui = "cancel" /\ waiting = NoBus
  /\ b \in todo /\ ~locked[b]
  /\ IF MustStop(b)
     THEN /\ thread_cancel' = [thread_cancel EXCEPT ![b] = TRUE]
          /\ waiting' = b
          /\ UNCHANGED todo
     ELSE /\ todo' = todo \ {b}
          /\ UNCHANGED <<thread_cancel, waiting>>
  /\ UNCHANGED <<ui, op, scope, delay_update, thread_working, thread_sem, locked,
                 pending_update, src_pending, thrVars, dataVars, faults>>

(* thread.semdown returns in cancel_generate. *)
SemDown(b) ==
  /\ waiting = b /\ thread_sem[b] > 0
  /\ thread_sem' = [thread_sem EXCEPT ![b] = @ - 1]
  /\ waiting' = NoBus
  /\ todo' = todo \ {b}
  /\ UNCHANGED <<ui, op, scope, delay_update, thread_working, thread_cancel, locked,
                 pending_update, src_pending, thrVars, dataVars, faults>>

(* The loop of cancel_generate calls is over. *)
Cancelled ==
  /\ ui = "cancel" /\ waiting = NoBus /\ todo = {}
  /\ ui' = CASE op = "stop" -> "idle" [] op \in BusUpdates -> "regen" [] OTHER -> "source"
  /\ todo' = IF op = "stop" THEN {} ELSE scope
  /\ UNCHANGED <<op, scope, waiting, delay_update, busVars, src_pending, thrVars,
                 dataVars, faults>>

(* The object tree is sorted: the source comes first.  It is regenerated,   *)
(* which changes the data every bus reads ...                               *)
Regenerates ==
  CASE op = "edit"       -> ~delay_update
    [] op = "key_source" -> TRUE
    [] OTHER             -> src_pending

SourceUpdate ==
  /\ ui = "source" /\ Regenerates
  /\ src_pending' = FALSE
  /\ fresh' = [b \in Buses |-> FALSE]
  /\ clean' = [w \in Workers |-> FALSE]
  /\ ui' = "regen"
  /\ UNCHANGED <<op, scope, todo, waiting, delay_update, busVars, thrVars, faults>>

(* ... or queued (update), or has nothing pending (update_all) ...          *)
SourceSkip ==
  /\ ui = "source" /\ ~Regenerates
  /\ src_pending' = (op = "edit" \/ src_pending)
  /\ ui' = "regen"
  /\ UNCHANGED <<op, scope, todo, waiting, delay_update, busVars, thrVars, dataVars, faults>>

Fail(kind) == kind \in Faults /\ faults < MaxFaults /\ faults' = faults + 1

(* When update_now reports an error, update returns and the remaining       *)
(* objects are not visited; update_all goes on.                             *)
AfterError(rest) ==
  IF op \in Updates
  THEN ui' = "idle" /\ todo' = {}
  ELSE ui' = "regen" /\ todo' = rest

(* ... or its generate raises an error.                                     *)
SourceFails ==
  /\ ui = "source" /\ Regenerates
  /\ Fail("source")
  /\ src_pending' = TRUE
  /\ AfterError(todo)
  /\ UNCHANGED <<op, scope, waiting, delay_update, busVars, thrVars, dataVars>>

-----------------------------------------------------------------------------
(* The second loop of update and update_all, for one bus.                   *)
UpdatesNow(b) ==
  CASE op = "key_bus"  -> TRUE
    [] op \in Updates  -> ~delay_update /\ b \notin Delayed
    [] OTHER           -> pending_update[b] /\ (b \notin Delayed \/ op = "force")

Visit(b) == ui = "regen" /\ b \in todo

Queue(b) ==
  /\ Visit(b) /\ ~UpdatesNow(b)
  /\ pending_update' = [pending_update EXCEPT ![b] = @ \/ op \in Updates]
  /\ todo' = todo \ {b}
  /\ UNCHANGED <<ui, op, scope, waiting, delay_update, thread_working, thread_cancel,
                 thread_sem, locked, src_pending, thrVars, dataVars, faults>>

(* update_now of a bus: generate truncates the file, starts a thread and    *)
(* returns 1, which becomes pending_update.                                 *)
Publish(b) ==
  /\ thread_working' = [thread_working EXCEPT ![b] = 1]
  /\ thread_cancel' = [thread_cancel EXCEPT ![b] = FALSE]
  /\ pending_update' = [pending_update EXCEPT ![b] = TRUE]
  /\ fresh' = [fresh EXCEPT ![b] = FALSE]
  /\ UNCHANGED <<op, scope, waiting, delay_update, thread_sem, locked, src_pending>>

Generate(b, w) ==
  /\ Visit(b) /\ UpdatesNow(b) /\ ~locked[b] /\ Free(w)
  /\ Publish(b)
  /\ pc' = [pc EXCEPT ![w] = "check"]
  /\ bus' = [bus EXCEPT ![w] = b]
  /\ t' = [t EXCEPT ![w] = 0]
  /\ do_semup' = [do_semup EXCEPT ![w] = FALSE]
  /\ clean' = [clean EXCEPT ![w] = TRUE]
  /\ todo' = todo \ {b}
  /\ UNCHANGED <<ui, faults>>

(* thread.newthread raises an error after the flags have been set.          *)
SpawnFails(b) ==
  /\ Visit(b) /\ UpdatesNow(b) /\ ~locked[b]
  /\ Fail("spawn")
  /\ Publish(b)
  /\ AfterError(todo \ {b})
  /\ UNCHANGED <<thrVars, clean>>

(* sndfile.open raises an error inside the locked section of SigBus.generate: *)
(* update_now catches it, and nothing unlocks thread_lock.                    *)
OpenFails(b) ==
  /\ Visit(b) /\ UpdatesNow(b) /\ ~locked[b]
  /\ b \in SigBuses
  /\ Fail("open")
  /\ locked' = [locked EXCEPT ![b] = TRUE]
  /\ pending_update' = [pending_update EXCEPT ![b] = TRUE]
  /\ AfterError(todo \ {b})
  /\ UNCHANGED <<op, scope, waiting, delay_update, thread_working, thread_cancel,
                 thread_sem, src_pending, thrVars, dataVars>>

(* The orchestra does not compile: CSBus.generate returns nil, which        *)
(* becomes pending_update and counts as false.                              *)
CompileFails(b) ==
  /\ Visit(b) /\ UpdatesNow(b)
  /\ b \notin SigBuses
  /\ Fail("compile")
  /\ pending_update' = [pending_update EXCEPT ![b] = FALSE]
  /\ fresh' = [fresh EXCEPT ![b] = FALSE]
  /\ todo' = todo \ {b}
  /\ UNCHANGED <<ui, op, scope, waiting, delay_update, thread_working, thread_cancel,
                 thread_sem, locked, src_pending, thrVars, clean>>

Done ==
  /\ ui = "regen" /\ todo = {}
  /\ ui' = "idle"
  /\ UNCHANGED <<op, scope, todo, waiting, delay_update, busVars, src_pending, thrVars,
                 dataVars, faults>>

-----------------------------------------------------------------------------
(* What is left to do for a bus whose thread is done.  (Mutant: a cancelled *)
(* rendering counts as a finished one.)                                     *)
StillPending_Never(b) == FALSE
StillPending(b) == thread_cancel[b]

(* The monitor of one bus, called by the 200 ms timer of the UI thread.     *)
Monitor(b) ==
  /\ ui = "idle" /\ ~locked[b] /\ thread_working[b] = 2
  /\ thread_working' = [thread_working EXCEPT ![b] = 0]
  /\ pending_update' = [pending_update EXCEPT ![b] = StillPending(b)]
  /\ UNCHANGED <<uiVars, delay_update, thread_cancel, thread_sem, locked, src_pending,
                 thrVars, dataVars, faults>>

(* The monitor blocks on a lock that its own thread has left held.          *)
MonitorBlocks(b) ==
  /\ ui = "idle" /\ locked[b]
  /\ ui' = "stuck"
  /\ UNCHANGED <<op, scope, todo, waiting, delay_update, busVars, src_pending, thrVars,
                 dataVars, faults>>

-----------------------------------------------------------------------------
(* update_thread.  (Mutants: a loop that stays on its time; a semup whether *)
(* or not somebody waits; none at all.)                                     *)
MoreToRender(w) == t[w] < Chunks

Advance_Stays(w) == t[w]
Advance(w) == t[w] + 1

Answers_Always(w) == TRUE
Answers_Never(w) == FALSE
Answers(w) == do_semup[w]

(* The top of its loop, entered while t < length:                           *)
Poll(w) ==
  /\ pc[w] = "check" /\ MoreToRender(w) /\ ~locked[bus[w]]
  /\ do_semup' = [do_semup EXCEPT ![w] = thread_cancel[bus[w]]]
  /\ pc' = [pc EXCEPT ![w] = IF thread_cancel[bus[w]] THEN "closing" ELSE "compute"]
  /\ UNCHANGED <<uiVars, delay_update, busVars, src_pending, bus, t, dataVars, faults>>

(* its body, which reads the source objects;                                *)
Compute(w) ==
  /\ pc[w] = "compute"
  /\ t' = [t EXCEPT ![w] = Advance(w)]
  /\ pc' = [pc EXCEPT ![w] = "check"]
  /\ UNCHANGED <<uiVars, delay_update, busVars, src_pending, bus, do_semup, dataVars, faults>>

(* an error in it, caught by the function the thread was started with;      *)
ComputeFails(w) ==
  /\ pc[w] = "compute"
  /\ Fail("render")
  /\ pc' = [pc EXCEPT ![w] = "failed"]
  /\ UNCHANGED <<uiVars, delay_update, busVars, src_pending, bus, t, do_semup, dataVars>>

(* and its end, when t has reached the length: the file is complete.        *)
LoopEnd(w) ==
  /\ pc[w] = "check" /\ ~MoreToRender(w)
  /\ pc' = [pc EXCEPT ![w] = "closing"]
  /\ fresh' = [fresh EXCEPT ![bus[w]] = clean[w]]
  /\ UNCHANGED <<uiVars, delay_update, busVars, src_pending, bus, t, do_semup, clean, faults>>

(* thread_working becomes 2, under the lock.                                *)
ThreadDone(w) ==
  /\ pc[w] = "closing" /\ ~locked[bus[w]]
  /\ thread_working' = [thread_working EXCEPT ![bus[w]] = 2]
  /\ pc' = [pc EXCEPT ![w] = IF Answers(w) THEN "semup" ELSE "end"]
  /\ UNCHANGED <<uiVars, delay_update, thread_cancel, thread_sem, locked, pending_update,
                 src_pending, bus, t, do_semup, dataVars, faults>>

(* thread.semup, after a cancelled loop or after an error.                  *)
SemUp(w) ==
  /\ pc[w] \in {"semup", "failed"}
  /\ thread_sem' = [thread_sem EXCEPT ![bus[w]] = @ + 1]
  /\ pc' = [pc EXCEPT ![w] = "end"]
  /\ UNCHANGED <<uiVars, delay_update, thread_working, thread_cancel, locked, pending_update,
                 src_pending, bus, t, do_semup, dataVars, faults>>

-----------------------------------------------------------------------------
UserStep ==
  \/ \E handler \in Updates \ BusUpdates : UpdateSource(handler)
  \/ \E b \in Buses, handler \in BusUpdates : UpdateBus(b, handler)
  \/ \E handler \in {"flush", "force"} : UpdateAll(handler)
  \/ ToggleDelay
  \/ CancelAll

HandlerStep ==
  \/ \E b \in Buses : CancelGenerate(b)
  \/ \E b \in Buses : SemDown(b)
  \/ Cancelled
  \/ SourceUpdate
  \/ SourceSkip
  \/ SourceFails
  \/ \E b \in Buses : Queue(b)
  \/ \E b \in Buses, w \in Workers : Generate(b, w)
  \/ \E b \in Buses : SpawnFails(b)
  \/ \E b \in Buses : OpenFails(b)
  \/ \E b \in Buses : CompileFails(b)
  \/ Done

TimerStep == \E b \in Buses : Monitor(b) \/ MonitorBlocks(b)

ThreadStep(w) ==
  \/ Poll(w)
  \/ Compute(w)
  \/ ComputeFails(w)
  \/ LoopEnd(w)
  \/ ThreadDone(w)
  \/ SemUp(w)

Next == UserStep \/ HandlerStep \/ TimerStep \/ \E w \in Workers : ThreadStep(w)

Spec == Init /\ [][Next]_vars

(* The threads are scheduled, a handler that can go on does, and the timer  *)
(* fires whenever the UI thread stays idle.  What the user does is not fair. *)
Fairness ==
  /\ WF_vars(HandlerStep)
  /\ \A b \in Buses : WF_vars(Monitor(b))
  /\ \A w \in Workers : WF_vars(ThreadStep(w))

FairSpec == Spec /\ Fairness

-----------------------------------------------------------------------------
(* A bus never has two rendering threads, which would write the same file:  *)
(* every generate is preceded by a cancel_generate that has seen the last   *)
(* thread go, whatever failed in between.                                   *)
OneThreadPerBus ==
  \A v, w \in Workers : Live(v) /\ Live(w) /\ bus[v] = bus[w] => v = w

(* The semaphore holds a token only for a thread that is gone: one that     *)
(* answered the cancel_generate now waiting, or one that died of an error   *)
(* and left thread_working at 1 for the next cancel_generate to collect.    *)
NoStaleToken ==
  \A b \in Buses : thread_sem[b] > 0 =>
    /\ thread_sem[b] = 1
    /\ \A w \in Workers : Live(w) => bus[w] # b
    /\ waiting = b \/ thread_working[b] = 1

(* The source objects do not change while a thread reads them.              *)
ReadsStableData == \A w \in Workers : InLoop(w) => clean[w]

(* A bus that is not rendered and not shown as in need of an update has a   *)
(* file that is a whole rendering of the current score.                     *)
PendingShown ==
  \A b \in Buses :
    ui = "idle" /\ thread_working[b] = 0 /\ ~pending_update[b] => fresh[b]

(* cancel_generate returns: the UI thread does not wait for a bus for ever. *)
CancelReturns == \A b \in Buses : waiting = b ~> waiting # b

(* cancel_generate returns when the thread has still to look at             *)
(* thread_cancel, or is to report an error.                                 *)
WillAnswer(w) ==
  \/ pc[w] = "check" /\ t[w] < Chunks
  \/ pc[w] = "compute" /\ t[w] + 1 < Chunks
  \/ pc[w] \in {"semup", "failed"}
  \/ pc[w] = "closing" /\ do_semup[w]

CancelAnswered ==
  \A w \in Workers, b \in Buses :
    waiting = b /\ bus[w] = b /\ WillAnswer(w) ~> waiting # b

(* A rendering that nobody cancels gets to its end, or an error ends it and *)
(* leaves its token.                                                        *)
RenderingEnds ==
  \A b \in Buses :
    thread_working[b] = 1 ~>
      (thread_working[b] # 1 \/ thread_cancel[b] \/ thread_sem[b] > 0)

(* The inductive invariant behind the properties above.  A thread that has  *)
(* not said so in thread_working is about to wake the UI thread up; ...     *)
FlagsOfThread(w) ==
  /\ pc[w] \in {"check", "compute", "closing", "failed"} => thread_working[bus[w]] = 1
  /\ pc[w] = "semup" => thread_working[bus[w]] = 2 /\ waiting = bus[w]
  /\ do_semup[w] => ~InLoop(w)
  /\ pc[w] = "closing" /\ do_semup[w] => waiting = bus[w]
  /\ Live(w) /\ thread_cancel[bus[w]] => waiting = bus[w]

(* ... and a bus that the current handler has passed cancel_generate for,   *)
(* and not yet regenerated, has neither a thread nor a token.               *)
Stopped(b) == thread_sem[b] = 0 /\ \A w \in Workers : Live(w) => bus[w] # b

HandlerOrder ==
  /\ waiting # NoBus => ui = "cancel" /\ waiting \in todo
  /\ ui = "cancel" => /\ \A b \in scope \ todo : Stopped(b)
                      /\ op \notin BusUpdates \cup {"stop"} => scope = Buses
  /\ ui = "source" => /\ scope = Buses
                      /\ \A b \in Buses : Stopped(b)
  /\ ui = "regen" => \A b \in todo : Stopped(b)

HandshakeInv ==
  /\ TypeOK
  /\ \A w \in Workers : FlagsOfThread(w)
  /\ HandlerOrder
  /\ OneThreadPerBus
  /\ NoStaleToken
  /\ ReadsStableData

(* The handshake of flags, lock and semaphore implements the service that   *)
(* the score relies on, a rendering lasting as long as its loop.            *)
Service == INSTANCE RenderService WITH
  rendering <- {b \in Buses : \E w \in Workers : InLoop(w) /\ bus[w] = b},
  result    <- {b \in Buses : fresh[b]}

ImplementsService == Service!ServiceSpec
=============================================================================
