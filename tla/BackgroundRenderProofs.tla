------------------------ MODULE BackgroundRenderProofs ------------------------
(***************************************************************************)
(* Proofs about BackgroundRender, for any set of busses and threads, any   *)
(* length of the rendering loop and any failures.                          *)
(***************************************************************************)
EXTENDS BackgroundRender, TLAPS

(* Every step keeps every variable in its range.                            *)
LEMMA TypeStep == TypeOK /\ [Next]_vars => TypeOK'
<1> SUFFICES ASSUME TypeOK, [Next]_vars PROVE TypeOK'
  OBVIOUS
<1> USE RenderAssumption DEF TypeOK, uiVars, busVars, thrVars, dataVars
<1>1. ASSUME NEW handler \in Updates \ BusUpdates, UpdateSource(handler) PROVE TypeOK'
  BY <1>1 DEF UpdateSource, Enter
<1>2. ASSUME NEW b \in Buses, NEW handler \in BusUpdates, UpdateBus(b, handler) PROVE TypeOK'
  BY <1>2 DEF UpdateBus, Enter, Updates
<1>3. ASSUME NEW handler \in {"flush", "force"}, UpdateAll(handler) PROVE TypeOK'
  BY <1>3 DEF UpdateAll, Enter
<1>4. CASE ToggleDelay
  BY <1>4 DEF ToggleDelay, Enter
<1>5. CASE CancelAll
  BY <1>5 DEF CancelAll, Enter
<1>6. ASSUME NEW b \in Buses, CancelGenerate(b) PROVE TypeOK'
  BY <1>6 DEF CancelGenerate
<1>7. ASSUME NEW b \in Buses, SemDown(b) PROVE TypeOK'
  BY <1>7 DEF SemDown
<1>8. CASE Cancelled
  BY <1>8 DEF Cancelled
<1>9. CASE SourceUpdate \/ SourceSkip
  BY <1>9 DEF SourceUpdate, SourceSkip, Regenerates
<1>10. CASE SourceFails
  BY <1>10 DEF SourceFails, Fail, AfterError
<1>11. ASSUME NEW b \in Buses, Queue(b) PROVE TypeOK'
  BY <1>11 DEF Queue, Visit
<1>12. ASSUME NEW b \in Buses, NEW w \in Workers, Generate(b, w) PROVE TypeOK'
  BY <1>12 DEF Generate, Visit, Publish
<1>13. ASSUME NEW b \in Buses, SpawnFails(b) PROVE TypeOK'
  BY <1>13 DEF SpawnFails, Visit, Publish, Fail, AfterError
<1>14. ASSUME NEW b \in Buses, OpenFails(b) PROVE TypeOK'
  BY <1>14 DEF OpenFails, Visit, Fail, AfterError
<1>15. ASSUME NEW b \in Buses, CompileFails(b) PROVE TypeOK'
  BY <1>15 DEF CompileFails, Visit, Fail
<1>16. CASE Done
  BY <1>16 DEF Done
<1>17. ASSUME NEW b \in Buses, Monitor(b) \/ MonitorBlocks(b) PROVE TypeOK'
  BY <1>17 DEF Monitor, MonitorBlocks, StillPending
<1>18. ASSUME NEW w \in Workers, ThreadStep(w) PROVE TypeOK'
  <2>1. CASE Poll(w)
    BY <2>1 DEF Poll, MoreToRender
  <2>2. CASE Compute(w)
    BY <2>2 DEF Compute, Advance
  <2>3. CASE ComputeFails(w)
    BY <2>3 DEF ComputeFails, Fail
  <2>4. CASE LoopEnd(w)
    BY <2>4 DEF LoopEnd
  <2>5. CASE ThreadDone(w)
    BY <2>5 DEF ThreadDone
  <2>6. CASE SemUp(w)
    BY <2>6 DEF SemUp
  <2>7. QED
    BY <1>18, <2>1, <2>2, <2>3, <2>4, <2>5, <2>6 DEF ThreadStep
<1>19. CASE UNCHANGED vars
  BY <1>19 DEF vars
<1>20. QED
  BY <1>1, <1>2, <1>3, <1>4, <1>5, <1>6, <1>7, <1>8, <1>9, <1>10, <1>11, <1>12, <1>13,
     <1>14, <1>15, <1>16, <1>17, <1>18, <1>19
     DEF Next, UserStep, HandlerStep, TimerStep

(* Every step keeps the handshake invariant.                                *)
LEMMA HandshakeStep == HandshakeInv /\ [Next]_vars => HandshakeInv'
<1> SUFFICES ASSUME HandshakeInv, [Next]_vars PROVE HandshakeInv'
  OBVIOUS
<1>0. TypeOK /\ TypeOK'
  BY TypeStep DEF HandshakeInv
<1> DEFINE Rest == /\ \A w \in Workers : FlagsOfThread(w)
                   /\ HandlerOrder
                   /\ OneThreadPerBus
                   /\ NoStaleToken
                   /\ ReadsStableData
<1> USE RenderAssumption, <1>0
    DEF HandshakeInv, FlagsOfThread, HandlerOrder, Stopped, OneThreadPerBus, NoStaleToken,
        ReadsStableData, Live, InLoop, uiVars, busVars, thrVars, dataVars, TypeOK
<1>1. ASSUME NEW handler \in Updates \ BusUpdates, UpdateSource(handler) PROVE Rest'
  BY <1>1 DEF UpdateSource, Enter
<1>2. ASSUME NEW b \in Buses, NEW handler \in BusUpdates, UpdateBus(b, handler) PROVE Rest'
  BY <1>2 DEF UpdateBus, Enter
<1>3. ASSUME NEW handler \in {"flush", "force"}, UpdateAll(handler) PROVE Rest'
  BY <1>3 DEF UpdateAll, Enter
<1>4. CASE ToggleDelay
  BY <1>4 DEF ToggleDelay, Enter
<1>5. CASE CancelAll
  BY <1>5 DEF CancelAll, Enter
<1>6. ASSUME NEW b \in Buses, CancelGenerate(b) PROVE Rest'
  BY <1>6 DEF CancelGenerate, MustStop
<1>7. ASSUME NEW b \in Buses, SemDown(b) PROVE Rest'
  BY <1>7 DEF SemDown
<1>8. CASE Cancelled
  BY <1>8 DEF Cancelled
<1>9. CASE SourceUpdate \/ SourceSkip
  BY <1>9 DEF SourceUpdate, SourceSkip
<1>10. CASE SourceFails
  BY <1>10 DEF SourceFails, AfterError
<1>11. ASSUME NEW b \in Buses, Queue(b) PROVE Rest'
  BY <1>11 DEF Queue, Visit
<1>12. ASSUME NEW b \in Buses, NEW w \in Workers, Generate(b, w) PROVE Rest'
  BY <1>12 DEF Generate, Visit, Publish, Free
<1>13. ASSUME NEW b \in Buses, SpawnFails(b) PROVE Rest'
  BY <1>13 DEF SpawnFails, Visit, Publish, AfterError
<1>14. ASSUME NEW b \in Buses, OpenFails(b) PROVE Rest'
  BY <1>14 DEF OpenFails, Visit, AfterError
<1>15. ASSUME NEW b \in Buses, CompileFails(b) PROVE Rest'
  BY <1>15 DEF CompileFails, Visit
<1>16. CASE Done
  BY <1>16 DEF Done
<1>17. ASSUME NEW b \in Buses, Monitor(b) \/ MonitorBlocks(b) PROVE Rest'
  BY <1>17 DEF Monitor, MonitorBlocks
<1>18. ASSUME NEW w \in Workers, ThreadStep(w) PROVE Rest'
  <2>1. CASE Poll(w)
    BY <2>1 DEF Poll, MoreToRender
  <2>2. CASE Compute(w)
    BY <2>2 DEF Compute, Advance
  <2>3. CASE ComputeFails(w)
    BY <2>3 DEF ComputeFails
  <2>4. CASE LoopEnd(w)
    BY <2>4 DEF LoopEnd
  <2>5. CASE ThreadDone(w)
    BY <2>5 DEF ThreadDone, Answers
  <2>6. CASE SemUp(w)
    BY <2>6 DEF SemUp
  <2>7. QED
    BY <1>18, <2>1, <2>2, <2>3, <2>4, <2>5, <2>6 DEF ThreadStep
<1>19. CASE UNCHANGED vars
  BY <1>19 DEF vars
<1>20. QED
  BY <1>1, <1>2, <1>3, <1>4, <1>5, <1>6, <1>7, <1>8, <1>9, <1>10, <1>11, <1>12, <1>13,
     <1>14, <1>15, <1>16, <1>17, <1>18, <1>19
     DEF Next, UserStep, HandlerStep, TimerStep

LEMMA HandshakeInit == Init => HandshakeInv
BY RenderAssumption
   DEF Init, HandshakeInv, TypeOK, Updates, FlagsOfThread, HandlerOrder, Stopped,
       OneThreadPerBus, NoStaleToken, ReadsStableData, Live, InLoop

THEOREM HandshakeCorrect == Spec => []HandshakeInv
<1>1. Init => HandshakeInv
  BY HandshakeInit
<1>2. HandshakeInv /\ [Next]_vars => HandshakeInv'
  BY HandshakeStep
<1>3. QED
  BY <1>1, <1>2, PTL DEF Spec

(* Every variable of the busses, threads, handlers and the timer stays in   *)
(* its range.                                                               *)
THEOREM RenderTypeCorrect == Spec => []TypeOK
<1>1. HandshakeInv => TypeOK
  BY DEF HandshakeInv
<1>2. QED
  BY <1>1, HandshakeCorrect, PTL

(* No bus ever has two threads rendering it.                                *)
THEOREM AtMostOneThread == Spec => []OneThreadPerBus
<1>1. HandshakeInv => OneThreadPerBus
  BY DEF HandshakeInv
<1>2. QED
  BY <1>1, HandshakeCorrect, PTL

(* No token is left in a semaphore that a later cancel_generate could take  *)
(* for the answer of a thread still running.                                *)
THEOREM TokensAreFresh == Spec => []NoStaleToken
<1>1. HandshakeInv => NoStaleToken
  BY DEF HandshakeInv
<1>2. QED
  BY <1>1, HandshakeCorrect, PTL

(* The source objects never change under a thread that reads them.          *)
THEOREM SourcesAreStable == Spec => []ReadsStableData
<1>1. HandshakeInv => ReadsStableData
  BY DEF HandshakeInv
<1>2. QED
  BY <1>1, HandshakeCorrect, PTL

-----------------------------------------------------------------------------
(***************************************************************************)
(* What is shown as finished is finished, where it can be hoped for: no     *)
(* update is ever put off, and a thread may fail but not the start of one.  *)
(* Each part is needed: a rendering that ends while its update is queued    *)
(* clears the queue, of a score (the run render_lost_queue) or of a bus;    *)
(* after any other failure busses are passed over that nothing marks.       *)
(***************************************************************************)
NothingQueued == DelayModes = {FALSE} /\ Delayed = {}
OnlyRenderFails == Faults \subseteq {"render"}

(* A bus that is about to be regenerated: a property of it was changed, or  *)
(* the source has been.                                                     *)
ToBeRegenerated(b) ==
  \/ ui = "cancel" /\ op = "property" /\ b \in scope
  \/ ui = "regen" /\ op \in Updates /\ b \in todo

(* A bus whose file is old is shown as such, or will be when its thread is  *)
(* noticed.                                                                 *)
Shown(b) ==
  \/ thread_working[b] = 0 /\ pending_update[b]
  \/ thread_working[b] = 1
  \/ thread_working[b] = 2 /\ thread_cancel[b]
  \/ fresh[b]

(* Only the first update, of a score just loaded, finds the source pending. *)
NeverWaitsForFlush ==
  /\ ~delay_update
  /\ ui = "source" => todo = scope
  /\ src_pending => /\ op = "flush" /\ ui \in {"cancel", "source"}
                    /\ \A b \in Buses : thread_working[b] = 0 /\ pending_update[b]
(* A thread about to say that it is done has a whole file to its name, or   *)
(* was asked to stop.                                                       *)
PendInv ==
  /\ NeverWaitsForFlush
  /\ \A b \in Buses : Shown(b) \/ ToBeRegenerated(b)
  /\ \A w \in Workers : pc[w] = "closing" =>
        thread_cancel[bus[w]] \/ fresh[bus[w]] \/ ToBeRegenerated(bus[w])

(* Every step keeps this.                                                   *)
LEMMA PendStep ==
  ASSUME NothingQueued, OnlyRenderFails, HandshakeInv, PendInv, [Next]_vars
  PROVE  PendInv'
<1>0. TypeOK /\ TypeOK'
  BY TypeStep DEF HandshakeInv
<1> USE RenderAssumption, <1>0
    DEF NothingQueued, OnlyRenderFails, PendInv, NeverWaitsForFlush, Shown, ToBeRegenerated,
        uiVars, busVars, thrVars, dataVars, TypeOK
<1>1. ASSUME NEW handler \in Updates \ BusUpdates, UpdateSource(handler) PROVE PendInv'
  BY <1>1 DEF UpdateSource, Enter, Updates, BusUpdates
<1>2. ASSUME NEW b \in Buses, NEW handler \in BusUpdates, UpdateBus(b, handler) PROVE PendInv'
  BY <1>2 DEF UpdateBus, Enter, Updates, BusUpdates
<1>3. ASSUME NEW handler \in {"flush", "force"}, UpdateAll(handler) PROVE PendInv'
  BY <1>3 DEF UpdateAll, Enter
<1>4. CASE ToggleDelay
  BY <1>4 DEF ToggleDelay, Enter
<1>5. CASE CancelAll
  BY <1>5 DEF CancelAll, Enter
<1>6. ASSUME NEW b \in Buses, CancelGenerate(b) PROVE PendInv'
  BY <1>6 DEF CancelGenerate, MustStop
<1>7. ASSUME NEW b \in Buses, SemDown(b) PROVE PendInv'
  BY <1>7 DEF SemDown, HandshakeInv, HandlerOrder
<1>8. CASE Cancelled
  BY <1>8 DEF Cancelled, HandshakeInv, HandlerOrder, Stopped, Live, Updates, BusUpdates
<1>9. CASE SourceUpdate
  BY <1>9 DEF SourceUpdate, Regenerates, HandshakeInv, HandlerOrder, Stopped, Live, Updates
<1>10. CASE SourceSkip
  BY <1>10 DEF SourceSkip, Regenerates, Updates
<1>11. CASE SourceFails
  BY <1>11 DEF SourceFails, Fail
<1>12. ASSUME NEW b \in Buses, Queue(b) PROVE PendInv'
  BY <1>12 DEF Queue, Visit, UpdatesNow
<1>13. ASSUME NEW b \in Buses, NEW w \in Workers, Generate(b, w) PROVE PendInv'
  BY <1>13 DEF Generate, Visit, Publish, Free, HandshakeInv, HandlerOrder, Stopped, Live
<1>14. ASSUME NEW b \in Buses, SpawnFails(b) PROVE PendInv'
  BY <1>14 DEF SpawnFails, Fail
<1>15. ASSUME NEW b \in Buses, OpenFails(b) PROVE PendInv'
  BY <1>15 DEF OpenFails, Fail
<1>16. ASSUME NEW b \in Buses, CompileFails(b) PROVE PendInv'
  BY <1>16 DEF CompileFails, Fail
<1>17. CASE Done
  BY <1>17 DEF Done
<1>18. ASSUME NEW b \in Buses, Monitor(b) \/ MonitorBlocks(b) PROVE PendInv'
  BY <1>18 DEF Monitor, MonitorBlocks, StillPending
<1>19. ASSUME NEW w \in Workers, ThreadStep(w) PROVE PendInv'
  <2>1. CASE Poll(w)
    BY <2>1 DEF Poll, MoreToRender
  <2>2. CASE Compute(w)
    BY <2>2 DEF Compute, Advance
  <2>3. CASE ComputeFails(w)
    BY <2>3 DEF ComputeFails
  <2>4. CASE LoopEnd(w)
    BY <2>4 DEF LoopEnd, HandshakeInv, ReadsStableData, InLoop
  <2>5. CASE ThreadDone(w)
    BY <2>5 DEF ThreadDone, Answers, HandshakeInv, FlagsOfThread
  <2>6. CASE SemUp(w)
    BY <2>6 DEF SemUp
  <2>7. QED
    BY <1>19, <2>1, <2>2, <2>3, <2>4, <2>5, <2>6 DEF ThreadStep
<1>20. CASE UNCHANGED vars
  BY <1>20 DEF vars
<1> QED
  BY <1>1, <1>2, <1>3, <1>4, <1>5, <1>6, <1>7, <1>8, <1>9, <1>10, <1>11, <1>12, <1>13, <1>14, <1>15, <1>16, <1>17, <1>18, <1>19, <1>20
     DEF Next, UserStep, HandlerStep, TimerStep

(* When updates are not put off and only threads fail, a bus that is not    *)
(* rendered and not shown as in need of an update has a file that is a      *)
(* whole rendering of the current score.                                    *)
THEOREM PendingIsShown ==
  NothingQueued /\ OnlyRenderFails => (Spec => []PendingShown)
<1> SUFFICES ASSUME NothingQueued, OnlyRenderFails PROVE Spec => []PendingShown
  OBVIOUS
<1>1. Init => PendInv
  BY RenderAssumption DEF Init, PendInv, NeverWaitsForFlush, Shown, ToBeRegenerated, NothingQueued
<1>2. HandshakeInv /\ HandshakeInv' /\ PendInv /\ [Next]_vars => PendInv'
  BY PendStep
<1>3. PendInv /\ HandshakeInv => PendingShown
  BY DEF PendInv, PendingShown, Shown, ToBeRegenerated
<1> QED
  BY <1>1, <1>2, <1>3, HandshakeCorrect, PTL DEF Spec

-----------------------------------------------------------------------------
(* The rendering service.  A thread that leaves its loop ends the rendering *)
(* of its bus, because no other thread renders it.                          *)
Rendering == {b \in Buses : \E w \in Workers : InLoop(w) /\ bus[w] = b}
Result    == {b \in Buses : fresh[b]}

LEMMA LeaveLoop ==
  ASSUME HandshakeInv, NEW w \in Workers, InLoop(w), bus' = bus,
         NEW p \in {"closing", "failed"}, pc' = [pc EXCEPT ![w] = p]
  PROVE  bus[w] \in Rendering /\ Rendering' = Rendering \ {bus[w]}
BY DEF Rendering, InLoop, Live, HandshakeInv, OneThreadPerBus, TypeOK

LEMMA SameLoops ==
  ASSUME TypeOK, bus' = bus, \A w \in Workers : InLoop(w)' <=> InLoop(w)
  PROVE  Rendering' = Rendering
BY DEF Rendering, TypeOK

(* Every step of the detailed specification is a step of the service, or    *)
(* leaves its state alone.                                                  *)
LEMMA ServiceStep ==
  HandshakeInv /\ [Next]_vars => [Service!ServiceNext]_<<Rendering, Result>>
<1> SUFFICES ASSUME HandshakeInv, [Next]_vars
             PROVE  [Service!ServiceNext]_<<Rendering, Result>>
  OBVIOUS
<1> DEFINE Goal == [Service!ServiceNext]_<<Rendering, Result>>
<1>0. TypeOK /\ TypeOK'
  BY TypeStep DEF HandshakeInv
<1>1. ASSUME UNCHANGED <<pc, bus, fresh>> PROVE Goal
  BY <1>1 DEF Rendering, Result, InLoop
<1>2. ASSUME NEW b \in Buses, UNCHANGED <<pc, bus>>, NEW v \in BOOLEAN,
             v => fresh[b], fresh' = [fresh EXCEPT ![b] = v]
      PROVE  Goal
  <2>1. Rendering' = Rendering
    BY <1>2 DEF Rendering, InLoop
  <2>2. Result' = Result \/ Result' = Result \ {b}
    BY <1>0, <1>2 DEF Result, TypeOK
  <2>3. QED
    BY <2>1, <2>2 DEF Service!ServiceNext, Service!Invalidate, Rendering, Result
<1>3. ASSUME NEW b \in Buses, NEW w \in Workers, Generate(b, w) PROVE Goal
  <2>1. b \notin Rendering
    BY <1>3 DEF Generate, Visit, HandshakeInv, HandlerOrder, Stopped, Rendering, InLoop, Live
  <2>2. Rendering' = Rendering \cup {b}
    BY <1>0, <1>3 DEF Generate, Free, Rendering, InLoop, TypeOK
  <2>3. Result' = Result \ {b}
    BY <1>0, <1>3 DEF Generate, Publish, Result, TypeOK
  <2>4. QED
    BY <2>1, <2>2, <2>3 DEF Service!ServiceNext, Service!Begin, Rendering, Result
<1>4. CASE SourceUpdate
  <2>1. Rendering = {} /\ Rendering' = Rendering
    BY <1>4 DEF SourceUpdate, thrVars, HandshakeInv, HandlerOrder, Stopped, Rendering, InLoop, Live
  <2>2. Result' = {}
    BY <1>4 DEF SourceUpdate, Result
  <2>3. QED
    BY <2>1, <2>2 DEF Service!ServiceNext, Service!ChangeSources, Rendering, Result
<1>5. ASSUME NEW w \in Workers, LoopEnd(w) PROVE Goal
  <2>1. bus[w] \in Rendering /\ Rendering' = Rendering \ {bus[w]}
    BY <1>5, LeaveLoop DEF LoopEnd, InLoop
  <2>2. clean[w] /\ bus[w] \in Buses
    BY <1>0, <1>5 DEF LoopEnd, HandshakeInv, ReadsStableData, InLoop, TypeOK
  <2>3. Result' = Result \cup {bus[w]}
    BY <1>0, <1>5, <2>2 DEF LoopEnd, Result, TypeOK
  <2>4. QED
    BY <2>1, <2>2, <2>3 DEF Service!ServiceNext, Service!Complete, Rendering, Result
<1>6. ASSUME NEW w \in Workers, InLoop(w), bus' = bus, fresh' = fresh,
             NEW p \in {"closing", "failed"}, pc' = [pc EXCEPT ![w] = p]
      PROVE  Goal
  <2>1. bus[w] \in Rendering /\ Rendering' = Rendering \ {bus[w]}
    BY <1>6, LeaveLoop
  <2>2. Result' = Result /\ bus[w] \in Buses
    BY <1>0, <1>6 DEF Result, TypeOK
  <2>3. QED
    BY <2>1, <2>2 DEF Service!ServiceNext, Service!Stop, Rendering, Result
<1>7. ASSUME bus' = bus, fresh' = fresh, \A w \in Workers : InLoop(w)' <=> InLoop(w)
      PROVE  Goal
  BY <1>0, <1>7, SameLoops DEF Result
<1>8. ASSUME NEW w \in Workers, ThreadStep(w) PROVE Goal
  <2>1. CASE Poll(w) /\ thread_cancel[bus[w]]
    BY <1>6, <2>1 DEF Poll, InLoop, dataVars
  <2>2. CASE Poll(w) /\ ~thread_cancel[bus[w]]
    BY <1>0, <1>7, <2>2 DEF Poll, InLoop, dataVars, TypeOK
  <2>3. CASE Compute(w)
    BY <1>0, <1>7, <2>3 DEF Compute, InLoop, dataVars, TypeOK
  <2>4. CASE ComputeFails(w)
    BY <1>6, <2>4 DEF ComputeFails, InLoop, dataVars
  <2>5. CASE LoopEnd(w)
    BY <1>5, <2>5
  <2>6. CASE ThreadDone(w)
    BY <1>0, <1>7, <2>6 DEF ThreadDone, InLoop, dataVars, TypeOK
  <2>7. CASE SemUp(w)
    BY <1>0, <1>7, <2>7 DEF SemUp, InLoop, dataVars, TypeOK
  <2>8. QED
    BY <1>8, <2>1, <2>2, <2>3, <2>4, <2>5, <2>6, <2>7 DEF ThreadStep
<1>9. ASSUME NEW b \in Buses, NEW handler \in BusUpdates, UpdateBus(b, handler) PROVE Goal
  BY <1>0, <1>2, <1>9 DEF UpdateBus, Enter, thrVars, TypeOK
<1>10. ASSUME NEW b \in Buses, SpawnFails(b) \/ CompileFails(b) PROVE Goal
  BY <1>2, <1>10 DEF SpawnFails, CompileFails, Publish, thrVars
<1>11. CASE \/ \E handler \in Updates \ BusUpdates : UpdateSource(handler)
            \/ \E handler \in {"flush", "force"} : UpdateAll(handler)
            \/ ToggleDelay \/ CancelAll
  BY <1>1, <1>11 DEF UpdateSource, UpdateAll, ToggleDelay, CancelAll, Enter, thrVars, dataVars
<1>12. CASE \/ \E b \in Buses : CancelGenerate(b) \/ SemDown(b) \/ Queue(b) \/ OpenFails(b)
            \/ Cancelled \/ SourceSkip \/ SourceFails \/ Done
  BY <1>1, <1>12
     DEF CancelGenerate, SemDown, Queue, OpenFails, Cancelled, SourceSkip, SourceFails, Done,
         thrVars, dataVars
<1>13. CASE TimerStep \/ UNCHANGED vars
  BY <1>1, <1>13 DEF TimerStep, Monitor, MonitorBlocks, thrVars, dataVars, vars
<1>14. QED
  BY <1>3, <1>4, <1>8, <1>9, <1>10, <1>11, <1>12, <1>13 DEF Next, UserStep, HandlerStep

(* The handshake implements the rendering service.                          *)
THEOREM RenderImplementsService == Spec => ImplementsService
<1>1. Init => Service!ServiceInit
  BY DEF Init, Service!ServiceInit, InLoop
<1>2. HandshakeInv /\ [Next]_vars => [Service!ServiceNext]_Service!svars
  BY ServiceStep DEF Service!svars, Rendering, Result
<1>3. QED
  BY <1>1, <1>2, HandshakeCorrect, PTL DEF Spec, ImplementsService, Service!ServiceSpec
=============================================================================
