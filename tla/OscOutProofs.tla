------------------------------ MODULE OscOutProofs ------------------------------
(***************************************************************************)
(* Theorems about OscOut for any busses, lists, positions and bounds: its  *)
(* variables keep their types, the thread never sleeps past an event, and  *)
(* sends each once and not too early.                                      *)
(***************************************************************************)
EXTENDS OscOut, TLAPS

(* A timed wait has ended when it has timed out, and the list that generate *)
(* is filling is known to be rebuilt.                                       *)
LateOK == th = "late" => left <= 0
AddOK == ui = "add" => \A b \in adding.bus : dirty[b]

(* The clock may stop counting only when it has passed the next event: that *)
(* event is after the position the clock started from.                      *)
Sleeps(b) ==
  /\ playing_osc /\ ui \in {"idle", "add"}
  /\ b \in busses /\ ~dirty[b] /\ pos[b] < Len(events[b])

SleepOK(b) ==
  Sleeps(b) =>
    /\ th # "wait"
    /\ th = "timed" => /\ locate_pos_sec < events[b][pos[b] + 1]
                       /\ locate_pos_sec + elapsed + left <= events[b][pos[b] + 1]

IInv == TypeOK /\ LateOK /\ AddOK /\ \A b \in Busses : SleepOK(b)

LEMMA ElementOfList ==
  ASSUME NEW S, NEW s \in Seq(S), NEW i \in 1..Len(s)
  PROVE  s[i] \in S
OBVIOUS

-----------------------------------------------------------------------------
(* What the thread sets when it has served the busses. *)
LEMMA ServeSets ==
  ASSUME TypeOK, LateOK, Serve
  PROVE  /\ elapsed' \in 0..MaxTime
         /\ left' \in (-MaxTime)..MaxTime
         /\ th' \in {"wait", "timed"}
         /\ pos' \in [Busses -> 0..MaxEvents]
         /\ sent' \in [Busses -> SUBSET Nat]
         /\ raced' \in BOOLEAN /\ early' \in BOOLEAN
<1> USE OscAssumption
<1>1. Elapsed \in 0..MaxTime /\ NextWake \in (-MaxTime)..MaxTime /\ NextWake <= 0
  BY DEF Serve, Awake, Elapsed, NextWake, TypeOK, LateOK
<1>2. Now \in Nat
  BY <1>1 DEF Now, TypeOK
<1>3. pos' \in [Busses -> 0..MaxEvents] /\ \A b \in Busses : pos'[b] \in Played(b)
  BY DEF Serve, SendDue
<1>4. raced' \in BOOLEAN /\ early' \in BOOLEAN
  BY DEF Serve, SendDue
<1>5. sent' \in [Busses -> SUBSET Nat]
  <2>1. sent' = [b \in Busses |-> IF dirty[b] THEN {}
                                  ELSE sent[b] \union (pos[b]+1..pos'[b])]
    BY DEF Serve, SendDue
  <2>2. ASSUME NEW b \in Busses PROVE pos[b]+1..pos'[b] \subseteq Nat
    BY <1>3 DEF TypeOK
  <2> QED BY <2>1, <2>2 DEF TypeOK
<1>6. CASE \A b \in busses : ~Behind(b)
  <2>1. SleepOn
    BY <1>6 DEF Serve, Sleep
  <2> QED BY <2>1, <1>3, <1>4, <1>5 DEF SleepOn
<1>7. ASSUME NEW b \in busses, Behind(b), left' = NextWake + NextTime(b) - Now,
             th' = "timed", elapsed' = Elapsed
      PROVE  left' \in (-MaxTime)..MaxTime
  <2>1. b \in Busses /\ pos'[b] \in 0..MaxEvents /\ pos'[b] < Len(events[b])
    BY <1>3, <1>7 DEF Behind, TypeOK
  <2>2. events[b] \in Seq(0..MaxTime)
    BY <2>1 DEF TypeOK
  <2>3. NextTime(b) \in 0..MaxTime
    BY <2>1, <2>2 DEF NextTime
  <2>4. pos[b] <= Len(events[b])
    BY <1>3, <2>1, <2>2 DEF Played, TypeOK
  <2>5. ~Due(NextTime(b))
    BY <1>3, <1>7, <2>1, <2>2, <2>4 DEF Played, NextTime
  <2> QED BY <1>1, <1>2, <1>7, <2>3, <2>5 DEF Due
<1>8. \/ \A b \in busses : ~Behind(b)
      \/ \E b \in busses : /\ Behind(b) /\ left' = NextWake + NextTime(b) - Now
                           /\ th' = "timed" /\ elapsed' = Elapsed
  BY DEF Serve, Sleep
<1> QED BY <1>1, <1>3, <1>4, <1>5, <1>6, <1>7, <1>8

(* After it the thread sleeps no longer than to the first event not sent. *)
LEMMA ServeSleeps ==
  ASSUME TypeOK, LateOK, Serve, NEW b \in busses, pos'[b] < Len(events[b])
  PROVE  /\ th' = "timed"
         /\ locate_pos_sec < events[b][pos'[b] + 1]
         /\ locate_pos_sec + elapsed' + left' <= events[b][pos'[b] + 1]
<1> USE OscAssumption
<1>1. Elapsed \in 0..MaxTime /\ NextWake \in (-MaxTime)..MaxTime /\ NextWake <= 0
  BY DEF Serve, Awake, Elapsed, NextWake, TypeOK, LateOK
<1>2. Behind(b)
  BY DEF Behind
<1>3. PICK c \in busses : /\ Behind(c) /\ First(c) /\ th' = "timed"
                          /\ elapsed' = Elapsed
                          /\ left' = NextWake + NextTime(c) - Now
  BY <1>2 DEF Serve, Sleep
<1>4. b \in Busses /\ c \in Busses
  BY DEF TypeOK
<1>5. pos' \in [Busses -> 0..MaxEvents] /\ \A d \in Busses : pos'[d] \in Played(d)
  BY DEF Serve, SendDue
<1>6. events[b] \in Seq(0..MaxTime) /\ events[c] \in Seq(0..MaxTime)
  BY <1>4 DEF TypeOK
<1>7. NextTime(b) \in 0..MaxTime /\ NextTime(c) \in 0..MaxTime
  <2>1. pos'[b] \in Nat /\ pos'[c] \in Nat
    BY <1>4, <1>5
  <2>2. pos'[b] + 1 \in 1..Len(events[b])
    BY <1>2, <1>6, <2>1 DEF Behind
  <2>3. pos'[c] + 1 \in 1..Len(events[c])
    BY <1>3, <1>6, <2>1 DEF Behind
  <2> QED BY <1>6, <2>2, <2>3, ElementOfList DEF NextTime
<1>8. NextTime(c) <= NextTime(b)
  BY <1>2, <1>3, <1>4 DEF First
<1>9. pos[b] <= Len(events[b])
  <2>1. pos[b] \in Nat /\ Len(events[b]) \in Nat /\ pos'[b] \in Played(b)
    BY <1>4, <1>5, <1>6 DEF TypeOK
  <2> QED BY <2>1 DEF Played
<1>10. ~Due(NextTime(b))
  BY <1>4, <1>5, <1>6, <1>9 DEF Played, NextTime
<1>11. locate_pos_sec \in 0..MaxTime
  BY DEF TypeOK
<1>12. Now = Elapsed + locate_pos_sec
  BY DEF Now
<1>13. locate_pos_sec < NextTime(b)
  BY <1>1, <1>7, <1>10, <1>11, <1>12 DEF Due
<1>14. locate_pos_sec + elapsed' + left' <= NextTime(b)
  BY <1>1, <1>3, <1>7, <1>8, <1>11, <1>12
<1> QED BY <1>3, <1>13, <1>14 DEF NextTime

-----------------------------------------------------------------------------
LEMMA InitIInv == Init => IInv
<1> SUFFICES ASSUME Init PROVE IInv
  OBVIOUS
<1>1. TypeOK
  <2>1. <<>> \in Seq(0..MaxTime)
    OBVIOUS
  <2>2. adding \in [bus : SUBSET Busses, times : Seq(0..MaxTime)]
    BY <2>1 DEF Init, Nothing
  <2>3. /\ events \in [Busses -> Seq(0..MaxTime)] /\ pos \in [Busses -> 0..MaxEvents]
        /\ sent \in [Busses -> SUBSET Nat] /\ dirty \in [Busses -> BOOLEAN]
    BY <2>1, OscAssumption DEF Init
  <2>4. 0 \in 0..MaxTime /\ 0 \in (-MaxTime)..MaxTime /\ 0 \in 0..MaxWakes
    BY OscAssumption
  <2> QED BY <2>2, <2>3, <2>4 DEF Init, TypeOK
<1>2. \A b \in Busses : SleepOK(b)
  BY DEF Init, SleepOK, Sleeps
<1> QED BY <1>1, <1>2 DEF Init, IInv, LateOK, AddOK

LEMMA NextTypeOK ==
  ASSUME IInv, [Next]_vars
  PROVE  TypeOK' /\ LateOK'
<1> USE OscAssumption DEF TypeOK, LateOK, IInv
<1>1. ASSUME NEW b \in Busses, CreateBus(b) PROVE TypeOK' /\ LateOK'
  BY <1>1 DEF CreateBus, uiVars, playVars, clockVars
<1>2. ASSUME NEW b \in Busses, RemoveBus(b) PROVE TypeOK' /\ LateOK'
  <2>1. <<>> \in Seq(0..MaxTime)
    OBVIOUS
  <2> QED BY <1>2, <2>1 DEF RemoveBus, uiVars, playVars, clockVars
<1>3. ASSUME NEW b \in Busses, NEW ts \in Lists, Clear(b, ts) PROVE TypeOK' /\ LateOK'
  <2>1. <<>> \in Seq(0..MaxTime) /\ ts \in Seq(0..MaxTime)
    OBVIOUS
  <2> QED BY <1>3, <2>1 DEF Clear, playVars, clockVars
<1>4. ASSUME NEW b \in Busses, Append1(b), adding.times # <<>>
      PROVE  /\ events' \in [Busses -> Seq(0..MaxTime)]
             /\ Tail(adding.times) \in Seq(0..MaxTime)
  <2>1. adding.times \in Seq(0..MaxTime) /\ events[b] \in Seq(0..MaxTime)
    OBVIOUS
  <2>2. Head(adding.times) \in 0..MaxTime /\ Tail(adding.times) \in Seq(0..MaxTime)
    BY <1>4, <2>1
  <2>3. Append(events[b], Head(adding.times)) \in Seq(0..MaxTime)
    BY <2>1, <2>2
  <2> QED BY <1>4, <2>2, <2>3 DEF Append1
<1>5. ASSUME NEW b \in Busses, Add(b) PROVE TypeOK' /\ LateOK'
  BY <1>4, <1>5 DEF Add, playVars, clockVars, seenVars
<1>6. ASSUME NEW b \in Busses, AddBad(b) PROVE TypeOK' /\ LateOK'
  <2>1. Nothing \in [bus : SUBSET Busses, times : Seq(0..MaxTime)]
    BY DEF Nothing
  <2> QED BY <1>4, <1>6, <2>1 DEF AddBad, playVars, clockVars, seenVars
<1>7. ASSUME NEW b \in Busses, Sort(b) PROVE TypeOK' /\ LateOK'
  <2>1. Nothing \in [bus : SUBSET Busses, times : Seq(0..MaxTime)]
    BY DEF Nothing
  <2>2. PICK p \in [1..Len(events[b]) -> 1..Len(events[b])] :
          events' = [events EXCEPT ![b] = Rearranged(@, p)]
    BY <1>7 DEF Sort
  <2>3. events[b] \in Seq(0..MaxTime)
    OBVIOUS
  <2>4. Rearranged(events[b], p) \in Seq(0..MaxTime)
    <3>1. Len(events[b]) \in Nat
      BY <2>3
    <3>2. \A i \in 1..Len(events[b]) : events[b][p[i]] \in 0..MaxTime
      BY <2>3, ElementOfList
    <3> QED BY <3>1, <3>2 DEF Rearranged
  <2>5. events' \in [Busses -> Seq(0..MaxTime)]
    BY <2>2, <2>4
  <2> QED BY <1>7, <2>1, <2>5 DEF Sort, playVars, clockVars, seenVars
<1>8. ASSUME NEW p \in Positions, Locate(p) PROVE TypeOK' /\ LateOK'
  BY <1>8 DEF Locate, busVars, clockVars, seenVars
<1>9. CASE Play
  BY <1>9 DEF Play, busVars, playVars, clockVars, seenVars
<1>10. CASE Seek
  <2>1. /\ sent' = [b \in Busses |-> {}] /\ dirty' = [b \in Busses |-> FALSE]
        /\ pos' \in [Busses -> 0..MaxEvents]
        /\ ui' \in {"go", "signal"} /\ starting' = FALSE
        /\ from' = locate_pos_sec /\ ran' = 0
    BY <1>10 DEF Seek
  <2> QED BY <1>10, <2>1 DEF Seek, playVars, clockVars
<1>11. ASSUME NEW on \in BOOLEAN, SetPlaying(on) PROVE TypeOK' /\ LateOK'
  BY <1>11 DEF SetPlaying, busVars, uiVars, clockVars, seenVars
<1>12. CASE Signal
  BY <1>12 DEF Signal, Waiting, busVars, uiVars, playVars, clockVars
<1>13. CASE Timeout
  BY <1>13 DEF Timeout, Expired, busVars, uiVars, playVars, clockVars, seenVars
<1>14. CASE Crash
  BY <1>14 DEF Crash, busVars, uiVars, playVars, clockVars, seenVars
<1>15. CASE Serve
  <2>1. UNCHANGED <<busses, events, ui, uiVars, playVars, wakes, from, ran, dirty>>
    BY <1>15 DEF Serve
  <2> QED BY <1>15, <2>1, ServeSets DEF uiVars, playVars
<1>16. CASE ServeNothing
  BY <1>16 DEF ServeNothing, SleepOn, busVars, uiVars, playVars, seenVars
<1>17. CASE Wake
  BY <1>17 DEF Wake, busVars, uiVars, playVars, seenVars
<1>18. CASE Tick
  <2>1. elapsed' \in 0..MaxTime /\ left' \in (-MaxTime)..MaxTime /\ ran' \in 0..MaxTime
    BY <1>18 DEF Tick, Upto
  <2>2. LateOK'
    BY <1>18, <2>1 DEF Tick, Counting
  <2> QED BY <1>18, <2>1, <2>2 DEF Tick, busVars, uiVars, playVars
<1>19. CASE UNCHANGED vars
  BY <1>19 DEF vars, busVars, uiVars, playVars, clockVars, seenVars
<1> QED BY <1>1, <1>2, <1>3, <1>5, <1>6, <1>7, <1>8, <1>9, <1>10, <1>11, <1>12,
           <1>13, <1>14, <1>15, <1>16, <1>17, <1>18, <1>19
       DEF Next, User, Handler, Thread

(* The parts that say how long the thread sleeps. *)
LEMMA NextSleepOK ==
  ASSUME IInv, [Next]_vars
  PROVE  AddOK' /\ \A b \in Busses : SleepOK(b)'
<1> USE DEF IInv
<1>1. ASSUME NEW c \in Busses, CreateBus(c) PROVE AddOK' /\ \A b \in Busses : SleepOK(b)'
  BY <1>1 DEF CreateBus, TypeOK, AddOK, SleepOK, Sleeps, uiVars, playVars, clockVars
<1>2. ASSUME NEW c \in Busses, RemoveBus(c) PROVE AddOK' /\ \A b \in Busses : SleepOK(b)'
  BY <1>2 DEF RemoveBus, TypeOK, AddOK, SleepOK, Sleeps, uiVars, playVars, clockVars
<1>3. ASSUME NEW c \in Busses, NEW ts \in Lists, Clear(c, ts)
      PROVE  AddOK' /\ \A b \in Busses : SleepOK(b)'
  BY <1>3 DEF Clear, TypeOK, AddOK, SleepOK, Sleeps, playVars, clockVars
<1>4. ASSUME NEW c \in Busses, Add(c) \/ AddBad(c) \/ Sort(c)
      PROVE  AddOK' /\ \A b \in Busses : SleepOK(b)'
  <2>1. /\ ui = "add" /\ adding.bus = {c}
        /\ dirty' = dirty /\ pos' = pos /\ busses' = busses /\ th' = th
        /\ playing_osc' = playing_osc /\ locate_pos_sec' = locate_pos_sec
        /\ elapsed' = elapsed /\ left' = left
    BY <1>4 DEF Add, AddBad, Sort, playVars, clockVars, seenVars
  <2>2. dirty[c]
    BY <2>1 DEF AddOK
  <2>3. \A b \in Busses \ {c} : events'[b] = events[b]
    BY <1>4 DEF Add, AddBad, Sort, Append1, TypeOK
  <2>4. ui' = "idle" \/ (ui' = "add" /\ adding'.bus = adding.bus)
    BY <1>4 DEF Add, AddBad, Sort, TypeOK
  <2>5. AddOK'
    BY <2>1, <2>4 DEF AddOK
  <2> QED BY <2>1, <2>2, <2>3, <2>4, <2>5 DEF SleepOK, Sleeps
<1>5. ASSUME NEW p \in Positions, Locate(p) PROVE AddOK' /\ \A b \in Busses : SleepOK(b)'
  BY <1>5 DEF Locate, AddOK, SleepOK, Sleeps
<1>6. CASE Play
  BY <1>6 DEF Play, AddOK, SleepOK, Sleeps
<1>7. CASE Seek
  BY <1>7 DEF Seek, AddOK, SleepOK, Sleeps
<1>8. ASSUME NEW on \in BOOLEAN, SetPlaying(on) PROVE AddOK' /\ \A b \in Busses : SleepOK(b)'
  BY <1>8 DEF SetPlaying, AddOK, SleepOK, Sleeps
<1>9. CASE Signal
  BY <1>9 DEF Signal, Waiting, AddOK, SleepOK, Sleeps
<1>10. CASE Timeout \/ Crash \/ Wake
  BY <1>10 DEF Timeout, Crash, Wake, AddOK, SleepOK, Sleeps, busVars, uiVars, playVars, seenVars
<1>11. CASE Serve
  <2>1. /\ busses' = busses /\ events' = events /\ dirty' = dirty /\ ui' = ui
        /\ adding' = adding /\ locate_pos_sec' = locate_pos_sec
    BY <1>11 DEF Serve, uiVars, playVars
  <2>2. AddOK'
    BY <2>1 DEF AddOK
  <2>3. ASSUME NEW b \in Busses, Sleeps(b)' PROVE SleepOK(b)'
    <3>1. b \in busses /\ pos'[b] < Len(events[b])
      BY <2>1, <2>3 DEF Sleeps
    <3> QED BY <1>11, <2>1, <3>1, ServeSleeps DEF SleepOK
  <2> QED BY <2>2, <2>3 DEF SleepOK
<1>12. CASE ServeNothing
  BY <1>12 DEF ServeNothing, AddOK, SleepOK, Sleeps, busVars, uiVars, playVars, seenVars
<1>13. CASE Tick
  <2>1. /\ busses' = busses /\ events' = events /\ pos' = pos /\ dirty' = dirty /\ ui' = ui
        /\ adding' = adding /\ locate_pos_sec' = locate_pos_sec /\ th' = th
        /\ playing_osc' = playing_osc
    BY <1>13 DEF Tick, busVars, uiVars, playVars
  <2>2. AddOK'
    BY <2>1 DEF AddOK
  <2>3. ASSUME NEW b \in Busses, Sleeps(b)' PROVE SleepOK(b)'
    <3>1. SleepOK(b) /\ Sleeps(b)
      BY <2>1, <2>3 DEF Sleeps
    <3>2. pos[b] + 1 \in 1..Len(events[b]) /\ events[b] \in Seq(0..MaxTime)
      BY <3>1 DEF Sleeps, TypeOK
    <3>3. events[b][pos[b] + 1] \in 0..MaxTime
      BY <3>2, ElementOfList
    <3>4. /\ locate_pos_sec \in 0..MaxTime /\ elapsed \in 0..MaxTime
          /\ left \in (-MaxTime)..MaxTime /\ MaxTime \in Nat
      BY OscAssumption DEF TypeOK
    <3>5. elapsed' \in 0..MaxTime
          /\ (elapsed' + left' <= elapsed + left \/ left' = -MaxTime \/ th # "timed")
      BY <1>13, <3>4 DEF Tick, Upto, Counting
    <3> QED BY <2>1, <3>1, <3>3, <3>4, <3>5, <1>13 DEF SleepOK, Tick
  <2> QED BY <2>2, <2>3 DEF SleepOK
<1>14. CASE UNCHANGED vars
  BY <1>14 DEF vars, busVars, uiVars, playVars, clockVars, seenVars, AddOK, SleepOK, Sleeps
<1> QED BY <1>1, <1>2, <1>3, <1>4, <1>5, <1>6, <1>7, <1>8, <1>9, <1>10, <1>11,
           <1>12, <1>13, <1>14
       DEF Next, User, Handler, Thread

LEMMA IInvInductive == Spec => []IInv
<1>1. IInv /\ [Next]_vars => IInv'
  BY NextTypeOK, NextSleepOK DEF IInv
<1> QED BY InitIInv, <1>1, PTL DEF Spec

-----------------------------------------------------------------------------
(* Every variable of the OSC player stays in its range, and its clocks stay *)
(* bounded by the time of the last event.                                   *)
THEOREM OscTypeCorrect == Spec => []TypeOK
<1>1. IInv => TypeOK
  BY DEF IInv
<1> QED BY IInvInductive, <1>1, PTL

(* osc_thread never sleeps past an event of a list that has not been rebuilt *)
(* since the last locate, however its wakeups, the signals and the changes   *)
(* of the lists fall.                                                        *)
THEOREM OscNeverOversleeps == Spec => []NeverOversleeps
<1>1. IInv => NeverOversleeps
  <2> SUFFICES ASSUME IInv, NEW b \in Busses, playing_osc, ui \in {"idle", "add"},
                      Oversleeps(b)
               PROVE  FALSE
    BY DEF NeverOversleeps
  <2>1. SleepOK(b) /\ Sleeps(b)
    BY DEF IInv, Sleeps, Oversleeps
  <2>2. pos[b] + 1 \in 1..Len(events[b]) /\ events[b] \in Seq(0..MaxTime)
    BY <2>1 DEF IInv, Sleeps, TypeOK
  <2>3. events[b][pos[b] + 1] \in 0..MaxTime
    BY <2>2, ElementOfList
  <2>4. locate_pos_sec + elapsed + left \in Int
    BY OscAssumption DEF IInv, TypeOK
  <2> QED BY <2>1, <2>3, <2>4, OscAssumption DEF SleepOK, Oversleeps
<1> QED BY IInvInductive, <1>1, PTL

-----------------------------------------------------------------------------
(* An event is due when it is not after what the thread takes for the score *)
(* position.  That is never ahead of the score: while the thread times a    *)
(* wait or has just timed out, and no locate is half done, the score plays, *)
(* and the thread has not counted longer than it has played.                *)
ClockOK ==
  ~raced /\ ~Passing /\ th \in {"timed", "late"} => playing_osc /\ elapsed <= ran

EarlyOK == ClockOK /\ NotEarly

LEMMA NextEarlyOK ==
  ASSUME IInv, EarlyOK, [Next]_vars
  PROVE  EarlyOK'
<1> USE OscAssumption
<1>t. TypeOK
  BY DEF IInv
<1>1. CASE User \/ (Handler /\ ~Signal)
  <2>1. /\ UNCHANGED <<th, elapsed, raced, early>>
        /\ Passing' \/ (UNCHANGED <<playing_osc, ran>> /\ ~Passing)
    BY <1>1 DEF User, Handler, CreateBus, RemoveBus, Clear, Add, AddBad, Sort, Locate, Play, Seek,
       SetPlaying, Passing, clockVars, playVars, seenVars
  <2> QED BY <1>1, <2>1 DEF EarlyOK, ClockOK, NotEarly
<1>2. CASE Signal
  <2>1. /\ th' = (IF Waiting THEN "woken" ELSE th) /\ raced' = (th = "late")
        /\ early' = (early /\ raced')
    BY <1>2, Zenon DEF Signal
  <2>2. ~raced' => th' \notin {"timed", "late"}
    BY <2>1 DEF Waiting
  <2> QED BY <2>1, <2>2 DEF EarlyOK, ClockOK, NotEarly
<1>3. CASE Timeout \/ Crash \/ ServeNothing \/ Wake
  BY <1>3 DEF Timeout, Crash, ServeNothing, SleepOn, Wake, Waiting, Passing, EarlyOK, ClockOK,
     NotEarly, playVars, clockVars, seenVars
<1>4. CASE Serve
  <2>1. /\ playing_osc /\ playing_osc' = playing_osc /\ ui' = ui /\ ran' = ran /\ Awake
        /\ raced' = (raced \/ locate_pos_sec # from \/ (th = "late" /\ Passing))
        /\ early' = (early \/ \E b \in Busses : \E i \in pos[b]+1..pos'[b] :
                                     events[b][i] > from + ran)
    BY <1>4, Zenon DEF Serve, SendDue, playVars
  <2> SUFFICES ASSUME ~raced' PROVE EarlyOK'
    BY <2>1 DEF EarlyOK, ClockOK, NotEarly
  <2>2. ~raced /\ locate_pos_sec = from /\ (th = "late" => ~Passing)
    BY <2>1
  <2>3. ran \in 0..MaxTime /\ elapsed \in 0..MaxTime /\ from \in 0..MaxTime
    BY <1>t DEF TypeOK
  <2>4. th = "late" \/ th = "woken"
    BY <2>1 DEF Awake
  <2>5. Elapsed \in Nat /\ Elapsed <= ran
    BY <2>2, <2>3, <2>4 DEF Elapsed, EarlyOK, ClockOK
  <2>6. ASSUME NEW b \in Busses, NEW i \in pos[b]+1..pos'[b]
        PROVE  ~(events[b][i] > from + ran)
    <3>1. pos'[b] \in Played(b) /\ pos'[b] \in 0..MaxEvents /\ pos[b] \in 0..MaxEvents
      BY <1>4, <1>t DEF Serve, SendDue, TypeOK
    <3>2. events[b] \in Seq(0..MaxTime)
      BY <1>t DEF TypeOK
    <3>3. pos'[b] # pos[b]
      BY <2>6, <3>1
    <3>4. /\ pos'[b] \in pos[b]..Len(events[b])
          /\ \A j \in pos[b]+1..pos'[b] : Due(events[b][j])
      BY <3>1, <3>3 DEF Played
    <3>5. i \in 1..Len(events[b]) /\ Due(events[b][i])
      BY <2>6, <3>1, <3>2, <3>4
    <3>6. events[b][i] \in 0..MaxTime
      BY <3>2, <3>5, ElementOfList
    <3> QED BY <2>2, <2>3, <2>5, <3>5, <3>6 DEF Due, Now
  <2>7. ~early'
    BY <2>1, <2>2, <2>6 DEF EarlyOK, NotEarly
  <2>8. th' \in {"timed", "late"} => elapsed' = Elapsed
    BY <1>4 DEF Serve, Sleep, SleepOn
  <2> QED BY <2>1, <2>5, <2>7, <2>8 DEF EarlyOK, ClockOK, NotEarly
<1>5. CASE Tick
  <2>1. /\ th' = th /\ ui' = ui /\ raced' = raced /\ early' = early /\ playing_osc' = playing_osc
        /\ elapsed' = (IF Counting THEN Upto(elapsed + 1) ELSE elapsed)
        /\ ran' = (IF playing_osc THEN Upto(ran + 1) ELSE ran)
    BY <1>5 DEF Tick, playVars
  <2>2. elapsed \in 0..MaxTime /\ ran \in 0..MaxTime
    BY <1>t DEF TypeOK
  <2>3. playing_osc /\ elapsed <= ran => elapsed' <= ran'
    BY <2>1, <2>2 DEF Upto
  <2> QED BY <2>1, <2>3 DEF EarlyOK, ClockOK, NotEarly, Passing
<1>6. CASE UNCHANGED vars
  BY <1>6 DEF vars, EarlyOK, ClockOK, NotEarly, Passing, playVars, clockVars, seenVars
<1> QED BY <1>1, <1>2, <1>3, <1>4, <1>5, <1>6 DEF Next, Handler, Thread

(* No event is sent before the score has come to it: the thread's clock is  *)
(* never ahead of the time since the last signal, unless the thread has run *)
(* amid a locate or has timed out before the signal came.                   *)
THEOREM OscNotEarly == Spec => []NotEarly
<1>1. Init => EarlyOK
  BY DEF Init, EarlyOK, ClockOK, NotEarly
<1>2. EarlyOK => NotEarly
  BY DEF EarlyOK
<1> QED BY <1>1, <1>2, NextEarlyOK, IInvInductive, PTL DEF Spec

-----------------------------------------------------------------------------
(* A sorted list not rebuilt since the last locate: what has been sent is   *)
(* what lies between the position located to and the position in the list,  *)
(* and nothing before the former is still to come.                          *)
SentOK(b) ==
  b \in busses /\ ~dirty[b] /\ Sorted(events[b]) =>
    /\ sent[b] = {i \in 1..pos[b] : events[b][i] >= from}
    /\ \A i \in 1..Len(events[b]) : i > pos[b] => events[b][i] >= from

(* A step that leaves a bus alone, or its list marked as rebuilt. *)
LEMMA SentKept ==
  ASSUME NEW b, SentOK(b), from' = from,
         \/ b \notin busses' \/ dirty'[b]
         \/ /\ b \in busses /\ dirty'[b] = dirty[b] /\ events'[b] = events[b]
            /\ pos'[b] = pos[b] /\ sent'[b] = sent[b]
  PROVE  SentOK(b)'
BY DEF SentOK, Sorted

(* Seeking in a sorted list splits it at the position. *)
LEMMA SeekSplits ==
  ASSUME TypeOK, NEW b \in Busses, Sorted(events[b]), NEW k \in Searched(b)
  PROVE  /\ k \in Nat
         /\ \A i \in 1..k : ~(events[b][i] >= locate_pos_sec)
         /\ \A i \in 1..Len(events[b]) : i > k => events[b][i] >= locate_pos_sec
<1> USE OscAssumption
<1>1. events[b] \in Seq(0..MaxTime) /\ locate_pos_sec \in 0..MaxTime
  BY DEF TypeOK
<1>2. Len(events[b]) \in Nat /\ \A i \in 1..Len(events[b]) : events[b][i] \in 0..MaxTime
  BY <1>1, ElementOfList
<1>3. /\ k \in 0..Len(events[b])
      /\ \A i \in 1..k : events[b][i] < locate_pos_sec
      /\ k < Len(events[b]) => ~(events[b][k + 1] < locate_pos_sec)
  BY DEF Searched, Before
<1>4. ASSUME NEW i \in 1..k PROVE ~(events[b][i] >= locate_pos_sec)
  <2>1. i \in 1..Len(events[b]) /\ events[b][i] < locate_pos_sec
    BY <1>2, <1>3
  <2>2. events[b][i] \in 0..MaxTime
    BY <1>2, <2>1
  <2> QED BY <1>1, <2>1, <2>2
<1>5. ASSUME NEW i \in 1..Len(events[b]), i > k PROVE events[b][i] >= locate_pos_sec
  <2>1. k + 1 \in 1..Len(events[b]) /\ k < Len(events[b]) /\ (k + 1 = i \/ k + 1 < i)
    BY <1>2, <1>3, <1>5
  <2>2. events[b][k + 1] <= events[b][i]
    BY <1>2, <2>1 DEF Sorted
  <2> QED BY <1>1, <1>2, <1>3, <2>1, <2>2
<1> QED BY <1>2, <1>3, <1>4, <1>5

LEMMA NextSentOK ==
  ASSUME IInv, \A b \in Busses : SentOK(b), [Next]_vars
  PROVE  \A b \in Busses : SentOK(b)'
<1> USE OscAssumption
<1>t. TypeOK /\ AddOK
  BY DEF IInv
<1> SUFFICES ASSUME NEW b \in Busses PROVE SentOK(b)'
  OBVIOUS
<1>1. ASSUME NEW c \in Busses, CreateBus(c) PROVE SentOK(b)'
  <2>1. /\ busses' = busses \union {c} /\ dirty'[c] = TRUE /\ from' = from
        /\ (b # c => dirty'[b] = dirty[b])
        /\ UNCHANGED <<events, pos, sent>>
    BY <1>1, <1>t DEF CreateBus, TypeOK
  <2> QED BY <2>1, SentKept
<1>2. ASSUME NEW c \in Busses, RemoveBus(c) PROVE SentOK(b)'
  <2>1. busses' = busses \ {c} /\ from' = from
        /\ (b # c => /\ dirty'[b] = dirty[b] /\ events'[b] = events[b]
                     /\ pos'[b] = pos[b] /\ sent'[b] = sent[b])
    BY <1>2, <1>t DEF RemoveBus, TypeOK
  <2> QED BY <2>1, SentKept
<1>3. ASSUME NEW c \in Busses, NEW ts \in Lists, Clear(c, ts) PROVE SentOK(b)'
  <2>1. busses' = busses /\ from' = from /\ dirty'[c] /\ pos' = pos
        /\ (b # c => dirty'[b] = dirty[b] /\ events'[b] = events[b] /\ sent'[b] = sent[b])
    BY <1>3, <1>t DEF Clear, TypeOK
  <2> QED BY <2>1, SentKept
<1>4. ASSUME NEW c \in Busses, Add(c) \/ AddBad(c) \/ Sort(c) PROVE SentOK(b)'
  <2>1. /\ ui = "add" /\ adding.bus = {c}
        /\ UNCHANGED <<busses, pos, from, sent, dirty>>
        /\ (b # c => events'[b] = events[b])
    BY <1>4, <1>t DEF Add, AddBad, Sort, Append1, TypeOK, seenVars
  <2>2. dirty[c]
    BY <1>t, <2>1 DEF AddOK
  <2> QED BY <2>1, <2>2, SentKept
<1>5. CASE (\E p \in Positions : Locate(p)) \/ Play \/ SetPlaying(TRUE) \/ SetPlaying(FALSE)
  BY <1>5, SentKept DEF Locate, Play, SetPlaying, busVars, seenVars
<1>6. CASE Seek
  <2>1. /\ busses' = busses /\ events' = events /\ from' = locate_pos_sec /\ sent'[b] = {}
        /\ (b \in busses => pos'[b] \in Searched(b))
    BY <1>6 DEF Seek
  <2> SUFFICES ASSUME b \in busses, Sorted(events[b]) PROVE SentOK(b)'
    BY <2>1 DEF SentOK, Sorted
  <2>2. /\ \A i \in 1..pos'[b] : ~(events[b][i] >= locate_pos_sec)
        /\ \A i \in 1..Len(events[b]) : i > pos'[b] => events[b][i] >= locate_pos_sec
    BY <1>t, <2>1, SeekSplits
  <2> QED BY <2>1, <2>2 DEF SentOK
<1>7. CASE Signal \/ Timeout \/ Crash \/ ServeNothing \/ Wake \/ Tick
  BY <1>7, SentKept DEF Signal, Timeout, Crash, ServeNothing, Wake, Tick, busVars, seenVars
<1>8. CASE Serve
  <2>1. /\ UNCHANGED <<busses, events, from, dirty>>
        /\ pos'[b] \in Played(b)
        /\ sent'[b] = IF dirty[b] THEN {} ELSE sent[b] \union (pos[b]+1..pos'[b])
    BY <1>8 DEF Serve, SendDue
  <2> SUFFICES ASSUME b \in busses, ~dirty[b], Sorted(events[b]) PROVE SentOK(b)'
    BY <2>1 DEF SentOK, Sorted
  <2>2. events[b] \in Seq(0..MaxTime) /\ pos[b] \in Nat
    BY <1>t DEF TypeOK
  <2>3. /\ sent[b] = {i \in 1..pos[b] : events[b][i] >= from}
        /\ \A i \in 1..Len(events[b]) : i > pos[b] => events[b][i] >= from
    BY DEF SentOK
  <2>4. pos'[b] \in Nat /\ pos[b] <= pos'[b] /\ (pos'[b] = pos[b] \/ pos'[b] <= Len(events[b]))
    BY <2>1, <2>2 DEF Played
  <2>5. \A i \in 1..Len(events[b]) : i > pos'[b] => events[b][i] >= from
    BY <2>2, <2>3, <2>4
  <2>6. \A i \in pos[b]+1..pos'[b] : events[b][i] >= from
    <3> SUFFICES ASSUME NEW i \in pos[b]+1..pos'[b] PROVE events[b][i] >= from
      OBVIOUS
    <3>1. i \in 1..Len(events[b]) /\ i > pos[b]
      BY <2>2, <2>4
    <3> QED BY <2>3, <3>1
  <2>7. sent'[b] = sent[b] \union (pos[b]+1..pos'[b])
    BY <2>1
  <2>8. sent'[b] = {i \in 1..pos'[b] : events[b][i] >= from}
    <3>1. 1..pos'[b] = (1..pos[b]) \union (pos[b]+1..pos'[b])
      BY <2>2, <2>4
    <3> QED BY <2>3, <2>6, <2>7, <3>1
  <2> QED BY <2>1, <2>5, <2>8 DEF SentOK
<1>9. CASE UNCHANGED vars
  BY <1>9, SentKept DEF vars, busVars, seenVars
<1> QED BY <1>1, <1>2, <1>3, <1>4, <1>5, <1>6, <1>7, <1>8, <1>9
       DEF Next, User, Handler, Thread

(* From a locate on, each event from that position on is sent exactly once, *)
(* as far as its list has been played, and none from before it.             *)
THEOREM OscSentOnce == Spec => []SentOnce
<1> DEFINE AllSentOK == \A b \in Busses : SentOK(b)
<1>1. Init => AllSentOK
  BY DEF Init, SentOK
<1>2. IInv /\ AllSentOK /\ [Next]_vars => AllSentOK'
  BY NextSentOK
<1>3. IInv /\ AllSentOK => SentOnce
  BY DEF IInv, TypeOK, SentOK, SentOnce
<1> HIDE DEF AllSentOK
<1> QED BY <1>1, <1>2, <1>3, IInvInductive, PTL DEF Spec
===============================================================================
