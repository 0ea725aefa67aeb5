-------------------------------- MODULE OscOut --------------------------------
(***************************************************************************)
(* Playing events as OSC messages: a thread of its own sleeps until the    *)
(* next event of any bus and is woken by a signal when the user plays,     *)
(* stops or locates; the user interface (UI thread) makes and removes      *)
(* busses and rebuilds their event lists.                                  *)
(*                                                                         *)
(* The thread keeps no position, only the time of its last signal (start), *)
(* and adds to locate_pos_sec what has passed since.  Clocks are kept as   *)
(* differences: elapsed is now - start and left is next - now.  Times are  *)
(* whole ticks; the half millisecond of tolerance is less than one tick.   *)
(* What a thread does while it holds osc_lock is one action.               *)
(***************************************************************************)
EXTENDS Integers, Sequences

CONSTANTS
  Busses,     \* OSC busses
  Lists,      \* what OscBus.generate may add: sequences of event times
  MaxEvents,  \* the longest of them
  Positions,  \* where the user may locate to
  MaxTime,    \* no event is later; clocks are not counted beyond this
  MaxWakes    \* wakeups without a signal, which POSIX allows

ASSUME OscAssumption ==
  /\ MaxTime \in Nat /\ MaxWakes \in Nat /\ MaxEvents \in Nat
  /\ Lists \subseteq Seq(0..MaxTime) /\ \A ts \in Lists : Len(ts) <= MaxEvents
  /\ Positions \subseteq 0..MaxTime /\ 0 \in Positions

VARIABLES
  busses,          \* the list osc_busses
  events, pos,     \* of each bus: the list of times, how far it has been sent
  ui,              \* where the UI thread is
  starting,        \* it is in set_play_state(1)
  adding,          \* what generate has still to add: a bus and a list
  playing_osc, locate_pos_sec,
  th,              \* the thread: in a wait, woken from it, or crashed
  elapsed, left,   \* since start, until next
  wakes,           \* wakeups without a signal so far
  from, ran,       \* where the last locate led to, time since its signal
  sent,            \* of each bus: the indices sent since that locate ...
  dirty,           \* ... if its list has not been rebuilt since
  raced, early     \* the thread ran amid a locate; an event came too early

busVars   == <<busses, events, pos>>
uiVars    == <<starting, adding>>
playVars  == <<playing_osc, locate_pos_sec>>
clockVars == <<elapsed, left, wakes>>
seenVars  == <<from, ran, sent, dirty, raced, early>>
vars == <<busVars, ui, uiVars, playVars, th, clockVars, seenVars>>

Nothing == [bus |-> {}, times |-> <<>>]
Upto(n) == IF n < MaxTime THEN n ELSE MaxTime

(* Every variable stays in its range; the clocks stay bounded. *)
TypeOK ==
  /\ busses \subseteq Busses
  /\ events \in [Busses -> Seq(0..MaxTime)] /\ pos \in [Busses -> 0..MaxEvents]
  /\ ui \in {"idle", "seek", "go", "signal", "add"}
  /\ starting \in BOOLEAN
  /\ adding \in [bus : SUBSET Busses, times : Seq(0..MaxTime)]
  /\ playing_osc \in BOOLEAN /\ locate_pos_sec \in 0..MaxTime
  /\ th \in {"wait", "timed", "woken", "late", "crashed"}
  /\ elapsed \in 0..MaxTime /\ left \in (-MaxTime)..MaxTime
  /\ wakes \in 0..MaxWakes
  /\ from \in 0..MaxTime /\ ran \in 0..MaxTime
  /\ sent \in [Busses -> SUBSET Nat] /\ dirty \in [Busses -> BOOLEAN]
  /\ raced \in BOOLEAN /\ early \in BOOLEAN

(* f_init starts the thread, which waits for its first signal. *)
Init ==
  /\ busses = {} /\ events = [b \in Busses |-> <<>>] /\ pos = [b \in Busses |-> 0]
  /\ ui = "idle" /\ starting = FALSE /\ adding = Nothing
  /\ playing_osc = FALSE /\ locate_pos_sec = 0
  /\ th = "wait" /\ elapsed = 0 /\ left = 0 /\ wakes = 0
  /\ from = 0 /\ ran = 0
  /\ sent = [b \in Busses |-> {}] /\ dirty = [b \in Busses |-> FALSE]
  /\ raced = FALSE /\ early = FALSE

Alive == th # "crashed"

-----------------------------------------------------------------------------
(* The UI thread.  A bus is made without a list, and removed with it. *)
CreateBus(b) ==
  /\ Alive /\ ui = "idle" /\ b \notin busses
  /\ busses' = busses \union {b}
  /\ dirty' = [dirty EXCEPT ![b] = TRUE]
  /\ UNCHANGED <<events, pos, sent, ui, uiVars, playVars, th, clockVars, from, ran, raced, early>>

RemoveBus(b) ==
  /\ Alive /\ ui = "idle" /\ b \in busses
  /\ busses' = busses \ {b}
  /\ events' = [events EXCEPT ![b] = <<>>] /\ pos' = [pos EXCEPT ![b] = 0]
  /\ sent' = [sent EXCEPT ![b] = {}] /\ dirty' = [dirty EXCEPT ![b] = FALSE]
  /\ UNCHANGED <<ui, uiVars, playVars, th, clockVars, from, ran, raced, early>>

(* OscBus.generate: the list is cleared, pos stays, *)
Clear(b, ts) ==
  /\ Alive /\ ui = "idle" /\ b \in busses
  /\ ui' = "add" /\ adding' = [bus |-> {b}, times |-> ts]
  /\ events' = [events EXCEPT ![b] = <<>>]
  /\ dirty' = [dirty EXCEPT ![b] = TRUE] /\ sent' = [sent EXCEPT ![b] = {}]
  /\ UNCHANGED <<busses, pos, starting, playVars, th, clockVars,
                 from, ran, raced, early>>

(* the events are added one by one, *)
Append1(b) == events' = [events EXCEPT ![b] = Append(@, Head(adding.times))]

Add(b) ==
  /\ Alive /\ ui = "add" /\ adding.bus = {b} /\ adding.times # <<>>
  /\ Append1(b)
  /\ adding' = [adding EXCEPT !.times = Tail(@)]
  /\ UNCHANGED <<busses, pos, ui, starting, playVars, th, clockVars, seenVars>>

(* where an argument of the wrong type ends generate, but not before the    *)
(* event has been counted,                                                  *)
AddBad(b) ==
  /\ Alive /\ ui = "add" /\ adding.bus = {b} /\ adding.times # <<>>
  /\ Append1(b)
  /\ ui' = "idle" /\ adding' = Nothing
  /\ UNCHANGED <<busses, pos, starting, playVars, th, clockVars, seenVars>>

(* and sorted: those at the same time in any order. *)
Sorted(list) == \A i, j \in 1..Len(list) : i < j => list[i] <= list[j]

Rearranged(list, p) == [i \in 1..Len(list) |-> list[p[i]]]

Sort(b) ==
  /\ Alive /\ ui = "add" /\ adding.bus = {b} /\ adding.times = <<>>
  /\ \E p \in [1..Len(events[b]) -> 1..Len(events[b])] :
       /\ \A i, j \in 1..Len(events[b]) : p[i] = p[j] => i = j
       /\ Sorted(Rearranged(events[b], p))
       /\ events' = [events EXCEPT ![b] = Rearranged(@, p)]
  /\ ui' = "idle" /\ adding' = Nothing
  /\ UNCHANGED <<busses, pos, starting, playVars, th, clockVars, seenVars>>

(* f_locate writes the position without a lock; f_set_play_state(1) starts  *)
(* from the last one.                                                       *)
Locate(p) ==
  /\ Alive /\ ui = "idle" /\ ui' = "seek"
  /\ locate_pos_sec' = p /\ starting' = FALSE
  /\ UNCHANGED <<busVars, adding, playing_osc, th, clockVars, seenVars>>

Play ==
  /\ Alive /\ ui = "idle" /\ ui' = "seek" /\ starting' = TRUE
  /\ UNCHANGED <<busVars, adding, playVars, th, clockVars, seenVars>>

(* do_locate searches every list (mutant: past the events at the position   *)
(* itself),                                                                 *)
Before_OrAt(t) == t <= locate_pos_sec
Before(t) == t < locate_pos_sec

Searched(b) ==
  {k \in 0..Len(events[b]) :
     /\ \A i \in 1..k : Before(events[b][i])
     /\ k < Len(events[b]) => ~Before(events[b][k + 1])}

Seek ==
  /\ Alive /\ ui = "seek" /\ ui' = (IF starting THEN "go" ELSE "signal")
  /\ starting' = FALSE
  /\ pos' \in [Busses -> 0..MaxEvents]
  /\ \A b \in Busses : IF b \in busses THEN pos'[b] \in Searched(b)
                                       ELSE pos'[b] = pos[b]
  /\ from' = locate_pos_sec /\ ran' = 0
  /\ sent' = [b \in Busses |-> {}]
  /\ dirty' = [b \in Busses |-> FALSE]
  /\ UNCHANGED <<busses, events, adding, playVars, th, clockVars, raced, early>>

(* playing_osc is written without a lock, *)
SetPlaying(on) ==
  /\ Alive /\ ui = (IF on THEN "go" ELSE "idle") /\ ui' = "signal"
  /\ playing_osc' = on
  /\ UNCHANGED <<busVars, uiVars, locate_pos_sec, th, clockVars, seenVars>>

(* and the signal comes last; it is lost on a thread that is not waiting.   *)
Waiting == th \in {"wait", "timed"}

Signal ==
  /\ Alive /\ ui = "signal" /\ ui' = "idle"
  /\ th' = IF Waiting THEN "woken" ELSE th
  /\ raced' = (th = "late")
  /\ early' = (early /\ raced')
  /\ ran' = 0
  /\ UNCHANGED <<busVars, uiVars, playVars, clockVars, from, sent, dirty>>

-----------------------------------------------------------------------------
(* The thread.  It leaves a wait at its time, at once if that has passed    *)
(* (mutant: never then), or for no reason.                                  *)
Expired_JustNow == left = 0
Expired == left <= 0

Timeout ==
  /\ th = "timed" /\ Expired /\ th' = "late"
  /\ UNCHANGED <<busVars, ui, uiVars, playVars, clockVars, seenVars>>

Wake ==
  /\ Waiting /\ wakes < MaxWakes
  /\ th' = "woken" /\ wakes' = wakes + 1
  /\ UNCHANGED <<busVars, ui, uiVars, playVars, elapsed, left, seenVars>>

(* A signal resets the clock and the time it was to wake at (mutant: the    *)
(* time only).                                                              *)
Awake == th \in {"woken", "late"}
Elapsed_Kept == elapsed
Elapsed == IF th = "woken" THEN 0 ELSE elapsed
NextWake == IF th = "woken" THEN 0 ELSE left
Now == Elapsed + locate_pos_sec

(* While a bus has no list, its next event is read through a null pointer.  *)
Crash ==
  /\ Awake /\ playing_osc /\ \E b \in busses : events[b] = <<>>
  /\ th' = "crashed"
  /\ UNCHANGED <<busVars, ui, uiVars, playVars, clockVars, seenVars>>

(* It sends what is due on each bus (mutant: and what will be soon) ... *)
Due_Soon(t) == t <= Now + 1
Due(t) == t <= Now

Played(b) ==
  IF b \notin busses \/ pos[b] > Len(events[b]) THEN {pos[b]}
  ELSE {k \in pos[b]..Len(events[b]) :
          /\ \A i \in pos[b]+1..k : Due(events[b][i])
          /\ k < Len(events[b]) => ~Due(events[b][k + 1])}

Passing == ui \in {"seek", "go", "signal"}

SendDue ==
  /\ pos' \in [Busses -> 0..MaxEvents]
  /\ \A b \in Busses : pos'[b] \in Played(b)
  /\ sent' = [b \in Busses |-> IF dirty[b] THEN {}
                             ELSE sent[b] \union (pos[b]+1..pos'[b])]
  /\ raced' = (raced \/ locate_pos_sec # from \/ (th = "late" /\ Passing))
  /\ early' = (early \/ \E b \in Busses : \E i \in pos[b]+1..pos'[b] :
                              events[b][i] > from + ran)

(* ... and sleeps until the first of the next ones, or for a signal         *)
(* (mutants: not for the last event of a bus; until the last of the next).  *)
Behind_ButLast(b) == b \in busses /\ pos'[b] + 1 < Len(events[b])
Behind(b) == b \in busses /\ pos'[b] < Len(events[b])
NextTime(b) == events[b][pos'[b] + 1]
First_Last(b) == \A c \in Busses : Behind(c) => NextTime(c) <= NextTime(b)
First(b) == \A c \in Busses : Behind(c) => NextTime(b) <= NextTime(c)

SleepOn == th' = "wait" /\ elapsed' = 0 /\ left' = 0

Sleep ==
  \/ /\ \E b \in busses : /\ Behind(b) /\ First(b)
                          /\ left' = NextWake + NextTime(b) - Now
     /\ th' = "timed" /\ elapsed' = Elapsed
  \/ (\A b \in busses : ~Behind(b)) /\ SleepOn

Serve ==
  /\ Awake /\ playing_osc /\ \A b \in busses : events[b] # <<>>
  /\ SendDue /\ Sleep
  /\ UNCHANGED <<busses, events, ui, uiVars, playVars, wakes, from, ran, dirty>>

ServeNothing ==
  /\ Awake /\ ~playing_osc /\ SleepOn
  /\ UNCHANGED <<busVars, ui, uiVars, playVars, wakes, seenVars>>

(* Time passes, and is counted where a clock will be looked at. *)
Counting == th \in {"timed", "late"}

Tick ==
  /\ Alive
  /\ elapsed' = IF Counting THEN Upto(elapsed + 1) ELSE elapsed
  /\ left' = IF Counting /\ left > -MaxTime THEN left - 1 ELSE left
  /\ ran' = IF playing_osc THEN Upto(ran + 1) ELSE ran
  /\ UNCHANGED <<busVars, ui, uiVars, playVars, th, wakes,
                 from, sent, dirty, raced, early>>

-----------------------------------------------------------------------------
(* What the user does, and what the UI thread then has to finish. *)
User ==
  \/ \E b \in Busses : CreateBus(b) \/ RemoveBus(b)
  \/ \E b \in Busses : \E ts \in Lists : Clear(b, ts)
  \/ \E p \in Positions : Locate(p)
  \/ Play \/ SetPlaying(FALSE)

Handler ==
  \/ \E b \in Busses : Add(b) \/ AddBad(b) \/ Sort(b)
  \/ Seek \/ SetPlaying(TRUE) \/ Signal

Thread == Timeout \/ Crash \/ Serve \/ ServeNothing

Next == User \/ Handler \/ Thread \/ Wake \/ Tick

Spec == Init /\ [][Next]_vars
FairSpec == Spec /\ WF_vars(Handler) /\ WF_vars(Thread) /\ WF_vars(Tick)

-----------------------------------------------------------------------------
(* No event is sent before the score has come to it, counted from the last  *)
(* signal: the thread's clock is never ahead.  The exception is raced: the  *)
(* thread has run between the change of the position and the search of the  *)
(* lists, or it has timed out before the signal came, which is then lost.   *)
NotEarly == early => raced

(* The thread never sleeps past an event: it has a wakeup no later than the *)
(* next event of each bus, and waits for a signal only when every list is   *)
(* used up.  Lists rebuilt since the last locate are the exception: their   *)
(* events are not noticed by a sleeping thread.                             *)
Oversleeps(b) ==
  /\ b \in busses /\ ~dirty[b] /\ pos[b] < Len(events[b])
  /\ \/ th = "wait"
     \/ th = "timed" /\ locate_pos_sec + elapsed + left > events[b][pos[b] + 1]

NeverOversleeps ==
  playing_osc /\ ui \in {"idle", "add"} => \A b \in Busses : ~Oversleeps(b)

(* From a locate on, each event from that position on is sent exactly once, *)
(* as far as the list has been played, and none from before it.             *)
SentOnce ==
  \A b \in busses :
    ~dirty[b] /\ Sorted(events[b]) =>
      sent[b] = {i \in 1..pos[b] : events[b][i] >= from}

(* While the user lets it play and rebuilds no list, every list is played   *)
(* to its end, also one that generate has left half made and unsorted.      *)
PlayingOn ==
  playing_osc /\ ui = "idle" /\ \A b \in busses : ~dirty[b]
PlayedToTheEnd == \A b \in busses : pos[b] = Len(events[b])
AllSentInTheEnd == <>[]PlayingOn => []<>(PlayedToTheEnd \/ ~Alive)
===============================================================================
