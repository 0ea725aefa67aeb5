------------------------------- MODULE Playback -------------------------------
(***************************************************************************)
(* Playing a score through JACK: the transport buttons of the user         *)
(* interface (UI thread), the process callback that JACK's own thread runs *)
(* once a cycle, the MIDI event list of one bus between them, and JACK's   *)
(* transport, which both only see through its API.                         *)
(*                                                                         *)
(* process takes midi_lock with a trylock.  What the UI thread does under  *)
(* the lock is one action; a callback that comes while it is at such an    *)
(* action may find the lock taken (MissLock) or come before or after it.   *)
(* Times and positions are frames.                                         *)
(***************************************************************************)
EXTENDS Naturals, Sequences

CONSTANTS
  Lists,      \* what MidiBus.generate may add: sequences of event times
  Positions,  \* where the user may locate to
  Frames,     \* length of a cycle
  Room,       \* how many events fit in the port's buffer in one cycle
  EndPos,     \* the end mark of the score
  MaxPos      \* play_pos is not counted beyond this

ASSUME PlaybackAssumption ==
  /\ Positions \subseteq Nat /\ 0 \in Positions
  /\ Lists \subseteq Seq(Nat)
  /\ Frames \in Nat \ {0} /\ Room \in Nat \ {0}
  /\ EndPos \in Nat /\ MaxPos \in Nat
  /\ \A p \in Positions : p <= MaxPos

VARIABLES
  ui,          \* where the UI thread is: in do_locate, generate, export or idle
  playstate,   \* the play button is down
  starting,    \* do_locate was called by set_play_state(1)
  locate_pos,  \* the position asked for
  adding,      \* what generate has still to add
  whole,       \* the last generate got to its end
  play_pos,    \* the position of the next cycle
  events, pos, \* the list of the bus and how far process has got in it
  pc, playing, room, loaded, \* process: position, flag, room left, register
  want, moved, rolling,      \* JACK: asked to roll, asked to move, rolls
  sent,        \* what has been sent since the last seek ...
  from, first, \* ... to this position, which was this far in the list, ...
  dirty,       \* ... unless the list has been regenerated since
  offset,      \* of the last event sent in this cycle
  late,        \* some cycle has not sent all that was due
  ran,         \* frames played since the last do_locate
  torn         \* which wrote play_pos when process was here

ctlVars  == <<playstate, starting, locate_pos, adding, whole>>
listVars == <<events, pos>>
procVars == <<pc, playing, room, loaded>>
jackVars == <<want, moved, rolling>>
passVars == <<sent, from, first, dirty>>
seenVars == <<passVars, offset, late, ran, torn>>
vars == <<ui, ctlVars, play_pos, listVars, procVars, jackVars, seenVars>>

Event == [time : Nat, id : Nat]
UpTo(n) == IF n < MaxPos THEN n ELSE MaxPos

(* Every variable stays in its range. *)
TypeOK ==
  /\ ui \in {"idle", "set", "seek", "go", "add", "export"}
  /\ playstate \in BOOLEAN /\ starting \in BOOLEAN
  /\ locate_pos \in Positions
  /\ adding \in Seq(Nat) /\ whole \in BOOLEAN
  /\ play_pos \in 0..MaxPos
  /\ events \in Seq(Event) /\ pos \in Nat
  /\ pc \in {"idle", "midi", "count", "store"}
  /\ playing \in BOOLEAN /\ room \in 0..Room /\ loaded \in 0..MaxPos
  /\ want \in BOOLEAN /\ moved \in BOOLEAN /\ rolling \in BOOLEAN
  /\ sent \in Seq(Event) /\ from \in Positions /\ first \in Nat
  /\ dirty \in BOOLEAN
  /\ offset \in Nat /\ late \in BOOLEAN /\ ran \in 0..MaxPos
  /\ torn \in {"idle", "midi", "count", "store"}

(* A bus that has just been created, and JACK's transport at rest. *)
Init ==
  /\ ui = "idle" /\ playstate = FALSE /\ starting = FALSE
  /\ locate_pos = 0 /\ adding = <<>> /\ whole = TRUE /\ play_pos = 0
  /\ events = <<>> /\ pos = 0
  /\ pc = "idle" /\ playing = FALSE /\ room = 0 /\ loaded = 0
  /\ want = FALSE /\ moved = FALSE /\ rolling = FALSE
  /\ sent = <<>> /\ from = 0 /\ first = 0 /\ dirty = FALSE
  /\ offset = 0 /\ late = FALSE /\ ran = 0 /\ torn = "idle"

-----------------------------------------------------------------------------
(* The UI thread.  A locate (the keys 0 and enter, the "previous" button).  *)
Locate(p) ==
  /\ ui = "idle" /\ ui' = "set"
  /\ locate_pos' = p /\ starting' = FALSE
  /\ UNCHANGED <<playstate, adding, whole, play_pos, listVars, procVars, jackVars, seenVars>>

(* The play button goes down: set_play_state(1) locates first. *)
Play ==
  /\ ui = "idle" /\ ~playstate /\ ui' = "set"
  /\ playstate' = TRUE /\ starting' = TRUE
  /\ UNCHANGED <<locate_pos, adding, whole, play_pos, listVars, procVars, jackVars, seenVars>>

(* do_locate, in order: play_pos is written without a lock, *)
SetPos ==
  /\ ui = "set" /\ ui' = "seek"
  /\ play_pos' = locate_pos
  /\ ran' = 0 /\ torn' = pc
  /\ UNCHANGED <<ctlVars, listVars, procVars, jackVars, passVars, offset, late>>

(* the event list is searched under midi_lock (mutant: past the events at   *)
(* the position itself),                                                    *)
MidiLockFree == pc # "midi"

Before_OrAt(e) == e.time <= locate_pos
Before(e) == e.time < locate_pos

SeekPos ==
  {k \in 0..Len(events) :
     /\ \A i \in 1..k : Before(events[i])
     /\ k < Len(events) => ~Before(events[k + 1])}

SeekMidi ==
  /\ ui = "seek" /\ ui' = "go" /\ MidiLockFree
  /\ pos' \in SeekPos
  /\ sent' = <<>> /\ from' = locate_pos /\ first' = pos' /\ dirty' = FALSE
  /\ late' = (pc # "idle" \/ ran > 0)
  /\ UNCHANGED <<ctlVars, play_pos, events, procVars, jackVars, offset, ran, torn>>

(* and JACK is asked to move, and to start if this is set_play_state(1).    *)
Go ==
  /\ ui = "go" /\ ui' = "idle"
  /\ moved' = TRUE
  /\ want' = (want \/ starting) /\ starting' = FALSE
  /\ UNCHANGED <<playstate, locate_pos, adding, whole, play_pos, listVars, procVars, rolling,
                 seenVars>>

(* The play button goes up, by the user ...                                 *)
StopPlaying ==
  /\ ui = "idle" /\ playstate
  /\ playstate' = FALSE
  /\ want' = FALSE
  /\ UNCHANGED <<ui, starting, locate_pos, adding, whole, play_pos, listVars, procVars, moved,
                 rolling, seenVars>>

(* ... or by the timer that shows the play position, when process says that *)
(* nothing is playing.                                                      *)
PlayMonitor == ~playing /\ StopPlaying

(* MidiBus.generate: clear_events, add_event for each event, sort_events,   *)
(* or an error on the way, which update_now catches: then the list is left  *)
(* as it is, with what has been added in the order of the connections.      *)
ClearEvents(list) ==
  /\ ui = "idle" /\ ui' = "add" /\ MidiLockFree
  /\ events' = <<>> /\ adding' = list /\ whole' = FALSE
  /\ dirty' = TRUE /\ sent' = <<>> /\ from' = 0 /\ first' = 0
  /\ UNCHANGED <<playstate, starting, locate_pos, play_pos, pos, procVars, jackVars,
                 offset, late, ran, torn>>

AddEvent ==
  /\ ui = "add" /\ adding # <<>> /\ MidiLockFree
  /\ events' = Append(events, [time |-> Head(adding), id |-> Len(events) + 1])
  /\ adding' = Tail(adding)
  /\ UNCHANGED <<ui, playstate, starting, locate_pos, whole, play_pos, pos, procVars, jackVars,
                 seenVars>>

(* qsort: events at the same time may come in any order. *)
Sorted(list) == \A i, j \in 1..Len(list) : i < j => list[i].time <= list[j].time

Rearranged(p) == [i \in 1..Len(events) |-> events[p[i]]]

SortEvents ==
  /\ ui = "add" /\ adding = <<>> /\ MidiLockFree
  /\ \E p \in [1..Len(events) -> 1..Len(events)] :
       /\ \A i, j \in 1..Len(events) : p[i] = p[j] => i = j
       /\ Sorted(Rearranged(p))
       /\ events' = Rearranged(p)
  /\ ui' = "idle" /\ whole' = TRUE
  /\ UNCHANGED <<playstate, starting, locate_pos, adding, play_pos, pos, procVars, jackVars,
                 seenVars>>

GenerateFails ==
  /\ ui = "add" /\ ui' = "idle"
  /\ adding' = <<>>
  /\ UNCHANGED <<playstate, starting, locate_pos, whole, play_pos, listVars, procVars, jackVars,
                 seenVars>>

(* export_midi holds midi_lock while it writes a file. *)
ExportMidi ==
  /\ ui = "idle" /\ ui' = "export" /\ MidiLockFree
  /\ UNCHANGED <<ctlVars, play_pos, listVars, procVars, jackVars, seenVars>>

EndExport ==
  /\ ui = "export" /\ ui' = "idle"
  /\ UNCHANGED <<ctlVars, play_pos, listVars, procVars, jackVars, seenVars>>

-----------------------------------------------------------------------------
(* process.  The transport is asked first; then the lock is tried.          *)
TakeLock ==
  /\ pc = "idle" /\ pc' = "midi" /\ ui # "export"
  /\ playing' = rolling
  /\ room' = Room /\ offset' = 0
  /\ UNCHANGED <<ui, ctlVars, play_pos, listVars, loaded, jackVars, passVars, late, ran,
                 torn>>

MissLock ==
  /\ pc = "idle" /\ pc' = "count" /\ ui \in {"seek", "add", "export"}
  /\ playing' = rolling
  /\ late' = TRUE
  /\ UNCHANGED <<ui, ctlVars, play_pos, listVars, room, loaded, jackVars, passVars,
                 offset, ran, torn>>

(* The next event is sent in this cycle (mutants: in the one before; only   *)
(* when its time has passed), at this offset, if there is room (mutant: or  *)
(* not).                                                                    *)
Due_Early(e) == e.time <= play_pos + Frames
Due_Passed(e) == e.time < play_pos
Due(e) == e.time < play_pos + Frames

Offset(e) == IF e.time < play_pos THEN 0 ELSE e.time - play_pos

Sends_NoRoom == playing /\ pos < Len(events) /\ Due(events[pos + 1])
Sends == playing /\ pos < Len(events) /\ room > 0 /\ Due(events[pos + 1])

SendEvent ==
  /\ pc = "midi" /\ Sends
  /\ pos' = pos + 1
  /\ room' = room - 1
  /\ offset' = Offset(events[pos + 1])
  /\ sent' = IF dirty THEN sent ELSE Append(sent, events[pos + 1])
  /\ UNCHANGED <<ui, ctlVars, play_pos, events, pc, playing, loaded, jackVars,
                 from, first, dirty, late, ran, torn>>

MidiDone ==
  /\ pc = "midi" /\ pc' = "count" /\ ~Sends
  /\ room' = 0 /\ offset' = 0
  /\ late' = IF playing THEN pos < Len(events) /\ Due(events[pos + 1]) ELSE late
  /\ UNCHANGED <<ui, ctlVars, play_pos, listVars, playing, loaded, jackVars, passVars,
                 ran, torn>>

(* play_pos += nframes, which is a load, an addition (mutant: of nothing)   *)
(* and a store; playing is cleared at the end mark.                         *)
LoadPos ==
  /\ pc = "count" /\ pc' = "store" /\ playing
  /\ loaded' = play_pos
  /\ UNCHANGED <<ui, ctlVars, play_pos, listVars, playing, room, jackVars, seenVars>>

Advanced_Stays(p) == p
Advanced(p) == UpTo(p + Frames)

StorePos ==
  /\ pc = "store" /\ pc' = "idle"
  /\ play_pos' = Advanced(loaded)
  /\ playing' = (play_pos' < EndPos)
  /\ loaded' = 0
  /\ ran' = UpTo(ran + Frames)
  /\ UNCHANGED <<ui, ctlVars, listVars, room, jackVars, passVars, offset, late,
                 torn>>

EndCycle ==
  /\ pc = "count" /\ pc' = "idle" /\ ~playing
  /\ UNCHANGED <<ui, ctlVars, play_pos, listVars, playing, room, loaded, jackVars, seenVars>>

-----------------------------------------------------------------------------
(* JACK, between two cycles: it starts to roll when asked to; it stops when *)
(* asked to, or for a while to move to another position.                    *)
TransportRolls ==
  /\ pc = "idle" /\ want /\ ~rolling
  /\ rolling' = TRUE /\ moved' = FALSE
  /\ UNCHANGED <<ui, ctlVars, play_pos, listVars, procVars, want, seenVars>>

TransportHolds ==
  /\ pc = "idle" /\ rolling /\ (~want \/ moved)
  /\ rolling' = FALSE /\ moved' = FALSE
  /\ UNCHANGED <<ui, ctlVars, play_pos, listVars, procVars, want, seenVars>>

-----------------------------------------------------------------------------
User ==
  \/ \E p \in Positions : Locate(p)
  \/ Play
  \/ StopPlaying
  \/ \E list \in Lists : ClearEvents(list)
  \/ ExportMidi

Handler ==
  \/ SetPos
  \/ SeekMidi
  \/ Go
  \/ AddEvent
  \/ SortEvents
  \/ GenerateFails
  \/ EndExport

Process ==
  \/ TakeLock
  \/ MissLock
  \/ SendEvent
  \/ MidiDone
  \/ LoadPos
  \/ StorePos
  \/ EndCycle

Transport == TransportRolls \/ TransportHolds

Next == User \/ Handler \/ PlayMonitor \/ Process \/ Transport

Spec == Init /\ [][Next]_vars

(* JACK calls process for ever and looks at its transport before each call; *)
(* what the user does and how long a handler takes are not fair.            *)
FairSpec == Spec /\ WF_vars(Process) /\ SF_vars(TransportRolls)

-----------------------------------------------------------------------------
(* What has been sent since the last locate is the list from one event on,  *)
(* each event once and none left out, however cycles, locates and stops     *)
(* interleave.  It starts with the first event at that position, and is in  *)
(* the order of time, unless generate left the list unsorted.               *)
PlayedInOrder ==
  ~dirty =>
    /\ Len(sent) = pos - first
    /\ \A j \in 1..Len(sent) : sent[j] = events[first + j]
    /\ \A i \in 1..first : events[i].time < from
    /\ whole =>
         /\ Sorted(events)
         /\ \A i \in 1..Len(events) : i > first => from <= events[i].time

(* An event waits for its cycle and no longer: between two cycles all that  *)
(* is before the play position has been sent, unless generate left the list *)
(* unsorted, process missed the lock, the buffer was full, or a locate fell *)
(* into a cycle.                                                            *)
OnTime ==
  pc = "idle" /\ ui \notin {"set", "seek"} /\ whole /\ ~dirty /\ ~late /\ torn = "idle" =>
    \A i \in 1..Len(events) : i > pos => play_pos <= events[i].time

(* JACK takes only offsets inside the cycle, and no event before the last   *)
(* one: process keeps to the first unless a locate falls into the cycle,    *)
(* and to the second if besides the list is a whole and sorted one.         *)
OffsetsInOrder ==
  [][ pos' = pos + 1 /\ pc = "midi" /\ torn # "midi" =>
        /\ offset' < Frames
        /\ whole => offset <= offset' ]_vars

(* While the play button is down and the UI thread is idle, the next event  *)
(* gets sent, whatever missed locks, full buffers or pauses of JACK.        *)
NextIsSent ==
  \A k \in Nat :
    (playstate /\ ui = "idle" /\ pos = k /\ k < Len(events)) ~>
      (~playstate \/ ui # "idle" \/ pos # k)

(* After a locate, play_pos is the position asked for and what has been     *)
(* played since, unless do_locate wrote it between the load and the store   *)
(* of process: then the cycle that is ending overwrites what was asked for. *)
LocateTakesEffect ==
  pc = "idle" /\ ui # "set" /\ torn # "store" => play_pos = UpTo(locate_pos + ran)

(* While the play button is down, the timer finds nothing playing only when *)
(* the end mark has been reached.                                           *)
StopsOnlyAtEnd ==
  ui = "idle" /\ playstate /\ ~playing => play_pos >= EndPos
=============================================================================
