---------------------------- MODULE PlaybackProofs ----------------------------
(***************************************************************************)
(* What Playback promises for every list, cycle length, buffer and set of  *)
(* positions.                                                              *)
(***************************************************************************)
EXTENDS Playback, TLAPS

(* A cap never makes a position too large. *)
LEMMA UpToInRange ==
  ASSUME NEW n \in Nat PROVE UpTo(n) \in 0..MaxPos
BY PlaybackAssumption DEF UpTo

(* The player starts within its ranges. *)
LEMMA InitTypeOK ==
  ASSUME Init PROVE TypeOK
<1>1. 0 \in Positions /\ 0 \in 0..MaxPos /\ 0 \in 0..Room
  BY PlaybackAssumption
<1>2. <<>> \in Seq(Nat) /\ <<>> \in Seq(Event)
  OBVIOUS
<1> QED BY <1>1, <1>2 DEF Init, TypeOK

(* Every variable of the player stays in its range, whatever the user, the  *)
(* handlers, process and JACK do.                                           *)
THEOREM TypeCorrect == Spec => []TypeOK
<1>1. Init => TypeOK
  BY InitTypeOK
<1>2. TypeOK /\ [Next]_vars => TypeOK'
  <2> SUFFICES ASSUME TypeOK, [Next]_vars PROVE TypeOK'
    OBVIOUS
  <2> USE PlaybackAssumption
  <2>1. CASE User
    <3>1. ASSUME NEW p \in Positions, Locate(p) PROVE TypeOK'
      <4>1. /\ ui' = "set" /\ locate_pos' = p /\ starting' = FALSE
            /\ UNCHANGED <<playstate, adding, whole, play_pos, events, pos, pc, playing, room,
                          loaded, want, moved, rolling, sent, from, first, dirty, offset, late,
                          ran, torn>>
        BY <3>1, Zenon DEF Locate, listVars, procVars, jackVars, seenVars, passVars
      <4>2. ui' \in {"idle", "set", "seek", "go", "add", "export"} /\ starting' \in BOOLEAN
        BY <4>1
      <4> QED BY <3>1, <4>1, <4>2, SMTT(60) DEF TypeOK
    <3>2. CASE Play
      BY <3>2 DEF Play, TypeOK, listVars, procVars, jackVars, seenVars, passVars
    <3>3. CASE StopPlaying
      BY <3>3 DEF StopPlaying, TypeOK, listVars, procVars, seenVars, passVars
    <3>4. ASSUME NEW list \in Lists, ClearEvents(list) PROVE TypeOK'
      <4>1. list \in Seq(Nat) /\ 0 \in Positions
        BY <3>4
      <4>2. /\ ui' = "add" /\ events' = <<>> /\ adding' = list /\ whole' = FALSE
            /\ dirty' = TRUE /\ sent' = <<>> /\ from' = 0 /\ first' = 0
            /\ UNCHANGED <<playstate, starting, locate_pos, play_pos, pos, pc, playing, room,
                          loaded, want, moved, rolling, offset, late, ran, torn>>
        BY <3>4, Zenon DEF ClearEvents, procVars, jackVars
      <4>3. /\ ui' \in {"idle", "set", "seek", "go", "add", "export"}
            /\ whole' \in BOOLEAN /\ dirty' \in BOOLEAN /\ first' \in Nat
        BY <4>2
      <4>4. <<>> \in Seq(Event)
        OBVIOUS
      <4>5. events' \in Seq(Event) /\ sent' \in Seq(Event)
        BY <4>2, <4>4, Zenon
      <4> QED BY <4>1, <4>2, <4>3, <4>5, Zenon DEF TypeOK
    <3>5. CASE ExportMidi
      BY <3>5 DEF ExportMidi, TypeOK, ctlVars, listVars, procVars, jackVars, seenVars,
                  passVars
    <3> QED BY <2>1, <3>1, <3>2, <3>3, <3>4, <3>5 DEF User
  <2>2. CASE Handler
    <3>1. CASE SetPos
      BY <3>1 DEF SetPos, TypeOK, ctlVars, listVars, procVars, jackVars, passVars
    <3>2. CASE SeekMidi
      <4>1. pos' \in Nat /\ first' \in Nat
        <5>1. pos' \in SeekPos /\ first' = pos'
          BY <3>2 DEF SeekMidi
        <5>2. SeekPos \subseteq 0..Len(events)
          BY DEF SeekPos
        <5>3. Len(events) \in Nat
          BY DEF TypeOK
        <5> QED BY <5>1, <5>2, <5>3
      <4>2. late' \in BOOLEAN
        <5>1. late' = (pc # "idle" \/ ran > 0)
          BY <3>2, Zenon DEF SeekMidi
        <5> QED BY <5>1, Zenon
      <4>3. sent' \in Seq(Event) /\ from' \in Positions /\ dirty' \in BOOLEAN
        <5>1. sent' = <<>> /\ from' = locate_pos /\ dirty' = FALSE
          BY <3>2, Zenon DEF SeekMidi
        <5>2. <<>> \in Seq(Event) /\ FALSE \in BOOLEAN /\ locate_pos \in Positions
          BY DEF TypeOK
        <5> QED BY <5>1, <5>2, Zenon
      <4>4. /\ ui' = "go"
            /\ UNCHANGED <<ctlVars, play_pos, events, procVars, jackVars, offset, ran, torn>>
        BY <3>2, Zenon DEF SeekMidi
      <4> QED
        BY <4>1, <4>2, <4>3, <4>4 DEF TypeOK, ctlVars, procVars, jackVars
    <3>3. CASE Go
      BY <3>3 DEF Go, TypeOK, listVars, procVars, seenVars, passVars
    <3>4. CASE AddEvent
      <4>1. Head(adding) \in Nat /\ Tail(adding) \in Seq(Nat)
        BY <3>4 DEF AddEvent, TypeOK
      <4>2. events' \in Seq(Event)
        BY <3>4, <4>1 DEF AddEvent, TypeOK, Event
      <4> QED
        BY <3>4, <4>1, <4>2 DEF AddEvent, TypeOK, procVars, jackVars, seenVars, passVars
    <3>5. CASE SortEvents
      <4>1. events' \in Seq(Event)
        <5>1. PICK p \in [1..Len(events) -> 1..Len(events)] : events' = Rearranged(p)
          BY <3>5 DEF SortEvents
        <5>2. Len(events) \in Nat /\ \A i \in 1..Len(events) : events[i] \in Event
          BY DEF TypeOK
        <5>3. events' = [i \in 1..Len(events) |-> events[p[i]]]
          BY <5>1 DEF Rearranged
        <5>4. \A i \in 1..Len(events) : events[p[i]] \in Event
          BY <5>1, <5>2
        <5> QED BY <5>2, <5>3, <5>4
      <4> QED
        BY <3>5, <4>1 DEF SortEvents, TypeOK, procVars, jackVars, seenVars, passVars
    <3>6. CASE EndExport
      BY <3>6 DEF EndExport, TypeOK, ctlVars, listVars, procVars, jackVars, seenVars,
                  passVars
    <3>7. CASE GenerateFails
      BY <3>7 DEF GenerateFails, TypeOK, listVars, procVars, jackVars, seenVars, passVars
    <3> QED BY <2>2, <3>1, <3>2, <3>3, <3>4, <3>5, <3>6, <3>7 DEF Handler
  <2>3. CASE PlayMonitor
    BY <2>3 DEF PlayMonitor, StopPlaying, TypeOK, listVars, procVars, seenVars, passVars
  <2>4. CASE Process
    <3>1. CASE TakeLock
      BY <3>1 DEF TakeLock, TypeOK, ctlVars, listVars, jackVars, passVars
    <3>2. CASE MissLock
      BY <3>2 DEF MissLock, TypeOK, ctlVars, listVars, jackVars, passVars
    <3>3. CASE SendEvent
      <4>1. pos \in Nat /\ pos < Len(events) /\ room > 0 /\ room \in 0..Room
        BY <3>3 DEF SendEvent, Sends, TypeOK
      <4>2. events[pos + 1] \in Event
        BY <4>1 DEF TypeOK
      <4>3. offset' \in Nat
        BY <3>3, <4>2 DEF SendEvent, Offset, TypeOK, Event
      <4>4. sent' \in Seq(Event)
        BY <3>3, <4>2 DEF SendEvent, TypeOK
      <4> QED BY <3>3, <4>1, <4>3, <4>4 DEF SendEvent, TypeOK, ctlVars, jackVars
    <3>4. CASE MidiDone
      <4>1. late' \in BOOLEAN
        <5>1. CASE playing
          <6>1. late' = (pos < Len(events) /\ Due(events[pos + 1]))
            BY <3>4, <5>1, Zenon DEF MidiDone
          <6> QED BY <6>1, Zenon
        <5>2. CASE ~playing
          <6>1. late' = late
            BY <3>4, <5>2, Zenon DEF MidiDone
          <6> QED BY <6>1, Zenon DEF TypeOK
        <5> QED BY <5>1, <5>2
      <4>2. room' \in 0..Room /\ offset' \in Nat /\ pc' \in {"idle", "midi", "count", "store"}
        BY <3>4 DEF MidiDone
      <4>3. UNCHANGED <<ui, ctlVars, play_pos, listVars, playing, loaded, jackVars, passVars,
                        ran, torn>>
        BY <3>4, Zenon DEF MidiDone
      <4> QED BY <4>1, <4>2, <4>3 DEF TypeOK, ctlVars, listVars, jackVars, passVars
    <3>5. CASE LoadPos
      BY <3>5 DEF LoadPos, TypeOK, ctlVars, listVars, jackVars, seenVars, passVars
    <3>6. CASE StorePos
      <4>1. loaded + Frames \in Nat /\ ran + Frames \in Nat
        BY DEF TypeOK
      <4>2. play_pos' \in 0..MaxPos /\ ran' \in 0..MaxPos
        BY <3>6, <4>1, UpToInRange DEF StorePos, Advanced
      <4> QED BY <3>6, <4>2 DEF StorePos, TypeOK, ctlVars, listVars, jackVars, passVars
    <3>7. CASE EndCycle
      BY <3>7 DEF EndCycle, TypeOK, ctlVars, listVars, jackVars, seenVars, passVars
    <3> QED BY <2>4, <3>1, <3>2, <3>3, <3>4, <3>5, <3>6, <3>7 DEF Process
  <2>5. CASE Transport
    <3>1. CASE TransportRolls
      BY <3>1 DEF TransportRolls, TypeOK, ctlVars, listVars, procVars, seenVars, passVars
    <3>2. CASE TransportHolds
      <4>1. /\ rolling' = FALSE /\ moved' = FALSE
            /\ UNCHANGED <<ui, ctlVars, play_pos, listVars, procVars, want, seenVars>>
        BY <3>2, Zenon DEF TransportHolds
      <4>2. rolling' \in BOOLEAN /\ moved' \in BOOLEAN
        BY <4>1
      <4> QED BY <4>1, <4>2, SMTT(60) DEF TypeOK, ctlVars, listVars, procVars, seenVars, passVars
    <3> QED BY <2>5, <3>1, <3>2 DEF Transport
  <2>6. CASE UNCHANGED vars
    BY <2>6 DEF vars, TypeOK, ctlVars, listVars, procVars, jackVars, seenVars, passVars
  <2> QED BY <2>1, <2>2, <2>3, <2>4, <2>5, <2>6 DEF Next
<1> QED BY <1>1, <1>2, PTL DEF Spec

-----------------------------------------------------------------------------
(* PlayedInOrder is not inductive: it does not say that a whole list is     *)
(* sorted when a locate searches it, that a list which generate is filling  *)
(* is neither whole nor played since a locate, or that process stays inside *)
(* the list.                                                                *)
ListOK ==
  /\ ui = "add" => dirty /\ ~whole
  /\ whole => Sorted(events)

PassOK == ~dirty => first <= pos /\ pos <= Len(events)

IInv == TypeOK /\ ListOK /\ PassOK /\ PlayedInOrder

(* A step that touches neither the list, nor the position in it, nor what   *)
(* has been sent, keeps the invariant if it neither enters nor leaves       *)
(* generate.                                                                *)
LEMMA OtherSteps ==
  ASSUME IInv, TypeOK', UNCHANGED <<listVars, passVars, whole>>, ui' = "add" <=> ui = "add"
  PROVE  IInv'
BY DEF IInv, ListOK, PassOK, PlayedInOrder, Sorted, listVars, passVars

(* The events of the list have a time. *)
LEMMA EventTimes ==
  ASSUME TypeOK
  PROVE  Len(events) \in Nat /\ \A i \in 1..Len(events) : events[i].time \in Nat
<1>1. Len(events) \in Nat /\ \A i \in 1..Len(events) : events[i] \in Event
  BY DEF TypeOK
<1> QED BY <1>1 DEF Event

(* What the search of seek_events finds: the events up to there come before *)
(* the position, ...                                                        *)
LEMMA SeekFinds ==
  ASSUME TypeOK, NEW k \in SeekPos
  PROVE  /\ k \in 0..Len(events)
         /\ \A i \in 1..k : events[i].time < locate_pos
         /\ k < Len(events) => ~(events[k + 1].time < locate_pos)
BY DEF SeekPos, Before

(* ... and in a sorted list none of the others does.                        *)
LEMMA SeekFindsAll ==
  ASSUME TypeOK, Sorted(events), NEW k \in SeekPos, NEW i \in 1..Len(events), i > k
  PROVE  locate_pos <= events[i].time
<1> USE PlaybackAssumption
<1>1. Len(events) \in Nat /\ \A j \in 1..Len(events) : events[j].time \in Nat
  BY EventTimes
<1>2. locate_pos \in Nat
  BY DEF TypeOK
<1>3. k \in 0..Len(events) /\ (k < Len(events) => ~(events[k + 1].time < locate_pos))
  BY SeekFinds
<1>4. k + 1 \in 1..Len(events) /\ k < Len(events) /\ (k + 1 = i \/ k + 1 < i)
  BY <1>1, <1>3
<1>5. events[k + 1].time <= events[i].time
  BY <1>1, <1>4 DEF Sorted
<1> QED BY <1>1, <1>2, <1>3, <1>4, <1>5

(* The invariant holds, for every list, cycle length, buffer and position. *)
LEMMA IInvHolds == Spec => []IInv
<1>1. Init => IInv
  <2> SUFFICES ASSUME Init PROVE IInv
    OBVIOUS
  <2>1. ui = "idle" /\ Len(events) = 0 /\ Len(sent) = 0 /\ pos = 0 /\ first = 0
    BY DEF Init
  <2>2. ListOK /\ PassOK
    BY <2>1 DEF ListOK, PassOK, Sorted
  <2>3. PlayedInOrder
    BY <2>1 DEF PlayedInOrder, Sorted
  <2> QED BY <2>2, <2>3, InitTypeOK DEF IInv
<1>2. IInv /\ TypeOK' /\ [Next]_vars => IInv'
  <2> SUFFICES ASSUME IInv, TypeOK', [Next]_vars PROVE IInv'
    OBVIOUS
  <2> USE PlaybackAssumption
  <2>1. CASE User
    <3>1. ASSUME NEW p \in Positions, Locate(p) PROVE IInv'
      BY <3>1, OtherSteps DEF Locate, seenVars
    <3>2. CASE Play
      BY <3>2, OtherSteps DEF Play, seenVars
    <3>3. CASE StopPlaying
      BY <3>3, OtherSteps DEF StopPlaying, seenVars
    <3>4. ASSUME NEW list \in Lists, ClearEvents(list) PROVE IInv'
      BY <3>4 DEF ClearEvents, IInv, ListOK, PassOK, PlayedInOrder
    <3>5. CASE ExportMidi
      BY <3>5, OtherSteps DEF ExportMidi, ctlVars, seenVars
    <3> QED BY <2>1, <3>1, <3>2, <3>3, <3>4, <3>5 DEF User
  <2>2. CASE Handler
    <3>1. CASE SetPos
      BY <3>1, OtherSteps DEF SetPos, ctlVars
    <3>2. CASE SeekMidi
      <4>1. /\ ui = "seek" /\ ui' = "go" /\ pos' \in SeekPos /\ events' = events
            /\ sent' = <<>> /\ from' = locate_pos /\ first' = pos' /\ whole' = whole
        BY <3>2, Zenon DEF SeekMidi, ctlVars
      <4>2. TypeOK /\ (whole => Sorted(events))
        BY <4>1 DEF IInv, ListOK
      <4>3. PICK k \in SeekPos : k = pos'
        BY <4>1
      <4>4. k \in 0..Len(events) /\ \A i \in 1..k : events[i].time < locate_pos
        BY <4>2, SeekFinds
      <4>5. Len(events) \in Nat /\ k \in Nat
        BY <4>2, <4>4 DEF TypeOK
      <4>6. ListOK' /\ PassOK'
        BY <4>1, <4>2, <4>3, <4>4, <4>5 DEF ListOK, PassOK, Sorted
      <4>7. PlayedInOrder'
        <5>1. Len(sent') = pos' - first'
          <6>1. Len(sent') = 0
            BY <4>1
          <6>2. \A n \in Nat : n - n = 0
            OBVIOUS
          <6>3. pos' - first' = 0
            BY <4>1, <4>3, <4>5, <6>2
          <6> QED BY <6>1, <6>3, Zenon
        <5>2. \A j \in 1..Len(sent') : sent'[j] = events'[first' + j]
          BY <4>1
        <5>3. \A i \in 1..first' : events'[i].time < from'
          BY <4>1, <4>3, <4>4
        <5>4. ASSUME whole'
              PROVE  Sorted(events)' /\ \A i \in 1..Len(events') : i > first' => from' <= events'[i].time
          BY <4>1, <4>2, <4>3, <5>4, SeekFindsAll DEF Sorted
        <5> QED BY <5>1, <5>2, <5>3, <5>4 DEF PlayedInOrder
      <4> QED BY <4>6, <4>7 DEF IInv
    <3>3. CASE Go
      BY <3>3, OtherSteps DEF Go, seenVars
    <3>4. CASE AddEvent
      BY <3>4 DEF AddEvent, seenVars, passVars, IInv, ListOK, PassOK, PlayedInOrder
    <3>5. CASE SortEvents
      <4>1. ui = "add" /\ ui' = "idle" /\ dirty' = dirty
        BY <3>5 DEF SortEvents, seenVars, passVars
      <4>2. PICK p \in [1..Len(events) -> 1..Len(events)] :
              Sorted(Rearranged(p)) /\ events' = Rearranged(p)
        BY <3>5 DEF SortEvents
      <4>3. Sorted(events')
        BY <4>2
      <4>4. dirty' = dirty /\ dirty
        BY <4>1 DEF IInv, ListOK
      <4> QED
        BY <4>1, <4>3, <4>4 DEF IInv, ListOK, PassOK, PlayedInOrder, Sorted
    <3>6. CASE EndExport
      BY <3>6, OtherSteps DEF EndExport, ctlVars, seenVars
    <3>7. CASE GenerateFails
      BY <3>7 DEF GenerateFails, listVars, seenVars, passVars, IInv, ListOK, PassOK,
                  PlayedInOrder, Sorted
    <3> QED BY <2>2, <3>1, <3>2, <3>3, <3>4, <3>5, <3>6, <3>7 DEF Handler
  <2>3. CASE PlayMonitor
    BY <2>3, OtherSteps DEF PlayMonitor, StopPlaying, seenVars
  <2>4. CASE Process
    <3>1. CASE TakeLock
      BY <3>1, OtherSteps DEF TakeLock, ctlVars
    <3>2. CASE MissLock
      BY <3>2, OtherSteps DEF MissLock, ctlVars
    <3>3. CASE SendEvent
      <4>1. /\ pos' = pos + 1 /\ pos < Len(events)
            /\ ui' = ui /\ events' = events
            /\ from' = from /\ first' = first /\ dirty' = dirty /\ whole' = whole
            /\ sent' = IF dirty THEN sent ELSE Append(sent, events[pos + 1])
        BY <3>3, Zenon DEF SendEvent, Sends, ctlVars
      <4>2. /\ Len(events) \in Nat /\ pos \in Nat /\ first \in Nat
            /\ sent \in Seq(Event) /\ events[pos + 1] \in Event
        BY <4>1 DEF IInv, TypeOK
      <4>3. ListOK' /\ PassOK'
        BY <4>1, <4>2 DEF IInv, ListOK, PassOK, Sorted
      <4>4. ASSUME ~dirty
            PROVE  /\ Len(sent') = pos' - first'
                   /\ \A j \in 1..Len(sent') : sent'[j] = events'[first' + j]
        <5>1. /\ Len(sent) = pos - first
              /\ \A j \in 1..Len(sent) : sent[j] = events[first + j]
          BY <4>4 DEF IInv, PlayedInOrder
        <5>2. sent' = Append(sent, events[pos + 1])
          BY <4>1, <4>4
        <5>3. Len(sent') = Len(sent) + 1 /\ Len(sent) \in Nat
          BY <4>2, <5>2
        <5>4. ASSUME NEW j \in 1..Len(sent') PROVE sent'[j] = events[first + j]
          <6>1. CASE j = Len(sent) + 1
            BY <4>2, <5>1, <5>2, <5>3, <6>1
          <6>2. CASE j # Len(sent) + 1
            <7>1. j \in 1..Len(sent)
              BY <5>3, <6>2
            <7>2. sent'[j] = sent[j]
              BY <4>2, <5>2, <7>1
            <7> QED BY <5>1, <7>1, <7>2
          <6> QED BY <6>1, <6>2
        <5> QED BY <4>1, <4>2, <5>1, <5>3, <5>4
      <4>5. PlayedInOrder'
        BY <4>1, <4>4 DEF IInv, PlayedInOrder, Sorted
      <4> QED BY <4>3, <4>5 DEF IInv
    <3>4. CASE MidiDone
      BY <3>4, OtherSteps DEF MidiDone, ctlVars
    <3>5. CASE LoadPos
      BY <3>5, OtherSteps DEF LoadPos, ctlVars, seenVars
    <3>6. CASE StorePos
      BY <3>6, OtherSteps DEF StorePos, ctlVars
    <3>7. CASE EndCycle
      BY <3>7, OtherSteps DEF EndCycle, ctlVars, seenVars
    <3> QED BY <2>4, <3>1, <3>2, <3>3, <3>4, <3>5, <3>6, <3>7 DEF Process
  <2>5. CASE Transport
    <3>1. CASE TransportRolls
      BY <3>1, OtherSteps DEF TransportRolls, ctlVars, seenVars
    <3>2. CASE TransportHolds
      BY <3>2, OtherSteps DEF TransportHolds, ctlVars, seenVars
    <3> QED BY <2>5, <3>1, <3>2 DEF Transport
  <2>6. CASE UNCHANGED vars
    BY <2>6, OtherSteps DEF vars, ctlVars, seenVars
  <2> QED BY <2>1, <2>2, <2>3, <2>4, <2>5, <2>6 DEF Next
<1> QED BY <1>1, <1>2, TypeCorrect, PTL DEF Spec

(* What process has sent since the last locate is the list from one event   *)
(* on, each once and none left out, until generate fills the list anew: for *)
(* every list, cycle length, buffer and position, whatever order the user,  *)
(* the handlers, process's cycles and JACK's transport come in.  The event  *)
(* is the first at that position, and the list is sorted by time, unless    *)
(* the last generate failed on the way.                                     *)
THEOREM PlaysInOrder == Spec => []PlayedInOrder
<1>1. IInv => PlayedInOrder
  BY DEF IInv
<1> QED BY <1>1, IInvHolds, PTL

-----------------------------------------------------------------------------
(* Where the play position comes from, whatever process is about to add: it *)
(* is the position asked for and what has been played since, and process    *)
(* holds it in its register, except for a locate that came in between.      *)
PosOK ==
  /\ pc = "store" /\ torn # "store" => loaded = play_pos
  /\ ui # "set" /\ torn # "store" => play_pos = UpTo(locate_pos + ran)

LEMMA PosInit == Init => PosOK
<1>1. UpTo(0 + 0) = 0
  BY PlaybackAssumption DEF UpTo
<1> QED BY <1>1 DEF Init, PosOK

LEMMA PosStep == TypeOK /\ PosOK /\ [Next]_vars => PosOK'
<1> SUFFICES ASSUME TypeOK, PosOK, [Next]_vars PROVE PosOK'
  OBVIOUS
<1> USE PlaybackAssumption
<1>1. CASE User
  <2>1. ASSUME NEW p \in Positions, Locate(p) PROVE PosOK'
    BY <2>1 DEF Locate, PosOK, procVars, seenVars
  <2>2. CASE Play
    BY <2>2 DEF Play, PosOK, procVars, seenVars
  <2>3. CASE StopPlaying
    BY <2>3 DEF StopPlaying, PosOK, procVars, seenVars
  <2>4. ASSUME NEW list \in Lists, ClearEvents(list) PROVE PosOK'
    BY <2>4 DEF ClearEvents, PosOK, procVars
  <2>5. CASE ExportMidi
    BY <2>5 DEF ExportMidi, PosOK, ctlVars, procVars, seenVars
  <2> QED BY <1>1, <2>1, <2>2, <2>3, <2>4, <2>5 DEF User
<1>2. CASE Handler
  <2>1. CASE SetPos
    <3>1. UpTo(locate_pos + 0) = locate_pos
      BY DEF UpTo, TypeOK
    <3> QED BY <2>1, <3>1 DEF SetPos, PosOK, ctlVars, procVars
  <2>2. CASE SeekMidi
    BY <2>2 DEF SeekMidi, PosOK, ctlVars, procVars
  <2>3. CASE Go
    BY <2>3 DEF Go, PosOK, procVars, seenVars
  <2>4. CASE AddEvent
    BY <2>4 DEF AddEvent, PosOK, procVars, seenVars
  <2>5. CASE SortEvents \/ GenerateFails
    BY <2>5 DEF SortEvents, GenerateFails, PosOK, procVars, seenVars
  <2>6. CASE EndExport
    BY <2>6 DEF EndExport, PosOK, ctlVars, procVars, seenVars
  <2> QED BY <1>2, <2>1, <2>2, <2>3, <2>4, <2>5, <2>6 DEF Handler
<1>3. CASE PlayMonitor
  BY <1>3 DEF PlayMonitor, StopPlaying, PosOK, procVars, seenVars
<1>4. CASE Process
  <2>1. CASE TakeLock \/ MissLock \/ SendEvent \/ MidiDone
    BY <2>1 DEF TakeLock, MissLock, SendEvent, MidiDone, PosOK, ctlVars
  <2>2. CASE LoadPos \/ EndCycle
    BY <2>2 DEF LoadPos, EndCycle, PosOK, ctlVars, seenVars
  <2>3. CASE StorePos
    <3>1. ASSUME ui # "set", torn # "store"
          PROVE  play_pos' = UpTo(locate_pos + ran')
      <4>1. play_pos' = UpTo(UpTo(locate_pos + ran) + Frames)
        BY <2>3, <3>1 DEF StorePos, PosOK, Advanced
      <4>2. ran' = UpTo(ran + Frames)
        BY <2>3 DEF StorePos
      <4>3. locate_pos \in Nat /\ ran \in Nat /\ Frames \in Nat
        BY DEF TypeOK
      <4>4. UpTo(UpTo(locate_pos + ran) + Frames) = UpTo(locate_pos + UpTo(ran + Frames))
        BY <4>3, PlaybackAssumption DEF UpTo
      <4> QED BY <4>1, <4>2, <4>4
    <3>2. pc' = "idle" /\ ui' = ui /\ torn' = torn /\ locate_pos' = locate_pos
      BY <2>3 DEF StorePos, ctlVars
    <3> QED BY <3>1, <3>2 DEF PosOK
  <2> QED BY <1>4, <2>1, <2>2, <2>3 DEF Process
<1>5. CASE Transport
  BY <1>5 DEF Transport, TransportRolls, TransportHolds, PosOK, ctlVars, procVars, seenVars
<1>6. CASE UNCHANGED vars
  BY <1>6 DEF vars, PosOK, ctlVars, procVars, seenVars
<1> QED BY <1>1, <1>2, <1>3, <1>4, <1>5, <1>6 DEF Next

LEMMA PosHolds == Spec => []PosOK
BY PosInit, PosStep, TypeCorrect, PTL DEF Spec

(* A locate is never lost: between two cycles the play position is the one  *)
(* that do_locate has written and what has been played since, unless it was *)
(* written between the load and the store of process.                       *)
THEOREM LocateIsKept == Spec => []LocateTakesEffect
<1>1. PosOK => LocateTakesEffect
  BY DEF PosOK, LocateTakesEffect
<1> QED BY <1>1, PosHolds, PTL

-----------------------------------------------------------------------------
(* What process has still to send, in the middle of a cycle: nothing before *)
(* the position that this cycle will leave behind.                          *)
Ahead(n) == \A i \in 1..Len(events) : i > pos => n <= events[i].time

TimeOK ==
  ui # "seek" /\ whole /\ ~dirty /\ ~late /\ torn = "idle" =>
    /\ pc \in {"idle", "midi"} => Ahead(play_pos)
    /\ pc = "count" => Ahead(IF playing THEN play_pos + Frames ELSE play_pos)
    /\ pc = "store" => Ahead(loaded + Frames)

(* A step that touches neither the list and the position in it nor what     *)
(* process is doing, and no seek, leaves all that as it was.                *)
LEMMA TimeKept ==
  ASSUME TimeOK, UNCHANGED <<listVars, procVars, play_pos, whole, dirty, late, torn>>,
         ui = "seek" => ui' = "seek"
  PROVE  TimeOK'
BY DEF TimeOK, Ahead, listVars, procVars

LEMMA TimeInit == Init => TimeOK
BY DEF Init, TimeOK, Ahead

(* In a sorted list nothing is due after the first event that is not. *)
LEMMA FirstNotDue ==
  ASSUME TypeOK, Sorted(events), NEW n \in Nat,
         pos < Len(events) => n <= events[pos + 1].time
  PROVE  Ahead(n)
<1> SUFFICES ASSUME NEW i \in 1..Len(events), i > pos PROVE n <= events[i].time
  BY DEF Ahead
<1>1. Len(events) \in Nat /\ pos \in Nat /\ \A j \in 1..Len(events) : events[j].time \in Nat
  BY EventTimes DEF TypeOK
<1>2. pos + 1 \in 1..Len(events) /\ pos < Len(events) /\ (pos + 1 = i \/ pos + 1 < i)
  BY <1>1
<1>3. events[pos + 1].time <= events[i].time
  BY <1>1, <1>2 DEF Sorted
<1> QED BY <1>1, <1>2, <1>3

LEMMA TimeStep == IInv /\ PosOK /\ TimeOK /\ [Next]_vars => TimeOK'
<1> SUFFICES ASSUME IInv, PosOK, TimeOK, [Next]_vars PROVE TimeOK'
  OBVIOUS
<1> USE PlaybackAssumption
<1>t. TypeOK
  BY DEF IInv
<1>1. CASE User
  <2>1. ASSUME NEW p \in Positions, Locate(p) PROVE TimeOK'
    BY <2>1, TimeKept DEF Locate, seenVars, passVars
  <2>2. CASE Play
    BY <2>2, TimeKept DEF Play, seenVars, passVars
  <2>3. CASE StopPlaying
    BY <2>3, TimeKept DEF StopPlaying, seenVars, passVars
  <2>4. ASSUME NEW list \in Lists, ClearEvents(list) PROVE TimeOK'
    BY <2>4 DEF ClearEvents, TimeOK
  <2>5. CASE ExportMidi
    BY <2>5, TimeKept DEF ExportMidi, ctlVars, seenVars, passVars
  <2> QED BY <1>1, <2>1, <2>2, <2>3, <2>4, <2>5 DEF User
<1>2. CASE Handler
  <2>1. CASE SetPos
    BY <2>1 DEF SetPos, TimeOK
  <2>2. CASE SeekMidi
    <3>1. /\ ui = "seek" /\ pos' \in SeekPos /\ late' = (pc # "idle" \/ ran > 0)
          /\ pc' = pc /\ torn' = torn /\ events' = events /\ play_pos' = play_pos
          /\ whole' = whole
      BY <2>2, Zenon DEF SeekMidi, ctlVars, procVars
    <3> SUFFICES ASSUME ~late', torn = "idle", whole PROVE TimeOK'
      BY <3>1 DEF TimeOK
    <3>2. pc = "idle" /\ ran = 0
      <4>1. ~(pc # "idle" \/ ran > 0)
        BY <3>1
      <4>2. ran \in 0..MaxPos
        BY <1>t DEF TypeOK
      <4> QED BY <4>1, <4>2
    <3>3. play_pos = locate_pos
      <4>1. play_pos = UpTo(locate_pos + 0)
        BY <3>1, <3>2 DEF PosOK
      <4> QED BY <1>t, <4>1 DEF UpTo, TypeOK
    <3>4. \A i \in 1..Len(events) : i > pos' => locate_pos <= events[i].time
      BY <1>t, <3>1, SeekFindsAll DEF IInv, ListOK
    <3>5. Ahead(play_pos)'
      BY <3>1, <3>3, <3>4 DEF Ahead
    <3> QED BY <3>1, <3>2, <3>5 DEF TimeOK
  <2>3. CASE Go
    BY <2>3, TimeKept DEF Go, seenVars, passVars
  <2>4. CASE AddEvent \/ SortEvents
    BY <2>4 DEF AddEvent, SortEvents, TimeOK, IInv, ListOK, seenVars, passVars
  <2>5. CASE EndExport
    BY <2>5, TimeKept DEF EndExport, ctlVars, seenVars, passVars
  <2>6. CASE GenerateFails
    BY <2>6 DEF GenerateFails, TimeOK, IInv, ListOK
  <2> QED BY <1>2, <2>1, <2>2, <2>3, <2>4, <2>5, <2>6 DEF Handler
<1>3. CASE PlayMonitor
  BY <1>3, TimeKept DEF PlayMonitor, StopPlaying, seenVars, passVars
<1>4. CASE Process
  <2>1. CASE TakeLock
    BY <2>1 DEF TakeLock, TimeOK, ctlVars, Ahead, listVars, passVars
  <2>2. CASE MissLock
    BY <2>2 DEF MissLock, TimeOK
  <2>3. CASE SendEvent
    <3>1. /\ pc = "midi" /\ pos' = pos + 1
          /\ UNCHANGED <<ui, play_pos, events, pc, whole, dirty, late, torn>>
      BY <2>3, Zenon DEF SendEvent, ctlVars
    <3>2. pos \in Nat /\ Len(events) \in Nat
      BY <1>t DEF TypeOK
    <3>3. Ahead(play_pos) => Ahead(play_pos)'
      BY <3>1, <3>2 DEF Ahead
    <3> QED BY <3>1, <3>3 DEF TimeOK
  <2>4. CASE MidiDone
    <3>1. /\ pc = "midi" /\ pc' = "count"
          /\ late' = IF playing THEN pos < Len(events) /\ Due(events[pos + 1]) ELSE late
          /\ UNCHANGED <<ui, play_pos, events, pos, playing, whole, dirty, torn>>
      BY <2>4, Zenon DEF MidiDone, ctlVars, listVars, passVars
    <3> SUFFICES ASSUME ui # "seek", whole, ~dirty, ~late', torn = "idle" PROVE TimeOK'
      BY <3>1 DEF TimeOK
    <3>2. CASE playing
      <4>1. ~(pos < Len(events) /\ Due(events[pos + 1]))
        BY <3>1, <3>2
      <4>2. Sorted(events)
        BY DEF IInv, PlayedInOrder
      <4>3. play_pos + Frames \in Nat
        BY <1>t DEF TypeOK
      <4>4. pos < Len(events) => play_pos + Frames <= events[pos + 1].time
        <5>1. ASSUME pos < Len(events) PROVE events[pos + 1].time \in Nat
          <6>1. pos + 1 \in 1..Len(events)
            BY <1>t, <5>1 DEF TypeOK
          <6> QED BY <1>t, <6>1, EventTimes
        <5> QED BY <4>1, <4>3, <5>1 DEF Due
      <4>5. Ahead(play_pos + Frames)
        BY <1>t, <4>2, <4>3, <4>4, FirstNotDue
      <4>6. Ahead(play_pos + Frames)'
        BY <3>1, <4>5 DEF Ahead
      <4> QED BY <3>1, <3>2, <4>6 DEF TimeOK
    <3>3. CASE ~playing
      <4>1. Ahead(play_pos)
        BY <3>1, <3>3 DEF TimeOK
      <4>2. Ahead(play_pos)'
        BY <3>1, <4>1 DEF Ahead
      <4> QED BY <3>1, <3>3, <4>2 DEF TimeOK
    <3> QED BY <3>2, <3>3
  <2>5. CASE LoadPos
    BY <2>5 DEF LoadPos, TimeOK, ctlVars, Ahead, listVars, seenVars, passVars
  <2>6. CASE StorePos
    <3>1. /\ pc = "store" /\ pc' = "idle" /\ play_pos' = UpTo(loaded + Frames)
          /\ UNCHANGED <<ui, events, pos, whole, dirty, late, torn>>
      BY <2>6, Zenon DEF StorePos, Advanced, ctlVars, listVars, passVars
    <3>2. loaded + Frames \in Nat
      BY <1>t DEF TypeOK
    <3>3. play_pos' \in Nat /\ play_pos' <= loaded + Frames
      BY <3>1, <3>2 DEF UpTo
    <3>4. \A i \in 1..Len(events) : events[i].time \in Nat
      BY <1>t, EventTimes
    <3>5. Ahead(loaded + Frames) => Ahead(play_pos)'
      BY <3>1, <3>2, <3>3, <3>4 DEF Ahead
    <3> QED BY <3>1, <3>5 DEF TimeOK
  <2>7. CASE EndCycle
    BY <2>7 DEF EndCycle, TimeOK, ctlVars, Ahead, listVars, seenVars, passVars
  <2> QED BY <1>4, <2>1, <2>2, <2>3, <2>4, <2>5, <2>6, <2>7 DEF Process
<1>5. CASE Transport
  BY <1>5, TimeKept DEF Transport, TransportRolls, TransportHolds, ctlVars, seenVars, passVars
<1>6. CASE UNCHANGED vars
  BY <1>6, TimeKept DEF vars, ctlVars, seenVars, passVars
<1> QED BY <1>1, <1>2, <1>3, <1>4, <1>5, <1>6 DEF Next

(* No event is left behind: between two cycles, all that is before the play *)
(* position has been sent, unless the last generate failed on the way,      *)
(* process missed the lock, the buffer was full, or a locate fell into a    *)
(* cycle.                                                                   *)
THEOREM NothingLeftBehind == Spec => []OnTime
<1>1. TimeOK => OnTime
  BY DEF TimeOK, OnTime, Ahead
<1> QED BY <1>1, TimeInit, TimeStep, IInvHolds, PosHolds, PTL DEF Spec

-----------------------------------------------------------------------------
(* While process holds the lock, what is still to be sent in this cycle     *)
(* comes at the offset of the last event or after it, in a whole list.      *)
OffsetOK ==
  pc = "midi" /\ whole /\ torn # "midi" =>
    \A i \in 1..Len(events) : i > pos => offset <= Offset(events[i])

LEMMA OffsetKept ==
  ASSUME OffsetOK, UNCHANGED <<listVars, play_pos, pc, whole, offset, torn>>
  PROVE  OffsetOK'
BY DEF OffsetOK, Offset, listVars

LEMMA OffsetRises ==
  ASSUME TypeOK, Sorted(events), NEW j \in 1..Len(events), NEW i \in 1..Len(events), j <= i
  PROVE  Offset(events[j]) <= Offset(events[i])
<1>1. events[j].time \in Nat /\ events[i].time \in Nat /\ play_pos \in Nat
  BY EventTimes, PlaybackAssumption DEF TypeOK
<1>2. events[j].time <= events[i].time
  <2>1. CASE j = i
    BY <1>1, <2>1
  <2>2. CASE j < i
    BY <2>2 DEF Sorted
  <2> QED BY <2>1, <2>2
<1> QED BY <1>1, <1>2 DEF Offset

LEMMA OffsetStep == IInv /\ OffsetOK /\ [Next]_vars => OffsetOK'
<1> SUFFICES ASSUME IInv, OffsetOK, [Next]_vars PROVE OffsetOK'
  OBVIOUS
<1> USE PlaybackAssumption
<1>t. TypeOK
  BY DEF IInv
<1>1. CASE User
  <2>1. ASSUME NEW p \in Positions, Locate(p) PROVE OffsetOK'
    BY <2>1, OffsetKept DEF Locate, procVars, seenVars
  <2>2. CASE Play \/ StopPlaying \/ ExportMidi
    BY <2>2, OffsetKept DEF Play, StopPlaying, ExportMidi, ctlVars, procVars, seenVars
  <2>3. ASSUME NEW list \in Lists, ClearEvents(list) PROVE OffsetOK'
    BY <2>3 DEF ClearEvents, OffsetOK
  <2> QED BY <1>1, <2>1, <2>2, <2>3 DEF User
<1>2. CASE Handler
  <2>1. CASE SetPos
    BY <2>1 DEF SetPos, OffsetOK, procVars
  <2>2. CASE SeekMidi \/ AddEvent \/ SortEvents
    BY <2>2 DEF SeekMidi, AddEvent, SortEvents, MidiLockFree, OffsetOK, procVars
  <2>3. CASE Go \/ EndExport \/ GenerateFails
    BY <2>3, OffsetKept DEF Go, EndExport, GenerateFails, ctlVars, procVars, seenVars
  <2> QED BY <1>2, <2>1, <2>2, <2>3 DEF Handler
<1>3. CASE PlayMonitor
  BY <1>3, OffsetKept DEF PlayMonitor, StopPlaying, procVars, seenVars
<1>4. CASE Process
  <2>1. CASE TakeLock
    <3>1. /\ offset' = 0 /\ UNCHANGED <<whole, play_pos, events, pos, torn>>
      BY <2>1 DEF TakeLock, ctlVars, listVars
    <3>2. \A i \in 1..Len(events) : 0 <= Offset(events[i])
      <4>1. \A i \in 1..Len(events) : events[i].time \in Nat /\ play_pos \in Nat
        BY <1>t, EventTimes DEF TypeOK
      <4> QED BY <4>1 DEF Offset
    <3> QED BY <3>1, <3>2 DEF OffsetOK, Offset
  <2>2. CASE SendEvent
    <3>1. /\ pc = "midi" /\ pos' = pos + 1 /\ pos < Len(events)
          /\ offset' = Offset(events[pos + 1])
          /\ UNCHANGED <<whole, play_pos, events, pc, torn>>
      BY <2>2, Zenon DEF SendEvent, Sends, ctlVars
    <3>2. pos \in Nat /\ Len(events) \in Nat
      BY <1>t DEF TypeOK
    <3>3. ASSUME whole, NEW i \in 1..Len(events), i > pos + 1
          PROVE  Offset(events[pos + 1]) <= Offset(events[i])
      <4>1. pos + 1 \in 1..Len(events) /\ pos + 1 <= i
        BY <3>1, <3>2, <3>3
      <4> QED BY <1>t, <3>3, <4>1, OffsetRises DEF IInv, ListOK
    <3> QED BY <3>1, <3>3 DEF OffsetOK, Offset
  <2>3. CASE MissLock \/ MidiDone \/ LoadPos \/ StorePos \/ EndCycle
    BY <2>3 DEF MissLock, MidiDone, LoadPos, StorePos, EndCycle, OffsetOK
  <2> QED BY <1>4, <2>1, <2>2, <2>3 DEF Process
<1>5. CASE Transport
  BY <1>5, OffsetKept DEF Transport, TransportRolls, TransportHolds, ctlVars, procVars, seenVars
<1>6. CASE UNCHANGED vars
  BY <1>6, OffsetKept DEF vars, ctlVars, procVars, seenVars
<1> QED BY <1>1, <1>2, <1>3, <1>4, <1>5, <1>6 DEF Next

(* What JACK gets in a cycle lies inside the cycle, and comes in order of   *)
(* its offset from a list that generate has filled and sorted to the end,   *)
(* unless a locate has fallen into the cycle.                               *)
THEOREM OffsetsRise == Spec => OffsetsInOrder
<1> DEFINE Rises ==
      pos' = pos + 1 /\ pc = "midi" /\ torn # "midi" =>
        /\ offset' < Frames
        /\ whole => offset <= offset'
<1>1. IInv /\ OffsetOK /\ [Next]_vars => [Rises]_vars
  <2> SUFFICES ASSUME IInv, OffsetOK, Next,
                      pos' = pos + 1, pc = "midi", torn # "midi"
               PROVE  offset' < Frames /\ (whole => offset <= offset')
    OBVIOUS
  <2>1. TypeOK
    BY DEF IInv
  <2>2. pos \in Nat /\ pos' # pos
    BY <2>1 DEF TypeOK
  <2>3. SendEvent
    BY <2>2 DEF Next, User, Handler, Process, Transport, Locate, Play, StopPlaying, ClearEvents,
       ExportMidi, SetPos, SeekMidi, MidiLockFree, Go, AddEvent, SortEvents, GenerateFails, EndExport,
       PlayMonitor, TakeLock, MissLock, MidiDone, LoadPos, StorePos, EndCycle,
       TransportRolls, TransportHolds, listVars
  <2>4. pos < Len(events) /\ Due(events[pos + 1]) /\ offset' = Offset(events[pos + 1])
    BY <2>3, Zenon DEF SendEvent, Sends
  <2>5. pos + 1 \in 1..Len(events) /\ pos + 1 > pos
    BY <2>1, <2>4 DEF TypeOK
  <2>6. whole => offset <= Offset(events[pos + 1])
    BY <2>5 DEF OffsetOK
  <2>7. events[pos + 1].time \in Nat /\ play_pos \in Nat /\ Frames \in Nat \ {0}
    BY <2>1, <2>5, EventTimes, PlaybackAssumption DEF TypeOK
  <2> QED BY <2>4, <2>6, <2>7 DEF Due, Offset
<1>2. Init => OffsetOK
  BY DEF Init, OffsetOK
<1>3. OffsetsInOrder <=> [][Rises]_vars
  BY PTL DEF OffsetsInOrder
<1> HIDE DEF Rises
<1> QED BY <1>1, <1>2, <1>3, OffsetStep, IInvHolds, PTL DEF Spec
=============================================================================
