--------------------------- MODULE AudioStreamProofs ---------------------------
(***************************************************************************)
(* Proofs about AudioStream, for every number of channels, ring capacity,  *)
(* length of a cycle and of a rendering: the types, that the disk thread   *)
(* finds room for every sample, and that what is heard is the file from    *)
(* the place of the locate on.                                             *)
(***************************************************************************)
EXTENDS AudioStream, TLAPS

(* The disk thread has asked once how much room there is.  For as long as   *)
(* the ring is clean, what is in it and what is still to come of that       *)
(* fill fits: avail whole frames, and the rest of the one being written.    *)
Fits ==
  clean =>
    /\ disk = "fill" => Len(rb) + avail * Channels <= Capacity
    /\ disk = "write" => Len(rb) + avail * Channels + (Channels - k) <= Capacity

IInv == TypeOK /\ Fits

-----------------------------------------------------------------------------
(* Whole frames in a number of samples: what Space computes.                *)
LEMMA WholeFrames ==
  ASSUME NEW n \in Nat, NEW c \in Nat \ {0}
  PROVE  /\ n \div c \in 0..n
         /\ (n \div c) * c <= n
<1>1. n \div c \in Int
  BY SMT
<1>2. n \div c >= 0 /\ n \div c <= n
  BY SMT
<1>3. (n \div c) * c <= n
  BY SMT
<1> QED
  BY <1>1, <1>2, <1>3, SMT

(* One frame less to come is Channels samples less.                         *)
LEMMA OneFrameLess ==
  ASSUME NEW a \in Nat, NEW c \in Nat
  PROVE  (a - 1) * c = a * c - c /\ a * c \in Nat
BY SMT

(* What the ring and the bus's buffer hold are samples.                     *)
LEMMA Samples ==
  /\ Silent \in Sample /\ Stale \in Sample
  /\ SilentBuf \in [1..Channels -> Sample]
  /\ \A f \in 0..(MaxFrames - 1) : FromFile(f) \in [1..Channels -> Sample]
BY StreamAssumption, SMT DEF Silent, Stale, Sample, SilentBuf, FromFile

(* Taking samples from the front of the ring leaves samples, and no more.   *)
LEMMA Front ==
  ASSUME NEW s \in Seq(Sample), NEW n \in 0..Len(s)
  PROVE  /\ SubSeq(s, n + 1, Len(s)) \in Seq(Sample)
         /\ Len(SubSeq(s, n + 1, Len(s))) = Len(s) - n
BY SMT

-----------------------------------------------------------------------------
LEMMA InitHolds == Init => IInv
<1> SUFFICES ASSUME Init PROVE IInv
  OBVIOUS
<1>1. TypeOK
  <2>1. /\ frames \in 0..MaxFrames /\ opened \in 0..frames /\ fpos \in 0..MaxFrames
        /\ read_pos \in Nat /\ avail \in 0..Capacity /\ k \in 0..(Channels - 1)
        /\ left \in 0..CycleLen /\ heard \in -1..MaxFrames
        /\ play_pos \in 0..MaxPos /\ end_pos \in Nat
    BY StreamAssumption, SMT DEF Init
  <2>2. rb \in Seq(Sample) /\ Len(rb) <= Capacity
    BY StreamAssumption, SMT DEF Init
  <2>3. buf \in [1..Channels -> Sample]
    BY Samples DEF Init
  <2> QED
    BY <2>1, <2>2, <2>3 DEF Init, TypeOK
<1>2. Fits
  BY DEF Init, Fits
<1> QED
  BY <1>1, <1>2 DEF IInv

(* A step that leaves the ring and the disk thread alone leaves room.       *)
LEMMA FitsKept ==
  ASSUME IInv, UNCHANGED <<disk, avail, k>>, clean' => clean,
         rb' \in Seq(Sample), Len(rb') <= Len(rb)
  PROVE  Fits'
<1>1. avail * Channels \in Int
  BY OneFrameLess, StreamAssumption, SMT DEF IInv, TypeOK
<1>2. Len(rb) \in Nat /\ Len(rb') \in Nat
  BY SMT DEF IInv, TypeOK
<1> DEFINE room == avail * Channels
<1>3. room' = room /\ k' = k
  OBVIOUS
<1>4. (clean /\ disk = "fill") => Len(rb) + room <= Capacity
  BY DEF IInv, Fits
<1>5. (clean /\ disk = "write") => Len(rb) + room + (Channels - k) <= Capacity
  BY DEF IInv, Fits
<1>6. k \in Int /\ Capacity \in Int /\ Channels \in Int
  BY StreamAssumption, SMT DEF IInv, TypeOK
<1> HIDE DEF room
<1>7. (clean /\ disk = "fill") => Len(rb') + room <= Capacity
  BY <1>1, <1>2, <1>4, <1>6, SMT DEF room
<1>8. (clean /\ disk = "write") => Len(rb') + room + (Channels - k) <= Capacity
  BY <1>1, <1>2, <1>5, <1>6, SMT DEF room
<1> QED
  BY <1>3, <1>7, <1>8 DEF Fits, room

LEMMA NextHolds == IInv /\ [Next]_vars => IInv'
<1> SUFFICES ASSUME IInv, [Next]_vars PROVE IInv'
  OBVIOUS
<1> USE StreamAssumption
<1>r. CASE Render
  <2>1. TypeOK'
    BY <1>r, SMT DEF Render, IInv, TypeOK, uiVars, posVars, fileVars, diskVars, procVars, flagVars, seenVars
  <2>2. Fits'
    BY <1>r DEF Render, IInv, Fits, diskVars, seenVars
  <2> QED
    BY <2>1, <2>2 DEF IInv
<1>l. CASE \E p \in Positions : DoLocate(p)
  <2>1. PICK p \in Positions : DoLocate(p)
    BY <1>l
  <2>2. play_pos' \in 0..MaxPos
    BY <2>1 DEF DoLocate, IInv, TypeOK
  <2>3. TypeOK'
    BY <2>1, <2>2 DEF DoLocate, IInv, TypeOK, fileVars, diskVars, procVars
  <2>4. Fits'
    BY <2>1 DEF DoLocate, Fits
  <2> QED
    BY <2>3, <2>4 DEF IInv
<1>n. CASE \E e \in EndMarks : SetEnd(e)
  <2>1. PICK e \in EndMarks : SetEnd(e)
    BY <1>n
  <2>2. TypeOK'
    BY <2>1 DEF SetEnd, IInv, TypeOK, fileVars, diskVars, procVars, flagVars, seenVars
  <2>3. Fits'
    BY <2>1 DEF SetEnd, IInv, Fits, diskVars, seenVars
  <2> QED
    BY <2>2, <2>3 DEF IInv
<1>p. CASE Play
  <2>1. locate_pos \in Positions
    BY DEF IInv, TypeOK
  <2> QED
    BY <1>p, <2>1, <1>l DEF Play
<1>e. CASE Reset
  <2>1. rb' \in Seq(Sample) /\ Len(rb') <= Capacity
    <3>1. CASE rb' = Emptied
      BY <3>1, SMT DEF Emptied
    <3>2. CASE rb' \in {[i \in 1..n |-> Stale] : n \in 1..Capacity}
      <4>1. PICK n \in 1..Capacity : rb' = [i \in 1..n |-> Stale]
        BY <3>2
      <4>2. n \in Nat /\ n <= Capacity
        BY <4>1, SMT
      <4>3. rb' \in [1..n -> Sample]
        BY <4>1, Samples
      <4> QED
        BY <4>2, <4>3, SMT
    <3> QED
      BY <1>e, <3>1, <3>2 DEF Reset
  <2>2. TypeOK'
    BY <1>e, <2>1, SMT DEF Reset, IInv, TypeOK, uiVars, posVars, fileVars, diskVars, procVars, flagVars, seenVars
  <2>3. Fits'
    BY <1>e DEF Reset, Fits, diskVars
  <2> QED
    BY <2>2, <2>3 DEF IInv
<1>t. CASE TransportRolls \/ TransportHolds
  <2>1. rolling' \in BOOLEAN
    BY <1>t DEF TransportRolls, TransportHolds
  <2>2. UNCHANGED <<uiVars, posVars, frames, fileVars, diskVars, procVars, flagVars, rb, seenVars>>
    BY <1>t DEF TransportRolls, TransportHolds
  <2>3. TypeOK'
    BY <2>1, <2>2 DEF IInv, TypeOK, uiVars, posVars, fileVars, diskVars, procVars, flagVars, seenVars
  <2>4. Fits'
    BY <2>2 DEF IInv, Fits, diskVars, seenVars
  <2> QED
    BY <2>3, <2>4 DEF IInv
<1>s. CASE StartCycle
  <2>1. TypeOK'
    BY <1>s, SMT DEF StartCycle, IInv, TypeOK, uiVars, posVars, fileVars, diskVars, procVars, flagVars, seenVars
  <2>2. Fits'
    BY <1>s DEF StartCycle, IInv, Fits, diskVars, seenVars
  <2> QED
    BY <2>1, <2>2 DEF IInv
<1>f. CASE ReadFrame
  <2>1. Taken \in 0..Len(rb)
    BY SMT DEF Taken, Least, IInv, TypeOK
  <2>2. rb' \in Seq(Sample) /\ Len(rb') <= Len(rb)
    BY <1>f, <2>1, Front, SMT DEF ReadFrame, IInv, TypeOK
  <2>3. Played[1] \in Sample
    BY <2>1, Samples, SMT DEF Played, IInv, TypeOK
  <2>4. heard' \in -1..MaxFrames
    <3>1. Played[1].frame \in -2..MaxFrames /\ heard \in -1..MaxFrames
      BY <2>3, SMT DEF Sample, IInv, TypeOK
    <3>2. heard' = heard \/ (heard' = Played[1].frame /\ Played[1].frame >= 0)
      BY <1>f DEF ReadFrame
    <3> QED
      BY <3>1, <3>2, SMT
  <2>5. TypeOK'
    BY <1>f, <2>2, <2>4, SMT DEF ReadFrame, IInv, TypeOK, uiVars, posVars, fileVars, diskVars, procVars, flagVars, seenVars
  <2>6. Fits'
    BY <1>f, <2>2, FitsKept DEF ReadFrame, diskVars
  <2> QED
    BY <2>5, <2>6 DEF IInv
<1>c. CASE EndCycle
  <2>1. TypeOK'
    BY <1>c, SMT DEF EndCycle, IInv, TypeOK, uiVars, posVars, fileVars, diskVars, procVars, flagVars, seenVars
  <2>2. Fits'
    BY <1>c DEF EndCycle, IInv, Fits, seenVars
  <2> QED
    BY <2>1, <2>2 DEF IInv
<1>a. CASE AdvancePos
  <2>1. play_pos' \in 0..MaxPos
    <3>1. play_pos + CycleLen \in Nat /\ play_pos \in 0..MaxPos
      BY SMT DEF IInv, TypeOK
    <3>2. UpTo(play_pos + CycleLen) \in 0..MaxPos
      BY <3>1, SMT DEF UpTo
    <3> QED
      BY <1>a, <3>1, <3>2 DEF AdvancePos
  <2>2. playing' \in BOOLEAN /\ clean' \in BOOLEAN
    <3>1. playing' = (playing /\ play_pos' < end_pos) /\ clean' = (clean /\ (playing => playing'))
      BY <1>a, Zenon DEF AdvancePos
    <3> QED
      BY <3>1, Zenon
  <2>3. /\ pc' \in {"idle", "read", "count"}
        /\ UNCHANGED <<uiVars, end_pos, rolling, frames, fileVars, diskVars, left, flagVars, rb, heard>>
    BY <1>a DEF AdvancePos
  <2>4. TypeOK'
    BY <2>1, <2>2, <2>3 DEF IInv, TypeOK, uiVars, fileVars, diskVars, flagVars
  <2>5. clean' => clean
    BY <1>a, Zenon DEF AdvancePos
  <2>6. Fits'
    BY <2>3, <2>5 DEF IInv, Fits, diskVars
  <2> QED
    BY <2>4, <2>6 DEF IInv
<1>o. CASE Top
  <2>1. TypeOK'
    BY <1>o DEF Top, IInv, TypeOK, uiVars, posVars, fileVars, diskVars, procVars, flagVars, seenVars
  <2>2. Fits'
    BY <1>o DEF Top, Fits
  <2> QED
    BY <2>1, <2>2 DEF IInv
<1>b. CASE Bus
  <2>1. avail' = Space /\ disk' = "fill" /\ rb' = rb
    BY <1>b DEF Bus
  <2>2. Capacity - Len(rb) \in Nat /\ Capacity - Len(rb) <= Capacity
    BY SMT DEF IInv, TypeOK
  <2>3. /\ Space \in 0..(Capacity - Len(rb))
        /\ Space * Channels <= Capacity - Len(rb)
    BY <2>2, WholeFrames DEF Space
  <2>4. avail' \in 0..Capacity
    BY <2>1, <2>2, <2>3, SMT
  <2>5. /\ opened' \in 0..frames /\ fpos' \in 0..MaxFrames
        /\ read_pos' \in Nat /\ silence' \in BOOLEAN
        /\ buf' \in [1..Channels -> Sample]
    <3>1. CASE seeking
      <4>1. locate_pos \in Nat
        BY DEF IInv, TypeOK
      <4>2. opened' \in 0..frames /\ fpos' \in 0..MaxFrames
        BY <1>b, <3>1, <4>1, SMT DEF Bus, Seek, Reopened, IInv, TypeOK
      <4>3. silence' \in BOOLEAN
        <5>1. silence' = FALSE \/ silence' = (locate_pos > Reopened)
          BY <1>b, <3>1 DEF Bus, Seek
        <5>2. (locate_pos > Reopened) \in BOOLEAN
          BY <4>1, SMT DEF Reopened, IInv, TypeOK
        <5> QED
          BY <5>1, <5>2
      <4> QED
        BY <1>b, <3>1, <4>1, <4>2, <4>3, Samples DEF Bus
    <3>2. CASE ~seeking
      BY <1>b, <3>2 DEF Bus, IInv, TypeOK, fileVars
    <3> QED
      BY <3>1, <3>2
  <2>6. TypeOK'
    BY <1>b, <2>4, <2>5 DEF Bus, IInv, TypeOK, uiVars, posVars, procVars, flagVars, seenVars
  <2>7. Fits'
    <3>1. Len(rb) \in Nat
      BY SMT DEF IInv, TypeOK
    <3>2. Space \in Nat
      BY <2>2, <2>3, SMT
    <3>3. Space * Channels \in Nat
      BY <3>2, OneFrameLess
    <3>4. Len(rb) + Space * Channels <= Capacity
      BY <2>3, <3>1, <3>3, SMT
    <3>5. Len(rb') + avail' * Channels <= Capacity
      BY <2>1, <3>4
    <3> QED
      BY <2>1, <3>5 DEF Fits
  <2> QED
    BY <2>6, <2>7 DEF IInv
<1>m. CASE Frame
  <2>1. /\ disk = "fill" /\ disk' = "write" /\ avail' = avail - 1 /\ k' = 0
        /\ avail > 0 /\ rb' = rb /\ clean' = clean
    BY <1>m DEF Frame, seenVars
  <2>2. avail \in Nat /\ avail' \in 0..Capacity
    BY <2>1, SMT DEF IInv, TypeOK
  <2>3. /\ opened' \in 0..frames /\ fpos' \in 0..MaxFrames
        /\ read_pos' \in Nat /\ silence' \in BOOLEAN
        /\ buf' \in [1..Channels -> Sample]
    <3>1. CASE Reads /\ fpos < opened /\ UNCHANGED <<opened, silence>>
               /\ buf' = FromFile(fpos) /\ fpos' = fpos + 1 /\ read_pos' = read_pos + 1
      <4>1. fpos \in 0..(MaxFrames - 1) /\ fpos' \in 0..MaxFrames /\ read_pos' \in Nat
        BY <3>1, SMT DEF IInv, TypeOK
      <4> QED
        BY <3>1, <4>1, Samples DEF IInv, TypeOK
    <3>2. CASE /\ Reads /\ fpos >= opened /\ opened' = Reopened
               /\ silence' = (read_pos >= Reopened)
               /\ buf' = IF silence' THEN SilentBuf ELSE FromFile(read_pos)
               /\ fpos' = IF silence' THEN Least(read_pos, Reopened) ELSE read_pos + 1
               /\ read_pos' = read_pos + 1
      <4>1. opened' \in 0..frames /\ read_pos' \in Nat
        BY <3>2, SMT DEF Reopened, IInv, TypeOK
      <4>2. silence' \in BOOLEAN
        BY <3>2
      <4>3. CASE read_pos >= Reopened
        <5>1. buf' = SilentBuf /\ fpos' = Least(read_pos, Reopened)
          BY <3>2, <4>3
        <5>2. fpos' \in 0..MaxFrames
          BY <5>1, SMT DEF Least, Reopened, IInv, TypeOK
        <5> QED
          BY <4>1, <4>2, <5>1, <5>2, Samples
      <4>4. CASE ~(read_pos >= Reopened)
        <5>1. buf' = FromFile(read_pos) /\ fpos' = read_pos + 1
          BY <3>2, <4>4
        <5>2. read_pos \in 0..(MaxFrames - 1) /\ fpos' \in 0..MaxFrames
          BY <4>4, <5>1, SMT DEF Reopened, IInv, TypeOK
        <5> QED
          BY <4>1, <4>2, <5>1, <5>2, Samples
      <4> QED
        BY <4>3, <4>4
    <3>3. CASE ~Reads /\ UNCHANGED <<fileVars, buf>>
      BY <3>3 DEF IInv, TypeOK, fileVars
    <3> QED
      BY <1>m, <3>1, <3>2, <3>3 DEF Frame
  <2>4. chans' \in {0, Channels}
    BY <1>m DEF Frame
  <2>5. k' \in 0..(Channels - 1)
    BY <2>1, SMT
  <2>6. TypeOK'
    BY <1>m, <2>1, <2>2, <2>3, <2>4, <2>5 DEF Frame, IInv, TypeOK, uiVars, posVars, procVars, flagVars, seenVars
  <2>7. Fits'
    <3>1. avail' * Channels = avail * Channels - Channels /\ avail * Channels \in Nat
      BY <2>1, <2>2, OneFrameLess
    <3>2. clean => Len(rb) + avail * Channels <= Capacity
      BY <2>1 DEF IInv, Fits
    <3>3. Len(rb) \in Nat
      BY SMT DEF IInv, TypeOK
    <3>4. clean => Len(rb) + avail' * Channels + (Channels - 0) <= Capacity
      BY <3>1, <3>2, <3>3, SMT
    <3> QED
      BY <2>1, <3>4 DEF Fits
  <2> QED
    BY <2>6, <2>7 DEF IInv
<1>w. CASE Write
  <2>1. Written \in Sample
    BY SMT DEF Written, IInv, TypeOK
  <2>2. rb' \in Seq(Sample) /\ Len(rb') <= Capacity /\ Len(rb') <= Len(rb) + 1
    BY <1>w, <2>1, SMT DEF Write, IInv, TypeOK
  <2>3. k' \in 0..(Channels - 1)
    BY <1>w, SMT DEF Write, IInv, TypeOK
  <2>4. TypeOK'
    BY <1>w, <2>2, <2>3 DEF Write, IInv, TypeOK, uiVars, posVars, fileVars, procVars, flagVars, seenVars
  <2>5. Fits'
    <3>1. avail * Channels \in Nat /\ Len(rb) \in Nat /\ Len(rb') \in Nat /\ k \in Nat
      BY <2>2, OneFrameLess, SMT DEF IInv, TypeOK
    <3>2. clean => Len(rb) + avail * Channels + (Channels - k) <= Capacity
      BY <1>w DEF Write, IInv, Fits
    <3>3. clean' = clean /\ avail' = avail
      BY <1>w DEF Write, seenVars
    <3>4. CASE k + 1 < Channels
      <4>1. k' = k + 1 /\ disk' = "write"
        BY <1>w, <3>4 DEF Write
      <4>2. clean => Len(rb') + avail * Channels + (Channels - (k + 1)) <= Capacity
        BY <2>2, <3>1, <3>2, SMT
      <4> QED
        BY <3>3, <4>1, <4>2 DEF Fits
    <3>5. CASE ~(k + 1 < Channels)
      <4>1. k' = 0 /\ disk' = "fill"
        BY <1>w, <3>5 DEF Write
      <4>2. k + 1 = Channels
        BY <3>5, SMT DEF IInv, TypeOK
      <4>3. clean => Len(rb') + avail * Channels <= Capacity
        BY <2>2, <3>1, <3>2, <4>2, SMT
      <4> QED
        BY <3>3, <4>1, <4>3 DEF Fits
    <3> QED
      BY <3>4, <3>5
  <2> QED
    BY <2>4, <2>5 DEF IInv
<1>d. CASE Filled
  <2>1. TypeOK'
    BY <1>d, SMT DEF Filled, Resumes, IInv, TypeOK, uiVars, posVars, fileVars, procVars, seenVars
  <2>2. Fits'
    BY <1>d DEF Filled, Fits
  <2> QED
    BY <2>1, <2>2 DEF IInv
<1>u. CASE UNCHANGED vars
  <2>1. TypeOK'
    BY <1>u DEF vars, IInv, TypeOK, uiVars, posVars, fileVars, diskVars, procVars, flagVars, seenVars
  <2>2. Fits'
    BY <1>u DEF vars, IInv, Fits, diskVars, seenVars
  <2> QED
    BY <2>1, <2>2 DEF IInv
<1> QED
  BY <1>r, <1>l, <1>n, <1>p, <1>e, <1>t, <1>s, <1>f, <1>c, <1>a, <1>o, <1>b, <1>m, <1>w, <1>d, <1>u
  DEF Next, Locate, User, Process, DiskThread

-----------------------------------------------------------------------------
LEMMA IInvHolds == Spec => []IInv
BY InitHolds, NextHolds, PTL DEF Spec

(* The variables of the stream keep their types, and the ring never         *)
(* overflows.                                                               *)
THEOREM StreamTypeCorrect == Spec => []TypeOK
<1>1. IInv => TypeOK
  BY DEF IInv
<1> QED
  BY <1>1, IInvHolds, PTL

(* disk_thread asks once, before it fills, how many frames there is room    *)
(* for, while process goes on reading: it never has to drop a sample.       *)
THEOREM RoomForEverySample == Spec => []NoSampleDropped
<1>1. IInv => NoSampleDropped
  <2> SUFFICES ASSUME IInv, clean, disk = "write" PROVE Len(rb) < Capacity
    BY DEF NoSampleDropped
  <2>1. Len(rb) + avail * Channels + (Channels - k) <= Capacity
    BY DEF IInv, Fits
  <2>2. avail * Channels \in Nat /\ Len(rb) \in Nat /\ Channels - k \in Nat \ {0}
    BY OneFrameLess, StreamAssumption, SMT DEF IInv, TypeOK
  <2> QED
    BY <2>1, <2>2, StreamAssumption, SMT
<1> QED
  BY <1>1, IInvHolds, PTL

-----------------------------------------------------------------------------
(* What is in the ring.  Frame i of it, counted from its front, begins      *)
(* behind the samples of the frames before it.                              *)
At(i) == i * Channels

LEMMA Places ==
  /\ At(0) = 0
  /\ \A i \in Nat : At(i) \in Nat /\ At(i + 1) = At(i) + Channels
  /\ \A i, j \in Nat : i < j => At(i) + Channels <= At(j)
<1> USE StreamAssumption
<1>1. \A i \in Nat : At(i) \in Nat /\ At(i + 1) = At(i) + Channels
  BY SMT DEF At
<1>2. ASSUME NEW i \in Nat, NEW j \in Nat, i < j
      PROVE  At(i) + Channels <= At(j)
  <2>1. j = (i + 1) + (j - (i + 1)) /\ j - (i + 1) \in Nat
    BY <1>2, SMT
  <2>2. At(j) = At(i + 1) + (j - (i + 1)) * Channels
    BY <2>1, SMT DEF At
  <2>3. (j - (i + 1)) * Channels >= 0 /\ (j - (i + 1)) * Channels \in Int
    BY <2>1, SMT
  <2> QED
    BY <1>1, <2>2, <2>3, SMT
<1> QED
  BY <1>1, <1>2, SMT DEF At

(* The frame of the file to be heard next.                                  *)
Expected == IF heard = -1 THEN locate_pos ELSE heard + 1

(* The ring is silent, then holds the file from Expected on, then is silent:*)
(* frames a to b - 1 of the ring are from the file.                         *)
Content(a, b, i) == IF a <= i /\ i < b THEN FromFile(Expected + (i - a)) ELSE SilentBuf

(* A frame of which k samples are written is the last one in the ring.      *)
Writing == disk = "write"
Done == IF Writing THEN k ELSE 0
Begun(n) == IF Writing THEN n + 1 ELSE n

(* What that frame will be.                                                 *)
Out == [c \in 1..Channels |-> IF c <= chans THEN buf[c] ELSE buf[1]]

(* The locate has not reached the file yet.                                 *)
Unsought ==
  \/ locate_was_set /\ disk \in {"wait", "top"}
  \/ disk = "bus" /\ seeking

(* There are n whole frames in the ring, and perhaps a part of another.     *)
InOrder(n, a, b) ==
  /\ \A i \in 0..(n - 1) : \A c \in 1..Channels : rb[At(i) + c] = Content(a, b, i)[c]
  /\ \A c \in 1..Done : rb[At(n) + c] = Content(a, b, n)[c]

Stream(n, a, b) ==
  /\ a <= b /\ b <= Begun(n)
  /\ Len(rb) = At(n) + Done
  /\ InOrder(n, a, b)
  /\ Writing => Out = Content(a, b, n)
  /\ ~silence => b = Begun(n) /\ fpos = read_pos /\ read_pos = Expected + (b - a)
  /\ ~playing => a = b
  /\ (silence \/ ~playing) => buf = SilentBuf

StreamOK ==
  /\ seeking => disk = "bus"
  /\ clean =>
       /\ locate_was_set => disk \in {"wait", "top"}
       /\ ui # "reset"
       /\ Unsought => rb = <<>> /\ heard = -1
       /\ ~Unsought => \E n, a, b \in Nat : Stream(n, a, b)

(* A step that leaves the ring, the handle and the buffer alone.            *)
LEMMA StreamSame ==
  ASSUME NEW n \in Nat, NEW a \in Nat, NEW b \in Nat, Stream(n, a, b),
         UNCHANGED <<locate_pos, fpos, read_pos, silence, k, chans, buf, rb, heard>>,
         playing => playing', Writing' = Writing
  PROVE  Stream(n, a, b)'
<1>1. Expected' = Expected
  BY DEF Expected
<1>2. Done' = Done /\ Begun(n)' = Begun(n) /\ Out' = Out
  BY DEF Done, Begun, Out
<1>3. \A i \in Nat : Content(a, b, i)' = Content(a, b, i)
  BY <1>1 DEF Content, FromFile, SilentBuf, Silent
<1>4. InOrder(n, a, b)'
  BY <1>2, <1>3, SMT DEF Stream, InOrder, At
<1> QED
  BY <1>1, <1>2, <1>3, <1>4 DEF Stream, At

LEMMA StreamKept ==
  ASSUME StreamOK, clean' => clean,
         UNCHANGED <<locate_pos, locate_was_set, seeking, fpos, read_pos, silence, k,
                     chans, buf, rb, heard>>,
         clean' => ui' = ui \/ ui' = "play",
         clean' => (playing => playing'),
         disk' = disk \/ (disk = "wait" /\ disk' = "top")
  PROVE  StreamOK'
<1>1. Unsought' = Unsought /\ Writing' = Writing
  BY DEF Unsought, Writing
<1>2. ASSUME clean', NEW n \in Nat, NEW a \in Nat, NEW b \in Nat, Stream(n, a, b)
      PROVE  Stream(n, a, b)'
  BY <1>1, <1>2, StreamSame
<1> QED
  BY <1>1, <1>2 DEF StreamOK

(* The reset, when it finds nobody at work.                                 *)
LEMMA StreamReset == StreamOK /\ Reset => StreamOK'
<1> SUFFICES ASSUME StreamOK, Reset PROVE StreamOK'
  OBVIOUS
<1>1. seeking' = seeking /\ disk' = disk /\ locate_was_set' = locate_was_set
  BY DEF Reset, diskVars, flagVars
<1>2. ASSUME clean'
      PROVE  /\ locate_was_set' /\ disk' \in {"wait", "top"} /\ ui' # "reset"
             /\ rb' = <<>> /\ heard' = -1
  <2>1. disk \in {"wait", "top"} /\ pc # "read" /\ locate_was_set
    BY <1>2 DEF Reset
  <2>2. ~InRing
    BY <2>1 DEF InRing
  <2> QED
    BY <1>1, <2>1, <2>2 DEF Reset, Emptied
<1>3. clean' => Unsought'
  BY <1>2 DEF Unsought
<1> QED
  BY <1>1, <1>2, <1>3 DEF StreamOK

LEMMA StreamTop == StreamOK /\ Top => StreamOK'
<1> SUFFICES ASSUME StreamOK, Top PROVE StreamOK'
  OBVIOUS
<1>1. /\ clean' = clean /\ disk = "top" /\ disk' = "bus" /\ seeking' = locate_was_set
      /\ locate_was_set' = FALSE
      /\ UNCHANGED <<ui, locate_pos, fpos, read_pos, silence, k, chans, buf, rb, heard, playing>>
  BY DEF Top, uiVars, posVars, fileVars, procVars, seenVars
<1>2. Unsought' = Unsought /\ Writing' = Writing
  BY <1>1 DEF Unsought, Writing, StreamOK
<1>3. ASSUME NEW n \in Nat, NEW a \in Nat, NEW b \in Nat, Stream(n, a, b)
      PROVE  Stream(n, a, b)'
  BY <1>1, <1>2, <1>3, StreamSame
<1> QED
  BY <1>1, <1>2, <1>3 DEF StreamOK

LEMMA StreamBus == IInv /\ StreamOK /\ Bus => StreamOK'
<1> SUFFICES ASSUME IInv, StreamOK, Bus PROVE StreamOK'
  OBVIOUS
<1>1. /\ clean' = clean /\ disk = "bus" /\ disk' = "fill" /\ seeking' = FALSE
      /\ UNCHANGED <<ui, locate_pos, k, chans, rb, heard, playing, locate_was_set>>
  BY DEF Bus, uiVars, posVars, procVars, seenVars, flagVars
<1>2. ~Unsought' /\ ~Writing' /\ Writing' = Writing
  BY <1>1 DEF Unsought, Writing
<1>3. CASE ~seeking
  <2>1. UNCHANGED <<fpos, read_pos, silence, buf>>
    BY <1>3 DEF Bus, fileVars
  <2>2. clean => ~Unsought
    BY <1>1, <1>3 DEF Unsought, StreamOK
  <2>3. ASSUME NEW n \in Nat, NEW a \in Nat, NEW b \in Nat, Stream(n, a, b)
        PROVE  Stream(n, a, b)'
    BY <1>1, <1>2, <2>1, <2>3, StreamSame
  <2> QED
    BY <1>1, <1>2, <2>2, <2>3 DEF StreamOK
<1>4. CASE seeking
  <2>1. clean => rb = <<>> /\ heard = -1 /\ ~locate_was_set /\ ui # "reset"
    BY <1>1, <1>4 DEF StreamOK, Unsought
  <2>2. read_pos' = locate_pos /\ buf' = SilentBuf /\ (~silence' => fpos' = locate_pos)
    <3>1. Seek /\ read_pos' = locate_pos /\ buf' = SilentBuf
      BY <1>4 DEF Bus
    <3>2. CASE locate_pos <= opened
      BY <3>1, <3>2 DEF Seek
    <3>3. CASE ~(locate_pos <= opened) /\ locate_pos <= Reopened
      BY <3>1, <3>3 DEF Seek
    <3>4. CASE ~(locate_pos <= opened) /\ ~(locate_pos <= Reopened)
      <4>1. locate_pos > Reopened
        BY <3>4, StreamAssumption, SMT DEF Reopened, IInv, TypeOK
      <4>2. silence' = (locate_pos > Reopened)
        BY <3>1, <3>4 DEF Seek
      <4> QED
        BY <3>1, <4>1, <4>2
    <3> QED
      BY <3>2, <3>3, <3>4
  <2>3. locate_pos \in Nat
    BY StreamAssumption DEF IInv, TypeOK
  <2>4. ASSUME clean PROVE Stream(0, 0, 0)'
    <3>1. InOrder(0, 0, 0)' /\ Done' = 0 /\ Begun(0)' = 0 /\ Expected' = locate_pos
      BY <1>1, <1>2, <2>1, <2>4, SMT DEF InOrder, Done, Begun, Expected
    <3>2. Len(rb') = 0 /\ At(0) = 0
      BY <1>1, <2>1, <2>4, Places
    <3>3. (SilentBuf)' = SilentBuf
      BY DEF SilentBuf, Silent
    <3> QED
      BY <1>1, <1>2, <2>2, <2>3, <3>1, <3>2, <3>3, SMT DEF Stream, At
  <2> QED
    BY <1>1, <1>2, <2>1, <2>4 DEF StreamOK
<1> QED
  BY <1>3, <1>4

(* One frame more begins to be written behind the n in the ring.            *)
LEMMA StreamFrame == IInv /\ StreamOK /\ Frame => StreamOK'
<1> SUFFICES ASSUME IInv, StreamOK, Frame PROVE StreamOK'
  OBVIOUS
<1> USE StreamAssumption
<1>1. /\ clean' = clean /\ disk = "fill" /\ disk' = "write" /\ k' = 0
      /\ chans' = (IF Reads THEN Channels ELSE 0)
      /\ UNCHANGED <<ui, locate_pos, seeking, rb, heard, playing, locate_was_set>>
  BY DEF Frame, uiVars, posVars, procVars, seenVars, flagVars
<1>2. ~Unsought /\ ~Unsought' /\ ~Writing /\ Writing'
  BY <1>1 DEF Unsought, Writing
<1> SUFFICES ASSUME clean
             PROVE  \E n, a, b \in Nat : Stream(n, a, b)'
  BY <1>1, <1>2 DEF StreamOK
<1>3. PICK n \in Nat, a \in Nat, b \in Nat : Stream(n, a, b)
  BY <1>2 DEF StreamOK
<1>4. a <= b /\ b <= n /\ Len(rb) = At(n) /\ InOrder(n, a, b) /\ (~silence => b = n)
      /\ (~silence => fpos = read_pos /\ read_pos = Expected + (b - a))
      /\ (~playing => a = b) /\ (silence \/ ~playing => buf = SilentBuf)
  <2>1. Begun(n) = n /\ Done = 0
    BY <1>2 DEF Begun, Done
  <2>2. At(n) + 0 = At(n)
    BY Places, SMT
  <2> QED
    BY <1>3, <2>1, <2>2 DEF Stream
<1>5. Expected' = Expected /\ Begun(n)' = n + 1 /\ Done' = 0
  BY <1>1, <1>2 DEF Expected, Begun, Done
<1>6. Expected \in Nat /\ Expected' \in Nat
  BY <1>5, SMT DEF Expected, IInv, TypeOK
<1>7. At(n)' = At(n) + 0 /\ Len(rb') = At(n) + 0
  BY <1>1, <1>4, Places, SMT DEF At
<1>8. ASSUME NEW d \in Nat, NEW e \in Nat,
             \A i \in 0..(n - 1) : Content(d, e, i)' = Content(a, b, i)
      PROVE  InOrder(n, d, e)'
  <2>1. \A i \in 0..(n - 1) : \A c \in 1..Channels : rb[At(i) + c] = Content(a, b, i)[c]
    BY <1>4 DEF InOrder
  <2>2. \A i \in 0..(n - 1) : At(i)' = At(i)
    BY DEF At
  <2>3. rb' = rb
    BY <1>1
  <2>4. \A i \in 0..(n - 1) : \A c \in 1..Channels : rb'[At(i)' + c] = Content(d, e, i)'[c]
    BY <1>8, <2>1, <2>2, <2>3, Zenon
  <2>5. 1..0 = {}
    BY SMT
  <2> QED
    BY <1>5, <2>4, <2>5 DEF InOrder
<1>9. \A i \in Nat : Content(a, b, i)' = Content(a, b, i)
  BY <1>5 DEF Content, FromFile, SilentBuf, Silent
<1>10. (SilentBuf)' = SilentBuf
  BY DEF SilentBuf, Silent
(* a frame from the file;                                                   *)
<1>11. CASE Reads /\ buf' = FromFile(read_pos) /\ fpos' = read_pos'
            /\ read_pos' = read_pos + 1 /\ ~silence'
  <2>1. playing /\ ~silence /\ b = n /\ read_pos = Expected + (n - a)
    BY <1>4, <1>11 DEF Reads
  <2>2. \A i \in 0..(n - 1) : Content(a, n + 1, i)' = Content(a, b, i)
    BY <1>5, <2>1, SMT DEF Content, FromFile, SilentBuf, Silent
  <2>3. Content(a, n + 1, n)' = FromFile(read_pos)
    BY <1>4, <1>5, <2>1, SMT DEF Content, FromFile, SilentBuf, Silent
  <2>4. Out' = FromFile(read_pos)
    <3>1. chans' = Channels
      BY <1>1, <1>11
    <3> QED
      BY <1>11, <3>1, SMT DEF Out, FromFile
  <2>5. read_pos' = Expected' + ((n + 1) - a)
    BY <1>5, <1>6, <1>11, <2>1, SMT
  <2>6. InOrder(n, a, n + 1)'
    BY <1>8, <2>2
  <2>7. Stream(n, a, n + 1)'
    BY <1>1, <1>2, <1>4, <1>5, <1>7, <1>11, <2>1, <2>3, <2>4, <2>5, <2>6, SMT DEF Stream
  <2> QED
    BY <2>7
(* a frame of silence, behind the file                                      *)
<1>12. CASE playing /\ silence' /\ buf' = SilentBuf /\ (chans' = 0 \/ chans' = Channels)
  <2>1. Content(a, b, n)' = SilentBuf
    BY <1>4, <1>10, SMT DEF Content
  <2>2. Out' = SilentBuf
    BY <1>12, SMT DEF Out, SilentBuf
  <2>3. InOrder(n, a, b)'
    BY <1>8, <1>9
  <2>4. b <= n + 1
    BY <1>4, SMT
  <2>5. Stream(n, a, b)'
    BY <1>1, <1>2, <1>4, <1>5, <1>7, <1>10, <1>12, <2>1, <2>2, <2>3, <2>4 DEF Stream
  <2> QED
    BY <2>5
(* or while JACK is stopped.                                                *)
<1>13. CASE ~playing /\ UNCHANGED <<fpos, read_pos, silence, buf>> /\ chans' = 0
  <2>1. a = b /\ buf' = SilentBuf
    BY <1>4, <1>13
  <2>2. \A i \in Nat : Content(a, b, i) = SilentBuf /\ Content(n + 1, n + 1, i)' = SilentBuf
    BY <1>10, <2>1, SMT DEF Content
  <2>3. Out' = SilentBuf
    BY <1>13, <2>1, SMT DEF Out, SilentBuf
  <2>4. InOrder(n, n + 1, n + 1)'
    BY <1>8, <2>2
  <2>5. ~silence' => fpos' = read_pos' /\ read_pos' = Expected' + ((n + 1) - (n + 1))
    BY <1>4, <1>5, <1>6, <1>13, <2>1, SMT
  <2>6. Stream(n, n + 1, n + 1)'
    BY <1>1, <1>2, <1>5, <1>7, <1>10, <2>1, <2>2, <2>3, <2>4, <2>5, SMT DEF Stream
  <2> QED
    BY <2>6
<1>14. CASE Reads /\ fpos < opened /\ UNCHANGED <<opened, silence>>
            /\ buf' = FromFile(fpos) /\ fpos' = fpos + 1 /\ read_pos' = read_pos + 1
  BY <1>4, <1>11, <1>14 DEF Reads
<1>15. CASE /\ Reads /\ fpos >= opened /\ opened' = Reopened
            /\ silence' = (read_pos >= Reopened)
            /\ buf' = IF silence' THEN SilentBuf ELSE FromFile(read_pos)
            /\ fpos' = IF silence' THEN Least(read_pos, Reopened) ELSE read_pos + 1
            /\ read_pos' = read_pos + 1
  <2>1. silence' = TRUE \/ silence' = FALSE
    BY <1>15
  <2> QED
    BY <1>1, <1>11, <1>12, <1>15, <2>1 DEF Reads
<1>16. CASE ~Reads /\ UNCHANGED <<fileVars, buf>>
  BY <1>1, <1>4, <1>12, <1>13, <1>16 DEF Reads, fileVars
<1> QED
  BY <1>14, <1>15, <1>16 DEF Frame

(* The next sample of the frame that is being written.                      *)
LEMMA StreamWrite == IInv /\ StreamOK /\ Write => StreamOK'
<1> SUFFICES ASSUME IInv, StreamOK, Write PROVE StreamOK'
  OBVIOUS
<1> USE StreamAssumption
<1>1. /\ clean' = clean /\ disk = "write" /\ disk' \in {"write", "fill"}
      /\ UNCHANGED <<ui, locate_pos, seeking, fpos, read_pos, silence, buf, heard, playing,
                     locate_was_set>>
  BY DEF Write, uiVars, posVars, procVars, seenVars, flagVars, fileVars
<1>2. ~Unsought /\ ~Unsought' /\ Writing
  BY <1>1 DEF Unsought, Writing
<1> SUFFICES ASSUME clean
             PROVE  \E n, a, b \in Nat : Stream(n, a, b)'
  BY <1>1, <1>2 DEF StreamOK
<1>3. PICK n \in Nat, a \in Nat, b \in Nat : Stream(n, a, b)
  BY <1>2 DEF StreamOK
<1>4. k \in 0..(Channels - 1) /\ rb \in Seq(Sample) /\ Len(rb) < Capacity
  <2>1. Len(rb) + avail * Channels + (Channels - k) <= Capacity
    BY <1>1 DEF IInv, Fits
  <2>2. avail * Channels \in Nat /\ Len(rb) \in Nat /\ Channels - k \in Nat \ {0}
    BY OneFrameLess, SMT DEF IInv, TypeOK
  <2> QED
    BY <2>1, <2>2, SMT DEF IInv, TypeOK
<1>5. rb' = Append(rb, Written) /\ Written = Out[k + 1]
  <2>1. chans \in {0, Channels} /\ k + 1 \in 1..Channels
    BY <1>4, SMT DEF IInv, TypeOK
  <2>2. (k < chans) <=> (k + 1 <= chans)
    BY <1>4, <2>1, SMT
  <2> QED
    BY <1>4, <2>1, <2>2 DEF Write, Written, Out
<1>6. a <= b /\ b <= n + 1 /\ Len(rb) = At(n) + k /\ InOrder(n, a, b)
      /\ Out = Content(a, b, n)
  BY <1>2, <1>3 DEF Stream, Begun, Done
<1>7. At(n) \in Nat /\ At(n + 1) = At(n) + Channels
      /\ \A i \in 0..(n - 1) : At(i) \in Nat /\ At(i) + Channels <= At(n)
  <2>1. \A i \in 0..(n - 1) : i \in Nat /\ i < n
    BY SMT
  <2> QED
    BY <2>1, Places
<1>8. \A i \in Nat : At(i)' = At(i) /\ Content(a, b, i)' = Content(a, b, i)
  BY <1>1 DEF At, Content, Expected, FromFile, SilentBuf, Silent
<1>9. /\ \A j \in 1..(At(n) + k) : rb'[j] = rb[j]
      /\ rb'[At(n) + (k + 1)] = Content(a, b, n)[k + 1]
      /\ Len(rb') = At(n) + (k + 1)
  BY <1>4, <1>5, <1>6, <1>7, SMT
<1>10. \A i \in 0..(n - 1) : \A c \in 1..Channels : rb'[At(i) + c] = Content(a, b, i)[c]
  <2> SUFFICES ASSUME NEW i \in 0..(n - 1), NEW c \in 1..Channels
               PROVE  rb'[At(i) + c] = Content(a, b, i)[c]
    OBVIOUS
  <2>1. At(i) + c \in 1..(At(n) + k)
    BY <1>4, <1>7, SMT
  <2> QED
    BY <1>6, <1>9, <2>1 DEF InOrder
<1>11. \A c \in 1..(k + 1) : rb'[At(n) + c] = Content(a, b, n)[c]
  <2>1. \A c \in 1..k : rb'[At(n) + c] = Content(a, b, n)[c]
    BY <1>2, <1>4, <1>6, <1>7, <1>9, SMT DEF InOrder, Done
  <2>2. \A c \in 1..(k + 1) : c \in 1..k \/ c = k + 1
    BY <1>4, SMT
  <2> QED
    BY <1>9, <2>1, <2>2
(* It is not the last one of the frame,                                     *)
<1>12. CASE k + 1 < Channels
  <2>1. disk' = "write" /\ k' = k + 1 /\ chans' = chans
    BY <1>12 DEF Write
  <2>2. Writing' = Writing /\ Done' = k + 1 /\ Begun(n)' = Begun(n) /\ Expected' = Expected /\ Out' = Out
    BY <1>1, <2>1 DEF Writing, Done, Begun, Expected, Out
  <2>3. InOrder(n, a, b)'
    BY <1>8, <1>10, <1>11, <2>2, SMT DEF InOrder
  <2>4. (SilentBuf)' = SilentBuf
    BY DEF SilentBuf, Silent
  <2>5. Stream(n, a, b)'
    BY <1>1, <1>3, <1>6, <1>8, <1>9, <2>2, <2>3, <2>4 DEF Stream
  <2> QED
    BY <2>5
(* or it is, and the ring holds one whole frame more.                       *)
<1>13. CASE ~(k + 1 < Channels)
  <2>1. disk' = "fill" /\ k' = 0 /\ k + 1 = Channels
    BY <1>4, <1>13, SMT DEF Write
  <2>2. ~Writing' /\ Done' = 0 /\ Begun(n + 1)' = n + 1 /\ Begun(n) = n + 1 /\ Expected' = Expected
    BY <1>1, <1>2, <2>1 DEF Writing, Done, Begun, Expected
  <2>3. \A i \in 0..((n + 1) - 1) : \A c \in 1..Channels : rb'[At(i) + c] = Content(a, b, i)[c]
    <3>1. \A i \in 0..((n + 1) - 1) : i \in 0..(n - 1) \/ i = n
      BY SMT
    <3> QED
      BY <1>10, <1>11, <2>1, <3>1
  <2>4. InOrder(n + 1, a, b)'
    BY <1>8, <2>2, <2>3, SMT DEF InOrder
  <2>5. Len(rb') = At(n + 1) + 0 /\ At(n + 1)' = At(n + 1)
    BY <1>7, <1>8, <1>9, <2>1, SMT
  <2>6. (SilentBuf)' = SilentBuf
    BY DEF SilentBuf, Silent
  <2>7. Stream(n + 1, a, b)'
    BY <1>1, <1>3, <1>6, <2>2, <2>4, <2>5, <2>6 DEF Stream
  <2> QED
    BY <2>7, SMT
<1> QED
  BY <1>12, <1>13

(* Process takes the frame at the front of the ring.                        *)
LEMMA FrontFrame ==
  ASSUME IInv, StreamOK, ReadFrame, clean', Taken > 0
  PROVE  /\ clean /\ ~Unsought /\ Channels <= Len(rb)
         /\ rb' = SubSeq(rb, Channels + 1, Len(rb))
         /\ \A n, a, b \in Nat : Stream(n, a, b) => n > 0 /\ Played = Content(a, b, 0)
<1> USE StreamAssumption
<1>1. clean /\ Taken = Channels /\ rb' = SubSeq(rb, Taken + 1, Len(rb))
  <2>1. clean' = (clean /\ Taken \in {0, Channels}) /\ rb' = SubSeq(rb, Taken + 1, Len(rb))
    BY DEF ReadFrame
  <2>2. clean /\ Taken \in {0, Channels}
    BY <2>1
  <2>3. Taken # 0
    BY SMT
  <2> QED
    BY <2>1, <2>2, <2>3
<1>2. Channels <= Len(rb)
  BY <1>1, SMT DEF Taken, Least, IInv, TypeOK
<1>3. ~Unsought
  BY <1>1, <1>2, SMT DEF StreamOK
<1>4. ASSUME NEW n \in Nat, NEW a \in Nat, NEW b \in Nat, Stream(n, a, b)
      PROVE  n > 0 /\ Played = Content(a, b, 0)
  <2>1. Done \in 0..(Channels - 1) /\ Len(rb) = At(n) + Done
    BY <1>4, SMT DEF Done, Stream, IInv, TypeOK
  <2>2. n > 0
    BY <1>2, <2>1, Places, SMT
  <2>3. \A c \in 1..Channels : rb[At(0) + c] = Content(a, b, 0)[c]
    BY <1>4, <2>2, SMT DEF Stream, InOrder
  <2>4. \A c \in 1..Channels : Played[c] = Content(a, b, 0)[c]
    <3>1. \A c \in 1..Channels : At(0) + c = c /\ c <= Taken
      BY <1>1, Places, SMT
    <3> QED
      BY <2>3, <3>1 DEF Played
  <2>5. Played = [c \in 1..Channels |-> Played[c]]
    BY DEF Played
  <2>6. Content(a, b, 0) = [c \in 1..Channels |-> Content(a, b, 0)[c]]
    BY DEF Content, FromFile, SilentBuf
  <2> QED
    BY <2>2, <2>4, <2>5, <2>6
<1> QED
  BY <1>1, <1>2, <1>3, <1>4

(* What is left in the ring, in its new places.                             *)
LEMMA FrontElements ==
  ASSUME NEW s \in Seq(Sample), NEW n \in 0..Len(s)
  PROVE  \A j \in 1..(Len(s) - n) : SubSeq(s, n + 1, Len(s))[j] = s[j + n]
BY SMT

(* From an empty ring it takes nothing, and nothing of the file is heard.   *)
LEMMA StreamReadNothing == IInv /\ StreamOK /\ ReadFrame /\ Taken = 0 => StreamOK'
<1> SUFFICES ASSUME IInv, StreamOK, ReadFrame, Taken = 0 PROVE StreamOK'
  OBVIOUS
<1> USE StreamAssumption
<1>1. rb = <<>> /\ rb' = rb
  <2>1. rb \in Seq(Sample) /\ Len(rb) \in Nat
    BY SMT DEF IInv, TypeOK
  <2>2. Len(rb) = 0
    BY <2>1, SMT DEF Taken, Least
  <2>3. rb' = SubSeq(rb, 0 + 1, Len(rb))
    BY DEF ReadFrame
  <2> QED
    BY <2>1, <2>2, <2>3, SMT
<1>2. heard' = heard
  <2>1. Played[1].frame = -2
    BY SMT DEF Played, Stale
  <2> QED
    BY <2>1, SMT DEF ReadFrame
<1>3. (clean' => clean) /\ UNCHANGED <<ui, locate_pos, locate_was_set, seeking, fpos, read_pos,
                                      silence, k, chans, buf, disk, playing>>
  BY DEF ReadFrame, uiVars, procVars, diskVars, flagVars, fileVars
<1> QED
  BY <1>1, <1>2, <1>3, StreamKept

LEMMA StreamReadSome == IInv /\ StreamOK /\ ReadFrame /\ Taken > 0 => StreamOK'
<1> SUFFICES ASSUME IInv, StreamOK, ReadFrame, Taken > 0 PROVE StreamOK'
  OBVIOUS
<1> USE StreamAssumption
<1>1. UNCHANGED <<ui, locate_pos, seeking, fpos, read_pos, silence, buf, chans, k, disk, playing,
                  locate_was_set>>
  BY DEF ReadFrame, uiVars, posVars, procVars, diskVars, flagVars, fileVars
<1>2. Unsought' = Unsought /\ Writing' = Writing
  BY <1>1 DEF Unsought, Writing
<1> SUFFICES ASSUME clean'
             PROVE  \E n, a, b \in Nat : Stream(n, a, b)'
  BY <1>1, <1>2, FrontFrame DEF StreamOK
<1>3. PICK n \in Nat, a \in Nat, b \in Nat : Stream(n, a, b)
  BY FrontFrame DEF StreamOK
<1>4. /\ a <= b /\ b <= Begun(n) /\ Len(rb) = At(n) + Done /\ InOrder(n, a, b)
      /\ Writing => Out = Content(a, b, n)
      /\ ~silence => b = Begun(n) /\ fpos = read_pos /\ read_pos = Expected + (b - a)
      /\ ~playing => a = b
      /\ (silence \/ ~playing) => buf = SilentBuf
  BY <1>3 DEF Stream
<1>5. n > 0 /\ Played = Content(a, b, 0) /\ n - 1 \in Nat
  BY <1>3, FrontFrame, SMT
<1>6. rb' = SubSeq(rb, Channels + 1, Len(rb)) /\ Channels <= Len(rb)
  BY FrontFrame
<1>7. At(n) = At(n - 1) + Channels /\ At(n - 1) \in Nat
  <2>1. (n - 1) + 1 = n
    BY SMT
  <2> QED
    BY <1>5, <2>1, Places
<1>8. Done' = Done /\ Out' = Out /\ Done \in 0..(Channels - 1)
      /\ Begun(n - 1)' = Begun(n) - 1 /\ Begun(n) \in Nat \ {0}
  <2>1. Done' = Done /\ Out' = Out
    BY <1>1, <1>2 DEF Done, Out
  <2>2. Done \in 0..(Channels - 1) /\ Begun(n) \in Nat \ {0} /\ Begun(n - 1)' = Begun(n) - 1
    BY <1>2, <1>5, SMT DEF Done, Begun, IInv, TypeOK
  <2> QED
    BY <2>1, <2>2
<1>9. Len(rb') = At(n - 1) + Done
      /\ \A j \in 1..(At(n - 1) + Done) : rb'[j] = rb[j + Channels]
  <2>1. rb \in Seq(Sample) /\ Channels \in 0..Len(rb)
    BY <1>6, SMT DEF IInv, TypeOK
  <2>2. Len(rb) - Channels = At(n - 1) + Done
    BY <1>4, <1>7, <1>8, SMT
  <2> QED
    BY <1>6, <2>1, <2>2, Front, FrontElements
(* The frames that remain, each one place further on.                       *)
<1>10. /\ \A i \in 0..(n - 2) : \A c \in 1..Channels : rb'[At(i) + c] = Content(a, b, i + 1)[c]
       /\ \A c \in 1..Done : rb'[At(n - 1) + c] = Content(a, b, n)[c]
  <2>1. ASSUME NEW i \in 0..(n - 2), NEW c \in 1..Channels
        PROVE  rb'[At(i) + c] = Content(a, b, i + 1)[c]
    <3>1. i \in Nat /\ i < n - 1 /\ i + 1 \in 0..(n - 1)
      BY SMT
    <3>2. At(i) \in Nat /\ At(i + 1) = At(i) + Channels /\ At(i) + Channels <= At(n - 1)
      BY <1>5, <3>1, Places
    <3>3. At(i) + c \in 1..(At(n - 1) + Done) /\ (At(i) + c) + Channels = At(i + 1) + c
      BY <1>7, <1>8, <3>2, SMT
    <3> QED
      BY <1>4, <1>9, <3>1, <3>3 DEF InOrder
  <2>2. ASSUME NEW c \in 1..Done
        PROVE  rb'[At(n - 1) + c] = Content(a, b, n)[c]
    <3>1. At(n - 1) + c \in 1..(At(n - 1) + Done) /\ (At(n - 1) + c) + Channels = At(n) + c
      BY <1>7, <1>8, SMT
    <3> QED
      BY <1>4, <1>9, <3>1 DEF InOrder
  <2> QED
    BY <2>1, <2>2
<1>11. \A i \in Nat : At(i)' = At(i)
  BY DEF At
<1>12. (SilentBuf)' = SilentBuf
  BY DEF SilentBuf, Silent
<1>13. Expected \in Nat /\ heard \in -1..MaxFrames
  BY SMT DEF Expected, IInv, TypeOK
<1>14. ASSUME NEW d \in Nat, NEW e \in Nat, \A i \in Nat : Content(d, e, i)' = Content(a, b, i + 1),
              d <= e, e <= Begun(n) - 1,
              ~silence => e = Begun(n) - 1 /\ read_pos = Expected' + (e - d),
              ~playing => d = e
       PROVE  Stream(n - 1, d, e)'
  <2>1. InOrder(n - 1, d, e)'
    <3>1. Content(d, e, n - 1)' = Content(a, b, n)
      <4>1. (n - 1) + 1 = n
        BY SMT
      <4> QED
        BY <1>5, <1>14, <4>1
    <3>2. \A i \in 0..((n - 1) - 1) : i \in 0..(n - 2) /\ i \in Nat
      BY <1>5, SMT
    <3> QED
      BY <1>5, <1>8, <1>10, <1>11, <1>14, <3>1, <3>2 DEF InOrder
  <2>2. Writing => Out' = Content(d, e, n - 1)'
    <3>1. (n - 1) + 1 = n
      BY SMT
    <3> QED
      BY <1>4, <1>5, <1>8, <1>14, <3>1
  <2> QED
    BY <1>1, <1>2, <1>4, <1>5, <1>8, <1>9, <1>11, <1>12, <1>14, <2>1, <2>2 DEF Stream
(* The frame was silence: before the first frame of the file, or behind     *)
(* the last one.                                                            *)
<1>15. CASE ~(a = 0 /\ b > 0)
  <2>1. Played = SilentBuf
    BY <1>5, <1>15, SMT DEF Content
  <2>2. heard' = heard
    <3>1. Played[1].frame = -1
      BY <2>1, SMT DEF SilentBuf, Silent
    <3> QED
      BY <3>1, SMT DEF ReadFrame
  <2>3. Expected' = Expected
    BY <1>1, <2>2 DEF Expected
  <2>4. CASE a > 0
    <3>1. a - 1 \in Nat /\ b - 1 \in Nat /\ a - 1 <= b - 1 /\ b - 1 <= Begun(n) - 1
          /\ (b - 1) - (a - 1) = b - a
      BY <1>4, <1>8, <2>4, SMT
    <3>2. \A i \in Nat : Content(a - 1, b - 1, i)' = Content(a, b, i + 1)
      <4> SUFFICES ASSUME NEW i \in Nat
                   PROVE  Content(a - 1, b - 1, i)' = Content(a, b, i + 1)
        OBVIOUS
      <4>1. /\ (a - 1 <= i /\ i < b - 1) <=> (a <= i + 1 /\ i + 1 < b)
            /\ Expected + (i - (a - 1)) = Expected + ((i + 1) - a)
        BY <1>13, SMT
      <4>2. \A f : FromFile(f)' = FromFile(f)
        BY DEF FromFile
      <4> QED
        BY <1>12, <2>3, <4>1 DEF Content, FromFile
    <3>3. Stream(n - 1, a - 1, b - 1)'
      <4>1. ~silence => b - 1 = Begun(n) - 1 /\ read_pos = Expected' + ((b - 1) - (a - 1))
        BY <1>4, <2>3, <3>1
      <4>2. ~playing => a - 1 = b - 1
        BY <1>4
      <4> QED
        BY <1>14, <3>1, <3>2, <4>1, <4>2
    <3> QED
      BY <1>5, <3>1, <3>3
  <2>5. CASE a = 0 /\ b = 0
    <3>1. \A i \in Nat : Content(0, 0, i)' = Content(a, b, i + 1)
      BY <1>12, <2>5, SMT DEF Content
    <3>2. silence
      BY <1>4, <1>8, <2>5, SMT
    <3>3. Stream(n - 1, 0, 0)'
      <4>1. 0 \in Nat /\ 0 <= 0 /\ 0 <= Begun(n) - 1
        BY <1>8, SMT
      <4> QED
        BY <1>14, <3>1, <3>2, <4>1
    <3> QED
      BY <1>5, <3>3, SMT
  <2> QED
    BY <1>15, <2>4, <2>5, SMT
(* The frame was the first one from the file: the next one is expected.     *)
<1>16. CASE a = 0 /\ b > 0
  <2>1. Played = FromFile(Expected) /\ playing
    <3>1. 0 - 0 = 0 /\ Expected + 0 = Expected
      BY <1>13, SMT
    <3> QED
      BY <1>4, <1>5, <1>16, <3>1, SMT DEF Content
  <2>2. heard' = Expected /\ Expected' = Expected + 1
    <3>1. Played[1].frame = Expected
      BY <2>1, SMT DEF FromFile
    <3>2. heard' = Expected
      BY <1>13, <2>1, <3>1, SMT DEF ReadFrame
    <3> QED
      BY <1>13, <3>2, SMT DEF Expected
  <2>3. b - 1 \in Nat /\ 0 <= b - 1 /\ b - 1 <= Begun(n) - 1
    BY <1>4, <1>8, <1>16, SMT
  <2>4. \A i \in Nat : Content(0, b - 1, i)' = Content(a, b, i + 1)
    <3> SUFFICES ASSUME NEW i \in Nat
                 PROVE  Content(0, b - 1, i)' = Content(a, b, i + 1)
      OBVIOUS
    <3>1. /\ (0 <= i /\ i < b - 1) <=> (a <= i + 1 /\ i + 1 < b)
          /\ Expected' + (i - 0) = Expected + ((i + 1) - a)
      BY <1>13, <1>16, <2>2, SMT
    <3> QED
      BY <1>12, <3>1 DEF Content, FromFile
  <2>5. Stream(n - 1, 0, b - 1)'
    <3>1. ~silence => b - 1 = Begun(n) - 1 /\ read_pos = Expected' + ((b - 1) - 0)
      BY <1>4, <1>8, <1>13, <1>16, <2>2, SMT
    <3>2. 0 \in Nat
      BY SMT
    <3> QED
      BY <1>14, <2>1, <2>3, <2>4, <3>1, <3>2
  <2> QED
    BY <1>5, <2>3, <2>5, SMT
<1> QED
  BY <1>15, <1>16, SMT

LEMMA StreamRead == IInv /\ StreamOK /\ ReadFrame => StreamOK'
<1>1. IInv => Taken = 0 \/ Taken > 0
  BY StreamAssumption, SMT DEF Taken, Least, IInv, TypeOK
<1> QED
  BY <1>1, StreamReadNothing, StreamReadSome

-----------------------------------------------------------------------------
LEMMA StreamInit == Init => StreamOK
BY DEF Init, StreamOK

LEMMA StreamNext == IInv /\ StreamOK /\ [Next]_vars => StreamOK'
<1> SUFFICES ASSUME IInv, StreamOK, [Next]_vars PROVE StreamOK'
  OBVIOUS
<1>1. CASE Render \/ TransportRolls \/ TransportHolds \/ UNCHANGED vars
  <2>1. UNCHANGED <<ui, locate_pos, locate_was_set, seeking, fpos, read_pos, silence, k,
                    chans, buf, rb, heard, disk, clean, playing>>
    BY <1>1 DEF Render, TransportRolls, TransportHolds, vars, uiVars, posVars, fileVars, diskVars,
       procVars, flagVars, seenVars
  <2> QED
    BY <2>1, StreamKept
<1>2. CASE (\E p \in Positions : Locate(p)) \/ Play
  <2>1. ~clean' /\ seeking' = seeking /\ disk' = disk
    BY <1>2 DEF Locate, Play, DoLocate, diskVars
  <2> QED
    BY <2>1 DEF StreamOK
<1>3. CASE StartCycle
  <2>1. /\ clean' => clean /\ (playing => playing')
        /\ UNCHANGED <<ui, locate_pos, locate_was_set, seeking, fpos, read_pos, silence, k,
                       chans, buf, rb, heard, disk>>
    BY <1>3 DEF StartCycle, uiVars, posVars, fileVars, diskVars, flagVars
  <2> QED
    BY <2>1, StreamKept
<1>4. CASE EndCycle
  <2>1. /\ disk' = disk \/ (disk = "wait" /\ disk' = "top")
        /\ UNCHANGED <<ui, locate_pos, locate_was_set, seeking, fpos, read_pos, silence, k,
                       chans, buf, rb, heard, clean, playing>>
    BY <1>4 DEF EndCycle, uiVars, posVars, fileVars, flagVars, seenVars
  <2> QED
    BY <2>1, StreamKept
<1>6. CASE \E e \in EndMarks : SetEnd(e)
  <2>1. /\ ui' = "play"
        /\ UNCHANGED <<locate_pos, locate_was_set, seeking, fpos, read_pos, silence, k,
                       chans, buf, rb, heard, disk, clean, playing>>
    BY <1>6 DEF SetEnd, fileVars, diskVars, procVars, flagVars, seenVars
  <2> QED
    BY <2>1, StreamKept
<1>7. CASE AdvancePos
  <2>1. /\ clean' => clean /\ (playing => playing')
        /\ UNCHANGED <<ui, locate_pos, locate_was_set, seeking, fpos, read_pos, silence, k,
                       chans, buf, rb, heard, disk>>
    BY <1>7, Zenon DEF AdvancePos, uiVars, fileVars, diskVars, flagVars
  <2> QED
    BY <2>1, StreamKept
(* The disk thread sleeps: nobody has asked for a seek since it began.      *)
<1>5. CASE Filled
  <2>1. /\ disk = "fill" /\ disk' = "wait"
        /\ UNCHANGED <<ui, locate_pos, locate_was_set, seeking, fpos, read_pos, silence, k,
                       chans, buf, rb, heard, clean, playing>>
    BY <1>5 DEF Filled, uiVars, posVars, fileVars, procVars, seenVars
  <2>2. Writing' = Writing /\ ~seeking
    BY <2>1 DEF Writing, StreamOK
  <2>3. clean => ~Unsought /\ ~Unsought' /\ ~locate_was_set
    BY <2>1 DEF Unsought, StreamOK
  <2>4. ASSUME NEW n \in Nat, NEW a \in Nat, NEW b \in Nat, Stream(n, a, b)
        PROVE  Stream(n, a, b)'
    BY <2>1, <2>2, <2>4, StreamSame
  <2> QED
    BY <2>1, <2>2, <2>3, <2>4 DEF StreamOK
<1> QED
  BY <1>1, <1>2, <1>3, <1>4, <1>5, <1>6, <1>7, StreamReset, StreamTop, StreamBus, StreamFrame, StreamWrite,
     StreamRead DEF Next, User, Process, DiskThread

LEMMA StreamHolds == Spec => [](IInv /\ StreamOK)
<1>1. Init => IInv /\ StreamOK
  BY InitHolds, StreamInit
<1>2. IInv /\ StreamOK /\ [Next]_vars => (IInv /\ StreamOK)'
  BY NextHolds, StreamNext
<1> QED
  BY <1>1, <1>2, PTL DEF Spec

(* Every frame process gets to play is the one that follows the last it     *)
(* played, from the place of the locate on, or silence, also after the ring *)
(* has run empty: until playing is ended by JACK or the end mark, a frame   *)
(* is taken in part, or a reset finds a thread at work.                     *)
THEOREM FileIsPlayed == Spec => PlaysTheFile
<1> DEFINE Heard == (left' < left /\ clean' /\ playing /\ Taken > 0) =>
                       \/ Played = SilentBuf
                       \/ Played = FromFile(IF heard = -1 THEN locate_pos ELSE heard + 1)
<1>1. IInv /\ StreamOK /\ [Next]_vars => [Heard]_vars
  <2> SUFFICES ASSUME IInv, StreamOK, Next, left' < left, clean', Taken > 0
               PROVE  \/ Played = SilentBuf
                      \/ Played = FromFile(Expected)
    BY DEF Expected
  <2>1. ReadFrame
    <3>1. left \in Int /\ ~(left < left) /\ ~(CycleLen < left)
      BY StreamAssumption, SMT DEF IInv, TypeOK
    <3>2. left' = left \/ left' = CycleLen \/ ReadFrame
      BY DEF Next, User, Process, DiskThread, Locate, SetEnd, Play, DoLocate, Reset, AdvancePos, Render, TransportRolls, TransportHolds,
         StartCycle, EndCycle, Top, Bus, Frame, Write, Filled, procVars
    <3> QED
      BY <3>1, <3>2
  <2>2. PICK n \in Nat, a \in Nat, b \in Nat : Stream(n, a, b)
    BY <2>1, FrontFrame DEF StreamOK
  <2>3. Played = Content(a, b, 0)
    BY <2>1, <2>2, FrontFrame
  <2>4. Content(a, b, 0) = SilentBuf \/ (a <= 0 /\ Content(a, b, 0) = FromFile(Expected + (0 - a)))
    BY DEF Content
  <2>5. a <= 0 => Expected + (0 - a) = Expected
    <3>1. Expected \in Int
      BY StreamAssumption, SMT DEF Expected, IInv, TypeOK
    <3> QED
      BY <2>2, <3>1, SMT
  <2> QED
    BY <2>3, <2>4, <2>5
<1> QED
  BY <1>1, StreamHolds, PTL DEF PlaysTheFile, Spec
=============================================================================
