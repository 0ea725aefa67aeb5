------------------------------ MODULE AudioStream ------------------------------
(***************************************************************************)
(* Playing the sound file of one bus: the disk thread reads the file and   *)
(* fills a ring buffer, JACK's process callback empties it, do_locate in   *)
(* the UI thread resets it, while a rendering thread may still be          *)
(* writing the file.                                                       *)
(*                                                                         *)
(* The ring is JACK's: a sequence of samples to which one thread appends   *)
(* and from which one takes, without a lock.  A reset is not safe while    *)
(* one of them is inside: then what the ring holds afterwards is arbitrary.*)
(* A sample is the frame and the channel of the file it comes from; beyond *)
(* the end of a file libsndfile returns silence.                           *)
(***************************************************************************)
EXTENDS Integers, Sequences

CONSTANTS
  Channels,   \* of the bus and of its file
  Capacity,   \* of the ring, in samples
  Leftovers,  \* how many samples an unsafe reset may leave in it
  CycleLen,   \* frames that process plays in a cycle
  Positions,  \* where the user may locate to, in frames
  EndMarks,   \* where the end mark of the score may be
  MaxPos,     \* play_pos is not counted beyond this
  MaxFrames   \* length of the whole rendering

ASSUME StreamAssumption ==
  /\ Channels \in Nat \ {0} /\ CycleLen \in Nat \ {0}
  /\ Capacity \in Nat /\ Capacity >= Channels /\ Leftovers \subseteq 1..Capacity
  /\ MaxFrames \in Nat /\ MaxPos \in Nat
  /\ Positions \subseteq 0..MaxPos /\ EndMarks \subseteq Nat

VARIABLES
  ui, locate_pos,             \* play button and do_locate: place and position
  play_pos, end_pos,          \* position of the next cycle, end mark
  locate_was_set, can_process, \* flags for the disk thread, and by it
  rolling, playing,           \* JACK's transport rolls; process saw it
  frames,                     \* written to the file so far
  opened,                     \* of which the open handle knows
  fpos, read_pos, silence,    \* handle's position, bus's position and flag
  disk, seeking, avail, k, chans, buf, \* disk thread: place, locals, bus's buf
  rb,                         \* the ring buffer
  pc, left,                   \* process: place, frames to go
  heard,                      \* last frame of the file heard since the reset
  clean                       \* nothing has spoilt the ring since then

uiVars   == <<ui, locate_pos>>
posVars  == <<play_pos, end_pos>>
fileVars == <<opened, fpos, read_pos, silence>>
diskVars == <<disk, seeking, avail, k, chans, buf>>
procVars == <<pc, left, playing>>
flagVars == <<locate_was_set, can_process>>
seenVars == <<heard, clean>>
vars == <<uiVars, posVars, rolling, frames, fileVars, diskVars, procVars, flagVars, rb, seenVars>>

Silent == [frame |-> -1, chan |-> 0]
Stale == [frame |-> -2, chan |-> 0]
Sample == [frame : -2..MaxFrames, chan : 0..Channels]

SilentBuf == [c \in 1..Channels |-> Silent]
UpTo(n) == IF n < MaxPos THEN n ELSE MaxPos
FromFile(f) == [c \in 1..Channels |-> [frame |-> f, chan |-> c]]

(* Every variable stays in its range; the ring never overflows.             *)
TypeOK ==
  /\ ui \in {"idle", "play", "reset"} /\ locate_pos \in Positions
  /\ play_pos \in 0..MaxPos /\ end_pos \in Nat
  /\ locate_was_set \in BOOLEAN /\ can_process \in BOOLEAN
  /\ rolling \in BOOLEAN /\ playing \in BOOLEAN
  /\ frames \in 0..MaxFrames /\ opened \in 0..frames
  /\ fpos \in 0..MaxFrames /\ read_pos \in Nat /\ silence \in BOOLEAN
  /\ disk \in {"wait", "top", "bus", "fill", "write"} /\ seeking \in BOOLEAN
  /\ avail \in 0..Capacity /\ k \in 0..(Channels - 1) /\ chans \in {0, Channels}
  /\ buf \in [1..Channels -> Sample]
  /\ rb \in Seq(Sample) /\ Len(rb) <= Capacity
  /\ pc \in {"idle", "read", "count"} /\ left \in 0..CycleLen
  /\ heard \in -1..MaxFrames /\ clean \in BOOLEAN

(* A bus whose file is being rendered, opened before it had any frame;      *)
(* create_bus does not set silence.                                         *)
Init ==
  /\ ui = "idle" /\ locate_pos \in Positions
  /\ play_pos = 0 /\ end_pos = 0
  /\ locate_was_set = FALSE /\ can_process = TRUE
  /\ rolling = FALSE /\ playing = FALSE
  /\ frames = 0 /\ opened = 0 /\ fpos = 0 /\ read_pos = 0 /\ silence \in BOOLEAN
  /\ disk = "wait" /\ seeking = FALSE /\ avail = 0 /\ k = 0 /\ chans = 0
  /\ buf = SilentBuf
  /\ rb = <<>> /\ pc = "idle" /\ left = 0
  /\ heard = -1 /\ clean = FALSE

-----------------------------------------------------------------------------
(* The rendering thread. *)
Render ==
  /\ frames < MaxFrames /\ frames' = frames + 1
  /\ UNCHANGED <<uiVars, posVars, rolling, fileVars, diskVars, procVars, flagVars, rb, seenVars>>

(* do_locate: the play position, which a store of process may overwrite at  *)
(* once, and the flag for the disk thread,                                  *)
DoLocate(p) ==
  /\ ui' = "reset"
  /\ locate_pos' = p
  /\ \/ play_pos' = p
     \/ pc = "count" /\ playing /\ play_pos' = play_pos
  /\ locate_was_set' = TRUE /\ clean' = FALSE
  /\ UNCHANGED <<end_pos, rolling, frames, fileVars, diskVars, procVars, can_process, rb, heard>>

Locate(p) == ui = "idle" /\ DoLocate(p)

(* which the play button calls too, when it has told where the end mark is; *)
SetEnd(e) ==
  /\ ui = "idle" /\ ui' = "play"
  /\ end_pos' = e
  /\ UNCHANGED <<locate_pos, play_pos, rolling, frames, fileVars, diskVars, procVars, flagVars,
                 rb, seenVars>>

Play == ui = "play" /\ DoLocate(locate_pos)

(* the reset of the ring (mutant: none).                                    *)
InRing == pc = "read" \/ disk = "write"

Emptied_Not == rb
Emptied == <<>>

Reset ==
  /\ ui = "reset" /\ ui' = "idle"
  /\ \/ rb' = Emptied
     \/ InRing /\ rb' \in {[i \in 1..n |-> Stale] : n \in Leftovers}
  /\ heard' = -1 /\ clean' = (disk \in {"wait", "top"} /\ pc # "read" /\ locate_was_set)
  /\ UNCHANGED <<locate_pos, posVars, rolling, frames, fileVars, diskVars, procVars,
                 flagVars>>

(* JACK's transport, between cycles: any client may start and stop it, and  *)
(* it holds to let others follow a locate.                                  *)
TransportRolls ==
  /\ pc = "idle" /\ ~rolling /\ rolling' = TRUE
  /\ UNCHANGED <<uiVars, posVars, frames, fileVars, diskVars, procVars, flagVars, rb, seenVars>>

TransportHolds ==
  /\ pc = "idle" /\ rolling /\ rolling' = FALSE
  /\ UNCHANGED <<uiVars, posVars, frames, fileVars, diskVars, procVars, flagVars, rb, seenVars>>

-----------------------------------------------------------------------------
(* process: a cycle of frames, each taken from the ring at once; when there *)
(* is less than a frame in the ring, the rest of readbuf is what it was.    *)
(* The stream is spoilt when JACK has stopped, or by a part of a frame.     *)
StartCycle ==
  /\ pc = "idle" /\ can_process
  /\ pc' = "read" /\ left' = CycleLen
  /\ playing' = rolling
  /\ clean' = (clean /\ (playing => rolling))
  /\ UNCHANGED <<uiVars, posVars, rolling, frames, fileVars, diskVars, flagVars, rb, heard>>

Least(a, b) == IF a < b THEN a ELSE b

Taken == Least(Channels, Len(rb))

Played == [c \in 1..Channels |-> IF c <= Taken THEN rb[c] ELSE Stale]

ReadFrame ==
  /\ pc = "read" /\ left > 0 /\ left' = left - 1
  /\ rb' = SubSeq(rb, Taken + 1, Len(rb))
  /\ heard' = IF playing /\ Played[1].frame >= 0 THEN Played[1].frame ELSE heard
  /\ clean' = (clean /\ Taken \in {0, Channels})
  /\ UNCHANGED <<uiVars, posVars, rolling, frames, fileVars, diskVars, pc, playing, flagVars>>

(* The disk thread is woken if it waits, that is if its lock is free.       *)
EndCycle ==
  /\ pc = "read" /\ left = 0 /\ pc' = "count"
  /\ disk' = IF disk = "wait" THEN "top" ELSE disk
  /\ UNCHANGED <<uiVars, posVars, rolling, frames, fileVars, seeking, avail, k, chans, buf, left, playing,
                 flagVars, rb, seenVars>>

(* Behind the end mark it is process itself that stops playing, until it    *)
(* asks JACK again; the disk thread has been woken and may see either.      *)
AdvancePos ==
  /\ pc = "count" /\ pc' = "idle"
  /\ play_pos' = IF playing THEN UpTo(play_pos + CycleLen) ELSE play_pos
  /\ playing' = (playing /\ play_pos' < end_pos)
  /\ clean' = (clean /\ (playing => playing'))
  /\ UNCHANGED <<uiVars, end_pos, rolling, frames, fileVars, diskVars, left, flagVars, rb, heard>>

-----------------------------------------------------------------------------
(* disk_thread: take note of a locate,                                      *)
Top ==
  /\ disk = "top" /\ disk' = "bus"
  /\ seeking' = locate_was_set
  /\ locate_was_set' = FALSE
  /\ can_process' = (can_process /\ ~locate_was_set)
  /\ UNCHANGED <<uiVars, posVars, rolling, frames, fileVars, avail, k, chans, buf, procVars, rb,
                 seenVars>>

(* find out how many frames there is room for (mutant: how many samples),   *)
Space_InSamples == Capacity - Len(rb)
Space == (Capacity - Len(rb)) \div Channels

(* seek in the file as it was opened, or as it is now (try_reopen),         *)
Reopened == frames

Seek ==
  IF locate_pos <= opened
  THEN opened' = opened /\ fpos' = locate_pos /\ silence' = FALSE
  ELSE /\ opened' = Reopened
       /\ fpos' = IF locate_pos <= Reopened THEN locate_pos ELSE 0
       /\ silence' = (locate_pos > Reopened)

Bus ==
  /\ disk = "bus" /\ disk' = "fill"
  /\ IF seeking
     THEN Seek /\ read_pos' = locate_pos /\ buf' = SilentBuf
     ELSE UNCHANGED <<fileVars, buf>>
  /\ seeking' = FALSE
  /\ avail' = Space
  /\ UNCHANGED <<uiVars, posVars, rolling, frames, k, chans, procVars, flagVars, rb, seenVars>>

(* fill the ring as far as it was free: read a frame, at the end of what    *)
(* was opened reopen once, then be silent;                                  *)
Reads == playing /\ ~silence

Frame ==
  /\ disk = "fill" /\ avail > 0 /\ disk' = "write"
  /\ avail' = avail - 1 /\ k' = 0
  /\ chans' = IF Reads THEN Channels ELSE 0
  /\ \/ /\ Reads /\ fpos < opened
        /\ buf' = FromFile(fpos)
        /\ fpos' = fpos + 1 /\ read_pos' = read_pos + 1
        /\ UNCHANGED <<opened, silence>>
     \/ /\ Reads /\ fpos >= opened
        /\ opened' = Reopened
        /\ silence' = (read_pos >= Reopened)
        /\ buf' = IF silence' THEN SilentBuf ELSE FromFile(read_pos)
        /\ fpos' = IF silence' THEN Least(read_pos, Reopened) ELSE read_pos + 1
        /\ read_pos' = read_pos + 1
     \/ ~Reads /\ UNCHANGED <<fileVars, buf>>
  /\ UNCHANGED <<uiVars, posVars, rolling, frames, seeking, procVars, flagVars, rb, seenVars>>

(* write one sample of it at a time (while JACK is stopped and in silence,  *)
(* the first sample of the last frame on every channel),                    *)
Written == IF k < chans THEN buf[k + 1] ELSE buf[1]

Write ==
  /\ disk = "write"
  /\ rb' = IF Len(rb) < Capacity THEN Append(rb, Written) ELSE rb
  /\ k' = IF k + 1 < Channels THEN k + 1 ELSE 0
  /\ IF k + 1 < Channels THEN disk' = "write" /\ chans' = chans
     ELSE disk' = "fill" /\ chans' = 0
  /\ UNCHANGED <<uiVars, posVars, rolling, frames, fileVars, seeking, avail, buf, procVars,
                 flagVars, seenVars>>

(* and sleep (mutant: without letting process go on).                       *)
Resumes_Not == can_process
Resumes == TRUE

Filled ==
  /\ disk = "fill" /\ avail = 0 /\ disk' = "wait"
  /\ can_process' = Resumes
  /\ UNCHANGED <<uiVars, posVars, rolling, frames, fileVars, seeking, avail, k, chans, buf, procVars,
                 locate_was_set, rb, seenVars>>

-----------------------------------------------------------------------------
User ==
  \/ \E p \in Positions : Locate(p)
  \/ \E e \in EndMarks : SetEnd(e)
  \/ Play
  \/ Reset

Process ==
  \/ StartCycle
  \/ ReadFrame
  \/ EndCycle
  \/ AdvancePos

DiskThread ==
  \/ Top
  \/ Bus
  \/ Frame
  \/ Write
  \/ Filled

Next == User \/ Render \/ TransportRolls \/ TransportHolds \/ Process \/ DiskThread

Spec == Init /\ [][Next]_vars

(* JACK calls process for ever, and the disk thread, which runs at realtime *)
(* priority, goes on when it has been woken.                                *)
FairSpec == Spec /\ WF_vars(Process) /\ WF_vars(DiskThread)

-----------------------------------------------------------------------------
(* What is taken from the ring after a locate is the file from that         *)
(* position on, frame by frame, each channel on its own port, or silence,   *)
(* also while the file is still growing and when the ring has run empty in  *)
(* between.  The exceptions, until the next locate: a frame of which only a *)
(* part was in the ring; playing was ended, by JACK or the end mark, when   *)
(* the disk thread fills the ring with what it last read; and a reset found *)
(* process taking from the ring, or the disk thread beyond its look at      *)
(* locate_was_set.                                                          *)
PlaysTheFile ==
  [][ left' < left /\ clean' /\ playing /\ Taken > 0 =>
        \/ Played = SilentBuf
        \/ Played = FromFile(IF heard = -1 THEN locate_pos ELSE heard + 1) ]_vars

(* The disk thread asks once how much room there is and then fills it       *)
(* sample by sample while process reads: there is always room, so that      *)
(* channels are never lost on the way in.                                   *)
NoSampleDropped ==
  clean /\ disk = "write" => Len(rb) < Capacity

(* A locate while JACK rolls is followed by sound, or the file is too short *)
(* for that position, or the end mark is reached: process is not left       *)
(* disabled, the disk thread does not sleep through the request.            *)
SoundComes ==
  (ui = "idle" /\ rolling) ~>
    (heard >= 0 \/ silence \/ play_pos >= end_pos \/ ui # "idle" \/ ~rolling)
=============================================================================
