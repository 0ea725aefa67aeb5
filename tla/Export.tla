--------------------------------- MODULE Export ---------------------------------
(***************************************************************************)
(* The files that busses are exported to: a MIDI file of one track, and a  *)
(* sound file that is copied in chunks.  A track is a sequence of bytes, a *)
(* sound a sequence of frames.                                             *)
(***************************************************************************)
EXTENDS Integers, Sequences

CONSTANTS
  FramesPerTick,  \* samplerate * spqn / tpqn, for the MIDI file
  CHUNK           \* EXPORT_CHUNK, in frames (512)

ASSUME ExportAssumption ==
  FramesPerTick \in Nat \ {0} /\ CHUNK \in Nat \ {0}

-----------------------------------------------------------------------------
(* put_var_value: seven bits to a byte, the highest first; all but the last *)
(* have the eighth set.  Weight[k] is 128^(k - 1).                          *)
Weight == <<1, 128, 128 * 128, 128 * 128 * 128, 128 * 128 * 128 * 128>>

Groups(val) ==
  CHOOSE n \in 1..4 : val < Weight[n + 1] /\ (n > 1 => val >= Weight[n])

VarValue(val) ==
  LET n == Groups(val)
  IN  [i \in 1..n |->
         (IF i < n THEN 128 ELSE 0) + ((val \div Weight[n - i + 1]) % 128)]

(* export_midi: each event at its own tick, so that the differences do not  *)
(* add up what is cut off (mutant: the difference of the frames).           *)
TickOf(frame) == frame \div FramesPerTick
TimeBefore(events, i) == IF i = 1 THEN 0 ELSE events[i - 1].time

Delta_Frames(events, i) == TickOf(events[i].time - TimeBefore(events, i))
Delta(events, i) == TickOf(events[i].time) - TickOf(TimeBefore(events, i))

Tempo(uspqn) ==
  <<0, 255, 81, 3, (uspqn \div 65536) % 256, (uspqn \div 256) % 256, uspqn % 256>>
EndOfTrack == <<0, 255, 47, 0>>

EventBytes(events, i) == VarValue(Delta(events, i)) \o events[i].data

(* [length, the count of bytes that is put in front; bytes].                *)
Track(events, uspqn) ==
  LET upTo[i \in 0..Len(events)] ==
        IF i = 0 THEN [length |-> 7, bytes |-> Tempo(uspqn)]
        ELSE [length |-> upTo[i - 1].length + Len(VarValue(Delta(events, i)))
                         + Len(events[i].data),
              bytes |-> upTo[i - 1].bytes \o EventBytes(events, i)]
      all == upTo[Len(events)]
  IN  [length |-> all.length + 4, bytes |-> all.bytes \o EndOfTrack]

(* f_lsb14 and f_msb14; MidiBus's scale_pitch maps -1..1, here in steps of  *)
(* 1/8192, to 0..16384.                                                     *)
PitchSteps == -8192..8192
Lsb14(val) == val % 128
Msb14(val) == (val \div 128) % 128
ScalePitch(x) == x + 8192
PutPitch(x, chan) == <<224 + chan - 1, Lsb14(ScalePitch(x)), Msb14(ScalePitch(x))>>

Octets == 0..255

(* What is exported: events in the order of their times, each a message of  *)
(* two or three bytes, as its status byte says.                             *)
MidiEvents(events) ==
  /\ events \in Seq([time : Nat, data : Seq(Octets)])
  /\ \A i \in DOMAIN events :
       /\ Len(events[i].data) = IF events[i].data[1] \in 192..223 THEN 2 ELSE 3
       /\ events[i].data[1] # 255
       /\ TimeBefore(events, i) <= events[i].time
       /\ TickOf(events[i].time) < Weight[5]

-----------------------------------------------------------------------------
(* export_audio: whatever was read, the whole buffer is scaled and written, *)
(* and a chunk that was not full is the last.  A frame is the place it was  *)
(* read from, 0 if it was not, and how often it has been scaled.            *)
FramesRead(total, k) ==
  IF (k - 1) * CHUNK + CHUNK <= total THEN CHUNK ELSE total - (k - 1) * CHUNK

ReadInto(buffer, total, k) ==
  [j \in 1..CHUNK |->
     IF j <= FramesRead(total, k) THEN [of |-> (k - 1) * CHUNK + j, scaled |-> 0]
     ELSE buffer[j]]

Normalized(buffer, norm) ==
  [j \in 1..CHUNK |-> IF norm THEN [buffer[j] EXCEPT !.scaled = @ + 1] ELSE buffer[j]]

Chunks(total) == (total \div CHUNK) + 1

ExportAudio(total, norm) ==
  LET buffer[k \in 0..Chunks(total)] ==
        IF k = 0 THEN [j \in 1..CHUNK |-> [of |-> 0, scaled |-> 0]]
        ELSE Normalized(ReadInto(buffer[k - 1], total, k), norm)
      upTo[k \in 0..Chunks(total)] ==
        IF k = 0 THEN <<>> ELSE upTo[k - 1] \o buffer[k]
  IN  upTo[Chunks(total)]

-----------------------------------------------------------------------------
(* A reader of MIDI tracks: at each message the tick it is at, the message  *)
(* and the place behind it; a status byte says how long a message is, a     *)
(* meta event itself.                                                       *)
Continued(bytes, i) ==
  CHOOSE j \in i..Len(bytes) : bytes[j] < 128 /\ \A k \in i..j - 1 : bytes[k] >= 128

ValueAt7(bytes, i, j) ==
  LET upTo[k \in i - 1..j] ==
        IF k < i THEN 0 ELSE (upTo[k - 1] * 128) + (bytes[k] % 128)
  IN  upTo[j]

MessageSize(bytes, i) ==
  IF bytes[i] = 255 THEN 3 + bytes[i + 2]
  ELSE IF bytes[i] \in 192..223 THEN 2 ELSE 3

ReadMessage(bytes, before) ==
  LET j == Continued(bytes, before.next)
      next == j + 1 + MessageSize(bytes, j + 1)
  IN  [tick |-> before.tick + ValueAt7(bytes, before.next, j),
       message |-> SubSeq(bytes, j + 1, next - 1), next |-> next]

ReadTrack(bytes, n) ==
  LET upTo[k \in 0..n] ==
        IF k = 0 THEN [tick |-> 0, message |-> <<>>, next |-> 1]
        ELSE ReadMessage(bytes, upTo[k - 1])
  IN  upTo

(* The messages of a track are one before the events (the tempo), the       *)
(* events, each at its tick, and the end, and nothing follows.              *)
TrackMeant(events, track) ==
  LET n == Len(events) + 2
      read == ReadTrack(track.bytes, n)
  IN  /\ track.length = Len(track.bytes)
      /\ read[n].next = Len(track.bytes) + 1 /\ read[n].message = <<255, 47, 0>>
      /\ \A i \in DOMAIN events :
           /\ read[i + 1].tick = TickOf(events[i].time)
           /\ read[i + 1].message = events[i].data

(* The bend that is sent is the one that is meant, but for the upper end,   *)
(* which comes out as the lower one.                                        *)
PitchMeant(x, data) ==
  data[2] + (128 * data[3]) = IF x = 8192 THEN 0 ELSE x + 8192

(* The frames of the bus come first and once.  What the last chunk did not  *)
(* fill follows: the frames a chunk before, scaled again.                   *)
AudioMeant(total, norm, out) ==
  /\ Len(out) = Chunks(total) * CHUNK
  /\ \A j \in 1..total : out[j] = [of |-> j, scaled |-> IF norm THEN 1 ELSE 0]
  /\ \A j \in total + 1..Len(out) :
       out[j].of = IF j > CHUNK THEN j - CHUNK ELSE 0
===============================================================================
