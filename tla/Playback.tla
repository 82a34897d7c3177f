------------------------------ MODULE Playback ------------------------------
(***************************************************************************)
(* The sound of a call between the network and the loudspeaker: packets    *)
(* put their samples in a queue, the callback of the output stream takes   *)
(* them out once enough have come, and stops when few are left.  Only how  *)
(* many samples wait matters, and when they are heard.                     *)
(***************************************************************************)
EXTENDS Naturals

CONSTANTS
  BufferStart,   \* PLAYBACK_BUFFER_START, 4800 samples
  BufferMin,     \* PLAYBACK_BUFFER_MIN, 1920
  BufferTarget,  \* PLAYBACK_BUFFER_TARGET, 9600
  BufferMax,     \* PLAYBACK_BUFFER_MAX, 96000
  Packet,        \* the sizes of packets, in samples
  OutputFrames   \* the sizes of the buffers that the callback fills

ASSUME PlaybackAssumption ==
  /\ BufferMin \in Nat /\ BufferStart \in Nat /\ BufferTarget \in Nat /\ BufferMax \in Nat
  /\ BufferMin < BufferStart /\ BufferStart <= BufferTarget /\ BufferTarget < BufferMax
  /\ Packet \subseteq Nat /\ OutputFrames \subseteq Nat

VARIABLES
  waiting,  \* samples in the queue, from the track and from the data channel
  playing,  \* of the closure of build_output_stream
  heard,    \* samples heard since it plays, up to BufferStart - BufferMin
  broken    \* it stopped early, or played a sample that was not there

playbackVars == <<waiting, playing, heard, broken>>

Least(x, y) == IF x < y THEN x ELSE y

PlaybackTypeOK ==
  /\ waiting \in 0 .. BufferMax
  /\ playing \in BOOLEAN
  /\ heard \in 0 .. BufferStart - BufferMin
  /\ broken \in BOOLEAN

PlaybackInit == waiting = 0 /\ playing = FALSE /\ heard = 0 /\ broken = FALSE

\* A packet of the track or a message of the data channel: the oldest samples go when
\* there are too many.
PacketArrives(samples) ==
  /\ waiting' = Least(waiting + samples, BufferMax)
  /\ UNCHANGED <<playing, heard, broken>>

\* Mutant of Plays: one threshold, for the start and for the stop.
PlaysOneThreshold(state) == state.waiting > BufferMin

\* Starts at BufferStart, goes on down to BufferMin.
Plays(state) ==
  (state.playing \/ state.waiting >= BufferStart) /\ state.waiting > BufferMin

\* One frame of the output, which holds frames of them.
FrameOut(state, frames) ==
  LET plays == Plays(state)
      \* What is more than the target, and this buffer, is dropped.
      kept  == Least(Least(state.waiting, BufferMax), BufferTarget + frames)
  IN  [waiting |-> IF plays /\ kept > 0 THEN kept - 1 ELSE kept,
       playing |-> plays,
       heard   |-> IF plays THEN Least(state.heard + 1, BufferStart - BufferMin) ELSE 0,
       broken  |-> \/ state.broken
                   \/ plays /\ kept = 0
                   \/ state.playing /\ ~plays /\ state.heard < BufferStart - BufferMin]

\* The frames of a buffer, one after the other.
BufferOut(state, frames) ==
  LET out[i \in 0 .. frames] == IF i = 0 THEN state ELSE FrameOut(out[i - 1], frames)
  IN  out[frames]

\* The callback holds the lock of the queue for all of its buffer.
Callback(frames) ==
  LET after == BufferOut([waiting |-> waiting, playing |-> playing,
                          heard |-> heard, broken |-> broken], frames)
  IN  /\ waiting' = after.waiting
      /\ playing' = after.playing
      /\ heard' = after.heard
      /\ broken' = after.broken

\* start_audio_playback: a new stream for the queue of the call.
PlaybackStart ==
  /\ playing' = FALSE
  /\ heard' = 0
  /\ UNCHANGED <<waiting, broken>>

PlaybackNext ==
  \/ \E samples \in Packet : PacketArrives(samples)
  \/ \E frames \in OutputFrames : Callback(frames)
  \/ PlaybackStart

\* Whatever the sizes of packets and buffers, sound that has begun lasts as long as the
\* samples between the two thresholds, and each frame of it has a sample: neither the stop
\* nor the dropping of old samples makes it stutter.
NoStutter == ~broken
=============================================================================
