------------------------------- MODULE AudioRing -------------------------------
(***************************************************************************)
(* The ring of decoded audio samples of src/auddec.cpp.  One thread (the   *)
(* audio receive thread of AudioStream.c, through AudDecDecodeAndPlaySample)*)
(* decodes into the ring; the audio device's thread (through               *)
(* AudioPlayerSampleCallback) copies out of it.  There is no lock: each    *)
(* side owns one index and reads the other's.  Decoding a sample and       *)
(* copying one take time, so each has a step during which the slot is in   *)
(* use.                                                                    *)
(***************************************************************************)
EXTENDS Integers, Sequences

CONSTANTS CIRCULAR_BUFFER_SIZE, \* slots of the ring (32 in the code)
          Sample,               \* decoded samples
          Garbage,              \* a slot that is being, or was never, filled
          Silence               \* what memset(samples, 0) gives the device

ASSUME RingAssumption == /\ CIRCULAR_BUFFER_SIZE \in Nat
                         /\ CIRCULAR_BUFFER_SIZE >= 2
                         /\ Garbage \notin Sample
                         /\ Silence \notin Sample
                         /\ Silence # Garbage

VARIABLES s_CircularBuffer,  \* slot -> its contents
          s_ReadIndex,       \* written by the callback only
          s_WriteIndex,      \* written by the decoder only
          decoder,           \* where AudDecDecodeAndPlaySample stands
          callback,          \* where AudioPlayerSampleCallback stands
          samples,           \* the device buffer the callback is filling
          device,            \* what the device was last given
          playing,           \* between StartPlayback and StopPlayback
          loadsReorder       \* whether this CPU may satisfy the load of the
                             \* slot before the load of s_WriteIndex

ringVars == <<s_CircularBuffer, s_ReadIndex, s_WriteIndex,
              decoder, callback, samples, device, playing, loadsReorder>>

Slot == 0 .. CIRCULAR_BUFFER_SIZE - 1

(* Mutant of Succ: the wrap is forgotten. *)
SuccNoWrap(i) == i + 1

Succ(i) == (i + 1) % CIRCULAR_BUFFER_SIZE

RingTypeOK == /\ s_CircularBuffer \in [Slot -> Sample \cup {Garbage}]
              /\ s_ReadIndex \in Slot
              /\ s_WriteIndex \in Slot
              /\ decoder \in {"idle", "decode", "publish"}
              /\ callback \in {"idle", "prefetched", "copy", "advance"}
              /\ samples \in Sample \cup {Garbage, Silence}
              /\ device \in Sample \cup {Garbage, Silence}
              /\ playing \in BOOLEAN
              /\ loadsReorder \in BOOLEAN

RingInit == /\ s_CircularBuffer = [i \in Slot |-> Garbage]
            /\ s_ReadIndex = 0
            /\ s_WriteIndex = 0
            /\ decoder = "idle"
            /\ callback = "idle"
            /\ samples = Silence
            /\ device = Silence
            /\ playing = FALSE
            /\ loadsReorder \in BOOLEAN
-------------------------------------------------------------------------------
(* Mutant of AudDecInit: the indexes keep the values of the last stream. *)
AudDecInitNoReset == /\ ~playing
                     /\ playing' = TRUE
                     /\ UNCHANGED <<s_CircularBuffer, s_ReadIndex, s_WriteIndex,
                                    decoder, callback, samples, device, loadsReorder>>

(* AudDecInit runs before the receive thread exists, with playback stopped. *)
AudDecInit == /\ ~playing
              /\ s_ReadIndex' = 0
              /\ s_WriteIndex' = 0
              /\ playing' = TRUE
              /\ UNCHANGED <<s_CircularBuffer, decoder, callback, samples, device, loadsReorder>>

(* stopAudioStream joins the receive thread before AudioCallbacks.cleanup; *)
(* StopPlayback returns when no callback is active.                        *)
AudDecCleanup == /\ playing
                 /\ decoder = "idle"
                 /\ callback = "idle"
                 /\ playing' = FALSE
                 /\ UNCHANGED <<s_CircularBuffer, s_ReadIndex, s_WriteIndex,
                                decoder, callback, samples, device, loadsReorder>>
-------------------------------------------------------------------------------
(* Mutant of DecodeBegin: a full ring is not noticed. *)
DecodeBeginUntested == /\ playing
                       /\ decoder = "idle"
                       /\ decoder' = "decode"
                       /\ s_CircularBuffer' = [s_CircularBuffer EXCEPT ![s_WriteIndex] = Garbage]
                       /\ UNCHANGED <<s_ReadIndex, s_WriteIndex, callback, samples, device, playing, loadsReorder>>

(* AudDecDecodeAndPlaySample.  A full ring drops the packet: a stutter. *)
DecodeBegin == /\ playing
               /\ decoder = "idle"
               /\ Succ(s_WriteIndex) # s_ReadIndex
               /\ decoder' = "decode"
               /\ s_CircularBuffer' = [s_CircularBuffer EXCEPT ![s_WriteIndex] = Garbage]
               /\ UNCHANGED <<s_ReadIndex, s_WriteIndex, callback, samples, device, playing, loadsReorder>>

DecodeEnd(s) == /\ decoder = "decode"
                /\ decoder' = "publish"
                /\ s_CircularBuffer' = [s_CircularBuffer EXCEPT ![s_WriteIndex] = s]
                /\ UNCHANGED <<s_ReadIndex, s_WriteIndex, callback, samples, device, playing, loadsReorder>>

(* Mutant of DecodeError: the result of the decoder is not looked at. *)
DecodeErrorPublished == /\ decoder = "decode"
                        /\ decoder' = "publish"
                        /\ UNCHANGED <<s_CircularBuffer, s_ReadIndex, s_WriteIndex,
                                       callback, samples, device, playing, loadsReorder>>

\* decodeLen <= 0: the slot keeps whatever opus left there.
DecodeError == /\ decoder = "decode"
               /\ decoder' = "idle"
               /\ UNCHANGED <<s_CircularBuffer, s_ReadIndex, s_WriteIndex,
                              callback, samples, device, playing, loadsReorder>>

Publish == /\ decoder = "publish"
           /\ decoder' = "idle"
           /\ s_WriteIndex' = Succ(s_WriteIndex)
           /\ UNCHANGED <<s_CircularBuffer, s_ReadIndex, callback, samples, device, playing, loadsReorder>>
-------------------------------------------------------------------------------
(* AudioPlayerSampleCallback. *)
CallbackEmpty == /\ playing
                 /\ callback = "idle"
                 /\ s_WriteIndex = s_ReadIndex
                 /\ device' = Silence
                 /\ UNCHANGED <<s_CircularBuffer, s_ReadIndex, s_WriteIndex,
                                decoder, callback, samples, playing, loadsReorder>>

CallbackBegin == /\ playing
                 /\ callback = "idle"
                 /\ s_WriteIndex # s_ReadIndex
                 /\ callback' = "copy"
                 /\ UNCHANGED <<s_CircularBuffer, s_ReadIndex, s_WriteIndex,
                                decoder, samples, device, playing, loadsReorder>>

CallbackCopy == /\ callback = "copy"
                /\ callback' = "advance"
                /\ samples' = s_CircularBuffer[s_ReadIndex]
                /\ UNCHANGED <<s_CircularBuffer, s_ReadIndex, s_WriteIndex,
                               decoder, device, playing, loadsReorder>>

\* The increment follows the __sync_synchronize, then the callback returns.
CallbackAdvance == /\ callback = "advance"
                   /\ callback' = "idle"
                   /\ s_ReadIndex' = Succ(s_ReadIndex)
                   /\ device' = samples
                   /\ UNCHANGED <<s_CircularBuffer, s_WriteIndex, decoder, samples, playing, loadsReorder>>

(* Neither index is volatile and nothing orders the load of s_WriteIndex   *)
(* before the loads of the slot: where the CPU reorders loads (the ARM of  *)
(* the television) the copy may be satisfied first and the test made after.*)
CallbackPrefetch == /\ loadsReorder
                    /\ playing
                    /\ callback = "idle"
                    /\ callback' = "prefetched"
                    /\ samples' = s_CircularBuffer[s_ReadIndex]
                    /\ UNCHANGED <<s_CircularBuffer, s_ReadIndex, s_WriteIndex,
                                   decoder, device, playing, loadsReorder>>

CallbackLateTest == /\ callback = "prefetched"
                    /\ IF s_WriteIndex # s_ReadIndex
                       THEN callback' = "advance" /\ UNCHANGED device
                       ELSE callback' = "idle" /\ device' = Silence
                    /\ UNCHANGED <<s_CircularBuffer, s_ReadIndex, s_WriteIndex,
                                   decoder, samples, playing, loadsReorder>>
-------------------------------------------------------------------------------
Decoder == DecodeBegin \/ (\E s \in Sample : DecodeEnd(s)) \/ DecodeError \/ Publish

Callback == \/ CallbackEmpty \/ CallbackBegin \/ CallbackCopy \/ CallbackAdvance
            \/ CallbackPrefetch \/ CallbackLateTest

RingNext == AudDecInit \/ AudDecCleanup \/ Decoder \/ Callback

\* The device thread calls back for as long as playback is started.
RingSpec == RingInit /\ [][RingNext]_ringVars /\ WF_ringVars(Callback)
-------------------------------------------------------------------------------
(***************************************************************************)
(* The decoder never has the slot the reader stands on in its hands, and   *)
(* the reader never moves past the writer: the tests of the indexes        *)
(* (auddec.cpp:22 and :73) stay true until the index they guard is stored, *)
(* although the other thread moves its own index in between.               *)
(***************************************************************************)
ChecksStayTrue == /\ decoder \in {"decode", "publish"} => Succ(s_WriteIndex) # s_ReadIndex
                  /\ callback \in {"copy", "advance"} => s_WriteIndex # s_ReadIndex

(***************************************************************************)
(* The slots from the read index up to, not including, the write index.    *)
(***************************************************************************)
Live(i) == IF s_ReadIndex <= s_WriteIndex
           THEN s_ReadIndex <= i /\ i < s_WriteIndex
           ELSE s_ReadIndex <= i \/ i < s_WriteIndex

\* A slot that has been published holds a whole sample until it is released,
\* whatever the decoder does and wherever the indexes have wrapped to
\* (auddec.cpp:73-87: decode, barrier, then store the index).
LiveSlotsWhole == \A i \in Slot : Live(i) => s_CircularBuffer[i] \in Sample

\* What the callback releases after its test was a decoded sample when it was
\* copied, provided the CPU keeps the two loads in order.
ReleasesSamples == ~loadsReorder /\ callback = "advance" => samples \in Sample

Waiting == IF s_ReadIndex <= s_WriteIndex
           THEN s_WriteIndex - s_ReadIndex
           ELSE s_WriteIndex + CIRCULAR_BUFFER_SIZE - s_ReadIndex

Fifo == INSTANCE SampleFifo
          WITH Capacity <- CIRCULAR_BUFFER_SIZE - 1,
               exact <- ~loadsReorder,
               queue <- [k \in 1 .. Waiting |->
                          s_CircularBuffer[(s_ReadIndex + k - 1) % CIRCULAR_BUFFER_SIZE]]

\* The two threads together are the FIFO of SampleFifo, including that every
\* sample accepted is played (or, where loads are reordered, at least released)
\* while playback lasts.
ImplementsFifo == Fifo!Spec
===============================================================================
