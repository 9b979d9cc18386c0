------------------------- MODULE VoiceBuffersProofs -------------------------
(* Proofs about what the voice backends buffer: how much, of what, from which
   start, and that what is lost is counted. *)
EXTENDS VoiceBackendsProofs, SequenceTheorems, FiniteSetTheorems

-----------------------------------------------------------------------------
(* Buffers of units *)

Units(sounds, runs) == [sound : sounds, run : runs]

LEMMA OldestIsPrefix ==
  ASSUME NEW S, NEW s \in Seq(S), NEW n \in Nat
  PROVE  /\ Oldest(n, s) \in Seq(S)
         /\ Len(Oldest(n, s)) = IF Len(s) < n THEN Len(s) ELSE n
<1>. DEFINE k == IF Len(s) < n THEN Len(s) ELSE n
<1>1. k \in 0 .. Len(s) /\ Len(s) \in Nat
  OBVIOUS
<1>2. SubSeq(s, 1, k) \in Seq(S) /\ Len(SubSeq(s, 1, k)) = k
  BY <1>1, SubSeqProperties
<1>. QED
  BY <1>2 DEF Oldest

LEMMA BehindIsRest ==
  ASSUME NEW S, NEW s \in Seq(S), NEW n \in Nat
  PROVE  /\ Behind(n, s) \in Seq(S)
         /\ Len(Behind(n, s)) = IF n < Len(s) THEN Len(s) - n ELSE 0
         /\ Len(Behind(n, s)) <= Len(s)
<1>1. CASE n < Len(s)
  BY <1>1, SubSeqProperties DEF Behind
<1>2. CASE ~(n < Len(s))
  <2>1. Behind(n, s) = <<>>
    BY <1>2, SubSeqEmpty DEF Behind
  <2>. QED
    BY <1>2, <2>1
<1>. QED
  BY <1>1, <1>2

LEMMA NewestIsSuffix ==
  ASSUME NEW S, NEW s \in Seq(S), NEW n \in Nat
  PROVE  /\ Newest(n, s) \in Seq(S)
         /\ Len(Newest(n, s)) = IF Len(s) > n THEN n ELSE Len(s)
<1>1. CASE Len(s) > n
  <2>. DEFINE k == Len(s) - n
  <2>1. k \in Nat /\ Newest(n, s) = Behind(k, s) /\ Len(s) - k = n /\ (k < Len(s) \/ n = 0)
    BY <1>1 DEF Newest
  <2>. HIDE DEF k
  <2>2. Behind(k, s) \in Seq(S) /\ Len(Behind(k, s)) = IF k < Len(s) THEN Len(s) - k ELSE 0
    BY <2>1, BehindIsRest
  <2>. QED
    BY <1>1, <2>1, <2>2
<1>2. CASE ~(Len(s) > n)
  BY <1>2 DEF Newest
<1>. QED
  BY <1>1, <1>2

LEMMA HeardIsSequence ==
  ASSUME NEW n \in Nat, NEW sound, NEW run
  PROVE  /\ Heard(n, sound, run) \in Seq(Units({sound}, {run})) /\ Len(Heard(n, sound, run)) = n
         /\ Silence(n, run) \in Seq(Units({"silence"}, {run})) /\ Len(Silence(n, run)) = n
<1>1. Unit(sound, run) \in Units({sound}, {run}) /\ Unit("silence", run) \in Units({"silence"}, {run})
  BY DEF Unit, Units
<1>2. \A u, U : u \in U =>
        /\ [i \in 1 .. n |-> u] \in Seq(U) /\ Len([i \in 1 .. n |-> u]) = n
  OBVIOUS
<1>3. Heard(n, sound, run) = [i \in 1 .. n |-> Unit(sound, run)]
  BY DEF Heard
<1>4. Silence(n, run) = [i \in 1 .. n |-> Unit("silence", run)]
  BY DEF Silence
<1>. QED
  BY <1>1, <1>2, <1>3, <1>4

LEMMA TableIsSequence ==
  ASSUME NEW S, NEW k \in Nat, NEW f \in [1 .. k -> S]
  PROVE  f \in Seq(S) /\ Len(f) = k
<1>1. f \in Seq(S)
  BY SeqDef
<1>2. DOMAIN f = 1 .. Len(f) /\ Len(f) \in Nat
  BY <1>1, LenProperties
<1>3. \A m, n \in Nat : 1 .. m = 1 .. n => m = n
  <2>. TAKE m, n \in Nat
  <2>. HAVE 1 .. m = 1 .. n
  <2>1. ~(m < n)
    <3>. SUFFICES ASSUME m < n PROVE FALSE
      OBVIOUS
    <3>. n \in 1 .. n /\ n \notin 1 .. m
      OBVIOUS
    <3>. QED
      OBVIOUS
  <2>2. ~(n < m)
    <3>. SUFFICES ASSUME n < m PROVE FALSE
      OBVIOUS
    <3>. m \in 1 .. m /\ m \notin 1 .. n
      OBVIOUS
    <3>. QED
      OBVIOUS
  <2>. QED
    BY <2>1, <2>2
<1>. QED
  BY <1>1, <1>2, <1>3

LEMMA JoinedIsSequence ==
  ASSUME NEW S, NEW s \in Seq(S), NEW t \in Seq(S)
  PROVE  s \o t \in Seq(S) /\ Len(s \o t) = Len(s) + Len(t) /\ Len(s \o t) \in Nat
OBVIOUS

(* A buffer of fewer sounds or starts is one of more. *)
LEMMA MoreUnits ==
  ASSUME NEW s, NEW S, NEW T, s \in Seq(S), S \subseteq T
  PROVE  s \in Seq(T)
OBVIOUS

LEMMA CountsUp ==
  ASSUME NEW n \in 0 .. MaxCount
  PROVE  CountUp(n) \in 0 .. MaxCount /\ \A m \in 0 .. n : CountUp(m) <= CountUp(n) /\ m <= CountUp(n)
BY BoundsAssumption DEF CountUp

LEMMA BufferBounds ==
  /\ FrameUnits \in Nat \ {0} /\ RingFrames \in Nat \ {0} /\ EventQueue \in Nat \ {0}
  /\ MaxStarts \in Nat \ {0} /\ MaxCount \in Nat \ {0}
  /\ RingFrames * FrameUnits \in Nat /\ FrameUnits <= RingFrames * FrameUnits
  /\ (RingFrames + 1) * FrameUnits \in Nat
<1>1. \A a, b \in Nat \ {0} : a * b \in Nat /\ b <= a * b /\ (a + 1) * b \in Nat
  OBVIOUS
<1>. QED
  BY <1>1, BoundsAssumption

-----------------------------------------------------------------------------
(* What every session has: flags, counters within their bound, at least as
   many overruns as losses, a queue of events within its bound. *)
HasSession ==
    {"runs", "running", "mic", "output", "underruns", "overruns", "events"}
      \subseteq DOMAIN session

SessionFits ==
    /\ HasSession
    /\ session.runs \in 0 .. MaxStarts
    /\ session.running \in BOOLEAN /\ session.mic \in BOOLEAN /\ session.output \in BOOLEAN
    /\ session.underruns \in 0 .. MaxCount /\ session.overruns \in 0 .. MaxCount
    /\ lost \in 0 .. session.overruns
    /\ IsSequence(session.events) /\ Len(session.events) <= EventQueue

(* The counters after a step that may have lost something. *)
LossCounted ==
    \/ UNCHANGED lost /\ session'.overruns \in {session.overruns, CountUp(session.overruns)}
    \/ lost' = CountUp(lost) /\ session'.overruns = CountUp(session.overruns)

LEMMA LossStaysCounted ==
  ASSUME SessionFits, LossCounted
  PROVE  session'.overruns \in 0 .. MaxCount /\ lost' \in 0 .. session'.overruns
<1>1. /\ session.overruns \in 0 .. MaxCount /\ lost \in 0 .. MaxCount
      /\ lost \in 0 .. session.overruns
  BY BufferBounds DEF SessionFits
<1>2. /\ CountUp(session.overruns) \in 0 .. MaxCount /\ lost <= CountUp(session.overruns)
      /\ CountUp(lost) \in 0 .. MaxCount /\ CountUp(lost) <= CountUp(session.overruns)
  BY <1>1, CountsUp
<1>. QED
  BY <1>1, <1>2 DEF LossCounted

(* The flags and counters are what they were, or have counted. *)
SessionGoesOn ==
    /\ HasSession' /\ LossCounted
    /\ session'.runs = session.runs
    /\ session'.running \in BOOLEAN /\ session'.mic \in BOOLEAN /\ session'.output \in BOOLEAN
    /\ session'.underruns \in {session.underruns, CountUp(session.underruns)}
    /\ session'.events = session.events

LEMMA GoingOnFits ==
  ASSUME SessionFits, SessionGoesOn PROVE SessionFits'
<1>1. session'.overruns \in 0 .. MaxCount /\ lost' \in 0 .. session'.overruns
  BY LossStaysCounted DEF SessionGoesOn
<1>2. session'.underruns \in 0 .. MaxCount
  BY CountsUp DEF SessionFits, SessionGoesOn
<1>. QED
  BY <1>1, <1>2 DEF SessionFits, SessionGoesOn

-----------------------------------------------------------------------------
(* PipeWire *)

LEMMA LinuxBuffersAre ==
  /\ \A n, s : L!Behind(n, s) = Behind(n, s) /\ L!Oldest(n, s) = Oldest(n, s)
  /\ \A n, sound, run : L!Heard(n, sound, run) = Heard(n, sound, run)
  /\ \A n, run : L!Silence(n, run) = Silence(n, run)
  /\ \A n : L!CountUp(n) = CountUp(n)
  /\ \A q, e : L!PushEvent(q, e) = PushEvent(q, e)
  /\ L!AccumUnits \in Nat /\ L!RingUnits \in Nat
<1>1. \A n, s : L!Behind(n, s) = Behind(n, s) /\ L!Oldest(n, s) = Oldest(n, s)
  BY DEF L!Behind, Behind, L!Oldest, Oldest
<1>2. \A n, sound, run : L!Heard(n, sound, run) = Heard(n, sound, run)
  BY DEF L!Heard, Heard, L!Unit, Unit
<1>3. \A n, run : L!Silence(n, run) = Silence(n, run)
  BY DEF L!Silence, Silence, L!Unit, Unit
<1>4. \A n : L!CountUp(n) = CountUp(n)
  BY DEF L!CountUp, CountUp
<1>5. \A q, e : L!PushEvent(q, e) = PushEvent(q, e)
  BY DEF L!PushEvent, PushEvent
<1>6. L!AccumUnits \in Nat /\ L!RingUnits \in Nat
  BY BufferBounds DEF L!AccumUnits, L!RingUnits
<1>. QED
  BY <1>1, <1>2, <1>3, <1>4, <1>5, <1>6

Quiet == {"silence", "speech"}

(* What is gathered for the reader is of the latest start, and nothing of it
   was said while the microphone was muted. *)
LinuxHolds ==
    /\ {"accum", "ring", "render"} \subseteq DOMAIN session
    /\ session.accum \in Seq(Units(Quiet, {session.runs})) /\ Len(session.accum) <= L!AccumUnits
    /\ session.ring \in Seq(Units(Quiet, Nat)) /\ Len(session.ring) <= L!RingUnits
    /\ session.render \in Seq(Units(Quiet, Nat)) /\ Len(session.render) <= L!RingUnits

ReaderIsQuiet ==
    /\ {"pc", "frame", "ref"} \subseteq DOMAIN reader
    /\ reader.frame \in Seq(Units(Quiet, Nat))

LinuxFits == SessionFits /\ LinuxHolds /\ ReaderIsQuiet

BuffersUntouched ==
    /\ {"accum", "ring", "render"} \subseteq DOMAIN session'
    /\ session'.runs = session.runs /\ session'.accum = session.accum
    /\ session'.ring = session.ring /\ session'.render = session.render

LEMMA UntouchedKeepsHolds == ASSUME LinuxHolds, BuffersUntouched PROVE LinuxHolds'
BY DEF LinuxHolds, BuffersUntouched

LEMMA ClosedFits ==
  ASSUME LinuxFits, session' = [L!Closed EXCEPT !.runs = session.runs],
         lost' = 0, reader' = reader
  PROVE  LinuxFits'
<1>1. SessionFits'
  <2>1. /\ HasSession' /\ session'.runs = session.runs
        /\ session'.running \in BOOLEAN /\ session'.mic \in BOOLEAN /\ session'.output \in BOOLEAN
        /\ session'.underruns = 0 /\ session'.overruns = 0 /\ session'.events = <<>>
    BY DEF L!Closed, HasSession
  <2>. QED
    BY <2>1, BufferBounds, EmptyIsSequence DEF LinuxFits, SessionFits
<1>2. LinuxHolds'
  BY LinuxBuffersAre DEF L!Closed, LinuxHolds
<1>3. ReaderIsQuiet'
  BY DEF LinuxFits, ReaderIsQuiet
<1>. QED
  BY <1>1, <1>2, <1>3 DEF LinuxFits

LEMMA LinuxLifecycleFits ==
  ASSUME LinuxFits, L!Lifecycle PROVE LinuxFits' /\ reader' = reader
<1>. USE DEF LinuxFits
<1>1. CASE UNCHANGED <<session, reader, lost>>
  BY <1>1 DEF SessionFits, HasSession, LinuxHolds, ReaderIsQuiet
<1>2. CASE /\ UNCHANGED <<reader, lost>> /\ HasSession' /\ BuffersUntouched
           /\ session'.running \in BOOLEAN /\ session'.mic = session.mic
           /\ session'.output = session.output /\ session'.underruns = session.underruns
           /\ session'.overruns = session.overruns /\ session'.events = session.events
  <2>1. SessionGoesOn
    BY <1>2 DEF SessionGoesOn, LossCounted, SessionFits, BuffersUntouched
  <2>2. ReaderIsQuiet'
    BY <1>2 DEF ReaderIsQuiet
  <2>. QED
    BY <1>2, <2>1, <2>2, GoingOnFits, UntouchedKeepsHolds
<1>3. CASE L!Open
  <2>1. CASE \/ L!OpenRefused \/ L!OpenClaims \/ L!OpenConnects \/ L!OpenRoundtrip
             \/ L!OpenMakesStreams \/ L!OpenHasFormat \/ L!OpenCreatesApm
             \/ L!OpenListensToRegistry
    BY <1>1, <2>1 DEF L!OpenRefused, L!OpenClaims, L!OpenConnects, L!OpenRoundtrip,
       L!OpenMakesStreams, L!OpenHasFormat, L!OpenCreatesApm, L!OpenListensToRegistry,
       L!OpenGoesOn
  <2>2. CASE L!OpenRefusedByPlatform \/ L!OpenHasNoFormat
    BY <2>2, ClosedFits
    DEF L!OpenRefusedByPlatform, L!OpenHasNoFormat, L!OpenFails, L!TakenDown
  <2>3. CASE L!OpenLoadsModule
    BY <1>2, <2>3
    DEF L!OpenLoadsModule, L!OpenGoesOn, L!Set, SessionFits, HasSession, LinuxHolds, BuffersUntouched
  <2>4. CASE L!OpenSettlesRoute
    BY <1>2, <2>4
    DEF L!OpenSettlesRoute, SessionFits, HasSession, LinuxHolds, BuffersUntouched
  <2>. QED
    BY <1>3, <2>1, <2>2, <2>3, <2>4 DEF L!Open
<1>4. CASE L!Start
  <2>1. CASE session.running
    BY <1>1, <1>4, <2>1 DEF L!Start
  <2>2. CASE ~session.running
    <3>1. session' = L!Begun(session) /\ session.runs < MaxStarts /\ UNCHANGED <<reader, lost>>
      BY <1>4, <2>2 DEF L!Start
    <3>2. /\ HasSession' /\ session'.runs = session.runs + 1 /\ session'.running \in BOOLEAN
          /\ session'.mic = session.mic /\ session'.output = session.output
          /\ session'.underruns = session.underruns /\ session'.overruns = session.overruns
          /\ session'.events = session.events
      BY <3>1 DEF L!Begun, SessionFits, HasSession
    <3>3. SessionFits'
      BY <3>1, <3>2, BufferBounds DEF SessionFits
    <3>4. LinuxHolds'
      BY <3>1, LinuxBuffersAre DEF L!Begun, LinuxHolds
    <3>. QED
      BY <3>1, <3>3, <3>4 DEF ReaderIsQuiet
  <2>. QED
    BY <2>1, <2>2
<1>5. CASE L!Stop
  BY <1>2, <1>5 DEF L!Stop, L!Set, SessionFits, HasSession, LinuxHolds, BuffersUntouched
<1>6. CASE L!Close
  BY <1>6, ClosedFits DEF L!Close
<1>7. CASE \E rate \in Rates : L!CaptureParamChanged(rate) \/ L!PlaybackParamChanged(rate)
  <2>. PICK rate \in Rates : L!CaptureParamChanged(rate) \/ L!PlaybackParamChanged(rate)
    BY <1>7
  <2>1. CASE L!CaptureParamChanged(rate)
    BY <1>1, <1>2, <2>1
    DEF L!CaptureParamChanged, SessionFits, HasSession, LinuxHolds, BuffersUntouched
  <2>2. CASE L!PlaybackParamChanged(rate)
    BY <1>1, <1>2, <2>2
    DEF L!PlaybackParamChanged, L!Set, SessionFits, HasSession, LinuxHolds, BuffersUntouched
  <2>. QED
    BY <2>1, <2>2
<1>8. L!Lifecycle => reader' = reader
  <2>1. L!Open => reader' = reader
    BY DEF L!Open, L!OpenRefused, L!OpenClaims, L!OpenConnects, L!OpenRoundtrip,
       L!OpenMakesStreams, L!OpenHasFormat, L!OpenCreatesApm, L!OpenListensToRegistry,
       L!OpenGoesOn, L!OpenRefusedByPlatform, L!OpenHasNoFormat, L!OpenFails, L!TakenDown,
       L!OpenLoadsModule, L!OpenSettlesRoute
  <2>. QED
    BY <2>1 DEF L!Lifecycle, L!Start, L!Stop, L!Close, L!CaptureParamChanged,
                L!PlaybackParamChanged
<1>. QED
  BY <1>3, <1>4, <1>5, <1>6, <1>7, <1>8 DEF L!Lifecycle

(* A chunk and a frame that the device or the application brings *)
LEMMA ChunkIsQuiet ==
  ASSUME NEW n \in Nat, NEW run \in Nat
  PROVE  /\ Silence(n, run) \in Seq(Units(Quiet, {run}))
         /\ Heard(n, "speech", run) \in Seq(Units(Quiet, {run}))
         /\ Heard(n, "speech", run) \in Seq(Units(Quiet, Nat))
         /\ Len(Silence(n, run)) = n /\ Len(Heard(n, "speech", run)) = n
<1>1. /\ Units({"silence"}, {run}) \subseteq Units(Quiet, {run})
      /\ Units({"speech"}, {run}) \subseteq Units(Quiet, {run})
      /\ Units({"speech"}, {run}) \subseteq Units(Quiet, Nat)
  BY DEF Units, Quiet
<1>. QED
  BY <1>1, HeardIsSequence, MoreUnits

LEMMA LinuxCaptureFits ==
  ASSUME LinuxFits, L!CaptureSide PROVE LinuxFits' /\ reader'.frame \in {reader.frame, <<>>}
<1>. USE DEF LinuxFits
<1>1. CASE L!CaptureProcess
  <2>0. PICK n \in L!Chunks :
         LET chunk == IF session.mic THEN L!Silence(n, session.runs)
                      ELSE L!Heard(n, "speech", session.runs)
             fits == Len(session.accum) + n <= L!AccumUnits IN
         /\ session' = [session EXCEPT
              !.accum = IF fits THEN @ \o chunk ELSE @,
              !.overruns = IF fits THEN @ ELSE L!CountUp(@)]
         /\ lost' = IF Len(session'.accum) - Len(session.accum) < n
                    THEN L!CountUp(lost) ELSE lost
    BY <1>1, Zenon DEF L!CaptureProcess
  <2>. DEFINE chunk == IF session.mic THEN Silence(n, session.runs)
                       ELSE Heard(n, "speech", session.runs)
              fits == Len(session.accum) + n <= L!AccumUnits
  <2>1. /\ session' = [session EXCEPT
             !.accum = IF fits THEN @ \o chunk ELSE @,
             !.overruns = IF fits THEN @ ELSE CountUp(@)]
        /\ lost' = IF Len(session'.accum) - Len(session.accum) < n
                   THEN CountUp(lost) ELSE lost
    BY <2>0, LinuxBuffersAre
  <2>2. chunk \in Seq(Units(Quiet, {session.runs})) /\ Len(chunk) = n /\ n \in Nat
    <3>1. n \in Nat /\ session.runs \in Nat
      BY BufferBounds DEF L!Chunks, SessionFits
    <3>. QED
      BY <3>1, ChunkIsQuiet
  <2>. HIDE DEF chunk
  <2>3. /\ HasSession' /\ {"accum", "ring", "render"} \subseteq DOMAIN session'
        /\ session'.runs = session.runs /\ session'.running = session.running
        /\ session'.mic = session.mic /\ session'.output = session.output
        /\ session'.underruns = session.underruns /\ session'.events = session.events
        /\ session'.accum = IF fits THEN session.accum \o chunk ELSE session.accum
        /\ session'.overruns = IF fits THEN session.overruns ELSE CountUp(session.overruns)
        /\ session'.ring = session.ring /\ session'.render = session.render
    BY <2>1 DEF SessionFits, HasSession, LinuxHolds
  <2>4. LinuxHolds' /\ (fits <=> Len(session'.accum) - Len(session.accum) >= n)
    <3>1. /\ session.accum \in Seq(Units(Quiet, {session.runs})) /\ Len(session.accum) \in Nat
          /\ Len(session.accum) <= L!AccumUnits
      BY DEF LinuxHolds
    <3>2. /\ session.accum \o chunk \in Seq(Units(Quiet, {session.runs}))
          /\ Len(session.accum \o chunk) = Len(session.accum) + n
      BY <2>2, <3>1
    <3>3. n >= 1
      BY BufferBounds DEF L!Chunks
    <3>4. CASE fits
      BY <2>2, <2>3, <3>1, <3>2, <3>4 DEF LinuxHolds
    <3>5. CASE ~fits
      BY <2>2, <2>3, <3>1, <3>3, <3>5 DEF LinuxHolds
    <3>. QED
      BY <3>4, <3>5
  <2>5. SessionGoesOn
    BY <2>1, <2>2, <2>3, <2>4 DEF SessionGoesOn, LossCounted, SessionFits, L!Chunks
  <2>. QED
    BY <1>1, <2>4, <2>5, GoingOnFits DEF L!CaptureProcess, ReaderIsQuiet
<1>2. CASE L!ReadBegins
  <2>1. /\ UNCHANGED <<session, lost>>
        /\ reader'.frame = <<>> /\ {"pc", "frame", "ref"} \subseteq DOMAIN reader'
    BY <1>2 DEF L!ReadBegins, L!NoRead
  <2>. QED
    BY <2>1 DEF SessionFits, HasSession, LinuxHolds, ReaderIsQuiet
<1>3. CASE \E muted \in Mutes : L!SetMuted("mic", muted)
  <2>1. /\ UNCHANGED <<reader, lost>> /\ HasSession' /\ BuffersUntouched
        /\ session'.running = session.running /\ session'.mic \in BOOLEAN
        /\ session'.output = session.output /\ session'.underruns = session.underruns
        /\ session'.overruns = session.overruns /\ session'.events = session.events
    BY <1>3, BoundsAssumption
    DEF L!SetMuted, L!Set, SessionFits, HasSession, LinuxHolds, BuffersUntouched
  <2>2. SessionGoesOn
    BY <2>1 DEF SessionGoesOn, LossCounted, SessionFits, BuffersUntouched
  <2>. QED
    BY <2>1, <2>2, GoingOnFits, UntouchedKeepsHolds DEF ReaderIsQuiet
<1>. QED
  BY <1>1, <1>2, <1>3 DEF L!CaptureSide

LEMMA LinuxReadFits ==
  ASSUME LinuxFits, L!CaptureRead
  PROVE  /\ LinuxFits'
         /\ reader'.frame \notin {reader.frame, <<>>} =>
              /\ Len(reader'.frame) = FrameUnits
              /\ \A i \in 1 .. FrameUnits : reader'.frame[i].run = session.runs
<1>. USE DEF LinuxFits
<1>1. CASE L!ReadTakes
  <2>. DEFINE frame == Oldest(FrameUnits, session.accum)
              rest == Behind(FrameUnits, session.accum)
  <2>1. /\ session' = [session EXCEPT !["accum"] = rest]
        /\ Len(session.accum) >= FrameUnits /\ lost' = lost
        /\ {"pc", "frame", "ref"} \subseteq DOMAIN reader' /\ reader'.frame = frame
    BY <1>1, LinuxBuffersAre DEF L!ReadTakes, L!Set
  <2>2. /\ frame \in Seq(Units(Quiet, {session.runs})) /\ Len(frame) = FrameUnits
        /\ rest \in Seq(Units(Quiet, {session.runs})) /\ Len(rest) <= Len(session.accum)
    <3>1. FrameUnits \in Nat /\ session.accum \in Seq(Units(Quiet, {session.runs}))
      BY BufferBounds DEF LinuxHolds
    <3>2. /\ frame \in Seq(Units(Quiet, {session.runs}))
          /\ Len(frame) = IF Len(session.accum) < FrameUnits THEN Len(session.accum) ELSE FrameUnits
      BY <3>1, OldestIsPrefix
    <3>3. /\ rest \in Seq(Units(Quiet, {session.runs}))
          /\ Len(rest) <= Len(session.accum)
      BY <3>1, BehindIsRest
    <3>. HIDE DEF frame, rest
    <3>. QED
      BY <2>1, <3>1, <3>2, <3>3
  <2>. HIDE DEF frame, rest
  <2>3. /\ HasSession' /\ {"accum", "ring", "render"} \subseteq DOMAIN session'
        /\ session'.runs = session.runs /\ session'.running = session.running
        /\ session'.mic = session.mic /\ session'.output = session.output
        /\ session'.underruns = session.underruns /\ session'.overruns = session.overruns
        /\ session'.events = session.events /\ session'.accum = rest
        /\ session'.ring = session.ring /\ session'.render = session.render
    BY <2>1 DEF SessionFits, HasSession, LinuxHolds
  <2>4. SessionGoesOn
    BY <2>1, <2>3 DEF SessionGoesOn, LossCounted, SessionFits
  <2>5. LinuxHolds'
    BY <2>2, <2>3, LinuxBuffersAre DEF LinuxHolds
  <2>6. /\ frame \in Seq(Units(Quiet, Nat))
        /\ \A i \in 1 .. FrameUnits : frame[i].run = session.runs
    <3>1. Units(Quiet, {session.runs}) \subseteq Units(Quiet, Nat)
      BY DEF Units, SessionFits
    <3>2. \A u \in Units(Quiet, {session.runs}) : u.run = session.runs
      BY DEF Units
    <3>3. \A i \in 1 .. FrameUnits : frame[i] \in Units(Quiet, {session.runs})
      BY <2>2
    <3>. QED
      BY <2>2, <3>1, <3>2, <3>3, MoreUnits
  <2>. QED
    BY <2>1, <2>2, <2>4, <2>5, <2>6, GoingOnFits DEF ReaderIsQuiet
<1>2. CASE L!ReadReturns
  <2>1. UNCHANGED <<session, lost>> /\ reader' = L!NoRead
    BY <1>2 DEF L!ReadReturns
  <2>. QED
    BY <2>1 DEF L!NoRead, SessionFits, HasSession, LinuxHolds, ReaderIsQuiet
<1>3. CASE L!ReadCancels
  <2>. DEFINE half == FrameUnits \div 2
              rest == Behind(half, session.render)
  <2>1. /\ session' = [session EXCEPT !["render"] = rest] /\ lost' = lost
        /\ {"pc", "frame", "ref"} \subseteq DOMAIN reader' /\ reader'.frame = reader.frame
    BY <1>3, LinuxBuffersAre DEF L!ReadCancels, L!Set, ReaderIsQuiet
  <2>2. rest \in Seq(Units(Quiet, Nat)) /\ Len(rest) <= Len(session.render)
    <3>1. half \in Nat /\ session.render \in Seq(Units(Quiet, Nat))
      BY BufferBounds DEF LinuxHolds
    <3>. HIDE DEF half
    <3>. QED
      BY <3>1, BehindIsRest
  <2>. HIDE DEF rest
  <2>3. /\ HasSession' /\ {"accum", "ring", "render"} \subseteq DOMAIN session'
        /\ session'.runs = session.runs /\ session'.running = session.running
        /\ session'.mic = session.mic /\ session'.output = session.output
        /\ session'.underruns = session.underruns /\ session'.overruns = session.overruns
        /\ session'.events = session.events /\ session'.accum = session.accum
        /\ session'.ring = session.ring /\ session'.render = rest
    BY <2>1 DEF SessionFits, HasSession, LinuxHolds
  <2>4. SessionGoesOn
    BY <2>1, <2>3 DEF SessionGoesOn, LossCounted, SessionFits
  <2>5. LinuxHolds'
    BY <2>2, <2>3, LinuxBuffersAre DEF LinuxHolds
  <2>. QED
    BY <2>1, <2>4, <2>5, GoingOnFits DEF ReaderIsQuiet
<1>. QED
  BY <1>1, <1>2, <1>3 DEF L!CaptureRead

LEMMA LinuxPlaybackFits ==
  ASSUME LinuxFits, L!PlaybackSide PROVE LinuxFits' /\ reader' = reader
<1>. USE DEF LinuxFits
<1>1. CASE L!PlaybackProcess
  <2>. PICK want \in L!Chunks :
         session' = [session EXCEPT
           !.ring = Behind(want, @),
           !.underruns = IF Len(session.ring) < want THEN CountUp(@) ELSE @]
    BY <1>1, LinuxBuffersAre DEF L!PlaybackProcess
  <2>1. want \in Nat /\ UNCHANGED <<reader, lost>>
    BY <1>1, BufferBounds DEF L!Chunks, L!PlaybackProcess
  <2>2. /\ HasSession' /\ {"accum", "ring", "render"} \subseteq DOMAIN session'
        /\ session'.runs = session.runs /\ session'.running = session.running
        /\ session'.mic = session.mic /\ session'.output = session.output
        /\ session'.underruns \in {session.underruns, CountUp(session.underruns)}
        /\ session'.overruns = session.overruns
        /\ session'.events = session.events /\ session'.accum = session.accum
        /\ session'.ring = Behind(want, session.ring) /\ session'.render = session.render
    BY DEF SessionFits, HasSession, LinuxHolds
  <2>3. SessionGoesOn
    BY <2>1, <2>2 DEF SessionGoesOn, LossCounted, SessionFits
  <2>4. LinuxHolds'
    BY <2>1, <2>2, BehindIsRest, LinuxBuffersAre DEF LinuxHolds
  <2>. QED
    BY <2>1, <2>3, <2>4, GoingOnFits DEF ReaderIsQuiet
<1>2. CASE L!PlaybackWrite
  <2>1. CASE UNCHANGED <<session, lost>>
    BY <1>2, <2>1 DEF L!PlaybackWrite, SessionFits, HasSession, LinuxHolds, ReaderIsQuiet
  <2>2. CASE ~UNCHANGED <<session, lost>>
    <3>. DEFINE frame == Heard(FrameUnits, "speech", session.runs)
                fits == Len(session.ring) + FrameUnits <= L!RingUnits
                refers == /\ fits /\ session.chain = "linked_apm"
                          /\ Len(session.render) + FrameUnits <= L!RingUnits
    <3>1. /\ session' = [session EXCEPT
               !.ring = IF fits THEN @ \o frame ELSE @,
               !.render = IF refers THEN @ \o frame ELSE @,
               !.overruns = IF fits THEN @ ELSE CountUp(@)]
          /\ lost' = IF Len(session'.ring) - Len(session.ring) < FrameUnits
                     THEN CountUp(lost) ELSE lost
          /\ reader' = reader
      BY <1>2, <2>2, LinuxBuffersAre DEF L!PlaybackWrite
    <3>2. frame \in Seq(Units(Quiet, Nat)) /\ Len(frame) = FrameUnits
      <4>1. FrameUnits \in Nat /\ session.runs \in Nat
        BY BufferBounds DEF SessionFits
      <4>. QED
        BY <4>1, ChunkIsQuiet
    <3>. HIDE DEF frame
    <3>3. /\ HasSession' /\ {"accum", "ring", "render"} \subseteq DOMAIN session'
          /\ session'.runs = session.runs /\ session'.running = session.running
          /\ session'.mic = session.mic /\ session'.output = session.output
          /\ session'.underruns = session.underruns
          /\ session'.overruns = IF fits THEN session.overruns ELSE CountUp(session.overruns)
          /\ session'.events = session.events /\ session'.accum = session.accum
          /\ session'.ring = IF fits THEN session.ring \o frame ELSE session.ring
          /\ session'.render = IF refers THEN session.render \o frame ELSE session.render
      BY <3>1 DEF SessionFits, HasSession, LinuxHolds
    <3>4. LinuxHolds' /\ (fits <=> Len(session'.ring) - Len(session.ring) >= FrameUnits)
      BY <3>2, <3>3, LinuxBuffersAre, BufferBounds DEF LinuxHolds
    <3>5. SessionGoesOn
      BY <3>1, <3>2, <3>3, <3>4, BufferBounds DEF SessionGoesOn, LossCounted, SessionFits, LinuxHolds
    <3>. QED
      BY <3>1, <3>4, <3>5, GoingOnFits DEF ReaderIsQuiet
  <2>. QED
    BY <2>1, <2>2
<1>3. CASE \E muted \in Mutes : L!SetMuted("output", muted)
  <2>1. /\ UNCHANGED <<reader, lost>> /\ HasSession' /\ BuffersUntouched
        /\ session'.running = session.running /\ session'.mic = session.mic
        /\ session'.output \in BOOLEAN /\ session'.underruns = session.underruns
        /\ session'.overruns = session.overruns /\ session'.events = session.events
    BY <1>3, BoundsAssumption
    DEF L!SetMuted, L!Set, SessionFits, HasSession, LinuxHolds, BuffersUntouched
  <2>2. SessionGoesOn
    BY <2>1 DEF SessionGoesOn, LossCounted, SessionFits, BuffersUntouched
  <2>. QED
    BY <2>1, <2>2, GoingOnFits, UntouchedKeepsHolds DEF ReaderIsQuiet
<1>. QED
  BY <1>1, <1>2, <1>3 DEF L!PlaybackSide

(* A step that changes the queue of events alone, of what is spoken of here. *)
EventsChange(events) ==
    /\ HasSession' /\ UNCHANGED lost
    /\ session'.runs = session.runs /\ session'.running = session.running
    /\ session'.mic = session.mic /\ session'.output = session.output
    /\ session'.underruns = session.underruns /\ session'.overruns = session.overruns
    /\ session'.events = events

LEMMA EventsChangeFits ==
  ASSUME SessionFits, NEW events, EventsChange(events),
         IsSequence(events), Len(events) <= EventQueue
  PROVE  SessionFits'
BY DEF SessionFits, EventsChange, IsSequence

LEMMA QueueStaysBounded ==
  ASSUME SessionFits
  PROVE  /\ \A e : /\ IsSequence(PushEvent(session.events, e))
                   /\ Len(PushEvent(session.events, e)) <= EventQueue
         /\ session.events # <<>> =>
              IsSequence(Tail(session.events)) /\ Len(Tail(session.events)) <= EventQueue
<1>1. IsSequence(session.events) /\ Len(session.events) <= EventQueue
  BY DEF SessionFits
<1>2. Len(session.events) \in Nat /\ EventQueue \in Nat
  BY <1>1, BufferBounds DEF IsSequence
<1>3. session.events # <<>> =>
        IsSequence(Tail(session.events)) /\ Len(Tail(session.events)) <= Len(session.events)
  BY <1>1, PolledKeepsNewest
<1>4. IsSequence(Tail(session.events)) => Len(Tail(session.events)) \in Nat
  BY DEF IsSequence
<1>. QED
  BY <1>1, <1>2, <1>3, <1>4, PushedIsNewest

LEMMA LinuxRoutesFit ==
  ASSUME LinuxFits, L!RouteSide PROVE LinuxFits' /\ reader' = reader
<1>. USE DEF LinuxFits
<1>1. ASSUME NEW events, EventsChange(events), BuffersUntouched, reader' = reader,
             IsSequence(events), Len(events) <= EventQueue
      PROVE  LinuxFits'
  BY <1>1, EventsChangeFits, UntouchedKeepsHolds DEF ReaderIsQuiet
<1>2. \A mask : /\ IsSequence(L!News(mask)) /\ Len(L!News(mask)) <= EventQueue
  BY QueueStaysBounded, LinuxBuffersAre DEF L!News, SessionFits
<1>3. CASE L!RegistryGlobalRemove
  <2>1. EventsChange(L!News(session.mask)) /\ BuffersUntouched /\ reader' = reader
    BY <1>3 DEF L!RegistryGlobalRemove, EventsChange, SessionFits, HasSession, LinuxHolds,
                BuffersUntouched
  <2>. QED
    BY <1>1, <1>2, <2>1
<1>4. CASE L!PollEvent
  <2>1. /\ EventsChange(Tail(session.events)) /\ BuffersUntouched /\ reader' = reader
        /\ session.events # <<>>
    BY <1>4 DEF L!PollEvent, L!Set, EventsChange, SessionFits, HasSession, LinuxHolds,
                BuffersUntouched
  <2>. QED
    BY <1>1, <2>1, QueueStaysBounded
<1>5. CASE \E route \in Routes : L!RegistryGlobal(route)
  <2>. PICK route \in Routes : L!RegistryGlobal(route)
    BY <1>5
  <2>. DEFINE mask == session.mask \cup {route}
  <2>1. EventsChange(L!News(mask)) /\ BuffersUntouched /\ reader' = reader
    BY DEF L!RegistryGlobal, EventsChange, SessionFits, HasSession, LinuxHolds,
           BuffersUntouched
  <2>. HIDE DEF mask
  <2>. QED
    BY <1>1, <1>2, <2>1
<1>6. CASE \E route \in Routes \cup {L!UnknownRoute} : L!SetRoute(route)
  BY <1>6 DEF L!SetRoute, SessionFits, HasSession, LinuxHolds, ReaderIsQuiet
<1>. QED
  BY <1>3, <1>4, <1>5, <1>6 DEF L!RouteSide

(* A frame that is handed out is whole and of the latest start. *)
FrameIsWhole ==
    reader'.frame \notin {reader.frame, <<>>} =>
      /\ Len(reader'.frame) = FrameUnits
      /\ \A i \in 1 .. FrameUnits : reader'.frame[i].run = session.runs

LEMMA LinuxStepFits ==
  ASSUME LinuxFits, LinuxStep PROVE LinuxFits' /\ FrameIsWhole
BY LinuxLifecycleFits, LinuxCaptureFits, LinuxReadFits, LinuxPlaybackFits, LinuxRoutesFit
DEF LinuxStep, FrameIsWhole

(* The flags and counters of a session that is closed, and of one that is
   started *)
LEMMA ClosedSessionFits ==
  ASSUME SessionFits, HasSession', session'.runs = session.runs,
         session'.running \in BOOLEAN, session'.mic \in BOOLEAN, session'.output \in BOOLEAN,
         session'.underruns = 0, session'.overruns = 0, session'.events = <<>>, lost' = 0
  PROVE  SessionFits'
BY BufferBounds, EmptyIsSequence DEF SessionFits

LEMMA StartedSessionFits ==
  ASSUME SessionFits, HasSession', session'.runs = session.runs + 1, session.runs < MaxStarts,
         session'.running \in BOOLEAN, session'.mic = session.mic,
         session'.output = session.output, session'.underruns = session.underruns,
         session'.overruns = session.overruns, session'.events = session.events, lost' = lost
  PROVE  SessionFits'
BY BufferBounds DEF SessionFits

-----------------------------------------------------------------------------
(* Apple's unit *)

LEMMA AppleBuffersAre ==
  /\ \A n, s : A!Behind(n, s) = Behind(n, s) /\ A!Oldest(n, s) = Oldest(n, s)
               /\ A!Newest(n, s) = Newest(n, s)
  /\ \A n, sound, run : A!Heard(n, sound, run) = Heard(n, sound, run)
  /\ \A n, run : A!Silence(n, run) = Silence(n, run)
  /\ \A n : A!CountUp(n) = CountUp(n)
  /\ \A q, e : A!PushEvent(q, e) = PushEvent(q, e)
  /\ A!CaptureUnits \in Nat /\ A!PlaybackUnits \in Nat
  /\ FrameUnits <= A!CaptureUnits /\ FrameUnits <= A!PlaybackUnits
<1>1. \A n, s : A!Behind(n, s) = Behind(n, s) /\ A!Oldest(n, s) = Oldest(n, s)
                /\ A!Newest(n, s) = Newest(n, s)
  BY DEF A!Behind, Behind, A!Oldest, Oldest, A!Newest, Newest
<1>2. \A n, sound, run : A!Heard(n, sound, run) = Heard(n, sound, run)
  BY DEF A!Heard, Heard, A!Unit, Unit
<1>3. \A n, run : A!Silence(n, run) = Silence(n, run)
  BY DEF A!Silence, Silence, A!Unit, Unit
<1>4. \A n : A!CountUp(n) = CountUp(n)
  BY DEF A!CountUp, CountUp
<1>5. \A q, e : A!PushEvent(q, e) = PushEvent(q, e)
  BY DEF A!PushEvent, PushEvent
<1>6. /\ A!CaptureUnits \in Nat /\ A!PlaybackUnits \in Nat
      /\ FrameUnits <= A!CaptureUnits /\ FrameUnits <= A!PlaybackUnits
  BY BufferBounds DEF A!CaptureUnits, A!PlaybackUnits
<1>. QED
  BY <1>1, <1>2, <1>3, <1>4, <1>5, <1>6

AppleHolds ==
    /\ {"cap", "pb"} \subseteq DOMAIN session
    /\ session.cap \in Seq(Units(Sounds, {session.runs})) /\ Len(session.cap) <= A!CaptureUnits
    /\ session.pb \in Seq(Units(Sounds, {session.runs})) /\ Len(session.pb) <= A!PlaybackUnits

ReaderHasFrame == {"pc", "frame"} \subseteq DOMAIN reader

AppleFits == SessionFits /\ AppleHolds /\ ReaderHasFrame

(* A ring that is pushed to keeps the newest units that fit; it grows by all
   of them unless some are dropped. *)
LEMMA PushedFits ==
  ASSUME NEW S, NEW ring \in Seq(S), NEW units \in Seq(S), NEW cap \in Nat,
         Len(ring) <= cap
  PROVE  /\ A!Pushed(ring, units, cap) \in Seq(S) /\ Len(A!Pushed(ring, units, cap)) <= cap
         /\ A!Drops(ring, Len(units), cap) <=>
              Len(A!Pushed(ring, units, cap)) - Len(ring) < Len(units)
<1>. DEFINE both == ring \o units
<1>1. both \in Seq(S) /\ Len(both) = Len(ring) + Len(units) /\ Len(ring) \in Nat /\ Len(units) \in Nat
  OBVIOUS
<1>2. A!Pushed(ring, units, cap) = Newest(cap, both)
  BY AppleBuffersAre DEF A!Pushed
<1>. HIDE DEF both
<1>3. /\ Newest(cap, both) \in Seq(S)
      /\ Len(Newest(cap, both)) = IF Len(both) > cap THEN cap ELSE Len(both)
  BY <1>1, NewestIsSuffix
<1>. QED
  BY <1>1, <1>2, <1>3 DEF A!Drops

LEMMA HeardIsSound ==
  ASSUME NEW n \in Nat, NEW run, NEW sound \in Sounds
  PROVE  /\ Heard(n, sound, run) \in Seq(Units(Sounds, {run})) /\ Len(Heard(n, sound, run)) = n
         /\ Silence(n, run) \in Seq(Units(Sounds, {run})) /\ Len(Silence(n, run)) = n
<1>1. /\ Units({sound}, {run}) \subseteq Units(Sounds, {run})
      /\ Units({"silence"}, {run}) \subseteq Units(Sounds, {run})
  BY DEF Units, Sounds
<1>. QED
  BY <1>1, HeardIsSequence, MoreUnits

LEMMA AppleLifecycleFits ==
  ASSUME AppleFits, A!Lifecycle PROVE AppleFits' /\ reader' = reader
<1>. USE DEF AppleFits
<1>1. CASE UNCHANGED <<session, reader, lost>>
  BY <1>1 DEF SessionFits, HasSession, AppleHolds, ReaderHasFrame
<1>2. CASE /\ UNCHANGED <<reader, lost>> /\ HasSession'
           /\ {"cap", "pb"} \subseteq DOMAIN session'
           /\ session'.runs = session.runs /\ session'.cap = session.cap
           /\ session'.pb = session.pb
           /\ session'.running \in BOOLEAN /\ session'.mic = session.mic
           /\ session'.output = session.output /\ session'.underruns = session.underruns
           /\ session'.overruns = session.overruns /\ session'.events = session.events
  <2>1. SessionGoesOn
    BY <1>2 DEF SessionGoesOn, LossCounted, SessionFits
  <2>. QED
    BY <1>2, <2>1, GoingOnFits DEF AppleHolds, ReaderHasFrame
<1>3. CASE A!OpenRefused \/ A!OpenListens \/ A!OpenMakesUnit \/ A!StopsUnit \/ A!CloseUnlistens
  BY <1>1, <1>3 DEF A!OpenRefused, A!OpenListens, A!OpenMakesUnit, A!StopsUnit, A!CloseUnlistens
<1>4. CASE A!OpenHasPlatform
  BY <1>2, <1>4 DEF A!OpenHasPlatform, A!Set, SessionFits, HasSession, AppleHolds
<1>5. CASE A!Start
  <2>1. CASE session.running
    BY <1>1, <1>5, <2>1 DEF A!Start
  <2>2. CASE ~session.running
    <3>1. /\ session' = [session EXCEPT !.running = TRUE, !.runs = @ + 1,
                                        !.cap = <<>>, !.pb = <<>>]
          /\ session.runs < MaxStarts /\ UNCHANGED <<reader, lost>>
      BY <1>5, <2>2 DEF A!Start
    <3>2. /\ HasSession' /\ session'.runs = session.runs + 1 /\ session'.running \in BOOLEAN
          /\ session'.mic = session.mic /\ session'.output = session.output
          /\ session'.underruns = session.underruns /\ session'.overruns = session.overruns
          /\ session'.events = session.events
      BY <3>1 DEF SessionFits, HasSession
    <3>3. AppleHolds'
      BY <3>1, AppleBuffersAre DEF AppleHolds
    <3>. QED
      BY <3>1, <3>2, <3>3, StartedSessionFits DEF ReaderHasFrame
  <2>. QED
    BY <2>1, <2>2
<1>6. CASE A!StartsUnit
  BY <1>1, <1>2, <1>6 DEF A!StartsUnit, A!Set, SessionFits, HasSession, AppleHolds
<1>7. CASE A!Stop
  BY <1>2, <1>7 DEF A!Stop, A!Set, SessionFits, HasSession, AppleHolds
<1>8. CASE A!CloseFrees
  <2>1. session' = [A!Closed EXCEPT !.runs = session.runs] /\ lost' = 0 /\ reader' = reader
    BY <1>8 DEF A!CloseFrees
  <2>2. /\ HasSession' /\ session'.runs = session.runs
        /\ session'.running \in BOOLEAN /\ session'.mic \in BOOLEAN /\ session'.output \in BOOLEAN
        /\ session'.underruns = 0 /\ session'.overruns = 0 /\ session'.events = <<>>
    BY <2>1 DEF A!Closed, HasSession
  <2>3. AppleHolds'
    BY <2>1, AppleBuffersAre DEF A!Closed, AppleHolds
  <2>. QED
    BY <2>1, <2>2, <2>3, ClosedSessionFits DEF ReaderHasFrame
<1>. QED
  BY <1>3, <1>4, <1>5, <1>6, <1>7, <1>8
  DEF A!Lifecycle, A!OpenRefused, A!OpenListens, A!OpenHasPlatform, A!OpenMakesUnit, A!Start,
      A!StartsUnit, A!Stop, A!StopsUnit, A!CloseUnlistens, A!CloseFrees

LEMMA AppleMuteFits ==
  ASSUME AppleFits, NEW side \in {"mic", "output"}, NEW muted \in Mutes, A!SetMuted(side, muted)
  PROVE  AppleFits' /\ reader' = reader
<1>1. /\ UNCHANGED <<reader, lost>> /\ HasSession' /\ {"cap", "pb"} \subseteq DOMAIN session'
      /\ session'.running = session.running /\ session'.mic \in BOOLEAN
      /\ session'.output \in BOOLEAN /\ session'.underruns = session.underruns
      /\ session'.overruns = session.overruns /\ session'.events = session.events
      /\ session'.runs = session.runs /\ session'.cap = session.cap /\ session'.pb = session.pb
  BY BoundsAssumption DEF A!SetMuted, A!Set, AppleFits, SessionFits, HasSession, AppleHolds
<1>2. SessionGoesOn
  BY <1>1 DEF SessionGoesOn, LossCounted, AppleFits, SessionFits
<1>. QED
  BY <1>1, <1>2, GoingOnFits DEF AppleFits, AppleHolds, ReaderHasFrame

(* The two callbacks of the unit *)
LEMMA InputCallbackFits ==
  ASSUME AppleFits, A!InputCallback PROVE AppleFits' /\ reader' = reader
<1>. USE DEF AppleFits
<1>1. CASE A!Set("overruns", A!CountUp(session.overruns)) /\ lost' = A!CountUp(lost)
  <2>1. /\ HasSession' /\ {"cap", "pb"} \subseteq DOMAIN session'
        /\ session'.running = session.running /\ session'.mic = session.mic
        /\ session'.output = session.output /\ session'.underruns = session.underruns
        /\ session'.overruns = CountUp(session.overruns) /\ session'.events = session.events
        /\ session'.runs = session.runs /\ session'.cap = session.cap /\ session'.pb = session.pb
    BY <1>1, AppleBuffersAre DEF A!Set, SessionFits, HasSession, AppleHolds
  <2>2. SessionGoesOn
    BY <1>1, <2>1, AppleBuffersAre DEF SessionGoesOn, LossCounted, SessionFits
  <2>. QED
    BY <2>1, <2>2, GoingOnFits DEF AppleHolds, ReaderHasFrame, A!InputCallback
<1>2. CASE ~(A!Set("overruns", A!CountUp(session.overruns)) /\ lost' = A!CountUp(lost))
  <2>0. PICK n \in 1 .. FrameUnits + 1 :
           LET heard == A!Heard(n, IF session.mic THEN "aside" ELSE "speech", session.runs) IN
           /\ session' = IF ~session.running THEN session
                ELSE [session EXCEPT !.cap = A!Pushed(@, heard, A!CaptureUnits),
                        !.overruns = IF A!Drops(session.cap, n, A!CaptureUnits)
                                     THEN A!CountUp(@) ELSE @]
           /\ lost' = IF session.running /\ Len(session'.cap) < Len(session.cap) + n
                      THEN A!CountUp(lost) ELSE lost
    BY <1>2, Zenon DEF A!InputCallback
  <2>. DEFINE heard == Heard(n, IF session.mic THEN "aside" ELSE "speech", session.runs)
              cap == A!Pushed(session.cap, heard, A!CaptureUnits)
  <2>1. CASE ~session.running
    BY <2>0, <2>1 DEF SessionFits, HasSession, AppleHolds, ReaderHasFrame, A!InputCallback
  <2>2. CASE session.running
    <3>1. /\ session' = [session EXCEPT !.cap = cap,
               !.overruns = IF A!Drops(session.cap, n, A!CaptureUnits) THEN CountUp(@) ELSE @]
          /\ lost' = IF Len(session'.cap) < Len(session.cap) + n THEN CountUp(lost) ELSE lost
      BY <2>0, <2>2, AppleBuffersAre
    <3>2. heard \in Seq(Units(Sounds, {session.runs})) /\ Len(heard) = n /\ n \in Nat
      <4>1. n \in Nat /\ (IF session.mic THEN "aside" ELSE "speech") \in Sounds
        BY BufferBounds DEF Sounds
      <4>. QED
        BY <4>1, HeardIsSound
    <3>. HIDE DEF heard
    <3>3. /\ session.cap \in Seq(Units(Sounds, {session.runs})) /\ Len(session.cap) \in Nat
          /\ Len(session.cap) <= A!CaptureUnits /\ A!CaptureUnits \in Nat
      BY AppleBuffersAre DEF AppleHolds
    <3>4. /\ cap \in Seq(Units(Sounds, {session.runs})) /\ Len(cap) <= A!CaptureUnits
          /\ A!Drops(session.cap, n, A!CaptureUnits) <=> Len(cap) - Len(session.cap) < n
      BY <3>2, <3>3, PushedFits
    <3>. HIDE DEF cap
    <3>5. /\ HasSession' /\ {"cap", "pb"} \subseteq DOMAIN session'
          /\ session'.running = session.running /\ session'.mic = session.mic
          /\ session'.output = session.output /\ session'.underruns = session.underruns
          /\ session'.events = session.events
          /\ session'.runs = session.runs /\ session'.cap = cap /\ session'.pb = session.pb
          /\ session'.overruns = IF A!Drops(session.cap, n, A!CaptureUnits)
                                 THEN CountUp(session.overruns) ELSE session.overruns
      BY <3>1 DEF SessionFits, HasSession, AppleHolds
    <3>6. Len(cap) \in Nat
      BY <3>4
    <3>7. LossCounted
      BY <3>1, <3>2, <3>3, <3>4, <3>5, <3>6 DEF LossCounted
    <3>8. SessionGoesOn
      BY <3>5, <3>7 DEF SessionGoesOn, SessionFits
    <3>9. AppleHolds'
      BY <3>4, <3>5 DEF AppleHolds
    <3>. QED
      BY <3>8, <3>9, GoingOnFits DEF ReaderHasFrame, A!InputCallback
  <2>. QED
    BY <2>1, <2>2 DEF SessionFits
<1>. QED
  BY <1>1, <1>2

LEMMA RenderCallbackFits ==
  ASSUME AppleFits, A!RenderCallback PROVE AppleFits' /\ reader' = reader
<1>. USE DEF AppleFits
<1>0. PICK want \in 1 .. FrameUnits + 1 :
        LET got == IF session.running THEN Len(A!Oldest(want, session.pb)) ELSE 0 IN
        session' = [session EXCEPT
          !.pb = A!Behind(got, @),
          !.underruns = IF got < want THEN A!CountUp(@) ELSE @]
  BY DEF A!RenderCallback
<1>. DEFINE got == IF session.running THEN Len(Oldest(want, session.pb)) ELSE 0
            rest == Behind(got, session.pb)
<1>1. session' = [session EXCEPT !.pb = rest,
                    !.underruns = IF got < want THEN CountUp(@) ELSE @]
  BY <1>0, AppleBuffersAre
<1>2. session.pb \in Seq(Units(Sounds, {session.runs})) /\ want \in Nat
  BY BufferBounds DEF AppleHolds
<1>3. got \in Nat
  BY <1>2, OldestIsPrefix
<1>. HIDE DEF got
<1>4. rest \in Seq(Units(Sounds, {session.runs})) /\ Len(rest) <= Len(session.pb)
  BY <1>2, <1>3, BehindIsRest
<1>. HIDE DEF rest
<1>5. /\ HasSession' /\ {"cap", "pb"} \subseteq DOMAIN session'
      /\ session'.running = session.running /\ session'.mic = session.mic
      /\ session'.output = session.output /\ session'.overruns = session.overruns
      /\ session'.underruns \in {session.underruns, CountUp(session.underruns)}
      /\ session'.events = session.events
      /\ session'.runs = session.runs /\ session'.cap = session.cap /\ session'.pb = rest
  BY <1>1 DEF SessionFits, HasSession, AppleHolds
<1>6. UNCHANGED <<reader, lost>>
  BY DEF A!RenderCallback
<1>7. SessionGoesOn
  BY <1>5, <1>6 DEF SessionGoesOn, LossCounted, SessionFits
<1>8. AppleHolds'
  BY <1>4, <1>5, AppleBuffersAre DEF AppleHolds
<1>. QED
  BY <1>6, <1>7, <1>8, GoingOnFits DEF ReaderHasFrame

(* What a reader takes is a whole frame; what stays behind is shorter. *)
LEMMA TakenFrame ==
  ASSUME NEW sounds, NEW run \in Nat, NEW buffer \in Seq(Units(sounds, {run})),
         Len(buffer) >= FrameUnits
  PROVE  /\ Oldest(FrameUnits, buffer) \in Seq(Units(sounds, {run}))
         /\ Len(Oldest(FrameUnits, buffer)) = FrameUnits
         /\ \A i \in 1 .. FrameUnits : Oldest(FrameUnits, buffer)[i].run = run
         /\ Behind(FrameUnits, buffer) \in Seq(Units(sounds, {run}))
         /\ Len(Behind(FrameUnits, buffer)) <= Len(buffer)
<1>. DEFINE frame == Oldest(FrameUnits, buffer)
<1>1. FrameUnits \in Nat
  BY BufferBounds
<1>2. /\ frame \in Seq(Units(sounds, {run}))
      /\ Len(frame) = IF Len(buffer) < FrameUnits THEN Len(buffer) ELSE FrameUnits
  BY <1>1, OldestIsPrefix
<1>3. /\ Behind(FrameUnits, buffer) \in Seq(Units(sounds, {run}))
      /\ Len(Behind(FrameUnits, buffer)) <= Len(buffer)
  BY <1>1, BehindIsRest
<1>. HIDE DEF frame
<1>4. Len(frame) = FrameUnits
  BY <1>1, <1>2
<1>5. \A i \in 1 .. FrameUnits : frame[i] \in Units(sounds, {run})
  BY <1>2, <1>4
<1>6. \A u \in Units(sounds, {run}) : u.run = run
  BY DEF Units
<1>7. \A i \in 1 .. FrameUnits : frame[i].run = run
  BY <1>5, <1>6
<1>. QED
  BY <1>2, <1>3, <1>4, <1>7 DEF frame

LEMMA SilentFrame ==
  ASSUME NEW run \in Nat
  PROVE  /\ Silence(FrameUnits, run) \in Seq(Units({"silence"}, {run}))
         /\ Len(Silence(FrameUnits, run)) = FrameUnits
         /\ \A i \in 1 .. FrameUnits : Silence(FrameUnits, run)[i].run = run
<1>1. FrameUnits \in Nat
  BY BufferBounds
<1>2. Unit("silence", run).run = run
  BY DEF Unit
<1>. QED
  BY <1>1, <1>2, HeardIsSequence DEF Silence

LEMMA AppleReadFits ==
  ASSUME AppleFits, A!CaptureRead PROVE AppleFits' /\ FrameIsWhole
<1>. USE DEF AppleFits
<1>1. CASE A!ReadPops
  <2>. DEFINE rest == Behind(FrameUnits, session.cap)
  <2>1. /\ session' = [session EXCEPT !["cap"] = rest] /\ lost' = lost
        /\ Len(session.cap) >= FrameUnits
        /\ reader' = [pc |-> "took",
             frame |-> IF session.mic THEN Silence(FrameUnits, session.runs)
                       ELSE Oldest(FrameUnits, session.cap)]
    BY <1>1, AppleBuffersAre DEF A!ReadPops, A!Set
  <2>2. session.runs \in Nat /\ session.cap \in Seq(Units(Sounds, {session.runs}))
    BY DEF SessionFits, AppleHolds
  <2>3. FrameIsWhole
    <3>1. CASE session.mic
      <4>1. reader'.frame = Silence(FrameUnits, session.runs)
        BY <2>1, <3>1
      <4>. QED
        BY <2>2, <4>1, SilentFrame DEF FrameIsWhole
    <3>2. CASE ~session.mic
      <4>1. reader'.frame = Oldest(FrameUnits, session.cap)
        BY <2>1, <3>2
      <4>. QED
        BY <2>1, <2>2, <4>1, TakenFrame DEF FrameIsWhole
    <3>. QED
      BY <3>1, <3>2
  <2>4. rest \in Seq(Units(Sounds, {session.runs})) /\ Len(rest) <= Len(session.cap)
    BY <2>1, <2>2, TakenFrame
  <2>. HIDE DEF rest
  <2>5. /\ HasSession' /\ {"cap", "pb"} \subseteq DOMAIN session'
        /\ session'.running = session.running /\ session'.mic = session.mic
        /\ session'.output = session.output /\ session'.underruns = session.underruns
        /\ session'.overruns = session.overruns /\ session'.events = session.events
        /\ session'.runs = session.runs /\ session'.cap = rest /\ session'.pb = session.pb
    BY <2>1 DEF SessionFits, HasSession, AppleHolds
  <2>6. SessionGoesOn
    BY <2>1, <2>5 DEF SessionGoesOn, LossCounted, SessionFits
  <2>7. AppleHolds'
    BY <2>4, <2>5, AppleBuffersAre DEF AppleHolds
  <2>. QED
    BY <2>1, <2>3, <2>6, <2>7, GoingOnFits DEF ReaderHasFrame
<1>2. CASE A!ReadReturns
  BY <1>2 DEF A!ReadReturns, A!NoRead, SessionFits, HasSession, AppleHolds, ReaderHasFrame,
              FrameIsWhole
<1>. QED
  BY <1>1, <1>2 DEF A!CaptureRead

LEMMA AppleReadBeginsFits ==
  ASSUME AppleFits, A!ReadBegins PROVE AppleFits' /\ FrameIsWhole
BY DEF A!ReadBegins, A!NoRead, AppleFits, SessionFits, HasSession, AppleHolds, ReaderHasFrame,
       FrameIsWhole

LEMMA AppleWriteFits ==
  ASSUME AppleFits, A!PlaybackWrite PROVE AppleFits' /\ reader' = reader
<1>. USE DEF AppleFits
<1>1. CASE UNCHANGED <<session, lost>>
  BY <1>1 DEF A!PlaybackWrite, SessionFits, HasSession, AppleHolds, ReaderHasFrame
<1>2. CASE ~UNCHANGED <<session, lost>>
  <2>. DEFINE frame == Heard(FrameUnits, "speech", session.runs)
              pb == A!Pushed(session.pb, frame, A!PlaybackUnits)
  <2>1. /\ session' = [session EXCEPT !.pb = pb,
             !.overruns = IF A!Drops(session.pb, FrameUnits, A!PlaybackUnits)
                          THEN CountUp(@) ELSE @]
        /\ lost' = IF Len(session'.pb) - Len(session.pb) < FrameUnits
                   THEN CountUp(lost) ELSE lost
    BY <1>2, AppleBuffersAre DEF A!PlaybackWrite
  <2>2. /\ FrameUnits \in Nat /\ frame \in Seq(Units(Sounds, {session.runs}))
        /\ Len(frame) = FrameUnits
    <3>1. FrameUnits \in Nat /\ "speech" \in Sounds
      BY BufferBounds DEF Sounds
    <3>. QED
      BY <3>1, HeardIsSound
  <2>. HIDE DEF frame
  <2>3. /\ session.pb \in Seq(Units(Sounds, {session.runs}))
        /\ Len(session.pb) <= A!PlaybackUnits /\ A!PlaybackUnits \in Nat
    BY AppleBuffersAre DEF AppleHolds
  <2>4. /\ pb \in Seq(Units(Sounds, {session.runs})) /\ Len(pb) <= A!PlaybackUnits
        /\ A!Drops(session.pb, FrameUnits, A!PlaybackUnits) <=> Len(pb) - Len(session.pb) < FrameUnits
    BY <2>2, <2>3, PushedFits
  <2>. HIDE DEF pb
  <2>5. /\ HasSession' /\ {"cap", "pb"} \subseteq DOMAIN session'
        /\ session'.running = session.running /\ session'.mic = session.mic
        /\ session'.output = session.output /\ session'.underruns = session.underruns
        /\ session'.events = session.events
        /\ session'.runs = session.runs /\ session'.cap = session.cap /\ session'.pb = pb
        /\ session'.overruns = IF A!Drops(session.pb, FrameUnits, A!PlaybackUnits)
                               THEN CountUp(session.overruns) ELSE session.overruns
    BY <2>1 DEF SessionFits, HasSession, AppleHolds
  <2>6. SessionGoesOn
    BY <2>1, <2>4, <2>5 DEF SessionGoesOn, LossCounted, SessionFits
  <2>7. AppleHolds'
    BY <2>4, <2>5 DEF AppleHolds
  <2>. QED
    BY <2>6, <2>7, GoingOnFits DEF ReaderHasFrame, A!PlaybackWrite
<1>. QED
  BY <1>1, <1>2 DEF A!PlaybackWrite

LEMMA AppleRoutesFit ==
  ASSUME AppleFits, A!RouteSide PROVE AppleFits' /\ reader' = reader
<1>. USE DEF AppleFits
<1>1. CASE UNCHANGED <<session, reader, lost>>
  BY <1>1 DEF SessionFits, HasSession, AppleHolds, ReaderHasFrame
<1>2. ASSUME NEW events, session' = [session EXCEPT !["events"] = events],
             UNCHANGED <<reader, lost>>, IsSequence(events), Len(events) <= EventQueue
      PROVE  AppleFits'
  <2>1. EventsChange(events)
    BY <1>2 DEF EventsChange, SessionFits, HasSession
  <2>. QED
    BY <1>2, <2>1, EventsChangeFits DEF AppleHolds, ReaderHasFrame
<1>3. CASE A!ListenerPushes
  <2>. DEFINE e == A!RoutesChanged(thread.mask)
  <2>1. session' = [session EXCEPT !["events"] = PushEvent(session.events, e)]
    BY <1>3, AppleBuffersAre DEF A!ListenerPushes, A!Set
  <2>. HIDE DEF e
  <2>. QED
    BY <1>2, <1>3, <2>1, QueueStaysBounded DEF A!ListenerPushes
<1>4. CASE A!PollEvent
  BY <1>2, <1>4, QueueStaysBounded DEF A!PollEvent, A!Set
<1>5. CASE A!DevicesChange \/ A!ListenerIsCalled \/ A!ListenerLooks \/ A!ListenerReads
  BY <1>1, <1>5 DEF A!DevicesChange, A!ListenerIsCalled, A!ListenerLooks, A!ListenerReads
<1>6. CASE \E route \in Routes \cup {A!UnknownRoute} : A!SetRoute(route)
  BY <1>1, <1>6 DEF A!SetRoute
<1>. QED
  BY <1>3, <1>4, <1>5, <1>6
  DEF A!RouteSide, A!Listener, A!ListenerPushes, A!PollEvent, A!DevicesChange,
      A!ListenerIsCalled, A!ListenerLooks, A!ListenerReads, A!SetRoute

LEMMA AppleStepFits ==
  ASSUME AppleFits, AppleStep PROVE AppleFits' /\ FrameIsWhole
<1>1. CASE A!Lifecycle \/ A!RouteSide
  BY <1>1, AppleLifecycleFits, AppleRoutesFit DEF FrameIsWhole
<1>2. CASE A!CaptureSide
  BY <1>2, InputCallbackFits, AppleReadBeginsFits, AppleMuteFits DEF A!CaptureSide, FrameIsWhole
<1>3. CASE A!CaptureRead
  BY <1>3, AppleReadFits
<1>4. CASE A!PlaybackSide
  BY <1>4, RenderCallbackFits, AppleWriteFits, AppleMuteFits DEF A!PlaybackSide, FrameIsWhole
<1>. QED
  BY <1>1, <1>2, <1>3, <1>4 DEF AppleStep

-----------------------------------------------------------------------------
(* The mock *)

LEMMA MockBuffersAre ==
  /\ \A n, s : M!Behind(n, s) = Behind(n, s) /\ M!Oldest(n, s) = Oldest(n, s)
               /\ M!Newest(n, s) = Newest(n, s)
  /\ \A n : M!CountUp(n) = CountUp(n)
  /\ \A q, e : M!PushEvent(q, e) = PushEvent(q, e)
  /\ M!Backlog \in Nat /\ M!AccumUnits \in Nat
<1>1. \A n, s : M!Behind(n, s) = Behind(n, s) /\ M!Oldest(n, s) = Oldest(n, s)
                /\ M!Newest(n, s) = Newest(n, s)
  BY DEF M!Behind, Behind, M!Oldest, Oldest, M!Newest, Newest
<1>2. \A n : M!CountUp(n) = CountUp(n)
  BY DEF M!CountUp, CountUp
<1>3. \A q, e : M!PushEvent(q, e) = PushEvent(q, e)
  BY DEF M!PushEvent, PushEvent
<1>4. M!Backlog \in Nat /\ M!AccumUnits \in Nat
  BY BufferBounds, ChunkAssumption DEF M!Backlog, M!AccumUnits
<1>. QED
  BY <1>1, <1>2, <1>3, <1>4

(* What is due was heard after the latest start; while the session runs with
   its microphone on, none of it was said aside. *)
MockHolds ==
    /\ "accum" \in DOMAIN session /\ "due" \in DOMAIN world
    /\ session.accum \in Seq(Units(Quiet, {session.runs})) /\ Len(session.accum) <= M!AccumUnits
    /\ world.due \in Seq(Units(Sounds, {session.runs}))
    /\ session.running /\ ~session.mic => world.due \in Seq(Units(Quiet, {session.runs}))

MockReaderIsQuiet ==
    /\ {"pc", "frame"} \subseteq DOMAIN reader
    /\ reader.frame \in Seq(Units(Quiet, Nat))

MockFits == SessionFits /\ MockHolds /\ MockReaderIsQuiet

(* What the pump generates, and what it counts. *)
PumpedTo(s, k) ==
    /\ DOMAIN s = DOMAIN session
    /\ \A field \in DOMAIN session \ {"accum", "overruns"} : s[field] = session[field]
    /\ s.accum \in Seq(Units(Quiet, {session.runs})) /\ Len(s.accum) <= M!AccumUnits
    /\ Len(s.accum) = Len(session.accum) + k
    /\ s.overruns = IF k < Len(world.due) THEN CountUp(session.overruns) ELSE session.overruns

LEMMA PumpFits ==
  ASSUME SessionFits, MockHolds, session.running, NEW s \in M!Pumped
  PROVE  \E k \in Nat : PumpedTo(s, k)
<1>0. PICK k \in M!Generated : s = M!PumpedWith(k)
  BY DEF M!Pumped
<1>. DEFINE U == Units(IF session.mic THEN Sounds ELSE Quiet, {session.runs})
            todo == Newest(M!Backlog, world.due)
            units == Oldest(k, todo)
<1>1. todo \in Seq(U) /\ world.due \in Seq(U) /\ world.due \in Seq(Units(Sounds, {session.runs}))
  <2>1. world.due \in Seq(U) /\ world.due \in Seq(Units(Sounds, {session.runs}))
    BY DEF MockHolds, SessionFits
  <2>. HIDE DEF U
  <2>. QED
    BY <2>1, MockBuffersAre, NewestIsSuffix
<1>2. k \in Nat /\ k <= Len(todo) /\ Len(session.accum) + k <= M!AccumUnits
  BY MockBuffersAre DEF M!Generated, M!Todo
<1>. HIDE DEF todo
<1>3. units \in Seq(U) /\ Len(units) = k
  <2>. HIDE DEF U
  <2>1. units \in Seq(U) /\ Len(units) = IF Len(todo) < k THEN Len(todo) ELSE k
    BY <1>1, <1>2, OldestIsPrefix
  <2>2. Len(todo) \in Nat
    BY <1>1
  <2>. QED
    BY <1>2, <2>1, <2>2
<1>4. s = [session EXCEPT !.accum = @ \o M!Tone(units),
                          !.overruns = IF k < Len(world.due) THEN CountUp(@) ELSE @]
  BY <1>0, MockBuffersAre DEF M!PumpedWith, M!Todo, todo
<1>. HIDE DEF units
<1>5. M!Tone(units) \in Seq(Units(Quiet, {session.runs})) /\ Len(M!Tone(units)) = k
  <2>1. \A i \in 1 .. k : units[i] \in U
    BY <1>3
  <2>2. \A i \in 1 .. k :
          (IF session.mic THEN M!Unit("silence", units[i].run) ELSE units[i])
            \in Units(Quiet, {session.runs})
    <3>1. CASE session.mic
      BY <2>1, <3>1 DEF M!Unit, Units, Quiet
    <3>2. CASE ~session.mic
      BY <2>1, <3>2
    <3>. QED
      BY <3>1, <3>2
  <2>3. M!Tone(units) = [i \in 1 .. k |->
          IF session.mic THEN M!Unit("silence", units[i].run) ELSE units[i]]
    BY <1>3 DEF M!Tone
  <2>4. M!Tone(units) \in [1 .. k -> Units(Quiet, {session.runs})]
    BY <2>2, <2>3
  <2>. QED
    BY <1>2, <2>4, TableIsSequence
<1>6. /\ session.accum \in Seq(Units(Quiet, {session.runs})) /\ Len(session.accum) \in Nat
      /\ {"accum", "overruns"} \subseteq DOMAIN session
  BY DEF MockHolds, SessionFits, HasSession
<1>7. /\ session.accum \o M!Tone(units) \in Seq(Units(Quiet, {session.runs}))
      /\ Len(session.accum \o M!Tone(units)) = Len(session.accum) + k
  BY <1>5, <1>6
<1>. QED
  BY <1>2, <1>4, <1>6, <1>7 DEF PumpedTo

(* The units that were due and were not generated are a loss that is counted. *)
LEMMA PumpCounts ==
  ASSUME SessionFits, MockHolds, NEW s, NEW k \in Nat, PumpedTo(s, k),
         session'.overruns = s.overruns,
         lost' = IF Len(s.accum) < Len(session.accum) + Len(world.due)
                 THEN CountUp(lost) ELSE lost
  PROVE  LossCounted
<1>1. /\ Len(session.accum) \in Nat /\ Len(world.due) \in Nat
      /\ Len(s.accum) = Len(session.accum) + k
      /\ session'.overruns = IF k < Len(world.due) THEN CountUp(session.overruns)
                             ELSE session.overruns
  BY DEF MockHolds, PumpedTo
<1>2. Len(s.accum) < Len(session.accum) + Len(world.due) <=> k < Len(world.due)
  <2>1. \A a, b, c, d \in Nat : c = a + d => (c < a + b <=> d < b)
    OBVIOUS
  <2>2. Len(s.accum) \in Nat
    BY <1>1
  <2>. QED
    BY <1>1, <2>1, <2>2
<1>3. CASE k < Len(world.due)
  BY <1>1, <1>2, <1>3, Zenon DEF LossCounted
<1>4. CASE ~(k < Len(world.due))
  BY <1>1, <1>2, <1>4, Zenon DEF LossCounted
<1>. QED
  BY <1>3, <1>4

(* A step that leaves what is gathered and what is due alone. *)
MockUntouched ==
    /\ "accum" \in DOMAIN session' /\ session'.accum = session.accum
    /\ UNCHANGED <<world, reader>>

LEMMA MockIdles ==
  ASSUME MockFits, UNCHANGED <<session, world, lost>>, MockReaderIsQuiet'
  PROVE  MockFits'
BY DEF MockFits, SessionFits, HasSession, MockHolds

LEMMA MockGoesOn ==
  ASSUME MockFits, SessionGoesOn, MockUntouched,
         session'.running = session.running, session'.mic = session.mic
  PROVE  MockFits'
<1>1. SessionFits'
  BY GoingOnFits DEF MockFits
<1>2. MockHolds'
  BY DEF MockFits, MockHolds, MockUntouched, SessionGoesOn
<1>3. MockReaderIsQuiet'
  BY DEF MockFits, MockReaderIsQuiet, MockUntouched
<1>. QED
  BY <1>1, <1>2, <1>3 DEF MockFits

(* What is gathered and what is due go. *)
LEMMA MockEmptied ==
  ASSUME MockFits, SessionFits', "accum" \in DOMAIN session', session'.accum = <<>>,
         "due" \in DOMAIN world', world'.due = <<>>, reader' = reader
  PROVE  MockFits'
<1>1. MockHolds'
  BY MockBuffersAre DEF MockHolds
<1>. QED
  BY <1>1 DEF MockFits, MockReaderIsQuiet

LEMMA MockLifecycleFits ==
  ASSUME MockFits, M!Lifecycle PROVE MockFits' /\ reader' = reader
<1>. USE DEF MockFits
<1>1. CASE M!OpenFails \/ M!StartFails
  BY <1>1, MockIdles DEF M!OpenFails, M!StartFails, MockReaderIsQuiet
<1>2. CASE \E mask \in SUBSET Routes, route \in Routes \cup {M!UnknownRoute} : M!Open(mask, route)
  <2>1. PICK mask, route : session' = [session EXCEPT !.mask = mask, !.route = route]
    BY <1>2 DEF M!Open
  <2>2. UNCHANGED <<world, reader, lost>>
    BY <1>2 DEF M!Open
  <2>3. /\ SessionGoesOn /\ MockUntouched
        /\ session'.running = session.running /\ session'.mic = session.mic
    BY <2>1, <2>2 DEF SessionGoesOn, LossCounted, SessionFits, HasSession, MockHolds, MockUntouched
  <2>. QED
    BY <2>2, <2>3, MockGoesOn
<1>3. CASE M!Start
  <2>1. PICK route : session' = [session EXCEPT !.running = TRUE, !.runs = @ + 1,
                                   !.accum = <<>>, !.route = route]
    BY <1>3, Zenon DEF M!Start
  <2>2. /\ session.runs < MaxStarts /\ world' = [due |-> <<>>] /\ UNCHANGED <<reader, lost>>
    BY <1>3 DEF M!Start
  <2>3. /\ HasSession' /\ session'.runs = session.runs + 1 /\ session'.running \in BOOLEAN
        /\ session'.mic = session.mic /\ session'.output = session.output
        /\ session'.underruns = session.underruns /\ session'.overruns = session.overruns
        /\ session'.events = session.events
        /\ "accum" \in DOMAIN session' /\ session'.accum = <<>>
    BY <2>1 DEF SessionFits, HasSession, MockHolds
  <2>. QED
    BY <2>2, <2>3, StartedSessionFits, MockEmptied
<1>4. CASE M!Stop
  <2>1. /\ session' = [session EXCEPT !.running = FALSE, !.accum = <<>>]
        /\ UNCHANGED <<world, reader, lost>>
    BY <1>4 DEF M!Stop
  <2>2. /\ SessionGoesOn /\ session'.running = FALSE
        /\ "accum" \in DOMAIN session' /\ session'.accum = <<>>
    BY <2>1 DEF SessionGoesOn, LossCounted, SessionFits, HasSession, MockHolds
  <2>3. MockHolds'
    BY <2>1, <2>2, MockBuffersAre DEF MockHolds, SessionGoesOn
  <2>. QED
    BY <2>1, <2>2, <2>3, GoingOnFits DEF MockReaderIsQuiet
<1>5. CASE M!Close
  <2>1. /\ session' = [M!Closed EXCEPT !.runs = session.runs] /\ lost' = 0
        /\ reader' = reader /\ world' = [due |-> <<>>]
    BY <1>5 DEF M!Close
  <2>2. /\ HasSession' /\ session'.runs = session.runs
        /\ session'.running \in BOOLEAN /\ session'.mic \in BOOLEAN /\ session'.output \in BOOLEAN
        /\ session'.underruns = 0 /\ session'.overruns = 0 /\ session'.events = <<>>
        /\ "accum" \in DOMAIN session' /\ session'.accum = <<>>
    BY <2>1 DEF M!Closed, HasSession
  <2>. QED
    BY <2>1, <2>2, ClosedSessionFits, MockEmptied
<1>. QED
  BY <1>1, <1>2, <1>3, <1>4, <1>5
  DEF M!Lifecycle, M!OpenFails, M!StartFails, M!Open, M!Start, M!Stop, M!Close

(* The pump as a step: what a call makes of the session that was pumped. *)
LEMMA MockPumped ==
  ASSUME MockFits, session.running, NEW s \in M!Pumped, HasSession',
         session'.runs = s.runs, session'.running = s.running, session'.mic \in BOOLEAN,
         session'.output = s.output, session'.underruns = s.underruns,
         session'.overruns = s.overruns, session'.events = s.events,
         lost' = IF Len(s.accum) < Len(session.accum) + Len(world.due)
                 THEN CountUp(lost) ELSE lost
  PROVE  /\ SessionFits' /\ session'.runs = session.runs
         /\ s.accum \in Seq(Units(Quiet, {session.runs})) /\ Len(s.accum) <= M!AccumUnits
<1>1. PICK k \in Nat : PumpedTo(s, k)
  BY PumpFits DEF MockFits
<1>2. LossCounted
  BY <1>1, PumpCounts DEF MockFits
<1>3. /\ s.runs = session.runs /\ s.running = session.running /\ s.output = session.output
      /\ s.underruns = session.underruns /\ s.events = session.events
      /\ s.accum \in Seq(Units(Quiet, {session.runs})) /\ Len(s.accum) <= M!AccumUnits
  BY <1>1 DEF PumpedTo, MockFits, SessionFits, HasSession
<1>4. SessionGoesOn
  BY <1>2, <1>3 DEF SessionGoesOn, MockFits, SessionFits
<1>. QED
  BY <1>3, <1>4, GoingOnFits DEF MockFits

LEMMA MockMuteFits ==
  ASSUME MockFits, NEW side \in {"mic", "output"}, NEW muted \in Mutes, M!SetMuted(side, muted)
  PROVE  MockFits' /\ reader' = reader
<1>. USE DEF MockFits
<1>0. reader' = reader /\ muted \in BOOLEAN
  BY BoundsAssumption DEF M!SetMuted
<1>1. CASE side = "mic" /\ session.running
  <2>1. PICK s \in M!Pumped : session' = [s EXCEPT !.mic = muted]
    BY <1>1 DEF M!SetMuted, M!GeneratesFirst, M!Pump
  <2>2. /\ world' = [due |-> <<>>]
        /\ lost' = IF Len(session'.accum) < Len(session.accum) + Len(world.due)
                   THEN M!CountUp(lost) ELSE lost
    BY <1>1 DEF M!SetMuted, M!GeneratesFirst, M!Pump
  <2>3. DOMAIN s = DOMAIN session
    BY <1>1, PumpFits DEF PumpedTo
  <2>4. /\ HasSession' /\ "accum" \in DOMAIN session' /\ session'.accum = s.accum
        /\ session'.runs = s.runs /\ session'.running = s.running /\ session'.mic = muted
        /\ session'.output = s.output /\ session'.underruns = s.underruns
        /\ session'.overruns = s.overruns /\ session'.events = s.events
    BY <2>1, <2>3 DEF SessionFits, HasSession, MockHolds
  <2>5. /\ SessionFits' /\ session'.runs = session.runs
        /\ s.accum \in Seq(Units(Quiet, {session.runs})) /\ Len(s.accum) <= M!AccumUnits
    BY <1>0, <1>1, <2>2, <2>4, MockBuffersAre, MockPumped
  <2>6. MockHolds'
    BY <2>2, <2>4, <2>5 DEF MockHolds
  <2>. QED
    BY <1>0, <2>5, <2>6 DEF MockReaderIsQuiet
<1>2. CASE ~(side = "mic" /\ session.running)
  <2>1. session' = [session EXCEPT ![side] = muted] /\ UNCHANGED <<world, lost>>
    BY <1>2 DEF M!SetMuted, M!GeneratesFirst, M!Set
  <2>2. /\ HasSession' /\ "accum" \in DOMAIN session' /\ session'.accum = session.accum
        /\ session'.runs = session.runs /\ session'.running = session.running
        /\ session'.mic = (IF side = "mic" THEN muted ELSE session.mic)
        /\ session'.output \in BOOLEAN
        /\ session'.underruns = session.underruns
        /\ session'.overruns = session.overruns /\ session'.events = session.events
    BY <1>0, <2>1 DEF SessionFits, HasSession, MockHolds
  <2>3. SessionGoesOn
    BY <1>0, <2>1, <2>2 DEF SessionGoesOn, LossCounted, SessionFits
  <2>4. MockHolds'
    BY <1>2, <2>1, <2>2 DEF MockHolds
  <2>. QED
    BY <1>0, <2>3, <2>4, GoingOnFits DEF MockReaderIsQuiet
<1>. QED
  BY <1>1, <1>2

LEMMA MockClockFits ==
  ASSUME MockFits, M!Clock PROVE MockFits' /\ reader' = reader
<1>. USE DEF MockFits
<1>. DEFINE u == M!Unit(IF session.mic THEN "aside" ELSE "speech", session.runs)
<1>1. /\ session.running /\ world' = [due |-> Append(world.due, u)]
      /\ UNCHANGED <<session, reader, lost>>
  BY DEF M!Clock
<1>2. /\ u \in Units(Sounds, {session.runs})
      /\ ~session.mic => u \in Units(Quiet, {session.runs})
  BY DEF M!Unit, Units, Sounds, Quiet
<1>. HIDE DEF u
<1>3. MockHolds'
  BY <1>1, <1>2 DEF MockHolds
<1>. QED
  BY <1>1, <1>3 DEF SessionFits, HasSession, MockReaderIsQuiet

LEMMA MockForceFormatFits ==
  ASSUME MockFits, M!MockForceFormat PROVE MockFits' /\ reader' = reader
<1>. USE DEF MockFits
<1>. DEFINE e == [event |-> "format_changed", mask |-> {}]
<1>1. /\ session' = [session EXCEPT !.accum = <<>>, !.events = PushEvent(@, e)]
      /\ world' = [due |-> <<>>] /\ UNCHANGED <<reader, lost>>
  BY MockBuffersAre DEF M!MockForceFormat
<1>. HIDE DEF e
<1>2. /\ EventsChange(PushEvent(session.events, e))
      /\ "accum" \in DOMAIN session' /\ session'.accum = <<>>
  BY <1>1 DEF EventsChange, SessionFits, HasSession, MockHolds
<1>. QED
  BY <1>1, <1>2, EventsChangeFits, QueueStaysBounded, MockEmptied

LEMMA MockReadFits ==
  ASSUME MockFits, M!CaptureRead PROVE MockFits' /\ FrameIsWhole
<1>. USE DEF MockFits
<1>1. CASE M!ReadSleeps \/ M!ReadReturns
  <2>1. UNCHANGED <<session, world, lost>>
    BY <1>1 DEF M!ReadSleeps, M!ReadReturns
  <2>2. reader'.frame = <<>> /\ {"pc", "frame"} \subseteq DOMAIN reader'
    BY <1>1 DEF M!ReadSleeps, M!ReadReturns, M!NoRead
  <2>. QED
    BY <2>1, <2>2, MockIdles DEF MockReaderIsQuiet, FrameIsWhole
<1>2. CASE M!ReadTurns
  <2>1. PICK s \in M!Pumped :
          /\ session' = IF Len(s.accum) >= FrameUnits
                        THEN [s EXCEPT !.accum = Behind(FrameUnits, s.accum)] ELSE s
          /\ reader' = IF Len(s.accum) >= FrameUnits
                       THEN [pc |-> "took", frame |-> Oldest(FrameUnits, s.accum)]
                       ELSE [M!NoRead EXCEPT !.pc = "timing"]
          /\ lost' = IF Len(s.accum) < Len(session.accum) + Len(world.due)
                     THEN CountUp(lost) ELSE lost
    BY <1>2, MockBuffersAre DEF M!ReadTurns
  <2>2. session.running /\ world' = [due |-> <<>>]
    BY <1>2 DEF M!ReadTurns
  <2>3. DOMAIN s = DOMAIN session /\ s.mic \in BOOLEAN
    BY <2>2, PumpFits DEF PumpedTo, SessionFits, HasSession
  <2>4. /\ HasSession' /\ "accum" \in DOMAIN session'
        /\ session'.runs = s.runs /\ session'.running = s.running /\ session'.mic = s.mic
        /\ session'.output = s.output /\ session'.underruns = s.underruns
        /\ session'.overruns = s.overruns /\ session'.events = s.events
        /\ session'.accum = IF Len(s.accum) >= FrameUnits
                            THEN Behind(FrameUnits, s.accum) ELSE s.accum
    <3>1. CASE Len(s.accum) >= FrameUnits
      BY <2>1, <2>3, <3>1 DEF SessionFits, HasSession, MockHolds
    <3>2. CASE ~(Len(s.accum) >= FrameUnits)
      BY <2>1, <2>3, <3>2 DEF SessionFits, HasSession, MockHolds
    <3>. QED
      BY <3>1, <3>2
  <2>5. /\ SessionFits' /\ session'.runs = session.runs
        /\ s.accum \in Seq(Units(Quiet, {session.runs})) /\ Len(s.accum) <= M!AccumUnits
    BY <2>1, <2>2, <2>3, <2>4, MockPumped
  <2>6. session.runs \in Nat /\ Len(s.accum) \in Nat /\ FrameUnits \in Nat /\ M!AccumUnits \in Nat
    BY <2>5, BufferBounds, MockBuffersAre DEF SessionFits
  <2>7. CASE Len(s.accum) >= FrameUnits
    <3>. DEFINE frame == Oldest(FrameUnits, s.accum)
                rest == Behind(FrameUnits, s.accum)
    <3>1. /\ frame \in Seq(Units(Quiet, {session.runs})) /\ Len(frame) = FrameUnits
          /\ \A i \in 1 .. FrameUnits : frame[i].run = session.runs
          /\ rest \in Seq(Units(Quiet, {session.runs})) /\ Len(rest) <= Len(s.accum)
      BY <2>5, <2>6, <2>7, TakenFrame
    <3>2. reader' = [pc |-> "took", frame |-> frame] /\ session'.accum = rest
      BY <2>1, <2>4, <2>7
    <3>. HIDE DEF frame, rest
    <3>3. frame \in Seq(Units(Quiet, Nat))
      <4>1. Units(Quiet, {session.runs}) \subseteq Units(Quiet, Nat)
        BY <2>6 DEF Units
      <4>. QED
        BY <3>1, <4>1, MoreUnits
    <3>4. Len(rest) <= M!AccumUnits
      <4>1. Len(rest) \in Nat
        BY <3>1
      <4>. QED
        BY <2>5, <2>6, <3>1, <4>1
    <3>5. MockHolds'
      BY <2>2, <2>4, <2>5, <3>1, <3>2, <3>4 DEF MockHolds
    <3>. QED
      BY <2>5, <3>1, <3>2, <3>3, <3>5 DEF MockReaderIsQuiet, FrameIsWhole
  <2>8. CASE ~(Len(s.accum) >= FrameUnits)
    <3>1. reader'.frame = <<>> /\ {"pc", "frame"} \subseteq DOMAIN reader' /\ session'.accum = s.accum
      BY <2>1, <2>4, <2>8 DEF M!NoRead
    <3>2. MockHolds'
      BY <2>2, <2>4, <2>5, <3>1 DEF MockHolds
    <3>. QED
      BY <2>5, <3>1, <3>2 DEF MockReaderIsQuiet, FrameIsWhole
  <2>. QED
    BY <2>7, <2>8
<1>. QED
  BY <1>1, <1>2 DEF M!CaptureRead

LEMMA MockCountFits ==
  ASSUME MockFits, NEW counter \in {"underruns", "overruns"}, M!MockAddCount(counter)
  PROVE  MockFits' /\ reader' = reader
<1>1. session' = [session EXCEPT ![counter] = CountUp(session[counter])]
  BY MockBuffersAre DEF M!MockAddCount, M!Set
<1>2. UNCHANGED <<world, reader, lost>>
  BY DEF M!MockAddCount
<1>3. /\ SessionGoesOn /\ MockUntouched
      /\ session'.running = session.running /\ session'.mic = session.mic
  BY <1>1, <1>2
  DEF SessionGoesOn, LossCounted, MockFits, SessionFits, HasSession, MockHolds, MockUntouched
<1>. QED
  BY <1>2, <1>3, MockGoesOn

LEMMA MockRoutesFit ==
  ASSUME MockFits, M!RouteSide PROVE MockFits' /\ reader' = reader
<1>. USE DEF MockFits
<1>1. ASSUME NEW events, EventsChange(events), MockUntouched,
             IsSequence(events), Len(events) <= EventQueue
      PROVE  MockFits' /\ reader' = reader
  <2>1. SessionFits'
    BY <1>1, EventsChangeFits
  <2>2. MockHolds'
    BY <1>1 DEF MockHolds, MockUntouched, EventsChange
  <2>. QED
    BY <1>1, <2>1, <2>2 DEF MockReaderIsQuiet, MockUntouched
<1>2. CASE M!PollEvent
  <2>1. EventsChange(Tail(session.events)) /\ MockUntouched /\ session.events # <<>>
    BY <1>2 DEF M!PollEvent, M!Set, EventsChange, SessionFits, HasSession, MockHolds, MockUntouched
  <2>. QED
    BY <1>1, <2>1, QueueStaysBounded
<1>3. CASE M!MockPushEvent
  <2>. DEFINE e == [event |-> "interrupted", mask |-> {}]
  <2>1. /\ session' = [session EXCEPT !["events"] = PushEvent(session.events, e)]
        /\ UNCHANGED <<world, reader, lost>>
    BY <1>3, MockBuffersAre DEF M!MockPushEvent, M!Set
  <2>. HIDE DEF e
  <2>2. EventsChange(PushEvent(session.events, e)) /\ MockUntouched
    BY <2>1 DEF EventsChange, SessionFits, HasSession, MockHolds, MockUntouched
  <2>. QED
    BY <1>1, <2>2, QueueStaysBounded
<1>4. CASE \E route \in Routes \cup {M!UnknownRoute} : M!SetRoute(route)
  <2>1. PICK route : M!SetRoute(route)
    BY <1>4
  <2>2. UNCHANGED <<world, reader, lost>>
    BY <2>1 DEF M!SetRoute
  <2>3. /\ SessionGoesOn /\ MockUntouched
        /\ session'.running = session.running /\ session'.mic = session.mic
    BY <2>1, <2>2 DEF M!SetRoute, M!Set, SessionGoesOn, LossCounted, SessionFits, HasSession,
                      MockHolds, MockUntouched
  <2>. QED
    BY <2>2, <2>3, MockGoesOn
<1>5. CASE \E route \in Routes \cup {M!UnknownRoute}, mask \in SUBSET Routes :
             M!MockSetRoutes(mask, route)
  <2>1. PICK route, mask : M!MockSetRoutes(mask, route)
    BY <1>5
  <2>. DEFINE e == M!RoutesChanged(mask)
  <2>2. /\ \E to : session' = [session EXCEPT !.mask = mask, !.route = to,
                                              !.events = PushEvent(@, e)]
        /\ UNCHANGED <<world, reader, lost>>
    BY <2>1, MockBuffersAre, Zenon DEF M!MockSetRoutes
  <2>. HIDE DEF e
  <2>3. EventsChange(PushEvent(session.events, e)) /\ MockUntouched
    BY <2>2 DEF EventsChange, SessionFits, HasSession, MockHolds, MockUntouched
  <2>. QED
    BY <1>1, <2>3, QueueStaysBounded
<1>. QED
  BY <1>2, <1>3, <1>4, <1>5 DEF M!RouteSide

LEMMA MockStepFits ==
  ASSUME MockFits, MockStep PROVE MockFits' /\ FrameIsWhole
<1>1. CASE M!Lifecycle \/ M!RouteSide
  BY <1>1, MockLifecycleFits, MockRoutesFit DEF FrameIsWhole
<1>2. CASE M!CaptureSide
  <2>1. CASE M!ReadBegins
    BY <2>1 DEF M!ReadBegins, M!NoRead, MockFits, SessionFits, HasSession, MockHolds,
                MockReaderIsQuiet, FrameIsWhole
  <2>. QED
    BY <1>2, <2>1, MockClockFits, MockForceFormatFits, MockMuteFits DEF M!CaptureSide, FrameIsWhole
<1>3. CASE M!CaptureRead
  BY <1>3, MockReadFits
<1>4. CASE M!PlaybackSide
  <2>1. CASE M!PlaybackWrite
    BY <2>1, MockIdles DEF M!PlaybackWrite, MockFits, MockReaderIsQuiet, FrameIsWhole
  <2>. QED
    BY <1>4, <2>1, MockCountFits, MockMuteFits DEF M!PlaybackSide, FrameIsWhole
<1>. QED
  BY <1>1, <1>2, <1>3, <1>4 DEF MockStep

-----------------------------------------------------------------------------
(* WASAPI *)

LEMMA WindowsBuffersAre ==
  /\ \A n, s : W!Behind(n, s) = Behind(n, s) /\ W!Oldest(n, s) = Oldest(n, s)
  /\ \A n, sound, run : W!Heard(n, sound, run) = Heard(n, sound, run)
  /\ \A n : W!CountUp(n) = CountUp(n)
  /\ \A q, e : W!PushEvent(q, e) = PushEvent(q, e)
  /\ W!AccumUnits \in Nat /\ W!RingUnits \in Nat /\ FrameUnits <= W!RingUnits
<1>1. \A n, s : W!Behind(n, s) = Behind(n, s) /\ W!Oldest(n, s) = Oldest(n, s)
  BY DEF W!Behind, Behind, W!Oldest, Oldest
<1>2. \A n, sound, run : W!Heard(n, sound, run) = Heard(n, sound, run)
  BY DEF W!Heard, Heard, W!Unit, Unit
<1>3. \A n : W!CountUp(n) = CountUp(n)
  BY DEF W!CountUp, CountUp
<1>4. \A q, e : W!PushEvent(q, e) = PushEvent(q, e)
  BY DEF W!PushEvent, PushEvent
<1>5. W!AccumUnits \in Nat /\ W!RingUnits \in Nat /\ FrameUnits <= W!RingUnits
  BY BufferBounds DEF W!AccumUnits, W!RingUnits
<1>. QED
  BY <1>1, <1>2, <1>3, <1>4, <1>5

HeardUnits == Units(Sounds, Nat)

WindowsHolds ==
    /\ {"accum", "ring"} \subseteq DOMAIN session /\ "packets" \in DOMAIN world
    /\ session.accum \in Seq(HeardUnits) /\ Len(session.accum) <= W!AccumUnits
    /\ session.ring \in Seq(HeardUnits) /\ Len(session.ring) <= W!RingUnits
    /\ world.packets \in Seq(HeardUnits)

WindowsFits == SessionFits /\ WindowsHolds

PacketsUntouched == "packets" \in DOMAIN world' /\ world'.packets = world.packets

LEMMA WindowsIdles ==
  ASSUME WindowsFits, UNCHANGED <<session, lost>>, PacketsUntouched
  PROVE  WindowsFits'
BY DEF WindowsFits, SessionFits, HasSession, WindowsHolds, PacketsUntouched

RingsUntouched ==
    /\ {"accum", "ring"} \subseteq DOMAIN session'
    /\ session'.accum = session.accum /\ session'.ring = session.ring

LEMMA WindowsGoesOn ==
  ASSUME WindowsFits, SessionFits', RingsUntouched, PacketsUntouched
  PROVE  WindowsFits'
BY DEF WindowsFits, WindowsHolds, RingsUntouched, PacketsUntouched

LEMMA WindowsEmptied ==
  ASSUME WindowsFits, SessionFits', {"accum", "ring"} \subseteq DOMAIN session',
         session'.accum = <<>>, session'.ring = <<>>, "packets" \in DOMAIN world',
         world'.packets \in {<<>>, world.packets}
  PROVE  WindowsFits'
<1>1. <<>> \in Seq(HeardUnits) /\ Len(<<>>) <= W!AccumUnits /\ Len(<<>>) <= W!RingUnits
  BY WindowsBuffersAre
<1>2. world'.packets \in Seq(HeardUnits)
  BY <1>1 DEF WindowsFits, WindowsHolds
<1>. QED
  BY <1>1, <1>2 DEF WindowsFits, WindowsHolds

LEMMA WindowsRenderFits ==
  ASSUME WindowsFits, W!RenderThread PROVE WindowsFits'
<1>. USE DEF WindowsFits
<1>1. CASE W!RenderLooks \/ W!RenderWakes \/ W!RenderReleases
  <2>1. UNCHANGED <<session, lost>> /\ PacketsUntouched
    BY <1>1 DEF W!RenderLooks, W!RenderWakes, W!RenderReleases, WindowsHolds, PacketsUntouched
  <2>. QED
    BY <2>1, WindowsIdles
<1>2. CASE W!RenderFills
  <2>1. UNCHANGED <<world, lost>>
    BY <1>2 DEF W!RenderFills
  <2>2. CASE UNCHANGED session
    BY <2>1, <2>2, WindowsIdles DEF PacketsUntouched, WindowsHolds
  <2>3. CASE ~UNCHANGED session
    <3>1. PICK room \in 1 .. FrameUnits + 1 :
            session' = [session EXCEPT
              !.ring = Behind(room, @),
              !.underruns = IF Len(session.ring) < room THEN CountUp(@) ELSE @]
      BY <1>2, <2>3, WindowsBuffersAre DEF W!RenderFills
    <3>. DEFINE rest == Behind(room, session.ring)
    <3>2. rest \in Seq(HeardUnits) /\ Len(rest) <= W!RingUnits
      <4>1. room \in Nat /\ session.ring \in Seq(HeardUnits)
        BY BufferBounds DEF WindowsHolds
      <4>2. rest \in Seq(HeardUnits) /\ Len(rest) <= Len(session.ring)
        BY <4>1, BehindIsRest
      <4>. HIDE DEF rest
      <4>. QED
        BY <4>1, <4>2, WindowsBuffersAre DEF WindowsHolds
    <3>. HIDE DEF rest
    <3>3. /\ SessionGoesOn /\ {"accum", "ring"} \subseteq DOMAIN session'
          /\ session'.accum = session.accum /\ session'.ring = rest
      BY <2>1, <3>1 DEF SessionGoesOn, LossCounted, SessionFits, HasSession, WindowsHolds, rest
    <3>. QED
      BY <2>1, <3>2, <3>3, GoingOnFits DEF WindowsHolds
  <2>. QED
    BY <2>2, <2>3
<1>. QED
  BY <1>1, <1>2 DEF W!RenderThread

LEMMA WindowsLifecycleFits ==
  ASSUME WindowsFits, W!Lifecycle PROVE WindowsFits'
<1>. USE DEF WindowsFits
<1>1. CASE W!OpenFails \/ W!StartMakesThread
  BY <1>1, WindowsIdles DEF W!OpenFails, W!StartMakesThread, PacketsUntouched, WindowsHolds
<1>2. CASE W!OpenMakes
  <2>1. PICK route : session' = [session EXCEPT !.mask = W!Mask, !.route = route, !.client = 1]
    BY <1>2 DEF W!OpenMakes
  <2>2. /\ world' = [W!AtRest EXCEPT !.endpoints = world.endpoints, !.made = 1]
        /\ lost' = lost
    BY <1>2 DEF W!OpenMakes
  <2>3. SessionGoesOn /\ RingsUntouched
    BY <2>1, <2>2
    DEF SessionGoesOn, LossCounted, SessionFits, HasSession, WindowsHolds, RingsUntouched
  <2>4. "packets" \in DOMAIN world' /\ world'.packets = <<>>
    BY <2>2 DEF W!AtRest
  <2>. QED
    BY <2>3, <2>4, GoingOnFits DEF WindowsHolds, RingsUntouched
<1>3. CASE W!OpenRegisters
  <2>1. PICK registered : session' = [session EXCEPT !["notify"] = registered]
    BY <1>3 DEF W!OpenRegisters, W!Set
  <2>2. UNCHANGED <<world, lost>>
    BY <1>3 DEF W!OpenRegisters
  <2>3. SessionGoesOn /\ RingsUntouched /\ PacketsUntouched
    BY <2>1, <2>2
    DEF SessionGoesOn, LossCounted, SessionFits, HasSession, WindowsHolds, RingsUntouched,
        PacketsUntouched
  <2>. QED
    BY <2>3, GoingOnFits, WindowsGoesOn
<1>4. CASE W!Start
  <2>1. CASE UNCHANGED <<session, world>>
    BY <1>4, <2>1, WindowsIdles DEF W!Start, PacketsUntouched, WindowsHolds
  <2>2. CASE ~UNCHANGED <<session, world>>
    <3>1. /\ session' = [session EXCEPT
               !.running = TRUE, !.runs = @ + 1, !.stopEvent = TRUE,
               !.accum = <<>>, !.ring = <<>>]
          /\ session.runs < MaxStarts
          /\ world' = [world EXCEPT !.capturing = TRUE, !.stop = FALSE,
                                    !.started = @ \cup {session.client}]
          /\ lost' = lost
      BY <1>4, <2>2 DEF W!Start
    <3>2. /\ HasSession' /\ session'.runs = session.runs + 1 /\ session'.running \in BOOLEAN
          /\ session'.mic = session.mic /\ session'.output = session.output
          /\ session'.underruns = session.underruns /\ session'.overruns = session.overruns
          /\ session'.events = session.events
          /\ {"accum", "ring"} \subseteq DOMAIN session'
          /\ session'.accum = <<>> /\ session'.ring = <<>>
      BY <3>1 DEF SessionFits, HasSession, WindowsHolds
    <3>3. "packets" \in DOMAIN world' /\ world'.packets = world.packets
      BY <3>1 DEF WindowsHolds
    <3>. QED
      BY <3>1, <3>2, <3>3, StartedSessionFits, WindowsEmptied
  <2>. QED
    BY <2>1, <2>2
<1>5. CASE W!Stop
  <2>1. lost' = lost /\ PacketsUntouched
    BY <1>5 DEF W!Stop, WindowsHolds, PacketsUntouched
  <2>2. session' = session \/ session' = [session EXCEPT !["running"] = FALSE]
    BY <1>5 DEF W!Stop, W!Set
  <2>3. SessionGoesOn /\ RingsUntouched
    BY <2>1, <2>2
    DEF SessionGoesOn, LossCounted, SessionFits, HasSession, WindowsHolds, RingsUntouched
  <2>. QED
    BY <2>1, <2>3, GoingOnFits, WindowsGoesOn
<1>6. CASE W!StopEnds
  <2>1. /\ session' = [session EXCEPT !.stopEvent = FALSE, !.accum = <<>>, !.ring = <<>>]
        /\ world' = [world EXCEPT !.capturing = FALSE, !.started = {}] /\ lost' = lost
    BY <1>6 DEF W!StopEnds
  <2>2. /\ SessionGoesOn /\ {"accum", "ring"} \subseteq DOMAIN session'
        /\ session'.accum = <<>> /\ session'.ring = <<>>
        /\ "packets" \in DOMAIN world' /\ world'.packets = world.packets
    BY <2>1 DEF SessionGoesOn, LossCounted, SessionFits, HasSession, WindowsHolds
  <2>. QED
    BY <2>2, GoingOnFits, WindowsEmptied
<1>7. CASE W!Close
  <2>1. /\ session' = [W!Closed EXCEPT !.runs = session.runs] /\ lost' = 0
        /\ world' = [W!AtRest EXCEPT !.endpoints = world.endpoints]
    BY <1>7 DEF W!Close
  <2>2. /\ HasSession' /\ session'.runs = session.runs
        /\ session'.running \in BOOLEAN /\ session'.mic \in BOOLEAN /\ session'.output \in BOOLEAN
        /\ session'.underruns = 0 /\ session'.overruns = 0 /\ session'.events = <<>>
        /\ {"accum", "ring"} \subseteq DOMAIN session'
        /\ session'.accum = <<>> /\ session'.ring = <<>>
    BY <2>1 DEF W!Closed, HasSession
  <2>3. "packets" \in DOMAIN world' /\ world'.packets = <<>>
    BY <2>1 DEF W!AtRest
  <2>. QED
    BY <2>1, <2>2, <2>3, ClosedSessionFits, WindowsEmptied
<1>. QED
  BY <1>1, <1>2, <1>3, <1>4, <1>5, <1>6, <1>7, WindowsRenderFits DEF W!Lifecycle

LEMMA WindowsMuteFits ==
  ASSUME WindowsFits, NEW side \in {"mic", "output"}, NEW muted \in Mutes, W!SetMuted(side, muted)
  PROVE  WindowsFits'
<1>1. session' = [session EXCEPT ![side] = muted] /\ UNCHANGED <<world, lost>> /\ muted \in BOOLEAN
  BY BoundsAssumption DEF W!SetMuted, W!Set
<1>2. SessionGoesOn /\ RingsUntouched /\ PacketsUntouched
  BY <1>1 DEF SessionGoesOn, LossCounted, WindowsFits, SessionFits, HasSession, WindowsHolds,
              RingsUntouched, PacketsUntouched
<1>. QED
  BY <1>2, GoingOnFits, WindowsGoesOn DEF WindowsFits

LEMMA WindowsHearsFits ==
  ASSUME WindowsFits, W!DeviceHears PROVE WindowsFits'
<1>. USE DEF WindowsFits
<1>1. UNCHANGED <<session, lost>>
  BY DEF W!DeviceHears
<1>. DEFINE heard == Heard(1, IF session.mic THEN "aside" ELSE "speech", session.runs)
<1>2. heard \in Seq(HeardUnits)
  <2>1. session.runs \in Nat /\ (IF session.mic THEN "aside" ELSE "speech") \in Sounds
    BY DEF SessionFits, Sounds
  <2>2. heard \in Seq(Units(Sounds, {session.runs}))
    BY <2>1, HeardIsSound
  <2>3. Units(Sounds, {session.runs}) \subseteq HeardUnits
    BY <2>1 DEF HeardUnits, Units
  <2>. QED
    BY <2>2, <2>3, MoreUnits
<1>3. world' = [world EXCEPT !.gap = TRUE] \/ world' = [world EXCEPT !.packets = @ \o heard]
  BY WindowsBuffersAre DEF W!DeviceHears
<1>. HIDE DEF heard
<1>4. "packets" \in DOMAIN world' /\ world'.packets \in Seq(HeardUnits)
  <2>1. world.packets \in Seq(HeardUnits) /\ "packets" \in DOMAIN world
    BY DEF WindowsHolds
  <2>2. world.packets \o heard \in Seq(HeardUnits)
    BY <1>2, <2>1, JoinedIsSequence
  <2>. QED
    BY <1>3, <2>1, <2>2
<1>. QED
  BY <1>1, <1>4 DEF SessionFits, HasSession, WindowsHolds

LEMMA WindowsDrainsFits ==
  ASSUME WindowsFits, W!ReadDrains PROVE WindowsFits'
<1>. USE DEF WindowsFits
<1>. DEFINE room == W!AccumUnits - Len(session.accum)
            taken == Oldest(room, world.packets)
            toned == [i \in 1 .. Len(taken) |->
              IF session.mic THEN W!Unit("silence", taken[i].run) ELSE taken[i]]
            dropped == Len(world.packets) > room
<1>1. /\ session' = [session EXCEPT
           !.accum = @ \o toned,
           !.overruns = IF dropped \/ (world.gap /\ taken # <<>>) THEN CountUp(@) ELSE @]
      /\ lost' = IF Len(session'.accum) < Len(session.accum) + Len(world.packets)
                 THEN CountUp(lost) ELSE lost
      /\ world' = [world EXCEPT !.packets = <<>>, !.gap = @ /\ world.packets = <<>>]
  BY WindowsBuffersAre, Zenon DEF W!ReadDrains
<1>2. /\ session.accum \in Seq(HeardUnits) /\ Len(session.accum) \in Nat
      /\ room \in Nat /\ Len(session.accum) + room = W!AccumUnits
      /\ world.packets \in Seq(HeardUnits) /\ Len(world.packets) \in Nat
  BY WindowsBuffersAre DEF WindowsHolds
<1>. HIDE DEF room
<1>3. /\ taken \in Seq(HeardUnits)
      /\ Len(taken) = IF Len(world.packets) < room THEN Len(world.packets) ELSE room
  BY <1>2, OldestIsPrefix
<1>. HIDE DEF taken
<1>4. toned \in Seq(HeardUnits) /\ Len(toned) = Len(taken)
  <2>1. \A i \in 1 .. Len(taken) : taken[i] \in HeardUnits
    BY <1>3
  <2>2. \A u \in HeardUnits : W!Unit("silence", u.run) \in HeardUnits
    BY DEF W!Unit, HeardUnits, Units, Sounds
  <2>3. toned \in [1 .. Len(taken) -> HeardUnits]
    BY <2>1, <2>2
  <2>. HIDE DEF toned
  <2>4. Len(taken) \in Nat
    BY <1>3
  <2>. QED
    BY <2>3, <2>4, TableIsSequence
<1>. HIDE DEF toned
<1>5. /\ session.accum \o toned \in Seq(HeardUnits)
      /\ Len(session.accum \o toned) = Len(session.accum) + Len(taken)
  <2>1. /\ session.accum \o toned \in Seq(HeardUnits)
        /\ Len(session.accum \o toned) = Len(session.accum) + Len(toned)
    BY <1>2, <1>4, JoinedIsSequence, Zenon
  <2>. QED
    BY <1>4, <2>1, Zenon
<1>6. /\ HasSession' /\ {"accum", "ring"} \subseteq DOMAIN session'
      /\ session'.runs = session.runs /\ session'.running = session.running
      /\ session'.mic = session.mic /\ session'.output = session.output
      /\ session'.underruns = session.underruns /\ session'.events = session.events
      /\ session'.accum = session.accum \o toned /\ session'.ring = session.ring
      /\ session'.overruns \in {session.overruns, CountUp(session.overruns)}
      /\ dropped => session'.overruns = CountUp(session.overruns)
  BY <1>1 DEF SessionFits, HasSession, WindowsHolds
<1>7. "packets" \in DOMAIN world' /\ world'.packets = <<>>
  BY <1>1 DEF WindowsHolds
<1>8. Len(session'.accum) < Len(session.accum) + Len(world.packets) <=> dropped
  <2>1. \A a, b, c, d, e \in Nat :
          c = a + d /\ d = (IF b < e THEN b ELSE e) => (c < a + b <=> b > e)
    OBVIOUS
  <2>2. Len(session'.accum) \in Nat /\ Len(taken) \in Nat
    BY <1>2, <1>3, <1>5, <1>6
  <2>. QED
    BY <1>2, <1>3, <1>5, <1>6, <2>1, <2>2
<1>9. LossCounted
  BY <1>1, <1>6, <1>8, Zenon DEF LossCounted
<1>10. SessionGoesOn
  BY <1>6, <1>9 DEF SessionGoesOn, SessionFits
<1>11. Len(session'.accum) <= W!AccumUnits
  <2>1. Len(session'.accum) = Len(session.accum) + Len(taken)
    BY <1>5, <1>6
  <2>2. Len(taken) <= room /\ Len(taken) \in Nat
    BY <1>2, <1>3
  <2>. QED
    BY <1>2, <2>1, <2>2
<1>. QED
  BY <1>5, <1>6, <1>7, <1>10, <1>11, GoingOnFits DEF WindowsHolds

LEMMA WindowsReadFits ==
  ASSUME WindowsFits, W!CaptureRead PROVE WindowsFits'
<1>. USE DEF WindowsFits
<1>1. CASE W!ReadLooks
  <2>1. UNCHANGED <<world, lost>>
    BY <1>1 DEF W!ReadLooks
  <2>2. CASE UNCHANGED session
    BY <2>1, <2>2, WindowsIdles DEF PacketsUntouched, WindowsHolds
  <2>3. CASE ~UNCHANGED session
    <3>. DEFINE rest == Behind(FrameUnits, session.accum)
    <3>1. session' = [session EXCEPT !["accum"] = rest]
      BY <1>1, <2>3, WindowsBuffersAre DEF W!ReadLooks, W!Set
    <3>2. rest \in Seq(HeardUnits) /\ Len(rest) <= W!AccumUnits
      <4>1. FrameUnits \in Nat /\ session.accum \in Seq(HeardUnits)
        BY BufferBounds DEF WindowsHolds
      <4>2. rest \in Seq(HeardUnits) /\ Len(rest) <= Len(session.accum)
        BY <4>1, BehindIsRest
      <4>. HIDE DEF rest
      <4>. QED
        BY <4>1, <4>2, WindowsBuffersAre DEF WindowsHolds
    <3>. HIDE DEF rest
    <3>3. /\ SessionGoesOn /\ {"accum", "ring"} \subseteq DOMAIN session'
          /\ session'.accum = rest /\ session'.ring = session.ring
      BY <2>1, <3>1 DEF SessionGoesOn, LossCounted, SessionFits, HasSession, WindowsHolds
    <3>. QED
      BY <2>1, <3>2, <3>3, GoingOnFits DEF WindowsHolds
  <2>. QED
    BY <2>2, <2>3
<1>2. CASE W!ReadReturns
  BY <1>2, WindowsIdles DEF W!ReadReturns, PacketsUntouched, WindowsHolds
<1>. QED
  BY <1>1, <1>2, WindowsDrainsFits DEF W!CaptureRead

LEMMA WindowsWriteFits ==
  ASSUME WindowsFits, W!PlaybackWrite PROVE WindowsFits'
<1>. USE DEF WindowsFits
<1>0. world' = world
  BY DEF W!PlaybackWrite
<1>1. CASE UNCHANGED <<session, lost>>
  BY <1>0, <1>1, WindowsIdles DEF PacketsUntouched, WindowsHolds
<1>2. CASE ~UNCHANGED <<session, lost>>
  <2>. DEFINE over == Len(session.ring) + FrameUnits - W!RingUnits
              kept == IF over > 0 THEN Behind(over, session.ring) ELSE session.ring
              frame == Heard(FrameUnits, "speech", session.runs)
  <2>1. /\ session' = [session EXCEPT
             !.ring = kept \o frame,
             !.overruns = IF over > 0 THEN CountUp(@) ELSE @]
        /\ lost' = IF Len(session'.ring) - Len(session.ring) < FrameUnits
                   THEN CountUp(lost) ELSE lost
    BY <1>2, WindowsBuffersAre, Zenon DEF W!PlaybackWrite
  <2>2. /\ session.ring \in Seq(HeardUnits) /\ Len(session.ring) \in Nat
        /\ Len(session.ring) <= W!RingUnits /\ W!RingUnits \in Nat
        /\ FrameUnits \in Nat /\ FrameUnits <= W!RingUnits
    BY BufferBounds, WindowsBuffersAre DEF WindowsHolds
  <2>3. frame \in Seq(HeardUnits) /\ Len(frame) = FrameUnits
    <3>1. session.runs \in Nat /\ "speech" \in Sounds
      BY DEF SessionFits, Sounds
    <3>2. frame \in Seq(Units(Sounds, {session.runs})) /\ Len(frame) = FrameUnits
      BY <2>2, <3>1, HeardIsSound
    <3>3. Units(Sounds, {session.runs}) \subseteq HeardUnits
      BY <3>1 DEF HeardUnits, Units
    <3>. HIDE DEF frame
    <3>. QED
      BY <3>2, <3>3, MoreUnits
  <2>. HIDE DEF frame
  <2>4. /\ kept \in Seq(HeardUnits) /\ Len(kept) \in Nat
        /\ Len(kept) = IF over > 0 THEN Len(session.ring) - over ELSE Len(session.ring)
    <3>1. CASE over > 0
      <4>1. over \in Nat /\ over <= Len(session.ring)
        BY <2>2, <3>1
      <4>. HIDE DEF over
      <4>2. /\ kept = Behind(over, session.ring) /\ kept \in Seq(HeardUnits)
            /\ Len(kept) = IF over < Len(session.ring) THEN Len(session.ring) - over ELSE 0
        BY <2>2, <3>1, <4>1, BehindIsRest
      <4>. HIDE DEF kept
      <4>. QED
        BY <2>2, <3>1, <4>1, <4>2
    <3>2. CASE ~(over > 0)
      BY <2>2, <3>2
    <3>. QED
      BY <3>1, <3>2
  <2>. HIDE DEF kept
  <2>5. /\ kept \o frame \in Seq(HeardUnits) /\ Len(kept \o frame) = Len(kept) + FrameUnits
        /\ Len(kept \o frame) \in Nat
    BY <2>3, <2>4, JoinedIsSequence
  <2>6. /\ Len(kept \o frame) <= W!RingUnits
        /\ over > 0 <=> Len(kept \o frame) - Len(session.ring) < FrameUnits
    <3>1. \A a, b, c, d, e \in Nat :
            /\ a <= c /\ b <= c /\ e = d + b
            /\ d = (IF a + b - c > 0 THEN a - (a + b - c) ELSE a)
            => e <= c /\ (a + b - c > 0 <=> e - a < b)
      OBVIOUS
    <3>. QED
      BY <2>2, <2>4, <2>5, <3>1
  <2>. HIDE DEF over
  <2>7. /\ HasSession' /\ {"accum", "ring"} \subseteq DOMAIN session'
        /\ session'.runs = session.runs /\ session'.running = session.running
        /\ session'.mic = session.mic /\ session'.output = session.output
        /\ session'.underruns = session.underruns /\ session'.events = session.events
        /\ session'.accum = session.accum /\ session'.ring = kept \o frame
        /\ session'.overruns = IF over > 0 THEN CountUp(session.overruns) ELSE session.overruns
    BY <2>1 DEF SessionFits, HasSession, WindowsHolds
  <2>8. LossCounted
    <3>1. CASE over > 0
      BY <2>1, <2>6, <2>7, <3>1, Zenon DEF LossCounted
    <3>2. CASE ~(over > 0)
      BY <2>1, <2>6, <2>7, <3>2, Zenon DEF LossCounted
    <3>. QED
      BY <3>1, <3>2
  <2>9. SessionGoesOn
    BY <2>7, <2>8 DEF SessionGoesOn, SessionFits
  <2>. QED
    BY <1>0, <2>5, <2>6, <2>7, <2>9, GoingOnFits DEF WindowsHolds
<1>. QED
  BY <1>1, <1>2

LEMMA WindowsRoutesFit ==
  ASSUME WindowsFits, W!RouteSide PROVE WindowsFits'
<1>. USE DEF WindowsFits
<1>1. ASSUME session' = W!Recomputed, lost' = lost, PacketsUntouched PROVE WindowsFits'
  <2>1. CASE W!Mask = session.mask
    BY <1>1, <2>1, WindowsIdles DEF W!Recomputed
  <2>2. CASE W!Mask # session.mask
    <3>. DEFINE e == W!RoutesChanged(W!Mask)
    <3>1. \E route : session' = [session EXCEPT !.mask = W!Mask, !.route = route,
                                                !.events = PushEvent(@, e)]
      BY <1>1, <2>2, WindowsBuffersAre, Zenon DEF W!Recomputed
    <3>. HIDE DEF e
    <3>2. EventsChange(PushEvent(session.events, e)) /\ RingsUntouched
      BY <1>1, <3>1 DEF EventsChange, SessionFits, HasSession, WindowsHolds, RingsUntouched
    <3>. QED
      BY <1>1, <3>2, EventsChangeFits, QueueStaysBounded, WindowsGoesOn
  <2>. QED
    BY <2>1, <2>2
<1>2. CASE (\E c \in W!Clients : W!EngineSignals(c)) \/ W!EndpointsChange
  <2>1. UNCHANGED <<session, lost>> /\ PacketsUntouched
    BY <1>2 DEF W!EngineSignals, W!EndpointsChange, PacketsUntouched, WindowsHolds
  <2>. QED
    BY <2>1, WindowsIdles
<1>3. CASE W!OnDeviceStateChanged
  BY <1>1, <1>3 DEF W!OnDeviceStateChanged, PacketsUntouched, WindowsHolds
<1>4. CASE W!GetRoutes
  BY <1>1, <1>4 DEF W!GetRoutes, PacketsUntouched, WindowsHolds
<1>5. CASE W!PollEvent
  <2>1. /\ EventsChange(Tail(session.events)) /\ RingsUntouched /\ PacketsUntouched
        /\ session.events # <<>>
    BY <1>5 DEF W!PollEvent, W!Set, EventsChange, SessionFits, HasSession, WindowsHolds,
                RingsUntouched, PacketsUntouched
  <2>. QED
    BY <2>1, EventsChangeFits, QueueStaysBounded, WindowsGoesOn
<1>6. CASE W!SetRouteSwaps
  <2>1. /\ session' = [session EXCEPT !.client = world.made, !.route = world.target]
        /\ world' = [world EXCEPT !.old = session.client] /\ lost' = lost
    BY <1>6 DEF W!SetRouteSwaps
  <2>2. SessionGoesOn /\ RingsUntouched /\ PacketsUntouched
    BY <2>1 DEF SessionGoesOn, LossCounted, SessionFits, HasSession, WindowsHolds,
                RingsUntouched, PacketsUntouched
  <2>. QED
    BY <2>2, GoingOnFits, WindowsGoesOn
<1>7. CASE \/ \E route \in Routes \cup {W!UnknownRoute} :
                W!SetRouteAnswers(route) \/ W!SetRouteGoesOn(route)
           \/ W!SetRouteMakes \/ W!SetRouteStarts \/ W!SetRouteDropsOld
  <2>1. UNCHANGED <<session, lost>> /\ PacketsUntouched
    BY <1>7 DEF W!SetRouteAnswers, W!SetRouteGoesOn, W!SetRouteMakes, W!SetRouteStarts,
                W!SetRouteDropsOld, W!SetRouteEnds, PacketsUntouched, WindowsHolds
  <2>. QED
    BY <2>1, WindowsIdles
<1>. QED
  BY <1>2, <1>3, <1>4, <1>5, <1>6, <1>7 DEF W!RouteSide, W!SetRoute, W!SetRouteSteps

LEMMA WindowsStepFits ==
  ASSUME WindowsFits, WindowsStep PROVE WindowsFits'
<1>1. CASE W!CaptureSide
  <2>1. CASE W!ReadBegins
    BY <2>1, WindowsIdles DEF W!ReadBegins, PacketsUntouched, WindowsFits, WindowsHolds
  <2>. QED
    BY <1>1, <2>1, WindowsHearsFits, WindowsMuteFits DEF W!CaptureSide
<1>2. CASE W!PlaybackSide
  <2>1. CASE \E c \in W!Clients : W!EngineSignals(c)
    <3>1. UNCHANGED <<session, lost>> /\ PacketsUntouched
      BY <2>1 DEF W!EngineSignals, PacketsUntouched, WindowsFits, WindowsHolds
    <3>. QED
      BY <3>1, WindowsIdles
  <2>. QED
    BY <1>2, <2>1, WindowsWriteFits, WindowsMuteFits DEF W!PlaybackSide
<1>. QED
  BY <1>1, <1>2, WindowsLifecycleFits, WindowsReadFits, WindowsRoutesFit DEF WindowsStep

-----------------------------------------------------------------------------
(* Android *)

LEMMA AndroidBuffersAre ==
  /\ \A n, sound, run : D!Heard(n, sound, run) = Heard(n, sound, run)
  /\ \A n, run : D!Silence(n, run) = Silence(n, run)
  /\ \A n, s : D!Newest(n, s) = Newest(n, s)
  /\ \A n : D!CountUp(n) = CountUp(n)
  /\ \A q, e : D!PushEvent(q, e) = PushEvent(q, e)
  /\ D!Runs = 1 .. MaxStarts
<1>1. \A n, sound, run : D!Heard(n, sound, run) = Heard(n, sound, run)
  BY DEF D!Heard, Heard, D!Unit, Unit
<1>2. \A n, run : D!Silence(n, run) = Silence(n, run)
  BY DEF D!Silence, Silence, D!Unit, Unit
<1>3. \A n, s : D!Newest(n, s) = Newest(n, s)
  BY DEF D!Newest, Newest, D!Behind, Behind
<1>4. \A n : D!CountUp(n) = CountUp(n)
  BY DEF D!CountUp, CountUp
<1>5. \A q, e : D!PushEvent(q, e) = PushEvent(q, e)
  BY DEF D!PushEvent, PushEvent
<1>. QED
  BY <1>1, <1>2, <1>3, <1>4, <1>5 DEF D!Runs

(* A ring that a frame is offered to keeps its bound, and its length only
   when it was full. *)
LEMMA OfferedFits ==
  ASSUME NEW S, NEW ring \in Seq(S), Len(ring) <= RingFrames, NEW frame \in S
  PROVE  /\ D!Offered(ring, frame) \in Seq(S) /\ Len(D!Offered(ring, frame)) <= RingFrames
         /\ D!IsFull(ring) <=> Len(D!Offered(ring, frame)) = Len(ring)
<1>. DEFINE all == Append(ring, frame)
<1>1. /\ all \in Seq(S) /\ Len(all) = Len(ring) + 1 /\ Len(ring) \in Nat
      /\ RingFrames \in Nat \ {0}
  BY BufferBounds
<1>2. D!Offered(ring, frame) = Newest(RingFrames, all)
  BY AndroidBuffersAre DEF D!Offered
<1>. HIDE DEF all
<1>3. /\ Newest(RingFrames, all) \in Seq(S)
      /\ Len(Newest(RingFrames, all)) = IF Len(all) > RingFrames THEN RingFrames ELSE Len(all)
  BY <1>1, NewestIsSuffix
<1>. QED
  BY <1>1, <1>2, <1>3 DEF D!IsFull

-----------------------------------------------------------------------------
(* How much of a ring is of a kind *)

BadIn(ring, bad) == {i \in DOMAIN ring : ring[i] \in bad}

LEMMA BadIsFinite ==
  ASSUME NEW S, NEW ring \in Seq(S), NEW bad
  PROVE  IsFiniteSet(BadIn(ring, bad)) /\ Cardinality(BadIn(ring, bad)) \in Nat
<1>1. DOMAIN ring = 1 .. Len(ring) /\ Len(ring) \in Nat
  OBVIOUS
<1>2. IsFiniteSet(1 .. Len(ring))
  BY <1>1, FS_Interval
<1>3. BadIn(ring, bad) \in SUBSET (1 .. Len(ring))
  BY <1>1 DEF BadIn
<1>4. IsFiniteSet(BadIn(ring, bad))
  BY <1>2, <1>3, FS_Subset
<1>. QED
  BY <1>4, FS_CardinalityType

LEMMA ShiftedIsFewer ==
  ASSUME NEW S, IsFiniteSet(S), NEW T \in SUBSET Nat, NEW k \in Nat, \A i \in T : i + k \in S
  PROVE  Cardinality(T) <= Cardinality(S)
<1>. DEFINE f == [i \in T |-> i + k]
<1>1. f \in Injection(T, S)
  <2>1. f \in [T -> S]
    OBVIOUS
  <2>2. \A i, j \in T : f[i] = f[j] => i = j
    OBVIOUS
  <2>. QED
    BY <2>1, <2>2 DEF Injection, IsInjective
<1>. QED
  BY <1>1, FS_Injection

LEMMA BehindHasFewer ==
  ASSUME NEW S, NEW ring \in Seq(S), NEW bad, NEW n \in 1 .. Len(ring)
  PROVE  Cardinality(BadIn(Behind(n, ring), bad)) <= Cardinality(BadIn(ring, bad))
<1>. DEFINE rest == Behind(n, ring)
<1>1. /\ rest \in Seq(S) /\ Len(rest) = Len(ring) - n
      /\ \A i \in 1 .. Len(ring) - n : rest[i] = ring[i + n]
  BY DEF Behind
<1>2. DOMAIN rest = 1 .. Len(ring) - n /\ DOMAIN ring = 1 .. Len(ring) /\ Len(ring) \in Nat
  BY <1>1
<1>. HIDE DEF rest
<1>3. BadIn(rest, bad) \in SUBSET Nat
  BY <1>2 DEF BadIn
<1>4. \A i \in BadIn(rest, bad) : i + n \in BadIn(ring, bad)
  BY <1>1, <1>2 DEF BadIn
<1>5. IsFiniteSet(BadIn(ring, bad)) /\ n \in Nat
  BY BadIsFinite
<1>. QED
  BY <1>3, <1>4, <1>5, ShiftedIsFewer DEF rest

LEMMA TailHasFewer ==
  ASSUME NEW S, NEW ring \in Seq(S), NEW bad, ring # <<>>
  PROVE  Cardinality(BadIn(Tail(ring), bad)) <= Cardinality(BadIn(ring, bad))
<1>1. 1 \in 1 .. Len(ring)
  OBVIOUS
<1>2. Tail(ring) = Behind(1, ring)
  BY DEF Behind
<1>. QED
  BY <1>1, <1>2, BehindHasFewer

LEMMA OfferedHasFew ==
  ASSUME NEW S, NEW ring \in Seq(S), NEW frame \in S, NEW bad, Len(ring) <= RingFrames
  PROVE  Cardinality(BadIn(D!Offered(ring, frame), bad))
           <= Cardinality(BadIn(ring, bad)) + (IF frame \in bad THEN 1 ELSE 0)
<1>. DEFINE all == Append(ring, frame)
            olds == BadIn(ring, bad)
<1>1. /\ all \in Seq(S) /\ Len(all) = Len(ring) + 1 /\ Len(ring) \in Nat
      /\ DOMAIN all = 1 .. Len(ring) + 1 /\ DOMAIN ring = 1 .. Len(ring)
      /\ \A i \in 1 .. Len(ring) : all[i] = ring[i]
      /\ all[Len(ring) + 1] = frame
  OBVIOUS
<1>. HIDE DEF all
<1>2. BadIn(all, bad) = olds \cup (IF frame \in bad THEN {Len(ring) + 1} ELSE {})
  BY <1>1 DEF BadIn
<1>3. Cardinality(olds) \in Nat /\ IsFiniteSet(olds)
  BY BadIsFinite
<1>4. Len(ring) + 1 \notin olds
  BY <1>1 DEF BadIn
<1>. HIDE DEF olds
<1>5. Cardinality(BadIn(all, bad)) = Cardinality(olds) + (IF frame \in bad THEN 1 ELSE 0)
  <2>1. CASE frame \in bad
    <3>1. BadIn(all, bad) = olds \cup {Len(ring) + 1}
      BY <1>2, <2>1
    <3>. QED
      BY <1>3, <1>4, <2>1, <3>1, FS_AddElement
  <2>2. CASE frame \notin bad
    <3>1. BadIn(all, bad) = olds
      BY <1>2, <2>2
    <3>. QED
      BY <1>3, <2>2, <3>1
  <2>. QED
    BY <2>1, <2>2
<1>6. D!Offered(ring, frame) = Newest(RingFrames, all)
  BY AndroidBuffersAre DEF D!Offered, all
<1>7. CASE Len(all) > RingFrames
  <2>. DEFINE k == Len(all) - RingFrames
  <2>1. k \in 1 .. Len(all) /\ Newest(RingFrames, all) = Behind(k, all)
    BY <1>1, <1>7, BufferBounds DEF Newest
  <2>. HIDE DEF k
  <2>2. Cardinality(BadIn(Behind(k, all), bad)) <= Cardinality(BadIn(all, bad))
    BY <1>1, <2>1, BehindHasFewer
  <2>. QED
    BY <1>5, <1>6, <2>1, <2>2 DEF olds
<1>8. CASE ~(Len(all) > RingFrames)
  <2>1. Newest(RingFrames, all) = all
    BY <1>8 DEF Newest
  <2>. QED
    BY <1>3, <1>5, <1>6, <2>1 DEF olds
<1>. QED
  BY <1>7, <1>8

-----------------------------------------------------------------------------
(* What the rings and the hands of Android hold *)

Frames == Seq(HeardUnits)
CapturePcs == {"gone", "looking", "reading", "offering"}
CaptureThreads == [D!Runs -> [pc : CapturePcs, slot : Frames]]

AndroidHolds ==
    /\ {"cap", "pb"} \subseteq DOMAIN session
    /\ session.cap \in Seq(Frames) /\ Len(session.cap) <= RingFrames
    /\ session.pb \in Seq(Nat) /\ Len(session.pb) <= RingFrames

HandsHold ==
    /\ {"cap", "writing"} \subseteq DOMAIN thread
    /\ thread.cap \in CaptureThreads /\ thread.writing \in Nat

(* A start that has begun finds room for its run. *)
StartHasRoom == stage \in {"recording", "playing"} => session.runs < MaxStarts

AndroidFits == SessionFits /\ AndroidHolds /\ HandsHold /\ StartHasRoom

(* What is of an earlier start: frames in hand and in the rings. *)
OldFrames(run) == {f \in Frames : \E i \in DOMAIN f : f[i].run # run}
OldSlots(cap, run) == {r \in D!Runs : cap[r].slot \in OldFrames(run)}
HandOf(cap, writing, run) ==
    Cardinality(OldSlots(cap, run)) + IF writing \in {0, run} THEN 0 ELSE 1
RingsOf(cap, pb, run) ==
    Cardinality(BadIn(cap, OldFrames(run))) + Cardinality(BadIn(pb, Nat \ {run}))

Left ==
    HandOf(thread.cap, thread.writing, session.runs)
      + RingsOf(session.cap, session.pb, session.runs)

LEMMA CardinalityIs == \A S : D!Cardinality(S) = Cardinality(S)
BY Zenon DEF D!Cardinality, Cardinality

LEMMA SlotsAreFinite ==
  ASSUME NEW cap, NEW run
  PROVE  IsFiniteSet(OldSlots(cap, run)) /\ Cardinality(OldSlots(cap, run)) \in Nat
<1>1. IsFiniteSet(1 .. MaxStarts)
  BY FS_Interval, BufferBounds
<1>2. OldSlots(cap, run) \in SUBSET (1 .. MaxStarts)
  BY AndroidBuffersAre DEF OldSlots
<1>3. IsFiniteSet(OldSlots(cap, run))
  BY <1>1, <1>2, FS_Subset
<1>. QED
  BY <1>3, FS_CardinalityType

(* The counts of the model are these. *)
LeftIsCounted ==
    /\ D!InHand = HandOf(thread.cap, thread.writing, session.runs)
    /\ D!Leftovers = Left
    /\ HandOf(thread.cap, thread.writing, session.runs) \in Nat
    /\ RingsOf(session.cap, session.pb, session.runs) \in Nat

LEMMA LeftoversAreCounted == AndroidFits => LeftIsCounted
<1>. SUFFICES ASSUME AndroidFits PROVE LeftIsCounted
  OBVIOUS
<1>1. \A f \in Frames : D!Old(f) <=> f \in OldFrames(session.runs)
  BY DEF D!Old, OldFrames
<1>2. \A r \in D!Runs : thread.cap[r].slot \in Frames
  BY DEF AndroidFits, HandsHold, CaptureThreads
<1>3. {r \in D!Runs : D!Old(thread.cap[r].slot)} = OldSlots(thread.cap, session.runs)
  BY <1>1, <1>2 DEF OldSlots
<1>4. \A i \in DOMAIN session.cap : session.cap[i] \in Frames
  BY DEF AndroidFits, AndroidHolds
<1>5. {i \in DOMAIN session.cap : D!Old(session.cap[i])}
        = BadIn(session.cap, OldFrames(session.runs))
  BY <1>1, <1>4 DEF BadIn
<1>6. \A i \in DOMAIN session.pb : session.pb[i] \in Nat
  BY DEF AndroidFits, AndroidHolds
<1>7. {i \in DOMAIN session.pb : session.pb[i] # session.runs}
        = BadIn(session.pb, Nat \ {session.runs})
  BY <1>6 DEF BadIn
<1>8. D!InHand = HandOf(thread.cap, thread.writing, session.runs)
  BY <1>3, CardinalityIs, Zenon DEF D!InHand, HandOf
<1>9. /\ Cardinality(BadIn(session.cap, OldFrames(session.runs))) \in Nat
      /\ Cardinality(BadIn(session.pb, Nat \ {session.runs})) \in Nat
      /\ Cardinality(OldSlots(thread.cap, session.runs)) \in Nat
  BY BadIsFinite, SlotsAreFinite DEF AndroidFits, AndroidHolds
<1>10. /\ HandOf(thread.cap, thread.writing, session.runs) \in Nat
       /\ RingsOf(session.cap, session.pb, session.runs) \in Nat
  BY <1>9 DEF HandOf, RingsOf
<1>11. D!Leftovers = Left
  <2>1. D!Leftovers = D!InHand + Cardinality(BadIn(session.cap, OldFrames(session.runs)))
                        + Cardinality(BadIn(session.pb, Nat \ {session.runs}))
    BY <1>5, <1>7, CardinalityIs, Zenon DEF D!Leftovers
  <2>. QED
    BY <1>8, <1>9, <1>10, <2>1 DEF Left, RingsOf
<1>. QED
  BY <1>8, <1>10, <1>11 DEF LeftIsCounted

(* A thread's slot after a step: of an earlier start only if it was before. *)
LEMMA SlotChanges ==
  ASSUME NEW cap \in CaptureThreads, NEW r \in D!Runs, NEW run,
         NEW t \in [pc : CapturePcs, slot : Frames],
         t.slot \in OldFrames(run) => cap[r].slot \in OldFrames(run)
  PROVE  /\ [cap EXCEPT ![r] = t] \in CaptureThreads
         /\ Cardinality(OldSlots([cap EXCEPT ![r] = t], run)) <= Cardinality(OldSlots(cap, run))
<1>1. [cap EXCEPT ![r] = t] \in CaptureThreads
  BY DEF CaptureThreads
<1>2. OldSlots([cap EXCEPT ![r] = t], run) \in SUBSET OldSlots(cap, run)
  BY DEF OldSlots, CaptureThreads
<1>. QED
  BY <1>1, <1>2, SlotsAreFinite, FS_Subset

LEMMA EmptyIsNotOld ==
  ASSUME NEW run PROVE <<>> \in Frames /\ <<>> \notin OldFrames(run)
BY DEF Frames, OldFrames

LEMMA SlotIsOffered ==
  ASSUME NEW cap \in CaptureThreads, NEW r \in D!Runs, NEW run, NEW t,
         t = [pc |-> "looking", slot |-> <<>>]
  PROVE  /\ [cap EXCEPT ![r] = t] \in CaptureThreads
         /\ Cardinality(OldSlots([cap EXCEPT ![r] = t], run))
              = Cardinality(OldSlots(cap, run)) - (IF cap[r].slot \in OldFrames(run) THEN 1 ELSE 0)
<1>1. [cap EXCEPT ![r] = t] \in CaptureThreads
  BY EmptyIsNotOld DEF CaptureThreads, CapturePcs
<1>2. OldSlots([cap EXCEPT ![r] = t], run) = OldSlots(cap, run) \ {r}
  BY EmptyIsNotOld DEF OldSlots, CaptureThreads
<1>3. r \in OldSlots(cap, run) <=> cap[r].slot \in OldFrames(run)
  BY DEF OldSlots
<1>4. IsFiniteSet(OldSlots(cap, run)) /\ Cardinality(OldSlots(cap, run)) \in Nat
  BY SlotsAreFinite
<1>5. Cardinality(OldSlots(cap, run) \ {r})
        = IF r \in OldSlots(cap, run) THEN Cardinality(OldSlots(cap, run)) - 1
          ELSE Cardinality(OldSlots(cap, run))
  BY <1>4, FS_RemoveElement
<1>6. CASE r \in OldSlots(cap, run)
  BY <1>1, <1>2, <1>3, <1>5, <1>6
<1>7. CASE r \notin OldSlots(cap, run)
  <2>1. Cardinality(OldSlots([cap EXCEPT ![r] = t], run)) = Cardinality(OldSlots(cap, run))
    BY <1>2, <1>5, <1>7
  <2>. QED
    BY <1>1, <1>3, <1>4, <1>7, <2>1
<1>. QED
  BY <1>6, <1>7

(* A step under one start adds nothing of an earlier one. *)
AddsNothingOld == session'.runs = session.runs /\ Left' <= Left

LEMMA PartsAddNothing ==
  ASSUME AndroidFits, session'.runs = session.runs,
         HandOf(thread'.cap, thread'.writing, session.runs)
           <= HandOf(thread.cap, thread.writing, session.runs),
         RingsOf(session'.cap, session'.pb, session.runs)
           <= RingsOf(session.cap, session.pb, session.runs),
         AndroidFits'
  PROVE  AddsNothingOld
<1>1. LeftIsCounted
  BY LeftoversAreCounted
<1>2. LeftIsCounted'
  BY LeftoversAreCounted, PTL
<1>. QED
  BY <1>1, <1>2 DEF LeftIsCounted, AddsNothingOld, Left

HandsUntouched ==
    /\ {"cap", "writing"} \subseteq DOMAIN thread'
    /\ thread'.cap = thread.cap /\ thread'.writing = thread.writing

FramesUntouched ==
    /\ {"cap", "pb"} \subseteq DOMAIN session'
    /\ session'.cap = session.cap /\ session'.pb = session.pb

LEMMA AndroidGoesOn ==
  ASSUME AndroidFits, SessionFits', session'.runs = session.runs, FramesUntouched,
         HandsUntouched, StartHasRoom'
  PROVE  AndroidFits' /\ AddsNothingOld
<1>1. AndroidFits'
  BY DEF AndroidFits, AndroidHolds, HandsHold, FramesUntouched, HandsUntouched
<1>2. Left' = Left
  BY DEF Left, FramesUntouched, HandsUntouched
<1>3. Left \in Nat
  BY LeftoversAreCounted DEF LeftIsCounted, Left
<1>. QED
  BY <1>1, <1>2, <1>3 DEF AddsNothingOld

LEMMA EmptyRingsHoldNothing ==
  ASSUME NEW run PROVE RingsOf(<<>>, <<>>, run) = 0
<1>1. \A bad : BadIn(<<>>, bad) = {}
  BY DEF BadIn
<1>2. Cardinality({}) = 0
  BY FS_EmptySet
<1>3. \A bad : Cardinality(BadIn(<<>>, bad)) = 0
  BY <1>1, <1>2, Zenon
<1>. QED
  BY <1>3 DEF RingsOf

LEMMA EmptyRingsFit ==
  ASSUME {"cap", "pb"} \subseteq DOMAIN session', session'.cap = <<>>, session'.pb = <<>>
  PROVE  AndroidHolds'
<1>1. <<>> \in Seq(Frames) /\ <<>> \in Seq(Nat) /\ Len(<<>>) <= RingFrames
  BY BufferBounds
<1>. QED
  BY <1>1, Zenon DEF AndroidHolds

LEMMA CountsAreNatural ==
  ASSUME AndroidFits
  PROVE  /\ HandOf(thread.cap, thread.writing, session.runs) \in Nat
         /\ RingsOf(session.cap, session.pb, session.runs) \in Nat
BY LeftoversAreCounted DEF LeftIsCounted

(* A step of which the session keeps everything that is spoken of here *)
LEMMA AndroidIdles ==
  ASSUME AndroidFits, UNCHANGED <<session, lost>>, HandsUntouched, StartHasRoom'
  PROVE  AndroidFits' /\ AddsNothingOld
<1>1. SessionFits' /\ FramesUntouched
  BY DEF AndroidFits, SessionFits, HasSession, FramesUntouched, AndroidHolds
<1>. QED
  BY <1>1, AndroidGoesOn

(* A new run starts with empty rings. *)
BeginsEmpty ==
    session'.runs > session.runs /\ RingsOf(session'.cap, session'.pb, session'.runs) = 0

LEMMA AndroidStartFits ==
  ASSUME AndroidFits, D!OpenRefused \/ D!Open \/ D!Start \/ D!StartFails \/ D!StartRecords
  PROVE  AndroidFits' /\ AddsNothingOld
<1>1. UNCHANGED <<session, thread, lost>>
  BY DEF D!OpenRefused, D!Open, D!Start, D!StartFails, D!StartRecords
<1>2. stage' \in {stage, "done"} \/ session.runs < MaxStarts
  BY DEF D!OpenRefused, D!Open, D!Start, D!StartFails, D!StartRecords, AndroidFits, StartHasRoom
<1>3. StartHasRoom'
  BY <1>1, <1>2 DEF AndroidFits, StartHasRoom
<1>. QED
  BY <1>1, <1>3, AndroidIdles DEF HandsUntouched, AndroidFits, HandsHold

LEMMA StartPlaysFits ==
  ASSUME AndroidFits, D!StartPlays PROVE AndroidFits' /\ BeginsEmpty
<1>. USE DEF AndroidFits
<1>1. /\ session' = [D!Emptied(session) EXCEPT
                       !.gone = FALSE, !.running = TRUE, !.runs = @ + 1]
      /\ UNCHANGED <<thread, lost>> /\ stage' = "counting" /\ session.runs < MaxStarts
  BY DEF D!StartPlays, StartHasRoom
<1>2. /\ HasSession' /\ session'.runs = session.runs + 1 /\ session'.running \in BOOLEAN
      /\ session'.mic = session.mic /\ session'.output = session.output
      /\ session'.underruns = session.underruns /\ session'.overruns = session.overruns
      /\ session'.events = session.events
      /\ {"cap", "pb"} \subseteq DOMAIN session' /\ session'.cap = <<>> /\ session'.pb = <<>>
  BY <1>1 DEF D!Emptied, SessionFits, HasSession, AndroidHolds
<1>3. SessionFits'
  BY <1>1, <1>2, StartedSessionFits
<1>4. AndroidHolds' /\ HandsHold' /\ StartHasRoom'
  BY <1>1, <1>2, EmptyRingsFit DEF HandsHold, StartHasRoom
<1>5. BeginsEmpty
  BY <1>2, EmptyRingsHoldNothing DEF BeginsEmpty, SessionFits
<1>. QED
  BY <1>3, <1>4, <1>5

LEMMA StartCountsFits ==
  ASSUME AndroidFits, D!StartCounts PROVE AndroidFits' /\ AddsNothingOld
<1>. USE DEF AndroidFits
<1>. DEFINE t == [thread.cap[session.runs] EXCEPT !.pc = "looking"]
            cap == [thread.cap EXCEPT ![session.runs] = t]
<1>1. /\ session' = [session EXCEPT !["gen"] = session.runs]
      /\ thread' = [thread EXCEPT !.cap[session.runs].pc = "looking",
                                  !.play[session.runs] = "looking"]
      /\ lost' = lost /\ stage' = "done"
  BY DEF D!StartCounts, D!Set
<1>2. /\ "cap" \in DOMAIN thread' /\ "writing" \in DOMAIN thread'
      /\ thread'.writing = thread.writing /\ thread'.cap = cap
  BY <1>1 DEF HandsHold
<1>3. /\ cap \in CaptureThreads
      /\ Cardinality(OldSlots(cap, session.runs)) <= Cardinality(OldSlots(thread.cap, session.runs))
  <2>1. CASE session.runs \in D!Runs
    <3>1. /\ t \in [pc : CapturePcs, slot : Frames] /\ t.slot = thread.cap[session.runs].slot
      BY <2>1 DEF HandsHold, CaptureThreads, CapturePcs
    <3>. HIDE DEF t
    <3>. QED
      BY <2>1, <3>1, SlotChanges DEF HandsHold
  <2>2. CASE session.runs \notin D!Runs
    <3>1. cap = thread.cap
      BY <2>2 DEF HandsHold, CaptureThreads
    <3>. HIDE DEF cap
    <3>. QED
      BY <3>1, SlotsAreFinite DEF HandsHold
  <2>. QED
    BY <2>1, <2>2
<1>. HIDE DEF cap
<1>4. SessionGoesOn /\ FramesUntouched
  BY <1>1 DEF SessionGoesOn, LossCounted, SessionFits, HasSession, AndroidHolds, FramesUntouched
<1>5. SessionFits'
  BY <1>4, GoingOnFits
<1>6. AndroidFits'
  BY <1>1, <1>2, <1>3, <1>4, <1>5
  DEF AndroidHolds, HandsHold, StartHasRoom, FramesUntouched
<1>7. HandOf(thread'.cap, thread'.writing, session.runs)
        <= HandOf(thread.cap, thread.writing, session.runs)
  <2>1. /\ Cardinality(OldSlots(cap, session.runs)) \in Nat
        /\ Cardinality(OldSlots(thread.cap, session.runs)) \in Nat
    BY SlotsAreFinite
  <2>. QED
    BY <1>2, <1>3, <2>1 DEF HandOf
<1>8. RingsOf(session'.cap, session'.pb, session.runs)
        <= RingsOf(session.cap, session.pb, session.runs)
  BY <1>4, CountsAreNatural DEF FramesUntouched
<1>. QED
  BY <1>4, <1>6, <1>7, <1>8, PartsAddNothing DEF SessionGoesOn

LEMMA AndroidStopFits ==
  ASSUME AndroidFits, D!Stop PROVE AndroidFits' /\ AddsNothingOld
<1>. USE DEF AndroidFits
<1>1. /\ session' = [session EXCEPT !["running"] = FALSE] /\ UNCHANGED <<thread, lost>>
      /\ stage' \in {stage, "stopping"}
  BY DEF D!Stop, D!Set
<1>2. SessionGoesOn /\ FramesUntouched
  BY <1>1 DEF SessionGoesOn, LossCounted, SessionFits, HasSession, AndroidHolds, FramesUntouched
<1>3. StartHasRoom'
  BY <1>1, <1>2 DEF StartHasRoom, SessionGoesOn
<1>4. HandsUntouched /\ session'.runs = session.runs
  BY <1>1, <1>2 DEF HandsUntouched, HandsHold, SessionGoesOn
<1>. QED
  BY <1>2, <1>3, <1>4, GoingOnFits, AndroidGoesOn

LEMMA StopEndsFits ==
  ASSUME AndroidFits, D!StopEnds PROVE AndroidFits' /\ AddsNothingOld
<1>. USE DEF AndroidFits
<1>1. session' = D!Emptied(session) /\ UNCHANGED <<thread, lost>> /\ stage' = "done"
  BY DEF D!StopEnds
<1>2. /\ SessionGoesOn /\ {"cap", "pb"} \subseteq DOMAIN session'
      /\ session'.cap = <<>> /\ session'.pb = <<>>
  BY <1>1 DEF SessionGoesOn, LossCounted, SessionFits, HasSession, AndroidHolds, D!Emptied
<1>3. AndroidHolds' /\ HandsHold' /\ StartHasRoom'
  BY <1>1, <1>2, EmptyRingsFit DEF HandsHold, StartHasRoom
<1>4. RingsOf(session'.cap, session'.pb, session.runs) = 0
  BY <1>2, EmptyRingsHoldNothing
<1>5. AndroidFits' /\ session'.runs = session.runs
  BY <1>2, <1>3, GoingOnFits DEF SessionGoesOn
<1>. QED
  BY <1>1, <1>4, <1>5, CountsAreNatural, PartsAddNothing

LEMMA AndroidCloseFits ==
  ASSUME AndroidFits, D!Close PROVE AndroidFits' /\ AddsNothingOld
<1>. USE DEF AndroidFits
<1>1. /\ session' = [D!Closed EXCEPT !.runs = session.runs, !.gen = session.runs]
      /\ thread' = D!NoThreads /\ lost' = 0 /\ stage' = "none"
  BY DEF D!Close
<1>2. /\ HasSession' /\ session'.runs = session.runs
      /\ session'.running \in BOOLEAN /\ session'.mic \in BOOLEAN /\ session'.output \in BOOLEAN
      /\ session'.underruns = 0 /\ session'.overruns = 0 /\ session'.events = <<>>
      /\ {"cap", "pb"} \subseteq DOMAIN session' /\ session'.cap = <<>> /\ session'.pb = <<>>
  BY <1>1 DEF D!Closed, HasSession
<1>3. SessionFits'
  BY <1>1, <1>2, ClosedSessionFits
<1>4. AndroidHolds' /\ StartHasRoom'
  BY <1>1, <1>2, EmptyRingsFit DEF StartHasRoom
<1>5. /\ {"cap", "writing"} \subseteq DOMAIN thread' /\ thread'.writing = 0
      /\ thread'.cap = [r \in D!Runs |-> [pc |-> "gone", slot |-> <<>>]]
  BY <1>1 DEF D!NoThreads
<1>6. HandsHold'
  <2>1. [pc |-> "gone", slot |-> <<>>] \in [pc : CapturePcs, slot : Frames]
    BY EmptyIsNotOld DEF CapturePcs
  <2>2. thread'.cap \in CaptureThreads
    BY <1>5, <2>1 DEF CaptureThreads
  <2>. QED
    BY <1>5, <2>2 DEF HandsHold
<1>7. OldSlots(thread'.cap, session.runs) = {}
  BY <1>5, EmptyIsNotOld DEF OldSlots
<1>8. HandOf(thread'.cap, thread'.writing, session.runs) = 0
  <2>1. Cardinality(OldSlots(thread'.cap, session.runs)) = 0
    BY <1>7, FS_EmptySet, Zenon
  <2>. QED
    BY <1>5, <2>1 DEF HandOf
<1>9. RingsOf(session'.cap, session'.pb, session.runs) = 0
  BY <1>2, EmptyRingsHoldNothing
<1>. QED
  BY <1>2, <1>3, <1>4, <1>6, <1>8, <1>9, CountsAreNatural, PartsAddNothing

LEMMA AndroidLifecycleFits ==
  ASSUME AndroidFits, D!Lifecycle PROVE AndroidFits' /\ (AddsNothingOld \/ BeginsEmpty)
BY AndroidStartFits, StartPlaysFits, StartCountsFits, AndroidStopFits, StopEndsFits,
   AndroidCloseFits
DEF D!Lifecycle, D!ControlSteps

-----------------------------------------------------------------------------
(* The capture threads of Android *)

(* A thread's turn that fills or empties its slot *)
LEMMA SlotTurnFits ==
  ASSUME AndroidFits, NEW r \in D!Runs, NEW t \in [pc : CapturePcs, slot : Frames],
         t.slot \in OldFrames(session.runs) => thread.cap[r].slot \in OldFrames(session.runs),
         thread' = [thread EXCEPT !.cap[r] = t], SessionFits', session'.runs = session.runs,
         FramesUntouched, stage' = stage
  PROVE  AndroidFits' /\ AddsNothingOld
<1>. USE DEF AndroidFits
<1>. DEFINE cap == [thread.cap EXCEPT ![r] = t]
<1>1. /\ {"cap", "writing"} \subseteq DOMAIN thread'
      /\ thread'.writing = thread.writing /\ thread'.cap = cap
  BY DEF HandsHold
<1>2. /\ cap \in CaptureThreads
      /\ Cardinality(OldSlots(cap, session.runs)) <= Cardinality(OldSlots(thread.cap, session.runs))
  BY SlotChanges DEF HandsHold
<1>. HIDE DEF cap
<1>3. AndroidFits'
  BY <1>1, <1>2 DEF AndroidHolds, HandsHold, StartHasRoom, FramesUntouched
<1>4. HandOf(thread'.cap, thread'.writing, session.runs)
        <= HandOf(thread.cap, thread.writing, session.runs)
  <2>1. /\ Cardinality(OldSlots(cap, session.runs)) \in Nat
        /\ Cardinality(OldSlots(thread.cap, session.runs)) \in Nat
    BY SlotsAreFinite
  <2>. QED
    BY <1>1, <1>2, <2>1 DEF HandOf
<1>5. RingsOf(session'.cap, session'.pb, session.runs)
        <= RingsOf(session.cap, session.pb, session.runs)
  BY CountsAreNatural DEF FramesUntouched
<1>. QED
  BY <1>3, <1>4, <1>5, PartsAddNothing

LEMMA CaptureLooksFits ==
  ASSUME AndroidFits, NEW r \in D!Runs, D!CaptureLooks(r)
  PROVE  AndroidFits' /\ AddsNothingOld
<1>. DEFINE t == thread.cap[r]
            u == IF D!MayGoOn(r) THEN [t EXCEPT !.pc = "reading"]
                 ELSE IF t.slot # <<>> THEN [t EXCEPT !.slot = <<>>]
                 ELSE [t EXCEPT !.pc = "gone"]
<1>1. thread' = [thread EXCEPT !.cap[r] = u] /\ UNCHANGED <<stage, session, lost>>
  BY DEF D!CaptureLooks
<1>2. t \in [pc : CapturePcs, slot : Frames]
  BY DEF AndroidFits, HandsHold, CaptureThreads
<1>3. u \in [pc : CapturePcs, slot : Frames] /\ u.slot \in {t.slot, <<>>}
  BY <1>2, EmptyIsNotOld DEF CapturePcs
<1>. HIDE DEF u
<1>4. u.slot \in OldFrames(session.runs) => thread.cap[r].slot \in OldFrames(session.runs)
  BY <1>3, EmptyIsNotOld
<1>5. SessionFits' /\ session'.runs = session.runs /\ FramesUntouched
  BY <1>1 DEF AndroidFits, SessionFits, HasSession, FramesUntouched, AndroidHolds
<1>. QED
  BY <1>1, <1>3, <1>4, <1>5, SlotTurnFits

LEMMA CaptureReadsFits ==
  ASSUME AndroidFits, NEW r \in D!Runs, D!CaptureReads(r)
  PROVE  AndroidFits' /\ AddsNothingOld
<1>. DEFINE slot == thread.cap[r].slot
<1>0. PICK n \in 0 .. FrameUnits - Len(slot) :
        thread' = [thread EXCEPT !.cap[r] =
          [pc |-> IF Len(slot \o Heard(n, "speech", session.runs)) = FrameUnits
                  THEN "offering" ELSE "looking",
           slot |-> slot \o Heard(n, "speech", session.runs)]]
  BY AndroidBuffersAre DEF D!CaptureReads
<1>. DEFINE heard == Heard(n, "speech", session.runs)
            t == [pc |-> IF Len(slot \o heard) = FrameUnits THEN "offering" ELSE "looking",
                  slot |-> slot \o heard]
<1>1. slot \in Seq(HeardUnits)
  BY DEF AndroidFits, HandsHold, CaptureThreads, Frames
<1>2. /\ heard \in Seq(Units({"speech"}, {session.runs})) /\ heard \in Seq(HeardUnits)
      /\ Len(heard) \in Nat
  <2>1. n \in Nat /\ session.runs \in Nat
    BY <1>1, BufferBounds DEF AndroidFits, SessionFits
  <2>2. Units({"speech"}, {session.runs}) \subseteq HeardUnits
    BY <2>1 DEF HeardUnits, Units, Sounds
  <2>3. heard \in Seq(Units({"speech"}, {session.runs}))
    BY <2>1, HeardIsSequence
  <2>. HIDE DEF heard
  <2>4. heard \in Seq(HeardUnits)
    BY <2>2, <2>3, MoreUnits
  <2>5. Len(heard) \in Nat
    BY <2>4
  <2>. QED
    BY <2>3, <2>4, <2>5
<1>. HIDE DEF heard, slot
<1>3. slot \o heard \in Frames
  BY <1>1, <1>2, JoinedIsSequence DEF Frames
<1>4. t \in [pc : CapturePcs, slot : Frames] /\ t.slot = slot \o heard
  BY <1>3 DEF CapturePcs
<1>5. slot \o heard \in OldFrames(session.runs) => slot \in OldFrames(session.runs)
  <2>. SUFFICES ASSUME NEW i \in DOMAIN (slot \o heard), (slot \o heard)[i].run # session.runs
                PROVE  \E j \in DOMAIN slot : slot[j].run # session.runs
    BY <1>1 DEF OldFrames, Frames
  <2>1. \A u \in Units({"speech"}, {session.runs}) : u.run = session.runs
    BY DEF Units
  <2>2. \A j \in 1 .. Len(heard) : heard[j].run = session.runs
    <3>1. \A S : heard \in Seq(S) => \A j \in 1 .. Len(heard) : heard[j] \in S
      OBVIOUS
    <3>. QED
      BY <1>2, <2>1, <3>1, Zenon
  <2>3. CASE i <= Len(slot)
    BY <1>1, <1>2, <2>3
  <2>4. CASE ~(i <= Len(slot))
    <3>1. i - Len(slot) \in 1 .. Len(heard) /\ (slot \o heard)[i] = heard[i - Len(slot)]
      BY <1>1, <1>2, <2>4
    <3>. QED
      BY <2>2, <3>1
  <2>. QED
    BY <2>3, <2>4
<1>6. thread' = [thread EXCEPT !.cap[r] = t]
  BY <1>0 DEF heard
<1>. HIDE DEF t
<1>7. UNCHANGED <<stage, session, lost>>
  BY DEF D!CaptureReads
<1>8. SessionFits' /\ session'.runs = session.runs /\ FramesUntouched
  BY <1>7 DEF AndroidFits, SessionFits, HasSession, FramesUntouched, AndroidHolds
<1>. QED
  BY <1>4, <1>5, <1>6, <1>7, <1>8, SlotTurnFits DEF slot

LEMMA CaptureLosesFits ==
  ASSUME AndroidFits, NEW r \in D!Runs, D!CaptureLoses(r)
  PROVE  AndroidFits' /\ AddsNothingOld
<1>. DEFINE t == [pc |-> "gone", slot |-> <<>>]
<1>1. /\ thread' = [thread EXCEPT !.cap[r] = t]
      /\ session' = [session EXCEPT !["gone"] = TRUE] /\ UNCHANGED <<stage, lost>>
  BY DEF D!CaptureLoses, D!Set, D!NoThreads
<1>2. t \in [pc : CapturePcs, slot : Frames] /\ t.slot \notin OldFrames(session.runs)
  BY EmptyIsNotOld DEF CapturePcs
<1>. HIDE DEF t
<1>3. SessionGoesOn /\ FramesUntouched
  BY <1>1 DEF SessionGoesOn, LossCounted, AndroidFits, SessionFits, HasSession, AndroidHolds,
              FramesUntouched
<1>4. SessionFits' /\ session'.runs = session.runs
  BY <1>3, GoingOnFits DEF AndroidFits, SessionGoesOn
<1>. QED
  BY <1>1, <1>2, <1>3, <1>4, SlotTurnFits

LEMMA CaptureOffersFits ==
  ASSUME AndroidFits, NEW r \in D!Runs, D!CaptureOffers(r)
  PROVE  AndroidFits' /\ AddsNothingOld
<1>. USE DEF AndroidFits
<1>. DEFINE slot == thread.cap[r].slot
            t == [pc |-> "looking", slot |-> <<>>]
            ring == D!Offered(session.cap, slot)
            cap == [thread.cap EXCEPT ![r] = t]
            old == IF slot \in OldFrames(session.runs) THEN 1 ELSE 0
<1>1. /\ session' = [session EXCEPT !.cap = ring,
                       !.overruns = IF D!IsFull(session.cap) THEN CountUp(@) ELSE @]
      /\ lost' = IF Len(session'.cap) = Len(session.cap) THEN CountUp(lost) ELSE lost
      /\ thread' = [thread EXCEPT !.cap[r] = t]
      /\ stage' = stage
  BY AndroidBuffersAre, Zenon DEF D!CaptureOffers
<1>2. slot \in Frames
  BY DEF HandsHold, CaptureThreads
<1>. HIDE DEF slot
<1>3. /\ ring \in Seq(Frames) /\ Len(ring) <= RingFrames
      /\ D!IsFull(session.cap) <=> Len(ring) = Len(session.cap)
      /\ Cardinality(BadIn(ring, OldFrames(session.runs)))
           <= Cardinality(BadIn(session.cap, OldFrames(session.runs))) + old
  BY <1>2, OfferedFits, OfferedHasFew DEF AndroidHolds
<1>. HIDE DEF ring
<1>4. /\ cap \in CaptureThreads
      /\ Cardinality(OldSlots(cap, session.runs))
           = Cardinality(OldSlots(thread.cap, session.runs)) - old
  <2>1. thread.cap \in CaptureThreads
    BY DEF HandsHold
  <2>2. t = [pc |-> "looking", slot |-> <<>>]
    OBVIOUS
  <2>3. old = IF thread.cap[r].slot \in OldFrames(session.runs) THEN 1 ELSE 0
    BY DEF slot
  <2>. HIDE DEF t, old
  <2>. QED
    BY <2>1, <2>2, <2>3, SlotIsOffered
<1>5. /\ {"cap", "writing"} \subseteq DOMAIN thread'
      /\ thread'.writing = thread.writing /\ thread'.cap = cap
  BY <1>1 DEF HandsHold
<1>. HIDE DEF cap, t
<1>6. /\ HasSession' /\ {"cap", "pb"} \subseteq DOMAIN session'
      /\ session'.runs = session.runs /\ session'.running = session.running
      /\ session'.mic = session.mic /\ session'.output = session.output
      /\ session'.underruns = session.underruns /\ session'.events = session.events
      /\ session'.cap = ring /\ session'.pb = session.pb
      /\ session'.overruns = IF D!IsFull(session.cap) THEN CountUp(session.overruns)
                             ELSE session.overruns
  BY <1>1 DEF SessionFits, HasSession, AndroidHolds
<1>7. LossCounted
  <2>1. CASE D!IsFull(session.cap)
    BY <1>1, <1>3, <1>6, <2>1, Zenon DEF LossCounted
  <2>2. CASE ~D!IsFull(session.cap)
    BY <1>1, <1>3, <1>6, <2>2, Zenon DEF LossCounted
  <2>. QED
    BY <2>1, <2>2
<1>8. SessionFits'
  <2>1. SessionGoesOn
    BY <1>6, <1>7 DEF SessionGoesOn, SessionFits
  <2>. QED
    BY <2>1, GoingOnFits
<1>9. AndroidFits'
  BY <1>1, <1>3, <1>4, <1>5, <1>6, <1>8 DEF AndroidHolds, HandsHold, StartHasRoom
<1>10. Left' <= Left
  <2>1. /\ Cardinality(OldSlots(cap, session.runs)) \in Nat
        /\ Cardinality(OldSlots(thread.cap, session.runs)) \in Nat
        /\ Cardinality(BadIn(ring, OldFrames(session.runs))) \in Nat
        /\ Cardinality(BadIn(session.cap, OldFrames(session.runs))) \in Nat
        /\ Cardinality(BadIn(session.pb, Nat \ {session.runs})) \in Nat
        /\ old \in {0, 1}
    BY <1>3, SlotsAreFinite, BadIsFinite DEF AndroidHolds
  <2>. HIDE DEF old
  <2>2. Left' = HandOf(cap, thread.writing, session.runs) + RingsOf(ring, session.pb, session.runs)
    BY <1>5, <1>6 DEF Left
  <2>. QED
    BY <1>3, <1>4, <2>1, <2>2 DEF Left, HandOf, RingsOf
<1>. QED
  BY <1>6, <1>9, <1>10 DEF AddsNothingOld

-----------------------------------------------------------------------------
(* The other steps of Android *)

LEMMA AndroidMuteFits ==
  ASSUME AndroidFits, NEW side \in {"mic", "output"}, NEW muted \in Mutes, D!SetMuted(side, muted)
  PROVE  AndroidFits' /\ AddsNothingOld
<1>1. /\ session' = [session EXCEPT ![side] = muted] /\ UNCHANGED <<stage, thread, lost>>
      /\ muted \in BOOLEAN
  BY BoundsAssumption DEF D!SetMuted, D!Set
<1>2. SessionGoesOn /\ FramesUntouched
  BY <1>1 DEF SessionGoesOn, LossCounted, AndroidFits, SessionFits, HasSession, AndroidHolds,
              FramesUntouched
<1>3. HandsUntouched /\ StartHasRoom' /\ session'.runs = session.runs
  BY <1>1, <1>2 DEF AndroidFits, HandsUntouched, HandsHold, StartHasRoom, SessionGoesOn
<1>. QED
  BY <1>2, <1>3, GoingOnFits, AndroidGoesOn DEF AndroidFits

(* A ring that loses its oldest frame *)
LEMMA AndroidReadFits ==
  ASSUME AndroidFits, D!ReadBegins \/ D!CaptureRead
  PROVE  AndroidFits' /\ AddsNothingOld
<1>. USE DEF AndroidFits
<1>0. UNCHANGED <<stage, thread, lost>>
  BY DEF D!ReadBegins, D!CaptureRead, D!ReadLooks, D!ReadTakes, D!ReadReturns
<1>1. HandsUntouched
  BY <1>0 DEF HandsUntouched, HandsHold
<1>2. CASE UNCHANGED session
  BY <1>0, <1>1, <1>2, AndroidIdles DEF StartHasRoom
<1>3. CASE ~UNCHANGED session
  <2>1. session' = [session EXCEPT !["cap"] = Tail(session.cap)] /\ session.cap # <<>>
    BY <1>3 DEF D!ReadBegins, D!CaptureRead, D!ReadLooks, D!ReadTakes, D!ReadReturns, D!Set
  <2>2. /\ SessionGoesOn /\ {"cap", "pb"} \subseteq DOMAIN session'
        /\ session'.cap = Tail(session.cap) /\ session'.pb = session.pb
    BY <1>0, <2>1 DEF SessionGoesOn, LossCounted, SessionFits, HasSession, AndroidHolds
  <2>3. /\ Tail(session.cap) \in Seq(Frames) /\ Len(Tail(session.cap)) <= RingFrames
        /\ Cardinality(BadIn(Tail(session.cap), OldFrames(session.runs)))
             <= Cardinality(BadIn(session.cap, OldFrames(session.runs)))
    <3>1. session.cap \in Seq(Frames) /\ Len(session.cap) <= RingFrames
      BY DEF AndroidHolds
    <3>2. Tail(session.cap) \in Seq(Frames) /\ Len(Tail(session.cap)) <= RingFrames
      BY <2>1, <3>1, BufferBounds
    <3>. QED
      BY <2>1, <3>1, <3>2, TailHasFewer
  <2>4. AndroidFits' /\ session'.runs = session.runs
    BY <1>0, <1>1, <2>2, <2>3, GoingOnFits
    DEF AndroidHolds, HandsHold, HandsUntouched, StartHasRoom, SessionGoesOn
  <2>5. RingsOf(session'.cap, session'.pb, session.runs)
          <= RingsOf(session.cap, session.pb, session.runs)
    <3>1. /\ Cardinality(BadIn(Tail(session.cap), OldFrames(session.runs))) \in Nat
          /\ Cardinality(BadIn(session.cap, OldFrames(session.runs))) \in Nat
          /\ Cardinality(BadIn(session.pb, Nat \ {session.runs})) \in Nat
      BY <2>3, BadIsFinite DEF AndroidHolds
    <3>. QED
      BY <2>2, <2>3, <3>1 DEF RingsOf
  <2>. QED
    BY <1>0, <2>4, <2>5, CountsAreNatural, PartsAddNothing
<1>. QED
  BY <1>2, <1>3

LEMMA AndroidPlaysFits ==
  ASSUME AndroidFits, NEW r \in D!Runs, D!PlayLooks(r) \/ D!PlayTakes(r) \/ D!PlayWrites(r)
  PROVE  AndroidFits' /\ AddsNothingOld
<1>. USE DEF AndroidFits
<1>0. UNCHANGED <<stage, lost>> /\ HandsUntouched
  BY DEF D!PlayLooks, D!PlayTakes, D!PlayWrites, HandsUntouched, HandsHold
<1>1. CASE UNCHANGED session
  BY <1>0, <1>1, AndroidIdles DEF StartHasRoom
<1>2. CASE session' = [session EXCEPT !.underruns = CountUp(@)]
  <2>1. SessionGoesOn /\ FramesUntouched
    BY <1>0, <1>2 DEF SessionGoesOn, LossCounted, SessionFits, HasSession, AndroidHolds,
                      FramesUntouched
  <2>2. StartHasRoom' /\ session'.runs = session.runs
    BY <1>0, <2>1 DEF StartHasRoom, SessionGoesOn
  <2>. QED
    BY <1>0, <2>1, <2>2, GoingOnFits, AndroidGoesOn
<1>3. CASE session' = [session EXCEPT !.pb = Tail(@)] /\ session.pb # <<>>
  <2>2. /\ SessionGoesOn /\ {"cap", "pb"} \subseteq DOMAIN session'
        /\ session'.pb = Tail(session.pb) /\ session'.cap = session.cap
    BY <1>0, <1>3 DEF SessionGoesOn, LossCounted, SessionFits, HasSession, AndroidHolds
  <2>3. /\ Tail(session.pb) \in Seq(Nat) /\ Len(Tail(session.pb)) <= RingFrames
        /\ Cardinality(BadIn(Tail(session.pb), Nat \ {session.runs}))
             <= Cardinality(BadIn(session.pb, Nat \ {session.runs}))
    <3>1. session.pb \in Seq(Nat) /\ Len(session.pb) <= RingFrames
      BY DEF AndroidHolds
    <3>2. Tail(session.pb) \in Seq(Nat) /\ Len(Tail(session.pb)) <= RingFrames
      BY <1>3, <3>1, BufferBounds
    <3>. QED
      BY <1>3, <3>1, <3>2, TailHasFewer
  <2>4. AndroidFits' /\ session'.runs = session.runs
    BY <1>0, <2>2, <2>3, GoingOnFits
    DEF AndroidHolds, HandsHold, HandsUntouched, StartHasRoom, SessionGoesOn
  <2>5. RingsOf(session'.cap, session'.pb, session.runs)
          <= RingsOf(session.cap, session.pb, session.runs)
    <3>1. /\ Cardinality(BadIn(Tail(session.pb), Nat \ {session.runs})) \in Nat
          /\ Cardinality(BadIn(session.pb, Nat \ {session.runs})) \in Nat
          /\ Cardinality(BadIn(session.cap, OldFrames(session.runs))) \in Nat
      BY <2>3, BadIsFinite DEF AndroidHolds
    <3>. QED
      BY <2>2, <2>3, <3>1 DEF RingsOf
  <2>. QED
    BY <1>0, <2>4, <2>5, CountsAreNatural, PartsAddNothing DEF HandsUntouched
<1>4. D!PlayTakes(r) => \/ session' = [session EXCEPT !.underruns = CountUp(@)]
                        \/ session' = [session EXCEPT !.pb = Tail(@)] /\ session.pb # <<>>
  BY AndroidBuffersAre, Zenon DEF D!PlayTakes
<1>. QED
  BY <1>1, <1>2, <1>3, <1>4 DEF D!PlayLooks, D!PlayWrites

LEMMA AndroidWriteFits ==
  ASSUME AndroidFits, D!WriteLooks \/ D!WriteOffers PROVE AndroidFits' /\ AddsNothingOld
<1>. USE DEF AndroidFits
<1>1. CASE D!WriteLooks
  <2>1. UNCHANGED <<stage, session, lost>>
    BY <1>1 DEF D!WriteLooks
  <2>2. /\ {"cap", "writing"} \subseteq DOMAIN thread' /\ thread'.cap = thread.cap
        /\ thread'.writing \in {thread.writing, session.runs}
    BY <1>1 DEF D!WriteLooks, HandsHold
  <2>3. SessionFits' /\ FramesUntouched
    BY <2>1 DEF SessionFits, HasSession, FramesUntouched, AndroidHolds
  <2>4. AndroidFits'
    BY <2>1, <2>2, <2>3 DEF SessionFits, AndroidHolds, HandsHold, StartHasRoom
  <2>5. HandOf(thread'.cap, thread'.writing, session.runs)
          <= HandOf(thread.cap, thread.writing, session.runs)
    BY <2>2, SlotsAreFinite DEF HandOf
  <2>. QED
    BY <2>1, <2>4, <2>5, CountsAreNatural, PartsAddNothing
<1>2. CASE D!WriteOffers
  <2>. DEFINE run == thread.writing
              ring == D!Offered(session.pb, run)
              bad == Nat \ {session.runs}
              old == IF run \in {0, session.runs} THEN 0 ELSE 1
  <2>1. /\ session' = [session EXCEPT !.pb = ring,
                         !.overruns = IF D!IsFull(session.pb) THEN CountUp(@) ELSE @]
        /\ lost' = IF Len(session'.pb) = Len(session.pb) THEN CountUp(lost) ELSE lost
        /\ thread' = [thread EXCEPT !.writing = 0]
        /\ stage' = stage
    BY <1>2, AndroidBuffersAre, Zenon DEF D!WriteOffers
  <2>2. run \in Nat /\ run # 0 /\ (IF run \in bad THEN 1 ELSE 0) = old
    BY <1>2 DEF D!WriteOffers, HandsHold
  <2>3. /\ ring \in Seq(Nat) /\ Len(ring) <= RingFrames
        /\ D!IsFull(session.pb) <=> Len(ring) = Len(session.pb)
        /\ Cardinality(BadIn(ring, bad)) <= Cardinality(BadIn(session.pb, bad)) + old
    <3>1. session.pb \in Seq(Nat) /\ Len(session.pb) <= RingFrames
      BY DEF AndroidHolds
    <3>. HIDE DEF run, bad, old
    <3>2. /\ ring \in Seq(Nat) /\ Len(ring) <= RingFrames
          /\ D!IsFull(session.pb) <=> Len(ring) = Len(session.pb)
      BY <2>2, <3>1, OfferedFits
    <3>3. Cardinality(BadIn(ring, bad))
            <= Cardinality(BadIn(session.pb, bad)) + (IF run \in bad THEN 1 ELSE 0)
      BY <2>2, <3>1, OfferedHasFew
    <3>. QED
      BY <2>2, <3>2, <3>3
  <2>. HIDE DEF ring
  <2>4. /\ {"cap", "writing"} \subseteq DOMAIN thread'
        /\ thread'.cap = thread.cap /\ thread'.writing = 0
    BY <2>1 DEF HandsHold
  <2>5. /\ HasSession' /\ {"cap", "pb"} \subseteq DOMAIN session'
        /\ session'.runs = session.runs /\ session'.running = session.running
        /\ session'.mic = session.mic /\ session'.output = session.output
        /\ session'.underruns = session.underruns /\ session'.events = session.events
        /\ session'.pb = ring /\ session'.cap = session.cap
        /\ session'.overruns = IF D!IsFull(session.pb) THEN CountUp(session.overruns)
                               ELSE session.overruns
    BY <2>1 DEF SessionFits, HasSession, AndroidHolds
  <2>6. LossCounted
    <3>1. CASE D!IsFull(session.pb)
      BY <2>1, <2>3, <2>5, <3>1, Zenon DEF LossCounted
    <3>2. CASE ~D!IsFull(session.pb)
      BY <2>1, <2>3, <2>5, <3>2, Zenon DEF LossCounted
    <3>. QED
      BY <3>1, <3>2
  <2>7. SessionFits'
    <3>1. SessionGoesOn
      BY <2>5, <2>6 DEF SessionGoesOn, SessionFits
    <3>. QED
      BY <3>1, GoingOnFits
  <2>8. AndroidFits'
    BY <2>1, <2>3, <2>4, <2>5, <2>7 DEF AndroidHolds, HandsHold, StartHasRoom
  <2>9. Left' <= Left
    <3>1. /\ Cardinality(OldSlots(thread.cap, session.runs)) \in Nat
          /\ Cardinality(BadIn(ring, bad)) \in Nat
          /\ Cardinality(BadIn(session.pb, bad)) \in Nat
          /\ Cardinality(BadIn(session.cap, OldFrames(session.runs))) \in Nat
          /\ old \in {0, 1}
      BY <2>3, SlotsAreFinite, BadIsFinite DEF AndroidHolds
    <3>2. Left' = Cardinality(OldSlots(thread.cap, session.runs)) + 0
                    + (Cardinality(BadIn(session.cap, OldFrames(session.runs)))
                       + Cardinality(BadIn(ring, bad)))
      BY <2>4, <2>5 DEF Left, HandOf, RingsOf
    <3>3. Left = Cardinality(OldSlots(thread.cap, session.runs)) + old
                    + (Cardinality(BadIn(session.cap, OldFrames(session.runs)))
                       + Cardinality(BadIn(session.pb, bad)))
      BY DEF Left, HandOf, RingsOf
    <3>. HIDE DEF bad, old
    <3>. QED
      BY <2>3, <3>1, <3>2, <3>3
  <2>. QED
    BY <2>5, <2>8, <2>9 DEF AddsNothingOld
<1>. QED
  BY <1>1, <1>2

LEMMA AndroidRoutesFit ==
  ASSUME AndroidFits, D!RouteSide PROVE AndroidFits' /\ AddsNothingOld
<1>. USE DEF AndroidFits
<1>1. ASSUME NEW events, session' = [session EXCEPT !["events"] = events], lost' = lost,
             stage' = stage, HandsUntouched, IsSequence(events), Len(events) <= EventQueue
      PROVE  AndroidFits' /\ AddsNothingOld
  <2>1. EventsChange(events) /\ FramesUntouched
    BY <1>1 DEF EventsChange, SessionFits, HasSession, FramesUntouched, AndroidHolds
  <2>2. StartHasRoom' /\ session'.runs = session.runs
    BY <1>1, <2>1 DEF StartHasRoom, EventsChange
  <2>. QED
    BY <1>1, <2>1, <2>2, EventsChangeFits, AndroidGoesOn
<1>2. CASE D!PollEvent
  <2>1. /\ session' = [session EXCEPT !["events"] = Tail(session.events)]
        /\ session.events # <<>> /\ UNCHANGED <<stage, lost>> /\ HandsUntouched
    BY <1>2 DEF D!PollEvent, D!Set, HandsUntouched, HandsHold
  <2>. QED
    BY <1>1, <2>1, QueueStaysBounded
<1>3. CASE \E r \in D!Runs : D!WatcherPosts(r)
  <2>1. PICK r \in D!Runs : D!WatcherPosts(r)
    BY <1>3
  <2>. DEFINE e == D!RoutesChanged(thread.watcher[r].mask)
  <2>2. /\ session' = [session EXCEPT !["events"] = PushEvent(session.events, e)]
        /\ UNCHANGED <<stage, lost>> /\ HandsUntouched
    BY <2>1, AndroidBuffersAre DEF D!WatcherPosts, D!Set, HandsUntouched, HandsHold
  <2>. HIDE DEF e
  <2>. QED
    BY <1>1, <2>2, QueueStaysBounded
<1>4. CASE \/ D!DevicesChange \/ D!WatcherIsCalled
           \/ \E r \in D!Runs : D!WatcherReads(r)
           \/ \E route \in Routes \cup {D!UnknownRoute} : D!SetRoute(route)
  <2>1. UNCHANGED <<session, lost>> /\ HandsUntouched /\ stage' = stage
    BY <1>4 DEF D!DevicesChange, D!WatcherIsCalled, D!WatcherReads, D!SetRoute,
                HandsUntouched, HandsHold
  <2>. QED
    BY <2>1, AndroidIdles DEF StartHasRoom
<1>. QED
  BY <1>2, <1>3, <1>4 DEF D!RouteSide

LEMMA AndroidStepFits ==
  ASSUME AndroidFits, AndroidStep PROVE AndroidFits' /\ (AddsNothingOld \/ BeginsEmpty)
<1>1. CASE D!Lifecycle
  BY <1>1, AndroidLifecycleFits
<1>2. CASE D!CaptureSide
  BY <1>2, AndroidReadFits, CaptureLooksFits, CaptureReadsFits, CaptureLosesFits,
     CaptureOffersFits, AndroidMuteFits
  DEF D!CaptureSide, D!CaptureThread
<1>3. CASE D!PlaybackSide
  BY <1>3, AndroidWriteFits, AndroidPlaysFits, AndroidMuteFits DEF D!PlaybackSide
<1>4. CASE D!CaptureRead \/ D!RouteSide
  BY <1>4, AndroidReadFits, AndroidRoutesFit
<1>. QED
  BY <1>1, <1>2, <1>3, <1>4 DEF AndroidStep

-----------------------------------------------------------------------------
(* Every backend *)

(* The table of live platforms holds platforms. *)
LEMMA LivePlatformsAre ==
  ASSUME AppleStep, live \subseteq Platforms PROVE live' \subseteq Platforms
<1>1. CASE A!Lifecycle
  BY <1>1
  DEF A!Lifecycle, A!OpenRefused, A!OpenListens, A!OpenHasPlatform, A!OpenMakesUnit, A!Start,
      A!StartsUnit, A!Stop, A!StopsUnit, A!CloseUnlistens, A!CloseFrees
<1>2. CASE A!CaptureSide \/ A!CaptureRead \/ A!PlaybackSide
  BY <1>2
  DEF A!CaptureSide, A!CaptureRead, A!PlaybackSide, A!InputCallback, A!ReadBegins, A!ReadPops,
      A!ReadReturns, A!RenderCallback, A!PlaybackWrite, A!SetMuted
<1>3. CASE A!RouteSide
  BY <1>3
  DEF A!RouteSide, A!Listener, A!ListenerPushes, A!PollEvent, A!DevicesChange,
      A!ListenerIsCalled, A!ListenerLooks, A!ListenerReads, A!SetRoute
<1>. QED
  BY <1>1, <1>2, <1>3 DEF AppleStep

Fits ==
    /\ backend \in {"linux", "windows", "apple", "android", "mock"}
    /\ guard \in BOOLEAN /\ live \subseteq Platforms /\ SessionFits
    /\ backend = "linux" => LinuxFits
    /\ backend = "windows" => WindowsFits
    /\ backend = "apple" => AppleFits
    /\ backend = "android" => AndroidFits
    /\ backend = "mock" => MockFits

LEMMA FitsAtFirst == Init => Fits
<1>. SUFFICES ASSUME Init PROVE Fits
  OBVIOUS
<1>0. /\ backend \in {"linux", "windows", "apple", "android", "mock"}
      /\ backend # "linux" => guard = FALSE
      /\ backend # "apple" => live = {}
      /\ backend = "linux" => L!Init
      /\ backend = "windows" => W!Init
      /\ backend = "apple" => A!Init
      /\ backend = "android" => D!Init
      /\ backend = "mock" => M!Init
  BY FocusAssumption DEF Init, Unused
<1>1. ASSUME HasSession, session.runs = 0, session.running = FALSE, session.mic = FALSE,
             session.output = FALSE, session.underruns = 0, session.overruns = 0,
             session.events = <<>>, lost = 0
      PROVE  SessionFits
  <2>1. session.running \in BOOLEAN /\ session.mic \in BOOLEAN /\ session.output \in BOOLEAN
    BY <1>1, Zenon
  <2>2. IsSequence(session.events) /\ Len(session.events) <= EventQueue
    <3>1. IsSequence(<<>>) /\ Len(<<>>) = 0 /\ 0 <= EventQueue
      BY BufferBounds, EmptyIsSequence
    <3>. QED
      BY <1>1, <3>1
  <2>3. /\ session.runs \in 0 .. MaxStarts /\ session.underruns \in 0 .. MaxCount
        /\ session.overruns \in 0 .. MaxCount /\ lost \in 0 .. session.overruns
    BY <1>1, BufferBounds
  <2>. QED
    BY <1>1, <2>1, <2>2, <2>3 DEF SessionFits
<1>2. CASE backend = "linux"
  <2>1. session = L!Closed /\ reader = L!NoRead /\ guard = FALSE /\ lost = 0
    BY <1>0, <1>2 DEF L!Init
  <2>2. SessionFits
    BY <1>1, <2>1 DEF L!Closed, HasSession
  <2>3. LinuxHolds /\ ReaderIsQuiet
    BY <2>1, LinuxBuffersAre DEF L!Closed, L!NoRead, LinuxHolds, ReaderIsQuiet
  <2>. QED
    BY <1>0, <1>2, <2>1, <2>2, <2>3 DEF Fits, LinuxFits
<1>3. CASE backend = "windows"
  <2>1. session = W!Closed /\ world = W!AtRest /\ lost = 0
    BY <1>0, <1>3 DEF W!Init
  <2>2. SessionFits
    BY <1>1, <2>1 DEF W!Closed, HasSession
  <2>3. WindowsHolds
    BY <2>1, WindowsBuffersAre DEF W!Closed, W!AtRest, WindowsHolds
  <2>. QED
    BY <1>0, <1>3, <2>2, <2>3 DEF Fits, WindowsFits
<1>4. CASE backend = "apple"
  <2>1. session = A!Closed /\ reader = A!NoRead /\ live = {} /\ lost = 0
    BY <1>0, <1>4 DEF A!Init
  <2>2. SessionFits
    BY <1>1, <2>1 DEF A!Closed, HasSession
  <2>3. AppleHolds /\ ReaderHasFrame
    BY <2>1, AppleBuffersAre DEF A!Closed, A!NoRead, AppleHolds, ReaderHasFrame
  <2>. QED
    BY <1>0, <1>4, <2>1, <2>2, <2>3 DEF Fits, AppleFits
<1>5. CASE backend = "android"
  <2>1. session = D!Closed /\ thread = D!NoThreads /\ stage = "none" /\ lost = 0
    BY <1>0, <1>5 DEF D!Init
  <2>2. SessionFits
    BY <1>1, <2>1 DEF D!Closed, HasSession
  <2>3. AndroidHolds
    BY <2>1, BufferBounds DEF D!Closed, AndroidHolds
  <2>4. HandsHold
    <3>1. [pc |-> "gone", slot |-> <<>>] \in [pc : CapturePcs, slot : Frames]
      BY EmptyIsNotOld DEF CapturePcs
    <3>2. thread.cap = [r \in D!Runs |-> [pc |-> "gone", slot |-> <<>>]]
      BY <2>1 DEF D!NoThreads
    <3>3. thread.cap \in CaptureThreads
      BY <3>1, <3>2 DEF CaptureThreads
    <3>. QED
      BY <2>1, <3>3 DEF D!NoThreads, HandsHold
  <2>. QED
    BY <1>0, <1>5, <2>1, <2>2, <2>3, <2>4 DEF Fits, AndroidFits, StartHasRoom
<1>6. CASE backend = "mock"
  <2>1. session = M!Closed /\ reader = M!NoRead /\ world = [due |-> <<>>] /\ lost = 0
    BY <1>0, <1>6 DEF M!Init
  <2>2. SessionFits
    BY <1>1, <2>1 DEF M!Closed, HasSession
  <2>3. MockHolds /\ MockReaderIsQuiet
    BY <2>1, MockBuffersAre DEF M!Closed, M!NoRead, MockHolds, MockReaderIsQuiet
  <2>. QED
    BY <1>0, <1>6, <2>2, <2>3 DEF Fits, MockFits
<1>. QED
  BY <1>0, <1>2, <1>3, <1>4, <1>5, <1>6

(* What a step of each backend shows of the frames it hands out or keeps. *)
StepIsFresh ==
    /\ backend \in {"linux", "apple", "mock"} => FrameIsWhole
    /\ backend = "android" => AddsNothingOld \/ BeginsEmpty

LEMMA StepFits ==
  ASSUME Fits, Next PROVE Fits' /\ StepIsFresh
<1>0. /\ backend' = backend
      /\ \/ backend = "linux" /\ LinuxStep
         \/ backend = "windows" /\ WindowsStep
         \/ backend = "apple" /\ AppleStep
         \/ backend = "android" /\ AndroidStep
         \/ backend = "mock" /\ MockStep
  BY Zenon DEF Next, LinuxStep, WindowsStep, AppleStep, AndroidStep, MockStep
<1>1. CASE backend = "linux"
  <2>1. LinuxStep
    BY <1>0, <1>1
  <2>2. LinuxFits' /\ FrameIsWhole
    BY <1>1, <2>1, LinuxStepFits DEF Fits
  <2>3. guard' \in BOOLEAN
    <3>1. GuardStep
      BY <2>1, LifecycleIsGuardStep, OthersAreGuardSteps DEF LinuxStep
    <3>. QED
      BY <3>1 DEF Fits, GuardStep
  <2>4. live' = live
    BY <2>1 DEF LinuxStep
  <2>. QED
    BY <1>0, <1>1, <2>2, <2>3, <2>4 DEF Fits, LinuxFits, StepIsFresh
<1>2. CASE backend = "windows"
  <2>1. WindowsFits' /\ UNCHANGED <<guard, live>>
    BY <1>0, <1>2, WindowsStepFits DEF Fits, WindowsStep
  <2>. QED
    BY <1>0, <1>2, <2>1 DEF Fits, WindowsFits, StepIsFresh
<1>3. CASE backend = "apple"
  <2>1. AppleStep
    BY <1>0, <1>3
  <2>2. AppleFits' /\ FrameIsWhole /\ guard' = guard /\ live' \subseteq Platforms
    BY <1>3, <2>1, AppleStepFits, LivePlatformsAre DEF Fits, AppleStep
  <2>. QED
    BY <1>0, <1>3, <2>2 DEF Fits, AppleFits, StepIsFresh
<1>4. CASE backend = "android"
  <2>1. AndroidStep
    BY <1>0, <1>4
  <2>2. AndroidFits' /\ (AddsNothingOld \/ BeginsEmpty) /\ UNCHANGED <<guard, live>>
    BY <1>4, <2>1, AndroidStepFits DEF Fits, AndroidStep
  <2>. QED
    BY <1>0, <1>4, <2>2 DEF Fits, AndroidFits, StepIsFresh
<1>5. CASE backend = "mock"
  <2>1. MockStep
    BY <1>0, <1>5
  <2>2. MockFits' /\ FrameIsWhole /\ UNCHANGED <<guard, live>>
    BY <1>5, <2>1, MockStepFits DEF Fits, MockStep
  <2>. QED
    BY <1>0, <1>5, <2>2 DEF Fits, MockFits, StepIsFresh
<1>. QED
  BY <1>1, <1>2, <1>3, <1>4, <1>5 DEF Fits

LEMMA StutterFits ==
  ASSUME Fits, UNCHANGED voiceVars PROVE Fits'
<1>1. /\ UNCHANGED <<backend, guard, live, stage, session, world, thread, reader, lost>>
  BY DEF voiceVars
<1>2. SessionFits'
  BY <1>1 DEF Fits, SessionFits, HasSession
<1>3. LinuxFits => LinuxFits'
  BY <1>1, <1>2 DEF LinuxFits, LinuxHolds, ReaderIsQuiet
<1>4. WindowsFits => WindowsFits'
  BY <1>1, <1>2 DEF WindowsFits, WindowsHolds
<1>5. AppleFits => AppleFits'
  BY <1>1, <1>2 DEF AppleFits, AppleHolds, ReaderHasFrame
<1>6. AndroidFits => AndroidFits'
  BY <1>1, <1>2 DEF AndroidFits, AndroidHolds, HandsHold, StartHasRoom
<1>7. MockFits => MockFits'
  BY <1>1, <1>2 DEF MockFits, MockHolds, MockReaderIsQuiet
<1>. QED
  BY <1>1, <1>2, <1>3, <1>4, <1>5, <1>6, <1>7 DEF Fits

LEMMA AlwaysFits == SafetySpec => []Fits
<1>1. Fits /\ [Next]_voiceVars => Fits'
  BY StepFits, StutterFits
<1>. QED
  BY <1>1, FitsAtFirst, PTL DEF SafetySpec

-----------------------------------------------------------------------------
(* The theorems *)

(* No buffer and no queue of any backend outgrows the array the code has
   allocated for it, whatever the order of callbacks, calls and restarts. *)
THEOREM TypeIsKept == SafetySpec => []TypeOK
<1>1. Fits => TypeOK
  <2>. SUFFICES ASSUME Fits PROVE TypeOK
    OBVIOUS
  <2>1. /\ session.running \in BOOLEAN /\ session.mic \in BOOLEAN /\ session.output \in BOOLEAN
        /\ session.runs <= MaxStarts /\ Len(session.events) <= EventQueue
        /\ session.underruns <= MaxCount /\ session.overruns <= MaxCount
    BY BufferBounds DEF Fits, SessionFits
  <2>. QED
    BY <2>1 DEF TypeOK, Fits, LinuxFits, LinuxHolds, WindowsFits, WindowsHolds, AppleFits,
                AppleHolds, AndroidFits, AndroidHolds, MockFits, MockHolds
<1>. QED
  BY <1>1, AlwaysFits, PTL

(* Every time samples are lost the report counts it: no buffer overflows
   silently, on any backend. *)
THEOREM LossesAreCounted == SafetySpec => []LossIsCounted
<1>1. Fits => LossIsCounted
  BY DEF Fits, SessionFits, LossIsCounted
<1>. QED
  BY <1>1, AlwaysFits, PTL

(* The backends that silence a unit as it comes hand out nothing that was
   said while the microphone was muted, however late it is read. *)
THEOREM MutedStaysSilent == SafetySpec => []MutedIsSilent
<1>1. Fits => MutedIsSilent
  <2>. SUFFICES ASSUME Fits, backend \in {"linux", "mock"}, NEW i \in 1 .. Len(reader.frame)
                PROVE  reader.frame[i].sound # "aside"
    BY DEF MutedIsSilent
  <2>1. reader.frame \in Seq(Units(Quiet, Nat))
    BY DEF Fits, LinuxFits, ReaderIsQuiet, MockFits, MockReaderIsQuiet
  <2>2. reader.frame[i] \in Units(Quiet, Nat)
    BY <2>1
  <2>. QED
    BY <2>2 DEF Units, Quiet
<1>. QED
  BY <1>1, AlwaysFits, PTL

(* No start finds what was gathered before it: a frame handed out is whole
   and of the latest start, and on Android nothing of an earlier start is
   added but by the start itself, which finds it in a hand and not in a ring. *)
THEOREM StartsAreFresh == SafetySpec => StartsAfresh
<1>1. Fits /\ Fits' /\ [Next]_voiceVars => [FrameIsFresh /\ LeftoversWereInHand]_voiceVars
  <2>. SUFFICES ASSUME Fits, Fits', Next PROVE FrameIsFresh /\ LeftoversWereInHand
    OBVIOUS
  <2>0. StepIsFresh
    BY StepFits
  <2>1. FrameIsFresh
    BY <2>0 DEF StepIsFresh, Fits, FrameIsWhole, FrameIsFresh
  <2>2. LeftoversWereInHand
    <3>. SUFFICES ASSUME backend = "android", D!Leftovers' > D!Leftovers
                  PROVE  session'.runs > session.runs /\ D!Leftovers' = D!InHand'
      BY DEF LeftoversWereInHand
    <3>1. AndroidFits /\ AndroidFits'
      <4>1. backend' = backend
        BY DEF Next
      <4>. QED
        BY <4>1 DEF Fits
    <3>2. LeftIsCounted
      BY <3>1, LeftoversAreCounted
    <3>3. LeftIsCounted'
      BY <3>1, LeftoversAreCounted, PTL
    <3>4. CASE AddsNothingOld
      BY <3>2, <3>3, <3>4 DEF AddsNothingOld, LeftIsCounted, Left
    <3>5. CASE BeginsEmpty
      BY <3>3, <3>5 DEF BeginsEmpty, LeftIsCounted, Left
    <3>. QED
      BY <2>0, <3>4, <3>5 DEF StepIsFresh
  <2>. QED
    BY <2>1, <2>2
<1>. QED
  BY <1>1, AlwaysFits, PTL DEF SafetySpec, StartsAfresh
=============================================================================
