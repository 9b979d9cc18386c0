---------------------------- MODULE VideoBackends ----------------------------
(* One process with one of three video backends, and what must hold of each.
   An instance looks at one side of a session at a time: its coming and going
   happen under every focus, the rest under its own.  Under "group" there is
   a second session of the Linux backend, as for a tile of a group call. *)
EXTENDS VideoSession

CONSTANTS
    Backends, Focuses,    \* of this instance
    Cameras, RingFrames, MaxObjects

ASSUME FocusAssumption ==
    /\ Backends \subseteq {"linux", "windows", "mock"}
    /\ Focuses \subseteq {"frames", "changes", "decoder", "group"}

ASSUME PlatformAssumption ==
    /\ Cameras \subseteq [geo : Nat \ {0}, fps : Nat \ {0}]
    /\ RingFrames \in Nat \ {0}
    /\ MaxObjects \in Nat \ {0, 1}    \* a session is opened with two

VARIABLES
    backend, focus,
    guard, stage, session, control, threads, reader, writer, last,
    stage2, session2, reader2, last2,    \* the second session
    owed,      \* the next frame encoded is to be a keyframe
    handed     \* frames handed out since the session was opened

secondVars == <<stage2, session2, reader2, last2>>
videoVars == <<backend, focus, guard, stage, session, control, threads, reader,
               writer, last, secondVars, owed, handed>>

L == INSTANCE VideoLinux
T == INSTANCE VideoLinux WITH
       stage <- stage2, session <- session2, reader <- reader2, last <- last2
W == INSTANCE VideoWindows
M == INSTANCE VideoMock

Init ==
    /\ backend \in Backends /\ focus \in Focuses
    /\ focus = "group" => backend = "linux"
    /\ stage = "none" /\ guard = FALSE
    /\ T!Init
    /\ control = W!NoCall /\ threads = [r \in W!Runs |-> W!NoThread] /\ writer = W!NoSubmit
    /\ \/ backend = "linux" /\ L!Init
       \/ backend = "windows" /\ W!Init
       \/ backend = "mock" /\ M!Init
    /\ owed = FALSE
    /\ handed = 0

-----------------------------------------------------------------------------
(* What is seen of a step: a demand for a keyframe, one that was spent, and
   a frame that was handed out. *)
Opened == CASE backend = "linux" -> L!IsOpen [] backend = "windows" -> W!IsOpen
            [] OTHER -> M!IsOpen

Demands ==
    \/ session'.runs > session.runs
    \/ session'.capture /\ ~session.capture
    \/ session'.cfg.geo # session.cfg.geo
    \/ last' = Result("keyframe", "ok") /\ last # last'
    \/ last' = Result("switch", "ok") /\ last # last'

EncodesAFrame == session'.encoded = session.encoded + 1

FailsToEncode ==
    /\ session.force /\ ~session'.force /\ session'.encoded = session.encoded
    /\ last' = Result("read", "backend")

HandsOut == reader.pc = "in" /\ reader'.pc = "out" /\ last' = Result("read", "frame")

Sees ==
    /\ owed' = IF backend = "windows" THEN FALSE
               ELSE IF Demands THEN TRUE
               ELSE IF FailsToEncode \/ EncodesAFrame THEN FALSE
               ELSE owed
    /\ handed' = IF ~Opened' THEN 0 ELSE IF HandsOut THEN handed + 1 ELSE handed

-----------------------------------------------------------------------------
LinuxStep ==
    /\ backend = "linux"
    /\ \/ /\ \/ L!Lifecycle
             \/ focus = "frames" /\ (L!Reading \/ L!EncodeSide)
             \/ focus = "changes" /\ (L!Reading \/ L!Changes)
             \/ focus = "decoder" /\ (L!DecodeSide \/ L!EncodeSide)
          /\ UNCHANGED secondVars
       \/ /\ focus = "group" /\ T!Lifecycle
          /\ UNCHANGED <<stage, session, reader, last>>
    /\ UNCHANGED <<control, threads, writer>>

WindowsStep ==
    /\ backend = "windows" /\ ~W!Gone
    /\ \/ W!Lifecycle
       \/ \E r \in W!Runs : W!CaptureThread(r)
       \/ focus = "frames" /\ (W!Reading \/ (session.runs = 1 /\ W!EncodeSide))
       \/ focus = "changes" /\ W!Changes
       \/ focus = "decoder" /\ (W!DecodeSide \/ W!EncodeSide \/ W!Changes)
    /\ IF focus = "frames" THEN session'.made <= 4 /\ session'.cfg.ceiling <= 2 /\ reader'.cap <= 2
       ELSE session'.encoded = 0 /\ (session'.runs <= 1 \/ focus = "decoder")
    /\ focus = "decoder" => session'.decodeOnly = Opened'
    /\ UNCHANGED <<guard, stage, secondVars>>

MockStep ==
    /\ backend = "mock"
    /\ \/ M!Lifecycle
       \/ focus = "frames" /\ (M!Reading \/ M!EncodeSide)
       \/ focus = "changes" /\ (M!Reading \/ M!Changes)
       \/ focus = "decoder" /\ (M!DecodeSide \/ M!EncodeSide)
    /\ UNCHANGED <<guard, stage, control, threads, writer, secondVars>>

(* Bounds on what an instance tries outside the focus that is about it: one
   geometry, no session without a camera, no call refused for its state. *)
WithinFocus ==
    /\ focus = "frames" => session'.cfg.geo <= 1
    /\ focus = "changes" => session'.runs <= 1
    /\ focus \in {"frames", "changes"} =>
         ~session'.decodeOnly /\ last'.code \notin {"invalid", "state"}

Next ==
    /\ UNCHANGED <<backend, focus>>
    /\ LinuxStep \/ WindowsStep \/ MockStep
    /\ WithinFocus
    /\ Sees

Spec == Init /\ [][Next]_videoVars

-----------------------------------------------------------------------------
(* Frames that wait to be read, and frames that went nowhere. *)
Queued == CASE backend = "linux" -> 0 [] backend = "windows" -> Len(session.ring)
            [] OTHER -> Len(session.pending)
Lost == session.encoded - session.dropped - Queued - handed

(* Every part of a session has its type, and no queue outgrows its bound. *)
TypeOK ==
    /\ guard \in BOOLEAN /\ owed \in BOOLEAN /\ handed \in Nat
    /\ session.runs <= MaxRuns /\ session.encoded <= MaxFrames
    /\ session.dropped <= MaxFrames + MaxRuns
    /\ backend = "windows" => Queued <= RingFrames /\ session.made <= MaxObjects
    /\ backend = "mock" => Queued <= 1

(* One session with a camera: the guard is held exactly while a duplex
   session is being opened or is open, whichever step of open failed, and
   whatever sessions without a camera come and go. *)
CameraGuardHeld ==
    backend = "linux" =>
      (guard <=> \/ stage # "none" /\ ~session.decodeOnly
                 \/ stage2 # "none" /\ ~session2.decodeOnly)

(* After a start, a capture turned on again, another camera, another geometry
   or a request, the next frame encoded is a keyframe, over whatever else
   happens between.  Windows' encoder decides for itself, and a demand spent
   on a frame that failed to be encoded is not made again. *)
NextFrameIsKey ==
    [][(backend # "windows" /\ EncodesAFrame /\ owed) => session'.latest.key]_videoVars

(* A frame encoded is handed out, waits, or is counted as dropped.  It is
   lost uncounted by nothing but a stop, capture turned off or another
   camera, which take what the mock has waiting, and by Windows' ring, when
   it is full, which takes the oldest. *)
NothingVanishes ==
    Lost' # Lost =>
      \/ ~Opened'
      \/ Lost' < Lost /\ ~Opened
      \/ /\ Lost' > Lost /\ backend = "mock"
         /\ last' \in {Result("stop", "ok"), Result("capture", "off"), Result("switch", "ok")}
      \/ /\ Lost' > Lost /\ backend = "windows"
         /\ EncodesAFrame => Len(session.ring) = RingFrames /\ Lost' = Lost + 1
         /\ ~EncodesAFrame => control.pc = "clearing"

NoFrameVanishes == [][NothingVanishes]_videoVars

(* No frame handed out is larger than the ceiling in force when it is, not
   one that was encoded before the ceiling was lowered.  The other backends
   keep to the ceiling of an earlier moment or to the buffer of the caller. *)
FramesFit ==
    [][backend = "mock" /\ HandsOut => reader'.frame.size <= session.cfg.ceiling]_videoVars

(* Frames come in the order they were made and none of them outlives a stop.
   The mock's timestamps grow over all of a session, whatever the rate was;
   those of Linux and of Windows begin again with a start, though
   cleona_video.h has them increase across the frames of one session.  A
   Windows thread that outlived the wait for it may put in a frame between
   two starts. *)
FrameInOrder ==
    HandsOut =>
      LET frame == reader'.frame  before == reader.frame IN
      /\ \/ frame.run = session.runs
         \/ backend = "windows" /\ \E r \in W!Live : r # session.runs
      /\ before.run <= frame.run
      /\ before # NoFrame /\ (before.run = frame.run \/ backend = "mock") =>
           before.pts < frame.pts

FramesInOrder == [][FrameInOrder]_videoVars

(* What a caller has seen of the session. *)
State ==
    CASE backend = "linux" -> L!State [] backend = "windows" -> W!State
      [] OTHER -> session.state

DecodesOnly == Opened /\ session.decodeOnly
Waits == ~Opened \/ session.awaiting
Submitting == IF writer.pc = "out" THEN "out" ELSE writer.call

Outlived == writer.pc # "out" /\ (writer.run # session.runs \/ ~W!Running)

ABI == INSTANCE VideoABI WITH
    state <- State, decodeOnly <- DecodesOnly, wait <- Waits,
    submit <- Submitting, outlived <- Outlived, read <- reader.pc

(* cleona_video.h, kept by every backend, but for two steps against it, so
   that ABI!Spec does not hold.  A read of Linux or of the mock answers that
   the encoder failed, which is not among the answers listed. *)
ReadAnswersBackend ==
    /\ backend # "windows" /\ State = "running" /\ ~DecodesOnly
    /\ reader.pc = "in" /\ reader'.pc = "out"
    /\ last' = Result("read", "backend")
    /\ UNCHANGED <<State, DecodesOnly, Waits, Submitting, Outlived>>

(* And a submit of Windows that ends after a stop still ends the wait for a
   keyframe, that of the next start too, though the decoder should wait again
   ("after the next start() the decoder again waits for a keyframe"). *)
SubmitOutlives ==
    /\ backend = "windows" /\ Outlived
    /\ writer'.pc = "out" /\ ~Waits'
    /\ last' = Result(writer.call, "accepted")
    /\ UNCHANGED <<State, DecodesOnly, reader.pc>>

KeepsTheABI ==
    ABI!Init /\ [][ABI!Next \/ ReadAnswersBackend \/ SubmitOutlives]_(ABI!abiVars)

(* cleona_video_windows.c says of its capture thread that it, and no other,
   works with the reader and the encoder, and of submit_encoded that it needs
   no more than the lock: no call is in an object released under it. *)
OwnsItsObjects ==
    backend = "windows" =>
      ~W!LosesDecoder /\ \A r \in W!Runs : ~W!LosesReader(r)
=============================================================================
