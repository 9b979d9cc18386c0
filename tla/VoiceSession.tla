---------------------------- MODULE VoiceSession ----------------------------
(* What the voice backends under src/native/cleona_voice share: the bounds
   of an instance, the routes, the event queue a control thread polls, and
   the buffers of samples.  Samples are counted in units: a frame is
   FrameUnits units, and a device delivers or takes any few of them. *)
EXTENDS Integers, Sequences, FiniteSets

CONSTANTS
    Routes,       \* the output routes a device of this instance can have
    FrameUnits,   \* samples in a frame, in units
    RingFrames,   \* frames a ring holds
    EventQueue,   \* events the queue holds
    Mutes,        \* what an application of this instance sets a mute to
    MaxStarts,    \* bound: starts of the instance
    MaxCount      \* bound: a counter of the report stays here once it is here

ASSUME BoundsAssumption ==
    /\ Routes \subseteq 1 .. 4 /\ Mutes \subseteq BOOLEAN
    /\ {FrameUnits, RingFrames, EventQueue, MaxStarts, MaxCount} \subseteq Nat \ {0}

(* CLEONA_VOICE_ROUTE_*: unknown is a state, and in no mask. *)
UnknownRoute == 0
Speaker == 2
AllRoutes == 1 .. 4

(* The first route of a mask, in the order of the constants. *)
LowestRoute(mask) == CHOOSE r \in mask : \A q \in mask : r <= q

CountUp(n) == IF n < MaxCount THEN n + 1 ELSE n

(* What a microphone hears: speech of a running session, speech while it is
   muted, or nothing; each unit with the start it was heard after. *)
Sounds == {"silence", "speech", "aside"}
Unit(sound, run) == [sound |-> sound, run |-> run]
Silence(n, run) == [i \in 1 .. n |-> Unit("silence", run)]
Heard(n, sound, run) == [i \in 1 .. n |-> Unit(sound, run)]

Oldest(n, seq) == SubSeq(seq, 1, IF Len(seq) < n THEN Len(seq) ELSE n)
Behind(n, seq) == SubSeq(seq, n + 1, Len(seq))
Newest(n, seq) == IF Len(seq) > n THEN Behind(Len(seq) - n, seq) ELSE seq

(* Mutation: a full queue grows. *)
PushEventGrows(queue, event) == Append(queue, event)

(* Mutation: a full queue takes no event. *)
PushEventIfRoom(queue, event) ==
    IF Len(queue) = EventQueue THEN queue ELSE Append(queue, event)

(* The event queue: a full one loses its oldest event. *)
PushEvent(queue, event) ==
    Append(IF Len(queue) = EventQueue THEN Tail(queue) ELSE queue, event)

RoutesChanged(mask) == [event |-> "routes_changed", mask |-> mask]

(* A result as its caller sees it.  A call that changes nothing the caller
   could notice leaves the same result behind twice. *)
Result(call, code) == [call |-> call, code |-> code]

(* The call that sets the mute of a side. *)
SetCall == [mic |-> "set_mic", output |-> "set_output"]
=============================================================================
