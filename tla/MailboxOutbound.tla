-------------------------- MODULE MailboxOutbound --------------------------
(***************************************************************************)
(* What happens to an own message of one identity until it is receipted    *)
(* (src/mycelium/lib/mailbox_outbound.dart, with history.dart, message.dart *)
(* and ladder.dart below it).                                              *)
(*                                                                         *)
(* Durable: the history, one record per message.  In memory only: the      *)
(* Outbound that waits for its receipt, the Shipment on the ladder with    *)
(* the placing of its post box step, and the edges that passed while a     *)
(* placing ran.  A turn of the Dart event loop is one step.                *)
(***************************************************************************)
EXTENDS Integers

CONSTANTS
    Messages,         \* the messages the user writes
    Peers,            \* contacts
    Recipient,        \* to whom each message goes
    PlacedCopyKept,   \* days the copy of a placed message is kept (7)
    OutboundDeadline, \* days an unplaced message may rest (14)
    MaxDay,           \* bound of the model: the last day
    MaxKeys           \* bound of the model: key changes per peer

ASSUME RecipientAssumption == Recipient \in [Messages -> Peers]
ASSUME PeriodsAssumption == PlacedCopyKept \in Nat /\ OutboundDeadline \in Nat
ASSUME BoundsAssumption == MaxDay \in Nat /\ MaxKeys \in Nat

NotPlaced == -1
Days == 0 .. MaxDay

(***************************************************************************)
(* A deposit is known by the day value it lies under and the keys its      *)
(* envelope is sealed under: the same message under the same two has the   *)
(* same deposit id.                                                        *)
(***************************************************************************)
Deposits == [day : Days, keys : 0 .. MaxKeys]

VARIABLES
    state,        \* history: the record's delivery state; "none" not written, "forgotten" removed
    content,      \* history: the record still carries the message
    instant,      \* history: the day the message was written
    placedAt,     \* history: the day the placing was remembered
    out,          \* memory: the Outbound noted as running, "none" without note
    withoutRoute, \* memory: the note says the shipment started without any address
    shipment,     \* memory: the placing of the shipment on the ladder, "none" without shipment
    deposit,      \* memory: the deposit of that shipment
    late,         \* memory: deposits of ended shipments that still run
    edgePassed,   \* memory: messages for which an edge passed while their placing ran
    sending,      \* identity of the shipment, modulo 2: every dispatch makes a new one
    route,        \* peers with an address usable from here
    keys,         \* per peer: how often the keys of the pair have changed
    day,
    up,           \* the process runs
    \* History variables, read by no action of the code:
    left,         \* a packet of the message may have reached somebody
    carried,      \* a way carried the message, or two holders took it, before its receipt
    placedKeys,   \* the keys of the envelope whose placing was remembered
    owed          \* an edge found the message and it has not been sent since

history == <<state, content, instant, placedAt>>
memory == <<out, withoutRoute, shipment, deposit, late, edgePassed, sending>>
ghosts == <<left, carried, placedKeys, owed>>
vars == <<history, memory, route, keys, day, up, ghosts>>

-----------------------------------------------------------------------------
States == {"none", "resting", "inTransit", "delivered", "failed", "forgotten"}
Placings == {"none", "running", "placed", "notPlaced"}

TypeOK ==
    /\ state \in [Messages -> States]
    /\ content \in [Messages -> BOOLEAN]
    /\ instant \in [Messages -> Days]
    /\ placedAt \in [Messages -> Days \cup {NotPlaced}]
    /\ out \in [Messages -> {"none", "resting", "inTransit", "delivered"}]
    /\ withoutRoute \in [Messages -> BOOLEAN]
    /\ shipment \in [Messages -> Placings]
    /\ deposit \in [Messages -> Deposits]
    /\ late \in [Messages -> SUBSET Deposits]
    /\ edgePassed \in SUBSET Messages
    /\ sending \in [Messages -> {0, 1}]
    /\ route \in SUBSET Peers
    /\ keys \in [Peers -> 0 .. MaxKeys]
    /\ day \in Days
    /\ up \in BOOLEAN
    /\ left \in SUBSET Messages
    /\ carried \in SUBSET Messages
    /\ placedKeys \in [Messages -> 0 .. MaxKeys]
    /\ owed \in SUBSET Messages

Init ==
    /\ state = [m \in Messages |-> "none"]
    /\ content = [m \in Messages |-> FALSE]
    /\ instant = [m \in Messages |-> 0]
    /\ placedAt = [m \in Messages |-> NotPlaced]
    /\ out = [m \in Messages |-> "none"]
    /\ withoutRoute = [m \in Messages |-> FALSE]
    /\ shipment = [m \in Messages |-> "none"]
    /\ deposit = [m \in Messages |-> [day |-> 0, keys |-> 0]]
    /\ late = [m \in Messages |-> {}]
    /\ edgePassed = {}
    /\ sending = [m \in Messages |-> 0]
    /\ route \in SUBSET Peers
    /\ keys = [p \in Peers |-> 0]
    /\ day = 0 /\ up = TRUE
    /\ left = {} /\ carried = {} /\ owed = {}
    /\ placedKeys = [m \in Messages |-> 0]

-----------------------------------------------------------------------------
(* HistoryEntry.open: not receipted and not given up. *)
Open(m) == state[m] \in {"resting", "inTransit"}

(* Messages._open: the Outbound still waits for its receipt. *)
Awaited(m) == out[m] \in {"resting", "inTransit"}

(* stateCheck writes this Outbound into the history and removes its note. *)
(* Mutation: only of a message that was in transit. *)
SettlesInTransit(m) == out[m] = "delivered" /\ state[m] = "inTransit"

Settles(m) == out[m] = "delivered"

(***************************************************************************)
(* The dispatch of the messages A.  `carries` are the messages a step      *)
(* other than the post box takes, `places` those whose post box step       *)
(* starts a deposit.  `ship` is the table of shipments it replaces: the    *)
(* deposit of a shipment that is ended runs on, unless the new deposit has *)
(* the same id and takes its place.                                        *)
(***************************************************************************)
NewDeposit(m) == [day |-> day, keys |-> keys'[Recipient[m]]]

RunsOn(m, ship) ==
    late[m] \cup (IF ship[m] = "running" THEN {deposit[m]} ELSE {})

Dispatch(A, carries, places, ship) ==
    /\ sending' = [m \in Messages |-> IF m \in A THEN 1 - sending[m] ELSE sending[m]]
    /\ shipment' = [m \in Messages |->
          IF m \notin A THEN ship[m]
          ELSE IF m \in places THEN "running" ELSE "notPlaced"]
    /\ deposit' = [m \in Messages |-> IF m \in A THEN NewDeposit(m) ELSE deposit[m]]
    /\ late' = [m \in Messages |->
          IF m \notin A THEN late[m]
          ELSE RunsOn(m, ship) \ (IF m \in places THEN {NewDeposit(m)} ELSE {})]
    /\ withoutRoute' = [m \in Messages |->
          IF m \in A THEN Recipient[m] \notin route ELSE withoutRoute[m]]
    /\ left' = left \cup (A \cap (carries \cup places))
    /\ carried' = carried \cup (A \cap carries)

(* Messages.ship: an Outbound still awaited is used again, else a new one rests. *)
Shipped(m) == IF Awaited(m) THEN out[m] ELSE "resting"

(* The Outbound and the record after the dispatch: _messageLeft, on a new carrying. *)
DispatchedOut(m, carries) == IF m \in carries THEN "inTransit" ELSE Shipped(m)

(* Mutation: the start of the deposit counts as the evidence. *)
StateOfStartedDeposit(m, carries) == "inTransit"

DispatchedState(m, carries) ==
    IF m \in carries /\ Shipped(m) = "resting" THEN "inTransit" ELSE state[m]

(***************************************************************************)
(* MailboxOutbound.send: the ladder first, then the record, in one turn.   *)
(***************************************************************************)
Send(m, carries, places) ==
    /\ state[m] = "none"
    /\ UNCHANGED <<keys, route, day, edgePassed, placedAt, placedKeys, owed>>
    /\ Dispatch({m}, carries, places, shipment)
    /\ out' = [out EXCEPT ![m] = DispatchedOut(m, carries)]
    /\ state' = [state EXCEPT ![m] = DispatchedOut(m, carries)]
    /\ content' = [content EXCEPT ![m] = TRUE]
    /\ instant' = [instant EXCEPT ![m] = day]

-----------------------------------------------------------------------------
(***************************************************************************)
(* AN EDGE.  _atEdge asks one open record; the four answers exclude each   *)
(* other.  A placed record keeps its placing, unless the keys changed and  *)
(* the copy to seal again is still there.                                  *)
(***************************************************************************)
Running(m) == shipment[m] = "running"

Dropped(m) ==
    placedAt[m] # NotPlaced /\ content[m] /\ day - placedAt[m] > PlacedCopyKept

(* Mutation: a copy that is gone is sealed again. *)
KeepsPlacingUnlessSealedAgain(m, reseal) == placedAt[m] # NotPlaced /\ ~reseal

KeepsPlacing(m, reseal) ==
    placedAt[m] # NotPlaced /\ (~reseal \/ Dropped(m) \/ ~content[m])

(* Mutation: the deadline does not ask for the placing. *)
TooOldWhateverPlaced(m) == day - instant[m] > OutboundDeadline

TooOld(m) == placedAt[m] = NotPlaced /\ day - instant[m] > OutboundDeadline

(* A shipment that started without an address, or under replaced keys, does not wait. *)
Replaced(m, reseal) ==
    reseal \/ (Recipient[m] \in route /\ out[m] # "none" /\ withoutRoute[m])

(* Mutation: a running placing is not asked for. *)
WaitsNever(m, reseal) == FALSE

Waits(m, reseal) ==
    ~KeepsPlacing(m, reseal) /\ ~TooOld(m) /\ Running(m) /\ ~Replaced(m, reseal)

GoesAgain(m, reseal) ==
    ~KeepsPlacing(m, reseal) /\ ~TooOld(m) /\ ~Waits(m, reseal)

(***************************************************************************)
(* giveUpAgain for the messages of S: stateCheck first, for every note,    *)
(* then every record still open.                                           *)
(***************************************************************************)
Asked(S) == {m \in S : Open(m) /\ ~Settles(m)}

GiveUpAgain(S, reseal, carries, places) ==
    LET asked == Asked(S)
        again == {m \in asked : GoesAgain(m, reseal)}
        waiting == {m \in asked : Waits(m, reseal)}
        tooOld == {m \in asked : TooOld(m)}
        dropped == {m \in asked : Dropped(m)}
        settled == {m \in Messages : Settles(m)}
    IN  /\ Dispatch(again, carries, places, shipment)
        /\ state' = [m \in Messages |->
              IF m \in settled THEN "delivered"
              ELSE IF m \in tooOld THEN "failed"
              ELSE IF m \in again THEN DispatchedState(m, carries)
              ELSE state[m]]
        /\ out' = [m \in Messages |->
              IF m \in settled THEN "none"
              ELSE IF m \in again THEN DispatchedOut(m, carries)
              ELSE out[m]]
        /\ content' = [m \in Messages |->
              content[m] /\ m \notin settled \cup tooOld \cup dropped]
        /\ placedAt' = [m \in Messages |->
              IF m \in settled \cup again THEN NotPlaced ELSE placedAt[m]]
        /\ edgePassed' = edgePassed \cup waiting
        /\ owed' = (owed \cup waiting) \ again
        /\ UNCHANGED <<instant, placedKeys>>

To(P) == {m \in Messages : Recipient[m] \in P}

(* atEdge: network change, application opened, new neighbour (every peer); *)
(* a route has arisen, the answer to a 0x23 (one peer).                    *)
Edge(P, carries, places) ==
    /\ UNCHANGED <<route, keys, day>>
    /\ GiveUpAgain(To(P), FALSE, carries, places)

(* identityRotate (every peer) and the adoption of a peer's rotated keys (that peer). *)
KeysChange(P, carries, places) ==
    /\ \A p \in P : keys[p] < MaxKeys
    /\ keys' = [p \in Peers |-> IF p \in P THEN keys[p] + 1 ELSE keys[p]]
    /\ GiveUpAgain(To(P), TRUE, carries, places)
    /\ UNCHANGED <<route, day>>

-----------------------------------------------------------------------------
(* _messageLeft writes only an open record. *)
(* Mutation: stateChange rewrites blindly. *)
LeftStateBlind(m) == "inTransit"

LeftState(m) == IF Open(m) THEN "inTransit" ELSE state[m]

(***************************************************************************)
(* _placingEnded, placed: the second receipt of the deposit came.  It is   *)
(* the same callback for the shipment on the ladder and for one that was   *)
(* ended or superseded before.                                             *)
(***************************************************************************)
PlacingRemembered(m, d) ==
    /\ edgePassed' = edgePassed \ {m}
    /\ IF out[m] = "resting"
          THEN /\ out' = [out EXCEPT ![m] = "inTransit"]
               /\ state' = [state EXCEPT ![m] = LeftState(m)]
          ELSE UNCHANGED <<out, state>>
    /\ IF Open(m)
          THEN /\ placedAt' = [placedAt EXCEPT ![m] = day]
               /\ placedKeys' = [placedKeys EXCEPT ![m] = d.keys]
          ELSE UNCHANGED <<placedAt, placedKeys>>
    /\ carried' = IF Settles(m) THEN carried ELSE carried \cup {m}
    /\ UNCHANGED <<content, instant, withoutRoute, deposit, sending, route, keys, day,
                   left, owed>>

Placed(m) ==
    /\ Running(m)
    /\ PlacingRemembered(m, deposit[m])
    /\ shipment' = [shipment EXCEPT ![m] = "placed"]
    /\ UNCHANGED late

LatePlaced(m, d) ==
    /\ d \in late[m]
    /\ PlacingRemembered(m, d)
    /\ late' = [late EXCEPT ![m] = @ \ {d}]
    /\ UNCHANGED shipment

(* The record an edge that passed meanwhile asks about. *)
(* Mutation: the edge is answered only for a message that was carried. *)
EdgeQuestionIfCarried(m) ==
    IF m \in edgePassed /\ state[m] = "inTransit" THEN {m} ELSE {}

EdgeQuestion(m) == IF m \in edgePassed /\ Open(m) THEN {m} ELSE {}

(***************************************************************************)
(* _placingEnded, not placed.  If an edge passed meanwhile its question is *)
(* answered now, by _atEdge without a new seal.                            *)
(***************************************************************************)
NotPlacedEnds(m, carries, places) ==
    LET ended == [shipment EXCEPT ![m] = "notPlaced"]
        asked == EdgeQuestion(m)
        tooOld == {x \in asked : TooOld(x)}
        dropped == {x \in asked : Dropped(x)}
        again == {x \in asked : ~KeepsPlacing(x, FALSE) /\ ~TooOld(x)}
    IN  /\ Running(m)
        /\ edgePassed' = edgePassed \ {m}
        /\ UNCHANGED <<instant, placedAt, route, keys, day, placedKeys>>
        /\ Dispatch(again, carries, places, ended)
        /\ state' = [x \in Messages |->
              IF x \in tooOld THEN "failed"
              ELSE IF x \in again THEN DispatchedState(x, carries) ELSE state[x]]
        /\ out' = [x \in Messages |->
              IF x \in again THEN DispatchedOut(x, carries) ELSE out[x]]
        /\ content' = [x \in Messages |-> content[x] /\ x \notin tooOld \cup dropped]
        /\ owed' = owed \ again

(* A superseded one answers nothing; one without shipment takes the edge away. *)
LateNotPlaced(m, d) ==
    /\ d \in late[m]
    /\ late' = [late EXCEPT ![m] = @ \ {d}]
    /\ edgePassed' = IF shipment[m] = "none" THEN edgePassed \ {m} ELSE edgePassed
    /\ UNCHANGED <<history, out, withoutRoute, shipment, deposit, sending,
                   route, keys, day, ghosts>>

-----------------------------------------------------------------------------
(***************************************************************************)
(* Messages._receiptCame from the recipient: the Outbound is delivered, it *)
(* is awaited no longer, its shipment ends.  The history follows with the  *)
(* next stateCheck.                                                        *)
(***************************************************************************)
Receipt(m) ==
    /\ m \in left /\ Awaited(m)
    /\ out' = [out EXCEPT ![m] = "delivered"]
    /\ late' = [late EXCEPT ![m] = RunsOn(m, shipment)]
    /\ shipment' = [shipment EXCEPT ![m] = "none"]
    /\ UNCHANGED <<history, withoutRoute, deposit, edgePassed, sending, route, keys, day,
                   ghosts>>

(***************************************************************************)
(* onReceiptUnknown: no Outbound is awaited.  The application closes the   *)
(* record the history still holds open (_myceliumReceiptLate).             *)
(***************************************************************************)
ReceiptLate(m) ==
    /\ m \in left /\ ~Awaited(m) /\ Open(m)
    /\ state' = [state EXCEPT ![m] = "delivered"]
    /\ content' = [content EXCEPT ![m] = FALSE]
    /\ placedAt' = [placedAt EXCEPT ![m] = NotPlaced]
    /\ UNCHANGED <<instant, memory, route, keys, day, ghosts>>

(* stateCheck, every 200 ms: settled Outbounds are written into the history. *)
StateCheck ==
    /\ \E m \in Messages : Settles(m)
    /\ state' = [m \in Messages |-> IF Settles(m) THEN "delivered" ELSE state[m]]
    /\ content' = [m \in Messages |-> content[m] /\ ~Settles(m)]
    /\ placedAt' = [m \in Messages |-> IF Settles(m) THEN NotPlaced ELSE placedAt[m]]
    /\ out' = [m \in Messages |-> IF Settles(m) THEN "none" ELSE out[m]]
    /\ UNCHANGED <<instant, withoutRoute, shipment, deposit, late, edgePassed, sending,
                   route, keys, day, ghosts>>

(***************************************************************************)
(* forget: the user deleted a message whose record still carries it.  The  *)
(* record goes; a sending that is noted ends, its Outbound is given up.    *)
(***************************************************************************)
(* Mutation: the note and the shipment stay. *)
ForgetKeepsShipment(m) ==
    /\ Open(m) /\ content[m]
    /\ state' = [state EXCEPT ![m] = "forgotten"]
    /\ content' = [content EXCEPT ![m] = FALSE]
    /\ placedAt' = [placedAt EXCEPT ![m] = NotPlaced]
    /\ edgePassed' = edgePassed \ {m}
    /\ out' = [out EXCEPT ![m] = "none"]
    /\ UNCHANGED <<instant, withoutRoute, shipment, deposit, late, sending, route, keys,
                   day, ghosts>>

(* Mutation: the given up Outbound stays noted. *)
ForgetKeepsNote(m) ==
    /\ Open(m) /\ content[m]
    /\ state' = [state EXCEPT ![m] = "forgotten"]
    /\ content' = [content EXCEPT ![m] = FALSE]
    /\ placedAt' = [placedAt EXCEPT ![m] = NotPlaced]
    /\ edgePassed' = edgePassed \ {m}
    /\ out' = [out EXCEPT ![m] = "failed"]
    /\ late' = [late EXCEPT ![m] = RunsOn(m, shipment)]
    /\ shipment' = [shipment EXCEPT ![m] = "none"]
    /\ UNCHANGED <<instant, withoutRoute, deposit, sending, route, keys, day, ghosts>>

Forget(m) ==
    /\ Open(m) /\ content[m]
    /\ state' = [state EXCEPT ![m] = "forgotten"]
    /\ content' = [content EXCEPT ![m] = FALSE]
    /\ placedAt' = [placedAt EXCEPT ![m] = NotPlaced]
    /\ edgePassed' = edgePassed \ {m}
    /\ out' = [out EXCEPT ![m] = "none"]
    /\ late' = [late EXCEPT ![m] = IF out[m] # "none" THEN RunsOn(m, shipment) ELSE @]
    /\ shipment' = [shipment EXCEPT ![m] = IF out[m] # "none" THEN "none" ELSE @]
    /\ UNCHANGED <<instant, withoutRoute, deposit, sending, route, keys, day, ghosts>>

(***************************************************************************)
(* The process ends: memory is gone, the history stays.  It starts again   *)
(* with an edge for every peer (Host.start), before anything arrives.      *)
(***************************************************************************)
Crash ==
    /\ up /\ up' = FALSE
    /\ out' = [m \in Messages |-> "none"]
    /\ shipment' = [m \in Messages |-> "none"]
    /\ late' = [m \in Messages |-> {}]
    /\ edgePassed' = {} /\ owed' = {}
    /\ UNCHANGED <<history, withoutRoute, deposit, sending, route, keys, day,
                   left, carried, placedKeys>>

Start(carries, places) ==
    /\ ~up /\ up' = TRUE
    /\ UNCHANGED <<route, keys, day>>
    /\ GiveUpAgain(Messages, FALSE, carries, places)

(* The surroundings: a peer comes to have an address usable from here, or *)
(* has none any longer (another network); a day passes.                   *)
RouteChanges(p) ==
    /\ route' = IF p \in route THEN route \ {p} ELSE route \cup {p}
    /\ UNCHANGED <<history, memory, keys, day, ghosts>>

DayPasses ==
    /\ day < MaxDay /\ day' = day + 1
    /\ UNCHANGED <<history, memory, route, keys, up, ghosts>>

-----------------------------------------------------------------------------
Scopes == {Peers} \cup {{p} : p \in Peers}

EdgeStep ==
    \E carries, places \in SUBSET Messages, P \in Scopes :
        Edge(P, carries, places) \/ KeysChange(P, carries, places)

SendStep ==
    \E m \in Messages : \E carries, places \in SUBSET {m} : Send(m, carries, places)

PlacingEnds(m) ==
    Placed(m) \/ \E carries, places \in SUBSET {m} : NotPlacedEnds(m, carries, places)

LatePlacingEnds(m) == \E d \in late[m] : LatePlaced(m, d) \/ LateNotPlaced(m, d)

UpStep ==
    \/ SendStep \/ EdgeStep \/ StateCheck
    \/ \E m \in Messages :
        PlacingEnds(m) \/ LatePlacingEnds(m) \/ Receipt(m) \/ ReceiptLate(m) \/ Forget(m)
    \/ \E p \in Peers : RouteChanges(p)

StartStep == \E carries, places \in SUBSET Messages : Start(carries, places)

Next ==
    \/ up /\ up' = up /\ UpStep
    \/ Crash \/ StartStep
    \/ DayPasses

(***************************************************************************)
(* The check runs on a timer, and a placing always ends: its requests give *)
(* up after their repeats (silence.dart).  Edges and receipts may never    *)
(* come.                                                                   *)
(***************************************************************************)
Fairness ==
    /\ WF_vars(up /\ up' = up /\ StateCheck)
    /\ \A m \in Messages : WF_vars(up /\ up' = up /\ PlacingEnds(m))

Spec == Init /\ [][Next]_vars /\ Fairness

-----------------------------------------------------------------------------
(***************************************************************************)
(* PROPERTIES                                                              *)
(***************************************************************************)

(* A record that may still have to leave again carries what would leave:   *)
(* only a closed record and a placed one give the message up (history.dart,*)
(* "WHAT AN ENTRY KEEPS").  Otherwise an edge would send an empty message. *)
CopyKept == \A m \in Messages : Open(m) /\ placedAt[m] = NotPlaced => content[m]

(* An open record says in transit exactly when a way carried the message   *)
(* or a post box took it, across the failed placing, the crash and the     *)
(* late end of a superseded placing (§9.1; _messageLeft).                  *)
InTransitIsCarried ==
    \A m \in Messages : Open(m) => (state[m] = "inTransit" <=> m \in carried)

(* A shipment is on the ladder only for a message whose receipt is awaited:*)
(* neither the receipt, the deletion nor the check leaves one behind.      *)
ShipmentAwaited == \A m \in Messages : shipment[m] # "none" => Awaited(m)

(* What leaves is an open record that is not placed, except after a change *)
(* of keys; nothing closed, deleted, or acknowledged in this run leaves    *)
(* again, and nothing leaves a second time beside its own running deposit: *)
(* only the end of that placing lets it go, for the edge that waited, or   *)
(* one of the two things a running shipment cannot learn any more, new     *)
(* keys and a first address (§9.3 "placed is final"; _atEdge, stateCheck   *)
(* first).                                                                 *)
NewKeys(m) == keys'[Recipient[m]] # keys[Recipient[m]]

AnswersItsEdge(m) == m \in edgePassed \ edgePassed'

MaySend(m) ==
    \/ state[m] = "none"
    \/ /\ Open(m) /\ ~Settles(m) /\ content[m]
       /\ placedAt[m] = NotPlaced \/ NewKeys(m)
       /\ Running(m) => NewKeys(m) \/ Replaced(m, FALSE) \/ AnswersItsEdge(m)

SentOnlyWhenDue == [][\A m \in Messages : sending'[m] # sending[m] => MaySend(m)]_vars

(* A message whose placing is remembered is never closed as failed, and    *)
(* the placing is forgotten only by closing it or by a change of keys.     *)
PlacedIsFinal ==
    [][\A m \in Messages : placedAt[m] # NotPlaced =>
          /\ state'[m] # "failed"
          /\ \/ placedAt'[m] # NotPlaced \/ state'[m] \in {"delivered", "forgotten"}
             \/ keys'[Recipient[m]] # keys[Recipient[m]]]_vars

(* An edge that met a running placing is answered: the message is sent     *)
(* again, or it is placed, or it is closed (_edgePassed, _placingEnded).   *)
EdgeAnswered ==
    \A m \in Messages :
        m \in owed ~> (m \notin owed \/ placedAt[m] # NotPlaced \/ ~Open(m))

(* A receipt that reached this run reaches the history, unless the user    *)
(* deletes the message or the process ends first (stateCheck).             *)
ReceiptWritten ==
    \A m \in Messages : out[m] = "delivered" ~> (state[m] \in {"delivered", "forgotten"} \/ ~up)

(* The history implements the delivery states the sender is promised,      *)
(* except where _atEdge departs from them: its deadline does not ask       *)
(* whether a way carried the message, so one that is in transit and        *)
(* nowhere placed is given up after 14 days, too.                          *)
Promise == INSTANCE DeliveryStates
    WITH shown <- state, placed <- {m \in Messages : placedAt[m] # NotPlaced}

GivenUpInTransit(m) ==
    /\ state[m] = "inTransit" /\ TooOld(m)
    /\ state'[m] = "failed" /\ placedAt'[m] = NotPlaced

LifecycleKept ==
    /\ Promise!Init
    /\ [][\A m \in Messages : Promise!Keeps(m) \/ GivenUpInTransit(m)]_(Promise!vars)

(* §9.1, "failed is reserved for the case where no rung carried it at      *)
(* all": no message that a way carried is given up.                        *)
GivenUpWasNotCarried ==
    [][\A m \in Messages : state[m] # "failed" /\ state'[m] = "failed" => m \notin carried]_vars

(* §4.5.4, _atEdge "SEALED AGAIN": a remembered placing is that of an      *)
(* envelope under the keys in force; one under replaced keys counts no     *)
(* longer.                                                                 *)
PlacedUnderKeysInForce ==
    \A m \in Messages :
        Open(m) /\ placedAt[m] # NotPlaced /\ content[m]
            => placedKeys[m] = keys[Recipient[m]]

=============================================================================
