----------------------- MODULE MailboxOutboundProofs -----------------------
(***************************************************************************)
(* Proofs about MailboxOutbound, for every set of messages and peers and   *)
(* every length of the periods.  A step of the machine touches many        *)
(* messages at once, but each of them in one of ten ways.  StepAt says so, *)
(* and everything else is proved from the ten ways, one message at a time. *)
(***************************************************************************)
EXTENDS MailboxOutbound, TLAPS

-----------------------------------------------------------------------------
(* What a step can do to one message. *)

SameKept(m) == state'[m] = state[m] /\ placedAt'[m] = placedAt[m]

SameRun(m) ==
    /\ out'[m] = out[m] /\ late'[m] \subseteq late[m]
    /\ shipment'[m] = "none" <=> shipment[m] = "none"

SameSent(m) == sending'[m] = sending[m] /\ (m \in carried' <=> m \in carried)

LeftAlone(m) ==
    /\ SameKept(m) /\ SameRun(m) /\ SameSent(m)
    /\ content'[m] = content[m] \/ placedAt[m] # NotPlaced

SentFirst(m) ==
    /\ state[m] = "none" /\ content'[m] /\ placedAt'[m] = placedAt[m]
    /\ out'[m] \in {"resting", "inTransit"} /\ state'[m] = out'[m]
    /\ m \in carried' <=> m \in carried \/ out'[m] = "inTransit"

SentAgain(m) ==
    /\ Open(m) /\ ~Settles(m) /\ content[m] /\ content'[m]
    /\ placedAt[m] = NotPlaced \/ NewKeys(m)
    /\ Running(m) => NewKeys(m) \/ Replaced(m, FALSE) \/ AnswersItsEdge(m)
    /\ placedAt'[m] = NotPlaced
    /\ \/ /\ out'[m] = Shipped(m) /\ state'[m] = state[m]
          /\ m \in carried' <=> m \in carried
       \/ /\ out'[m] = "inTransit" /\ m \in carried'
          /\ state'[m] = IF Shipped(m) = "resting" THEN "inTransit" ELSE state[m]

GivenUp(m) ==
    /\ Open(m) /\ TooOld(m) /\ placedAt'[m] = NotPlaced
    /\ state'[m] = "failed" /\ SameRun(m) /\ SameSent(m)

Settled(m) ==
    /\ Settles(m) /\ out'[m] = "none" /\ state'[m] = "delivered"
    /\ placedAt'[m] = NotPlaced
    /\ (shipment'[m] = "none" <=> shipment[m] = "none") /\ SameSent(m)

PlacedHere(m) ==
    /\ shipment[m] # "none" \/ late[m] # {}
    /\ state'[m] = IF out[m] = "resting" THEN LeftState(m) ELSE state[m]
    /\ out'[m] = IF out[m] = "resting" THEN "inTransit" ELSE out[m]
    /\ Open(m) => placedAt'[m] # NotPlaced
    /\ ~Open(m) => placedAt'[m] = placedAt[m]
    /\ m \in carried' <=> m \in carried \/ ~Settles(m)
    /\ content'[m] = content[m] /\ late'[m] \subseteq late[m]
    /\ shipment'[m] = "none" <=> shipment[m] = "none"
    /\ sending'[m] = sending[m]

Receipted(m) ==
    /\ Awaited(m) /\ out'[m] = "delivered" /\ shipment'[m] = "none"
    /\ SameKept(m) /\ SameSent(m) /\ content'[m] = content[m]

ClosedLate(m) ==
    /\ Open(m) /\ state'[m] = "delivered" /\ placedAt'[m] = NotPlaced
    /\ SameRun(m) /\ SameSent(m)

Deleted(m) ==
    /\ Open(m) /\ state'[m] = "forgotten" /\ placedAt'[m] = NotPlaced
    /\ out'[m] = "none" /\ SameSent(m)
    /\ shipment'[m] = IF out[m] = "none" THEN shipment[m] ELSE "none"

MemoryGone(m) ==
    /\ SameKept(m) /\ SameSent(m) /\ content'[m] = content[m]
    /\ out'[m] = "none" /\ shipment'[m] = "none" /\ late'[m] = {}

StepOf(m) ==
    \/ LeftAlone(m) \/ SentFirst(m) \/ SentAgain(m) \/ GivenUp(m) \/ Settled(m)
    \/ PlacedHere(m) \/ Receipted(m) \/ ClosedLate(m) \/ Deleted(m) \/ MemoryGone(m)

-----------------------------------------------------------------------------
(* The inductive invariant: the record and what memory knows of it agree. *)

NoteFits(m) ==
    /\ state[m] = "none" => /\ out[m] = "none" /\ late[m] = {}
                            /\ m \notin carried /\ placedAt[m] = NotPlaced
    /\ state[m] = "forgotten" => out[m] = "none"
    /\ Open(m) /\ out[m] = "inTransit" => state[m] = "inTransit"
    /\ Open(m) /\ out[m] = "none" => late[m] = {}
    /\ placedAt[m] # NotPlaced => Open(m)

Fits(m) ==
    /\ NoteFits(m)
    /\ Open(m) /\ placedAt[m] = NotPlaced => content[m]
    /\ Open(m) => (state[m] = "inTransit" <=> m \in carried)
    /\ shipment[m] # "none" => Awaited(m)

IInv == TypeOK /\ \A m \in Messages : Fits(m)

-----------------------------------------------------------------------------
(* The initial states satisfy the inductive invariant. *)
LEMMA InitFits == Init => IInv
  <1> USE BoundsAssumption, PeriodsAssumption, RecipientAssumption
  <1> SUFFICES ASSUME Init PROVE IInv
    OBVIOUS
  <1>1. TypeOK
    BY DEF Init, TypeOK, States, Placings, Deposits, Days, NotPlaced
  <1>2. ASSUME NEW m \in Messages PROVE Fits(m)
    BY DEF Init, Fits, NoteFits, Open, Awaited, NotPlaced
  <1> QED
    BY <1>1, <1>2 DEF IInv

(* Whatever a step does to a message, its record and its memory still fit. *)
LEMMA StepKeepsFits ==
  ASSUME TypeOK, NEW m \in Messages, Fits(m), StepOf(m)
  PROVE  Fits(m)'
  <1> USE DEF Fits, NoteFits, Open, Awaited, SameKept, SameRun, SameSent
  <1>1. CASE LeftAlone(m)
    BY <1>1 DEF LeftAlone
  <1>2. CASE SentFirst(m)
    BY <1>2 DEF SentFirst
  <1>3. CASE SentAgain(m)
    BY <1>3 DEF SentAgain, Shipped, Settles
  <1>4. CASE GivenUp(m)
    BY <1>4 DEF GivenUp, TooOld
  <1>5. CASE Settled(m)
    BY <1>5 DEF Settled, Settles
  <1>6. CASE PlacedHere(m)
    BY <1>6 DEF PlacedHere, Settles, LeftState, TypeOK
  <1>7. CASE Receipted(m)
    BY <1>7 DEF Receipted
  <1>8. CASE ClosedLate(m)
    BY <1>8 DEF ClosedLate
  <1>9. CASE Deleted(m)
    BY <1>9 DEF Deleted
  <1>10. CASE MemoryGone(m)
    BY <1>10 DEF MemoryGone
  <1> QED
    BY <1>1, <1>2, <1>3, <1>4, <1>5, <1>6, <1>7, <1>8, <1>9, <1>10 DEF StepOf

-----------------------------------------------------------------------------
(* What each action does to one message m. *)

LEMMA SendAt ==
  ASSUME TypeOK, NEW n \in Messages, NEW carries \in SUBSET {n},
         NEW places \in SUBSET {n}, Send(n, carries, places),
         NEW m \in Messages, Fits(m)
  PROVE  StepOf(m)
  <1>1. CASE m = n
    <2>1. SentFirst(m)
      BY <1>1 DEF Send, Dispatch, SentFirst, DispatchedOut, Shipped, Awaited,
                  TypeOK, Fits, NoteFits
    <2> QED
      BY <2>1 DEF StepOf
  <1>2. CASE m # n
    <2>1. LeftAlone(m)
      BY <1>2 DEF Send, Dispatch, LeftAlone, SameKept, SameRun, SameSent, TypeOK
    <2> QED
      BY <2>1 DEF StepOf
  <1> QED
    BY <1>1, <1>2

LEMMA GiveUpAgainAt ==
  ASSUME TypeOK, NEW S, NEW reseal \in BOOLEAN, NEW carries, NEW places,
         GiveUpAgain(S, reseal, carries, places),
         NEW m \in Messages, Fits(m),
         reseal /\ m \in S => keys'[Recipient[m]] # keys[Recipient[m]]
  PROVE  StepOf(m)
  <1> DEFINE asked == m \in S /\ Open(m) /\ ~Settles(m)
  <1> USE DEF GiveUpAgain, Dispatch, Asked
  <1>1. CASE Settles(m)
    <2>1. Settled(m)
      BY <1>1 DEF Settled, SameSent, TypeOK, Fits, Awaited, Settles
    <2> QED
      BY <2>1 DEF StepOf
  <1>2. CASE asked /\ TooOld(m)
    <2>1. GivenUp(m)
      BY <1>2 DEF GivenUp, SameRun, SameSent, TooOld, GoesAgain, TypeOK
    <2> QED
      BY <2>1 DEF StepOf
  <1>3. CASE asked /\ GoesAgain(m, reseal)
    <2>1. content[m] /\ ~Dropped(m) /\ ~TooOld(m)
      BY <1>3 DEF GoesAgain, KeepsPlacing, Fits, Dropped, TypeOK
    <2>2. content'[m] /\ placedAt'[m] = NotPlaced
      BY <1>3, <2>1 DEF TypeOK, Settles
    <2>3. /\ placedAt[m] = NotPlaced \/ NewKeys(m)
          /\ Running(m) => NewKeys(m) \/ Replaced(m, FALSE)
      BY <1>3 DEF GoesAgain, Waits, Replaced, KeepsPlacing, NewKeys
    <2>4. state'[m] = DispatchedState(m, carries) /\ out'[m] = DispatchedOut(m, carries)
      BY <1>3, <2>1 DEF Settles, TypeOK
    <2>5. m \in carried' <=> m \in carried \/ m \in carries
      BY <1>3
    <2>6. SentAgain(m)
      BY <1>3, <2>1, <2>2, <2>3, <2>4, <2>5 DEF SentAgain, DispatchedState, DispatchedOut
    <2> QED
      BY <2>6 DEF StepOf
  <1>4. CASE ~Settles(m) /\ ~(asked /\ (TooOld(m) \/ GoesAgain(m, reseal)))
    <2>1. SameKept(m) /\ SameRun(m) /\ SameSent(m)
      BY <1>4 DEF SameKept, SameRun, SameSent, TypeOK
    <2>2. content'[m] = content[m] \/ placedAt[m] # NotPlaced
      BY <1>4 DEF Dropped, TypeOK
    <2> QED
      BY <2>1, <2>2 DEF StepOf, LeftAlone
  <1> QED
    BY <1>1, <1>2, <1>3, <1>4

LEMMA PlacingRememberedAt ==
  ASSUME TypeOK, NEW n \in Messages, NEW d, PlacingRemembered(n, d),
         NEW m \in Messages, shipment[n] # "none" \/ late[n] # {},
         late'[m] \subseteq late[m], shipment'[m] = "none" <=> shipment[m] = "none"
  PROVE  StepOf(m)
  <1> USE DEF PlacingRemembered, TypeOK
  <1>1. CASE m = n
    <2>1. day # NotPlaced
      BY DEF Days, NotPlaced
    <2>2. state'[m] = IF out[m] = "resting" THEN LeftState(m) ELSE state[m]
      BY <1>1
    <2>3. out'[m] = IF out[m] = "resting" THEN "inTransit" ELSE out[m]
      BY <1>1
    <2>4. placedAt'[m] = IF Open(m) THEN day ELSE placedAt[m]
      BY <1>1
    <2>5. m \in carried' <=> m \in carried \/ ~Settles(m)
      BY <1>1
    <2>6. content'[m] = content[m] /\ sending'[m] = sending[m]
      OBVIOUS
    <2> QED
      BY <1>1, <2>1, <2>2, <2>3, <2>4, <2>5, <2>6 DEF StepOf, PlacedHere
  <1>2. CASE m # n
    BY <1>2 DEF StepOf, LeftAlone, SameKept, SameRun, SameSent
  <1> QED
    BY <1>1, <1>2

LEMMA NotPlacedEndsAt ==
  ASSUME TypeOK, NEW n \in Messages, NEW carries, NEW places,
         NotPlacedEnds(n, carries, places), NEW m \in Messages, Fits(m), Fits(n)
  PROVE  StepOf(m)
  <1> USE DEF NotPlacedEnds, Dispatch, EdgeQuestion
  <1> DEFINE asked == m = n /\ n \in edgePassed /\ Open(n)
  <1>1. ~Settles(n)
    BY DEF Fits, Running, Awaited, Settles
  <1>2. CASE asked /\ TooOld(m)
    <2>1. GivenUp(m)
      BY <1>2 DEF GivenUp, SameRun, SameSent, TooOld, TypeOK, Running
    <2> QED
      BY <2>1 DEF StepOf
  <1>3. CASE asked /\ ~TooOld(m) /\ ~KeepsPlacing(m, FALSE)
    <2>1. content[m] /\ ~Dropped(m) /\ placedAt[m] = NotPlaced
      BY <1>3 DEF KeepsPlacing, Fits, Dropped
    <2>2. content'[m] /\ placedAt'[m] = NotPlaced
      BY <1>3, <2>1 DEF TypeOK
    <2>3. state'[m] = DispatchedState(m, carries) /\ out'[m] = DispatchedOut(m, carries)
      BY <1>3 DEF TypeOK
    <2>4. m \in carried' <=> m \in carried \/ m \in carries
      BY <1>3
    <2>5. AnswersItsEdge(m)
      BY <1>3 DEF AnswersItsEdge
    <2>6. SentAgain(m)
      BY <1>1, <1>3, <2>1, <2>2, <2>3, <2>4, <2>5
         DEF SentAgain, DispatchedState, DispatchedOut
    <2> QED
      BY <2>6 DEF StepOf
  <1>4. CASE ~(asked /\ (TooOld(m) \/ ~KeepsPlacing(m, FALSE)))
    <2>1. SameKept(m) /\ SameSent(m)
      BY <1>4 DEF SameKept, SameSent, TypeOK
    <2>2. SameRun(m)
      BY <1>4 DEF SameRun, TypeOK, Running
    <2>3. content'[m] = content[m] \/ placedAt[m] # NotPlaced
      BY <1>4 DEF Dropped, TypeOK
    <2> QED
      BY <2>1, <2>2, <2>3 DEF StepOf, LeftAlone
  <1> QED
    BY <1>2, <1>3, <1>4

(* Every step of the machine does one of the ten things to each message. *)
LEMMA StepAt ==
  ASSUME IInv, [Next]_vars, NEW m \in Messages
  PROVE  StepOf(m)
  <1> USE DEF IInv
  <1>1. TypeOK /\ Fits(m)
    OBVIOUS
  <1>2. ASSUME NEW n \in Messages,
               NEW carries \in SUBSET {n}, NEW places \in SUBSET {n},
               Send(n, carries, places)
        PROVE  StepOf(m)
    BY <1>1, <1>2, SendAt
  <1>3. ASSUME NEW carries, NEW places, NEW P \in Scopes, Edge(P, carries, places)
        PROVE  StepOf(m)
    BY <1>1, <1>3, GiveUpAgainAt DEF Edge
  <1>4. ASSUME NEW carries, NEW places, NEW P \in Scopes, KeysChange(P, carries, places)
        PROVE  StepOf(m)
    <2>1. ASSUME m \in To(P) PROVE keys'[Recipient[m]] # keys[Recipient[m]]
      BY <1>4, <2>1, RecipientAssumption, BoundsAssumption DEF KeysChange, To, TypeOK
    <2> QED
      BY <1>1, <1>4, <2>1, GiveUpAgainAt DEF KeysChange
  <1>5. CASE StateCheck
    <2>1. CASE Settles(m)
      <3>1. Settled(m)
        BY <1>5, <2>1 DEF StateCheck, Settled, SameSent, TypeOK, ghosts
      <3> QED
        BY <3>1 DEF StepOf
    <2>2. CASE ~Settles(m)
      <3>1. LeftAlone(m)
        BY <1>5, <2>2 DEF StateCheck, LeftAlone, SameKept, SameRun, SameSent, TypeOK,
                           ghosts
      <3> QED
        BY <3>1 DEF StepOf
    <2> QED
      BY <2>1, <2>2
  <1>6. ASSUME NEW n \in Messages, Placed(n) PROVE StepOf(m)
    <2>1. shipment[n] # "none"
      BY <1>6 DEF Placed, Running
    <2>2. late'[m] = late[m] /\ (shipment'[m] = "none" <=> shipment[m] = "none")
      BY <1>6, <2>1 DEF Placed, TypeOK
    <2>3. PlacingRemembered(n, deposit[n])
      BY <1>6 DEF Placed
    <2> QED
      BY <1>1, <2>1, <2>2, <2>3, PlacingRememberedAt
  <1>7. ASSUME NEW n \in Messages, NEW d \in late[n], LatePlaced(n, d) PROVE StepOf(m)
    <2>1. late[n] # {} /\ late'[m] \subseteq late[m] /\ shipment' = shipment
      BY <1>7 DEF LatePlaced, TypeOK
    <2> QED
      BY <1>1, <1>7, <2>1, PlacingRememberedAt DEF LatePlaced
  <1>8. ASSUME NEW n \in Messages, NEW carries, NEW places, NotPlacedEnds(n, carries, places)
        PROVE  StepOf(m)
    BY <1>1, <1>8, NotPlacedEndsAt
  <1>9. ASSUME NEW n \in Messages, NEW d, LateNotPlaced(n, d) PROVE StepOf(m)
    <2>1. LeftAlone(m)
      BY <1>9 DEF LateNotPlaced, LeftAlone, SameKept, SameRun, SameSent, TypeOK,
                  history, ghosts
    <2> QED
      BY <2>1 DEF StepOf
  <1>10. ASSUME NEW n \in Messages, Receipt(n) PROVE StepOf(m)
    <2>1. CASE m = n
      BY <1>10, <2>1 DEF Receipt, StepOf, Receipted, SameKept, SameSent, TypeOK,
                         history, ghosts
    <2>2. CASE m # n
      BY <1>10, <2>2 DEF Receipt, StepOf, LeftAlone, SameKept, SameRun, SameSent, TypeOK,
                         history, ghosts
    <2> QED
      BY <2>1, <2>2
  <1>11. ASSUME NEW n \in Messages, ReceiptLate(n) PROVE StepOf(m)
    <2>1. CASE m = n
      BY <1>11, <2>1 DEF ReceiptLate, StepOf, ClosedLate, SameRun, SameSent, TypeOK,
                         memory, ghosts
    <2>2. CASE m # n
      BY <1>11, <2>2 DEF ReceiptLate, StepOf, LeftAlone, SameKept, SameRun, SameSent,
                         TypeOK, memory, ghosts
    <2> QED
      BY <2>1, <2>2
  <1>12. ASSUME NEW n \in Messages, Forget(n) PROVE StepOf(m)
    <2>1. CASE m = n
      BY <1>12, <2>1 DEF Forget, StepOf, Deleted, SameSent, TypeOK, ghosts
    <2>2. CASE m # n
      BY <1>12, <2>2 DEF Forget, StepOf, LeftAlone, SameKept, SameRun, SameSent,
                         TypeOK, ghosts
    <2> QED
      BY <2>1, <2>2
  <1>13. CASE Crash
    BY <1>13 DEF Crash, StepOf, MemoryGone, SameKept, SameSent, history
  <1>14. ASSUME NEW carries, NEW places, Start(carries, places) PROVE StepOf(m)
    BY <1>1, <1>14, GiveUpAgainAt DEF Start
  <1>15. CASE UNCHANGED <<history, memory, ghosts>>
    BY <1>15 DEF StepOf, LeftAlone, SameKept, SameRun, SameSent, history, memory, ghosts
  <1>16. CASE UpStep
    <2>1. CASE \E n \in Messages : LatePlacingEnds(n)
      BY <2>1, <1>7, <1>9 DEF LatePlacingEnds
    <2>2. CASE \E n \in Messages : PlacingEnds(n)
      BY <2>2, <1>6, <1>8 DEF PlacingEnds
    <2>3. CASE SendStep
      BY <2>3, <1>2 DEF SendStep
    <2>4. CASE EdgeStep
      BY <2>4, <1>3, <1>4 DEF EdgeStep
    <2>5. CASE \E p \in Peers : RouteChanges(p)
      BY <2>5, <1>15 DEF RouteChanges
    <2> QED
      BY <1>5, <1>10, <1>11, <1>12, <1>16, <2>1, <2>2, <2>3, <2>4, <2>5 DEF UpStep
  <1>17. CASE DayPasses
    BY <1>15, <1>17 DEF DayPasses
  <1>18. CASE UNCHANGED vars
    BY <1>15, <1>18 DEF vars
  <1> QED
    BY <1>13, <1>14, <1>16, <1>17, <1>18 DEF Next, StartStep

-----------------------------------------------------------------------------
(* Types.  Only the dispatch, the edge and the placing need more than a look. *)

LEMMA DispatchTypes ==
  ASSUME TypeOK, NEW A, NEW carries, NEW places,
         NEW ship \in [Messages -> Placings],
         Dispatch(A, carries, places, ship), keys' \in [Peers -> 0 .. MaxKeys],
         A \subseteq Messages
  PROVE  /\ sending' \in [Messages -> {0, 1}]
         /\ shipment' \in [Messages -> Placings]
         /\ deposit' \in [Messages -> Deposits]
         /\ late' \in [Messages -> SUBSET Deposits]
         /\ withoutRoute' \in [Messages -> BOOLEAN]
         /\ left' \in SUBSET Messages
         /\ carried' \in SUBSET Messages
  <1> USE DEF Dispatch, TypeOK
  <1>1. ASSUME NEW m \in Messages PROVE NewDeposit(m) \in Deposits
    BY RecipientAssumption DEF NewDeposit, Deposits
  <1>2. deposit' \in [Messages -> Deposits]
    BY <1>1
  <1>3. ASSUME NEW m \in Messages PROVE RunsOn(m, ship) \in SUBSET Deposits
    BY DEF RunsOn
  <1>4. late' \in [Messages -> SUBSET Deposits]
    BY <1>3
  <1>5. shipment' \in [Messages -> Placings]
    BY DEF Placings
  <1>6. sending' \in [Messages -> {0, 1}]
    OBVIOUS
  <1> QED
    BY <1>2, <1>4, <1>5, <1>6

LEMMA DispatchedTypes ==
  ASSUME TypeOK, NEW m \in Messages, NEW carries
  PROVE  /\ DispatchedOut(m, carries) \in {"resting", "inTransit"}
         /\ DispatchedState(m, carries) \in States
  BY DEF DispatchedOut, DispatchedState, Shipped, Awaited, TypeOK, States

LEMMA GiveUpAgainTypes ==
  ASSUME TypeOK, NEW S, NEW reseal, NEW carries, NEW places,
         GiveUpAgain(S, reseal, carries, places), keys' \in [Peers -> 0 .. MaxKeys],
         S \subseteq Messages, route' = route, day' = day, up' \in BOOLEAN
  PROVE  TypeOK'
  <1> USE DEF GiveUpAgain, Asked
  <1> DEFINE again == {m \in Asked(S) : GoesAgain(m, reseal)}
  <1>1. Dispatch(again, carries, places, shipment) /\ again \subseteq Messages
    OBVIOUS
  <1>2. /\ sending' \in [Messages -> {0, 1}]
        /\ shipment' \in [Messages -> Placings]
        /\ deposit' \in [Messages -> Deposits]
        /\ late' \in [Messages -> SUBSET Deposits]
        /\ withoutRoute' \in [Messages -> BOOLEAN]
        /\ left' \in SUBSET Messages
        /\ carried' \in SUBSET Messages
    <2> HIDE DEF again
    <2> QED
      BY <1>1, DispatchTypes DEF TypeOK
  <1>3. state' \in [Messages -> States]
    BY DispatchedTypes DEF TypeOK, States
  <1>4. out' \in [Messages -> {"none", "resting", "inTransit", "delivered"}]
    BY DispatchedTypes DEF TypeOK
  <1>5. content' \in [Messages -> BOOLEAN] /\ instant' = instant
    OBVIOUS
  <1>6. placedAt' \in [Messages -> Days \cup {NotPlaced}] /\ placedKeys' = placedKeys
    BY DEF TypeOK
  <1>7. edgePassed' \in SUBSET Messages /\ owed' \in SUBSET Messages
    BY DEF TypeOK
  <1> QED
    BY <1>2, <1>3, <1>4, <1>5, <1>6, <1>7 DEF TypeOK

LEMMA NotPlacedEndsTypes ==
  ASSUME TypeOK, NEW n \in Messages, NEW carries, NEW places,
         NotPlacedEnds(n, carries, places), up' \in BOOLEAN
  PROVE  TypeOK'
  <1> USE DEF NotPlacedEnds
  <1> DEFINE ended == [shipment EXCEPT ![n] = "notPlaced"]
             again == {x \in EdgeQuestion(n) : ~KeepsPlacing(x, FALSE) /\ ~TooOld(x)}
  <1>1. Dispatch(again, carries, places, ended) /\ again \subseteq Messages
    BY DEF EdgeQuestion
  <1>2. /\ ended \in [Messages -> Placings]
        /\ keys' \in [Peers -> 0 .. MaxKeys]
    BY DEF TypeOK, Placings
  <1>3. /\ sending' \in [Messages -> {0, 1}]
        /\ shipment' \in [Messages -> Placings]
        /\ deposit' \in [Messages -> Deposits]
        /\ late' \in [Messages -> SUBSET Deposits]
        /\ withoutRoute' \in [Messages -> BOOLEAN]
        /\ left' \in SUBSET Messages
        /\ carried' \in SUBSET Messages
    <2> HIDE DEF again, ended
    <2> QED
      BY <1>1, <1>2, DispatchTypes DEF TypeOK
  <1>4. state' \in [Messages -> States]
    BY DispatchedTypes DEF TypeOK, States
  <1>5. out' \in [Messages -> {"none", "resting", "inTransit", "delivered"}]
    BY DispatchedTypes DEF TypeOK
  <1>6. content' \in [Messages -> BOOLEAN]
    OBVIOUS
  <1> QED
    BY <1>3, <1>4, <1>5, <1>6 DEF TypeOK

LEMMA PlacingRememberedTypes ==
  ASSUME TypeOK, NEW n \in Messages, NEW d \in Deposits, PlacingRemembered(n, d),
         shipment' \in [Messages -> Placings],
         late' \in [Messages -> SUBSET Deposits], up' \in BOOLEAN
  PROVE  TypeOK'
  <1> USE DEF PlacingRemembered, TypeOK
  <1>1. state' \in [Messages -> States]
    BY DEF LeftState, States
  <1>2. out' \in [Messages -> {"none", "resting", "inTransit", "delivered"}]
    OBVIOUS
  <1>3. /\ placedAt' \in [Messages -> Days \cup {NotPlaced}]
        /\ placedKeys' \in [Messages -> 0 .. MaxKeys]
    BY DEF Deposits
  <1> QED
    BY <1>1, <1>2, <1>3

LEMMA SendTypes ==
  ASSUME TypeOK, NEW n \in Messages, NEW carries, NEW places,
         Send(n, carries, places), up' \in BOOLEAN
  PROVE  TypeOK'
  <1> USE DEF Send
  <1>1. /\ Dispatch({n}, carries, places, shipment) /\ {n} \subseteq Messages
        /\ shipment \in [Messages -> Placings] /\ keys' \in [Peers -> 0 .. MaxKeys]
    BY DEF TypeOK
  <1>2. /\ sending' \in [Messages -> {0, 1}]
        /\ shipment' \in [Messages -> Placings]
        /\ deposit' \in [Messages -> Deposits]
        /\ late' \in [Messages -> SUBSET Deposits]
        /\ withoutRoute' \in [Messages -> BOOLEAN]
        /\ left' \in SUBSET Messages
        /\ carried' \in SUBSET Messages
    BY <1>1, DispatchTypes
  <1>3. DispatchedOut(n, carries) \in {"resting", "inTransit"}
    BY DispatchedTypes
  <1>4. /\ state' \in [Messages -> States]
        /\ out' \in [Messages -> {"none", "resting", "inTransit", "delivered"}]
    BY <1>3 DEF TypeOK, States
  <1> QED
    BY <1>2, <1>4 DEF TypeOK

LEMMA TypeKept ==
  ASSUME IInv, [Next]_vars
  PROVE  TypeOK'
  <1>1. TypeOK
    BY DEF IInv
  <1>2. ASSUME NEW n \in Messages, up' = up,
               NEW carries, NEW places, Send(n, carries, places)
        PROVE  TypeOK'
    BY <1>1, <1>2, SendTypes DEF TypeOK
  <1>3. ASSUME up' = up, NEW carries, NEW places, NEW P \in Scopes,
               Edge(P, carries, places)
        PROVE  TypeOK'
    <2>1. /\ keys' \in [Peers -> 0 .. MaxKeys] /\ route' = route /\ day' = day
          /\ up' \in BOOLEAN
      BY <1>1, <1>3 DEF Edge, TypeOK
    <2> QED
      BY <1>1, <1>3, <2>1, GiveUpAgainTypes DEF Edge, To
  <1>4. ASSUME up' = up, NEW carries, NEW places, NEW P \in Scopes,
               KeysChange(P, carries, places)
        PROVE  TypeOK'
    <2>1. keys' \in [Peers -> 0 .. MaxKeys]
      BY <1>1, <1>4, BoundsAssumption DEF KeysChange, Scopes, TypeOK
    <2>2. route' = route /\ day' = day /\ up' \in BOOLEAN
      BY <1>1, <1>4 DEF KeysChange, TypeOK
    <2> QED
      BY <1>1, <1>4, <2>1, <2>2, GiveUpAgainTypes DEF KeysChange, To
  <1>5. ASSUME NEW n \in Messages, up' = up, Placed(n) PROVE TypeOK'
    <2>1. /\ deposit[n] \in Deposits /\ up' \in BOOLEAN
          /\ shipment' \in [Messages -> Placings] /\ late' = late
      BY <1>1, <1>5 DEF Placed, TypeOK, Placings
    <2>2. PlacingRemembered(n, deposit[n]) /\ late' \in [Messages -> SUBSET Deposits]
      BY <1>1, <1>5, <2>1 DEF Placed, TypeOK
    <2> QED
      BY <1>1, <2>1, <2>2, PlacingRememberedTypes
  <1>6. ASSUME NEW n \in Messages, up' = up, NEW d \in late[n],
               LatePlaced(n, d) \/ LateNotPlaced(n, d)
        PROVE  TypeOK'
    <2>1. d \in Deposits /\ late' \in [Messages -> SUBSET Deposits] /\ up' \in BOOLEAN
      BY <1>1, <1>6 DEF LatePlaced, LateNotPlaced, TypeOK
    <2>2. CASE LatePlaced(n, d)
      <3>1. shipment' \in [Messages -> Placings] /\ PlacingRemembered(n, d)
        BY <1>1, <2>2 DEF LatePlaced, TypeOK
      <3> QED
        BY <1>1, <2>1, <3>1, PlacingRememberedTypes
    <2>3. CASE LateNotPlaced(n, d)
      BY <1>1, <2>1, <2>3 DEF LateNotPlaced, TypeOK, history, ghosts
    <2> QED
      BY <1>6, <2>2, <2>3
  <1>7. ASSUME NEW n \in Messages, up' = up, NEW carries, NEW places,
               NotPlacedEnds(n, carries, places)
        PROVE  TypeOK'
    BY <1>1, <1>7, NotPlacedEndsTypes DEF TypeOK
  <1>8. ASSUME NEW n \in Messages, up' = up, Receipt(n) PROVE TypeOK'
    BY <1>1, <1>8 DEF Receipt, RunsOn, TypeOK, Placings, history, ghosts
  <1>9. ASSUME NEW n \in Messages, up' = up, ReceiptLate(n) PROVE TypeOK'
    BY <1>1, <1>9 DEF ReceiptLate, TypeOK, States, memory, ghosts
  <1>10. ASSUME NEW n \in Messages, up' = up, Forget(n) PROVE TypeOK'
    BY <1>1, <1>10 DEF Forget, RunsOn, TypeOK, States, Placings, ghosts
  <1>11. ASSUME up' = up, StateCheck PROVE TypeOK'
    BY <1>1, <1>11 DEF StateCheck, TypeOK, States, ghosts
  <1>12. CASE Crash
    BY <1>1, <1>12 DEF Crash, TypeOK, Placings, history
  <1>13. ASSUME NEW carries, NEW places, Start(carries, places) PROVE TypeOK'
    <2>1. /\ keys' \in [Peers -> 0 .. MaxKeys] /\ route' = route /\ day' = day
          /\ up' \in BOOLEAN
      BY <1>1, <1>13 DEF Start, TypeOK
    <2> QED
      BY <1>1, <1>13, <2>1, GiveUpAgainTypes DEF Start
  <1>14. ASSUME NEW p \in Peers, up' = up, RouteChanges(p) PROVE TypeOK'
    BY <1>1, <1>14 DEF RouteChanges, TypeOK, history, memory, ghosts
  <1>15. CASE DayPasses
    <2>1. day' \in Days
      BY <1>1, <1>15, BoundsAssumption DEF DayPasses, TypeOK, Days
    <2> QED
      BY <1>1, <1>15, <2>1 DEF DayPasses, TypeOK, history, memory, ghosts
  <1>16. CASE UNCHANGED vars
    BY <1>1, <1>16 DEF vars, TypeOK, history, memory, ghosts
  <1>17. ASSUME up' = up, UpStep PROVE TypeOK'
    BY <1>2, <1>3, <1>4, <1>5, <1>6, <1>7, <1>8, <1>9, <1>10, <1>11, <1>14, <1>17
       DEF UpStep, SendStep, EdgeStep, PlacingEnds, LatePlacingEnds
  <1> QED
    BY <1>12, <1>13, <1>15, <1>16, <1>17 DEF Next, StartStep

LEMMA StepKeepsIInv ==
  ASSUME IInv, [Next]_vars
  PROVE  IInv'
  <1>1. TypeOK'
    BY TypeKept
  <1>2. ASSUME NEW m \in Messages PROVE Fits(m)'
    BY StepAt, StepKeepsFits DEF IInv
  <1> QED
    BY <1>1, <1>2 DEF IInv

LEMMA AlwaysFits == Spec => []IInv
  <1>1. Init => IInv
    BY InitFits
  <1>2. IInv /\ [Next]_vars => IInv'
    BY StepKeepsIInv
  <1> QED
    BY <1>1, <1>2, PTL DEF Spec

-----------------------------------------------------------------------------
(* Every variable stays in its type, whatever the number of messages, peers *)
(* and key changes (the machine of mailbox_outbound.dart as a whole).       *)
THEOREM TypeCorrect == Spec => []TypeOK
  <1>1. IInv => TypeOK
    BY DEF IInv
  <1> QED
    BY <1>1, AlwaysFits, PTL

(* An open record without a placing always carries what it would send: no   *)
(* edge meets a message whose copy was dropped (history.dart, _atEdge).     *)
THEOREM CopyIsKept == Spec => []CopyKept
  <1>1. IInv => CopyKept
    BY DEF IInv, Fits, CopyKept
  <1> QED
    BY <1>1, AlwaysFits, PTL

(* An open record says in transit exactly when the message was carried or   *)
(* placed, across crashes and superseded placings (_messageLeft).           *)
THEOREM InTransitMeansCarried == Spec => []InTransitIsCarried
  <1>1. IInv => InTransitIsCarried
    BY DEF IInv, Fits, InTransitIsCarried
  <1> QED
    BY <1>1, AlwaysFits, PTL

(* No shipment outlives the wait for its receipt (_receiptCame, forget).    *)
THEOREM NoShipmentLeftBehind == Spec => []ShipmentAwaited
  <1>1. IInv => ShipmentAwaited
    BY DEF IInv, Fits, ShipmentAwaited
  <1> QED
    BY <1>1, AlwaysFits, PTL

(* Nothing closed, deleted or already acknowledged leaves again, a placed   *)
(* message only after a change of keys, and one that is being placed only   *)
(* under new keys, to a first address, or as the answer of the edge that    *)
(* waited (_atEdge, giveUpAgain, _placingEnded).                            *)
THEOREM SendsAreDue == Spec => SentOnlyWhenDue
  <1>1. ASSUME IInv, [Next]_vars, NEW m \in Messages, sending'[m] # sending[m]
        PROVE  MaySend(m)
    <2>1. SentFirst(m) \/ SentAgain(m)
      BY <1>1, StepAt DEF StepOf, LeftAlone, GivenUp, Settled, PlacedHere, Receipted,
                          ClosedLate, Deleted, MemoryGone, SameSent
    <2> QED
      BY <2>1 DEF SentFirst, SentAgain, MaySend
  <1>2. IInv /\ [Next]_vars
          => [\A m \in Messages : sending'[m] # sending[m] => MaySend(m)]_vars
    BY <1>1
  <1> QED
    BY <1>2, AlwaysFits, PTL DEF Spec, SentOnlyWhenDue

(* A remembered placing is final: it is never followed by failed, and goes  *)
(* only with the record or with a change of keys (9.3, placedMark).         *)
THEOREM PlacingStands == Spec => PlacedIsFinal
  <1> DEFINE Stands(m) ==
        placedAt[m] # NotPlaced =>
          /\ state'[m] # "failed"
          /\ \/ placedAt'[m] # NotPlaced \/ state'[m] \in {"delivered", "forgotten"}
             \/ keys'[Recipient[m]] # keys[Recipient[m]]
  <1>1. ASSUME IInv, [Next]_vars, NEW m \in Messages
        PROVE  Stands(m)
    <2>1. StepOf(m) /\ Fits(m)
      BY <1>1, StepAt DEF IInv
    <2> QED
      BY <2>1 DEF StepOf, LeftAlone, SentFirst, SentAgain, GivenUp, TooOld, Settled, PlacedHere,
                  NewKeys, Receipted, ClosedLate, Deleted, MemoryGone, SameKept, Fits, NoteFits,
                  Open, LeftState, Shipped
  <1>2. IInv /\ [Next]_vars => [\A m \in Messages : Stands(m)]_vars
    BY <1>1
  <1> QED
    BY <1>2, AlwaysFits, PTL DEF Spec, PlacedIsFinal

(* The machine implements the delivery states the sender is promised, but   *)
(* for the one step named: its first states map to first states, and each   *)
(* of its steps keeps the promise to each message or gives up one that is   *)
(* in transit and too old (_atEdge, placedMark, stateChange).               *)
THEOREM ImplementsPromise == Spec => LifecycleKept
  <1>1. Init => Promise!Init
    BY DEF Init, Promise!Init
  <1>2. ASSUME IInv, [Next]_vars, NEW m \in Messages
        PROVE  Promise!Keeps(m) \/ GivenUpInTransit(m)
    <2>1. StepOf(m) /\ Fits(m) /\ Fits(m)' /\ state[m] \in States
      BY <1>2, StepAt, StepKeepsIInv DEF IInv, TypeOK
    <2>2. placedAt'[m] # NotPlaced => state'[m] \in Promise!OpenStates
      BY <2>1 DEF Fits, NoteFits, Open, Promise!OpenStates
    <2>3. placedAt[m] # NotPlaced => state'[m] # "failed"
      BY <2>1 DEF StepOf, LeftAlone, SentFirst, SentAgain, GivenUp, TooOld, Settled,
                  PlacedHere, Receipted, ClosedLate, Deleted, MemoryGone, SameKept,
                  Fits, NoteFits, Open, LeftState, Shipped
    <2>4. CASE GivenUp(m) /\ state[m] = "inTransit"
      BY <2>4 DEF GivenUp, GivenUpInTransit
    <2>5. CASE ~(GivenUp(m) /\ state[m] = "inTransit")
      <3>1. Promise!MovesOn(m)
        BY <2>1, <2>5 DEF States, StepOf, LeftAlone, SentFirst, SentAgain, GivenUp, Settled,
                    PlacedHere, Receipted, ClosedLate, Deleted, MemoryGone, SameKept,
                    Fits, NoteFits, Open, LeftState, Shipped, Settles,
                    Promise!MovesOn, Promise!Moves, Promise!OpenStates
      <3> QED
        BY <2>2, <2>3, <3>1 DEF Promise!Keeps
    <2> QED
      BY <2>4, <2>5
  <1>3. IInv /\ [Next]_vars =>
          [\A m \in Messages : Promise!Keeps(m) \/ GivenUpInTransit(m)]_(Promise!vars)
    BY <1>2
  <1> QED
    BY <1>1, <1>3, AlwaysFits, PTL DEF Spec, LifecycleKept
=============================================================================
