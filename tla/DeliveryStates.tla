--------------------------- MODULE DeliveryStates ---------------------------
(***************************************************************************)
(* What the sender is shown of its own messages: the four delivery states  *)
(* (src/docs/ARCHITECTURE.md 9.1, enum DeliveryState) and the promise      *)
(* about a placed message (9.3).  It knows no ladder, no edge and no       *)
(* restart, and it says what 9.1 says also where the program does not.     *)
(***************************************************************************)
CONSTANT Messages

VARIABLES
    shown,  \* "none" not written yet, "forgotten" deleted by the user
    placed  \* messages whose placing in a post box is remembered

vars == <<shown, placed>>

OpenStates == {"resting", "inTransit"}

Init == shown = [m \in Messages |-> "none"] /\ placed = {}

(* Nothing goes back: in transit never rests again, delivered is the end.  *)
(* Only a message no way carried is given up ("failed is reserved for the  *)
(* case where no rung carried it at all"); it can still be receipted.      *)
Moves ==
    ({"none"} \X OpenStates)
        \cup {<<"resting", "inTransit">>, <<"resting", "failed">>, <<"failed", "delivered">>}
        \cup (OpenStates \X {"delivered", "forgotten"})

MovesOn(m) == shown'[m] = shown[m] \/ <<shown[m], shown'[m]>> \in Moves

(* Only an open message is placed, and a placed one is not given up. *)
Keeps(m) ==
    /\ MovesOn(m)
    /\ m \in placed' => shown'[m] \in OpenStates
    /\ m \in placed => shown'[m] # "failed"

Next == placed' \in SUBSET Messages /\ \A m \in Messages : Keeps(m)

Spec == Init /\ [][Next]_vars
=============================================================================
