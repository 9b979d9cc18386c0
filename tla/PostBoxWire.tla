---------------------------- MODULE PostBoxWire ----------------------------
(***************************************************************************)
(* The packets between the collector of one node and the holders of its    *)
(* post box (ARCHITECTURE.md 8.2).  The shell has no protection against    *)
(* replay (src/mycelium/lib/shell.dart): a packet that has left may arrive *)
(* at any time, any number of times, in any order, or never.               *)
(***************************************************************************)
EXTENDS Naturals, Sequences, FiniteSets

CONSTANTS
    Holders,   \* holders, each at one address
    Values,    \* day values
    Entries,   \* ids of entries
    ValueOf,   \* the day value an entry lies under
    Runs,      \* collections
    Asks,      \* per run: the values it asks for
    MaxTasks,  \* bound of the model: tasks a holder issues
    Faults     \* the faults an instance of the model has, see AllFaults

ASSUME EntriesAssumption == IsFiniteSet(Entries)
ASSUME ValueOfAssumption == ValueOf \in [Entries -> Values]
ASSUME AsksAssumption == Asks \in [Runs -> (SUBSET Values) \ {{}}]
ASSUME MaxTasksAssumption == MaxTasks \in Nat

(***************************************************************************)
(* "age": entries become too old.  "expiry": deadlines pass.  "restart": a *)
(* holder restarts.  "unreachable": a send to a holder fails.  "close":    *)
(* the collector's node stops.                                             *)
(***************************************************************************)
AllFaults == {"age", "expiry", "restart", "unreachable", "close"}
ASSUME FaultsAssumption == Faults \subseteq AllFaults

(***************************************************************************)
(* A conversation is one run with one holder.  Every request of it carries *)
(* a fresh identifier, all of them name the conversation, so the run       *)
(* stands for them; a refusal under an unknown task names none.            *)
(***************************************************************************)
Talks == Runs \X Holders
NoRun == "noRun"
ASSUME NoRunAssumption == NoRun \notin Runs

(* The random values of a holder's tasks, in the order they are issued. *)
Randoms == 1 .. MaxTasks
NoTask == 0

VARIABLES
    toHolder,    \* 0x32, 0x36 and the deleting 0x31 that have left
    toCollector  \* 0x35, 0x33, 0x34 and 0x37 that have left

wire == <<toHolder, toCollector>>

Collecting(h, r) == [kind |-> "collect", holder |-> h, run |-> r]
Proof(h, v, n) == [kind |-> "proof", holder |-> h, value |-> v, random |-> n]
Delete(h, e, n) == [kind |-> "delete", holder |-> h, entry |-> e, random |-> n]

Task(h, r, n) == [kind |-> "task", holder |-> h, run |-> r, random |-> n]
Piece(h, e, n, r) == [kind |-> "piece", holder |-> h, entry |-> e, count |-> n, run |-> r]
Nothing(h, v, r) == [kind |-> "nothing", holder |-> h, value |-> v, run |-> r]
Refusal(h, v, r) == [kind |-> "refusal", holder |-> h, value |-> v, run |-> r]

SentToHolder(P) == toHolder' = toHolder \cup P
SentToCollector(P) == toCollector' = toCollector \cup P
=============================================================================
