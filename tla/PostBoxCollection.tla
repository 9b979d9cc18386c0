------------------------- MODULE PostBoxCollection -------------------------
(***************************************************************************)
(* Collecting from the post box (ARCHITECTURE.md 8.2): the collector of    *)
(* one node (PostBoxCollector) and the holders it asks (PostBoxHolder),    *)
(* over the packets of PostBoxWire.                                        *)
(***************************************************************************)
EXTENDS PostBoxHolder, PostBoxCollector

\* History variable, per conversation: what lay with its holder under the
\* values asked when the task was answered, lies there still, and has not
\* been handed out to the conversation.
VARIABLE missing

\* History variable: holders and values where an entry that a running hand-out
\* has yet to reach was gone from the list and has been deposited again.
VARIABLE returned

vars == <<holderVars, collectorVars, wire, missing, returned>>

Init ==
    /\ HolderInit /\ CollectorInit
    /\ toHolder = {} /\ toCollector = {}
    /\ missing = [c \in Talks |-> {}]
    /\ returned = {}

(***************************************************************************)
(* A refused value is answered with what has come: the holder keeps the    *)
(* rest, so nothing is missing under it.                                   *)
(***************************************************************************)
Settles(settled) ==
    /\ missing' = [c \in Talks |->
          LET noted == IF random[c] = NoTask /\ random'[c] # NoTask
                          THEN {e \in Entries : ValueOf[e] \in Asks[c[1]]}
                          ELSE missing[c]
          IN  {e \in noted : /\ InList(e, held'[c[2]][ValueOf[e]])
                             /\ e \notin handed'[c][ValueOf[e]]
                             /\ <<c, ValueOf[e]>> \notin settled}]
    /\ returned' = returned \cup
          {p \in Holders \X Values : \E e \in Entries :
              /\ InList(e, handOut[p[1]][p[2]].left)
              /\ ~InList(e, held[p[1]][p[2]]) /\ InList(e, held'[p[1]][p[2]])}

Refused ==
    \E h \in Holders, v \in Values, r \in Runs \cup {NoRun} :
        /\ OnRefusal(h, v, r) /\ UNCHANGED holderVars
        /\ Settles({<<c, v>> : c \in Asking(h, r, v)})

Next ==
    \/ HolderStep /\ UNCHANGED collectorVars /\ Settles({})
    \/ CollectorStep /\ UNCHANGED holderVars /\ Settles({})
    \/ Refused

(* The quiet period of an open question runs (_listen) until it ends. *)
Fairness == \A h \in Holders : WF_vars(Quiet(h) /\ UNCHANGED holderVars /\ Settles({}))

Spec == Init /\ [][Next]_vars
FairSpec == Spec /\ Fairness

-----------------------------------------------------------------------------
TypeOK ==
    /\ HolderTypeOK /\ CollectorTypeOK
    /\ missing \in [Talks -> SUBSET Entries]
    /\ returned \in SUBSET (Holders \X Values)

(***************************************************************************)
(* A holder is told to delete an entry only for what the consumer of a     *)
(* deleting run took, and only under the task this run answered there: an  *)
(* entry nobody took stays with every holder, whatever arrives twice, late *)
(* or never (8.2 "deletion only after the collector acknowledges receipt").*)
(***************************************************************************)
DeletedWasTaken ==
    \A p \in toHolder : p.kind = "delete" =>
        \E r \in Runs \ Keeps : p.entry \in seen[r] /\ p.random = random[<<r, p.holder>>]

(***************************************************************************)
(* What a deleting run took is deleted at every holder it asked whose task *)
(* is answered, whichever came first - the task or the piece from another  *)
(* holder, also when the conversation had ended (onHereItIs and onTask     *)
(* share this between them).                                               *)
(***************************************************************************)
TakenIsDeletedEverywhere ==
    \A r \in Runs \ Keeps, h \in Holders : random[<<r, h>>] # NoTask =>
        \A e \in seen[r] : Delete(h, e, random[<<r, h>>]) \in toHolder

(***************************************************************************)
(* The first question in a holder's row has gone out to it: no end of the  *)
(* question before it - answered, quiet, unreachable - leaves one standing *)
(* there that nobody asks.                                                 *)
(***************************************************************************)
HeadIsAsked ==
    \A h \in Holders : rows[h] # <<>> => Collecting(h, Head(rows[h])) \in toHolder

(***************************************************************************)
(* The question of a proof repeated under a hand-out is noted only while   *)
(* that hand-out runs: its end answers it, none stays behind unanswered.   *)
(***************************************************************************)
AgainOnlyWhileRunning ==
    \A h \in Holders, v \in Values : again[h][v] # NoRun => Running(h, v)

(***************************************************************************)
(* A conversation that ended "answered" after a single hand-out of its     *)
(* values has received everything that lay there, in whatever order the    *)
(* pieces came and whatever was deleted meanwhile - unless an entry came   *)
(* back: the hand-out knows entries by their id, so one deposited again    *)
(* ahead of it is announced by the later pieces and not by the earlier.    *)
(***************************************************************************)
HandedOutOnce(c) ==
    \A v \in Asks[c[1]] : handOuts[c[2]][v] = <<c[1]>> /\ <<c[2], v>> \notin returned

OneHandOutIsWhole ==
    \A c \in Talks : end[c] = "answered" /\ HandedOutOnce(c) => missing[c] = {}

(***************************************************************************)
(* The same of every conversation that ended "answered", as TalkEnd says   *)
(* of it ("handed out the number it announced for every value") and 8.2    *)
(* ("what a collector did not receive it asks for again").                 *)
(***************************************************************************)
AnsweredIsWhole ==
    \A c \in Talks : end[c] = "answered" => missing[c] = {}

(***************************************************************************)
(* A holder that falls silent delays nobody for ever: when nothing new     *)
(* comes from it any more its whole row ends.                              *)
(***************************************************************************)
SilenceEndsTheRow ==
    \A h \in Holders :
        <>[](\A r \in Runs : <<r, h>> \notin fresh) => []<>(rows[h] = <<>>)
=============================================================================
