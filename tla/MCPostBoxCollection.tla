------------------------ MODULE MCPostBoxCollection ------------------------
(***************************************************************************)
(* Instances of PostBoxCollection for model checking.  A behaviour is of   *)
(* one of several sites, drawn at its start.                               *)
(***************************************************************************)
EXTENDS PostBoxCollection, TLC

CONSTANTS h1, h2, v1, e1, e2, e3, r1, r2, Sites

AllUnderOne == [e \in Entries |-> v1]
AllAskOne == [r \in Runs |-> {v1}]
EntrySymmetry == Permutations(Entries)

VARIABLE site   \* "holders", "row", or "all": whatever the constants allow

(* The run r1 asks two holders, whose entries age and which may be
   unreachable; the node does not stop. *)
AtTwoHolders ==
    /\ ~closed'
    /\ \A h \in Holders : end'[<<r2, h>>] = "none" /\ issued'[h] <= 1

(* Without ageing an entry goes by its deletion only. *)
Ages(h) ==
    \E e \in Entries : Lies(h, e) /\ ~Lies(h, e)' /\ \A n \in Randoms : ~OnDelete(h, e, n)

(* Two runs stand in the row of h1, whose entries do not age and which is
   reachable; the node may stop. *)
InOneRow ==
    /\ held'[h2] = held[h2]
    /\ \A r \in Runs : end'[<<r, h2>>] = "none" /\ end'[<<r, h1>>] # "unreachable"
    /\ ~Ages(h1)

Within ==
    /\ site = "holders" => AtTwoHolders
    /\ site = "row" => InOneRow

MCInit == Init /\ site \in Sites
MCNext == Next /\ Within /\ UNCHANGED site

MCSpec == MCInit /\ [][MCNext]_<<vars, site>>
MCFairSpec == MCSpec /\ Fairness
=============================================================================
