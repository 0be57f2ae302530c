------------------------------ MODULE Promise ------------------------------
(* What a node promises about one location of the DAG, the slot of another author
   in round r: it signs one version at most, and its own points @ r+1 and r+2
   account for what it signed.  DagLocation implements this, and Evidence builds
   on it what signatures prove to the whole network.                           *)
EXTENDS Naturals

CONSTANT Versions     \* digests of the versions of the point

VARIABLE loc          \* what others may learn of the location

Untouched == [handed |-> {}, made |-> {}, included |-> {}, witnessed |-> {}]

Locations == [handed : SUBSET Versions,      \* versions the node gave its signature for
              made : SUBSET {1, 2},          \* own points made: 1 for r+1, 2 for r+2
              included : SUBSET Versions,    \* include of the own point @ r+1
              witnessed : SUBSET Versions]   \* witness of the own point @ r+2

Referenced(s) == s.included \cup s.witnessed

\* Mutant: a version may be signed after the point @ r+2 is made.
MaySignLate(s, v) == s.handed \subseteq {v}

\* Mutant: every version may be signed.
MaySignMany(s, v) == 2 \in s.made => v \in Referenced(s)

(* InclusionState::sign answers for one version.  After the point @ r+2 is made,
   only a version that the own points refer to may still be signed.            *)
MaySign(s, v)    == s.handed \subseteq {v} /\ (2 \in s.made => v \in Referenced(s))
MayInclude(s)    == s.made = {}
MayWitness(s, W) == 2 \notin s.made /\ s.handed \subseteq s.included \cup W

Signed(s, v)    == [s EXCEPT !.handed = s.handed \cup {v}]
Included(s, S)  == [handed |-> s.handed, made |-> s.made \cup {1},
                    included |-> S, witnessed |-> s.witnessed]
Witnessed(s, W) == [handed |-> s.handed, made |-> s.made \cup {2},
                    included |-> s.included, witnessed |-> W]

Init == loc = Untouched

Next == \/ \E v \in Versions : MaySign(loc, v) /\ loc' = Signed(loc, v)
        \/ \E S \in SUBSET Versions : MayInclude(loc) /\ loc' = Included(loc, S)
        \/ \E W \in SUBSET Versions : MayWitness(loc, W) /\ loc' = Witnessed(loc, W)

Spec == Init /\ [][Next]_loc
=============================================================================
