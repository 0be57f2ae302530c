--------------------------- MODULE Certification ---------------------------
(* What point certification promises, whatever its threads do.

   A point becomes certified because its author proved delivery of it (one of
   Roots), or because it is a direct dependency of a certified point whose
   dependencies are known.  Nothing else is ever certified.                   *)

CONSTANTS Certs,     \* certificate cells, one per point version of the DAG
          Includes,  \* Includes[c]: cells of the points @ r-1 that c names
          Witness,   \* Witness[c]:  cells of the points @ r-2 that c names
          Roots      \* points whose delivery is proven by the author's next one

VARIABLES certified, \* set of certified cells
          known,     \* cells whose direct dependencies were handed to set_deps
          dropped    \* cells freed together with their DAG round

absVars == <<certified, known, dropped>>

DirectDeps(c) == Includes[c] \cup Witness[c]

AbsInit == certified = {} /\ known = {} /\ dropped = {}

Learn(c) == /\ c \notin known \cup dropped
            /\ known' = known \cup {c}
            /\ UNCHANGED <<certified, dropped>>

ProveDelivery(c) == /\ c \in Roots \ (certified \cup dropped)
                    /\ certified' = certified \cup {c}
                    /\ UNCHANGED <<known, dropped>>

Propagate(d) == /\ d \notin certified \cup dropped
                /\ \E c \in certified \cap known : d \in DirectDeps(c)
                /\ certified' = certified \cup {d}
                /\ UNCHANGED <<known, dropped>>

Free(c) == /\ c \notin dropped
           /\ dropped' = dropped \cup {c}
           /\ UNCHANGED <<certified, known>>

AbsNext == \E c \in Certs : Learn(c) \/ ProveDelivery(c) \/ Propagate(c) \/ Free(c)

AbsSafety == AbsInit /\ [][AbsNext]_absVars
=============================================================================
