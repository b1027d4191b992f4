--------------------------- MODULE MCPFReconstructor ---------------------------
(***************************************************************************)
(* Blocks are built, simplified and reconstructed.  Either the elements    *)
(* are linked in any way at all, near or far, and their energies and       *)
(* origins are the same; or one hcal is left alone, and the energies and   *)
(* origins of the others are any, with their links at one distance.  The   *)
(* latter start where the simplification ends, and the hcal left alone is  *)
(* reconstructed first.                                                    *)
(***************************************************************************)
EXTENDS PFReconstructor

Aside == CHOOSE h \in Hcal : TRUE
Low == CHOOSE e \in Energy : \A f \in Energy : e <= f

Simplified(b) == IF edgesToUnlink(b) = {} THEN {b}
                 ELSE Built(b.elementIds, b.links \ edgesToUnlink(b))

AnyLinks == /\ \E linked \in SUBSET Pair : edges \in [linked -> Distance]
            /\ phase = "build" /\ blocks = {} /\ simplified = {}
            /\ energy = [id \in Element |-> Low]
            /\ origin = [t \in Track |-> "hadron"]

AnyEnergies == /\ \E linked \in SUBSET {l \in Pair : l[2] # Aside} : edges \in [linked -> {0}]
               /\ phase = "done"
               /\ blocks = Built(Element, DOMAIN edges)
               /\ simplified = UNION {Simplified(b) : b \in blocks}
               /\ \E e \in [Element \ {Aside} -> Energy] :
                     energy = [id \in Element |-> IF id = Aside THEN Low ELSE e[id]]
               /\ Inputs

MCInit == /\ AnyLinks \/ AnyEnergies
          /\ todo = {} /\ step = "begin"
          /\ queue = {} /\ block = NoBlock /\ uids = {} /\ hcals = {}
          /\ m_locked = {} /\ m_unused = {} /\ m_particles = <<>>

AsideFirst == \A b \in queue : Aside \in b.elementIds => b \notin queue' \/ queue' = queue

MCNext == RecNext /\ AsideFirst

MCSpec == MCInit /\ [][MCNext]_vars
=============================================================================
