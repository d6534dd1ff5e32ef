-------------------------------- MODULE Disk --------------------------------
(***************************************************************************)
(* What the block cache promises its callers (kernel/drivers/              *)
(* block_cache.h): a disk that returns what was last written, on which a   *)
(* power cut may undo any write since the last successful sync, sector by  *)
(* sector, but none before it.                                             *)
(***************************************************************************)
CONSTANTS Lba, Value

VARIABLES cur,   \* what a read returns
          may    \* what a sector may hold after a power cut

Init == cur \in [Lba -> Value] /\ may = [l \in Lba |-> {cur[l]}]

Write(l, v) == /\ cur' = [cur EXCEPT ![l] = v]
               /\ may' = [may EXCEPT ![l] = @ \cup {v}]

Sync == may' = [l \in Lba |-> {cur[l]}] /\ UNCHANGED cur

PowerCut == /\ \A l \in Lba : cur'[l] \in may[l]
            /\ cur' \in [Lba -> Value]
            /\ may' = [l \in Lba |-> {cur'[l]}]

Next == (\E l \in Lba, v \in Value : Write(l, v)) \/ Sync \/ PowerCut

Spec == Init /\ [][Next]_<<cur, may>>
=============================================================================
