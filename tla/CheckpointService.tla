------------------------- MODULE CheckpointService -------------------------
(***************************************************************************)
(* CheckpointServiceImpl: the checkpoint kept in LevelDB, and what set     *)
(* answers to the checkpoints of peers and of the API.  A checkpoint is    *)
(* its signature: two with the same signature have the same items.         *)
(***************************************************************************)
CONSTANTS
    Checkpoint,    \* signatures of checkpoints
    Genuine,       \* those that verify with the public key of the settings
    NoCheckpoint

VARIABLES
    stored,  \* the property "checkpoint", which outlives a restart
    answer   \* the last answer of set: the checkpoint, and "ok" or the error

vars == <<stored, answer>>

(* get.forall(_.signature sameElements cp.signature) *)
SameAsStored(cp) == stored = NoCheckpoint \/ stored = cp

Init == stored = NoCheckpoint /\ answer = [to |-> NoCheckpoint, says |-> "ok"]

Set(cp) ==
    IF SameAsStored(cp)
    THEN answer' = [to |-> cp, says |-> "Checkpoint already applied"] /\ UNCHANGED stored
    ELSE IF cp \in Genuine
    THEN answer' = [to |-> cp, says |-> "ok"] /\ stored' = cp
    ELSE answer' = [to |-> cp, says |-> "Invalid checkpoint signature"] /\ UNCHANGED stored

Next == \E cp \in Checkpoint : Set(cp)

Spec == Init /\ [][Next]_vars

-----------------------------------------------------------------------------
(* set says of a checkpoint that it is applied already only when it is: as *)
(* `forall` holds of an empty Option, it says so of the first one too, and *)
(* no checkpoint is ever stored.                                           *)
AppliedMeansStored ==
    answer.says = "Checkpoint already applied" => stored = answer.to
=============================================================================
