--------------------------- MODULE CheckpointCommit ---------------------------
(***************************************************************************)
(* What the capture of a workload promises to whoever reads the metadata    *)
(* store: a checkpoint is requested under a generation number of its own,   *)
(* becomes visible in one step and only for the workload generation it was  *)
(* captured at, and stays visible; or it fails, for good. The workload's    *)
(* counter follows the newest commit, and a restore sets it back to the     *)
(* checkpoint restored.                                                     *)
(***************************************************************************)
EXTENDS Naturals

CONSTANT Checkpoints

VARIABLES status,       \* "absent", "pending", "committed" or "failed"
          number,       \* generation number of a checkpoint, 0 while absent
          base,         \* workload generation a checkpoint was captured at
          workload,     \* the workload's generation
          counter       \* the workload's checkpoint generation

vars == <<status, number, base, workload, counter>>

Init ==
    /\ status = [c \in Checkpoints |-> "absent"]
    /\ number = [c \in Checkpoints |-> 0]
    /\ base = [c \in Checkpoints |-> 0]
    /\ workload = 0
    /\ counter = 0

\* A checkpoint appears, with a number no other one has and the generation of a
\* workload that may have moved on since.
Begin(c) ==
    /\ status[c] = "absent"
    /\ status' = [status EXCEPT ![c] = "pending"]
    /\ number'[c] # 0
    /\ \A d \in Checkpoints \ {c} : number'[d] = number[d] /\ number'[c] # number[d]
    /\ base'[c] <= workload
    /\ \A d \in Checkpoints \ {c} : base'[d] = base[d]
    /\ UNCHANGED <<workload, counter>>

Commit(c) ==
    /\ status[c] = "pending"
    /\ base[c] = workload
    /\ status' = [status EXCEPT ![c] = "committed"]
    /\ counter' = IF number[c] >= counter THEN number[c] ELSE counter
    /\ UNCHANGED <<number, base, workload>>

Fail(c) ==
    /\ status[c] = "pending"
    /\ status' = [status EXCEPT ![c] = "failed"]
    /\ UNCHANGED <<number, base, workload, counter>>

Restore(c) ==
    /\ status[c] = "committed"
    /\ workload' = workload + 1
    /\ counter' = number[c]
    /\ UNCHANGED <<status, number, base>>

Next == \E c \in Checkpoints : Begin(c) \/ Commit(c) \/ Fail(c) \/ Restore(c)

Spec == Init /\ [][Next]_vars
===============================================================================
