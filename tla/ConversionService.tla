------------------------- MODULE ConversionService -------------------------
(***************************************************************************)
(* What a client of the service may rely on, with the queue, the workers   *)
(* and the stores out of sight: a job is accepted, its document is         *)
(* published, and the job ends as done or failed.                          *)
(*                                                                         *)
(*   - a job is done only when its document can be read;                   *)
(*   - done is final;                                                      *)
(*   - a failed job may still turn out done, never pending again;          *)
(*   - a published document is never withdrawn.                            *)
(***************************************************************************)
CONSTANTS Jobs, Docs, DocOf

VARIABLES
    outcome,        \* "absent", "pending", "done" or "failed", per job
    published       \* the documents a client can read

serviceVars == <<outcome, published>>

ServiceInit ==
    /\ outcome = [j \in Jobs |-> "absent"]
    /\ published = {}

Accept(j) ==
    /\ outcome[j] = "absent"
    /\ outcome' = [outcome EXCEPT ![j] = "pending"]
    /\ UNCHANGED published

PublishDocument(j) ==
    /\ outcome[j] # "absent"
    /\ published' = published \cup {DocOf[j]}
    /\ UNCHANGED outcome

Succeed(j) ==
    /\ outcome[j] \in {"pending", "failed"}
    /\ DocOf[j] \in published
    /\ outcome' = [outcome EXCEPT ![j] = "done"]
    /\ UNCHANGED published

Fail(j) ==
    /\ outcome[j] = "pending"
    /\ outcome' = [outcome EXCEPT ![j] = "failed"]
    /\ UNCHANGED published

ServiceNext ==
    \E j \in Jobs : Accept(j) \/ PublishDocument(j) \/ Succeed(j) \/ Fail(j)

ServiceSpec == ServiceInit /\ [][ServiceNext]_serviceVars
=============================================================================
