---------------------------- MODULE JobContract ----------------------------
(***************************************************************************)
(* What the bot promises for a generation command, whatever the queue, the *)
(* workers and the models do: a job that is accepted is finished, given up *)
(* or outlived; it is finished only after its story and picture were sent; *)
(* it is given up for good, and then at most one apology was shown.        *)
(* docs/api-contract.md and docs/design/reliability.md describe this.      *)
(***************************************************************************)
EXTENDS Naturals

CONSTANT Jobs

VARIABLES
    status,         \* status[j] of the job
    replied,        \* jobs whose story and picture the chat shows
    apologised      \* jobs the chat shows an apology for

vars == <<status, replied, apologised>>

Init ==
    /\ status = [j \in Jobs |-> "absent"]
    /\ replied = {}
    /\ apologised = {}

\* Publishing the job.
Accept(j) ==
    /\ status[j] = "absent"
    /\ status' = [status EXCEPT ![j] = "queued"]
    /\ UNCHANGED <<replied, apologised>>

\* A late attempt may still reply after the job was given up.
Reply(j) ==
    /\ status[j] # "absent"
    /\ j \notin replied
    /\ replied' = replied \cup {j}
    /\ UNCHANGED <<status, apologised>>

Apologise(j) ==
    /\ status[j] # "absent"
    /\ j \notin apologised
    /\ apologised' = apologised \cup {j}
    /\ UNCHANGED <<status, replied>>

Complete(j) ==
    /\ status[j] = "queued"
    /\ j \in replied
    /\ status' = [status EXCEPT ![j] = "done"]
    /\ UNCHANGED <<replied, apologised>>

\* Dead-lettered, or older than the retention period.
GiveUp(j) ==
    /\ status[j] = "queued"
    /\ status' = [status EXCEPT ![j] = "lost"]
    /\ UNCHANGED <<replied, apologised>>

Next == \E j \in Jobs :
    Accept(j) \/ Reply(j) \/ Apologise(j) \/ Complete(j) \/ GiveUp(j)

\* Every accepted job is completed or given up.
Fairness == \A j \in Jobs : WF_vars(Complete(j) \/ GiveUp(j))

Spec == Init /\ [][Next]_vars
FairSpec == Spec /\ Fairness
=============================================================================
