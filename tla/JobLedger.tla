----------------------------- MODULE JobLedger -----------------------------
(***************************************************************************)
(* What the jobs of a mission promise to everything that reads them: a     *)
(* ledger of each job's status and of who owns it.  A job is taken by one  *)
(* owner at a time, only its owner settles it, SUCCEEDED and CANCELED are  *)
(* final, and a job goes back to the queue only without an owner, from     *)
(* LEASED by a recovery or from FAILED by a retry.                         *)
(***************************************************************************)

CONSTANTS
  Jobs,
  Owners   \* whoever can own a job: the executions

VARIABLES
  status,  \* the status of each job
  owners   \* the set of the owners of each job

ledgerVars == <<status, owners>>

Settled == {"succeeded", "failed", "canceled"}

Init ==
  /\ status = [j \in Jobs |-> "queued"]
  /\ owners = [j \in Jobs |-> {}]

Take(j, o) ==
  /\ status[j] = "queued" /\ owners[j] = {}
  /\ status' = [status EXCEPT ![j] = "leased"]
  /\ owners' = [owners EXCEPT ![j] = {o}]

Settle(j, o, s) ==
  /\ status[j] = "leased" /\ owners[j] = {o}
  /\ status' = [status EXCEPT ![j] = s]
  /\ UNCHANGED owners

(* The owner goes, whether or not it has settled the job. *)
Leave(j, o) ==
  /\ owners[j] = {o}
  /\ owners' = [owners EXCEPT ![j] = {}]
  /\ UNCHANGED status

(* Any set of leased jobs may lose their owners at once. *)
Recover(J) ==
  /\ \A j \in J : status[j] = "leased" /\ owners[j] # {}
  /\ status' = [j \in Jobs |-> IF j \in J THEN "queued" ELSE status[j]]
  /\ owners' = [j \in Jobs |-> IF j \in J THEN {} ELSE owners[j]]

Retry(j) ==
  /\ status[j] = "failed" /\ owners[j] = {}
  /\ status' = [status EXCEPT ![j] = "queued"]
  /\ UNCHANGED owners

Next ==
  \/ \E j \in Jobs : \/ \E o \in Owners : \/ Take(j, o) \/ Leave(j, o)
                                          \/ \E s \in Settled : Settle(j, o, s)
                     \/ Retry(j)
  \/ \E J \in SUBSET Jobs : Recover(J)

Spec == Init /\ [][Next]_ledgerVars
=============================================================================
