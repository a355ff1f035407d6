---------------------------- MODULE ResourceGate ----------------------------
(***************************************************************************)
(* infrastructure/harness/resources.py: the semaphores that bound how many *)
(* workers of one controller process use a license, a desktop and the CPU  *)
(* at once.  acquire_many takes the classes of a request one by one, in    *)
(* the order of RESOURCE_ORDER, under one deadline, and gives back what it *)
(* has when the deadline passes; the lease it returns gives the classes    *)
(* back in reverse order.  The callers are the threads that run workers.   *)
(***************************************************************************)
EXTENDS Integers, FiniteSets

CONSTANTS
  Callers,  \* the threads that call acquire_many
  Limit     \* the size of each semaphore

Classes == {"license", "aedt", "cpu"}
RESOURCE_ORDER == [license |-> 0, aedt |-> 1, cpu |-> 2]

ASSUME GateAssumption ==
  IsFiniteSet(Callers) /\ Limit \in [Classes -> Nat \ {0}]

VARIABLES
  stage,    \* what a caller does: see Stage
  want,     \* the classes of a caller's request
  held,     \* the classes it has acquired
  expired,  \* has its deadline passed?
  free      \* the value of each semaphore

vars == <<stage, want, held, expired, free>>

(* "using" is between the return of acquire_many and the release; a caller  *)
(* that is "releasing" has used its lease, one that is "undoing" timed out. *)
Stage == {"idle", "acquiring", "using", "releasing", "undoing"}

TypeOK ==
  /\ stage \in [Callers -> Stage]
  /\ want \in [Callers -> SUBSET Classes]
  /\ held \in [Callers -> SUBSET Classes]
  /\ expired \in [Callers -> BOOLEAN]
  /\ free \in [Classes -> Nat]

Init ==
  /\ stage = [c \in Callers |-> "idle"]
  /\ want = [c \in Callers |-> {}]
  /\ held = [c \in Callers |-> {}]
  /\ expired = [c \in Callers |-> FALSE]
  /\ free = Limit

-----------------------------------------------------------------------------

(* Mutation of NextClass: the classes are taken in no particular order. *)
AnyClass(c, k) == k \in want[c] \ held[c]

(* The class that acquire_many asks for next, and the one release gives     *)
(* back next.                                                               *)
NextClass(c, k) ==
  /\ k \in want[c] \ held[c]
  /\ \A other \in want[c] \ held[c] : RESOURCE_ORDER[k] <= RESOURCE_ORDER[other]

LastClass(c, k) ==
  /\ k \in held[c]
  /\ \A other \in held[c] : RESOURCE_ORDER[other] <= RESOURCE_ORDER[k]

Request(c, classes) ==
  /\ stage[c] = "idle" /\ classes # {}
  /\ stage' = [stage EXCEPT ![c] = "acquiring"]
  /\ want' = [want EXCEPT ![c] = classes]
  /\ expired' = [expired EXCEPT ![c] = FALSE]
  /\ UNCHANGED <<held, free>>

(* A semaphore that is free is acquired even after the deadline: the        *)
(* remaining time is then zero and acquire tries once.                      *)
Take(c, k) ==
  /\ stage[c] = "acquiring" /\ NextClass(c, k) /\ free[k] > 0
  /\ held' = [held EXCEPT ![c] = @ \cup {k}]
  /\ free' = [free EXCEPT ![k] = @ - 1]
  /\ stage' = [stage EXCEPT ![c] = IF held'[c] = want[c] THEN "using" ELSE @]
  /\ UNCHANGED <<want, expired>>

Expire(c) ==
  /\ stage[c] = "acquiring" /\ ~expired[c]
  /\ expired' = [expired EXCEPT ![c] = TRUE]
  /\ UNCHANGED <<stage, want, held, free>>

(* Mutation of TimeOut: what was acquired is not given back. *)
TimeOutAndKeep(c, k) ==
  /\ stage[c] = "acquiring" /\ expired[c] /\ NextClass(c, k) /\ free[k] = 0
  /\ stage' = [stage EXCEPT ![c] = "idle"]
  /\ UNCHANGED <<want, held, expired, free>>

(* Mutation of TimeOut: the deadline is only looked at before the first     *)
(* class.                                                                   *)
TimeOutFirst(c, k) ==
  /\ stage[c] = "acquiring" /\ expired[c] /\ NextClass(c, k) /\ free[k] = 0
  /\ held[c] = {}
  /\ stage' = [stage EXCEPT ![c] = "idle"]
  /\ UNCHANGED <<want, held, expired, free>>

TimeOut(c, k) ==
  /\ stage[c] = "acquiring" /\ expired[c] /\ NextClass(c, k) /\ free[k] = 0
  /\ stage' = [stage EXCEPT ![c] = IF held[c] = {} THEN "idle" ELSE "undoing"]
  /\ UNCHANGED <<want, held, expired, free>>

Finish(c) ==
  /\ stage[c] = "using"
  /\ stage' = [stage EXCEPT ![c] = "releasing"]
  /\ UNCHANGED <<want, held, expired, free>>

GiveBack(c, k) ==
  /\ stage[c] \in {"releasing", "undoing"} /\ LastClass(c, k)
  /\ held' = [held EXCEPT ![c] = @ \ {k}]
  /\ free' = [free EXCEPT ![k] = @ + 1]
  /\ stage' = [stage EXCEPT ![c] = IF held'[c] = {} THEN "idle" ELSE @]
  /\ UNCHANGED <<want, expired>>

Next ==
  \E c \in Callers :
    \/ \E classes \in SUBSET Classes : Request(c, classes)
    \/ \E k \in Classes : Take(c, k) \/ TimeOut(c, k) \/ GiveBack(c, k)
    \/ Expire(c) \/ Finish(c)

(* Time passes, a thread that can go on does, and gives back what it has.   *)
(* A worker may use its lease forever.                                      *)
Fairness ==
  \A c \in Callers :
    /\ WF_vars(Expire(c))
    /\ WF_vars(\E k \in Classes : Take(c, k) \/ TimeOut(c, k) \/ GiveBack(c, k))

Spec == Init /\ [][Next]_vars
FairSpec == Spec /\ Fairness

-----------------------------------------------------------------------------

Holders(k) == {c \in Callers : k \in held[c]}

(* Every slot of a semaphore is free or held by one caller, so a release    *)
(* never exceeds the bound of a BoundedSemaphore, no class is used beyond   *)
(* its limit, and a request that ended in a timeout has leaked nothing.     *)
SlotsConserved ==
  /\ \A k \in Classes : free[k] + Cardinality(Holders(k)) = Limit[k]
  /\ \A c \in Callers : stage[c] = "idle" => held[c] = {}

CanProceed(c) ==
  \/ stage[c] = "using"
  \/ stage[c] \in {"releasing", "undoing"} /\ \E k \in Classes : LastClass(c, k)
  \/ stage[c] = "acquiring" /\ \E k \in Classes : NextClass(c, k) /\ free[k] > 0

(* The order of the classes rules out a circular wait: while anybody waits, *)
(* somebody can go on without waiting for a deadline.                       *)
NoCircularWait ==
  (\E c \in Callers : stage[c] = "acquiring") => \E c \in Callers : CanProceed(c)

(* The inductive invariant: a caller that waits holds only classes before   *)
(* the ones it still wants, and one that gives back has something to give.  *)
HeldInOrder ==
  \A c \in Callers :
    /\ stage[c] = "acquiring" =>
         /\ held[c] \subseteq want[c] /\ held[c] # want[c]
         /\ \A h \in held[c], k \in want[c] \ held[c] : RESOURCE_ORDER[h] < RESOURCE_ORDER[k]
    /\ stage[c] \in {"using", "releasing", "undoing"} => held[c] # {}

IInv == TypeOK /\ SlotsConserved /\ HeldInOrder

(* acquire_many returns or raises once its deadline has passed, even when   *)
(* other workers never give their slots back.                               *)
RequestEnds ==
  \A c \in Callers : stage[c] = "acquiring" ~> stage[c] # "acquiring"
=============================================================================
