---------------------------- MODULE ChangeLedger -----------------------------
(***************************************************************************)
(* What the approvals of a live design promise to the person who gives     *)
(* them: a ledger of the sessions, of what each token allows, and of the   *)
(* changes made under it.  A session id is opened once and ends for good.  *)
(* A token is granted once, for one change in one session, and what it     *)
(* allows stays as it is.  A change is made under a token that made none,  *)
(* is the one that was allowed, and is made while its session is open.     *)
(***************************************************************************)

CONSTANTS Sessions, Tokens

VARIABLES
  phase,    \* of each session: "new", "open" or "gone"
  grants,   \* token -> <<session, change>>
  changes   \* token -> the changes made under it

ledgerVars == <<phase, grants, changes>>

Init ==
  /\ phase = [s \in Sessions |-> "new"]
  /\ grants = << >>
  /\ changes = [t \in Tokens |-> << >>]

Start(s) ==
  /\ phase[s] = "new"
  /\ phase' = [phase EXCEPT ![s] = "open"]
  /\ UNCHANGED <<grants, changes>>

(* Any open sessions may end at once.                                       *)
Finish(S) ==
  /\ \A s \in S : phase[s] = "open"
  /\ phase' = [s \in Sessions |-> IF s \in S THEN "gone" ELSE phase[s]]
  /\ UNCHANGED <<grants, changes>>

(* For a change in a session that was opened; it may be over by now.        *)
Grant(t) ==
  /\ t \notin DOMAIN grants
  /\ DOMAIN grants' = DOMAIN grants \cup {t}
  /\ \A u \in DOMAIN grants : grants'[u] = grants[u]
  /\ grants'[t][1] \in {s \in Sessions : phase[s] # "new"}
  /\ UNCHANGED <<phase, changes>>

Change(t) ==
  /\ t \in DOMAIN grants /\ changes[t] = << >>
  /\ phase[grants[t][1]] = "open"
  /\ changes' = [changes EXCEPT ![t] = <<grants[t][2]>>]
  /\ UNCHANGED <<phase, grants>>

Next ==
  \/ \E s \in Sessions : Start(s)
  \/ \E S \in SUBSET Sessions : Finish(S)
  \/ \E t \in Tokens : Grant(t) \/ Change(t)

Spec == Init /\ [][Next]_ledgerVars
=============================================================================
