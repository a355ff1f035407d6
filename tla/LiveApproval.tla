---------------------------- MODULE LiveApproval ----------------------------
(***************************************************************************)
(* The authority that approves changes of a live AEDT design.  The session *)
(* manager asks it for one of three: the desktop host (another process,    *)
(* with a dialog for each question), the automatic authority (a token for  *)
(* every preview) or the HMAC authority (tokens that a person issues       *)
(* outside).  A resource is a session and a preview of that session; the   *)
(* preview's identity is a digest of its content, so action and digest     *)
(* never differ for one resource and are left out.                         *)
(*                                                                         *)
(* Time is what is left of a record's ttl; it stops at -1, where every     *)
(* comparison with the clock has its final value, and is not kept for a    *)
(* record that is closed.                                                  *)
(***************************************************************************)
EXTENDS Integers, FiniteSets

CONSTANTS Resources,    \* what can be put to the authority
          Tokens,       \* the tokens there are: bounds the approvals of a run
          NoToken,      \* the empty token
          TTL           \* how long an approval can be used

ASSUME TTLAssumption == TTL \in Nat \ {0}
ASSUME NoTokenAssumption == NoToken \notin Tokens

VARIABLES
  mode,      \* which authority the manager has
  records,   \* _records: resource -> record (desktop and automatic)
  asked,     \* the desktop host's dialog threads that have not ended
  shown,     \* the threads that hold the prompt lock: at most one
  claims,    \* hmac: token -> resource and time left
  consumed,  \* hmac: _consumed, the tokens that were accepted
  issued,    \* token -> the resource it was issued for
  passes     \* token -> how many times the authority accepted it

approvalVars == <<mode, records, asked, shown, claims, consumed, issued, passes>>

Modes == {"desktop", "automatic", "hmac"}
States == {"pending", "approved", "rejected", "expired", "used"}
(* What can happen to one request to the desktop host.                      *)
Losses == {"none", "request", "answer"}

Put(f, x, v) == [y \in DOMAIN f \cup {x} |-> IF y = x THEN v ELSE f[y]]
Without(f, x) == [y \in DOMAIN f \ {x} |-> f[y]]
Plus(f, x) == [y \in DOMAIN f |-> IF y = x THEN f[y] + 1 ELSE f[y]]

Fresh == Tokens \ DOMAIN issued
NewToken == CHOOSE t \in Fresh : TRUE
Record(state, left, token) == [state |-> state, left |-> left, token |-> token]

Open(record) == record.state \in {"pending", "approved"}
\* Mutant: an open record stays so until somebody looks at it.
OpenIsLive(record) == Open(record)
Live(record) == Open(record) /\ record.left > 0
(* _expire: lazily, when a record is looked at.                             *)
Expire(record) ==
  IF Open(record) /\ record.left <= 0 THEN Record("expired", -1, NoToken) ELSE record
ExpireAll == [r \in DOMAIN records |-> Expire(records[r])]
\* Mutant: only a question on the screen keeps the next one away.
QuestionOpen == \E r \in DOMAIN records : records[r].state = "pending" /\ records[r].left > 0
Busy == \E r \in DOMAIN records : Live(records[r])

ApprovalInit ==
  /\ mode \in Modes
  /\ records = << >> /\ claims = << >> /\ issued = << >> /\ passes = << >>
  /\ asked = {} /\ shown = {} /\ consumed = {}

---------------------------------------------------------------------------
(* register: a resource the desktop host knows is answered with its record  *)
(* as it is; a new one is refused while another approval is live.           *)
HostAnswer(r) ==
  IF r \in DOMAIN records THEN records[r].state ELSE IF Busy THEN "refused" ELSE "pending"

RegisterAnswer(r, loss) ==
  CASE mode = "desktop"   -> IF loss = "none" THEN HostAnswer(r) ELSE "refused"
    [] mode = "automatic" -> "approved"
    [] mode = "hmac"      -> "external"

HostRegisters(r) ==
  /\ mode = "desktop"
  /\ records' = CASE r \in DOMAIN records -> records
                  [] r \notin DOMAIN records /\ Busy -> ExpireAll
                  [] OTHER -> Put(ExpireAll, r, Record("pending", TTL, NoToken))
  /\ asked' = IF HostAnswer(r) = "pending" /\ r \notin DOMAIN records
              THEN asked \cup {r} ELSE asked
  /\ UNCHANGED <<mode, shown, claims, consumed, issued, passes>>

IssueFor(r, token) ==
  /\ token \in Fresh
  /\ issued' = Put(issued, token, r)
  /\ passes' = Put(passes, token, 0)

AutomaticRegisters(r) ==
  /\ mode = "automatic"
  /\ Fresh # {}
  /\ IssueFor(r, NewToken)
  /\ records' = Put(records, r, Record("approved", TTL, NewToken))
  /\ UNCHANGED <<mode, asked, shown, claims, consumed>>

Register(r, loss) ==
  \/ mode = "desktop" /\ loss = "request" /\ UNCHANGED approvalVars
  \/ loss \in {"none", "answer"} /\ HostRegisters(r)
  \/ loss = "none" /\ AutomaticRegisters(r)
  \/ mode = "hmac" /\ loss = "none" /\ UNCHANGED approvalVars

(* issue: a person makes an HMAC token for a resource; it can be done more  *)
(* than once.                                                               *)
Issue(r) ==
  /\ mode = "hmac" /\ Fresh # {}
  /\ IssueFor(r, NewToken)
  /\ claims' = Put(claims, NewToken, [for |-> r, left |-> TTL])
  /\ UNCHANGED <<mode, records, asked, shown, consumed>>

(* poll: tells the state, with the token of an approved record.             *)
PollAnswer(r) ==
  CASE mode = "desktop"   -> Expire(records[r]).state
    [] mode = "automatic" -> IF r \in DOMAIN records /\ records[r].left >= 0
                             THEN "approved" ELSE "expired"
    [] mode = "hmac"      -> "external"

Poll(r) ==
  /\ records' =
       CASE mode = "desktop" /\ r \in DOMAIN records -> Put(records, r, Expire(records[r]))
         [] mode = "automatic" /\ PollAnswer(r) = "expired" -> Without(records, r)
         [] OTHER -> records
  /\ UNCHANGED <<mode, asked, shown, claims, consumed, issued, passes>>

(* verify: an approval is accepted once, within its time, for its resource. *)
Accepts(r, token) ==
  CASE mode = "desktop"   -> /\ r \in DOMAIN records
                             /\ records[r].state = "approved" /\ records[r].left > 0
                             /\ records[r].token = token
    [] mode = "automatic" -> /\ r \in DOMAIN records
                             /\ records[r].left >= 0 /\ records[r].token = token
    [] mode = "hmac"      -> /\ token \in DOMAIN claims \ consumed
                             /\ claims[token].left >= 0 /\ claims[token].for = r

VerifyAnswer(r, token, loss) == loss = "none" /\ Accepts(r, token)

Verifies(r, token) ==
  /\ records' =
       CASE mode = "desktop" /\ r \in DOMAIN records /\ token # NoToken ->
              Put(records, r,
                  IF Accepts(r, token) THEN Record("used", -1, records[r].token)
                  ELSE Expire(records[r]))
         [] mode = "automatic" -> Without(records, r)
         [] OTHER -> records
  /\ consumed' = IF mode = "hmac" /\ Accepts(r, token) THEN consumed \cup {token} ELSE consumed
  /\ passes' = IF Accepts(r, token) THEN Plus(passes, token) ELSE passes
  /\ UNCHANGED <<mode, asked, shown, claims, issued>>

(* The desktop client takes every exception for a refusal.                  *)
Verify(r, token, loss) ==
  \/ loss = "request" /\ mode = "desktop" /\ UNCHANGED approvalVars
  \/ loss = "answer" /\ mode = "desktop" /\ Verifies(r, token)
  \/ loss = "none" /\ Verifies(r, token)

---------------------------------------------------------------------------
(* The dialog threads: the prompt lock shows one question at a time.        *)
Show(r) ==
  /\ r \in asked /\ shown = {}
  /\ shown' = {r}
  /\ UNCHANGED <<mode, records, asked, claims, consumed, issued, passes>>

(* _decide, with what the person (or a failing prompt) says.                *)
Decision(r, yes) ==
  IF records[r].left <= 0 THEN "expired" ELSE IF yes THEN "approved" ELSE "rejected"

Decide(r, yes) ==
  /\ r \in shown
  /\ shown' = {} /\ asked' = asked \ {r}
  /\ IF records[r].state # "pending"
     THEN UNCHANGED <<records, issued, passes>>
     ELSE IF Decision(r, yes) = "approved"
     THEN /\ Fresh # {}
          /\ IssueFor(r, NewToken)
          /\ records' = Put(records, r, Record("approved", records[r].left, NewToken))
     ELSE /\ records' = Put(records, r, Record(Decision(r, yes), -1, NoToken))
          /\ UNCHANGED <<issued, passes>>
  /\ UNCHANGED <<mode, claims, consumed>>

\* Mutant: a clock without a floor.
Falls(left) == left - 1
Less(left) == IF left > -1 THEN left - 1 ELSE left

Tick ==
  /\ records' = [r \in DOMAIN records |->
                   Record(records[r].state, Less(records[r].left), records[r].token)]
  /\ claims' = [t \in DOMAIN claims |-> [for |-> claims[t].for, left |-> Less(claims[t].left)]]
  /\ UNCHANGED <<mode, asked, shown, consumed, issued, passes>>

ApprovalNext ==
  \/ \E r \in Resources :
       \/ \E loss \in Losses : Register(r, loss)
       \/ Issue(r) \/ Poll(r) \/ Show(r)
       \/ \E token \in Tokens \cup {NoToken}, loss \in Losses : Verify(r, token, loss)
       \/ \E yes \in BOOLEAN : Decide(r, yes)
  \/ Tick

ApprovalSpec == ApprovalInit /\ [][ApprovalNext]_approvalVars

---------------------------------------------------------------------------
ApprovalTypeOK ==
  /\ mode \in Modes
  /\ DOMAIN records \subseteq Resources
  /\ records \in [DOMAIN records -> [state : States, left : -1 .. TTL,
                                    token : Tokens \cup {NoToken}]]
  /\ asked \subseteq DOMAIN records
  /\ shown \subseteq asked /\ \A q, r \in shown : q = r
  /\ DOMAIN claims \subseteq DOMAIN issued /\ consumed \subseteq DOMAIN issued
  /\ claims \in [DOMAIN claims -> [for : Resources, left : -1 .. TTL]]
  /\ issued \in [DOMAIN issued -> Resources] /\ DOMAIN issued \subseteq Tokens
  /\ passes \in [DOMAIN issued -> Nat]

(* A token is accepted at most once, whatever is lost on the way, issued    *)
(* again or verified late: `used' and the consumed nonce are what stands    *)
(* between one approval and two changes.                                    *)
OneUse == \A t \in DOMAIN passes : passes[t] <= 1

(* The desktop host keeps one question or unused approval at a time: what   *)
(* the person reads is what the next apply can use.                         *)
OneQuestion ==
  mode = "desktop" =>
    \A q, r \in DOMAIN records : Live(records[q]) /\ Live(records[r]) => q = r

---------------------------------------------------------------------------
(* The inductive invariants.                                                *)

(* Of the desktop host: a dialog is about a record that is there, and one   *)
(* question is open.                                                        *)
HostInv ==
  mode = "desktop" =>
    /\ records = [r \in DOMAIN records |-> records[r]]
    /\ \A r \in DOMAIN records : records[r].left \in Int
    /\ asked \subseteq DOMAIN records /\ shown \subseteq asked
    /\ \A q, r \in DOMAIN records : Live(records[q]) /\ Live(records[r]) => q = r

(* A token was issued and is in one record at most; only the desktop host   *)
(* has dialogs, and the automatic authority approves at once.               *)
TokensKnown ==
  /\ \A q, r \in DOMAIN records :
       records[q].token = records[r].token /\ records[q].token # NoToken => q = r
  /\ \A r \in DOMAIN records :
       /\ records[r].token \in DOMAIN issued \cup {NoToken}
       /\ records[r].state = "approved" => records[r].token # NoToken
       /\ mode = "automatic" => records[r].state = "approved"
  /\ mode # "desktop" => asked = {}
  /\ IF mode = "hmac" THEN DOMAIN records = {} ELSE DOMAIN claims = {}

(* What can still be accepted has not been accepted.                        *)
UnusedTokens ==
  /\ \A r \in DOMAIN records : records[r].state = "approved" => passes[records[r].token] = 0
  /\ \A t \in DOMAIN claims \ consumed : passes[t] = 0

AuthorityInv == ApprovalTypeOK /\ TokensKnown /\ UnusedTokens /\ OneUse
=============================================================================
