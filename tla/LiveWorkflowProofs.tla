-------------------------- MODULE LiveWorkflowProofs -------------------------
(***************************************************************************)
(* Proofs about LiveApproval and LiveWorkflow.  First the approvals on     *)
(* their own, for any resources, tokens and time to live: one is accepted  *)
(* once, and the desktop host has one open question at a time.  Then the   *)
(* whole manager, for any number of sessions and tokens, any plans and     *)
(* uses, every workflow of the table and every authority: a token makes    *)
(* one change at most, the one its question showed; what belongs to a      *)
(* session goes with it; the host keeps to one question over restarts of   *)
(* the manager too; a plan's trace tells what became of it; a session      *)
(* whose rollback failed is left alone; the graph knows the operations it  *)
(* made; every record, context, preview and step is of its type; and it    *)
(* all implements ChangeLedger.                                            *)
(***************************************************************************)
EXTENDS LiveWorkflow, FiniteSetTheorems, TLAPS

-----------------------------------------------------------------------------
(* The desktop host *)

LEMMA InitHost == ApprovalInit => HostInv
BY DEF ApprovalInit, HostInv

(* A record does not come to life by being looked at or by time going by.   *)
LEMMA ExpiredIsNotLive ==
  ASSUME NEW record, record.left \in Int
  PROVE  /\ Live(Expire(record)) => Live(record)
         /\ Expire(record).left \in Int
BY DEF Live, Open, Expire, Record

LEMMA OlderIsNotLive ==
  ASSUME NEW record, record.left \in Int
  PROVE  LET older == Record(record.state, Less(record.left), record.token)
         IN  (Live(older) => Live(record)) /\ older.left \in Int
BY DEF Live, Open, Less, Record

LEMMA HostRegister ==
  ASSUME HostInv, NEW r, HostRegisters(r)
  PROVE  HostInv'
<1> SUFFICES ASSUME mode = "desktop"
             PROVE  /\ records' = [q \in DOMAIN records' |-> records'[q]]
                    /\ \A q \in DOMAIN records' : records'[q].left \in Int
                    /\ asked' \subseteq DOMAIN records' /\ shown' \subseteq asked'
                    /\ \A p, q \in DOMAIN records' :
                         Live(records'[p]) /\ Live(records'[q]) => p = q
  BY DEF HostRegisters, HostInv
<1>1. /\ records = [q \in DOMAIN records |-> records[q]]
      /\ \A q \in DOMAIN records : records[q].left \in Int
      /\ asked \subseteq DOMAIN records /\ shown \subseteq asked
      /\ \A p, q \in DOMAIN records : Live(records[p]) /\ Live(records[q]) => p = q
  BY DEF HostInv
<1>2. /\ DOMAIN ExpireAll = DOMAIN records
      /\ \A q \in DOMAIN records : /\ Live(ExpireAll[q]) => Live(records[q])
                                   /\ ExpireAll[q].left \in Int
  BY <1>1, ExpiredIsNotLive DEF ExpireAll
<1>3. CASE r \in DOMAIN records
  <2>1. records' = records /\ asked' = asked /\ shown' = shown
    BY <1>3 DEF HostRegisters
  <2> QED
    BY <1>1, <2>1
<1>4. CASE r \notin DOMAIN records /\ Busy
  <2>1. records' = ExpireAll /\ asked' = asked /\ shown' = shown
    BY <1>4 DEF HostRegisters, HostAnswer
  <2>2. ExpireAll = [q \in DOMAIN ExpireAll |-> ExpireAll[q]]
    BY DEF ExpireAll
  <2> QED
    BY <1>1, <1>2, <2>1, <2>2
<1>5. CASE r \notin DOMAIN records /\ ~Busy
  <2>1. /\ records' = Put(ExpireAll, r, Record("pending", TTL, NoToken))
        /\ asked' = asked \cup {r} /\ shown' = shown
    BY <1>5 DEF HostRegisters, HostAnswer
  <2>2. /\ DOMAIN records' = DOMAIN records \cup {r}
        /\ records' = [q \in DOMAIN records' |-> records'[q]]
        /\ \A q \in DOMAIN records : records'[q] = ExpireAll[q]
        /\ records'[r].left = TTL
    BY <1>2, <1>5, <2>1 DEF Put, Record
  <2>3. \A q \in DOMAIN records : ~Live(records'[q])
    BY <1>2, <1>5, <2>2 DEF Busy
  <2> QED
    BY <1>1, <1>2, <2>1, <2>2, <2>3, TTLAssumption
<1> QED
  BY <1>3, <1>4, <1>5

(* Whatever is asked of the authority, about whatever resource.             *)
LEMMA HostStep ==
  ASSUME HostInv, NEW r, NEW loss, NEW token, NEW yes \in BOOLEAN,
         \/ Register(r, loss) \/ Issue(r) \/ Poll(r) \/ Show(r)
         \/ Verify(r, token, loss) \/ Decide(r, yes) \/ Tick
         \/ UNCHANGED approvalVars
  PROVE  HostInv'
<1>0. mode' = mode
  BY DEF Register, HostRegisters, AutomaticRegisters, Issue, Poll, Show, Verify, Verifies,
         Decide, Tick, approvalVars
<1> SUFFICES ASSUME mode = "desktop" PROVE HostInv'
  BY <1>0 DEF HostInv
<1>1. /\ records = [q \in DOMAIN records |-> records[q]]
      /\ \A q \in DOMAIN records : records[q].left \in Int
      /\ asked \subseteq DOMAIN records /\ shown \subseteq asked
      /\ \A p, q \in DOMAIN records : Live(records[p]) /\ Live(records[q]) => p = q
  BY DEF HostInv
<1>2. CASE records' = records /\ asked' = asked /\ shown' \subseteq asked
  BY <1>1, <1>2 DEF HostInv
<1>3. ASSUME NEW v, v.left \in Int, r \in DOMAIN records, Live(v) => Live(records[r]),
             records' = Put(records, r, v), asked' \subseteq asked, shown' \subseteq asked'
      PROVE  HostInv'
  <2>1. /\ DOMAIN records' = DOMAIN records
        /\ records' = [q \in DOMAIN records' |-> records'[q]]
        /\ records'[r] = v /\ \A q \in DOMAIN records \ {r} : records'[q] = records[q]
    BY <1>3 DEF Put
  <2>2. \A q \in DOMAIN records : Live(records'[q]) => Live(records[q])
    BY <1>3, <2>1
  <2> QED
    BY <1>1, <1>3, <2>1, <2>2 DEF HostInv
<1>4. CASE Register(r, loss)
  <2>1. HostRegisters(r) \/ UNCHANGED approvalVars
    BY <1>4 DEF Register, AutomaticRegisters
  <2> QED
    BY <1>1, <1>2, <2>1, HostRegister DEF approvalVars
<1>5. CASE Issue(r) \/ Show(r) \/ UNCHANGED approvalVars
  BY <1>1, <1>2, <1>5 DEF Issue, Show, approvalVars
<1>6. CASE Poll(r)
  <2>1. records' = IF r \in DOMAIN records THEN Put(records, r, Expire(records[r])) ELSE records
    BY <1>6 DEF Poll
  <2>2. asked' = asked /\ shown' = shown
    BY <1>6 DEF Poll
  <2>3. CASE r \in DOMAIN records
    BY <1>1, <1>3, <2>1, <2>2, <2>3, ExpiredIsNotLive
  <2> QED
    BY <1>1, <1>2, <2>1, <2>2, <2>3
<1>7. CASE Verify(r, token, loss)
  <2>1. CASE UNCHANGED approvalVars
    BY <1>1, <1>2, <2>1 DEF approvalVars
  <2>2. CASE Verifies(r, token)
    <3>1. records' = IF r \in DOMAIN records /\ token # NoToken
                     THEN Put(records, r,
                              IF Accepts(r, token) THEN Record("used", -1, records[r].token)
                              ELSE Expire(records[r]))
                     ELSE records
      BY <2>2 DEF Verifies
    <3>2. asked' = asked /\ shown' = shown
      BY <2>2 DEF Verifies
    <3>3. CASE r \in DOMAIN records /\ token # NoToken /\ Accepts(r, token)
      <4> DEFINE v == Record("used", -1, records[r].token)
      <4>1. v.left \in Int /\ ~Live(v)
        BY DEF Record, Live, Open
      <4>2. records' = Put(records, r, v)
        BY <3>1, <3>3
      <4> HIDE DEF v
      <4> QED
        BY <1>1, <1>3, <3>2, <3>3, <4>1, <4>2
    <3>4. CASE r \in DOMAIN records /\ token # NoToken /\ ~Accepts(r, token)
      BY <1>1, <1>3, <3>1, <3>2, <3>4, ExpiredIsNotLive
    <3>5. CASE ~(r \in DOMAIN records /\ token # NoToken)
      BY <1>1, <1>2, <3>1, <3>2, <3>5
    <3> QED
      BY <3>3, <3>4, <3>5
  <2> QED
    BY <1>7, <2>1, <2>2 DEF Verify
<1>8. CASE Decide(r, yes)
  <2>1. r \in DOMAIN records /\ asked' \subseteq asked /\ shown' = {}
    BY <1>1, <1>8 DEF Decide
  <2>2. CASE records' = records
    BY <1>1, <2>1, <2>2, <1>8 DEF Decide, HostInv
  <2>3. CASE /\ records[r].state = "pending" /\ Decision(r, yes) = "approved"
             /\ records' = Put(records, r, Record("approved", records[r].left, NewToken))
    <3> DEFINE v == Record("approved", records[r].left, NewToken)
    <3>1. v.left \in Int /\ (Live(v) => Live(records[r]))
      BY <1>1, <2>1, <2>3 DEF Record, Live, Open
    <3>2. records' = Put(records, r, v)
      BY <2>3
    <3> HIDE DEF v
    <3> QED
      BY <1>1, <1>3, <2>1, <3>1, <3>2
  <2>4. CASE /\ Decision(r, yes) # "approved"
             /\ records' = Put(records, r, Record(Decision(r, yes), -1, NoToken))
    <3> DEFINE v == Record(Decision(r, yes), -1, NoToken)
    <3>1. v.left \in Int /\ ~Live(v)
      BY DEF Record, Live
    <3>2. records' = Put(records, r, v)
      BY <2>4
    <3> HIDE DEF v
    <3> QED
      BY <1>1, <1>3, <2>1, <3>1, <3>2
  <2> QED
    BY <1>8, <2>2, <2>3, <2>4 DEF Decide
<1>9. CASE Tick
  <2>1. /\ DOMAIN records' = DOMAIN records
        /\ records' = [q \in DOMAIN records' |-> records'[q]]
        /\ \A q \in DOMAIN records :
             records'[q] = Record(records[q].state, Less(records[q].left), records[q].token)
        /\ asked' = asked /\ shown' = shown
    BY <1>9 DEF Tick
  <2>2. \A q \in DOMAIN records : (Live(records'[q]) => Live(records[q])) /\ records'[q].left \in Int
    BY <1>1, <2>1, OlderIsNotLive
  <2> QED
    BY <1>1, <2>1, <2>2 DEF HostInv
<1> QED
  BY <1>4, <1>5, <1>6, <1>7, <1>8, <1>9

LEMMA HostNext == HostInv /\ [ApprovalNext]_approvalVars => HostInv'
BY HostStep DEF ApprovalNext

LEMMA HostHasOneQuestion == HostInv => OneQuestion
BY DEF HostInv, OneQuestion

(* The desktop host never has two questions or unused approvals at a time,   *)
(* however requests, answers, dialogs and time are interleaved.             *)
THEOREM QuestionsOneByOne == ApprovalSpec => []OneQuestion
BY InitHost, HostNext, HostHasOneQuestion, PTL DEF ApprovalSpec

-----------------------------------------------------------------------------
(* Tokens *)

Records == [state : States, left : -1 .. TTL, token : Tokens \cup {NoToken}]

LEMMA InitAuthority == ApprovalInit => AuthorityInv
BY DEF ApprovalInit, AuthorityInv, ApprovalTypeOK, TokensKnown, UnusedTokens, OneUse

LEMMA NewTokenIsFresh == Fresh # {} => NewToken \in Tokens /\ NewToken \notin DOMAIN issued
BY DEF Fresh, NewToken

(* Looking at a record changes nothing but an open record that is too old.  *)
LEMMA ExpireRecord ==
  ASSUME NEW record \in Records
  PROVE  /\ Expire(record) \in Records
         /\ Expire(record) = record \/ (Expire(record).token = NoToken /\ Expire(record).state = "expired")
  BY TTLAssumption DEF Expire, Record, Records, States

(* A new token.                                                             *)
LEMMA IssueStep ==
  ASSUME ApprovalTypeOK, OneUse, NEW r \in Resources, Fresh # {}, IssueFor(r, NewToken)
  PROVE  /\ DOMAIN issued' = DOMAIN issued \cup {NewToken} /\ DOMAIN issued' \subseteq Tokens
         /\ issued' \in [DOMAIN issued' -> Resources]
         /\ passes' \in [DOMAIN issued' -> Nat] /\ passes'[NewToken] = 0
         /\ \A t \in DOMAIN issued : passes'[t] = passes[t]
         /\ OneUse'
BY NewTokenIsFresh DEF IssueFor, Put, ApprovalTypeOK, OneUse

(* A step that leaves the tokens as they are, and every record as it is, or  *)
(* closed, or with its time gone by, or out.                                *)
LEMMA NoNewToken ==
  ASSUME AuthorityInv,
         UNCHANGED <<mode, issued, passes, consumed>>,
         DOMAIN claims' = DOMAIN claims, claims' \in [DOMAIN claims -> [for : Resources, left : -1 .. TTL]],
         DOMAIN records' \subseteq Resources,
         records' \in [DOMAIN records' -> Records],
         \A r \in DOMAIN records' :
           \/ /\ r \in DOMAIN records /\ records'[r].token = records[r].token
              /\ records'[r].state \in {records[r].state, "used"} /\ (mode = "automatic" => records'[r].state = "approved")
           \/ mode = "desktop" /\ records'[r].token = NoToken /\ records'[r].state # "approved",
         asked' \subseteq DOMAIN records', mode # "desktop" => asked' = {},
         shown' \subseteq asked', \A q, r \in shown' : q = r
  PROVE  AuthorityInv'
<1> USE DEF AuthorityInv
<1>1. ApprovalTypeOK'
  BY DEF ApprovalTypeOK, Records
<1>2. TokensKnown'
  <2>1. IF mode = "hmac" THEN DOMAIN records' = {} ELSE DOMAIN claims' = {}
    BY DEF TokensKnown
  <2>2. \A q, r \in DOMAIN records' :
          records'[q].token = records'[r].token /\ records'[q].token # NoToken => q = r
    BY DEF TokensKnown
  <2>3. \A r \in DOMAIN records' :
          /\ records'[r].token \in DOMAIN issued' \cup {NoToken}
          /\ records'[r].state = "approved" => records'[r].token # NoToken
          /\ mode' = "automatic" => records'[r].state = "approved"
    BY DEF TokensKnown
  <2> QED
    BY <2>1, <2>2, <2>3 DEF TokensKnown
<1>3. UnusedTokens' /\ OneUse'
  BY DEF UnusedTokens, OneUse
<1> QED
  BY <1>1, <1>2, <1>3

(* A step that gives one resource a record with a new token.                *)
LEMMA WithNewToken ==
  ASSUME AuthorityInv, NEW r \in Resources, Fresh # {}, IssueFor(r, NewToken), mode # "hmac",
         NEW v \in Records, v.state = "approved", v.token = NewToken,
         records' = Put(records, r, v),
         UNCHANGED <<mode, claims, consumed>>,
         asked' \subseteq asked, shown' \subseteq asked', \A p, q \in shown' : p = q
  PROVE  AuthorityInv'
<1> USE DEF AuthorityInv
<1>1. /\ DOMAIN issued' = DOMAIN issued \cup {NewToken} /\ DOMAIN issued' \subseteq Tokens
      /\ issued' \in [DOMAIN issued' -> Resources]
      /\ passes' \in [DOMAIN issued' -> Nat] /\ passes'[NewToken] = 0
      /\ \A t \in DOMAIN issued : passes'[t] = passes[t]
      /\ OneUse'
  BY IssueStep
<1>2. NewToken \in Tokens /\ NewToken \notin DOMAIN issued /\ NewToken # NoToken
  BY NewTokenIsFresh, NoTokenAssumption
<1>3. /\ DOMAIN records' = DOMAIN records \cup {r} /\ DOMAIN records' \subseteq Resources
      /\ records' \in [DOMAIN records' -> Records]
      /\ records'[r] = v /\ \A q \in DOMAIN records \ {r} : records'[q] = records[q]
  <2>1. PICK f : f = Put(records, r, v)
    OBVIOUS
  <2>2. /\ DOMAIN f = DOMAIN records \cup {r} /\ DOMAIN f \subseteq Resources
        /\ f \in [DOMAIN f -> Records]
        /\ f[r] = v /\ \A q \in DOMAIN records \ {r} : f[q] = records[q]
    BY <2>1 DEF Put, ApprovalTypeOK, Records
  <2>3. records' = f
    BY <2>1
  <2> QED
    BY <2>2, <2>3
<1>4. ApprovalTypeOK'
  BY <1>1, <1>3 DEF ApprovalTypeOK, Records
<1>5. TokensKnown'
  BY <1>1, <1>2, <1>3 DEF TokensKnown
<1>6. UnusedTokens'
  <2>0. \A q \in DOMAIN records \ {r} :
          records[q].state = "approved" => records[q].token \in DOMAIN issued /\ passes[records[q].token] = 0
    BY DEF UnusedTokens, TokensKnown
  <2>1. \A q \in DOMAIN records' : records'[q].state = "approved" => passes'[records'[q].token] = 0
    BY <1>1, <1>3, <2>0
  <2>2. DOMAIN claims' = {}
    BY DEF TokensKnown
  <2> QED
    BY <2>1, <2>2 DEF UnusedTokens
<1> QED
  BY <1>1, <1>4, <1>5, <1>6

LEMMA RegisterStep ==
  ASSUME AuthorityInv, NEW r \in Resources, NEW loss, Register(r, loss)
  PROVE  AuthorityInv'
<1> USE DEF AuthorityInv
<1>1. CASE UNCHANGED approvalVars
  BY <1>1 DEF approvalVars, ApprovalTypeOK, TokensKnown, UnusedTokens, OneUse
<1>2. CASE HostRegisters(r)
  <2> DEFINE v == Record("pending", TTL, NoToken)
  <2>1. v \in Records /\ v.token = NoToken /\ v.state = "pending"
    BY TTLAssumption DEF Record, Records, States
  <2>2. /\ DOMAIN ExpireAll = DOMAIN records
        /\ ExpireAll \in [DOMAIN records -> Records]
        /\ \A q \in DOMAIN records :
             \/ ExpireAll[q] = records[q]
             \/ ExpireAll[q].token = NoToken /\ ExpireAll[q].state = "expired"
    BY ExpireRecord DEF ExpireAll, ApprovalTypeOK, Records
  <2>3. \/ records' \in {records, ExpireAll} /\ asked' = asked
        \/ records' = Put(ExpireAll, r, v) /\ asked' = asked \cup {r}
    BY <1>2 DEF HostRegisters, HostAnswer
  <2> HIDE DEF v
  <2>4. /\ DOMAIN records \subseteq DOMAIN records' /\ DOMAIN records' \subseteq Resources
        /\ records' \in [DOMAIN records' -> Records]
        /\ \A q \in DOMAIN records' :
             \/ q \in DOMAIN records /\ records'[q] = records[q]
             \/ records'[q].token = NoToken /\ records'[q].state # "approved"
        /\ asked' \subseteq DOMAIN records' /\ asked \subseteq asked'
    BY <2>1, <2>2, <2>3 DEF Put, ApprovalTypeOK, Records
  <2>5. /\ mode = "desktop" /\ shown' = shown
        /\ UNCHANGED <<mode, issued, passes, consumed, claims>>
    BY <1>2 DEF HostRegisters
  <2> QED
    BY <2>4, <2>5, NoNewToken DEF ApprovalTypeOK
<1>3. CASE AutomaticRegisters(r)
  <2> DEFINE v == Record("approved", TTL, NewToken)
  <2>1. v \in Records /\ v.token = NewToken /\ v.state = "approved"
    BY <1>3, TTLAssumption, NewTokenIsFresh DEF Record, Records, States, AutomaticRegisters
  <2>2. records' = Put(records, r, v)
    BY <1>3 DEF AutomaticRegisters
  <2> HIDE DEF v
  <2> QED
    BY <1>3, <2>1, <2>2, WithNewToken DEF AutomaticRegisters, ApprovalTypeOK
<1> QED
  BY <1>1, <1>2, <1>3 DEF Register

LEMMA IssuedByHand ==
  ASSUME AuthorityInv, NEW r \in Resources, Issue(r)
  PROVE  AuthorityInv'
<1> USE DEF AuthorityInv
<1>1. /\ DOMAIN issued' = DOMAIN issued \cup {NewToken} /\ DOMAIN issued' \subseteq Tokens
      /\ issued' \in [DOMAIN issued' -> Resources]
      /\ passes' \in [DOMAIN issued' -> Nat] /\ passes'[NewToken] = 0
      /\ \A t \in DOMAIN issued : passes'[t] = passes[t]
      /\ OneUse'
  BY IssueStep DEF Issue
<1>2. /\ DOMAIN claims' = DOMAIN claims \cup {NewToken}
      /\ claims' \in [DOMAIN claims' -> [for : Resources, left : -1 .. TTL]]
  BY TTLAssumption DEF Issue, Put, ApprovalTypeOK
<1>3. UNCHANGED <<mode, records, asked, shown, consumed>> /\ mode = "hmac"
  BY DEF Issue
<1>4. records = << >>
  BY <1>3 DEF TokensKnown
<1>5. ApprovalTypeOK' /\ TokensKnown'
  BY <1>1, <1>2, <1>3, <1>4 DEF ApprovalTypeOK, TokensKnown
<1>6. UnusedTokens'
  <2>1. \A t \in DOMAIN claims \ consumed : t \in DOMAIN issued /\ passes[t] = 0
    BY DEF UnusedTokens, ApprovalTypeOK
  <2> QED
    BY <1>1, <1>2, <1>3, <1>4, <2>1 DEF UnusedTokens
<1> QED
  BY <1>1, <1>5, <1>6

LEMMA PollStep ==
  ASSUME AuthorityInv, NEW r \in Resources, Poll(r)
  PROVE  AuthorityInv'
<1> USE DEF AuthorityInv
<1>1. UNCHANGED <<mode, asked, shown, claims, consumed, issued, passes>>
  BY DEF Poll
<1>2. /\ DOMAIN records' \subseteq DOMAIN records
      /\ records' \in [DOMAIN records' -> Records]
      /\ mode = "desktop" => DOMAIN records' = DOMAIN records
      /\ \A q \in DOMAIN records' :
           \/ records'[q] = records[q]
           \/ mode = "desktop" /\ records'[q].token = NoToken /\ records'[q].state = "expired"
  <2>1. CASE mode = "desktop" /\ r \in DOMAIN records
    <3>1. records' = Put(records, r, Expire(records[r]))
      BY <2>1 DEF Poll
    <3>2. /\ Expire(records[r]) \in Records
          /\ \/ Expire(records[r]) = records[r]
             \/ Expire(records[r]).token = NoToken /\ Expire(records[r]).state = "expired"
      BY <2>1, ExpireRecord DEF ApprovalTypeOK, Records
    <3> QED
      BY <2>1, <3>1, <3>2 DEF Put, ApprovalTypeOK, Records
  <2>2. CASE records' = records
    BY <2>2 DEF ApprovalTypeOK, Records
  <2>3. CASE mode = "automatic" /\ records' = Without(records, r)
    BY <2>3 DEF Without, ApprovalTypeOK, Records
  <2> QED
    BY <2>1, <2>2, <2>3 DEF Poll
<1>3. asked \subseteq DOMAIN records'
  BY <1>2 DEF ApprovalTypeOK, TokensKnown
<1>4. mode = "automatic" => \A q \in DOMAIN records' : records'[q].state = "approved"
  BY <1>2 DEF TokensKnown
<1> QED
  BY <1>1, <1>2, <1>3, <1>4, NoNewToken DEF ApprovalTypeOK, TokensKnown

(* The token of an approval that is accepted becomes used, goes out with its *)
(* record, or is consumed.                                                  *)
LEMMA AcceptStep ==
  ASSUME AuthorityInv, NEW r \in Resources, NEW token, Verifies(r, token), Accepts(r, token)
  PROVE  AuthorityInv'
<1> USE DEF AuthorityInv
<1>1. /\ passes' = Plus(passes, token)
      /\ UNCHANGED <<mode, asked, shown, claims, issued>>
  BY DEF Verifies
<1>2. token \in DOMAIN issued /\ passes[token] = 0
  <2>1. CASE mode = "desktop"
    BY <2>1 DEF Accepts, TokensKnown, UnusedTokens
  <2>2. CASE mode = "automatic"
    BY <2>2 DEF Accepts, TokensKnown, UnusedTokens
  <2>3. CASE mode = "hmac"
    BY <2>3 DEF Accepts, ApprovalTypeOK, UnusedTokens
  <2> QED
    BY <2>1, <2>2, <2>3 DEF ApprovalTypeOK, Modes
<1>3. /\ passes' \in [DOMAIN issued -> Nat] /\ passes'[token] = 1
      /\ \A t \in DOMAIN issued \ {token} : passes'[t] = passes[t]
  BY <1>1, <1>2 DEF Plus, ApprovalTypeOK
<1>4. OneUse'
  BY <1>2, <1>3 DEF OneUse, ApprovalTypeOK
<1>5. \A q \in DOMAIN records \ {r} :
        records[q].state = "approved" /\ records[q].token # token
        => records[q].token \in DOMAIN issued \ {token} /\ passes[records[q].token] = 0
  BY DEF TokensKnown, UnusedTokens
<1>6. token # NoToken
  BY <1>2, NoTokenAssumption DEF ApprovalTypeOK
<1>7. CASE mode = "desktop"
  <2>1. /\ r \in DOMAIN records /\ records[r].token = token
        /\ records' = Put(records, r, Record("used", -1, records[r].token)) /\ consumed' = consumed
    BY <1>6, <1>7 DEF Accepts, Verifies
  <2>2. /\ DOMAIN records' = DOMAIN records
        /\ records' \in [DOMAIN records -> Records]
        /\ records'[r].state = "used" /\ records'[r].token = token
        /\ \A q \in DOMAIN records \ {r} : records'[q] = records[q]
    BY <2>1, TTLAssumption DEF Put, Record, Records, States, ApprovalTypeOK
  <2>3. ApprovalTypeOK'
    BY <1>1, <1>3, <2>1, <2>2 DEF ApprovalTypeOK, Records
  <2>4. TokensKnown'
    BY <1>1, <1>7, <2>1, <2>2 DEF TokensKnown
  <2>5. claims' = << >>
    BY <1>1, <1>7 DEF TokensKnown
  <2>6. \A q \in DOMAIN records \ {r} : records[q].token # token
    BY <1>6, <2>1 DEF TokensKnown
  <2>7. UnusedTokens'
    BY <1>3, <1>5, <2>2, <2>5, <2>6 DEF UnusedTokens
  <2> QED
    BY <1>4, <2>3, <2>4, <2>7
<1>8. CASE mode = "automatic"
  <2>1. /\ r \in DOMAIN records /\ records[r].token = token
        /\ records' = Without(records, r) /\ consumed' = consumed
    BY <1>8 DEF Accepts, Verifies
  <2>2. /\ DOMAIN records' = DOMAIN records \ {r}
        /\ records' \in [DOMAIN records' -> Records]
        /\ \A q \in DOMAIN records \ {r} : records'[q] = records[q]
    BY <2>1 DEF Without, Records, ApprovalTypeOK
  <2>3. asked = {}
    BY <1>8 DEF TokensKnown
  <2>4. ApprovalTypeOK'
    BY <1>1, <1>3, <2>1, <2>2, <2>3 DEF ApprovalTypeOK, Records
  <2>5. TokensKnown'
    BY <1>1, <1>8, <2>1, <2>2 DEF TokensKnown
  <2>6. claims' = << >>
    BY <1>1, <1>8 DEF TokensKnown
  <2>7. \A q \in DOMAIN records \ {r} : records[q].token # token
    BY <1>6, <2>1 DEF TokensKnown
  <2>8. UnusedTokens'
    BY <1>3, <1>5, <2>2, <2>6, <2>7 DEF UnusedTokens
  <2> QED
    BY <1>4, <2>4, <2>5, <2>8
<1>9. CASE mode = "hmac"
  <2>1. records' = records /\ consumed' = consumed \cup {token} /\ records = << >>
    BY <1>9 DEF Verifies, TokensKnown
  <2>2. ApprovalTypeOK' /\ TokensKnown'
    BY <1>1, <1>2, <1>3, <2>1 DEF ApprovalTypeOK, TokensKnown
  <2>3. UnusedTokens'
    BY <1>1, <1>3, <2>1 DEF UnusedTokens, ApprovalTypeOK
  <2> QED
    BY <1>4, <2>2, <2>3
<1> QED
  BY <1>7, <1>8, <1>9 DEF ApprovalTypeOK, Modes

LEMMA RefuseStep ==
  ASSUME AuthorityInv, NEW r \in Resources, NEW token, Verifies(r, token), ~Accepts(r, token)
  PROVE  AuthorityInv'
<1> USE DEF AuthorityInv
<1>1. UNCHANGED <<mode, asked, shown, claims, consumed, issued, passes>>
  BY DEF Verifies
<1>2. /\ DOMAIN records' \subseteq DOMAIN records
      /\ records' \in [DOMAIN records' -> Records]
      /\ mode = "desktop" => DOMAIN records' = DOMAIN records
      /\ \A q \in DOMAIN records' :
           \/ records'[q] = records[q]
           \/ mode = "desktop" /\ records'[q].token = NoToken /\ records'[q].state = "expired"
  <2>1. CASE mode = "desktop" /\ r \in DOMAIN records /\ token # NoToken
    <3>1. records' = Put(records, r, Expire(records[r]))
      BY <2>1 DEF Verifies
    <3>2. /\ Expire(records[r]) \in Records
          /\ \/ Expire(records[r]) = records[r]
             \/ Expire(records[r]).token = NoToken /\ Expire(records[r]).state = "expired"
      BY <2>1, ExpireRecord DEF ApprovalTypeOK, Records
    <3> QED
      BY <2>1, <3>1, <3>2 DEF Put, ApprovalTypeOK, Records
  <2>2. CASE records' = records
    BY <2>2 DEF ApprovalTypeOK, Records
  <2>3. CASE mode = "automatic" /\ records' = Without(records, r)
    BY <2>3 DEF Without, ApprovalTypeOK, Records
  <2> QED
    BY <2>1, <2>2, <2>3 DEF Verifies
<1>3. asked \subseteq DOMAIN records'
  BY <1>2 DEF ApprovalTypeOK, TokensKnown
<1>4. mode = "automatic" => \A q \in DOMAIN records' : records'[q].state = "approved"
  BY <1>2 DEF TokensKnown
<1> QED
  BY <1>1, <1>2, <1>3, <1>4, NoNewToken DEF ApprovalTypeOK, TokensKnown

LEMMA DecideStep ==
  ASSUME AuthorityInv, NEW r \in Resources, NEW yes \in BOOLEAN, Decide(r, yes)
  PROVE  AuthorityInv'
<1> USE DEF AuthorityInv
<1>1. /\ mode = "desktop" /\ r \in DOMAIN records
      /\ shown' = {} /\ asked' = asked \ {r}
      /\ UNCHANGED <<mode, claims, consumed>>
  BY DEF Decide, TokensKnown, ApprovalTypeOK
<1>2. CASE UNCHANGED <<records, issued, passes>>
  BY <1>1, <1>2, NoNewToken DEF ApprovalTypeOK, Records
<1>3. CASE /\ Fresh # {} /\ IssueFor(r, NewToken)
           /\ records' = Put(records, r, Record("approved", records[r].left, NewToken))
  <2> DEFINE v == Record("approved", records[r].left, NewToken)
  <2>1. v \in Records /\ v.token = NewToken /\ v.state = "approved"
    BY <1>1, <1>3, NewTokenIsFresh DEF Record, Records, States, ApprovalTypeOK
  <2>2. records' = Put(records, r, v)
    BY <1>3
  <2> HIDE DEF v
  <2> QED
    BY <1>1, <1>3, <2>1, <2>2, WithNewToken
<1>4. CASE /\ Decision(r, yes) # "approved"
           /\ records' = Put(records, r, Record(Decision(r, yes), -1, NoToken))
           /\ UNCHANGED <<issued, passes>>
  <2>1. /\ DOMAIN records' = DOMAIN records
        /\ records' \in [DOMAIN records -> Records]
        /\ records'[r].token = NoToken /\ records'[r].state # "approved"
        /\ \A q \in DOMAIN records \ {r} : records'[q] = records[q]
    BY <1>1, <1>4, TTLAssumption DEF Put, Record, Records, States, Decision, ApprovalTypeOK
  <2> QED
    BY <1>1, <1>4, <2>1, NoNewToken DEF ApprovalTypeOK
<1> QED
  BY <1>2, <1>3, <1>4 DEF Decide

LEMMA TickStep == ASSUME AuthorityInv, Tick PROVE AuthorityInv'
<1> USE DEF AuthorityInv
<1>1. \A left \in -1 .. TTL : Less(left) \in -1 .. TTL
  BY TTLAssumption DEF Less
<1>2. /\ DOMAIN records' = DOMAIN records
      /\ records' \in [DOMAIN records -> Records]
      /\ \A r \in DOMAIN records : /\ records'[r].state = records[r].state
                                   /\ records'[r].token = records[r].token
  BY <1>1 DEF Tick, Record, Records, ApprovalTypeOK
<1>3. /\ DOMAIN claims' = DOMAIN claims
      /\ claims' \in [DOMAIN claims -> [for : Resources, left : -1 .. TTL]]
  BY <1>1 DEF Tick, ApprovalTypeOK
<1>4. UNCHANGED <<mode, asked, shown, consumed, issued, passes>>
  BY DEF Tick
<1> QED
  BY <1>2, <1>3, <1>4, NoNewToken DEF ApprovalTypeOK, TokensKnown

LEMMA AuthorityNext == AuthorityInv /\ [ApprovalNext]_approvalVars => AuthorityInv'
<1> SUFFICES ASSUME AuthorityInv, [ApprovalNext]_approvalVars PROVE AuthorityInv'
  OBVIOUS
<1>1. CASE UNCHANGED approvalVars
  BY <1>1 DEF approvalVars, AuthorityInv, ApprovalTypeOK, TokensKnown, UnusedTokens, OneUse
<1>2. ASSUME NEW r \in Resources, Show(r) PROVE AuthorityInv'
  BY <1>2, NoNewToken DEF Show, AuthorityInv, ApprovalTypeOK, TokensKnown, Records
<1>3. ASSUME NEW r \in Resources, NEW token, NEW loss, Verify(r, token, loss) PROVE AuthorityInv'
  BY <1>1, <1>3, AcceptStep, RefuseStep DEF Verify
<1> QED
  BY <1>1, <1>2, <1>3, RegisterStep, IssuedByHand, PollStep, DecideStep, TickStep DEF ApprovalNext

(* The types, the tokens in their records, and what can still be accepted.  *)
THEOREM AuthorityInvariance == ApprovalSpec => []AuthorityInv
BY InitAuthority, AuthorityNext, PTL DEF ApprovalSpec

(* A token is accepted at most once by any of the three authorities,        *)
(* whatever is lost between the manager and the desktop host.               *)
THEOREM AcceptedOnce == ApprovalSpec => []OneUse
<1>1. AuthorityInv => OneUse
  BY DEF AuthorityInv
<1> QED
  BY <1>1, AuthorityInvariance, PTL

-----------------------------------------------------------------------------
(* The tables of tools and workflows *)

LEMMA ToolsAreTools ==
  /\ \A tool \in UNION ToolFamilies : IsTool(tool)
  /\ \A c : IsTool(explore(c))
  /\ IsTool(start) /\ IsTool(advance)
<1>1. ASSUME NEW family \in ToolFamilies, NEW tool \in family PROVE IsTool(tool)
  BY <1>1 DEF ToolFamilies, MaterialTools, ViaTools, AntipadTools, MeshTools, BoundaryTools,
       GeometryTools, SetupTools, SweepTools, PortTools, EdgePortTools, PropertyTools,
       VariableTools, ManagerOnly, project_save, hfss_material_create, hfss_material_update,
       hfss_material_delete, layout_material_create_assign, layout_via_create,
       layout_via_update, layout_via_delete, layout_antipad_circle_create, open_aedt_python,
       hfss_material_assign, hfss_length_mesh_create, hfss_infinite_sphere_create,
       hfss_surface_boundary_create, hfss_coordinate_system_create, hfss_geometry_create,
       hfss_geometry_move, hfss_geometry_rotate, hfss_antipad_subtract,
       hfss_geometry_boundary_create, hfss_setup, hfss_setup_update, frequency_sweep_create,
       hfss_setup_sweep_create, hfss_report, hfss_boundary, hfss_analysis_start,
       hfss_analysis_cancel, hfss_export, layout_component_ports_create,
       layout_edge_ports_create, layout_object_property_update, variable_upsert,
       variable_batch_upsert, layout_width, IsTool, Guarded
<1> QED
  BY <1>1 DEF explore, start, advance, IsTool, Guarded

(* A tool that a node may work with: not a step of a workflow, nor a plan.   *)
IsWork(tool) ==
  IsTool(tool) /\ \A c : tool.action \notin {start.action, advance.action, explore(c).action}

(* A workflow is a sequence of nodes with tools, and not empty.             *)
IsFlow(f) ==
  /\ \E S : f \in Seq(S)
  /\ Len(f) > 0
  /\ \A i \in 1 .. Len(f) : IsWork(f[i].tool)

LEMMA NodeTool == ASSUME NEW id, NEW kind, NEW tool PROVE Node(id, kind, tool).tool = tool
BY DEF Node

LEMMA Singles == ASSUME NEW n, IsWork(n.tool) PROVE IsFlow(<<n>>)
<1>1. PICK S : n \in S
  <2>1. n \in {n}
    OBVIOUS
  <2> QED
    BY <2>1
<1>2. <<n>> \in Seq(S) /\ Len(<<n>>) = 1 /\ <<n>>[1] = n
  BY <1>1
<1> QED
  BY <1>2 DEF IsFlow

LEMMA Pairs == ASSUME NEW m, NEW n, IsWork(m.tool), IsWork(n.tool) PROVE IsFlow(<<m, n>>)
<1>1. PICK S : m \in S /\ n \in S
  <2>1. m \in {m, n} /\ n \in {m, n}
    OBVIOUS
  <2> QED
    BY <2>1
<1>2. <<m, n>> \in Seq(S) /\ Len(<<m, n>>) = 2 /\ <<m, n>>[1] = m /\ <<m, n>>[2] = n
  BY <1>1
<1> QED
  BY <1>2 DEF IsFlow

LEMMA Chained == ASSUME NEW f, NEW g, IsFlow(f), IsFlow(g) PROVE IsFlow(f \o g)
<1>1. PICK S : f \in Seq(S)
  BY DEF IsFlow
<1>2. PICK T : g \in Seq(T)
  BY DEF IsFlow
<1>3. f \in Seq(S \cup T) /\ g \in Seq(S \cup T)
  BY <1>1, <1>2
<1>4. /\ f \o g \in Seq(S \cup T) /\ Len(f \o g) = Len(f) + Len(g)
      /\ \A i \in 1 .. Len(f) : (f \o g)[i] = f[i]
      /\ \A i \in Len(f) + 1 .. Len(f) + Len(g) : (f \o g)[i] = g[i - Len(f)]
  BY <1>3
<1>5. Len(f) \in Nat /\ Len(g) \in Nat
  BY <1>3
<1>6. ASSUME NEW i \in 1 .. Len(f \o g) PROVE IsWork((f \o g)[i].tool)
  <2>1. i \in 1 .. Len(f) \/ (i \in Len(f) + 1 .. Len(f) + Len(g) /\ i - Len(f) \in 1 .. Len(g))
    BY <1>4, <1>5
  <2> QED
    BY <1>4, <2>1 DEF IsFlow
<1> QED
  BY <1>4, <1>5, <1>6 DEF IsFlow

LEMMA NodesOf ==
  ASSUME NEW id, NEW tool, IsWork(tool)
  PROVE  /\ IsFlow(Read(id)) /\ IsFlow(Polls(id)) /\ IsFlow(Score(id))
         /\ IsFlow(Operation(id, tool)) /\ IsFlow(Change(id, tool))
<1>1. IsWork(NoTool)
  BY DEF NoTool, IsWork, IsTool, Guarded, start, advance, explore
<1>2. /\ IsFlow(Read(id)) /\ IsFlow(Polls(id)) /\ IsFlow(Score(id))
      /\ IsFlow(Score("verify_scorecard"))
  BY <1>1, NodeTool, Singles DEF Read, Polls, Score
<1>3. IsFlow(Operation(id, tool))
  BY NodeTool, Pairs DEF Operation
<1> QED
  BY <1>2, <1>3, Chained DEF Change

LEMMA FlowsAreFlows == \A f \in LiveSessionWorkflows : IsFlow(Flows[f])
<1>1. /\ IsWork(hfss_material_create) /\ IsWork(hfss_material_update) /\ IsWork(hfss_material_delete)
      /\ IsWork(layout_material_create_assign) /\ IsWork(layout_via_create) /\ IsWork(layout_via_update)
      /\ IsWork(layout_via_delete) /\ IsWork(layout_antipad_circle_create) /\ IsWork(hfss_material_assign)
      /\ IsWork(hfss_length_mesh_create) /\ IsWork(hfss_infinite_sphere_create) /\ IsWork(hfss_surface_boundary_create)
      /\ IsWork(hfss_coordinate_system_create) /\ IsWork(hfss_geometry_create) /\ IsWork(hfss_geometry_move)
      /\ IsWork(hfss_geometry_rotate) /\ IsWork(hfss_antipad_subtract) /\ IsWork(hfss_geometry_boundary_create)
      /\ IsWork(hfss_setup_sweep_create) /\ IsWork(hfss_boundary) /\ IsWork(hfss_analysis_start)
      /\ IsWork(hfss_export) /\ IsWork(layout_component_ports_create) /\ IsWork(layout_edge_ports_create)
      /\ IsWork(variable_batch_upsert) /\ IsWork(layout_width)
      /\ IsWork(NoTool)
  BY DEF IsWork, IsTool, Guarded, NoTool, start, advance, explore, hfss_material_create, hfss_material_update,
       hfss_material_delete, layout_material_create_assign, layout_via_create,
       layout_via_update, layout_via_delete, layout_antipad_circle_create, hfss_material_assign,
       hfss_length_mesh_create, hfss_infinite_sphere_create, hfss_surface_boundary_create,
       hfss_coordinate_system_create, hfss_geometry_create, hfss_geometry_move,
       hfss_geometry_rotate, hfss_antipad_subtract, hfss_geometry_boundary_create,
       hfss_setup_sweep_create, hfss_boundary, hfss_analysis_start, hfss_export,
       layout_component_ports_create, layout_edge_ports_create, variable_batch_upsert,
       layout_width
<1>2. /\ IsFlow(variable_batch_upsert_flow) /\ IsFlow(hfss_geometry_create_flow)
      /\ IsFlow(hfss_geometry_move_flow) /\ IsFlow(hfss_geometry_rotate_flow)
      /\ IsFlow(hfss_antipad_subtract_flow) /\ IsFlow(hfss_material_create_flow)
      /\ IsFlow(hfss_material_update_flow) /\ IsFlow(hfss_material_delete_flow)
      /\ IsFlow(layout_material_create_assign_flow) /\ IsFlow(layout_via_create_flow)
      /\ IsFlow(layout_via_update_flow) /\ IsFlow(layout_via_delete_flow)
      /\ IsFlow(layout_antipad_circle_create_flow) /\ IsFlow(hfss_material_assign_flow)
      /\ IsFlow(hfss_length_mesh_create_flow) /\ IsFlow(hfss_infinite_sphere_create_flow)
      /\ IsFlow(hfss_surface_boundary_create_flow) /\ IsFlow(hfss_coordinate_system_create_flow)
      /\ IsFlow(hfss_port_create_flow) /\ IsFlow(hfss_geometry_boundary_create_flow)
      /\ IsFlow(hfss_setup_sweep_create_flow) /\ IsFlow(component_ports)
      /\ IsFlow(edge_ports)
  BY <1>1, NodesOf DEF variable_batch_upsert_flow, hfss_geometry_create_flow,
       hfss_geometry_move_flow, hfss_geometry_rotate_flow, hfss_antipad_subtract_flow,
       hfss_material_create_flow, hfss_material_update_flow, hfss_material_delete_flow,
       layout_material_create_assign_flow, layout_via_create_flow, layout_via_update_flow,
       layout_via_delete_flow, layout_antipad_circle_create_flow, hfss_material_assign_flow,
       hfss_length_mesh_create_flow, hfss_infinite_sphere_create_flow,
       hfss_surface_boundary_create_flow, hfss_coordinate_system_create_flow,
       hfss_port_create_flow, hfss_geometry_boundary_create_flow, hfss_setup_sweep_create_flow,
       component_ports, edge_ports
<1>3. /\ IsFlow(discover_component) /\ IsFlow(validate_component) /\ IsFlow(discover_edge)
      /\ IsFlow(validate_edge) /\ IsFlow(select_paths) /\ IsFlow(width)
      /\ IsFlow(verify_width) /\ IsFlow(validate_setup) /\ IsFlow(analysis)
      /\ IsFlow(verify_submission) /\ IsFlow(validate_monitor) /\ IsFlow(poll_analysis)
      /\ IsFlow(verify_stopped) /\ IsFlow(validate_export) /\ IsFlow(export)
      /\ IsFlow(verify_export) /\ IsFlow(validate_score_request) /\ IsFlow(score_touchstone)
  BY <1>1, NodesOf DEF discover_component, validate_component, discover_edge, validate_edge,
       select_paths, width, verify_width, validate_setup, analysis, verify_submission,
       validate_monitor, poll_analysis, verify_stopped, validate_export, export, verify_export,
       validate_score_request, score_touchstone
<1>4. IsFlow(layout_audit) /\ IsFlow(Score("verify_parameterization"))
  <2>1. IsFlow(Read("collect_live_inventory")) /\ IsFlow(Score("audit_scorecard"))
        /\ IsFlow(Score("verify_parameterization"))
    BY <1>1, NodesOf
  <2> QED
    BY <2>1, Chained DEF layout_audit
<1>5. IsFlow(solve) /\ IsFlow(solved) /\ IsFlow(touchstone)
  <2>1. IsFlow(solve)
    BY <1>3, Chained DEF solve
  <2>2. IsFlow(solved)
    BY <1>3, <2>1, Chained DEF solved
  <2>3. IsFlow(validate_score_request \o export)
    BY <1>3, Chained
  <2> QED
    BY <1>3, <2>1, <2>2, <2>3, Chained DEF touchstone
<1>6. /\ IsFlow(discover_component \o validate_component \o component_ports)
      /\ IsFlow(discover_edge \o validate_edge \o edge_ports)
      /\ IsFlow(select_paths \o width \o verify_width)
      /\ IsFlow(solve \o verify_submission)
      /\ IsFlow(validate_monitor \o poll_analysis \o verify_stopped)
      /\ IsFlow(validate_export \o export \o verify_export)
  <2>1. /\ IsFlow(discover_component \o validate_component)
        /\ IsFlow(discover_edge \o validate_edge)
        /\ IsFlow(select_paths \o width)
        /\ IsFlow(validate_monitor \o poll_analysis)
        /\ IsFlow(validate_export \o export)
    BY <1>3, Chained
  <2> QED
    BY <1>2, <1>3, <1>5, <2>1, Chained
<1>7. /\ IsFlow(solved \o validate_export \o export \o verify_export)
      /\ IsFlow(solved \o touchstone)
      /\ IsFlow(select_paths \o width \o Score("verify_parameterization") \o solved \o touchstone)
  <2>1. IsFlow(solved \o validate_export) /\ IsFlow(select_paths \o width)
    BY <1>3, <1>5, Chained
  <2>2. /\ IsFlow(solved \o validate_export \o export)
        /\ IsFlow(select_paths \o width \o Score("verify_parameterization"))
    BY <1>3, <1>4, <2>1, Chained
  <2>3. IsFlow(select_paths \o width \o Score("verify_parameterization") \o solved)
    BY <1>5, <2>2, Chained
  <2> QED
    BY <1>3, <1>5, <2>2, <2>3, Chained
<1>8. /\ IsFlow(Flows.aedt_live_variable_batch_upsert)
      /\ IsFlow(Flows.hfss_live_geometry_create)
      /\ IsFlow(Flows.hfss_live_geometry_move)
      /\ IsFlow(Flows.hfss_live_geometry_rotate)
      /\ IsFlow(Flows.hfss_live_antipad_subtract)
      /\ IsFlow(Flows.hfss_live_material_create)
      /\ IsFlow(Flows.hfss_live_material_update)
      /\ IsFlow(Flows.hfss_live_material_delete)
      /\ IsFlow(Flows.layout_live_material_create_assign)
      /\ IsFlow(Flows.layout_live_via_create)
      /\ IsFlow(Flows.layout_live_via_update)
      /\ IsFlow(Flows.layout_live_via_delete)
      /\ IsFlow(Flows.layout_live_antipad_circle_create)
      /\ IsFlow(Flows.hfss_live_material_assign)
      /\ IsFlow(Flows.hfss_live_length_mesh_create)
      /\ IsFlow(Flows.hfss_live_infinite_sphere_create)
      /\ IsFlow(Flows.hfss_live_surface_boundary_create)
      /\ IsFlow(Flows.hfss_live_coordinate_system_create)
      /\ IsFlow(Flows.hfss_live_port_create)
      /\ IsFlow(Flows.hfss_live_geometry_boundary_create)
      /\ IsFlow(Flows.hfss_live_setup_sweep_create)
      /\ IsFlow(Flows.layout_live_audit)
      /\ IsFlow(Flows.layout_live_component_ports_create)
      /\ IsFlow(Flows.layout_live_uniform_edge_ports_create)
      /\ IsFlow(Flows.layout_live_parameterize_width)
      /\ IsFlow(Flows.layout_live_solve_start)
      /\ IsFlow(Flows.layout_live_solve_monitor)
      /\ IsFlow(Flows.layout_live_results_export)
      /\ IsFlow(Flows.layout_live_touchstone_score)
      /\ IsFlow(Flows.layout_live_solve_export)
      /\ IsFlow(Flows.layout_live_solve_touchstone_score)
      /\ IsFlow(Flows.layout_live_parameterize_solve_touchstone_score)
  BY <1>2, <1>4, <1>5, <1>6, <1>7, Zenon DEF Flows
<1>9. DOMAIN Flows =
        {"aedt_live_variable_batch_upsert", "hfss_live_geometry_create",
         "hfss_live_geometry_move", "hfss_live_geometry_rotate",
         "hfss_live_antipad_subtract", "hfss_live_material_create",
         "hfss_live_material_update", "hfss_live_material_delete",
         "layout_live_material_create_assign", "layout_live_via_create",
         "layout_live_via_update", "layout_live_via_delete",
         "layout_live_antipad_circle_create", "hfss_live_material_assign",
         "hfss_live_length_mesh_create", "hfss_live_infinite_sphere_create",
         "hfss_live_surface_boundary_create", "hfss_live_coordinate_system_create",
         "hfss_live_port_create", "hfss_live_geometry_boundary_create",
         "hfss_live_setup_sweep_create", "layout_live_audit",
         "layout_live_component_ports_create", "layout_live_uniform_edge_ports_create",
         "layout_live_parameterize_width", "layout_live_solve_start",
         "layout_live_solve_monitor", "layout_live_results_export",
         "layout_live_touchstone_score", "layout_live_solve_export",
         "layout_live_solve_touchstone_score", "layout_live_parameterize_solve_touchstone_score"}
  BY Zenon DEF Flows
<1> QED
  BY <1>8, <1>9, Zenon DEF LiveSessionWorkflows

-----------------------------------------------------------------------------
(* What can be done to the authority *)

Acts(r, loss, token, yes) ==
  \/ Register(r, loss) \/ Issue(r) \/ Poll(r) \/ Show(r)
  \/ Verify(r, token, loss) \/ Decide(r, yes) \/ Tick
  \/ UNCHANGED approvalVars

(* Records, dialogs and tokens are added for one resource only.             *)
Registered(put) ==
  /\ mode' = mode
  /\ DOMAIN records' \cup asked' \cup shown' \subseteq DOMAIN records \cup asked \cup shown \cup put
  /\ \A t \in DOMAIN issued' : (t \in DOMAIN issued /\ issued'[t] = issued[t]) \/ issued'[t] \in put

(* A token that was issued stays issued for its resource, and is not made   *)
(* usable again.                                                            *)
TokensStay ==
  \A t \in DOMAIN issued :
    /\ t \in DOMAIN issued' /\ issued'[t] = issued[t]
    /\ Used(t) => Used(t)'
    /\ Claimable(t)' => Claimable(t)

LEMMA NewIsNew == Fresh # {} => NewToken \in Tokens /\ NewToken \notin DOMAIN issued
BY DEF Fresh, NewToken

(* One record is replaced, by one with the same token or a fresh one.       *)
LEMMA PutsRecord ==
  ASSUME TokensPlaced, NEW r, NEW v, records' = Put(records, r, v),
         mode # "hmac",
         UNCHANGED <<mode, claims, consumed>>, asked' \subseteq asked \cup {r}, shown' \subseteq shown,
         mode # "desktop" => asked' = {},
         mode = "automatic" => v.state = "approved",
         \/ UNCHANGED issued /\ v.token = NoToken
         \/ /\ UNCHANGED issued /\ r \in DOMAIN records /\ v.token = records[r].token
            /\ v.state \in {records[r].state, "used"}
         \/ Fresh # {} /\ issued' = Put(issued, NewToken, r) /\ v.token = NewToken
  PROVE  TokensPlaced' /\ TokensStay /\ Registered({r})
<1>1. /\ DOMAIN records' = DOMAIN records \cup {r}
      /\ records'[r] = v /\ \A q \in DOMAIN records \ {r} : records'[q] = records[q]
  BY DEF Put
<1>2. /\ DOMAIN issued \subseteq DOMAIN issued' /\ DOMAIN issued' \subseteq Tokens
      /\ \A t \in DOMAIN issued : issued'[t] = issued[t] /\ t # NoToken
      /\ \A t \in DOMAIN issued' \ DOMAIN issued : issued'[t] = r
      /\ \A t \in DOMAIN issued : Fresh # {} => t # NewToken
  BY NewIsNew, NoTokenAssumption DEF Put, TokensPlaced
<1>3. v.token # NoToken => v.token \in DOMAIN issued' /\ issued'[v.token] = r
  BY <1>2 DEF TokensPlaced, Put
<1>4. TokensPlaced'
  BY <1>1, <1>2, <1>3 DEF TokensPlaced
<1>5. TokensStay
  BY <1>1, <1>2 DEF TokensStay, TokensPlaced, Used, Claimable
<1>6. Registered({r})
  BY <1>1, <1>2 DEF Registered, TokensPlaced
<1> QED
  BY <1>4, <1>5, <1>6

(* Records are looked at, grow older or are taken out; nothing is issued.   *)
LEMMA LooksAtRecords ==
  ASSUME TokensPlaced, NEW r,
         UNCHANGED <<mode, issued>>, asked' \subseteq asked, shown' \subseteq shown \cup {r},
         mode # "desktop" => shown' = {},
         DOMAIN records' \subseteq DOMAIN records,
         \A q \in DOMAIN records' :
           \/ records'[q].token = records[q].token /\ records'[q].state = records[q].state
           \/ records'[q].token = NoToken /\ mode # "automatic",
         DOMAIN claims' = DOMAIN claims, \A t \in DOMAIN claims : claims'[t].for = claims[t].for,
         consumed \subseteq consumed'
  PROVE  TokensPlaced' /\ TokensStay /\ Registered({r})
<1>1. \A t \in DOMAIN issued : t # NoToken
  BY NoTokenAssumption DEF TokensPlaced
<1>2. TokensPlaced'
  BY DEF TokensPlaced
<1>3. TokensStay
  BY <1>1 DEF TokensStay, TokensPlaced, Used, Claimable
<1> QED
  BY <1>2, <1>3 DEF Registered

LEMMA ExpiredRecord ==
  ASSUME NEW record
  PROVE  Expire(record) = record \/ Expire(record).token = NoToken
BY DEF Expire, Record

LEMMA RegisterMoves ==
  ASSUME TokensPlaced, NEW r, NEW loss, Register(r, loss)
  PROVE  TokensPlaced' /\ TokensStay /\ Registered({r})
<1>1. CASE UNCHANGED approvalVars
  BY <1>1, LooksAtRecords DEF approvalVars, TokensPlaced
<1>2. CASE AutomaticRegisters(r)
  <2> DEFINE v == Record("approved", TTL, NewToken)
  <2>1. records' = Put(records, r, v) /\ v.token = NewToken /\ v.state = "approved"
    BY <1>2 DEF AutomaticRegisters, Record
  <2>2. /\ mode = "automatic" /\ UNCHANGED <<mode, asked, shown, claims, consumed>>
        /\ Fresh # {} /\ issued' = Put(issued, NewToken, r)
    BY <1>2 DEF AutomaticRegisters, IssueFor
  <2>3. asked = {}
    BY <2>2 DEF TokensPlaced
  <2> HIDE DEF v
  <2> QED
    BY <2>1, <2>2, <2>3, PutsRecord
<1>3. CASE HostRegisters(r)
  <2>1. mode = "desktop" /\ UNCHANGED <<mode, shown, claims, consumed, issued>>
    BY <1>3 DEF HostRegisters
  <2>2. CASE r \in DOMAIN records \/ Busy
    <3>1. DOMAIN ExpireAll = DOMAIN records /\ \A q \in DOMAIN records : ExpireAll[q] = Expire(records[q])
      BY DEF ExpireAll
    <3>2. (records' = records \/ records' = ExpireAll) /\ asked' = asked
      BY <1>3, <2>2 DEF HostRegisters, HostAnswer
    <3> QED
      BY <2>1, <3>1, <3>2, ExpiredRecord, LooksAtRecords
  <2>3. CASE r \notin DOMAIN records /\ ~Busy
    <3> DEFINE v == Record("pending", TTL, NoToken)
    <3>1. /\ records' = Put(ExpireAll, r, v) /\ v.token = NoToken
          /\ asked' \subseteq asked \cup {r}
      BY <1>3, <2>3 DEF HostRegisters, Record
    <3>2. /\ DOMAIN records' = DOMAIN records \cup {r} /\ records'[r].token = NoToken
          /\ \A q \in DOMAIN records \ {r} : records'[q] = Expire(records[q])
      BY <3>1 DEF Put, ExpireAll
    <3>3. \A t \in DOMAIN issued : t # NoToken
      BY NoTokenAssumption DEF TokensPlaced
    <3>4. TokensPlaced'
      BY <2>1, <3>1, <3>2, ExpiredRecord DEF TokensPlaced
    <3>5. TokensStay
      BY <2>1, <2>3, <3>2, <3>3, ExpiredRecord DEF TokensStay, Used, Claimable
    <3> QED
      BY <2>1, <3>1, <3>2, <3>4, <3>5 DEF Registered
  <2> QED
    BY <2>2, <2>3
<1> QED
  BY <1>1, <1>2, <1>3 DEF Register

LEMMA IssueMoves ==
  ASSUME TokensPlaced, NEW r, Issue(r)
  PROVE  TokensPlaced' /\ TokensStay /\ Registered({r})
<1>1. /\ mode = "hmac" /\ Fresh # {} /\ UNCHANGED <<mode, records, asked, shown, consumed>>
      /\ issued' = Put(issued, NewToken, r)
      /\ claims' = Put(claims, NewToken, [for |-> r, left |-> TTL])
  BY DEF Issue, IssueFor
<1>2. /\ NewToken \in Tokens /\ NewToken \notin DOMAIN issued /\ DOMAIN records = {}
      /\ DOMAIN issued' = DOMAIN issued \cup {NewToken}
      /\ \A t \in DOMAIN issued : issued'[t] = issued[t]
      /\ issued'[NewToken] = r
      /\ DOMAIN claims' = DOMAIN claims \cup {NewToken}
      /\ \A t \in DOMAIN claims \ {NewToken} : claims'[t] = claims[t]
      /\ claims'[NewToken].for = r
  BY <1>1, NewIsNew DEF TokensPlaced, Put
<1>3. TokensPlaced'
  BY <1>1, <1>2 DEF TokensPlaced
<1>4. TokensStay
  BY <1>1, <1>2 DEF TokensStay, Used, Claimable
<1> QED
  BY <1>1, <1>2, <1>3, <1>4 DEF Registered

LEMMA PollMoves ==
  ASSUME TokensPlaced, NEW r, Poll(r)
  PROVE  TokensPlaced' /\ TokensStay /\ Registered({r})
<1>1. UNCHANGED <<mode, asked, shown, claims, consumed, issued>>
  BY DEF Poll
<1>2. /\ DOMAIN records' \subseteq DOMAIN records
      /\ \A q \in DOMAIN records' :
           records'[q] = records[q] \/ (records'[q] = Expire(records[q]) /\ mode = "desktop")
  BY DEF Poll, Put, Without
<1>3. \A q \in DOMAIN records' :
        \/ records'[q].token = records[q].token /\ records'[q].state = records[q].state
        \/ records'[q].token = NoToken /\ mode # "automatic"
  BY <1>2, ExpiredRecord
<1> QED
  BY <1>1, <1>2, <1>3, LooksAtRecords DEF TokensPlaced

LEMMA ShowMoves ==
  ASSUME TokensPlaced, NEW r, Show(r)
  PROVE  TokensPlaced' /\ TokensStay /\ Registered({r})
BY LooksAtRecords DEF Show, TokensPlaced

LEMMA VerifiesMoves ==
  ASSUME TokensPlaced, NEW r, NEW token, Verifies(r, token)
  PROVE  TokensPlaced' /\ TokensStay /\ Registered({r})
<1>1. UNCHANGED <<mode, asked, shown, claims, issued>> /\ consumed \subseteq consumed'
  BY DEF Verifies
<1>2. CASE mode = "desktop" /\ r \in DOMAIN records /\ token # NoToken /\ Accepts(r, token)
  <2> DEFINE v == Record("used", -1, records[r].token)
  <2>1. records' = Put(records, r, v) /\ v.token = records[r].token /\ v.state = "used"
    BY <1>2 DEF Verifies, Record
  <2>2. consumed' = consumed
    BY <1>2 DEF Verifies
  <2> HIDE DEF v
  <2> QED
    BY <1>1, <1>2, <2>1, <2>2, PutsRecord
<1>3. CASE ~(mode = "desktop" /\ r \in DOMAIN records /\ token # NoToken /\ Accepts(r, token))
  <2>1. /\ DOMAIN records' \subseteq DOMAIN records
        /\ \A q \in DOMAIN records' :
             records'[q] = records[q] \/ (records'[q] = Expire(records[q]) /\ mode = "desktop")
    BY <1>3 DEF Verifies, Put, Without
  <2>2. \A q \in DOMAIN records' :
          \/ records'[q].token = records[q].token /\ records'[q].state = records[q].state
          \/ records'[q].token = NoToken /\ mode # "automatic"
    BY <2>1, ExpiredRecord
  <2> QED
    BY <1>1, <2>1, <2>2, LooksAtRecords DEF TokensPlaced
<1> QED
  BY <1>2, <1>3

LEMMA DecideMoves ==
  ASSUME TokensPlaced, NEW r, NEW yes, Decide(r, yes)
  PROVE  TokensPlaced' /\ TokensStay /\ Registered({r})
<1>1. /\ mode = "desktop" /\ r \in shown /\ shown' = {} /\ asked' \subseteq asked
      /\ UNCHANGED <<mode, claims, consumed>>
  BY DEF Decide, TokensPlaced
<1>2. CASE records' = records /\ issued' = issued
  BY <1>1, <1>2, LooksAtRecords DEF TokensPlaced
<1>3. CASE /\ Fresh # {} /\ IssueFor(r, NewToken)
           /\ records' = Put(records, r, Record("approved", records[r].left, NewToken))
  <2> DEFINE v == Record("approved", records[r].left, NewToken)
  <2>1. records' = Put(records, r, v) /\ v.token = NewToken /\ v.state = "approved"
    BY <1>3 DEF Record
  <2>2. issued' = Put(issued, NewToken, r)
    BY <1>3 DEF IssueFor
  <2> HIDE DEF v
  <2> QED
    BY <1>1, <1>3, <2>1, <2>2, PutsRecord
<1>4. CASE /\ records' = Put(records, r, Record(Decision(r, yes), -1, NoToken))
           /\ issued' = issued
  <2> DEFINE v == Record(Decision(r, yes), -1, NoToken)
  <2>1. records' = Put(records, r, v) /\ v.token = NoToken
    BY <1>4 DEF Record
  <2> HIDE DEF v
  <2> QED
    BY <1>1, <1>4, <2>1, PutsRecord
<1> QED
  BY <1>2, <1>3, <1>4 DEF Decide

LEMMA TickMoves ==
  ASSUME TokensPlaced, NEW r, Tick
  PROVE  TokensPlaced' /\ TokensStay /\ Registered({r})
<1>1. /\ UNCHANGED <<mode, asked, shown, consumed, issued>>
      /\ DOMAIN records' = DOMAIN records
      /\ \A q \in DOMAIN records : records'[q].token = records[q].token /\ records'[q].state = records[q].state
      /\ DOMAIN claims' = DOMAIN claims /\ \A t \in DOMAIN claims : claims'[t].for = claims[t].for
  BY DEF Tick, Record
<1> QED
  BY <1>1, LooksAtRecords DEF TokensPlaced

LEMMA AuthorityMoves ==
  ASSUME TokensPlaced, NEW r, NEW loss, NEW token, NEW yes, Acts(r, loss, token, yes)
  PROVE  TokensPlaced' /\ TokensStay /\ Registered({r})
<1>1. CASE UNCHANGED approvalVars
  BY <1>1, LooksAtRecords DEF approvalVars, TokensPlaced
<1>2. CASE Verify(r, token, loss)
  BY <1>1, <1>2, VerifiesMoves DEF Verify
<1> QED
  BY <1>1, <1>2, RegisterMoves, IssueMoves, PollMoves, ShowMoves, DecideMoves, TickMoves DEF Acts

(* A token that is accepted was issued for this resource and could be used, *)
(* and can be used no more.                                                 *)
LEMMA Accepted ==
  ASSUME TokensPlaced, NEW r, NEW loss, NEW token \in Tokens,
         Verify(r, token, loss), VerifyAnswer(r, token, loss)
  PROVE  /\ token \in DOMAIN issued /\ issued[token] = r
         /\ ~Used(token) \/ Claimable(token)
         /\ Used(token)' /\ ~Claimable(token)'
<1>1. token # NoToken /\ Accepts(r, token) /\ Verifies(r, token)
  BY NoTokenAssumption DEF VerifyAnswer, Verify
<1>2. CASE mode = "desktop"
  <2>1. /\ r \in DOMAIN records /\ records[r].state = "approved" /\ records[r].token = token
        /\ records' = Put(records, r, Record("used", -1, records[r].token))
        /\ claims' = claims
    BY <1>1, <1>2 DEF Accepts, Verifies
  <2>2. DOMAIN records' = DOMAIN records /\ records'[r].state = "used"
        /\ \A q \in DOMAIN records \ {r} : records'[q] = records[q]
    BY <2>1 DEF Put, Record
  <2>3. \A q \in DOMAIN records \ {r} : records[q].token # token
    BY <1>1, <2>1 DEF TokensPlaced
  <2> QED
    BY <1>1, <1>2, <2>1, <2>2, <2>3 DEF TokensPlaced, Used, Claimable
<1>3. CASE mode = "automatic"
  <2>1. /\ r \in DOMAIN records /\ records[r].state = "approved" /\ records[r].token = token
        /\ records' = Without(records, r) /\ claims' = claims
    BY <1>1, <1>3 DEF Accepts, Verifies, TokensPlaced
  <2>2. DOMAIN records' = DOMAIN records \ {r}
        /\ \A q \in DOMAIN records \ {r} : records'[q] = records[q]
    BY <2>1 DEF Without
  <2>3. \A q \in DOMAIN records \ {r} : records[q].token # token
    BY <1>1, <2>1 DEF TokensPlaced
  <2> QED
    BY <1>1, <1>3, <2>1, <2>2, <2>3 DEF TokensPlaced, Used, Claimable
<1>4. CASE mode = "hmac"
  <2>1. /\ Claimable(token) /\ claims[token].for = r /\ claims' = claims
        /\ consumed' = consumed \cup {token} /\ records' = records
    BY <1>1, <1>4 DEF Accepts, Verifies, Claimable
  <2> QED
    BY <1>4, <2>1 DEF TokensPlaced, Used, Claimable
<1> QED
  BY <1>2, <1>3, <1>4 DEF TokensPlaced, Modes

-----------------------------------------------------------------------------
(* Sessions *)

(* Contexts and previews are added for resources of one kind only.          *)
Placed(new) ==
  /\ contexts' \subseteq contexts \cup new /\ pv' \subseteq pv \cup new
  /\ wfp' \subseteq wfp \cup new

LEMMA SessionsKeep ==
  ASSUME SessionsInv, CallFits', UNCHANGED <<sess, use>>,
         use.flow # "none" => pos' \in DOMAIN Nodes,
         NEW new, NEW put, \A r \in new : Begun(r) /\ Known(r[1]), \A r \in put : Begun(r),
         Placed(new), Registered(put),
         \A s \in tainted' : s \in tainted \/ (s \in Sessions /\ Known(s))
  PROVE  SessionsInv'
<1>1. \A r : (Begun(r) => Begun(r)') /\ \A s : Known(s) => Known(s)'
  BY DEF Begun, Known
<1>2. \A r \in contexts' \cup pv' \cup wfp' : Begun(r)'
  BY <1>1 DEF Placed, SessionsInv
<1>3. \A r \in DOMAIN records' \cup asked' \cup shown' : Begun(r)'
  BY <1>1 DEF Registered, SessionsInv
<1>4. (\A t \in DOMAIN issued : Begun(issued[t]))'
  <2>1. \A t \in DOMAIN issued' : Begun(issued'[t])
    BY DEF Registered, SessionsInv
  <2> QED
    BY <2>1 DEF Begun
<1>5. /\ \A r \in contexts' \cup pv' : Known(r[1])'
      /\ \A s \in tainted' : s \in Sessions /\ Known(s)'
  BY <1>1 DEF Placed, SessionsInv
<1>6. Nodes' = Nodes
  BY DEF Nodes
<1> QED
  BY <1>2, <1>3, <1>4, <1>5, <1>6 DEF SessionsInv

(* With the authority and the contexts as they were, or fewer of them.      *)
LEMMA SessionsAlone ==
  ASSUME SessionsInv, CallFits', UNCHANGED <<sess, use, approvalVars>>,
         use.flow # "none" => pos' \in DOMAIN Nodes, Placed({}),
         \A s \in tainted' : s \in tainted \/ (s \in Sessions /\ Known(s))
  PROVE  SessionsInv'
<1>1. Registered({})
  BY DEF Registered, approvalVars
<1> DEFINE none == {}
<1>2. \A r \in none : Begun(r) /\ Known(r[1])
  OBVIOUS
<1>3. Placed(none) /\ Registered(none)
  BY <1>1
<1> HIDE DEF none
<1> QED
  BY <1>2, <1>3, SessionsKeep

(* A call of the authority about one resource that is put down.             *)
LEMMA SessionsAsk ==
  ASSUME SessionsInv, TokensPlaced, CallFits', UNCHANGED <<sess, use, tainted>>,
         use.flow # "none" => pos' \in DOMAIN Nodes,
         NEW r, Begun(r), Known(r[1]), Placed({r}),
         NEW loss, NEW token, NEW yes, Acts(r, loss, token, yes)
  PROVE  SessionsInv'
<1>1. Registered({r})
  BY AuthorityMoves
<1>2. \A s \in tainted' : s \in tainted
  OBVIOUS
<1> DEFINE one == {r}
<1>3. \A q \in one : Begun(q) /\ Known(q[1])
  OBVIOUS
<1>4. Placed(one) /\ Registered(one)
  BY <1>1
<1> HIDE DEF one
<1> QED
  BY <1>2, <1>3, <1>4, SessionsKeep

(* One of a session that is attached.                                       *)
LEMMA OfSession ==
  ASSUME SessionsInv, NEW s \in Sessions, Known(s), NEW p, Shaped(p)
  PROVE  Begun(<<s, p>>) /\ Known(<<s, p>>[1])
BY DEF Begun, Known, DesktopNames

LEMMA ToolShape ==
  ASSUME NEW tool, IsTool(tool), NEW v
  PROVE  Shaped(<<tool, v>>) /\ Row(<<tool, v>>) = tool /\ Shown(<<tool, v>>) = v
BY DEF Shaped, Row, Shown

LEMMA Working == SessionsInv => \A tool \in use.tools : IsTool(tool)
BY UsesAssumption, ToolsAreTools DEF SessionsInv

LEMMA InitSessions == Init => SessionsInv /\ TokensPlaced /\ ChangesInv
<1> SUFFICES ASSUME Init PROVE SessionsInv /\ TokensPlaced /\ ChangesInv
  OBVIOUS
<1>1. use \in Uses /\ (use.flow # "none" => 1 \in DOMAIN Nodes)
  <2>1. use \in Uses
    BY DEF Init, LiveInit
  <2>2. use.flow # "none" => IsFlow(Nodes)
    BY <2>1, UsesAssumption, FlowsAreFlows DEF Nodes
  <2>3. ASSUME NEW f, IsFlow(f) PROVE 1 \in DOMAIN f
    <3>1. PICK S : f \in Seq(S)
      BY <2>3 DEF IsFlow
    <3>2. DOMAIN f = 1 .. Len(f) /\ Len(f) \in Nat
      BY <3>1
    <3> QED
      BY <2>3, <3>2 DEF IsFlow
  <2> QED
    BY <2>1, <2>2, <2>3
<1>2. CallFits
  BY DEF Init, LiveInit, CallFits, NoCall, Call
<1>3. SessionsInv
  BY <1>1, <1>2 DEF Init, LiveInit, ApprovalInit, SessionsInv
<1>4. TokensPlaced
  BY DEF Init, LiveInit, ApprovalInit, TokensPlaced
<1>5. ChangesInv
  BY DEF Init, LiveInit, ChangesInv, NoCall, Call
<1> QED
  BY <1>3, <1>4, <1>5

(* A call of an apply: the token is verified, a context is dropped at most,  *)
(* and when there is a change it is the one that could be made.             *)
LEMMA AppliesFacts ==
  ASSUME NEW s, NEW tool, NEW p, NEW token, NEW loss, NEW ok, Applies(s, tool, p, token, loss, ok)
  PROVE  /\ HasContext(s, p, tool.action) /\ <<s, p>> \in contexts
         /\ Verify(<<s, p>>, token, loss)
         /\ contexts' \subseteq contexts /\ held' \subseteq held
         /\ \E f : Lose(f) \/ Fail(f) \/ faults' = faults
BY DEF Applies, HasContext, WorkerEnds

LEMMA AppliesOrNot ==
  ASSUME NEW s, NEW tool, NEW p, NEW token, NEW loss, NEW ok, Applies(s, tool, p, token, loss, ok)
  PROVE  \/ /\ VerifyAnswer(<<s, p>>, token, loss) /\ CanRun(s, tool, p)
            /\ Runs(tool, token)
         \/ UNCHANGED <<design, ran>> /\ ~ok
BY DEF Applies

LEMMA ToolSessions ==
  ASSUME SessionsInv, TokensPlaced, ToolCall, UNCHANGED graphVars
  PROVE  SessionsInv'
<1>1. ASSUME NEW s \in Sessions, NEW tool \in use.tools, NEW loss \in Losses, PreviewTool(s, tool, loss)
      PROVE  SessionsInv'
  <2>1. Begun(<<s, <<tool, design>>>>) /\ Known(<<s, <<tool, design>>>>[1])
    BY <1>1, Working, ToolShape, OfSession DEF PreviewTool
  <2>2. /\ UNCHANGED <<sess, use, tainted, call, pv, pos, wfp>>
        /\ Register(<<s, <<tool, design>>>>, loss) /\ contexts' \subseteq contexts \cup {<<s, <<tool, design>>>>}
    BY <1>1 DEF PreviewTool, Asks, exploreVars, graphVars
  <2>3. CallFits' /\ Placed({<<s, <<tool, design>>>>}) /\ Acts(<<s, <<tool, design>>>>, loss, NoToken, TRUE)
    BY <2>2 DEF CallFits, Known, Placed, Acts, SessionsInv
  <2> QED
    BY <2>1, <2>2, <2>3, SessionsAsk DEF SessionsInv
<1>2. ASSUME NEW s \in Sessions, NEW tool \in use.tools, NEW loss \in Losses,
             NEW x \in contexts, NEW token \in DOMAIN issued \cup {NoToken},
             x[1] = s, ApplyTool(s, tool, x[2], token, loss)
      PROVE  SessionsInv'
  <2>1. <<s, x[2]>> \in contexts
    BY <1>2 DEF ApplyTool, Applies, HasContext
  <2>2. Begun(<<s, x[2]>>) /\ Known(<<s, x[2]>>[1])
    BY <2>1 DEF SessionsInv
  <2>3. /\ UNCHANGED <<sess, use, tainted, call, pv, pos, wfp>>
        /\ Verify(<<s, x[2]>>, token, loss) /\ contexts' \subseteq contexts
    BY <1>2 DEF ApplyTool, Applies, exploreVars, graphVars
  <2>4. CallFits' /\ Placed({<<s, x[2]>>}) /\ Acts(<<s, x[2]>>, loss, token, TRUE)
    BY <2>3 DEF CallFits, Known, Placed, Acts, SessionsInv
  <2> QED
    BY <2>2, <2>3, <2>4, SessionsAsk DEF SessionsInv
<1> QED
  BY <1>1, <1>2 DEF ToolCall

LEMMA PlanSessions ==
  ASSUME SessionsInv, TokensPlaced, PlanCall, UNCHANGED graphVars
  PROVE  SessionsInv'
<1>1. ASSUME NEW c \in use.plans, Propose(c) \/ Validate(c) \/ Promote(c)
      PROVE  SessionsInv'
  <2>1. /\ UNCHANGED <<sess, use, approvalVars, tainted, contexts, pv, pos, wfp>>
        /\ call' = call \/ call'.at \in {"validated", "failed"}
    BY <1>1 DEF Propose, Validate, Promote, Call, sessionVars, exploreVars, graphVars
  <2>2. CallFits'
    BY <1>1, <2>1 DEF Propose, Validate, Promote, Call, CallFits, Known, SessionsInv
  <2> QED
    BY <2>1, <2>2, SessionsAlone DEF SessionsInv, Placed
<1>2. ASSUME NEW c \in use.plans, NEW s \in Sessions, PreviewPlan(s, c)
      PROVE  SessionsInv'
  <2> DEFINE p == <<explore(c), design>>
  <2>1. Known(s) /\ Shaped(p)
    BY <1>2, ToolsAreTools, ToolShape DEF PreviewPlan
  <2>2. Begun(<<s, p>>) /\ Known(<<s, p>>[1])
    BY <2>1, OfSession
  <2>3. /\ UNCHANGED <<sess, use, approvalVars, tainted, contexts, pos, wfp>>
        /\ pv' \subseteq pv \cup {<<s, p>>}
        /\ call' = Call("previewed", s, p, NoToken) \/ call' = Call("failed", s, p, NoToken)
    BY <1>2 DEF PreviewPlan, graphVars
  <2> HIDE DEF p
  <2>4. CallFits' /\ Placed({<<s, p>>})
    BY <2>1, <2>3 DEF CallFits, Call, Known, Placed
  <2>5. Acts(<<s, p>>, "none", NoToken, TRUE)
    BY <2>3 DEF Acts
  <2> QED
    BY <2>2, <2>3, <2>4, <2>5, SessionsAsk DEF SessionsInv
<1>3. ASSUME NEW x \in pv, NEW loss \in Losses, NEW token, ApplyPlan(x[1], x[2], token, loss)
      PROVE  SessionsInv'
  <2>1. PICK s, p : s = x[1] /\ p = x[2]
    OBVIOUS
  <2>2. ApplyPlan(s, p, token, loss)
    BY <1>3, <2>1
  <2>3. <<s, p>> \in pv
    BY <2>2 DEF ApplyPlan
  <2>4. s \in Sessions /\ Known(s) /\ Shaped(p) /\ Begun(<<s, p>>) /\ Known(<<s, p>>[1])
    BY <2>3 DEF SessionsInv, Begun
  <2>5. /\ UNCHANGED <<sess, use, tainted, contexts, pv, pos, wfp>>
        /\ UNCHANGED approvalVars \/ Verify(<<s, p>>, token, loss)
        /\ \/ call' = Call("execute", s, p, NoToken) \/ call' = Call("authorized", s, p, token)
           \/ call' = NoCall
    BY <2>2 DEF ApplyPlan, exploreVars, graphVars
  <2>6. Placed({<<s, p>>}) /\ Acts(<<s, p>>, loss, token, TRUE)
    BY <2>5 DEF Placed, Acts
  <2>7. CallFits'
    BY <2>4, <2>5 DEF CallFits, NoCall, Call, Known
  <2> QED
    BY <2>4, <2>5, <2>6, <2>7, SessionsAsk DEF SessionsInv
<1>4. ASSUME NEW result \in Outcomes, NEW changed \in BOOLEAN, Execute(result, changed)
      PROVE  SessionsInv'
  <2>1. /\ UNCHANGED <<sess, use, approvalVars, tainted, pos, wfp>>
        /\ contexts' \subseteq contexts /\ pv' \subseteq pv
        /\ call.at = "execute"
        /\ \E at \in {"failed", "stale", "applied"} : call' = [call EXCEPT !.at = at]
    BY <1>4 DEF Execute, Goto, graphVars
  <2>2. CallFits'
    BY <2>1 DEF CallFits, Known, SessionsInv
  <2> QED
    BY <2>1, <2>2, SessionsAlone DEF SessionsInv, Placed
<1>5. ASSUME NEW loss \in Losses, RegisterPlan(loss)
      PROVE  SessionsInv'
  <2>1. PICK s, p : s = call.s /\ p = call.p
    OBVIOUS
  <2>2. s \in Sessions /\ Known(s) /\ Shaped(p)
    BY <1>5, <2>1 DEF RegisterPlan, SessionsInv, CallFits
  <2>3. /\ UNCHANGED <<sess, use, tainted, pos, wfp>>
        /\ Register(<<s, p>>, loss) /\ contexts' \subseteq contexts \cup {<<s, p>>} /\ pv' \subseteq pv
    BY <1>5, <2>1 DEF RegisterPlan, Asks, graphVars
  <2>4. \/ call' = NoCall
        \/ \E at \in {"decided", "rejected", "expired", "failed"} : call' = [call EXCEPT !.at = at]
    BY <1>5 DEF RegisterPlan, AfterAnswer, Goto
  <2>5. CallFits' /\ Placed({<<s, p>>}) /\ Acts(<<s, p>>, loss, NoToken, TRUE)
    BY <2>3, <2>4 DEF CallFits, NoCall, Call, Known, Placed, Acts, SessionsInv
  <2> QED
    BY <2>2, <2>3, <2>5, OfSession, SessionsAsk DEF SessionsInv
<1>6. ASSUME NEW f \in Writes, WriteTrace(f)
      PROVE  SessionsInv'
  <2>1. /\ UNCHANGED <<sess, use, approvalVars, pos, wfp>>
        /\ contexts' \subseteq contexts /\ pv' \subseteq pv
        /\ \A s \in tainted' : s \in tainted \/ (s = call.s /\ call.at = "closed")
    BY <1>6 DEF WriteTrace, graphVars
  <2>2. \/ call' = NoCall
        \/ /\ call.at \in {"previewed", "authorized", "applied"}
           /\ \E at \in {"register", "execute", "closed"} : call' = [call EXCEPT !.at = at]
    BY <1>6 DEF WriteTrace, NextStep, Goto
  <2>3. CallFits'
    BY <2>1, <2>2 DEF CallFits, NoCall, Call, Known, SessionsInv
  <2>4. \A s \in tainted' : s \in tainted \/ (s \in Sessions /\ Known(s))
    BY <2>1 DEF SessionsInv, CallFits
  <2> QED
    BY <2>1, <2>3, <2>4, SessionsAlone DEF SessionsInv, Placed
<1> QED
  BY <1>1, <1>2, <1>3, <1>4, <1>5, <1>6 DEF PlanCall

LEMMA OtherSessions ==
  ASSUME SessionsInv, TokensPlaced, UNCHANGED graphVars, SessionCall, ~ToolCall, ~PlanCall
  PROVE  SessionsInv'
<1>1. ASSUME NEW s \in Sessions, Attach(s)
      PROVE  SessionsInv'
  <2>1. /\ sess[s] = "new" /\ s \in DOMAIN use.attached
        /\ sess' = [sess EXCEPT ![s] = use.attached[s]]
        /\ UNCHANGED <<approvalVars, contexts, pv, tainted, use, call, graphVars>>
    BY <1>1 DEF Attach, exploreVars
  <2>2. use.attached[s] \in DesktopNames
    BY <2>1, UsesAssumption DEF SessionsInv
  <2>3. /\ sess' \in [Sessions -> DesktopNames \cup {"new", "gone"}]
        /\ \A q \in Sessions : /\ sess[q] # "new" => sess'[q] # "new"
                               /\ Known(q) => sess'[q] \in DesktopNames
    BY <2>1, <2>2 DEF SessionsInv, Known, DesktopNames
  <2>4. \A r : Begun(r) => Begun(r)'
    BY <2>3 DEF Begun
  <2>5. (\A r \in contexts \cup pv \cup wfp \cup DOMAIN records \cup asked \cup shown : Begun(r))'
    BY <2>1, <2>4 DEF SessionsInv, approvalVars, graphVars
  <2>6. (\A t \in DOMAIN issued : Begun(issued[t]))'
    BY <2>1, <2>4 DEF SessionsInv, approvalVars, Begun
  <2>7. /\ (\A r \in contexts \cup pv : Known(r[1]))'
        /\ (\A q \in tainted : q \in Sessions /\ Known(q))'
    <3>1. \A r \in contexts \cup pv : r[1] \in Sessions
      BY DEF SessionsInv, Begun
    <3> QED
      BY <2>1, <2>3, <3>1 DEF SessionsInv, Known
  <2>8. CallFits'
    BY <2>1, <2>3 DEF CallFits, SessionsInv, Known
  <2>9. use' \in Uses /\ (use'.flow # "none" => pos' \in DOMAIN Nodes')
    BY <2>1 DEF SessionsInv, Nodes, graphVars
  <2> QED
    BY <2>3, <2>5, <2>6, <2>7, <2>8, <2>9 DEF SessionsInv
<1>2. ASSUME NEW s \in Sessions, NEW f \in Writes, Release(s, f)
      PROVE  SessionsInv'
  <2>1. /\ sess' = [q \in Sessions |-> IF Known(q) THEN "gone" ELSE sess[q]]
        /\ contexts' = {r \in contexts : r[1] \notin Released}
        /\ pv' = {r \in pv : r[1] \notin Released}
        /\ tainted' = tainted \ Released
        /\ UNCHANGED <<approvalVars, use, call, graphVars>> /\ call.at = "idle"
    BY <1>2 DEF Release, Released, Forgotten, Idle
  <2>2. /\ sess' \in [Sessions -> DesktopNames \cup {"new", "gone"}]
        /\ \A q \in Sessions : sess[q] # "new" => sess'[q] # "new"
    BY <2>1 DEF SessionsInv
  <2>3. contexts' = {} /\ pv' = {} /\ tainted' = {}
    BY <2>1 DEF SessionsInv, Begun, Released
  <2>4. \A r : Begun(r) => Begun(r)'
    BY <2>2 DEF Begun
  <2>5. (\A r \in contexts \cup pv \cup wfp \cup DOMAIN records \cup asked \cup shown : Begun(r))'
    BY <2>1, <2>3, <2>4 DEF SessionsInv, approvalVars, graphVars
  <2>6. (\A t \in DOMAIN issued : Begun(issued[t]))'
    BY <2>1, <2>4 DEF SessionsInv, approvalVars, Begun
  <2>7. CallFits'
    BY <2>1 DEF CallFits, SessionsInv
  <2>8. use' \in Uses /\ (use'.flow # "none" => pos' \in DOMAIN Nodes')
    BY <2>1 DEF SessionsInv, Nodes, graphVars
  <2> QED
    BY <2>2, <2>3, <2>5, <2>6, <2>7, <2>8 DEF SessionsInv
<1>3. ASSUME NEW x \in contexts, Wait(x[1], x[2])
      PROVE  SessionsInv'
  <2>1. PICK s, p : s = x[1] /\ p = x[2]
    OBVIOUS
  <2>2. Wait(s, p) /\ <<s, p>> \in contexts
    BY <1>3, <2>1 DEF Wait
  <2>3. Begun(<<s, p>>) /\ Known(<<s, p>>[1])
    BY <2>2 DEF SessionsInv
  <2>4. /\ UNCHANGED <<sess, use, tainted, contexts, pv, pos, wfp>> /\ Poll(<<s, p>>)
        /\ \/ call' = NoCall
           \/ \E at \in {"decided", "rejected", "expired", "failed"} : call' = Call(at, s, p, NoToken)
    BY <2>2 DEF Wait, AfterAnswer, sessionVars, exploreVars, graphVars
  <2>5. CallFits' /\ Placed({<<s, p>>}) /\ Acts(<<s, p>>, "none", NoToken, TRUE)
    BY <2>4 DEF CallFits, NoCall, Call, Placed, Acts
  <2> QED
    BY <2>3, <2>4, <2>5, SessionsAsk DEF SessionsInv
<1>4. ASSUME Edit \/ \E s \in Sessions, tool \in ReadTools \cup DirectTools : Unanswered(s, tool)
      PROVE  SessionsInv'
  <2>1. UNCHANGED <<sess, use, approvalVars, tainted, contexts, pv, pos, wfp, call>>
    BY <1>4 DEF Edit, Unanswered, WorkerEnds, exploreVars, graphVars
  <2>2. CallFits'
    BY <2>1 DEF CallFits, Known, SessionsInv
  <2> QED
    BY <2>1, <2>2, SessionsAlone DEF SessionsInv, Placed
<1> QED
  BY <1>1, <1>2, <1>3, <1>4 DEF SessionCall

LEMMA FlowSessions ==
  ASSUME SessionsInv, TokensPlaced, FlowCall
  PROVE  SessionsInv'
<1>1. ASSUME NEW s \in Sessions, NEW loss \in Losses, PreviewStart(s, loss) \/ PreviewAdvance(s, loss)
      PROVE  SessionsInv'
  <2>1. PICK p : p \in {<<start, focus>>, <<advance, turn>>} /\ Previews(s, p, loss) /\ Known(s)
    BY <1>1 DEF PreviewStart, PreviewAdvance
  <2>2. Shaped(p)
    BY <2>1, ToolsAreTools, ToolShape
  <2>3. Begun(<<s, p>>) /\ Known(<<s, p>>[1])
    BY <2>1, <2>2, OfSession
  <2>4. /\ UNCHANGED <<sess, use, tainted, call, pv, pos>> /\ Register(<<s, p>>, loss)
        /\ contexts' \subseteq contexts \cup {<<s, p>>} /\ wfp' = wfp \cup {<<s, p>>}
    BY <2>1 DEF Previews, Asks, exploreVars
  <2>5. CallFits' /\ Placed({<<s, p>>}) /\ Acts(<<s, p>>, loss, NoToken, TRUE)
    BY <2>4 DEF CallFits, Known, Placed, Acts, SessionsInv
  <2> QED
    BY <2>3, <2>4, <2>5, SessionsAsk DEF SessionsInv
<1>2. ASSUME NEW x \in wfp, NEW loss \in Losses, NEW token, NEW opToken, use.flow # "none",
             \/ ApplyStart(x[1], token, loss) \/ ApplyAdvance(x[1], x[2], token, opToken, loss)
      PROVE  SessionsInv'
  <2>1. PICK s, p : /\ s = x[1] /\ p \in {<<start, focus>>, x[2]} /\ <<s, p>> \in contexts
                    /\ Authorizes(s, p, token, loss)
    BY <1>2 DEF ApplyStart, ApplyAdvance, Authorizes, HasContext
  <2>2. s \in Sessions /\ Begun(<<s, p>>) /\ Known(<<s, p>>[1])
    BY <1>2, <2>1 DEF SessionsInv, Begun
  <2>3. /\ UNCHANGED <<sess, use, tainted, pv, pos>> /\ Verify(<<s, p>>, token, loss)
        /\ contexts' \subseteq contexts /\ wfp' \subseteq wfp
    BY <1>2, <2>1 DEF ApplyStart, ApplyAdvance, Authorizes, exploreVars
  <2>4. \/ call' = call
        \/ \E q : call' = [Call("node", s, q, token) EXCEPT !.op = opToken]
    BY <1>2, <2>1 DEF ApplyStart, ApplyAdvance
  <2>5. CallFits'
    BY <1>2, <2>2, <2>3, <2>4 DEF CallFits, Call, Known, SessionsInv
  <2>6. Placed({<<s, p>>}) /\ Acts(<<s, p>>, loss, token, TRUE)
    BY <2>3 DEF Placed, Acts
  <2> QED
    BY <2>2, <2>3, <2>5, <2>6, SessionsAsk DEF SessionsInv
<1> QED
  BY <1>1, <1>2 DEF FlowCall

LEMMA FlowWorks ==
  ASSUME SessionsInv, use.flow # "none"
  PROVE  /\ Len(Nodes) \in Nat /\ pos \in 1 .. Len(Nodes) /\ DOMAIN Nodes = 1 .. Len(Nodes)
         /\ \A i \in DOMAIN Nodes : IsWork(Nodes[i].tool)
<1>1. IsFlow(Nodes) /\ pos \in DOMAIN Nodes
  BY UsesAssumption, FlowsAreFlows DEF Nodes, SessionsInv
<1>2. PICK f : f = Nodes
  OBVIOUS
<1>3. PICK S : f \in Seq(S)
  BY <1>1, <1>2 DEF IsFlow
<1>4. DOMAIN f = 1 .. Len(f) /\ Len(f) \in Nat
  BY <1>3
<1> QED
  BY <1>1, <1>2, <1>4 DEF IsFlow

LEMMA ReadyIsNode == SessionsInv /\ use.flow # "none" => IsTool(Ready.tool)
BY FlowWorks DEF Ready, IsWork

LEMMA NodeSessions ==
  ASSUME SessionsInv, TokensPlaced, RunNode \/ RecordNode
  PROVE  SessionsInv'
<1>1. ASSUME NodeFails \/ ReadNode \/ PollNode \/ ScoreNode
      PROVE  SessionsInv'
  <2>1. /\ UNCHANGED <<sess, use, approvalVars, tainted, contexts, pv, pos, wfp>>
        /\ \E at \in {"node_done", "node_again", "node_ended", "node_failed"} : call' = [call EXCEPT !.at = at]
    BY <1>1 DEF NodeFails, WorkerEnds, ReadNode, PollNode, ScoreNode, Goto, sessionVars, exploreVars, graphVars
  <2>2. CallFits'
    BY <2>1 DEF CallFits, Known, SessionsInv
  <2> QED
    BY <2>1, <2>2, SessionsAlone DEF SessionsInv, Placed
<1>2. ASSUME NEW loss \in Losses, PreviewNode(loss)
      PROVE  SessionsInv'
  <2>1. PICK s, p : s = call.s /\ p = <<Ready.tool, design>>
    OBVIOUS
  <2>2. s \in Sessions /\ Known(s) /\ use.flow # "none"
    BY <1>2, <2>1 DEF PreviewNode, SessionsInv, CallFits
  <2>3. Begun(<<s, p>>) /\ Known(<<s, p>>[1])
    BY <2>1, <2>2, ReadyIsNode, ToolShape, OfSession
  <2>4. /\ UNCHANGED <<sess, use, tainted, pv, pos, wfp>> /\ Register(<<s, p>>, loss)
        /\ contexts' \subseteq contexts \cup {<<s, p>>}
        /\ \E at \in {"node_done", "node_failed"} : call' = [call EXCEPT !.at = at]
    BY <1>2, <2>1 DEF PreviewNode, Asks, Goto, exploreVars
  <2>5. CallFits' /\ Placed({<<s, p>>}) /\ Acts(<<s, p>>, loss, NoToken, TRUE)
    BY <2>4 DEF CallFits, Known, Placed, Acts, SessionsInv
  <2> QED
    BY <2>3, <2>4, <2>5, SessionsAsk DEF SessionsInv
<1>3. ASSUME NEW loss \in Losses, ApplyNode(loss)
      PROVE  SessionsInv'
  <2>1. PICK s : s = call.s /\ <<s, op>> \in contexts
    BY <1>3 DEF ApplyNode, Applies, HasContext
  <2>2. Begun(<<s, op>>) /\ Known(<<s, op>>[1])
    BY <2>1 DEF SessionsInv
  <2>3. /\ UNCHANGED <<sess, use, tainted, pv, pos, wfp>> /\ Verify(<<s, op>>, call.op, loss)
        /\ contexts' \subseteq contexts
        /\ \E at \in {"node_done", "node_failed"} : call' = [call EXCEPT !.at = at]
    BY <1>3, <2>1 DEF ApplyNode, Applies, Ended, Goto, exploreVars, graphVars
  <2>4. CallFits' /\ Placed({<<s, op>>}) /\ Acts(<<s, op>>, loss, call.op, TRUE)
    BY <2>3 DEF CallFits, Known, Placed, Acts, SessionsInv
  <2> QED
    BY <2>2, <2>3, <2>4, SessionsAsk DEF SessionsInv
<1>4. ASSUME RecordNode
      PROVE  SessionsInv'
  <2>1. /\ UNCHANGED <<sess, use, approvalVars, tainted, contexts, pv>>
        /\ wfp' \subseteq wfp /\ call' = NoCall
        /\ pos' = pos \/ (pos' = pos + 1 /\ pos < Len(Nodes))
    BY <1>4 DEF RecordNode, sessionVars, exploreVars
  <2>2. CallFits'
    BY <2>1 DEF CallFits, NoCall, Call
  <2>3. use.flow # "none" => pos' \in DOMAIN Nodes
    <3>1. use.flow # "none" => IsFlow(Nodes) /\ pos \in DOMAIN Nodes
      BY UsesAssumption, FlowsAreFlows DEF Nodes, SessionsInv
    <3>2. ASSUME NEW f, IsFlow(f) PROVE DOMAIN f = 1 .. Len(f) /\ Len(f) \in Nat
      <4>1. PICK S : f \in Seq(S)
        BY <3>2 DEF IsFlow
      <4> QED
        BY <4>1
    <3>3. PICK f : f = Nodes
      OBVIOUS
    <3> QED
      BY <2>1, <3>1, <3>2, <3>3
  <2> QED
    BY <2>1, <2>2, <2>3, SessionsAlone DEF SessionsInv, Placed
<1> QED
  BY <1>1, <1>2, <1>3, <1>4 DEF RunNode

(* The person and the clock; a question may outlive its session.            *)
LEMMA PersonSessions ==
  ASSUME SessionsInv, TokensPlaced, Person \/ Tick,
         UNCHANGED <<sessionVars, exploreVars, call, graphVars>>
  PROVE  SessionsInv'
<1>1. PICK put : (\A r \in put : Begun(r)) /\ Registered(put)
  <2>1. CASE Tick
    <3> DEFINE none == {}
    <3>1. (\A r \in none : Begun(r)) /\ Registered(none)
      BY <2>1 DEF Tick, Registered
    <3> HIDE DEF none
    <3> QED
      BY <3>1
  <2>2. CASE Person
    <3>1. PICK r : /\ r \in asked \cup shown \cup contexts
                   /\ Show(r) \/ Issue(r) \/ \E yes \in BOOLEAN : Decide(r, yes)
      BY <2>2 DEF Person
    <3> DEFINE one == {r}
    <3>2. (\A q \in one : Begun(q)) /\ Registered(one)
      BY <3>1, ShowMoves, IssueMoves, DecideMoves DEF SessionsInv
    <3> HIDE DEF one
    <3> QED
      BY <3>2
  <2> QED
    BY <2>1, <2>2
<1>2. CallFits'
  BY DEF CallFits, Known, SessionsInv, sessionVars
<1> DEFINE none == {}
<1>3. (\A r \in none : Begun(r) /\ Known(r[1])) /\ Placed(none)
  BY DEF Placed, sessionVars, exploreVars, graphVars
<1>4. /\ UNCHANGED <<sess, use, pos, tainted>>
      /\ \A s \in tainted' : s \in tainted
  BY DEF sessionVars, exploreVars, graphVars
<1> HIDE DEF none
<1> QED
  BY <1>1, <1>2, <1>3, <1>4, SessionsKeep DEF SessionsInv

(* The end of the process.                                                  *)
LEMMA EndsSessions ==
  ASSUME SessionsInv, Ends, pos' = pos, wfp' = {}, call' = NoCall \/ (Idle /\ call' = call)
  PROVE  SessionsInv'
<1>1. /\ sess' = [s \in Sessions |-> IF Known(s) THEN "gone" ELSE sess[s]]
      /\ contexts' = {} /\ pv' = {} /\ tainted' = {}
      /\ DOMAIN records' \subseteq DOMAIN records
      /\ UNCHANGED <<asked, shown, issued, use>>
  BY DEF Ends
<1>2. /\ sess' \in [Sessions -> DesktopNames \cup {"new", "gone"}]
      /\ \A q \in Sessions : sess[q] # "new" => sess'[q] # "new"
  BY <1>1 DEF SessionsInv
<1>3. \A r : Begun(r) => Begun(r)'
  BY <1>2 DEF Begun
<1>4. (\A r \in contexts \cup pv \cup wfp \cup DOMAIN records \cup asked \cup shown : Begun(r))'
  BY <1>1, <1>3 DEF SessionsInv
<1>5. (\A t \in DOMAIN issued : Begun(issued[t]))'
  BY <1>1, <1>3 DEF SessionsInv, Begun
<1>6. CallFits'
  BY DEF CallFits, SessionsInv, NoCall, Call, Idle
<1>7. use' \in Uses /\ (use'.flow # "none" => pos' \in DOMAIN Nodes')
  BY <1>1 DEF SessionsInv, Nodes
<1> QED
  BY <1>1, <1>2, <1>4, <1>5, <1>6, <1>7 DEF SessionsInv

LEMMA StepSessions ==
  ASSUME SessionsInv, TokensPlaced, [Next]_vars
  PROVE  SessionsInv'
<1>1. CASE SessionCall /\ UNCHANGED graphVars
  BY <1>1, ToolSessions, PlanSessions, OtherSessions
<1>2. CASE FlowCall \/ RunNode \/ RecordNode
  BY <1>2, FlowSessions, NodeSessions
<1>3. ASSUME NEW f, Close(f), wfp' = {}, UNCHANGED <<graph, pos, turn, op, bound, focus>>
      PROVE  SessionsInv'
  BY <1>3, EndsSessions DEF Close
<1>4. CASE Stop
  BY <1>4, EndsSessions DEF Stop, Crash
<1>5. CASE (Person \/ Tick) /\ UNCHANGED <<sessionVars, exploreVars, call, graphVars>>
  BY <1>5, PersonSessions
<1>6. CASE Switch \/ UNCHANGED vars
  <2>1. UNCHANGED <<sess, use, approvalVars, tainted, contexts, pv, pos, wfp, call>>
    BY <1>6 DEF Switch, vars, liveVars, sessionVars, exploreVars, graphVars
  <2>2. CallFits'
    BY <2>1 DEF CallFits, Known, SessionsInv
  <2> QED
    BY <2>1, <2>2, SessionsAlone DEF SessionsInv, Placed
<1> QED
  BY <1>1, <1>2, <1>3, <1>4, <1>5, <1>6 DEF Next

-----------------------------------------------------------------------------
(* Tokens *)

LEMMA ActsOf ==
  ASSUME NEW r, NEW loss, NEW token, NEW yes \in BOOLEAN,
         \/ Register(r, loss) \/ Issue(r) \/ Poll(r) \/ Show(r)
         \/ Verify(r, token, loss) \/ Decide(r, yes) \/ Tick
         \/ UNCHANGED approvalVars
  PROVE  \E q, l, t : \E y \in BOOLEAN : Acts(q, l, t, y)
BY DEF Acts

(* Every step is one call of the authority, or the end of the process.      *)
LEMMA OneAct ==
  ASSUME [Next]_vars
  PROVE  Ends \/ \E r, loss, token : \E yes \in BOOLEAN : Acts(r, loss, token, yes)
<1> DEFINE Goal == \E r, loss, token : \E yes \in BOOLEAN : Acts(r, loss, token, yes)
<1>1. ASSUME UNCHANGED approvalVars PROVE Goal
  BY <1>1, ActsOf
<1>2. ASSUME NEW r, NEW loss, Register(r, loss) PROVE Goal
  BY <1>2, ActsOf
<1>3. ASSUME NEW r, NEW token, NEW loss, Verify(r, token, loss) PROVE Goal
  BY <1>3, ActsOf
<1>4. ASSUME NEW r, Poll(r) \/ Show(r) \/ Issue(r) \/ \E yes \in BOOLEAN : Decide(r, yes) PROVE Goal
  BY <1>4, ActsOf
<1>5. ASSUME Tick PROVE Goal
  BY <1>5, ActsOf
<1> SUFFICES Ends \/ Goal
  OBVIOUS
<1> HIDE DEF Goal
<1>6. CASE ToolCall
  <2>1. ASSUME NEW s, NEW tool, NEW loss, PreviewTool(s, tool, loss) PROVE Goal
    BY <2>1, <1>2 DEF PreviewTool, Asks
  <2>2. ASSUME NEW s, NEW tool, NEW p, NEW token, NEW loss, ApplyTool(s, tool, p, token, loss) PROVE Goal
    BY <2>2, <1>3 DEF ApplyTool, Applies
  <2> QED
    BY <1>6, <2>1, <2>2 DEF ToolCall
<1>7. CASE PlanCall
  <2>1. ASSUME NEW c, Propose(c) \/ Validate(c) \/ Promote(c) \/ \E s \in Sessions : PreviewPlan(s, c)
        PROVE  UNCHANGED approvalVars
    BY <2>1 DEF Propose, Validate, Promote, PreviewPlan
  <2>2. ASSUME NEW s, NEW p, NEW token, NEW loss, ApplyPlan(s, p, token, loss) PROVE Goal
    <3>1. UNCHANGED approvalVars \/ Verify(<<s, p>>, token, loss)
      BY <2>2 DEF ApplyPlan
    <3> QED
      BY <3>1, <1>1, <1>3
  <2>3. ASSUME NEW result, NEW changed, Execute(result, changed) PROVE UNCHANGED approvalVars
    BY <2>3 DEF Execute
  <2>4. ASSUME NEW f, WriteTrace(f) PROVE UNCHANGED approvalVars
    BY <2>4 DEF WriteTrace
  <2>5. ASSUME NEW loss, RegisterPlan(loss) PROVE Goal
    BY <2>5, <1>2 DEF RegisterPlan, Asks
  <2> QED
    BY <1>1, <1>7, <2>1, <2>2, <2>3, <2>4, <2>5 DEF PlanCall
<1>8. CASE SessionCall /\ ~ToolCall /\ ~PlanCall
  <2>1. ASSUME NEW s, NEW p, Wait(s, p) PROVE Goal
    BY <2>1, <1>4 DEF Wait
  <2>2. ASSUME \/ \E s \in Sessions : Attach(s)
               \/ \E s \in Sessions, f \in Writes : Release(s, f)
               \/ \E s \in Sessions, tool \in ReadTools \cup DirectTools : Unanswered(s, tool)
               \/ Edit
        PROVE  UNCHANGED approvalVars
    BY <2>2 DEF Attach, Release, Unanswered, WorkerEnds, Edit
  <2> QED
    BY <1>1, <1>8, <2>1, <2>2 DEF SessionCall
<1>9. CASE FlowCall
  <2>1. ASSUME NEW s, NEW loss, PreviewStart(s, loss) \/ PreviewAdvance(s, loss) PROVE Goal
    BY <2>1, <1>2 DEF PreviewStart, PreviewAdvance, Previews, Asks
  <2>2. ASSUME NEW s, NEW token, NEW loss, ApplyStart(s, token, loss) PROVE Goal
    BY <2>2, <1>3 DEF ApplyStart, Authorizes
  <2>3. ASSUME NEW s, NEW p, NEW token, NEW opToken, NEW loss, ApplyAdvance(s, p, token, opToken, loss)
        PROVE  Goal
    BY <2>3, <1>3 DEF ApplyAdvance, Authorizes
  <2> QED
    BY <1>9, <2>1, <2>2, <2>3 DEF FlowCall
<1>10. CASE RunNode \/ RecordNode
  <2>1. ASSUME NodeFails \/ ReadNode \/ PollNode \/ ScoreNode \/ RecordNode PROVE UNCHANGED approvalVars
    BY <2>1 DEF NodeFails, WorkerEnds, ReadNode, PollNode, ScoreNode, RecordNode
  <2>2. ASSUME NEW loss, PreviewNode(loss) PROVE Goal
    BY <2>2, <1>2 DEF PreviewNode, Asks
  <2>3. ASSUME NEW loss, ApplyNode(loss) PROVE Goal
    BY <2>3, <1>3 DEF ApplyNode, Applies
  <2> QED
    BY <1>1, <1>10, <2>1, <2>2, <2>3 DEF RunNode
<1>11. CASE Person
  BY <1>4, <1>11 DEF Person
<1>12. CASE Switch \/ UNCHANGED vars
  BY <1>1, <1>12 DEF Switch, vars, liveVars
<1> QED
  BY <1>5, <1>6, <1>7, <1>8, <1>9, <1>10, <1>11, <1>12 DEF Next, Close, Stop, Crash

(* The end of the process: the automatic authority forgets its records, the *)
(* HMAC authority which tokens it has accepted.                             *)
LEMMA EndsTokens ==
  ASSUME TokensPlaced, Ends
  PROVE  TokensPlaced' /\ UNCHANGED issued /\ \A t : Used(t) => Used(t)'
BY DEF Ends, TokensPlaced, Used

LEMMA StepTokens ==
  ASSUME TokensPlaced, [Next]_vars
  PROVE  TokensPlaced'
BY OneAct, EndsTokens, AuthorityMoves

(* A session that is over stays over.                                       *)
LEMMA ToolsOnly ==
  ASSUME ToolCall
  PROVE  Idle /\ call' = call /\ sess' = sess
<1>1. \A s, tool, p, token, loss :
        PreviewTool(s, tool, loss) \/ ApplyTool(s, tool, p, token, loss) =>
          Idle /\ call' = call /\ sess' = sess
  BY DEF PreviewTool, ApplyTool, Applies
<1> QED
  BY <1>1 DEF ToolCall

LEMMA SessionMoves ==
  ASSUME [Next]_vars
  PROVE  \/ sess' = sess
         \/ \E q \in Sessions : Attach(q)
         \/ \E q \in Sessions, f \in Writes : Release(q, f)
         \/ Ends
<1>1. ToolCall => sess' = sess
  BY ToolsOnly
<1>2. PlanCall => sess' = sess
  <2>1. \A c, q, p, token, loss :
          Propose(c) \/ Validate(c) \/ Promote(c) \/ PreviewPlan(q, c)
            \/ ApplyPlan(q, p, token, loss) => sess' = sess
    BY DEF Propose, Validate, Promote, PreviewPlan, ApplyPlan, sessionVars
  <2>2. \A f, result, changed :
          RegisterPlan(f) \/ WriteTrace(f) \/ Execute(result, changed) => sess' = sess
    BY DEF RegisterPlan, WriteTrace, Execute
  <2> QED
    BY <2>1, <2>2 DEF PlanCall
<1>3. ASSUME \/ Edit \/ \E x \in contexts : Wait(x[1], x[2])
             \/ \E q \in Sessions, tool \in ReadTools \cup DirectTools : Unanswered(q, tool)
      PROVE  sess' = sess
  BY <1>3 DEF Edit, Wait, Unanswered, WorkerEnds, sessionVars
<1>4. FlowCall => sess' = sess
  <2>1. \A q, p, token, opToken, loss :
          PreviewStart(q, loss) \/ PreviewAdvance(q, loss) \/ ApplyStart(q, token, loss)
            \/ ApplyAdvance(q, p, token, opToken, loss) => sess' = sess
    BY DEF PreviewStart, PreviewAdvance, Previews, ApplyStart, ApplyAdvance
  <2> QED
    BY <2>1 DEF FlowCall
<1>5. RunNode \/ RecordNode => sess' = sess
  BY DEF RunNode, NodeFails, WorkerEnds, ReadNode, PreviewNode, ApplyNode, Applies, PollNode, ScoreNode, RecordNode,
         sessionVars
<1>6. Switch \/ UNCHANGED vars => sess' = sess
  BY DEF Switch, vars, liveVars, sessionVars
<1> QED
  BY <1>1, <1>2, <1>3, <1>4, <1>5, <1>6 DEF Next, SessionCall, Close, Stop, Crash, sessionVars

LEMMA GoneStays ==
  ASSUME SessionsInv, [Next]_vars, NEW s \in Sessions, sess[s] = "gone"
  PROVE  sess'[s] = "gone"
BY SessionMoves DEF Attach, Release, Ends, Released, Known, DesktopNames, SessionsInv

(* What is spent stays spent.                                               *)
LEMMA SpentStays ==
  ASSUME SessionsInv, TokensPlaced, [Next]_vars, NEW t, Spent(t)
  PROVE  Spent(t)' /\ issued'[t] = issued[t]
<1>1. t \in DOMAIN issued /\ Begun(issued[t])
  BY DEF Spent, SessionsInv
<1>2. CASE Ends
  <2>1. sess'[issued[t][1]] = "gone"
    BY <1>1, <1>2 DEF Ends, Begun, Known, SessionsInv
  <2> QED
    BY <1>1, <1>2, <2>1, EndsTokens DEF Spent
<1>3. ASSUME NEW r, NEW loss, NEW token, NEW yes, Acts(r, loss, token, yes)
      PROVE  Spent(t)' /\ issued'[t] = issued[t]
  <2>1. TokensStay
    BY <1>3, AuthorityMoves
  <2>2. /\ t \in DOMAIN issued' /\ issued'[t] = issued[t] /\ Used(t)'
        /\ Claimable(t)' => Claimable(t)
    BY <1>1, <2>1 DEF TokensStay, Spent
  <2>3. Claimable(t)' => sess'[issued[t][1]] = "gone"
    BY <1>1, <2>2, GoneStays DEF Spent, Begun
  <2> QED
    BY <2>2, <2>3 DEF Spent
<1> QED
  BY <1>2, <1>3, OneAct

-----------------------------------------------------------------------------
(* Changes *)

Owed == {"authorized", "execute"}

(* A change is made under a token that is accepted in the same step, or by  *)
(* the execution of a plan under the token that was accepted for it.        *)
AcceptedFor(s, p, token, loss) ==
  /\ s \in Sessions /\ Known(s)
  /\ Verify(<<s, p>>, token, loss) /\ VerifyAnswer(<<s, p>>, token, loss)

ChangeStep ==
  \/ ran' = ran
  \/ \E s, p, token, loss :
       /\ AcceptedFor(s, p, token, loss) /\ call'.at \notin Owed
       /\ ran' = [ran EXCEPT ![token] = Append(@, p)]
  \/ /\ call.at = "execute" /\ call'.at \notin Owed /\ issued' = issued
     /\ ran' = [ran EXCEPT ![call.token] = Append(@, call.p)]

(* What backend and context agree on is the preview of the question.        *)
LEMMA RunsWhatWasShown ==
  ASSUME SessionsInv, NEW s, NEW tool, NEW p, IsTool(tool),
         HasContext(s, p, tool.action), CanRun(s, tool, p)
  PROVE  p = <<tool, design>> /\ s \in Sessions /\ Known(s)
<1>1. Shaped(p) /\ s \in Sessions /\ Known(s)
  BY DEF HasContext, SessionsInv, Begun
<1>2. p = <<p[1], p[2]>> /\ IsTool(p[1])
  BY <1>1 DEF Shaped
<1>3. p[1] = tool
  BY <1>2 DEF HasContext, CanRun, Row, IsTool
<1>4. p[2] = design
  BY DEF CanRun, Shown
<1> QED
  BY <1>1, <1>2, <1>3, <1>4

LEMMA OneChange == ASSUME SessionsInv, [Next]_vars PROVE ChangeStep
<1>1. CASE ToolCall
  <2>1. ASSUME NEW s, NEW tool, NEW loss, PreviewTool(s, tool, loss) PROVE ran' = ran
    BY <2>1 DEF PreviewTool
  <2>2. ASSUME NEW s, NEW tool \in use.tools, NEW p, NEW token, NEW loss, ApplyTool(s, tool, p, token, loss)
        PROVE  ChangeStep
    <3>1. CASE ran' = ran
      BY <3>1 DEF ChangeStep
    <3>2. CASE VerifyAnswer(<<s, p>>, token, loss) /\ CanRun(s, tool, p) /\ Runs(tool, token)
      <4>1. p = <<tool, design>> /\ s \in Sessions /\ Known(s)
        BY <2>2, <3>2, Working, AppliesFacts, RunsWhatWasShown DEF ApplyTool
      <4>2. ran' = [ran EXCEPT ![token] = Append(@, p)]
        BY <3>2, <4>1 DEF Runs
      <4>3. call'.at \notin Owed
        BY <2>2 DEF ApplyTool, Applies, Idle, Owed
      <4> QED
        BY <2>2, <3>2, <4>1, <4>2, <4>3, AppliesFacts DEF ApplyTool, AcceptedFor, ChangeStep
    <3> QED
      BY <2>2, <3>1, <3>2, AppliesOrNot DEF ApplyTool
  <2> QED
    BY <1>1, <2>1, <2>2 DEF ToolCall, ChangeStep
<1>2. CASE PlanCall
  <2>1. ASSUME NEW result, NEW changed, Execute(result, changed)
        PROVE  ChangeStep
    <3>1. CASE ~changed
      BY <2>1, <3>1 DEF Execute, ChangeStep
    <3>2. CASE changed
      <4>1. /\ call.at = "execute" /\ Shown(call.p) = design
            /\ ran' = [ran EXCEPT ![call.token] = Append(@, <<Row(call.p), design>>)]
        BY <2>1, <3>2 DEF Execute
      <4>2. call.p = <<Row(call.p), design>>
        BY <4>1 DEF SessionsInv, CallFits, Shaped, Row, Shown
      <4>3. call'.at \notin Owed
        BY <2>1 DEF Execute, Goto, Owed, SessionsInv, CallFits
      <4>4. issued' = issued
        BY <2>1 DEF Execute, approvalVars
      <4> QED
        BY <4>1, <4>2, <4>3, <4>4 DEF ChangeStep
    <3> QED
      BY <3>1, <3>2
  <2>2. ASSUME \/ \E c \in use.plans : Propose(c) \/ Validate(c) \/ Promote(c)
                                       \/ \E s \in Sessions : PreviewPlan(s, c)
               \/ \E x \in pv, loss \in Losses :
                    \E token \in OwnTokens(x) : ApplyPlan(x[1], x[2], token, loss)
               \/ \E loss \in Losses : RegisterPlan(loss)
               \/ \E f \in Writes : WriteTrace(f)
        PROVE  ran' = ran
    BY <2>2 DEF Propose, Validate, Promote, PreviewPlan, ApplyPlan, RegisterPlan, WriteTrace, sessionVars
  <2> QED
    BY <1>2, <2>1, <2>2 DEF PlanCall, ChangeStep
<1>3. CASE SessionCall /\ ~ToolCall /\ ~PlanCall
  <2>1. ran' = ran
    BY <1>3 DEF SessionCall, Attach, Release, Wait, Unanswered, WorkerEnds, Edit, sessionVars
  <2> QED
    BY <2>1 DEF ChangeStep
<1>4. CASE FlowCall
  <2>1. ASSUME NEW s, NEW loss, PreviewStart(s, loss) \/ PreviewAdvance(s, loss) PROVE ran' = ran
    BY <2>1 DEF PreviewStart, PreviewAdvance, Previews
  <2>2. ASSUME NEW s, NEW token, NEW loss, ApplyStart(s, token, loss) PROVE ChangeStep
    <3> DEFINE p == <<start, focus>>
    <3>1. /\ Known(s) /\ <<s, p>> \in contexts /\ Verify(<<s, p>>, token, loss) /\ call'.at \notin Owed
          /\ \/ ran' = ran
             \/ VerifyAnswer(<<s, p>>, token, loss) /\ ran' = [ran EXCEPT ![token] = Append(@, p)]
      BY <2>2 DEF ApplyStart, Authorizes, HasContext, Idle, Owed
    <3>2. s \in Sessions
      BY <3>1 DEF SessionsInv, Begun
    <3> HIDE DEF p
    <3> QED
      BY <3>1, <3>2 DEF AcceptedFor, ChangeStep
  <2>3. ASSUME NEW s, NEW p, NEW token, NEW opToken, NEW loss, ApplyAdvance(s, p, token, opToken, loss)
        PROVE  ChangeStep
    <3>1. /\ Known(s) /\ <<s, p>> \in contexts /\ Verify(<<s, p>>, token, loss) /\ SameState(p)
          /\ \/ ran' = ran
             \/ /\ VerifyAnswer(<<s, p>>, token, loss)
                /\ ran' = [ran EXCEPT ![token] = Append(@, <<advance, turn>>)]
      BY <2>3 DEF ApplyAdvance, Authorizes, HasContext
    <3>2. s \in Sessions /\ p = <<advance, turn>>
      BY <3>1 DEF SessionsInv, Begun, Shaped, SameState, Row, Shown
    <3>3. call'.at \notin Owed
      BY <2>3 DEF ApplyAdvance, Idle, Owed, Call
    <3> QED
      BY <3>1, <3>2, <3>3 DEF AcceptedFor, ChangeStep
  <2> QED
    BY <1>4, <2>1, <2>2, <2>3 DEF FlowCall, ChangeStep
<1>5. CASE RunNode \/ RecordNode
  <2>1. ASSUME NodeFails \/ ReadNode \/ PollNode \/ ScoreNode \/ RecordNode
               \/ \E loss \in Losses : PreviewNode(loss)
        PROVE  ran' = ran
    BY <2>1 DEF NodeFails, WorkerEnds, ReadNode, PollNode, ScoreNode, RecordNode, PreviewNode, sessionVars
  <2>2. ASSUME NEW loss, ApplyNode(loss) PROVE ChangeStep
    <3>1. PICK s : s = call.s
      OBVIOUS
    <3>2. /\ HasContext(s, op, Ready.tool.action) /\ Verify(<<s, op>>, call.op, loss)
          /\ \/ ran' = ran
             \/ /\ VerifyAnswer(<<s, op>>, call.op, loss) /\ CanRun(s, Ready.tool, op)
                /\ ran' = [ran EXCEPT ![call.op] = Append(@, <<Ready.tool, design>>)]
      BY <2>2, <3>1, AppliesFacts, AppliesOrNot DEF ApplyNode, Runs
    <3>3. IsTool(Ready.tool)
      BY <2>2, ReadyIsNode DEF ApplyNode, Applies, SessionsInv, CallFits
    <3>4. CanRun(s, Ready.tool, op) => op = <<Ready.tool, design>> /\ s \in Sessions /\ Known(s)
      BY <3>2, <3>3, RunsWhatWasShown
    <3>5. call'.at \notin Owed
      BY <2>2 DEF ApplyNode, Applies, Ended, Goto, Owed, SessionsInv, CallFits
    <3> QED
      BY <3>2, <3>4, <3>5 DEF AcceptedFor, ChangeStep
  <2> QED
    BY <1>5, <2>1, <2>2 DEF RunNode, ChangeStep
<1>6. CASE \/ (Person \/ Tick) /\ UNCHANGED <<sessionVars, exploreVars, call, graphVars>>
           \/ Switch \/ Stop \/ (\E f \in Writes : Close(f)) \/ UNCHANGED vars
  <2>1. ran' = ran
    BY <1>6 DEF Switch, Stop, Crash, Close, Ends, vars, liveVars, sessionVars
  <2> QED
    BY <2>1 DEF ChangeStep
<1> QED
  BY <1>1, <1>2, <1>3, <1>4, <1>5, <1>6 DEF Next

(* A call owes a change once its token was accepted, and until it is made.  *)
LEMMA OneCall ==
  ASSUME SessionsInv, [Next]_vars, call'.at \in Owed, call'.token \in Tokens
  PROVE  /\ ran' = ran
         /\ \/ call.at \in Owed /\ call'.token = call.token /\ call'.s = call.s /\ call'.p = call.p
            \/ \E s, p, token, loss : /\ AcceptedFor(s, p, token, loss)
                                      /\ call'.s = s /\ call'.p = p /\ call'.token = token
<1> DEFINE Goal == /\ ran' = ran
                   /\ \/ /\ call.at \in Owed /\ call'.token = call.token
                         /\ call'.s = call.s /\ call'.p = call.p
                      \/ \E s, p, token, loss : /\ AcceptedFor(s, p, token, loss)
                                                /\ call'.s = s /\ call'.p = p /\ call'.token = token
<1> SUFFICES Goal
  OBVIOUS
<1>1. ASSUME call' = call, ran' = ran PROVE Goal
  BY <1>1
<1> HIDE DEF Goal
<1>2. ToolCall => Goal
  <2>1. ToolCall => call' = call /\ Idle
    BY ToolsOnly
  <2> QED
    BY <2>1 DEF Idle, Owed
<1>3. CASE PlanCall
  <2>1. ASSUME NEW c \in use.plans,
               Propose(c) \/ Validate(c) \/ Promote(c) \/ \E s \in Sessions : PreviewPlan(s, c)
        PROVE  FALSE
    BY <2>1 DEF Propose, Validate, Promote, PreviewPlan, Idle, Owed, Call
  <2>2. ASSUME NEW s, NEW p, NEW token, NEW loss, ApplyPlan(s, p, token, loss)
        PROVE  Goal
    <3>1. <<s, p>> \in pv /\ Known(s) /\ ran' = ran
      BY <2>2 DEF ApplyPlan
    <3>2. s \in Sessions
      BY <3>1 DEF SessionsInv, Begun
    <3>3. /\ Verify(<<s, p>>, token, loss) /\ VerifyAnswer(<<s, p>>, token, loss)
          /\ call' = Call("authorized", s, p, token)
      BY <2>2, NoTokenAssumption DEF ApplyPlan, Call, NoCall, Owed
    <3> QED
      BY <3>1, <3>2, <3>3 DEF AcceptedFor, Call, Goal
  <2>3. ASSUME \/ \E result \in Outcomes, changed \in BOOLEAN : Execute(result, changed)
               \/ \E loss \in Losses : RegisterPlan(loss)
        PROVE  FALSE
    BY <2>3 DEF Execute, RegisterPlan, AfterAnswer, Goto, NoCall, Call, Owed, SessionsInv, CallFits
  <2>4. ASSUME NEW f, WriteTrace(f)
        PROVE  Goal
    <3>1. /\ ran' = ran
          /\ \/ call' = NoCall
             \/ /\ call.at \in {"previewed", "authorized", "applied"}
                /\ call' = [call EXCEPT !.at = NextStep(call.at, Plan(call.p))]
      BY <2>4 DEF WriteTrace, NextStep, Goto
    <3>2. call.at = "authorized" /\ call' = [call EXCEPT !.at = "execute"]
      BY <3>1 DEF NextStep, NoCall, Call, Owed, SessionsInv, CallFits
    <3> QED
      BY <3>1, <3>2 DEF Goal, Owed, SessionsInv, CallFits
  <2> QED
    BY <1>3, <2>1, <2>2, <2>3, <2>4 DEF PlanCall
<1>4. CASE SessionCall /\ ~ToolCall /\ ~PlanCall
  <2>1. ASSUME NEW x \in contexts, Wait(x[1], x[2])
        PROVE  FALSE
    BY <2>1 DEF Wait, AfterAnswer, Call, NoCall, Owed
  <2>2. ASSUME \/ Edit \/ \E s \in Sessions : Attach(s)
               \/ \E s \in Sessions, f \in Writes : Release(s, f)
               \/ \E s \in Sessions, tool \in ReadTools \cup DirectTools : Unanswered(s, tool)
        PROVE  call' = call /\ ran' = ran
    BY <2>2 DEF Edit, Attach, Release, Unanswered, WorkerEnds
  <2> QED
    BY <1>1, <1>4, <2>1, <2>2 DEF SessionCall
<1>5. FlowCall \/ RunNode \/ RecordNode => Goal
  <2>1. ~FlowCall
    <3>1. Idle => call.at \notin Owed
      BY DEF Idle, Owed
    <3>2. \A s, loss : ~(PreviewStart(s, loss) \/ PreviewAdvance(s, loss))
      BY <3>1 DEF PreviewStart, PreviewAdvance, Previews
    <3>3. \A s, token, loss : ~ApplyStart(s, token, loss)
      BY <3>1 DEF ApplyStart
    <3>4. \A s, p, token, opToken, loss : ~ApplyAdvance(s, p, token, opToken, loss)
      BY <3>1 DEF ApplyAdvance, Call, Owed
    <3> QED
      BY <3>2, <3>3, <3>4 DEF FlowCall
  <2>2. ~RunNode
    <3>1. call = [at |-> call.at, s |-> call.s, p |-> call.p, token |-> call.token, op |-> call.op]
      BY DEF SessionsInv, CallFits
    <3>2. \A at : Goto(at) => call'.at = at
      BY <3>1 DEF Goto
    <3>3. ~(NodeFails \/ ReadNode \/ PollNode \/ ScoreNode)
      BY <3>2 DEF NodeFails, WorkerEnds, ReadNode, PollNode, ScoreNode, Owed
    <3>4. \A loss : ~PreviewNode(loss)
      BY <3>2 DEF PreviewNode, Owed
    <3>5. \A loss : ~ApplyNode(loss)
      BY <3>2 DEF ApplyNode, Applies, Ended, Owed
    <3> QED
      BY <3>3, <3>4, <3>5 DEF RunNode
  <2>3. ~RecordNode
    BY DEF RecordNode, NoCall, Call, Owed
  <2> QED
    BY <2>1, <2>2, <2>3
<1>6. CASE \/ (Person \/ Tick) /\ UNCHANGED <<sessionVars, exploreVars, call, graphVars>>
           \/ Switch \/ UNCHANGED vars
  <2>1. call' = call /\ ran' = ran
    BY <1>6 DEF Switch, vars, liveVars, sessionVars
  <2> QED
    BY <1>1, <2>1
<1>7. ASSUME Stop \/ \E f \in Writes : Close(f) PROVE FALSE
  <2>1. ASSUME NEW f, Close(f) PROVE FALSE
    BY <2>1 DEF Close, Idle, Owed
  <2>2. ~Stop
    BY DEF Stop, Crash, NoCall, Call, Owed
  <2> QED
    BY <1>7, <2>1, <2>2
<1> QED
  BY <1>2, <1>3, <1>4, <1>5, <1>6, <1>7 DEF Next

LEMMA FirstChange == ASSUME NEW x PROVE Append(<< >>, x) = <<x>>
OBVIOUS

(* A token that was accepted before is not accepted again: its session would *)
(* have to be there.                                                        *)
LEMMA AcceptedIsNotSpent ==
  ASSUME TokensPlaced, NEW s, NEW p, NEW token \in Tokens, NEW loss, AcceptedFor(s, p, token, loss)
  PROVE  ~Spent(token)
<1>1. /\ issued[token] = <<s, p>> /\ sess[s] # "gone"
      /\ ~Used(token) \/ Claimable(token)
  BY Accepted DEF AcceptedFor, Known, DesktopNames
<1> QED
  BY <1>1 DEF Spent

LEMMA AcceptedIsSpent ==
  ASSUME TokensPlaced, NEW s, NEW p, NEW token \in Tokens, NEW loss, AcceptedFor(s, p, token, loss)
  PROVE  Spent(token)' /\ issued'[token] = <<s, p>>
<1>1. /\ token \in DOMAIN issued /\ issued[token] = <<s, p>>
      /\ Used(token)' /\ ~Claimable(token)'
  BY Accepted DEF AcceptedFor
<1>2. PICK r : r = <<s, p>>
  OBVIOUS
<1>3. Acts(r, loss, token, TRUE)
  BY <1>2 DEF Acts, AcceptedFor
<1>4. TokensStay
  BY <1>3, AuthorityMoves
<1> QED
  BY <1>1, <1>4 DEF TokensStay, Spent

LEMMA StepChanges ==
  ASSUME SessionsInv, TokensPlaced, ChangesInv, [Next]_vars
  PROVE  ChangesInv'
<1>1. ran = [t \in Tokens |-> ran[t]]
  BY DEF ChangesInv
<1>2. ASSUME NEW t \in Tokens, ran[t] # << >>
      PROVE  ran[t] = <<issued'[t][2]>> /\ Spent(t)'
  BY <1>2, SpentStays DEF ChangesInv
<1>3. ran' = [t \in Tokens |-> ran'[t]]
  BY <1>1, OneChange DEF ChangeStep
<1>4. ASSUME NEW t \in Tokens, ran'[t] # << >>
      PROVE  ran'[t] = <<issued'[t][2]>> /\ Spent(t)'
  <2>1. CASE ran'[t] = ran[t]
    BY <1>2, <1>4, <2>1
  <2>2. ASSUME NEW s, NEW p, NEW token, NEW loss, AcceptedFor(s, p, token, loss),
               ran' = [ran EXCEPT ![token] = Append(@, p)], ran'[t] # ran[t]
        PROVE  ran'[t] = <<issued'[t][2]>> /\ Spent(t)'
    <3>1. token = t /\ ran'[t] = Append(ran[t], p)
      BY <1>1, <2>2
    <3>2. ran[t] = << >>
      BY <2>2, <3>1, AcceptedIsNotSpent DEF ChangesInv
    <3>3. Spent(t)' /\ issued'[t] = <<s, p>>
      BY <2>2, <3>1, AcceptedIsSpent
    <3> QED
      BY <3>1, <3>2, <3>3, FirstChange
  <2>3. ASSUME call.at = "execute", ran' = [ran EXCEPT ![call.token] = Append(@, call.p)], ran'[t] # ran[t]
        PROVE  ran'[t] = <<issued'[t][2]>> /\ Spent(t)'
    <3>1. call.token = t /\ ran'[t] = Append(ran[t], call.p)
      BY <1>1, <2>3
    <3>2. Spent(t) /\ ran[t] = << >> /\ issued[t] = <<call.s, call.p>>
      BY <2>3, <3>1 DEF ChangesInv
    <3>3. Spent(t)' /\ issued'[t] = issued[t]
      BY <3>2, SpentStays
    <3> QED
      BY <3>1, <3>2, <3>3, FirstChange
  <2> QED
    BY <2>1, <2>2, <2>3, OneChange DEF ChangeStep
<1>5. ASSUME call'.at \in Owed, call'.token \in Tokens
      PROVE  (/\ Spent(call.token) /\ ran[call.token] = << >>
              /\ issued[call.token] = <<call.s, call.p>>)'
  <2>1. PICK t, s, p : t \in Tokens /\ t = call'.token /\ s = call'.s /\ p = call'.p
    BY <1>5
  <2>2. /\ ran' = ran
        /\ \/ call.at \in Owed /\ t = call.token /\ s = call.s /\ p = call.p
           \/ \E loss : AcceptedFor(s, p, t, loss)
    BY <1>5, <2>1, OneCall
  <2>3. CASE call.at \in Owed /\ t = call.token /\ s = call.s /\ p = call.p
    <3>1. Spent(t) /\ ran[t] = << >> /\ issued[t] = <<s, p>>
      BY <2>1, <2>3 DEF ChangesInv, Owed
    <3>2. Spent(t)' /\ issued'[t] = issued[t]
      BY <3>1, SpentStays
    <3> QED
      BY <2>1, <2>2, <3>1, <3>2
  <2>4. ASSUME NEW loss, AcceptedFor(s, p, t, loss)
        PROVE  Spent(t)' /\ ran'[t] = << >> /\ issued'[t] = <<s, p>>
    <3>1. ran[t] = << >>
      BY <2>1, <2>4, AcceptedIsNotSpent DEF ChangesInv
    <3> QED
      BY <2>1, <2>2, <2>4, <3>1, AcceptedIsSpent
  <2> QED
    BY <2>1, <2>2, <2>3, <2>4
<1> QED
  BY <1>3, <1>4, <1>5 DEF ChangesInv, Owed

-----------------------------------------------------------------------------
(* The theorems                                                             *)

LEMMA InvariantStep == IInv /\ [Next]_vars => IInv'
BY StepSessions, StepTokens, StepChanges DEF IInv

(* The inductive invariant of the sessions, the tokens and the changes holds *)
(* for every table of uses and every number of sessions, plans and tokens.   *)
THEOREM Invariance == Spec => []IInv
<1>1. Init => IInv
  BY InitSessions DEF IInv
<1> QED
  BY <1>1, InvariantStep, PTL DEF Spec

(* A token makes one change at most, and that change is the one its question *)
(* showed, over repeated previews, edits of the design, released sessions,   *)
(* lost answers and ends of the process.                                     *)
THEOREM ChangesAreApproved == Spec => []ApprovedChanges
<1>1. IInv => ApprovedChanges
  <2> SUFFICES ASSUME IInv, NEW t \in Tokens, ran[t] # << >>
               PROVE  Len(ran[t]) = 1 /\ t \in DOMAIN issued /\ issued[t][2] = ran[t][1]
    BY DEF ApprovedChanges
  <2>1. ran[t] = <<issued[t][2]>> /\ Spent(t)
    BY DEF IInv, ChangesInv
  <2> QED
    BY <2>1 DEF Spent
<1> QED
  BY <1>1, Invariance, PTL

(* A release leaves nothing of any session of the desktop behind that could  *)
(* be applied or waited for, and no session tainted.                         *)
THEOREM ReleaseForgets == Spec => []ReleasedForgotten
<1>1. IInv => ReleasedForgotten
  BY DEF IInv, SessionsInv, ReleasedForgotten
<1> QED
  BY <1>1, Invariance, PTL

LEMMA HostKeeps == HostInv /\ [Next]_vars => HostInv'
<1> SUFFICES ASSUME HostInv, [Next]_vars PROVE HostInv'
  OBVIOUS
<1>1. CASE Ends
  BY <1>1 DEF Ends, HostInv, Live, Open
<1>2. ASSUME NEW r, NEW loss, NEW token, NEW yes \in BOOLEAN, Acts(r, loss, token, yes)
      PROVE  HostInv'
  BY <1>2, HostStep DEF Acts
<1> QED
  BY <1>1, <1>2, OneAct

(* One question or unused approval at a time, also with everything the       *)
(* manager, the workflows and the end of the process do to the host.         *)
THEOREM HostAsksOneByOne == Spec => []OneQuestion
<1>1. Init => HostInv
  BY InitHost DEF Init, LiveInit
<1> QED
  BY <1>1, HostKeeps, HostHasOneQuestion, PTL DEF Spec

---------------------------------------------------------------------------
(* What the trace of a plan tells: TraceInv.                               *)

(* A step that fails no less, and ends the process no less often.           *)
Counts ==
  /\ faults' \in Nat /\ (faults' = 0 => faults = 0)
  /\ stops' \in Nat /\ (stops' = 0 => stops = 0)
  /\ DOMAIN cand' = Plans /\ DOMAIN trace' = Plans /\ DOMAIN outcome' = Plans

(* Nothing that is said of a plan changes.                                  *)
Alone(c) ==
  /\ trace'[c] = trace[c] /\ cand'[c] = cand[c] /\ outcome'[c] = outcome[c]
  /\ c \in promoted' => c \in promoted
  /\ PreviewsOf(c)' = PreviewsOf(c)
  /\ CallOf(c) \/ CallOf(c)' => call' = call

LEMMA StaysTold ==
  ASSUME NEW c, TraceOf(c), Counts, Alone(c)
  PROVE  TraceOf(c)'
<1>1. PlanInv(c)'
  BY DEF TraceOf, PlanInv, Counts, Alone, CallOf, ThisCall
<1>2. CallInv(c)'
  BY DEF TraceOf, CallInv, Counts, Alone, CallOf, ThisCall
<1>3. FaultlessInv(c)'
  BY DEF TraceOf, FaultlessInv, Counts, Alone, CallOf, ThisCall
<1> QED
  BY <1>1, <1>2, <1>3 DEF TraceOf, Counts, Alone

LEMMA Countings ==
  ASSUME TraceInv, NEW f
  PROVE  /\ Lose(f) \/ Fail(f) => faults' \in Nat /\ (faults' = 0 => faults = 0)
         /\ Fail(f) /\ f # "ok" => faults' # 0
BY DEF Lose, Fail, TraceInv

(* A step of something else.                                                *)
LEMMA ElseTold ==
  ASSUME TraceInv, UNCHANGED <<pv, cand, trace, outcome, promoted>>,
         faults' \in Nat /\ (faults' = 0 => faults = 0), stops' = stops,
         call' = call \/ (call.at \notin PlanSteps /\ call'.at \notin PlanSteps)
  PROVE  TraceInv'
<1>1. Counts
  BY DEF Counts, TraceInv
<1>2. \A c : Alone(c)
  BY DEF Alone, CallOf, PreviewsOf
<1>3. \A c \in Plans : TraceOf(c)'
  BY <1>1, <1>2, StaysTold DEF TraceInv
<1> QED
  BY <1>1, <1>3 DEF TraceInv, Counts

LEMMA CallSteps ==
  ASSUME SessionsInv, NEW at, Goto(at)
  PROVE  call'.at = at /\ call'.p = call.p /\ call'.s = call.s
<1>1. call = [at |-> call.at, s |-> call.s, p |-> call.p, token |-> call.token, op |-> call.op]
  BY DEF SessionsInv, CallFits
<1> QED
  BY <1>1 DEF Goto

LEMMA OtherSteps ==
  /\ "idle" \notin PlanSteps
  /\ \A at \in NodeSteps : at \notin PlanSteps
BY DEF PlanSteps, NodeSteps, WriteSteps

(* The tools, the flows, the person, the clock and the user.                *)
LEMMA ToolTold ==
  ASSUME TraceInv, ToolCall, UNCHANGED graphVars
  PROVE  TraceInv'
<1>1. /\ UNCHANGED <<pv, cand, trace, outcome, promoted, stops, call>>
      /\ \E f : Lose(f) \/ Fail(f) \/ faults' = faults
  <2>1. \A s, tool, loss : PreviewTool(s, tool, loss) =>
          UNCHANGED <<pv, cand, trace, outcome, promoted, stops, call>> /\ Lose(loss)
    BY DEF PreviewTool, exploreVars
  <2>2. \A s, tool, p, token, loss : ApplyTool(s, tool, p, token, loss) =>
          /\ UNCHANGED <<pv, cand, trace, outcome, promoted, stops, call>>
          /\ \E f : Lose(f) \/ Fail(f) \/ faults' = faults
    BY AppliesFacts DEF ApplyTool, exploreVars
  <2> QED
    BY <2>1, <2>2 DEF ToolCall
<1>2. faults' \in Nat /\ (faults' = 0 => faults = 0)
  BY <1>1, Countings DEF TraceInv
<1> QED
  BY <1>1, <1>2, ElseTold

LEMMA FlowTold ==
  ASSUME SessionsInv, TraceInv, FlowCall \/ RunNode \/ RecordNode
  PROVE  TraceInv'
<1>1. CASE FlowCall
  <2>1. PICK loss : /\ UNCHANGED <<pv, cand, trace, outcome, promoted, stops>> /\ Lose(loss)
                    /\ Idle /\ (call' = call \/ call'.at = "node")
    <3>1. \A s, loss : PreviewStart(s, loss) \/ PreviewAdvance(s, loss) =>
            /\ UNCHANGED <<pv, cand, trace, outcome, promoted, stops, call>> /\ Lose(loss) /\ Idle
      BY DEF PreviewStart, PreviewAdvance, Previews, exploreVars
    <3>2. \A s, token, loss : ApplyStart(s, token, loss) =>
            /\ UNCHANGED <<pv, cand, trace, outcome, promoted, stops, call>> /\ Lose(loss) /\ Idle
      BY DEF ApplyStart, Authorizes, exploreVars
    <3>3. \A s, p, token, opToken, loss : ApplyAdvance(s, p, token, opToken, loss) =>
            /\ UNCHANGED <<pv, cand, trace, outcome, promoted, stops>> /\ Lose(loss) /\ Idle
            /\ call' = call \/ call'.at = "node"
      BY DEF ApplyAdvance, Authorizes, exploreVars, Call
    <3> QED
      BY <1>1, <3>1, <3>2, <3>3 DEF FlowCall
  <2>2. call.at \notin PlanSteps /\ (call'.at = "node" => call'.at \notin PlanSteps)
    BY <2>1, OtherSteps DEF Idle, NodeSteps
  <2> QED
    BY <2>1, <2>2, Countings, ElseTold
<1>2. CASE RunNode
  <2>1. /\ UNCHANGED <<pv, cand, trace, outcome, promoted, stops>>
        /\ call.at = "node" /\ call'.at \in NodeSteps
        /\ \E f : Lose(f) \/ Fail(f) \/ faults' = faults
    <3>1. NodeFails \/ ReadNode \/ PollNode \/ ScoreNode =>
            /\ UNCHANGED <<pv, cand, trace, outcome, promoted, stops>>
            /\ call.at = "node" /\ call'.at \in NodeSteps
            /\ \E f : Fail(f) \/ faults' = faults
      BY CallSteps DEF NodeFails, WorkerEnds, ReadNode, PollNode, ScoreNode, NodeSteps, exploreVars, sessionVars
    <3>2. \A loss : PreviewNode(loss) =>
            /\ UNCHANGED <<pv, cand, trace, outcome, promoted, stops>>
            /\ call.at = "node" /\ call'.at \in NodeSteps /\ Lose(loss)
      BY CallSteps DEF PreviewNode, NodeSteps, exploreVars
    <3>3. \A loss : ApplyNode(loss) =>
            /\ UNCHANGED <<pv, cand, trace, outcome, promoted, stops>>
            /\ call.at = "node" /\ call'.at \in NodeSteps
            /\ \E f : Lose(f) \/ Fail(f) \/ faults' = faults
      BY CallSteps, AppliesFacts DEF ApplyNode, NodeSteps, Ended, exploreVars
    <3> QED
      BY <1>2, <3>1, <3>2, <3>3 DEF RunNode
  <2>2. faults' \in Nat /\ (faults' = 0 => faults = 0)
    BY <2>1, Countings DEF TraceInv
  <2>3. call.at \notin PlanSteps /\ call'.at \notin PlanSteps
    BY <2>1, OtherSteps DEF NodeSteps
  <2> QED
    BY <2>1, <2>2, <2>3, ElseTold
<1>3. CASE RecordNode
  <2>1. /\ UNCHANGED <<pv, cand, trace, outcome, promoted, stops, faults>>
        /\ call.at \in NodeSteps /\ call'.at = "idle"
    BY <1>3 DEF RecordNode, exploreVars, sessionVars, NoCall, Call
  <2> QED
    BY <2>1, OtherSteps, ElseTold DEF TraceInv
<1> QED
  BY <1>1, <1>2, <1>3

LEMMA PersonTold ==
  ASSUME TraceInv,
         \/ (Person \/ Tick) /\ UNCHANGED <<sessionVars, exploreVars, call, graphVars>>
         \/ Switch \/ UNCHANGED vars
  PROVE  TraceInv'
<1>1. UNCHANGED <<pv, cand, trace, outcome, promoted, stops, faults, call>>
  BY DEF Switch, vars, liveVars, sessionVars, exploreVars
<1> QED
  BY <1>1, ElseTold DEF TraceInv

LEMMA PlanOf == ASSUME NEW c, NEW v PROVE Plan(<<explore(c), v>>) = c /\ Row(<<explore(c), v>>) = explore(c)
BY DEF Plan, Row, explore, Guarded

LEMMA Previewed ==
  ASSUME NEW c, NEW r
  PROVE  /\ pv' = pv => PreviewsOf(c)' = PreviewsOf(c)
         /\ pv' = {} => PreviewsOf(c)' = {}
         /\ pv' = pv \cup {r} =>
              PreviewsOf(c)' = IF Plan(r[2]) = c THEN PreviewsOf(c) \cup {r} ELSE PreviewsOf(c)
         /\ pv' = pv \ {r} => PreviewsOf(c)' = PreviewsOf(c) \ {r}
         /\ Plan(r[2]) # c => r \notin PreviewsOf(c)
         /\ r \in pv /\ Plan(r[2]) = c => r \in PreviewsOf(c)
<1> DEFINE P(q) == Plan(q[2]) = c
<1>1. PreviewsOf(c) = {x \in pv : P(x)} /\ PreviewsOf(c)' = {x \in pv' : P(x)}
  BY DEF PreviewsOf, Plan, Row
<1> QED
  BY <1>1

(* The table of states, by what a state can be reached from.                *)
LEMMA MovesTable ==
  ASSUME NEW from \in DOMAIN Moves
  PROVE  /\ "validated" \in Moves[from] <=> from = "proposed"
         /\ "previewed" \in Moves[from] <=> from = "validated"
         /\ "approved" \in Moves[from] <=> from = "previewed"
         /\ "applied" \in Moves[from] <=> from \in {"previewed", "approved"}
         /\ "expired" \in Moves[from] <=> from \in {"previewed", "approved"}
         /\ "rejected" \in Moves[from] <=> from \in {"proposed", "validated", "previewed"}
         /\ "failed" \in Moves[from] <=>
              from \in {"proposed", "validated", "previewed", "approved", "applied"}
         /\ \A to \in Finals : to \in Moves[from] <=> from = "applied"
         /\ Moves[from] \subseteq DOMAIN Moves
BY DEF Moves, Finals

LEMMA ProposeTold ==
  ASSUME TraceInv, NEW d, Propose(d)
  PROVE  TraceInv'
<1>1. Counts
  BY DEF Propose, TraceInv, Counts, sessionVars
<1>2. Idle /\ call' = call /\ pv' = pv /\ promoted' = promoted
  BY DEF Propose
<1>3. \A c : ~CallOf(c) /\ ~CallOf(c)'
  BY <1>2, OtherSteps DEF Idle, CallOf
<1>4. ASSUME NEW c \in Plans PROVE TraceOf(c)'
  <2>0. TraceOf(c) /\ PreviewsOf(c)' = PreviewsOf(c)
    BY <1>2, Previewed DEF TraceInv
  <2>1. CASE c # d
    <3>1. Alone(c)
      BY <1>2, <1>3, <2>0, <2>1 DEF Propose, Alone, TraceInv
    <3> QED
      BY <1>1, <2>0, <3>1, StaysTold
  <2>2. CASE c = d
    <3>1. /\ cand[c] = "none" /\ cand'[c] = "proposed" /\ trace'[c] = "proposed" /\ outcome' = outcome
      BY <2>2 DEF Propose, TraceInv
    <3>2. PlanInv(c)'
      BY <1>2, <1>3, <2>0, <3>1 DEF TraceOf, PlanInv, Early, Finals, Moves
    <3>3. FaultlessInv(c)'
      BY <1>2, <1>3, <2>0, <3>1 DEF TraceOf, PlanInv, FaultlessInv, Early
    <3> QED
      BY <1>3, <3>1, <3>2, <3>3 DEF TraceOf, CallInv
  <2> QED
    BY <2>1, <2>2
<1> QED
  BY <1>1, <1>4 DEF TraceInv, Counts

LEMMA ValidateTold ==
  ASSUME TraceInv, NEW d, Validate(d)
  PROVE  TraceInv'
<1>1. Counts
  BY DEF Validate, TraceInv, Counts, sessionVars, exploreVars
<1>2. /\ Idle /\ UNCHANGED <<pv, promoted, cand, trace, outcome, faults, stops>> /\ cand[d] = "proposed"
      /\ call'.at \in {"validated", "failed"} /\ Plan(call'.p) = d
  BY PlanOf DEF Validate, sessionVars, exploreVars, Call
<1>3. \A c : ~CallOf(c) /\ (CallOf(c)' => c = d)
  BY <1>2, OtherSteps DEF Idle, CallOf, Plan, Row
<1>4. ASSUME NEW c \in Plans PROVE TraceOf(c)'
  <2>0. TraceOf(c) /\ PreviewsOf(c)' = PreviewsOf(c)
    BY <1>2, Previewed DEF TraceInv
  <2>1. CASE c # d
    <3>1. Alone(c)
      BY <1>2, <1>3, <2>0, <2>1 DEF Alone
    <3> QED
      BY <1>1, <2>0, <3>1, StaysTold
  <2>2. CASE c = d
    <3>1. PreviewsOf(c) = {} /\ outcome[c] = "none"
      BY <1>2, <1>3, <2>0, <2>2 DEF TraceOf, PlanInv, Early
    <3>2. PlanInv(c)'
      BY <1>2, <1>3, <2>0, <2>2, <3>1 DEF TraceOf, PlanInv, Early
    <3>3. FaultlessInv(c)'
      BY <1>2, <1>3, <2>0, <2>2, <3>1 DEF TraceOf, FaultlessInv
    <3>4. CallInv(c)'
      BY <1>2, <2>0, <2>2, <3>1 DEF CallInv
    <3> QED
      BY <1>2, <2>0, <3>2, <3>3, <3>4 DEF TraceOf
  <2> QED
    BY <2>1, <2>2
<1> QED
  BY <1>1, <1>4 DEF TraceInv, Counts

LEMMA PreviewTold ==
  ASSUME TraceInv, NEW d, NEW s, PreviewPlan(s, d)
  PROVE  TraceInv'
<1>1. Counts
  BY DEF PreviewPlan, TraceInv, Counts
<1>2. PICK r : /\ Idle /\ UNCHANGED <<promoted, cand, trace, outcome, faults, stops>> /\ cand[d] = "validated"
               /\ r = ThisCall' /\ Plan(call'.p) = d /\ Plan(r[2]) = d
               /\ \/ pv' = pv \cup {r} /\ call'.at = "previewed"
                  \/ pv' = pv /\ call'.at = "failed"
  <2>1. PICK p : p = <<explore(d), design>>
    OBVIOUS
  <2>2. Plan(p) = d /\ Plan(<<s, p>>[2]) = d
    BY <2>1, PlanOf
  <2>3. /\ Idle /\ UNCHANGED <<promoted, cand, trace, outcome, faults, stops>> /\ cand[d] = "validated"
        /\ \/ pv' = pv \cup {<<s, p>>} /\ call' = Call("previewed", s, p, NoToken)
           \/ pv' = pv /\ call' = Call("failed", s, p, NoToken)
    BY <2>1 DEF PreviewPlan
  <2>4. call'.s = s /\ call'.p = p /\ ThisCall' = <<s, p>>
    BY <2>3 DEF Call, ThisCall
  <2> QED
    BY <2>2, <2>3, <2>4 DEF Call
<1>3. \A c : ~CallOf(c) /\ (CallOf(c)' => c = d)
  BY <1>2, OtherSteps DEF Idle, CallOf, Plan, Row
<1>4. ASSUME NEW c \in Plans PROVE TraceOf(c)'
  <2>0. TraceOf(c)
    BY DEF TraceInv
  <2>1. CASE c # d
    <3>1. Alone(c)
      BY <1>2, <1>3, <2>0, <2>1, Previewed DEF Alone
    <3> QED
      BY <1>1, <2>0, <3>1, StaysTold
  <2>2. CASE c = d
    <3>0. CallOf(c)'
      BY <1>2, <2>2 DEF CallOf, PlanSteps, WriteSteps, Plan, Row
    <3>1. PreviewsOf(c) = {} /\ outcome[c] = "none" /\ trace[c] \notin Finals
      BY <1>2, <1>3, <2>0, <2>2 DEF TraceOf, PlanInv, Early
    <3>2. \/ PreviewsOf(c)' = {r} /\ call'.at = "previewed"
          \/ PreviewsOf(c)' = {} /\ call'.at = "failed"
      BY <1>2, <2>2, <3>1, Previewed
    <3>3. PlanInv(c)'
      BY <1>2, <2>0, <2>2, <3>0, <3>1, <3>2 DEF TraceOf, PlanInv
    <3>4. FaultlessInv(c)'
      BY <1>2, <1>3, <2>0, <2>2, <3>0, <3>1, <3>2 DEF TraceOf, FaultlessInv
    <3>5. CallInv(c)'
      BY <1>2, <2>0, <2>2, <3>1, <3>2 DEF CallInv
    <3> QED
      BY <1>2, <2>0, <3>3, <3>4, <3>5 DEF TraceOf
  <2> QED
    BY <2>1, <2>2
<1> QED
  BY <1>1, <1>4 DEF TraceInv, Counts

(* A call on a plan begins with a preview that is there, or does nothing.   *)
LEMMA CallTold ==
  ASSUME TraceInv, Idle, UNCHANGED <<pv, cand, trace, outcome, promoted, stops>>,
         faults' \in Nat /\ (faults' = 0 => faults = 0),
         \/ call'.at = "idle"
         \/ /\ call'.at \in {"decided", "rejected", "expired", "failed", "execute", "authorized"}
            /\ ThisCall' \in pv
  PROVE  TraceInv'
<1>1. Counts
  BY DEF TraceInv, Counts
<1>2. \A c : ~CallOf(c) /\ PreviewsOf(c)' = PreviewsOf(c)
  BY OtherSteps, Previewed DEF Idle, CallOf
<1>3. ASSUME NEW c \in Plans PROVE TraceOf(c)'
  <2>0. TraceOf(c)
    BY DEF TraceInv
  <2>1. CASE ~CallOf(c)'
    <3>1. Alone(c)
      BY <1>2, <2>1 DEF Alone
    <3> QED
      BY <1>1, <2>0, <3>1, StaysTold
  <2>2. CASE CallOf(c)'
    <3>1. /\ call'.at \in {"decided", "rejected", "expired", "failed", "execute", "authorized"}
          /\ ThisCall' \in pv /\ Plan(call'.p) = c
      BY <2>2, OtherSteps DEF CallOf, Plan, Row
    <3>2. ThisCall' \in PreviewsOf(c)
      BY <3>1, Previewed DEF ThisCall
    <3>3. PreviewsOf(c)' = PreviewsOf(c) /\ PreviewsOf(c) = {ThisCall'}
      BY <1>2, <2>0, <3>2 DEF TraceOf, PlanInv
    <3>4. /\ cand[c] \notin Early /\ cand[c] # "lost" /\ trace[c] \notin Finals
          /\ faults = 0 => trace[c] \in {"previewed", "approved"} /\ outcome[c] = "none"
      BY <1>2, <2>0, <3>2 DEF TraceOf, PlanInv, FaultlessInv
    <3>5. PlanInv(c)'
      BY <2>0, <3>3, <3>4 DEF TraceOf, PlanInv, Early
    <3>6. CallInv(c)'
      BY <3>1, <3>2, <3>3 DEF CallInv
    <3>7. FaultlessInv(c)'
      BY <2>0, <3>1, <3>3, <3>4 DEF TraceOf, FaultlessInv, Early
    <3> QED
      BY <2>0, <3>5, <3>6, <3>7 DEF TraceOf
  <2> QED
    BY <2>1, <2>2
<1> QED
  BY <1>1, <1>3 DEF TraceInv, Counts

LEMMA WaitTold ==
  ASSUME TraceInv, NEW s, NEW p, Wait(s, p)
  PROVE  TraceInv'
<1>1. /\ Idle /\ UNCHANGED <<pv, cand, trace, outcome, promoted, stops, faults>>
  BY DEF Wait, sessionVars, exploreVars
<1>2. \/ call' = NoCall
      \/ \E at \in {"decided", "rejected", "expired", "failed"} :
           call' = Call(at, s, p, NoToken) /\ <<s, p>> \in pv
  BY DEF Wait, AfterAnswer
<1>3. \/ call'.at = "idle"
      \/ call'.at \in {"decided", "rejected", "expired", "failed"} /\ ThisCall' \in pv
  BY <1>2 DEF NoCall, Call, ThisCall
<1> QED
  BY <1>1, <1>3, CallTold DEF TraceInv

LEMMA ApplyTold ==
  ASSUME TraceInv, NEW s, NEW p, NEW token, NEW loss, ApplyPlan(s, p, token, loss)
  PROVE  TraceInv'
<1>1. /\ Idle /\ UNCHANGED <<pv, cand, trace, outcome, promoted, stops>> /\ <<s, p>> \in pv
      /\ faults' = faults \/ Lose(loss)
  BY DEF ApplyPlan, exploreVars
<1>2. \/ call' = NoCall \/ call' = Call("execute", s, p, NoToken)
      \/ call' = Call("authorized", s, p, token)
  BY DEF ApplyPlan
<1>3. \/ call'.at = "idle"
      \/ call'.at \in {"execute", "authorized"} /\ ThisCall' \in pv
  BY <1>1, <1>2 DEF NoCall, Call, ThisCall
<1>4. faults' \in Nat /\ (faults' = 0 => faults = 0)
  BY <1>1, Countings DEF TraceInv
<1> QED
  BY <1>1, <1>3, <1>4, CallTold

LEMMA RegisterTold ==
  ASSUME SessionsInv, TraceInv, NEW loss, RegisterPlan(loss)
  PROVE  TraceInv'
<1>1. /\ call.at = "register" /\ UNCHANGED <<cand, trace, outcome, promoted, stops>> /\ Lose(loss)
  BY DEF RegisterPlan
<1>2. \/ call' = NoCall /\ pv' = pv
      \/ Goto("failed") /\ pv' = pv \ {ThisCall}
      \/ \E at \in {"decided", "rejected", "expired"} : Goto(at) /\ pv' = pv
  BY DEF RegisterPlan, AfterAnswer, ThisCall
<1>3. \/ call'.at = "idle" /\ pv' = pv
      \/ /\ call'.p = call.p /\ ThisCall' = ThisCall
         /\ \/ call'.at = "failed" /\ pv' = pv \ {ThisCall}
            \/ call'.at \in {"decided", "rejected", "expired"} /\ pv' = pv
  BY <1>2, CallSteps DEF NoCall, Call, ThisCall
<1>4. Counts
  BY <1>1, Countings DEF TraceInv, Counts
<1>5. ASSUME NEW c \in Plans PROVE TraceOf(c)'
  <2>0. TraceOf(c)
    BY DEF TraceInv
  <2>1. CASE Plan(call.p) # c
    <3>1. PreviewsOf(c)' = PreviewsOf(c)
      <4>1. pv' = pv => PreviewsOf(c)' = PreviewsOf(c)
        BY Previewed
      <4>2. Plan(ThisCall[2]) # c
        BY <2>1 DEF ThisCall
      <4>3. pv' = pv \ {ThisCall} => PreviewsOf(c)' = PreviewsOf(c)
        <5>1. PICK r : r = ThisCall /\ Plan(r[2]) # c
          BY <4>2
        <5>2. pv' = pv \ {r} => PreviewsOf(c)' = PreviewsOf(c) \ {r}
          BY Previewed
        <5>3. r \notin PreviewsOf(c)
          BY <5>1, Previewed
        <5> QED
          BY <5>1, <5>2, <5>3
      <4> QED
        BY <1>3, <4>1, <4>3
    <3>2. ~CallOf(c) /\ ~CallOf(c)'
      BY <1>3, <2>1, OtherSteps DEF CallOf, Plan, Row
    <3> QED
      BY <1>1, <1>4, <2>0, <3>1, <3>2, StaysTold DEF Alone
  <2>2. CASE Plan(call.p) = c
    <3>1. CallOf(c) /\ ThisCall \in PreviewsOf(c) /\ PreviewsOf(c) = {ThisCall}
      BY <1>1, <2>0, <2>2 DEF CallOf, PlanSteps, TraceOf, CallInv, PlanInv
    <3>2. /\ cand[c] \notin Early /\ cand[c] # "lost" /\ trace[c] \notin Finals
          /\ faults = 0 => trace[c] \in {"previewed", "approved"} /\ outcome[c] = "none"
      BY <1>1, <2>0, <3>1 DEF TraceOf, PlanInv, FaultlessInv
    <3>3. CASE call'.at = "idle" /\ pv' = pv
      <4>1. PreviewsOf(c)' = PreviewsOf(c) /\ ~CallOf(c)'
        BY <3>3, Previewed, OtherSteps DEF CallOf
      <4>2. PlanInv(c)' /\ CallInv(c)'
        BY <1>1, <2>0, <3>2, <4>1 DEF TraceOf, PlanInv, CallInv
      <4>3. FaultlessInv(c)'
        BY <1>1, <1>4, <2>0, <3>2, <4>1 DEF TraceOf, FaultlessInv, Counts, Early
      <4> QED
        BY <1>1, <1>4, <2>0, <4>2, <4>3 DEF TraceOf, Counts
    <3>4. CASE /\ call'.p = call.p /\ ThisCall' = ThisCall
               /\ call'.at = "failed" /\ pv' = pv \ {ThisCall}
      <4>1. PreviewsOf(c)' = {} /\ CallOf(c)'
        <5>1. PICK r : r = ThisCall
          OBVIOUS
        <5>2. PreviewsOf(c)' = PreviewsOf(c) \ {r}
          BY <3>4, <5>1, Previewed
        <5> QED
          BY <3>1, <3>4, <5>1, <5>2, <2>2 DEF CallOf, PlanSteps, WriteSteps, Plan, Row
      <4>2. PlanInv(c)' /\ CallInv(c)'
        BY <1>1, <2>0, <3>2, <3>4, <4>1 DEF TraceOf, PlanInv, CallInv, Early
      <4>3. FaultlessInv(c)'
        BY <1>1, <1>4, <2>0, <3>2, <3>4, <4>1 DEF TraceOf, FaultlessInv, Counts, Early
      <4> QED
        BY <1>1, <1>4, <2>0, <4>2, <4>3 DEF TraceOf, Counts
    <3>5. CASE /\ call'.p = call.p /\ ThisCall' = ThisCall
               /\ call'.at \in {"decided", "rejected", "expired"} /\ pv' = pv
      <4>1. PreviewsOf(c)' = PreviewsOf(c) /\ CallOf(c)'
        BY <2>2, <3>5, Previewed DEF CallOf, PlanSteps, WriteSteps, Plan, Row
      <4>2. PlanInv(c)' /\ CallInv(c)'
        BY <1>1, <2>0, <3>1, <3>2, <3>5, <4>1 DEF TraceOf, PlanInv, CallInv, Early
      <4>3. FaultlessInv(c)'
        BY <1>1, <1>4, <2>0, <3>2, <3>5, <4>1 DEF TraceOf, FaultlessInv, Counts, Early
      <4> QED
        BY <1>1, <1>4, <2>0, <4>2, <4>3 DEF TraceOf, Counts
    <3> QED
      BY <1>3, <3>3, <3>4, <3>5
  <2> QED
    BY <2>1, <2>2
<1> QED
  BY <1>4, <1>5 DEF TraceInv, Counts

LEMMA ExecuteTold ==
  ASSUME SessionsInv, TraceInv, NEW result \in Outcomes, NEW changed, Execute(result, changed)
  PROVE  TraceInv'
<1>1. PICK r, d : r = ThisCall /\ d = Plan(call.p) /\ Plan(r[2]) = d
  <2>1. PICK s, p : s = call.s /\ p = call.p
    OBVIOUS
  <2>2. ThisCall = <<s, p>> /\ <<s, p>>[2] = p
    BY <2>1 DEF ThisCall
  <2> QED
    BY <2>1, <2>2
<1>2. /\ call.at = "execute" /\ UNCHANGED <<cand, trace, promoted, stops, faults>>
      /\ outcome' = [outcome EXCEPT ![d] = result]
      /\ pv' = IF result = "error" THEN pv ELSE pv \ {r}
      /\ Goto(CASE result = "error" -> "failed" [] result = "stale" -> "stale" [] OTHER -> "applied")
  BY <1>1 DEF Execute, ThisCall
<1>3. /\ call'.at = CASE result = "error" -> "failed" [] result = "stale" -> "stale" [] OTHER -> "applied"
      /\ call'.p = call.p /\ ThisCall' = ThisCall
  BY <1>2, CallSteps DEF ThisCall
<1>4. Counts
  BY <1>2 DEF TraceInv, Counts
<1>5. ASSUME NEW c \in Plans PROVE TraceOf(c)'
  <2>0. TraceOf(c)
    BY DEF TraceInv
  <2>1. CASE d # c
    <3>1. PreviewsOf(c)' = PreviewsOf(c)
      <4>1. r \notin PreviewsOf(c) /\ (pv' = pv => PreviewsOf(c)' = PreviewsOf(c))
        BY <1>1, <2>1, Previewed
      <4>2. pv' = pv \ {r} => PreviewsOf(c)' = PreviewsOf(c) \ {r}
        BY Previewed
      <4> QED
        BY <1>2, <4>1, <4>2
    <3>2. ~CallOf(c) /\ ~CallOf(c)'
      BY <1>1, <1>3, <2>1 DEF CallOf, Plan, Row
    <3>3. outcome'[c] = outcome[c]
      BY <1>2, <2>1 DEF TraceInv
    <3> QED
      BY <1>2, <1>4, <2>0, <3>1, <3>2, <3>3, StaysTold DEF Alone
  <2>2. CASE d = c
    <3>1. CallOf(c) /\ PreviewsOf(c) = {r}
      BY <1>1, <1>2, <2>0, <2>2 DEF CallOf, PlanSteps, TraceOf, CallInv, PlanInv
    <3>2. /\ cand[c] \notin Early /\ cand[c] # "lost" /\ trace[c] \notin Finals
          /\ faults = 0 => trace[c] \in {"previewed", "approved"} /\ outcome[c] = "none"
      BY <1>2, <2>0, <3>1 DEF TraceOf, PlanInv, FaultlessInv
    <3>3. /\ outcome'[c] = result
          /\ PreviewsOf(c)' = IF result = "error" THEN {r} ELSE {}
          /\ CallOf(c)'
      <4>1. pv' = pv \ {r} => PreviewsOf(c)' = {}
        BY <3>1, Previewed
      <4>2. pv' = pv => PreviewsOf(c)' = {r}
        BY <3>1, Previewed
      <4>3. CallOf(c)'
        BY <1>1, <1>3, <2>2 DEF CallOf, PlanSteps, WriteSteps, Plan, Row
      <4> QED
        BY <1>2, <2>2, <4>1, <4>2, <4>3 DEF TraceInv
    <3>4. PlanInv(c)'
      BY <1>2, <2>0, <3>2, <3>3 DEF TraceOf, PlanInv, Early, Finals
    <3>5. CallInv(c)'
      BY <1>1, <1>3, <3>3 DEF CallInv, Outcomes, Finals
    <3>6. FaultlessInv(c)'
      BY <1>2, <1>3, <2>0, <3>2, <3>3 DEF FaultlessInv, Early
    <3> QED
      BY <1>2, <2>0, <3>4, <3>5, <3>6 DEF TraceOf
  <2> QED
    BY <2>1, <2>2
<1> QED
  BY <1>4, <1>5 DEF TraceInv, Counts

LEMMA PromoteTold ==
  ASSUME TraceInv, NEW d, Promote(d)
  PROVE  TraceInv'
<1>1. /\ UNCHANGED <<pv, cand, trace, outcome, call, stops, faults>>
      /\ promoted' = promoted \cup {d} /\ trace[d] = "verified"
  BY DEF Promote, Promotable, sessionVars
<1>2. ASSUME NEW c \in Plans PROVE TraceOf(c)'
  <2>0. TraceOf(c)
    BY DEF TraceInv
  <2>1. PreviewsOf(c)' = PreviewsOf(c) /\ CallOf(c)' = CallOf(c)
    BY <1>1, Previewed DEF CallOf
  <2>2. PlanInv(c)'
    BY <1>1, <2>0, <2>1 DEF TraceOf, PlanInv
  <2>3. CallInv(c)' /\ FaultlessInv(c)'
    BY <1>1, <2>0, <2>1 DEF TraceOf, CallInv, FaultlessInv, ThisCall
  <2> QED
    BY <1>1, <2>0, <2>2, <2>3 DEF TraceOf
<1> QED
  BY <1>1, <1>2 DEF TraceInv

(* The traces that are abandoned are those of plans that did not run.       *)
LEMMA AbandonTold ==
  ASSUME TraceInv, Idle, call'.at = "idle", NEW cs, NEW f, Abandons(cs, f),
         stops' \in Nat, stops' = 0 => stops = 0, pv' = {}, UNCHANGED <<outcome, promoted>>,
         \A c \in Plans \cap cs : cand[c] # "lost"
  PROVE  TraceInv'
<1> DEFINE left == {c \in cs : ~Sealed(c) /\ Abandoned(c) \in Moves[trace[c]]}
<1>1. Fail(f) /\ faults' \in Nat /\ (faults' = 0 => faults = 0) /\ (faults' = 0 => f = "ok")
  BY Countings DEF Abandons
<1>2. /\ trace' = [c \in Plans |-> IF c \in left /\ f # "before" THEN Abandoned(c) ELSE trace[c]]
      /\ cand' = [c \in Plans |-> IF c \in left /\ f = "ok" THEN Abandoned(c) ELSE cand[c]]
  BY DEF Abandons
<1>3. \A c : /\ c \in left => c \in cs /\ ~Sealed(c) /\ Abandoned(c) \in Moves[trace[c]]
             /\ ~CallOf(c) /\ ~CallOf(c)' /\ PreviewsOf(c)' = {}
  BY OtherSteps, Previewed DEF Idle, CallOf
<1> HIDE DEF left
<1>4. Counts
  BY <1>1, <1>2 DEF TraceInv, Counts
<1>5. ASSUME NEW c \in Plans PROVE TraceOf(c)'
  <2>0. TraceOf(c)
    BY DEF TraceInv
  <2>1. CASE c \notin left
    <3>1. trace'[c] = trace[c] /\ cand'[c] = cand[c]
      BY <1>2, <2>1
    <3>2. PlanInv(c)' /\ CallInv(c)'
      BY <1>3, <2>0, <3>1 DEF TraceOf, PlanInv, CallInv
    <3>3. FaultlessInv(c)'
      BY <1>1, <1>3, <2>0, <3>1 DEF TraceOf, FaultlessInv
    <3> QED
      BY <2>0, <3>1, <3>2, <3>3 DEF TraceOf
  <2>2. CASE c \in left
    <3>1. /\ c \in cs /\ ~Sealed(c) /\ Abandoned(c) \in Moves[trace[c]]
          /\ Abandoned(c) \in {"expired", "rejected"} /\ trace[c] \in DOMAIN Moves
      BY <1>3, <2>0, <2>2 DEF Abandoned, TraceOf, PlanInv
    <3>2. trace[c] \in {"proposed", "validated", "previewed", "approved"} /\ cand[c] # "none"
      <4>1. trace[c] \in {"proposed", "validated", "previewed", "approved"}
        BY <3>1, MovesTable
      <4> QED
        BY <2>0, <4>1 DEF TraceOf, PlanInv
    <3>3. /\ trace'[c] \in {"expired", "rejected"} \/ trace'[c] = trace[c]
          /\ cand'[c] = cand[c] \/ cand'[c] \in {"expired", "rejected"}
          /\ f = "ok" => trace'[c] \in {"expired", "rejected"} /\ cand'[c] = trace'[c]
      BY <1>2, <2>2, <3>1
    <3>4. cand[c] # "lost"
      BY <3>1
    <3>5. faults = 0 => outcome[c] = "none"
      <4>1. Told(outcome[c]) \in {"failed", "verified", "rolled_back", "rollback_failed", "none"}
        BY <2>0 DEF TraceOf, PlanInv, Told, Outcomes
      <4> QED
        BY <1>3, <2>0, <3>2, <3>4, <4>1 DEF TraceOf, FaultlessInv
    <3>6. PlanInv(c)' /\ CallInv(c)'
      BY <1>3, <2>0, <3>2, <3>3, <3>4 DEF TraceOf, PlanInv, CallInv, Early, Finals, Moves
    <3>7. FaultlessInv(c)'
      BY <1>1, <1>3, <3>3, <3>5 DEF FaultlessInv
    <3> QED
      BY <2>0, <3>3, <3>4, <3>6, <3>7 DEF TraceOf
  <2> QED
    BY <2>1, <2>2
<1> QED
  BY <1>1, <1>4, <1>5 DEF TraceInv, Counts

LEMMA ReleaseTold ==
  ASSUME SessionsInv, TraceInv, NEW s, NEW f, Release(s, f)
  PROVE  TraceInv'
<1>1. PICK cs : cs = {Plan(r[2]) : r \in {x \in pv : x[1] \in Released}}
  OBVIOUS
<1>2. /\ Idle /\ call' = call /\ Abandons(cs, f) /\ UNCHANGED <<outcome, promoted, stops>>
      /\ pv' = {r \in pv : r[1] \notin Released}
  BY <1>1 DEF Release, Forgotten
<1>3. pv' = {}
  BY <1>2 DEF SessionsInv, Begun, Released
<1>4. ASSUME NEW c \in Plans \cap cs PROVE cand[c] # "lost"
  <2>1. PICK r \in pv : Plan(r[2]) = c
    BY <1>1
  <2>2. r \in PreviewsOf(c)
    BY <2>1, Previewed
  <2> QED
    BY <2>2 DEF TraceInv, TraceOf, PlanInv
<1> QED
  BY <1>2, <1>3, <1>4, AbandonTold DEF TraceInv, Idle

LEMMA CloseTold ==
  ASSUME TraceInv, NEW f, Close(f)
  PROVE  TraceInv'
<1>1. PICK cs : cs = {c \in Plans : cand[c] # "lost"}
  OBVIOUS
<1>2. /\ Idle /\ call' = call /\ Abandons(cs, f) /\ UNCHANGED <<outcome, promoted>>
      /\ pv' = {} /\ stops' = stops + 1
  BY <1>1 DEF Close, Ends
<1>3. stops' \in Nat /\ stops' # 0
  BY <1>2 DEF TraceInv
<1> QED
  BY <1>1, <1>2, <1>3, AbandonTold DEF Idle

LEMMA CrashTold ==
  ASSUME TraceInv, Crash
  PROVE  TraceInv'
<1>1. /\ cand' = [c \in Plans |-> IF cand[c] = "none" THEN "none" ELSE "lost"]
      /\ UNCHANGED <<trace, faults, outcome, promoted>> /\ pv' = {}
      /\ call'.at = "idle" /\ stops' = stops + 1
  BY DEF Crash, Ends, NoCall, Call
<1>2. stops' \in Nat /\ stops' # 0
  BY <1>1 DEF TraceInv
<1>3. ASSUME NEW c \in Plans PROVE TraceOf(c)'
  <2>0. TraceOf(c)
    BY DEF TraceInv
  <2>1. ~CallOf(c)' /\ PreviewsOf(c)' = {}
    BY <1>1, OtherSteps, Previewed DEF CallOf
  <2>2. cand'[c] = IF cand[c] = "none" THEN "none" ELSE "lost"
    BY <1>1
  <2>3. PlanInv(c)' /\ CallInv(c)'
    BY <1>1, <2>0, <2>1, <2>2 DEF TraceOf, PlanInv, CallInv, Early
  <2>4. FaultlessInv(c)'
    BY <1>1, <2>0, <2>1, <2>2 DEF TraceOf, PlanInv, FaultlessInv, Early
  <2> QED
    BY <1>2, <2>3, <2>4 DEF TraceOf
<1> QED
  BY <1>1, <1>2, <1>3 DEF TraceInv

(* What a write of the trace of a plan does, when it succeeds and when not. *)
LEMMA WriteTold ==
  ASSUME SessionsInv, TraceInv, NEW f \in Writes, WriteTrace(f)
  PROVE  TraceInv'
<1>1. PICK r, d, at : r = ThisCall /\ d = Plan(call.p) /\ Plan(r[2]) = d /\ at = call.at
  <2>1. PICK s, p : s = call.s /\ p = call.p
    OBVIOUS
  <2>2. ThisCall = <<s, p>> /\ <<s, p>>[2] = p
    BY <2>1 DEF ThisCall
  <2> QED
    BY <2>1, <2>2
<1> DEFINE w == Wanted(at, d)
           moves == w \in Moves[trace[d]]
           done == f = "ok" /\ (Written(at, d) \/ moves)
           forgets == done /\ at \in {"failed", "rejected", "expired"}
<1>2. /\ at \in WriteSteps /\ Fail(f) /\ UNCHANGED <<outcome, promoted, stops>>
      /\ trace' = IF f # "before" /\ ~Written(at, d) /\ moves THEN [trace EXCEPT ![d] = w] ELSE trace
      /\ cand' = IF done /\ at # "applied" /\ ~(at = "failed" /\ Written(at, d))
                 THEN [cand EXCEPT ![d] = w] ELSE cand
      /\ pv' = IF forgets \/ (at = "previewed" /\ ~done) THEN pv \ {r} ELSE pv
      /\ IF done /\ NextStep(at, d) # "idle" THEN Goto(NextStep(at, d)) ELSE call' = NoCall
  BY <1>1 DEF WriteTrace, ThisCall
<1>3. /\ call'.at = IF done THEN NextStep(at, d) ELSE "idle"
      /\ call'.at # "idle" => call'.p = call.p /\ ThisCall' = ThisCall
  <2>1. CASE done /\ NextStep(at, d) # "idle"
    BY <1>2, <2>1, CallSteps DEF ThisCall
  <2>2. CASE ~(done /\ NextStep(at, d) # "idle")
    BY <1>2, <2>2 DEF NoCall, Call
  <2> QED
    BY <2>1, <2>2
<1>4. faults' \in Nat /\ (faults' = 0 => faults = 0) /\ (faults' = 0 => f = "ok")
  BY <1>2, Countings
<1>5. Counts
  BY <1>2, <1>4 DEF TraceInv, Counts
<1>6. ASSUME NEW c \in Plans, d # c PROVE TraceOf(c)'
  <2>1. TraceOf(c)
    BY DEF TraceInv
  <2>2. PreviewsOf(c)' = PreviewsOf(c)
    <3>1. r \notin PreviewsOf(c) /\ (pv' = pv => PreviewsOf(c)' = PreviewsOf(c))
      BY <1>1, <1>6, Previewed
    <3>2. pv' = pv \ {r} => PreviewsOf(c)' = PreviewsOf(c) \ {r}
      BY Previewed
    <3> QED
      BY <1>2, <3>1, <3>2
  <2>3. ~CallOf(c) /\ ~CallOf(c)'
    BY <1>1, <1>3, <1>6, OtherSteps DEF CallOf, Plan, Row
  <2>4. trace'[c] = trace[c] /\ cand'[c] = cand[c]
    BY <1>2, <1>6 DEF TraceInv
  <2> QED
    BY <1>2, <1>5, <2>1, <2>2, <2>3, <2>4, StaysTold DEF Alone
<1>7. ASSUME d \in Plans PROVE TraceOf(d)'
  <2>1. /\ TraceOf(d) /\ CallOf(d) /\ trace[d] \in DOMAIN Moves
        /\ PlanInv(d) /\ CallInv(d) /\ FaultlessInv(d)
    BY <1>1, <1>2, <1>7 DEF TraceInv, TraceOf, CallOf, PlanSteps, PlanInv
  <2>2. PICK tr, ca, ou, tr2, ca2 : /\ tr = trace[d] /\ ca = cand[d] /\ ou = outcome[d]
                                    /\ tr2 = trace'[d] /\ ca2 = cand'[d]
    OBVIOUS
  <2>3. /\ tr2 = IF f # "before" /\ ~Written(at, d) /\ moves THEN w ELSE tr
        /\ ca2 = IF done /\ at # "applied" /\ ~(at = "failed" /\ Written(at, d)) THEN w ELSE ca
    BY <1>2, <1>7, <2>2 DEF TraceInv
  <2>4. /\ pv' = pv => PreviewsOf(d)' = PreviewsOf(d)
        /\ pv' = pv \ {r} => PreviewsOf(d)' = PreviewsOf(d) \ {r}
    BY Previewed
  <2>5. PICK P, P2 : /\ P = PreviewsOf(d) /\ P2 = PreviewsOf(d)'
                     /\ P2 = IF forgets \/ (at = "previewed" /\ ~done) THEN P \ {r} ELSE P
    BY <1>2, <2>4
  <2>6. call'.at # "idle" => Plan(call'.p) = d
    BY <1>1, <1>3 DEF Plan, Row
  <2>7. CASE at = "validated"
    <3>1. ca = "proposed" /\ ou = "none" /\ P = {} /\ tr \notin Finals
      BY <1>1, <2>1, <2>2, <2>5, <2>7 DEF CallInv, PlanInv, Early
    <3>2. w = "validated" /\ ~Written(at, d) /\ NextStep(at, d) = "idle"
      BY <2>7 DEF Wanted, Written, NextStep
    <3>3. moves <=> tr = "proposed"
      BY <2>1, <2>2, <3>2, MovesTable
    <3>4. /\ tr2 = IF f # "before" /\ tr = "proposed" THEN "validated" ELSE tr
          /\ ca2 = IF f = "ok" /\ tr = "proposed" THEN "validated" ELSE ca
          /\ P2 = {} /\ ~CallOf(d)'
      BY <1>3, <2>3, <2>5, <2>7, <3>1, <3>2, <3>3, OtherSteps DEF CallOf
    <3>5. PlanInv(d)' /\ CallInv(d)'
      BY <1>2, <2>1, <2>2, <2>5, <3>1, <3>4 DEF PlanInv, CallInv, Early, Finals, Moves
    <3>6. FaultlessInv(d)'
      BY <1>2, <1>4, <2>1, <2>2, <2>5, <3>1, <3>4 DEF FaultlessInv
    <3> QED
      BY <1>2, <2>1, <2>2, <3>4, <3>5, <3>6 DEF TraceOf
  <2>8. CASE at = "previewed"
    <3>1. ca = "validated" /\ ou = "none" /\ P = {r} /\ tr \notin Finals
      BY <1>1, <2>1, <2>2, <2>5, <2>8 DEF CallInv, PlanInv, Early
    <3>2. /\ w = "previewed" /\ ~Written(at, d)
          /\ NextStep(at, d) = IF d \notin ReadOnly THEN "register" ELSE "idle"
      BY <2>8 DEF Wanted, Written, NextStep
    <3>3. moves <=> tr = "validated"
      BY <2>1, <2>2, <3>2, MovesTable
    <3>4. /\ tr2 = IF f # "before" /\ tr = "validated" THEN "previewed" ELSE tr
          /\ ca2 = IF f = "ok" /\ tr = "validated" THEN "previewed" ELSE ca
          /\ P2 = IF f = "ok" /\ tr = "validated" THEN {r} ELSE {}
      BY <2>3, <2>5, <2>8, <3>1, <3>2, <3>3
    <3>5. CallOf(d)' => /\ call'.at = "register" /\ ThisCall' = r
                        /\ f = "ok" /\ tr = "validated"
      BY <1>1, <1>3, <3>2, <3>3, OtherSteps DEF CallOf
    <3>6. PlanInv(d)' /\ CallInv(d)'
      BY <1>2, <2>1, <2>2, <2>5, <3>1, <3>4, <3>5 DEF PlanInv, CallInv, Early, Finals, Moves
    <3>7. FaultlessInv(d)'
      BY <1>2, <1>4, <2>1, <2>2, <2>5, <3>1, <3>4, <3>5 DEF FaultlessInv
    <3> QED
      BY <1>2, <2>1, <2>2, <3>4, <3>6, <3>7 DEF TraceOf
  <2>9. ASSUME at \in {"decided", "authorized", "rejected", "expired"}
        PROVE  /\ P = {r} /\ ca \notin Early /\ ca # "lost" /\ tr \notin Finals
               /\ faults = 0 => tr \in {"previewed", "approved"} /\ ou = "none"
    BY <1>1, <2>1, <2>2, <2>5, <2>9 DEF CallInv, PlanInv, FaultlessInv
  <2>10. CASE at \in {"decided", "authorized"}
    <3>1. /\ w = "approved" /\ (Written(at, d) <=> tr = "approved")
          /\ NextStep(at, d) = IF at = "authorized" THEN "execute" ELSE "idle"
      BY <2>2, <2>10 DEF Wanted, Written, NextStep
    <3>2. moves <=> tr = "previewed"
      BY <2>1, <2>2, <3>1, MovesTable
    <3>3. /\ tr2 = IF f # "before" /\ tr = "previewed" THEN "approved" ELSE tr
          /\ ca2 = "approved" \/ ca2 = ca
          /\ P2 = {r}
      BY <2>3, <2>5, <2>9, <2>10, <3>1, <3>2
    <3>4. CallOf(d)' => call'.at = "execute" /\ ThisCall' = r
      BY <1>1, <1>3, <3>1, <3>2, OtherSteps DEF CallOf
    <3>5. PlanInv(d)' /\ CallInv(d)'
      BY <1>2, <2>1, <2>2, <2>5, <2>9, <2>10, <3>3, <3>4 DEF PlanInv, CallInv, Early, Finals, Moves
    <3>6. FaultlessInv(d)'
      BY <1>2, <1>4, <2>1, <2>2, <2>5, <2>9, <2>10, <3>3, <3>4 DEF FaultlessInv, Early
    <3> QED
      BY <1>2, <2>1, <2>2, <2>9, <2>10, <3>3, <3>5, <3>6 DEF TraceOf
  <2>11. CASE at \in {"rejected", "expired"}
    <3>1. /\ w = IF tr = "approved" THEN "expired" ELSE at
          /\ Written(at, d) <=> tr = w
          /\ NextStep(at, d) = "idle"
      BY <2>2, <2>11 DEF Wanted, Written, NextStep
    <3>2. tr \in {"previewed", "approved"} => moves
      BY <2>1, <2>2, <2>11, <3>1, MovesTable
    <3>3. /\ tr2 \in {tr, "expired", "rejected"} /\ ca2 \in {ca, "expired", "rejected"}
          /\ f = "ok" /\ tr \in {"previewed", "approved"} =>
               /\ tr2 \in {"expired", "rejected"} /\ ca2 \in {"expired", "rejected"}
               /\ P2 = {}
          /\ P2 \subseteq {r} /\ ~CallOf(d)'
      BY <1>3, <2>3, <2>5, <2>9, <2>11, <3>1, <3>2, OtherSteps DEF CallOf
    <3>4. PlanInv(d)' /\ CallInv(d)'
      BY <1>2, <2>1, <2>2, <2>5, <2>9, <2>11, <3>3 DEF PlanInv, CallInv, Early, Finals, Moves
    <3>5. FaultlessInv(d)'
      BY <1>2, <1>4, <2>2, <2>5, <2>9, <2>11, <3>3 DEF FaultlessInv, Early
    <3> QED
      BY <1>2, <2>1, <2>2, <2>9, <2>11, <3>3, <3>4, <3>5 DEF TraceOf
  <2>12. CASE at = "failed"
    <3>1. /\ P \subseteq {r} /\ ca \notin {"none", "lost"} /\ (ca \in Early => P = {})
          /\ faults = 0 => /\ tr \in {"proposed", "validated", "previewed", "approved"}
                           /\ ou \in {"none", "error"}
      BY <1>1, <2>1, <2>2, <2>5, <2>12 DEF CallInv, PlanInv, FaultlessInv
    <3>2. /\ w = "failed" /\ (Written(at, d) <=> Sealed(d)) /\ NextStep(at, d) = "idle"
          /\ Sealed(d) <=> tr \in {"verified", "rolled_back", "rollback_failed", "failed",
                                   "rejected", "expired"}
      BY <2>2, <2>12 DEF Wanted, Written, NextStep, Sealed
    <3>3. moves <=> tr \in {"proposed", "validated", "previewed", "approved", "applied"}
      BY <2>1, <2>2, <3>2, MovesTable
    <3>4. /\ tr2 \in {tr, "failed"} /\ ca2 \in {ca, "failed"}
          /\ f = "ok" /\ tr \in {"proposed", "validated", "previewed", "approved"} =>
               tr2 = "failed" /\ ca2 = "failed" /\ P2 = {}
          /\ P2 \subseteq P /\ ~CallOf(d)'
      BY <1>3, <2>3, <2>5, <2>12, <3>1, <3>2, <3>3, OtherSteps DEF CallOf
    <3>5. tr \in Finals => tr2 = tr
      BY <2>3, <3>2, <3>3 DEF Finals
    <3>6. PlanInv(d)' /\ CallInv(d)'
      BY <1>2, <2>1, <2>2, <2>5, <3>1, <3>4, <3>5 DEF PlanInv, CallInv, Early, Finals, Moves
    <3>7. FaultlessInv(d)'
      BY <1>2, <1>4, <2>2, <2>5, <3>1, <3>4 DEF FaultlessInv, Told
    <3> QED
      BY <1>2, <2>1, <2>2, <3>4, <3>6, <3>7 DEF TraceOf
  <2>13. CASE at = "stale"
    <3>1. /\ P = {} /\ ou = "stale" /\ ca \notin Early /\ ca # "lost" /\ tr \notin Finals
          /\ faults = 0 => tr \in {"previewed", "approved"}
      BY <1>1, <2>1, <2>2, <2>5, <2>13 DEF CallInv, PlanInv, FaultlessInv, Finals
    <3>2. w = "failed" /\ ~Written(at, d) /\ NextStep(at, d) = "idle"
      BY <2>13 DEF Wanted, Written, NextStep
    <3>3. moves <=> tr \in {"proposed", "validated", "previewed", "approved", "applied"}
      BY <2>1, <2>2, <3>2, MovesTable
    <3>4. /\ tr2 \in {tr, "failed"} /\ ca2 \in {ca, "failed"}
          /\ f = "ok" /\ tr \in {"previewed", "approved"} => tr2 = "failed"
          /\ P2 = {} /\ ~CallOf(d)'
      BY <1>3, <2>3, <2>5, <2>13, <3>1, <3>2, <3>3, OtherSteps DEF CallOf
    <3>5. PlanInv(d)' /\ CallInv(d)'
      BY <1>2, <2>1, <2>2, <2>5, <3>1, <3>4 DEF PlanInv, CallInv, Early, Finals, Moves
    <3>6. FaultlessInv(d)'
      BY <1>2, <1>4, <2>1, <2>2, <2>5, <3>1, <3>4 DEF FaultlessInv, Told, Early
    <3> QED
      BY <1>2, <2>1, <2>2, <3>1, <3>4, <3>5, <3>6 DEF TraceOf
  <2>14. CASE at = "applied"
    <3>1. /\ P = {} /\ ou \in Finals /\ ca \notin Early /\ ca # "lost"
          /\ faults = 0 => tr \in {"previewed", "approved"}
      BY <1>1, <2>1, <2>2, <2>5, <2>14 DEF CallInv, PlanInv, FaultlessInv, Finals
    <3>2. w = "applied" /\ ~Written(at, d) /\ NextStep(at, d) = "closed"
      BY <2>14 DEF Wanted, Written, NextStep
    <3>3. moves <=> tr \in {"previewed", "approved"}
      BY <2>1, <2>2, <3>2, MovesTable
    <3>4. /\ tr2 = IF f # "before" /\ tr \in {"previewed", "approved"} THEN "applied" ELSE tr
          /\ ca2 = ca /\ P2 = {}
      BY <2>3, <2>5, <2>14, <3>1, <3>2, <3>3
    <3>5. CallOf(d)' => call'.at = "closed" /\ f = "ok" /\ tr \in {"previewed", "approved"}
      BY <1>3, <3>2, <3>3, OtherSteps DEF CallOf
    <3>6. f = "ok" /\ tr \in {"previewed", "approved"} => CallOf(d)' /\ call'.at = "closed"
      BY <1>1, <1>3, <3>2, <3>3 DEF CallOf, PlanSteps, WriteSteps, Plan, Row
    <3>7. PlanInv(d)' /\ CallInv(d)'
      BY <1>2, <2>1, <2>2, <2>5, <3>1, <3>4, <3>5 DEF PlanInv, CallInv, Early, Finals, Moves
    <3>8. FaultlessInv(d)'
      BY <1>2, <1>4, <2>2, <2>5, <3>1, <3>4, <3>5, <3>6 DEF FaultlessInv, Early
    <3> QED
      BY <1>2, <2>1, <2>2, <3>4, <3>7, <3>8 DEF TraceOf
  <2>15. CASE at = "closed"
    <3>1. /\ P = {} /\ ou \in Finals /\ ca \notin Early /\ ca # "lost"
          /\ faults = 0 => tr = "applied"
      BY <1>1, <2>1, <2>2, <2>5, <2>15 DEF CallInv, PlanInv, FaultlessInv, Finals
    <3>2. w = ou /\ ~Written(at, d) /\ NextStep(at, d) = "idle"
      BY <2>2, <2>15 DEF Wanted, Written, NextStep
    <3>3. moves <=> tr = "applied"
      BY <2>1, <2>2, <3>1, <3>2, MovesTable
    <3>4. /\ tr2 = IF f # "before" /\ tr = "applied" THEN ou ELSE tr
          /\ ca2 \in {ca, ou} /\ P2 = {} /\ ~CallOf(d)'
      BY <1>3, <2>3, <2>5, <2>15, <3>1, <3>2, <3>3, OtherSteps DEF CallOf
    <3>5. PlanInv(d)' /\ CallInv(d)'
      BY <1>2, <2>1, <2>2, <2>5, <3>1, <3>4 DEF PlanInv, CallInv, Early, Finals, Moves
    <3>6. FaultlessInv(d)'
      BY <1>2, <1>4, <2>2, <2>5, <3>1, <3>4 DEF FaultlessInv, Told, Early, Finals
    <3> QED
      BY <1>2, <2>1, <2>2, <3>1, <3>4, <3>5, <3>6 DEF TraceOf, Finals
  <2> QED
    BY <1>2, <2>7, <2>8, <2>10, <2>11, <2>12, <2>13, <2>14, <2>15 DEF WriteSteps
<1> QED
  BY <1>5, <1>6, <1>7 DEF TraceInv, Counts

LEMMA InitTrace == Init => TraceInv
<1> SUFFICES ASSUME Init PROVE TraceInv
  OBVIOUS
<1>1. /\ faults = 0 /\ stops = 0 /\ pv = {} /\ promoted = {} /\ call.at = "idle"
      /\ cand = [c \in Plans |-> "none"] /\ trace = [c \in Plans |-> "none"]
      /\ outcome = [c \in Plans |-> "none"]
  BY DEF Init, LiveInit, NoCall, Call
<1>2. ASSUME NEW c \in Plans PROVE TraceOf(c)
  <2>1. ~CallOf(c) /\ PreviewsOf(c) = {}
    BY <1>1, OtherSteps DEF CallOf, PreviewsOf
  <2>2. cand[c] = "none" /\ trace[c] = "none" /\ outcome[c] = "none"
    BY <1>1
  <2>3. PlanInv(c)
    BY <1>1, <2>1, <2>2 DEF PlanInv, Early, Finals, Moves
  <2> QED
    BY <2>1, <2>2, <2>3 DEF TraceOf, CallInv, FaultlessInv
<1> QED
  BY <1>1, <1>2 DEF TraceInv

LEMMA StepTrace ==
  ASSUME SessionsInv, TraceInv, [Next]_vars
  PROVE  TraceInv'
<1>1. CASE SessionCall /\ UNCHANGED graphVars
  <2>1. CASE ToolCall
    BY <1>1, <2>1, ToolTold
  <2>2. CASE PlanCall
    BY <2>2, ProposeTold, ValidateTold, PromoteTold, PreviewTold, ApplyTold, ExecuteTold,
       RegisterTold, WriteTold DEF PlanCall
  <2>3. CASE \E x \in contexts : Wait(x[1], x[2])
    BY <2>3, WaitTold
  <2>4. CASE \E s \in Sessions, f \in Writes : Release(s, f)
    BY <2>4, ReleaseTold
  <2>5. CASE Edit \/ \E s \in Sessions : Attach(s)
    <3>1. UNCHANGED <<pv, cand, trace, outcome, promoted, stops, faults, call>>
      BY <2>5 DEF Edit, Attach, exploreVars
    <3> QED
      BY <3>1, ElseTold DEF TraceInv
  <2>6. ASSUME NEW s, NEW tool, Unanswered(s, tool)
        PROVE  TraceInv'
    <3>1. UNCHANGED <<pv, cand, trace, outcome, promoted, stops, call>> /\ Fail("unanswered")
      BY <2>6 DEF Unanswered, WorkerEnds, exploreVars
    <3>2. faults' \in Nat /\ (faults' = 0 => faults = 0)
      BY <3>1, Countings
    <3> QED
      BY <3>1, <3>2, ElseTold
  <2> QED
    BY <1>1, <2>1, <2>2, <2>3, <2>4, <2>5, <2>6 DEF SessionCall
<1>2. CASE FlowCall \/ RunNode \/ RecordNode
  BY <1>2, FlowTold
<1>3. CASE \E f \in Writes : Close(f)
  BY <1>3, CloseTold
<1>4. CASE Stop
  BY <1>4, CrashTold DEF Stop
<1>5. CASE \/ (Person \/ Tick) /\ UNCHANGED <<sessionVars, exploreVars, call, graphVars>>
           \/ Switch \/ UNCHANGED vars
  BY <1>5, PersonTold
<1> QED
  BY <1>1, <1>2, <1>3, <1>4, <1>5 DEF Next

LEMMA TraceTells == TraceInv => TraceTruth
<1> SUFFICES ASSUME TraceInv, NEW c \in Plans
             PROVE  /\ trace[c] \in {"verified", "rolled_back", "rollback_failed"} => outcome[c] = trace[c]
                    /\ c \in promoted => outcome[c] = "verified"
                    /\ faults = 0 /\ trace[c] \in {"expired", "rejected"} => outcome[c] = "none"
                    /\ faults = 0 /\ stops = 0 /\ Idle /\ outcome[c] # "none" =>
                         trace[c] = IF outcome[c] \in {"error", "stale"} THEN "failed" ELSE outcome[c]
  BY DEF TraceTruth
<1>1. PlanInv(c) /\ FaultlessInv(c) /\ (stops = 0 => cand[c] # "lost")
  BY DEF TraceInv, TraceOf
<1>2. /\ trace[c] \in {"verified", "rolled_back", "rollback_failed"} => outcome[c] = trace[c]
      /\ c \in promoted => outcome[c] = "verified"
  BY <1>1 DEF PlanInv, Finals
<1>3. Idle => ~CallOf(c)
  BY OtherSteps DEF Idle, CallOf
<1>4. faults = 0 /\ trace[c] \in {"expired", "rejected"} => outcome[c] = "none"
  BY <1>1 DEF FaultlessInv
<1>5. faults = 0 /\ stops = 0 /\ Idle /\ outcome[c] # "none" =>
        trace[c] = IF outcome[c] \in {"error", "stale"} THEN "failed" ELSE outcome[c]
  BY <1>1, <1>3 DEF FaultlessInv, Told
<1> QED
  BY <1>2, <1>4, <1>5

(* The trace of a plan tells what happened to it, and only what was verified *)
(* is promoted, whatever writes fail and wherever the process ends.          *)
THEOREM TraceIsTrue == Spec => []TraceTruth
<1>1. Init => IInv /\ TraceInv
  BY InitSessions, InitTrace DEF IInv
<1>2. IInv /\ TraceInv /\ [Next]_vars => IInv' /\ TraceInv'
  BY InvariantStep, StepTrace DEF IInv
<1> QED
  BY <1>1, <1>2, TraceTells, PTL DEF Spec

---------------------------------------------------------------------------
(* What keeps a tainted session from another plan: TaintInv.               *)

(* What was closed is not opened again, and nothing is forgotten.           *)
LEMMA ActRevivesNothing ==
  ASSUME HostInv, mode = "desktop", NEW r, NEW loss, NEW token, NEW yes \in BOOLEAN,
         Acts(r, loss, token, yes)
  PROVE  /\ \A q \in DOMAIN records : q \in DOMAIN records' /\ (Live(records'[q]) => Live(records[q]))
         /\ Register(r, loss) \/ DOMAIN records' = DOMAIN records
<1>1. \A q \in DOMAIN records : records[q].left \in Int
  BY DEF HostInv
<1>2. asked \subseteq DOMAIN records /\ shown \subseteq asked
  BY DEF HostInv
<1> DEFINE Goal ==
       /\ \A q \in DOMAIN records :
            q \in DOMAIN records' /\ (Live(records'[q]) => Live(records[q]))
       /\ Register(r, loss) \/ DOMAIN records' = DOMAIN records
<1>3. ASSUME NEW v, r \in DOMAIN records, Live(v) => Live(records[r]), records' = Put(records, r, v)
      PROVE  Goal
  BY <1>3 DEF Put
<1>4. ASSUME records' = records PROVE Goal
  BY <1>4
<1>5. \A q \in DOMAIN records : Live(Expire(records[q])) => Live(records[q])
  BY <1>1, ExpiredIsNotLive
<1>6. CASE Register(r, loss)
  <2>1. \/ records' \in {records, ExpireAll}
        \/ /\ records' = Put(ExpireAll, r, Record("pending", TTL, NoToken))
           /\ r \notin DOMAIN records
    BY <1>6 DEF Register, HostRegisters, AutomaticRegisters, approvalVars
  <2>2. \A q \in DOMAIN records : /\ q \in DOMAIN records'
                                  /\ records'[q] \in {records[q], Expire(records[q])}
    BY <2>1 DEF ExpireAll, Put
  <2> QED
    BY <1>5, <1>6, <2>2
<1>7. CASE Issue(r) \/ Show(r) \/ UNCHANGED approvalVars
  BY <1>4, <1>7 DEF Issue, Show, approvalVars
<1>8. CASE Poll(r)
  <2>1. records' = records \/ (r \in DOMAIN records /\ records' = Put(records, r, Expire(records[r])))
    BY <1>8 DEF Poll
  <2> QED
    BY <1>3, <1>4, <1>5, <2>1
<1>9. CASE Verify(r, token, loss)
  <2>1. \/ records' = records
        \/ /\ r \in DOMAIN records
           /\ \/ records' = Put(records, r, Expire(records[r]))
              \/ records' = Put(records, r, Record("used", -1, records[r].token))
    BY <1>9 DEF Verify, Verifies, approvalVars
  <2>2. ~Live(Record("used", -1, records[r].token))
    BY DEF Record, Live, Open
  <2> QED
    BY <1>3, <1>4, <1>5, <2>1, <2>2
<1>10. CASE Decide(r, yes)
  <2>1. r \in DOMAIN records
    BY <1>2, <1>10 DEF Decide
  <2>2. \/ records' = records
        \/ \E v : records' = Put(records, r, v) /\ (Live(v) => Live(records[r]))
    <3>1. CASE records[r].state # "pending"
      BY <1>10, <3>1 DEF Decide
    <3>2. CASE records[r].state = "pending" /\ Decision(r, yes) = "approved"
      <4>1. records' = Put(records, r, Record("approved", records[r].left, NewToken))
        BY <1>10, <3>2 DEF Decide
      <4>2. Live(records[r])
        BY <1>1, <2>1, <3>2 DEF Decision, Live, Open
      <4> QED
        BY <4>1, <4>2
    <3>3. CASE records[r].state = "pending" /\ Decision(r, yes) # "approved"
      <4>1. records' = Put(records, r, Record(Decision(r, yes), -1, NoToken))
        BY <1>10, <3>3 DEF Decide
      <4>2. ~Live(Record(Decision(r, yes), -1, NoToken))
        BY DEF Record, Live
      <4> QED
        BY <4>1, <4>2
    <3> QED
      BY <3>1, <3>2, <3>3
  <2> QED
    BY <1>3, <1>4, <2>1, <2>2
<1>11. CASE Tick
  <2>1. /\ DOMAIN records' = DOMAIN records
        /\ \A q \in DOMAIN records :
             records'[q] = Record(records[q].state, Less(records[q].left), records[q].token)
    BY <1>11 DEF Tick
  <2> QED
    BY <1>1, <2>1, OlderIsNotLive
<1> QED
  BY <1>6, <1>7, <1>8, <1>9, <1>10, <1>11 DEF Acts

LEMMA ModeKept == ASSUME [Next]_vars PROVE mode' = mode
<1>1. ASSUME NEW r, NEW loss, NEW token, NEW yes, Acts(r, loss, token, yes)
      PROVE  mode' = mode
  BY <1>1 DEF Acts, Register, HostRegisters, AutomaticRegisters, Issue, Poll, Show, Verify,
       Verifies, Decide, Tick, approvalVars
<1>2. Ends => mode' = mode
  BY DEF Ends
<1> QED
  BY <1>1, <1>2, OneAct

(* While a plan is being carried out, nothing else is put to the host.      *)
LEMMA OccupiedSteps ==
  ASSUME [Next]_vars, call.at \in Occupied
  PROVE  Ends \/ UNCHANGED approvalVars \/ Person \/ Tick
<1>1. /\ ~Idle /\ call.at \notin {"register", "node"} /\ call.at \notin NodeSteps
  BY DEF Occupied, Idle, NodeSteps
<1>2. CASE SessionCall
  <2>1. ~ToolCall
    BY <1>1, ToolsOnly
  <2>2. PlanCall => UNCHANGED approvalVars
    <3>1. \A c, s, p, token, loss :
            ~(Propose(c) \/ Validate(c) \/ Promote(c) \/ PreviewPlan(s, c)
              \/ ApplyPlan(s, p, token, loss) \/ RegisterPlan(loss))
      BY <1>1 DEF Propose, Validate, Promote, PreviewPlan, ApplyPlan, RegisterPlan
    <3>2. \A f, result, changed : WriteTrace(f) \/ Execute(result, changed) => UNCHANGED approvalVars
      BY DEF WriteTrace, Execute
    <3> QED
      BY <3>1, <3>2 DEF PlanCall
  <2>3. /\ \A s : ~Attach(s) /\ \A f : ~Release(s, f)
        /\ \A s, p : ~Wait(s, p) /\ ~Unanswered(s, p)
    BY <1>1 DEF Attach, Release, Wait, Unanswered, WorkerEnds
  <2>4. Edit => UNCHANGED approvalVars
    BY DEF Edit
  <2> QED
    BY <1>2, <2>1, <2>2, <2>3, <2>4 DEF SessionCall
<1>3. ~FlowCall /\ ~RunNode /\ ~RecordNode
  <2>1. ~FlowCall
    <3>1. \A s, p, token, opToken, loss :
            ~(PreviewStart(s, loss) \/ PreviewAdvance(s, loss) \/ ApplyStart(s, token, loss)
              \/ ApplyAdvance(s, p, token, opToken, loss))
      BY <1>1 DEF PreviewStart, PreviewAdvance, ApplyStart, ApplyAdvance
    <3> QED
      BY <3>1 DEF FlowCall
  <2>2. ~RunNode
    BY <1>1 DEF RunNode, NodeFails, WorkerEnds, ReadNode, PollNode, ScoreNode, PreviewNode, ApplyNode, Applies
  <2> QED
    BY <1>1, <2>1, <2>2 DEF RecordNode
<1>4. Stop \/ (\E f \in Writes : Close(f)) => Ends
  BY DEF Stop, Crash, Close
<1>5. Switch \/ UNCHANGED vars => UNCHANGED approvalVars
  BY DEF Switch, vars, liveVars
<1> QED
  BY <1>2, <1>3, <1>4, <1>5 DEF Next

LEMMA RevivesNothing ==
  ASSUME HostInv, mode = "desktop", [Next]_vars
  PROVE  /\ \A q \in DOMAIN records : q \in DOMAIN records' /\ (Live(records'[q]) => Live(records[q]))
         /\ call.at \in Occupied => (Busy' => Busy)
<1>1. Ends => records' = records
  BY DEF Ends
<1>2. \A q \in DOMAIN records : q \in DOMAIN records' /\ (Live(records'[q]) => Live(records[q]))
  BY <1>1, OneAct, ActRevivesNothing
<1>3. ASSUME call.at \in Occupied PROVE DOMAIN records' = DOMAIN records
  <2>1. CASE Ends \/ UNCHANGED approvalVars
    BY <1>1, <2>1 DEF approvalVars
  <2>2. CASE Person
    BY <2>2 DEF Person, Show, Issue, Decide, Put, HostInv
  <2>3. CASE Tick
    BY <2>3 DEF Tick
  <2> QED
    BY <1>3, <2>1, <2>2, <2>3, OccupiedSteps
<1> QED
  BY <1>2, <1>3 DEF Busy

LEMMA ActKeepsTokens ==
  ASSUME HostInv, HasToken, mode = "desktop", NEW r, NEW loss, NEW token, NEW yes \in BOOLEAN,
         Acts(r, loss, token, yes)
  PROVE  HasToken'
<1> DEFINE Given(v) == v.state = "approved" => v.token # NoToken
           Stays(v, w) == Given(v) => Given(w)
<1>1. /\ \A v : Stays(v, Expire(v))
      /\ \A state, left, t : state # "approved" => Given(Record(state, left, t))
      /\ \A v, left : Stays(v, Record(v.state, left, v.token))
      /\ \A left : Fresh # {} => Given(Record("approved", left, NewToken))
  BY NewIsNew, NoTokenAssumption DEF Expire, Record
<1>2. ASSUME NEW q, NEW v, records' = Put(records, q, v), Given(v)
      PROVE  HasToken'
  BY <1>2 DEF HasToken, Put
<1>3. ASSUME records' = records PROVE HasToken'
  BY <1>3 DEF HasToken
<1>4. asked \subseteq DOMAIN records /\ shown \subseteq asked
  BY DEF HostInv
<1>5. \A q \in DOMAIN records : Given(records[q]) /\ Given(Expire(records[q]))
  BY <1>1 DEF HasToken
<1> HIDE DEF Given, Stays
<1>6. CASE Register(r, loss)
  <2>1. records' \in {records, ExpireAll, Put(ExpireAll, r, Record("pending", TTL, NoToken))}
    BY <1>6 DEF Register, HostRegisters, AutomaticRegisters, approvalVars
  <2>2. Given(Record("pending", TTL, NoToken))
    BY <1>1
  <2>3. \A q \in DOMAIN records' : Given(records'[q])
    BY <1>5, <2>1, <2>2 DEF ExpireAll, Put
  <2> QED
    BY <2>3 DEF HasToken, Given
<1>7. CASE Issue(r) \/ Show(r) \/ UNCHANGED approvalVars
  BY <1>3, <1>7 DEF Issue, Show, approvalVars
<1>8. CASE Poll(r)
  <2>1. records' = records \/ (r \in DOMAIN records /\ records' = Put(records, r, Expire(records[r])))
    BY <1>8 DEF Poll
  <2> QED
    BY <1>2, <1>3, <1>5, <2>1
<1>9. CASE Verify(r, token, loss)
  <2>1. \/ records' = records
        \/ /\ r \in DOMAIN records
           /\ \/ records' = Put(records, r, Expire(records[r]))
              \/ records' = Put(records, r, Record("used", -1, records[r].token))
    BY <1>9 DEF Verify, Verifies, approvalVars
  <2> QED
    BY <1>1, <1>2, <1>3, <1>5, <2>1
<1>10. CASE Decide(r, yes)
  <2>1. CASE records[r].state # "pending"
    BY <1>3, <1>10, <2>1 DEF Decide
  <2>2. CASE records[r].state = "pending" /\ Decision(r, yes) = "approved"
    <3>1. Fresh # {} /\ records' = Put(records, r, Record("approved", records[r].left, NewToken))
      BY <1>10, <2>2 DEF Decide
    <3> QED
      BY <1>1, <1>2, <3>1
  <2>3. CASE records[r].state = "pending" /\ Decision(r, yes) # "approved"
    <3>1. records' = Put(records, r, Record(Decision(r, yes), -1, NoToken))
      BY <1>10, <2>3 DEF Decide
    <3> QED
      BY <1>1, <1>2, <2>3, <3>1
  <2> QED
    BY <2>1, <2>2, <2>3
<1>11. CASE Tick
  <2>1. /\ DOMAIN records' = DOMAIN records
        /\ \A q \in DOMAIN records :
             records'[q] = Record(records[q].state, Less(records[q].left), records[q].token)
    BY <1>11 DEF Tick
  <2>2. \A q \in DOMAIN records' : Given(records'[q])
    BY <1>1, <1>5, <2>1 DEF Stays
  <2> QED
    BY <2>2 DEF HasToken, Given
<1> QED
  BY <1>6, <1>7, <1>8, <1>9, <1>10, <1>11 DEF Acts

LEMMA KeepsTokens ==
  ASSUME HostInv, HasToken, mode = "desktop", [Next]_vars
  PROVE  HasToken'
<1>1. Ends => HasToken'
  BY DEF Ends, HasToken
<1> QED
  BY <1>1, OneAct, ActKeepsTokens

LEMMA TaintParts ==
  TaintInv <=> /\ AboutPlans
               /\ mode = "desktop" => HasToken /\ PutToHost /\ NoneTainted /\ HostFree /\ CallUntainted
BY DEF TaintInv

LEMMA TaintPartsNext ==
  TaintInv' <=> /\ AboutPlans'
                /\ mode' = "desktop" => HasToken' /\ PutToHost' /\ NoneTainted' /\ HostFree' /\ CallUntainted'
BY DEF TaintInv

LEMMA ThisPlan == ThisCall[1] = call.s /\ ThisCall[2] = call.p
BY DEF ThisCall

LEMMA StaysUntainted ==
  ASSUME HostInv, mode = "desktop", [Next]_vars, PutToHost, NoneTainted, AboutPlans,
         pv' \subseteq pv, tainted' \subseteq tainted
  PROVE  NoneTainted'
<1> SUFFICES ASSUME NEW r \in pv', r \in DOMAIN records', Waits(r), Live(records'[r]), r[1] \in tainted'
             PROVE  FALSE
  BY DEF NoneTainted, Waits, Plan, Row
<1>1. r \in pv /\ r[1] \in tainted
  OBVIOUS
<1>2. CASE r \in DOMAIN records
  BY <1>1, <1>2, RevivesNothing DEF NoneTainted
<1>3. CASE r \notin DOMAIN records
  BY <1>1, <1>3, ThisPlan DEF PutToHost, AboutPlans
<1> QED
  BY <1>2, <1>3

LEMMA ElseUntainted ==
  ASSUME HostInv, TaintInv, [Next]_vars, UNCHANGED <<pv, tainted, outcome>>,
         call' = call \/ (call.at \notin PlanSteps /\ call'.at \notin PlanSteps)
  PROVE  TaintInv'
<1>1. AboutPlans'
  BY TaintParts DEF AboutPlans, PlanSteps, WriteSteps, Plan, Row
<1>2. ASSUME mode = "desktop"
      PROVE  HasToken' /\ PutToHost' /\ NoneTainted' /\ HostFree' /\ CallUntainted'
  <2>1. PutToHost /\ NoneTainted /\ HostFree /\ CallUntainted /\ AboutPlans /\ HasToken'
    BY <1>2, TaintParts, KeepsTokens
  <2>2. NoneTainted'
    BY <1>2, <2>1, StaysUntainted
  <2>3. \A r \in pv : Waits(r) => \/ r \in DOMAIN records'
                                  \/ call.at \in {"previewed", "register"} /\ r = ThisCall
    BY <1>2, <2>1, RevivesNothing DEF PutToHost
  <2>4. CASE call' = call
    <3>1. ThisCall' = ThisCall
      BY <2>4 DEF ThisCall
    <3>2. PutToHost'
      BY <2>3, <2>4, <3>1 DEF PutToHost, Waits, Plan, Row
    <3>3. HostFree'
      BY <1>2, <2>1, <2>4, <3>1, RevivesNothing DEF HostFree, Waits, Plan, Row
    <3>4. CallUntainted'
      BY <2>1, <2>4, <3>1 DEF CallUntainted, Waits, Plan, Row
    <3> QED
      BY <2>1, <2>2, <3>2, <3>3, <3>4
  <2>5. CASE call.at \notin PlanSteps /\ call'.at \notin PlanSteps
    BY <2>1, <2>2, <2>3, <2>5 DEF PutToHost, HostFree, CallUntainted, Occupied, PlanSteps, WriteSteps,
       Waits, Plan, Row
  <2> QED
    BY <2>4, <2>5
<1> QED
  BY <1>1, <1>2, ModeKept, TaintPartsNext

LEMMA PreviewUntainted ==
  ASSUME HostInv, TaintInv, SessionsInv, [Next]_vars, NEW d \in use.plans, NEW s, PreviewPlan(s, d)
  PROVE  TaintInv'
<1>1. PICK p, r, at : /\ Plan(p) = d /\ Plan(r[2]) = d /\ r = <<s, p>> /\ r[1] = s
                      /\ (pv' = pv \cup {r} /\ at = "previewed") \/ (pv' = pv /\ at = "failed")
                      /\ call' = Call(at, s, p, NoToken) /\ at \in {"previewed", "failed"}
  <2>1. PICK p : p = <<explore(d), design>>
    OBVIOUS
  <2>2. Plan(p) = d /\ Plan(<<s, p>>[2]) = d
    BY <2>1, PlanOf
  <2>0. PICK r : r = <<s, p>>
    OBVIOUS
  <2>3. r = <<s, p>> /\ r[1] = s
    BY <2>0
  <2>4. \/ pv' = pv \cup {r} /\ call' = Call("previewed", s, p, NoToken)
        \/ pv' = pv /\ call' = Call("failed", s, p, NoToken)
    BY <2>1, <2>3 DEF PreviewPlan
  <2>5. Plan(r[2]) = d
    BY <2>2, <2>3
  <2> QED
    BY <2>2, <2>3, <2>4, <2>5
<1>2. /\ Idle /\ UNCHANGED <<tainted, outcome, approvalVars>> /\ s \notin tainted
  BY DEF PreviewPlan, Explorable
<1>3. /\ call'.at = at /\ call'.s = s /\ call'.p = p /\ ThisCall' = r
  BY <1>1 DEF Call, ThisCall
<1>4. d \in Plans
  BY UsesAssumption DEF SessionsInv
<1>5. AboutPlans'
  BY <1>1, <1>2, <1>3, <1>4, TaintParts DEF AboutPlans, Plan, Row
<1>6. ASSUME mode = "desktop"
      PROVE  HasToken' /\ PutToHost' /\ NoneTainted' /\ HostFree' /\ CallUntainted'
  <2>1. PutToHost /\ NoneTainted /\ HasToken'
    BY <1>6, TaintParts, KeepsTokens
  <2>2. records' = records /\ call.at = "idle"
    BY <1>2 DEF approvalVars, Idle
  <2>3. PutToHost'
    <3>1. \A q \in pv : Waits(q) => q \in DOMAIN records'
      BY <2>1, <2>2 DEF PutToHost
    <3>2. pv' = pv \/ (pv' = pv \cup {r} /\ call'.at = "previewed" /\ r = ThisCall')
      BY <1>1, <1>3
    <3> QED
      BY <3>1, <3>2 DEF PutToHost, Waits, Plan, Row
  <2>4. NoneTainted'
    BY <1>1, <1>2, <2>1, <2>2 DEF NoneTainted, Waits, Plan, Row
  <2> QED
    BY <1>1, <1>3, <2>1, <2>3, <2>4 DEF HostFree, CallUntainted, Occupied
<1> QED
  BY <1>5, <1>6, ModeKept, TaintPartsNext

LEMMA RegisterUntainted ==
  ASSUME HostInv, TaintInv, SessionsInv, [Next]_vars, NEW loss, RegisterPlan(loss)
  PROVE  TaintInv'
<1>1. PICK r : r = ThisCall
  OBVIOUS
<1>2. /\ call.at = "register" /\ UNCHANGED <<tainted, outcome>> /\ Register(r, loss)
      /\ pv' = IF RegisterAnswer(r, loss) = "refused" THEN pv \ {r} ELSE pv
      /\ call' = NoCall \/ \E at \in {"decided", "rejected", "expired", "failed"} : Goto(at)
  BY <1>1 DEF RegisterPlan, Asks, AfterAnswer, ThisCall
<1>3. \/ call'.at = "idle"
      \/ call'.at \in {"decided", "rejected", "expired", "failed"} /\ call'.p = call.p
  BY <1>2, CallSteps DEF NoCall, Call
<1>4. AboutPlans'
  BY <1>2, <1>3, OtherSteps, TaintParts DEF AboutPlans, PlanSteps, WriteSteps, Plan, Row
<1>5. ASSUME mode = "desktop"
      PROVE  HasToken' /\ PutToHost' /\ NoneTainted' /\ HostFree' /\ CallUntainted'
  <2>1. PutToHost /\ NoneTainted /\ AboutPlans /\ HasToken'
    BY <1>5, TaintParts, KeepsTokens
  <2>2. NoneTainted'
    BY <1>2, <1>5, <2>1, StaysUntainted
  <2>3. RegisterAnswer(r, loss) # "refused" => r \in DOMAIN records'
    <3>1. CASE loss # "none"
      BY <1>5, <3>1 DEF RegisterAnswer
    <3>2. CASE loss = "none" /\ r \in DOMAIN records
      BY <1>5, <3>2, RevivesNothing
    <3>3. CASE loss = "none" /\ r \notin DOMAIN records
      <4>1. HostRegisters(r)
        BY <1>2, <1>5, <3>3 DEF Register, AutomaticRegisters
      <4>2. RegisterAnswer(r, loss) # "refused" => ~Busy
        BY <1>5, <3>3 DEF RegisterAnswer, HostAnswer
      <4> QED
        BY <3>3, <4>1, <4>2 DEF HostRegisters, Put
    <3> QED
      BY <3>1, <3>2, <3>3
  <2>4. PutToHost'
    <3>1. \A q \in pv : Waits(q) => q \in DOMAIN records \/ q = r
      BY <1>1, <2>1 DEF PutToHost
    <3>2. \A q \in DOMAIN records : q \in DOMAIN records'
      BY <1>5, RevivesNothing
    <3>3. \A q \in pv' : Waits(q) => q \in DOMAIN records'
      BY <1>2, <2>3, <3>1, <3>2
    <3> QED
      BY <3>3 DEF PutToHost, Waits, Plan, Row
  <2> QED
    BY <1>3, <2>1, <2>2, <2>4 DEF HostFree, CallUntainted, Occupied
<1> QED
  BY <1>4, <1>5, ModeKept, TaintPartsNext

(* An approval is accepted in a session that is not tainted, and there is    *)
(* no other.                                                                *)
LEMMA ApplyUntainted ==
  ASSUME HostInv, TaintInv, [Next]_vars, NEW s, NEW p, NEW token, NEW loss,
         ApplyPlan(s, p, token, loss)
  PROVE  TaintInv'
<1>0. PICK r : r = <<s, p>>
  OBVIOUS
<1>1. r = <<s, p>> /\ r[1] = s /\ r[2] = p
  BY <1>0
<1>2. /\ Idle /\ UNCHANGED <<pv, tainted, outcome>> /\ r \in pv
      /\ \/ call' = NoCall
         \/ call' = Call("execute", s, p, NoToken) /\ Plan(p) \in ReadOnly
         \/ /\ call' = Call("authorized", s, p, token) /\ VerifyAnswer(r, token, loss)
            /\ Verify(r, token, loss)
  BY <1>1 DEF ApplyPlan, exploreVars
<1>3. \/ call'.at = "idle"
      \/ /\ call'.at \in {"execute", "authorized"} /\ call'.p = p /\ call'.s = s /\ ThisCall' = r
         /\ call'.at = "execute" => Plan(p) \in ReadOnly
         /\ call'.at = "authorized" => VerifyAnswer(r, token, loss) /\ Verify(r, token, loss)
  BY <1>1, <1>2 DEF NoCall, Call, ThisCall
<1>4. AboutPlans'
  <2>1. Plan(p) \in Plans
    BY <1>1, <1>2, TaintParts DEF AboutPlans
  <2> QED
    BY <1>2, <1>3, <2>1, OtherSteps, TaintParts DEF AboutPlans, Plan, Row
<1>5. ASSUME mode = "desktop"
      PROVE  HasToken' /\ PutToHost' /\ NoneTainted' /\ HostFree' /\ CallUntainted'
  <2>1. PutToHost /\ NoneTainted /\ AboutPlans /\ HasToken'
    BY <1>5, TaintParts, KeepsTokens
  <2>2. NoneTainted'
    BY <1>2, <1>5, <2>1, StaysUntainted
  <2>3. PutToHost'
    <3>1. \A q \in DOMAIN records : q \in DOMAIN records'
      BY <1>5, RevivesNothing
    <3> QED
      BY <1>2, <2>1, <3>1 DEF PutToHost, Idle, Waits, Plan, Row
  <2>4. ASSUME VerifyAnswer(r, token, loss), Verify(r, token, loss), Waits(r)
        PROVE  ~Busy' /\ s \notin tainted
    <3>1. r \in DOMAIN records /\ Live(records[r]) /\ Verifies(r, token) /\ Accepts(r, token)
      BY <1>5, <2>4 DEF VerifyAnswer, Accepts, Verify, Live, Open
    <3>2. s \notin tainted
      BY <1>1, <1>2, <2>1, <2>4, <3>1 DEF NoneTainted
    <3>3. \A q \in DOMAIN records : Live(records[q]) => q = r
      BY <1>5, <3>1 DEF HostInv
    <3>4. token # NoToken
      BY <1>5, <3>1, TaintParts DEF HasToken, Accepts
    <3>5. records' = Put(records, r, Record("used", -1, records[r].token))
      BY <1>5, <3>1, <3>4 DEF Verifies
    <3>6. ~Live(Record("used", -1, records[r].token))
      BY DEF Record, Live, Open
    <3> QED
      BY <3>2, <3>3, <3>5, <3>6 DEF Busy, Put
  <2>5. CASE call'.at = "idle"
    BY <2>1, <2>2, <2>3, <2>5 DEF HostFree, CallUntainted, Occupied
  <2>6. CASE call'.at \in {"execute", "authorized"} /\ ThisCall' = r
    <3>1. Waits(ThisCall)' => Waits(r)
      BY <2>6 DEF Waits, Plan, Row
    <3>2. Waits(r) => call'.at # "execute"
      BY <1>1, <1>3, <2>6 DEF Waits
    <3>3. HostFree' /\ CallUntainted'
      BY <1>2, <1>3, <2>4, <2>6, <3>1, <3>2 DEF HostFree, CallUntainted, Waits, Plan, Row
    <3> QED
      BY <2>1, <2>2, <2>3, <3>3
  <2> QED
    BY <1>3, <2>5, <2>6
<1> QED
  BY <1>4, <1>5, ModeKept, TaintPartsNext

(* A call ends, or goes on without the host, and takes nothing new up.      *)
LEMMA EasesUntainted ==
  ASSUME HostInv, TaintInv, [Next]_vars, pv' \subseteq pv, tainted' \subseteq tainted,
         outcome' = outcome,
         call'.at \notin Occupied \cup {"previewed", "register"},
         call'.at \in PlanSteps => Plan(call'.p) \in Plans,
         call.at \in {"previewed", "register"} /\ ThisCall \in pv' => ~Waits(ThisCall)
  PROVE  TaintInv'
<1>1. AboutPlans'
  BY TaintParts DEF AboutPlans, Plan, Row
<1>2. ASSUME mode = "desktop"
      PROVE  HasToken' /\ PutToHost' /\ NoneTainted' /\ HostFree' /\ CallUntainted'
  <2>1. PutToHost /\ NoneTainted /\ AboutPlans /\ HasToken'
    BY <1>2, TaintParts, KeepsTokens
  <2>2. NoneTainted'
    BY <1>2, <2>1, StaysUntainted
  <2>3. \A r \in pv' : Waits(r) => r \in DOMAIN records'
    BY <1>2, <2>1, RevivesNothing DEF PutToHost
  <2>4. PutToHost' /\ HostFree' /\ CallUntainted'
    BY <2>3 DEF PutToHost, HostFree, CallUntainted, Occupied, Waits, Plan, Row
  <2> QED
    BY <2>1, <2>2, <2>4
<1> QED
  BY <1>1, <1>2, ModeKept, TaintPartsNext

(* A call under way goes on, and what it needs of the host does not change. *)
LEMMA GoesOnUntainted ==
  ASSUME HostInv, TaintInv, [Next]_vars, pv' \subseteq pv, tainted' = tainted,
         UNCHANGED approvalVars,
         \A c \in Plans : outcome'[c] = "rollback_failed" => c \notin ReadOnly,
         call.at \in PlanSteps, call'.p = call.p, call'.s = call.s,
         call'.at \in {"previewed", "register"} => call.at \in {"previewed", "register"},
         call.at \in {"previewed", "register"} /\ ThisCall \in pv' =>
           ~Waits(ThisCall) \/ call'.at \in {"previewed", "register"},
         call'.at \in Occupied => call.at \in Occupied,
         call'.at \in {"authorized", "execute"} => call.at \in {"authorized", "execute"}
  PROVE  TaintInv'
<1>1. AboutPlans'
  BY TaintParts DEF AboutPlans, Plan, Row
<1>2. ThisCall' = ThisCall /\ records' = records /\ (Busy' <=> Busy)
  BY DEF ThisCall, approvalVars, Busy
<1>3. ASSUME mode = "desktop"
      PROVE  HasToken' /\ PutToHost' /\ NoneTainted' /\ HostFree' /\ CallUntainted'
  <2>1. PutToHost /\ NoneTainted /\ AboutPlans /\ HostFree /\ CallUntainted /\ HasToken'
    BY <1>3, TaintParts, KeepsTokens
  <2>2. NoneTainted'
    BY <1>3, <2>1, StaysUntainted
  <2>3. \A r \in pv' : Waits(r) => \/ r \in DOMAIN records
                                   \/ call'.at \in {"previewed", "register"} /\ r = ThisCall
    BY <2>1 DEF PutToHost
  <2>4. PutToHost'
    BY <1>2, <2>3 DEF PutToHost, Waits, Plan, Row
  <2>5. HostFree'
    BY <1>2, <2>1 DEF HostFree, Waits, Plan, Row
  <2>6. CallUntainted'
    BY <1>2, <2>1 DEF CallUntainted, Waits, Plan, Row
  <2> QED
    BY <2>1, <2>2, <2>4, <2>5, <2>6
<1> QED
  BY <1>1, <1>3, ModeKept, TaintPartsNext

LEMMA ExecuteUntainted ==
  ASSUME SessionsInv, HostInv, TraceInv, TaintInv, [Next]_vars, NEW result, NEW changed,
         Execute(result, changed)
  PROVE  TaintInv'
<1>1. PICK c : c = Plan(call.p)
  OBVIOUS
<1>2. /\ call.at = "execute" /\ UNCHANGED <<approvalVars, tainted>> /\ pv' \subseteq pv
      /\ \E at \in {"failed", "stale", "applied"} : Goto(at)
      /\ outcome' = [outcome EXCEPT ![c] = result]
      /\ result = "rollback_failed" => c \notin ReadOnly
  BY <1>1 DEF Execute, MayEnd
<1>3. call'.at \in {"failed", "stale", "applied"} /\ call'.p = call.p /\ call'.s = call.s
  BY <1>2, CallSteps
<1>4. \A d \in Plans : outcome'[d] = "rollback_failed" => d \notin ReadOnly
  BY <1>2, TaintParts DEF AboutPlans, TraceInv
<1> QED
  BY <1>2, <1>3, <1>4, GoesOnUntainted DEF PlanSteps, Occupied

LEMMA WriteUntainted ==
  ASSUME SessionsInv, HostInv, TaintInv, [Next]_vars, NEW f, WriteTrace(f)
  PROVE  TaintInv'
<1>1. PICK c, r : c = Plan(call.p) /\ r = ThisCall
  OBVIOUS
<1> DEFINE done == f = "ok" /\ (Written(call.at, c) \/ Wanted(call.at, c) \in Moves[trace[c]])
           failing == done /\ outcome[c] = "rollback_failed"
<1>2. /\ call.at \in WriteSteps /\ UNCHANGED <<approvalVars, outcome>> /\ pv' \subseteq pv
      /\ call.at = "previewed" /\ ~done => pv' = pv \ {r}
      /\ tainted' = IF failing /\ call.at = "closed" THEN tainted \cup {call.s} ELSE tainted
      /\ IF done /\ NextStep(call.at, c) # "idle" THEN Goto(NextStep(call.at, c)) ELSE call' = NoCall
  BY <1>1 DEF WriteTrace, ThisCall
<1> HIDE DEF done, failing
<1>3. CASE done /\ NextStep(call.at, c) # "idle"
  <2>1. /\ call'.at = NextStep(call.at, c) /\ call'.p = call.p /\ call'.s = call.s
    BY <1>2, <1>3, CallSteps
  <2>2. \/ call.at = "previewed" /\ NextStep(call.at, c) = "register"
        \/ call.at = "authorized" /\ NextStep(call.at, c) = "execute"
        \/ call.at = "applied" /\ NextStep(call.at, c) = "closed"
    BY <1>2, <1>3 DEF NextStep
  <2>3. \A d \in Plans : outcome'[d] = "rollback_failed" => d \notin ReadOnly
    BY <1>2, TaintParts DEF AboutPlans
  <2>4. tainted' = tainted
    BY <1>2, <2>2
  <2> QED
    BY <1>2, <2>1, <2>2, <2>3, <2>4, GoesOnUntainted DEF PlanSteps, Occupied
<1>4. CASE call' = NoCall /\ tainted' = tainted
  <2>1. call'.at = "idle" /\ "idle" \notin PlanSteps
    BY <1>4, OtherSteps DEF NoCall, Call
  <2>2. call.at = "previewed" /\ done => ~Waits(ThisCall)
    <3>1. call.at = "previewed" /\ done /\ c \notin ReadOnly => call'.at = "register"
      BY <1>2, CallSteps DEF NextStep
    <3> QED
      BY <1>1, <2>1, <3>1, ThisPlan DEF Waits
  <2>3. call.at = "previewed" /\ ~done => ThisCall \notin pv'
    BY <1>1, <1>2
  <2>4. call.at # "register"
    BY <1>2 DEF WriteSteps
  <2> QED
    BY <1>2, <1>4, <2>1, <2>2, <2>3, <2>4, EasesUntainted DEF Occupied
<1>5. CASE call' = NoCall /\ failing /\ call.at = "closed"
  <2>1. call'.at = "idle" /\ "idle" \notin PlanSteps
    BY <1>5, OtherSteps DEF NoCall, Call
  <2>2. AboutPlans'
    BY <1>2, <2>1, TaintParts DEF AboutPlans, Plan, Row
  <2>3. ASSUME mode = "desktop"
        PROVE  HasToken' /\ PutToHost' /\ NoneTainted' /\ HostFree' /\ CallUntainted'
    <3>1. AboutPlans /\ PutToHost /\ HostFree /\ HasToken'
      BY <2>3, TaintParts, KeepsTokens
    <3>2. Waits(ThisCall)
      BY <1>1, <1>5, <3>1, ThisPlan DEF AboutPlans, Waits, PlanSteps, WriteSteps, failing
    <3>3. ~Busy /\ records' = records
      BY <1>2, <1>5, <3>1, <3>2 DEF HostFree, Occupied, approvalVars
    <3>4. NoneTainted'
      BY <3>3 DEF NoneTainted, Busy
    <3>5. \A q \in pv' : Waits(q) => q \in DOMAIN records'
      BY <1>2, <1>5, <3>1, <3>3 DEF PutToHost
    <3>6. PutToHost' /\ HostFree' /\ CallUntainted'
      BY <2>1, <3>5 DEF PutToHost, HostFree, CallUntainted, Occupied, Waits, Plan, Row
    <3> QED
      BY <3>1, <3>4, <3>6
  <2> QED
    BY <2>2, <2>3, ModeKept, TaintPartsNext
<1> QED
  BY <1>2, <1>3, <1>4, <1>5

LEMMA CallUntaints ==
  ASSUME SessionsInv, HostInv, TaintInv, [Next]_vars,
         \/ \E c \in use.plans : Propose(c) \/ Validate(c) \/ Promote(c)
         \/ \E x \in contexts : Wait(x[1], x[2])
  PROVE  TaintInv'
<1>1. ASSUME NEW c \in use.plans, Propose(c) \/ Promote(c)
      PROVE  TaintInv'
  BY <1>1, ElseUntainted DEF Propose, Promote
<1>2. ASSUME NEW c \in use.plans, Validate(c)
      PROVE  TaintInv'
  <2>1. /\ call.at = "idle" /\ UNCHANGED <<pv, tainted, outcome>>
        /\ call'.at \in {"validated", "failed"} /\ Plan(call'.p) = c
    BY <1>2, PlanOf DEF Validate, Idle, exploreVars, Call
  <2>2. c \in Plans
    BY UsesAssumption DEF SessionsInv
  <2> QED
    BY <2>1, <2>2, EasesUntainted DEF Occupied
<1>3. ASSUME NEW s, NEW p, Wait(s, p)
      PROVE  TaintInv'
  <2>1. PICK r : r = <<s, p>>
    OBVIOUS
  <2>2. r[2] = p
    BY <2>1
  <2>3. /\ call.at = "idle" /\ UNCHANGED <<pv, tainted, outcome>>
        /\ \/ call' = NoCall
           \/ \E at \in {"decided", "rejected", "expired", "failed"} :
                r \in pv /\ call' = Call(at, s, p, NoToken)
    BY <1>3, <2>1 DEF Wait, Idle, exploreVars, AfterAnswer
  <2>4. \/ call'.at = "idle"
        \/ call'.at \in {"decided", "rejected", "expired", "failed"} /\ call'.p = p /\ r \in pv
    BY <2>3 DEF NoCall, Call
  <2>5. r \in pv => Plan(p) \in Plans
    BY <2>2, TaintParts DEF AboutPlans
  <2>6. call'.at \in PlanSteps => Plan(call'.p) \in Plans
    BY <2>4, <2>5, OtherSteps
  <2> QED
    BY <2>3, <2>4, <2>6, EasesUntainted DEF Occupied
<1> QED
  BY <1>1, <1>2, <1>3

LEMMA EndsClear ==
  ASSUME \/ \E s \in Sessions, f \in Writes : Release(s, f)
         \/ \E f \in Writes : Close(f)
         \/ Stop
  PROVE  /\ pv' \subseteq pv /\ tainted' \subseteq tainted /\ UNCHANGED <<outcome, ran>>
         /\ call'.at = "idle" /\ (call.at = "idle" \/ pv' = {})
<1>1. ASSUME NEW s, NEW f, Release(s, f)
      PROVE  /\ pv' \subseteq pv /\ tainted' \subseteq tainted /\ UNCHANGED <<outcome, ran>>
             /\ call'.at = "idle" /\ call.at = "idle"
  BY <1>1 DEF Release, Idle, Forgotten
<1>2. ASSUME NEW f, Close(f)
      PROVE  /\ pv' = {} /\ tainted' = {} /\ UNCHANGED <<outcome, ran>>
             /\ call'.at = "idle" /\ call.at = "idle"
  BY <1>2 DEF Close, Ends, Idle
<1>3. Stop => pv' = {} /\ tainted' = {} /\ UNCHANGED <<outcome, ran>> /\ call'.at = "idle"
  BY DEF Stop, Crash, Ends, NoCall, Call
<1> QED
  BY <1>1, <1>2, <1>3

LEMMA EndsUntaint ==
  ASSUME HostInv, TaintInv, [Next]_vars,
         \/ \E s \in Sessions, f \in Writes : Release(s, f)
         \/ \E f \in Writes : Close(f)
         \/ Stop
  PROVE  TaintInv'
BY EndsClear, OtherSteps, EasesUntainted DEF Occupied

(* What has nothing to do with plans.                                       *)
LEMMA NoPlans ==
  ASSUME SessionsInv,
         \/ ToolCall \/ (\E s \in Sessions : Attach(s)) \/ Edit
         \/ \E s \in Sessions, tool \in ReadTools \cup DirectTools : Unanswered(s, tool)
         \/ FlowCall \/ RunNode \/ RecordNode
         \/ (Person \/ Tick) /\ UNCHANGED <<sessionVars, exploreVars, call, graphVars>>
         \/ Switch \/ UNCHANGED vars
  PROVE  /\ UNCHANGED <<pv, tainted, outcome>>
         /\ call' = call \/ (call.at \notin PlanSteps /\ call'.at \notin PlanSteps)
<1> DEFINE Quiet == UNCHANGED <<pv, tainted, outcome>>
           Same == Quiet /\ call' = call
           Elsewhere == Quiet /\ call.at \notin PlanSteps /\ call'.at \notin PlanSteps
<1>1. CASE ToolCall
  <2>1. \A s, tool, p, token, loss :
          PreviewTool(s, tool, loss) \/ ApplyTool(s, tool, p, token, loss) => Same
    BY DEF PreviewTool, ApplyTool, Applies, exploreVars
  <2> QED
    BY <1>1, <2>1 DEF ToolCall
<1>2. CASE \/ (\E s \in Sessions : Attach(s)) \/ Edit
           \/ \E s \in Sessions, tool \in ReadTools \cup DirectTools : Unanswered(s, tool)
           \/ (Person \/ Tick) /\ UNCHANGED <<sessionVars, exploreVars, call, graphVars>>
           \/ Switch \/ UNCHANGED vars
  <2>1. Same
    BY <1>2 DEF Attach, Edit, Unanswered, WorkerEnds, Switch, vars, liveVars, exploreVars
  <2> QED
    BY <2>1
<1>3. CASE FlowCall
  <2>1. \A s, loss : PreviewStart(s, loss) \/ PreviewAdvance(s, loss) => Same
    BY DEF PreviewStart, PreviewAdvance, Previews, exploreVars
  <2>2. \A s, token, loss : ApplyStart(s, token, loss) => Same
    BY DEF ApplyStart, Authorizes, exploreVars
  <2>3. \A s, p, token, opToken, loss : ApplyAdvance(s, p, token, opToken, loss) => Same \/ Elsewhere
    <3>1. \A s, p, token, opToken, loss : ApplyAdvance(s, p, token, opToken, loss) =>
            Quiet /\ call.at = "idle" /\ (call' = call \/ call'.at = "node")
      BY DEF ApplyAdvance, Authorizes, exploreVars, Call, Idle
    <3> QED
      BY <3>1, OtherSteps DEF NodeSteps
  <2>4. Same \/ Elsewhere
    BY <1>3, <2>1, <2>2, <2>3 DEF FlowCall
  <2> QED
    BY <2>4
<1>4. CASE RunNode
  <2>1. NodeFails \/ ReadNode \/ PollNode \/ ScoreNode =>
          Quiet /\ call.at = "node" /\ call'.at \in NodeSteps
    BY CallSteps DEF NodeFails, WorkerEnds, ReadNode, PollNode, ScoreNode, NodeSteps, exploreVars
  <2>2. \A loss : PreviewNode(loss) => Quiet /\ call.at = "node" /\ call'.at \in NodeSteps
    BY CallSteps DEF PreviewNode, NodeSteps, exploreVars
  <2>3. \A loss : ApplyNode(loss) => Quiet /\ call.at = "node" /\ call'.at \in NodeSteps
    BY CallSteps DEF ApplyNode, Applies, NodeSteps, Ended, exploreVars
  <2>4. Elsewhere
    BY <1>4, <2>1, <2>2, <2>3, OtherSteps DEF RunNode, NodeSteps
  <2> QED
    BY <2>4
<1>5. CASE RecordNode
  <2>1. Quiet /\ call.at \in NodeSteps /\ call'.at = "idle"
    BY <1>5 DEF RecordNode, exploreVars, NoCall, Call
  <2> QED
    BY <2>1, OtherSteps
<1> QED
  BY <1>1, <1>2, <1>3, <1>4, <1>5

LEMMA ElseUntaints ==
  ASSUME SessionsInv, HostInv, TaintInv, [Next]_vars,
         \/ ToolCall \/ (\E s \in Sessions : Attach(s)) \/ Edit
         \/ \E s \in Sessions, tool \in ReadTools \cup DirectTools : Unanswered(s, tool)
         \/ FlowCall \/ RunNode \/ RecordNode
         \/ (Person \/ Tick) /\ UNCHANGED <<sessionVars, exploreVars, call, graphVars>>
         \/ Switch \/ UNCHANGED vars
  PROVE  TaintInv'
BY NoPlans, ElseUntainted

LEMMA StepTaint ==
  ASSUME SessionsInv, HostInv, TraceInv, TaintInv, [Next]_vars
  PROVE  TaintInv'
<1>1. CASE SessionCall /\ UNCHANGED graphVars
  <2>1. CASE PlanCall
    BY <2>1, CallUntaints, PreviewUntainted, ApplyUntainted, ExecuteUntainted, RegisterUntainted,
       WriteUntainted DEF PlanCall
  <2> QED
    BY <1>1, <2>1, CallUntaints, EndsUntaint, ElseUntaints DEF SessionCall
<1> QED
  BY <1>1, EndsUntaint, ElseUntaints DEF Next

LEMMA InitTaint == Init => TaintInv
<1> SUFFICES ASSUME Init PROVE TaintInv
  OBVIOUS
<1>1. /\ pv = {} /\ call.at = "idle" /\ DOMAIN records = {}
      /\ \A c \in Plans : outcome[c] = "none"
  BY DEF Init, LiveInit, ApprovalInit, NoCall, Call
<1> QED
  BY <1>1, OtherSteps DEF TaintInv, AboutPlans, HasToken, PutToHost, NoneTainted, HostFree,
     CallUntainted, Occupied

(* Only an execution has an outcome.                                        *)
LEMMA OutcomesOf ==
  ASSUME SessionsInv, [Next]_vars
  PROVE  outcome' = outcome \/ \E result \in Outcomes, changed \in BOOLEAN : Execute(result, changed)
<1>1. CASE PlanCall
  <2>1. \A c, s : Propose(c) \/ Validate(c) \/ Promote(c) \/ PreviewPlan(s, c) => outcome' = outcome
    BY DEF Propose, Validate, Promote, PreviewPlan, exploreVars
  <2>2. \A s, p, token, loss : ApplyPlan(s, p, token, loss) => outcome' = outcome
    BY DEF ApplyPlan, exploreVars
  <2>3. \A x : RegisterPlan(x) \/ WriteTrace(x) => outcome' = outcome
    BY DEF RegisterPlan, WriteTrace
  <2> QED
    BY <1>1, <2>1, <2>2, <2>3 DEF PlanCall
<1>2. CASE \/ \E s \in Sessions, f \in Writes : Release(s, f)
           \/ \E x \in contexts : Wait(x[1], x[2])
           \/ (\E f \in Writes : Close(f)) \/ Stop
  BY <1>2 DEF Release, Wait, Close, Stop, Crash, Ends, exploreVars
<1> QED
  BY <1>1, <1>2, NoPlans DEF Next, SessionCall

LEMMA TaintStep ==
  ASSUME SessionsInv, TraceInv, TaintInv, [Next]_vars, NEW c \in Plans \ ReadOnly,
         mode = "desktop", outcome'[c] # outcome[c]
  PROVE  call.s \notin tainted
<1>1. PICK result, changed : Execute(result, changed)
  BY OutcomesOf
<1>2. call.at = "execute" /\ outcome' = [outcome EXCEPT ![Plan(call.p)] = result]
  BY <1>1 DEF Execute
<1>3. Plan(call.p) = c
  BY <1>2 DEF TraceInv
<1> QED
  BY <1>2, <1>3, ThisPlan, TaintParts DEF CallUntainted, Waits

(* After a rollback that failed, no other plan changes the design in that    *)
(* session while the desktop host answers for the approvals, also when       *)
(* requests, answers and writes of the trace are lost.                       *)
THEOREM TaintKeepsOut == Spec => TaintHolds
<1>1. Init => IInv /\ HostInv /\ TraceInv /\ TaintInv
  BY InitSessions, InitHost, InitTrace, InitTaint DEF IInv, Init, LiveInit
<1>2. IInv /\ HostInv /\ TraceInv /\ TaintInv /\ [Next]_vars
        => IInv' /\ HostInv' /\ TraceInv' /\ TaintInv'
  BY InvariantStep, HostKeeps, StepTrace, StepTaint DEF IInv
<1>3. IInv /\ TraceInv /\ TaintInv /\ [Next]_vars =>
        [\A c \in Plans \ ReadOnly :
           mode = "desktop" /\ outcome'[c] # outcome[c] => call.s \notin tainted]_vars
  BY TaintStep DEF IInv
<1> QED
  BY <1>1, <1>2, <1>3, PTL DEF Spec, TaintHolds

-----------------------------------------------------------------------------
(* What the graph knows of the design *)

LEMMA UseKept == ASSUME [Next]_vars PROVE use' = use
<1>1. CASE SessionCall /\ UNCHANGED graphVars
  <2>1. CASE ToolCall
    <3>1. \A s, tool, p, token, loss :
            PreviewTool(s, tool, loss) \/ ApplyTool(s, tool, p, token, loss) => use' = use
      BY DEF PreviewTool, ApplyTool, Applies
    <3> QED
      BY <2>1, <3>1 DEF ToolCall
  <2>2. CASE PlanCall
    <3>1. \A c, s, p, token, loss :
            Propose(c) \/ Validate(c) \/ Promote(c) \/ PreviewPlan(s, c)
              \/ ApplyPlan(s, p, token, loss) => use' = use
      BY DEF Propose, Validate, Promote, PreviewPlan, ApplyPlan, sessionVars
    <3>2. \A f, result, changed :
            RegisterPlan(f) \/ WriteTrace(f) \/ Execute(result, changed) => use' = use
      BY DEF RegisterPlan, WriteTrace, Execute
    <3> QED
      BY <2>2, <3>1, <3>2 DEF PlanCall
  <2>3. CASE \/ \E s \in Sessions : Attach(s)
             \/ \E s \in Sessions, f \in Writes : Release(s, f)
             \/ \E x \in contexts : Wait(x[1], x[2])
             \/ \E s \in Sessions, tool \in ReadTools \cup DirectTools : Unanswered(s, tool)
             \/ Edit
    BY <2>3 DEF Attach, Release, Wait, Unanswered, WorkerEnds, Edit, sessionVars
  <2> QED
    BY <1>1, <2>1, <2>2, <2>3 DEF SessionCall
<1>2. CASE FlowCall
  <2>1. \A s, p, token, opToken, loss :
          PreviewStart(s, loss) \/ PreviewAdvance(s, loss) \/ ApplyStart(s, token, loss)
            \/ ApplyAdvance(s, p, token, opToken, loss) => use' = use
    BY DEF PreviewStart, PreviewAdvance, Previews, ApplyStart, ApplyAdvance
  <2> QED
    BY <1>2, <2>1 DEF FlowCall
<1>3. CASE RunNode \/ RecordNode
  <2>1. \A loss : PreviewNode(loss) \/ ApplyNode(loss) => use' = use
    BY DEF PreviewNode, ApplyNode, Applies
  <2>2. NodeFails \/ ReadNode \/ PollNode \/ ScoreNode \/ RecordNode => use' = use
    BY DEF NodeFails, WorkerEnds, ReadNode, PollNode, ScoreNode, RecordNode, sessionVars
  <2> QED
    BY <1>3, <2>1, <2>2 DEF RunNode
<1>4. CASE \/ \E f \in Writes : Close(f)
           \/ Stop \/ Switch \/ UNCHANGED vars
           \/ (Person \/ Tick) /\ UNCHANGED <<sessionVars, exploreVars, call, graphVars>>
  BY <1>4 DEF Close, Stop, Crash, Ends, Switch, vars, liveVars, sessionVars
<1> QED
  BY <1>1, <1>2, <1>3, <1>4 DEF Next

(* What a step makes, it makes under a token that has made nothing yet.     *)
LEMMA FirstRun ==
  ASSUME SessionsInv, TokensPlaced, ChangesInv, [Next]_vars, NEW q, NEW token,
         ran' = [ran EXCEPT ![token] = Append(@, q)]
  PROVE  /\ ran' = ran \/ token \in Tokens
         /\ \A t \in Tokens : ran'[t] # ran[t] => t = token /\ ran[t] = << >> /\ ran'[t] = <<q>>
<1>1. ran = [t \in Tokens |-> ran[t]]
  BY DEF ChangesInv
<1>2. ran' = ran \/ token \in Tokens
  BY <1>1
<1>3. ASSUME NEW t \in Tokens, ran'[t] # ran[t]
      PROVE  t = token /\ ran[t] = << >> /\ ran'[t] = <<q>>
  <2>1. t = token /\ ran'[t] = Append(ran[t], q)
    BY <1>1, <1>3
  <2>2. ran[t] = << >>
    <3>1. ASSUME NEW s, NEW p, NEW k, NEW loss, AcceptedFor(s, p, k, loss),
                 ran' = [ran EXCEPT ![k] = Append(@, p)]
          PROVE  ran[t] = << >>
      <4>1. k = t
        BY <1>1, <1>3, <3>1
      <4> QED
        BY <3>1, <4>1, AcceptedIsNotSpent DEF ChangesInv
    <3>2. ASSUME call.at = "execute", ran' = [ran EXCEPT ![call.token] = Append(@, call.p)]
          PROVE  ran[t] = << >>
      <4>1. call.token = t
        BY <1>1, <1>3, <3>2
      <4> QED
        BY <3>2, <4>1 DEF ChangesInv
    <3> QED
      BY <1>3, <3>1, <3>2, OneChange DEF ChangeStep
  <2> QED
    BY <2>1, <2>2, FirstChange
<1> QED
  BY <1>2, <1>3

LEMMA SameFlow == ASSUME use' = use PROVE FlowTools' = FlowTools /\ Nodes' = Nodes
BY DEF FlowTools, Nodes

LEMMA NoOperation ==
  ASSUME use' = use,
         \A t \in Tokens : ran'[t] # ran[t] =>
           ran[t] = << >> /\ \E q : ran'[t] = <<q>> /\ Row(q) \notin FlowTools
  PROVE  Operations' = Operations
<1>1. FlowTools' = FlowTools
  BY SameFlow
<1>2. ASSUME NEW t \in Tokens
      PROVE  t \in Operations' <=> t \in Operations
  <2>1. t \in Operations <=> ran[t] # << >> /\ Row(ran[t][1]) \in FlowTools
    BY <1>2 DEF Operations
  <2>2. t \in Operations' <=> ran'[t] # << >> /\ Row(ran'[t][1]) \in FlowTools
    BY <1>1, <1>2 DEF Operations, Row
  <2>3. ASSUME ran'[t] # ran[t]
        PROVE  t \notin Operations /\ t \notin Operations'
    <3>1. PICK q : ran[t] = << >> /\ ran'[t] = <<q>> /\ Row(q) \notin FlowTools
      BY <1>2, <2>3
    <3>2. ran'[t][1] = q
      BY <3>1
    <3> QED
      BY <2>1, <2>2, <3>1, <3>2
  <2> QED
    BY <2>1, <2>2, <2>3
<1> QED
  BY <1>2 DEF Operations

LEMMA NewOperation ==
  ASSUME use' = use, NEW token \in Tokens, NEW q,
         ran[token] = << >>, ran'[token] = <<q>>, Row(q) \in FlowTools,
         \A t \in Tokens \ {token} : ran'[t] = ran[t]
  PROVE  Operations' = Operations \cup {token} /\ token \notin Operations
<1>1. FlowTools' = FlowTools
  BY SameFlow
<1>2. ran'[token][1] = q /\ ran'[token] # << >>
  OBVIOUS
<1>3. \A t \in Tokens : t \in Operations' <=> ran'[t] # << >> /\ Row(ran'[t][1]) \in FlowTools
  BY <1>1 DEF Operations, Row
<1>4. \A t \in Tokens : t \in Operations <=> ran[t] # << >> /\ Row(ran[t][1]) \in FlowTools
  BY DEF Operations
<1>5. Operations' \subseteq Tokens /\ Operations \subseteq Tokens
  BY DEF Operations
<1> QED
  BY <1>2, <1>3, <1>4, <1>5

LEMMA Passed ==
  ASSUME SessionsInv, use.flow # "none"
  PROVE  /\ AppliesPassed \in Nat
         /\ use' = use /\ pos' = pos + 1 =>
              AppliesPassed' = AppliesPassed + IF Ready.kind = "apply" THEN 1 ELSE 0
<1>1. pos \in Nat \ {0}
  BY FlowWorks
<1> DEFINE A(n) == {i \in 1 .. n - 1 : Nodes[i].kind = "apply"}
<1>2. IsFiniteSet(A(pos)) /\ Cardinality(A(pos)) \in Nat
  <2>1. IsFiniteSet(1 .. pos - 1) /\ A(pos) \in SUBSET (1 .. pos - 1)
    BY <1>1, FS_Interval
  <2>2. IsFiniteSet(A(pos))
    BY <2>1, FS_Subset
  <2> QED
    BY <2>2, FS_CardinalityType
<1>3. AppliesPassed = Cardinality(A(pos))
  BY DEF AppliesPassed
<1>4. ASSUME use' = use, pos' = pos + 1
      PROVE  AppliesPassed' = AppliesPassed + IF Ready.kind = "apply" THEN 1 ELSE 0
  <2>1. AppliesPassed' = Cardinality(A(pos + 1))
    BY <1>4, SameFlow DEF AppliesPassed
  <2>2. CASE Ready.kind = "apply"
    <3>1. A(pos + 1) = A(pos) \cup {pos} /\ pos \notin A(pos)
      BY <1>1, <2>2 DEF Ready
    <3>2. Cardinality(A(pos + 1)) = Cardinality(A(pos)) + 1
      BY <1>2, <3>1, FS_AddElement
    <3> HIDE DEF A
    <3> QED
      BY <1>3, <2>1, <2>2, <3>2
  <2>3. CASE Ready.kind # "apply"
    <3>1. A(pos + 1) = A(pos)
      BY <1>1, <2>3 DEF Ready
    <3> HIDE DEF A
    <3> QED
      BY <1>2, <1>3, <2>1, <2>3, <3>1
  <2> QED
    BY <2>2, <2>3
<1> QED
  BY <1>2, <1>3, <1>4

LEMMA SamePlace ==
  ASSUME UNCHANGED <<use, pos>>
  PROVE  Ready' = Ready /\ AppliesPassed' = AppliesPassed
BY SameFlow DEF Ready, AppliesPassed

(* No operation is made, and no node begins or ends.                        *)
LEMMA QuietCounts ==
  ASSUME FlowInv, UNCHANGED <<use, graph, pos>>, Operations' = Operations,
         call' = call \/ (call.at \notin NodeSteps /\ call'.at \notin NodeSteps)
  PROVE  FlowInv'
<1>1. Made' = Made /\ InDoubt' = InDoubt
  BY SamePlace DEF Made, InDoubt, NodeSteps
<1>2. Counted'
  BY <1>1, SamePlace DEF FlowInv, Counted, OperationsMade
<1> QED
  BY <1>2, SamePlace DEF FlowInv, NodeSteps

(* A node ends without an operation.                                        *)
LEMMA NodeCounts ==
  ASSUME IInv, use.flow # "none", FlowInv, UNCHANGED <<use, graph, pos>>, Operations' = Operations,
         call.at = "node", call'.at \in NodeSteps,
         call'.at \in {"node_done", "node_ended"} => Ready.kind # "apply"
  PROVE  FlowInv'
<1>1. graph = "running"
  BY DEF FlowInv, NodeSteps
<1>2. Made = 0 /\ Made' = 0 /\ ~InDoubt
  BY <1>1, SamePlace DEF Made, InDoubt
<1>3. OperationsMade = AppliesPassed /\ AppliesPassed \in Nat
  BY <1>2, Passed DEF IInv, FlowInv, Counted
<1>4. Counted'
  BY <1>2, <1>3, SamePlace DEF FlowInv, Counted, OperationsMade
<1> QED
  BY <1>1, <1>4, SamePlace DEF FlowInv

(* A change that was not made with a tool of the flow is no operation.      *)
LEMMA OutsideRun ==
  ASSUME SessionsInv, TokensPlaced, ChangesInv, [Next]_vars, NEW q, NEW token,
         ran' = [ran EXCEPT ![token] = Append(@, q)], Row(q) \notin FlowTools
  PROVE  Operations' = Operations
BY UseKept, FirstRun, NoOperation

LEMMA NothingRuns ==
  ASSUME [Next]_vars, ran' = ran
  PROVE  Operations' = Operations
BY UseKept, NoOperation

LEMMA NotOfFlow ==
  ASSUME SessionsInv, use.flow # "none"
  PROVE  /\ start \notin FlowTools /\ advance \notin FlowTools /\ \A c : explore(c) \notin FlowTools
         /\ Ready.tool \in FlowTools
         /\ FlowsApart => \A tool \in use.tools : tool \notin FlowTools
<1>1. FlowTools = {Nodes[i].tool : i \in DOMAIN Nodes}
  BY DEF FlowTools
<1>2. Ready.tool \in FlowTools
  BY <1>1, FlowWorks DEF Ready
<1>3. \A tool \in FlowTools : IsWork(tool)
  BY <1>1, FlowWorks
<1>4. start \notin FlowTools /\ advance \notin FlowTools /\ \A c : explore(c) \notin FlowTools
  BY <1>3 DEF IsWork
<1>5. FlowsApart => \A tool \in use.tools : tool \notin FlowTools
  BY <1>1 DEF FlowsApart, SessionsInv, Nodes
<1> QED
  BY <1>2, <1>4, <1>5

(* The previews and calls of plans are of plans.                            *)
LEMMA PlansAreKept ==
  ASSUME SessionsInv, PlanRows, [Next]_vars
  PROVE  PlanRows'
<1> DEFINE Fewer == /\ pv' \subseteq pv
                    /\ \/ call'.at \notin PlanSteps
                       \/ call.at \in PlanSteps /\ call'.p = call.p
                       \/ IsPlan(call'.p)
<1>1. ASSUME Fewer PROVE PlanRows'
  BY <1>1 DEF PlanRows, IsPlan, Plan, Row
<1> HIDE DEF Fewer
<1>2. CASE PlanCall
  <2>1. ASSUME NEW c, Propose(c) \/ Promote(c)
        PROVE  PlanRows'
    BY <2>1 DEF Propose, Promote, PlanRows, IsPlan, Plan, Row
  <2>2. ASSUME NEW c, Validate(c)
        PROVE  PlanRows'
    <3>1. IsPlan(<<explore(c), 0>>)
      BY PlanOf DEF IsPlan
    <3>2. pv' = pv /\ call'.p = <<explore(c), 0>>
      BY <2>2 DEF Validate, exploreVars, Call
    <3> QED
      BY <1>1, <3>1, <3>2 DEF Fewer
  <2>3. ASSUME NEW s, NEW c, PreviewPlan(s, c)
        PROVE  PlanRows'
    <3>1. PICK p : p = <<explore(c), design>>
      OBVIOUS
    <3>2. IsPlan(p)
      BY <3>1, PlanOf DEF IsPlan
    <3>3. (pv' = pv \cup {<<s, p>>} \/ pv' = pv) /\ call'.p = p
      BY <2>3, <3>1 DEF PreviewPlan, Call
    <3>4. PICK r : r = <<s, p>>
      OBVIOUS
    <3>5. r[2] = p
      BY <3>4
    <3> QED
      BY <3>2, <3>3, <3>4, <3>5 DEF PlanRows, IsPlan, Plan, Row
  <2>4. ASSUME NEW s, NEW p, NEW token, NEW loss, ApplyPlan(s, p, token, loss)
        PROVE  PlanRows'
    <3>1. PICK r : r = <<s, p>>
      OBVIOUS
    <3>2. r[2] = p
      BY <3>1
    <3>3. /\ pv' = pv /\ r \in pv
          /\ call' = NoCall \/ \E at, t : call' = Call(at, s, p, t)
      BY <2>4, <3>1 DEF ApplyPlan, exploreVars
    <3>4. call'.at = "idle" \/ call'.p = p
      BY <3>3 DEF NoCall, Call
    <3>5. IsPlan(p)
      BY <3>2, <3>3 DEF PlanRows
    <3> QED
      BY <1>1, <3>3, <3>4, <3>5, OtherSteps DEF Fewer
  <2>5. ASSUME NEW result, NEW changed, Execute(result, changed)
        PROVE  PlanRows'
    <3>1. call.at = "execute" /\ pv' \subseteq pv /\ \E at : Goto(at)
      BY <2>5 DEF Execute
    <3> QED
      BY <1>1, <3>1, CallSteps DEF Fewer, PlanSteps
  <2>6. ASSUME NEW f, RegisterPlan(f) \/ WriteTrace(f)
        PROVE  PlanRows'
    <3>1. call.at \in PlanSteps /\ pv' \subseteq pv /\ (call' = NoCall \/ \E at : Goto(at))
      BY <2>6 DEF RegisterPlan, WriteTrace, PlanSteps
    <3>2. call'.at = "idle" \/ call'.p = call.p
      BY <3>1, CallSteps DEF NoCall, Call
    <3> QED
      BY <1>1, <3>1, <3>2, OtherSteps DEF Fewer
  <2> QED
    BY <1>2, <2>1, <2>2, <2>3, <2>4, <2>5, <2>6 DEF PlanCall
<1>3. CASE \E x \in contexts : Wait(x[1], x[2])
  <2>1. PICK s, p : Wait(s, p)
    BY <1>3
  <2>2. PICK r : r = <<s, p>>
    OBVIOUS
  <2>3. r[2] = p
    BY <2>2
  <2>4. /\ pv' = pv
        /\ call' = NoCall \/ \E at, t : r \in pv /\ call' = Call(at, s, p, t)
    BY <2>1, <2>2 DEF Wait, exploreVars
  <2>5. call'.at = "idle" \/ (call'.p = p /\ IsPlan(p))
    BY <2>3, <2>4 DEF NoCall, Call, PlanRows
  <2> QED
    BY <1>1, <2>4, <2>5, OtherSteps DEF Fewer
<1>4. CASE \/ \E s \in Sessions, f \in Writes : Release(s, f)
           \/ \E f \in Writes : Close(f)
           \/ Stop
  <2>1. pv' \subseteq pv /\ call'.at = "idle"
    BY <1>4, EndsClear
  <2> QED
    BY <1>1, <2>1, OtherSteps DEF Fewer
<1>5. ASSUME pv' = pv, call' = call \/ (call.at \notin PlanSteps /\ call'.at \notin PlanSteps)
      PROVE  PlanRows'
  BY <1>5 DEF PlanRows, IsPlan, Plan, Row
<1> QED
  BY <1>2, <1>3, <1>4, <1>5, NoPlans DEF Next, SessionCall

LEMMA ToolCounts ==
  ASSUME FlowsApart, IInv, use.flow # "none", FlowInv, [Next]_vars, ToolCall, UNCHANGED graphVars
  PROVE  FlowInv'
<1>1. \/ ran' = ran
      \/ \E tool \in use.tools : \E token : ran' = [ran EXCEPT ![token] = Append(@, <<tool, design>>)]
  <2>1. \A s, tool, loss : PreviewTool(s, tool, loss) => ran' = ran
    BY DEF PreviewTool
  <2>2. \A s, tool, p, token, loss : ApplyTool(s, tool, p, token, loss) =>
          ran' = ran \/ ran' = [ran EXCEPT ![token] = Append(@, <<tool, design>>)]
    BY DEF ApplyTool, Applies, Runs
  <2> QED
    BY <2>1, <2>2 DEF ToolCall
<1>2. ASSUME NEW tool \in use.tools, NEW token,
             ran' = [ran EXCEPT ![token] = Append(@, <<tool, design>>)]
      PROVE  Operations' = Operations
  <2>1. Row(<<tool, design>>) \notin FlowTools
    BY NotOfFlow DEF Row, IInv
  <2> QED
    BY <1>2, <2>1, OutsideRun DEF IInv
<1>3. Operations' = Operations
  BY <1>1, <1>2, NothingRuns
<1> QED
  BY <1>3, UseKept, ToolsOnly, QuietCounts DEF graphVars

LEMMA PlanCounts ==
  ASSUME IInv, PlanRows, use.flow # "none", FlowInv, [Next]_vars, PlanCall, UNCHANGED graphVars
  PROVE  FlowInv'
<1>1. ASSUME NEW c, NEW s, Propose(c) \/ Validate(c) \/ Promote(c) \/ PreviewPlan(s, c)
      PROVE  FlowInv'
  <2>1. /\ ran' = ran /\ call.at = "idle"
        /\ call' = call \/ call'.at \in {"validated", "previewed", "failed"}
    BY <1>1 DEF Propose, Validate, Promote, PreviewPlan, sessionVars, Idle, Call
  <2> QED
    BY <2>1, UseKept, NothingRuns, QuietCounts DEF graphVars, NodeSteps
<1>2. ASSUME NEW s, NEW p, NEW token, NEW loss, ApplyPlan(s, p, token, loss)
      PROVE  FlowInv'
  <2>1. ran' = ran /\ call.at = "idle" /\ call'.at \in {"idle", "execute", "authorized"}
    BY <1>2 DEF ApplyPlan, Idle, Call, NoCall
  <2> QED
    BY <2>1, UseKept, NothingRuns, QuietCounts DEF graphVars, NodeSteps
<1>3. ASSUME NEW result, NEW changed, Execute(result, changed)
      PROVE  FlowInv'
  <2>1. /\ call.at = "execute"
        /\ \/ ran' = ran
           \/ ran' = [ran EXCEPT ![call.token] = Append(@, <<Row(call.p), design>>)]
        /\ \E at \in {"failed", "stale", "applied"} : Goto(at)
    BY <1>3 DEF Execute
  <2>2. call'.at \in {"failed", "stale", "applied"}
    BY <2>1, CallSteps DEF IInv
  <2>3. Row(<<Row(call.p), design>>) \notin FlowTools
    <3>1. Row(<<Row(call.p), design>>) = explore(Plan(call.p))
      BY <2>1 DEF PlanRows, IsPlan, PlanSteps, Row
    <3> QED
      BY <3>1, NotOfFlow DEF IInv
  <2>4. Operations' = Operations
    BY <2>1, <2>3, NothingRuns, OutsideRun DEF IInv
  <2> QED
    BY <2>1, <2>2, <2>4, UseKept, QuietCounts DEF graphVars, NodeSteps
<1>4. ASSUME NEW f, RegisterPlan(f) \/ WriteTrace(f)
      PROVE  FlowInv'
  <2>1. /\ ran' = ran /\ call.at \in PlanSteps
        /\ \/ call' = NoCall
           \/ \E at \in PlanSteps : Goto(at)
    <3>1. RegisterPlan(f) => \/ call' = NoCall
                             \/ \E at \in PlanSteps : Goto(at)
      BY DEF RegisterPlan, AfterAnswer, PlanSteps, WriteSteps
    <3>2. WriteTrace(f) => \/ call' = NoCall
                           \/ \E at \in PlanSteps : Goto(at)
      BY DEF WriteTrace, NextStep, PlanSteps, WriteSteps
    <3> QED
      BY <1>4, <3>1, <3>2 DEF RegisterPlan, WriteTrace, PlanSteps
  <2>2. call'.at = "idle" \/ call'.at \in PlanSteps
    BY <2>1, CallSteps DEF NoCall, Call, IInv
  <2>3. call.at \notin NodeSteps /\ call'.at \notin NodeSteps
    BY <2>1, <2>2, OtherSteps DEF NodeSteps
  <2> QED
    BY <2>1, <2>3, UseKept, NothingRuns, QuietCounts DEF graphVars
<1> QED
  BY <1>1, <1>2, <1>3, <1>4 DEF PlanCall

(* The steps of the workflow: none of them is an operation, and one graph is *)
(* started.                                                                 *)
LEMMA FlowCounts ==
  ASSUME IInv, use.flow # "none", FlowInv, [Next]_vars, FlowCall
  PROVE  FlowInv'
<1>1. ASSUME NEW s, NEW loss, PreviewStart(s, loss) \/ PreviewAdvance(s, loss)
      PROVE  FlowInv'
  <2>1. UNCHANGED <<ran, call, graph, pos>>
    BY <1>1 DEF PreviewStart, PreviewAdvance, Previews
  <2> QED
    BY <2>1, UseKept, NothingRuns, QuietCounts
<1>2. ASSUME NEW s, NEW token, NEW loss, ApplyStart(s, token, loss)
      PROVE  FlowInv'
  <2>1. /\ UNCHANGED <<call, pos>> /\ call.at = "idle" /\ graph = "none"
        /\ graph' \in {"none", "running"}
        /\ ran' = ran \/ ran' = [ran EXCEPT ![token] = Append(@, <<start, focus>>)]
    BY <1>2 DEF ApplyStart, Idle
  <2>2. Row(<<start, focus>>) \notin FlowTools
    BY NotOfFlow DEF Row, IInv
  <2>3. Operations' = Operations
    BY <2>1, <2>2, NothingRuns, OutsideRun DEF IInv
  <2>4. Made = 0 /\ Made' = 0 /\ ~InDoubt /\ ~InDoubt'
    BY <2>1 DEF Made, InDoubt
  <2>5. Counted'
    BY <2>1, <2>3, <2>4, UseKept, SamePlace DEF FlowInv, Counted, OperationsMade
  <2> QED
    BY <2>1, <2>5 DEF FlowInv, NodeSteps
<1>3. ASSUME NEW s, NEW p, NEW token, NEW opToken, NEW loss, ApplyAdvance(s, p, token, opToken, loss)
      PROVE  FlowInv'
  <2>1. /\ UNCHANGED <<graph, pos>> /\ call.at = "idle"
        /\ call' = call \/ (graph = "running" /\ call'.at = "node")
        /\ ran' = ran \/ ran' = [ran EXCEPT ![token] = Append(@, <<advance, turn>>)]
    BY <1>3 DEF ApplyAdvance, Idle, Call
  <2>2. Row(<<advance, turn>>) \notin FlowTools
    BY NotOfFlow DEF Row, IInv
  <2>3. Operations' = Operations
    BY <2>1, <2>2, NothingRuns, OutsideRun DEF IInv
  <2>4. CASE call' = call
    BY <2>1, <2>3, <2>4, UseKept, QuietCounts
  <2>5. CASE graph = "running" /\ call'.at = "node"
    <3>1. Made = 0 /\ Made' = 0 /\ ~InDoubt /\ ~InDoubt'
      BY <2>1, <2>5 DEF Made, InDoubt
    <3>2. Counted'
      BY <2>1, <2>3, <3>1, UseKept, SamePlace DEF FlowInv, Counted, OperationsMade
    <3> QED
      BY <2>1, <2>5, <3>2 DEF FlowInv
  <2> QED
    BY <2>1, <2>4, <2>5
<1> QED
  BY <1>1, <1>2, <1>3 DEF FlowCall

LEMMA IssuedToken ==
  ASSUME TokensPlaced, NEW r, NEW loss, NEW token, token # NoToken, VerifyAnswer(r, token, loss)
  PROVE  token \in Tokens
<1>1. mode \in Modes /\ Accepts(r, token)
  BY DEF VerifyAnswer, TokensPlaced
<1>2. CASE mode = "desktop" \/ mode = "automatic"
  <2>1. r \in DOMAIN records /\ records[r].token = token
    BY <1>1, <1>2 DEF Accepts
  <2> QED
    BY <2>1 DEF TokensPlaced
<1>3. CASE mode = "hmac"
  <2>1. token \in DOMAIN claims
    BY <1>1, <1>3 DEF Accepts
  <2> QED
    BY <2>1 DEF TokensPlaced
<1> QED
  BY <1>1, <1>2, <1>3 DEF Modes

(* The operation of an apply node is the one it has not made yet; a node     *)
(* that failed may have made it.                                            *)
LEMMA ApplyCounts ==
  ASSUME IInv, use.flow # "none", FlowInv, [Next]_vars, NEW loss, ApplyNode(loss)
  PROVE  FlowInv'
<1>1. PICK s : s = call.s
  OBVIOUS
<1>2. PICK token : token = call.op
  OBVIOUS
<1>3. PICK ok \in BOOLEAN : Applies(s, Ready.tool, op, token, loss, ok) /\ Goto(Ended(ok))
  BY <1>1, <1>2 DEF ApplyNode
<1>4. /\ call.at = "node" /\ Ready.kind = "apply" /\ token # NoToken
      /\ HasContext(s, op, Ready.tool.action) /\ Verify(<<s, op>>, token, loss)
      /\ UNCHANGED <<graph, pos>>
  BY <1>2, <1>3, AppliesFacts DEF ApplyNode, graphVars
<1>5. call'.at = IF ok THEN "node_done" ELSE "node_failed"
  BY <1>3, CallSteps DEF IInv, Ended
<1>6. CASE ran' = ran /\ ~ok
  BY <1>4, <1>5, <1>6, UseKept, NothingRuns, NodeCounts DEF NodeSteps
<1>7. CASE /\ VerifyAnswer(<<s, op>>, token, loss) /\ CanRun(s, Ready.tool, op)
           /\ Runs(Ready.tool, token)
  <2>1. token \in Tokens
    BY <1>4, <1>7, IssuedToken DEF IInv
  <2>2. IsTool(Ready.tool)
    BY ReadyIsNode DEF IInv
  <2>3. AcceptedFor(s, op, token, loss)
    BY <1>4, <1>7, <2>2, RunsWhatWasShown DEF AcceptedFor, IInv
  <2>4. ran[token] = << >>
    BY <2>1, <2>3, AcceptedIsNotSpent DEF IInv, ChangesInv
  <2>5. /\ ran'[token] = <<<<Ready.tool, design>>>>
        /\ \A t \in Tokens \ {token} : ran'[t] = ran[t]
    <3>1. ran = [t \in Tokens |-> ran[t]]
      BY DEF IInv, ChangesInv
    <3>2. ran'[token] = Append(ran[token], <<Ready.tool, design>>)
      BY <1>7, <2>1, <3>1 DEF Runs
    <3> QED
      BY <1>7, <2>4, <3>1, <3>2, FirstChange DEF Runs
  <2>6. Row(<<Ready.tool, design>>) \in FlowTools
    BY NotOfFlow DEF Row, IInv
  <2>7. Operations' = Operations \cup {token} /\ token \notin Operations
    BY <2>1, <2>4, <2>5, <2>6, UseKept, NewOperation
  <2>8. IsFiniteSet(Operations)' /\ OperationsMade' = OperationsMade + 1
    <3>1. IsFiniteSet(Operations)
      BY DEF FlowInv, Counted
    <3> QED
      BY <2>7, <3>1, FS_AddElement DEF OperationsMade
  <2>9. graph = "running" /\ Made = 0 /\ ~InDoubt
    BY <1>4 DEF FlowInv, NodeSteps, Made, InDoubt
  <2>10. OperationsMade = AppliesPassed /\ AppliesPassed \in Nat /\ AppliesPassed' = AppliesPassed
    BY <1>4, <2>9, UseKept, SamePlace, Passed DEF IInv, FlowInv, Counted
  <2>11. IF ok THEN Made' = 1 /\ ~InDoubt' ELSE InDoubt'
    BY <1>4, <1>5, <2>9, UseKept, SamePlace DEF Made, InDoubt
  <2>12. Counted'
    BY <2>8, <2>10, <2>11 DEF Counted
  <2> QED
    BY <1>4, <1>5, <2>9, <2>12 DEF FlowInv
<1> QED
  BY <1>3, <1>6, <1>7, AppliesOrNot

LEMMA RunCounts ==
  ASSUME IInv, use.flow # "none", FlowInv, [Next]_vars, RunNode
  PROVE  FlowInv'
<1>1. ASSUME NodeFails \/ ReadNode \/ PollNode \/ ScoreNode \/ \E loss \in Losses : PreviewNode(loss)
      PROVE  FlowInv'
  <2>1. /\ call.at = "node" /\ UNCHANGED <<graph, pos, ran>>
        /\ \/ Goto("node_failed")
           \/ Goto("node_again")
           \/ Ready.kind # "apply" /\ (Goto("node_done") \/ Goto("node_ended"))
    BY <1>1 DEF NodeFails, WorkerEnds, ReadNode, PollNode, ScoreNode, PreviewNode, graphVars, sessionVars
  <2>2. /\ call'.at \in {"node_failed", "node_again", "node_done", "node_ended"}
        /\ call'.at \in {"node_done", "node_ended"} => Ready.kind # "apply"
    BY <2>1, CallSteps DEF IInv
  <2> QED
    BY <2>1, <2>2, UseKept, NothingRuns, NodeCounts DEF NodeSteps
<1> QED
  BY <1>1, ApplyCounts DEF RunNode

(* The record of a node passes it, and its operation.                       *)
LEMMA RecordCounts ==
  ASSUME IInv, use.flow # "none", FlowInv, [Next]_vars, RecordNode
  PROVE  FlowInv'
<1>1. /\ call.at \in {"node_done", "node_again", "node_ended", "node_failed"}
      /\ graph = "running" /\ ran' = ran /\ call'.at = "idle"
  BY DEF RecordNode, FlowInv, NodeSteps, sessionVars, NoCall, Call
<1>2. use' = use /\ Operations' = Operations
  BY <1>1, UseKept, NothingRuns
<1>3. /\ Len(Nodes) \in Nat /\ pos \in 1 .. Len(Nodes) /\ AppliesPassed \in Nat
      /\ IsFiniteSet(Operations)
  BY <1>1, FlowWorks, Passed DEF IInv, FlowInv, Counted
<1>4. call.at # "node_failed" => OperationsMade = AppliesPassed + Made
  BY <1>1 DEF FlowInv, Counted, InDoubt
<1>5. graph' \in {"running", "succeeded"} => ~InDoubt'
  BY <1>1 DEF InDoubt
<1>6. CASE call.at = "node_done" /\ pos < Len(Nodes)
  <2>1. pos' = pos + 1 /\ graph' = "running"
    BY <1>3, <1>6 DEF RecordNode
  <2>2. AppliesPassed' = AppliesPassed + Made
    BY <1>1, <1>2, <1>6, <2>1, Passed DEF IInv, Made
  <2>3. Made' = 0
    BY <1>1, <2>1 DEF Made
  <2>4. AppliesPassed' \in Nat
    BY <1>3, <2>2 DEF Made
  <2> QED
    BY <1>1, <1>2, <1>3, <1>4, <1>5, <1>6, <2>1, <2>2, <2>3, <2>4
    DEF FlowInv, Counted, OperationsMade, NodeSteps
<1>7. CASE call.at = "node_ended" \/ (call.at = "node_done" /\ pos = Len(Nodes))
  <2>1. pos' = pos /\ graph' = "succeeded"
    BY <1>3, <1>7 DEF RecordNode
  <2>2. Made' = Made
    BY <1>1, <1>2, <1>7, <2>1, SamePlace DEF FlowInv, Made
  <2> QED
    BY <1>1, <1>2, <1>3, <1>4, <1>5, <1>7, <2>1, <2>2, SamePlace
    DEF FlowInv, Counted, OperationsMade, NodeSteps
<1>8. CASE call.at = "node_again"
  <2>1. pos' = pos /\ graph' = "running"
    BY <1>8 DEF RecordNode
  <2>2. Made = 0 /\ Made' = 0
    BY <1>1, <1>8, <2>1 DEF Made
  <2> QED
    BY <1>1, <1>2, <1>3, <1>4, <1>5, <1>8, <2>1, <2>2, SamePlace
    DEF FlowInv, Counted, OperationsMade, NodeSteps
<1>9. CASE call.at = "node_failed"
  <2>1. pos' = pos /\ graph' = "failed"
    BY <1>9 DEF RecordNode
  <2>2. Made = 0 /\ Made' = 0 /\ InDoubt' = InDoubt
    BY <1>1, <1>2, <1>9, <2>1, SamePlace DEF Made, InDoubt
  <2> QED
    BY <1>1, <1>2, <1>3, <2>1, <2>2, SamePlace DEF FlowInv, Counted, OperationsMade, NodeSteps
<1> QED
  BY <1>1, <1>3, <1>6, <1>7, <1>8, <1>9

(* What ends a node leaves the graph stuck; nothing else ends one.          *)
LEMMA EndCounts ==
  ASSUME IInv, use.flow # "none", FlowInv, [Next]_vars,
         \/ Stop
         \/ \E f \in Writes : Close(f) /\ UNCHANGED <<graph, pos>>
         \/ \E s \in Sessions, f \in Writes : Release(s, f) /\ UNCHANGED <<graph, pos>>
  PROVE  FlowInv'
<1>1. ran' = ran /\ call'.at = "idle" /\ use' = use /\ Operations' = Operations
  BY EndsClear, UseKept, NothingRuns
<1>2. CASE call.at \in NodeSteps /\ Stop
  <2>1. graph = "running" /\ graph' = "stuck" /\ pos' = pos
    BY <1>2 DEF Stop, FlowInv
  <2>2. AppliesPassed \in Nat /\ Made' = 0
    BY <1>1, <2>1, Passed DEF IInv, Made
  <2>3. Made = (IF call.at = "node_done" /\ Ready.kind = "apply" THEN 1 ELSE 0)
    BY <2>1 DEF Made
  <2>4. CASE Ready.kind = "apply"
    <3>1. InDoubt'
      BY <1>1, <2>1, <2>4, SamePlace DEF InDoubt
    <3>2. OperationsMade \in AppliesPassed .. AppliesPassed + 1
      BY <2>2, <2>3 DEF FlowInv, Counted
    <3>3. Counted'
      BY <1>1, <2>1, <3>1, <3>2, SamePlace DEF FlowInv, Counted, OperationsMade
    <3> QED
      BY <1>1, <3>3 DEF FlowInv, NodeSteps
  <2>5. CASE Ready.kind # "apply"
    <3>1. ~InDoubt /\ ~InDoubt'
      BY <1>1, <2>1, <2>5, SamePlace DEF InDoubt
    <3>2. Counted'
      BY <1>1, <2>1, <2>2, <2>3, <2>5, <3>1, SamePlace DEF FlowInv, Counted, OperationsMade
    <3> QED
      BY <1>1, <3>2 DEF FlowInv, NodeSteps
  <2> QED
    BY <2>4, <2>5
<1>3. CASE call.at \notin NodeSteps
  <2>1. UNCHANGED <<graph, pos>>
    BY <1>3 DEF Stop
  <2>2. call'.at \notin NodeSteps
    BY <1>1 DEF NodeSteps
  <2> QED
    BY <1>1, <1>3, <2>1, <2>2, QuietCounts
<1>4. call.at \in NodeSteps => Stop
  <2>1. "idle" \notin NodeSteps
    BY DEF NodeSteps
  <2>2. \A s, f : Release(s, f) \/ Close(f) => call.at = "idle"
    BY DEF Release, Close, Idle
  <2> QED
    BY <2>1, <2>2
<1> QED
  BY <1>2, <1>3, <1>4

LEMMA ElseCounts ==
  ASSUME IInv, use.flow # "none", FlowInv, [Next]_vars,
         \/ /\ UNCHANGED graphVars
            /\ \/ \E s \in Sessions : Attach(s)
               \/ \E x \in contexts : Wait(x[1], x[2])
               \/ \E s \in Sessions, tool \in ReadTools \cup DirectTools : Unanswered(s, tool)
               \/ Edit
               \/ (Person \/ Tick) /\ UNCHANGED <<sessionVars, exploreVars, call, graphVars>>
         \/ Switch \/ UNCHANGED vars
  PROVE  FlowInv'
<1>1. UNCHANGED <<graph, pos, ran>>
  BY DEF Attach, Wait, Unanswered, WorkerEnds, Edit, Switch, vars, liveVars, sessionVars, graphVars
<1>2. call' = call \/ (call.at \notin NodeSteps /\ call'.at \notin NodeSteps)
  <2>1. \A s, p : Wait(s, p) =>
          /\ call.at = "idle"
          /\ \/ call' = NoCall
             \/ \E at \in {"decided", "rejected", "expired", "failed"} : call' = Call(at, s, p, NoToken)
    BY DEF Wait, AfterAnswer, Idle
  <2>2. \A s, p : Wait(s, p) => call.at = "idle" /\ (call'.at = "idle" \/ call'.at \in PlanSteps)
    BY <2>1 DEF NoCall, Call, PlanSteps, WriteSteps
  <2>3. \A s, tool : Attach(s) \/ Unanswered(s, tool) \/ Edit => call' = call
    BY DEF Attach, Unanswered, WorkerEnds, Edit
  <2>4. Switch \/ UNCHANGED vars => call' = call
    BY DEF Switch, vars, liveVars
  <2> QED
    BY <2>2, <2>3, <2>4, OtherSteps DEF NodeSteps
<1> QED
  BY <1>1, <1>2, UseKept, NothingRuns, QuietCounts

LEMMA StepCounts ==
  ASSUME FlowsApart, IInv, GraphInv, [Next]_vars
  PROVE  GraphInv'
<1>1. PlanRows'
  BY PlansAreKept DEF IInv, GraphInv
<1>2. ASSUME use.flow # "none"
      PROVE  FlowInv'
  <2>1. PlanRows /\ FlowInv
    BY <1>2 DEF GraphInv
  <2>2. CASE SessionCall /\ UNCHANGED graphVars
    BY <1>2, <2>1, <2>2, ToolCounts, PlanCounts, EndCounts, ElseCounts DEF SessionCall, graphVars
  <2> QED
    BY <1>2, <2>1, <2>2, FlowCounts, RunCounts, RecordCounts, EndCounts, ElseCounts DEF Next
<1> QED
  BY <1>1, <1>2, UseKept DEF GraphInv

LEMMA InitGraph == Init => GraphInv
<1> SUFFICES ASSUME Init PROVE GraphInv
  OBVIOUS
<1>1. pv = {} /\ call.at = "idle" /\ graph = "none" /\ pos = 1 /\ ran = [t \in Tokens |-> << >>]
  BY DEF Init, LiveInit, NoCall, Call
<1>2. Operations = {} /\ OperationsMade = 0 /\ IsFiniteSet(Operations)
  BY <1>1, FS_EmptySet DEF Operations, OperationsMade
<1>3. AppliesPassed = 0
  <2>1. {i \in 1 .. pos - 1 : Nodes[i].kind = "apply"} = {}
    BY <1>1
  <2> QED
    BY <2>1, FS_EmptySet DEF AppliesPassed
<1> QED
  BY <1>1, <1>2, <1>3, OtherSteps DEF GraphInv, PlanRows, FlowInv, Counted, Made, InDoubt, NodeSteps

LEMMA GraphCounts == GraphInv => GraphKnowsDesign
<1> SUFFICES ASSUME GraphInv, use.flow # "none", Idle
             PROVE  IF InDoubt THEN OperationsMade \in AppliesPassed .. AppliesPassed + 1
                    ELSE OperationsMade = AppliesPassed
                           + IF graph = "succeeded" /\ Ready.kind = "apply" THEN 1 ELSE 0
  BY DEF GraphKnowsDesign
<1>1. call.at # "node_done"
  BY DEF Idle
<1> QED
  BY <1>1 DEF GraphInv, FlowInv, Counted, Made

(* The graph knows what it did to the design: between two calls the          *)
(* operations that were made are those of the apply nodes it has passed, for *)
(* every workflow of the table and whatever is lost, repeated, edited or     *)
(* stopped in between; a graph that failed at an apply node, or is stuck     *)
(* there by the end of the process, may have made that node's, and no other. *)
(* The operations are told apart by their tools, so that no use may work     *)
(* with one of the flow's beside it.                                         *)
THEOREM GraphKeepsCount == ASSUME FlowsApart PROVE Spec => []GraphKnowsDesign
<1>1. Init => IInv /\ GraphInv
  BY InitSessions, InitGraph DEF IInv
<1>2. IInv /\ GraphInv /\ [Next]_vars => IInv' /\ GraphInv'
  BY InvariantStep, StepCounts
<1>3. GraphInv => GraphKnowsDesign
  BY GraphCounts
<1> QED
  BY <1>1, <1>2, <1>3, PTL DEF Spec

-----------------------------------------------------------------------------
(* Types *)

LEMMA TypesPut ==
  ASSUME ApprovalTypeOK, NEW r \in Resources, NEW v \in Records, records' = Put(records, r, v)
  PROVE  /\ DOMAIN records' \subseteq Resources /\ DOMAIN records \subseteq DOMAIN records'
         /\ records' \in [DOMAIN records' -> Records]
<1>1. PICK f : f = Put(records, r, v)
  OBVIOUS
<1>2. /\ DOMAIN f = DOMAIN records \cup {r} /\ DOMAIN f \subseteq Resources
      /\ f \in [DOMAIN f -> Records]
  BY <1>1 DEF Put, ApprovalTypeOK, Records
<1>3. records' = f
  BY <1>1
<1> QED
  BY <1>2, <1>3

LEMMA TypesIssue ==
  ASSUME ApprovalTypeOK, NEW r \in Resources, Fresh # {}, IssueFor(r, NewToken)
  PROVE  /\ DOMAIN issued' = DOMAIN issued \cup {NewToken} /\ DOMAIN issued' \subseteq Tokens
         /\ issued' \in [DOMAIN issued' -> Resources]
         /\ passes' \in [DOMAIN issued' -> Nat]
BY NewTokenIsFresh DEF IssueFor, Put, ApprovalTypeOK

(* The records are as they were, but one that is new or decided.            *)
LEMMA TypesKept ==
  ASSUME ApprovalTypeOK, mode' = mode,
         DOMAIN records' \subseteq Resources, records' \in [DOMAIN records' -> Records],
         asked' \subseteq DOMAIN records', shown' \subseteq asked', \A p, q \in shown' : p = q,
         DOMAIN issued \subseteq DOMAIN issued', DOMAIN issued' \subseteq Tokens,
         issued' \in [DOMAIN issued' -> Resources], passes' \in [DOMAIN issued' -> Nat],
         UNCHANGED <<claims, consumed>>
  PROVE  ApprovalTypeOK'
BY DEF ApprovalTypeOK, Records

LEMMA TypesRegister ==
  ASSUME ApprovalTypeOK, TokensPlaced, NEW r \in Resources, NEW loss, Register(r, loss)
  PROVE  ApprovalTypeOK'
<1>1. CASE UNCHANGED approvalVars
  BY <1>1 DEF approvalVars, ApprovalTypeOK
<1>2. CASE HostRegisters(r)
  <2> DEFINE v == Record("pending", TTL, NoToken)
  <2>1. v \in Records
    BY TTLAssumption DEF Record, Records, States
  <2>2. /\ DOMAIN ExpireAll = DOMAIN records
        /\ ExpireAll \in [DOMAIN records -> Records]
    BY ExpireRecord DEF ExpireAll, ApprovalTypeOK, Records
  <2>3. \/ records' \in {records, ExpireAll} /\ asked' = asked
        \/ records' = Put(ExpireAll, r, v) /\ asked' = asked \cup {r}
    BY <1>2 DEF HostRegisters, HostAnswer
  <2> HIDE DEF v
  <2>4. /\ DOMAIN records' \subseteq Resources
        /\ records' \in [DOMAIN records' -> Records]
        /\ asked' \subseteq DOMAIN records' /\ asked \subseteq asked'
    BY <2>1, <2>2, <2>3 DEF Put, ApprovalTypeOK, Records
  <2>5. UNCHANGED <<mode, shown, issued, passes, consumed, claims>>
    BY <1>2 DEF HostRegisters
  <2> QED
    BY <2>4, <2>5, TypesKept DEF ApprovalTypeOK
<1>3. CASE AutomaticRegisters(r)
  <2> DEFINE v == Record("approved", TTL, NewToken)
  <2>1. v \in Records
    BY <1>3, TTLAssumption, NewTokenIsFresh DEF Record, Records, States, AutomaticRegisters
  <2>2. records' = Put(records, r, v)
    BY <1>3 DEF AutomaticRegisters
  <2> HIDE DEF v
  <2>3. Fresh # {} /\ IssueFor(r, NewToken) /\ UNCHANGED <<mode, asked, shown, claims, consumed>>
    BY <1>3 DEF AutomaticRegisters
  <2>4. /\ DOMAIN issued' = DOMAIN issued \cup {NewToken} /\ DOMAIN issued' \subseteq Tokens
        /\ issued' \in [DOMAIN issued' -> Resources]
        /\ passes' \in [DOMAIN issued' -> Nat]
    BY <2>3, TypesIssue
  <2>5. /\ DOMAIN records' \subseteq Resources /\ DOMAIN records \subseteq DOMAIN records'
        /\ records' \in [DOMAIN records' -> Records]
    BY <2>1, <2>2, TypesPut
  <2> QED
    BY <2>3, <2>4, <2>5, TypesKept DEF ApprovalTypeOK
<1> QED
  BY <1>1, <1>2, <1>3 DEF Register

LEMMA TypesByHand ==
  ASSUME ApprovalTypeOK, NEW r \in Resources, Issue(r)
  PROVE  ApprovalTypeOK'
<1>1. /\ DOMAIN issued' = DOMAIN issued \cup {NewToken} /\ DOMAIN issued' \subseteq Tokens
      /\ issued' \in [DOMAIN issued' -> Resources]
      /\ passes' \in [DOMAIN issued' -> Nat]
  BY TypesIssue DEF Issue
<1>2. /\ DOMAIN claims' = DOMAIN claims \cup {NewToken}
      /\ claims' \in [DOMAIN claims' -> [for : Resources, left : -1 .. TTL]]
  BY TTLAssumption DEF Issue, Put, ApprovalTypeOK
<1>3. UNCHANGED <<mode, records, asked, shown, consumed>>
  BY DEF Issue
<1> QED
  BY <1>1, <1>2, <1>3 DEF ApprovalTypeOK

(* A record that is looked at, or taken out.                                *)
LEMMA TypesLook ==
  ASSUME ApprovalTypeOK, TokensPlaced, NEW r, NEW v \in Records,
         \/ records' = records
         \/ r \in DOMAIN records /\ records' = Put(records, r, v)
         \/ mode = "automatic" /\ records' = Without(records, r)
  PROVE  /\ DOMAIN records' \subseteq Resources
         /\ records' \in [DOMAIN records' -> Records]
         /\ asked \subseteq DOMAIN records'
<1>1. CASE records' = records
  BY <1>1 DEF ApprovalTypeOK, Records
<1>2. CASE r \in DOMAIN records /\ records' = Put(records, r, v)
  BY <1>2, TypesPut DEF ApprovalTypeOK
<1>3. CASE mode = "automatic" /\ records' = Without(records, r)
  <2>1. asked = {}
    BY <1>3 DEF TokensPlaced
  <2> QED
    BY <1>3, <2>1 DEF Without, ApprovalTypeOK, Records
<1> QED
  BY <1>1, <1>2, <1>3

LEMMA TypesPoll ==
  ASSUME ApprovalTypeOK, TokensPlaced, NEW r, Poll(r)
  PROVE  ApprovalTypeOK'
<1>1. UNCHANGED <<mode, asked, shown, claims, consumed, issued, passes>>
  BY DEF Poll
<1>2. Record("expired", -1, NoToken) \in Records
  BY TTLAssumption DEF Record, Records, States
<1>3. r \in DOMAIN records => Expire(records[r]) \in Records
  BY ExpireRecord DEF ApprovalTypeOK, Records
<1>4. \/ records' = records
      \/ r \in DOMAIN records /\ records' = Put(records, r, Expire(records[r]))
      \/ mode = "automatic" /\ records' = Without(records, r)
  BY DEF Poll
<1>5. /\ DOMAIN records' \subseteq Resources
      /\ records' \in [DOMAIN records' -> Records]
      /\ asked \subseteq DOMAIN records'
  BY <1>2, <1>3, <1>4, TypesLook
<1> QED
  BY <1>1, <1>5, TypesKept DEF ApprovalTypeOK

LEMMA TypesVerify ==
  ASSUME ApprovalTypeOK, TokensPlaced, NEW r, NEW token, Verifies(r, token)
  PROVE  ApprovalTypeOK'
<1>1. UNCHANGED <<mode, asked, shown, claims, issued>>
  BY DEF Verifies
<1>2. Record("expired", -1, NoToken) \in Records
  BY TTLAssumption DEF Record, Records, States
<1>3. r \in DOMAIN records => /\ Expire(records[r]) \in Records
                              /\ Record("used", -1, records[r].token) \in Records
  BY ExpireRecord, TTLAssumption DEF ApprovalTypeOK, Records, Record, States
<1>4. \/ records' = records
      \/ r \in DOMAIN records /\ records' = Put(records, r, Expire(records[r]))
      \/ r \in DOMAIN records /\ records' = Put(records, r, Record("used", -1, records[r].token))
      \/ mode = "automatic" /\ records' = Without(records, r)
  BY DEF Verifies
<1>5. /\ DOMAIN records' \subseteq Resources
      /\ records' \in [DOMAIN records' -> Records]
      /\ asked \subseteq DOMAIN records'
  BY <1>2, <1>3, <1>4, TypesLook
<1>6. passes' \in [DOMAIN issued -> Nat]
  BY DEF Verifies, Plus, ApprovalTypeOK
<1>7. consumed' \subseteq DOMAIN issued
  <2>1. consumed' = consumed \/ (token \in DOMAIN claims /\ consumed' = consumed \cup {token})
    BY DEF Verifies, Accepts
  <2> QED
    BY <2>1 DEF ApprovalTypeOK
<1> QED
  BY <1>1, <1>5, <1>6, <1>7 DEF ApprovalTypeOK, Records

LEMMA TypesDecide ==
  ASSUME ApprovalTypeOK, NEW r, NEW yes, Decide(r, yes)
  PROVE  ApprovalTypeOK'
<1>1. /\ r \in DOMAIN records /\ r \in Resources
      /\ shown' = {} /\ asked' = asked \ {r}
      /\ UNCHANGED <<mode, claims, consumed>>
  BY DEF Decide, ApprovalTypeOK
<1>2. CASE UNCHANGED <<records, issued, passes>>
  BY <1>1, <1>2 DEF ApprovalTypeOK
<1>3. CASE /\ Fresh # {} /\ IssueFor(r, NewToken)
           /\ records' = Put(records, r, Record("approved", records[r].left, NewToken))
  <2>1. Record("approved", records[r].left, NewToken) \in Records
    BY <1>1, <1>3, NewTokenIsFresh DEF Record, Records, States, ApprovalTypeOK
  <2>2. /\ DOMAIN records' \subseteq Resources /\ DOMAIN records \subseteq DOMAIN records'
        /\ records' \in [DOMAIN records' -> Records]
    BY <1>1, <1>3, <2>1, TypesPut
  <2>3. /\ DOMAIN issued' = DOMAIN issued \cup {NewToken} /\ DOMAIN issued' \subseteq Tokens
        /\ issued' \in [DOMAIN issued' -> Resources]
        /\ passes' \in [DOMAIN issued' -> Nat]
    BY <1>1, <1>3, TypesIssue
  <2> QED
    BY <1>1, <2>2, <2>3, TypesKept DEF ApprovalTypeOK
<1>4. CASE /\ records' = Put(records, r, Record(Decision(r, yes), -1, NoToken))
           /\ UNCHANGED <<issued, passes>>
  <2>1. Record(Decision(r, yes), -1, NoToken) \in Records
    BY TTLAssumption DEF Record, Records, States, Decision
  <2>2. /\ DOMAIN records' \subseteq Resources /\ DOMAIN records \subseteq DOMAIN records'
        /\ records' \in [DOMAIN records' -> Records]
    BY <1>1, <1>4, <2>1, TypesPut
  <2> QED
    BY <1>1, <1>4, <2>2, TypesKept DEF ApprovalTypeOK
<1> QED
  BY <1>2, <1>3, <1>4 DEF Decide

LEMMA TypesTick == ASSUME ApprovalTypeOK, Tick PROVE ApprovalTypeOK'
<1>1. \A left \in -1 .. TTL : Less(left) \in -1 .. TTL
  BY TTLAssumption DEF Less
<1>2. /\ DOMAIN records' = DOMAIN records
      /\ records' \in [DOMAIN records -> Records]
  BY <1>1 DEF Tick, Record, Records, ApprovalTypeOK
<1>3. /\ DOMAIN claims' = DOMAIN claims
      /\ claims' \in [DOMAIN claims -> [for : Resources, left : -1 .. TTL]]
  BY <1>1 DEF Tick, ApprovalTypeOK
<1>4. UNCHANGED <<mode, asked, shown, consumed, issued, passes>>
  BY DEF Tick
<1> QED
  BY <1>2, <1>3, <1>4 DEF ApprovalTypeOK, Records

LEMMA TypesAct ==
  ASSUME ApprovalTypeOK, TokensPlaced, NEW r, NEW loss, NEW token, NEW yes,
         Acts(r, loss, token, yes), Register(r, loss) \/ Issue(r) => r \in Resources
  PROVE  ApprovalTypeOK'
<1>1. CASE UNCHANGED approvalVars
  BY <1>1 DEF approvalVars, ApprovalTypeOK
<1>2. CASE Show(r)
  BY <1>2 DEF Show, ApprovalTypeOK
<1>3. CASE Verify(r, token, loss)
  BY <1>1, <1>3, TypesVerify DEF Verify
<1> QED
  BY <1>1, <1>2, <1>3, TypesRegister, TypesByHand, TypesPoll, TypesDecide, TypesTick DEF Acts

LEMMA TypesEnds == ASSUME ApprovalTypeOK, TokensPlaced, Ends PROVE ApprovalTypeOK'
BY DEF Ends, ApprovalTypeOK, TokensPlaced

CountsFit ==
  /\ made \in 0 .. use.previews /\ edits \in 0 .. use.edits
  /\ faults \in 0 .. use.faults /\ stops \in 0 .. use.stops
VersionsFit ==
  /\ design \in Versions /\ focus \in Versions /\ bound \in Versions
  /\ graph \in {"none", "running", "stuck", "succeeded", "failed"} /\ turn \in Nat
  /\ promoted \subseteq use.plans
StepsFit == call.at \in {"idle"} \cup NodeSteps \cup PlanSteps
CandsFit == \A c \in Plans : cand[c] \in {"none", "lost"} \cup DOMAIN Moves
PreviewsFit ==
  /\ contexts \cup pv \cup wfp \subseteq Sessions \X SessionPreviews
  /\ held \subseteq DesktopNames \X SessionPreviews
  /\ call.at \in PlanSteps => call.p \in SessionPreviews

LEMMA TypeParts ==
  ASSUME SessionsInv, TraceInv
  PROVE  TypeOK <=> /\ ApprovalTypeOK /\ CountsFit /\ VersionsFit /\ StepsFit /\ CandsFit
                    /\ PreviewsFit
<1>1. /\ sess \in [Sessions -> DesktopNames \cup {"new", "gone"}]
      /\ use \in Uses /\ tainted \subseteq Sessions /\ (use.flow # "none" => pos \in DOMAIN Nodes)
      /\ \A c \in Plans : trace[c] \in DOMAIN Moves /\ outcome[c] \in {"none"} \cup Outcomes
  BY DEF SessionsInv, TraceInv, TraceOf, PlanInv
<1>2. (Idle \/ call.at \in NodeSteps \/ (call.at \in PlanSteps /\ call.p \in SessionPreviews))
      <=> StepsFit /\ (call.at \in PlanSteps => call.p \in SessionPreviews)
  BY OtherSteps DEF StepsFit, Idle
<1> QED
  BY <1>1, <1>2 DEF TypeOK, CountsFit, VersionsFit, CandsFit, PreviewsFit

LEMMA UseBounds ==
  ASSUME SessionsInv
  PROVE  use.previews \in Nat /\ use.edits \in Nat /\ use.faults \in Nat /\ use.stops \in Nat
BY UsesAssumption DEF SessionsInv

LEMMA FaultsFit ==
  ASSUME SessionsInv, CountsFit, NEW f, Lose(f) \/ Fail(f) \/ faults' = faults
  PROVE  faults' \in 0 .. use.faults
BY UseBounds DEF CountsFit, Lose, Fail

LEMMA CountsStep ==
  ASSUME SessionsInv, CountsFit, [Next]_vars
  PROVE  CountsFit'
<1> DEFINE Goal == /\ made' = made \/ (made < use.previews /\ made' = made + 1)
                   /\ edits' = edits \/ (edits < use.edits /\ edits' = edits + 1)
                   /\ stops' = stops \/ (stops < use.stops /\ stops' = stops + 1)
                   /\ \E f : Lose(f) \/ Fail(f) \/ faults' = faults
<1>1. SUFFICES Goal
  <2>1. use' = use /\ faults' \in 0 .. use.faults
    BY <1>1, UseKept, FaultsFit
  <2> QED
    BY <1>1, <2>1, UseBounds DEF CountsFit
<1>2. CASE ToolCall
  <2>1. \A s, tool, p, token, loss :
          PreviewTool(s, tool, loss) \/ ApplyTool(s, tool, p, token, loss) => Goal
    BY AppliesFacts DEF PreviewTool, ApplyTool
  <2> HIDE DEF Goal
  <2> QED
    BY <1>2, <2>1 DEF ToolCall
<1>3. CASE PlanCall
  <2>1. \A c, s, result, changed :
          Propose(c) \/ Validate(c) \/ Promote(c) \/ PreviewPlan(s, c) \/ Execute(result, changed) => Goal
    BY DEF Propose, Validate, Promote, PreviewPlan, Execute, sessionVars
  <2>2. \A s, p, token, loss : ApplyPlan(s, p, token, loss) \/ RegisterPlan(loss) \/ WriteTrace(loss) => Goal
    BY DEF ApplyPlan, RegisterPlan, WriteTrace
  <2> HIDE DEF Goal
  <2> QED
    BY <1>3, <2>1, <2>2 DEF PlanCall
<1>4. CASE SessionCall /\ ~ToolCall /\ ~PlanCall
  <2>1. \A s, p, f, tool : Attach(s) \/ Release(s, f) \/ Wait(s, p) \/ Unanswered(s, tool) \/ Edit => Goal
    BY DEF Attach, Release, Abandons, Wait, Unanswered, WorkerEnds, Edit, sessionVars
  <2> HIDE DEF Goal
  <2> QED
    BY <1>4, <2>1 DEF SessionCall
<1>5. CASE FlowCall
  <2>1. \A s, loss : PreviewStart(s, loss) \/ PreviewAdvance(s, loss) => Goal
    BY DEF PreviewStart, PreviewAdvance, Previews
  <2>2. \A s, p, token, opToken, loss :
          ApplyStart(s, token, loss) \/ ApplyAdvance(s, p, token, opToken, loss) => Goal
    BY DEF ApplyStart, ApplyAdvance, Authorizes
  <2> HIDE DEF Goal
  <2> QED
    BY <1>5, <2>1, <2>2 DEF FlowCall
<1>6. CASE RunNode \/ RecordNode
  <2>1. \A loss : PreviewNode(loss) \/ ApplyNode(loss) => Goal
    BY AppliesFacts DEF PreviewNode, ApplyNode
  <2>2. NodeFails \/ ReadNode \/ PollNode \/ ScoreNode \/ RecordNode => Goal
    BY DEF NodeFails, WorkerEnds, ReadNode, PollNode, ScoreNode, RecordNode, sessionVars
  <2> HIDE DEF Goal
  <2> QED
    BY <1>6, <2>1, <2>2 DEF RunNode
<1>7. CASE \/ \E f \in Writes : Close(f)
           \/ Stop \/ Switch \/ UNCHANGED vars
           \/ (Person \/ Tick) /\ UNCHANGED <<sessionVars, exploreVars, call, graphVars>>
  <2>1. \A f : Close(f) => Goal
    BY DEF Close, Ends, Abandons
  <2>2. Stop \/ Switch \/ UNCHANGED vars => Goal
    BY DEF Stop, Crash, Ends, Switch, vars, liveVars, sessionVars
  <2>3. UNCHANGED <<sessionVars, exploreVars, call, graphVars>> => Goal
    BY DEF sessionVars
  <2> HIDE DEF Goal
  <2> QED
    BY <1>7, <2>1, <2>2, <2>3
<1> HIDE DEF Goal
<1> QED
  BY <1>2, <1>3, <1>4, <1>5, <1>6, <1>7 DEF Next

LEMMA VersionsStep ==
  ASSUME SessionsInv, VersionsFit, [Next]_vars
  PROVE  VersionsFit'
<1> DEFINE Graphs == {"none", "running", "stuck", "succeeded", "failed"}
           Goal == /\ design' \in {design, 1 - design} /\ focus' \in {focus, 1 - focus}
                   /\ bound' \in {bound, focus} /\ graph' \in {graph} \cup Graphs
                   /\ turn' \in {turn, turn + 1} /\ promoted' \subseteq promoted \cup use.plans
<1>1. SUFFICES Goal
  BY UseKept DEF VersionsFit, Versions
<1>2. CASE ToolCall /\ UNCHANGED graphVars
  <2>1. \A s, tool, p, token, loss :
          PreviewTool(s, tool, loss) \/ ApplyTool(s, tool, p, token, loss) => design' \in {design, 1 - design}
    BY DEF PreviewTool, ApplyTool, Applies, Runs, Other
  <2>2. \A s, tool, p, token, loss :
          PreviewTool(s, tool, loss) \/ ApplyTool(s, tool, p, token, loss) => promoted' = promoted
    BY DEF PreviewTool, ApplyTool, Applies, exploreVars
  <2>3. design' \in {design, 1 - design} /\ promoted' = promoted
    BY <1>2, <2>1, <2>2 DEF ToolCall
  <2> QED
    BY <1>2, <2>3 DEF graphVars
<1>3. CASE PlanCall /\ UNCHANGED graphVars
  <2>1. \A c \in use.plans : \A s :
          Propose(c) \/ Validate(c) \/ Promote(c) \/ PreviewPlan(s, c) =>
            design' = design /\ promoted' \subseteq promoted \cup use.plans
    BY DEF Propose, Validate, Promote, PreviewPlan, sessionVars, exploreVars
  <2>2. \A s, p, token, loss : ApplyPlan(s, p, token, loss) \/ RegisterPlan(loss) \/ WriteTrace(loss) =>
          design' = design /\ promoted' = promoted
    BY DEF ApplyPlan, RegisterPlan, WriteTrace, exploreVars
  <2>3. \A result, changed : Execute(result, changed) =>
          design' \in {design, 1 - design} /\ promoted' = promoted
    BY DEF Execute, Other
  <2>4. design' \in {design, 1 - design} /\ promoted' \subseteq promoted \cup use.plans
    BY <1>3, <2>1, <2>2, <2>3 DEF PlanCall
  <2> QED
    BY <1>3, <2>4 DEF graphVars
<1>4. CASE SessionCall /\ ~ToolCall /\ ~PlanCall /\ UNCHANGED graphVars
  <2>1. \A s, p, f, tool : Attach(s) \/ Release(s, f) \/ Wait(s, p) \/ Unanswered(s, tool) \/ Edit =>
          design' \in {design, 1 - design} /\ promoted' = promoted
    BY DEF Attach, Release, Wait, Unanswered, WorkerEnds, Edit, Other, sessionVars, exploreVars
  <2>2. design' \in {design, 1 - design} /\ promoted' = promoted
    BY <1>4, <2>1 DEF SessionCall
  <2> QED
    BY <1>4, <2>2 DEF graphVars
<1>5. CASE FlowCall
  <2>1. \A s, loss : PreviewStart(s, loss) \/ PreviewAdvance(s, loss) => Goal
    BY DEF PreviewStart, PreviewAdvance, Previews, exploreVars
  <2>2. \A s, p, token, opToken, loss :
          ApplyStart(s, token, loss) \/ ApplyAdvance(s, p, token, opToken, loss) => Goal
    BY DEF ApplyStart, ApplyAdvance, exploreVars
  <2> HIDE DEF Goal
  <2> QED
    BY <1>5, <2>1, <2>2 DEF FlowCall
<1>6. CASE RunNode \/ RecordNode
  <2>1. \A loss : PreviewNode(loss) \/ ApplyNode(loss) => Goal
    BY DEF PreviewNode, ApplyNode, Applies, Runs, Other, exploreVars, graphVars
  <2>2. NodeFails \/ ReadNode \/ PollNode \/ ScoreNode => Goal
    BY DEF NodeFails, WorkerEnds, ReadNode, PollNode, ScoreNode, sessionVars, exploreVars, graphVars
  <2>3. RecordNode => Goal
    BY DEF RecordNode, sessionVars, exploreVars
  <2> HIDE DEF Goal
  <2> QED
    BY <1>6, <2>1, <2>2, <2>3 DEF RunNode
<1>7. CASE \/ \E f \in Writes : Close(f) /\ UNCHANGED <<graph, pos, turn, op, bound, focus>>
           \/ Stop \/ Switch \/ UNCHANGED vars
           \/ (Person \/ Tick) /\ UNCHANGED <<sessionVars, exploreVars, call, graphVars>>
  <2>1. \A f : Close(f) /\ UNCHANGED <<graph, pos, turn, op, bound, focus>> => Goal
    BY DEF Close, Ends
  <2>2. Stop \/ Switch \/ UNCHANGED vars => Goal
    BY DEF Stop, Crash, Ends, Switch, vars, liveVars, sessionVars, exploreVars, graphVars
  <2>3. UNCHANGED <<sessionVars, exploreVars, call, graphVars>> => Goal
    BY DEF sessionVars, exploreVars, graphVars
  <2> HIDE DEF Goal
  <2> QED
    BY <1>7, <2>1, <2>2, <2>3
<1> HIDE DEF Goal
<1> QED
  BY <1>2, <1>3, <1>4, <1>5, <1>6, <1>7 DEF Next, SessionCall

LEMMA StepsStep ==
  ASSUME SessionsInv, StepsFit, [Next]_vars
  PROVE  StepsFit'
<1> DEFINE Steps == {"idle"} \cup NodeSteps \cup PlanSteps
           Goal == call'.at \in Steps
<1>1. SUFFICES Goal
  BY DEF StepsFit
<1>2. /\ \A at \in WriteSteps \cup {"register", "execute"} : at \in Steps
      /\ \A at \in {"idle", "node", "node_done", "node_again", "node_ended", "node_failed"} : at \in Steps
      /\ call.at \in Steps
  BY DEF StepsFit, PlanSteps, NodeSteps
<1> HIDE DEF Steps
<1>3. ASSUME call' = call PROVE Goal
  BY <1>2, <1>3
<1>4. ASSUME NEW at \in Steps, call' = NoCall \/ Goto(at) \/ \E s, p, token : call' = Call(at, s, p, token)
      PROVE  Goal
  <2>1. Goto(at) => Goal
    BY CallSteps
  <2> QED
    BY <1>2, <1>4, <2>1 DEF NoCall, Call
<1>5. CASE PlanCall
  <2>1. ASSUME NEW c, Propose(c) \/ Promote(c) PROVE Goal
    BY <2>1, <1>3 DEF Propose, Promote
  <2>2. ASSUME NEW c, NEW s, Validate(c) \/ PreviewPlan(s, c) PROVE Goal
    <3>1. \E at \in {"validated", "failed", "previewed"} : \E q, p, token : call' = Call(at, q, p, token)
      BY <2>2 DEF Validate, PreviewPlan
    <3> QED
      BY <3>1, <1>2, <1>4 DEF WriteSteps
  <2>3. ASSUME NEW s, NEW p, NEW token, NEW loss, ApplyPlan(s, p, token, loss) PROVE Goal
    <3>1. call' = NoCall \/ \E at \in {"execute", "authorized"} : \E t : call' = Call(at, s, p, t)
      BY <2>3 DEF ApplyPlan
    <3> QED
      BY <3>1, <1>2, <1>4 DEF WriteSteps
  <2>4. ASSUME NEW result, NEW changed, Execute(result, changed) PROVE Goal
    <3>1. \E at \in {"failed", "stale", "applied"} : Goto(at)
      BY <2>4 DEF Execute
    <3> QED
      BY <3>1, <1>2, <1>4 DEF WriteSteps
  <2>5. ASSUME NEW loss, RegisterPlan(loss) PROVE Goal
    <3>1. call' = NoCall \/ \E at \in {"decided", "rejected", "expired", "failed"} : Goto(at)
      BY <2>5 DEF RegisterPlan, AfterAnswer
    <3> QED
      BY <3>1, <1>2, <1>4 DEF WriteSteps
  <2>6. ASSUME NEW f, WriteTrace(f) PROVE Goal
    <3>1. call' = NoCall \/ \E at \in {"register", "execute", "closed"} : Goto(at)
      BY <2>6 DEF WriteTrace, NextStep
    <3> QED
      BY <3>1, <1>2, <1>4 DEF WriteSteps
  <2> QED
    BY <1>5, <2>1, <2>2, <2>3, <2>4, <2>5, <2>6 DEF PlanCall
<1>6. CASE SessionCall /\ ~PlanCall
  <2>1. ASSUME NEW s, NEW p, Wait(s, p) PROVE Goal
    <3>1. call' = NoCall \/ \E at \in {"decided", "rejected", "expired", "failed"} : call' = Call(at, s, p, NoToken)
      BY <2>1 DEF Wait, AfterAnswer
    <3> QED
      BY <3>1, <1>2, <1>4 DEF WriteSteps
  <2>2. \A s, f, tool : Attach(s) \/ Release(s, f) \/ Unanswered(s, tool) \/ Edit => call' = call
    BY DEF Attach, Release, Unanswered, WorkerEnds, Edit
  <2> QED
    BY <1>3, <1>6, <2>1, <2>2, ToolsOnly DEF SessionCall
<1>7. CASE FlowCall
  <2>1. \A s, loss : PreviewStart(s, loss) \/ PreviewAdvance(s, loss) => call' = call
    BY DEF PreviewStart, PreviewAdvance, Previews
  <2>2. \A s, token, loss : ApplyStart(s, token, loss) => call' = call
    BY DEF ApplyStart
  <2>3. ASSUME NEW s, NEW p, NEW token, NEW opToken, NEW loss, ApplyAdvance(s, p, token, opToken, loss)
        PROVE  Goal
    <3>1. call' = call \/ call' = [Call("node", s, p, token) EXCEPT !.op = opToken]
      BY <2>3 DEF ApplyAdvance
    <3>2. [Call("node", s, p, token) EXCEPT !.op = opToken].at = "node"
      BY DEF Call
    <3> QED
      BY <3>1, <3>2, <1>2, <1>3
  <2> QED
    BY <1>3, <1>7, <2>1, <2>2, <2>3 DEF FlowCall
<1>8. CASE RunNode \/ RecordNode
  <2>1. call' = NoCall \/ \E at \in {"node_done", "node_again", "node_ended", "node_failed"} : Goto(at)
    <3>1. \A loss : PreviewNode(loss) \/ ApplyNode(loss) =>
            \E at \in {"node_done", "node_again", "node_ended", "node_failed"} : Goto(at)
      BY DEF PreviewNode, ApplyNode, Applies, Ended
    <3>2. NodeFails \/ ReadNode \/ PollNode \/ ScoreNode =>
            \E at \in {"node_done", "node_again", "node_ended", "node_failed"} : Goto(at)
      BY DEF NodeFails, WorkerEnds, ReadNode, PollNode, ScoreNode
    <3>3. RecordNode => call' = NoCall
      BY DEF RecordNode
    <3> QED
      BY <1>8, <3>1, <3>2, <3>3 DEF RunNode
  <2> QED
    BY <2>1, <1>2, <1>4
<1>9. CASE (\E f \in Writes : Close(f)) \/ Stop \/ Switch \/ UNCHANGED vars
  <2>1. call' = call \/ call' = NoCall
    BY <1>9 DEF Close, Stop, Crash, Switch, vars, liveVars
  <2> QED
    BY <2>1, <1>2, <1>3, <1>4
<1> HIDE DEF Goal
<1> QED
  BY <1>3, <1>5, <1>6, <1>7, <1>8, <1>9 DEF Next

LEMMA CandsStep ==
  ASSUME TraceInv, CandsFit, [Next]_vars
  PROVE  CandsFit'
<1> DEFINE Names == {"none", "lost"} \cup DOMAIN Moves
           Goal == \A c \in Plans : cand'[c] \in Names
<1>1. SUFFICES Goal
  BY DEF CandsFit
<1>2. /\ {"none", "lost", "proposed", "validated", "previewed", "approved", "rejected", "expired",
          "failed", "applied"} \cup Finals \subseteq Names
      /\ DOMAIN cand = Plans /\ \A c \in Plans : cand[c] \in Names
  BY DEF Moves, Finals, CandsFit, TraceInv
<1> HIDE DEF Names
<1>3. ASSUME cand' = cand PROVE Goal
  BY <1>2, <1>3
<1>4. ASSUME NEW c, Propose(c) PROVE Goal
  BY <1>2, <1>4 DEF Propose
<1>5. ASSUME NEW f, WriteTrace(f) PROVE Goal
  <2>1. PICK c : c = Plan(call.p)
    OBVIOUS
  <2>2. /\ call.at \in WriteSteps
        /\ cand' = cand \/ cand' = [cand EXCEPT ![c] = Wanted(call.at, c)]
    BY <1>5, <2>1 DEF WriteTrace
  <2>3. ASSUME c \in Plans PROVE Wanted(call.at, c) \in Names
    <3>1. call.at = "closed" => outcome[c] \in Finals
      BY <2>1, <2>3 DEF TraceInv, TraceOf, CallInv, CallOf, PlanSteps, WriteSteps
    <3> QED
      BY <1>2, <2>2, <3>1 DEF Wanted, WriteSteps
  <2> QED
    BY <1>2, <2>2, <2>3
<1>6. ASSUME NEW cs, NEW f, Abandons(cs, f) PROVE Goal
  BY <1>2, <1>6 DEF Abandons, Abandoned
<1>7. ASSUME Stop PROVE Goal
  BY <1>2, <1>7 DEF Stop, Crash
<1>8. CASE PlanCall
  <2>1. \A c, s, p, token, loss, result, changed :
          Validate(c) \/ PreviewPlan(s, c) \/ ApplyPlan(s, p, token, loss)
            \/ Execute(result, changed) \/ RegisterPlan(loss) \/ Promote(c) => cand' = cand
    BY DEF Validate, PreviewPlan, ApplyPlan, Execute, RegisterPlan, Promote, exploreVars
  <2> HIDE DEF Goal
  <2> QED
    BY <1>3, <1>4, <1>5, <1>8, <2>1 DEF PlanCall
<1>9. CASE ToolCall
  <2>1. \A s, tool, p, token, loss :
          PreviewTool(s, tool, loss) \/ ApplyTool(s, tool, p, token, loss) => cand' = cand
    BY DEF PreviewTool, ApplyTool, Applies, exploreVars
  <2> HIDE DEF Goal
  <2> QED
    BY <1>3, <1>9, <2>1 DEF ToolCall
<1>10. CASE SessionCall /\ ~ToolCall /\ ~PlanCall
  <2>1. \A s, p, tool : Attach(s) \/ Wait(s, p) \/ Unanswered(s, tool) \/ Edit => cand' = cand
    BY DEF Attach, Wait, Unanswered, WorkerEnds, Edit, exploreVars
  <2>2. \A s, f : Release(s, f) => Goal
    BY <1>6 DEF Release
  <2> HIDE DEF Goal
  <2> QED
    BY <1>3, <1>10, <2>1, <2>2 DEF SessionCall
<1>11. CASE FlowCall
  <2>1. \A s, p, token, opToken, loss :
          PreviewStart(s, loss) \/ PreviewAdvance(s, loss) \/ ApplyStart(s, token, loss)
            \/ ApplyAdvance(s, p, token, opToken, loss) => cand' = cand
    BY DEF PreviewStart, PreviewAdvance, Previews, ApplyStart, ApplyAdvance, exploreVars
  <2> HIDE DEF Goal
  <2> QED
    BY <1>3, <1>11, <2>1 DEF FlowCall
<1>12. CASE RunNode \/ RecordNode
  <2>1. \A loss : PreviewNode(loss) \/ ApplyNode(loss) => cand' = cand
    BY DEF PreviewNode, ApplyNode, Applies, exploreVars
  <2>2. NodeFails \/ ReadNode \/ PollNode \/ ScoreNode \/ RecordNode => cand' = cand
    BY DEF NodeFails, WorkerEnds, ReadNode, PollNode, ScoreNode, RecordNode, exploreVars
  <2> HIDE DEF Goal
  <2> QED
    BY <1>3, <1>12, <2>1, <2>2 DEF RunNode
<1>13. CASE \/ \E f \in Writes : Close(f)
            \/ Switch \/ UNCHANGED vars
            \/ (Person \/ Tick) /\ UNCHANGED <<sessionVars, exploreVars, call, graphVars>>
  <2>1. Switch \/ UNCHANGED vars => cand' = cand
    BY DEF Switch, vars, liveVars, exploreVars
  <2>2. UNCHANGED <<sessionVars, exploreVars, call, graphVars>> => cand' = cand
    BY DEF exploreVars
  <2>3. \A f : Close(f) => Goal
    BY <1>6 DEF Close
  <2> HIDE DEF Goal
  <2> QED
    BY <1>3, <1>13, <2>1, <2>2, <2>3
<1> HIDE DEF Goal
<1> QED
  BY <1>7, <1>8, <1>9, <1>10, <1>11, <1>12, <1>13 DEF Next

LEMMA ShowableParts ==
  /\ \A tool \in use.tools \cup FlowTools : \A v \in Versions : <<tool, v>> \in SessionPreviews
  /\ \A c \in use.plans : \A v \in Versions : <<explore(c), v>> \in SessionPreviews
  /\ \A v \in Versions : <<start, v>> \in SessionPreviews
  /\ \A n \in Nat : <<advance, n>> \in SessionPreviews
BY DEF SessionPreviews, Showable, ToolsOf, FlowTools, Nodes

LEMMA Showing == ASSUME [Next]_vars PROVE SessionPreviews' = SessionPreviews
BY UseKept DEF SessionPreviews

LEMMA ResourceOf ==
  ASSUME ResourcesSuffice, SessionsInv
  PROVE  /\ \A s \in Sessions, p \in SessionPreviews : <<s, p>> \in Resources
         /\ PreviewsFit => contexts \subseteq Resources
BY DEF ResourcesSuffice, SessionPreviews, SessionsInv, PreviewsFit

(* What is put to the authority can be put to it.                           *)
LEMMA ApprovalStep ==
  ASSUME ResourcesSuffice, SessionsInv, TokensPlaced, ApprovalTypeOK, VersionsFit, PreviewsFit,
         [Next]_vars
  PROVE  ApprovalTypeOK'
<1> DEFINE Goal == ApprovalTypeOK'
<1> SUFFICES Goal
  OBVIOUS
<1>1. ASSUME UNCHANGED approvalVars PROVE Goal
  BY <1>1 DEF approvalVars, ApprovalTypeOK
<1>2. ASSUME NEW s \in Sessions, NEW p \in SessionPreviews, NEW loss, Register(<<s, p>>, loss) PROVE Goal
  BY <1>2, ResourceOf, TypesRegister
<1>3. ASSUME NEW r, NEW token, NEW loss, Verify(r, token, loss) PROVE Goal
  BY <1>1, <1>3, TypesVerify DEF Verify
<1>4. ASSUME NEW r, Poll(r) PROVE Goal
  BY <1>4, TypesPoll
<1>5. CASE Person
  <2>1. ASSUME NEW r \in contexts, Issue(r) PROVE Goal
    BY <2>1, ResourceOf, TypesByHand
  <2>2. ASSUME NEW r, Show(r) PROVE Goal
    BY <2>2 DEF Show, ApprovalTypeOK
  <2>3. ASSUME NEW r, NEW yes, Decide(r, yes) PROVE Goal
    BY <2>3, TypesDecide
  <2> HIDE DEF Goal
  <2> QED
    BY <1>5, <2>1, <2>2, <2>3 DEF Person
<1>6. ASSUME Tick \/ Ends PROVE Goal
  BY <1>6, TypesTick, TypesEnds
<1> HIDE DEF Goal
<1>7. CASE ToolCall
  <2>1. ASSUME NEW s \in Sessions, NEW tool \in use.tools, NEW loss, PreviewTool(s, tool, loss) PROVE Goal
    <3>1. <<tool, design>> \in SessionPreviews
      BY ShowableParts DEF VersionsFit
    <3> QED
      BY <1>2, <2>1, <3>1 DEF PreviewTool, Asks
  <2>2. ASSUME NEW s, NEW tool, NEW p, NEW token, NEW loss, ApplyTool(s, tool, p, token, loss) PROVE Goal
    BY <1>3, <2>2 DEF ApplyTool, Applies
  <2> QED
    BY <1>7, <2>1, <2>2 DEF ToolCall
<1>8. CASE PlanCall
  <2>1. ASSUME NEW c, NEW s, NEW f, NEW result, NEW changed,
               Propose(c) \/ Validate(c) \/ Promote(c) \/ PreviewPlan(s, c) \/ Execute(result, changed)
                 \/ WriteTrace(f)
        PROVE  UNCHANGED approvalVars
    BY <2>1 DEF Propose, Validate, Promote, PreviewPlan, Execute, WriteTrace
  <2>2. ASSUME NEW s, NEW p, NEW token, NEW loss, ApplyPlan(s, p, token, loss) PROVE Goal
    BY <1>1, <1>3, <2>2 DEF ApplyPlan
  <2>3. ASSUME NEW loss, RegisterPlan(loss) PROVE Goal
    <3>1. call.at = "register" /\ Register(<<call.s, call.p>>, loss)
      BY <2>3 DEF RegisterPlan, Asks
    <3>2. call.s \in Sessions /\ call.p \in SessionPreviews
      BY <3>1 DEF SessionsInv, CallFits, PreviewsFit, PlanSteps
    <3> QED
      BY <1>2, <3>1, <3>2
  <2> QED
    BY <1>1, <1>8, <2>1, <2>2, <2>3 DEF PlanCall
<1>9. CASE SessionCall /\ ~ToolCall /\ ~PlanCall
  <2>1. ASSUME NEW s, NEW p, Wait(s, p) PROVE Goal
    BY <1>4, <2>1 DEF Wait
  <2>2. \A s, f, tool : Attach(s) \/ Release(s, f) \/ Unanswered(s, tool) \/ Edit => UNCHANGED approvalVars
    BY DEF Attach, Release, Unanswered, WorkerEnds, Edit
  <2> QED
    BY <1>1, <1>9, <2>1, <2>2 DEF SessionCall
<1>10. CASE FlowCall
  <2>1. ASSUME NEW s \in Sessions, NEW loss, PreviewStart(s, loss) \/ PreviewAdvance(s, loss) PROVE Goal
    <3>1. \E p \in SessionPreviews : Register(<<s, p>>, loss)
      <4>1. <<start, focus>> \in SessionPreviews /\ <<advance, turn>> \in SessionPreviews
        BY ShowableParts DEF VersionsFit
      <4> QED
        BY <2>1, <4>1 DEF PreviewStart, PreviewAdvance, Previews, Asks
    <3> QED
      BY <1>2, <3>1
  <2>2. ASSUME NEW s, NEW token, NEW loss, ApplyStart(s, token, loss) PROVE Goal
    BY <1>3, <2>2 DEF ApplyStart, Authorizes
  <2>3. ASSUME NEW s, NEW p, NEW token, NEW opToken, NEW loss, ApplyAdvance(s, p, token, opToken, loss)
        PROVE  Goal
    BY <1>3, <2>3 DEF ApplyAdvance, Authorizes
  <2> QED
    BY <1>10, <2>1, <2>2, <2>3 DEF FlowCall
<1>11. CASE RunNode \/ RecordNode
  <2>1. ASSUME NEW loss, PreviewNode(loss) PROVE Goal
    <3>1. Register(<<call.s, <<Ready.tool, design>>>>, loss) /\ call.at = "node"
      BY <2>1 DEF PreviewNode, Asks
    <3>2. call.s \in Sessions /\ <<Ready.tool, design>> \in SessionPreviews
      BY <3>1, NotOfFlow, ShowableParts DEF SessionsInv, CallFits, VersionsFit
    <3> QED
      BY <1>2, <3>1, <3>2
  <2>2. ASSUME NEW loss, ApplyNode(loss) PROVE Goal
    BY <1>3, <2>2 DEF ApplyNode, Applies
  <2>3. NodeFails \/ ReadNode \/ PollNode \/ ScoreNode \/ RecordNode => UNCHANGED approvalVars
    BY DEF NodeFails, WorkerEnds, ReadNode, PollNode, ScoreNode, RecordNode
  <2> QED
    BY <1>1, <1>11, <2>1, <2>2, <2>3 DEF RunNode
<1>12. CASE Switch \/ UNCHANGED vars
  BY <1>1, <1>12 DEF Switch, vars, liveVars
<1>13. CASE (\E f \in Writes : Close(f)) \/ Stop
  BY <1>6, <1>13 DEF Close, Stop, Crash
<1> QED
  BY <1>5, <1>6, <1>7, <1>8, <1>9, <1>10, <1>11, <1>12, <1>13 DEF Next

(* A step puts down one preview at most.                                    *)
LEMMA OnePreview ==
  ASSUME PreviewsFit, [Next]_vars, NEW s \in Sessions, NEW p \in SessionPreviews, Known(s),
         contexts' \cup pv' \cup wfp' \subseteq contexts \cup pv \cup wfp \cup {<<s, p>>},
         held' \subseteq held \cup {<<sess[s], p>>},
         call'.at \in PlanSteps => call'.p = p \/ (call.at \in PlanSteps /\ call'.p = call.p)
  PROVE  PreviewsFit'
<1>1. <<s, p>> \in Sessions \X SessionPreviews /\ <<sess[s], p>> \in DesktopNames \X SessionPreviews
  BY DEF Known
<1> QED
  BY <1>1, Showing DEF PreviewsFit

LEMMA NoPreviews ==
  ASSUME PreviewsFit, [Next]_vars,
         contexts' \cup pv' \cup wfp' \subseteq contexts \cup pv \cup wfp, held' \subseteq held,
         call'.at \in PlanSteps => call'.p \in SessionPreviews
  PROVE  PreviewsFit'
BY Showing DEF PreviewsFit

LEMMA PreviewsStep ==
  ASSUME SessionsInv, VersionsFit, PreviewsFit, [Next]_vars
  PROVE  PreviewsFit'
<1> DEFINE Fewer == contexts' \cup pv' \cup wfp' \subseteq contexts \cup pv \cup wfp /\ held' \subseteq held
<1>1. ASSUME Fewer, call' = call \/ call'.at \notin PlanSteps
             \/ (call.at \in PlanSteps /\ call'.p = call.p)
      PROVE  PreviewsFit'
  BY <1>1, NoPreviews DEF PreviewsFit
<1> HIDE DEF Fewer
<1>2. NoCall.at \notin PlanSteps
  BY OtherSteps DEF NoCall, Call
<1>3. CASE ToolCall /\ UNCHANGED graphVars
  <2>1. ASSUME NEW s \in Sessions, NEW tool \in use.tools, NEW loss, PreviewTool(s, tool, loss)
        PROVE  PreviewsFit'
    <3>1. PICK p : p = <<tool, design>>
      OBVIOUS
    <3>2. p \in SessionPreviews
      BY <3>1, ShowableParts DEF VersionsFit
    <3>3. /\ Known(s) /\ UNCHANGED <<pv, call>> /\ held' = held \cup {<<sess[s], p>>}
          /\ contexts' \subseteq contexts \cup {<<s, p>>}
      BY <2>1, <3>1 DEF PreviewTool, Asks, exploreVars
    <3> QED
      BY <1>3, <3>2, <3>3, OnePreview DEF graphVars, PreviewsFit
  <2>2. ASSUME NEW s, NEW tool, NEW p, NEW token, NEW loss, ApplyTool(s, tool, p, token, loss)
        PROVE  PreviewsFit'
    <3>1. Fewer /\ call' = call
      BY <1>3, <2>2, AppliesFacts DEF ApplyTool, exploreVars, graphVars, Fewer
    <3> QED
      BY <1>1, <3>1
  <2> QED
    BY <1>3, <2>1, <2>2 DEF ToolCall
<1>4. CASE PlanCall /\ UNCHANGED graphVars
  <2>1. ASSUME NEW c, Propose(c) \/ Promote(c) PROVE PreviewsFit'
    <3>1. Fewer /\ call' = call
      BY <1>4, <2>1 DEF Propose, Promote, sessionVars, graphVars, Fewer
    <3> QED
      BY <1>1, <3>1
  <2>2. ASSUME NEW c \in use.plans, Validate(c) PROVE PreviewsFit'
    <3>1. /\ contexts' \cup pv' \cup wfp' \subseteq contexts \cup pv \cup wfp /\ held' \subseteq held
          /\ call'.p = <<explore(c), 0>>
      BY <1>4, <2>2 DEF Validate, Call, sessionVars, exploreVars, graphVars
    <3>2. <<explore(c), 0>> \in SessionPreviews
      BY ShowableParts DEF Versions
    <3> QED
      BY <3>1, <3>2, NoPreviews
  <2>3. ASSUME NEW c \in use.plans, NEW s \in Sessions, PreviewPlan(s, c) PROVE PreviewsFit'
    <3>1. PICK p : p = <<explore(c), design>>
      OBVIOUS
    <3>2. p \in SessionPreviews
      BY <3>1, ShowableParts DEF VersionsFit
    <3>3. /\ Known(s) /\ contexts' = contexts /\ call'.p = p
          /\ held' \subseteq held \cup {<<sess[s], p>>} /\ pv' \subseteq pv \cup {<<s, p>>}
      BY <2>3, <3>1 DEF PreviewPlan, Call
    <3> QED
      BY <1>4, <3>2, <3>3, OnePreview DEF graphVars
  <2>4. ASSUME NEW s, NEW p, NEW token, NEW loss, ApplyPlan(s, p, token, loss) PROVE PreviewsFit'
    <3>1. /\ UNCHANGED <<contexts, pv, held>> /\ <<s, p>> \in pv
          /\ call' = NoCall \/ \E at, t : call' = Call(at, s, p, t)
      BY <2>4 DEF ApplyPlan, exploreVars
    <3>2. p \in SessionPreviews
      BY <3>1 DEF PreviewsFit
    <3>3. call'.at \in PlanSteps => call'.p = p
      BY <1>2, <3>1 DEF Call
    <3> QED
      BY <1>4, <3>1, <3>2, <3>3, NoPreviews DEF graphVars
  <2>5. ASSUME NEW result, NEW changed, Execute(result, changed) PROVE PreviewsFit'
    <3>1. call.at = "execute" /\ (\E at : Goto(at)) /\ Fewer
      BY <1>4, <2>5 DEF Execute, graphVars, Fewer
    <3> QED
      BY <1>1, <3>1, CallSteps DEF PlanSteps
  <2>6. ASSUME NEW loss, RegisterPlan(loss) PROVE PreviewsFit'
    <3>1. PICK s, p : s = call.s /\ p = call.p
      OBVIOUS
    <3>2. /\ call.at = "register" /\ UNCHANGED held /\ pv' \subseteq pv
          /\ contexts' \subseteq contexts \cup {<<s, p>>}
          /\ call' = NoCall \/ \E at : Goto(at)
      BY <2>6, <3>1 DEF RegisterPlan, Asks
    <3>3. s \in Sessions /\ Known(s) /\ p \in SessionPreviews
      BY <3>1, <3>2 DEF SessionsInv, CallFits, PreviewsFit, PlanSteps
    <3>4. call'.at \in PlanSteps => call'.p = p
      BY <1>2, <3>1, <3>2, CallSteps
    <3> QED
      BY <1>4, <3>2, <3>3, <3>4, OnePreview DEF graphVars
  <2>7. ASSUME NEW f, WriteTrace(f) PROVE PreviewsFit'
    <3>1. call.at \in PlanSteps /\ Fewer /\ (call' = NoCall \/ \E at : Goto(at))
      BY <1>4, <2>7 DEF WriteTrace, PlanSteps, graphVars, Fewer
    <3> QED
      BY <1>1, <1>2, <3>1, CallSteps
  <2> QED
    BY <1>4, <2>1, <2>2, <2>3, <2>4, <2>5, <2>6, <2>7 DEF PlanCall
<1>5. CASE SessionCall /\ ~ToolCall /\ ~PlanCall /\ UNCHANGED graphVars
  <2>1. ASSUME NEW s, NEW p, Wait(s, p) PROVE PreviewsFit'
    <3>1. /\ UNCHANGED <<contexts, pv, held>> /\ <<s, p>> \in contexts
          /\ call' = NoCall \/ \E at : call' = Call(at, s, p, NoToken)
      BY <2>1 DEF Wait, sessionVars, exploreVars
    <3>2. p \in SessionPreviews
      BY <3>1 DEF PreviewsFit
    <3>3. call'.at \in PlanSteps => call'.p = p
      BY <1>2, <3>1 DEF Call
    <3> QED
      BY <1>5, <3>1, <3>2, <3>3, NoPreviews DEF graphVars
  <2>2. \A s, f, tool : Attach(s) \/ Release(s, f) \/ Unanswered(s, tool) \/ Edit =>
          contexts' \subseteq contexts /\ pv' \subseteq pv /\ held' \subseteq held /\ call' = call
    BY DEF Attach, Release, Forgotten, Unanswered, WorkerEnds, Edit, exploreVars
  <2>3. ASSUME contexts' \subseteq contexts /\ pv' \subseteq pv /\ held' \subseteq held /\ call' = call
        PROVE  PreviewsFit'
    <3>1. Fewer
      BY <1>5, <2>3 DEF graphVars, Fewer
    <3> QED
      BY <1>1, <2>3, <3>1
  <2> QED
    BY <1>5, <2>1, <2>2, <2>3 DEF SessionCall
<1>6. CASE FlowCall
  <2>1. ASSUME NEW s \in Sessions, NEW loss, PreviewStart(s, loss) \/ PreviewAdvance(s, loss)
        PROVE  PreviewsFit'
    <3>1. <<start, focus>> \in SessionPreviews /\ <<advance, turn>> \in SessionPreviews
      BY ShowableParts DEF VersionsFit
    <3>2. PICK p \in SessionPreviews :
            /\ Known(s) /\ UNCHANGED <<pv, held, call>>
            /\ wfp' = wfp \cup {<<s, p>>} /\ contexts' \subseteq contexts \cup {<<s, p>>}
      BY <2>1, <3>1 DEF PreviewStart, PreviewAdvance, Previews, Asks, exploreVars
    <3> QED
      BY <3>2, OnePreview DEF PreviewsFit
  <2>2. ASSUME NEW s, NEW token, NEW loss, ApplyStart(s, token, loss) PROVE PreviewsFit'
    <3>1. Fewer /\ call' = call
      BY <2>2 DEF ApplyStart, Authorizes, exploreVars, Fewer
    <3> QED
      BY <1>1, <3>1
  <2>3. ASSUME NEW s, NEW p, NEW token, NEW opToken, NEW loss, ApplyAdvance(s, p, token, opToken, loss)
        PROVE  PreviewsFit'
    <3>1. /\ Fewer
          /\ call' = call \/ call' = [Call("node", s, p, token) EXCEPT !.op = opToken]
      BY <2>3 DEF ApplyAdvance, Authorizes, exploreVars, Fewer
    <3>2. [Call("node", s, p, token) EXCEPT !.op = opToken].at = "node"
      BY DEF Call
    <3>3. "node" \notin PlanSteps
      BY OtherSteps DEF NodeSteps
    <3> QED
      BY <1>1, <3>1, <3>2, <3>3
  <2> QED
    BY <1>6, <2>1, <2>2, <2>3 DEF FlowCall
<1>7. CASE RunNode \/ RecordNode
  <2>1. ASSUME NEW at \in NodeSteps, Goto(at) PROVE call'.at \notin PlanSteps
    BY <2>1, CallSteps, OtherSteps
  <2>2. ASSUME NEW loss, PreviewNode(loss) PROVE PreviewsFit'
    <3>1. PICK s, p : s = call.s /\ p = <<Ready.tool, design>>
      OBVIOUS
    <3>2. /\ call.at = "node" /\ Known(s) /\ UNCHANGED <<pv, wfp>>
          /\ held' = held \cup {<<sess[s], p>>} /\ contexts' \subseteq contexts \cup {<<s, p>>}
          /\ Goto("node_failed") \/ Goto("node_done")
      BY <2>2, <3>1 DEF PreviewNode, Asks, exploreVars
    <3>3. s \in Sessions /\ p \in SessionPreviews
      BY <3>1, <3>2, NotOfFlow, ShowableParts DEF SessionsInv, CallFits, VersionsFit
    <3> QED
      BY <2>1, <3>2, <3>3, OnePreview DEF NodeSteps
  <2>3. ASSUME NEW loss, ApplyNode(loss) PROVE PreviewsFit'
    <3>1. Fewer /\ \E at \in NodeSteps : Goto(at)
      BY <2>3, AppliesFacts DEF ApplyNode, Ended, exploreVars, graphVars, Fewer, NodeSteps
    <3> QED
      BY <1>1, <2>1, <3>1
  <2>4. NodeFails \/ ReadNode \/ PollNode \/ ScoreNode => Fewer /\ \E at \in NodeSteps : Goto(at)
    BY DEF NodeFails, WorkerEnds, ReadNode, PollNode, ScoreNode, sessionVars, exploreVars, graphVars, Fewer, NodeSteps
  <2>5. RecordNode => Fewer /\ call' = NoCall
    BY DEF RecordNode, sessionVars, exploreVars, Fewer
  <2> QED
    BY <1>1, <1>2, <1>7, <2>1, <2>2, <2>3, <2>4, <2>5 DEF RunNode
<1>8. CASE \/ \E f \in Writes : Close(f) /\ wfp' = {}
           \/ Stop \/ Switch \/ UNCHANGED vars
           \/ (Person \/ Tick) /\ UNCHANGED <<sessionVars, exploreVars, call, graphVars>>
  <2>1. \A f : Close(f) /\ wfp' = {} => Fewer /\ call' = call
    BY DEF Close, Ends, Fewer
  <2>2. Stop => Fewer /\ call' = NoCall
    BY DEF Stop, Crash, Ends, Fewer
  <2>3. Switch \/ UNCHANGED vars => Fewer /\ call' = call
    BY DEF Switch, vars, liveVars, sessionVars, exploreVars, graphVars, Fewer
  <2>4. UNCHANGED <<sessionVars, exploreVars, call, graphVars>> => Fewer /\ call' = call
    BY DEF sessionVars, exploreVars, graphVars, Fewer
  <2> QED
    BY <1>1, <1>2, <1>8, <2>1, <2>2, <2>3, <2>4
<1> QED
  BY <1>3, <1>4, <1>5, <1>6, <1>7, <1>8 DEF Next, SessionCall

LEMMA TypesStep ==
  ASSUME ResourcesSuffice, SessionsInv, TokensPlaced, TraceInv, TypeOK, [Next]_vars
  PROVE  TypeOK'
<1>1. SessionsInv' /\ TraceInv'
  BY StepSessions, StepTrace
<1>2. /\ ApprovalTypeOK /\ CountsFit /\ VersionsFit /\ StepsFit /\ CandsFit /\ PreviewsFit
  BY TypeParts
<1>3. /\ ApprovalTypeOK' /\ CountsFit' /\ VersionsFit' /\ StepsFit' /\ CandsFit' /\ PreviewsFit'
  BY <1>2, ApprovalStep, CountsStep, VersionsStep, StepsStep, CandsStep, PreviewsStep
<1>4. /\ sess' \in [Sessions -> DesktopNames \cup {"new", "gone"}]
      /\ use' \in Uses /\ tainted' \subseteq Sessions
      /\ use'.flow # "none" => pos' \in DOMAIN Nodes'
      /\ \A c \in Plans : trace'[c] \in DOMAIN Moves /\ outcome'[c] \in {"none"} \cup Outcomes
  BY <1>1 DEF SessionsInv, TraceInv, TraceOf, PlanInv
<1>5. Idle' \/ call'.at \in NodeSteps \/ (call'.at \in PlanSteps /\ call'.p \in SessionPreviews')
  BY <1>3 DEF StepsFit, PreviewsFit, Idle
<1> QED
  BY <1>3, <1>4, <1>5 DEF TypeOK, CountsFit, VersionsFit, CandsFit, PreviewsFit

LEMMA InitTypes == Init => TypeOK
<1> SUFFICES ASSUME Init PROVE TypeOK
  OBVIOUS
<1>1. SessionsInv /\ TraceInv
  BY InitSessions, InitTrace
<1>2. ApprovalTypeOK
  BY DEF Init, LiveInit, ApprovalInit, ApprovalTypeOK
<1>3. CountsFit
  BY <1>1, UseBounds DEF Init, LiveInit, CountsFit
<1>4. VersionsFit /\ CandsFit
  BY DEF Init, LiveInit, VersionsFit, CandsFit, Versions
<1>5. StepsFit /\ PreviewsFit
  BY OtherSteps DEF Init, LiveInit, StepsFit, PreviewsFit, NoCall, Call
<1> QED
  BY <1>1, <1>2, <1>3, <1>4, <1>5, TypeParts

(* The types of the whole composition, for any resources among which is all *)
(* that can be previewed: whatever the authority, every context, preview    *)
(* and question is of a session and of a tool, plan or step its use has,    *)
(* the handler is at a step of its own tool, and no bound of a use is       *)
(* passed, over restarts, released sessions and lost answers.               *)
THEOREM TypesHold == ASSUME ResourcesSuffice PROVE Spec => []TypeOK
<1>1. Init => IInv /\ TraceInv /\ TypeOK
  BY InitSessions, InitTrace, InitTypes DEF IInv
<1>2. IInv /\ TraceInv /\ TypeOK /\ [Next]_vars => IInv' /\ TraceInv' /\ TypeOK'
  BY InvariantStep, StepTrace, TypesStep DEF IInv
<1> QED
  BY <1>1, <1>2, PTL DEF Spec

-----------------------------------------------------------------------------
(* The ledger of changes *)

LEMMA InitLedger == Init => Ledger!Init
<1> SUFFICES ASSUME Init PROVE Ledger!Init
  OBVIOUS
<1>1. sess = [s \in Sessions |-> "new"] /\ issued = << >> /\ ran = [t \in Tokens |-> << >>]
  BY DEF Init, LiveInit, ApprovalInit
<1> QED
  BY <1>1 DEF Ledger!Init, Phases, DesktopNames

(* An act of the authority issues one token at most.                        *)
LEMMA OneToken ==
  ASSUME NEW r, NEW loss, NEW token, NEW yes, Acts(r, loss, token, yes)
  PROVE  issued' = issued \/ (Fresh # {} /\ issued' = Put(issued, NewToken, r))
<1>1. Register(r, loss) => issued' = issued \/ (Fresh # {} /\ issued' = Put(issued, NewToken, r))
  BY DEF Register, HostRegisters, AutomaticRegisters, IssueFor, approvalVars
<1>2. Issue(r) => Fresh # {} /\ issued' = Put(issued, NewToken, r)
  BY DEF Issue, IssueFor
<1>3. Decide(r, yes) => issued' = issued \/ (Fresh # {} /\ issued' = Put(issued, NewToken, r))
  BY DEF Decide, IssueFor
<1>4. Poll(r) \/ Show(r) \/ Verify(r, token, loss) \/ Tick \/ UNCHANGED approvalVars => issued' = issued
  BY DEF Poll, Show, Verify, Verifies, Tick, approvalVars
<1> QED
  BY <1>1, <1>2, <1>3, <1>4 DEF Acts

(* A session begins, some end, or the sessions stay as they are.            *)
LEMMA StartsOrEnds ==
  ASSUME SessionsInv, [Next]_vars, sess' # sess
  PROVE  /\ UNCHANGED <<issued, ran>>
         /\ \/ \E s \in Sessions : Ledger!Start(s)
            \/ \E S \in SUBSET Sessions : Ledger!Finish(S)
<1>1. ASSUME NEW q \in Sessions, Attach(q)
      PROVE  UNCHANGED <<issued, ran>> /\ Ledger!Start(q)
  <2>1. /\ sess[q] = "new" /\ sess' = [sess EXCEPT ![q] = use.attached[q]]
        /\ q \in DOMAIN use.attached /\ UNCHANGED <<issued, ran>>
    BY <1>1 DEF Attach, approvalVars
  <2>2. use.attached[q] \in DesktopNames
    BY <2>1, UsesAssumption DEF SessionsInv
  <2>3. Phases[q] = "new" /\ Phases' = [Phases EXCEPT ![q] = "open"]
    BY <2>1, <2>2 DEF Phases, DesktopNames, SessionsInv
  <2> QED
    BY <2>1, <2>3 DEF Ledger!Start, Phases
<1>2. PICK S \in SUBSET Sessions : S = {q \in Sessions : Known(q)}
  OBVIOUS
<1>3. ASSUME (\E q \in Sessions, f \in Writes : Release(q, f)) \/ Ends
      PROVE  UNCHANGED <<issued, ran>> /\ Ledger!Finish(S)
  <2>1. /\ UNCHANGED <<issued, ran>>
        /\ sess' = [q \in Sessions |-> IF Known(q) THEN "gone" ELSE sess[q]]
    BY <1>3 DEF Release, Released, Ends, approvalVars
  <2> QED
    BY <1>2, <2>1 DEF Ledger!Finish, Phases, Known, DesktopNames
<1>4. CASE \E q \in Sessions : Attach(q)
  BY <1>1, <1>4
<1> QED
  BY <1>3, <1>4, SessionMoves

(* A change is made under a token that was granted for it.                  *)
LEMMA ChangesAsGranted ==
  ASSUME IInv, [Next]_vars, sess' = sess, ran' # ran
  PROVE  \E t \in Tokens : Ledger!Change(t)
<1>1. ran = [t \in Tokens |-> ran[t]]
  BY DEF IInv, ChangesInv
<1>2. ASSUME NEW t \in Tokens, NEW s, NEW p, t \in DOMAIN issued, issued[t] = <<s, p>>, s \in Sessions,
             Known(s), issued' = issued, ran[t] = << >>, ran' = [ran EXCEPT ![t] = Append(@, p)]
      PROVE  Ledger!Change(t)
  <2>1. ran' = [ran EXCEPT ![t] = <<p>>]
    BY <1>1, <1>2, FirstChange
  <2> QED
    BY <1>2, <2>1 DEF Ledger!Change, Phases, Known
<1>3. ASSUME NEW s, NEW p, NEW token, NEW loss, AcceptedFor(s, p, token, loss),
             ran' = [ran EXCEPT ![token] = Append(@, p)]
      PROVE  token \in Tokens /\ Ledger!Change(token)
  <2>1. token \in Tokens
    BY <1>1, <1>3
  <2>2. token \in DOMAIN issued /\ issued[token] = <<s, p>>
    BY <1>3, <2>1, Accepted DEF AcceptedFor, IInv
  <2>3. ran[token] = << >>
    BY <1>3, <2>1, AcceptedIsNotSpent DEF IInv, ChangesInv
  <2>4. issued' = issued
    BY <1>3 DEF AcceptedFor, Verify, Verifies, approvalVars
  <2> QED
    BY <1>2, <1>3, <2>1, <2>2, <2>3, <2>4 DEF AcceptedFor
<1>4. ASSUME call.at = "execute", issued' = issued,
             ran' = [ran EXCEPT ![call.token] = Append(@, call.p)]
      PROVE  call.token \in Tokens /\ Ledger!Change(call.token)
  <2>1. PICK t, s, p : t = call.token /\ s = call.s /\ p = call.p
    OBVIOUS
  <2>2. t \in Tokens
    BY <1>1, <1>4, <2>1
  <2>3. Spent(t) /\ ran[t] = << >> /\ issued[t] = <<s, p>>
    BY <1>4, <2>1, <2>2 DEF IInv, ChangesInv
  <2>4. s \in Sessions /\ Known(s)
    BY <1>4, <2>1 DEF IInv, SessionsInv, CallFits
  <2> QED
    BY <1>2, <1>4, <2>1, <2>2, <2>3, <2>4 DEF Spent
<1> QED
  BY <1>3, <1>4, OneChange DEF ChangeStep, IInv

(* A token is granted for a change in a session that was attached.          *)
LEMMA GrantsOnce ==
  ASSUME IInv, IInv', [Next]_vars, sess' = sess, ran' = ran, issued' # issued
  PROVE  \E t \in Tokens : Ledger!Grant(t)
<1>1. PICK r : Fresh # {} /\ issued' = Put(issued, NewToken, r)
  BY OneAct, OneToken DEF Ends
<1>2. PICK t : t = NewToken
  OBVIOUS
<1>3. /\ t \in Tokens /\ t \notin DOMAIN issued
      /\ DOMAIN issued' = DOMAIN issued \cup {t}
      /\ \A u \in DOMAIN issued : issued'[u] = issued[u]
  BY <1>1, <1>2, NewIsNew DEF Put
<1>4. issued'[t][1] \in Sessions /\ sess[issued'[t][1]] # "new"
  BY <1>3 DEF IInv, SessionsInv, Begun
<1>5. issued'[t][1] \in {s \in Sessions : Phases[s] # "new"}
  BY <1>4 DEF Phases, DesktopNames
<1>6. Ledger!Grant(t)
  BY <1>3, <1>5 DEF Ledger!Grant, Phases
<1> QED
  BY <1>3, <1>6

LEMMA LedgerStep ==
  ASSUME IInv, IInv', [Next]_vars
  PROVE  [Ledger!Next]_(Ledger!ledgerVars)
<1>1. CASE sess' # sess
  BY <1>1, StartsOrEnds DEF Ledger!Next, IInv
<1>2. CASE sess' = sess /\ ran' # ran
  BY <1>2, ChangesAsGranted DEF Ledger!Next
<1>3. CASE sess' = sess /\ ran' = ran /\ issued' # issued
  BY <1>3, GrantsOnce DEF Ledger!Next
<1>4. CASE UNCHANGED <<sess, ran, issued>>
  BY <1>4 DEF Ledger!ledgerVars, Phases
<1> QED
  BY <1>1, <1>2, <1>3, <1>4

(* What the manager does to the design keeps to the ledger of sessions,     *)
(* tokens and changes: whatever is lost, repeated, released or restarted, a *)
(* change is the one its token was granted for, made once and while the     *)
(* session it was granted for is attached.                                  *)
THEOREM Implementation == Spec => ImplementsChangeLedger
<1>1. Init => Ledger!Init
  BY InitLedger
<1>2. IInv /\ IInv' /\ [Next]_vars => [Ledger!Next]_(Ledger!ledgerVars)
  BY LedgerStep
<1> QED
  BY <1>1, <1>2, Invariance, PTL DEF Spec, ImplementsChangeLedger, Ledger!Spec
=============================================================================
