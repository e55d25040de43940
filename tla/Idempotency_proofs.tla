-------------------------- MODULE Idempotency_proofs --------------------------
(***************************************************************************)
(* For any set of calls and requests and any number of faults: a receipt   *)
(* is completed by its owner, the command is executed for one request and  *)
(* once per fault, and the receipt implements CommandOnce.                 *)
(***************************************************************************)
EXTENDS Idempotency, FiniteSetTheorems, TLAPS

\* The token in the receipt is the last one given out; the tokens in use are
\* among those given out, and they were given out for the receipt's request.
Tokens ==
  /\ receipt.token = claims
  /\ receipt.state = "absent" => claims = 0
  /\ receipt.state # "absent" => receipt.request \in Request
  /\ \A c \in Active : /\ call[c].token \in 1 .. claims
                       /\ call[c].request = receipt.request
  /\ \A e \in executed : /\ e.token \in 1 .. claims
                         /\ e.request = receipt.request

\* A lease that may be taken over has cost a fault: its holder has crashed or has
\* outlasted it.
TakeoverIsPaid ==
  /\ claims <= 1 + faults
  /\ receipt.live => receipt.state = "in_progress"
  /\ receipt.state = "in_progress" /\ (~receipt.live \/ Holder = {})
       => claims <= faults

\* One takeover at a time is in its transaction, for the receipt's request, and
\* has a token left to give out.
TakingAlone ==
  /\ \A c, d \in Call : call[c].pc = "taking" /\ call[d].pc = "taking" => c = d
  /\ \A c \in Call : call[c].pc = "taking" =>
       /\ receipt.state # "absent"
       /\ call[c].request = receipt.request
       /\ claims <= faults

\* A completed receipt holds its owner's answer, or was taken over since by the one
\* that had read it.
LateByOne ==
  receipt.state = "completed" =>
    \/ claims = receipt.body
    \/ claims = receipt.body + 1 /\ Unlocked

\* What a call reports, or the receipt says, was executed.
OutcomeTookPlace ==
  /\ \A c \in Call : call[c].pc = "worked" =>
       [token |-> call[c].token, request |-> call[c].request] \in executed
  /\ receipt.state = "completed" =>
       [token |-> receipt.body, request |-> receipt.request] \in executed

\* The inductive invariant.
KeyInv ==
  TypeOK /\ Tokens /\ TakeoverIsPaid /\ TakingAlone /\ OutcomeTookPlace /\ LateByOne

USE MaxFaultsAssumption, NoneAssumption

LEMMA InitKeyInv == Init => KeyInv
  BY DEF Init, KeyInv, TypeOK, Tokens, TakeoverIsPaid, TakingAlone, OutcomeTookPlace,
         LateByOne, Active, Holder, Idle, Token, NoToken, Execution

CallType ==
  [pc : {"idle", "taking", "work", "worked", "failing"},
   request : Request \cup {None}, token : Token \cup {NoToken}]

ReceiptType ==
  [state : {"absent", "in_progress", "completed", "failed"},
   request : Request \cup {None}, token : Token \cup {NoToken},
   live : BOOLEAN, body : Token \cup {NoToken}]

\* A call that is given the next token, at once or when it has read an expired
\* receipt: the others keep theirs, and what is executed was executed before.
LEMMA ClaimKeepsKeyInv ==
  ASSUME KeyInv, NEW c \in Call, (\E r \in Request : Claim(c, r)) \/ TakeOver(c)
  PROVE  KeyInv'
<1>1. PICK r \in Request :
        /\ call[c].pc \in {"idle", "taking"}
        /\ claims' = claims + 1
        /\ receipt' = [receipt EXCEPT !.state = receipt'.state, !.request = r,
                                      !.token = claims', !.live = receipt'.live]
        /\ call' = [call EXCEPT ![c] = [pc |-> "work", request |-> r, token |-> claims']]
        /\ UNCHANGED <<executed, answered, faults>>
        /\ \/ /\ receipt.state = "absent" /\ Unlocked
              /\ receipt'.state = "in_progress" /\ receipt'.live = TRUE
           \/ /\ call[c].pc = "taking" /\ receipt.request = r
              /\ receipt.state # "absent" /\ receipt'.state = receipt.state
              /\ receipt'.live = (receipt.state = "in_progress")
  <2>1. CASE \E r \in Request : Claim(c, r)
    BY <2>1 DEF Claim, KeyInv, TypeOK
  <2>2. CASE TakeOver(c)
    <3> DEFINE r == receipt.request
    <3>1. r \in Request /\ call[c].request = r /\ receipt.state # "absent"
      BY <2>2 DEF TakeOver, KeyInv, TakingAlone, Tokens
    <3>2. call' = [call EXCEPT ![c] = [pc |-> "work", request |-> r, token |-> claims']]
      BY <2>2, <3>1 DEF TakeOver
    <3>3. /\ receipt'.state = receipt.state /\ receipt'.live = (receipt.state = "in_progress")
          /\ receipt' = [receipt EXCEPT !.state = receipt.state, !.request = r,
                            !.token = claims', !.live = receipt.state = "in_progress"]
      BY <2>2 DEF TakeOver, KeyInv, TypeOK
    <3> QED BY <2>2, <3>1, <3>2, <3>3 DEF TakeOver
  <2> QED BY <2>1, <2>2
<1>2. claims <= faults \/ (claims = 0 /\ receipt.state = "absent")
  BY <1>1 DEF KeyInv, TakingAlone, Tokens
<1>3. /\ claims \in Nat /\ faults \in 0 .. MaxFaults
      /\ claims' \in 1 .. 1 + MaxFaults /\ claims' <= 1 + faults'
  BY <1>1, <1>2 DEF KeyInv, TypeOK
<1>4. /\ receipt'.request = r /\ receipt'.token = claims' /\ receipt'.body = receipt.body
      /\ receipt'.state \in {"in_progress", "completed", "failed"}
      /\ receipt'.live = (receipt'.state = "in_progress")
      /\ receipt'.state = "completed" => receipt.state = "completed"
      /\ receipt'.state # "absent"
  BY <1>1 DEF KeyInv, TypeOK
<1>5. /\ call'[c] = [pc |-> "work", request |-> r, token |-> claims']
      /\ \A d \in Call : d # c => call'[d] = call[d]
  BY <1>1 DEF KeyInv, TypeOK
<1>6. /\ \A d \in Active : call[d].request = r /\ call[d].token \in 1 .. claims
      /\ \A e \in executed : e.request = r /\ e.token \in 1 .. claims
  <2>1. receipt.state = "absent" => claims = 0
    BY DEF KeyInv, Tokens
  <2> QED BY <1>1, <2>1 DEF KeyInv, Tokens
<1>7. TypeOK'
  <2>1. claims' \in Token
    BY <1>3 DEF Token
  <2>2. receipt' \in ReceiptType
    BY <1>1, <1>4, <2>1 DEF KeyInv, TypeOK, ReceiptType
  <2>3. call' \in [Call -> CallType]
    BY <1>1, <2>1 DEF KeyInv, TypeOK, CallType
  <2> QED BY <1>1, <1>3, <2>2, <2>3 DEF KeyInv, TypeOK, ReceiptType, CallType
<1>8. Tokens'
  <2>1. ASSUME NEW d \in Active'
        PROVE  call'[d].token \in 1 .. claims' /\ call'[d].request = r
    <3>1. CASE d = c
      BY <1>3, <1>5, <3>1
    <3>2. CASE d # c
      <4>1. d \in Active /\ call'[d] = call[d]
        BY <1>5, <2>1, <3>2 DEF Active
      <4> QED BY <1>1, <1>3, <1>6, <4>1
    <3> QED BY <3>1, <3>2
  <2>2. \A e \in executed' : e.token \in 1 .. claims' /\ e.request = r
    BY <1>1, <1>3, <1>6
  <2> QED BY <1>4, <2>1, <2>2 DEF Tokens
<1>9. TakeoverIsPaid'
  <2>1. c \in Holder'
    BY <1>4, <1>5 DEF Holder, Active
  <2> QED BY <1>3, <1>4, <2>1 DEF TakeoverIsPaid
<1>10. Unlocked'
  <2>1. \A d \in Call : d # c => call[d].pc # "taking"
    BY <1>1 DEF KeyInv, TakingAlone, Unlocked
  <2> QED BY <1>5, <2>1 DEF Unlocked
<1>11. TakingAlone'
  BY <1>10 DEF TakingAlone, Unlocked
<1>12. OutcomeTookPlace'
  <2>1. receipt.state = "completed" => receipt.request = r
    BY <1>1
  <2> QED BY <1>1, <1>4, <1>5, <2>1 DEF KeyInv, OutcomeTookPlace
<1>13. LateByOne'
  <2>1. receipt'.state = "completed" => ~Unlocked
    BY <1>1, <1>4 DEF Unlocked
  <2> QED BY <1>1, <1>4, <1>10, <2>1 DEF KeyInv, LateByOne
<1> QED BY <1>7, <1>8, <1>9, <1>11, <1>12, <1>13 DEF KeyInv

\* The call that has read an expired receipt.
LEMMA ReadKeepsKeyInv ==
  ASSUME KeyInv, NEW c \in Call, NEW r \in Request, ReadExpired(c, r)
  PROVE  KeyInv'
<1>1. /\ call[c].pc = "idle" /\ Unlocked
      /\ receipt.state = "in_progress" /\ receipt.request = r /\ ~receipt.live
      /\ UNCHANGED <<receipt, claims, executed, answered, faults>>
  BY DEF ReadExpired, Expired
<1>2. /\ call'[c] = [pc |-> "taking", request |-> r, token |-> NoToken]
      /\ call' \in [Call -> CallType]
      /\ \A d \in Call : d # c => call'[d] = call[d]
  BY DEF ReadExpired, KeyInv, TypeOK, CallType
<1>3. Active' = Active /\ Holder' = Holder /\ c \notin Active
  BY <1>1, <1>2 DEF Active, Holder
<1>4. TypeOK'
  BY <1>1, <1>2 DEF KeyInv, TypeOK, CallType
<1>5. Tokens'
  <2>1. \A d \in Active : call'[d] = call[d]
    BY <1>2, <1>3 DEF Active
  <2> QED BY <1>1, <1>3, <2>1 DEF KeyInv, Tokens
<1>6. TakeoverIsPaid'
  BY <1>1, <1>3 DEF KeyInv, TakeoverIsPaid
<1>7. TakingAlone'
  <2>1. claims <= faults
    BY <1>1 DEF KeyInv, TakeoverIsPaid
  <2> QED BY <1>1, <1>2, <2>1 DEF TakingAlone, Unlocked
<1>8. OutcomeTookPlace'
  BY <1>1, <1>2 DEF KeyInv, OutcomeTookPlace
<1>9. LateByOne'
  BY <1>1 DEF LateByOne
<1> QED BY <1>4, <1>5, <1>6, <1>7, <1>8, <1>9 DEF KeyInv

\* A call that changes neither the receipt nor its own token, and goes on, keeps
\* the invariant.
LEMMA WorkKeepsKeyInv ==
  ASSUME KeyInv, NEW c \in Call, Work(c) \/ WorkThrows(c)
  PROVE  KeyInv'
<1> USE DEF KeyInv
<1>1. /\ \A d \in Call : d # c => call'[d] = call[d]
      /\ call'[c].token = call[c].token /\ call'[c].request = call[c].request
      /\ c \in Active /\ call'[c].pc \in {"worked", "failing"}
      /\ call'[c].pc = "worked" => Work(c)
  BY DEF Work, WorkThrows, TypeOK, Active
<1>2. UNCHANGED <<receipt, claims, faults, answered>>
  BY DEF Work, WorkThrows
<1>3. Active' = Active /\ Holder' = Holder
  BY <1>1, <1>2 DEF Active, Holder
<1>4. call[c].token \in Token /\ call[c].request \in Request
  BY <1>1 DEF Tokens, Active, TypeOK, Token
<1>5. \/ executed' = executed
      \/ executed' = executed \cup
           {[token |-> call[c].token, request |-> call[c].request]}
  BY DEF Work, WorkThrows
<1>6. TypeOK'
  BY <1>1, <1>2, <1>4, <1>5 DEF TypeOK, Work, WorkThrows, Execution
<1>7. Tokens'
  <2>1. \A d \in Active : call'[d].token = call[d].token
                           /\ call'[d].request = call[d].request
    BY <1>1 DEF Active
  <2> QED BY <1>1, <1>2, <1>3, <1>5, <2>1 DEF Tokens
<1>8. TakeoverIsPaid'
  BY <1>2, <1>3 DEF TakeoverIsPaid
<1>9. OutcomeTookPlace'
  BY <1>1, <1>2, <1>5 DEF OutcomeTookPlace, Work
<1>10. \A d \in Call : call'[d].pc = "taking" => call'[d] = call[d]
  BY <1>1
<1>11. TakingAlone' /\ LateByOne'
  BY <1>1, <1>2, <1>10 DEF TakingAlone, LateByOne, Unlocked, Active
<1> QED BY <1>6, <1>7, <1>8, <1>9, <1>11

-----------------------------------------------------------------------------
\* R is the receipt left as it is, or ended under the last token.
LeftBy(R, c, s) ==
  /\ R \in ReceiptType
  /\ R.token = receipt.token
  /\ R.request = receipt.request
  /\ (R.state = "absent") = (receipt.state = "absent")
  /\ R.live => R.state = "in_progress"
  /\ R.state = "in_progress" => R = receipt
  /\ R = Finished(c, s) /\ R.state = "in_progress" => c \notin Holder
  /\ R.state = "completed" =>
       /\ IF receipt.state = "completed" THEN R = receipt ELSE R.body = claims
       /\ [token |-> R.body, request |-> R.request] \in executed

\* finish leaves the receipt as it is, or ends it in the state asked for under
\* the last token; "completed" is asked for after work only.
LEMMA FinishedFacts ==
  ASSUME KeyInv, NEW c \in Active,
         NEW s \in {"completed", "failed"}, s = "completed" => call[c].pc = "worked",
         NEW R, R = receipt \/ R = Finished(c, s)
  PROVE  LeftBy(R, c, s)
<1>0. c \in Call
  BY DEF Active
<1>1. call[c].token \in 1 .. claims /\ call[c].token \in Token
      /\ call[c].request = receipt.request
  BY DEF KeyInv, TypeOK, Tokens, Active, Token, NoToken
<1>2. receipt \in ReceiptType
  BY DEF KeyInv, TypeOK, ReceiptType
<1>3. CASE R = receipt /\ (~Holds(c) \/ R # Finished(c, s))
  BY <1>2, <1>3 DEF LeftBy, KeyInv, TakeoverIsPaid, OutcomeTookPlace, Holds, Holder
<1>4. CASE R = Finished(c, s) /\ Holds(c)
  <2>1. R = [receipt EXCEPT !.state = s, !.live = FALSE,
               !.body = IF s = "completed" THEN call[c].token ELSE NoToken]
    BY <1>4 DEF Finished
  <2>2. receipt.state = "in_progress" /\ call[c].token = claims
    BY <1>4 DEF Holds, KeyInv, Tokens
  <2>3. /\ R.state = s
        /\ R.live = FALSE
        /\ R.token = receipt.token
        /\ R.request = receipt.request
        /\ s = "completed" => R.body = claims
    BY <1>2, <2>1, <2>2 DEF ReceiptType
  <2>4. R \in ReceiptType
    BY <1>1, <1>2, <2>1 DEF ReceiptType
  <2>5. s = "completed" => [token |-> claims, request |-> receipt.request] \in executed
    BY <1>0, <1>1, <2>2 DEF KeyInv, OutcomeTookPlace
  <2> QED BY <2>2, <2>3, <2>4, <2>5 DEF LeftBy
<1> QED BY <1>3, <1>4 DEF Finished

\* A call that ends, or turns to its catch block, while the receipt is as finish
\* leaves it keeps the invariant: the holder of a receipt in progress is not lost
\* but for a fault.
LEMMA LeavingKeepsKeyInv ==
  ASSUME KeyInv, NEW c \in Active,
         NEW s \in {"completed", "failed"}, s = "completed" => call[c].pc = "worked",
         receipt' = receipt \/ receipt' = Finished(c, s),
         \/ call' = [call EXCEPT ![c] = Idle]
         \/ call' = [call EXCEPT ![c].pc = "failing"],
         \/ faults' = faults /\ call' # [call EXCEPT ![c] = Idle]
         \/ faults' = faults /\ receipt' = Finished(c, s)
         \/ Fault,
         UNCHANGED <<claims, executed>>, answered' \subseteq Execution
  PROVE  KeyInv'
<1>0. LeftBy(receipt', c, s)
  <2> DEFINE R == receipt'
  <2>1. R = receipt \/ R = Finished(c, s)
    OBVIOUS
  <2> HIDE DEF R
  <2>2. LeftBy(R, c, s)
    BY <2>1, FinishedFacts
  <2> QED BY <2>2 DEF R
<1>1. /\ receipt' \in ReceiptType
      /\ receipt'.token = receipt.token
      /\ receipt'.request = receipt.request
      /\ (receipt'.state = "absent") = (receipt.state = "absent")
      /\ receipt'.live => receipt'.state = "in_progress"
      /\ receipt'.state = "in_progress" => receipt' = receipt
      /\ receipt' = Finished(c, s) /\ receipt'.state = "in_progress" => c \notin Holder
      /\ receipt'.state = "completed" =>
           /\ IF receipt.state = "completed" THEN receipt' = receipt
                                           ELSE receipt'.body = claims
           /\ [token |-> receipt'.body, request |-> receipt'.request] \in executed
  BY <1>0 DEF LeftBy
<1>2. /\ call' \in [Call -> CallType]
      /\ c \in Call /\ call[c].pc \in {"work", "worked", "failing"}
      /\ \A d \in Call : d # c => call'[d] = call[d]
      /\ call'[c].pc # "idle" => call'[c].token = call[c].token
                                 /\ call'[c].request = call[c].request
      /\ call'[c].pc \in {"idle", "failing"}
      /\ call' # [call EXCEPT ![c] = Idle] => call'[c].pc = "failing"
  BY DEF KeyInv, TypeOK, Idle, Active, CallType
<1>3. /\ faults' \in 0 .. MaxFaults /\ faults <= faults'
      /\ faults' = faults \/ faults' = faults + 1
  BY DEF KeyInv, TypeOK, Fault
<1>4. TypeOK'
  BY <1>1, <1>2, <1>3 DEF KeyInv, TypeOK, ReceiptType, CallType
<1>5. Tokens'
  <2>1. \A d \in Active' : /\ d \in Active
                            /\ call'[d].token = call[d].token
                            /\ call'[d].request = call[d].request
    BY <1>2 DEF Active
  <2> QED BY <1>1, <2>1 DEF KeyInv, Tokens
<1>6. TakeoverIsPaid'
  <2>1. claims' <= 1 + faults'
    BY <1>3 DEF KeyInv, TakeoverIsPaid, TypeOK
  <2>2. ASSUME receipt'.state = "in_progress", ~receipt'.live \/ Holder' = {}
        PROVE  claims' <= faults'
    <3>1. receipt' = receipt
      BY <1>1, <2>2
    <3>2. CASE faults' = faults + 1
      BY <3>2 DEF KeyInv, TakeoverIsPaid, TypeOK
    <3>3. CASE faults' = faults
      <4>1. CASE call'[c].pc = "failing"
        <5>1. Holder' = Holder
          BY <1>2, <3>1, <4>1 DEF Holder, Active
        <5> QED BY <2>2, <3>1, <3>3, <5>1 DEF KeyInv, TakeoverIsPaid
      <4>2. CASE call'[c].pc # "failing"
        <5>1. faults' # faults + 1
          BY <3>3 DEF KeyInv, TypeOK
        <5>2. receipt' = Finished(c, s)
          BY <1>2, <4>2, <5>1 DEF Fault
        <5>3. c \notin Holder
          BY <1>1, <2>2, <5>2
        <5>4. Holder' = Holder
          BY <1>2, <3>1, <4>2, <5>3 DEF Holder, Active
        <5> QED BY <2>2, <3>1, <3>3, <5>4 DEF KeyInv, TakeoverIsPaid
      <4> QED BY <4>1, <4>2
    <3> QED BY <1>3, <3>2, <3>3
  <2> QED BY <1>1, <2>1, <2>2 DEF TakeoverIsPaid
<1>7. OutcomeTookPlace'
  BY <1>1, <1>2 DEF KeyInv, OutcomeTookPlace
<1>8. \A d \in Call : (call'[d].pc = "taking") = (call[d].pc = "taking")
                       /\ (call[d].pc = "taking" => call'[d] = call[d])
  BY <1>2
<1>9. TakingAlone'
  BY <1>1, <1>3, <1>8 DEF KeyInv, TypeOK, TakingAlone
<1>10. LateByOne'
  BY <1>1, <1>8 DEF KeyInv, LateByOne, Unlocked
<1> QED BY <1>4, <1>5, <1>6, <1>7, <1>9, <1>10 DEF KeyInv

\* A lease that runs out changes nothing but what may come next.
LEMMA LeaseEndKeepsKeyInv ==
  ASSUME KeyInv, ExpireAbandoned \/ Outlast
  PROVE  KeyInv'
<1>1. /\ receipt' = [receipt EXCEPT !.live = FALSE]
      /\ UNCHANGED <<call, claims, executed, answered>>
      /\ faults' = faults \/ Fault
      /\ Holder = {} \/ faults' = faults + 1
  BY DEF ExpireAbandoned, Outlast, Fault
<1>2. /\ receipt'.state = receipt.state /\ receipt'.request = receipt.request
      /\ receipt'.token = receipt.token /\ receipt'.body = receipt.body
      /\ receipt'.live = FALSE
  BY <1>1 DEF KeyInv, TypeOK
<1>3. TypeOK'
  <2>1. receipt' \in ReceiptType
    BY <1>1 DEF KeyInv, TypeOK, ReceiptType
  <2>2. faults' \in 0 .. MaxFaults
    BY <1>1 DEF KeyInv, TypeOK, Fault
  <2> QED BY <1>1, <2>1, <2>2 DEF KeyInv, TypeOK, ReceiptType
<1>4. Tokens'
  BY <1>1, <1>2 DEF KeyInv, Tokens, Active
<1>5. TakeoverIsPaid'
  BY <1>1, <1>2 DEF KeyInv, TypeOK, TakeoverIsPaid, Fault
<1>6. OutcomeTookPlace'
  BY <1>1, <1>2 DEF KeyInv, OutcomeTookPlace
<1>7. faults \in Nat /\ claims \in Nat /\ (faults' = faults \/ faults' = faults + 1)
  BY <1>1 DEF Fault, KeyInv, TypeOK
<1>8. TakingAlone' /\ LateByOne'
  BY <1>1, <1>2, <1>7 DEF KeyInv, TakingAlone, LateByOne, Unlocked
<1> QED BY <1>3, <1>4, <1>5, <1>6, <1>8 DEF KeyInv

\* The process of a takeover dies: its transaction is rolled back.
LEMMA RollbackKeepsKeyInv ==
  ASSUME KeyInv, NEW c \in Call, call[c].pc = "taking", Crash(c)
  PROVE  KeyInv'
<1>1. /\ UNCHANGED <<receipt, claims, executed, answered>>
      /\ faults \in Nat /\ claims \in Nat /\ faults' = faults + 1 /\ faults' \in 0 .. MaxFaults
  BY DEF Crash, Fault, KeyInv, TypeOK
<1>2. /\ call' \in [Call -> CallType]
      /\ call'[c] = Idle /\ \A d \in Call : d # c => call'[d] = call[d]
  BY DEF Crash, KeyInv, TypeOK, CallType, Idle
<1>3. /\ Active' = Active /\ Holder' = Holder
      /\ \A d \in Active : call'[d] = call[d]
  BY <1>1, <1>2 DEF Active, Holder, Idle
<1>4. TypeOK'
  BY <1>1, <1>2 DEF KeyInv, TypeOK, CallType
<1>5. Tokens' /\ TakeoverIsPaid'
  BY <1>1, <1>3 DEF KeyInv, Tokens, TakeoverIsPaid
<1>6. \A d \in Call : call'[d].pc \in {"taking", "worked"} => call'[d] = call[d]
  BY <1>2 DEF Idle
<1>7. TakingAlone' /\ OutcomeTookPlace'
  BY <1>1, <1>6 DEF KeyInv, TakingAlone, OutcomeTookPlace
<1>8. LateByOne'
  BY <1>1, <1>6 DEF KeyInv, LateByOne, Unlocked
<1> QED BY <1>4, <1>5, <1>7, <1>8 DEF KeyInv

LEMMA NextKeyInv == KeyInv /\ [Next]_vars => KeyInv'
<1> SUFFICES ASSUME KeyInv, [Next]_vars PROVE KeyInv'
  OBVIOUS
<1>1. ASSUME NEW c \in Call, NEW r \in Request, Replay(c, r) PROVE KeyInv'
  <2>1. [token |-> receipt.body, request |-> r] \in Execution
    BY <1>1 DEF Replay, KeyInv, OutcomeTookPlace, TypeOK
  <2>2. TypeOK'
    BY <1>1, <2>1 DEF Replay, KeyInv, TypeOK
  <2> QED
    BY <1>1, <2>2 DEF Replay, KeyInv, Tokens, TakeoverIsPaid, TakingAlone,
                      OutcomeTookPlace, LateByOne, Unlocked, Active, Holder
<1>2. ASSUME NEW c \in Call, Complete(c) PROVE KeyInv'
  <2>1. [token |-> call[c].token, request |-> call[c].request] \in Execution
    BY <1>2 DEF Complete, KeyInv, OutcomeTookPlace, TypeOK
  <2>2. answered' \subseteq Execution
    BY <1>2, <2>1 DEF Complete, KeyInv, TypeOK
  <2> QED BY <1>2, <2>2, LeavingKeepsKeyInv DEF Complete, Active
<1>3. ASSUME NEW c \in Call, Fail(c) PROVE KeyInv'
  <2>1. answered' \subseteq Execution
    BY <1>3 DEF Fail, KeyInv, TypeOK
  <2> QED BY <1>3, <2>1, LeavingKeepsKeyInv DEF Fail, Active
<1>4. ASSUME NEW c \in Call, LoseCompletion(c) \/ Crash(c) PROVE KeyInv'
  <2>1. answered' \subseteq Execution
    BY <1>4 DEF LoseCompletion, Crash, KeyInv, TypeOK
  <2>2. CASE LoseCompletion(c)
    BY <2>1, <2>2, LeavingKeepsKeyInv DEF LoseCompletion, Active
  <2>3. CASE Crash(c)
    <3>1. c \in Active \/ call[c].pc = "taking"
      BY <2>3 DEF Crash, Active, KeyInv, TypeOK
    <3>2. CASE c \in Active
      BY <2>1, <2>3, <3>2, LeavingKeepsKeyInv DEF Crash
    <3> QED BY <2>3, <3>1, <3>2, RollbackKeepsKeyInv
  <2> QED BY <1>4, <2>2, <2>3
<1>5. CASE UNCHANGED vars
  BY <1>5 DEF vars, KeyInv, TypeOK, Tokens, TakeoverIsPaid, TakingAlone,
              OutcomeTookPlace, LateByOne, Unlocked, Active, Holder
<1> QED
  BY <1>1, <1>2, <1>3, <1>4, <1>5, ClaimKeepsKeyInv, ReadKeepsKeyInv,
     WorkKeepsKeyInv, LeaseEndKeepsKeyInv
  DEF Next, CallStep

\* Every state of the receipt, the calls and the executions is well-typed.
THEOREM TypeCorrect == Spec => []TypeOK
<1>1. KeyInv => TypeOK
  BY DEF KeyInv
<1> QED BY <1>1, InitKeyInv, NextKeyInv, PTL DEF Spec

\* completeIdempotencyReceipt publishes the answer of the receipt's owner, never of
\* a call it was taken over from, and a completed receipt is taken over once at
\* most, by the claim that had read it in progress.
THEOREM CompletionIsOwners == Spec => CompletedByOwner
<1> DEFINE Publish ==
      /\ receipt.state # "completed" /\ receipt'.state = "completed" => receipt'.body = claims
      /\ receipt.state = "completed" => claims' <= receipt.body + 1
<1>1. ASSUME KeyInv, [Next]_vars PROVE Publish
  <2>1. ASSUME NEW c \in Call, Complete(c) \/ Fail(c) \/ LoseCompletion(c) PROVE Publish
    <3>1. c \in Active /\ claims' = claims
      BY <2>1 DEF Complete, Fail, LoseCompletion, Active
    <3>2. PICK s \in {"completed", "failed"} :
            /\ s = "completed" => call[c].pc = "worked"
            /\ receipt' \in {receipt, Finished(c, s)}
      BY <2>1 DEF Complete, Fail, LoseCompletion
    <3> DEFINE R == receipt'
    <3>3. R = receipt \/ R = Finished(c, s)
      BY <3>2
    <3> HIDE DEF R
    <3>4. LeftBy(R, c, s)
      BY <1>1, <3>1, <3>2, <3>3, FinishedFacts
    <3>5. receipt'.state = "completed" =>
            IF receipt.state = "completed" THEN receipt' = receipt ELSE receipt'.body = claims
      BY <3>4 DEF LeftBy, R
    <3> QED BY <1>1, <3>1, <3>5 DEF KeyInv, TypeOK, LateByOne, Token, NoToken
  <2>2. ASSUME NEW c \in Call, TakeOver(c) PROVE Publish
    <3>1. receipt'.state = receipt.state /\ claims' = claims + 1 /\ ~Unlocked
      BY <1>1, <2>2 DEF TakeOver, Unlocked, KeyInv, TypeOK
    <3> QED BY <1>1, <3>1 DEF KeyInv, TypeOK, LateByOne, Token, NoToken
  <2>3. ASSUME NEW c \in Call, NEW r \in Request, Claim(c, r) PROVE Publish
    <3>1. receipt.state = "absent" /\ receipt'.state = "in_progress"
      BY <1>1, <2>3 DEF Claim, KeyInv, TypeOK
    <3> QED BY <3>1
  <2>4. CASE claims' = claims /\ receipt'.state = receipt.state
    BY <1>1, <2>4 DEF KeyInv, TypeOK, LateByOne, Token, NoToken
  <2>5. ASSUME ExpireAbandoned \/ Outlast
        PROVE  claims' = claims /\ receipt'.state = receipt.state
    BY <1>1, <2>5 DEF ExpireAbandoned, Outlast, KeyInv, TypeOK
  <2>6. ASSUME NEW c \in Call, NEW r \in Request, ReadExpired(c, r) \/ Replay(c, r)
        PROVE  claims' = claims /\ receipt'.state = receipt.state
    BY <2>6 DEF ReadExpired, Replay
  <2>7. ASSUME NEW c \in Call, Work(c) \/ WorkThrows(c) \/ Crash(c)
        PROVE  claims' = claims /\ receipt'.state = receipt.state
    BY <2>7 DEF Work, WorkThrows, Crash
  <2>8. CASE UNCHANGED vars
    BY <2>4, <2>8 DEF vars
  <2> HIDE DEF Publish
  <2> QED BY <1>1, <2>1, <2>2, <2>3, <2>4, <2>5, <2>6, <2>7, <2>8 DEF Next, CallStep
<1>2. KeyInv /\ [Next]_vars => Publish
  BY <1>1
<1> QED BY <1>2, InitKeyInv, NextKeyInv, PTL DEF Spec, CompletedByOwner

\* The tokens executed under are tokens given out, and they differ from one
\* execution to the other: there are no more executions than owners.
LEMMA ExecutionsAreTokens ==
  ASSUME KeyInv
  PROVE  /\ IsFiniteSet(executed)
         /\ Cardinality(executed) <= claims
<1> DEFINE token == [e \in executed |-> e.token]
<1>1. token \in [executed -> 1 .. claims]
  BY DEF KeyInv, Tokens
<1>2. \A e, f \in executed : e.token = f.token => e = f
  BY DEF KeyInv, Tokens, TypeOK, Execution
<1>3. token \in Injection(executed, 1 .. claims)
  BY <1>1, <1>2 DEF Injection, IsInjective
<1>4. claims \in Nat
  BY DEF KeyInv, TypeOK
<1>5. IsFiniteSet(1 .. claims) /\ Cardinality(1 .. claims) = claims
  BY <1>4, FS_Interval
<1> HIDE DEF token
<1> QED BY <1>3, <1>5, FS_Injection

\* The command is executed for one request, once and once more for each fault.
THEOREM ExecutionsArePaid == Spec => []ExecutedOncePerFault
<1>1. KeyInv => ExecutedOncePerFault
  <2> SUFFICES ASSUME KeyInv PROVE ExecutedOncePerFault
    OBVIOUS
  <2>1. claims \in Nat /\ faults \in Nat /\ claims <= 1 + faults
    BY DEF KeyInv, TypeOK, TakeoverIsPaid
  <2>2. IsFiniteSet(executed) /\ Cardinality(executed) \in Nat
    BY ExecutionsAreTokens, FS_CardinalityType
  <2>3. \A e \in executed : e.request = receipt.request
    BY DEF KeyInv, Tokens
  <2> QED BY <2>1, <2>2, <2>3, ExecutionsAreTokens DEF ExecutedOncePerFault
<1> QED BY <1>1, InitKeyInv, NextKeyInv, PTL DEF Spec

-----------------------------------------------------------------------------
\* A call that leaves its receipt finished settles the key; it answers, or it
\* does not, with the outcome.
LEMMA FinishSettles ==
  ASSUME KeyInv, KeyInv', NEW c \in Call, Holds(c),
         NEW s \in {"completed", "failed"}, s = "completed" => call[c].pc = "worked",
         c \in Active, receipt' = Finished(c, s), executed' = executed,
         \/ answered' = answered
         \/ /\ s = "completed"
            /\ answered' = answered \cup
                 {[token |-> call[c].token, request |-> call[c].request]}
  PROVE  Key!Settle
<1>1. receipt.state = "in_progress"
  BY DEF Holds
<1>2. /\ receipt'.state = s
      /\ s = "completed" => receipt'.body = call[c].token
      /\ receipt'.request = call[c].request
  BY DEF Finished, Holds, KeyInv, TypeOK, Tokens, Active
<1>3. s = "completed" =>
        [token |-> receipt'.body, request |-> receipt'.request] \in executed
  BY <1>2 DEF KeyInv, OutcomeTookPlace
<1> QED BY <1>1, <1>2, <1>3 DEF Key!Settle

\* Every step of the calls is a step of the key or changes none of its state.
LEMMA StepRefines == KeyInv /\ KeyInv' /\ [Next]_vars => [Key!Next]_(Key!vars)
<1> SUFFICES ASSUME KeyInv, KeyInv', [Next]_vars PROVE [Key!Next]_(Key!vars)
  OBVIOUS
<1>1. ASSUME NEW c \in Call, NEW r \in Request, Claim(c, r) \/ ReadExpired(c, r)
      PROVE  UNCHANGED Key!vars
  <2>1. /\ receipt.state \in {"absent", "in_progress"} /\ receipt'.state = "in_progress"
        /\ UNCHANGED <<executed, answered>>
    BY <1>1 DEF Claim, ReadExpired, Expired, KeyInv, TypeOK
  <2> QED BY <2>1 DEF Key!vars
\* A takeover leaves state and body, whatever they are.
<1>10. ASSUME NEW c \in Call, TakeOver(c) PROVE UNCHANGED Key!vars
  <2>1. /\ receipt'.state = receipt.state /\ receipt'.body = receipt.body
        /\ receipt'.request = receipt.request /\ UNCHANGED <<executed, answered>>
    BY <1>10 DEF TakeOver, KeyInv, TypeOK
  <2> QED BY <2>1 DEF Key!vars
<1>2. ASSUME NEW c \in Call, NEW r \in Request, Replay(c, r)
      PROVE  Key!Answer
  BY <1>2 DEF Replay, Key!Answer
<1>3. ASSUME NEW c \in Call, Work(c) PROVE [Key!Execute]_(Key!vars)
  <2> DEFINE e == [token |-> call[c].token, request |-> call[c].request]
  <2>1. executed' = executed \cup {e} /\ UNCHANGED <<receipt, answered>>
    BY <1>3 DEF Work
  <2>2. e \in Execution
    <3>1. c \in Active
      BY <1>3 DEF Work, Active
    <3> QED BY <3>1 DEF KeyInv, TypeOK, Tokens, Execution, Token
  <2> HIDE DEF e
  <2> QED BY <2>1, <2>2 DEF Key!Execute, Key!vars
<1>4. ASSUME NEW c \in Call, WorkThrows(c) \/ Crash(c) PROVE UNCHANGED Key!vars
  BY <1>4 DEF WorkThrows, Crash, Key!vars
<1>5. ASSUME NEW c \in Call, Complete(c) \/ Fail(c) \/ LoseCompletion(c), Holds(c),
             receipt' # receipt
      PROVE  Key!Settle
  <2>1. CASE Complete(c)
    BY <1>5, <2>1, FinishSettles DEF Complete, Active
  <2>2. CASE Fail(c)
    BY <1>5, <2>2, FinishSettles DEF Fail, Active
  <2>3. CASE LoseCompletion(c)
    BY <1>5, <2>3, FinishSettles DEF LoseCompletion, Active
  <2> QED BY <1>5, <2>1, <2>2, <2>3
<1>6. ASSUME NEW c \in Call, Complete(c) \/ Fail(c) \/ LoseCompletion(c), ~Holds(c)
      PROVE  UNCHANGED Key!vars
  BY <1>6 DEF Complete, Fail, LoseCompletion, Finished, Key!vars
<1>7. ASSUME NEW c \in Call, Complete(c) \/ Fail(c) \/ LoseCompletion(c), Holds(c),
             receipt' = receipt
      PROVE  UNCHANGED Key!vars
  <2>1. Finished(c, "completed") # receipt /\ Finished(c, "failed") # receipt
    <3>1. /\ receipt.state = "in_progress"
          /\ Finished(c, "completed").state = "completed"
          /\ Finished(c, "failed").state = "failed"
      BY <1>7 DEF Finished, Holds, KeyInv, TypeOK
    <3> QED BY <3>1
  <2> QED BY <1>7, <2>1 DEF Complete, Fail, LoseCompletion, Key!vars
<1>8. ASSUME ExpireAbandoned \/ Outlast PROVE UNCHANGED Key!vars
  <2>1. /\ receipt'.state = receipt.state
        /\ receipt'.body = receipt.body
        /\ receipt'.request = receipt.request
        /\ UNCHANGED <<executed, answered>>
    BY <1>8 DEF ExpireAbandoned, Outlast, KeyInv, TypeOK
  <2> QED BY <2>1 DEF Key!vars
<1>9. CASE UNCHANGED vars
  BY <1>9 DEF vars, Key!vars
<1> QED
  BY <1>1, <1>2, <1>3, <1>4, <1>5, <1>6, <1>7, <1>8, <1>9, <1>10
  DEF Next, CallStep, Key!Next

\* The receipt gives the key one outcome, an execution that took place, and every
\* caller told of an execution is told of that one.
THEOREM ReceiptImplementsKey == Spec => ImplementsKey
<1>1. Init => Key!Init
  BY DEF Init, Key!Init
<1> QED
  BY <1>1, InitKeyInv, NextKeyInv, StepRefines, PTL
  DEF Spec, ImplementsKey, Key!Spec

-----------------------------------------------------------------------------
\* The execution a completed receipt keeps the answer of.
Outcome == [token |-> receipt.body, request |-> receipt.request]

\* Callers are told of one execution at most, which took place, and which is the
\* one a later call is told of.
OneOutcome ==
  /\ answered # {} => receipt.state = "completed" /\ answered = {Outcome}
  /\ receipt.state = "completed" => Outcome \in executed

\* Whoever calls with the key, and whatever was taken over, repeated or lost
\* meanwhile, is given the answer of the same execution, or none
\* (IdempotencyService.execute, completeIdempotencyReceipt).
THEOREM CallersAreToldOne == Spec => []OneOutcome
<1> DEFINE kept == IF receipt.state = "completed" THEN {Outcome} ELSE {}
           Told == answered \subseteq kept /\ kept \subseteq executed
<1>1. Init => Told
  BY DEF Init
<1>2. ASSUME Told, [Key!Next]_(Key!vars)
      PROVE  Told'
  <2>1. CASE Key!Execute
    <3>1. kept' = kept /\ answered' = answered /\ executed \subseteq executed'
      BY <2>1 DEF Key!Execute, Outcome
    <3> QED
      BY <1>2, <3>1
  <2>2. CASE Key!Settle
    <3>1. answered = {}
      BY <1>2, <2>2 DEF Key!Settle
    <3>2. /\ kept' \in {{}} \cup {{e} : e \in executed}
          /\ answered' \in {answered, answered \cup kept'}
          /\ executed' = executed
      BY <2>2 DEF Key!Settle, Outcome
    <3> HIDE DEF kept
    <3> QED
      BY <3>1, <3>2
  <2>3. CASE Key!Answer
    <3>1. kept' = kept /\ answered' = answered \cup kept /\ executed' = executed
      BY <2>3 DEF Key!Answer, Outcome
    <3> QED
      BY <1>2, <3>1
  <2>4. CASE UNCHANGED Key!vars
    <3>1. kept' = kept /\ answered' = answered /\ executed' = executed
      BY <2>4 DEF Key!vars, Outcome
    <3> QED
      BY <1>2, <3>1
  <2> QED
    BY <1>2, <2>1, <2>2, <2>3, <2>4 DEF Key!Next
<1>3. KeyInv /\ KeyInv' /\ [Next]_vars /\ Told => Told'
  BY <1>2, StepRefines
<1>4. Told => OneOutcome
  BY DEF OneOutcome
<1> HIDE DEF Told
<1> QED
  BY <1>1, <1>3, <1>4, InitKeyInv, NextKeyInv, PTL DEF Spec
=============================================================================
