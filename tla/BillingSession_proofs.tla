------------------------ MODULE BillingSession_proofs ------------------------
(***************************************************************************)
(* Proofs about BillingSession, for any set of requests, any quotas and    *)
(* any number of failing statements.                                       *)
(***************************************************************************)
EXTENDS BillingSession, TLAPS

Columns == /\ taken \in [Requests -> [Accounts -> Int]]
           /\ adrift \subseteq Requests
           /\ faults \in Nat

\* A statement on account a for request r: answered, or failing one way or
\* the other.
Statement(r, a, n) == Succeeds(r, a, n) \/ FailsUndone(r, a, n) \/ FailsDone(r, a, n)

\* A statement that takes n from account a for request r leaves every other
\* amount as it was.
LEMMA TakeEffect ==
  ASSUME taken \in [Requests -> [Accounts -> Int]],
         NEW r \in Requests, NEW a \in Accounts, NEW n \in Int, Take(r, a, n)
  PROVE  /\ taken' \in [Requests -> [Accounts -> Int]]
         /\ taken'[r][a] = taken[r][a] + n
         /\ \A b \in Accounts : b # a => taken'[r][b] = taken[r][b]
         /\ \A q \in Requests : q # r => taken'[q] = taken[q]
<1>1. taken' = [taken EXCEPT ![r] = [taken[r] EXCEPT ![a] = taken[r][a] + n]]
  BY DEF Take
<1>2. [taken[r] EXCEPT ![a] = taken[r][a] + n] \in [Accounts -> Int]
  OBVIOUS
<1> QED
  BY <1>1, <1>2

\* Whatever a statement does, the columns keep their type.
LEMMA StatementType ==
  ASSUME Columns, NEW r \in Requests, NEW a \in Accounts, NEW n \in Int, Statement(r, a, n)
  PROVE  Columns'
<1>1. Take(r, a, n) => taken' \in [Requests -> [Accounts -> Int]]
  BY TakeEffect DEF Columns
<1> QED
  BY <1>1 DEF Columns, Statement, Succeeds, FailsUndone, FailsDone, Fault, Drifts

\* The amounts the session works with are numbers.
LEMMA AmountTypes ==
  ASSUME TypeOK, NEW r \in Requests
  PROVE  /\ SubConsume(r) \in Nat
         /\ FundingAmount(r) \in Nat
         /\ Delta(r) \in Int
         /\ \A n \in Int : TokenPart(r, n) \in Int
BY DEF TypeOK, SubConsume, FundingAmount, Delta, TokenPart

\* Every step of the specification keeps the type of every variable.
LEMMA TypeStep == TypeOK /\ [Next]_vars => TypeOK'
<1> SUFFICES ASSUME TypeOK, [Next]_vars PROVE TypeOK'
  OBVIOUS
<1>pc. pc \in [Requests -> Steps]
  BY DEF TypeOK
<1>job. job \in [Requests -> JobSteps]
  BY DEF TypeOK
<1>pref. pref \in [Requests -> Prefs]
  BY DEF TypeOK
<1>price. price \in [Requests -> Nat]
  BY DEF TypeOK
<1>fee. fee \in [Requests -> Nat]
  BY DEF TypeOK
<1>src. src \in [Requests -> Sources]
  BY DEF TypeOK
<1>eff. eff \in [Requests -> Nat]
  BY DEF TypeOK
<1>tokenConsumed. tokenConsumed \in [Requests -> Nat]
  BY DEF TypeOK
<1>consumed. consumed \in [Requests -> Nat]
  BY DEF TypeOK
<1>flags. flags \in [Requests -> SUBSET Flags]
  BY DEF TypeOK
<1>tokenTrusted. tokenTrusted \subseteq Requests
  BY DEF TypeOK
<1>cols. Columns
  BY DEF TypeOK, Columns
<1>accounts. "token" \in Accounts /\ "wallet" \in Accounts /\ \A r \in Requests : src[r] \in Accounts
  BY <1>src DEF Accounts, Sources
<1>amounts. \A r \in Requests :
              /\ FundingAmount(r) \in Nat /\ Delta(r) \in Int
              /\ \A n \in Int : TokenPart(r, n) \in Int
  BY AmountTypes
<1>1. CASE UNCHANGED vars
  BY <1>1 DEF vars, TypeOK
<1>2. CASE SubscriptionEnds
  BY <1>2 DEF SubscriptionEnds, session, TypeOK
<1>3. ASSUME NEW r \in Requests, Arrive(r) PROVE TypeOK'
  <2>1. pc' \in [Requests -> Steps]
    BY <1>3, <1>pc DEF Arrive, TrySubscription, TryWallet, Goto, Steps, Final
  <2>2. price' \in [Requests -> Nat]
    BY <1>3, <1>price, QuotaAssumption DEF Arrive
  <2>3. src' \in [Requests -> Sources]
    BY <1>3, <1>src DEF Arrive, TrySubscription, TryWallet, Sources
  <2>4. eff' \in [Requests -> Nat]
    BY <1>3, <1>eff, QuotaAssumption DEF Arrive, TrySubscription, TryWallet
  <2>5. tokenConsumed' \in [Requests -> Nat]
    BY <1>3, <1>tokenConsumed DEF Arrive, TrySubscription, TryWallet
  <2>6. tokenTrusted' \subseteq Requests
    BY <1>3, <1>tokenTrusted DEF Arrive
  <2>7. UNCHANGED <<job, pref, fee, consumed, flags, subActive, taken, adrift, faults>>
    BY <1>3 DEF Arrive
  <2> QED
    BY <2>1, <2>2, <2>3, <2>4, <2>5, <2>6, <2>7 DEF TypeOK
<1>4. ASSUME NEW r \in Requests, WalletCheck(r) PROVE TypeOK'
  <2>1. pc' \in [Requests -> Steps]
    BY <1>4, <1>pc DEF WalletCheck, TrySubscription, Goto, Steps, Final
  <2>2. src' \in [Requests -> Sources]
    BY <1>4, <1>src DEF WalletCheck, TrySubscription, Sources
  <2>3. eff' \in [Requests -> Nat]
    BY <1>4, <1>eff, <1>price DEF WalletCheck, TrySubscription
  <2>4. tokenConsumed' \in [Requests -> Nat]
    BY <1>4, <1>tokenConsumed DEF WalletCheck, TrySubscription
  <2>5. UNCHANGED <<job, pref, price, fee, consumed, flags, tokenTrusted, subActive, taken, adrift, faults>>
    BY <1>4 DEF WalletCheck, request
  <2> QED
    BY <2>1, <2>2, <2>3, <2>4, <2>5 DEF TypeOK
<1>5. ASSUME NEW r \in Requests, TokenCheck(r) PROVE TypeOK'
  <2>1. pc' \in [Requests -> Steps]
    BY <1>5, <1>pc DEF TokenCheck, Goto, Steps, Final
  <2>2. tokenConsumed' \in [Requests -> Nat]
    BY <1>5, <1>tokenConsumed, <1>eff DEF TokenCheck
  <2>3. UNCHANGED <<job, pref, price, fee, src, eff, consumed, flags, tokenTrusted, subActive, taken, adrift, faults>>
    BY <1>5 DEF TokenCheck, request
  <2> QED
    BY <2>1, <2>2, <2>3 DEF TypeOK
<1>6. ASSUME NEW r \in Requests, ReadError(r) PROVE TypeOK'
  <2>1. pc' \in [Requests -> Steps]
    BY <1>6, <1>pc DEF ReadError, Goto, Steps, Final
  <2>2. faults' \in Nat
    BY <1>6, <1>cols DEF ReadError, Fault, Columns
  <2>3. UNCHANGED <<job, pref, price, fee, src, eff, tokenConsumed, consumed, flags, tokenTrusted, subActive, taken, adrift>>
    BY <1>6 DEF ReadError, session, request
  <2> QED
    BY <2>1, <2>2, <2>3 DEF TypeOK
<1>7. ASSUME NEW r \in Requests, TokenDecrease(r) PROVE TypeOK'
  <2>1. pc' \in [Requests -> Steps]
    BY <1>7, <1>pc DEF TokenDecrease, Goto, Steps, Final
  <2>2. tokenConsumed' \in [Requests -> Nat]
    BY <1>7, <1>tokenConsumed, <1>eff DEF TokenDecrease
  <2>3. Columns'
    <3>1. ASSUME Statement(r, "token", eff[r]) PROVE Columns'
      <4>1. eff[r] \in Int
        BY <1>eff
      <4> QED
        BY <1>cols, <1>accounts, <3>1, <4>1, StatementType
    <3> QED
      BY <1>7, <3>1 DEF TokenDecrease, Statement
  <2>4. UNCHANGED <<job, pref, price, fee, src, eff, consumed, flags, tokenTrusted, subActive>>
    BY <1>7 DEF TokenDecrease, request
  <2> QED
    BY <2>1, <2>2, <2>3, <2>4 DEF TypeOK, Columns
<1>8. ASSUME NEW r \in Requests, FundPreConsume(r) PROVE TypeOK'
  <2>1. pc' \in [Requests -> Steps]
    BY <1>8, <1>pc DEF FundPreConsume, Goto, Steps, Final
  <2>2. consumed' \in [Requests -> Nat]
    BY <1>8, <1>consumed, <1>amounts DEF FundPreConsume
  <2>3. Columns'
    <3>1. ASSUME Statement(r, src[r], FundingAmount(r)) PROVE Columns'
      <4>1. FundingAmount(r) \in Int
        BY <1>amounts
      <4> QED
        BY <1>cols, <1>accounts, <3>1, <4>1, StatementType
    <3> QED
      BY <1>8, <3>1 DEF FundPreConsume, Statement
  <2>4. UNCHANGED <<job, pref, price, fee, src, eff, tokenConsumed, flags, tokenTrusted, subActive>>
    BY <1>8 DEF FundPreConsume, request
  <2> QED
    BY <2>1, <2>2, <2>3, <2>4 DEF TypeOK, Columns
<1>9. ASSUME NEW r \in Requests, FundInsufficient(r) PROVE TypeOK'
  <2>1. pc' \in [Requests -> Steps]
    BY <1>9, <1>pc DEF FundInsufficient, AfterFundingError, TryWallet, Goto, Steps, Final
  <2>2. src' \in [Requests -> Sources]
    BY <1>9, <1>src DEF FundInsufficient, AfterFundingError, TryWallet, session, Sources
  <2>3. tokenConsumed' \in [Requests -> Nat]
    BY <1>9, <1>tokenConsumed DEF FundInsufficient, AfterFundingError, TryWallet, session
  <2>4. UNCHANGED <<job, pref, price, fee, eff, consumed, flags, tokenTrusted, subActive, taken, adrift, faults>>
    BY <1>9 DEF FundInsufficient, AfterFundingError, TryWallet, session, request
  <2> QED
    BY <2>1, <2>2, <2>3, <2>4 DEF TypeOK
<1>10. ASSUME NEW r \in Requests, FundError(r) PROVE TypeOK'
  <2>1. pc' \in [Requests -> Steps]
    BY <1>10, <1>pc DEF FundError, AfterFundingError, Goto, Steps, Final
  <2>2. Columns'
    <3>1. ASSUME Statement(r, "wallet", eff[r]) PROVE Columns'
      <4>1. eff[r] \in Int
        BY <1>eff
      <4> QED
        BY <1>cols, <1>accounts, <3>1, <4>1, StatementType
    <3> QED
      BY <1>10, <1>cols, <3>1 DEF FundError, Statement, Columns, Aborts, Fault, Drifts
  <2>3. UNCHANGED <<job, pref, price, fee, src, eff, tokenConsumed, consumed, flags, tokenTrusted, subActive>>
    BY <1>10 DEF FundError, AfterFundingError, session, request
  <2> QED
    BY <2>1, <2>2, <2>3 DEF TypeOK, Columns
<1>11. ASSUME NEW r \in Requests, RollbackToken(r) PROVE TypeOK'
  <2>1. pc' \in [Requests -> Steps]
    BY <1>11, <1>pc DEF RollbackToken, TryWallet, Goto, Steps, Final
  <2>2. src' \in [Requests -> Sources]
    BY <1>11, <1>src DEF RollbackToken, TryWallet, Sources
  <2>3. tokenConsumed' \in [Requests -> Nat]
    BY <1>11, <1>tokenConsumed DEF RollbackToken, TryWallet
  <2>4. Columns'
    <3>1. ASSUME Statement(r, "token", -tokenConsumed[r]) PROVE Columns'
      <4>1. -tokenConsumed[r] \in Int
        BY <1>tokenConsumed
      <4> QED
        BY <1>cols, <1>accounts, <3>1, <4>1, StatementType
    <3> QED
      BY <1>11, <3>1 DEF RollbackToken, Statement
  <2>5. UNCHANGED <<job, pref, price, fee, eff, consumed, flags, tokenTrusted, subActive>>
    BY <1>11 DEF RollbackToken, TryWallet, request
  <2> QED
    BY <2>1, <2>2, <2>3, <2>4, <2>5 DEF TypeOK, Columns
<1>12. ASSUME NEW r \in Requests, Serve(r) PROVE TypeOK'
  <2>1. pc' \in [Requests -> Steps]
    BY <1>12, <1>pc DEF Serve, Goto, Steps, Final
  <2>2. price' \in [Requests -> Nat]
    BY <1>12, <1>price, QuotaAssumption DEF Serve
  <2>3. UNCHANGED <<job, pref, fee, src, eff, tokenConsumed, consumed, flags, tokenTrusted, subActive, taken, adrift, faults>>
    BY <1>12 DEF Serve, session
  <2> QED
    BY <2>1, <2>2, <2>3 DEF TypeOK
<1>13. ASSUME NEW r \in Requests, UpstreamFails(r) PROVE TypeOK'
  <2>1. pc' \in [Requests -> Steps]
    BY <1>13, <1>pc DEF UpstreamFails, Goto, Steps, Final
  <2>2. fee' \in [Requests -> Nat]
    BY <1>13, <1>fee, QuotaAssumption DEF UpstreamFails
  <2>3. UNCHANGED <<job, pref, price, src, eff, tokenConsumed, consumed, flags, tokenTrusted, subActive, taken, adrift, faults>>
    BY <1>13 DEF UpstreamFails, session
  <2> QED
    BY <2>1, <2>2, <2>3 DEF TypeOK
<1>14. ASSUME NEW r \in Requests, SettleFunding(r) PROVE TypeOK'
  <2>1. pc' \in [Requests -> Steps]
    BY <1>14, <1>pc DEF SettleFunding, Goto, Steps, Final
  <2>2. flags' \in [Requests -> SUBSET Flags]
    BY <1>14, <1>flags DEF SettleFunding, Set, Flags
  <2>3. Columns'
    <3>1. ASSUME Statement(r, src[r], Delta(r)) PROVE Columns'
      <4>1. Delta(r) \in Int
        BY <1>amounts
      <4> QED
        BY <1>cols, <1>accounts, <3>1, <4>1, StatementType
    <3> QED
      BY <1>14, <1>cols, <3>1 DEF SettleFunding, Statement, Columns, Aborts, Fault, Drifts
  <2>4. UNCHANGED <<job, pref, price, fee, src, eff, tokenConsumed, consumed, tokenTrusted, subActive>>
    BY <1>14 DEF SettleFunding, session, request
  <2> QED
    BY <2>1, <2>2, <2>3, <2>4 DEF TypeOK, Columns
<1>15. ASSUME NEW r \in Requests, SettleFundingError(r) PROVE TypeOK'
  <2>1. pc' \in [Requests -> Steps]
    BY <1>15, <1>pc DEF SettleFundingError, Goto, Steps, Final
  <2>2. Columns'
    <3>1. ASSUME Statement(r, "wallet", Delta(r)) PROVE Columns'
      <4>1. Delta(r) \in Int
        BY <1>amounts
      <4> QED
        BY <1>cols, <1>accounts, <3>1, <4>1, StatementType
    <3> QED
      BY <1>15, <1>cols, <3>1 DEF SettleFundingError, Statement, Columns, Aborts, Fault, Drifts
  <2>3. UNCHANGED <<job, pref, price, fee, src, eff, tokenConsumed, consumed, flags, tokenTrusted, subActive>>
    BY <1>15 DEF SettleFundingError, session, request
  <2> QED
    BY <2>1, <2>2, <2>3 DEF TypeOK, Columns
<1>16. ASSUME NEW r \in Requests, SettleToken(r) PROVE TypeOK'
  <2>1. pc' \in [Requests -> Steps]
    BY <1>16, <1>pc DEF SettleToken, Goto, Steps, Final
  <2>2. flags' \in [Requests -> SUBSET Flags]
    BY <1>16, <1>flags DEF SettleToken, Set, Flags
  <2>3. Columns'
    <3>1. ASSUME Statement(r, "token", TokenPart(r, Delta(r))) PROVE Columns'
      <4>1. TokenPart(r, Delta(r)) \in Int
        BY <1>amounts
      <4> QED
        BY <1>cols, <1>accounts, <3>1, <4>1, StatementType
    <3>2. ASSUME Statement(r, "token", Delta(r)) PROVE Columns'
      <4>1. Delta(r) \in Int
        BY <1>amounts
      <4> QED
        BY <1>cols, <1>accounts, <3>2, <4>1, StatementType
    <3> QED
      BY <1>16, <3>1, <3>2 DEF SettleToken, Statement
  <2>4. UNCHANGED <<job, pref, price, fee, src, eff, tokenConsumed, consumed, tokenTrusted, subActive>>
    BY <1>16 DEF SettleToken, session, request
  <2> QED
    BY <2>1, <2>2, <2>3, <2>4 DEF TypeOK, Columns
<1>17. ASSUME NEW r \in Requests, Refund(r) PROVE TypeOK'
  <2>1. pc' \in [Requests -> Steps]
    BY <1>17, <1>pc DEF Refund, Goto, Steps, Final
  <2>2. job' \in [Requests -> JobSteps]
    BY <1>17, <1>job DEF Refund, JobSteps
  <2>3. flags' \in [Requests -> SUBSET Flags]
    BY <1>17, <1>flags DEF Refund, Set, Flags
  <2>4. UNCHANGED <<pref, price, fee, src, eff, tokenConsumed, consumed, tokenTrusted, subActive, taken, adrift, faults>>
    BY <1>17 DEF Refund, session, request
  <2> QED
    BY <2>1, <2>2, <2>3, <2>4 DEF TypeOK
<1>18. ASSUME NEW r \in Requests, ChargeFee(r) PROVE TypeOK'
  <2>1. pc' \in [Requests -> Steps]
    BY <1>18, <1>pc DEF ChargeFee, Goto, Steps, Final
  <2>2. fee' \in [Requests -> Nat]
    BY <1>18, <1>fee DEF ChargeFee
  <2>3. Columns'
    <3>1. ASSUME Statement(r, src[r], fee[r]) PROVE Columns'
      <4>1. fee[r] \in Int
        BY <1>fee
      <4> QED
        BY <1>cols, <1>accounts, <3>1, <4>1, StatementType
    <3>2. ASSUME Statement(r, "wallet", fee[r]) PROVE Columns'
      <4>1. fee[r] \in Int
        BY <1>fee
      <4> QED
        BY <1>cols, <1>accounts, <3>2, <4>1, StatementType
    <3> QED
      BY <1>18, <1>cols, <3>1, <3>2 DEF ChargeFee, Statement, Columns, Aborts, Fault, Drifts
  <2>4. UNCHANGED <<job, pref, price, src, eff, tokenConsumed, consumed, flags, tokenTrusted, subActive>>
    BY <1>18 DEF ChargeFee, session
  <2> QED
    BY <2>1, <2>2, <2>3, <2>4 DEF TypeOK, Columns
<1>19. ASSUME NEW r \in Requests, ChargeFeeToken(r) PROVE TypeOK'
  <2>1. pc' \in [Requests -> Steps]
    BY <1>19, <1>pc DEF ChargeFeeToken, Goto, Steps, Final
  <2>2. Columns'
    <3>1. ASSUME Statement(r, "token", TokenPart(r, fee[r])) PROVE Columns'
      <4>1. TokenPart(r, fee[r]) \in Int
        BY <1>amounts, <1>fee
      <4> QED
        BY <1>cols, <1>accounts, <3>1, <4>1, StatementType
    <3>2. ASSUME Statement(r, "token", fee[r]) PROVE Columns'
      <4>1. fee[r] \in Int
        BY <1>fee
      <4> QED
        BY <1>cols, <1>accounts, <3>2, <4>1, StatementType
    <3> QED
      BY <1>19, <3>1, <3>2 DEF ChargeFeeToken, Statement
  <2>3. UNCHANGED <<job, pref, price, fee, src, eff, tokenConsumed, consumed, flags, tokenTrusted, subActive>>
    BY <1>19 DEF ChargeFeeToken, session, request
  <2> QED
    BY <2>1, <2>2, <2>3 DEF TypeOK, Columns
<1>20. ASSUME NEW r \in Requests, RefundFunding(r) PROVE TypeOK'
  <2>1. job' \in [Requests -> JobSteps]
    BY <1>20, <1>job DEF RefundFunding, JobSteps
  <2>2. Columns'
    <3>1. ASSUME Statement(r, src[r], -consumed[r]) PROVE Columns'
      <4>1. -consumed[r] \in Int
        BY <1>consumed
      <4> QED
        BY <1>cols, <1>accounts, <3>1, <4>1, StatementType
    <3>2. ASSUME Statement(r, "wallet", -consumed[r]) PROVE Columns'
      <4>1. -consumed[r] \in Int
        BY <1>consumed
      <4> QED
        BY <1>cols, <1>accounts, <3>2, <4>1, StatementType
    <3> QED
      BY <1>20, <1>cols, <3>1, <3>2 DEF RefundFunding, Statement, Columns, Aborts, Fault, Drifts
  <2>3. UNCHANGED <<pc, pref, price, fee, src, eff, tokenConsumed, consumed, flags, tokenTrusted, subActive>>
    BY <1>20 DEF RefundFunding, session, request
  <2> QED
    BY <2>1, <2>2, <2>3 DEF TypeOK, Columns
<1>21. ASSUME NEW r \in Requests, RefundToken(r) PROVE TypeOK'
  <2>1. job' \in [Requests -> JobSteps]
    BY <1>21, <1>job DEF RefundToken, JobSteps
  <2>2. Columns'
    <3>1. ASSUME Statement(r, "token", -TokenPart(r, tokenConsumed[r])) PROVE Columns'
      <4>1. -TokenPart(r, tokenConsumed[r]) \in Int
        BY <1>amounts, <1>tokenConsumed
      <4> QED
        BY <1>cols, <1>accounts, <3>1, <4>1, StatementType
    <3>2. ASSUME Statement(r, "token", -tokenConsumed[r]) PROVE Columns'
      <4>1. -tokenConsumed[r] \in Int
        BY <1>tokenConsumed
      <4> QED
        BY <1>cols, <1>accounts, <3>2, <4>1, StatementType
    <3> QED
      BY <1>21, <3>1, <3>2 DEF RefundToken, Statement
  <2>3. UNCHANGED <<pc, pref, price, fee, src, eff, tokenConsumed, consumed, flags, tokenTrusted, subActive>>
    BY <1>21 DEF RefundToken, session, request
  <2> QED
    BY <2>1, <2>2, <2>3 DEF TypeOK, Columns
<1> QED
  BY <1>1, <1>2, <1>3, <1>4, <1>5, <1>6, <1>7, <1>8, <1>9, <1>10, <1>11, <1>12, <1>13, <1>14, <1>15, <1>16, <1>17, <1>18, <1>19, <1>20, <1>21
     DEF Next, RequestStep, PreConsumeStep, FinishStep, JobStep, AllDone

\* Every variable keeps its type: no step of any request leaves a session
\* with an amount that is not a natural number or a step that does not exist.
THEOREM TypeCorrect == Spec => []TypeOK
<1>1. Init => TypeOK
  BY DEF Init, TypeOK, Steps, Final, JobSteps, Sources, Flags, Accounts
<1> QED
  BY <1>1, TypeStep, PTL DEF Spec

-----------------------------------------------------------------------------
(* The ledger of a session *)

\* What the inductive invariant says of one request.
RequestInv(r) == ConsistentSession(r) /\ (r \notin adrift => LedgerOf(r))

\* A step leaves the amounts of request r as they are, or adds n to one of them
\* (unless it sets r adrift).
Kept(r) == r \notin adrift' => r \notin adrift /\ taken'[r] = taken[r]
Added(r, a, n) ==
  r \notin adrift' =>
    /\ r \notin adrift
    /\ taken'[r][a] = taken[r][a] + n
    /\ \A b \in Accounts : b # a => taken'[r][b] = taken[r][b]

\* A statement whose error is only logged adds its amount or sets r adrift.
LEMMA SucceedsAdds ==
  ASSUME TypeOK, NEW r \in Requests, NEW a \in Accounts, NEW n \in Int,
         Succeeds(r, a, n) \/ FailsDone(r, a, n) \/ Drifts(r)
  PROVE  Added(r, a, n)
<1>1. taken \in [Requests -> [Accounts -> Int]]
  BY DEF TypeOK
<1>2. ASSUME Take(r, a, n), adrift' = adrift PROVE Added(r, a, n)
  BY <1>1, <1>2, TakeEffect DEF Added
<1>3. Drifts(r) => Added(r, a, n)
  BY DEF Drifts, Added
<1> QED
  BY <1>2, <1>3 DEF Succeeds, FailsDone

\* A statement whose error is returned changes nothing or sets r adrift.
LEMMA UndoneKeeps ==
  ASSUME NEW r, NEW a, NEW n, FailsUndone(r, a, n) \/ UNCHANGED <<taken, adrift>>
  PROVE  Kept(r)
BY DEF FailsUndone, Drifts, Kept

\* The types at one request, for the provers' convenience.
LEMMA TypesAt ==
  ASSUME TypeOK, NEW r \in Requests
  PROVE  /\ pc[r] \in Steps /\ job[r] \in JobSteps /\ flags[r] \subseteq Flags
         /\ price[r] \in Nat /\ fee[r] \in Nat /\ eff[r] \in Nat
         /\ tokenConsumed[r] \in Nat /\ consumed[r] \in Nat
         /\ src[r] \in Sources /\ src[r] \in Accounts
         /\ taken[r] \in [Accounts -> Int]
BY DEF TypeOK, Sources, Accounts

\* A step of a request, or of its refund goroutine, keeps the invariant of that
\* request.
LEMMA ActorInv ==
  ASSUME TypeOK, TypeOK', NEW r \in Requests, RequestInv(r),
         Arrive(r) \/ RequestStep(r) \/ JobStep(r)
  PROVE  RequestInv(r)'
<1>t. /\ price[r] \in Nat /\ fee[r] \in Nat /\ eff[r] \in Nat
      /\ tokenConsumed[r] \in Nat /\ consumed[r] \in Nat
      /\ src[r] \in Sources /\ src[r] \in Accounts /\ taken[r] \in [Accounts -> Int]
      /\ "token" \in Accounts /\ "wallet" \in Accounts
  BY TypesAt DEF Accounts
<1>u. /\ price'[r] \in Nat /\ fee'[r] \in Nat /\ eff'[r] \in Nat
      /\ tokenConsumed'[r] \in Nat /\ consumed'[r] \in Nat
      /\ src'[r] \in Sources
  BY DEF TypeOK
<1>1. CASE Arrive(r)
  <2>1. /\ pc[r] = "idle"
        /\ flags[r] = {}
        /\ job[r] = "none"
        /\ fee[r] = 0
    BY <1>1, <1>t DEF Arrive, RequestInv, ConsistentSession, BeforeFunding, SubConsume
  <2>2. \A a \in Accounts : r \notin adrift => taken[r][a] = 0
    BY <1>t, <2>1
       DEF RequestInv, LedgerOf, TokenHeld, TokenFee, TokenPart, FundingHeld, FundingFee,
           BeforeFunding, Sources, Accounts
  <2>3. CASE \E p \in PreQuotas : price' = [price EXCEPT ![r] = p] /\ TrySubscription(r, p)
    <3>1. Kept(r)
      BY <1>1, <2>3, UndoneKeeps DEF Arrive, Aborts
    <3>2. pc'[r] = "token" /\ src'[r] = "subscription" /\ eff'[r] = SubConsume(r)' /\ tokenConsumed'[r] = 0
      BY <1>1, <2>3, <1>t, <2>1 DEF Arrive, Goto, TypeOK, TrySubscription, SubConsume
    <3>3. /\ job'[r] = job[r] /\ fee'[r] = fee[r] /\ consumed'[r] = consumed[r] /\ flags'[r] = flags[r]
      BY <1>1, <2>3 DEF Arrive, TrySubscription, SubConsume, session, request
    <3>4. ConsistentSession(r)'
      BY <1>t, <1>u, <2>1, <2>3, <3>2, <3>3
         DEF RequestInv, ConsistentSession, BeforeFunding, SubConsume
    <3>5. r \notin adrift' => LedgerOf(r)'
      BY <1>t, <1>u, <2>1, <2>2, <2>3, <3>1, <3>2, <3>3
         DEF RequestInv, LedgerOf, TokenHeld, TokenFee, TokenPart, FundingHeld, FundingFee,
             BeforeFunding, Sources, Accounts, Kept
    <3> QED
      BY <3>4, <3>5 DEF RequestInv
  <2>4. CASE TryWallet(r)
    <3>1. Kept(r)
      BY <1>1, <2>4, UndoneKeeps DEF Arrive, Aborts
    <3>2. pc'[r] = "walletCheck" /\ src'[r] = "wallet" /\ tokenConsumed'[r] = 0
      BY <1>1, <2>4, <1>t, <2>1 DEF Arrive, Goto, TypeOK, TryWallet
    <3>3. /\ job'[r] = job[r] /\ fee'[r] = fee[r] /\ eff'[r] = eff[r] /\ consumed'[r] = consumed[r]
          /\ flags'[r] = flags[r]
      BY <1>1, <2>4 DEF Arrive, TryWallet, session, request
    <3>4. ConsistentSession(r)'
      BY <1>t, <1>u, <2>1, <2>4, <3>2, <3>3
         DEF RequestInv, ConsistentSession, BeforeFunding, SubConsume
    <3>5. r \notin adrift' => LedgerOf(r)'
      BY <1>t, <1>u, <2>1, <2>2, <2>4, <3>1, <3>2, <3>3
         DEF RequestInv, LedgerOf, TokenHeld, TokenFee, TokenPart, FundingHeld, FundingFee,
             BeforeFunding, Sources, Accounts, Kept
    <3> QED
      BY <3>4, <3>5 DEF RequestInv
  <2> QED
    BY <1>1, <2>1, <2>3, <2>4 DEF Arrive
<1>2. CASE WalletCheck(r)
  <2>1. /\ pc[r] = "walletCheck"
        /\ src[r] = "wallet"
        /\ tokenConsumed[r] = 0
        /\ flags[r] = {}
        /\ job[r] = "none"
        /\ fee[r] = 0
    BY <1>2, <1>t DEF WalletCheck, RequestInv, ConsistentSession, BeforeFunding, SubConsume
  <2>2. \A a \in Accounts : r \notin adrift => taken[r][a] = 0
    BY <1>t, <2>1
       DEF RequestInv, LedgerOf, TokenHeld, TokenFee, TokenPart, FundingHeld, FundingFee,
           BeforeFunding, Sources, Accounts
  <2>3. CASE WalletSuffices(r)
    <3>1. Kept(r)
      BY <1>2, <2>3, UndoneKeeps DEF WalletCheck, Aborts
    <3>2. pc'[r] \in {"token", "fund"} /\ (pc'[r] = "fund" => eff'[r] = 0)
      BY <1>2, <2>3, <1>t, <2>1 DEF WalletCheck, Goto, TypeOK
    <3>3. /\ job'[r] = job[r] /\ price'[r] = price[r] /\ fee'[r] = fee[r] /\ src'[r] = src[r]
          /\ tokenConsumed'[r] = tokenConsumed[r] /\ consumed'[r] = consumed[r] /\ flags'[r] = flags[r]
      BY <1>2, <2>3 DEF WalletCheck, request, session
    <3>4. ConsistentSession(r)'
      BY <1>t, <1>u, <2>1, <2>3, <3>2, <3>3
         DEF RequestInv, ConsistentSession, BeforeFunding, SubConsume
    <3>5. r \notin adrift' => LedgerOf(r)'
      BY <1>t, <1>u, <2>1, <2>2, <2>3, <3>1, <3>2, <3>3
         DEF RequestInv, LedgerOf, TokenHeld, TokenFee, TokenPart, FundingHeld, FundingFee,
             BeforeFunding, Sources, Accounts, Kept
    <3> QED
      BY <3>4, <3>5 DEF RequestInv
  <2>4. CASE ~WalletSuffices(r) /\ pref[r] = "wallet_first"
    <3>1. Kept(r)
      BY <1>2, <2>4, UndoneKeeps DEF WalletCheck, Aborts
    <3>2. pc'[r] = "token" /\ src'[r] = "subscription" /\ eff'[r] = SubConsume(r)' /\ tokenConsumed'[r] = 0
      BY <1>2, <2>4, <1>t, <2>1
         DEF WalletCheck, Goto, TypeOK, TrySubscription, SubConsume, request
    <3>3. /\ job'[r] = job[r] /\ price'[r] = price[r] /\ fee'[r] = fee[r] /\ consumed'[r] = consumed[r]
          /\ flags'[r] = flags[r]
      BY <1>2, <2>4 DEF WalletCheck, TrySubscription, SubConsume, request, session
    <3>4. ConsistentSession(r)'
      BY <1>t, <1>u, <2>1, <2>4, <3>2, <3>3
         DEF RequestInv, ConsistentSession, BeforeFunding, SubConsume
    <3>5. r \notin adrift' => LedgerOf(r)'
      BY <1>t, <1>u, <2>1, <2>2, <2>4, <3>1, <3>2, <3>3
         DEF RequestInv, LedgerOf, TokenHeld, TokenFee, TokenPart, FundingHeld, FundingFee,
             BeforeFunding, Sources, Accounts, Kept
    <3> QED
      BY <3>4, <3>5 DEF RequestInv
  <2>5. CASE ~WalletSuffices(r) /\ pref[r] # "wallet_first"
    <3>1. Kept(r)
      BY <1>2, <2>5, UndoneKeeps DEF WalletCheck, Aborts
    <3>2. pc'[r] = "rejected"
      BY <1>2, <2>5, <1>t, <2>1 DEF WalletCheck, Goto, TypeOK
    <3>3. /\ job'[r] = job[r] /\ price'[r] = price[r] /\ fee'[r] = fee[r] /\ src'[r] = src[r]
          /\ eff'[r] = eff[r] /\ tokenConsumed'[r] = tokenConsumed[r] /\ consumed'[r] = consumed[r] /\ flags'[r] = flags[r]
      BY <1>2, <2>5 DEF WalletCheck, request, session
    <3>4. ConsistentSession(r)'
      BY <1>t, <1>u, <2>1, <2>5, <3>2, <3>3
         DEF RequestInv, ConsistentSession, BeforeFunding, SubConsume
    <3>5. r \notin adrift' => LedgerOf(r)'
      BY <1>t, <1>u, <2>1, <2>2, <2>5, <3>1, <3>2, <3>3
         DEF RequestInv, LedgerOf, TokenHeld, TokenFee, TokenPart, FundingHeld, FundingFee,
             BeforeFunding, Sources, Accounts, Kept
    <3> QED
      BY <3>4, <3>5 DEF RequestInv
  <2> QED
    BY <1>2, <2>1, <2>3, <2>4, <2>5 DEF WalletCheck
<1>3. CASE TokenCheck(r)
  <2>1. /\ pc[r] = "token"
        /\ flags[r] = {}
        /\ job[r] = "none"
        /\ fee[r] = 0
    BY <1>3, <1>t DEF TokenCheck, RequestInv, ConsistentSession, BeforeFunding, SubConsume
  <2>2. CASE r \in Playground
    <3>1. Kept(r)
      BY <1>3, <2>2, UndoneKeeps DEF TokenCheck, Aborts
    <3>2. pc'[r] = "fund" /\ tokenConsumed'[r] = eff[r]
      BY <1>3, <2>2, <1>t, <2>1 DEF TokenCheck, Goto, TypeOK
    <3>3. /\ job'[r] = job[r] /\ price'[r] = price[r] /\ fee'[r] = fee[r] /\ src'[r] = src[r]
          /\ eff'[r] = eff[r] /\ consumed'[r] = consumed[r] /\ flags'[r] = flags[r]
      BY <1>3, <2>2 DEF TokenCheck, request, session
    <3>4. ConsistentSession(r)'
      BY <1>t, <1>u, <2>1, <2>2, <3>2, <3>3
         DEF RequestInv, ConsistentSession, BeforeFunding, SubConsume
    <3>5. r \notin adrift' => LedgerOf(r)'
      BY <1>t, <1>u, <2>1, <2>2, <3>1, <3>2, <3>3
         DEF RequestInv, LedgerOf, TokenHeld, TokenFee, TokenPart, FundingHeld, FundingFee,
             BeforeFunding, Sources, Accounts, Kept
    <3> QED
      BY <3>4, <3>5 DEF RequestInv
  <2>3. CASE r \notin Playground
    <3>1. Kept(r)
      BY <1>3, <2>3, UndoneKeeps DEF TokenCheck, Aborts
    <3>2. pc'[r] \in {"tokenDecr", "rejected"}
      BY <1>3, <2>3, <1>t, <2>1 DEF TokenCheck, Goto, TypeOK
    <3>3. /\ job'[r] = job[r] /\ price'[r] = price[r] /\ fee'[r] = fee[r] /\ src'[r] = src[r]
          /\ eff'[r] = eff[r] /\ tokenConsumed'[r] = tokenConsumed[r] /\ consumed'[r] = consumed[r] /\ flags'[r] = flags[r]
      BY <1>3, <2>3 DEF TokenCheck, request, session
    <3>4. ConsistentSession(r)'
      BY <1>t, <1>u, <2>1, <2>3, <3>2, <3>3
         DEF RequestInv, ConsistentSession, BeforeFunding, SubConsume
    <3>5. r \notin adrift' => LedgerOf(r)'
      BY <1>t, <1>u, <2>1, <2>3, <3>1, <3>2, <3>3
         DEF RequestInv, LedgerOf, TokenHeld, TokenFee, TokenPart, FundingHeld, FundingFee,
             BeforeFunding, Sources, Accounts, Kept
    <3> QED
      BY <3>4, <3>5 DEF RequestInv
  <2> QED
    BY <1>3, <2>1, <2>2, <2>3 DEF TokenCheck
<1>4. CASE ReadError(r)
  <2>1. /\ pc[r] \in {"walletCheck", "token"}
        /\ flags[r] = {}
        /\ job[r] = "none"
        /\ fee[r] = 0
    BY <1>4, <1>t DEF ReadError, RequestInv, ConsistentSession, BeforeFunding, SubConsume
  <2>2. Kept(r)
    BY <1>4, UndoneKeeps DEF ReadError, Aborts
  <2>3. pc'[r] = "rejected"
    BY <1>4, <1>t, <2>1 DEF ReadError, Goto, TypeOK
  <2>4. /\ job'[r] = job[r] /\ price'[r] = price[r] /\ fee'[r] = fee[r] /\ src'[r] = src[r]
        /\ eff'[r] = eff[r] /\ tokenConsumed'[r] = tokenConsumed[r] /\ consumed'[r] = consumed[r] /\ flags'[r] = flags[r]
    BY <1>4 DEF ReadError, session, request
  <2>5. ConsistentSession(r)'
    BY <1>t, <1>u, <2>1, <2>3, <2>4 DEF RequestInv, ConsistentSession, BeforeFunding, SubConsume
  <2>6. r \notin adrift' => LedgerOf(r)'
    BY <1>t, <1>u, <2>1, <2>2, <2>3, <2>4
       DEF RequestInv, LedgerOf, TokenHeld, TokenFee, TokenPart, FundingHeld, FundingFee,
           BeforeFunding, Sources, Accounts, Kept
  <2> QED
    BY <2>5, <2>6 DEF RequestInv
<1>5. CASE TokenDecrease(r)
  <2>1. /\ pc[r] = "tokenDecr"
        /\ r \notin Playground
        /\ flags[r] = {}
        /\ job[r] = "none"
        /\ fee[r] = 0
    BY <1>5, <1>t DEF TokenDecrease, RequestInv, ConsistentSession, BeforeFunding, SubConsume
  <2>2. CASE Succeeds(r, "token", eff[r]) /\ tokenConsumed' = [tokenConsumed EXCEPT ![r] = eff[r]] /\ Goto(r, "fund")
    <3>1. Succeeds(r, "token", eff[r]) \/ FailsDone(r, "token", eff[r]) \/ Drifts(r)
      BY <1>5, <2>2, <2>1 DEF TokenDecrease
    <3>2. eff[r] \in Int
      BY <1>t
    <3>3. Added(r, "token", eff[r])
      BY <1>t, <3>1, <3>2, SucceedsAdds
    <3>4. pc'[r] = "fund" /\ tokenConsumed'[r] = eff[r]
      BY <1>5, <2>2, <1>t, <2>1 DEF TokenDecrease, Goto, TypeOK
    <3>5. /\ job'[r] = job[r] /\ price'[r] = price[r] /\ fee'[r] = fee[r] /\ src'[r] = src[r]
          /\ eff'[r] = eff[r] /\ consumed'[r] = consumed[r] /\ flags'[r] = flags[r]
      BY <1>5, <2>2 DEF TokenDecrease, request, session
    <3>6. ConsistentSession(r)'
      BY <1>t, <1>u, <2>1, <2>2, <3>4, <3>5
         DEF RequestInv, ConsistentSession, BeforeFunding, SubConsume
    <3>7. r \notin adrift' => LedgerOf(r)'
      BY <1>t, <1>u, <2>1, <2>2, <3>3, <3>4, <3>5
         DEF RequestInv, LedgerOf, TokenHeld, TokenFee, TokenPart, FundingHeld, FundingFee,
             BeforeFunding, Sources, Accounts, Added
    <3> QED
      BY <3>6, <3>7 DEF RequestInv
  <2>3. CASE FailsUndone(r, "token", eff[r]) /\ Goto(r, "rejected") /\ UNCHANGED tokenConsumed
    <3>1. Kept(r)
      BY <1>5, <2>3, UndoneKeeps DEF TokenDecrease, Aborts
    <3>2. pc'[r] = "rejected"
      BY <1>5, <2>3, <1>t, <2>1 DEF TokenDecrease, Goto, TypeOK
    <3>3. /\ job'[r] = job[r] /\ price'[r] = price[r] /\ fee'[r] = fee[r] /\ src'[r] = src[r]
          /\ eff'[r] = eff[r] /\ tokenConsumed'[r] = tokenConsumed[r] /\ consumed'[r] = consumed[r] /\ flags'[r] = flags[r]
      BY <1>5, <2>3 DEF TokenDecrease, request, session
    <3>4. ConsistentSession(r)'
      BY <1>t, <1>u, <2>1, <2>3, <3>2, <3>3
         DEF RequestInv, ConsistentSession, BeforeFunding, SubConsume
    <3>5. r \notin adrift' => LedgerOf(r)'
      BY <1>t, <1>u, <2>1, <2>3, <3>1, <3>2, <3>3
         DEF RequestInv, LedgerOf, TokenHeld, TokenFee, TokenPart, FundingHeld, FundingFee,
             BeforeFunding, Sources, Accounts, Kept
    <3> QED
      BY <3>4, <3>5 DEF RequestInv
  <2> QED
    BY <1>5, <2>1, <2>2, <2>3 DEF TokenDecrease
<1>6. CASE FundPreConsume(r)
  <2>1. /\ pc[r] = "fund"
        /\ tokenConsumed[r] = eff[r]
        /\ FundingAmount(r) = eff[r]
        /\ flags[r] = {}
        /\ job[r] = "none"
        /\ fee[r] = 0
    BY <1>6, <1>t
       DEF FundPreConsume, FundingAmount, SubConsume, RequestInv, ConsistentSession,
           BeforeFunding
  <2>2. Succeeds(r, src[r], eff[r]) \/ FailsDone(r, src[r], eff[r]) \/ Drifts(r)
    BY <1>6, <2>1 DEF FundPreConsume
  <2>3. eff[r] \in Int
    BY <1>t
  <2>4. Added(r, src[r], eff[r])
    BY <1>t, <2>2, <2>3, SucceedsAdds
  <2>5. pc'[r] = "serving" /\ consumed'[r] = eff[r]
    BY <1>6, <1>t, <2>1 DEF FundPreConsume, Goto, TypeOK
  <2>6. /\ job'[r] = job[r] /\ price'[r] = price[r] /\ fee'[r] = fee[r] /\ src'[r] = src[r]
        /\ eff'[r] = eff[r] /\ tokenConsumed'[r] = tokenConsumed[r] /\ flags'[r] = flags[r]
    BY <1>6 DEF FundPreConsume, request, session
  <2>7. ConsistentSession(r)'
    BY <1>t, <1>u, <2>1, <2>5, <2>6 DEF RequestInv, ConsistentSession, BeforeFunding, SubConsume
  <2>8. r \notin adrift' => LedgerOf(r)'
    BY <1>t, <1>u, <2>1, <2>4, <2>5, <2>6
       DEF RequestInv, LedgerOf, TokenHeld, TokenFee, TokenPart, FundingHeld, FundingFee,
           BeforeFunding, Sources, Accounts, Added
  <2> QED
    BY <2>7, <2>8 DEF RequestInv
<1>7. CASE FundInsufficient(r)
  <2>1. /\ pc[r] = "fund"
        /\ tokenConsumed[r] = eff[r]
        /\ flags[r] = {}
        /\ job[r] = "none"
        /\ fee[r] = 0
        /\ src[r] = "subscription"
    BY <1>7, <1>t DEF FundInsufficient, RequestInv, ConsistentSession, BeforeFunding, SubConsume
  <2>2. CASE tokenConsumed[r] > 0 /\ r \notin Playground
    <3>1. Kept(r)
      BY <1>7, <2>2, UndoneKeeps DEF FundInsufficient, Aborts
    <3>2. pc'[r] \in {"rollback", "rollbackFallback"}
      BY <1>7, <2>2, <1>t, <2>1 DEF FundInsufficient, Goto, TypeOK, AfterFundingError, session
    <3>3. /\ job'[r] = job[r] /\ price'[r] = price[r] /\ fee'[r] = fee[r] /\ src'[r] = src[r]
          /\ eff'[r] = eff[r] /\ tokenConsumed'[r] = tokenConsumed[r] /\ consumed'[r] = consumed[r] /\ flags'[r] = flags[r]
      BY <1>7, <2>2 DEF FundInsufficient, AfterFundingError, session, request
    <3>4. ConsistentSession(r)'
      BY <1>t, <1>u, <2>1, <2>2, <3>2, <3>3
         DEF RequestInv, ConsistentSession, BeforeFunding, SubConsume
    <3>5. r \notin adrift' => LedgerOf(r)'
      BY <1>t, <1>u, <2>1, <2>2, <3>1, <3>2, <3>3
         DEF RequestInv, LedgerOf, TokenHeld, TokenFee, TokenPart, FundingHeld, FundingFee,
             BeforeFunding, Sources, Accounts, Kept
    <3> QED
      BY <3>4, <3>5 DEF RequestInv
  <2>3. CASE ~(tokenConsumed[r] > 0 /\ r \notin Playground) /\ pref[r] = "subscription_first"
    <3>1. Kept(r)
      BY <1>7, <2>3, UndoneKeeps DEF FundInsufficient, Aborts
    <3>2. pc'[r] = "walletCheck" /\ src'[r] = "wallet" /\ tokenConsumed'[r] = 0
      BY <1>7, <2>3, <1>t, <2>1 DEF FundInsufficient, Goto, TypeOK, AfterFundingError, TryWallet
    <3>3. /\ job'[r] = job[r] /\ price'[r] = price[r] /\ fee'[r] = fee[r] /\ eff'[r] = eff[r]
          /\ consumed'[r] = consumed[r] /\ flags'[r] = flags[r]
      BY <1>7, <2>3 DEF FundInsufficient, AfterFundingError, TryWallet, request, session
    <3>4. ConsistentSession(r)'
      BY <1>t, <1>u, <2>1, <2>3, <3>2, <3>3
         DEF RequestInv, ConsistentSession, BeforeFunding, SubConsume
    <3>5. r \notin adrift' => LedgerOf(r)'
      BY <1>t, <1>u, <2>1, <2>3, <3>1, <3>2, <3>3
         DEF RequestInv, LedgerOf, TokenHeld, TokenFee, TokenPart, FundingHeld, FundingFee,
             BeforeFunding, Sources, Accounts, Kept
    <3> QED
      BY <3>4, <3>5 DEF RequestInv
  <2>4. CASE ~(tokenConsumed[r] > 0 /\ r \notin Playground) /\ pref[r] # "subscription_first"
    <3>1. Kept(r)
      BY <1>7, <2>4, UndoneKeeps DEF FundInsufficient, Aborts
    <3>2. pc'[r] = "rejected"
      BY <1>7, <2>4, <1>t, <2>1 DEF FundInsufficient, Goto, TypeOK, AfterFundingError, session
    <3>3. /\ job'[r] = job[r] /\ price'[r] = price[r] /\ fee'[r] = fee[r] /\ src'[r] = src[r]
          /\ eff'[r] = eff[r] /\ tokenConsumed'[r] = tokenConsumed[r] /\ consumed'[r] = consumed[r] /\ flags'[r] = flags[r]
      BY <1>7, <2>4 DEF FundInsufficient, AfterFundingError, session, request
    <3>4. ConsistentSession(r)'
      BY <1>t, <1>u, <2>1, <2>4, <3>2, <3>3
         DEF RequestInv, ConsistentSession, BeforeFunding, SubConsume
    <3>5. r \notin adrift' => LedgerOf(r)'
      BY <1>t, <1>u, <2>1, <2>4, <3>1, <3>2, <3>3
         DEF RequestInv, LedgerOf, TokenHeld, TokenFee, TokenPart, FundingHeld, FundingFee,
             BeforeFunding, Sources, Accounts, Kept
    <3> QED
      BY <3>4, <3>5 DEF RequestInv
  <2> QED
    BY <1>7, <2>1, <2>2, <2>3, <2>4 DEF FundInsufficient
<1>8. CASE FundError(r)
  <2>1. /\ pc[r] = "fund"
        /\ tokenConsumed[r] = eff[r]
        /\ flags[r] = {}
        /\ job[r] = "none"
        /\ fee[r] = 0
    BY <1>8, <1>t DEF FundError, RequestInv, ConsistentSession, BeforeFunding, SubConsume
  <2>2. CASE tokenConsumed[r] > 0 /\ r \notin Playground
    <3>1. Kept(r)
      BY <1>8, <2>2, UndoneKeeps DEF FundError, Aborts
    <3>2. pc'[r] = "rollback"
      BY <1>8, <2>2, <1>t, <2>1 DEF FundError, Goto, TypeOK, AfterFundingError, session
    <3>3. /\ job'[r] = job[r] /\ price'[r] = price[r] /\ fee'[r] = fee[r] /\ src'[r] = src[r]
          /\ eff'[r] = eff[r] /\ tokenConsumed'[r] = tokenConsumed[r] /\ consumed'[r] = consumed[r] /\ flags'[r] = flags[r]
      BY <1>8, <2>2 DEF FundError, AfterFundingError, session, request
    <3>4. ConsistentSession(r)'
      BY <1>t, <1>u, <2>1, <2>2, <3>2, <3>3
         DEF RequestInv, ConsistentSession, BeforeFunding, SubConsume
    <3>5. r \notin adrift' => LedgerOf(r)'
      BY <1>t, <1>u, <2>1, <2>2, <3>1, <3>2, <3>3
         DEF RequestInv, LedgerOf, TokenHeld, TokenFee, TokenPart, FundingHeld, FundingFee,
             BeforeFunding, Sources, Accounts, Kept
    <3> QED
      BY <3>4, <3>5 DEF RequestInv
  <2>3. CASE ~(tokenConsumed[r] > 0 /\ r \notin Playground)
    <3>1. Kept(r)
      BY <1>8, <2>3, UndoneKeeps DEF FundError, Aborts
    <3>2. pc'[r] = "rejected"
      BY <1>8, <2>3, <1>t, <2>1 DEF FundError, Goto, TypeOK, AfterFundingError, session
    <3>3. /\ job'[r] = job[r] /\ price'[r] = price[r] /\ fee'[r] = fee[r] /\ src'[r] = src[r]
          /\ eff'[r] = eff[r] /\ tokenConsumed'[r] = tokenConsumed[r] /\ consumed'[r] = consumed[r] /\ flags'[r] = flags[r]
      BY <1>8, <2>3 DEF FundError, AfterFundingError, session, request
    <3>4. ConsistentSession(r)'
      BY <1>t, <1>u, <2>1, <2>3, <3>2, <3>3
         DEF RequestInv, ConsistentSession, BeforeFunding, SubConsume
    <3>5. r \notin adrift' => LedgerOf(r)'
      BY <1>t, <1>u, <2>1, <2>3, <3>1, <3>2, <3>3
         DEF RequestInv, LedgerOf, TokenHeld, TokenFee, TokenPart, FundingHeld, FundingFee,
             BeforeFunding, Sources, Accounts, Kept
    <3> QED
      BY <3>4, <3>5 DEF RequestInv
  <2> QED
    BY <1>8, <2>1, <2>2, <2>3 DEF FundError
<1>9. CASE RollbackToken(r)
  <2>1. /\ pc[r] \in {"rollback", "rollbackFallback"}
        /\ r \notin Playground
        /\ flags[r] = {}
        /\ job[r] = "none"
        /\ fee[r] = 0
    BY <1>9, <1>t DEF RollbackToken, RequestInv, ConsistentSession, BeforeFunding, SubConsume
  <2>2. CASE pc[r] = "rollbackFallback"
    <3>1. Succeeds(r, "token", -tokenConsumed[r]) \/ FailsDone(r, "token", -tokenConsumed[r]) \/ Drifts(r)
      BY <1>9, <2>2, <2>1 DEF RollbackToken
    <3>2. -tokenConsumed[r] \in Int
      BY <1>t
    <3>3. Added(r, "token", -tokenConsumed[r])
      BY <1>t, <3>1, <3>2, SucceedsAdds
    <3>4. pc'[r] = "walletCheck" /\ src'[r] = "wallet" /\ tokenConsumed'[r] = 0
      BY <1>9, <2>2, <1>t, <2>1 DEF RollbackToken, Goto, TypeOK, TryWallet
    <3>5. /\ job'[r] = job[r] /\ price'[r] = price[r] /\ fee'[r] = fee[r] /\ eff'[r] = eff[r]
          /\ consumed'[r] = consumed[r] /\ flags'[r] = flags[r]
      BY <1>9, <2>2 DEF RollbackToken, TryWallet, request, session
    <3>6. ConsistentSession(r)'
      BY <1>t, <1>u, <2>1, <2>2, <3>4, <3>5
         DEF RequestInv, ConsistentSession, BeforeFunding, SubConsume
    <3>7. r \notin adrift' => LedgerOf(r)'
      BY <1>t, <1>u, <2>1, <2>2, <3>3, <3>4, <3>5
         DEF RequestInv, LedgerOf, TokenHeld, TokenFee, TokenPart, FundingHeld, FundingFee,
             BeforeFunding, Sources, Accounts, Added
    <3> QED
      BY <3>6, <3>7 DEF RequestInv
  <2>3. CASE pc[r] = "rollback"
    <3>1. Succeeds(r, "token", -tokenConsumed[r]) \/ FailsDone(r, "token", -tokenConsumed[r]) \/ Drifts(r)
      BY <1>9, <2>3, <2>1 DEF RollbackToken
    <3>2. -tokenConsumed[r] \in Int
      BY <1>t
    <3>3. Added(r, "token", -tokenConsumed[r])
      BY <1>t, <3>1, <3>2, SucceedsAdds
    <3>4. pc'[r] = "rejected" /\ tokenConsumed'[r] = 0
      BY <1>9, <2>3, <1>t, <2>1 DEF RollbackToken, Goto, TypeOK
    <3>5. /\ job'[r] = job[r] /\ price'[r] = price[r] /\ fee'[r] = fee[r] /\ src'[r] = src[r]
          /\ eff'[r] = eff[r] /\ consumed'[r] = consumed[r] /\ flags'[r] = flags[r]
      BY <1>9, <2>3 DEF RollbackToken, request, session
    <3>6. ConsistentSession(r)'
      BY <1>t, <1>u, <2>1, <2>3, <3>4, <3>5
         DEF RequestInv, ConsistentSession, BeforeFunding, SubConsume
    <3>7. r \notin adrift' => LedgerOf(r)'
      BY <1>t, <1>u, <2>1, <2>3, <3>3, <3>4, <3>5
         DEF RequestInv, LedgerOf, TokenHeld, TokenFee, TokenPart, FundingHeld, FundingFee,
             BeforeFunding, Sources, Accounts, Added
    <3> QED
      BY <3>6, <3>7 DEF RequestInv
  <2> QED
    BY <1>9, <2>1, <2>2, <2>3 DEF RollbackToken
<1>10. CASE Serve(r)
  <2>1. /\ pc[r] = "serving"
        /\ tokenConsumed[r] = eff[r]
        /\ consumed[r] = eff[r]
        /\ flags[r] = {}
        /\ job[r] = "none"
    BY <1>10, <1>t DEF Serve, RequestInv, ConsistentSession, BeforeFunding, SubConsume
  <2>2. Kept(r)
    BY <1>10, UndoneKeeps DEF Serve, Aborts
  <2>3. pc'[r] = "settleFunding"
    BY <1>10, <1>t, <2>1 DEF Serve, Goto, TypeOK
  <2>4. /\ job'[r] = job[r] /\ fee'[r] = fee[r] /\ src'[r] = src[r] /\ eff'[r] = eff[r]
        /\ tokenConsumed'[r] = tokenConsumed[r] /\ consumed'[r] = consumed[r] /\ flags'[r] = flags[r]
    BY <1>10 DEF Serve, session, request
  <2>5. ConsistentSession(r)'
    BY <1>t, <1>u, <2>1, <2>3, <2>4 DEF RequestInv, ConsistentSession, BeforeFunding, SubConsume
  <2>6. r \notin adrift' => LedgerOf(r)'
    BY <1>t, <1>u, <2>1, <2>2, <2>3, <2>4
       DEF RequestInv, LedgerOf, TokenHeld, TokenFee, TokenPart, FundingHeld, FundingFee,
           BeforeFunding, Sources, Accounts, Kept
  <2> QED
    BY <2>5, <2>6 DEF RequestInv
<1>11. CASE UpstreamFails(r)
  <2>1. /\ pc[r] = "serving"
        /\ tokenConsumed[r] = eff[r]
        /\ consumed[r] = eff[r]
        /\ flags[r] = {}
        /\ job[r] = "none"
    BY <1>11, <1>t DEF UpstreamFails, RequestInv, ConsistentSession, BeforeFunding, SubConsume
  <2>2. Kept(r)
    BY <1>11, UndoneKeeps DEF UpstreamFails, Aborts
  <2>3. pc'[r] = "refund"
    BY <1>11, <1>t, <2>1 DEF UpstreamFails, Goto, TypeOK
  <2>4. /\ job'[r] = job[r] /\ price'[r] = price[r] /\ src'[r] = src[r] /\ eff'[r] = eff[r]
        /\ tokenConsumed'[r] = tokenConsumed[r] /\ consumed'[r] = consumed[r] /\ flags'[r] = flags[r]
    BY <1>11 DEF UpstreamFails, session, request
  <2>5. ConsistentSession(r)'
    BY <1>t, <1>u, <2>1, <2>3, <2>4 DEF RequestInv, ConsistentSession, BeforeFunding, SubConsume
  <2>6. r \notin adrift' => LedgerOf(r)'
    BY <1>t, <1>u, <2>1, <2>2, <2>3, <2>4
       DEF RequestInv, LedgerOf, TokenHeld, TokenFee, TokenPart, FundingHeld, FundingFee,
           BeforeFunding, Sources, Accounts, Kept
  <2> QED
    BY <2>5, <2>6 DEF RequestInv
<1>12. CASE SettleFunding(r)
  <2>1. /\ pc[r] = "settleFunding"
        /\ tokenConsumed[r] = eff[r]
        /\ consumed[r] = eff[r]
        /\ flags[r] = {}
        /\ job[r] = "none"
    BY <1>12, <1>t DEF SettleFunding, RequestInv, ConsistentSession, BeforeFunding, SubConsume
  <2>2. CASE Delta(r) = 0
    <3>1. Kept(r)
      BY <1>12, <2>2, UndoneKeeps DEF SettleFunding, Aborts
    <3>2. pc'[r] = "served" /\ flags'[r] = {"settled"}
      BY <1>12, <2>2, <1>t, <2>1 DEF SettleFunding, Goto, TypeOK, Set
    <3>3. price[r] = eff[r]
      BY <1>t, <2>2 DEF Delta
    <3>4. /\ job'[r] = job[r] /\ price'[r] = price[r] /\ fee'[r] = fee[r] /\ src'[r] = src[r]
          /\ eff'[r] = eff[r] /\ tokenConsumed'[r] = tokenConsumed[r] /\ consumed'[r] = consumed[r]
      BY <1>12, <2>2 DEF SettleFunding, Set, Delta, session, request
    <3>5. ConsistentSession(r)'
      BY <1>t, <1>u, <2>1, <2>2, <3>3, <3>2, <3>4
         DEF RequestInv, ConsistentSession, BeforeFunding, SubConsume
    <3>6. r \notin adrift' => LedgerOf(r)'
      BY <1>t, <1>u, <2>1, <2>2, <3>1, <3>3, <3>2, <3>4
         DEF RequestInv, LedgerOf, TokenHeld, TokenFee, TokenPart, FundingHeld, FundingFee,
             BeforeFunding, Sources, Accounts, Kept
    <3> QED
      BY <3>5, <3>6 DEF RequestInv
  <2>3. CASE Delta(r) # 0
    <3>1. Succeeds(r, src[r], Delta(r)) \/ FailsDone(r, src[r], Delta(r)) \/ Drifts(r)
      BY <1>12, <2>3, <2>1 DEF SettleFunding
    <3>2. Delta(r) \in Int
      BY <1>t, AmountTypes
    <3>3. Added(r, src[r], Delta(r))
      BY <1>t, <3>1, <3>2, SucceedsAdds
    <3>4. pc'[r] = "settleToken" /\ flags'[r] = {"fundingSettled"}
      BY <1>12, <2>3, <1>t, <2>1 DEF SettleFunding, Goto, TypeOK, Set
    <3>5. /\ job'[r] = job[r] /\ price'[r] = price[r] /\ fee'[r] = fee[r] /\ src'[r] = src[r]
          /\ eff'[r] = eff[r] /\ tokenConsumed'[r] = tokenConsumed[r] /\ consumed'[r] = consumed[r]
      BY <1>12, <2>3 DEF SettleFunding, Set, session, request
    <3>6. ConsistentSession(r)'
      BY <1>t, <1>u, <2>1, <2>3, <3>4, <3>5
         DEF RequestInv, ConsistentSession, BeforeFunding, SubConsume
    <3>7. r \notin adrift' => LedgerOf(r)'
      BY <1>t, <1>u, <2>1, <2>3, <3>3, <3>4, <3>5
         DEF RequestInv, LedgerOf, TokenHeld, TokenFee, TokenPart, FundingHeld, FundingFee,
             BeforeFunding, Sources, Accounts, Added, Delta
    <3> QED
      BY <3>6, <3>7 DEF RequestInv
  <2> QED
    BY <1>12, <2>1, <2>2, <2>3 DEF SettleFunding
<1>13. CASE SettleFundingError(r)
  <2>1. /\ pc[r] = "settleFunding"
        /\ tokenConsumed[r] = eff[r]
        /\ consumed[r] = eff[r]
        /\ flags[r] = {}
        /\ job[r] = "none"
    BY <1>13, <1>t
       DEF SettleFundingError, RequestInv, ConsistentSession, BeforeFunding, SubConsume
  <2>2. Kept(r)
    BY <1>13, UndoneKeeps DEF SettleFundingError, Aborts
  <2>3. pc'[r] = "served"
    BY <1>13, <1>t, <2>1 DEF SettleFundingError, Goto, TypeOK
  <2>4. /\ job'[r] = job[r] /\ price'[r] = price[r] /\ fee'[r] = fee[r] /\ src'[r] = src[r]
        /\ eff'[r] = eff[r] /\ tokenConsumed'[r] = tokenConsumed[r] /\ consumed'[r] = consumed[r] /\ flags'[r] = flags[r]
    BY <1>13 DEF SettleFundingError, session, request
  <2>5. ConsistentSession(r)'
    BY <1>t, <1>u, <2>1, <2>3, <2>4 DEF RequestInv, ConsistentSession, BeforeFunding, SubConsume
  <2>6. r \notin adrift' => LedgerOf(r)'
    BY <1>t, <1>u, <2>1, <2>2, <2>3, <2>4
       DEF RequestInv, LedgerOf, TokenHeld, TokenFee, TokenPart, FundingHeld, FundingFee,
           BeforeFunding, Sources, Accounts, Kept
  <2> QED
    BY <2>5, <2>6 DEF RequestInv
<1>14. CASE SettleToken(r)
  <2>1. /\ pc[r] = "settleToken"
        /\ tokenConsumed[r] = eff[r]
        /\ consumed[r] = eff[r]
        /\ flags[r] = {"fundingSettled"}
        /\ job[r] = "none"
    BY <1>14, <1>t DEF SettleToken, RequestInv, ConsistentSession, BeforeFunding, SubConsume
  <2>2. Succeeds(r, "token", TokenPart(r, Delta(r))) \/ FailsDone(r, "token", TokenPart(r, Delta(r))) \/ Drifts(r)
    BY <1>14, <2>1 DEF SettleToken, TokenPart
  <2>3. TokenPart(r, Delta(r)) \in Int
    BY <1>t, AmountTypes
  <2>4. Added(r, "token", TokenPart(r, Delta(r)))
    BY <1>t, <2>2, <2>3, SucceedsAdds
  <2>5. pc'[r] = "served" /\ flags'[r] = {"fundingSettled", "settled"}
    BY <1>14, <1>t, <2>1 DEF SettleToken, Goto, TypeOK, Set
  <2>6. /\ job'[r] = job[r] /\ price'[r] = price[r] /\ fee'[r] = fee[r] /\ src'[r] = src[r]
        /\ eff'[r] = eff[r] /\ tokenConsumed'[r] = tokenConsumed[r] /\ consumed'[r] = consumed[r]
    BY <1>14 DEF SettleToken, Set, session, request
  <2>7. ConsistentSession(r)'
    BY <1>t, <1>u, <2>1, <2>5, <2>6 DEF RequestInv, ConsistentSession, BeforeFunding, SubConsume
  <2>8. r \notin adrift' => LedgerOf(r)'
    BY <1>t, <1>u, <2>1, <2>4, <2>5, <2>6
       DEF RequestInv, LedgerOf, TokenHeld, TokenFee, TokenPart, FundingHeld, FundingFee,
           BeforeFunding, Sources, Accounts, Added, Delta
  <2> QED
    BY <2>7, <2>8 DEF RequestInv
<1>15. CASE Refund(r)
  <2>1. /\ pc[r] = "refund"
        /\ tokenConsumed[r] = eff[r]
        /\ consumed[r] = eff[r]
        /\ flags[r] = {}
        /\ job[r] = "none"
    BY <1>15, <1>t DEF Refund, RequestInv, ConsistentSession, BeforeFunding, SubConsume
  <2>2. CASE NeedsRefund(r)
    <3>1. Kept(r)
      BY <1>15, <2>2, UndoneKeeps DEF Refund, Aborts
    <3>2. pc'[r] \in {"fee", "failed"} /\ (pc'[r] = "failed" => fee[r] = 0) /\ flags'[r] = {"refunded"} /\ job'[r] = "funding"
      BY <1>15, <2>2, <1>t, <2>1 DEF Refund, Goto, TypeOK, Set
    <3>3. /\ price'[r] = price[r] /\ fee'[r] = fee[r] /\ src'[r] = src[r] /\ eff'[r] = eff[r]
          /\ tokenConsumed'[r] = tokenConsumed[r] /\ consumed'[r] = consumed[r]
      BY <1>15, <2>2 DEF Refund, Set, session, request
    <3>4. ConsistentSession(r)'
      BY <1>t, <1>u, <2>1, <2>2, <3>2, <3>3
         DEF RequestInv, ConsistentSession, BeforeFunding, SubConsume
    <3>5. r \notin adrift' => LedgerOf(r)'
      BY <1>t, <1>u, <2>1, <2>2, <3>1, <3>2, <3>3
         DEF RequestInv, LedgerOf, TokenHeld, TokenFee, TokenPart, FundingHeld, FundingFee,
             BeforeFunding, Sources, Accounts, Kept
    <3> QED
      BY <3>4, <3>5 DEF RequestInv
  <2>3. CASE ~NeedsRefund(r)
    <3>1. Kept(r)
      BY <1>15, <2>3, UndoneKeeps DEF Refund, Aborts
    <3>2. pc'[r] \in {"fee", "failed"} /\ (pc'[r] = "failed" => fee[r] = 0) /\ eff[r] = 0
      BY <1>15, <2>3, <1>t, <2>1 DEF Refund, Goto, TypeOK, NeedsRefund
    <3>3. /\ job'[r] = job[r] /\ price'[r] = price[r] /\ fee'[r] = fee[r] /\ src'[r] = src[r]
          /\ eff'[r] = eff[r] /\ tokenConsumed'[r] = tokenConsumed[r] /\ consumed'[r] = consumed[r] /\ flags'[r] = flags[r]
      BY <1>15, <2>3 DEF Refund, NeedsRefund, session, request
    <3>4. ConsistentSession(r)'
      BY <1>t, <1>u, <2>1, <2>3, <3>2, <3>3
         DEF RequestInv, ConsistentSession, BeforeFunding, SubConsume
    <3>5. r \notin adrift' => LedgerOf(r)'
      BY <1>t, <1>u, <2>1, <2>3, <3>1, <3>2, <3>3
         DEF RequestInv, LedgerOf, TokenHeld, TokenFee, TokenPart, FundingHeld, FundingFee,
             BeforeFunding, Sources, Accounts, Kept
    <3> QED
      BY <3>4, <3>5 DEF RequestInv
  <2> QED
    BY <1>15, <2>1, <2>2, <2>3 DEF Refund
<1>16. CASE ChargeFee(r)
  <2>1. /\ pc[r] = "fee"
        /\ tokenConsumed[r] = eff[r]
        /\ consumed[r] = eff[r]
        /\ job[r] = "none" => flags[r] = {} /\ eff[r] = 0
        /\ job[r] # "none" => flags[r] = {"refunded"}
    BY <1>16, <1>t DEF ChargeFee, RequestInv, ConsistentSession, BeforeFunding, SubConsume
  <2>2. CASE Succeeds(r, src[r], fee[r]) /\ Goto(r, "feeToken") /\ UNCHANGED fee
    <3>1. Succeeds(r, src[r], fee[r]) \/ FailsDone(r, src[r], fee[r]) \/ Drifts(r)
      BY <1>16, <2>2, <2>1 DEF ChargeFee
    <3>2. fee[r] \in Int
      BY <1>t
    <3>3. Added(r, src[r], fee[r])
      BY <1>t, <3>1, <3>2, SucceedsAdds
    <3>4. pc'[r] = "feeToken" /\ fee'[r] = fee[r]
      BY <1>16, <2>2, <1>t, <2>1 DEF ChargeFee, Goto, TypeOK
    <3>5. /\ job'[r] = job[r] /\ price'[r] = price[r] /\ src'[r] = src[r] /\ eff'[r] = eff[r]
          /\ tokenConsumed'[r] = tokenConsumed[r] /\ consumed'[r] = consumed[r] /\ flags'[r] = flags[r]
      BY <1>16, <2>2 DEF ChargeFee, session, request
    <3>6. ConsistentSession(r)'
      BY <1>t, <1>u, <2>1, <2>2, <3>4, <3>5
         DEF RequestInv, ConsistentSession, BeforeFunding, SubConsume
    <3>7. r \notin adrift' => LedgerOf(r)'
      BY <1>t, <1>u, <2>1, <2>2, <3>3, <3>4, <3>5
         DEF RequestInv, LedgerOf, TokenHeld, TokenFee, TokenPart, FundingHeld, FundingFee,
             BeforeFunding, Sources, Accounts, Added
    <3> QED
      BY <3>6, <3>7 DEF RequestInv
  <2>3. CASE /\ \/ FailsUndone(r, "wallet", fee[r])
                  \/ UNCHANGED <<taken, adrift>>
               /\ fee' = [fee EXCEPT ![r] = 0]
               /\ Goto(r, "failed")
    <3>1. Kept(r)
      BY <1>16, <2>3, UndoneKeeps DEF ChargeFee, Aborts
    <3>2. pc'[r] = "failed" /\ fee'[r] = 0
      BY <1>16, <2>3, <1>t, <2>1 DEF ChargeFee, Goto, TypeOK, Aborts
    <3>3. /\ job'[r] = job[r] /\ price'[r] = price[r] /\ src'[r] = src[r] /\ eff'[r] = eff[r]
          /\ tokenConsumed'[r] = tokenConsumed[r] /\ consumed'[r] = consumed[r] /\ flags'[r] = flags[r]
      BY <1>16, <2>3 DEF ChargeFee, Aborts, session, request
    <3>4. ConsistentSession(r)'
      BY <1>t, <1>u, <2>1, <2>3, <3>2, <3>3
         DEF RequestInv, ConsistentSession, BeforeFunding, SubConsume
    <3>5. r \notin adrift' => LedgerOf(r)'
      BY <1>t, <1>u, <2>1, <2>3, <3>1, <3>2, <3>3
         DEF RequestInv, LedgerOf, TokenHeld, TokenFee, TokenPart, FundingHeld, FundingFee,
             BeforeFunding, Sources, Accounts, Kept
    <3> QED
      BY <3>4, <3>5 DEF RequestInv
  <2> QED
    BY <1>16, <2>1, <2>2, <2>3 DEF ChargeFee, Aborts
<1>17. CASE ChargeFeeToken(r)
  <2>1. /\ pc[r] = "feeToken"
        /\ tokenConsumed[r] = eff[r]
        /\ consumed[r] = eff[r]
        /\ job[r] = "none" => flags[r] = {} /\ eff[r] = 0
        /\ job[r] # "none" => flags[r] = {"refunded"}
    BY <1>17, <1>t DEF ChargeFeeToken, RequestInv, ConsistentSession, BeforeFunding, SubConsume
  <2>2. Succeeds(r, "token", TokenPart(r, fee[r])) \/ FailsDone(r, "token", TokenPart(r, fee[r])) \/ Drifts(r)
    BY <1>17, <2>1 DEF ChargeFeeToken, TokenPart
  <2>3. TokenPart(r, fee[r]) \in Int
    BY <1>t, AmountTypes
  <2>4. Added(r, "token", TokenPart(r, fee[r]))
    BY <1>t, <2>2, <2>3, SucceedsAdds
  <2>5. pc'[r] = "failed"
    BY <1>17, <1>t, <2>1 DEF ChargeFeeToken, Goto, TypeOK
  <2>6. /\ job'[r] = job[r] /\ price'[r] = price[r] /\ fee'[r] = fee[r] /\ src'[r] = src[r]
        /\ eff'[r] = eff[r] /\ tokenConsumed'[r] = tokenConsumed[r] /\ consumed'[r] = consumed[r] /\ flags'[r] = flags[r]
    BY <1>17 DEF ChargeFeeToken, session, request
  <2>7. ConsistentSession(r)'
    BY <1>t, <1>u, <2>1, <2>5, <2>6 DEF RequestInv, ConsistentSession, BeforeFunding, SubConsume
  <2>8. r \notin adrift' => LedgerOf(r)'
    BY <1>t, <1>u, <2>1, <2>4, <2>5, <2>6
       DEF RequestInv, LedgerOf, TokenHeld, TokenFee, TokenPart, FundingHeld, FundingFee,
           BeforeFunding, Sources, Accounts, Added
  <2> QED
    BY <2>7, <2>8 DEF RequestInv
<1>18. CASE RefundFunding(r)
  <2>1. /\ job[r] = "funding"
        /\ pc[r] \in {"fee", "feeToken", "failed"}
        /\ tokenConsumed[r] = eff[r]
        /\ consumed[r] = eff[r]
        /\ flags[r] = {"refunded"}
    BY <1>18, <1>t DEF RefundFunding, RequestInv, ConsistentSession, BeforeFunding, SubConsume
  <2>2. Succeeds(r, src[r], -consumed[r]) \/ FailsDone(r, src[r], -consumed[r]) \/ Drifts(r)
    BY <1>18, <2>1 DEF RefundFunding
  <2>3. -consumed[r] \in Int
    BY <1>t
  <2>4. Added(r, src[r], -consumed[r])
    BY <1>t, <2>2, <2>3, SucceedsAdds
  <2>5. job'[r] = "token"
    BY <1>18, <1>t, <2>1 DEF RefundFunding, Goto, TypeOK
  <2>6. /\ pc'[r] = pc[r] /\ price'[r] = price[r] /\ fee'[r] = fee[r] /\ src'[r] = src[r]
        /\ eff'[r] = eff[r] /\ tokenConsumed'[r] = tokenConsumed[r] /\ consumed'[r] = consumed[r] /\ flags'[r] = flags[r]
    BY <1>18 DEF RefundFunding, session, request
  <2>7. ConsistentSession(r)'
    BY <1>t, <1>u, <2>1, <2>5, <2>6 DEF RequestInv, ConsistentSession, BeforeFunding, SubConsume
  <2>8. r \notin adrift' => LedgerOf(r)'
    BY <1>t, <1>u, <2>1, <2>4, <2>5, <2>6
       DEF RequestInv, LedgerOf, TokenHeld, TokenFee, TokenPart, FundingHeld, FundingFee,
           BeforeFunding, Sources, Accounts, Added
  <2> QED
    BY <2>7, <2>8 DEF RequestInv
<1>19. CASE RefundToken(r)
  <2>1. /\ job[r] = "token"
        /\ pc[r] \in {"fee", "feeToken", "failed"}
        /\ tokenConsumed[r] = eff[r]
        /\ consumed[r] = eff[r]
        /\ flags[r] = {"refunded"}
    BY <1>19, <1>t DEF RefundToken, RequestInv, ConsistentSession, BeforeFunding, SubConsume
  <2>2. Succeeds(r, "token", -TokenPart(r, tokenConsumed[r])) \/ FailsDone(r, "token", -TokenPart(r, tokenConsumed[r])) \/ Drifts(r)
    BY <1>19, <2>1 DEF RefundToken, TokenPart
  <2>3. -TokenPart(r, tokenConsumed[r]) \in Int
    BY <1>t, AmountTypes
  <2>4. Added(r, "token", -TokenPart(r, tokenConsumed[r]))
    BY <1>t, <2>2, <2>3, SucceedsAdds
  <2>5. job'[r] = "done"
    BY <1>19, <1>t, <2>1 DEF RefundToken, Goto, TypeOK
  <2>6. /\ pc'[r] = pc[r] /\ price'[r] = price[r] /\ fee'[r] = fee[r] /\ src'[r] = src[r]
        /\ eff'[r] = eff[r] /\ tokenConsumed'[r] = tokenConsumed[r] /\ consumed'[r] = consumed[r] /\ flags'[r] = flags[r]
    BY <1>19 DEF RefundToken, session, request
  <2>7. ConsistentSession(r)'
    BY <1>t, <1>u, <2>1, <2>5, <2>6 DEF RequestInv, ConsistentSession, BeforeFunding, SubConsume
  <2>8. r \notin adrift' => LedgerOf(r)'
    BY <1>t, <1>u, <2>1, <2>4, <2>5, <2>6
       DEF RequestInv, LedgerOf, TokenHeld, TokenFee, TokenPart, FundingHeld, FundingFee,
           BeforeFunding, Sources, Accounts, Added
  <2> QED
    BY <2>7, <2>8 DEF RequestInv
<1> QED
  BY <1>1, <1>2, <1>3, <1>4, <1>5, <1>6, <1>7, <1>8, <1>9, <1>10, <1>11, <1>12, <1>13, <1>14,
     <1>15, <1>16, <1>17, <1>18, <1>19
     DEF RequestStep, PreConsumeStep, FinishStep, JobStep

-----------------------------------------------------------------------------
(* The other requests *)

\* A step leaves what the invariant of q reads as it was.
Untouched(q) ==
  /\ pc'[q] = pc[q] /\ job'[q] = job[q] /\ price'[q] = price[q] /\ fee'[q] = fee[q]
  /\ src'[q] = src[q] /\ eff'[q] = eff[q] /\ tokenConsumed'[q] = tokenConsumed[q]
  /\ consumed'[q] = consumed[q] /\ flags'[q] = flags[q] /\ taken'[q] = taken[q]
  /\ q \in adrift' <=> q \in adrift

ColumnsUntouched(q) == taken'[q] = taken[q] /\ (q \in adrift' <=> q \in adrift)

\* The invariant of a request that is left alone stays true.
LEMMA UntouchedInv ==
  ASSUME NEW q \in Requests, RequestInv(q), Untouched(q)
  PROVE  RequestInv(q)'
BY DEF RequestInv, Untouched, ConsistentSession, LedgerOf, SubConsume, TokenPart, TokenHeld,
       TokenFee, FundingHeld, FundingFee

\* A statement for r touches no other request's amounts.
LEMMA StatementFrame ==
  ASSUME TypeOK, NEW r, NEW q \in Requests, q # r, NEW a, NEW n,
         Statement(r, a, n) \/ (Drifts(r) /\ UNCHANGED taken) \/ UNCHANGED <<taken, adrift>>
  PROVE  ColumnsUntouched(q)
<1>1. Take(r, a, n) => taken'[q] = taken[q]
  BY DEF Take, TypeOK
<1> QED
  BY <1>1 DEF ColumnsUntouched, Statement, Succeeds, FailsUndone, FailsDone, Drifts

\* A step of r, or of its refund goroutine, leaves every other request alone.
LEMMA OthersUntouched ==
  ASSUME TypeOK, NEW r \in Requests, NEW q \in Requests, q # r,
         Arrive(r) \/ RequestStep(r) \/ JobStep(r)
  PROVE  Untouched(q)
<1>t. /\ pc \in [Requests -> Steps] /\ job \in [Requests -> JobSteps]
      /\ price \in [Requests -> Nat] /\ fee \in [Requests -> Nat]
      /\ src \in [Requests -> Sources] /\ eff \in [Requests -> Nat]
      /\ tokenConsumed \in [Requests -> Nat] /\ consumed \in [Requests -> Nat]
      /\ flags \in [Requests -> SUBSET Flags]
  BY DEF TypeOK
<1>1. CASE Arrive(r)
  <2>1. ColumnsUntouched(q)
    BY <1>1, StatementFrame DEF Arrive, Statement, Aborts
  <2> QED
    BY <1>1, <1>t, <2>1
       DEF Arrive, TrySubscription, TryWallet, Goto, session, request, Untouched,
           ColumnsUntouched
<1>2. CASE WalletCheck(r)
  <2>1. ColumnsUntouched(q)
    BY <1>2, StatementFrame DEF WalletCheck, Statement, Aborts
  <2> QED
    BY <1>2, <1>t, <2>1
       DEF WalletCheck, TrySubscription, Goto, session, request, Untouched, ColumnsUntouched
<1>3. CASE TokenCheck(r)
  <2>1. ColumnsUntouched(q)
    BY <1>3, StatementFrame DEF TokenCheck, Statement, Aborts
  <2> QED
    BY <1>3, <1>t, <2>1 DEF TokenCheck, Goto, session, request, Untouched, ColumnsUntouched
<1>4. CASE ReadError(r)
  <2>1. ColumnsUntouched(q)
    BY <1>4, StatementFrame DEF ReadError, Statement, Aborts
  <2> QED
    BY <1>4, <1>t, <2>1 DEF ReadError, Goto, session, request, Untouched, ColumnsUntouched
<1>5. CASE TokenDecrease(r)
  <2>1. ColumnsUntouched(q)
    BY <1>5, StatementFrame DEF TokenDecrease, Statement, Aborts
  <2> QED
    BY <1>5, <1>t, <2>1 DEF TokenDecrease, Goto, session, request, Untouched, ColumnsUntouched
<1>6. CASE FundPreConsume(r)
  <2>1. ColumnsUntouched(q)
    BY <1>6, StatementFrame DEF FundPreConsume, Statement, Aborts
  <2> QED
    BY <1>6, <1>t, <2>1 DEF FundPreConsume, Goto, session, request, Untouched, ColumnsUntouched
<1>7. CASE FundInsufficient(r)
  <2>1. ColumnsUntouched(q)
    BY <1>7, StatementFrame DEF FundInsufficient, Statement, Aborts
  <2> QED
    BY <1>7, <1>t, <2>1
       DEF FundInsufficient, AfterFundingError, TryWallet, Goto, session, request, Untouched,
           ColumnsUntouched
<1>8. CASE FundError(r)
  <2>1. ColumnsUntouched(q)
    BY <1>8, StatementFrame DEF FundError, Statement, Aborts
  <2> QED
    BY <1>8, <1>t, <2>1
       DEF FundError, AfterFundingError, TryWallet, Goto, session, request, Untouched,
           ColumnsUntouched
<1>9. CASE RollbackToken(r)
  <2>1. ColumnsUntouched(q)
    BY <1>9, StatementFrame DEF RollbackToken, Statement, Aborts
  <2> QED
    BY <1>9, <1>t, <2>1
       DEF RollbackToken, TryWallet, Goto, session, request, Untouched, ColumnsUntouched
<1>10. CASE Serve(r)
  <2>1. ColumnsUntouched(q)
    BY <1>10, StatementFrame DEF Serve, Statement, Aborts
  <2> QED
    BY <1>10, <1>t, <2>1 DEF Serve, Goto, session, request, Untouched, ColumnsUntouched
<1>11. CASE UpstreamFails(r)
  <2>1. ColumnsUntouched(q)
    BY <1>11, StatementFrame DEF UpstreamFails, Statement, Aborts
  <2> QED
    BY <1>11, <1>t, <2>1 DEF UpstreamFails, Goto, session, request, Untouched, ColumnsUntouched
<1>12. CASE SettleFunding(r)
  <2>1. ColumnsUntouched(q)
    BY <1>12, StatementFrame DEF SettleFunding, Statement, Aborts
  <2> QED
    BY <1>12, <1>t, <2>1
       DEF SettleFunding, Set, Goto, session, request, Untouched, ColumnsUntouched
<1>13. CASE SettleFundingError(r)
  <2>1. ColumnsUntouched(q)
    BY <1>13, StatementFrame DEF SettleFundingError, Statement, Aborts
  <2> QED
    BY <1>13, <1>t, <2>1
       DEF SettleFundingError, Goto, session, request, Untouched, ColumnsUntouched
<1>14. CASE SettleToken(r)
  <2>1. ColumnsUntouched(q)
    BY <1>14, StatementFrame DEF SettleToken, Statement, Aborts
  <2> QED
    BY <1>14, <1>t, <2>1 DEF SettleToken, Set, Goto, session, request, Untouched, ColumnsUntouched
<1>15. CASE Refund(r)
  <2>1. ColumnsUntouched(q)
    BY <1>15, StatementFrame DEF Refund, Statement, Aborts
  <2> QED
    BY <1>15, <1>t, <2>1 DEF Refund, Set, Goto, session, request, Untouched, ColumnsUntouched
<1>16. CASE ChargeFee(r)
  <2>1. ColumnsUntouched(q)
    BY <1>16, StatementFrame DEF ChargeFee, Statement, Aborts
  <2> QED
    BY <1>16, <1>t, <2>1 DEF ChargeFee, Goto, session, request, Untouched, ColumnsUntouched
<1>17. CASE ChargeFeeToken(r)
  <2>1. ColumnsUntouched(q)
    BY <1>17, StatementFrame DEF ChargeFeeToken, Statement, Aborts
  <2> QED
    BY <1>17, <1>t, <2>1 DEF ChargeFeeToken, Goto, session, request, Untouched, ColumnsUntouched
<1>18. CASE RefundFunding(r)
  <2>1. ColumnsUntouched(q)
    BY <1>18, StatementFrame DEF RefundFunding, Statement, Aborts
  <2> QED
    BY <1>18, <1>t, <2>1 DEF RefundFunding, Goto, session, request, Untouched, ColumnsUntouched
<1>19. CASE RefundToken(r)
  <2>1. ColumnsUntouched(q)
    BY <1>19, StatementFrame DEF RefundToken, Statement, Aborts
  <2> QED
    BY <1>19, <1>t, <2>1 DEF RefundToken, Goto, session, request, Untouched, ColumnsUntouched
<1> QED
  BY <1>1, <1>2, <1>3, <1>4, <1>5, <1>6, <1>7, <1>8, <1>9, <1>10, <1>11, <1>12, <1>13, <1>14,
     <1>15, <1>16, <1>17, <1>18, <1>19
     DEF RequestStep, PreConsumeStep, FinishStep, JobStep

-----------------------------------------------------------------------------
(* The theorems *)

\* At every step of every request, however the requests interleave and whichever
\* statements fail, the balances hold exactly what the request's BillingSession
\* (pre-consumption, settlement, refund goroutine, fee) says they hold, unless
\* a failed statement was misjudged for that very request.
THEOREM SessionInvariant == Spec => []SessionInv
<1> DEFINE Inv == \A q \in Requests : RequestInv(q)
<1>1. Init => Inv
  <2> SUFFICES ASSUME Init, NEW q \in Requests PROVE RequestInv(q)
    OBVIOUS
  <2>1. /\ pc[q] = "idle" /\ job[q] = "none" /\ fee[q] = 0 /\ flags[q] = {} /\ src[q] = "wallet"
        /\ \A a \in Accounts : taken[q][a] = 0
    BY DEF Init
  <2>2. ConsistentSession(q)
    BY <2>1 DEF ConsistentSession, BeforeFunding
  <2>3. LedgerOf(q)
    BY <2>1 DEF LedgerOf, TokenHeld, TokenFee, TokenPart, FundingHeld, FundingFee, BeforeFunding,
                Sources, Accounts
  <2> QED
    BY <2>2, <2>3 DEF RequestInv
<1>2. TypeOK /\ TypeOK' /\ Inv /\ [Next]_vars => Inv'
  <2> SUFFICES ASSUME TypeOK, TypeOK', Inv, [Next]_vars, NEW q \in Requests
               PROVE  RequestInv(q)'
    OBVIOUS
  <2>0. RequestInv(q)
    OBVIOUS
  <2>1. CASE UNCHANGED vars
    BY <2>0, <2>1, UntouchedInv DEF vars, Untouched
  <2>2. CASE SubscriptionEnds
    BY <2>0, <2>2, UntouchedInv DEF SubscriptionEnds, session, Untouched
  <2>3. ASSUME NEW r \in Requests, Arrive(r) \/ RequestStep(r) \/ JobStep(r)
        PROVE  RequestInv(q)'
    <3>1. CASE r = q
      BY <2>0, <2>3, <3>1, ActorInv
    <3>2. CASE r # q
      <4>1. Untouched(q)
        BY <2>3, <3>2, OthersUntouched
      <4> QED
        BY <2>0, <4>1, UntouchedInv
    <3> QED
      BY <3>1, <3>2
  <2> QED
    BY <2>1, <2>2, <2>3 DEF Next, AllDone
<1>3. TypeOK /\ Inv => SessionInv
  BY DEF RequestInv, SessionInv, LedgerMatchesSession, SessionConsistent
<1> HIDE DEF Inv
<1> QED
  BY <1>1, <1>2, <1>3, TypeCorrect, PTL DEF Spec

\* What a request holds of its accounts is always what its session says.
THEOREM LedgerCorrect == Spec => []LedgerMatchesSession
BY SessionInvariant, PTL DEF SessionInv

\* A served request has paid exactly its price (its pre-consumption if the
\* settlement was refused), once, from one source, and the same from its token.
THEOREM ServedCorrect == Spec => []ServedIsCharged
<1>1. SessionInv => ServedIsCharged
  <2> SUFFICES ASSUME SessionInv, NEW r \in Requests \ adrift, pc[r] = "served", NEW a \in Accounts
               PROVE  taken[r][a] = CASE a = "token" -> TokenPart(r, Charge(r))
                                      [] a = src[r] -> Charge(r)
                                      [] OTHER -> 0
    BY DEF ServedIsCharged
  <2>1. LedgerOf(r) /\ ConsistentSession(r) /\ src[r] \in Sources
        /\ price[r] \in Nat /\ consumed[r] \in Nat
    BY DEF SessionInv, LedgerMatchesSession, SessionConsistent, TypeOK
  <2>2. /\ tokenConsumed[r] = consumed[r] /\ job[r] = "none"
        /\ flags[r] \in {{}, {"settled"}, {"fundingSettled", "settled"}}
        /\ flags[r] = {"settled"} => price[r] = consumed[r]
    BY <2>1 DEF ConsistentSession, BeforeFunding
  <2>3. /\ taken[r]["token"] = TokenPart(r, TokenHeld(r) + 0)
        /\ taken[r][src[r]] = FundingHeld(r) + 0
        /\ \A s \in Sources \ {src[r]} : taken[r][s] = 0
    BY <2>1 DEF LedgerOf, TokenFee, FundingFee
  <2>4. FundingHeld(r) = Charge(r) /\ TokenHeld(r) = Charge(r) /\ Charge(r) \in Nat
    BY <2>1, <2>2 DEF FundingHeld, TokenHeld, Charge, BeforeFunding
  <2> QED
    BY <2>1, <2>3, <2>4 DEF Accounts, Sources
<1> QED
  BY <1>1, SessionInvariant, PTL

\* A request that was rejected or failed has given back all it pre-consumed once
\* its refund goroutine is through; at most a violation fee remains.
THEOREM FailedCorrect == Spec => []FailedIsFree
<1>1. SessionInv => FailedIsFree
  <2> SUFFICES ASSUME SessionInv, NEW r \in Requests \ adrift,
                      pc[r] \in {"rejected", "failed"}, Quiet(r), NEW a \in Accounts
               PROVE  taken[r][a] = CASE a = "token" -> TokenPart(r, fee[r])
                                      [] a = src[r] -> fee[r]
                                      [] OTHER -> 0
    BY DEF FailedIsFree
  <2>1. LedgerOf(r) /\ ConsistentSession(r) /\ src[r] \in Sources /\ fee[r] \in Nat
    BY DEF SessionInv, LedgerMatchesSession, SessionConsistent, TypeOK
  <2>2. FundingHeld(r) = 0 /\ TokenHeld(r) = 0
    BY <2>1 DEF ConsistentSession, FundingHeld, TokenHeld, BeforeFunding, Quiet
  <2>3. FundingFee(r) = fee[r] /\ TokenFee(r) = fee[r]
    BY <2>1 DEF ConsistentSession, FundingFee, TokenFee, BeforeFunding
  <2>4. /\ taken[r]["token"] = TokenPart(r, 0 + fee[r])
        /\ taken[r][src[r]] = 0 + fee[r]
        /\ \A s \in Sources \ {src[r]} : taken[r][s] = 0
    BY <2>1, <2>2, <2>3 DEF LedgerOf
  <2> QED
    BY <2>1, <2>4 DEF Accounts, Sources
<1> QED
  BY <1>1, SessionInvariant, PTL


-----------------------------------------------------------------------------
(* Nothing is given back twice *)

\* What the session may still give back: of its token's quota until the token is
\* settled or refunded, of its funding until that is.
TokenDue(r) ==
  IF pc[r] \in {"idle", "walletCheck", "token", "tokenDecr", "rejected", "served"} THEN 0
  ELSE IF job[r] = "done" THEN 0 ELSE tokenConsumed[r]
FundingDue(r) ==
  IF pc[r] \in BeforeFunding \cup {"settleToken", "served"} THEN 0
  ELSE IF job[r] \in {"token", "done"} THEN 0 ELSE consumed[r]

\* The columns cover it, also when a failed statement was misjudged: a statement
\* that takes is repeated by nobody, and one that gives back is tried once.
Covered(r) ==
  /\ taken[r]["token"] >= TokenPart(r, TokenDue(r))
  /\ taken[r][src[r]] >= FundingDue(r)
  /\ \A a \in Accounts : taken[r][a] >= 0

\* The amounts of r are as they were, or n was added to one of them.
Same(r) == taken'[r] = taken[r]
Plus(r, a, n) ==
  /\ taken'[r][a] = taken[r][a] + n
  /\ \A b \in Accounts : b # a => taken'[r][b] = taken[r][b]

\* What the outcomes of a statement do to the amounts of its request.
LEMMA Outcomes ==
  ASSUME TypeOK, NEW r \in Requests, NEW a \in Accounts, NEW n \in Int
  PROVE  /\ Succeeds(r, a, n) => Plus(r, a, n)
         /\ FailsUndone(r, a, n) => Same(r) \/ Plus(r, a, n)
         /\ FailsDone(r, a, n) => Same(r) \/ Plus(r, a, n)
<1>1. taken \in [Requests -> [Accounts -> Int]]
  BY DEF TypeOK
<1>2. Take(r, a, n) => Plus(r, a, n)
  BY <1>1, TakeEffect DEF Plus
<1> QED
  BY <1>2 DEF Succeeds, FailsUndone, FailsDone, Same

\* A step of a request, or of its refund goroutine, keeps its refunds covered.
LEMMA ActorCovered ==
  ASSUME TypeOK, TypeOK', NEW r \in Requests, ConsistentSession(r), ConsistentSession(r)', Covered(r),
         Arrive(r) \/ RequestStep(r) \/ JobStep(r)
  PROVE  Covered(r)'
<1>t. /\ pc[r] \in Steps /\ job[r] \in JobSteps
      /\ price[r] \in Nat /\ fee[r] \in Nat /\ eff[r] \in Nat
      /\ tokenConsumed[r] \in Nat /\ consumed[r] \in Nat
      /\ src[r] \in Sources /\ src[r] \in Accounts /\ taken[r] \in [Accounts -> Int]
      /\ "token" \in Accounts /\ "wallet" \in Accounts
  BY TypesAt DEF Accounts
<1>u. /\ pc'[r] \in Steps /\ job'[r] \in JobSteps
      /\ price'[r] \in Nat /\ fee'[r] \in Nat /\ eff'[r] \in Nat
      /\ tokenConsumed'[r] \in Nat /\ consumed'[r] \in Nat
      /\ src'[r] \in Sources /\ taken'[r] \in [Accounts -> Int]
  BY DEF TypeOK
<1>v. /\ FundingAmount(r) \in Int /\ Delta(r) \in Int
      /\ TokenPart(r, Delta(r)) \in Int /\ TokenPart(r, fee[r]) \in Int
      /\ -tokenConsumed[r] \in Int /\ -consumed[r] \in Int /\ -TokenPart(r, tokenConsumed[r]) \in Int
  BY <1>t, AmountTypes DEF TokenPart
<1>e. \* Before the funding is taken only the token's part can be due.
      ASSUME Same(r), pc'[r] \in BeforeFunding,
             pc'[r] \in {"fund", "rollback", "rollbackFallback"} =>
               \/ r \in Playground \/ tokenConsumed'[r] = 0
               \/ pc[r] = "fund" /\ job[r] # "done" /\ tokenConsumed'[r] = tokenConsumed[r]
      PROVE  Covered(r)'
  <2>1. FundingDue(r)' = 0 /\ TokenDue(r)' \in Nat
    BY <1>e, <1>u DEF FundingDue, TokenDue
  <2>2. TokenPart(r, TokenDue(r))' <= taken[r]["token"]
    BY <1>e, <1>t, <1>u, <2>1 DEF Covered, TokenDue, TokenPart, BeforeFunding
  <2> QED
    BY <1>e, <1>t, <1>u, <2>1, <2>2 DEF Covered, Same, Sources, Accounts
<1>1. CASE Arrive(r)
  <2>1. Same(r)
    BY <1>1 DEF Arrive, Same
  <2>2. pc'[r] \in {"token", "walletCheck"}
    BY <1>1, <1>t DEF Arrive, TrySubscription, TryWallet, Goto, TypeOK
  <2> QED
    BY <1>e, <2>1, <2>2 DEF BeforeFunding
<1>2. CASE WalletCheck(r)
  <2>1. Same(r)
    BY <1>2 DEF WalletCheck, Same
  <2>2. pc'[r] \in {"token", "fund", "rejected"} /\ tokenConsumed'[r] = 0
    BY <1>2, <1>t DEF WalletCheck, ConsistentSession, TrySubscription, Goto, TypeOK
  <2> QED
    BY <1>e, <2>1, <2>2 DEF BeforeFunding
<1>3. CASE TokenCheck(r)
  <2>1. Same(r)
    BY <1>3 DEF TokenCheck, Same
  <2>2. pc'[r] \in {"fund", "tokenDecr", "rejected"} /\ (pc'[r] = "fund" => r \in Playground)
    BY <1>3, <1>t DEF TokenCheck, Goto, TypeOK
  <2> QED
    BY <1>e, <2>1, <2>2 DEF BeforeFunding
<1>4. CASE ReadError(r)
  <2>1. Same(r)
    BY <1>4 DEF ReadError, Same
  <2>2. pc'[r] = "rejected"
    BY <1>4, <1>t DEF ReadError, Goto, TypeOK
  <2> QED
    BY <1>e, <2>1, <2>2 DEF BeforeFunding
<1>5. CASE FundInsufficient(r)
  <2>1. Same(r)
    BY <1>5 DEF FundInsufficient, Same
  <2>2. /\ pc[r] = "fund" /\ job[r] = "none" /\ pc'[r] \in {"rollback", "rollbackFallback", "walletCheck", "rejected"}
        /\ pc'[r] \in {"rollback", "rollbackFallback"} => tokenConsumed'[r] = tokenConsumed[r]
    BY <1>5, <1>t DEF FundInsufficient, ConsistentSession, AfterFundingError, TryWallet, Goto, TypeOK, session
  <2> QED
    BY <1>e, <2>1, <2>2 DEF BeforeFunding
<1>6. CASE TokenDecrease(r)
  <2>1. pc[r] = "tokenDecr" /\ job[r] = "none" /\ r \notin Playground /\ eff[r] \in Int
    BY <1>6, <1>t DEF TokenDecrease, ConsistentSession, BeforeFunding
  <2>2. \/ Plus(r, "token", eff[r]) /\ tokenConsumed'[r] = eff[r] /\ pc'[r] = "fund"
        \/ (Same(r) \/ Plus(r, "token", eff[r])) /\ pc'[r] = "rejected"
    BY <1>6, <1>t, <1>v, <2>1, Outcomes DEF TokenDecrease, Same, Goto, TypeOK
  <2>3. job'[r] = job[r] /\ src'[r] = src[r] /\ consumed'[r] = consumed[r]
    BY <1>6, <1>t, <2>1 DEF TokenDecrease, TypeOK, Goto, session, request
  <2> QED
    BY <1>t, <1>u, <1>v, <2>1, <2>2, <2>3
       DEF Covered, TokenDue, FundingDue, TokenPart, BeforeFunding, Sources, Accounts, Same, Plus, Delta
<1>7. CASE FundPreConsume(r)
  <2>1. pc[r] = "fund" /\ job[r] = "none" /\ tokenConsumed[r] = eff[r]
    BY <1>7, <1>t DEF FundPreConsume, ConsistentSession, BeforeFunding
  <2>2. Plus(r, src[r], FundingAmount(r))
    BY <1>7, <1>t, <1>v, <2>1, Outcomes DEF FundPreConsume, Same
  <2>3. /\ pc'[r] = "serving" /\ consumed'[r] = FundingAmount(r) /\ job'[r] = job[r] /\ src'[r] = src[r]
        /\ tokenConsumed'[r] = tokenConsumed[r]
    BY <1>7, <1>t, <2>1 DEF FundPreConsume, TypeOK, Goto, session, request
  <2> QED
    BY <1>t, <1>u, <1>v, <2>1, <2>2, <2>3
       DEF Covered, TokenDue, FundingDue, TokenPart, BeforeFunding, Sources, Accounts, Same, Plus, Delta
<1>8. CASE FundError(r)
  <2>1. pc[r] = "fund" /\ job[r] = "none" /\ eff[r] \in Int
    BY <1>8, <1>t DEF FundError, ConsistentSession, BeforeFunding
  <2>2. Same(r) \/ Plus(r, src[r], eff[r])
    BY <1>8, <1>t, <1>v, <2>1, Outcomes DEF FundError, Same, Aborts
  <2>3. /\ pc'[r] \in {"rollback", "rejected"} /\ job'[r] = job[r] /\ src'[r] = src[r]
        /\ tokenConsumed'[r] = tokenConsumed[r]
    BY <1>8, <1>t, <2>1 DEF FundError, TypeOK, Goto, session, request, AfterFundingError
  <2> QED
    BY <1>t, <1>u, <1>v, <2>1, <2>2, <2>3
       DEF Covered, TokenDue, FundingDue, TokenPart, BeforeFunding, Sources, Accounts, Same, Plus, Delta
<1>9. CASE RollbackToken(r)
  <2>1. pc[r] \in {"rollback", "rollbackFallback"} /\ job[r] = "none" /\ r \notin Playground
    BY <1>9, <1>t DEF RollbackToken, ConsistentSession, BeforeFunding
  <2>2. Same(r) \/ Plus(r, "token", -tokenConsumed[r])
    BY <1>9, <1>t, <1>v, <2>1, Outcomes DEF RollbackToken, Same
  <2>3. pc'[r] \in {"walletCheck", "rejected"}
    BY <1>9, <1>t, <2>1 DEF RollbackToken, TypeOK, Goto, session, request, TryWallet
  <2> QED
    BY <1>t, <1>u, <1>v, <2>1, <2>2, <2>3
       DEF Covered, TokenDue, FundingDue, TokenPart, BeforeFunding, Sources, Accounts, Same, Plus, Delta
<1>10. CASE Serve(r)
  <2>1. pc[r] = "serving" /\ job[r] = "none"
    BY <1>10, <1>t DEF Serve, ConsistentSession, BeforeFunding
  <2>2. Same(r)
    BY <1>10, <1>t, <1>v, <2>1, Outcomes DEF Serve, Same
  <2>3. /\ pc'[r] = "settleFunding" /\ job'[r] = job[r] /\ src'[r] = src[r]
        /\ tokenConsumed'[r] = tokenConsumed[r] /\ consumed'[r] = consumed[r]
    BY <1>10, <1>t, <2>1 DEF Serve, TypeOK, Goto, session, request
  <2> QED
    BY <1>t, <1>u, <1>v, <2>1, <2>2, <2>3
       DEF Covered, TokenDue, FundingDue, TokenPart, BeforeFunding, Sources, Accounts, Same, Plus, Delta
<1>11. CASE UpstreamFails(r)
  <2>1. pc[r] = "serving" /\ job[r] = "none"
    BY <1>11, <1>t DEF UpstreamFails, ConsistentSession, BeforeFunding
  <2>2. Same(r)
    BY <1>11, <1>t, <1>v, <2>1, Outcomes DEF UpstreamFails, Same
  <2>3. /\ pc'[r] = "refund" /\ job'[r] = job[r] /\ src'[r] = src[r]
        /\ tokenConsumed'[r] = tokenConsumed[r] /\ consumed'[r] = consumed[r]
    BY <1>11, <1>t, <2>1 DEF UpstreamFails, TypeOK, Goto, session, request
  <2> QED
    BY <1>t, <1>u, <1>v, <2>1, <2>2, <2>3
       DEF Covered, TokenDue, FundingDue, TokenPart, BeforeFunding, Sources, Accounts, Same, Plus, Delta
<1>12. CASE SettleFunding(r)
  <2>1. pc[r] = "settleFunding" /\ job[r] = "none" /\ tokenConsumed[r] = eff[r] /\ consumed[r] = eff[r]
    BY <1>12, <1>t DEF SettleFunding, ConsistentSession, BeforeFunding
  <2>o. Succeeds(r, src[r], Delta(r)) => Plus(r, src[r], Delta(r))
    BY <1>t, <1>v, Outcomes
  <2>2. (Same(r) /\ Goto(r, "served")) \/ (Plus(r, src[r], Delta(r)) /\ Goto(r, "settleToken"))
    BY <1>12, <2>o DEF SettleFunding, Same
  <2>3. /\ Goto(r, "served") => pc'[r] = "served"
        /\ Goto(r, "settleToken") => pc'[r] = "settleToken"
        /\ job'[r] = job[r] /\ src'[r] = src[r] /\ tokenConsumed'[r] = tokenConsumed[r]
    BY <1>12, <1>t, <2>1 DEF SettleFunding, TypeOK, Goto, session, request
  <2> QED
    BY <1>t, <1>u, <1>v, <2>1, <2>2, <2>3
       DEF Covered, TokenDue, FundingDue, TokenPart, BeforeFunding, Sources, Accounts, Same, Plus, Delta
<1>13. CASE SettleFundingError(r)
  <2>1. pc[r] = "settleFunding" /\ job[r] = "none" /\ consumed[r] = eff[r]
    BY <1>13, <1>t DEF SettleFundingError, ConsistentSession, BeforeFunding
  <2>2. Same(r) \/ Plus(r, src[r], Delta(r))
    BY <1>13, <1>t, <1>v, <2>1, Outcomes DEF SettleFundingError, Same, Aborts
  <2>3. pc'[r] = "served" /\ src'[r] = src[r]
    BY <1>13, <1>t, <2>1 DEF SettleFundingError, TypeOK, Goto, session, request
  <2> QED
    BY <1>t, <1>u, <1>v, <2>1, <2>2, <2>3
       DEF Covered, TokenDue, FundingDue, TokenPart, BeforeFunding, Sources, Accounts, Same, Plus, Delta
<1>14. CASE SettleToken(r)
  <2>1. pc[r] = "settleToken" /\ job[r] = "none" /\ tokenConsumed[r] = eff[r]
    BY <1>14, <1>t DEF SettleToken, ConsistentSession, BeforeFunding
  <2>2. Same(r) \/ Plus(r, "token", TokenPart(r, Delta(r)))
    BY <1>14, <1>t, <1>v, <2>1, Outcomes DEF SettleToken, Same, TokenPart
  <2>3. pc'[r] = "served" /\ src'[r] = src[r]
    BY <1>14, <1>t, <2>1 DEF SettleToken, TypeOK, Goto, session, request
  <2> QED
    BY <1>t, <1>u, <1>v, <2>1, <2>2, <2>3
       DEF Covered, TokenDue, FundingDue, TokenPart, BeforeFunding, Sources, Accounts, Same, Plus, Delta
<1>15. CASE Refund(r)
  <2>1. pc[r] = "refund" /\ job[r] = "none"
    BY <1>15, <1>t DEF Refund, ConsistentSession, BeforeFunding
  <2>2. Same(r)
    BY <1>15, <1>t, <1>v, <2>1, Outcomes DEF Refund, Same
  <2>3. /\ pc'[r] \in {"fee", "failed"} /\ job'[r] \in {"none", "funding"} /\ src'[r] = src[r]
        /\ tokenConsumed'[r] = tokenConsumed[r] /\ consumed'[r] = consumed[r]
    BY <1>15, <1>t, <2>1 DEF Refund, TypeOK, Goto, session, request
  <2> QED
    BY <1>t, <1>u, <1>v, <2>1, <2>2, <2>3
       DEF Covered, TokenDue, FundingDue, TokenPart, BeforeFunding, Sources, Accounts, Same, Plus, Delta
<1>16. CASE ChargeFee(r)
  <2>1. pc[r] = "fee"
    BY <1>16, <1>t DEF ChargeFee, ConsistentSession, BeforeFunding
  <2>2. Same(r) \/ Plus(r, src[r], fee[r])
    BY <1>16, <1>t, <1>v, <2>1, Outcomes DEF ChargeFee, Same, Aborts
  <2>3. /\ pc'[r] \in {"feeToken", "failed"} /\ job'[r] = job[r] /\ src'[r] = src[r]
        /\ tokenConsumed'[r] = tokenConsumed[r] /\ consumed'[r] = consumed[r]
    BY <1>16, <1>t, <2>1 DEF ChargeFee, TypeOK, Goto, session, request
  <2> QED
    BY <1>t, <1>u, <1>v, <2>1, <2>2, <2>3
       DEF Covered, TokenDue, FundingDue, TokenPart, BeforeFunding, Sources, Accounts, Same, Plus, Delta
<1>17. CASE ChargeFeeToken(r)
  <2>1. pc[r] = "feeToken"
    BY <1>17, <1>t DEF ChargeFeeToken, ConsistentSession, BeforeFunding
  <2>2. Same(r) \/ Plus(r, "token", TokenPart(r, fee[r]))
    BY <1>17, <1>t, <1>v, <2>1, Outcomes DEF ChargeFeeToken, Same, TokenPart
  <2>3. /\ pc'[r] = "failed" /\ job'[r] = job[r] /\ src'[r] = src[r]
        /\ tokenConsumed'[r] = tokenConsumed[r] /\ consumed'[r] = consumed[r]
    BY <1>17, <1>t, <2>1 DEF ChargeFeeToken, TypeOK, Goto, session, request
  <2> QED
    BY <1>t, <1>u, <1>v, <2>1, <2>2, <2>3
       DEF Covered, TokenDue, FundingDue, TokenPart, BeforeFunding, Sources, Accounts, Same, Plus, Delta
<1>18. CASE RefundFunding(r)
  <2>1. job[r] = "funding" /\ pc[r] \in {"fee", "feeToken", "failed"}
    BY <1>18, <1>t DEF RefundFunding, ConsistentSession, BeforeFunding
  <2>2. Same(r) \/ Plus(r, src[r], -consumed[r])
    BY <1>18, <1>t, <1>v, <2>1, Outcomes DEF RefundFunding, Same
  <2>3. /\ job'[r] = "token" /\ pc'[r] = pc[r] /\ src'[r] = src[r]
        /\ tokenConsumed'[r] = tokenConsumed[r]
    BY <1>18, <1>t, <2>1 DEF RefundFunding, TypeOK, Goto, session, request
  <2> QED
    BY <1>t, <1>u, <1>v, <2>1, <2>2, <2>3
       DEF Covered, TokenDue, FundingDue, TokenPart, BeforeFunding, Sources, Accounts, Same, Plus, Delta
<1>19. CASE RefundToken(r)
  <2>1. job[r] = "token" /\ pc[r] \in {"fee", "feeToken", "failed"}
    BY <1>19, <1>t DEF RefundToken, ConsistentSession, BeforeFunding
  <2>2. Same(r) \/ Plus(r, "token", -TokenPart(r, tokenConsumed[r]))
    BY <1>19, <1>t, <1>v, <2>1, Outcomes DEF RefundToken, Same, TokenPart
  <2>3. /\ job'[r] = "done" /\ pc'[r] = pc[r] /\ src'[r] = src[r]
    BY <1>19, <1>t, <2>1 DEF RefundToken, TypeOK, Goto, session, request
  <2> QED
    BY <1>t, <1>u, <1>v, <2>1, <2>2, <2>3
       DEF Covered, TokenDue, FundingDue, TokenPart, BeforeFunding, Sources, Accounts, Same, Plus, Delta
<1> QED
  BY <1>1, <1>2, <1>3, <1>4, <1>5, <1>6, <1>7, <1>8, <1>9, <1>10, <1>11, <1>12, <1>13, <1>14, <1>15, <1>16, <1>17, <1>18, <1>19
     DEF RequestStep, PreConsumeStep, FinishStep, JobStep

\* Whatever statements fail, and whichever of them were applied all the same, no
\* request is given back more than it took: the wallet's refund, "not idempotent",
\* is tried once, and every amount given back was taken before.
THEOREM NothingGivenTwice == Spec => []NeverGivesMore
<1> DEFINE Inv == \A q \in Requests : Covered(q)
<1>1. Init => Inv
  BY DEF Init, Covered, TokenDue, FundingDue, TokenPart, BeforeFunding, Accounts
<1>2. SessionInv /\ SessionInv' /\ Inv /\ [Next]_vars => Inv'
  <2> SUFFICES ASSUME SessionInv, SessionInv', Inv, [Next]_vars, NEW q \in Requests
               PROVE  Covered(q)'
    OBVIOUS
  <2>0. /\ Covered(q) /\ TypeOK /\ TypeOK' /\ ConsistentSession(q) /\ ConsistentSession(q)'
    BY DEF SessionInv, SessionConsistent
  <2>1. Untouched(q) => Covered(q)'
    BY <2>0 DEF Untouched, Covered, TokenDue, FundingDue, TokenPart
  <2>2. CASE UNCHANGED vars
    BY <2>1, <2>2 DEF vars, Untouched
  <2>3. CASE SubscriptionEnds
    BY <2>1, <2>3 DEF SubscriptionEnds, session, Untouched
  <2>4. ASSUME NEW r \in Requests, Arrive(r) \/ RequestStep(r) \/ JobStep(r)
        PROVE  Covered(q)'
    <3>1. CASE r = q
      BY <2>0, <2>4, <3>1, ActorCovered
    <3>2. CASE r # q
      BY <2>0, <2>1, <2>4, <3>2, OthersUntouched
    <3> QED
      BY <3>1, <3>2
  <2> QED
    BY <2>2, <2>3, <2>4 DEF Next, AllDone
<1>3. Inv => NeverGivesMore
  BY DEF Covered, NeverGivesMore
<1> HIDE DEF Inv
<1> QED
  BY <1>1, <1>2, <1>3, SessionInvariant, PTL DEF Spec
=============================================================================
