--------------------------- MODULE BillingSession ---------------------------
(***************************************************************************)
(* The life of one billed relay request, for several requests of the same  *)
(* user and the same API token running at once:                            *)
(*                                                                         *)
(*   PreConsumeBilling -> NewBillingSession -> preConsume -> upstream call *)
(*     -> Settle (success)  or  Refund + violation fee (failure)           *)
(*                                                                         *)
(* service/billing_session.go, service/funding_source.go,                  *)
(* service/billing.go, service/quota.go and the deferred part of           *)
(* controller/relay.go.                                                    *)
(*                                                                         *)
(* The balances are the columns users.quota, user_subscriptions.amount_used*)
(* and tokens.remain_quota.  The code changes them only by "col = col +- n"*)
(* so a column is kept split by request: taken[r][a] is what request r has *)
(* taken from account a so far, and Spent(a) is their sum.  Every database *)
(* statement is a step of its own.  A statement may fail (MaxFaults of     *)
(* them); a failed one may have been applied all the same (the error was   *)
(* in the acknowledgement).  Redis and the batch updater are off.  The     *)
(* subscription transactions are atomic here; SubscriptionLedger opens     *)
(* them up.                                                                *)
(***************************************************************************)
EXTENDS Integers, FiniteSets, FiniteSetsExt

CONSTANTS
    Requests,        \* the requests in flight, all of one user and one token
    Playground,      \* those of them sent from the playground (no API token)
    Forced,          \* those with ForcePreConsume (asynchronous tasks)
    Prefs,           \* billing preferences the user may have set
    PreQuotas,       \* QuotaToPreConsume a request may be priced at
    ActualQuotas,    \* what a served request may turn out to cost
    FeeQuotas,       \* violation fee quotas of a failed request (0: none)
    WalletQuota,     \* users.quota before the requests
    SubTotal,        \* user_subscriptions.amount_total (0: unlimited)
    TokenQuota,      \* tokens.remain_quota before the requests
    TokenUnlimited,  \* tokens.unlimited_quota
    TrustQuota,      \* common.GetTrustQuota()
    MaxFaults        \* bound on failing database statements

AllPrefs == {"subscription_only", "wallet_only", "wallet_first", "subscription_first"}

ASSUME RequestSets == Playground \subseteq Requests /\ Forced \subseteq Requests
ASSUME PrefsAssumption == Prefs \subseteq AllPrefs
ASSUME QuotaAssumption ==
    /\ PreQuotas \subseteq Nat
    /\ ActualQuotas \subseteq Nat
    /\ FeeQuotas \subseteq Nat
    /\ WalletQuota \in Int /\ SubTotal \in Nat /\ TokenQuota \in Int
    /\ TokenUnlimited \in BOOLEAN
    /\ TrustQuota \in Nat /\ MaxFaults \in Nat

VARIABLES
    pc,             \* the step the request's goroutine is at
    job,            \* the step of the goroutine Refund hands to gopool
    pref,           \* relayInfo.UserSetting.BillingPreference
    price,          \* the quota to pre-consume, then what the request cost
    fee,            \* the violation fee found due (0: none)
    src,            \* funding.Source() of the session
    eff,            \* effectiveQuota, later preConsumedQuota
    tokenConsumed,  \* session.tokenConsumed
    consumed,       \* WalletFunding.consumed / SubscriptionFunding.preConsumed
    flags,          \* which of fundingSettled, settled, refunded are set
    tokenTrusted,   \* requests whose token was above TrustQuota at TokenAuth
    subActive,      \* the subscription is active and not past its end time
    taken,          \* taken[r][a]: net quota r has taken from account a
    adrift,         \* requests whose session no longer knows what it holds
    faults          \* failed statements so far

vars == <<pc, job, pref, price, fee, src, eff, tokenConsumed, consumed, flags,
          tokenTrusted, subActive, taken, adrift, faults>>
session == <<src, eff, tokenConsumed, consumed>>
request == <<pref, price, fee, tokenTrusted, subActive>>

Accounts == {"wallet", "subscription", "token"}
Sources == {"wallet", "subscription"}
Flags == {"fundingSettled", "settled", "refunded"}
Final == {"rejected", "served", "failed"}
Steps == {"idle", "walletCheck", "token", "tokenDecr", "fund", "rollback", "rollbackFallback",
          "serving", "settleFunding", "settleToken", "refund", "fee", "feeToken"} \cup Final
JobSteps == {"none", "funding", "token", "done"}

\* The amount the requests have taken from an account between them.
Spent(a) == MapThenSumSet(LAMBDA r : taken[r][a], Requests)
UserQuota == WalletQuota - Spent("wallet")
TokenRemain == TokenQuota - Spent("token")
SubRemain == SubTotal - Spent("subscription")

Init ==
    /\ pc = [r \in Requests |-> "idle"]
    /\ job = [r \in Requests |-> "none"]
    /\ pref \in [Requests -> Prefs]
    /\ price = [r \in Requests |-> 0]
    /\ fee = [r \in Requests |-> 0]
    /\ src = [r \in Requests |-> "wallet"]
    /\ eff = [r \in Requests |-> 0]
    /\ tokenConsumed = [r \in Requests |-> 0]
    /\ consumed = [r \in Requests |-> 0]
    /\ flags = [r \in Requests |-> {}]
    /\ tokenTrusted = {}
    /\ subActive \in BOOLEAN
    /\ taken = [r \in Requests |-> [a \in Accounts |-> 0]]
    /\ adrift = {}
    /\ faults = 0

-----------------------------------------------------------------------------
(* Helpers *)

Goto(r, s) == pc' = [pc EXCEPT ![r] = s]

\* One UPDATE ... SET col = col +- n: what it leaves in taken.
Take(r, a, n) == taken' = [taken EXCEPT ![r][a] = @ + n]

\* The token's quota is left alone for a playground request.
TokenPart(r, n) == IF r \in Playground THEN 0 ELSE n

Succeeds(r, a, n) ==
    /\ Take(r, a, n)
    /\ UNCHANGED <<adrift, faults>>

\* A statement returns an error: it was not applied, or it was and only the
\* answer was lost.  The code goes on either as if nothing had been written
\* (FailsUndone: it returns the error) or as if all had been (FailsDone: it
\* only logs the error); when it guesses wrong the request is adrift.
Fault == faults < MaxFaults /\ faults' = faults + 1
Drifts(r) == adrift' = adrift \cup {r}
FailsUndone(r, a, n) ==
    /\ Fault
    /\ \/ UNCHANGED <<taken, adrift>>
       \/ Take(r, a, n) /\ Drifts(r)
FailsDone(r, a, n) ==
    /\ Fault
    /\ \/ Take(r, a, n) /\ UNCHANGED adrift
       \/ UNCHANGED taken /\ Drifts(r)

\* A subscription transaction returns an error and rolls back.
Aborts == Fault /\ UNCHANGED <<taken, adrift>>

\* subConsume: the subscription path never pre-consumes zero.
SubConsume(r) == IF price[r] <= 0 THEN 1 ELSE price[r]

-----------------------------------------------------------------------------
(* NewBillingSession: choice of the funding source, and its fallback *)

\* Mutant: the session's amount is not raised to the 1 the subscription takes.
TrySubscriptionUnraised(r, p) ==
    /\ src' = [src EXCEPT ![r] = "subscription"]
    /\ eff' = [eff EXCEPT ![r] = p]
    /\ tokenConsumed' = [tokenConsumed EXCEPT ![r] = 0]
    /\ Goto(r, "token")

\* trySubscription: a fresh session on the subscription.
TrySubscription(r, p) ==
    /\ src' = [src EXCEPT ![r] = "subscription"]
    /\ eff' = [eff EXCEPT ![r] = IF p <= 0 THEN 1 ELSE p]
    /\ tokenConsumed' = [tokenConsumed EXCEPT ![r] = 0]
    /\ Goto(r, "token")

\* tryWallet begins with the check of the user's quota.
TryWallet(r) ==
    /\ src' = [src EXCEPT ![r] = "wallet"]
    /\ tokenConsumed' = [tokenConsumed EXCEPT ![r] = 0]
    /\ Goto(r, "walletCheck")
    /\ UNCHANGED eff

\* The request is authenticated (TokenAuth notes the token's quota), priced,
\* and PreConsumeBilling picks the source by the user's preference.
Arrive(r) ==
    /\ pc[r] = "idle"
    /\ \E p \in PreQuotas :
        /\ price' = [price EXCEPT ![r] = p]
        /\ \/ /\ \/ pref[r] = "subscription_only"
                 \/ pref[r] = "subscription_first" /\ subActive
              /\ TrySubscription(r, p)
           \/ /\ \/ pref[r] \in {"wallet_only", "wallet_first"}
                 \/ pref[r] = "subscription_first" /\ ~subActive
              /\ TryWallet(r)
    /\ tokenTrusted' = IF TokenUnlimited \/ TokenRemain > TrustQuota
                       THEN tokenTrusted \cup {r} ELSE tokenTrusted
    /\ UNCHANGED <<job, pref, fee, consumed, flags, subActive, taken, adrift, faults>>

\* shouldTrust for the wallet, q the quota just read; never for an
\* asynchronous task.
ShouldTrust(r, q) ==
    /\ r \notin Forced
    /\ TrustQuota > 0
    /\ r \in tokenTrusted
    /\ q > TrustQuota

WalletSuffices(r) == UserQuota > 0 /\ UserQuota - price[r] >= 0

\* tryWallet reads users.quota and decides: trusted, pre-consume, or give up.
WalletCheck(r) ==
    /\ pc[r] = "walletCheck"
    /\ \/ /\ WalletSuffices(r)
          /\ eff' = [eff EXCEPT ![r] = IF ShouldTrust(r, UserQuota) THEN 0 ELSE price[r]]
          /\ Goto(r, IF eff'[r] > 0 THEN "token" ELSE "fund")
          /\ UNCHANGED <<src, tokenConsumed>>
       \/ /\ ~WalletSuffices(r)
          /\ pref[r] = "wallet_first"
          /\ TrySubscription(r, price[r])
       \/ /\ ~WalletSuffices(r)
          /\ pref[r] # "wallet_first"
          /\ Goto(r, "rejected")
          /\ UNCHANGED <<src, eff, tokenConsumed>>
    /\ UNCHANGED <<job, request, consumed, flags, taken, adrift, faults>>

-----------------------------------------------------------------------------
(* preConsume *)

\* PreConsumeTokenQuota: nothing for the playground (but tokenConsumed is set
\* all the same); otherwise read the token and compare.
TokenCheck(r) ==
    /\ pc[r] = "token"
    /\ \/ /\ r \in Playground
          /\ tokenConsumed' = [tokenConsumed EXCEPT ![r] = eff[r]]
          /\ Goto(r, "fund")
       \/ /\ r \notin Playground
          /\ Goto(r, IF TokenUnlimited \/ TokenRemain >= eff[r] THEN "tokenDecr" ELSE "rejected")
          /\ UNCHANGED tokenConsumed
    /\ UNCHANGED <<job, request, src, eff, consumed, flags, taken, adrift, faults>>

\* GetUserQuota or GetTokenByKey returns an error.
ReadError(r) ==
    /\ pc[r] = "walletCheck" \/ (pc[r] = "token" /\ r \notin Playground)
    /\ Fault
    /\ Goto(r, "rejected")
    /\ UNCHANGED <<job, request, session, flags, taken, adrift>>

\* DecreaseTokenQuota, some time after the check.
TokenDecrease(r) ==
    /\ pc[r] = "tokenDecr"
    /\ \/ /\ Succeeds(r, "token", eff[r])
          /\ tokenConsumed' = [tokenConsumed EXCEPT ![r] = eff[r]]
          /\ Goto(r, "fund")
       \/ /\ FailsUndone(r, "token", eff[r])
          /\ Goto(r, "rejected")
          /\ UNCHANGED tokenConsumed
    /\ UNCHANGED <<job, request, src, eff, consumed, flags>>

\* funding.PreConsume succeeds: preConsumedQuota = effectiveQuota.  The
\* wallet does nothing for 0; the subscription always takes its own amount.
FundingAmount(r) == IF src[r] = "subscription" THEN SubConsume(r) ELSE eff[r]
SubscriptionSuffices(r) == subActive /\ (SubTotal = 0 \/ SubRemain >= SubConsume(r))

FundPreConsume(r) ==
    /\ pc[r] = "fund"
    /\ src[r] = "subscription" => SubscriptionSuffices(r)
    /\ Succeeds(r, src[r], FundingAmount(r))
    /\ consumed' = [consumed EXCEPT ![r] = FundingAmount(r)]
    /\ Goto(r, "serving")
    /\ UNCHANGED <<job, request, src, eff, tokenConsumed, flags>>

\* Mutant: the token's quota is rolled back only when the request ends there.
AfterFundingErrorKeepsToken(r, fallback) ==
    IF fallback THEN TryWallet(r) /\ UNCHANGED consumed
    ELSE IF tokenConsumed[r] > 0 /\ r \notin Playground
    THEN Goto(r, "rollback") /\ UNCHANGED session
    ELSE Goto(r, "rejected") /\ UNCHANGED session

\* Where the failure of funding.PreConsume leads: the token's quota goes back
\* first unless there is none to give back.
AfterFundingError(r, fallback) ==
    IF tokenConsumed[r] > 0 /\ r \notin Playground
    THEN Goto(r, IF fallback THEN "rollbackFallback" ELSE "rollback") /\ UNCHANGED session
    ELSE IF fallback THEN TryWallet(r) /\ UNCHANGED consumed
    ELSE Goto(r, "rejected") /\ UNCHANGED session

\* Mutant: wallet_first falls back too, so the two sources take turns.
FundInsufficientPingPong(r) ==
    /\ pc[r] = "fund"
    /\ src[r] = "subscription" /\ ~SubscriptionSuffices(r)
    /\ AfterFundingError(r, pref[r] # "subscription_only")
    /\ UNCHANGED <<job, request, flags, taken, adrift, faults>>

\* "no active subscription" or "subscription quota insufficient": the one
\* funding error subscription_first may answer with the wallet.
FundInsufficient(r) ==
    /\ pc[r] = "fund"
    /\ src[r] = "subscription" /\ ~SubscriptionSuffices(r)
    /\ AfterFundingError(r, pref[r] = "subscription_first")
    /\ UNCHANGED <<job, request, flags, taken, adrift, faults>>

\* Any other error of funding.PreConsume ends the request.
FundError(r) ==
    /\ pc[r] = "fund"
    /\ \/ src[r] = "wallet" /\ eff[r] > 0 /\ FailsUndone(r, "wallet", eff[r])
       \/ src[r] = "subscription" /\ Aborts
    /\ AfterFundingError(r, FALSE)
    /\ UNCHANGED <<job, request, flags>>

\* The rollback of the token's quota; its own failure is only logged.
RollbackToken(r) ==
    /\ pc[r] \in {"rollback", "rollbackFallback"}
    /\ \/ Succeeds(r, "token", -tokenConsumed[r])
       \/ FailsDone(r, "token", -tokenConsumed[r])
    /\ IF pc[r] = "rollbackFallback"
       THEN TryWallet(r)
       ELSE /\ Goto(r, "rejected")
            /\ tokenConsumed' = [tokenConsumed EXCEPT ![r] = 0]
            /\ UNCHANGED <<src, eff>>
    /\ UNCHANGED <<job, request, consumed, flags>>

-----------------------------------------------------------------------------
(* The upstream answers *)

\* The relay handler returns no error and knows what the request cost.
Serve(r) ==
    /\ pc[r] = "serving"
    /\ \E q \in ActualQuotas : price' = [price EXCEPT ![r] = q]
    /\ Goto(r, "settleFunding")
    /\ UNCHANGED <<job, pref, fee, session, flags, tokenTrusted, subActive, taken, adrift, faults>>

\* Every attempt failed; the error may be a violation that costs a fee.
UpstreamFails(r) ==
    /\ pc[r] = "serving"
    /\ \E q \in FeeQuotas : fee' = [fee EXCEPT ![r] = q]
    /\ Goto(r, "refund")
    /\ UNCHANGED <<job, pref, price, session, flags, tokenTrusted, subActive, taken, adrift, faults>>

-----------------------------------------------------------------------------
(* Settle *)

Delta(r) == price[r] - eff[r]
Set(r, fs) == flags' = [flags EXCEPT ![r] = @ \cup fs]

\* PostConsumeUserSubscriptionDelta refuses to go past the total.
SubscriptionAllows(n) == SubTotal = 0 \/ Spent("subscription") + n <= SubTotal

\* Settle up to funding.Settle(delta).
SettleFunding(r) ==
    /\ pc[r] = "settleFunding"
    /\ \/ /\ Delta(r) = 0
          /\ Set(r, {"settled"})
          /\ Goto(r, "served")
          /\ UNCHANGED <<taken, adrift, faults>>
       \/ /\ Delta(r) # 0
          /\ src[r] = "subscription" => SubscriptionAllows(Delta(r))
          /\ Succeeds(r, src[r], Delta(r))
          /\ Set(r, {"fundingSettled"})
          /\ Goto(r, "settleToken")
    /\ UNCHANGED <<job, request, session>>

\* funding.Settle returns an error; SettleBilling's callers log it and the
\* request ends with the pre-consumed quota as its charge.
SettleFundingError(r) ==
    /\ pc[r] = "settleFunding"
    /\ Delta(r) # 0
    /\ \/ src[r] = "wallet" /\ FailsUndone(r, "wallet", Delta(r))
       \/ src[r] = "subscription" /\ Aborts
       \/ /\ src[r] = "subscription" /\ ~SubscriptionAllows(Delta(r))
          /\ UNCHANGED <<taken, adrift, faults>>
    /\ Goto(r, "served")
    /\ UNCHANGED <<job, request, session, flags>>

\* Settle's second half; the session counts as settled either way.
SettleToken(r) ==
    /\ pc[r] = "settleToken"
    /\ \/ Succeeds(r, "token", TokenPart(r, Delta(r)))
       \/ r \notin Playground /\ FailsDone(r, "token", Delta(r))
    /\ Set(r, {"settled"})
    /\ Goto(r, "served")
    /\ UNCHANGED <<job, request, session>>

-----------------------------------------------------------------------------
(* Refund and the violation fee *)

NeedsRefund(r) ==
    /\ flags[r] = {}
    /\ tokenConsumed[r] > 0 \/ (src[r] = "subscription" /\ consumed[r] > 0)

\* The deferred function of Relay: Refund marks the session and hands the
\* work to gopool, then ChargeViolationFeeIfNeeded runs without waiting.
Refund(r) ==
    /\ pc[r] = "refund"
    /\ IF NeedsRefund(r)
       THEN Set(r, {"refunded"}) /\ job' = [job EXCEPT ![r] = "funding"]
       ELSE UNCHANGED <<flags, job>>
    /\ Goto(r, IF fee[r] > 0 THEN "fee" ELSE "failed")
    /\ UNCHANGED <<request, session, taken, adrift, faults>>

\* Mutant: a wallet refund that returned an error is retried.
RefundFundingRetried(r) ==
    /\ job[r] = "funding"
    /\ \/ Succeeds(r, src[r], -consumed[r]) /\ job' = [job EXCEPT ![r] = "token"]
       \/ /\ src[r] = "wallet" /\ consumed[r] > 0
          /\ FailsDone(r, "wallet", -consumed[r])
          /\ UNCHANGED job
    /\ UNCHANGED <<pc, request, session, flags>>

\* funding.Refund().  The wallet's is never retried.
RefundFunding(r) ==
    /\ job[r] = "funding"
    /\ \/ Succeeds(r, src[r], -consumed[r])
       \/ src[r] = "wallet" /\ consumed[r] > 0 /\ FailsDone(r, "wallet", -consumed[r])
       \/ src[r] = "subscription" /\ Fault /\ UNCHANGED taken /\ Drifts(r)
    /\ job' = [job EXCEPT ![r] = "token"]
    /\ UNCHANGED <<pc, request, session, flags>>

\* Mutant: the token's quota goes back for a playground request as well.
RefundTokenAlways(r) ==
    /\ job[r] = "token"
    /\ Succeeds(r, "token", -tokenConsumed[r])
    /\ job' = [job EXCEPT ![r] = "done"]
    /\ UNCHANGED <<pc, request, session, flags>>

\* The token's part of the refund, done whether or not the funding's failed.
RefundToken(r) ==
    /\ job[r] = "token"
    /\ \/ Succeeds(r, "token", -TokenPart(r, tokenConsumed[r]))
       \/ TokenPart(r, tokenConsumed[r]) > 0 /\ FailsDone(r, "token", -tokenConsumed[r])
    /\ job' = [job EXCEPT ![r] = "done"]
    /\ UNCHANGED <<pc, request, session, flags>>

\* PostConsumeQuota for the fee: the funding first; its error ends it.
ChargeFee(r) ==
    /\ pc[r] = "fee"
    /\ \/ /\ src[r] = "subscription" => SubscriptionAllows(fee[r])
          /\ Succeeds(r, src[r], fee[r])
          /\ Goto(r, "feeToken")
          /\ UNCHANGED fee
       \/ /\ \/ src[r] = "wallet" /\ FailsUndone(r, "wallet", fee[r])
             \/ src[r] = "subscription" /\ Aborts
             \/ /\ src[r] = "subscription" /\ ~SubscriptionAllows(fee[r])
                /\ UNCHANGED <<taken, adrift, faults>>
          /\ fee' = [fee EXCEPT ![r] = 0]
          /\ Goto(r, "failed")
    /\ UNCHANGED <<job, pref, price, session, flags, tokenTrusted, subActive>>

ChargeFeeToken(r) ==
    /\ pc[r] = "feeToken"
    /\ \/ Succeeds(r, "token", TokenPart(r, fee[r]))
       \/ r \notin Playground /\ FailsDone(r, "token", fee[r])
    /\ Goto(r, "failed")
    /\ UNCHANGED <<job, request, session, flags>>

-----------------------------------------------------------------------------
\* The subscription runs out (or is cancelled) under the requests.
SubscriptionEnds ==
    /\ subActive
    /\ subActive' = FALSE
    /\ UNCHANGED <<pc, job, pref, price, fee, session, flags, tokenTrusted, taken, adrift, faults>>

\* All requests have been answered and all refunds made: nothing is left to do.
AllDone ==
    /\ \A r \in Requests : pc[r] \in Final /\ job[r] \in {"none", "done"}
    /\ UNCHANGED vars

PreConsumeStep(r) ==
    \/ WalletCheck(r) \/ TokenCheck(r) \/ ReadError(r) \/ TokenDecrease(r)
    \/ FundPreConsume(r) \/ FundInsufficient(r) \/ FundError(r) \/ RollbackToken(r)
FinishStep(r) ==
    \/ Serve(r) \/ UpstreamFails(r) \/ SettleFunding(r) \/ SettleFundingError(r)
    \/ SettleToken(r) \/ Refund(r) \/ ChargeFee(r) \/ ChargeFeeToken(r)
RequestStep(r) == PreConsumeStep(r) \/ FinishStep(r)
JobStep(r) == RefundFunding(r) \/ RefundToken(r)

Next ==
    \/ \E r \in Requests : Arrive(r) \/ RequestStep(r) \/ JobStep(r)
    \/ SubscriptionEnds
    \/ AllDone

\* A request's goroutine is always scheduled again (the upstream call has a
\* timeout), and so is a goroutine of the pool.  Nothing makes requests
\* arrive or a subscription end.
Fairness == \A r \in Requests : WF_vars(RequestStep(r)) /\ WF_vars(JobStep(r))

Spec == Init /\ [][Next]_vars /\ Fairness

-----------------------------------------------------------------------------
(* Properties *)

TypeOK ==
    /\ pc \in [Requests -> Steps]
    /\ job \in [Requests -> JobSteps]
    /\ pref \in [Requests -> Prefs]
    /\ price \in [Requests -> Nat]
    /\ fee \in [Requests -> Nat]
    /\ src \in [Requests -> Sources]
    /\ eff \in [Requests -> Nat]
    /\ tokenConsumed \in [Requests -> Nat]
    /\ consumed \in [Requests -> Nat]
    /\ flags \in [Requests -> SUBSET Flags]
    /\ tokenTrusted \subseteq Requests
    /\ subActive \in BOOLEAN
    /\ taken \in [Requests -> [Accounts -> Int]]
    /\ adrift \subseteq Requests
    /\ faults \in Nat

Quiet(r) == job[r] \in {"none", "done"}

\* A request that was served has taken exactly what it cost from the source
\* it settled on, the same from its token (nothing for the playground) and
\* nothing from the other source -- or, if the settlement was refused, exactly
\* its pre-consumption.  Whatever fallbacks, trust and other requests did.
Charge(r) == IF "settled" \in flags[r] THEN price[r] ELSE consumed[r]
ServedIsCharged ==
    \A r \in Requests \ adrift : pc[r] = "served" =>
        \A a \in Accounts : taken[r][a] =
            CASE a = "token" -> TokenPart(r, Charge(r))
              [] a = src[r] -> Charge(r)
              [] OTHER -> 0

\* A request that was turned away or failed keeps nothing of what it
\* pre-consumed, on any account, once its refund goroutine is through; only a
\* violation fee stays.
FailedIsFree ==
    \A r \in Requests \ adrift :
        pc[r] \in {"rejected", "failed"} /\ Quiet(r) =>
            \A a \in Accounts : taken[r][a] =
                CASE a = "token" -> TokenPart(r, fee[r])
                  [] a = src[r] -> fee[r]
                  [] OTHER -> 0

\* Not even failing statements make the gateway give back more than it took:
\* "IncreaseUserQuota is quota += N, not idempotent, it cannot be retried".
NeverGivesMore ==
    \A r \in Requests, a \in Accounts : taken[r][a] >= 0

\* Quota held for a request in flight is always resolved: the request ends
\* and, if it failed, the refund goroutine gets to its end.
HoldResolves ==
    \A r \in Requests : (taken[r]["token"] > 0 /\ pc[r] \notin Final)
        ~> (pc[r] \in Final /\ Quiet(r))

-----------------------------------------------------------------------------
(* The inductive invariant behind ServedIsCharged and FailedIsFree *)

BeforeFunding == {"idle", "walletCheck", "token", "tokenDecr", "fund", "rollback",
                  "rollbackFallback", "rejected"}

\* What the session believes it holds of its funding source and of its token.
FundingHeld(r) ==
    IF pc[r] \in BeforeFunding THEN 0
    ELSE IF "fundingSettled" \in flags[r] THEN price[r]
    ELSE IF job[r] \in {"token", "done"} THEN 0
    ELSE consumed[r]
TokenHeld(r) ==
    IF pc[r] \in {"idle", "walletCheck", "token", "tokenDecr", "rejected"} THEN 0
    ELSE IF pc[r] = "served" /\ "fundingSettled" \in flags[r] THEN price[r]
    ELSE IF job[r] = "done" THEN 0
    ELSE tokenConsumed[r]
FundingFee(r) == IF pc[r] \in {"feeToken", "failed"} THEN fee[r] ELSE 0
TokenFee(r) == IF pc[r] = "failed" THEN fee[r] ELSE 0

\* The columns hold for r exactly what its session believes they hold.
LedgerOf(r) ==
    /\ taken[r]["token"] = TokenPart(r, TokenHeld(r) + TokenFee(r))
    /\ taken[r][src[r]] = FundingHeld(r) + FundingFee(r)
    /\ \A a \in Sources \ {src[r]} : taken[r][a] = 0

\* At every step of every request the columns hold exactly what the fields of
\* its BillingSession, the steps taken and the refund goroutine say they hold:
\* the fields are enough to know what a refund has to give back.
LedgerMatchesSession == \A r \in Requests \ adrift : LedgerOf(r)

\* The three amounts a session keeps agree from the moment each is set, and
\* the flags and the refund goroutine are where the request's step says.
ConsistentSession(r) ==
    /\ pc[r] \in BeforeFunding \ {"idle"} /\ src[r] = "subscription" => eff[r] = SubConsume(r)
    /\ pc[r] = "walletCheck" => src[r] = "wallet" /\ tokenConsumed[r] = 0
    /\ pc[r] \in {"tokenDecr", "rollback", "rollbackFallback"} => r \notin Playground
    /\ pc[r] = "fund" => tokenConsumed[r] = eff[r]
    /\ pc[r] \notin BeforeFunding => tokenConsumed[r] = eff[r] /\ consumed[r] = eff[r]
    /\ pc[r] \notin {"settleToken", "served", "fee", "feeToken", "failed"} => flags[r] = {}
    /\ pc[r] = "settleToken" => flags[r] = {"fundingSettled"}
    /\ pc[r] = "served" => flags[r] \in {{}, {"settled"}, {"fundingSettled", "settled"}}
    /\ pc[r] = "served" /\ flags[r] = {"settled"} => price[r] = eff[r]
    /\ pc[r] \in {"fee", "feeToken", "failed"} =>
         IF job[r] = "none" THEN flags[r] = {} /\ eff[r] = 0 ELSE flags[r] = {"refunded"}
    /\ pc[r] \notin {"fee", "feeToken", "failed"} => job[r] = "none"
    /\ pc[r] \in BeforeFunding => fee[r] = 0

SessionConsistent == \A r \in Requests : ConsistentSession(r)

\* The inductive invariant.
SessionInv == TypeOK /\ LedgerMatchesSession /\ SessionConsistent

=============================================================================
