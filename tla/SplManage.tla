----------------------------- MODULE SplManage -----------------------------
(***************************************************************************)
(* The revoke operations of SplManageService: revokeMintAuthority,         *)
(* revokeFreezeAuthority, revokeUpdateAuthority and                        *)
(* revokeMetadataUpdateAuthority.  The four share one shape: check the     *)
(* claimed authority against the chain, then send and confirm a one-       *)
(* instruction transaction, up to maxRetries times.                        *)
(*                                                                         *)
(* Each sendTransaction takes a new blockhash, so every attempt is a       *)
(* transaction of its own that may land as long as its own blockhash is    *)
(* valid, also after the service has given it up.  confirmTransaction      *)
(* however is always given the first blockhash.                            *)
(*                                                                         *)
(* The chain is seen at two commitments: chain (confirmed) and final       *)
(* (finalized), which follows it.                                          *)
(***************************************************************************)
EXTENDS Integers, FiniteSets, TokenLedger

CONSTANTS
  Calls,       \* calls of the revoke routes, each used once
  Mints,       \* tokens they name
  NoMint,      \* no token
  MaxRetries,  \* maxRetries, 5 in the code
  InitialPowers \* which powers a token may have when the run starts

ASSUME RetriesAssumption == MaxRetries \in Nat \ {0}
ASSUME MintAssumption    == NoMint \notin Mints
ASSUME PowersAssumption  ==
  InitialPowers \subseteq SUBSET {"mintAuthority", "freezeAuthority", "mutable"}

VARIABLES
  chain,    \* chain[m]: the facts about token m at commitment confirmed
  final,    \* final[m]: the facts about token m at commitment finalized
  stage,    \* stage[c]: the next await of call c
  answer,   \* answer[c]: how call c was answered
  op,       \* op[c]: which of the four operations c is
  target,   \* target[c]: mintPubKey
  tries,    \* tries[c]: currentTry
  txs,      \* txs[c][k]: the transaction of attempt k of c
  expired   \* expired[c]: how many blockhashes of c have expired; the first is
            \* that of getLatestBlockhash, then that of attempt 1, 2, ...

ledger  == <<chain, final>>
call    == <<stage, answer, op, target, tries>>
vars    == <<ledger, call, txs, expired>>

Ops      == {"mint", "freeze", "update", "metadata"}
Stages   == {"idle", "validate", "blockhash", "send", "confirm", "backoff"}
Answers  == {"pending", "revoked", "invalid", "allAttemptsFailed", "afterAttempts", "aborted"}
Attempts == 1..MaxRetries
TxStates == {"none", "rejected", "inFlight", "applied", "failed",
             "appliedFinal", "failedFinal"}

Landed   == {"applied", "failed", "appliedFinal", "failedFinal"}
Applied  == {"applied", "appliedFinal"}

-----------------------------------------------------------------------------
(* The four operations *)

\* The authority that must be the caller's before anything is sent.
RequiredAuthority(o) ==
  IF o = "mint" THEN "mintAuthority"
  ELSE IF o = "freeze" THEN "freezeAuthority" ELSE "updateAuthority"

\* The one instruction of the transaction.  revokeUpdateAuthority passes
\* updateAuthority undefined and isMutable false; revokeMetadataUpdateAuthority
\* passes updateAuthority null and the current isMutable.
WrongAuthorityType(o) ==
  IF o \in {"mint", "freeze"} THEN RemoveAuthority("freezeAuthority")
  ELSE UpdateMetadataAccountV2(o = "metadata")
KeepsMutable(o) ==
  IF o \in {"mint", "freeze"} THEN RemoveAuthority(RequiredAuthority(o))
  ELSE UpdateMetadataAccountV2(TRUE)
RevokeInstruction(o) ==
  IF o \in {"mint", "freeze"} THEN RemoveAuthority(RequiredAuthority(o))
  ELSE UpdateMetadataAccountV2(o = "metadata")

\* The fact each operation takes away, if any.
Power(o) == IF o = "update" THEN "mutable" ELSE RequiredAuthority(o)

\* revokeUpdateAuthority works at commitment confirmed, the others at finalized.
Preflight(c) == IF op[c] = "update" THEN chain[target[c]] ELSE final[target[c]]

SeenBy(c) == IF op[c] = "update" THEN Landed ELSE {"appliedFinal", "failedFinal"}

-----------------------------------------------------------------------------
(* Calls *)

Active(c) == stage[c] # "idle" /\ answer[c] = "pending"
At(c, s)  == stage[c] = s /\ answer[c] = "pending"
Goto(c, s)   == stage' = [stage EXCEPT ![c] = s] /\ UNCHANGED answer
Answer(c, a) == answer' = [answer EXCEPT ![c] = a] /\ UNCHANGED stage

\* The attempt under way.
Attempt(c) == tries[c] + 1

\* The catch block: count the try, then give up or back off.
CaughtOffByOne(c) ==
  /\ tries' = [tries EXCEPT ![c] = @ + 1]
  /\ IF tries'[c] > MaxRetries THEN Answer(c, "afterAttempts") ELSE Goto(c, "backoff")
CaughtForever(c) ==
  /\ tries' = [tries EXCEPT ![c] = IF @ + 1 = MaxRetries THEN 0 ELSE @ + 1]
  /\ Goto(c, "backoff")
Caught(c) ==
  /\ tries' = [tries EXCEPT ![c] = @ + 1]
  /\ IF tries'[c] = MaxRetries THEN Answer(c, "afterAttempts") ELSE Goto(c, "backoff")

\* Tokens as the service creates them, with any authority already revoked.
Init ==
  /\ chain \in [Mints -> {CreatedToken \cup s : s \in InitialPowers}]
  /\ final = chain
  /\ stage = [c \in Calls |-> "idle"]
  /\ answer = [c \in Calls |-> "pending"]
  /\ op = [c \in Calls |-> "mint"]
  /\ target = [c \in Calls |-> NoMint]
  /\ tries = [c \in Calls |-> 0]
  /\ txs = [c \in Calls |-> [k \in Attempts |-> "none"]]
  /\ expired = [c \in Calls |-> 0]

Request(c, o, m) ==
  /\ stage[c] = "idle"
  /\ Goto(c, "validate")
  /\ op' = [op EXCEPT ![c] = o]
  /\ target' = [target EXCEPT ![c] = m]
  /\ UNCHANGED <<ledger, tries, txs, expired>>

\* Parameters, the mint or metadata account, the claimed authority and its key:
\* nothing is sent unless they all fit.
Validate(c) ==
  /\ At(c, "validate")
  /\ \/ RequiredAuthority(op[c]) \in final[target[c]] /\ Goto(c, "blockhash")
     \/ Answer(c, "invalid")
  /\ UNCHANGED <<ledger, op, target, tries, txs, expired>>

GetLatestBlockhash(c) ==
  /\ At(c, "blockhash")
  /\ Goto(c, "send") \/ Answer(c, "invalid")
  /\ UNCHANGED <<ledger, op, target, tries, txs, expired>>

\* sendTransaction with preflight: accepted; rejected, by the simulation or the
\* node; or accepted with the answer lost.
SendSkippingPreflight(c) ==
  LET Becomes(s) == txs' = [txs EXCEPT ![c][Attempt(c)] = s]
  IN  /\ At(c, "send")
      /\ \/ Becomes("inFlight") /\ Goto(c, "confirm") /\ UNCHANGED tries
         \/ Becomes("inFlight") /\ Caught(c)
         \/ Becomes("rejected") /\ Caught(c)
      /\ UNCHANGED <<ledger, op, target, expired>>
SendTransaction(c) ==
  LET Becomes(s) == txs' = [txs EXCEPT ![c][Attempt(c)] = s]
      passes     == Valid(RevokeInstruction(op[c]), Preflight(c))
  IN  /\ At(c, "send")
      /\ \/ passes /\ Becomes("inFlight") /\ Goto(c, "confirm") /\ UNCHANGED tries
         \/ passes /\ Becomes("inFlight") /\ Caught(c)
         \/ Becomes("rejected") /\ Caught(c)
      /\ UNCHANGED <<ledger, op, target, expired>>

\* confirmTransaction saw the transaction of this attempt: answer, or break.
AnsweredOnSend(c) ==
  /\ At(c, "confirm")
  /\ Answer(c, "revoked")
  /\ UNCHANGED <<ledger, op, target, tries, txs, expired>>
Confirmed(c) ==
  LET state == txs[c][Attempt(c)]
  IN  /\ At(c, "confirm")
      /\ state \in SeenBy(c)
      /\ Answer(c, IF state \in Applied THEN "revoked" ELSE "allAttemptsFailed")
      /\ UNCHANGED <<ledger, op, target, tries, txs, expired>>

\* The block height passed the lastValidBlockHeight given to confirmTransaction,
\* that of the first blockhash.
TimedOut(c) == At(c, "confirm") /\ expired[c] > 0

BlockheightExceeded(c) ==
  /\ TimedOut(c)
  /\ Caught(c)
  /\ UNCHANGED <<ledger, op, target, txs, expired>>

\* confirmTransaction throws for another reason.
ConfirmFails(c) ==
  /\ At(c, "confirm")
  /\ Caught(c)
  /\ UNCHANGED <<ledger, op, target, txs, expired>>

\* The wait and the new blockhash; a failure here leaves the retry loop.
Backoff(c) ==
  /\ At(c, "backoff")
  /\ Goto(c, "send") \/ Answer(c, "invalid")
  /\ UNCHANGED <<ledger, op, target, tries, txs, expired>>

\* The service dies.
Abort(c) ==
  /\ Active(c)
  /\ Answer(c, "aborted")
  /\ UNCHANGED <<ledger, op, target, tries, txs, expired>>

-----------------------------------------------------------------------------
(* The chain *)

\* Attempt k of c lands while its blockhash, the k+1st of c, is valid.
Land(c, k) ==
  LET ix == RevokeInstruction(op[c])
      m  == target[c]
  IN  /\ txs[c][k] = "inFlight"
      /\ expired[c] <= k
      /\ \/ /\ Valid(ix, chain[m])
            /\ txs' = [txs EXCEPT ![c][k] = "applied"]
            /\ chain' = [chain EXCEPT ![m] = After(ix, @)]
         \/ /\ ~Valid(ix, chain[m])
            /\ txs' = [txs EXCEPT ![c][k] = "failed"]
            /\ UNCHANGED chain
      /\ UNCHANGED <<final, call, expired>>

Finality(s) == IF s = "applied" THEN "appliedFinal"
               ELSE IF s = "failed" THEN "failedFinal" ELSE s

\* What is confirmed about token m becomes final.
Finalize(m) ==
  /\ final' = [final EXCEPT ![m] = chain[m]]
  /\ txs' = [c \in Calls |->
               IF target[c] = m THEN [k \in Attempts |-> Finality(txs[c][k])]
               ELSE txs[c]]
  /\ UNCHANGED <<chain, call, expired>>

\* The oldest blockhash of c that is still valid expires.
Expire(c) ==
  /\ stage[c] \in {"send", "confirm", "backoff"}
  /\ \/ expired[c] = 0
     \/ expired[c] \in Attempts /\ txs[c][expired[c]] # "none"
  /\ expired' = [expired EXCEPT ![c] = @ + 1]
  /\ UNCHANGED <<ledger, call, txs>>

\* What the service does when the calls it makes are answered.
ServiceStep(c) ==
  \/ Validate(c)
  \/ GetLatestBlockhash(c)
  \/ SendTransaction(c)
  \/ Confirmed(c)
  \/ BlockheightExceeded(c)
  \/ Backoff(c)

Next ==
  \/ \E c \in Calls, o \in Ops, m \in Mints : Request(c, o, m)
  \/ \E c \in Calls : ServiceStep(c)
  \/ \E c \in Calls : ConfirmFails(c)
  \/ \E c \in Calls : Abort(c)
  \/ \E c \in Calls, k \in Attempts : Land(c, k)
  \/ \E m \in Mints : Finalize(m)
  \/ \E c \in Calls : Expire(c)

Spec == Init /\ [][Next]_vars

\* The service takes its steps, and blockhashes expire; transactions need not
\* land, and confirmTransaction need not fail.
FairSpec == Spec /\ \A c \in Calls : WF_vars(ServiceStep(c)) /\ WF_vars(Expire(c))

-----------------------------------------------------------------------------
(* Properties *)

TypeOK ==
  /\ chain \in [Mints -> SUBSET Facts]
  /\ final \in [Mints -> SUBSET Facts]
  /\ stage \in [Calls -> Stages]
  /\ answer \in [Calls -> Answers]
  /\ op \in [Calls -> Ops]
  /\ target \in [Calls -> Mints \cup {NoMint}]
  /\ tries \in [Calls -> 0..MaxRetries]
  /\ txs \in [Calls -> [Attempts -> TxStates]]
  /\ expired \in [Calls -> Nat]

\* "revoked" is answered only if the power is gone at the commitment the
\* operation waits for, and what is gone never comes back: retries, concurrent
\* calls and late transactions included.
RevokedMeansGone ==
  \A c \in Calls :
    answer[c] = "revoked" /\ op[c] # "metadata" => Power(op[c]) \notin Preflight(c)

Powers == {"mintAuthority", "freezeAuthority", "mutable"}

\* The attempts, <<c, k>>, of all calls that took power p away from token m.
Takers(m, p) ==
  {a \in Calls \X Attempts :
     LET c == a[1]
     IN  /\ target[c] = m
         /\ op[c] # "metadata"
         /\ Power(op[c]) = p
         /\ txs[c][a[2]] \in Applied}

\* However often it is retried, and by however many calls, a revocation is
\* applied once.
AppliedAtMostOnce ==
  \A m \in Mints, p \in Powers :
    Cardinality(Takers(m, p)) <= 1

\* A transaction fails on chain only if another attempt took what it needs: the
\* preflight keeps back every transaction that could never have been applied.
FailedMeansTaken ==
  \A c \in Calls, k \in Attempts :
    txs[c][k] \in {"failed", "failedFinal"} =>
      \E p \in RevokeInstruction(op[c]).needs : Takers(target[c], p) # {}

\* How many steps of its own a call has before it at most: three for each try left,
\* and those before the next try is counted.
StepsInTry(s) == IF s = "idle" THEN 5
                 ELSE IF s = "validate" THEN 4
                 ELSE IF s \in {"blockhash", "backoff"} THEN 3
                 ELSE IF s = "send" THEN 2 ELSE 1
StepsLeft(c) ==
  IF answer[c] # "pending" THEN 0
  ELSE 3 * (MaxRetries - tries[c] - 1) + StepsInTry(stage[c])

\* A revoke call cannot go on for ever: whatever it does, however often its
\* transaction is rejected, times out or fails, it uses up the steps it had left, and
\* nothing another call or the chain does gives it new ones.
RetriesRunOut ==
  [][\A c \in Calls :
       \/ UNCHANGED <<stage[c], answer[c], tries[c]>>
       \/ StepsLeft(c)' \in 0..(StepsLeft(c) - 1)]_vars

\* Every revoke call is answered.
CallEnds == \A c \in Calls : stage[c] # "idle" ~> answer[c] # "pending"

\* The service implements the promise of RevokePromise, for the three operations
\* that take something away.
Told(a) == IF a = "pending" THEN "nothing"
           ELSE IF a = "revoked" THEN "revoked" ELSE "failed"
Promising(c) == stage[c] # "idle" /\ op[c] # "metadata"
Promise == INSTANCE RevokePromise WITH
  held  <- [m \in Mints |-> chain[m] \cap Powers],
  asked <- [c \in Calls |-> IF Promising(c) THEN {<<target[c], Power(op[c])>>} ELSE {}],
  told  <- [c \in Calls |-> IF Promising(c) THEN Told(answer[c]) ELSE "nothing"]
PromiseKept == Promise!Spec

-----------------------------------------------------------------------------
(* The inductive strengthening of the invariants above *)

\* A call that has not arrived has sent nothing; one that has names a token; one
\* that is not answered has tries left, and attempts it has not sent.
CallConsistent ==
  \A c \in Calls :
    /\ stage[c] = "idle" =>
         answer[c] = "pending" /\ \A k \in Attempts : txs[c][k] = "none"
    /\ stage[c] # "idle" => target[c] \in Mints
    /\ answer[c] = "pending" =>
         /\ tries[c] < MaxRetries
         /\ \A k \in Attempts :
              k > tries[c] /\ (stage[c] = "confirm" => k # Attempt(c)) =>
                txs[c][k] = "none"

\* A power that an attempt took is gone, and stays gone.
AppliedMeansGone ==
  \A c \in Calls, k \in Attempts :
    op[c] # "metadata" =>
      /\ txs[c][k] \in Applied => Power(op[c]) \notin chain[target[c]]
      /\ txs[c][k] = "appliedFinal" => Power(op[c]) \notin final[target[c]]

\* What is final but not confirmed any more, some attempt took.
LostMeansTaken ==
  \A m \in Mints :
    /\ chain[m] \subseteq final[m]
    /\ \A p \in final[m] \ chain[m] : Takers(m, p) # {}

\* What a transaction under way needs is there, or some attempt took it.
InFlightMeansValid ==
  \A c \in Calls, k \in Attempts :
    txs[c][k] = "inFlight" =>
      \A p \in RevokeInstruction(op[c]).needs :
        p \in chain[target[c]] \/ Takers(target[c], p) # {}

\* No two attempts took the same power.
TakerIsUnique ==
  \A m \in Mints, p \in Powers : \A s, t \in Takers(m, p) : s = t

IInv == /\ TypeOK
        /\ CallConsistent
        /\ AppliedMeansGone
        /\ LostMeansTaken
        /\ InFlightMeansValid
        /\ TakerIsUnique
        /\ RevokedMeansGone
        /\ FailedMeansTaken

-----------------------------------------------------------------------------
(* What comments and messages say, and the code does not do *)

\* "Update Authority Revoked for <mint>".
UpdateAuthorityRevoked ==
  \A c \in Calls :
    answer[c] = "revoked" /\ op[c] = "update" => "updateAuthority" \notin chain[target[c]]

\* "Get new blockhash for retry": a retry is given up for an expired blockhash only
\* when the blockhash of that retry has expired.
AttemptsGetTheirTime ==
  \A c \in Calls : TimedOut(c) /\ tries[c] > 0 => expired[c] > Attempt(c)
=============================================================================
