-------------------------- MODULE SplManageProofs --------------------------
(***************************************************************************)
(* The revoke operations keep their invariant and implement RevokePromise, *)
(* for any number of calls, tokens and retries.  The invariant follows the *)
(* transactions: an applied one has taken its power for good, one under way*)
(* finds what it needs unless another attempt has taken it.                *)
(***************************************************************************)
EXTENDS SplManage, FiniteSetTheorems, TLAPS

-----------------------------------------------------------------------------
(* The instructions *)

LEMMA Instructions ==
  ASSUME NEW o \in Ops
  PROVE  /\ RevokeInstruction(o).lacks = {}
         /\ RevokeInstruction(o).adds = {}
         /\ o = "metadata" => RevokeInstruction(o).drops = {}
         /\ o # "metadata" => /\ Power(o) \in Powers
                              /\ Power(o) \in RevokeInstruction(o).needs
                              /\ RevokeInstruction(o).drops = {Power(o)}
BY DEF Ops, Powers, Power, RequiredAuthority, RevokeInstruction, RemoveAuthority,
       UpdateMetadataAccountV2, Instruction

LEMMA Validity ==
  ASSUME NEW o \in Ops, NEW account
  PROVE  /\ Valid(RevokeInstruction(o), account)
              <=> RevokeInstruction(o).needs \subseteq account
         /\ After(RevokeInstruction(o), account)
              = account \ RevokeInstruction(o).drops
BY Instructions DEF Valid, After

-----------------------------------------------------------------------------
(* Who took what *)

\* Takers change only if a transaction is applied.
LEMMA SameTakers ==
  ASSUME \A c \in Calls, k \in Attempts :
           /\ txs'[c][k] \in Applied <=> txs[c][k] \in Applied
           /\ txs[c][k] \in Applied => op'[c] = op[c] /\ target'[c] = target[c]
  PROVE  \A m, p : Takers(m, p)' = Takers(m, p)
BY DEF Takers

-----------------------------------------------------------------------------
(* The invariant holds initially *)

LEMMA InvInit == Init => IInv
<1> SUFFICES ASSUME Init
             PROVE  IInv
  OBVIOUS
<1> USE DEF Init
<1>1. \A m \in Mints : chain[m] \in SUBSET Facts
  <2>1. \A s \in InitialPowers : CreatedToken \cup s \subseteq Facts
    BY PowersAssumption DEF CreatedToken, Facts
  <2>2. {CreatedToken \cup s : s \in InitialPowers} \subseteq SUBSET Facts
    BY <2>1
  <2> QED
    BY <2>2
<1>2. chain \in [Mints -> SUBSET Facts]
  BY <1>1
<1>3. TypeOK
  BY <1>2, RetriesAssumption
     DEF TypeOK, Stages, Answers, Ops, TxStates
<1>4. \A c \in Calls, k \in Attempts : txs[c][k] = "none"
  OBVIOUS
<1>5. CallConsistent
  BY <1>4, RetriesAssumption DEF CallConsistent
<1>6. AppliedMeansGone /\ InFlightMeansValid /\ FailedMeansTaken
  BY <1>4 DEF AppliedMeansGone, InFlightMeansValid, FailedMeansTaken, Applied
<1>7. LostMeansTaken
  BY DEF LostMeansTaken
<1>8. TakerIsUnique
  BY <1>4 DEF TakerIsUnique, Takers, Applied
<1>9. RevokedMeansGone
  BY DEF RevokedMeansGone
<1> QED
  BY <1>3, <1>5, <1>6, <1>7, <1>8, <1>9 DEF IInv

-----------------------------------------------------------------------------
(* A step of the service that sends nothing *)

LEMMA LocalStep ==
  ASSUME IInv, NEW c \in Calls, stage[c] # "idle", answer[c] = "pending",
         UNCHANGED <<ledger, op, target, txs, expired>>,
         \/ /\ UNCHANGED tries
            /\ stage[c] # "confirm"
            /\ \E s \in Stages \ {"idle", "confirm"} : Goto(c, s)
         \/ /\ UNCHANGED tries
            /\ \E a \in Answers \ {"pending"} :
                 /\ Answer(c, a)
                 /\ a = "revoked" /\ op[c] # "metadata" =>
                      Power(op[c]) \notin Preflight(c)
         \/ stage[c] = "confirm" /\ Caught(c)
  PROVE  IInv'
<1> USE RetriesAssumption DEF IInv, ledger
<1>1. tries[c] \in Nat /\ tries[c] < MaxRetries
  BY DEF TypeOK, CallConsistent
<1>2. /\ tries' \in [Calls -> 0..MaxRetries]
      /\ stage' \in [Calls -> Stages]
      /\ answer' \in [Calls -> Answers]
  <2>1. CASE Caught(c)
    <3>1. tries' = [tries EXCEPT ![c] = tries[c] + 1]
      BY <2>1 DEF Caught
    <3>2. tries' \in [Calls -> 0..MaxRetries]
      BY <1>1, <3>1 DEF TypeOK
    <3>3. Answer(c, "afterAttempts") \/ Goto(c, "backoff")
      BY <2>1 DEF Caught
    <3> QED
      BY <3>2, <3>3 DEF Goto, Answer, TypeOK, Stages, Answers
  <2>2. CASE UNCHANGED tries /\ \E s \in Stages : Goto(c, s)
    BY <2>2 DEF Goto, TypeOK
  <2>3. CASE UNCHANGED tries /\ \E a \in Answers : Answer(c, a)
    BY <2>3 DEF Answer, TypeOK
  <2> QED
    BY <2>1, <2>2, <2>3
<1>3. TypeOK'
  BY <1>2 DEF TypeOK
<1>4. CallConsistent'
  <2> SUFFICES ASSUME NEW q \in Calls, NEW k \in Attempts
               PROVE  /\ stage'[q] = "idle" =>
                           answer'[q] = "pending" /\ txs[q][k] = "none"
                      /\ stage'[q] # "idle" => target[q] \in Mints
                      /\ answer'[q] = "pending" =>
                           /\ tries'[q] < MaxRetries
                           /\ k > tries'[q] /\ (stage'[q] = "confirm" => k # tries'[q] + 1)
                                => txs[q][k] = "none"
    BY DEF CallConsistent, Attempt, Attempts
  <2>1. CASE q # c
    <3>1. stage'[q] = stage[q] /\ answer'[q] = answer[q] /\ tries'[q] = tries[q]
      BY <2>1 DEF Caught, Goto, Answer, TypeOK
    <3> QED
      BY <3>1 DEF CallConsistent, Attempt
  <2>2. CASE q = c
    <3>1. CASE UNCHANGED tries /\ stage[c] # "confirm"
               /\ \E s \in Stages \ {"idle", "confirm"} : Goto(c, s)
      BY <2>2, <3>1 DEF Goto, CallConsistent, Attempt, TypeOK
    <3>2. CASE \E a \in Answers \ {"pending"} : Answer(c, a)
      BY <2>2, <3>2 DEF Answer, CallConsistent, TypeOK
    <3>3. CASE stage[c] = "confirm" /\ Caught(c)
      BY <1>1, <2>2, <3>3 DEF Caught, Goto, Answer, CallConsistent, Attempt, Attempts, TypeOK
    <3> QED
      BY <3>1, <3>2, <3>3
  <2> QED
    BY <2>1, <2>2
<1>5. \A m, p : Takers(m, p)' = Takers(m, p)
  BY SameTakers
<1>6. AppliedMeansGone'
  BY DEF AppliedMeansGone
<1>7. LostMeansTaken' /\ InFlightMeansValid' /\ TakerIsUnique' /\ FailedMeansTaken'
  BY <1>5 DEF LostMeansTaken, InFlightMeansValid, TakerIsUnique, FailedMeansTaken
<1>8. RevokedMeansGone'
  <2> SUFFICES ASSUME NEW q \in Calls, answer'[q] = "revoked", op[q] # "metadata"
               PROVE  Power(op[q]) \notin Preflight(q)
    BY DEF RevokedMeansGone, Preflight
  <2>1. CASE q # c
    <3>1. answer'[q] = answer[q]
      BY <2>1 DEF Caught, Goto, Answer, TypeOK
    <3> QED
      BY <3>1 DEF RevokedMeansGone
  <2>2. CASE q = c
    <3>1. \E a \in Answers \ {"pending"} : Answer(c, a) /\ a = "revoked"
      BY <2>2 DEF Caught, Goto, Answer, TypeOK
    <3>2. ~(\E s \in Stages : Goto(c, s)) /\ ~Caught(c)
      BY <2>2 DEF Caught, Goto, Answer, TypeOK
    <3> QED
      BY <2>2, <3>2 DEF Answer, TypeOK
  <2> QED
    BY <2>1, <2>2
<1> QED
  BY <1>3, <1>4, <1>6, <1>7, <1>8

-----------------------------------------------------------------------------
(* The step that sends *)

\* What an accepted transaction needs is there, or somebody has taken it.
LEMMA Accepted ==
  ASSUME IInv, NEW c \in Calls, target[c] \in Mints,
         Valid(RevokeInstruction(op[c]), Preflight(c))
  PROVE  \A p \in RevokeInstruction(op[c]).needs :
           p \in chain[target[c]] \/ Takers(target[c], p) # {}
<1>1. RevokeInstruction(op[c]).needs \subseteq Preflight(c)
  BY Validity DEF IInv, TypeOK
<1> QED
  BY <1>1 DEF Preflight, IInv, LostMeansTaken

LEMMA SendStep ==
  ASSUME IInv, NEW c \in Calls, SendTransaction(c)
  PROVE  IInv'
<1> USE RetriesAssumption DEF IInv, ledger
<1> DEFINE k == Attempt(c)
<1>1. /\ k \in Attempts /\ txs[c][k] = "none" /\ target[c] \in Mints
      /\ tries[c] \in Nat /\ tries[c] < MaxRetries /\ k = tries[c] + 1
      /\ stage[c] = "send" /\ answer[c] = "pending"
  BY DEF SendTransaction, At, TypeOK, CallConsistent, Attempt, Attempts
<1>2. PICK s \in {"inFlight", "rejected"} :
        /\ txs' = [txs EXCEPT ![c][k] = s]
        /\ s = "inFlight" => Valid(RevokeInstruction(op[c]), Preflight(c))
  BY DEF SendTransaction
<1> HIDE DEF k
<1>3. UNCHANGED <<chain, final, op, target, expired>>
  BY DEF SendTransaction
<1>4. (Goto(c, "confirm") /\ UNCHANGED tries) \/ Caught(c)
  BY DEF SendTransaction
<1>5. \A q \in Calls, j \in Attempts :
        txs'[q][j] = IF q = c /\ j = k THEN s ELSE txs[q][j]
  BY <1>1, <1>2 DEF TypeOK
<1>6. TypeOK'
  <2>1. txs' \in [Calls -> [Attempts -> TxStates]]
    BY <1>1, <1>2 DEF TypeOK, TxStates
  <2>2. /\ tries' \in [Calls -> 0..MaxRetries]
        /\ stage' \in [Calls -> Stages]
        /\ answer' \in [Calls -> Answers]
    BY <1>1, <1>4 DEF Caught, Goto, Answer, TypeOK, Stages, Answers
  <2> QED
    BY <1>3, <2>1, <2>2 DEF TypeOK
<1>7. CallConsistent'
  <2> SUFFICES ASSUME NEW q \in Calls, NEW j \in Attempts
               PROVE  /\ stage'[q] = "idle" =>
                           answer'[q] = "pending" /\ txs'[q][j] = "none"
                      /\ stage'[q] # "idle" => target[q] \in Mints
                      /\ answer'[q] = "pending" =>
                           /\ tries'[q] < MaxRetries
                           /\ j > tries'[q] /\ (stage'[q] = "confirm" => j # tries'[q] + 1)
                                => txs'[q][j] = "none"
    BY <1>3 DEF CallConsistent, Attempt, Attempts
  <2>1. CASE q # c
    <3>1. stage'[q] = stage[q] /\ answer'[q] = answer[q] /\ tries'[q] = tries[q]
      BY <1>4, <2>1 DEF Caught, Goto, Answer, TypeOK
    <3> QED
      BY <1>5, <2>1, <3>1 DEF CallConsistent, Attempt
  <2>2. CASE q = c
    <3>1. j > k => txs'[q][j] = "none"
      BY <1>1, <1>5, <2>2 DEF CallConsistent, Attempts, Attempt
    <3>2. CASE Goto(c, "confirm") /\ UNCHANGED tries
      BY <1>1, <2>2, <3>1, <3>2 DEF Goto, TypeOK, Attempts
    <3>3. CASE Caught(c)
      BY <1>1, <2>2, <3>1, <3>3 DEF Caught, Goto, Answer, TypeOK, Attempts
    <3> QED
      BY <1>4, <3>2, <3>3
  <2> QED
    BY <2>1, <2>2
<1>8. \A m, p : Takers(m, p)' = Takers(m, p)
  BY <1>1, <1>3, <1>5, SameTakers DEF Applied
<1>9. AppliedMeansGone'
  BY <1>3, <1>5 DEF AppliedMeansGone, Applied
<1>10. LostMeansTaken' /\ TakerIsUnique'
  BY <1>3, <1>8 DEF LostMeansTaken, TakerIsUnique
<1>11. FailedMeansTaken'
  BY <1>3, <1>5, <1>8 DEF FailedMeansTaken
<1>12. InFlightMeansValid'
  <2>1. s = "inFlight" => \A p \in RevokeInstruction(op[c]).needs :
          p \in chain[target[c]] \/ Takers(target[c], p) # {}
    BY <1>1, <1>2, Accepted
  <2> QED
    BY <1>3, <1>5, <1>8, <2>1 DEF InFlightMeansValid
<1>13. RevokedMeansGone'
  <2>1. \A q \in Calls : answer'[q] = "revoked" => answer[q] = "revoked"
    BY <1>4 DEF Caught, Goto, Answer, TypeOK
  <2> QED
    BY <1>3, <2>1 DEF RevokedMeansGone, Preflight
<1> QED
  BY <1>6, <1>7, <1>9, <1>10, <1>11, <1>12, <1>13
-----------------------------------------------------------------------------
(* Arrival of a call *)

LEMMA RequestStep ==
  ASSUME IInv, NEW c \in Calls, NEW o \in Ops, NEW m \in Mints, Request(c, o, m)
  PROVE  IInv'
<1> USE RetriesAssumption DEF IInv, ledger
<1>1. /\ stage[c] = "idle" /\ answer[c] = "pending"
      /\ \A k \in Attempts : txs[c][k] = "none"
      /\ stage' = [stage EXCEPT ![c] = "validate"]
      /\ op' = [op EXCEPT ![c] = o]
      /\ target' = [target EXCEPT ![c] = m]
      /\ UNCHANGED <<chain, final, answer, tries, txs, expired>>
  BY DEF Request, Goto, CallConsistent
<1>2. TypeOK'
  BY <1>1 DEF TypeOK, Stages
<1>3. CallConsistent'
  BY <1>1 DEF CallConsistent, TypeOK, Attempt
<1>4. \A q \in Calls : q # c => op'[q] = op[q] /\ target'[q] = target[q]
  BY <1>1 DEF TypeOK
<1>5. \A n, p : Takers(n, p)' = Takers(n, p)
  BY <1>1, <1>4, SameTakers DEF Applied
<1>6. AppliedMeansGone'
  BY <1>1, <1>4 DEF AppliedMeansGone, Applied
<1>7. LostMeansTaken' /\ TakerIsUnique'
  BY <1>1, <1>5 DEF LostMeansTaken, TakerIsUnique
<1>8. InFlightMeansValid' /\ FailedMeansTaken'
  BY <1>1, <1>4, <1>5 DEF InFlightMeansValid, FailedMeansTaken
<1>9. RevokedMeansGone'
  BY <1>1, <1>4 DEF RevokedMeansGone, Preflight
<1> QED
  BY <1>2, <1>3, <1>6, <1>7, <1>8, <1>9

-----------------------------------------------------------------------------
(* The chain *)

\* A transaction that is applied and takes something is the first to take it.
LEMMA FirstTaker ==
  ASSUME IInv, NEW c \in Calls, NEW k \in Attempts, op[c] # "metadata",
         txs[c][k] = "inFlight", Valid(RevokeInstruction(op[c]), chain[target[c]])
  PROVE  /\ Power(op[c]) \in Powers /\ Power(op[c]) \in chain[target[c]]
         /\ Takers(target[c], Power(op[c])) = {}
<1>1. Power(op[c]) \in Powers /\ Power(op[c]) \in chain[target[c]]
  BY Instructions, Validity DEF IInv, TypeOK
<1> QED
  BY <1>1 DEF IInv, AppliedMeansGone, Takers

LEMMA LandStep ==
  ASSUME IInv, NEW c \in Calls, NEW k \in Attempts, Land(c, k)
  PROVE  IInv'
<1> USE DEF IInv, ledger, call
<1> DEFINE m == target[c]
           ix == RevokeInstruction(op[c])
<1>1. /\ txs[c][k] = "inFlight" /\ m \in Mints /\ op[c] \in Ops
      /\ UNCHANGED <<final, stage, answer, op, target, tries, expired>>
  BY DEF Land, TypeOK, CallConsistent
<1>2. PICK s \in {"applied", "failed"} :
        /\ txs' = [txs EXCEPT ![c][k] = s]
        /\ s = "applied" => Valid(ix, chain[m])
                            /\ chain' = [chain EXCEPT ![m] = chain[m] \ ix.drops]
        /\ s = "failed" => ~Valid(ix, chain[m]) /\ UNCHANGED chain
  BY <1>1, Validity DEF Land
<1>3. \A q \in Calls, j \in Attempts :
        txs'[q][j] = IF q = c /\ j = k THEN s ELSE txs[q][j]
  BY <1>1, <1>2 DEF TypeOK
<1>4. TypeOK'
  <2>1. txs' \in [Calls -> [Attempts -> TxStates]]
    BY <1>2 DEF TypeOK, TxStates
  <2>2. chain' \in [Mints -> SUBSET Facts]
    BY <1>1, <1>2 DEF TypeOK
  <2> QED
    BY <1>1, <2>1, <2>2 DEF TypeOK
<1>5. CallConsistent'
  BY <1>1, <1>3 DEF CallConsistent, Attempt
<1>6. \A n \in Mints : chain'[n] \subseteq chain[n]
  BY <1>1, <1>2 DEF TypeOK
<1>7. RevokedMeansGone'
  <2>1. \A q \in Calls : answer[q] = "revoked" => target[q] \in Mints
    BY DEF CallConsistent
  <2> QED
    BY <1>1, <1>6, <2>1 DEF RevokedMeansGone, Preflight
<1>8. CASE s = "failed"
  <2>1. \A n, p : Takers(n, p)' = Takers(n, p)
    BY <1>1, <1>3, <1>8, SameTakers DEF Applied
  <2>2. AppliedMeansGone' /\ LostMeansTaken' /\ TakerIsUnique' /\ InFlightMeansValid'
    BY <1>1, <1>2, <1>3, <1>8, <2>1
       DEF AppliedMeansGone, LostMeansTaken, TakerIsUnique, InFlightMeansValid, Applied
  <2>3. \E p \in ix.needs : Takers(m, p) # {}
    BY <1>1, <1>2, <1>8, Validity DEF InFlightMeansValid
  <2>4. FailedMeansTaken'
    BY <1>1, <1>3, <1>8, <2>1, <2>3 DEF FailedMeansTaken
  <2> QED
    BY <1>4, <1>5, <1>7, <2>2, <2>4
<1>9. CASE s = "applied" /\ op[c] = "metadata"
  <2>1. chain' = chain
    <3>1. \A n \in Mints : chain'[n] = chain[n]
      <4>1. ix.drops = {}
        BY <1>1, <1>9, Instructions
      <4> QED
        BY <1>2, <1>9, <4>1 DEF TypeOK
    <3> QED
      BY <1>4, <3>1 DEF TypeOK
  <2>2. \A n, p : Takers(n, p)' = Takers(n, p)
    BY <1>1, <1>3, <1>9 DEF Takers
  <2>3. AppliedMeansGone' /\ LostMeansTaken' /\ TakerIsUnique'
    BY <1>1, <1>3, <1>9, <2>1, <2>2
       DEF AppliedMeansGone, LostMeansTaken, TakerIsUnique
  <2>4. InFlightMeansValid' /\ FailedMeansTaken'
    BY <1>1, <1>3, <1>9, <2>1, <2>2 DEF InFlightMeansValid, FailedMeansTaken
  <2> QED
    BY <1>4, <1>5, <1>7, <2>3, <2>4
<1>10. CASE s = "applied" /\ op[c] # "metadata"
  <2> DEFINE p == Power(op[c])
  <2>1. p \in Powers /\ p \in chain[m] /\ Takers(m, p) = {}
    BY <1>1, <1>2, <1>10, FirstTaker
  <2>2. chain' = [chain EXCEPT ![m] = chain[m] \ {p}]
    BY <1>1, <1>2, <1>10, Instructions
  <2>3. \A n, f : Takers(n, f)' = IF n = m /\ f = p THEN {<<c, k>>} ELSE Takers(n, f)
    <3>1. ASSUME NEW n, NEW f, NEW a \in Calls \X Attempts
          PROVE  a \in Takers(n, f)' <=>
                   a \in Takers(n, f) \/ (a = <<c, k>> /\ n = m /\ f = p)
      <4>1. CASE a = <<c, k>>
        BY <1>1, <1>3, <1>10, <4>1 DEF Takers, Applied
      <4>2. CASE a # <<c, k>>
        <5>1. txs'[a[1]][a[2]] = txs[a[1]][a[2]]
          BY <1>3, <4>2
        <5> QED
          BY <1>1, <4>2, <5>1 DEF Takers
      <4> QED
        BY <4>1, <4>2
    <3>2. \A n, f : Takers(n, f) \subseteq Calls \X Attempts
                    /\ Takers(n, f)' \subseteq Calls \X Attempts
      BY DEF Takers
    <3> HIDE DEF p, m
    <3> QED
      BY <2>1, <3>1, <3>2
  <2>4. \A n, f : Takers(n, f) # {} => Takers(n, f)' # {}
    BY <2>3
  <2>5. AppliedMeansGone'
    <3> SUFFICES ASSUME NEW q \in Calls, NEW j \in Attempts, op[q] # "metadata"
                 PROVE  /\ txs'[q][j] \in Applied => Power(op[q]) \notin chain'[target[q]]
                        /\ txs'[q][j] = "appliedFinal" => Power(op[q]) \notin final[target[q]]
      BY <1>1 DEF AppliedMeansGone
    <3>1. txs[q][j] # "none" => target[q] \in Mints
      BY DEF CallConsistent
    <3>2. CASE q = c /\ j = k
      <4>1. txs'[q][j] = "applied"
        BY <1>3, <1>10, <3>2
      <4>2. Power(op[q]) \notin chain'[target[q]]
        BY <1>1, <2>2, <3>2 DEF TypeOK
      <4> QED
        BY <4>1, <4>2
    <3>3. CASE ~(q = c /\ j = k)
      <4>1. txs'[q][j] = txs[q][j]
        BY <1>3, <3>3
      <4> HIDE DEF p, m
      <4> QED
        BY <1>6, <3>1, <4>1 DEF AppliedMeansGone, Applied
    <3> QED
      BY <3>2, <3>3
  <2>6. LostMeansTaken'
    <3> SUFFICES ASSUME NEW n \in Mints
                 PROVE  /\ chain'[n] \subseteq final[n]
                        /\ \A f \in final[n] \ chain'[n] : Takers(n, f)' # {}
      BY <1>1 DEF LostMeansTaken
    <3>1. \A f \in chain[n] \ chain'[n] : n = m /\ f = p
      BY <1>1, <2>2 DEF TypeOK
    <3> QED
      BY <1>6, <2>3, <2>4, <3>1 DEF LostMeansTaken
  <2>7. TakerIsUnique'
    BY <2>3 DEF TakerIsUnique
  <2>8. InFlightMeansValid'
    <3> SUFFICES ASSUME NEW q \in Calls, NEW j \in Attempts, txs'[q][j] = "inFlight",
                        NEW n, n = target[q], NEW f \in RevokeInstruction(op[q]).needs
                 PROVE  f \in chain'[n] \/ Takers(n, f)' # {}
      BY <1>1 DEF InFlightMeansValid
    <3>1. f \in chain[n] \/ Takers(n, f) # {}
      BY <1>3, <1>10 DEF InFlightMeansValid
    <3>2. n \in Mints
      BY <1>3, <1>10 DEF CallConsistent
    <3>3. f \in chain[n] => f \in chain'[n] \/ (n = m /\ f = p)
      BY <1>1, <2>2, <3>2 DEF TypeOK
    <3> QED
      BY <2>3, <2>4, <3>1, <3>3
  <2>9. FailedMeansTaken'
    BY <1>1, <1>3, <1>10, <2>4 DEF FailedMeansTaken
  <2> QED
    BY <1>4, <1>5, <1>7, <2>5, <2>6, <2>7, <2>8, <2>9
<1> QED
  BY <1>2, <1>8, <1>9, <1>10

LEMMA FinalizeStep ==
  ASSUME IInv, NEW m \in Mints, Finalize(m)
  PROVE  IInv'
<1> USE DEF IInv, call
<1>1. /\ final' = [final EXCEPT ![m] = chain[m]]
      /\ UNCHANGED <<chain, stage, answer, op, target, tries, expired>>
  BY DEF Finalize
<1>2. \A q \in Calls, j \in Attempts :
        txs'[q][j] = IF target[q] = m THEN Finality(txs[q][j]) ELSE txs[q][j]
  BY DEF Finalize
<1>3. \A q \in Calls, j \in Attempts :
        /\ txs'[q][j] \in TxStates
        /\ txs'[q][j] \in Applied <=> txs[q][j] \in Applied
        /\ \A t \in {"none", "inFlight"} : txs'[q][j] = t <=> txs[q][j] = t
        /\ txs'[q][j] \in {"failed", "failedFinal"}
             <=> txs[q][j] \in {"failed", "failedFinal"}
  BY <1>2 DEF Finality, Applied, TxStates, TypeOK
<1>4. TypeOK'
  <2>1. txs' \in [Calls -> [Attempts -> TxStates]]
    <3>1. txs' = [c \in Calls |-> IF target[c] = m
                                  THEN [k \in Attempts |-> Finality(txs[c][k])]
                                  ELSE txs[c]]
      BY DEF Finalize
    <3>2. \A c \in Calls : txs'[c] \in [Attempts -> TxStates]
      BY <3>1 DEF Finality, TxStates, TypeOK
    <3> QED
      BY <3>1, <3>2
  <2>2. final' \in [Mints -> SUBSET Facts]
    BY <1>1 DEF TypeOK
  <2> QED
    BY <1>1, <2>1, <2>2 DEF TypeOK
<1>5. CallConsistent'
  BY <1>1, <1>3 DEF CallConsistent, Attempt
<1>6. \A n, p : Takers(n, p)' = Takers(n, p)
  BY <1>1, <1>3, SameTakers
<1>7. AppliedMeansGone'
  BY <1>1, <1>2, <1>3 DEF AppliedMeansGone, Applied, TypeOK
<1>8. LostMeansTaken'
  BY <1>1, <1>6 DEF LostMeansTaken, TypeOK
<1>9. TakerIsUnique' /\ InFlightMeansValid' /\ FailedMeansTaken'
  BY <1>1, <1>3, <1>6 DEF TakerIsUnique, InFlightMeansValid, FailedMeansTaken
<1>10. RevokedMeansGone'
  <2>1. \A q \in Calls : answer[q] = "revoked" => target[q] \in Mints
    BY DEF CallConsistent
  <2>2. \A n \in Mints : final'[n] \subseteq final[n]
    BY <1>1 DEF LostMeansTaken, TypeOK
  <2> QED
    BY <1>1, <2>1, <2>2 DEF RevokedMeansGone, Preflight
<1> QED
  BY <1>4, <1>5, <1>7, <1>8, <1>9, <1>10

LEMMA ExpireStep ==
  ASSUME IInv, NEW c \in Calls, Expire(c)
  PROVE  IInv'
<1>1. expired' \in [Calls -> Nat]
  BY DEF Expire, IInv, TypeOK
<1>2. UNCHANGED <<chain, final, stage, answer, op, target, tries, txs>>
  BY DEF Expire, ledger, call
<1>3. \A n, p : Takers(n, p)' = Takers(n, p)
  BY <1>2, SameTakers
<1> QED
  BY <1>1, <1>2, <1>3
     DEF IInv, TypeOK, CallConsistent, Attempt, AppliedMeansGone, LostMeansTaken,
         InFlightMeansValid, TakerIsUnique, RevokedMeansGone, Preflight, FailedMeansTaken
-----------------------------------------------------------------------------
(* The service and the invariant *)

\* What an answer needs: a confirmed transaction that was applied has taken its
\* power at the commitment that was waited for.
LEMMA SeenApplied ==
  ASSUME IInv, NEW c \in Calls, NEW k \in Attempts, op[c] # "metadata",
         txs[c][k] \in SeenBy(c) \cap Applied
  PROVE  /\ Power(op[c]) \notin Preflight(c)
         /\ Power(op[c]) \notin chain[target[c]]
BY DEF IInv, AppliedMeansGone, SeenBy, Preflight, Applied

LEMMA ConfirmedStep ==
  ASSUME IInv, NEW c \in Calls, Confirmed(c)
  PROVE  \E a \in Answers \ {"pending"} :
           /\ Answer(c, a)
           /\ a = "revoked" /\ op[c] # "metadata" =>
                /\ Power(op[c]) \notin Preflight(c)
                /\ Power(op[c]) \notin chain[target[c]]
<1> DEFINE k == Attempt(c)
           a == IF txs[c][k] \in Applied THEN "revoked" ELSE "allAttemptsFailed"
<1>1. /\ k \in Attempts /\ txs[c][k] \in SeenBy(c)
      /\ Answer(c, a)
  BY RetriesAssumption
     DEF Confirmed, At, Attempt, Attempts, IInv, TypeOK, CallConsistent
<1>2. a \in Answers \ {"pending"}
  BY DEF Answers
<1>3. a = "revoked" => txs[c][k] \in Applied
  OBVIOUS
<1> HIDE DEF k, a
<1> QED
  BY <1>1, <1>2, <1>3, SeenApplied

LEMMA InvStep == IInv /\ [Next]_vars => IInv'
<1> SUFFICES ASSUME IInv, [Next]_vars
             PROVE  IInv'
  OBVIOUS
<1>1. ASSUME NEW c \in Calls, NEW o \in Ops, NEW m \in Mints, Request(c, o, m)
      PROVE  IInv'
  BY <1>1, RequestStep
<1>2. ASSUME NEW c \in Calls, Validate(c) \/ GetLatestBlockhash(c) \/ Backoff(c)
      PROVE  IInv'
  <2>1. /\ stage[c] \notin {"idle", "confirm"} /\ answer[c] = "pending"
        /\ UNCHANGED <<ledger, op, target, tries, txs, expired>>
        /\ \/ \E s \in Stages \ {"idle", "confirm"} : Goto(c, s)
           \/ \E a \in Answers \ {"pending"} : a # "revoked" /\ Answer(c, a)
    BY <1>2 DEF Validate, GetLatestBlockhash, Backoff, At, Stages, Answers
  <2> QED
    BY <2>1, LocalStep
<1>3. ASSUME NEW c \in Calls, SendTransaction(c)
      PROVE  IInv'
  BY <1>3, SendStep
<1>4. ASSUME NEW c \in Calls, Confirmed(c)
      PROVE  IInv'
  <2>1. /\ stage[c] # "idle" /\ answer[c] = "pending"
        /\ UNCHANGED <<ledger, op, target, tries, txs, expired>>
    BY <1>4 DEF Confirmed, At
  <2> QED
    BY <1>4, <2>1, ConfirmedStep, LocalStep
<1>5. ASSUME NEW c \in Calls, BlockheightExceeded(c) \/ ConfirmFails(c)
      PROVE  IInv'
  <2>1. /\ stage[c] = "confirm" /\ answer[c] = "pending" /\ Caught(c)
        /\ UNCHANGED <<ledger, op, target, txs, expired>>
    BY <1>5 DEF BlockheightExceeded, TimedOut, ConfirmFails, At
  <2> QED
    BY <2>1, LocalStep
<1>6. ASSUME NEW c \in Calls, Abort(c)
      PROVE  IInv'
  <2>1. /\ stage[c] # "idle" /\ answer[c] = "pending" /\ Answer(c, "aborted")
        /\ UNCHANGED <<ledger, op, target, tries, txs, expired>>
    BY <1>6 DEF Abort, Active
  <2> QED
    BY <2>1, LocalStep DEF Answers
<1>7. ASSUME NEW c \in Calls, NEW k \in Attempts, Land(c, k)
      PROVE  IInv'
  BY <1>7, LandStep
<1>8. ASSUME NEW m \in Mints, Finalize(m)
      PROVE  IInv'
  BY <1>8, FinalizeStep
<1>9. ASSUME NEW c \in Calls, Expire(c)
      PROVE  IInv'
  BY <1>9, ExpireStep
<1>10. CASE UNCHANGED vars
  <2>1. \A n, p : Takers(n, p)' = Takers(n, p)
    BY <1>10, SameTakers DEF vars, call
  <2> QED
    BY <1>10, <2>1
       DEF vars, call, ledger, IInv, TypeOK, CallConsistent, Attempt, AppliedMeansGone,
           LostMeansTaken, InFlightMeansValid, TakerIsUnique, RevokedMeansGone,
           Preflight, FailedMeansTaken
<1> QED
  BY <1>1, <1>2, <1>3, <1>4, <1>5, <1>6, <1>7, <1>8, <1>9, <1>10 DEF Next, ServiceStep

\* The inductive invariant of the revoke operations.
THEOREM InvariantTheorem == Spec => []IInv
BY InvInit, InvStep, PTL DEF Spec

\* The variables keep their types.
THEOREM TypeTheorem == Spec => []TypeOK
<1>1. IInv => TypeOK
  BY DEF IInv
<1> QED
  BY <1>1, InvariantTheorem, PTL

\* A call that is told "revoked" is told the truth at its commitment, for good,
\* whatever the retries, the late transactions and the other calls do.
THEOREM RevokedTheorem == Spec => []RevokedMeansGone
<1>1. IInv => RevokedMeansGone
  BY DEF IInv
<1> QED
  BY <1>1, InvariantTheorem, PTL

\* A transaction fails on chain only because another attempt took what it needs.
THEOREM FailedTheorem == Spec => []FailedMeansTaken
<1>1. IInv => FailedMeansTaken
  BY DEF IInv
<1> QED
  BY <1>1, InvariantTheorem, PTL

LEMMA UniqueIsSingle ==
  ASSUME NEW S, \A s, t \in S : s = t
  PROVE  Cardinality(S) <= 1
<1>1. CASE S = {}
  BY <1>1, FS_EmptySet
<1>2. CASE S # {}
  <2>1. PICK x : S = {x}
    BY <1>2
  <2> QED
    BY <2>1, FS_Singleton
<1> QED
  BY <1>1, <1>2

\* Every power of a token is taken by one attempt of one call at most.
THEOREM OnceTheorem == Spec => []AppliedAtMostOnce
<1>1. IInv => AppliedAtMostOnce
  BY UniqueIsSingle DEF IInv, TakerIsUnique, AppliedAtMostOnce
<1> QED
  BY <1>1, InvariantTheorem, PTL
-----------------------------------------------------------------------------
(* Every call runs out of steps *)

\* What a call does takes it nearer to its answer and leaves the others where they are.
LEMMA NearerToAnswer ==
  ASSUME IInv, NEW c \in Calls, answer[c] = "pending",
         \/ Caught(c) /\ stage[c] \in {"send", "confirm"}
         \/ UNCHANGED tries /\ \E a \in Answers \ {"pending"} : Answer(c, a)
         \/ UNCHANGED tries /\ \E s \in Stages :
              StepsInTry(s) < StepsInTry(stage[c]) /\ Goto(c, s)
  PROVE  \A q \in Calls :
           \/ UNCHANGED <<stage[q], answer[q], tries[q]>>
           \/ StepsLeft(q)' \in 0..(StepsLeft(q) - 1)
<1> DEFINE rest == 3 * (MaxRetries - tries[c] - 1)
<1>1. TypeOK /\ tries[c] \in Nat /\ MaxRetries \in Nat /\ tries[c] < MaxRetries
  BY RetriesAssumption DEF IInv, TypeOK, CallConsistent
<1>2. rest \in Nat /\ 3 * (MaxRetries - (tries[c] + 1) - 1) + 3 = rest
  BY <1>1
<1>3. \A s \in Stages : StepsInTry(s) \in 1..5
  BY DEF Stages, StepsInTry
<1>4. stage[c] \in Stages /\ StepsLeft(c) = rest + StepsInTry(stage[c])
  BY <1>1 DEF StepsLeft, TypeOK
<1>5. \A q \in Calls : q # c => UNCHANGED <<stage[q], answer[q], tries[q]>>
  BY <1>1 DEF Caught, Answer, Goto, TypeOK
<1>6. ASSUME NEW a \in Answers \ {"pending"}, Answer(c, a)
      PROVE  StepsLeft(c)' \in 0..(StepsLeft(c) - 1)
  <2>1. StepsLeft(c)' = 0
    BY <1>1, <1>6 DEF Answer, StepsLeft, TypeOK
  <2> HIDE DEF rest
  <2> QED
    BY <1>2, <1>3, <1>4, <2>1
<1>7. ASSUME UNCHANGED tries, NEW s \in Stages, Goto(c, s),
             StepsInTry(s) < StepsInTry(stage[c])
      PROVE  StepsLeft(c)' \in 0..(StepsLeft(c) - 1)
  <2>1. StepsLeft(c)' = rest + StepsInTry(s)
    BY <1>1, <1>7 DEF Goto, StepsLeft, TypeOK
  <2> HIDE DEF rest
  <2> QED
    BY <1>2, <1>3, <1>4, <1>7, <2>1
<1>8. ASSUME Caught(c), stage[c] \in {"send", "confirm"}
      PROVE  StepsLeft(c)' \in 0..(StepsLeft(c) - 1)
  <2>1. tries'[c] = tries[c] + 1
    BY <1>1, <1>8 DEF Caught, TypeOK
  <2>2. CASE tries'[c] = MaxRetries
    <3>1. Answer(c, "afterAttempts")
      BY <1>8, <2>2 DEF Caught
    <3>2. "afterAttempts" \in Answers \ {"pending"}
      BY DEF Answers
    <3> HIDE DEF rest
    <3> QED
      BY <1>6, <3>1, <3>2
  <2>3. CASE tries'[c] # MaxRetries
    <3>1. Goto(c, "backoff")
      BY <1>8, <2>3 DEF Caught
    <3>2. stage'[c] = "backoff" /\ answer'[c] = "pending"
      BY <1>1, <3>1 DEF Goto, TypeOK
    <3>3. StepsLeft(c)' = 3 * (MaxRetries - tries'[c] - 1) + 3
      BY <3>2 DEF StepsLeft, StepsInTry
    <3>4. 3 * (MaxRetries - tries'[c] - 1) + 3 = rest
      BY <1>2, <2>1
    <3> HIDE DEF rest
    <3>5. StepsLeft(c)' = rest
      BY <3>3, <3>4
    <3>6. rest \in Nat
      BY <1>2
    <3> QED
      BY <1>3, <1>4, <3>5, <3>6
  <2> QED
    BY <2>2, <2>3
<1> HIDE DEF rest
<1> QED
  BY <1>5, <1>6, <1>7, <1>8

\* No call goes on for ever: each step of its own uses one up, and nothing else does
\* anything to it.  This is the part of CallEnds that needs no fairness.
THEOREM RunOutTheorem == Spec => RetriesRunOut
<1> DEFINE Nearer(q) == \/ UNCHANGED <<stage[q], answer[q], tries[q]>>
                        \/ StepsLeft(q)' \in 0..(StepsLeft(q) - 1)
<1>1. ASSUME IInv, Next
      PROVE  \A q \in Calls : Nearer(q)
  <2> USE <1>1
  <2>1. \A s, t \in Stages :
          StepsInTry(s) < StepsInTry(t) <=>
            \/ t = "idle" /\ s # "idle"
            \/ t = "validate" /\ s \notin {"idle", "validate"}
            \/ t \in {"blockhash", "backoff"} /\ s \in {"send", "confirm"}
            \/ t = "send" /\ s = "confirm"
    BY DEF Stages, StepsInTry
  <2>2. ASSUME NEW c \in Calls, NEW o \in Ops, NEW m \in Mints, Request(c, o, m)
        PROVE  \A q \in Calls : Nearer(q)
    <3>1. answer[c] = "pending" /\ stage[c] = "idle"
      BY <2>2 DEF Request, IInv, CallConsistent
    <3>2. UNCHANGED tries /\ Goto(c, "validate")
      BY <2>2 DEF Request
    <3> QED
      BY <2>1, <3>1, <3>2, NearerToAnswer DEF Stages
  <2>3. ASSUME NEW c \in Calls, Validate(c) \/ GetLatestBlockhash(c) \/ Backoff(c)
        PROVE  \A q \in Calls : Nearer(q)
    <3>1. /\ answer[c] = "pending" /\ UNCHANGED tries
          /\ \/ stage[c] = "validate" /\ Goto(c, "blockhash")
             \/ stage[c] \in {"blockhash", "backoff"} /\ Goto(c, "send")
             \/ Answer(c, "invalid")
      BY <2>3 DEF Validate, GetLatestBlockhash, Backoff, At
    <3> QED
      BY <2>1, <3>1, NearerToAnswer DEF Stages, Answers
  <2>4. ASSUME NEW c \in Calls, SendTransaction(c)
        PROVE  \A q \in Calls : Nearer(q)
    <3>1. /\ answer[c] = "pending" /\ stage[c] = "send"
          /\ Caught(c) \/ (UNCHANGED tries /\ Goto(c, "confirm"))
      BY <2>4 DEF SendTransaction, At
    <3> QED
      BY <2>1, <3>1, NearerToAnswer DEF Stages
  <2>5. ASSUME NEW c \in Calls, Confirmed(c) \/ Abort(c)
        PROVE  \A q \in Calls : Nearer(q)
    <3>1. /\ answer[c] = "pending" /\ UNCHANGED tries
          /\ \E a \in Answers \ {"pending"} : Answer(c, a)
      BY <2>5 DEF Confirmed, Abort, At, Active, Answers
    <3> QED
      BY <3>1, NearerToAnswer
  <2>6. ASSUME NEW c \in Calls, BlockheightExceeded(c) \/ ConfirmFails(c)
        PROVE  \A q \in Calls : Nearer(q)
    <3>1. answer[c] = "pending" /\ stage[c] = "confirm" /\ Caught(c)
      BY <2>6 DEF BlockheightExceeded, TimedOut, ConfirmFails, At
    <3> QED
      BY <3>1, NearerToAnswer
  <2>7. ASSUME \/ \E c \in Calls, k \in Attempts : Land(c, k)
               \/ \E m \in Mints : Finalize(m)
               \/ \E c \in Calls : Expire(c)
        PROVE  \A q \in Calls : Nearer(q)
    BY <2>7 DEF Land, Finalize, Expire, call
  <2> HIDE DEF Nearer
  <2> QED
    BY <2>2, <2>3, <2>4, <2>5, <2>6, <2>7 DEF Next, ServiceStep
<1>2. UNCHANGED vars => \A q \in Calls : Nearer(q)
  BY DEF vars, call
<1>3. IInv /\ [Next]_vars =>
        [\A c \in Calls :
           \/ UNCHANGED <<stage[c], answer[c], tries[c]>>
           \/ StepsLeft(c)' \in 0..(StepsLeft(c) - 1)]_vars
  BY <1>1, <1>2
<1> QED
  BY <1>3, InvariantTheorem, PTL DEF Spec, RetriesRunOut

-----------------------------------------------------------------------------
(* The promise *)

Held  == [m \in Mints |-> chain[m] \cap Powers]
Asked == [c \in Calls |-> IF Promising(c) THEN {<<target[c], Power(op[c])>>} ELSE {}]
Heard == [c \in Calls |-> IF Promising(c) THEN Told(answer[c]) ELSE "nothing"]

LEMMA PromiseInit == Init => Promise!Init
BY DEF Init, Promise!Init, Promising

\* A call that is answered is told so.
LEMMA AnswerStep ==
  ASSUME IInv, NEW c \in Calls, NEW a \in Answers \ {"pending"},
         stage[c] # "idle", answer[c] = "pending", Answer(c, a),
         UNCHANGED <<chain, op, target>>,
         a = "revoked" /\ op[c] # "metadata" => Power(op[c]) \notin chain[target[c]]
  PROVE  [Promise!Next]_(Promise!vars)
<1> USE DEF IInv, TypeOK
<1>1. /\ answer' = [answer EXCEPT ![c] = a] /\ UNCHANGED stage
      /\ target[c] \in Mints
  BY DEF Answer, CallConsistent
<1>2. UNCHANGED <<Held, Asked>>
  BY <1>1 DEF Held, Asked, Promising
<1>3. CASE op[c] = "metadata"
  <2>1. UNCHANGED Heard
    BY <1>1, <1>3 DEF Heard, Promising
  <2> QED
    BY <1>2, <2>1 DEF Promise!vars, Held, Asked, Heard
<1>4. CASE op[c] # "metadata"
  <2>1. /\ Heard[c] = "nothing" /\ Asked[c] = {<<target[c], Power(op[c])>>}
        /\ Heard' = [Heard EXCEPT ![c] = Told(a)]
    BY <1>1, <1>4 DEF Heard, Asked, Promising, Told
  <2>2. CASE a = "revoked"
    <3>1. Power(op[c]) \in Powers /\ Power(op[c]) \notin Held[target[c]]
      BY <1>1, <1>4, <2>2, Instructions DEF Held
    <3>2. Promise!Succeed(c)
      BY <1>1, <1>2, <2>1, <2>2, <3>1 DEF Promise!Succeed, Held, Asked, Heard, Told
    <3> QED
      BY <3>2 DEF Promise!Next
  <2>3. CASE a # "revoked"
    <3>1. Promise!Fail(c)
      BY <1>2, <2>1, <2>3 DEF Promise!Fail, Held, Asked, Heard, Told
    <3> QED
      BY <3>1 DEF Promise!Next
  <2> QED
    BY <2>2, <2>3
<1> QED
  BY <1>3, <1>4

\* A call that goes on hears nothing.
LEMMA SilentStep ==
  ASSUME IInv, NEW c \in Calls, NEW s \in Stages \ {"idle"},
         stage[c] # "idle", Goto(c, s), UNCHANGED <<chain, op, target>>
  PROVE  UNCHANGED Promise!vars
<1>1. \A q \in Calls : stage'[q] = "idle" <=> stage[q] = "idle"
  BY DEF Goto, IInv, TypeOK
<1>2. UNCHANGED <<Held, Asked, Heard>>
  BY <1>1 DEF Goto, Held, Asked, Heard, Promising
<1> QED
  BY <1>2 DEF Promise!vars, Held, Asked, Heard

\* A transaction that is applied takes the power its call names, or nothing.
LEMMA LoseStep ==
  ASSUME IInv, NEW c \in Calls, NEW k \in Attempts, Land(c, k)
  PROVE  [Promise!Next]_(Promise!vars)
<1> USE DEF IInv, TypeOK, call
<1>1. /\ txs[c][k] = "inFlight" /\ target[c] \in Mints /\ op[c] \in Ops
      /\ stage[c] # "idle" /\ UNCHANGED <<stage, answer, op, target>>
  BY DEF Land, CallConsistent
<1>2. UNCHANGED <<Asked, Heard>>
  BY <1>1 DEF Asked, Heard, Promising
<1>3. CASE UNCHANGED chain
  BY <1>2, <1>3 DEF Promise!vars, Held, Asked, Heard
<1>4. CASE /\ Valid(RevokeInstruction(op[c]), chain[target[c]])
           /\ chain' = [chain EXCEPT
                ![target[c]] = chain[target[c]] \ RevokeInstruction(op[c]).drops]
  <2>1. CASE op[c] = "metadata"
    <3>1. RevokeInstruction(op[c]).drops = {}
      BY <1>1, <2>1, Instructions
    <3>2. chain' = chain
      BY <1>1, <1>4, <3>1
    <3> QED
      BY <1>3, <3>2
  <2>2. CASE op[c] # "metadata"
    <3> DEFINE p == Power(op[c])
               m == target[c]
    <3>1. p \in Powers /\ p \in chain[m]
      BY <1>1, <1>4, <2>2, FirstTaker
    <3>2. chain' = [chain EXCEPT ![m] = chain[m] \ {p}]
      BY <1>1, <1>4, <2>2, Instructions
    <3>3. Held' = [Held EXCEPT ![m] = Held[m] \ {p}] /\ p \in Held[m]
      BY <1>1, <3>1, <3>2 DEF Held
    <3>4. <<m, p>> \in Asked[c]
      BY <1>1, <2>2 DEF Asked, Promising
    <3>5. PICK n \in Mints, f \in Powers : n = m /\ f = p
      BY <1>1, <3>1
    <3> HIDE DEF m, p
    <3>6. Promise!Lose(n, f)
      BY <1>2, <3>3, <3>4, <3>5 DEF Promise!Lose, Held, Asked, Heard
    <3> QED
      BY <3>6 DEF Promise!Next
  <2> QED
    BY <2>1, <2>2
<1> QED
  BY <1>1, <1>3, <1>4, Validity DEF Land

LEMMA PromiseStep == IInv /\ [Next]_vars => [Promise!Next]_(Promise!vars)
<1> SUFFICES ASSUME IInv, [Next]_vars
             PROVE  [Promise!Next]_(Promise!vars)
  OBVIOUS
<1> USE DEF ledger, call
<1>1. ASSUME NEW c \in Calls, NEW o \in Ops, NEW m \in Mints, Request(c, o, m)
      PROVE  [Promise!Next]_(Promise!vars)
  <2>1. /\ stage[c] = "idle" /\ answer[c] = "pending"
        /\ stage' = [stage EXCEPT ![c] = "validate"]
        /\ op' = [op EXCEPT ![c] = o]
        /\ target' = [target EXCEPT ![c] = m]
        /\ UNCHANGED <<chain, answer>>
    BY <1>1 DEF Request, Goto, IInv, CallConsistent
  <2>2. Asked[c] = {}
    BY <2>1 DEF Asked, Promising
  <2>3. UNCHANGED <<Held, Heard>>
    BY <2>1 DEF Held, Heard, Promising, Told, IInv, TypeOK
  <2>4. CASE o = "metadata"
    <3>1. UNCHANGED Asked
      BY <2>1, <2>4 DEF Asked, Promising, IInv, TypeOK
    <3> QED
      BY <2>3, <3>1 DEF Promise!vars, Held, Asked, Heard
  <2>5. CASE o # "metadata"
    <3>1. Asked' = [Asked EXCEPT ![c] = {<<m, Power(o)>>}]
      BY <2>1, <2>5 DEF Asked, Promising, IInv, TypeOK
    <3>2. PICK p \in Powers : p = Power(o)
      BY <2>5, Instructions
    <3>3. Promise!Ask(c, m, p)
      BY <2>2, <2>3, <3>1, <3>2 DEF Promise!Ask, Held, Asked, Heard
    <3> QED
      BY <3>3 DEF Promise!Next
  <2> QED
    BY <2>4, <2>5
<1>2. ASSUME NEW c \in Calls, Validate(c) \/ GetLatestBlockhash(c) \/ Backoff(c)
      PROVE  [Promise!Next]_(Promise!vars)
  <2>1. /\ stage[c] # "idle" /\ answer[c] = "pending"
        /\ UNCHANGED <<chain, op, target>>
        /\ \/ \E s \in Stages \ {"idle"} : Goto(c, s)
           \/ \E a \in Answers \ {"pending"} : a # "revoked" /\ Answer(c, a)
    BY <1>2 DEF Validate, GetLatestBlockhash, Backoff, At, Stages, Answers
  <2> QED
    BY <2>1, AnswerStep, SilentStep
<1>3. ASSUME NEW c \in Calls,
             SendTransaction(c) \/ BlockheightExceeded(c) \/ ConfirmFails(c)
      PROVE  [Promise!Next]_(Promise!vars)
  <2>1. /\ stage[c] # "idle" /\ answer[c] = "pending"
        /\ UNCHANGED <<chain, op, target>>
        /\ \/ \E s \in Stages \ {"idle"} : Goto(c, s)
           \/ Answer(c, "afterAttempts")
    BY <1>3 DEF SendTransaction, BlockheightExceeded, TimedOut, ConfirmFails, Caught,
                At, Stages
  <2>2. "afterAttempts" \in Answers
    BY DEF Answers
  <2> QED
    BY <2>1, <2>2, AnswerStep, SilentStep
<1>4. ASSUME NEW c \in Calls, Confirmed(c)
      PROVE  [Promise!Next]_(Promise!vars)
  <2>1. /\ stage[c] # "idle" /\ answer[c] = "pending"
        /\ UNCHANGED <<chain, op, target>>
    BY <1>4 DEF Confirmed, At
  <2> QED
    BY <1>4, <2>1, ConfirmedStep, AnswerStep
<1>5. ASSUME NEW c \in Calls, Abort(c)
      PROVE  [Promise!Next]_(Promise!vars)
  <2>1. /\ stage[c] # "idle" /\ answer[c] = "pending" /\ Answer(c, "aborted")
        /\ UNCHANGED <<chain, op, target>> /\ "aborted" \in Answers
    BY <1>5 DEF Abort, Active, Answers
  <2> QED
    BY <2>1, AnswerStep
<1>6. ASSUME NEW c \in Calls, NEW k \in Attempts, Land(c, k)
      PROVE  [Promise!Next]_(Promise!vars)
  BY <1>6, LoseStep
<1>7. ASSUME UNCHANGED <<chain, stage, answer, op, target>>
      PROVE  UNCHANGED Promise!vars
  BY <1>7 DEF Promise!vars, Promising
<1>8. ASSUME NEW m \in Mints, Finalize(m)
      PROVE  [Promise!Next]_(Promise!vars)
  BY <1>7, <1>8 DEF Finalize
<1>9. ASSUME NEW c \in Calls, Expire(c)
      PROVE  [Promise!Next]_(Promise!vars)
  BY <1>7, <1>9 DEF Expire
<1>10. CASE UNCHANGED vars
  BY <1>7, <1>10 DEF vars
<1> QED
  BY <1>1, <1>2, <1>3, <1>4, <1>5, <1>6, <1>8, <1>9, <1>10 DEF Next, ServiceStep

\* The revoke operations implement RevokePromise.
THEOREM PromiseTheorem == Spec => PromiseKept
BY PromiseInit, PromiseStep, InvariantTheorem, PTL DEF Spec, PromiseKept, Promise!Spec

-----------------------------------------------------------------------------
(* How far a divergence of the runs reaches *)

\* Of what a token was created with, revocation takes nothing but the three powers.
RestUntouched ==
  \A m \in Mints : CreatedToken \subseteq chain[m] /\ CreatedToken \subseteq final[m]

\* No operation ever removes the update authority of a token, although two of them
\* report that they did: UpdateAuthorityRevoked fails for every token and every call
\* (revokeUpdateAuthority, revokeMetadataUpdateAuthority).
THEOREM RestTheorem == Spec => []RestUntouched
<1>1. Init => RestUntouched
  BY DEF Init, RestUntouched
<1>2. ASSUME IInv, RestUntouched, [Next]_vars
      PROVE  RestUntouched'
  <2>1. ASSUME NEW c \in Calls, NEW k \in Attempts, Land(c, k)
        PROVE  RestUntouched'
    <3> DEFINE m == target[c]
    <3>1. m \in Mints /\ op[c] \in Ops
      <4>1. op[c] \in Ops /\ txs[c][k] = "inFlight"
        BY <1>2, <2>1 DEF IInv, TypeOK, Land
      <4>2. stage[c] # "idle"
        BY <1>2, <4>1 DEF IInv, CallConsistent
      <4> QED
        BY <1>2, <4>1, <4>2 DEF IInv, CallConsistent
    <3>2. /\ final' = final
          /\ \/ chain' = chain
             \/ chain' = [chain EXCEPT ![m] = After(RevokeInstruction(op[c]), chain[m])]
      BY <2>1 DEF Land
    <3>3. CreatedToken \cap RevokeInstruction(op[c]).drops = {}
      <4>1. \A p \in RevokeInstruction(op[c]).drops : p \in Powers
        BY <3>1, Instructions
      <4> QED
        BY <4>1 DEF Powers, CreatedToken
    <3> QED
      BY <1>2, <3>1, <3>2, <3>3, Instructions DEF RestUntouched, After, IInv, TypeOK
  <2>2. ASSUME NEW m \in Mints, Finalize(m)
        PROVE  RestUntouched'
    BY <1>2, <2>2 DEF Finalize, RestUntouched, IInv, TypeOK
  <2>3. CASE UNCHANGED ledger
    BY <1>2, <2>3 DEF ledger, RestUntouched
  <2>4. CASE \/ UNCHANGED vars
             \/ \E c \in Calls, o \in Ops, m \in Mints : Request(c, o, m)
             \/ \E c \in Calls : ServiceStep(c) \/ ConfirmFails(c) \/ Abort(c) \/ Expire(c)
    <3>1. UNCHANGED ledger
      BY <2>4 DEF vars, Request, ServiceStep, Validate, GetLatestBlockhash,
                  SendTransaction, Confirmed, BlockheightExceeded, Backoff, ConfirmFails,
                  Abort, Expire
    <3> QED
      BY <2>3, <3>1
  <2> QED
    BY <1>2, <2>1, <2>2, <2>4 DEF Next
<1> QED
  BY <1>1, <1>2, InvariantTheorem, PTL DEF Spec
=============================================================================
