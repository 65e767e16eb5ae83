------------------------- MODULE UserAuthRefinement -------------------------
(***************************************************************************)
(* Sign-in and the AuthGuard implement Sessions, for every set of wallets, *)
(* sign-ins and guarded calls.  A session opens with the write of the      *)
(* document, before the client hears of it, and closes with deleteOne or   *)
(* the TTL index; that the token of the current session is the stored one  *)
(* is DocumentExplained.                                                   *)
(***************************************************************************)
EXTENDS UserAuthProofs

Inv == TypeInv /\ StoreInv /\ RaceInv /\ GuardInv

\* The inductive invariant of all four arguments holds.
THEOREM InvariantTheorem == Spec => []IInv
<1>1. Init => Inv
  BY TypeInit, StoreInit, RaceInit, GuardInit DEF Inv
<1>2. Inv /\ [Next]_vars => Inv'
  BY TypeStep, StoreStep, RaceStep, GuardStep DEF Inv
<1>3. Inv => IInv
  BY DEF Inv, IInv, TypeInv, StoreInv, RaceInv, GuardInv
<1> QED
  BY <1>1, <1>2, <1>3, PTL DEF Spec

-----------------------------------------------------------------------------
(* The abstract state *)

Current == [w \in Wallets |-> IF accessTokens[w] = Nil THEN Nil ELSE lastWriter[w]]
Token   == [r \in Requests |-> IF pc[r] = "respond" THEN newToken[r] ELSE Nil]
Told    == [r \in Requests |-> Heard(r)]
Judged  == [g \in Guards |-> Verdict(g)]

LEMMA RefinementInit == Init => Session!Init
BY DEF Init, Session!Init, Heard, Verdict

LEMMA RefinementStep ==
  ASSUME IInv, [Next]_vars
  PROVE  [Session!Next]_(Session!vars)
<1> USE NilAssumption DEF IInv, TypeOK, HandlerConsistent, store, handler, guard, history
<1>1. ASSUME NEW n \in Nonces, CreateAuthRequest(n)
      PROVE  UNCHANGED Session!vars
  BY <1>1 DEF CreateAuthRequest, Session!vars, Heard, Verdict
<1>2. ASSUME NEW r \in Requests, NEW w \in Wallets, NEW n \in Nonces,
             SignInRequest(r, w, n)
      PROVE  Session!Ask(r, w)
  BY <1>2 DEF SignInRequest, Goto, Session!Ask, Heard, Verdict
<1> DEFINE Same == UNCHANGED <<wallet, Current, Token, Told, presented, Judged>>
<1>0. Same => UNCHANGED Session!vars
  BY DEF Session!vars, Current, Token, Told, Judged
<1>3. ASSUME NEW r \in Requests,
             \/ VerifyWalletSignIn(r) \/ FindUser(r) \/ CreateUser(r)
             \/ RevokeAccessToken(r) /\ Finish(r, "error")
             \/ SaveAccessToken(r) /\ Finish(r, "error")
      PROVE  Same \/ Session!Tell(r, "refused")
  <2>1. /\ wallet[r] \in Wallets /\ pc[r] \notin {"idle", "respond"}
        /\ outcome[r] = "pending" /\ Told[r] = "nothing" /\ Token[r] = Nil
        /\ UNCHANGED <<wallet, accessTokens, lastWriter, newToken, guard>>
        /\ \/ \E s \in Stages \ {"respond"} : Goto(r, s)
           \/ Finish(r, "error") \/ Finish(r, "undefined")
    <3>1. CASE VerifyWalletSignIn(r)
      BY <3>1 DEF VerifyWalletSignIn, At, Heard, Told, Token, Stages
    <3>2. CASE FindUser(r)
      <4>1. Goto(r, "validate") \/ Goto(r, "createUser")
        BY <3>2 DEF FindUser
      <4> QED
        BY <3>2, <4>1 DEF FindUser, At, Heard, Told, Token, Stages
    <3>3. CASE CreateUser(r)
      BY <3>3 DEF CreateUser, At, Heard, Told, Token, Stages
    <3>4. CASE RevokeAccessToken(r) /\ Finish(r, "error")
      BY <3>4 DEF RevokeAccessToken, At, Goto, Finish, Heard, Told, Token
    <3>5. CASE SaveAccessToken(r) /\ Finish(r, "error")
      BY <3>5 DEF SaveAccessToken, At, Goto, Finish, Heard, Told, Token
    <3> QED
      BY <1>3, <3>1, <3>2, <3>3, <3>4, <3>5
  <2>2. UNCHANGED <<Current, presented, Judged>>
    BY <2>1 DEF Current, Judged, Verdict
  <2>3. CASE \E s \in Stages \ {"respond"} : Goto(r, s)
    <3>1. \A q \in Requests : pc'[q] = "respond" <=> pc[q] = "respond"
      BY <2>1, <2>3 DEF Goto
    <3> QED
      BY <2>1, <2>2, <2>3, <3>1 DEF Goto, Told, Token, Heard
  <2>4. CASE Finish(r, "error") \/ Finish(r, "undefined")
    <3>1. Told' = [Told EXCEPT ![r] = "refused"]
      BY <2>4 DEF Finish, Told, Heard
    <3>2. UNCHANGED Token
      BY <2>1, <2>4 DEF Finish, Token
    <3> QED
      BY <2>1, <2>2, <3>1, <3>2 DEF Session!Tell, Told, Token, Current, Judged
  <2> QED
    BY <2>1, <2>3, <2>4
<1>4. ASSUME NEW r \in Requests,
             GetAccessToken(r) \/ CheckAccessToken(r) \/ SignToken(r)
      PROVE  Same
  <2>1. /\ UNCHANGED <<outcome, wallet, accessTokens, lastWriter, guard>>
        /\ \A q \in Requests :
             /\ pc'[q] = "respond" <=> pc[q] = "respond"
             /\ pc[q] = "respond" => newToken'[q] = newToken[q]
    <3>1. CASE GetAccessToken(r)
      BY <3>1 DEF GetAccessToken, At, Goto
    <3>2. CASE CheckAccessToken(r)
      BY <3>2 DEF CheckAccessToken, At, Goto
    <3>3. CASE SignToken(r)
      BY <3>3 DEF SignToken, At, Goto
    <3> QED
      BY <1>4, <3>1, <3>2, <3>3
  <2>2. UNCHANGED <<Current, Told, Judged>>
    BY <2>1 DEF Current, Told, Heard, Judged, Verdict
  <2>3. UNCHANGED Token
    BY <2>1 DEF Token
  <2> QED
    BY <2>1, <2>2, <2>3
<1>5. ASSUME NEW r \in Requests,
             \/ UpdateAccessToken(r)
             \/ SaveAccessToken(r) /\ Goto(r, "respond")
      PROVE  Session!Open(r)
  <2>1. /\ wallet[r] \in Wallets /\ pc[r] # "respond" /\ newToken[r] \in Tokens
        /\ outcome[r] = "pending" /\ pc' = [pc EXCEPT ![r] = "respond"]
        /\ accessTokens' = [accessTokens EXCEPT ![wallet[r]] = DocumentOf(r)]
        /\ lastWriter' = [lastWriter EXCEPT ![wallet[r]] = r]
        /\ UNCHANGED <<outcome, wallet, newToken, guard>>
    BY <1>5 DEF UpdateAccessToken, SaveAccessToken, At, Goto, Finish, AfterUpdate
  <2>2. DocumentOf(r) # Nil
    BY <2>1, TimeAssumption DEF DocumentOf, Document, Docs
  <2>3. Current' = [Current EXCEPT ![wallet[r]] = r]
    BY <2>1, <2>2 DEF Current
  <2>4. Token' = [Token EXCEPT ![r] = newToken[r]] /\ Token[r] = Nil
    BY <2>1 DEF Token
  <2>5. UNCHANGED <<Told, Judged>> /\ Told[r] = "nothing"
    BY <2>1 DEF Told, Heard, Judged, Verdict
  <2> QED
    BY <2>1, <2>3, <2>4, <2>5 DEF Session!Open, Told, Token, Current, Judged
<1>6. ASSUME NEW r \in Requests, NEW w \in Wallets, w = wallet[r],
             RevokeAccessToken(r), Goto(r, "signAgain")
      PROVE  Session!Close(w)
  <2>1. /\ pc[r] # "respond"
        /\ accessTokens[w] # Nil
        /\ accessTokens' = [accessTokens EXCEPT ![w] = Nil]
        /\ lastWriter' = [lastWriter EXCEPT ![w] = r]
        /\ pc' = [pc EXCEPT ![r] = "signAgain"]
        /\ UNCHANGED <<outcome, wallet, newToken, guard>>
    BY <1>6 DEF RevokeAccessToken, At, Goto, Finish
  <2>2. Current' = [Current EXCEPT ![w] = Nil]
    BY <2>1 DEF Current
  <2>4. Current[w] # Nil
    BY <2>1 DEF Current, DocumentExplained
  <2>3. UNCHANGED <<Token, Told, Judged>>
    BY <2>1 DEF Token, Told, Heard, Judged, Verdict
  <2> QED
    BY <2>1, <2>2, <2>3, <2>4 DEF Session!Close, Told, Token, Current, Judged
<1>7. ASSUME NEW r \in Requests, Respond(r) \/ Abort(r)
      PROVE  Session!Tell(r, "token") \/ Session!Tell(r, "lost")
  <2>1. /\ wallet[r] # Nil /\ outcome[r] = "pending"
        /\ UNCHANGED <<pc, wallet, accessTokens, lastWriter, newToken, guard>>
        /\ \/ outcome' = [outcome EXCEPT ![r] = "token"] /\ pc[r] = "respond"
           \/ outcome' = [outcome EXCEPT ![r] = "aborted"]
    BY <1>7 DEF Respond, Abort, Active, At, Finish
  <2>2. UNCHANGED <<Current, Token, Judged>>
    BY <2>1 DEF Current, Token, Judged, Verdict
  <2>5. Told[r] = "nothing"
    BY <2>1 DEF Told, Heard
  <2>3. pc[r] = "respond" => Token[r] # Nil
    BY DEF Token
  <2>4. \/ Told' = [Told EXCEPT ![r] = "token"] /\ pc[r] = "respond"
        \/ Told' = [Told EXCEPT ![r] = "lost"]
    <3>1. CASE outcome' = [outcome EXCEPT ![r] = "token"] /\ pc[r] = "respond"
      BY <3>1 DEF Told, Heard
    <3>2. CASE outcome' = [outcome EXCEPT ![r] = "aborted"]
      BY <3>2 DEF Told, Heard
    <3> QED
      BY <2>1, <3>1, <3>2
  <2> QED
    BY <2>1, <2>2, <2>3, <2>4, <2>5 DEF Session!Tell, Told, Token, Current, Judged
<1>8. ASSUME NEW g \in Guards, NEW r \in Requests, GuardVerify(g, r)
      PROVE  Session!Present(g, r)
  <2>1. UNCHANGED <<wallet, Current, Token, Told>> /\ Told[r] = "token"
    BY <1>8 DEF GuardVerify, Current, Token, Told, Heard
  <2>2. Judged' \in {Judged, [Judged EXCEPT ![g] = "expired"]}
    <3>1. CASE UNCHANGED guardResult
      BY <3>1 DEF Judged, Verdict
    <3>2. CASE guardResult' = [guardResult EXCEPT ![g] = "expired"]
      BY <3>2 DEF Judged, Verdict
    <3> QED
      BY <1>8, <3>1, <3>2 DEF GuardVerify
  <2>3. presented[g] = Nil /\ presented' = [presented EXCEPT ![g] = r]
    BY <1>8 DEF GuardVerify, GuardNotDone
  <2> QED
    BY <2>1, <2>2, <2>3 DEF Session!Present, Told, Token, Current, Judged
<1>9. ASSUME NEW g \in Guards, GuardLookup(g)
      PROVE  Session!Judge(g, "admitted") \/ Session!Judge(g, "displaced")
  <2> DEFINE p == presented[g]
             w == wallet[p]
  <2>1. p \in Requests /\ outcome[p] = "token" /\ pc[p] = "respond"
    BY <1>9 DEF GuardLookup, GuardConsistent
  <2>2. /\ w \in Wallets /\ newToken[p].pk = w /\ Token[p] = newToken[p] /\ p # Nil
        /\ guardResult[g] = "pending"
    BY <1>9, <2>1 DEF Token, GuardLookup, GuardNotDone
  <2>3. UNCHANGED <<wallet, Current, Token, Told, presented>>
    BY <1>9 DEF GuardLookup, Current, Token, Told, Heard
  <2>4. CASE guardResult' = [guardResult EXCEPT ![g] = "admitted"]
    <3>1. accessTokens[w] # Nil /\ accessTokens[w].token = newToken[p]
      BY <1>9, <2>2, <2>4 DEF GuardLookup, IsCurrent
    <3>2. /\ lastWriter[w] \in Requests /\ Current[w] = lastWriter[w]
          /\ Token[Current[w]] = newToken[p]
      BY <2>2, <3>1 DEF DocumentExplained, Current, Token
    <3>3. Judged' = [Judged EXCEPT ![g] = "admitted"] /\ Judged[g] = "none"
      BY <2>2, <2>4 DEF Judged, Verdict
    <3> QED
      BY <2>1, <2>2, <2>3, <3>2, <3>3 DEF Session!Judge, Told, Token, Current, Judged
  <2>5. CASE guardResult' = [guardResult EXCEPT ![g] = "unauthorized"]
             \/ guardResult' = [guardResult EXCEPT ![g] = "typeError"]
    <3>1. ~IsCurrent(w, newToken[p])
      <4>1. guardResult'[g] # "admitted"
        BY <2>5
      <4>2. CASE /\ accessTokens[w] # Nil
                 /\ ~IsCurrent(w, newToken[p])
        BY <4>2
      <4>3. CASE accessTokens[w] = Nil
        BY <4>3 DEF IsCurrent
      <4>4. CASE guardResult' = [guardResult EXCEPT ![g] = "admitted"]
        BY <4>1, <4>4
      <4> QED
        BY <1>9, <2>2, <4>2, <4>3, <4>4 DEF GuardLookup
    <3>2. Current[w] # p
      BY <2>1, <2>2, <3>1 DEF IsCurrent, DocumentExplained, Current
    <3>3. Judged' = [Judged EXCEPT ![g] = "displaced"] /\ Judged[g] = "none"
      <4>1. CASE guardResult' = [guardResult EXCEPT ![g] = "unauthorized"]
        BY <2>2, <4>1 DEF Judged, Verdict
      <4>2. CASE guardResult' = [guardResult EXCEPT ![g] = "typeError"]
        BY <2>2, <4>2 DEF Judged, Verdict
      <4> QED
        BY <2>5, <4>1, <4>2
    <3> QED
      BY <2>1, <2>2, <2>3, <3>2, <3>3 DEF Session!Judge, Told, Token, Current, Judged
  <2> QED
    BY <1>9, <2>4, <2>5 DEF GuardLookup
<1>10. CASE Tick
  BY <1>0, <1>10 DEF Tick, Current, Token, Told, Heard, Judged, Verdict
<1>11. ASSUME NEW w \in Wallets, PurgeDocument(w)
       PROVE  Session!Close(w)
  <2>1. UNCHANGED <<Token, Told, Judged, wallet, presented>>
    BY <1>11 DEF PurgeDocument, Token, Told, Heard, Judged, Verdict
  <2>2. Current' = [Current EXCEPT ![w] = Nil] /\ Current[w] # Nil
    BY <1>11 DEF PurgeDocument, Current, DocumentExplained
  <2> QED
    BY <2>1, <2>2 DEF Session!Close, Told, Token, Current, Judged
<1>12. CASE UNCHANGED vars
  BY <1>0, <1>12 DEF vars, Current, Token, Told, Heard, Judged, Verdict
<1>13. ASSUME NEW r \in Requests, HandlerStep(r)
       PROVE  [Session!Next]_(Session!vars)
  <2>1. CASE VerifyWalletSignIn(r) \/ FindUser(r) \/ CreateUser(r)
    BY <1>0, <1>3, <2>1 DEF Session!Next
  <2>2. CASE GetAccessToken(r) \/ CheckAccessToken(r) \/ SignToken(r)
    BY <1>0, <1>4, <2>2
  <2>3. CASE UpdateAccessToken(r)
    BY <1>5, <2>3 DEF Session!Next
  <2>4. CASE RevokeAccessToken(r)
    <3>1. Goto(r, "signAgain") \/ Finish(r, "error")
      BY <2>4 DEF RevokeAccessToken
    <3>2. wallet[r] \in Wallets
      <4>1. pc[r] = "revoke"
        BY <2>4 DEF RevokeAccessToken, At
      <4> QED
        BY <4>1
    <3>3. CASE Goto(r, "signAgain")
      <4>1. PICK w \in Wallets : w = wallet[r]
        BY <3>2
      <4>2. Session!Close(w)
        BY <1>6, <2>4, <3>3, <4>1
      <4> QED
        BY <4>2 DEF Session!Next
    <3>4. CASE Finish(r, "error")
      <4>1. Same \/ Session!Tell(r, "refused")
        BY <1>3, <2>4, <3>4
      <4> QED
        BY <1>0, <4>1 DEF Session!Next
    <3> QED
      BY <3>1, <3>3, <3>4
  <2>5. CASE SaveAccessToken(r)
    <3>1. Goto(r, "respond") \/ Finish(r, "error")
      BY <2>5 DEF SaveAccessToken
    <3> QED
      BY <1>0, <1>3, <1>5, <2>5, <3>1 DEF Session!Next
  <2>6. CASE Respond(r)
    BY <1>7, <2>6 DEF Session!Next
  <2> QED
    BY <1>13, <2>1, <2>2, <2>3, <2>4, <2>5, <2>6 DEF HandlerStep
<1> QED
  BY <1>0, <1>1, <1>2, <1>7, <1>8, <1>9, <1>10, <1>11, <1>12, <1>13 DEF Next, Session!Next

\* The sign-in routes and the AuthGuard implement Sessions.
THEOREM SessionsTheorem == Spec => SessionsKept
<1>1. Init => Session!Init
  BY RefinementInit
<1>2. IInv /\ [Next]_vars => [Session!Next]_(Session!vars)
  BY RefinementStep
<1> QED
  BY <1>1, <1>2, InvariantTheorem, PTL DEF Spec, SessionsKept, Session!Spec
=============================================================================
