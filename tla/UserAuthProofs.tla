--------------------------- MODULE UserAuthProofs ---------------------------
(***************************************************************************)
(* Theorems about UserAuth for every set of wallets, sign-ins and guarded  *)
(* calls and every value of the time constants.  The argument: each stage  *)
(* of a handler fixes its own variables (HandlerConsistent); the document  *)
(* of a wallet is what its last writer left (DocumentExplained); and a     *)
(* sign-in that met nobody still sees what it read (UndisturbedView).      *)
(***************************************************************************)
EXTENDS UserAuth, TLAPS

USE DEF Stages, Outcomes

-----------------------------------------------------------------------------
(* The expiry comparison *)

\* validate.access-token.service.ts:32 compares a time in seconds with a ratio
\* of two times, which is below 1: for a positive exp it is never true, so an
\* access token counts as expired only through the exception of verifyAsync.
LEMMA ComparisonNeverHolds ==
  ASSUME NEW exp \in Nat \ {0}, NEW now \in Nat
  PROVE  ~ComparesExpired(exp, now)
<1> DEFINE bound == now + DayMs
<1>1. bound \in Nat /\ bound > now
  BY DEF DayMs
<1>2. PICK k \in Nat : exp = k + 1
  <2>1. exp - 1 \in Nat /\ exp = (exp - 1) + 1
    OBVIOUS
  <2> QED
    BY <2>1
<1> HIDE DEF bound
<1>3. k * bound \in Nat
  BY <1>1
<1>4. exp * bound = k * bound + bound
  BY <1>1, <1>2
<1>5. exp * bound > now
  BY <1>1, <1>3, <1>4
<1> QED
  BY <1>1, <1>5 DEF ComparesExpired, bound

-----------------------------------------------------------------------------
(* Types and handler stages *)

TypeInv == TypeOK /\ HandlerConsistent

LEMMA TypeInit == Init => TypeInv
BY NilAssumption, TimeAssumption
DEF Init, TypeInv, TypeOK, HandlerConsistent, Docs

\* What a step that only moves handler r has to establish.
LEMMA TypeStep ==
  ASSUME TypeInv, [Next]_vars
  PROVE  TypeInv'
<1> USE DEF TypeInv, TypeOK, HandlerConsistent, store, handler, guard, history
<1>1. ASSUME NEW n \in Nonces, CreateAuthRequest(n)
      PROVE  TypeInv'
  BY <1>1 DEF CreateAuthRequest
<1>2. ASSUME NEW r \in Requests, NEW w \in Wallets, NEW n \in Nonces,
             SignInRequest(r, w, n)
      PROVE  TypeInv'
  BY <1>2 DEF SignInRequest, Goto
<1>3. ASSUME NEW r \in Requests, HandlerStep(r)
      PROVE  TypeInv'
  <2>1. CASE VerifyWalletSignIn(r)
    BY <2>1 DEF VerifyWalletSignIn, At, Goto, Finish
  <2>2. CASE FindUser(r)
    BY <2>2 DEF FindUser, At, Goto
  <2>3. CASE CreateUser(r)
    BY <2>3 DEF CreateUser, At, Goto, Finish
  <2>4. CASE GetAccessToken(r)
    BY <2>4 DEF GetAccessToken, At, Goto, TokenOf, Docs
  <2>5. CASE CheckAccessToken(r)
    BY <2>5 DEF CheckAccessToken, At, Goto
  <2>6. CASE SignToken(r)
    BY <2>6 DEF SignToken, At, Goto, SignedNow, Tokens
  <2>7. CASE UpdateAccessToken(r)
    <3>1. DocumentOf(r) \in Docs
      BY <2>7, TimeAssumption DEF UpdateAccessToken, At, DocumentOf, Document, Docs
    <3> QED
      BY <2>7, <3>1 DEF UpdateAccessToken, At, Goto, AfterUpdate
  <2>8. CASE RevokeAccessToken(r)
    BY <2>8 DEF RevokeAccessToken, At, Goto, Finish
  <2>9. CASE SaveAccessToken(r)
    <3>1. DocumentOf(r) \in Docs
      BY <2>9, TimeAssumption DEF SaveAccessToken, At, DocumentOf, Document, Docs
    <3> QED
      BY <2>9, <3>1 DEF SaveAccessToken, At, Goto, Finish
  <2>10. CASE Respond(r)
    BY <2>10 DEF Respond, At, Finish
  <2> QED
    BY <1>3, <2>1, <2>2, <2>3, <2>4, <2>5, <2>6, <2>7, <2>8, <2>9, <2>10
    DEF HandlerStep
<1>4. ASSUME NEW r \in Requests, Abort(r)
      PROVE  TypeInv'
  BY <1>4 DEF Abort, Active, Finish
<1>5. ASSUME NEW g \in Guards, NEW r \in Requests, GuardVerify(g, r)
      PROVE  TypeInv'
  BY <1>5 DEF GuardVerify
<1>6. ASSUME NEW g \in Guards, GuardLookup(g)
      PROVE  TypeInv'
  BY <1>6 DEF GuardLookup
<1>7. CASE Tick
  BY <1>7, TimeAssumption DEF Tick, Tokens
<1>8. ASSUME NEW w \in Wallets, PurgeDocument(w)
      PROVE  TypeInv'
  BY <1>8 DEF PurgeDocument
<1>9. CASE UNCHANGED vars
  BY <1>9 DEF vars
<1> QED
  BY <1>1, <1>2, <1>3, <1>4, <1>5, <1>6, <1>7, <1>8, <1>9 DEF Next

\* Every variable keeps its type, and a sign-in past its arrival has a wallet.
THEOREM TypeCorrect == Spec => []TypeOK
<1>1. Spec => []TypeInv
  BY TypeInit, TypeStep, PTL DEF Spec
<1> QED
  BY <1>1, PTL DEF TypeInv

-----------------------------------------------------------------------------
(* The documents of the access-token collection *)

StoreInv == DocumentExplained /\ DocumentDated

LEMMA StoreInit == Init => StoreInv
BY NilAssumption DEF Init, StoreInv, DocumentExplained, DocumentDated

LEMMA StoreStep ==
  ASSUME TypeInv, StoreInv, [Next]_vars
  PROVE  StoreInv'
<1> USE NilAssumption DEF StoreInv, DocumentExplained, DocumentDated
<1> USE DEF TypeInv, TypeOK, HandlerConsistent, store, handler, guard, history
<1>1. ASSUME NEW n \in Nonces, CreateAuthRequest(n)
      PROVE  StoreInv'
  BY <1>1 DEF CreateAuthRequest
<1>2. ASSUME NEW r \in Requests, NEW w \in Wallets, NEW n \in Nonces,
             SignInRequest(r, w, n)
      PROVE  StoreInv'
  BY <1>2 DEF SignInRequest, Goto
<1>3. ASSUME NEW r \in Requests, HandlerStep(r)
      PROVE  StoreInv'
  <2>1. CASE VerifyWalletSignIn(r)
    BY <2>1 DEF VerifyWalletSignIn, At, Goto, Finish
  <2>2. CASE FindUser(r)
    BY <2>2 DEF FindUser, At, Goto
  <2>3. CASE CreateUser(r)
    BY <2>3 DEF CreateUser, At, Goto, Finish
  <2>4. CASE GetAccessToken(r)
    BY <2>4 DEF GetAccessToken, At, Goto
  <2>5. CASE CheckAccessToken(r)
    BY <2>5 DEF CheckAccessToken, At, Goto
  <2>6. CASE SignToken(r)
    BY <2>6 DEF SignToken, At, Goto
  <2>7. CASE UpdateAccessToken(r)
    <3>1. DocumentOf(r) # Nil /\ DocumentOf(r).token = newToken[r]
      BY <2>7, TimeAssumption
      DEF UpdateAccessToken, At, DocumentOf, Document, Docs
    <3>2. DocumentOf(r).expiresAt >= newToken[r].iat + SessionLife
      BY <2>7, TimeAssumption
      DEF UpdateAccessToken, At, DocumentOf, Document, Docs, Tokens
    <3> QED
      BY <2>7, <3>1, <3>2 DEF UpdateAccessToken, At, Goto, AfterUpdate
  <2>8. CASE RevokeAccessToken(r)
    BY <2>8 DEF RevokeAccessToken, At, Goto, Finish
  <2>9. CASE SaveAccessToken(r)
    <3>1. DocumentOf(r) # Nil /\ DocumentOf(r).token = newToken[r]
      BY <2>9, TimeAssumption
      DEF SaveAccessToken, At, DocumentOf, Document, Docs
    <3>2. DocumentOf(r).expiresAt >= newToken[r].iat + SessionLife
      BY <2>9, TimeAssumption
      DEF SaveAccessToken, At, DocumentOf, Document, Docs, Tokens
    <3> QED
      BY <2>9, <3>1, <3>2 DEF SaveAccessToken, At, Goto, Finish
  <2>10. CASE Respond(r)
    BY <2>10 DEF Respond, At, Finish
  <2> QED
    BY <1>3, <2>1, <2>2, <2>3, <2>4, <2>5, <2>6, <2>7, <2>8, <2>9, <2>10
    DEF HandlerStep
<1>4. ASSUME NEW r \in Requests, Abort(r)
      PROVE  StoreInv'
  BY <1>4 DEF Abort, Active, Finish
<1>5. ASSUME NEW g \in Guards, NEW r \in Requests, GuardVerify(g, r)
      PROVE  StoreInv'
  BY <1>5 DEF GuardVerify
<1>6. ASSUME NEW g \in Guards, GuardLookup(g)
      PROVE  StoreInv'
  BY <1>6 DEF GuardLookup
<1>7. CASE Tick
  BY <1>7 DEF Tick
<1>8. ASSUME NEW w \in Wallets, PurgeDocument(w)
      PROVE  StoreInv'
  BY <1>8 DEF PurgeDocument
<1>9. CASE UNCHANGED vars
  BY <1>9 DEF vars
<1> QED
  BY <1>1, <1>2, <1>3, <1>4, <1>5, <1>6, <1>7, <1>8, <1>9 DEF Next

\* A wallet that has signed in has no document only while the sign-in that
\* removed it has not stored the next one, or was cut off before it could.
THEOREM StrandedTheorem == Spec => []StrandedOnlyInFlight
<1>1. TypeInv /\ StoreInv => StrandedOnlyInFlight
  BY NilAssumption
  DEF TypeInv, TypeOK, HandlerConsistent, StoreInv, DocumentExplained,
      StrandedOnlyInFlight
<1>2. Init => TypeInv /\ StoreInv
  BY TypeInit, StoreInit
<1>3. TypeInv /\ StoreInv /\ [Next]_vars => (TypeInv /\ StoreInv)'
  BY TypeStep, StoreStep
<1> QED
  BY <1>1, <1>2, <1>3, PTL DEF Spec

\* When all sign-ins of a wallet have ended and none was cut off, some client
\* holds the stored token.
THEOREM SomeClientTheorem == Spec => []SomeClientSignedIn
<1>1. TypeInv /\ StoreInv => SomeClientSignedIn
  <2> SUFFICES ASSUME TypeInv, StoreInv, NEW w \in Wallets,
                      lastWriter[w] # Nil,
                      \A r \in Requests : wallet[r] = w =>
                        outcome[r] \notin {"pending", "aborted"}
               PROVE  \E r \in Requests : /\ wallet[r] = w
                                          /\ outcome[r] = "token"
                                          /\ IsCurrent(w, newToken[r])
    BY DEF SomeClientSignedIn
  <2> DEFINE r == lastWriter[w]
  <2>1. r \in Requests /\ wallet[r] = w
    BY DEF TypeInv, TypeOK, StoreInv, DocumentExplained
  <2>2. outcome[r] \in {"token", "undefined", "error"}
    BY <2>1 DEF TypeInv, TypeOK
  <2>3. accessTokens[w] # Nil
    BY <2>1, <2>2 DEF TypeInv, HandlerConsistent, StoreInv, DocumentExplained
  <2>4. pc[r] = "respond" /\ accessTokens[w].token = newToken[r]
    BY <2>1, <2>3 DEF StoreInv, DocumentExplained
  <2>5. outcome[r] = "token"
    BY <2>1, <2>2, <2>4 DEF TypeInv, HandlerConsistent
  <2> QED
    BY <2>1, <2>3, <2>4, <2>5 DEF IsCurrent
<1>2. Init => TypeInv /\ StoreInv
  BY TypeInit, StoreInit
<1>3. TypeInv /\ StoreInv /\ [Next]_vars => (TypeInv /\ StoreInv)'
  BY TypeStep, StoreStep
<1> QED
  BY <1>1, <1>2, <1>3, PTL DEF Spec

\* The TTL index never removes a document whose token is still accepted.
THEOREM PurgeTheorem == Spec => PurgedOnlyExpired
<1>1. ASSUME TypeInv, StoreInv, [Next]_vars,
             NEW w \in Wallets, accessTokens[w] # Nil, accessTokens'[w] = Nil,
             UNCHANGED pc
      PROVE  JwtExpired(accessTokens[w].token)
  <2> USE DEF store, handler, guard, history
  <2>1. ASSUME NEW v \in Wallets, PurgeDocument(v)
        PROVE  JwtExpired(accessTokens[w].token)
    <3>1. v = w
      BY <1>1, <2>1 DEF PurgeDocument, TypeInv, TypeOK
    <3>2. /\ accessTokens[w].expiresAt \in Nat
          /\ accessTokens[w].token.iat \in Nat
          /\ clock \in Nat
      BY <1>1 DEF TypeInv, TypeOK, Docs, Tokens
    <3>3. clock > accessTokens[w].expiresAt + PurgeDelay
      BY <2>1, <3>1 DEF PurgeDocument
    <3>4. accessTokens[w].expiresAt >= accessTokens[w].token.iat + SessionLife
      BY <1>1 DEF StoreInv, DocumentDated
    <3> QED
      BY <3>2, <3>3, <3>4, TimeAssumption, PurgeAssumption DEF JwtExpired, Exp
  <2>2. ASSUME NEW r \in Requests, UpdateAccessToken(r) \/ SaveAccessToken(r)
        PROVE  FALSE
    <3>1. DocumentOf(r) # Nil
      BY <1>1, <2>2, NilAssumption, TimeAssumption
      DEF UpdateAccessToken, SaveAccessToken, At, DocumentOf, Document, Docs,
          TypeInv, TypeOK, HandlerConsistent
    <3> QED
      BY <1>1, <2>2, <3>1
      DEF UpdateAccessToken, SaveAccessToken, AfterUpdate, TypeInv, TypeOK
  <2>3. ASSUME NEW r \in Requests, RevokeAccessToken(r)
        PROVE  FALSE
    BY <1>1, <2>3 DEF RevokeAccessToken, At, Goto, TypeInv, TypeOK
  <2>4. CASE UNCHANGED accessTokens
    BY <1>1, <2>4
  <2>5. \/ UNCHANGED accessTokens
        \/ \E v \in Wallets : PurgeDocument(v)
        \/ \E r \in Requests : \/ UpdateAccessToken(r)
                               \/ SaveAccessToken(r)
                               \/ RevokeAccessToken(r)
    BY <1>1
    DEF Next, vars, HandlerStep, CreateAuthRequest, SignInRequest,
        VerifyWalletSignIn, FindUser, CreateUser, GetAccessToken,
        CheckAccessToken, SignToken, Respond, Abort, GuardVerify, GuardLookup,
        Tick
  <2> QED
    BY <2>1, <2>2, <2>3, <2>4, <2>5
<1>2. Init => TypeInv /\ StoreInv
  BY TypeInit, StoreInit
<1>3. TypeInv /\ StoreInv /\ [Next]_vars => (TypeInv /\ StoreInv)'
  BY TypeStep, StoreStep
<1>4. TypeInv /\ StoreInv /\ [Next]_vars =>
        [\A w \in Wallets :
           accessTokens[w] # Nil /\ accessTokens'[w] = Nil /\ UNCHANGED pc =>
             JwtExpired(accessTokens[w].token)]_vars
  BY <1>1
<1> QED
  BY <1>2, <1>3, <1>4, PTL DEF Spec, PurgedOnlyExpired

-----------------------------------------------------------------------------
(* Sign-ins that met nobody *)

RaceInv == OverlapsRecorded /\ UndisturbedView /\ ErrorsNeedARace

LEMMA RaceInit == Init => RaceInv
BY DEF Init, RaceInv, OverlapsRecorded, UndisturbedView, ErrorsNeedARace, Active

LEMMA RaceStep ==
  ASSUME TypeInv, RaceInv, [Next]_vars
  PROVE  RaceInv'
<1> USE NilAssumption DEF RaceInv, OverlapsRecorded, UndisturbedView, ErrorsNeedARace, Active
<1> USE DEF TypeInv, TypeOK, HandlerConsistent, store, handler, guard, history
<1>1. ASSUME NEW n \in Nonces, CreateAuthRequest(n)
      PROVE  RaceInv'
  BY <1>1 DEF CreateAuthRequest
<1>2. ASSUME NEW r \in Requests, NEW w \in Wallets, NEW n \in Nonces,
             SignInRequest(r, w, n)
      PROVE  RaceInv'
  BY <1>2 DEF SignInRequest, Goto
<1>3. ASSUME NEW r \in Requests, HandlerStep(r)
      PROVE  RaceInv'
  <2>1. CASE VerifyWalletSignIn(r)
    BY <2>1 DEF VerifyWalletSignIn, At, Goto, Finish
  <2>2. CASE FindUser(r)
    BY <2>2 DEF FindUser, At, Goto
  <2>3. CASE CreateUser(r)
    BY <2>3 DEF CreateUser, At, Goto, Finish
  <2>4. CASE GetAccessToken(r)
    BY <2>4 DEF GetAccessToken, At, Goto, TokenOf
  <2>5. CASE CheckAccessToken(r)
    BY <2>5 DEF CheckAccessToken, At, Goto, IsAccessTokenExpired
  <2>6. CASE SignToken(r)
    BY <2>6 DEF SignToken, At, Goto
  <2>7. CASE UpdateAccessToken(r)
    BY <2>7 DEF UpdateAccessToken, At, Goto, AfterUpdate
  <2>8. CASE RevokeAccessToken(r)
    BY <2>8 DEF RevokeAccessToken, At, Goto, Finish
  <2>9. CASE SaveAccessToken(r)
    BY <2>9 DEF SaveAccessToken, At, Goto, Finish
  <2>10. CASE Respond(r)
    BY <2>10 DEF Respond, At, Finish
  <2> QED
    BY <1>3, <2>1, <2>2, <2>3, <2>4, <2>5, <2>6, <2>7, <2>8, <2>9, <2>10
    DEF HandlerStep
<1>4. ASSUME NEW r \in Requests, Abort(r)
      PROVE  RaceInv'
  BY <1>4 DEF Abort, Finish
<1>5. ASSUME NEW g \in Guards, NEW r \in Requests, GuardVerify(g, r)
      PROVE  RaceInv'
  BY <1>5 DEF GuardVerify
<1>6. ASSUME NEW g \in Guards, GuardLookup(g)
      PROVE  RaceInv'
  BY <1>6 DEF GuardLookup
<1>7. CASE Tick
  BY <1>7 DEF Tick
<1>8. ASSUME NEW w \in Wallets, PurgeDocument(w)
      PROVE  RaceInv'
  BY <1>8 DEF PurgeDocument
<1>9. CASE UNCHANGED vars
  BY <1>9 DEF vars
<1> QED
  BY <1>1, <1>2, <1>3, <1>4, <1>5, <1>6, <1>7, <1>8, <1>9 DEF Next

\* A sign-in fails at createUser, revoke or saveAccessToken only in a race.
THEOREM RaceTheorem == Spec => []ErrorsNeedARace
<1>1. Init => TypeInv /\ RaceInv
  BY TypeInit, RaceInit
<1>2. TypeInv /\ RaceInv /\ [Next]_vars => (TypeInv /\ RaceInv)'
  BY TypeStep, RaceStep
<1>3. TypeInv /\ RaceInv => ErrorsNeedARace
  BY DEF RaceInv
<1> QED
  BY <1>1, <1>2, <1>3, PTL DEF Spec

-----------------------------------------------------------------------------
(* The guard *)

GuardInv == GuardConsistent /\ GuardNotDone /\ RefusalMeansDisplaced

LEMMA GuardInit == Init => GuardInv
BY DEF Init, GuardInv, GuardConsistent, GuardNotDone, RefusalMeansDisplaced

LEMMA GuardStep ==
  ASSUME TypeInv, StoreInv, GuardInv, [Next]_vars
  PROVE  GuardInv'
<1> USE NilAssumption DEF GuardInv, GuardConsistent, GuardNotDone, RefusalMeansDisplaced
<1> USE DEF TypeInv, TypeOK, HandlerConsistent, store, handler, guard, history
<1>1. ASSUME NEW n \in Nonces, CreateAuthRequest(n)
      PROVE  GuardInv'
  BY <1>1 DEF CreateAuthRequest
<1>2. ASSUME NEW r \in Requests, NEW w \in Wallets, NEW n \in Nonces,
             SignInRequest(r, w, n)
      PROVE  GuardInv'
  BY <1>2 DEF SignInRequest, Goto
<1>3. ASSUME NEW r \in Requests, HandlerStep(r)
      PROVE  GuardInv'
  <2>1. CASE VerifyWalletSignIn(r)
    BY <2>1 DEF VerifyWalletSignIn, At, Goto, Finish
  <2>2. CASE FindUser(r)
    BY <2>2 DEF FindUser, At, Goto
  <2>3. CASE CreateUser(r)
    BY <2>3 DEF CreateUser, At, Goto, Finish
  <2>4. CASE GetAccessToken(r)
    BY <2>4 DEF GetAccessToken, At, Goto
  <2>5. CASE CheckAccessToken(r)
    BY <2>5 DEF CheckAccessToken, At, Goto
  <2>6. CASE SignToken(r)
    BY <2>6 DEF SignToken, At, Goto
  <2>7. CASE UpdateAccessToken(r)
    BY <2>7 DEF UpdateAccessToken, At, Goto
  <2>8. CASE RevokeAccessToken(r)
    BY <2>8 DEF RevokeAccessToken, At, Goto, Finish
  <2>9. CASE SaveAccessToken(r)
    BY <2>9 DEF SaveAccessToken, At, Goto, Finish
  <2>10. CASE Respond(r)
    BY <2>10 DEF Respond, At, Finish
  <2> QED
    BY <1>3, <2>1, <2>2, <2>3, <2>4, <2>5, <2>6, <2>7, <2>8, <2>9, <2>10
    DEF HandlerStep
<1>4. ASSUME NEW r \in Requests, Abort(r)
      PROVE  GuardInv'
  BY <1>4 DEF Abort, Active, Finish
<1>5. ASSUME NEW g \in Guards, NEW r \in Requests, GuardVerify(g, r)
      PROVE  GuardInv'
  BY <1>5 DEF GuardVerify
<1>6. ASSUME NEW g \in Guards, GuardLookup(g)
      PROVE  GuardInv'
  <2> DEFINE p == presented[g]
             w == wallet[p]
  <2>1. p \in Requests /\ outcome[p] = "token" /\ pc[p] = "respond"
    BY <1>6 DEF GuardLookup
  <2>2. w \in Wallets /\ newToken[p].pk = w
    BY <2>1
  <2>3. CASE lastWriter[w] = p
    <3>1. accessTokens[w] # Nil /\ accessTokens[w].token = newToken[p]
      BY <2>1, <2>2, <2>3 DEF StoreInv, DocumentExplained
    <3>2. IsCurrent(w, newToken[p])
      BY <3>1 DEF IsCurrent
    <3>3. guardResult' = [guardResult EXCEPT ![g] = "admitted"]
      BY <1>6, <2>2, <3>1, <3>2 DEF GuardLookup
    <3> QED
      BY <1>6, <2>1, <3>3 DEF GuardLookup
  <2>4. CASE lastWriter[w] # p
    BY <1>6, <2>1, <2>4 DEF GuardLookup
  <2> QED
    BY <2>3, <2>4
<1>7. CASE Tick
  BY <1>7 DEF Tick
<1>8. ASSUME NEW w \in Wallets, PurgeDocument(w)
      PROVE  GuardInv'
  BY <1>8 DEF PurgeDocument
<1>9. CASE UNCHANGED vars
  BY <1>9 DEF vars
<1> QED
  BY <1>1, <1>2, <1>3, <1>4, <1>5, <1>6, <1>7, <1>8, <1>9 DEF Next

\* AuthGuard refuses an unexpired token a client was given only after someone
\* else replaced or removed the wallet's document.
THEOREM RefusalTheorem == Spec => []RefusalMeansDisplaced
<1>1. Init => TypeInv /\ StoreInv /\ GuardInv
  BY TypeInit, StoreInit, GuardInit
<1>2. TypeInv /\ StoreInv /\ GuardInv /\ [Next]_vars =>
        (TypeInv /\ StoreInv /\ GuardInv)'
  BY TypeStep, StoreStep, GuardStep
<1>3. GuardInv => RefusalMeansDisplaced
  BY DEF GuardInv
<1> QED
  BY <1>1, <1>2, <1>3, PTL DEF Spec
=============================================================================
