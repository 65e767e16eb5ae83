------------------------------ MODULE UserAuth ------------------------------
(***************************************************************************)
(* Sign-in of the user microservice (apps/user/src/auth, UserController)   *)
(* and the AuthGuard of libs/ss-common-domain that admits later calls.     *)
(*                                                                         *)
(* A sign-in is one HTTP handler: a chain of awaited database and JWT      *)
(* calls.  Handlers of the same wallet run concurrently (one Node process  *)
(* interleaves them at each await, and the service may be replicated), so  *)
(* each await is a step of its own.  The access-token collection has a     *)
(* unique index on userWalletAddress: it is a function from wallets to at  *)
(* most one document.  A token is a JWT over {pk} signed with HS256 and a  *)
(* fixed key, so two tokens with the same pk and the same iat (in seconds) *)
(* are the same string: a token IS the record [pk, iat].                   *)
(***************************************************************************)
EXTENDS Integers

CONSTANTS
  Wallets,        \* wallet addresses
  Requests,       \* POST /user/sign-in calls, each used once
  Guards,         \* calls of guarded routes, each used once
  Nonces,         \* nonces produced by userSignIn
  Nil,            \* no document, no token, no wallet
  TokenTtl,       \* JWT_EXPIRES_IN, in clock units (seconds)
  SessionLife,    \* the 8 hours added to now for expiresAt
  PurgeDelay,     \* expireAfterSeconds of the TTL index on expiresAt
  MaxClock        \* bound on the clock, for model checking only

Tokens == [pk : Wallets, iat : Nat]
Docs   == [token : Tokens, expiresAt : Nat]

ASSUME NilAssumption  == /\ Nil \notin Wallets
                         /\ Nil \notin Requests
                         /\ Nil \notin Tokens
                         /\ Nil \notin Docs
ASSUME TimeAssumption == /\ TokenTtl \in Nat \ {0}
                         /\ SessionLife \in Nat
                         /\ PurgeDelay \in Nat
                         /\ MaxClock \in Nat
\* JWT_EXPIRES_IN is shorter than the 8 hours plus the 28 800 000 seconds
\* after which the TTL index removes a document.
ASSUME PurgeAssumption == TokenTtl <= SessionLife + PurgeDelay

VARIABLES
  clock,            \* seconds since the start of the run
  users,            \* the users collection: publicKey of every user
  accessTokens,     \* the access-token collection, by userWalletAddress
  signInRequests,   \* nonces of the saved sign-in requests, never deleted
  pc,               \* pc[r]: the next await of sign-in r
  outcome,          \* outcome[r]: how sign-in r ended
  wallet,           \* wallet[r]: verifySignInAuthRequest.publicKey
  nonce,            \* nonce[r]: the nonce found in the signed message
  readToken,        \* readToken[r]: get.accessToken in isAccessTokenExpired
  newToken,         \* newToken[r]: the token r signed
  guardPc,          \* guardPc[g]: where canActivate is
  guardResult,      \* guardResult[g]: what canActivate did
  presented,        \* presented[g]: the sign-in whose token the call carries
  raced,            \* history: another actor worked on r's wallet during r
  lastWriter        \* history: the sign-in that last removed or wrote w's document

store   == <<users, accessTokens, signInRequests>>
handler == <<pc, outcome, wallet, nonce, readToken, newToken>>
guard   == <<guardPc, guardResult, presented>>
history == <<raced, lastWriter>>
vars    == <<clock, store, handler, guard, history>>

Stages == {"idle", "lookup", "findUser", "createUser", "validate", "check",
           "sign", "upsert", "revoke", "signAgain", "save", "respond"}
Outcomes == {"pending", "token", "undefined", "error", "aborted"}

-----------------------------------------------------------------------------
(* JWTs and documents *)

Exp(t) == t.iat + TokenTtl

\* jwtService.verifyAsync throws once the clock has reached exp.
JwtExpired(t) == clock >= Exp(t)

\* token.exp < Date.now() / (Date.now() + 24h), cleared of the division;
\* token.exp is in seconds, Date.now() in milliseconds.
DayMs == 86400000
ComparesExpired(exp, now) == exp * (now + DayMs) < now

MissingIsNotExpired(t) == t # Nil /\ JwtExpired(t)
IsAccessTokenExpired(t) ==
  t = Nil \/ JwtExpired(t) \/ ComparesExpired(Exp(t), 1000 * clock)

SignedNow(w) == [pk |-> w, iat |-> clock]

DocumentExpiringNow(t) == [token |-> t, expiresAt |-> clock]
Document(t) == [token |-> t, expiresAt |-> clock + SessionLife]

\* The collection after updateOne({userWalletAddress: w}, ..., {upsert: true}).
AfterUpdateNoUpsert(w, doc) ==
  IF accessTokens[w] = Nil THEN accessTokens ELSE [accessTokens EXCEPT ![w] = doc]
AfterUpdate(w, doc) == [accessTokens EXCEPT ![w] = doc]

\* get.accessToken, when there is a document.
WholeDocument(doc) == doc
TokenOf(doc) == IF doc = Nil THEN Nil ELSE doc.token

\* The document of w holds token t.
HasDocument(w, t) == accessTokens[w] # Nil
IsCurrent(w, t) == accessTokens[w] # Nil /\ accessTokens[w].token = t

-----------------------------------------------------------------------------
(* Progress of a sign-in handler *)

Active(r) == pc[r] # "idle" /\ outcome[r] = "pending"

\* Handler r is about to run its step s.
At(r, s) == pc[r] = s /\ outcome[r] = "pending"

Goto(r, s)   == pc' = [pc EXCEPT ![r] = s] /\ UNCHANGED outcome
Finish(r, o) == outcome' = [outcome EXCEPT ![r] = o] /\ UNCHANGED pc

Init ==
  /\ clock = 0
  /\ users = {}
  /\ accessTokens = [w \in Wallets |-> Nil]
  /\ signInRequests = {}
  /\ pc = [r \in Requests |-> "idle"]
  /\ outcome = [r \in Requests |-> "pending"]
  /\ wallet = [r \in Requests |-> Nil]
  /\ nonce = [r \in Requests |-> Nil]
  /\ readToken = [r \in Requests |-> Nil]
  /\ newToken = [r \in Requests |-> Nil]
  /\ guardPc = [g \in Guards |-> "idle"]
  /\ guardResult = [g \in Guards |-> "pending"]
  /\ presented = [g \in Guards |-> Nil]
  /\ raced = [r \in Requests |-> FALSE]
  /\ lastWriter = [w \in Wallets |-> Nil]

-----------------------------------------------------------------------------
(* POST /user/auth and the arrival of POST /user/sign-in *)

CreateAuthRequest(n) ==
  /\ n \notin signInRequests
  /\ signInRequests' = signInRequests \cup {n}
  /\ UNCHANGED <<clock, users, accessTokens, handler, guard, history>>

\* The history variable raced marks both sides of every overlap.
SignInRequest(r, w, n) ==
  LET others == {o \in Requests : Active(o) /\ wallet[o] = w}
  IN  /\ pc[r] = "idle"
      /\ Goto(r, "lookup")
      /\ wallet' = [wallet EXCEPT ![r] = w]
      /\ nonce' = [nonce EXCEPT ![r] = n]
      /\ raced' = [o \in Requests |-> \/ raced[o]
                                      \/ o \in others
                                      \/ o = r /\ others # {}]
      /\ UNCHANGED <<clock, store, readToken, newToken, guard, lastWriter>>

\* verifyWalletSignIn: findOne by nonce, then the signature check.
VerifyWalletSignIn(r) ==
  /\ At(r, "lookup")
  /\ \/ nonce[r] \notin signInRequests /\ Finish(r, "error")
     \/ nonce[r] \in signInRequests /\ Goto(r, "findUser")
     \/ nonce[r] \in signInRequests /\ Finish(r, "undefined")  \* not verified
  /\ UNCHANGED <<clock, store, wallet, nonce, readToken, newToken, guard, history>>

-----------------------------------------------------------------------------
(* manageJwt *)

FindUser(r) ==
  /\ At(r, "findUser")
  /\ Goto(r, IF wallet[r] \in users THEN "validate" ELSE "createUser")
  /\ UNCHANGED <<clock, store, wallet, nonce, readToken, newToken, guard, history>>

\* The unique index on publicKey rejects a second user of the wallet.
CreateUser(r) ==
  /\ At(r, "createUser")
  /\ \/ wallet[r] \in users /\ Finish(r, "error") /\ UNCHANGED users
     \/ /\ wallet[r] \notin users
        /\ users' = users \cup {wallet[r]}
        /\ Goto(r, "validate")
  /\ UNCHANGED <<clock, accessTokens, signInRequests, wallet, nonce, readToken,
                 newToken, guard, history>>

\* isAccessTokenExpired, first await: read the document.
GetAccessToken(r) ==
  /\ At(r, "validate")
  /\ readToken' = [readToken EXCEPT ![r] = TokenOf(accessTokens[wallet[r]])]
  /\ Goto(r, "check")
  /\ UNCHANGED <<clock, store, wallet, nonce, newToken, guard, history>>

\* isAccessTokenExpired, second await: judge the token that was read.
CheckAccessToken(r) ==
  /\ At(r, "check")
  /\ Goto(r, IF IsAccessTokenExpired(readToken[r]) THEN "sign" ELSE "revoke")
  /\ UNCHANGED <<clock, store, wallet, nonce, readToken, newToken, guard, history>>

\* signAsync, in both branches of manageJwt.
SignToken(r) ==
  /\ \/ At(r, "sign") /\ Goto(r, "upsert")
     \/ At(r, "signAgain") /\ Goto(r, "save")
  /\ newToken' = [newToken EXCEPT ![r] = SignedNow(wallet[r])]
  /\ UNCHANGED <<clock, store, wallet, nonce, readToken, guard, history>>

DocumentOfLateSignature(r) == Document(SignedNow(wallet[r]))
DocumentOf(r) == Document(newToken[r])

\* updateAccessToken: updateOne with upsert, whatever document is there now.
UpdateAccessToken(r) ==
  /\ At(r, "upsert")
  /\ accessTokens' = AfterUpdate(wallet[r], DocumentOf(r))
  /\ lastWriter' = [lastWriter EXCEPT ![wallet[r]] = r]
  /\ Goto(r, "respond")
  /\ UNCHANGED <<clock, users, signInRequests, wallet, nonce, readToken, newToken,
                 guard, raced>>

\* deleteOne of whatever document is there now; deletedCount = 0 throws.
RevokeOffByOne(r) ==
  /\ At(r, "revoke")
  /\ accessTokens' = [accessTokens EXCEPT ![wallet[r]] = Nil]
  /\ lastWriter' = [lastWriter EXCEPT ![wallet[r]] = r]
  /\ Finish(r, "error")
  /\ UNCHANGED <<clock, users, signInRequests, wallet, nonce, readToken, newToken,
                 guard, raced>>
RevokeUntilFound(r) ==
  /\ At(r, "revoke")
  /\ accessTokens[wallet[r]] # Nil
  /\ accessTokens' = [accessTokens EXCEPT ![wallet[r]] = Nil]
  /\ lastWriter' = [lastWriter EXCEPT ![wallet[r]] = r]
  /\ Goto(r, "signAgain")
  /\ UNCHANGED <<clock, users, signInRequests, wallet, nonce, readToken, newToken,
                 guard, raced>>
RevokeAccessToken(r) ==
  /\ At(r, "revoke")
  /\ \/ /\ accessTokens[wallet[r]] # Nil
        /\ accessTokens' = [accessTokens EXCEPT ![wallet[r]] = Nil]
        /\ lastWriter' = [lastWriter EXCEPT ![wallet[r]] = r]
        /\ Goto(r, "signAgain")
     \/ /\ accessTokens[wallet[r]] = Nil
        /\ Finish(r, "error")
        /\ UNCHANGED <<accessTokens, lastWriter>>
  /\ UNCHANGED <<clock, users, signInRequests, wallet, nonce, readToken, newToken,
                 guard, raced>>

\* saveAccessToken: create, which the unique index rejects if a document exists.
SaveAccessToken(r) ==
  /\ At(r, "save")
  /\ \/ /\ accessTokens[wallet[r]] = Nil
        /\ accessTokens' = [accessTokens EXCEPT ![wallet[r]] = DocumentOf(r)]
        /\ lastWriter' = [lastWriter EXCEPT ![wallet[r]] = r]
        /\ Goto(r, "respond")
     \/ /\ accessTokens[wallet[r]] # Nil
        /\ Finish(r, "error")
        /\ UNCHANGED <<accessTokens, lastWriter>>
  /\ UNCHANGED <<clock, users, signInRequests, wallet, nonce, readToken, newToken,
                 guard, raced>>

\* The handler returns { accessToken } to the client.
Respond(r) ==
  /\ At(r, "respond")
  /\ Finish(r, "token")
  /\ UNCHANGED <<clock, store, wallet, nonce, readToken, newToken, guard, history>>

\* A database or JWT call rejects, or the process dies: nothing is undone.
\* A write whose acknowledgement is lost is the write followed by this step.
Abort(r) ==
  /\ Active(r)
  /\ Finish(r, "aborted")
  /\ UNCHANGED <<clock, store, wallet, nonce, readToken, newToken, guard, history>>

-----------------------------------------------------------------------------
(* AuthGuard.canActivate *)

\* A client calls a guarded route with the token sign-in r gave it;
\* verifyAsync throws if it has expired.
GuardVerify(g, r) ==
  /\ guardPc[g] = "idle"
  /\ outcome[r] = "token"
  /\ presented' = [presented EXCEPT ![g] = r]
  /\ \/ /\ JwtExpired(newToken[r])
        /\ guardPc' = [guardPc EXCEPT ![g] = "done"]
        /\ guardResult' = [guardResult EXCEPT ![g] = "expired"]
     \/ /\ ~JwtExpired(newToken[r])
        /\ guardPc' = [guardPc EXCEPT ![g] = "lookup"]
        /\ UNCHANGED guardResult
  /\ UNCHANGED <<clock, store, handler, history>>

\* getAccessToken(payload.pk), then token === get.accessToken; with no document
\* the property read throws a TypeError.
GuardLookup(g) ==
  LET t   == newToken[presented[g]]
      doc == accessTokens[t.pk]
      Answer(a) == guardResult' = [guardResult EXCEPT ![g] = a]
  IN  /\ guardPc[g] = "lookup"
      /\ guardPc' = [guardPc EXCEPT ![g] = "done"]
      /\ \/ IsCurrent(t.pk, t) /\ Answer("admitted")
         \/ doc # Nil /\ ~IsCurrent(t.pk, t) /\ Answer("unauthorized")
         \/ doc = Nil /\ Answer("typeError")
      /\ UNCHANGED <<clock, store, handler, presented, history>>

-----------------------------------------------------------------------------
(* The environment *)

Tick ==
  /\ clock < MaxClock
  /\ clock' = clock + 1
  /\ UNCHANGED <<store, handler, guard, history>>

\* MongoDB's TTL monitor.
PurgeDocument(w) ==
  /\ accessTokens[w] # Nil
  /\ clock > accessTokens[w].expiresAt + PurgeDelay
  /\ accessTokens' = [accessTokens EXCEPT ![w] = Nil]
  /\ lastWriter' = [lastWriter EXCEPT ![w] = Nil]
  /\ raced' = [r \in Requests |-> raced[r] \/ (Active(r) /\ wallet[r] = w)]
  /\ UNCHANGED <<clock, users, signInRequests, handler, guard>>

HandlerStep(r) ==
  \/ VerifyWalletSignIn(r)
  \/ FindUser(r)
  \/ CreateUser(r)
  \/ GetAccessToken(r)
  \/ CheckAccessToken(r)
  \/ SignToken(r)
  \/ UpdateAccessToken(r)
  \/ RevokeAccessToken(r)
  \/ SaveAccessToken(r)
  \/ Respond(r)

Next ==
  \/ \E n \in Nonces : CreateAuthRequest(n)
  \/ \E r \in Requests, w \in Wallets, n \in Nonces : SignInRequest(r, w, n)
  \/ \E r \in Requests : HandlerStep(r)
  \/ \E r \in Requests : Abort(r)
  \/ \E g \in Guards, r \in Requests : GuardVerify(g, r)
  \/ \E g \in Guards : GuardLookup(g)
  \/ Tick
  \/ \E w \in Wallets : PurgeDocument(w)

Spec == Init /\ [][Next]_vars

\* The event loop resumes a handler whose await settled; clients, the clock and
\* the TTL monitor owe nothing.
FairSpec == /\ Spec
            /\ \A r \in Requests : WF_vars(HandlerStep(r))
            /\ \A g \in Guards : WF_vars(GuardLookup(g))
-----------------------------------------------------------------------------
(* Properties *)

TypeOK ==
  /\ clock \in Nat
  /\ users \subseteq Wallets
  /\ accessTokens \in [Wallets -> Docs \cup {Nil}]
  /\ signInRequests \subseteq Nonces
  /\ pc \in [Requests -> Stages]
  /\ outcome \in [Requests -> Outcomes]
  /\ wallet \in [Requests -> Wallets \cup {Nil}]
  /\ nonce \in [Requests -> Nonces \cup {Nil}]
  /\ readToken \in [Requests -> Tokens \cup {Nil}]
  /\ newToken \in [Requests -> Tokens \cup {Nil}]
  /\ guardPc \in [Guards -> {"idle", "lookup", "done"}]
  /\ guardResult \in [Guards -> {"pending", "expired", "admitted",
                                 "unauthorized", "typeError"}]
  /\ presented \in [Guards -> Requests \cup {Nil}]
  /\ raced \in [Requests -> BOOLEAN]
  /\ lastWriter \in [Wallets -> Requests \cup {Nil}]

\* manageJwt removes the document before it stores the new one.  A wallet that
\* has signed in is without a document only while the sign-in that removed it is
\* between deleteOne and create, or was cut off there.
StrandedOnlyInFlight ==
  \A w \in Wallets :
    accessTokens[w] = Nil /\ lastWriter[w] # Nil =>
      /\ pc[lastWriter[w]] \in {"signAgain", "save"}
      /\ outcome[lastWriter[w]] \in {"pending", "aborted"}

\* Whatever the interleaving of the sign-ins of a wallet, once they have all
\* ended and none was cut off, the stored token is one that a client received:
\* revoking and re-issuing never leaves every client of the wallet signed out.
SomeClientSignedIn ==
  \A w \in Wallets :
    LET mine == {r \in Requests : wallet[r] = w}
    IN  /\ lastWriter[w] # Nil
        /\ \A r \in mine : outcome[r] \notin {"pending", "aborted"}
        => \E r \in mine : outcome[r] = "token" /\ IsCurrent(w, newToken[r])

\* createUser, revoke and saveAccessToken throw only if another sign-in of the
\* same wallet, or the TTL index, ran between this one's arrival and its end.
ErrorsNeedARace ==
  \A r \in Requests :
    outcome[r] = "error" /\ pc[r] \in {"createUser", "revoke", "save"} => raced[r]

\* AuthGuard turns away an unexpired token that a sign-in returned only after
\* another sign-in of the wallet, or the TTL index, replaced its document.
RefusalMeansDisplaced ==
  \A g \in Guards :
    guardResult[g] \in {"unauthorized", "typeError"} =>
      lastWriter[wallet[presented[g]]] # presented[g]

\* The TTL index (expires is read in seconds) removes a document only when its
\* token has expired: it never signs a client out.
PurgedOnlyExpired ==
  [][\A w \in Wallets :
       accessTokens[w] # Nil /\ accessTokens'[w] = Nil /\ UNCHANGED pc =>
         JwtExpired(accessTokens[w].token)]_vars

\* Every sign-in is answered, in whatever order the handlers of a wallet run.
SignInEnds == \A r \in Requests : pc[r] # "idle" ~> outcome[r] # "pending"

\* Sign-in and guard implement the sessions of module Sessions.  The session of a
\* wallet is that of the sign-in whose document is stored; a sign-in has opened its
\* session once all that is left to do is to respond.
Heard(r) == IF outcome[r] = "pending" THEN "nothing"
            ELSE IF outcome[r] = "aborted" THEN "lost"
            ELSE IF outcome[r] = "token" THEN "token" ELSE "refused"
Verdict(g) == IF guardResult[g] = "pending" THEN "none"
              ELSE IF guardResult[g] \in {"unauthorized", "typeError"} THEN "displaced"
              ELSE guardResult[g]
Session == INSTANCE Sessions WITH
  None    <- Nil,
  asked   <- wallet,
  current <- [w \in Wallets |-> IF accessTokens[w] = Nil THEN Nil ELSE lastWriter[w]],
  token   <- [r \in Requests |-> IF pc[r] = "respond" THEN newToken[r] ELSE Nil],
  told    <- [r \in Requests |-> Heard(r)],
  verdict <- [g \in Guards |-> Verdict(g)]
SessionsKept == Session!Spec

-----------------------------------------------------------------------------
(* The inductive strengthening of the invariants above *)

\* What the stage of a handler says of its own variables.
HandlerConsistent ==
  \A r \in Requests :
    /\ pc[r] = "idle" => outcome[r] = "pending" /\ wallet[r] = Nil
    /\ pc[r] # "idle" => wallet[r] \in Wallets
    /\ pc[r] \in {"upsert", "save", "respond"} =>
         /\ newToken[r] \in Tokens
         /\ newToken[r].pk = wallet[r]
         /\ newToken[r].iat <= clock
    /\ outcome[r] = "token" => pc[r] = "respond"
    /\ pc[r] = "respond" => outcome[r] # "error"
    /\ pc[r] = "signAgain" => outcome[r] # "error"
    /\ outcome[r] = "undefined" => pc[r] = "lookup"

\* The document of a wallet is what the last sign-in that touched it left there.
DocumentExplained ==
  \A w \in Wallets :
    LET r == lastWriter[w]
    IN  /\ r = Nil => accessTokens[w] = Nil
        /\ r # Nil => wallet[r] = w
        /\ r # Nil /\ accessTokens[w] = Nil =>
             pc[r] \in {"signAgain", "save"} /\ outcome[r] # "error"
        /\ r # Nil /\ accessTokens[w] # Nil =>
             pc[r] = "respond" /\ accessTokens[w].token = newToken[r]

\* A document outlives the SessionLife after its token was signed.
DocumentDated ==
  \A w \in Wallets :
    accessTokens[w] # Nil =>
      accessTokens[w].expiresAt >= accessTokens[w].token.iat + SessionLife

\* Two sign-ins of one wallet under way at the same time have both noticed.
OverlapsRecorded ==
  \A r, o \in Requests :
    r # o /\ Active(r) /\ Active(o) /\ wallet[r] = wallet[o] => raced[r]

\* A sign-in that met nobody finds the collections as it left them.
UndisturbedView ==
  \A r \in Requests :
    Active(r) /\ ~raced[r] =>
      /\ pc[r] = "createUser" => wallet[r] \notin users
      /\ pc[r] = "check" /\ readToken[r] # Nil => accessTokens[wallet[r]] # Nil
      /\ pc[r] = "revoke" => accessTokens[wallet[r]] # Nil
      /\ pc[r] \in {"signAgain", "save"} => accessTokens[wallet[r]] = Nil

\* A guarded call carries a token some sign-in has returned.
GuardConsistent ==
  \A g \in Guards :
    guardPc[g] # "idle" => presented[g] \in Requests /\ outcome[presented[g]] = "token"

\* A guarded call has no result before its last step, and no token before its first.
GuardNotDone ==
  \A g \in Guards :
    /\ guardPc[g] = "idle" => presented[g] = Nil
    /\ guardPc[g] # "done" => guardResult[g] = "pending"

IInv == /\ TypeOK
        /\ HandlerConsistent
        /\ DocumentExplained
        /\ DocumentDated
        /\ OverlapsRecorded
        /\ UndisturbedView
        /\ GuardConsistent
        /\ GuardNotDone
        /\ ErrorsNeedARace
        /\ RefusalMeansDisplaced

-----------------------------------------------------------------------------
(* What tests and comments of the repository say, and the code does not do *)

\* "if access token not expired, should revoke access token, save it and return
\* it": a sign-in that found an unexpired token is not refused.
UnexpiredTokenIsReissued ==
  \A r \in Requests : pc[r] \in {"revoke", "save"} => outcome[r] # "error"
=============================================================================
