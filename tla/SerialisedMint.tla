--------------------------- MODULE SerialisedMint ---------------------------
(***************************************************************************)
(* Token creation signed by the client: create-mint (SplCreateService over *)
(* createAndMintSupplyToken) and serialised/create-token (createToken)     *)
(* build a transaction on the durable nonce, sign it with the keys of the  *)
(* backend and hand it out.  The client adds its signature, and sends it   *)
(* back through serialised/transaction/send when it likes: late, twice or  *)
(* never.  With the keys it was handed it may then call serialised/mint    *)
(* (mintToken), which builds another such transaction, and                 *)
(* serialised/transfer (transferMintedTokenToAddress), whose transactions  *)
(* the backend sends itself.                                               *)
(*                                                                         *)
(* sendRawTransaction leaves the transaction as it is, so it stays valid   *)
(* until the nonce account, which every call and the backend's own mints   *)
(* share, is advanced by anybody.  A processed transaction advances it even*)
(* if it fails.  The nonce values are numbered: with n advances behind it  *)
(* the account holds value n + 1.                                          *)
(*                                                                         *)
(* The address lookup table a create-mint sets up is left out: neither of  *)
(* the transactions it returns refers to it.  The second one, versioned,   *)
(* carries no signature of the backend and is left out as well.            *)
(***************************************************************************)
EXTENDS Integers, TokenLedger

CONSTANTS
  Calls,       \* calls of the four routes; one that creates a token has a mint key
               \* of its own
  Sends,       \* calls of serialised/transaction/send
  Other,       \* whoever else advances the nonce: the backend's own mints
  Wishes,      \* what a create-mint may ask for
  MaxAdvances  \* bound on the advances of the nonce, for model checking only

ASSUME OtherAssumption    == Other \notin Calls
ASSUME WishesAssumption   ==
  Wishes \subseteq SUBSET {"revokeMint", "revokeFreeze", "unmodifiable"}
ASSUME AdvancesAssumption == MaxAdvances \in Nat

VARIABLES
  stage,      \* stage[c]: the next await of call c
  answer,     \* answer[c]: how call c was answered
  kind,       \* kind[c]: the route
  token,      \* token[c]: the call that made the mint key c works on, often c
  wish,       \* wish[c]: what create-mint c asks for
  hasUser,    \* hasUser[c]: there is a user with the wallet address of c
  nonceOf,    \* nonceOf[c]: the nonce value in the transaction of c, 0 for none
  profile,    \* calls whose token, with its keys, is in projectTokens of a user
  sending,    \* sending[s]: the call whose transaction s sends, or Other
  sent,       \* sent[s]: how far send s is
  inFlight,   \* calls whose transaction is with the validators
  advances,   \* who advanced the nonce, in order: a call, or Other
  account     \* account[c]: the on-chain facts about the mint of c

call    == <<stage, answer, kind, token, wish, hasUser, nonceOf, profile>>
sends   == <<sending, sent>>
chain   == <<inFlight, advances, account>>
vars    == <<call, sends, chain>>

Creations == {"createMint", "createToken"}
Kinds   == Creations \cup {"mintToken", "transfer"}
Stages  == {"idle", "pin", "nonce", "prepare", "save", "tokenAccount",
            "awaitTokenAccount", "transfer"}
Answers == {"pending", "transaction", "nothing", "error"}
Sendings == {"idle", "send", "confirm", "signature", "error"}

-----------------------------------------------------------------------------
(* The transaction *)

\* The 0.001 SOL of the user, in the same transaction.
TransferToNobody == Instruction({}, {}, {"fee to the key undefined"}, {})
Transfer == Instruction({}, {}, {"fee"}, {})

\* The four branches over revokeMintAuthority and revokeFreezeAuthority; the one
\* for the freeze authority alone asks for it and for its opposite.
RevokeAlways(w) ==
  <<RemoveAuthority("mintAuthority"), RemoveAuthority("freezeAuthority"), Transfer>>
Revocations(w) ==
  IF "revokeMint" \notin w THEN <<Transfer>>
  ELSE IF "revokeFreeze" \notin w THEN <<RemoveAuthority("mintAuthority")>>
  ELSE <<RemoveAuthority("mintAuthority"), RemoveAuthority("freezeAuthority"), Transfer>>

TokenAccountFirst(c) ==
  << CreateAccount, CreateAssociatedTokenAccount,
     InitializeMint({"freezeAuthority"}),
     CreateMetadataAccountV3("unmodifiable" \notin wish[c]),
     MintTo >> \o Revocations(wish[c])
CreateAndMint(c) ==
  << CreateAccount,
     InitializeMint({"freezeAuthority"}),
     CreateMetadataAccountV3("unmodifiable" \notin wish[c]),
     CreateAssociatedTokenAccount,
     MintTo >> \o Revocations(wish[c])

\* mintToken takes the address of the token account of the mint authority, and
\* names a key it has just generated as the owner.
MintTokenInstructions ==
  << CreateAssociatedTokenAccountAt("authority", "mintTo"), MintTo >>

CreateTokenInstructions ==
  << CreateAccount, InitializeMint({}), CreateMetadataAccountV3(TRUE) >>

Instructions(c) ==
  IF kind[c] = "createMint" THEN CreateAndMint(c)
  ELSE IF kind[c] = "createToken" THEN CreateTokenInstructions
  ELSE MintTokenInstructions

Nonce == Len(advances) + 1

\* The runtime takes a transaction only with the nonce the account holds.
AnyBlockhash(c) == TRUE
Fresh(c) == nonceOf[c] = Nonce

Processed(c) == \E i \in DOMAIN advances : advances[i] = c

-----------------------------------------------------------------------------
(* Building a transaction *)

At(c, s)  == stage[c] = s /\ answer[c] = "pending"
Goto(c, s)   == stage' = [stage EXCEPT ![c] = s] /\ UNCHANGED answer
Answer(c, a) == answer' = [answer EXCEPT ![c] = a] /\ UNCHANGED stage

Init ==
  /\ stage = [c \in Calls |-> "idle"]
  /\ answer = [c \in Calls |-> "pending"]
  /\ kind = [c \in Calls |-> "createMint"]
  /\ token = [c \in Calls |-> c]
  /\ wish = [c \in Calls |-> {}]
  /\ hasUser = [c \in Calls |-> FALSE]
  /\ nonceOf = [c \in Calls |-> 0]
  /\ profile = {}
  /\ sending = [s \in Sends |-> Other]
  /\ sent = [s \in Sends |-> "idle"]
  /\ inFlight = {}
  /\ advances = <<>>
  /\ account = [c \in Calls |-> {}]

Request(c, k, w, u) ==
  /\ stage[c] = "idle"
  /\ Goto(c, "pin")
  /\ kind' = [kind EXCEPT ![c] = k]
  /\ wish' = [wish EXCEPT ![c] = w]
  /\ hasUser' = [hasUser EXCEPT ![c] = u]
  /\ UNCHANGED <<token, nonceOf, profile, sends, chain>>

\* mintToken and transferMintedTokenToAddress take the keys of a token.
RequestWithKeys(c, k, d) ==
  /\ stage[c] = "idle"
  /\ answer[d] = "transaction" /\ kind[d] \in Creations
  /\ Goto(c, IF k = "mintToken" THEN "nonce" ELSE "tokenAccount")
  /\ kind' = [kind EXCEPT ![c] = k]
  /\ token' = [token EXCEPT ![c] = d]
  /\ UNCHANGED <<wish, hasUser, nonceOf, profile, sends, chain>>

\* createAndPinMetadataForSplToken, and the choice of the paying wallet.
PinMetadata(c) ==
  /\ At(c, "pin")
  /\ Goto(c, "nonce") \/ Answer(c, "error")
  /\ UNCHANGED <<kind, token, wish, hasUser, nonceOf, profile, sends, chain>>

\* getAccountInfo of the nonce account; its nonce becomes recentBlockhash.  For
\* create-mint it is read at commitment confirmed; the other two read the finalized
\* account, which may still hold an older value.
ReadNonce(c) ==
  /\ At(c, "nonce")
  /\ \/ /\ Goto(c, "prepare")
        /\ \E n \in 1..Nonce :
             /\ kind[c] = "createMint" => n = Nonce
             /\ nonceOf' = [nonceOf EXCEPT ![c] = n]
     \/ Answer(c, "error") /\ UNCHANGED nonceOf
  /\ UNCHANGED <<kind, token, wish, hasUser, profile, sends, chain>>

\* The rest of the awaits before anything is stored.  createToken asks for the rent
\* and answers; mintToken converts the amount and answers.  create-mint asks for the
\* rent, the slot and a blockhash, sends two transactions for the lookup table, waits
\* until they are finalized, reads the table back and has the two private keys
\* encrypted by KMS.
Prepare(c) ==
  /\ At(c, "prepare")
  /\ \/ kind[c] # "createMint" /\ Answer(c, "transaction")
     \/ kind[c] = "createMint" /\ Goto(c, "save")
     \/ Answer(c, "error")
  /\ UNCHANGED <<kind, token, wish, hasUser, nonceOf, profile, sends, chain>>

\* addCreatedAndMintedSplTokenToUserProfile: $push, then findOne; the answer then
\* carries the partially signed transaction and the keys.  Without a user nothing
\* is modified and the service returns undefined.
SaveRegardless(c) ==
  /\ At(c, "save")
  /\ Answer(c, "transaction")
  /\ profile' = IF hasUser[c] THEN profile \cup {c} ELSE profile
  /\ UNCHANGED <<kind, token, wish, hasUser, nonceOf, sends, chain>>
SaveAndSend(c) ==
  /\ At(c, "save")
  /\ Answer(c, IF hasUser[c] THEN "transaction" ELSE "nothing")
  /\ profile' = IF hasUser[c] THEN profile \cup {c} ELSE profile
  /\ inFlight' = inFlight \cup {c}
  /\ UNCHANGED <<kind, token, wish, hasUser, nonceOf, sends, advances, account>>
SaveToken(c) ==
  /\ At(c, "save")
  /\ \/ hasUser[c] /\ Answer(c, "transaction") /\ profile' = profile \cup {c}
     \/ hasUser[c] /\ Answer(c, "error") /\ profile' = profile \cup {c}
     \/ ~hasUser[c] /\ Answer(c, "nothing") /\ UNCHANGED profile
     \/ Answer(c, "error") /\ UNCHANGED profile
  /\ UNCHANGED <<kind, token, wish, hasUser, nonceOf, sends, chain>>

HasTokenAccount(c) == "tokenAccount" \in account[token[c]]

\* getOrCreateAssociatedTokenAccount: look it up; if it is not there send a
\* transaction of its own for it, with errors ignored; look again.
GetOrCreateTokenAccount(c) ==
  /\ At(c, "tokenAccount")
  /\ \/ HasTokenAccount(c) /\ Goto(c, "transfer") /\ UNCHANGED inFlight
     \/ ~HasTokenAccount(c) /\ Goto(c, "awaitTokenAccount")
          /\ inFlight' \in {inFlight, inFlight \cup {c}}
     \/ Answer(c, "error") /\ UNCHANGED inFlight
  /\ UNCHANGED <<kind, token, wish, hasUser, nonceOf, profile, sends, advances, account>>

LookAgain(c) ==
  /\ At(c, "awaitTokenAccount")
  /\ \/ HasTokenAccount(c) /\ Goto(c, "transfer")
     \/ Answer(c, "error")
  /\ UNCHANGED <<kind, token, wish, hasUser, nonceOf, profile, sends, chain>>

\* transferChecked names the key of a wallet where the program expects a token
\* account: the preflight refuses it, whatever the state of the token.
TransferChecked(c) ==
  /\ At(c, "transfer")
  /\ Answer(c, "error")
  /\ UNCHANGED <<kind, token, wish, hasUser, nonceOf, profile, sends, chain>>

\* The service dies, which to the client is an error.
Abort(c) ==
  /\ stage[c] # "idle" /\ answer[c] = "pending"
  /\ Answer(c, "error")
  /\ UNCHANGED <<kind, token, wish, hasUser, nonceOf, profile, sends, chain>>

-----------------------------------------------------------------------------
(* sendSerialisedTransaction *)

SendBecomes(s, state) == sent' = [sent EXCEPT ![s] = state] /\ UNCHANGED sending

\* The client sends the transaction it was handed.
SendRequest(s, c) ==
  /\ sent[s] = "idle"
  /\ answer[c] = "transaction"
  /\ sent' = [sent EXCEPT ![s] = "send"]
  /\ sending' = [sending EXCEPT ![s] = c]
  /\ UNCHANGED <<call, chain>>

\* sendRawTransaction: serialize throws without the client's signature, and the
\* preflight, on the finalized state, rejects most of what cannot land; it lets a
\* transaction through whose nonce was advanced just now.
SendRawTransaction(s) ==
  /\ sent[s] = "send"
  /\ \/ inFlight' = inFlight \cup {sending[s]} /\ SendBecomes(s, "confirm")
     \/ inFlight' = inFlight \cup {sending[s]} /\ SendBecomes(s, "error")
     \/ UNCHANGED inFlight /\ SendBecomes(s, "error")
  /\ UNCHANGED <<call, advances, account>>

\* confirmTransaction(signature, 'finalized') resolves for a processed transaction,
\* failed or not, and rejects at its timeout.
ConfirmBlindly(s) ==
  /\ sent[s] = "confirm"
  /\ SendBecomes(s, "signature") \/ SendBecomes(s, "error")
  /\ UNCHANGED <<call, chain>>
ConfirmForever(s) ==
  /\ sent[s] = "confirm"
  /\ Processed(sending[s]) /\ SendBecomes(s, "signature")
  /\ UNCHANGED <<call, chain>>
ConfirmTransaction(s) ==
  /\ sent[s] = "confirm"
  /\ \/ Processed(sending[s]) /\ SendBecomes(s, "signature")
     \/ SendBecomes(s, "error")
  /\ UNCHANGED <<call, chain>>

-----------------------------------------------------------------------------
(* The chain *)

\* A validator processes the transaction of c.  It fails if the paying wallets
\* lack the funds; its nonce is spent all the same.
Land(c) ==
  LET instructions == Instructions(c)
      facts        == account[token[c]]
  IN  /\ c \in inFlight
      /\ Fresh(c)
      /\ Len(advances) < MaxAdvances
      /\ inFlight' = inFlight \ {c}
      /\ advances' = Append(advances, c)
      /\ \/ /\ Succeeds(facts, instructions)
            /\ account' = [account EXCEPT ![token[c]] = Outcome(facts, instructions)]
         \/ UNCHANGED account
      /\ UNCHANGED <<call, sends>>

\* A validator processes the transaction of transfer c for the token account, which
\* has a recent blockhash.
LandTokenAccount(c) ==
  /\ c \in inFlight
  /\ kind[c] = "transfer"
  /\ Valid(CreateAssociatedTokenAccount, account[token[c]])
  /\ account' = [account EXCEPT ![token[c]] = After(CreateAssociatedTokenAccount, @)]
  /\ inFlight' = inFlight \ {c}
  /\ UNCHANGED <<call, sends, advances>>

\* No validator takes it any more, or it fails without advancing the nonce.
Drop(c) ==
  /\ c \in inFlight
  /\ inFlight' = inFlight \ {c}
  /\ UNCHANGED <<call, sends, advances, account>>

\* A mint of the backend itself advances the nonce.
OtherAdvance ==
  /\ Len(advances) < MaxAdvances
  /\ advances' = Append(advances, Other)
  /\ UNCHANGED <<call, sends, inFlight, account>>

ServiceStep(c) ==
  \/ PinMetadata(c)
  \/ ReadNonce(c)
  \/ Prepare(c)
  \/ SaveToken(c)
  \/ GetOrCreateTokenAccount(c)
  \/ LookAgain(c)
  \/ TransferChecked(c)

SendStep(s) == SendRawTransaction(s) \/ ConfirmTransaction(s)

Next ==
  \/ \E c \in Calls, w \in Wishes, u \in BOOLEAN : Request(c, "createMint", w, u)
  \/ \E c \in Calls : Request(c, "createToken", {}, FALSE)
  \/ \E c, d \in Calls, k \in {"mintToken", "transfer"} : RequestWithKeys(c, k, d)
  \/ \E c \in Calls : ServiceStep(c)
  \/ \E c \in Calls : Abort(c)
  \/ \E s \in Sends, c \in Calls : SendRequest(s, c)
  \/ \E s \in Sends : SendStep(s)
  \/ \E c \in Calls : Land(c)
  \/ \E c \in Calls : LandTokenAccount(c)
  \/ \E c \in Calls : Drop(c)
  \/ OtherAdvance

Spec == Init /\ [][Next]_vars

\* Every await of the service settles.
FairSpec ==
  /\ Spec
  /\ \A c \in Calls : WF_vars(ServiceStep(c))
  /\ \A s \in Sends : WF_vars(SendStep(s))

-----------------------------------------------------------------------------
(* Properties *)

TypeOK ==
  /\ stage \in [Calls -> Stages]
  /\ answer \in [Calls -> Answers]
  /\ kind \in [Calls -> Kinds]
  /\ token \in [Calls -> Calls]
  /\ wish \in [Calls -> Wishes \cup {{}}]
  /\ hasUser \in [Calls -> BOOLEAN]
  /\ nonceOf \in [Calls -> Nat]
  /\ profile \subseteq Calls
  /\ sending \in [Sends -> Calls \cup {Other}]
  /\ sent \in [Sends -> Sendings]
  /\ inFlight \subseteq Calls
  /\ advances \in Seq(Calls \cup {Other})
  /\ account \in [Calls -> SUBSET Facts]

Exists(c) == "initialised" \in account[c]

\* A token that exists is the token that was asked for, however late its
\* transaction was sent: it keeps and loses the authorities the request says, and
\* the fee is paid with it.  Not covered, because the code does otherwise: a
\* request to revoke the freeze authority alone, and the fee when only the mint
\* authority is revoked.
Honours(facts, w) ==
  /\ "supply" \in facts
  /\ ("mintAuthority" \notin facts) = ("revokeMint" \in w)
  /\ ("mutable" \notin facts) = ("unmodifiable" \in w)
  /\ "revokeFreeze" \notin w => "freezeAuthority" \in facts
  /\ {"revokeMint", "revokeFreeze"} \subseteq w => "freezeAuthority" \notin facts
  /\ "revokeMint" \notin w \/ "revokeFreeze" \in w => "fee" \in facts
RequestHonoured ==
  \A c \in Calls :
    Exists(c) /\ kind[c] = "createMint" => Honours(account[c], wish[c])

\* No token comes into being through create-mint whose encrypted keys are not on
\* the profile of its user, whatever was cut off, lost or sent again.
KeysAreKept ==
  \A c \in Calls : Exists(c) /\ kind[c] = "createMint" => c \in profile

\* As long as its nonce value is current, the transaction that creates a token does
\* what it should if it is sent: nothing a client, another call or a transfer did
\* in the meantime stands in its way.
FreshMeansExecutable ==
  \A c \in Calls :
    answer[c] = "transaction" /\ kind[c] \in Creations /\ Fresh(c) =>
      Succeeds(account[c], Instructions(c))

\* A token comes into being only if a client was handed its transaction: what was
\* stored or prepared for a call that was then answered otherwise stays without
\* effect for good.
TokensWereHandedOut ==
  \A c \in Calls : Exists(c) => answer[c] = "transaction"

\* Of all the transactions built on one nonce value only one ever takes effect,
\* and it takes effect once.
SameNonceExcludes ==
  /\ \A i, j \in DOMAIN advances :
       advances[i] = advances[j] /\ advances[i] # Other => i = j
  /\ \A c, d \in Calls :
       nonceOf[c] = nonceOf[d] /\ Exists(c) /\ Exists(d) => c = d

\* A send is answered with a signature only once the transaction can no longer be
\* processed by anybody.
SignatureIsFinal ==
  \A s \in Sends :
    sent[s] = "signature" => Processed(sending[s]) /\ ~Fresh(sending[s])

\* The service implements the promise of TicketPromise.  The terms of a token are what
\* requests are about; the addition of a token account is not among them.
Terms == {"supply", "mintAuthority", "freezeAuthority", "mutable", "fee"}
Honouring(k, w) ==
  IF k = "createMint" THEN {t \in SUBSET Terms : Honours(t, w)}
  ELSE IF k = "createToken" THEN {{"mintAuthority", "mutable"}} ELSE {}
Told(a) == IF a = "pending" THEN "nothing"
           ELSE IF a = "transaction" THEN "ticket" ELSE "failed"
Promise == INSTANCE TicketPromise WITH
  Routes   <- Kinds,
  Wishes   <- Wishes \cup {{}},
  asked    <- [c \in Calls |-> IF stage[c] = "idle" THEN {} ELSE {<<kind[c], wish[c]>>}],
  told     <- [c \in Calls |-> Told(answer[c])],
  ticket   <- [c \in Calls |-> IF answer[c] = "transaction" THEN nonceOf[c] ELSE 0],
  kept     <- profile,
  turn     <- Nonce,
  redeemed <- {c \in Calls : Processed(c)},
  terms    <- [c \in Calls |-> account[c] \cap Terms],
  receipt  <- [s \in Sends |-> IF sent[s] = "signature" THEN {sending[s]} ELSE {}]
PromiseKept == Promise!Spec

\* Every call and every send is answered: each is made once, so if there is always a
\* later moment when none is pending, none is pending for ever.
AllAnswered ==
  []<>(/\ \A c \in Calls : stage[c] # "idle" => answer[c] # "pending"
       /\ \A s \in Sends : sent[s] # "idle" => sent[s] \in {"signature", "error"})

-----------------------------------------------------------------------------
(* The inductive strengthening of the safety properties above *)

\* A call that has not arrived has no answer, no nonce and no token of another.
Untouched ==
  \A c \in Calls :
    stage[c] = "idle" => answer[c] = "pending" /\ nonceOf[c] = 0 /\ token[c] = c

\* Only a transaction that was handed out can be sent, and only one that was sent,
\* or that of a transfer, gets anywhere on chain.
OnlyHandedOut ==
  /\ \A s \in Sends :
       sent[s] # "idle" => sending[s] \in Calls /\ answer[sending[s]] = "transaction"
  /\ \A c \in Calls :
       (c \in inFlight /\ kind[c] # "transfer") \/ Processed(c) => answer[c] = "transaction"

\* A transfer has stages of its own, and uses no nonce value.
TransfersHaveNoNonce ==
  \A c \in Calls :
    /\ kind[c] = "transfer"
         <=> stage[c] \in {"tokenAccount", "awaitTokenAccount", "transfer"}
    /\ kind[c] = "transfer" => nonceOf[c] = 0

\* A call that creates a token works on a mint key of its own.
OwnToken ==
  \A c \in Calls : kind[c] \in Creations => token[c] = c

\* The account of a mint is untouched, or what the transaction of its creation made
\* of it, but for the token account, which a transfer may have added.
AccountExplained ==
  \A c \in Calls :
    account[c] # {} =>
      /\ Processed(c)
      /\ kind[c] \in Creations
      /\ account[c] \in { Outcome({}, Instructions(c)),
                           Outcome({}, Instructions(c)) \cup {"tokenAccount"} }

\* create-mint hands nothing out before the keys are stored.
StoredFirst ==
  \A c \in Calls : answer[c] = "transaction" /\ kind[c] = "createMint" => c \in profile

\* The nonce value in a transaction is its place in the history of the nonce.
PlacedByNonce ==
  \A i \in DOMAIN advances : advances[i] \in Calls => nonceOf[advances[i]] = i

\* What a transaction is built on is a value the nonce account has held.
NonceWasRead ==
  \A c \in Calls : stage[c] \in {"prepare", "save"} => nonceOf[c] \in 1..Nonce

SignedMeansProcessed ==
  \A s \in Sends : sent[s] = "signature" => Processed(sending[s])

IInv == /\ TypeOK
        /\ Untouched
        /\ OnlyHandedOut
        /\ TransfersHaveNoNonce
        /\ OwnToken
        /\ AccountExplained
        /\ StoredFirst
        /\ PlacedByNonce
        /\ NonceWasRead
        /\ SignedMeansProcessed

-----------------------------------------------------------------------------
(* What messages say, and the code does not do *)

\* "Revoking freeze authority": a token created on a request to revoke the freeze
\* authority has none.
FreezeRevokedOnRequest ==
  \A c \in Calls :
    Exists(c) /\ "revokeFreeze" \in wish[c] => "freezeAuthority" \notin account[c]

\* "Mint tokens to specified wallet address": the transaction of mintToken mints,
\* if it is sent while the token has its mint authority and no token account.
MintTokenWorks ==
  \A c \in Calls :
    LET facts == account[token[c]]
    IN  /\ answer[c] = "transaction" /\ kind[c] = "mintToken" /\ Fresh(c)
        /\ {"initialised", "mintAuthority"} \subseteq facts
        /\ "tokenAccount" \notin facts
        => Succeeds(facts, Instructions(c))
=============================================================================
