----------------------------- MODULE TokenMint -----------------------------
(***************************************************************************)
(* Token creation by the backend: createMemeToken and createUtilityToken   *)
(* of the mint microservice (apps/mint) and createMintTokens of the admin  *)
(* route (libs/solana).  A call pins the metadata, builds one transaction, *)
(* sends it, waits for its confirmation, stores a record and answers with  *)
(* the keys.  Calls run concurrently and all of their transactions advance *)
(* the same nonce account, which the transactions of SerialisedMint, the   *)
(* ones that clients sign and send, advance too.                           *)
(*                                                                         *)
(* web3.js gives a legacy Transaction without nonceInfo the latest         *)
(* blockhash and signs it again, so the nonce is not what keeps the        *)
(* transaction valid: its advance is an ordinary instruction, which the    *)
(* runtime rejects if the nonce was already advanced in this slot.         *)
(***************************************************************************)
EXTENDS Integers, TokenLedger

CONSTANTS
  Calls,     \* HTTP calls, each used once; a call generates its own mint key
  Client,    \* whoever sends a transaction of SerialisedMint
  Nobody,    \* neither a call nor the client
  MaxSlot    \* bound on the slots, for model checking only

Kinds == {"meme", "utility", "adminFixed", "adminMutable"}

ASSUME NobodyAssumption == Nobody \notin Calls \cup {Client} /\ Client \notin Calls
ASSUME SlotAssumption   == MaxSlot \in Nat

VARIABLES
  stage,      \* stage[c]: the next await of call c
  answer,     \* answer[c]: how the call was answered
  kind,       \* kind[c]: the route, and unmodifiableMetadata for the admin route
  hasWallet,  \* hasWallet[c]: userWalletAddress is given
  uri,        \* uri[c]: what the answer to the pin of the metadata document names
  tx,         \* tx[c]: the transaction of c
  account,    \* account[c]: the on-chain facts about the mint of c
  records,    \* calls with a document in the minted-token collection
  slot,       \* the current slot of the chain
  advanced,   \* advanced[s]: who advanced the nonce in slot s of the chain
  landedIn    \* history: landedIn[c] is the slot in which tx[c] was processed

call  == <<stage, answer, kind, hasWallet, uri>>
chain == <<tx, account, slot, advanced, landedIn>>
vars  == <<call, chain, records>>

Stages   == {"idle", "pinAuth", "pinFile", "pinJson", "nonce", "send", "confirm",
             "record", "respond"}
Answers  == {"pending", "keys", "error", "aborted"}
Uris     == {"none", "document", "undefined"}
TxStates == {"unsent", "inFlight", "succeeded", "failed", "dropped"}
Slots    == 0..MaxSlot

-----------------------------------------------------------------------------
(* The transaction *)

IsMutable(k) == k \in {"utility", "adminMutable"}

\* initMintInstruction, metadata, token account and first supply.
NullAsFreezeKey(k) ==
  << CreateAccount,
     InitializeMint({"freezeAuthority of the key null"}),
     CreateMetadataAccountV3(IsMutable(k)),
     CreateAssociatedTokenAccount,
     MintTo >>
CreationInstructions(k) ==
  << CreateAccount,
     InitializeMint({}),
     CreateMetadataAccountV3(IsMutable(k)),
     CreateAssociatedTokenAccount,
     MintTo >>

\* removeMintAuthorityInstruction comes last, and not for utility tokens.
RemoveAuthorityFirst(k) ==
  IF k = "utility" THEN CreationInstructions(k)
  ELSE <<CreateAccount, InitializeMint({}), RemoveAuthority("mintAuthority")>>
         \o SubSeq(CreationInstructions(k), 3, 5)
AuthorityKeptForAdmin(k) ==
  IF k = "meme" THEN Append(CreationInstructions(k), RemoveAuthority("mintAuthority"))
  ELSE CreationInstructions(k)
Instructions(k) ==
  IF k = "utility" THEN CreationInstructions(k)
  ELSE Append(CreationInstructions(k), RemoveAuthority("mintAuthority"))

-----------------------------------------------------------------------------
(* Calls *)

Active(c) == stage[c] # "idle" /\ answer[c] = "pending"
At(c, s)  == stage[c] = s /\ answer[c] = "pending"
Goto(c, s)   == stage' = [stage EXCEPT ![c] = s] /\ UNCHANGED answer
Answer(c, a) == answer' = [answer EXCEPT ![c] = a] /\ UNCHANGED stage

TxBecomes(c, s) == tx' = [tx EXCEPT ![c] = s]

\* connection.confirmTransaction resolves once the transaction was processed,
\* whether or not it succeeded.
Settled(c) == tx[c] \in {"succeeded", "failed"}

Init ==
  /\ stage = [c \in Calls |-> "idle"]
  /\ answer = [c \in Calls |-> "pending"]
  /\ kind = [c \in Calls |-> "meme"]
  /\ hasWallet = [c \in Calls |-> FALSE]
  /\ uri = [c \in Calls |-> "none"]
  /\ tx = [c \in Calls |-> "unsent"]
  /\ account = [c \in Calls |-> {}]
  /\ records = {}
  /\ slot = 0
  /\ advanced = [s \in Slots |-> Nobody]
  /\ landedIn = [c \in Calls |-> 0]

Request(c, k, w) ==
  /\ stage[c] = "idle"
  /\ Goto(c, "pinAuth")
  /\ kind' = [kind EXCEPT ![c] = k]
  /\ hasWallet' = [hasWallet EXCEPT ![c] = w]
  /\ UNCHANGED <<uri, chain, records>>

\* verifyPinAuth: anything but 200 or 201 is an error.
VerifyPinAuth(c) ==
  /\ At(c, "pinAuth")
  /\ Goto(c, "pinFile") \/ Answer(c, "error")
  /\ UNCHANGED <<kind, hasWallet, uri, chain, records>>

\* toBuffer, which the image is taken to have as its type MultipartFile says, and
\* pinFile: an answer that is not OK has no ipfsHash; the link to the image then
\* ends in "undefined", and the call goes on.
PinFile(c) ==
  /\ At(c, "pinFile")
  /\ Goto(c, "pinJson") \/ Answer(c, "error")
  /\ UNCHANGED <<kind, hasWallet, uri, chain, records>>

\* pinJson: an answer that is not OK has no uri, and the call goes on here too.
PinJson(c) ==
  /\ At(c, "pinJson")
  /\ \/ /\ uri' \in {[uri EXCEPT ![c] = u] : u \in {"document", "undefined"}}
        /\ Goto(c, "nonce")
     \/ Answer(c, "error") /\ UNCHANGED uri
  /\ UNCHANGED <<kind, hasWallet, chain, records>>

\* getAccountInfo of the nonce account and the rent query; between the two the
\* metadata instruction is encoded, which throws for a uri that is undefined.
UndefinedAsText(c) ==
  /\ At(c, "nonce")
  /\ Goto(c, "send") \/ Answer(c, "error")
  /\ UNCHANGED <<kind, hasWallet, uri, chain, records>>
SetupNonceInstruction(c) ==
  /\ At(c, "nonce")
  /\ \/ uri[c] # "undefined" /\ Goto(c, "send")
     \/ Answer(c, "error")
  /\ UNCHANGED <<kind, hasWallet, uri, chain, records>>

\* sendTransaction: it is accepted; or the preflight or the RPC node rejects
\* it; or the answer of the RPC node is lost after the broadcast.
SendTransaction(c) ==
  /\ At(c, "send")
  /\ \/ TxBecomes(c, "inFlight") /\ Goto(c, "confirm")
     \/ UNCHANGED tx /\ Answer(c, "error")
     \/ TxBecomes(c, "inFlight") /\ Answer(c, "error")
  /\ UNCHANGED <<kind, hasWallet, uri, account, slot, advanced, landedIn, records>>

\* confirmTransaction(signature, 'confirmed') resolves with whatever became of
\* the transaction (value.err is not looked at), or times out.
ConfirmAtOnce(c) ==
  /\ At(c, "confirm")
  /\ Goto(c, "record") \/ Answer(c, "error")
  /\ UNCHANGED <<kind, hasWallet, uri, chain, records>>
ConfirmWithoutTimeout(c) ==
  /\ At(c, "confirm")
  /\ Settled(c)
  /\ Goto(c, "record")
  /\ UNCHANGED <<kind, hasWallet, uri, chain, records>>
ConfirmTransaction(c) ==
  /\ At(c, "confirm")
  /\ \/ Settled(c) /\ Goto(c, "record")
     \/ Answer(c, "error")
  /\ UNCHANGED <<kind, hasWallet, uri, chain, records>>

Stores(c) == hasWallet[c] /\ kind[c] \in {"meme", "utility"}

\* mintRepo.createToken, for the mint service with a wallet address.
RecordToken(c) ==
  /\ At(c, "record")
  /\ \/ ~Stores(c) /\ Goto(c, "respond") /\ UNCHANGED records
     \/ Stores(c) /\ Goto(c, "respond") /\ records' = records \cup {c}
     \/ Stores(c) /\ Answer(c, "error") /\ records' \in {records, records \cup {c}}
  /\ UNCHANGED <<kind, hasWallet, uri, chain>>

\* return response, with the authority and mint keys.
Respond(c) ==
  /\ At(c, "respond")
  /\ Answer(c, "keys")
  /\ UNCHANGED <<kind, hasWallet, uri, chain, records>>

\* The service dies, and the only copy of the generated keys with it.
Abort(c) ==
  /\ Active(c)
  /\ Answer(c, "aborted")
  /\ UNCHANGED <<kind, hasWallet, uri, chain, records>>

-----------------------------------------------------------------------------
(* The chain *)

Taken == advanced[slot] # Nobody
Takes(who) == advanced' = [advanced EXCEPT ![slot] = who]

\* A validator processes the transaction of c.
Land(c) ==
  LET instructions == Instructions(kind[c])
  IN  /\ tx[c] = "inFlight"
      /\ landedIn' = [landedIn EXCEPT ![c] = slot]
      /\ \/ /\ ~Taken /\ Succeeds(account[c], instructions)
            /\ TxBecomes(c, "succeeded")
            /\ account' = [account EXCEPT ![c] = Outcome(account[c], instructions)]
            /\ Takes(c)
         \/ /\ Taken \/ ~Succeeds(account[c], instructions)
            /\ TxBecomes(c, "failed")
            /\ UNCHANGED <<account, advanced>>
      /\ UNCHANGED <<call, slot, records>>

\* A validator processes a transaction that a client signed.  The nonce is what keeps
\* that one valid, and it is advanced even if the rest of the transaction fails.
ClientAdvance ==
  /\ ~Taken
  /\ Takes(Client)
  /\ UNCHANGED <<call, tx, account, slot, landedIn, records>>

\* Its blockhash expires before any validator processes it.
Drop(c) ==
  /\ tx[c] = "inFlight"
  /\ TxBecomes(c, "dropped")
  /\ UNCHANGED <<call, account, slot, advanced, landedIn, records>>

NextSlot ==
  /\ slot < MaxSlot
  /\ slot' = slot + 1
  /\ UNCHANGED <<call, tx, account, advanced, landedIn, records>>

ServiceStep(c) ==
  \/ VerifyPinAuth(c)
  \/ PinFile(c)
  \/ PinJson(c)
  \/ SetupNonceInstruction(c)
  \/ SendTransaction(c)
  \/ ConfirmTransaction(c)
  \/ RecordToken(c)
  \/ Respond(c)

Next ==
  \/ \E c \in Calls, k \in Kinds, w \in BOOLEAN : Request(c, k, w)
  \/ \E c \in Calls : ServiceStep(c)
  \/ \E c \in Calls : Abort(c)
  \/ \E c \in Calls : Land(c)
  \/ \E c \in Calls : Drop(c)
  \/ ClientAdvance
  \/ NextSlot

Spec == Init /\ [][Next]_vars

\* Every await of the service settles: confirmTransaction at its timeout.
FairSpec == Spec /\ \A c \in Calls : WF_vars(ServiceStep(c))

-----------------------------------------------------------------------------
(* Properties *)

TypeOK ==
  /\ stage \in [Calls -> Stages]
  /\ answer \in [Calls -> Answers]
  /\ kind \in [Calls -> Kinds]
  /\ hasWallet \in [Calls -> BOOLEAN]
  /\ uri \in [Calls -> Uris]
  /\ tx \in [Calls -> TxStates]
  /\ account \in [Calls -> SUBSET Facts]
  /\ records \subseteq Calls
  /\ slot \in Slots
  /\ advanced \in [Slots -> Calls \cup {Client, Nobody}]
  /\ landedIn \in [Calls -> Slots]

\* The transaction the service builds fails on chain only because the nonce account
\* it shares was advanced in the same slot: by a client, or by another creation of the
\* service, which succeeded.
FailureMeansContention ==
  \A c \in Calls :
    tx[c] = "failed" =>
      LET d == advanced[landedIn[c]]
      IN  \/ d = Client
          \/ d \in Calls \ {c} /\ tx[d] = "succeeded" /\ landedIn[d] = landedIn[c]

\* Once a fixed token (meme, or admin) exists nobody can mint more of it, and an
\* unmodifiable one nobody can re-describe; there is no state on chain between
\* its creation and the removal of its authority.
FixedTokensStayFixed ==
  \A c \in Calls :
    "supply" \in account[c] =>
      /\ kind[c] # "utility" => "mintAuthority" \notin account[c]
      /\ kind[c] \in {"meme", "adminFixed"} => "mutable" \notin account[c]

\* A pin that is not OK is a value nobody looks at.  All the same no token comes
\* into being, whoever it belongs to, without a pinned document behind its metadata.
MetadataResolves ==
  \A c \in Calls : "metadata" \in account[c] => uri[c] = "document"

\* Keys are handed out, and a token is recorded, only when the fate of its
\* transaction is decided: none of it can still land or expire afterwards.
AnsweredAfterSettling ==
  \A c \in Calls : answer[c] = "keys" \/ c \in records => Settled(c)

\* The service implements the promise of MintPromise: what one transaction of five or
\* six instructions, a shared nonce and eight awaits amount to is a token that is made
\* whole or not at all, in a turn (a slot) that nobody else has taken.  The fee and the
\* technical facts are not part of it.  Nor is the freeze authority of a utility token:
\* a comment says that it is kept, and no token ever has one (see TokenMintProofs).
Promised(k) == {"supply", "mintAuthority", "mutable"}
                 \cup (IF k = "utility" THEN {} ELSE {"freezeAuthority"})
Terms(k) ==
  IF k = "utility" THEN {"supply", "mintAuthority", "mutable"}
  ELSE IF k = "adminMutable" THEN {"supply", "mutable"} ELSE {"supply"}
Fate(s) == IF s = "succeeded" THEN "made"
           ELSE IF s = "failed" THEN "refused"
           ELSE IF s = "dropped" THEN "lapsed" ELSE "open"
Told(a) == IF a = "pending" THEN "nothing"
           ELSE IF a = "keys" THEN "keys" ELSE "failed"
Promise == INSTANCE MintPromise WITH
  asked  <- [c \in Calls |-> IF stage[c] = "idle" THEN {} ELSE {kind[c]}],
  token  <- [c \in Calls |-> account[c] \cap Promised(kind[c])],
  fate   <- [c \in Calls |-> Fate(tx[c])],
  told   <- [c \in Calls |-> Told(answer[c])],
  listed <- records,
  busy   <- Taken
PromiseKept == Promise!Spec

\* Every call is answered, whatever becomes of its transaction.
CallEnds == \A c \in Calls : stage[c] # "idle" ~> answer[c] # "pending"

-----------------------------------------------------------------------------
(* The inductive strengthening of the invariants above *)

\* What the stage of a call says of its transaction, its pin and its record.
CallConsistent ==
  \A c \in Calls :
    /\ stage[c] = "idle" => answer[c] = "pending"
    /\ stage[c] \notin {"send", "confirm", "record", "respond"} => tx[c] = "unsent"
    /\ At(c, "send") => tx[c] = "unsent"
    /\ stage[c] = "nonce" => uri[c] # "none"
    /\ stage[c] \in {"send", "confirm", "record", "respond"} => uri[c] = "document"
    /\ stage[c] \in {"record", "respond"} => Settled(c)
    /\ answer[c] = "keys" => stage[c] = "respond"
    /\ c \in records => stage[c] \in {"record", "respond"}

\* The account of a mint is what its one transaction left there.
AccountExplained ==
  \A c \in Calls :
    account[c] = IF tx[c] = "succeeded" THEN Outcome({}, Instructions(kind[c])) ELSE {}

\* A call that advanced the nonce in some slot made its token there; nobody is ahead
\* of the chain.
AdvanceExplained ==
  \A s \in Slots :
    /\ advanced[s] \in Calls =>
         tx[advanced[s]] = "succeeded" /\ landedIn[advanced[s]] = s
    /\ s > slot => advanced[s] = Nobody

IInv == /\ TypeOK
        /\ CallConsistent
        /\ AccountExplained
        /\ AdvanceExplained
        /\ FailureMeansContention

-----------------------------------------------------------------------------
(* What comments and messages say, and the code does not do *)

\* "Transaction sent and confirmed": a token on record was created.
RecordedTokenExists ==
  \A c \in records : "supply" \in account[c]
=============================================================================
