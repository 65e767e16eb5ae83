------------------------ MODULE SerialisedMintProofs ------------------------
(***************************************************************************)
(* Theorems about SerialisedMint for every set of calls and sends, every   *)
(* set of wishes and every bound on the nonce.  The argument: a            *)
(* transaction gets nowhere before it was handed out (OnlyHandedOut), by   *)
(* then its nonce value is fixed and its keys are stored (StoredFirst),    *)
(* when it is processed that value is its place in the history of the      *)
(* nonce (PlacedByNonce), and until then nobody else can touch the account *)
(* of its mint (AccountExplained).                                         *)
(***************************************************************************)
EXTENDS SerialisedMint, TokenLedgerProofs

-----------------------------------------------------------------------------
(* What the transactions do *)

\* What the transaction of a create-mint leaves of the wish.
Created(c) ==
  {"allocated", "initialised", "metadata", "updateAuthority", "tokenAccount", "supply"}
  \cup (IF "unmodifiable" \in wish[c] THEN {} ELSE {"mutable"})
  \cup (IF "revokeMint" \in wish[c] THEN {} ELSE {"mintAuthority"})
  \cup (IF {"revokeMint", "revokeFreeze"} \subseteq wish[c] THEN {} ELSE {"freezeAuthority"})
  \cup (IF "revokeMint" \in wish[c] /\ "revokeFreeze" \notin wish[c] THEN {} ELSE {"fee"})

\* The account of the mint after the first five instructions.
Minted(c) ==
  {"allocated", "initialised", "metadata", "updateAuthority", "tokenAccount", "supply",
   "mintAuthority", "freezeAuthority"}
  \cup (IF "unmodifiable" \in wish[c] THEN {} ELSE {"mutable"})

LEMMA MintPrefix ==
  ASSUME NEW c \in Calls, NEW s,
         s[1] = CreateAccount,
         s[2] = InitializeMint({"freezeAuthority"}),
         s[3] = CreateMetadataAccountV3("unmodifiable" \notin wish[c]),
         s[4] = CreateAssociatedTokenAccount,
         s[5] = MintTo
  PROVE  /\ \A i \in 1..5 : Valid(s[i], Found({}, s, i))
         /\ Found({}, s, 6) = Minted(c)
<1> DEFINE m == IF "unmodifiable" \in wish[c] THEN {} ELSE {"mutable"}
           F(i) == Found({}, s, i)
<1>1. F(1) = {}
  BY FoundFirst
<1>2. \A i \in Nat \ {0} : F(i + 1) = After(s[i], F(i))
  BY FoundNext
<1> HIDE DEF F
<1> USE DEF Instruction, Valid, After
<1>3. F(2) = {"allocated"} /\ Valid(s[1], F(1))
  BY <1>1, <1>2 DEF CreateAccount
<1>4. /\ F(3) = {"allocated", "initialised", "mintAuthority", "freezeAuthority"}
      /\ Valid(s[2], F(2))
  BY <1>2, <1>3 DEF InitializeMint
<1>5. /\ F(4) = F(3) \cup {"metadata", "updateAuthority"} \cup m
      /\ Valid(s[3], F(3))
  BY <1>2, <1>4 DEF CreateMetadataAccountV3
<1>6. F(5) = F(4) \cup {"tokenAccount"} /\ Valid(s[4], F(4))
  BY <1>2, <1>4, <1>5 DEF CreateAssociatedTokenAccount, CreateAssociatedTokenAccountAt
<1>7. F(6) = F(5) \cup {"supply"} /\ Valid(s[5], F(5))
  BY <1>2, <1>4, <1>5, <1>6 DEF MintTo
<1>8. F(6) = Minted(c)
  BY <1>4, <1>5, <1>6, <1>7 DEF Minted
<1> QED
  BY <1>3, <1>4, <1>5, <1>6, <1>7, <1>8 DEF F

\* The transaction of a create-mint succeeds on an untouched account, and makes of
\* it what was asked for.
LEMMA CreateMintExecutes ==
  ASSUME NEW c \in Calls, kind[c] = "createMint"
  PROVE  /\ Succeeds({}, Instructions(c))
         /\ Outcome({}, Instructions(c)) = Created(c)
<1> DEFINE s == Instructions(c)
           r == Revocations(wish[c])
           F(i) == Found({}, s, i)
           removeMint == RemoveAuthority("mintAuthority")
           removeFreeze == RemoveAuthority("freezeAuthority")
<1>1. r \in Seq({Transfer, removeMint, removeFreeze}) /\ Len(r) \in Nat
  <2> HIDE DEF removeMint, removeFreeze
  <2>1. r \in {<<Transfer>>, <<removeMint>>, <<removeMint, removeFreeze, Transfer>>}
    BY DEF Revocations, removeMint, removeFreeze
  <2> HIDE DEF r, removeMint, removeFreeze
  <2>2. CASE r = <<Transfer>>
    BY <2>2
  <2>3. CASE r = <<removeMint>>
    BY <2>3
  <2>4. CASE r = <<removeMint, removeFreeze, Transfer>>
    BY <2>4
  <2> QED
    BY <2>1, <2>2, <2>3, <2>4
<1>2. /\ DOMAIN s = 1 .. Len(r) + 5
      /\ Len(s) = Len(r) + 5
      /\ \A i \in 1 .. Len(r) : s[5 + i] = r[i]
      /\ s[1] = CreateAccount
      /\ s[2] = InitializeMint({"freezeAuthority"})
      /\ s[3] = CreateMetadataAccountV3("unmodifiable" \notin wish[c])
      /\ s[4] = CreateAssociatedTokenAccount
      /\ s[5] = MintTo
  <2> HIDE DEF r
  <2>1. s = << CreateAccount,
               InitializeMint({"freezeAuthority"}),
               CreateMetadataAccountV3("unmodifiable" \notin wish[c]),
               CreateAssociatedTokenAccount,
               MintTo >> \o r
    BY DEF Instructions, CreateAndMint, r
  <2> HIDE DEF s
  <2> QED
    BY <1>1, <2>1, FiveAndMore
<1>3. F(6) = Minted(c) /\ \A i \in 1..5 : Valid(s[i], F(i))
  <2> HIDE DEF s
  <2> QED
    BY <1>2, MintPrefix
<1>4. \A i \in Nat \ {0} : F(i + 1) = After(s[i], F(i))
  BY FoundNext
<1> HIDE DEF s, F
<1> USE DEF Instruction, Valid, After, Transfer, RemoveAuthority
<1>5. CASE "revokeMint" \notin wish[c]
  <2>1. r = <<Transfer>>
    BY <1>5 DEF Revocations
  <2>2. s[6] = Transfer /\ Len(s) = 6 /\ DOMAIN s = 1..6
    BY <1>2, <2>1
  <2>3. F(7) = Created(c) /\ Valid(s[6], F(6))
    BY <1>3, <1>4, <1>5, <2>2 DEF Minted, Created
  <2> QED
    BY <1>3, <2>2, <2>3 DEF Succeeds, Outcome, F, s
<1>6. CASE "revokeMint" \in wish[c] /\ "revokeFreeze" \notin wish[c]
  <2>1. r = <<removeMint>>
    BY <1>6 DEF Revocations
  <2>2. s[6] = removeMint /\ Len(s) = 6 /\ DOMAIN s = 1..6
    BY <1>2, <2>1
  <2>3. F(7) = Created(c) /\ Valid(s[6], F(6))
    BY <1>3, <1>4, <1>6, <2>2 DEF Minted, Created
  <2> QED
    BY <1>3, <2>2, <2>3 DEF Succeeds, Outcome, F, s
<1>7. CASE "revokeMint" \in wish[c] /\ "revokeFreeze" \in wish[c]
  <2>1. r = <<removeMint, removeFreeze, Transfer>>
    BY <1>7 DEF Revocations
  <2>2. /\ s[6] = removeMint /\ s[7] = removeFreeze /\ s[8] = Transfer
        /\ Len(s) = 8 /\ DOMAIN s = 1..8
    BY <1>2, <2>1
  <2>3. F(7) = Minted(c) \ {"mintAuthority"} /\ Valid(s[6], F(6))
    BY <1>3, <1>4, <2>2 DEF Minted
  <2>4. F(8) = Minted(c) \ {"mintAuthority", "freezeAuthority"} /\ Valid(s[7], F(7))
    BY <1>4, <2>2, <2>3 DEF Minted
  <2>5. F(9) = Created(c) /\ Valid(s[8], F(8))
    BY <1>4, <1>7, <2>2, <2>4 DEF Minted, Created
  <2> QED
    BY <1>3, <2>2, <2>3, <2>4, <2>5 DEF Succeeds, Outcome, F, s
<1> QED
  BY <1>5, <1>6, <1>7

\* So does that of a create-token.
CreatedBare ==
  {"allocated", "initialised", "mintAuthority", "metadata", "updateAuthority", "mutable"}

LEMMA CreateTokenExecutes ==
  ASSUME NEW c \in Calls, kind[c] = "createToken"
  PROVE  /\ Succeeds({}, Instructions(c))
         /\ Outcome({}, Instructions(c)) = CreatedBare
<1> DEFINE s == Instructions(c)
           F(i) == Found({}, s, i)
<1>1. s = << CreateAccount, InitializeMint({}), CreateMetadataAccountV3(TRUE) >>
  BY DEF Instructions, CreateTokenInstructions
<1>2. F(1) = {}
  BY FoundFirst
<1>3. \A i \in Nat \ {0} : F(i + 1) = After(s[i], F(i))
  BY FoundNext
<1>4. /\ DOMAIN s = 1..3 /\ Len(s) = 3
      /\ s[1] = CreateAccount /\ s[2] = InitializeMint({})
      /\ s[3] = CreateMetadataAccountV3(TRUE)
  <2> HIDE DEF s
  <2> QED
    BY <1>1
<1> HIDE DEF s, F
<1> USE DEF Instruction, Valid, After
<1>5. F(2) = {"allocated"} /\ Valid(s[1], F(1))
  BY <1>2, <1>3, <1>4 DEF CreateAccount
<1>6. F(3) = {"allocated", "initialised", "mintAuthority"} /\ Valid(s[2], F(2))
  BY <1>3, <1>4, <1>5 DEF InitializeMint
<1>7. F(4) = CreatedBare /\ Valid(s[3], F(3))
  BY <1>3, <1>4, <1>6 DEF CreateMetadataAccountV3, CreatedBare
<1>8. \A i \in 1..3 : Valid(s[i], F(i))
  BY <1>5, <1>6, <1>7
<1> QED
  BY <1>4, <1>7, <1>8 DEF Succeeds, Outcome, F, s

\* The transaction of a mintToken never succeeds.
LEMMA MintTokenFails ==
  ASSUME NEW facts \in SUBSET Facts
  PROVE  ~Succeeds(facts, MintTokenInstructions)
<1> DEFINE s == MintTokenInstructions
<1>1. 1 \in DOMAIN s /\ s[1] = CreateAssociatedTokenAccountAt("authority", "mintTo")
  BY DEF MintTokenInstructions
<1>2. ~Valid(s[1], facts)
  BY <1>1 DEF CreateAssociatedTokenAccountAt, Instruction, Valid, Impossible, Facts
<1> QED
  BY <1>1, <1>2, FoundFirst DEF Succeeds

LEMMA FactsOnly ==
  ASSUME NEW c \in Calls, kind[c] \in Creations
  PROVE  Outcome({}, Instructions(c)) \subseteq Facts
BY CreateMintExecutes, CreateTokenExecutes DEF Creations, Created, CreatedBare, Facts

-----------------------------------------------------------------------------
(* The inductive invariant *)

LEMMA InvInit == Init => IInv
BY OtherAssumption
DEF Init, IInv, TypeOK, Untouched, OnlyHandedOut, TransfersHaveNoNonce, OwnToken,
    AccountExplained, StoredFirst, PlacedByNonce, NonceWasRead, SignedMeansProcessed,
    Processed, Stages, Answers, Kinds, Creations, Sendings

\* What an advance of the nonce does to its history.
LEMMA Advanced ==
  ASSUME NEW S, NEW h \in Seq(S), NEW e \in S
  PROVE  /\ Append(h, e) \in Seq(S)
         /\ DOMAIN Append(h, e) = DOMAIN h \cup {Len(h) + 1}
         /\ \A i \in DOMAIN h : Append(h, e)[i] = h[i]
         /\ Append(h, e)[Len(h) + 1] = e
OBVIOUS

\* One account is replaced.
LEMMA Replaced ==
  ASSUME NEW x \in Calls, NEW v, account \in [Calls -> SUBSET Facts],
         account' = [account EXCEPT ![x] = v]
  PROVE  account'[x] = v /\ \A y \in Calls \ {x} : account'[y] = account[y]
OBVIOUS

\* A step of a call before it is answered, or of its arrival: it may put the
\* transaction of a transfer in flight, and moves nothing else on chain and no send.
LEMMA BuildStep ==
  ASSUME IInv, NEW c \in Calls, answer[c] = "pending",
         UNCHANGED <<sends, advances, account>>,
         inFlight' = inFlight \/ (inFlight' = inFlight \cup {c} /\ kind'[c] = "transfer"),
         kind'[c] = kind[c] \/ stage[c] = "idle",
         TypeOK', Untouched', TransfersHaveNoNonce', OwnToken', StoredFirst', NonceWasRead',
         \A d \in Calls \ {c} : /\ answer'[d] = answer[d] /\ nonceOf'[d] = nonceOf[d]
                                /\ kind'[d] = kind[d] /\ wish'[d] = wish[d]
  PROVE  IInv'
<1> USE DEF IInv, sends
<1>1. ~Processed(c) /\ account[c] = {}
  BY DEF OnlyHandedOut, AccountExplained
<1>2. c \in inFlight => kind[c] = "transfer" /\ kind'[c] = "transfer"
  BY DEF OnlyHandedOut, TransfersHaveNoNonce
<1>3. OnlyHandedOut'
  BY <1>1, <1>2 DEF OnlyHandedOut, Processed, TypeOK
<1>4. AccountExplained'
  <2>1. \A d \in Calls \ {c} : Instructions(d)' = Instructions(d)
    BY DEF Instructions, CreateAndMint
  <2> QED
    BY <1>1, <2>1 DEF AccountExplained, Processed
<1>5. PlacedByNonce'
  BY <1>1 DEF PlacedByNonce, Processed
<1>6. SignedMeansProcessed'
  BY DEF SignedMeansProcessed, Processed
<1> QED
  BY <1>3, <1>4, <1>5, <1>6

TransferStages == {"tokenAccount", "awaitTokenAccount", "transfer"}

\* A call that has arrived goes on to a stage of its route.
LEMMA GoOn ==
  ASSUME IInv, NEW c \in Calls, NEW t \in Stages \ {"idle"},
         answer[c] = "pending", stage[c] # "idle", Goto(c, t),
         t \in TransferStages <=> stage[c] \in TransferStages,
         t \in {"prepare", "save"} => stage[c] \in {"prepare", "save"},
         UNCHANGED <<kind, token, wish, hasUser, nonceOf, profile, sends, advances, account>>,
         inFlight' = inFlight \/ (inFlight' = inFlight \cup {c} /\ kind[c] = "transfer")
  PROVE  IInv'
<1> USE DEF IInv, Goto
<1>1. /\ stage' \in [Calls -> Stages]
      /\ \A d \in Calls : /\ stage'[d] = "idle" <=> stage[d] = "idle"
                          /\ stage'[d] \in TransferStages <=> stage[d] \in TransferStages
  BY DEF TypeOK
<1>2. TypeOK'
  BY <1>1 DEF TypeOK, sends
<1>3. Untouched'
  BY <1>1 DEF Untouched
<1>4. TransfersHaveNoNonce' /\ OwnToken' /\ StoredFirst'
  BY <1>1 DEF TransfersHaveNoNonce, OwnToken, StoredFirst, TransferStages
<1>5. NonceWasRead'
  BY DEF TypeOK, NonceWasRead, Nonce
<1> QED
  BY <1>2, <1>3, <1>4, <1>5, BuildStep

\* It is answered, with its transaction only if the keys are on the profile by then.
LEMMA Answered ==
  ASSUME IInv, NEW c \in Calls, NEW a \in Answers,
         answer[c] = "pending", stage[c] # "idle", Answer(c, a),
         UNCHANGED <<kind, token, wish, hasUser, nonceOf, sends, chain>>,
         profile \subseteq profile', profile' \subseteq Calls,
         a = "transaction" /\ kind[c] = "createMint" => c \in profile'
  PROVE  IInv'
<1> USE DEF IInv, Answer
<1>1. TypeOK'
  BY DEF TypeOK, sends, chain
<1>2. Untouched' /\ TransfersHaveNoNonce' /\ OwnToken'
  BY DEF TypeOK, Untouched, TransfersHaveNoNonce, OwnToken
<1>3. StoredFirst'
  BY DEF TypeOK, StoredFirst
<1>4. NonceWasRead'
  BY DEF NonceWasRead, Nonce, chain
<1> QED
  BY <1>1, <1>2, <1>3, <1>4, BuildStep DEF TypeOK, chain

\* A step that leaves the calls, the nonce and the accounts alone.
LEMMA SendingStep ==
  ASSUME IInv, UNCHANGED <<call, advances, account>>,
         TypeOK', OnlyHandedOut', SignedMeansProcessed'
  PROVE  IInv'
<1> USE DEF IInv, call
<1>1. \A d \in Calls : Instructions(d)' = Instructions(d)
  BY DEF Instructions, CreateAndMint
<1>2. AccountExplained'
  BY <1>1 DEF AccountExplained, Processed
<1>3. Untouched' /\ TransfersHaveNoNonce' /\ OwnToken' /\ StoredFirst' /\ PlacedByNonce'
  BY DEF Untouched, TransfersHaveNoNonce, OwnToken, StoredFirst, PlacedByNonce
<1>4. NonceWasRead'
  BY DEF NonceWasRead, Nonce
<1> QED
  BY <1>2, <1>3, <1>4

\* The nonce only moves on.
LEMMA LaterNonce ==
  ASSUME IInv, UNCHANGED call,
         advances' = advances \/ \E a \in Calls \cup {Other} : advances' = Append(advances, a)
  PROVE  NonceWasRead' /\ Nonce' \in {Nonce, Nonce + 1}
<1>1. Len(advances) \in Nat /\ Len(advances') \in {Len(advances), Len(advances) + 1}
  BY DEF IInv, TypeOK
<1>2. Nonce' \in {Nonce, Nonce + 1} /\ Nonce \in Nat
  BY <1>1 DEF Nonce
<1> QED
  BY <1>2 DEF IInv, TypeOK, NonceWasRead, call

\* What the landing of a transaction does: its number is the next one, and is used up;
\* a creation makes the whole token or nothing, and any other transaction nothing.
LEMMA Landing ==
  ASSUME IInv, NEW c \in Calls, Land(c)
  PROVE  /\ c \in inFlight
         /\ nonceOf[c] = Len(advances) + 1
         /\ inFlight' = inFlight \ {c}
         /\ advances' = Append(advances, c)
         /\ UNCHANGED <<call, sends>>
         /\ advances' \in Seq(Calls \cup {Other})
         /\ DOMAIN advances' = DOMAIN advances \cup {Len(advances) + 1}
         /\ \A i \in DOMAIN advances : advances'[i] = advances[i]
         /\ advances'[Len(advances) + 1] = c
         /\ \A d : Processed(d)' <=> Processed(d) \/ d = c
         /\ ~Processed(c) /\ kind[c] # "transfer"
         /\ \/ UNCHANGED account
            \/ /\ kind[c] \in Creations
               /\ Outcome({}, Instructions(c)) \subseteq Facts
               /\ account' = [account EXCEPT ![c] = Outcome({}, Instructions(c))]
<1>1. /\ c \in inFlight
      /\ nonceOf[c] = Len(advances) + 1
      /\ inFlight' = inFlight \ {c}
      /\ advances' = Append(advances, c)
      /\ UNCHANGED <<call, sends>>
  BY DEF Land, Fresh, Nonce
<1>2. /\ advances' \in Seq(Calls \cup {Other})
      /\ DOMAIN advances' = DOMAIN advances \cup {Len(advances) + 1}
      /\ \A i \in DOMAIN advances : advances'[i] = advances[i]
      /\ advances'[Len(advances) + 1] = c
      /\ Len(advances) \in Nat /\ DOMAIN advances = 1 .. Len(advances)
  BY <1>1, Advanced DEF IInv, TypeOK
<1>3. \A d : Processed(d)' <=> Processed(d) \/ d = c
  BY <1>2 DEF Processed
<1>4. ~Processed(c) /\ kind[c] # "transfer"
  BY <1>1, <1>2 DEF IInv, PlacedByNonce, Processed, TransfersHaveNoNonce
<1>5. \/ UNCHANGED account
      \/ /\ kind[c] \in Creations
         /\ Outcome({}, Instructions(c)) \subseteq Facts
         /\ account' = [account EXCEPT ![c] = Outcome({}, Instructions(c))]
  <2>1. CASE kind[c] \in Creations
    <3>1. token[c] = c /\ account[c] = {}
      BY <1>4, <2>1 DEF IInv, OwnToken, AccountExplained
    <3> QED
      BY <2>1, <3>1, FactsOnly DEF Land
  <2>2. CASE kind[c] \notin Creations
    <3>1. Instructions(c) = MintTokenInstructions
      BY <2>2 DEF Instructions, Creations
    <3>2. account[token[c]] \in SUBSET Facts
      BY DEF IInv, TypeOK
    <3> QED
      BY <3>1, <3>2, MintTokenFails DEF Land
  <2> QED
    BY <2>1, <2>2
<1> QED
  BY <1>1, <1>2, <1>3, <1>4, <1>5

LEMMA InvStep ==
  ASSUME IInv, [Next]_vars
  PROVE  IInv'
<1> USE DEF At, SendBecomes
<1>1. ASSUME NEW c \in Calls, NEW k \in Creations, NEW w \in Wishes \cup {{}}, NEW u \in BOOLEAN,
             Request(c, k, w, u)
      PROVE  IInv'
  <2>1. /\ answer[c] = "pending" /\ nonceOf[c] = 0 /\ stage[c] = "idle" /\ token[c] = c
        /\ kind[c] # "transfer"
    BY <1>1 DEF Request, IInv, Untouched, TransfersHaveNoNonce
  <2>2. TypeOK'
    BY <1>1 DEF Request, IInv, TypeOK, Goto, sends, chain, Stages, Kinds, Creations
  <2>3. Untouched'
    BY <1>1 DEF Request, IInv, TypeOK, Goto, Untouched
  <2>4. TransfersHaveNoNonce' /\ OwnToken'
    BY <1>1, <2>1 DEF Request, IInv, TypeOK, Goto, TransfersHaveNoNonce, OwnToken, Creations
  <2>5. StoredFirst'
    BY <1>1, <2>1 DEF Request, IInv, TypeOK, Goto, StoredFirst
  <2>6. NonceWasRead'
    BY <1>1 DEF Request, IInv, TypeOK, Goto, NonceWasRead, Nonce, chain
  <2> QED
    BY <1>1, <2>1, <2>2, <2>3, <2>4, <2>5, <2>6, BuildStep DEF Request, IInv, TypeOK, Goto, sends, chain
<1>2. ASSUME NEW c \in Calls, NEW d \in Calls, NEW k \in {"mintToken", "transfer"},
             RequestWithKeys(c, k, d)
      PROVE  IInv'
  <2>1. /\ answer[c] = "pending" /\ nonceOf[c] = 0 /\ stage[c] = "idle" /\ token[c] = c
        /\ kind[c] # "transfer"
    BY <1>2 DEF RequestWithKeys, IInv, Untouched, TransfersHaveNoNonce
  <2>2. TypeOK'
    BY <1>2 DEF RequestWithKeys, IInv, TypeOK, Goto, sends, chain, Stages, Kinds, Creations
  <2>3. Untouched'
    BY <1>2 DEF RequestWithKeys, IInv, TypeOK, Goto, Untouched
  <2>4. TransfersHaveNoNonce' /\ OwnToken'
    BY <1>2, <2>1 DEF RequestWithKeys, IInv, TypeOK, Goto, TransfersHaveNoNonce, OwnToken, Creations
  <2>5. StoredFirst'
    BY <1>2, <2>1 DEF RequestWithKeys, IInv, TypeOK, Goto, StoredFirst
  <2>6. NonceWasRead'
    BY <1>2 DEF RequestWithKeys, IInv, TypeOK, Goto, NonceWasRead, Nonce, chain
  <2> QED
    BY <1>2, <2>1, <2>2, <2>3, <2>4, <2>5, <2>6, BuildStep DEF RequestWithKeys, IInv, TypeOK, Goto, sends, chain
<1>3. ASSUME NEW c \in Calls, PinMetadata(c)
      PROVE  IInv'
  <2>1. CASE Goto(c, "nonce")
    BY <1>3, <2>1, GoOn DEF PinMetadata, IInv, TransfersHaveNoNonce, TransferStages, Stages, chain
  <2>2. CASE Answer(c, "error")
    BY <1>3, <2>2, Answered DEF PinMetadata, IInv, TypeOK, Answers, chain
  <2> QED
    BY <1>3, <2>1, <2>2 DEF PinMetadata
<1>4. ASSUME NEW c \in Calls, ReadNonce(c)
      PROVE  IInv'
  <2>1. Nonce \in Nat
    BY DEF IInv, TypeOK, Nonce
  <2>2. CASE Answer(c, "error") /\ UNCHANGED nonceOf
    BY <1>4, <2>2, Answered DEF ReadNonce, IInv, TypeOK, Answers, chain
  <2>3. CASE Goto(c, "prepare") /\ \E n \in 1..Nonce : nonceOf' = [nonceOf EXCEPT ![c] = n]
    <3>1. PICK n \in 1..Nonce : nonceOf' = [nonceOf EXCEPT ![c] = n]
      BY <2>3
    <3>2. /\ answer[c] = "pending" /\ stage[c] = "nonce" /\ kind[c] # "transfer"
          /\ stage' = [stage EXCEPT ![c] = "prepare"]
          /\ UNCHANGED <<answer, kind, token, wish, hasUser, profile, sends, chain>>
      BY <1>4, <2>3 DEF ReadNonce, IInv, TransfersHaveNoNonce, Goto
    <3>3. TypeOK' /\ Untouched'
      BY <3>1, <3>2 DEF IInv, TypeOK, Untouched, sends, chain, Stages
    <3>4. TransfersHaveNoNonce' /\ OwnToken' /\ StoredFirst'
      BY <3>1, <3>2 DEF IInv, TypeOK, TransfersHaveNoNonce, OwnToken, StoredFirst
    <3>5. NonceWasRead'
      <4>1. Nonce' = Nonce
        BY <3>2 DEF Nonce, chain
      <4> QED
        BY <2>1, <3>1, <3>2, <4>1 DEF IInv, TypeOK, NonceWasRead
    <3> QED
      BY <3>1, <3>2, <3>3, <3>4, <3>5, BuildStep DEF IInv, TypeOK, chain
  <2> QED
    BY <1>4, <2>1, <2>2, <2>3 DEF ReadNonce
<1>5. ASSUME NEW c \in Calls, Prepare(c)
      PROVE  IInv'
  <2>1. CASE Goto(c, "save")
    BY <1>5, <2>1, GoOn DEF Prepare, IInv, TransfersHaveNoNonce, TransferStages, Stages, chain
  <2>2. CASE kind[c] # "createMint" /\ Answer(c, "transaction")
    BY <1>5, <2>2, Answered DEF Prepare, IInv, TypeOK, Answers, chain
  <2>3. CASE Answer(c, "error")
    BY <1>5, <2>3, Answered DEF Prepare, IInv, TypeOK, Answers, chain
  <2> QED
    BY <1>5, <2>1, <2>2, <2>3 DEF Prepare
<1>6. ASSUME NEW c \in Calls, SaveToken(c)
      PROVE  IInv'
  <2>1. CASE Answer(c, "transaction")
    BY <1>6, <2>1, Answered DEF SaveToken, IInv, TypeOK, Answers, chain
  <2>2. CASE Answer(c, "nothing")
    BY <1>6, <2>2, Answered DEF SaveToken, IInv, TypeOK, Answers, chain
  <2>3. CASE Answer(c, "error")
    BY <1>6, <2>3, Answered DEF SaveToken, IInv, TypeOK, Answers, chain
  <2> QED
    BY <1>6, <2>1, <2>2, <2>3 DEF SaveToken
<1>7. ASSUME NEW c \in Calls, GetOrCreateTokenAccount(c)
      PROVE  IInv'
  <2>1. CASE Goto(c, "transfer")
    BY <1>7, <2>1, GoOn DEF GetOrCreateTokenAccount, IInv, TransfersHaveNoNonce, TransferStages, Stages, chain
  <2>2. CASE Goto(c, "awaitTokenAccount")
    BY <1>7, <2>2, GoOn DEF GetOrCreateTokenAccount, IInv, TransfersHaveNoNonce, TransferStages, Stages, chain
  <2>3. CASE Answer(c, "error") /\ UNCHANGED inFlight
    BY <1>7, <2>3, Answered DEF GetOrCreateTokenAccount, IInv, TypeOK, Answers, chain
  <2> QED
    BY <1>7, <2>1, <2>2, <2>3 DEF GetOrCreateTokenAccount
<1>8. ASSUME NEW c \in Calls, LookAgain(c)
      PROVE  IInv'
  <2>1. CASE Goto(c, "transfer")
    BY <1>8, <2>1, GoOn DEF LookAgain, IInv, TransfersHaveNoNonce, TransferStages, Stages, chain
  <2>2. CASE Answer(c, "error")
    BY <1>8, <2>2, Answered DEF LookAgain, IInv, TypeOK, Answers, chain
  <2> QED
    BY <1>8, <2>1, <2>2 DEF LookAgain
<1>9. ASSUME NEW c \in Calls, TransferChecked(c)
      PROVE  IInv'
  <2>1. CASE Answer(c, "error")
    BY <1>9, <2>1, Answered DEF TransferChecked, IInv, TypeOK, Answers, chain
  <2> QED
    BY <1>9, <2>1 DEF TransferChecked
<1>10. ASSUME NEW c \in Calls, Abort(c)
      PROVE  IInv'
  <2>1. CASE Answer(c, "error")
    BY <1>10, <2>1, Answered DEF Abort, IInv, TypeOK, Answers, chain
  <2> QED
    BY <1>10, <2>1 DEF Abort
<1>11. ASSUME NEW s \in Sends, NEW c \in Calls, SendRequest(s, c)
       PROVE  IInv'
  <2>1. TypeOK' /\ OnlyHandedOut' /\ SignedMeansProcessed'
    BY <1>11 DEF SendRequest, IInv, TypeOK, OnlyHandedOut, SignedMeansProcessed, Processed,
                 call, chain, Sendings
  <2> QED
    BY <1>11, <2>1, SendingStep DEF SendRequest, chain
<1>12. ASSUME NEW s \in Sends, SendRawTransaction(s)
       PROVE  IInv'
  <2>1. /\ sending[s] \in Calls /\ answer[sending[s]] = "transaction"
        /\ inFlight' \in {inFlight, inFlight \cup {sending[s]}}
        /\ \E a \in {"confirm", "error"} : sent' = [sent EXCEPT ![s] = a]
        /\ sent[s] = "send"
        /\ UNCHANGED <<call, sending, advances, account>>
    BY <1>12 DEF SendRawTransaction, IInv, OnlyHandedOut
  <2>2. TypeOK'
    BY <2>1 DEF IInv, TypeOK, call, Sendings
  <2>3. OnlyHandedOut'
    BY <2>1 DEF IInv, TypeOK, OnlyHandedOut, Processed, call
  <2>4. SignedMeansProcessed'
    BY <2>1 DEF IInv, TypeOK, SignedMeansProcessed, Processed
  <2> QED
    BY <2>1, <2>2, <2>3, <2>4, SendingStep
<1>13. ASSUME NEW s \in Sends, ConfirmTransaction(s)
       PROVE  IInv'
  <2>1. /\ sent[s] # "idle"
        /\ \E a \in {"signature", "error"} :
             /\ sent' = [sent EXCEPT ![s] = a]
             /\ a = "signature" => Processed(sending[s])
        /\ UNCHANGED <<call, sending, chain>>
    BY <1>13 DEF ConfirmTransaction
  <2>2. TypeOK'
    BY <2>1 DEF IInv, TypeOK, call, chain, Sendings
  <2>3. OnlyHandedOut'
    BY <2>1 DEF IInv, TypeOK, OnlyHandedOut, Processed, call, chain
  <2>4. SignedMeansProcessed'
    BY <2>1 DEF IInv, TypeOK, SignedMeansProcessed, Processed, chain
  <2> QED
    BY <2>1, <2>2, <2>3, <2>4, SendingStep DEF chain
<1>14. ASSUME NEW c \in Calls, Land(c)
       PROVE  IInv'
  <2>1. /\ c \in inFlight
        /\ nonceOf[c] = Len(advances) + 1
        /\ inFlight' = inFlight \ {c}
        /\ advances' = Append(advances, c)
        /\ UNCHANGED <<call, sends>>
    BY <1>14, Landing
  <2>2. /\ advances' \in Seq(Calls \cup {Other})
        /\ DOMAIN advances' = DOMAIN advances \cup {Len(advances) + 1}
        /\ \A i \in DOMAIN advances : advances'[i] = advances[i]
        /\ advances'[Len(advances) + 1] = c
    BY <1>14, Landing
  <2>3. \A d : Processed(d)' <=> Processed(d) \/ d = c
    BY <1>14, Landing
  <2>4. ~Processed(c) /\ kind[c] # "transfer"
    BY <1>14, Landing
  <2>5. \A d \in Calls : Instructions(d)' = Instructions(d)
    BY <2>1 DEF call, Instructions, CreateAndMint
  <2>6. \/ UNCHANGED account
        \/ /\ kind[c] \in Creations
           /\ Outcome({}, Instructions(c)) \subseteq Facts
           /\ account' = [account EXCEPT ![c] = Outcome({}, Instructions(c))]
    BY <1>14, Landing
  <2>7. AccountExplained'
    <3> SUFFICES ASSUME NEW d \in Calls, account'[d] # {}
                 PROVE  /\ Processed(d)'
                        /\ kind[d] \in Creations
                        /\ account'[d] \in { Outcome({}, Instructions(d)),
                             Outcome({}, Instructions(d)) \cup {"tokenAccount"} }
      BY <2>1, <2>5 DEF AccountExplained, call
    <3>1. CASE account'[d] = account[d]
      BY <2>3, <3>1 DEF IInv, AccountExplained
    <3>2. CASE account'[d] # account[d]
      <4>1. /\ kind[c] \in Creations
            /\ account' = [account EXCEPT ![c] = Outcome({}, Instructions(c))]
        BY <2>6, <3>2
      <4>2. account \in [Calls -> SUBSET Facts]
        BY DEF IInv, TypeOK
      <4>3. /\ account'[c] = Outcome({}, Instructions(c))
            /\ \A y \in Calls \ {c} : account'[y] = account[y]
        BY <4>1, <4>2, Replaced
      <4> QED
        BY <2>3, <3>2, <4>1, <4>3
    <3> QED
      BY <3>1, <3>2
  <2>8. TypeOK'
    <3>1. account' \in [Calls -> SUBSET Facts]
      BY <2>6 DEF IInv, TypeOK
    <3> QED
      BY <2>1, <2>2, <3>1 DEF IInv, TypeOK, call, sends
  <2>9. Untouched' /\ TransfersHaveNoNonce' /\ OwnToken' /\ StoredFirst'
    BY <2>1 DEF IInv, Untouched, TransfersHaveNoNonce, OwnToken, StoredFirst, call
  <2>10. OnlyHandedOut'
    BY <2>1, <2>3, <2>4 DEF IInv, OnlyHandedOut, call, sends
  <2>11. PlacedByNonce'
    BY <2>1, <2>2 DEF IInv, PlacedByNonce, call
  <2>12. SignedMeansProcessed'
    BY <2>1, <2>3 DEF IInv, SignedMeansProcessed, sends
  <2>13. NonceWasRead'
    BY <2>1, <2>2, LaterNonce
  <2> QED
    BY <2>7, <2>8, <2>9, <2>10, <2>11, <2>12, <2>13 DEF IInv
<1>15. ASSUME NEW c \in Calls, LandTokenAccount(c)
       PROVE  IInv'
  <2>1. /\ account' = [account EXCEPT ![token[c]] = account[token[c]] \cup {"tokenAccount"}]
        /\ "initialised" \in account[token[c]]
        /\ inFlight' = inFlight \ {c}
        /\ UNCHANGED <<call, sends, advances>>
    BY <1>15 DEF LandTokenAccount, CreateAssociatedTokenAccount, Valid, After,
                 CreateAssociatedTokenAccountAt, Instruction
  <2>2. \A d \in Calls : Instructions(d)' = Instructions(d) /\ (Processed(d)' <=> Processed(d))
    BY <2>1 DEF call, Instructions, CreateAndMint, Processed
  <2>3. \A d \in Calls :
          \/ account'[d] = account[d]
          \/ account[d] # {} /\ account'[d] = account[d] \cup {"tokenAccount"}
    <3>1. token[c] \in Calls /\ account \in [Calls -> SUBSET Facts]
      BY DEF IInv, TypeOK
    <3>2. /\ account'[token[c]] = account[token[c]] \cup {"tokenAccount"}
          /\ \A y \in Calls \ {token[c]} : account'[y] = account[y]
      BY <2>1, <3>1, Replaced
    <3> QED
      BY <2>1, <3>2
  <2>4. AccountExplained'
    <3> SUFFICES ASSUME NEW d \in Calls, account'[d] # {}
                 PROVE  /\ Processed(d)'
                        /\ kind'[d] \in Creations
                        /\ account'[d] \in { Outcome({}, Instructions(d)'),
                             Outcome({}, Instructions(d)') \cup {"tokenAccount"} }
      BY DEF AccountExplained
    <3>1. account[d] # {}
      BY <2>3
    <3>2. /\ Processed(d) /\ kind[d] \in Creations
          /\ account[d] \in { Outcome({}, Instructions(d)),
                               Outcome({}, Instructions(d)) \cup {"tokenAccount"} }
      BY <3>1 DEF IInv, AccountExplained
    <3>3. account'[d] \in { Outcome({}, Instructions(d)),
                             Outcome({}, Instructions(d)) \cup {"tokenAccount"} }
      BY <2>3, <3>2
    <3> QED
      BY <2>1, <2>2, <3>2, <3>3 DEF call
  <2>5. TypeOK' /\ Untouched' /\ TransfersHaveNoNonce' /\ OwnToken' /\ StoredFirst'
    BY <2>1 DEF IInv, TypeOK, Untouched, TransfersHaveNoNonce, OwnToken, StoredFirst,
                Facts, call, sends
  <2>6. OnlyHandedOut' /\ PlacedByNonce' /\ SignedMeansProcessed'
    BY <2>1, <2>2 DEF IInv, TypeOK, OnlyHandedOut, PlacedByNonce, SignedMeansProcessed,
                      Processed, call, sends
  <2> QED
    BY <2>1, <2>4, <2>5, <2>6, LaterNonce DEF IInv
<1>16. ASSUME NEW c \in Calls, Drop(c)
       PROVE  IInv'
  <2>1. TypeOK' /\ OnlyHandedOut' /\ SignedMeansProcessed'
    BY <1>16 DEF Drop, IInv, TypeOK, OnlyHandedOut, SignedMeansProcessed, Processed,
                 call, sends
  <2> QED
    BY <1>16, <2>1, SendingStep DEF Drop
<1>17. ASSUME OtherAdvance
       PROVE  IInv'
  <2>1. /\ advances' \in Seq(Calls \cup {Other})
        /\ DOMAIN advances' = DOMAIN advances \cup {Len(advances) + 1}
        /\ \A i \in DOMAIN advances : advances'[i] = advances[i]
        /\ advances'[Len(advances) + 1] = Other
    BY <1>17, Advanced DEF OtherAdvance, IInv, TypeOK
  <2>2. \A d \in Calls : Processed(d)' <=> Processed(d)
    BY <2>1, OtherAssumption DEF Processed
  <2>3. UNCHANGED <<call, sends, inFlight, account>>
    BY <1>17 DEF OtherAdvance
  <2>4. \A d \in Calls : Instructions(d)' = Instructions(d)
    BY <2>3 DEF call, Instructions, CreateAndMint
  <2>5. TypeOK' /\ Untouched' /\ TransfersHaveNoNonce' /\ OwnToken' /\ StoredFirst'
    BY <2>1, <2>3 DEF IInv, TypeOK, Untouched, TransfersHaveNoNonce, OwnToken, StoredFirst,
                      call, sends
  <2>6. OnlyHandedOut'
    BY <2>2, <2>3 DEF IInv, OnlyHandedOut, call, sends
  <2>7. PlacedByNonce'
    BY <2>1, <2>3, OtherAssumption DEF IInv, PlacedByNonce, call
  <2>8. SignedMeansProcessed'
    BY <2>2, <2>3 DEF IInv, SignedMeansProcessed, OnlyHandedOut, sends
  <2>9. AccountExplained'
    BY <2>2, <2>3, <2>4 DEF IInv, AccountExplained, call
  <2>10. NonceWasRead'
    BY <1>17, <2>3, LaterNonce DEF OtherAdvance
  <2> QED
    BY <2>5, <2>6, <2>7, <2>8, <2>9, <2>10 DEF IInv
<1>18. CASE UNCHANGED vars
  <2>1. TypeOK' /\ OnlyHandedOut' /\ SignedMeansProcessed'
    BY <1>18 DEF vars, IInv, TypeOK, OnlyHandedOut, SignedMeansProcessed, Processed,
                 call, sends, chain
  <2> QED
    BY <1>18, <2>1, SendingStep DEF vars, chain
<1> QED
  BY <1>1, <1>2, <1>3, <1>4, <1>5, <1>6, <1>7, <1>8, <1>9, <1>10, <1>11, <1>12, <1>13,
     <1>14, <1>15, <1>16, <1>17, <1>18
     DEF Next, ServiceStep, SendStep, Creations

\* The inductive invariant of the build, send and landing steps.
THEOREM InvariantTheorem == Spec => []IInv
<1>1. IInv /\ [Next]_vars => IInv'
  BY InvStep
<1> QED
  BY InvInit, <1>1, PTL DEF Spec

-----------------------------------------------------------------------------
(* What follows from it *)

LEMMA ExistsProcessed ==
  ASSUME IInv, NEW c \in Calls, Exists(c)
  PROVE  Processed(c) /\ answer[c] = "transaction"
BY DEF IInv, Exists, AccountExplained, OnlyHandedOut

\* Every variable keeps its type.
THEOREM TypeTheorem == Spec => []TypeOK
<1>1. IInv => TypeOK
  BY DEF IInv
<1> QED
  BY <1>1, InvariantTheorem, PTL

\* A token that exists is the token that was asked for.
THEOREM RequestTheorem == Spec => []RequestHonoured
<1>1. ASSUME IInv, NEW c \in Calls, Exists(c), kind[c] = "createMint"
      PROVE  account[c] \in {Created(c), Created(c) \cup {"tokenAccount"}}
  BY <1>1, CreateMintExecutes DEF IInv, AccountExplained, Exists
<1>2. ASSUME IInv
      PROVE  RequestHonoured
  BY <1>1, <1>2 DEF RequestHonoured, Honours, Created
<1> QED
  BY <1>2, InvariantTheorem, PTL

\* The transaction that creates a token can be executed as long as its nonce value
\* is current.
THEOREM FreshTheorem == Spec => []FreshMeansExecutable
<1>1. ASSUME IInv, NEW c \in Calls, kind[c] \in Creations, Fresh(c)
      PROVE  Succeeds(account[c], Instructions(c))
  <2>1. ~Processed(c)
    BY <1>1 DEF IInv, TypeOK, PlacedByNonce, Processed, Fresh, Nonce
  <2>2. account[c] = {}
    BY <1>1, <2>1 DEF IInv, AccountExplained
  <2> QED
    BY <1>1, <2>2, CreateMintExecutes, CreateTokenExecutes DEF Creations
<1>2. IInv => FreshMeansExecutable
  BY <1>1 DEF FreshMeansExecutable
<1> QED
  BY <1>2, InvariantTheorem, PTL

\* A token comes into being only if a client was handed its transaction.
THEOREM HandedOutTheorem == Spec => []TokensWereHandedOut
<1>1. IInv => TokensWereHandedOut
  BY ExistsProcessed DEF TokensWereHandedOut
<1> QED
  BY <1>1, InvariantTheorem, PTL

\* No token comes into being through create-mint whose encrypted keys are not on
\* the profile of its user.
THEOREM KeysTheorem == Spec => []KeysAreKept
<1>1. IInv => KeysAreKept
  BY ExistsProcessed DEF IInv, StoredFirst, KeysAreKept
<1> QED
  BY <1>1, InvariantTheorem, PTL

\* Of all the transactions built on one nonce value only one takes effect, once.
THEOREM NonceTheorem == Spec => []SameNonceExcludes
<1>1. ASSUME IInv
      PROVE  SameNonceExcludes
  <2>1. ASSUME NEW i \in DOMAIN advances, NEW j \in DOMAIN advances,
               advances[i] = advances[j], advances[i] # Other
        PROVE  i = j
    <3>1. advances[i] \in Calls
      BY <1>1, <2>1 DEF IInv, TypeOK
    <3> QED
      BY <1>1, <2>1, <3>1 DEF IInv, PlacedByNonce
  <2>2. ASSUME NEW c \in Calls, NEW d \in Calls,
               nonceOf[c] = nonceOf[d], Exists(c), Exists(d)
        PROVE  c = d
    <3>1. PICK i \in DOMAIN advances : advances[i] = c
      BY <1>1, <2>2, ExistsProcessed DEF Processed
    <3>2. PICK j \in DOMAIN advances : advances[j] = d
      BY <1>1, <2>2, ExistsProcessed DEF Processed
    <3>3. i = nonceOf[c] /\ j = nonceOf[d]
      BY <1>1, <3>1, <3>2 DEF IInv, PlacedByNonce
    <3> QED
      BY <2>2, <3>1, <3>2, <3>3
  <2> QED
    BY <2>1, <2>2 DEF SameNonceExcludes
<1> QED
  BY <1>1, InvariantTheorem, PTL

\* A signature is answered only once the transaction can no longer be processed.
THEOREM SignatureTheorem == Spec => []SignatureIsFinal
<1>1. ASSUME IInv, NEW s \in Sends, sent[s] = "signature"
      PROVE  Processed(sending[s]) /\ ~Fresh(sending[s])
  <2>1. PICK i \in DOMAIN advances : advances[i] = sending[s]
    BY <1>1 DEF IInv, SignedMeansProcessed, Processed
  <2>2. sending[s] \in Calls
    BY <1>1 DEF IInv, OnlyHandedOut
  <2>3. nonceOf[sending[s]] = i
    BY <1>1, <2>1, <2>2 DEF IInv, PlacedByNonce
  <2>4. i <= Len(advances) /\ Len(advances) \in Nat /\ i \in Nat
    BY <1>1 DEF IInv, TypeOK
  <2> QED
    BY <2>1, <2>3, <2>4 DEF Processed, Fresh, Nonce
<1>2. IInv => SignatureIsFinal
  BY <1>1 DEF SignatureIsFinal
<1> QED
  BY <1>2, InvariantTheorem, PTL

-----------------------------------------------------------------------------
(* How far two of the divergences of the runs reach *)

\* A token made by create-mint loses its freeze authority exactly if both authorities
\* were to be revoked: the wish for the freeze authority alone is never granted.
FreezeNeedsMint ==
  \A c \in Calls :
    Exists(c) /\ kind[c] = "createMint" =>
      ("freezeAuthority" \notin account[c] <=> {"revokeMint", "revokeFreeze"} \subseteq wish[c])

\* FreezeRevokedOnRequest fails for every such request and not only for the one the
\* run shows: the second branch over the flags is dead (createAndMintSupplyToken).
THEOREM FreezeTheorem == Spec => []FreezeNeedsMint
<1>1. ASSUME IInv, NEW c \in Calls, Exists(c), kind[c] = "createMint"
      PROVE  account[c] \in {Created(c), Created(c) \cup {"tokenAccount"}}
  BY <1>1, CreateMintExecutes DEF IInv, AccountExplained, Exists
<1>2. IInv => FreezeNeedsMint
  BY <1>1 DEF FreezeNeedsMint, Created
<1> QED
  BY <1>2, InvariantTheorem, PTL

\* The transaction of a serialised/mint would fail whenever it was sent.
MintNeverSucceeds ==
  \A c \in Calls :
    kind[c] = "mintToken" => ~Succeeds(account[token[c]], Instructions(c))

\* MintTokenWorks fails for every token, in every state of it, and whatever else is
\* sent: the route never mints (mintToken).
THEOREM MintTokenTheorem == Spec => []MintNeverSucceeds
<1>1. IInv => MintNeverSucceeds
  <2> SUFFICES ASSUME IInv, NEW c \in Calls, kind[c] = "mintToken"
               PROVE  ~Succeeds(account[token[c]], Instructions(c))
    BY DEF MintNeverSucceeds
  <2>1. account[token[c]] \in SUBSET Facts
    BY DEF IInv, TypeOK
  <2>2. Instructions(c) = MintTokenInstructions
    BY DEF Instructions
  <2> QED
    BY <2>1, <2>2, MintTokenFails
<1> QED
  BY <1>1, InvariantTheorem, PTL
=============================================================================
