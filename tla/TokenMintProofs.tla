-------------------------- MODULE TokenMintProofs --------------------------
(***************************************************************************)
(* Theorems about TokenMint for every number of calls and slots.  A        *)
(* transaction succeeds on the untouched account of its mint, so only the  *)
(* advance of the shared nonce can fail it (AdvanceExplained), and what it *)
(* leaves is all there ever is of the token (AccountExplained).            *)
(***************************************************************************)
EXTENDS TokenMint, TokenLedgerProofs

-----------------------------------------------------------------------------
(* What the transactions do *)

\* The account of the mint after the first five instructions.
Minted(k) ==
  {"allocated", "initialised", "mintAuthority", "metadata", "updateAuthority",
   "tokenAccount", "supply"}
  \cup (IF IsMutable(k) THEN {"mutable"} ELSE {})

\* What the whole transaction leaves.
Made(k) == IF k = "utility" THEN Minted(k) ELSE Minted(k) \ {"mintAuthority"}

LEMMA MintPrefix ==
  ASSUME NEW k, NEW s,
         s[1] = CreateAccount,
         s[2] = InitializeMint({}),
         s[3] = CreateMetadataAccountV3(IsMutable(k)),
         s[4] = CreateAssociatedTokenAccount,
         s[5] = MintTo
  PROVE  /\ \A i \in 1..5 : Valid(s[i], Found({}, s, i))
         /\ Found({}, s, 6) = Minted(k)
<1> DEFINE m == IF IsMutable(k) THEN {"mutable"} ELSE {}
           F(i) == Found({}, s, i)
<1>1. F(1) = {}
  BY FoundFirst
<1>2. \A i \in Nat \ {0} : F(i + 1) = After(s[i], F(i))
  BY FoundNext
<1> HIDE DEF F
<1> USE DEF Instruction, Valid, After
<1>3. F(2) = {"allocated"} /\ Valid(s[1], F(1))
  BY <1>1, <1>2 DEF CreateAccount
<1>4. F(3) = {"allocated", "initialised", "mintAuthority"} /\ Valid(s[2], F(2))
  BY <1>2, <1>3 DEF InitializeMint
<1>5. F(4) = F(3) \cup {"metadata", "updateAuthority"} \cup m /\ Valid(s[3], F(3))
  BY <1>2, <1>4 DEF CreateMetadataAccountV3
<1>6. F(5) = F(4) \cup {"tokenAccount"} /\ Valid(s[4], F(4))
  BY <1>2, <1>4, <1>5 DEF CreateAssociatedTokenAccount, CreateAssociatedTokenAccountAt
<1>7. F(6) = F(5) \cup {"supply"} /\ Valid(s[5], F(5))
  BY <1>2, <1>4, <1>5, <1>6 DEF MintTo
<1>8. F(6) = Minted(k)
  BY <1>4, <1>5, <1>6, <1>7 DEF Minted
<1> QED
  BY <1>3, <1>4, <1>5, <1>6, <1>7, <1>8 DEF F

LEMMA FiveAndOne ==
  ASSUME NEW p1, NEW p2, NEW p3, NEW p4, NEW p5, NEW e,
         NEW s, s = Append(<<p1, p2, p3, p4, p5>>, e)
  PROVE  /\ s[1] = p1 /\ s[2] = p2 /\ s[3] = p3 /\ s[4] = p4 /\ s[5] = p5
         /\ Len(s) = 6 /\ DOMAIN s = 1..6 /\ s[6] = e
<1> DEFINE p == <<p1, p2, p3, p4, p5>>
           T == {p1, p2, p3, p4, p5, e}
<1>1. p \in Seq(T) /\ e \in T
  OBVIOUS
<1>2. /\ Len(p) = 5
      /\ p[1] = p1 /\ p[2] = p2 /\ p[3] = p3 /\ p[4] = p4 /\ p[5] = p5
  OBVIOUS
<1> HIDE DEF p, T
<1>3. /\ Len(Append(p, e)) = Len(p) + 1
      /\ DOMAIN Append(p, e) = 1 .. Len(p) + 1
      /\ \A i \in 1 .. Len(p) : Append(p, e)[i] = p[i]
      /\ Append(p, e)[Len(p) + 1] = e
  BY <1>1
<1>4. s = Append(p, e)
  BY DEF p
<1> QED
  BY <1>2, <1>3, <1>4

\* The transaction of a call succeeds on an untouched account.
LEMMA Executes ==
  ASSUME NEW k
  PROVE  /\ Succeeds({}, Instructions(k))
         /\ Outcome({}, Instructions(k)) = Made(k)
<1> DEFINE s == Instructions(k)
           F(i) == Found({}, s, i)
           remove == RemoveAuthority("mintAuthority")
<1>1. /\ s[1] = CreateAccount
      /\ s[2] = InitializeMint({})
      /\ s[3] = CreateMetadataAccountV3(IsMutable(k))
      /\ s[4] = CreateAssociatedTokenAccount
      /\ s[5] = MintTo
      /\ k = "utility" => Len(s) = 5 /\ DOMAIN s = 1..5
      /\ k # "utility" => Len(s) = 6 /\ DOMAIN s = 1..6 /\ s[6] = remove
  <2> DEFINE p1 == CreateAccount
             p2 == InitializeMint({})
             p3 == CreateMetadataAccountV3(IsMutable(k))
             p4 == CreateAssociatedTokenAccount
             p5 == MintTo
  <2>1. s = IF k = "utility" THEN <<p1, p2, p3, p4, p5>>
            ELSE Append(<<p1, p2, p3, p4, p5>>, remove)
    BY DEF Instructions, CreationInstructions
  <2> HIDE DEF s, p1, p2, p3, p4, p5, remove
  <2>2. CASE k = "utility"
    <3>1. s = <<p1, p2, p3, p4, p5>>
      BY <2>1, <2>2
    <3>2. /\ s[1] = p1 /\ s[2] = p2 /\ s[3] = p3 /\ s[4] = p4 /\ s[5] = p5
          /\ Len(s) = 5 /\ DOMAIN s = 1..5
      BY <3>1
    <3> QED
      BY <2>2, <3>2, Zenon DEF p1, p2, p3, p4, p5
  <2>3. CASE k # "utility"
    <3>1. s = Append(<<p1, p2, p3, p4, p5>>, remove)
      BY <2>1, <2>3, Zenon
    <3>2. /\ s[1] = p1 /\ s[2] = p2 /\ s[3] = p3 /\ s[4] = p4 /\ s[5] = p5
          /\ Len(s) = 6 /\ DOMAIN s = 1..6 /\ s[6] = remove
      BY <3>1, FiveAndOne
    <3> QED
      BY <2>3, <3>2, Zenon DEF p1, p2, p3, p4, p5
  <2> QED
    BY <2>2, <2>3
<1> HIDE DEF s
<1>2. F(6) = Minted(k) /\ \A i \in 1..5 : Valid(s[i], F(i))
  BY <1>1, MintPrefix
<1>3. F(7) = After(s[6], F(6))
  BY FoundNext
<1> HIDE DEF F
<1>4. CASE k = "utility"
  <2>1. Len(s) = 5 /\ DOMAIN s = 1..5
    BY <1>1, <1>4, Zenon
  <2>2. Len(s) + 1 = 6
    BY <2>1
  <2>3. F(6) = Made(k)
    BY <1>2, <1>4, Zenon DEF Made
  <2>4. \A i \in DOMAIN s : Valid(s[i], F(i))
    BY <1>2, <2>1, Zenon
  <2>5. F(Len(s) + 1) = Made(k)
    BY <2>2, <2>3, Zenon
  <2> QED
    BY <2>4, <2>5, Zenon DEF Succeeds, Outcome, F, s
<1>5. CASE k # "utility"
  <2>1. s[6] = remove /\ Len(s) = 6 /\ DOMAIN s = 1..6
    BY <1>1, <1>5, Zenon
  <2>5. Len(s) + 1 = 7
    BY <2>1
  <2>2. F(7) = Minted(k) \ {"mintAuthority"} /\ Valid(s[6], F(6))
    BY <1>2, <1>3, <2>1 DEF Minted, RemoveAuthority, Instruction, Valid, After
  <2>3. F(7) = Made(k)
    BY <1>5, <2>2 DEF Made
  <2>4. \A i \in 1..6 : Valid(s[i], F(i))
    BY <1>2, <2>2
  <2> QED
    BY <2>1, <2>3, <2>4, <2>5, Zenon DEF Succeeds, Outcome, F, s
<1> QED
  BY <1>4, <1>5
-----------------------------------------------------------------------------
(* The inductive invariant *)

LEMMA InvInit == Init => IInv
BY SlotAssumption, NobodyAssumption
DEF Init, IInv, TypeOK, CallConsistent, AccountExplained, AdvanceExplained, Slots,
    FailureMeansContention, At, Stages, Answers, Kinds, Uris, TxStates

\* A step of call c that leaves the chain alone.
LEMMA OffChain ==
  ASSUME IInv, NEW c \in Calls, answer[c] = "pending",
         UNCHANGED chain,
         TypeOK', CallConsistent',
         kind'[c] = kind[c] \/ tx[c] = "unsent",
         \A d \in Calls \ {c} : kind'[d] = kind[d]
  PROVE  IInv'
<1> USE DEF IInv, chain
<1>1. AccountExplained'
  <2> SUFFICES ASSUME NEW d \in Calls
               PROVE  account[d] = IF tx[d] = "succeeded"
                                   THEN Outcome({}, Instructions(kind'[d])) ELSE {}
    BY DEF AccountExplained
  <2> QED
    BY DEF AccountExplained
<1>2. AdvanceExplained' /\ FailureMeansContention'
  BY DEF AdvanceExplained, FailureMeansContention
<1> QED
  BY <1>1, <1>2

\* A call goes on to stage s.
LEMMA GoOn ==
  ASSUME IInv, NEW c \in Calls, NEW s \in Stages \ {"idle"},
         answer[c] = "pending", stage[c] # "idle", Goto(c, s),
         UNCHANGED <<kind, hasWallet, chain>>,
         uri' \in [Calls -> Uris], \A d \in Calls \ {c} : uri'[d] = uri[d],
         stage[c] \notin {"send", "confirm", "record", "respond"} \/ uri'[c] = uri[c],
         records' \subseteq Calls, \A d \in Calls \ {c} : d \in records' => d \in records,
         s \notin {"send", "confirm", "record", "respond"} => tx[c] = "unsent",
         s = "send" => tx[c] = "unsent",
         s = "nonce" => uri'[c] # "none",
         s \in {"send", "confirm", "record", "respond"} => uri'[c] = "document",
         s \in {"record", "respond"} => Settled(c),
         c \in records' => s \in {"record", "respond"}
  PROVE  IInv'
<1> USE DEF IInv, Goto
<1>1. TypeOK'
  BY DEF TypeOK, chain
<1>2. /\ stage'[c] = s /\ answer'[c] = "pending"
      /\ \A d \in Calls \ {c} : stage'[d] = stage[d] /\ answer'[d] = answer[d]
  BY DEF TypeOK
<1>3. CallConsistent'
  BY <1>2 DEF CallConsistent, At, Settled, chain
<1> QED
  BY <1>1, <1>3, OffChain

\* A call is answered.
LEMMA Answered ==
  ASSUME IInv, NEW c \in Calls, NEW a \in Answers \ {"pending"},
         answer[c] = "pending", stage[c] # "idle", Answer(c, a),
         UNCHANGED <<kind, hasWallet, uri, chain>>,
         records' \subseteq Calls, \A d \in Calls : d \in records' => d \in records \cup {c},
         c \in records' => stage[c] \in {"record", "respond"},
         a = "keys" => stage[c] = "respond"
  PROVE  IInv'
<1> USE DEF IInv, Answer
<1>1. TypeOK'
  BY DEF TypeOK, chain
<1>2. /\ answer'[c] = a /\ UNCHANGED stage
      /\ \A d \in Calls \ {c} : answer'[d] = answer[d]
  BY DEF TypeOK
<1>3. CallConsistent'
  BY <1>2 DEF CallConsistent, At, Settled, chain
<1> QED
  BY <1>1, <1>3, OffChain

\* A validator processes the transaction of c.
LEMMA LandStep ==
  ASSUME IInv, NEW c \in Calls, Land(c)
  PROVE  IInv'
<1> USE DEF IInv, call
<1>1. /\ tx[c] = "inFlight" /\ account[c] = {}
      /\ stage[c] \in {"send", "confirm"} /\ ~At(c, "send")
      /\ landedIn' = [landedIn EXCEPT ![c] = slot]
      /\ UNCHANGED <<stage, answer, kind, hasWallet, uri, slot, records>>
  BY DEF Land, AccountExplained, CallConsistent, Settled
<1>2. Succeeds(account[c], Instructions(kind[c]))
      /\ Outcome(account[c], Instructions(kind[c])) = Made(kind[c])
  BY <1>1, Executes
<1>3. PICK s \in {"succeeded", "failed"} : tx' = [tx EXCEPT ![c] = s]
  BY DEF Land, TxBecomes
<1>4. tx'[c] = s /\ \A d \in Calls \ {c} : tx'[d] = tx[d]
  BY <1>3 DEF TypeOK
<1>5. CallConsistent'
  BY <1>1, <1>4 DEF CallConsistent, At, Settled
<1>6. \A d \in Calls : landedIn'[d] = IF d = c THEN slot ELSE landedIn[d]
  BY <1>1 DEF TypeOK
<1>7. slot \in Slots /\ advanced \in [Slots -> Calls \cup {Client, Nobody}]
  BY DEF TypeOK
<1>8. CASE ~Taken
  <2>1. /\ s = "succeeded" /\ advanced' = [advanced EXCEPT ![slot] = c]
        /\ account' = [account EXCEPT ![c] = Made(kind[c])]
    BY <1>2, <1>4, <1>8 DEF Land, TxBecomes, Takes, TypeOK
  <2>2. \A q \in Slots : advanced'[q] = IF q = slot THEN c ELSE advanced[q]
    BY <1>7, <2>1
  <2>3. TypeOK'
    <3>1. Made(kind[c]) \subseteq Facts
      BY DEF Made, Minted, Facts
    <3> QED
      BY <1>1, <1>3, <2>1, <3>1 DEF TypeOK, TxStates
  <2>4. AccountExplained'
    BY <1>1, <1>2, <1>4, <2>1 DEF AccountExplained, TypeOK
  <2>5. AdvanceExplained'
    BY <1>1, <1>4, <1>6, <1>7, <2>1, <2>2, SlotAssumption DEF AdvanceExplained, Slots
  <2>6. FailureMeansContention'
    <3> SUFFICES ASSUME NEW d \in Calls, tx'[d] = "failed"
                 PROVE  LET e == advanced'[landedIn'[d]]
                        IN  \/ e = Client
                            \/ /\ e \in Calls \ {d} /\ tx'[e] = "succeeded"
                               /\ landedIn'[e] = landedIn'[d]
      BY DEF FailureMeansContention
    <3>1. d # c /\ tx[d] = "failed" /\ landedIn'[d] = landedIn[d] /\ landedIn[d] \in Slots
      BY <1>4, <1>6, <2>1 DEF TypeOK
    <3>2. landedIn[d] # slot
      BY <1>8, <3>1, NobodyAssumption DEF FailureMeansContention, Taken
    <3>3. advanced'[landedIn[d]] = advanced[landedIn[d]]
      BY <2>2, <3>1, <3>2
    <3> QED
      BY <1>1, <1>4, <1>6, <3>1, <3>3 DEF FailureMeansContention
  <2> QED
    BY <1>5, <2>3, <2>4, <2>5, <2>6
<1>9. CASE Taken
  <2>1. s = "failed" /\ UNCHANGED <<account, advanced>>
    BY <1>2, <1>4, <1>9 DEF Land, TxBecomes, TypeOK
  <2>2. TypeOK'
    BY <1>1, <1>3, <2>1 DEF TypeOK, TxStates
  <2>3. AccountExplained'
    BY <1>1, <1>4, <2>1 DEF AccountExplained
  <2>4. \A q \in Slots : advanced[q] # c
    BY <1>1 DEF AdvanceExplained
  <2>5. AdvanceExplained'
    BY <1>1, <1>4, <1>6, <2>1, <2>4 DEF AdvanceExplained
  <2>6. FailureMeansContention'
    <3> SUFFICES ASSUME NEW d \in Calls, tx'[d] = "failed"
                 PROVE  LET e == advanced[landedIn'[d]]
                        IN  \/ e = Client
                            \/ /\ e \in Calls \ {d} /\ tx'[e] = "succeeded"
                               /\ landedIn'[e] = landedIn'[d]
      BY <2>1 DEF FailureMeansContention
    <3>1. CASE d = c
      <4>1. advanced[slot] \in (Calls \ {c}) \cup {Client}
        BY <1>7, <1>9, <2>4 DEF Taken
      <4> QED
        BY <1>4, <1>6, <1>7, <3>1, <4>1 DEF AdvanceExplained
    <3>2. CASE d # c
      BY <1>1, <1>4, <1>6, <3>2 DEF FailureMeansContention
    <3> QED
      BY <3>1, <3>2
  <2> QED
    BY <1>5, <2>2, <2>3, <2>5, <2>6
<1> QED
  BY <1>8, <1>9

\* A client's transaction takes the slot.
LEMMA ClientStep ==
  ASSUME IInv, ClientAdvance
  PROVE  IInv'
<1> USE DEF IInv
<1>1. /\ ~Taken /\ UNCHANGED <<stage, answer, kind, hasWallet, uri, records>>
      /\ UNCHANGED <<tx, account, slot, landedIn>>
      /\ slot \in Slots /\ advanced \in [Slots -> Calls \cup {Client, Nobody}]
      /\ advanced' = [advanced EXCEPT ![slot] = Client]
  BY DEF ClientAdvance, Takes, call, TypeOK
<1>2. \A q \in Slots : advanced'[q] = IF q = slot THEN Client ELSE advanced[q]
  BY <1>1
<1>3. TypeOK' /\ CallConsistent' /\ AccountExplained'
  BY <1>1 DEF TypeOK, CallConsistent, AccountExplained, At, Settled
<1>4. AdvanceExplained'
  BY <1>1, <1>2, NobodyAssumption, SlotAssumption DEF AdvanceExplained, Slots
<1>5. \A d \in Calls : landedIn[d] \in Slots
  BY DEF TypeOK
<1>6. FailureMeansContention'
  BY <1>1, <1>2, <1>5 DEF FailureMeansContention
<1> QED
  BY <1>3, <1>4, <1>6

\* The transaction of c is put in flight, or drops out of it.
LEMMA NoLand ==
  ASSUME IInv, NEW c \in Calls, NEW s \in {"inFlight", "dropped"},
         TxBecomes(c, s), tx[c] \notin {"succeeded", "failed"},
         UNCHANGED <<kind, account, slot, advanced, landedIn>>,
         TypeOK', CallConsistent'
  PROVE  IInv'
<1> USE DEF IInv
<1>1. tx'[c] = s /\ \A d \in Calls \ {c} : tx'[d] = tx[d]
  BY DEF TxBecomes, TypeOK
<1>2. AccountExplained'
  BY <1>1 DEF AccountExplained
<1>3. AdvanceExplained' /\ FailureMeansContention'
  BY <1>1 DEF AdvanceExplained, FailureMeansContention, TypeOK
<1> QED
  BY <1>2, <1>3

LEMMA InvStep == IInv /\ [Next]_vars => IInv'
<1> SUFFICES ASSUME IInv, [Next]_vars
             PROVE  IInv'
  OBVIOUS
<1> USE DEF At
<1>1. ASSUME NEW c \in Calls, NEW k \in Kinds, NEW w \in BOOLEAN, Request(c, k, w)
      PROVE  IInv'
  <2>1. /\ stage[c] = "idle" /\ answer[c] = "pending" /\ tx[c] = "unsent"
        /\ stage' = [stage EXCEPT ![c] = "pinAuth"]
        /\ kind' = [kind EXCEPT ![c] = k]
        /\ hasWallet' = [hasWallet EXCEPT ![c] = w]
        /\ UNCHANGED <<answer, uri, chain, records>>
    BY <1>1 DEF Request, Goto, IInv, CallConsistent
  <2>2. TypeOK'
    BY <2>1 DEF IInv, TypeOK, Stages, chain
  <2>3. CallConsistent'
    BY <2>1 DEF IInv, TypeOK, CallConsistent, Settled, chain
  <2> QED
    BY <2>1, <2>2, <2>3, OffChain DEF IInv, TypeOK
<1>2. ASSUME NEW c \in Calls, VerifyPinAuth(c) \/ PinFile(c)
      PROVE  IInv'
  <2>1. /\ answer[c] = "pending" /\ stage[c] \in {"pinAuth", "pinFile"}
        /\ tx[c] = "unsent" /\ c \notin records /\ records \subseteq Calls
        /\ uri \in [Calls -> Uris]
        /\ UNCHANGED <<kind, hasWallet, uri, chain, records>>
        /\ \/ \E s \in {"pinFile", "pinJson"} : Goto(c, s)
           \/ Answer(c, "error")
    BY <1>2 DEF VerifyPinAuth, PinFile, IInv, TypeOK, CallConsistent
  <2>2. CASE Answer(c, "error")
    BY <2>1, <2>2, Answered DEF Answers
  <2>3. CASE \E s \in {"pinFile", "pinJson"} : Goto(c, s)
    BY <2>1, <2>3, GoOn DEF Stages
  <2> QED
    BY <2>1, <2>2, <2>3
<1>3. ASSUME NEW c \in Calls, PinJson(c)
      PROVE  IInv'
  <2>1. /\ answer[c] = "pending" /\ stage[c] = "pinJson"
        /\ tx[c] = "unsent" /\ c \notin records /\ records \subseteq Calls
        /\ UNCHANGED <<kind, hasWallet, chain, records>>
    BY <1>3 DEF PinJson, IInv, TypeOK, CallConsistent
  <2>2. CASE Answer(c, "error") /\ UNCHANGED uri
    BY <2>1, <2>2, Answered DEF Answers
  <2>3. CASE Goto(c, "nonce") /\ \E u \in {"document", "undefined"} : uri' = [uri EXCEPT ![c] = u]
    <3>1. /\ uri' \in [Calls -> Uris] /\ uri'[c] # "none"
          /\ \A d \in Calls \ {c} : uri'[d] = uri[d]
      BY <2>3 DEF IInv, TypeOK, Uris
    <3> QED
      BY <2>1, <2>3, <3>1, GoOn DEF Stages
  <2> QED
    BY <1>3, <2>2, <2>3 DEF PinJson
<1>4. ASSUME NEW c \in Calls, SetupNonceInstruction(c)
      PROVE  IInv'
  <2>1. /\ answer[c] = "pending" /\ stage[c] = "nonce"
        /\ tx[c] = "unsent" /\ c \notin records /\ records \subseteq Calls
        /\ uri \in [Calls -> Uris] /\ uri[c] \in {"document", "undefined"}
        /\ UNCHANGED <<kind, hasWallet, uri, chain, records>>
    BY <1>4 DEF SetupNonceInstruction, IInv, TypeOK, CallConsistent, Uris
  <2>2. CASE Answer(c, "error")
    BY <2>1, <2>2, Answered DEF Answers
  <2>3. CASE uri[c] # "undefined" /\ Goto(c, "send")
    BY <2>1, <2>3, GoOn DEF Stages
  <2> QED
    BY <1>4, <2>2, <2>3 DEF SetupNonceInstruction
<1>5. ASSUME NEW c \in Calls, SendTransaction(c)
      PROVE  IInv'
  <2>1. /\ answer[c] = "pending" /\ stage[c] = "send"
        /\ tx[c] = "unsent" /\ c \notin records
        /\ UNCHANGED <<kind, hasWallet, uri, account, slot, advanced, landedIn, records>>
    BY <1>5 DEF SendTransaction, IInv, CallConsistent
  <2>2. CASE Answer(c, "error") /\ UNCHANGED tx
    BY <2>1, <2>2, Answered DEF Answers, chain, IInv, TypeOK
  <2>3. CASE TxBecomes(c, "inFlight") /\ (Goto(c, "confirm") \/ Answer(c, "error"))
    <3>1. TypeOK'
      BY <2>1, <2>3 DEF TxBecomes, Goto, Answer, IInv, TypeOK, Stages, Answers, TxStates
    <3>2. /\ tx'[c] = "inFlight" /\ \A d \in Calls \ {c} : tx'[d] = tx[d]
          /\ \A d \in Calls \ {c} : stage'[d] = stage[d] /\ answer'[d] = answer[d]
          /\ \/ stage'[c] = "confirm" /\ answer'[c] = "pending"
             \/ stage'[c] = "send" /\ answer'[c] = "error"
      BY <2>1, <2>3 DEF TxBecomes, Goto, Answer, IInv, TypeOK
    <3>3. CallConsistent'
      BY <2>1, <3>2 DEF IInv, CallConsistent, Settled
    <3> QED
      BY <2>1, <2>3, <3>1, <3>3, NoLand
  <2> QED
    BY <1>5, <2>2, <2>3 DEF SendTransaction
<1>6. ASSUME NEW c \in Calls, ConfirmTransaction(c)
      PROVE  IInv'
  <2>1. /\ answer[c] = "pending" /\ stage[c] = "confirm" /\ uri[c] = "document"
        /\ c \notin records /\ records \subseteq Calls /\ uri \in [Calls -> Uris]
        /\ UNCHANGED <<kind, hasWallet, uri, chain, records>>
    BY <1>6 DEF ConfirmTransaction, IInv, TypeOK, CallConsistent
  <2>2. CASE Answer(c, "error")
    BY <2>1, <2>2, Answered DEF Answers
  <2>3. CASE Settled(c) /\ Goto(c, "record")
    BY <2>1, <2>3, GoOn DEF Stages
  <2> QED
    BY <1>6, <2>2, <2>3 DEF ConfirmTransaction
<1>7. ASSUME NEW c \in Calls, RecordToken(c)
      PROVE  IInv'
  <2>1. /\ answer[c] = "pending" /\ stage[c] = "record" /\ uri[c] = "document"
        /\ Settled(c) /\ records \subseteq Calls /\ uri \in [Calls -> Uris]
        /\ UNCHANGED <<kind, hasWallet, uri, chain>>
        /\ records' \in {records, records \cup {c}}
    BY <1>7 DEF RecordToken, IInv, TypeOK, CallConsistent
  <2>2. CASE Answer(c, "error")
    BY <2>1, <2>2, Answered DEF Answers
  <2>3. CASE Goto(c, "respond")
    BY <2>1, <2>3, GoOn DEF Stages
  <2> QED
    BY <1>7, <2>2, <2>3 DEF RecordToken
<1>8. ASSUME NEW c \in Calls, Respond(c) \/ Abort(c)
      PROVE  IInv'
  <2>1. /\ answer[c] = "pending" /\ stage[c] # "idle" /\ records \subseteq Calls
        /\ c \in records => stage[c] \in {"record", "respond"}
        /\ UNCHANGED <<kind, hasWallet, uri, chain, records>>
        /\ (stage[c] = "respond" /\ Answer(c, "keys")) \/ Answer(c, "aborted")
    BY <1>8 DEF Respond, Abort, Active, IInv, TypeOK, CallConsistent
  <2> QED
    BY <2>1, Answered DEF Answers
<1>9. ASSUME NEW c \in Calls, Land(c)
      PROVE  IInv'
  BY <1>9, LandStep
<1>10. ASSUME NEW c \in Calls, Drop(c)
       PROVE  IInv'
  <2>1. /\ tx[c] = "inFlight" /\ tx' = [tx EXCEPT ![c] = "dropped"]
        /\ stage[c] \in {"send", "confirm"} /\ ~At(c, "send")
        /\ UNCHANGED <<stage, answer, kind, hasWallet, uri, account, slot, advanced,
                       landedIn, records>>
    BY <1>10 DEF Drop, TxBecomes, call, IInv, CallConsistent, Settled
  <2>2. TypeOK'
    BY <2>1 DEF IInv, TypeOK, TxStates
  <2>3. CallConsistent'
    BY <2>1 DEF IInv, TypeOK, CallConsistent, Settled
  <2> QED
    BY <2>1, <2>2, <2>3, NoLand DEF TxBecomes
<1>11. CASE NextSlot
  BY <1>11, SlotAssumption
     DEF NextSlot, call, IInv, TypeOK, CallConsistent, Settled, AccountExplained,
         AdvanceExplained, FailureMeansContention, Slots
<1>12. CASE ClientAdvance
  BY <1>12, ClientStep
<1>13. CASE UNCHANGED vars
  BY <1>13 DEF vars, call, chain, IInv, TypeOK, CallConsistent, Settled,
               AccountExplained, AdvanceExplained, FailureMeansContention
<1> QED
  BY <1>1, <1>2, <1>3, <1>4, <1>5, <1>6, <1>7, <1>8, <1>9, <1>10, <1>11, <1>12,
     <1>13
     DEF Next, ServiceStep

\* The inductive invariant of the creation of tokens.
THEOREM InvariantTheorem == Spec => []IInv
BY InvInit, InvStep, PTL DEF Spec

\* The variables keep their types.
THEOREM TypeTheorem == Spec => []TypeOK
<1>1. IInv => TypeOK
  BY DEF IInv
<1> QED
  BY <1>1, InvariantTheorem, PTL

\* A transaction of the service fails only because a client or another creation that
\* succeeded advanced the nonce account they share in the same slot.
THEOREM ContentionTheorem == Spec => []FailureMeansContention
<1>1. IInv => FailureMeansContention
  BY DEF IInv
<1> QED
  BY <1>1, InvariantTheorem, PTL

\* Nobody can mint more of a fixed token or re-describe an unmodifiable one.
THEOREM FixedTheorem == Spec => []FixedTokensStayFixed
<1>1. IInv => FixedTokensStayFixed
  BY Executes DEF IInv, AccountExplained, FixedTokensStayFixed, Made, Minted, IsMutable
<1> QED
  BY <1>1, InvariantTheorem, PTL

\* No token without a pinned document behind its metadata.
THEOREM MetadataTheorem == Spec => []MetadataResolves
<1>1. IInv => MetadataResolves
  BY DEF IInv, AccountExplained, CallConsistent, MetadataResolves
<1> QED
  BY <1>1, InvariantTheorem, PTL

\* Keys are handed out, and tokens recorded, only when their fate is decided.
THEOREM SettledTheorem == Spec => []AnsweredAfterSettling
<1>1. IInv => AnsweredAfterSettling
  BY DEF IInv, CallConsistent, AnsweredAfterSettling
<1> QED
  BY <1>1, InvariantTheorem, PTL
-----------------------------------------------------------------------------
(* What one module leaves to the other: a token that was created is one of *)
(* those that SplManage starts from                                        *)

LeftToRevoke ==
  \A c \in Calls :
    account[c] # {} =>
      \E powers \in SUBSET {"mintAuthority", "freezeAuthority", "mutable"} :
        account[c] = CreatedToken \cup powers

\* A token the backend created is complete, and has no more than the three powers that
\* the revoke operations are about.
THEOREM CreatedTheorem == Spec => []LeftToRevoke
<1>1. \A k : \E powers \in SUBSET {"mintAuthority", "freezeAuthority", "mutable"} :
               Made(k) = CreatedToken \cup powers
  <2> SUFFICES ASSUME NEW k
               PROVE  \E powers \in SUBSET {"mintAuthority", "freezeAuthority", "mutable"} :
                        Made(k) = CreatedToken \cup powers
    OBVIOUS
  <2> DEFINE powers == Made(k) \cap {"mintAuthority", "freezeAuthority", "mutable"}
  <2>1. Made(k) = CreatedToken \cup powers
    BY DEF Made, Minted, CreatedToken
  <2> QED
    BY <2>1
<1>2. IInv => LeftToRevoke
  BY <1>1, Executes DEF IInv, AccountExplained, LeftToRevoke
<1> QED
  BY <1>2, InvariantTheorem, PTL

\* No token of any kind ever has a freeze authority: the comment in createUtilityToken
\* that the mint and freeze authorities are kept is wrong of every utility token.
NoFreezeAuthority == \A c \in Calls : "freezeAuthority" \notin account[c]

THEOREM FreezeTheorem == Spec => []NoFreezeAuthority
<1>1. IInv => NoFreezeAuthority
  BY Executes DEF IInv, AccountExplained, NoFreezeAuthority, Made, Minted
<1> QED
  BY <1>1, InvariantTheorem, PTL

-----------------------------------------------------------------------------
(* The creation of tokens implements MintPromise *)

AskedFor == [c \in Calls |-> IF stage[c] = "idle" THEN {} ELSE {kind[c]}]
Worth    == [c \in Calls |-> account[c] \cap Promised(kind[c])]
Fates    == [c \in Calls |-> Fate(tx[c])]
Heard    == [c \in Calls |-> Told(answer[c])]
Busy     == Taken

\* What a transaction leaves is what its kind of token promises.
LEMMA MadeAsPromised ==
  ASSUME NEW k \in Kinds
  PROVE  Made(k) \cap Promised(k) = Terms(k)
BY DEF Kinds, Made, Minted, IsMutable, Promised, Terms

LEMMA PromiseInit == Init => Promise!Init
BY SlotAssumption DEF Init, Promise!Init, Fate, Told, Taken, Slots

LEMMA SettledDecided ==
  ASSUME NEW c \in Calls
  PROVE  Fates[c] \in {"made", "refused"} <=> Settled(c)
BY DEF Fates, Fate, Settled

\* A call that goes on is told nothing; its token may be listed once it is settled.
LEMMA QuietStep ==
  ASSUME IInv, NEW c \in Calls, NEW s \in Stages \ {"idle"},
         stage[c] # "idle", answer[c] = "pending", Goto(c, s),
         UNCHANGED <<kind, account, Fates, Busy>>,
         records' = records \/ (Settled(c) /\ records' = records \cup {c})
  PROVE  [Promise!Next]_(Promise!vars)
<1>1. UNCHANGED <<AskedFor, Worth, Heard>>
  <2>1. \A q \in Calls : stage'[q] = "idle" <=> stage[q] = "idle"
    BY DEF Goto, IInv, TypeOK
  <2> QED
    BY <2>1 DEF Goto, AskedFor, Worth, Heard
<1>2. CASE records' = records
  BY <1>1, <1>2 DEF Promise!vars, AskedFor, Worth, Fates, Heard, Busy
<1>3. CASE Settled(c) /\ records' = records \cup {c}
  <2>1. Heard[c] = "nothing"
    BY DEF Heard, Told
  <2>2. Fates[c] \in {"made", "refused"}
    BY <1>3, SettledDecided
  <2>3. Promise!List(c)
    BY <1>1, <1>3, <2>1, <2>2
       DEF Promise!List, Promise!Decided, AskedFor, Worth, Fates, Heard, Busy
  <2> QED
    BY <2>3 DEF Promise!Next
<1> QED
  BY <1>2, <1>3

\* A call that is answered is told so.
LEMMA ToldStep ==
  ASSUME IInv, NEW c \in Calls, NEW a \in Answers \ {"pending"},
         stage[c] # "idle", answer[c] = "pending", Answer(c, a),
         UNCHANGED <<kind, account, Fates, Busy>>,
         records' = records \/ (Settled(c) /\ records' = records \cup {c}),
         a = "keys" => Settled(c) /\ UNCHANGED records
  PROVE  [Promise!Next]_(Promise!vars)
<1>1. UNCHANGED <<AskedFor, Worth>>
  BY DEF Answer, AskedFor, Worth
<1>2. /\ Heard[c] = "nothing" /\ AskedFor[c] # {}
      /\ Heard' = [Heard EXCEPT ![c] = Told(a)]
  BY DEF Answer, Heard, AskedFor, Told, IInv, TypeOK
<1>3. CASE a = "keys"
  <2>1. Fates[c] \in {"made", "refused"}
    BY <1>3, SettledDecided
  <2>2. Promise!HandKeys(c)
    BY <1>1, <1>2, <1>3, <2>1
       DEF Promise!HandKeys, Promise!Decided, AskedFor, Worth, Fates, Heard, Busy, Told
  <2> QED
    BY <2>2 DEF Promise!Next
<1>4. CASE a # "keys"
  <2>1. Settled(c) => Fates[c] \in {"made", "refused"}
    BY SettledDecided
  <2>2. Promise!Fail(c)
    BY <1>1, <1>2, <1>4, <2>1
       DEF Promise!Fail, Promise!Decided, AskedFor, Worth, Fates, Heard, Busy, Told
  <2> QED
    BY <2>2 DEF Promise!Next
<1> QED
  BY <1>3, <1>4

\* A transaction that is processed makes the token that was asked for, or none.
LEMMA FateStep ==
  ASSUME IInv, NEW c \in Calls, Land(c)
  PROVE  [Promise!Next]_(Promise!vars)
<1> USE DEF IInv, TypeOK, call
<1>1. /\ tx[c] = "inFlight" /\ account[c] = {} /\ kind[c] \in Kinds /\ stage[c] # "idle"
      /\ UNCHANGED <<stage, answer, kind, records>>
  BY DEF Land, AccountExplained, CallConsistent
<1>2. Succeeds(account[c], Instructions(kind[c]))
      /\ Outcome(account[c], Instructions(kind[c])) = Made(kind[c])
  BY <1>1, Executes
<1>3. AskedFor[c] = {kind[c]} /\ Fates[c] = "open" /\ UNCHANGED <<AskedFor, Heard>>
  BY <1>1 DEF AskedFor, Fates, Fate, Heard
<1>4. CASE ~Taken
  <2>1. /\ tx' = [tx EXCEPT ![c] = "succeeded"]
        /\ account' = [account EXCEPT ![c] = Made(kind[c])]
        /\ UNCHANGED slot /\ advanced' = [advanced EXCEPT ![slot] = c]
    BY <1>2, <1>4 DEF Land, TxBecomes, Takes
  <2>2. /\ Fates' = [Fates EXCEPT ![c] = "made"]
        /\ Worth' = [Worth EXCEPT ![c] = Terms(kind[c])]
    BY <1>1, <2>1, MadeAsPromised DEF Fates, Fate, Worth
  <2>3. ~Busy /\ Busy' = TRUE
    BY <1>4, <2>1, NobodyAssumption DEF Busy, Taken
  <2>4. PICK k \in Kinds : k = kind[c]
    BY <1>1
  <2>5. Promise!Make(c, k)
    BY <1>1, <1>3, <2>2, <2>3, <2>4
       DEF Promise!Make, Promise!Decide, AskedFor, Worth, Fates, Heard, Busy
  <2> QED
    BY <2>5 DEF Promise!Next
<1>5. CASE Taken
  <2>1. /\ tx' = [tx EXCEPT ![c] = "failed"]
        /\ UNCHANGED <<account, slot, advanced>>
    BY <1>2, <1>5 DEF Land, TxBecomes
  <2>2. Fates' = [Fates EXCEPT ![c] = "refused"] /\ UNCHANGED <<Worth, Busy>>
    BY <1>1, <2>1 DEF Fates, Fate, Worth, Busy, Taken
  <2>3. Promise!Refuse(c)
    BY <1>1, <1>3, <1>5, <2>2
       DEF Promise!Refuse, Promise!Decide, AskedFor, Worth, Fates, Heard, Busy
  <2> QED
    BY <2>3 DEF Promise!Next
<1> QED
  BY <1>4, <1>5

\* Another slot is another turn.
LEMMA TurnStep ==
  ASSUME IInv, ClientAdvance \/ NextSlot
  PROVE  [Promise!Next]_(Promise!vars)
<1>1. UNCHANGED <<AskedFor, Worth, Fates, Heard, records>>
  BY DEF ClientAdvance, NextSlot, call, AskedFor, Worth, Fates, Heard
<1>2. CASE ClientAdvance
  <2>1. ~Busy /\ Busy' = TRUE
    BY <1>2, NobodyAssumption DEF ClientAdvance, Takes, Busy, Taken, IInv, TypeOK
  <2>2. Promise!TakeTurn
    BY <1>1, <2>1 DEF Promise!TakeTurn, AskedFor, Worth, Fates, Heard, Busy
  <2> QED
    BY <2>2 DEF Promise!Next
<1>3. CASE NextSlot
  <2>1. Busy' = FALSE
    BY <1>3, SlotAssumption
       DEF NextSlot, Busy, Taken, IInv, TypeOK, AdvanceExplained, Slots
  <2>2. Promise!NewTurn
    BY <1>1, <2>1 DEF Promise!NewTurn, AskedFor, Worth, Fates, Heard, Busy
  <2> QED
    BY <2>2 DEF Promise!Next
<1> QED
  BY <1>2, <1>3

LEMMA PromiseStep == IInv /\ [Next]_vars => [Promise!Next]_(Promise!vars)
<1> SUFFICES ASSUME IInv, [Next]_vars
             PROVE  [Promise!Next]_(Promise!vars)
  OBVIOUS
<1> USE DEF At
<1>1. ASSUME NEW c \in Calls, NEW k \in Kinds, NEW w \in BOOLEAN, Request(c, k, w)
      PROVE  [Promise!Next]_(Promise!vars)
  <2>1. /\ stage[c] = "idle"
        /\ stage' = [stage EXCEPT ![c] = "pinAuth"] /\ kind' = [kind EXCEPT ![c] = k]
        /\ account[c] = {} /\ UNCHANGED <<answer, account, tx, records, Busy>>
    BY <1>1 DEF Request, Goto, chain, Busy, Taken, IInv, CallConsistent, AccountExplained
  <2>2. AskedFor[c] = {} /\ AskedFor' = [AskedFor EXCEPT ![c] = {k}]
    BY <2>1 DEF AskedFor, IInv, TypeOK
  <2>3. UNCHANGED <<Worth, Fates, Heard>>
    BY <2>1 DEF Worth, Fates, Heard, IInv, TypeOK
  <2>4. Promise!Ask(c, k)
    BY <2>1, <2>2, <2>3 DEF Promise!Ask, AskedFor, Worth, Fates, Heard, Busy
  <2> QED
    BY <2>4 DEF Promise!Next
<1>2. ASSUME NEW c \in Calls,
             \/ VerifyPinAuth(c) \/ PinFile(c) \/ PinJson(c)
             \/ SetupNonceInstruction(c) \/ ConfirmTransaction(c)
      PROVE  [Promise!Next]_(Promise!vars)
  <2>1. /\ stage[c] # "idle" /\ answer[c] = "pending"
        /\ UNCHANGED <<kind, account, tx, records, Busy>>
        /\ (\E s \in Stages \ {"idle"} : Goto(c, s)) \/ Answer(c, "error")
    BY <1>2 DEF VerifyPinAuth, PinFile, PinJson, SetupNonceInstruction,
                ConfirmTransaction, chain, Stages, Busy, Taken
  <2>2. UNCHANGED Fates
    BY <2>1 DEF Fates
  <2> QED
    BY <2>1, <2>2, QuietStep, ToldStep DEF Answers
<1>3. ASSUME NEW c \in Calls, SendTransaction(c)
      PROVE  [Promise!Next]_(Promise!vars)
  <2>1. /\ stage[c] = "send" /\ answer[c] = "pending" /\ tx[c] = "unsent"
        /\ UNCHANGED <<kind, account, records, Busy>>
        /\ UNCHANGED tx \/ tx' = [tx EXCEPT ![c] = "inFlight"]
        /\ Goto(c, "confirm") \/ Answer(c, "error")
    BY <1>3 DEF SendTransaction, TxBecomes, IInv, CallConsistent, Busy, Taken
  <2>2. UNCHANGED Fates
    BY <2>1 DEF Fates, Fate, IInv, TypeOK
  <2> QED
    BY <2>1, <2>2, QuietStep, ToldStep DEF Answers, Stages
<1>4. ASSUME NEW c \in Calls, RecordToken(c)
      PROVE  [Promise!Next]_(Promise!vars)
  <2>1. /\ stage[c] = "record" /\ answer[c] = "pending" /\ Settled(c)
        /\ UNCHANGED <<kind, account, tx, Busy>>
        /\ records' = records \/ records' = records \cup {c}
        /\ Goto(c, "respond") \/ Answer(c, "error")
    BY <1>4 DEF RecordToken, chain, IInv, CallConsistent, Busy, Taken
  <2>2. UNCHANGED Fates
    BY <2>1 DEF Fates
  <2> QED
    BY <2>1, <2>2, QuietStep, ToldStep DEF Answers, Stages
<1>5. ASSUME NEW c \in Calls, Respond(c) \/ Abort(c)
      PROVE  [Promise!Next]_(Promise!vars)
  <2>1. /\ stage[c] # "idle" /\ answer[c] = "pending"
        /\ UNCHANGED <<kind, account, tx, records, Busy>>
        /\ (Settled(c) /\ Answer(c, "keys")) \/ Answer(c, "aborted")
    BY <1>5 DEF Respond, Abort, Active, chain, IInv, CallConsistent, Busy, Taken
  <2>2. UNCHANGED Fates
    BY <2>1 DEF Fates
  <2> QED
    BY <2>1, <2>2, ToldStep DEF Answers
<1>6. ASSUME NEW c \in Calls, Land(c)
      PROVE  [Promise!Next]_(Promise!vars)
  BY <1>6, FateStep
<1>7. ASSUME NEW c \in Calls, Drop(c)
      PROVE  [Promise!Next]_(Promise!vars)
  <2>1. /\ tx[c] = "inFlight" /\ tx' = [tx EXCEPT ![c] = "dropped"] /\ stage[c] # "idle"
        /\ UNCHANGED <<stage, answer, kind, account, records, Busy>>
    BY <1>7 DEF Drop, TxBecomes, call, IInv, CallConsistent, Busy, Taken
  <2>2. /\ AskedFor[c] # {} /\ Fates[c] = "open"
        /\ Fates' = [Fates EXCEPT ![c] = "lapsed"]
        /\ UNCHANGED <<AskedFor, Worth, Heard>>
    BY <2>1 DEF AskedFor, Worth, Fates, Fate, Heard, IInv, TypeOK
  <2>3. Promise!Lapse(c)
    BY <2>1, <2>2 DEF Promise!Lapse, Promise!Decide, AskedFor, Worth, Fates, Heard, Busy
  <2> QED
    BY <2>3 DEF Promise!Next
<1>8. CASE ClientAdvance \/ NextSlot
  BY <1>8, TurnStep
<1>9. CASE UNCHANGED vars
  BY <1>9 DEF vars, call, chain, Promise!vars, Taken
<1> QED
  BY <1>1, <1>2, <1>3, <1>4, <1>5, <1>6, <1>7, <1>8, <1>9 DEF Next, ServiceStep

\* The creation of tokens implements MintPromise.
THEOREM PromiseTheorem == Spec => PromiseKept
BY PromiseInit, PromiseStep, InvariantTheorem, PTL DEF Spec, PromiseKept, Promise!Spec
=============================================================================
