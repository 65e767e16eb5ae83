---------------------- MODULE SerialisedMintRefinement ----------------------
(***************************************************************************)
(* SerialisedMint implements TicketPromise, for every set of calls, sends  *)
(* and wishes.  A transaction becomes a ticket when it is handed out; the  *)
(* number on it is a value the nonce account has held (NonceWasRead), so a *)
(* landing is a redemption of the next number (Landing), and what it makes *)
(* of the account are the terms of the wish.  Building, sending, dropping  *)
(* and the token account of a transfer are steps TicketPromise does not    *)
(* see.                                                                    *)
(***************************************************************************)
EXTENDS SerialisedMintProofs

\* The variables of TicketPromise; the others are profile and Nonce.
AskedFor == [c \in Calls |-> IF stage[c] = "idle" THEN {} ELSE {<<kind[c], wish[c]>>}]
Heard    == [c \in Calls |-> Told(answer[c])]
Number   == [c \in Calls |-> IF answer[c] = "transaction" THEN nonceOf[c] ELSE 0]
Redeemed == {c \in Calls : Processed(c)}
Worth    == [c \in Calls |-> account[c] \cap Terms]
Receipts == [s \in Sends |-> IF sent[s] = "signature" THEN {sending[s]} ELSE {}]

LEMMA PromiseInit == Init => Promise!Init
<1> SUFFICES ASSUME Init
             PROVE  Promise!Init
  OBVIOUS
<1> USE DEF Init
<1>1. AskedFor = [c \in Calls |-> {}] /\ Heard = [c \in Calls |-> "nothing"]
  BY DEF AskedFor, Heard, Told
<1>2. Number = [c \in Calls |-> 0] /\ Worth = [c \in Calls |-> {}]
  BY DEF Number, Worth
<1>3. Receipts = [s \in Sends |-> {}]
  BY DEF Receipts
<1>4. Redeemed = {} /\ Nonce = 1
  BY DEF Redeemed, Processed, Nonce
<1> QED
  BY <1>1, <1>2, <1>3, <1>4
     DEF Promise!Init, AskedFor, Heard, Number, Worth, Receipts, Redeemed

\* What depends on the chain and the sends alone.
LEMMA SameChain ==
  ASSUME UNCHANGED <<sends, advances, account>>
  PROVE  UNCHANGED <<Nonce, Redeemed, Worth, Receipts>>
BY DEF sends, Nonce, Redeemed, Processed, Worth, Receipts

\* A call that goes on is told nothing, and has no ticket yet.
LEMMA QuietStep ==
  ASSUME IInv, NEW c \in Calls, NEW t \in Stages \ {"idle"},
         stage[c] # "idle", answer[c] = "pending", Goto(c, t),
         \A d \in Calls \ {c} : nonceOf'[d] = nonceOf[d],
         UNCHANGED <<kind, wish, profile, sends, advances, account>>
  PROVE  UNCHANGED Promise!vars
<1>1. \A d \in Calls : stage'[d] = "idle" <=> stage[d] = "idle"
  BY DEF Goto, IInv, TypeOK
<1>2. UNCHANGED <<AskedFor, Heard>>
  BY <1>1 DEF Goto, AskedFor, Heard
<1>3. UNCHANGED Number
  BY DEF Goto, Number
<1> QED
  BY <1>2, <1>3, SameChain
     DEF Promise!vars, AskedFor, Heard, Number, Worth, Receipts, Redeemed

\* A call that is answered is told so, with a ticket of a number that was read.
LEMMA ToldStep ==
  ASSUME IInv, NEW c \in Calls, NEW a \in Answers \ {"pending"},
         stage[c] # "idle", answer[c] = "pending", Answer(c, a),
         a = "transaction" => /\ stage[c] \in {"prepare", "save"}
                              /\ kind[c] = "createMint" => c \in profile',
         profile' \in {profile, profile \cup {c}},
         UNCHANGED <<kind, wish, nonceOf, sends, advances, account>>
  PROVE  Promise!Next
<1>1. UNCHANGED AskedFor /\ AskedFor[c] = {<<kind[c], wish[c]>>}
  BY DEF Answer, AskedFor
<1>2. Heard[c] = "nothing" /\ Heard' = [Heard EXCEPT ![c] = Told(a)]
  BY DEF Answer, Heard, Told, IInv, TypeOK
<1>3. CASE a = "transaction"
  <2>1. PICK n \in 1..Nonce : n = nonceOf[c]
    BY <1>3 DEF IInv, NonceWasRead
  <2>2. Number' = [Number EXCEPT ![c] = n]
    BY <1>3, <2>1 DEF Answer, Number, IInv, TypeOK
  <2>3. \A x \in AskedFor[c] : x[1] = "createMint" => c \in profile'
    BY <1>1, <1>3
  <2>4. Promise!Tell(c, "ticket")
    BY <1>1, <1>2, <1>3, SameChain
       DEF Promise!Tell, AskedFor, Heard, Worth, Receipts, Redeemed, Told
  <2>5. Promise!Offer(c, n)
    BY <2>2, <2>3, <2>4 DEF Promise!Offer, AskedFor, Number
  <2> QED
    BY <2>5 DEF Promise!Next
<1>4. CASE a # "transaction"
  <2>1. UNCHANGED Number
    BY <1>4 DEF Answer, Number, IInv, TypeOK
  <2>2. Promise!Tell(c, "failed")
    BY <1>1, <1>2, <1>4, SameChain
       DEF Promise!Tell, AskedFor, Heard, Worth, Receipts, Redeemed, Told
  <2>3. Promise!Fail(c)
    BY <2>1, <2>2 DEF Promise!Fail, Number
  <2> QED
    BY <2>3 DEF Promise!Next
<1> QED
  BY <1>3, <1>4

\* What a creation leaves honours the wish of the call.
LEMMA MadeAsWished ==
  ASSUME NEW c \in Calls, kind[c] \in Creations
  PROVE  Outcome({}, Instructions(c)) \cap Terms \in Honouring(kind[c], wish[c])
<1>1. CASE kind[c] = "createMint"
  <2>1. Honours(Created(c) \cap Terms, wish[c])
    BY DEF Created, Terms, Honours
  <2>2. Created(c) \cap Terms \in {t \in SUBSET Terms : Honours(t, wish[c])}
    BY <2>1
  <2> QED
    BY <1>1, <2>2, CreateMintExecutes DEF Honouring
<1>2. CASE kind[c] = "createToken"
  <2>1. CreatedBare \cap Terms = {"mintAuthority", "mutable"}
    BY DEF CreatedBare, Terms
  <2> QED
    BY <1>2, <2>1, CreateTokenExecutes DEF Honouring
<1> QED
  BY <1>1, <1>2 DEF Creations

\* A landing redeems the ticket of its call.
LEMMA RedeemStep ==
  ASSUME IInv, NEW c \in Calls, Land(c)
  PROVE  Promise!Next
<1>1. /\ c \in inFlight /\ kind[c] # "transfer"
      /\ nonceOf[c] = Nonce
      /\ UNCHANGED <<call, sends>>
  BY Landing DEF Nonce
<1>2. answer[c] = "transaction" /\ stage[c] # "idle"
  BY <1>1 DEF IInv, OnlyHandedOut, Untouched
<1>3. Heard[c] = "ticket" /\ Number[c] = Nonce /\ AskedFor[c] = {<<kind[c], wish[c]>>}
  BY <1>1, <1>2 DEF Heard, Told, Number, AskedFor
<1>4. UNCHANGED <<AskedFor, Heard, Number, profile, Receipts>>
  BY <1>1 DEF call, sends, AskedFor, Heard, Number, Receipts
<1>5. Nonce' = Nonce + 1
  <2>1. Len(advances') = Len(advances) + 1
    BY Landing DEF IInv, TypeOK
  <2> QED
    BY <2>1 DEF Nonce
<1>6. Redeemed' = Redeemed \cup {c}
  BY Landing DEF Redeemed
<1>7. \/ UNCHANGED Worth
      \/ \E t \in Honouring(kind[c], wish[c]) : Worth' = [Worth EXCEPT ![c] = t]
  <2>1. CASE UNCHANGED account
    BY <2>1 DEF Worth
  <2>2. CASE /\ kind[c] \in Creations
             /\ account' = [account EXCEPT ![c] = Outcome({}, Instructions(c))]
    <3> DEFINE made == Outcome({}, Instructions(c))
    <3> HIDE DEF made
    <3>1. account' = [account EXCEPT ![c] = made]
      BY <2>2 DEF made
    <3>2. Worth' = [Worth EXCEPT ![c] = made \cap Terms]
      BY <3>1 DEF Worth, IInv, TypeOK
    <3>3. made \cap Terms \in Honouring(kind[c], wish[c])
      BY <2>2, MadeAsWished DEF made
    <3> QED
      BY <3>2, <3>3
  <2> QED
    BY <2>1, <2>2, Landing
<1>8. \/ UNCHANGED Worth
      \/ \E a \in AskedFor[c] : \E t \in Honouring(a[1], a[2]) :
           Worth' = [Worth EXCEPT ![c] = t]
  <2>1. <<kind[c], wish[c]>> \in AskedFor[c]
    BY <1>3
  <2>2. <<kind[c], wish[c]>>[1] = kind[c] /\ <<kind[c], wish[c]>>[2] = wish[c]
    OBVIOUS
  <2> QED
    BY <1>7, <2>1, <2>2
<1>9. Promise!Redeem(c)
  BY <1>3, <1>4, <1>5, <1>6, <1>8
     DEF Promise!Redeem, AskedFor, Heard, Number, Worth, Receipts, Redeemed
<1> QED
  BY <1>9 DEF Promise!Next

\* A token account added by a transfer is not among the terms.
LEMMA TokenAccountStep ==
  ASSUME IInv, NEW c \in Calls, LandTokenAccount(c)
  PROVE  UNCHANGED Promise!vars
<1>1. /\ account' = [account EXCEPT ![token[c]] = account[token[c]] \cup {"tokenAccount"}]
      /\ UNCHANGED <<call, sends, advances>>
  BY DEF LandTokenAccount, CreateAssociatedTokenAccount, After,
         CreateAssociatedTokenAccountAt, Instruction
<1>2. UNCHANGED Worth
  <2>1. \A d \in Calls : account'[d] \cap Terms = account[d] \cap Terms
    BY <1>1 DEF IInv, TypeOK, Terms
  <2> QED
    BY <2>1 DEF Worth
<1>3. UNCHANGED <<AskedFor, Heard, Number, profile, Nonce, Redeemed, Receipts>>
  BY <1>1 DEF call, sends, AskedFor, Heard, Number, Nonce, Redeemed, Processed, Receipts
<1> QED
  BY <1>2, <1>3 DEF Promise!vars, AskedFor, Heard, Number, Worth, Receipts, Redeemed

LEMMA PromiseStep == IInv /\ [Next]_vars => [Promise!Next]_(Promise!vars)
<1> SUFFICES ASSUME IInv, [Next]_vars
             PROVE  [Promise!Next]_(Promise!vars)
  OBVIOUS
<1> USE DEF At
<1>1. ASSUME NEW c \in Calls, NEW k \in Kinds, NEW w \in Wishes \cup {{}},
             stage[c] = "idle",
             \E t \in Stages \ {"idle"} : stage' = [stage EXCEPT ![c] = t],
             kind' = [kind EXCEPT ![c] = k], wish' = [wish EXCEPT ![c] = w],
             UNCHANGED <<answer, nonceOf, profile, sends, chain>>
      PROVE  [Promise!Next]_(Promise!vars)
  <2>1. AskedFor[c] = {} /\ AskedFor' = [AskedFor EXCEPT ![c] = {<<k, w>>}]
    <3>1. PICK t \in Stages \ {"idle"} : stage' = [stage EXCEPT ![c] = t]
      BY <1>1
    <3>2. stage'[c] # "idle" /\ kind'[c] = k /\ wish'[c] = w
      BY <1>1, <3>1 DEF IInv, TypeOK
    <3>3. ASSUME NEW d \in Calls \ {c}
          PROVE  stage'[d] = stage[d] /\ kind'[d] = kind[d] /\ wish'[d] = wish[d]
      BY <1>1, <3>1, <3>3 DEF IInv, TypeOK
    <3>4. \A d \in Calls :
            AskedFor'[d] = IF d = c THEN {<<k, w>>} ELSE AskedFor[d]
      BY <3>2, <3>3 DEF AskedFor
    <3>5. AskedFor[c] = {}
      BY <1>1 DEF AskedFor
    <3>6. /\ AskedFor' = [d \in Calls |-> AskedFor'[d]]
          /\ DOMAIN AskedFor = Calls
      BY DEF AskedFor
    <3>7. AskedFor' = [AskedFor EXCEPT ![c] = {<<k, w>>}]
      <4> HIDE DEF AskedFor
      <4> QED
        BY <3>4, <3>6
    <3> QED
      BY <3>5, <3>7
  <2>2. UNCHANGED <<Heard, Number>> /\ UNCHANGED <<sends, advances, account>>
    BY <1>1 DEF Heard, Number, chain
  <2>3. Promise!Ask(c, k, w)
    BY <1>1, <2>1, <2>2, SameChain
       DEF Promise!Ask, AskedFor, Heard, Number, Worth, Receipts, Redeemed
  <2> QED
    BY <2>3 DEF Promise!Next
<1>2. ASSUME NEW c \in Calls, NEW k \in Creations, NEW w \in Wishes \cup {{}},
             NEW u \in BOOLEAN, Request(c, k, w, u)
      PROVE  [Promise!Next]_(Promise!vars)
  <2>1. /\ stage[c] = "idle" /\ k \in Kinds
        /\ \E t \in Stages \ {"idle"} : stage' = [stage EXCEPT ![c] = t]
        /\ kind' = [kind EXCEPT ![c] = k] /\ wish' = [wish EXCEPT ![c] = w]
        /\ UNCHANGED <<answer, nonceOf, profile, sends, chain>>
    BY <1>2 DEF Request, Goto, Stages, Kinds
  <2> QED
    BY <1>1, <2>1
<1>3. ASSUME NEW c \in Calls, NEW d \in Calls, NEW k \in {"mintToken", "transfer"},
             RequestWithKeys(c, k, d)
      PROVE  [Promise!Next]_(Promise!vars)
  <2>1. /\ stage[c] = "idle" /\ k \in Kinds /\ wish[c] \in Wishes \cup {{}}
        /\ \E t \in Stages \ {"idle"} : stage' = [stage EXCEPT ![c] = t]
        /\ kind' = [kind EXCEPT ![c] = k] /\ wish' = [wish EXCEPT ![c] = wish[c]]
        /\ UNCHANGED <<answer, nonceOf, profile, sends, chain>>
    BY <1>3 DEF RequestWithKeys, Goto, Stages, Kinds, IInv, TypeOK
  <2> QED
    BY <1>1, <2>1
<1>4. ASSUME NEW c \in Calls,
             \/ PinMetadata(c) \/ LookAgain(c) \/ TransferChecked(c) \/ Abort(c)
             \/ GetOrCreateTokenAccount(c)
      PROVE  [Promise!Next]_(Promise!vars)
  <2>1. /\ stage[c] # "idle" /\ answer[c] = "pending"
        /\ (\E t \in Stages \ {"idle"} : Goto(c, t)) \/ Answer(c, "error")
        /\ UNCHANGED <<kind, wish, nonceOf, profile, sends, advances, account>>
    BY <1>4 DEF PinMetadata, LookAgain, TransferChecked, Abort, GetOrCreateTokenAccount,
                Stages, chain
  <2> QED
    BY <2>1, QuietStep, ToldStep DEF Answers
<1>5. ASSUME NEW c \in Calls, ReadNonce(c)
      PROVE  [Promise!Next]_(Promise!vars)
  <2>1. /\ stage[c] # "idle" /\ answer[c] = "pending"
        /\ \/ Goto(c, "prepare")
           \/ Answer(c, "error") /\ UNCHANGED nonceOf
        /\ \A d \in Calls \ {c} : nonceOf'[d] = nonceOf[d]
        /\ UNCHANGED <<kind, wish, profile, sends, advances, account>>
    BY <1>5 DEF ReadNonce, chain, IInv, TypeOK
  <2> QED
    BY <2>1, QuietStep, ToldStep DEF Answers, Stages
<1>6. ASSUME NEW c \in Calls, Prepare(c) \/ SaveToken(c)
      PROVE  [Promise!Next]_(Promise!vars)
  <2>1. /\ stage[c] \in {"prepare", "save"} /\ answer[c] = "pending"
        /\ profile' \in {profile, profile \cup {c}}
        /\ UNCHANGED <<kind, wish, nonceOf, sends, advances, account>>
        /\ \/ Goto(c, "save") /\ UNCHANGED profile
           \/ Answer(c, "transaction") /\ (kind[c] # "createMint" \/ c \in profile')
           \/ Answer(c, "nothing")
           \/ Answer(c, "error")
    BY <1>6 DEF Prepare, SaveToken, chain
  <2> QED
    BY <2>1, QuietStep, ToldStep DEF Answers, Stages
<1>7. ASSUME NEW s \in Sends, NEW c \in Calls, SendRequest(s, c)
      PROVE  [Promise!Next]_(Promise!vars)
  <2>1. UNCHANGED Receipts
    BY <1>7 DEF SendRequest, Receipts, IInv, TypeOK
  <2> QED
    BY <1>7, <2>1 DEF SendRequest, call, chain, Nonce, Processed, Promise!vars, Receipts
<1>8. ASSUME NEW s \in Sends, SendRawTransaction(s)
      PROVE  [Promise!Next]_(Promise!vars)
  <2>1. UNCHANGED Receipts
    BY <1>8 DEF SendRawTransaction, SendBecomes, Receipts, IInv, TypeOK
  <2> QED
    BY <1>8, <2>1 DEF SendRawTransaction, call, Nonce, Processed, Promise!vars, Receipts
<1>9. ASSUME NEW s \in Sends, ConfirmTransaction(s)
      PROVE  [Promise!Next]_(Promise!vars)
  <2>1. UNCHANGED <<call, sending, chain>> /\ sent[s] = "confirm"
    BY <1>9 DEF ConfirmTransaction, SendBecomes
  <2>2. UNCHANGED <<AskedFor, Heard, Number, profile, Nonce, Redeemed, Worth>>
    BY <2>1 DEF call, chain, AskedFor, Heard, Number, Nonce, Redeemed, Processed, Worth
  <2>3. CASE sent' = [sent EXCEPT ![s] = "error"]
    <3>1. UNCHANGED Receipts
      BY <2>1, <2>3 DEF Receipts, IInv, TypeOK
    <3> QED
      BY <2>2, <3>1 DEF Promise!vars, AskedFor, Heard, Number, Worth, Receipts, Redeemed
  <2>4. CASE Processed(sending[s]) /\ sent' = [sent EXCEPT ![s] = "signature"]
    <3>1. PICK c \in Calls : c = sending[s]
      BY <2>1 DEF IInv, OnlyHandedOut
    <3>2. c \in Redeemed /\ Receipts[s] = {} /\ Receipts' = [Receipts EXCEPT ![s] = {c}]
      BY <2>1, <2>4, <3>1 DEF Redeemed, Receipts, IInv, TypeOK
    <3>3. Promise!GiveReceipt(s, c)
      BY <2>2, <3>2
         DEF Promise!GiveReceipt, AskedFor, Heard, Number, Worth, Receipts, Redeemed
    <3> QED
      BY <3>3 DEF Promise!Next
  <2> QED
    BY <1>9, <2>3, <2>4 DEF ConfirmTransaction, SendBecomes
<1>10. ASSUME NEW c \in Calls, Land(c)
       PROVE  [Promise!Next]_(Promise!vars)
  BY <1>10, RedeemStep
<1>11. ASSUME NEW c \in Calls, LandTokenAccount(c)
       PROVE  [Promise!Next]_(Promise!vars)
  BY <1>11, TokenAccountStep
<1>12. ASSUME NEW c \in Calls, Drop(c)
       PROVE  [Promise!Next]_(Promise!vars)
  BY <1>12 DEF Drop, call, sends, Nonce, Processed, Promise!vars
<1>13. ASSUME OtherAdvance
       PROVE  [Promise!Next]_(Promise!vars)
  <2>1. Nonce' = Nonce + 1
    BY <1>13 DEF OtherAdvance, Nonce, IInv, TypeOK
  <2>2. UNCHANGED Redeemed
    <3>1. /\ DOMAIN advances' = DOMAIN advances \cup {Len(advances) + 1}
          /\ \A i \in DOMAIN advances : advances'[i] = advances[i]
          /\ advances'[Len(advances) + 1] = Other
      BY <1>13, Advanced DEF OtherAdvance, IInv, TypeOK
    <3> QED
      BY <3>1, OtherAssumption DEF Redeemed, Processed
  <2>3. UNCHANGED <<AskedFor, Heard, Number, profile, Worth, Receipts>>
    BY <1>13 DEF OtherAdvance, call, sends, AskedFor, Heard, Number, Worth, Receipts
  <2>4. Promise!UseNumber
    BY <2>1, <2>2, <2>3
       DEF Promise!UseNumber, AskedFor, Heard, Number, Worth, Receipts, Redeemed
  <2> QED
    BY <2>4 DEF Promise!Next
<1>14. CASE UNCHANGED vars
  BY <1>14 DEF vars, call, sends, chain, Nonce, Processed, Promise!vars
<1> QED
  BY <1>2, <1>3, <1>4, <1>5, <1>6, <1>7, <1>8, <1>9, <1>10, <1>11, <1>12, <1>13, <1>14
     DEF Next, ServiceStep, SendStep, Creations

\* The client-signed routes implement TicketPromise.
THEOREM PromiseTheorem == Spec => PromiseKept
BY PromiseInit, PromiseStep, InvariantTheorem, PTL DEF Spec, PromiseKept, Promise!Spec
=============================================================================
