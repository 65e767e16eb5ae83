--------------------------- MODULE TicketPromise ---------------------------
(***************************************************************************)
(* What a transaction that the client has yet to sign is worth.  It is a   *)
(* ticket with a number: it can be redeemed only while its number is the   *)
(* next one, whoever presents it and however often, and redeeming it, or   *)
(* any other use of the number, makes it worthless for good.  A ticket for *)
(* a token makes the token in one step, on terms that honour the wish, and *)
(* nothing ever changes them; any other ticket changes no terms at all.  A *)
(* ticket of create-mint is handed out only after the keys of its token    *)
(* have been stored, and a receipt only for a ticket that was redeemed.    *)
(***************************************************************************)
EXTENDS Naturals

CONSTANTS
  Calls,          \* calls that ask for a ticket
  Sends,          \* presentations of one
  Routes,         \* what they may be for
  Wishes,         \* what may be wished for
  Honouring(_, _) \* Honouring(r, w): the terms on which a token of route r with
                  \* wish w may come into being

VARIABLES
  asked,     \* asked[c]: <<route, wish>> of call c, in a set, or an empty set
  told,      \* told[c]: what call c was told
  ticket,    \* ticket[c]: the number on the ticket of c, or 0
  kept,      \* calls whose keys are stored
  turn,      \* the number that can be redeemed
  redeemed,  \* calls whose ticket was redeemed
  terms,     \* terms[c]: the terms of the token of c, empty if there is none
  receipt    \* receipt[s]: the call whose ticket s redeemed, in a set, or an empty set

vars == <<asked, told, ticket, kept, turn, redeemed, terms, receipt>>

Init ==
  /\ asked = [c \in Calls |-> {}]
  /\ told = [c \in Calls |-> "nothing"]
  /\ ticket = [c \in Calls |-> 0]
  /\ kept = {}
  /\ turn = 1
  /\ redeemed = {}
  /\ terms = [c \in Calls |-> {}]
  /\ receipt = [s \in Sends |-> {}]

Ask(c, r, w) ==
  /\ asked[c] = {}
  /\ asked' = [asked EXCEPT ![c] = {<<r, w>>}]
  /\ UNCHANGED <<told, ticket, kept, turn, redeemed, terms, receipt>>

Tell(c, answer) ==
  /\ asked[c] # {} /\ told[c] = "nothing"
  /\ told' = [told EXCEPT ![c] = answer]
  /\ kept' \in {kept, kept \cup {c}}
  /\ UNCHANGED <<asked, turn, redeemed, terms, receipt>>

Offer(c, n) ==
  /\ Tell(c, "ticket")
  /\ ticket' = [ticket EXCEPT ![c] = n]
  /\ \A a \in asked[c] : a[1] = "createMint" => c \in kept'

Fail(c) == Tell(c, "failed") /\ UNCHANGED ticket

Redeem(c) ==
  /\ told[c] = "ticket" /\ ticket[c] = turn
  /\ turn' = turn + 1
  /\ redeemed' = redeemed \cup {c}
  /\ \/ UNCHANGED terms
     \/ \E a \in asked[c] : \E t \in Honouring(a[1], a[2]) :
          terms' = [terms EXCEPT ![c] = t]
  /\ UNCHANGED <<asked, told, ticket, kept, receipt>>

UseNumber ==
  /\ turn' = turn + 1
  /\ UNCHANGED <<asked, told, ticket, kept, redeemed, terms, receipt>>

GiveReceipt(s, c) ==
  /\ receipt[s] = {} /\ c \in redeemed
  /\ receipt' = [receipt EXCEPT ![s] = {c}]
  /\ UNCHANGED <<asked, told, ticket, kept, turn, redeemed, terms>>

Next ==
  \/ \E c \in Calls : \/ \E r \in Routes, w \in Wishes : Ask(c, r, w)
                      \/ \E n \in 1..turn : Offer(c, n)
                      \/ Fail(c)
                      \/ Redeem(c)
                      \/ \E s \in Sends : GiveReceipt(s, c)
  \/ UseNumber

Spec == Init /\ [][Next]_vars
=============================================================================
