--------------------------- MODULE RevokePromise ---------------------------
(***************************************************************************)
(* What the revoke operations promise their caller: powers over a token    *)
(* only ever disappear, each at most once, and a call that is answered with*)
(* success is answered after the power it names is gone.  A call may fail  *)
(* whether or not the power is gone.                                       *)
(***************************************************************************)
CONSTANTS
  Mints,   \* tokens
  Calls,   \* revoke calls
  Powers   \* what can be revoked

VARIABLES
  held,    \* held[m]: the powers somebody has over token m
  asked,   \* asked[c]: the token and the power call c names, or an empty set
  told     \* told[c]: what call c was told

vars == <<held, asked, told>>

Init ==
  /\ held \in [Mints -> SUBSET Powers]
  /\ asked = [c \in Calls |-> {}]
  /\ told = [c \in Calls |-> "nothing"]

Ask(c, m, p) ==
  /\ asked[c] = {}
  /\ asked' = [asked EXCEPT ![c] = {<<m, p>>}]
  /\ UNCHANGED <<held, told>>

\* A power goes only while a call that names it has been made.
Lose(m, p) ==
  /\ \E c \in Calls : <<m, p>> \in asked[c]
  /\ p \in held[m]
  /\ held' = [held EXCEPT ![m] = @ \ {p}]
  /\ UNCHANGED <<asked, told>>

Succeed(c) ==
  /\ told[c] = "nothing"
  /\ \E m \in Mints, p \in Powers : <<m, p>> \in asked[c] /\ p \notin held[m]
  /\ told' = [told EXCEPT ![c] = "revoked"]
  /\ UNCHANGED <<held, asked>>

Fail(c) ==
  /\ told[c] = "nothing"
  /\ asked[c] # {}
  /\ told' = [told EXCEPT ![c] = "failed"]
  /\ UNCHANGED <<held, asked>>

Next ==
  \/ \E c \in Calls, m \in Mints, p \in Powers : Ask(c, m, p)
  \/ \E m \in Mints, p \in Powers : Lose(m, p)
  \/ \E c \in Calls : Succeed(c) \/ Fail(c)

Spec == Init /\ [][Next]_vars
=============================================================================
