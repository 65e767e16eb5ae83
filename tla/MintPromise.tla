---------------------------- MODULE MintPromise ----------------------------
(***************************************************************************)
(* What the creation of a token by the backend promises.  The token comes  *)
(* into being in one step, with the supply and the powers its kind is to   *)
(* have, and nothing ever changes them.  Or it never does, because it came *)
(* too late for the turn in which it was tried, or lapsed.  Every turn     *)
(* makes one token at most and can be taken by somebody else altogether.   *)
(* A call that is told the keys, or whose token is listed, is told or      *)
(* listed after its fate is decided.                                       *)
(***************************************************************************)
CONSTANTS
  Calls,    \* calls that ask for a token
  Kinds,    \* kinds of tokens
  Terms(_)  \* Terms(k): what holds of a token of kind k as soon as it exists

VARIABLES
  asked,   \* asked[c]: the kind c asks for, in a set, or an empty set
  token,   \* token[c]: what holds of the token of c, empty if there is none
  fate,    \* fate[c]: what became of it
  told,    \* told[c]: what call c was told
  listed,  \* calls whose token is listed for its owner
  busy     \* the current turn is taken

vars == <<asked, token, fate, told, listed, busy>>

Init ==
  /\ asked = [c \in Calls |-> {}]
  /\ token = [c \in Calls |-> {}]
  /\ fate = [c \in Calls |-> "open"]
  /\ told = [c \in Calls |-> "nothing"]
  /\ listed = {}
  /\ busy = FALSE

Decided(c) == fate[c] \in {"made", "refused"}

Ask(c, k) ==
  /\ asked[c] = {}
  /\ asked' = [asked EXCEPT ![c] = {k}]
  /\ UNCHANGED <<token, fate, told, listed, busy>>

Decide(c, f) ==
  /\ asked[c] # {} /\ fate[c] = "open"
  /\ fate' = [fate EXCEPT ![c] = f]
  /\ UNCHANGED <<asked, told, listed>>

Make(c, k) ==
  /\ k \in asked[c]
  /\ ~busy /\ busy' = TRUE
  /\ Decide(c, "made")
  /\ token' = [token EXCEPT ![c] = Terms(k)]

Refuse(c) ==
  /\ busy
  /\ Decide(c, "refused")
  /\ UNCHANGED <<token, busy>>

Lapse(c) == Decide(c, "lapsed") /\ UNCHANGED <<token, busy>>

List(c) ==
  /\ told[c] = "nothing" /\ Decided(c)
  /\ listed' = listed \cup {c}
  /\ UNCHANGED <<asked, token, fate, told, busy>>

HandKeys(c) ==
  /\ told[c] = "nothing" /\ Decided(c)
  /\ told' = [told EXCEPT ![c] = "keys"]
  /\ UNCHANGED <<asked, token, fate, listed, busy>>

\* A call may fail at any time, and leave its token listed if its fate is decided.
Fail(c) ==
  /\ told[c] = "nothing" /\ asked[c] # {}
  /\ told' = [told EXCEPT ![c] = "failed"]
  /\ \/ UNCHANGED listed
     \/ Decided(c) /\ listed' = listed \cup {c}
  /\ UNCHANGED <<asked, token, fate, busy>>

\* Somebody who is none of the calls takes the turn.
TakeTurn ==
  /\ ~busy /\ busy' = TRUE
  /\ UNCHANGED <<asked, token, fate, told, listed>>

NewTurn ==
  /\ busy' = FALSE
  /\ UNCHANGED <<asked, token, fate, told, listed>>

Next ==
  \/ \E c \in Calls, k \in Kinds : Ask(c, k) \/ Make(c, k)
  \/ \E c \in Calls : Refuse(c) \/ Lapse(c) \/ List(c) \/ HandKeys(c) \/ Fail(c)
  \/ TakeTurn \/ NewTurn

Spec == Init /\ [][Next]_vars
=============================================================================
