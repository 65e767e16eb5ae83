------------------------------ MODULE Sessions ------------------------------
(***************************************************************************)
(* What sign-in and the guard of the later calls promise between them: a   *)
(* wallet has one session at most, a client is told of its token only once *)
(* its sign-in has opened the session, a sign-in that is refused has opened*)
(* none, a call is admitted only with the token of the current session, and*)
(* turned away only if the session of its sign-in is not the current one.  *)
(* Two sign-ins of a wallet may well be given the same token.              *)
(***************************************************************************)
CONSTANTS
  Wallets,   \* wallet addresses
  Requests,  \* sign-ins
  Guards,    \* guarded calls
  Tokens,    \* what a client of a session presents
  None       \* no wallet, no sign-in, no token

VARIABLES
  asked,      \* asked[r]: the wallet that signs in with r, or None
  current,    \* current[w]: the sign-in whose session wallet w has, or None
  token,      \* token[r]: the token of the session r has opened, or None
  told,       \* told[r]: what the client of r has heard
  presented,  \* presented[g]: the sign-in whose token call g carries, or None
  verdict     \* verdict[g]: what became of call g

vars == <<asked, current, token, told, presented, verdict>>

Init ==
  /\ asked = [r \in Requests |-> None]
  /\ current = [w \in Wallets |-> None]
  /\ token = [r \in Requests |-> None]
  /\ told = [r \in Requests |-> "nothing"]
  /\ presented = [g \in Guards |-> None]
  /\ verdict = [g \in Guards |-> "none"]

Ask(r, w) ==
  /\ asked[r] = None
  /\ asked' = [asked EXCEPT ![r] = w]
  /\ UNCHANGED <<current, token, told, presented, verdict>>

\* Sign-in r opens the session of its wallet with a token, in place of the one there
\* is.
Open(r) ==
  /\ asked[r] # None
  /\ token[r] = None
  /\ told[r] = "nothing"
  /\ token'[r] \in Tokens
  /\ token' = [token EXCEPT ![r] = token'[r]]
  /\ current' = [current EXCEPT ![asked[r]] = r]
  /\ UNCHANGED <<asked, told, presented, verdict>>

Close(w) ==
  /\ current[w] # None
  /\ current' = [current EXCEPT ![w] = None]
  /\ UNCHANGED <<asked, token, told, presented, verdict>>

\* The client of r hears of a token, is refused, or hears nothing certain.
Tell(r, what) ==
  /\ asked[r] # None
  /\ told[r] = "nothing"
  /\ what = "token" => token[r] # None
  /\ what = "refused" => token[r] = None
  /\ told' = [told EXCEPT ![r] = what]
  /\ UNCHANGED <<asked, current, token, presented, verdict>>

\* A client calls with the token it was told.
Present(g, r) ==
  /\ presented[g] = None
  /\ told[r] = "token"
  /\ presented' = [presented EXCEPT ![g] = r]
  /\ verdict' \in {verdict, [verdict EXCEPT ![g] = "expired"]}
  /\ UNCHANGED <<asked, current, token, told>>

Judge(g, as) ==
  LET r   == presented[g]
      now == current[asked[r]]
  IN  /\ r # None
      /\ verdict[g] = "none"
      /\ as = "admitted" => now # None /\ token[now] = token[r]
      /\ as = "displaced" => now # r
      /\ verdict' = [verdict EXCEPT ![g] = as]
      /\ UNCHANGED <<asked, current, token, told, presented>>

Next ==
  \/ \E r \in Requests, w \in Wallets : Ask(r, w)
  \/ \E r \in Requests : Open(r)
  \/ \E w \in Wallets : Close(w)
  \/ \E r \in Requests, what \in {"token", "refused", "lost"} : Tell(r, what)
  \/ \E g \in Guards, r \in Requests : Present(g, r)
  \/ \E g \in Guards, as \in {"admitted", "displaced"} : Judge(g, as)

Spec == Init /\ [][Next]_vars
=============================================================================
