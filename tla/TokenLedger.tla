---------------------------- MODULE TokenLedger ----------------------------
(***************************************************************************)
(* The Solana programs as the services use them: the System, SPL Token,    *)
(* Associated Token and Metaplex Metadata instructions on the accounts of  *)
(* one mint.  The account of a mint is the set of facts that hold of it; an*)
(* instruction says which facts it needs, which must not hold, which it    *)
(* adds and which it drops.  A transaction executes its instructions in    *)
(* order and takes effect only if each of them is valid in turn.           *)
(*                                                                         *)
(* An authority is held by the key the service generated for the token or  *)
(* by nobody, so holding it is a fact.                                     *)
(***************************************************************************)
EXTENDS Integers, Sequences

Facts == {"allocated", "initialised", "mintAuthority", "freezeAuthority",
          "metadata", "updateAuthority", "mutable", "tokenAccount", "supply",
          "fee"}

Instruction(needs, lacks, adds, drops) ==
  [needs |-> needs, lacks |-> lacks, adds |-> adds, drops |-> drops]

-----------------------------------------------------------------------------
(* Instructions *)

CreateAccount == Instruction({}, {"allocated"}, {"allocated"}, {})

\* initializeMint with the authority as mint authority; freeze is the set of
\* facts for the freeze authority argument: empty for null.
InitializeMint(freeze) ==
  Instruction({"allocated"}, {"initialised"},
              {"initialised", "mintAuthority"} \cup freeze, {})

CreateMetadataAccountV3(isMutable) ==
  Instruction({"initialised", "mintAuthority"}, {"metadata"},
              {"metadata", "updateAuthority"} \cup
                (IF isMutable THEN {"mutable"} ELSE {}), {})

\* What holds of no account.
Impossible == {"impossible"}

\* The program derives the address of the token account from its owner, and takes
\* no other.
CreateAssociatedTokenAccountAt(address, owner) ==
  Instruction({"initialised"} \cup (IF address = owner THEN {} ELSE Impossible),
              {"tokenAccount"}, {"tokenAccount"}, {})
CreateAssociatedTokenAccount == CreateAssociatedTokenAccountAt("authority", "authority")

MintTo == Instruction({"tokenAccount", "mintAuthority"}, {}, {"supply"}, {})

\* setAuthority to null.
RemoveAuthority(authority) == Instruction({authority}, {}, {}, {authority})

\* updateMetadataAccountV2 with new data: only of mutable metadata.  An
\* updateAuthority argument that is null or undefined keeps the authority.
UpdateMetadataAccountV2(isMutable) ==
  Instruction({"updateAuthority", "mutable"}, {}, {},
              IF isMutable THEN {} ELSE {"mutable"})

\* What holds of every token the backend created, whatever powers are left over it.
CreatedToken == {"allocated", "initialised", "metadata", "updateAuthority",
                 "tokenAccount", "supply"}

-----------------------------------------------------------------------------
(* Execution *)

Valid(ix, account) == ix.needs \subseteq account /\ ix.lacks \cap account = {}

After(ix, account) == (account \ ix.drops) \cup ix.adds

\* What instruction i of a transaction finds: the facts there at the start, or
\* added by an earlier instruction, that none in between has dropped.
Found(account, instructions, i) ==
  LET Kept(fact, j) == \A k \in j + 1 .. i - 1 : fact \notin instructions[k].drops
  IN  {f \in account : Kept(f, 0)}
        \cup UNION {{f \in instructions[j].adds : Kept(f, j)} : j \in 1 .. i - 1}

\* A transaction succeeds if each instruction is valid on what it finds.
Succeeds(account, instructions) ==
  \A i \in DOMAIN instructions : Valid(instructions[i], Found(account, instructions, i))

\* The facts after a transaction that succeeds.
Outcome(account, instructions) == Found(account, instructions, Len(instructions) + 1)

\* The same the way the runtime does it, one instruction after another: the one
\* that is not valid undoes those before it.
StepByStep(start, instructions) ==
  LET step[i \in 0..Len(instructions)] ==
        IF i = 0 THEN [ok |-> TRUE, facts |-> start]
        ELSE LET before == step[i - 1]
             IN  IF before.ok /\ Valid(instructions[i], before.facts)
                 THEN [ok |-> TRUE, facts |-> After(instructions[i], before.facts)]
                 ELSE [ok |-> FALSE, facts |-> start]
  IN  step[Len(instructions)]
=============================================================================
