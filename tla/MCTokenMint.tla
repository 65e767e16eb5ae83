---------------------------- MODULE MCTokenMint ----------------------------
(***************************************************************************)
(* Instances of TokenMint for TLC.  Calls are interchangeable: each picks  *)
(* its kind when it arrives.                                               *)
(***************************************************************************)
EXTENDS TokenMint, TLC

Symmetry == Permutations(Calls)

(***************************************************************************)
(* TokenLedger defines what a transaction does without recursion.  Here it *)
(* is compared with the runtime's own way, one instruction after another,  *)
(* on all short transactions and on those of the service.                  *)
(***************************************************************************)
SomeInstructions ==
  { CreateAccount, InitializeMint({"freezeAuthority"}), CreateMetadataAccountV3(TRUE),
    CreateAssociatedTokenAccount, MintTo, RemoveAuthority("mintAuthority"),
    RemoveAuthority("freezeAuthority"), UpdateMetadataAccountV2(FALSE) }

SomeTransactions ==
  UNION {[1..n -> SomeInstructions] : n \in 0..3} \cup {Instructions(k) : k \in Kinds}

SomeAccounts == { {}, {"allocated"}, {"allocated", "initialised", "mintAuthority"}, Facts }

ASSUME ExecutionIsStepwise ==
  \A start \in SomeAccounts, instructions \in SomeTransactions :
    LET result == StepByStep(start, instructions)
    IN  /\ Succeeds(start, instructions) = result.ok
        /\ result.ok => Outcome(start, instructions) = result.facts
=============================================================================
