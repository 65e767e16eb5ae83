# Verification of launchflow-backend

TLA+ models of the LaunchFlow backend (a NestJS monorepo that signs users in with
their Solana wallet and creates and manages SPL tokens), TLC runs that check
them, and TLAPS proofs of their safety properties for every number of clients,
calls and retries.

## 1. The system

| Component | State it keeps | Operations |
| --- | --- | --- |
| **User service** (`apps/user`) | Mongo collections `User` (unique `publicKey`), `AccessToken` (unique `userWalletAddress`, TTL index on `expiresAt`), `SignInRequest` (nonces, never deleted) | `user/auth` makes a nonce; `user/sign-in` verifies the signed nonce, finds or creates the user and issues a JWT (`manageJwt`) |
| **AuthGuard** (`libs/ss-common-domain`) | reads `AccessToken` | verifies the JWT, then compares it with the stored one |
| **Mint service** (`apps/mint`) | Mongo collection of minted tokens; the chain | `mint/meme`, `mint/utility`: pin metadata, build one transaction, send, confirm, record, answer with the keys |
| **Admin creation** (`libs/solana/.../admin-create-mint-token.service.ts`) | the chain | the same, behind `admin/create-mint`, without a record |
| **SplManageService** (`apps/solana-stack-backend`) | the chain | revoke mint, freeze, update and metadata authority, each with up to five attempts; burn LP tokens |
| **Client-signed creation** (`serialised-create-mint-token.service.ts`, `SplCreateService`) | `User.projectTokens` with encrypted keys; the chain; address lookup tables | `create-mint`, `serialised/create-token`, `serialised/mint`, `serialised/transfer`, `serialised/transaction/send` |
| **Metadata pinning** (`libs/solana/src/metadata`) | Pinata | verify credentials, pin an image, pin the JSON |
| **Nonce account creation** | the chain | one transaction on fresh keys |
| **Web PubSub** | Azure | negotiate, close, send-message |
| Wallet choice, encryption, AWS, `buy`/`launch`/`run`/`swap` skeletons, module wiring, the older copy of the user module | none | |

How they interact: every handler is a chain of awaited calls to MongoDB, to a
Solana RPC node, to Pinata or to KMS. Handlers share no memory; they share the
collections and the chain, so what one read may be stale at its next await.
Guarded routes of the backend read the token the user service stored. All token
creations, by the backend and by clients, advance **one nonce account**.

What is hard here: concurrent sign-ins of one wallet on a document that is deleted
and re-created; expiry judged by a JWT exception, a comparison of different units
and a TTL index; transactions that land after the call that sent them gave up;
retries that race their predecessors; a confirmation that also resolves for a
failed transaction; transactions that come back from clients late or twice;
failures between any two awaits. Nothing compensates a partial failure.

What makes each component correct:

- *Sign-in*: a wallet never ends up without any client signed in, a failed sign-in
  has a cause, the guard refuses only displaced or expired tokens, every request
  is answered.
- *Creation*: a token is what its route promises or does not exist; a call is
  answered after its transaction is settled.
- *Revocation*: success means gone, once, for good.
- *Client-signed creation*: the keys are stored before the token can exist; one
  nonce value, one token.

## 2. The modules

| Module | Models |
| --- | --- |
| `Sessions` | what sign-in and the guard promise between them (abstract) |
| `UserAuth` | sign-in, AuthGuard, the TTL index; implements `Sessions` |
| `UserAuthProofs`, `UserAuthRefinement` | theorems about `UserAuth`; the second, that it implements `Sessions` |
| `TokenLedger` | the Solana programs: instructions on the facts that hold of a mint, atomic execution (external code, from how the services use it) |
| `TokenLedgerProofs` | theorems about the execution of transactions of any length |
| `MintPromise` | what a creation by the backend promises (abstract) |
| `TokenMint` | mint service, admin creation and the metadata pins, over `TokenLedger`; implements `MintPromise` |
| `TokenMintProofs` | theorems about `TokenMint`, the refinement among them |
| `RevokePromise` | what a revocation promises its caller (abstract) |
| `SplManage` | the four revoke operations, over `TokenLedger`; implements `RevokePromise` |
| `SplManageProofs` | theorems about `SplManage`, the refinement among them |
| `TicketPromise` | what a transaction the client has yet to sign is worth (abstract) |
| `SerialisedMint` | the client-signed routes, over `TokenLedger`; implements `TicketPromise` |
| `SerialisedMintProofs`, `SerialisedMintRefinement` | theorems about `SerialisedMint`; the second, that it implements `TicketPromise` |
| `MC*` | instances for TLC: symmetry sets; `MCTokenMint` also compares `TokenLedger` with a step-by-step execution |

In all of them a call is a value of a constant set, used once; `stage` (`pc`) is
the await it runs next, `answer` (`outcome`) how it ended; one action is one await
with everything the handler does up to the next. A call that is cut off (`Abort`)
stays where it was, and nothing is undone. An await that changes something outside
may fail with or without its effect: the answer of a broadcast or a write can be
lost. Operators that stand before a definition they resemble, such as
`ConfirmAtOnce` before `ConfirmTransaction`, are plausible bugs in it; they belong
to no specification and serve to show that each property can be broken.

**UserAuth.** A token is the record of its payload and its second of issue: HS256
over the same payload with the same key gives the same string. The unique index
makes `accessTokens` a function; `AfterUpdate` is the upsert, `RevokeAccessToken`
`deleteOne` with its `deletedCount` check, `SaveAccessToken` `create` against the
index. The clock is in seconds. `raced` and `lastWriter` are history variables
that no action reads. The one numeric detail kept is the expiry comparison of
`validate.access-token.service.ts:32` (`ComparesExpired`). `apps/solana-stack-backend/src/user/slice/auth`, served under `depreciated/user`,
is the same text on the same collections: a sign-in through it is one more handler
of the model.

**Sessions.** One session per wallet, identified by the sign-in that opened it, and
not by its token: two sign-ins within a second have the same one. `UserAuth` maps to
it with the document's writer (`lastWriter`) as the current session; opening is the
upsert or the `create`, closing the `deleteOne` or the purge. A step of a handler
that touches no document is a stutter. The last step of a guarded call admits it
only with the token of the current session.

**TokenLedger.** The account of a mint is the set of facts that hold of it. An
instruction needs some, excludes some, adds and drops some. `Found` says what
instruction *i* of a transaction finds: what was there or was added before it and
not dropped in between. A transaction succeeds if each instruction is valid on what
it finds, and otherwise changes nothing. The definitions are not recursive, so that
proofs can expand them. `StepByStep` is the execution of one instruction after
another, the way the runtime does it; that the two agree is a theorem
(`StepwiseTheorem`), and `MCTokenMint` has TLC compare them on all transactions of up
to three instructions from four different accounts and on those of the service
(`ExecutionIsStepwise`). `CreatedToken` is what a complete token has besides the
powers that can be revoked: `SplManage` starts from it, and `CreatedTheorem` shows
that `TokenMint` makes it.

**TokenMint.** The three calls of Pinata come first: a failed authentication ends the
call, a pin that is not OK does not. A missing `uri` makes the encoding of the
metadata instruction throw; a missing image hash only spoils the link in the JSON.
A legacy `Transaction` without `nonceInfo` is given a new blockhash
and signed again by `sendTransaction`, so the transactions of the backend live as
long as a blockhash, and their `nonceAdvance` is an instruction that fails if the
nonce account was already advanced in the slot. Hence `slot`, and `advanced`, which
says of every slot who advanced the nonce in it: a call whose creation succeeded (one
that fails undoes its advance), or a client, whose transaction the nonce does keep
valid and which advances it even when the rest of it fails (`ClientAdvance`; the other
side of `OtherAdvance` in `SerialisedMint`).

**MintPromise.** A token is made in one step on the terms of its kind, in a turn nobody
else has taken; or it is refused, in a turn that is taken; or it lapses. Turns can be
taken by somebody who is none of the calls. Keys are told and tokens listed only after
one of the first two. `TokenMint` maps to it with the part of the account that the terms
are about (`Promised`), the state of the transaction as its fate (`Fate`), the answer
(`Told`) and the nonce of the current slot as the turn (`Taken`). What happens before
the broadcast and the metadata are stutters. The freeze authority of a utility token is
left out of what is promised: the comment at `mint.service.ts:298` says it is kept, the
code never creates one (`FreezeTheorem` in section 4), and the promise takes no side.

**SplManage.** Every attempt is a transaction of its own (`txs[c][k]`) with the
blockhash `sendTransaction` gave it; `expired[c]` counts the blockhashes of the
call that have expired, the first being the one `confirmTransaction` is always
given. `chain` and `final` are the two commitments the code reads at. The model is
closed: nobody but the calls of the service revokes anything. The holders of the keys
could, on their own; `FailedMeansTaken`, `AppliedAtMostOnce` and `PromiseKept` are about
a token whose holders do not.

**SerialisedMint.** `sendRawTransaction` leaves the transaction as it is: here the
nonce does decide. `advances` is the history of the nonce account, its length the
current value. A call of `serialised/mint` or `serialised/transfer` works on a token
another call created (`token[c]`), whose keys the client was handed.
`getOrCreateAssociatedTokenAccount` is two lookups with a transaction of its own
between them, which needs no nonce and may land late (`LandTokenAccount`).
`transferChecked` names a wallet where a token account must be, so that route always
ends in an error, but the token account it created stays. The address lookup table
that `create-mint` sets up is an await of `Prepare` without an effect (no returned
transaction refers to it); the versioned transaction is left out (returned without
any signature of the backend).

**TicketPromise.** The transaction handed out is a ticket with a number, the nonce
value. A ticket can be redeemed only when its number is next, and anybody's use of the
number makes it worthless; a redeemed ticket makes its token on terms that honour the
wish, or nothing. A receipt is a send answered with a signature. `SerialisedMint` maps
to it with `nonceOf` as the number (once the transaction is answered), `advances` as
the numbers used, and the part of the account the wishes are about (`Terms`): the
token account a transfer adds is not in it. That terms never change holds within the
routes of this module: a later revocation of the same token is in `SplManage`.

One assumption holds for all creation routes: the uploaded image has the `toBuffer`
that the parameter type of `createAndPinMetadataForSplToken` (`MultipartFile`) says.
A file of `@nestjs/platform-express`, which the controllers of
`solana-stack-backend` pass on, has none: with such a file every creation of theirs
ends at the first pin with an error, one of the outcomes `PinFile` and `PinMetadata`
have in any case, and the rest of the handler is never reached.

## 3. The runs

Invariants, action properties and the refinements are checked without need of
fairness; liveness is checked under `FairSpec`.

| Run | Shows |
| --- | --- |
| `sign_in` | `TypeOK`; `StrandedOnlyInFlight`, `SomeClientSignedIn`, `ErrorsNeedARace`, `RefusalMeansDisplaced`, `PurgedOnlyExpired`; `SessionsKept`: `UserAuth` implements `Sessions`; and `IInv`, the conjunction the proofs induct over |
| `sign_in_ends` | `SignInEnds` |
| `token_mint` | `FailureMeansContention`, `FixedTokensStayFixed`, `MetadataResolves`, `AnsweredAfterSettling`, `CallEnds`, `PromiseKept`: `TokenMint` implements `MintPromise`; and `IInv` of the proofs |
| `revoke` | `RevokedMeansGone`, `AppliedAtMostOnce`, `FailedMeansTaken`, `RetriesRunOut`, `PromiseKept`: `SplManage` implements `RevokePromise`; and `IInv` of the proofs |
| `revoke_ends` | `CallEnds` |
| `serialised` | `RequestHonoured`, `KeysAreKept`, `FreshMeansExecutable`, `TokensWereHandedOut`, `SameNonceExcludes`, `SignatureIsFinal`, `AllAnswered`, `PromiseKept`: `SerialisedMint` implements `TicketPromise`; and `IInv` of the proofs |

`AllAnswered` says that there is always a later moment when no call and no send is
pending. As each is made once, this is the same as every one of them being answered,
and one formula instead of one per call is what TLC can check on this many states.

Six runs end in a violation of what a message, comment or test says:

| Run | The text | What the code does |
| --- | --- | --- |
| `unexpired_reissue` | a comment among the tests: an unexpired token is revoked, and the new one saved and returned | a concurrent sign-in makes `deleteOne` or `create` fail, and this one is refused |
| `recorded_token_exists` | a log: sent and confirmed | `value.err` is not read: a failed creation is recorded and answered |
| `update_authority` | a log: Update Authority Revoked | `updateAuthority: undefined` keeps the authority; the metadata becomes immutable |
| `retry_time` | a comment: get new blockhash for retry | the confirmation of a retry still uses the first one |
| `freeze_request` | a log: Revoking freeze authority | the branch contradicts itself; a request for this alone revokes nothing |
| `mint_token` | a comment: mint tokens to specified wallet address | the token account is created at one owner's address in another's name, so the transaction cannot succeed |

Also seen while modelling, without a run of their own:

- the comment that utility tokens keep their freeze authority (`mint.service.ts:298`; it
  is created as null): instead of a run for one token, `FreezeTheorem` proves that no
  token of any kind ever has one;
- "Setting to null revokes the authority" (`spl.manage.service.ts:661`; null keeps it,
  which is why `RevokedMeansGone` and the refinement leave that operation out);
- "Transaction failed after all retry attempts" (`spl.manage.service.ts:171`; reached
  by a `break` after any attempt);
- a token re-issued within the second of the revoked one is the same string, so that
  its revocation has no effect (`manage.user-auth.service.ts:154`);
- an image pin that is not OK leaves a link to `undefined` in the metadata document
  (`create.metadata.service.ts:41`);
- `transferChecked` is given the key of a wallet as its destination
  (`serialised-create-mint-token.service.ts:419`) and always fails;
- `burnRaydiumLPToken` returns the signature of a burn that failed on chain
  (`spl.manage.service.ts:566`).

### Bounds, and why they are enough

- *Sign-in*: one wallet, because wallets share nothing but the nonces; three
  sign-ins, so that two can overlap the re-issue of a third; one guarded call. The
  clock runs to 4 with `TokenTtl` 3, `SessionLife` 2, `PurgeDelay` 1: tokens expire
  and documents are purged within the run, and `PurgeAssumption` holds with
  equality.
- *Creation*: two calls, two slots, and in each slot possibly a client's transaction
  before theirs: in one slot the nonce account is contended, by the calls or by a
  client, in two it need not be. The keys of different calls are disjoint, so a third
  call adds no new kind of contention.
- *Revocation*: two calls on one token, two attempts each, so that an abandoned
  attempt, its retry and a competitor coexist; the token starts with mint and
  freeze authority and immutable metadata, or with mutable metadata alone. The
  liveness run has one call with three attempts.
- *Client-signed*: two calls and two sends: two creations with one nonce value, or a
  creation and a mint or transfer of its token; a transaction sent twice, or two of
  them. The nonce advances twice, by either or by the backend. The three requests
  cover the branches over the revocation flags.

The theorems remove all of these bounds for the safety properties; what rests on them
is liveness.

The runs disable deadlock checking because the systems may stop: each call is used
once and clients owe nothing.

### Fairness

Weak fairness is assumed only of the steps of the service: the event loop resumes a
handler whose await settled, and the drivers settle every await
(`confirmTransaction` at its timeout). `revoke_ends` also assumes that blockhashes
expire. Nothing is assumed of clients, of the TTL monitor, of validators, or of a
transaction landing. Failures are possible at every await but never required.

## 4. The proofs

Every invariant and action property of the passing runs, and all four refinements,
are also theorems. Three more say of a violation the runs show that it is no accident
of the instance (`FreezeTheorem` of `SerialisedMintProofs`, `MintTokenTheorem`,
`RestTheorem`), and `FreezeTheorem` of `TokenMintProofs` says of a comment without a run
how far it is from the code.

`UserAuthProofs` and `UserAuthRefinement` prove, for any number of wallets, sign-ins
and guarded calls and any times:

| Theorem | Statement |
| --- | --- |
| `TypeCorrect` | `Spec => []TypeOK` |
| `StrandedTheorem` | `Spec => []StrandedOnlyInFlight` |
| `SomeClientTheorem` | `Spec => []SomeClientSignedIn` |
| `PurgeTheorem` | `Spec => PurgedOnlyExpired` |
| `RaceTheorem` | `Spec => []ErrorsNeedARace` |
| `RefusalTheorem` | `Spec => []RefusalMeansDisplaced` |
| `ComparisonNeverHolds` | the comparison of `validate.access-token.service.ts:32` is false for every expiry and every time |
| `InvariantTheorem` | `Spec => []IInv` |
| `SessionsTheorem` | `Spec => SessionsKept` |

They rest on `NilAssumption` (the null value is none of the others),
`TimeAssumption` (times are natural numbers) and, for `PurgeTheorem` alone,
`PurgeAssumption`: `JWT_EXPIRES_IN` is at most the eight hours of the session plus
the delay of the TTL index. The delay is 28 800 000 *seconds*, so this holds for
any sensible configuration, but it is configuration and not code.

The argument goes in layers, each an invariant of its own that uses the ones
before. None of the properties is inductive alone. `HandlerConsistent` says what
the stage of a handler fixes of its variables. `DocumentExplained` says that the
document of a wallet is what its last writer left: it was the missing link for
`StrandedOnlyInFlight` and `SomeClientSignedIn`, because the code itself does not
record who wrote a document. `DocumentDated` bounds `expiresAt` from below, and with
the TTL delay gives `PurgedOnlyExpired`. `OverlapsRecorded` and `UndisturbedView`
say that a sign-in that met nobody still sees the collections as it read them,
which gives `ErrorsNeedARace`: `ComparisonNeverHolds` is not needed for it, since a
token judged expired leads to the upsert, which cannot fail on the index.
`GuardConsistent` gives `RefusalMeansDisplaced`. For the refinement, `GuardNotDone`
says that a call is not judged before its last step; that the current session's token
is the stored one comes from `DocumentExplained`. The conjunction is `IInv`.

`TokenLedgerProofs` computes `Found` for the first instructions of a list and for the
next one (`FoundFirst`, `FoundNext`, `Concatenated`, `FiveAndMore`). From these the
modules below get what each fixed transaction leaves behind, one instruction at a
time. Two theorems hold for transactions of every length on every account:
`StepwiseTheorem`, that `Succeeds` and `Outcome` agree with `StepByStep`, and
`PartsTheorem`, that an atomic transaction does what its two parts do one after the
other. Both are inductions over the length. The induction theorems of the library
take an operator as their hypothesis; `SetInduction` takes a set instead, and follows
from the well-foundedness of `<` on the natural numbers (`LeastNumber`).

`TokenMintProofs` proves, for any number of calls and slots, that the following always
hold: `IInv` (`InvariantTheorem`), `TypeOK` (`TypeTheorem`), `FailureMeansContention`
(`ContentionTheorem`), `FixedTokensStayFixed` (`FixedTheorem`), `MetadataResolves`
(`MetadataTheorem`), `AnsweredAfterSettling` (`SettledTheorem`) and `LeftToRevoke`
(`CreatedTheorem`): a token that exists is `CreatedToken` with some of the three powers,
which is what `SplManage` starts from, and `NoFreezeAuthority` (`FreezeTheorem`).
`PromiseTheorem` says that `TokenMint` implements `MintPromise`; the step that makes a
token needs that its account was empty before, and the step to another slot that
nobody is ahead of the chain. The argument: `AccountExplained` says that an account is
empty or what its one transaction left, so each transaction executes from an empty
account, where it succeeds; then it can fail only on the nonce, which a client took or
a call whose token, says `AdvanceExplained`, was made in that slot. The theorems rest on
`NobodyAssumption` (nobody, a client and a call are told apart) and `SlotAssumption`.
`CallConsistent` says that nothing is sent without a document behind the `uri`.

`SplManageProofs` proves, for any number of calls, tokens and retries, `IInv`
(`InvariantTheorem`), `TypeOK` (`TypeTheorem`), `RevokedMeansGone` (`RevokedTheorem`),
`FailedMeansTaken` (`FailedTheorem`), `AppliedAtMostOnce` (`OnceTheorem`), `RetriesRunOut`
(`RunOutTheorem`), that of what a token was created with revocation never takes
anything but the three powers, and so never the update authority (`RestTheorem`), and
that `SplManage` implements `RevokePromise` (`PromiseTheorem`). Calls check at `final`
what they change in `chain`, so the invariant ties the two: what is final and not
confirmed any more was taken by some attempt (`LostMeansTaken`), what a transaction
under way needs is there or was taken (`InFlightMeansValid`), what was taken is gone
(`AppliedMeansGone`), and by one attempt alone (`TakerIsUnique`). `AppliedAtMostOnce`
adds the finite-set step from uniqueness to a cardinality. `RetriesRunOut` is the
safety half of `CallEnds`: `StepsLeft`, three for each try left and those before the
next try is counted, is a natural number that every step of a call makes smaller and
no other step makes larger. What is left to fairness is only that a call goes on.

`SerialisedMintProofs` proves, for any number of calls, sends and advances of the
nonce:

| Theorem | Statement |
| --- | --- |
| `InvariantTheorem` | `Spec => []IInv` |
| `TypeTheorem` | `Spec => []TypeOK` |
| `RequestTheorem` | `Spec => []RequestHonoured` |
| `KeysTheorem` | `Spec => []KeysAreKept` |
| `FreshTheorem` | `Spec => []FreshMeansExecutable` |
| `HandedOutTheorem` | `Spec => []TokensWereHandedOut` |
| `NonceTheorem` | `Spec => []SameNonceExcludes` |
| `SignatureTheorem` | `Spec => []SignatureIsFinal` |
| `FreezeTheorem` | `Spec => []FreezeNeedsMint`: the wish for the freeze authority alone is never granted |
| `MintTokenTheorem` | `Spec => []MintNeverSucceeds`: no transaction of `serialised/mint` could succeed, in any state |
| `PromiseTheorem` (in `SerialisedMintRefinement`) | `Spec => PromiseKept` |

They rest on `OtherAssumption` (the backend is none of the calls) and
`WishesAssumption`. None of the properties is inductive: that a token exists says
nothing of how its transaction got on chain. `OnlyHandedOut` traces it back to a send
and to an answer; `StoredFirst` ties the answer to the profile, and `PlacedByNonce`
the history of the nonce to the values the transactions carry. `AccountExplained`
says that an account is what the transaction of its creation made of it, but for the
token account a transfer may add; what a `serialised/mint` would do to it is excluded,
because its transaction never succeeds, and that is part of the proof. The refinement
needed one conjunct more, `NonceWasRead`: the number on a ticket is one the nonce
account has held, so that a ticket is never good for a later turn.

Only model-checked: liveness (`SignInEnds`, `CallEnds`, `AllAnswered`), because the
prover does not reason about fairness and `ENABLED`.

## 5. Not modelled

- `burnRaydiumLPToken`: one transaction, sent once, of a pool's token the service keeps
  no state about. What can go wrong in it is listed above.
- Nonce account creation, the choice of the paying wallet, encryption, S3, Web
  PubSub (stores nothing: the field it pushes is not in the schema), the route that
  pins an image alone, the skeleton services and the wiring: no state that interacts.
- AuthGuard in front of the routes of `SerialisedMint` and of revocation: it decides
  before a handler starts and the handler reads nothing of it, so the composition has
  no state in common; what the guard decides is in `UserAuth`.
- The lookup table of `create-mint`, beyond its failure.
- The text of names, keys, signatures and metadata; amounts of tokens and of SOL. A lack of SOL is one of
  the ways a client-signed transaction may fail in `SerialisedMint`; in `TokenMint`
  the wallets of the backend are taken to be funded.

## 6. What a next step would be

For the proofs: the counterpart of `RetriesRunOut` for sign-in, which has no loop but
several ways through `manageJwt`, and the consequences of the abstract specifications
(what was redeemed, revoked or refused stays so), stated and proved once about them and
carried over to the code by the refinements.

What the code offers beyond this is small: a model of the lookup table with two calls
in one slot, once something returned refers to it; the burn, once it reads
`value.err`; and larger instances for the liveness runs.
