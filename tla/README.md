# Verification of the A0 boundary kernels

TLA+ modules, TLC model-checking configurations and TLAPS proofs for the two
Python packages of this repository: `a0bk_kernel` (the serial SQLite ledger and
the Strongwiz shadow router) and `a0_zsa_kernel` (the preserved v0.1 lifecycle
engine). Paths below are relative to the repository, so `store.py` is
`src/a0bk_kernel/store.py`.

## 1. Inventory

| Component | State it keeps | Operations | What is hard about it |
|---|---|---|---|
| Serial ledger, `store.py` | one SQLite file: `objects`, `accounts`, `receipts`, `serial_tokens` | `put_object`, `commit_opening`, `commit_version`, `append_receipt`, `register_token`, `consume_token`, `counts`, `get_object`, `verify` | several processes on one file, each SQL statement a step; lock waits that time out after 5 s; kills between statements; retries after a lost answer |
| Headers and receipts, `accounting.py` | none (immutable values) | constructors and validators of `AccountHeader`, `TypedReceipt`, `OpeningBundle`, `VersionOpening` | what the ledger relies on is checked in these validators and nowhere else |
| Residuals, `accounting.py` | none (lineage is in the receipts) | `register_residual`, `transition_residual` | lineage over several receipts, of which one transition sees one |
| Router, `routing.py` | none | `evaluate_route`, `evaluate_route_raw` | a proposal evaluated against a snapshot that may have moved; guard results of several candidates pooled into one route; interval ends |
| Router models, `models.py` | none | validators | - |
| Lifecycle engine, `engine.py`, `rules.py`, `transitions.py` | none: the caller keeps status and receipts | `evaluate_packet`, `evaluate_raw` | the packet carries its own snapshot of the state, which may be old or wrong; replays; reopenings |
| Canonical JSON (both packages) | none | strict parse, normalise, hash | identity of everything above is the hash of these bytes |
| Command lines (both packages) | none | read, evaluate, print | - |

How they interact. Callers build headers and receipts with `accounting.py` and
hand them to the ledger, which validates them again and stores their canonical
bytes under their hash. The router is pure: it gets a proposal and a control
snapshot, and the snapshot's account, evidence, traces and consumed tokens come
from outside, by a caller that may have read them from the ledger some time ago.
Consuming a token in the ledger is a separate call after the route is decided.
The lifecycle engine is independent of both; its caller keeps each candidate's
status and last receipt and presents them inside the next packet. The only
concurrency in the code is that of processes sharing the database file.

What makes each component correct:

* Ledger: operations are atomic, an account never forks, admission orders have
  no gap, no header without the receipt that admitted it, a token is used by one
  decision; success is durable, retries are recognised, nobody waits forever.
* Router: no ranking gets a candidate past a guard; what is admitted lies inside
  everything the snapshot declares; a closed gate rejects.
* Lifecycle: no packet jumps a stage or moves a candidate back; decisions are
  governed; a replay changes nothing; a reopening answers every failure.

`PROJECT.json` lists the hazards with their lines.

## 2. Modules

| Module | Models | Checked by | Proved in |
|---|---|---|---|
| `LedgerData` | the validators of `accounting.py` and the row checks of `store.py`, as operators on the tables | through the next ones | through the next ones |
| `Ledger` | what the ledger promises: four tables, one atomic action per operation | `MCLedger` | `LedgerProofs` |
| `SQLiteLedger` | `store.py` as it runs: every statement of every client a step, with the creation of the tables, locks, timeouts and kills; implements `Ledger` | `MCSQLiteLedger` | `SQLiteProofs`, `SQLiteSafety` |
| `Accounting` | the constructors of `accounting.py`, residuals included | through the next | `AccountProofs` |
| `AccountSession` | callers that build bundles from the rows they know and submit them to `Ledger` | `MCAccountSession` | `AccountProofs` |
| `Router` | `routing.py` as operators | through the next ones | through the next ones |
| `RouterSession` | the router called while the caller's control snapshot changes | `MCRouterSession` | `RouterProofs` |
| `ShadowSession` | `Router` and `Ledger` composed: decisions from old snapshots compete for tokens | `MCShadowSession` | `ShadowProofs` |
| `Lifecycle` | `engine.py`, `rules.py`, `transitions.py` as operators | through the next | through the next |
| `LifecycleSession` | a caller who keeps statuses and presents packets that may be wrong | `MCLifecycleSession` | `LifecycleProofs` |
| `CommandLines` | `canonical.py` and `cli.py` of both packages: what becomes of flawed files | `MCCommandLines` | `CommandProofs` |

The operators named `Mutant: ...` in the comments are variants of the definition
that follows them, each with one plausible mistake. Nothing uses them;
`PROJECT.json` pairs each with the property that notices the mistake, which
shows that the property depends on that code.

### Ledger and SQLiteLedger

State and code. `objects`, `accounts`, `receipts` and `tokens` are the tables.
A content reference is the content: two equal SHA-256 references mean equal
canonical bytes, so a header names its predecessor by being given it, a receipt
is its own `receipt_id`, and the `account_id` of an opened account is the record
of its opening basis. With that, the `UNIQUE (header_ref)` constraint and the
digest comparisons of `_insert_account` are equality.

`Ledger` has one action per writing operation; a refused call is a stuttering
step. `SQLiteLedger` has, for each client, the next statement (`pc`), the call,
the tables its transaction sees (`tx`) and the answer it will give. Modelled of
SQLite, from the statements and pragmas the code issues: `BEGIN IMMEDIATE`
takes RESERVED or fails after the 5 second timeout; an open SELECT holds SHARED;
a COMMIT takes PENDING, waits for SHARED locks and may time out; a COMMIT that
wrote nothing waits for nobody; a killed process loses its locks and its
transaction. A hot journal is rolled back with the kill, since no other process
can read the file before that is done. `counts`, `get_object` and `verify` are
their SELECTs one after the other; `register_token` is the autocommit statement
it is in the code.

A client is `closed` until its process is started, and can make a call only when
its constructor has returned. `schema` is the set of tables that exist and
`script` says, for each client, how far its `executescript` has come: a `CREATE
TABLE IF NOT EXISTS` passes over a table that is there, or takes RESERVED,
creates and commits. Constructors of several processes race on an empty file,
wait for each other's locks, may time out (the `OperationalError` leaves the
constructor, and what was created stays) and may be killed between or within two
statements. That SQLite keeps a parsed schema per connection is left out.

`SQLiteLedger` implements `Ledger` with the committed tables as the refinement
mapping (`Abstract == INSTANCE Ledger WITH ...`): `Commit` and `RegisterToken`
are the steps of the operations, and all others change no table.

### Accounting and AccountSession

`Accounting` has one operator per constructor, which returns a bundle of header
and receipt; the conditions under which a constructor raises are operators of
their own (`Continues`, `AppendsAt`). `AccountSession` adds callers: each builds
one bundle from the rows it knows, and submits it to `Ledger`'s actions, taken
by `INSTANCE`. The answer may be a success, a refusal, or lost, in which case
the same bundle is submitted again; a caller may hear of everything that was
committed, and may be killed, which makes it forget what it knew.

Two things are assumed of callers, who are outside the repository: they take
references from rows that were committed, and they number a receipt after the
last one they know of its account unless they leave the number to
`open_version`. They may build on rows that are no longer the latest, transition
a residual another caller has transitioned, and announce a version again.

### Router and RouterSession

A guard is its set of fault codes. Candidates are a set, because
`ProposalPacket` makes ids and ranks unique and `_select` compares nothing else.
`RouterSession` adds the caller: time, evidence, observation, the version of the
account, each part of the budget (actions, lives, clock), revocation and
consumption change the snapshot between evaluations. Reason texts,
`required_next_receipts` (a function of the route) and the hashes of a decision
are left out.

### ShadowSession

Callers freeze a control snapshot with the consumed tokens they read, evaluate,
and consume the snapshot's token with the decision; tokens are `Ledger`'s, by
`INSTANCE`, routes are `Router`'s. A decision is its content, so two callers
with equal requests hold the same decision, and `consume_token` treats the
second as a retry of the first. A caller acts when `consume_token` returns True.
`acts` is a history of what was acted on.

### Lifecycle and LifecycleSession

A packet is the requested step and its dossier. `reasons` holds the reason codes
without the factor names. `LifecycleSession` is the caller, who is outside the
repository: he presents packets that are wrong in one way at a time (old
snapshot, another candidate's snapshot, a step from another status, tampered
content) with any dossier, input that is no packet, replays the packet or an
altered one against the receipt, and settles receipts. Two things are assumed of
him: he applies a receipt with `lifecycle_changed` only while the snapshot in it
is still what he keeps, and he reopens under an unused identity (or, by mistake,
under the one he reopens). The engine keeps no state and cannot check either;
without the first, a packet presented twice would be allowed twice.

### CommandLines

A text is what it says and the set of its flaws: wrong encoding, a byte order
mark, broken syntax, a duplicate name, a number the profile forbids, NaN or
Infinity, nesting beyond the recursion limit, a lone surrogate, a schema
violation. `LoadErrors` and `EncodeErrors` are the exceptions of `canonical.py`,
`Survivors` the flaws that parsing leaves in the value, and the rest is which
handler catches which exception. A text with several flaws may raise any of the
exceptions whose flaw may come first. A user replaces files and runs the
commands; `output` is what earlier runs left in the `--output` file. Its writing
may fail before the file is opened, which leaves the earlier decision there, or
after, which leaves a file that was emptied or written in part (`Partial`).

## 3. Runs

| Run | Instance | Shows |
|---|---|---|
| `ledger` | a ROOT account with two headers competing for versions 1 and 2, one header that skips a version, a CHILD, a SUCCESSOR, a forged identity; well-formed and malformed receipts at orders 0-3; one token, two decisions | `VersionChain`, `OrdersContiguous`, `OpenedByItsCut`, `VersionsHaveTransitions`, `VerifyFindsNothing`, `TokenUsedOnce`, `AppendOnly` |
| `ledger_origin` | the same | finding: `VersionPreservesOrigin` is violated |
| `sqlite` | two clients, all tables present, the calls that conflict | `ImplementsLedger`, `SuccessIsDurable`, `OneFirstUse`, `CountsConsistent`, `ReplayNeverRefused` |
| `sqlite_live` | two clients, an empty file on which their constructors race, a call of each shape | `SchemaComplete`, `EveryCallEnds`, `WriterReleases` |
| `accounting` | two callers, up to four or five receipts: a root, children and successors, versions, tests, one residual | `LineageIsAChain`, `OriginPreserved`, `RefusedByRivals`, `VersionsInOrder` |
| `router` | eight candidates that differ in what fails, alone, in pairs and in threes; time 0-3 across both ends of the grant and the diagnostic; each part of the budget runs out; the account version moves | six properties of the route |
| `router_missing_evidence` | the same | finding: `MissingEvidenceAsksOrHolds` is violated |
| `shadow` | two callers, two tokens, three controls, one of which pairs a grant with the other's token; two proposals, so that decisions for a token may be equal or different; time 0-3 | `GrantUsedOnce` |
| `lifecycle` | one candidate, one reopening, twenty-eight dossiers, three appeals | five properties of the session |
| `lifecycle_veto` | the same | finding: `HardVetoSupportsRejection` is violated |
| `command_lines` | every flaw alone and the pairs in which the first matters, in one file or two | `SuccessIsFlawless`, `ModesAgree` |
| `command_lines_receipt` | texts with and without NaN | finding: `EveryAttemptEmitsAReceipt` is violated |

Why the bounds are enough. A conflict in the ledger is between two headers of a
key, two receipts of an order or two decisions of a token, so two of each show
it; orders up to 3 leave room for an opening, two competing versions and an
append. Two clients are enough for every lock conflict: there is one RESERVED
lock, and a waiter of any kind is blocked by one holder. Two callers are enough
for a race for an order, a residual or a token; four receipts (each caller may
draft before the bound is seen, so five occur) hold an opening, a registration
and two transitions that compete. The router compares candidates in pairs; a
third is needed for one that is out of the race to influence the other two. Time
has a value before, at and after each interval end. The dossiers differ from a
sound one in one respect each, so each error of `rules.py` decides by itself in
some packet, except that a missing authority also gives `RULE_SCOPE_MISMATCH`.
Their rule is in force in [0, 2) and their authority in [1, 3), at times 0 to 3,
so the two ends of either are met separately. Every run explores its whole state
space; `MaxOrder`, `MaxReceipts` and `MaxTime` are the only bounds on numbers,
and the sets given to the constants bound the inputs. The proofs of section 5
have none of these bounds.

`accounting` and `shadow` use symmetry of the callers, which no definition tells
apart, and check no liveness property. Deadlock is checked in all runs.

Fairness, used in `sqlite_live` only: `WF(Step(c))` for each client, where
`Step` holds the statements of a constructor or a call that is under way. A
process that has not been killed goes on executing them, and SQLite's busy
timeout of 5 seconds (`store.py`, `timeout=5`) ends every wait, so some step of
it is always possible. No process has to be started, or started again after a
kill or a constructor that timed out; no call has to be made; and nothing is
assumed about kills. `EveryCallEnds` says of every constructor and call that it
returns, raises or is killed.

What the properties do not say: `VerifyFindsNothing` and `AppendOnly` speak of
account and receipt rows, not of objects, tokens or pages. `SuccessIsFlawless`
says what exit code 0 means; it does not forbid what the code allows, that an
earlier decision stays in the `--output` file after another exit code.

## 4. Findings

* `ledger_origin`: README.md says a `VERSION` that does not preserve the origin
  is refused by the constructor or the ledger. The constructor copies the
  origin; the ledger does not compare it. (`OriginPreserved` holds for callers
  who use the constructors.)
* `router_missing_evidence`: the routing profile says missing evidence returns
  `REQUEST_WITNESS` or a held route. When another candidate of the same proposal
  fails IDENTITY, SCOPE, AUTHORITY or REENTRY, the route is `REJECT`.
* `lifecycle_veto`: DESIGN.md allows a declared hard veto as the basis of a
  rejection. `rules.py` adds `HARD_VETO_ACTIVE` for every decision, so a
  rejection based on a veto is always blocked, and one with another basis is
  blocked too once a veto is declared.
* `command_lines_receipt`: DESIGN.md says every attempt emits a receipt. A packet
  with `NaN` or `Infinity` in `candidate.content` is parsed and validated, and
  then raises in `sha256_id`, outside the handler of `evaluate_raw`.

Seen while modelling, and not the subject of a run: a second `CutReceipt` or
transition receipt can be appended at a later order, and `commit_version` admits
a header that is already there again with another transition receipt; a
transition receipt may be appended before its version by callers who do not use
`open_version`; parents named by CHILD and SUCCESSOR headers are not looked up;
receipts that carry a residual into another account are in no common order; an
expired diagnostic gives `REJECT` with only passing guard codes; a replay that
does not match an allowed evaluation is `INVALID` and yet carries the resulting
status (with `lifecycle_changed` false); a missing factor counts as 2 against a
ceiling and so passes a ceiling of 2; a `REOPEN` packet does not look at the
expiry of its candidate; the failures in `trace.failures` do not appear on the
receipt of a well-formed reopening; a lone surrogate in separate inputs of
`a0bk-route` is a usage error, while in one request it is a `REJECT`; nesting
beyond the recursion limit ends both commands in a traceback; exit code 2 is
both a route that is no admission and a usage error, and after a usage error the
`--output` file still holds the earlier decision; the legacy normalisation turns
the number 1.50 into the string "1.50", so the two have one hash; callers who
lose the answer of `consume_token` cannot learn whether they or a caller with an
equal decision used the token first.

## 5. Proofs

All theorems hold for every value of the constants under the named assumptions
of the modules: numbers are natural numbers where the code has `Field(ge=...)`,
a reference is no null value, requests have the fields their kind needs, and
proposals and snapshots are what the pydantic models accept
(`RequestsAreWellFormed`), and the weights of a dossier are numbers
(`DossierNumbers`). Two theorems of `AccountProofs` have hypotheses of their
own, since TLC uses model values for the constants, which cannot be asked for
their domains. `NoRefIsNull`: the null reference `NoRef` has no fields, so it is
neither a pair of references nor a header (`TypeCorrect`,
`RefusedByRivalsAlways`). `PackageIsNull`: the package of an account that has
none is no reference either (`RefusedByRivalsAlways`).

Every invariant and every action property that a passing run checks is proved.

`LedgerProofs`: `TypeOK`, `VersionChain`, `OrdersContiguous`, `OpenedByItsCut`,
`VersionsHaveTransitions`, `VerifyFindsNothing`, `TokenUsedOnce`, `AppendOnly`.
The table invariants are not inductive by themselves. An `append_receipt` only
checks that *some* version of the account is present, while `OpenedByItsCut`
speaks of version 1, which is at the other end of a chain of predecessors.
`EveryAccountOpened` closes the gap: every row of `accounts` comes with a
version-1 header of its account. An opening keeps it by presenting that header;
a version keeps it because its predecessor, of the same account, is present. For
an opening, `OpeningIsFirst` and `FirstOrder` show that an admissible
`CutReceipt` of a new header is at order 0; `InsertKeepsOrders` shows that
inserting at the next order keeps orders contiguous. There is one lemma per
action. The invariant without `TypeOK`, `Sound`, asks of rows only that they are
numbered, and so can be used for rows that no constant lists.

Two more theorems are about whole histories, which no bounded run shows.
`HistoriesComplete`: every account has all versions from 1 to any it has, and
every receipt all earlier admission orders of its account. The step from one
version to the one before it is in the invariant; `CountDown` follows it through
any number of versions (a least missing number would have a present successor).
`CountsOrdered`: the tables are finite and never hold more headers than
receipts, because sending each header to a receipt that admitted it is an
injection (`Admits`, `AdmitsOne`).

`SQLiteProofs`: `TypeOK` and the refinement `Spec => ImplementsLedger`. The
invariant is `Locking` (the holder of RESERVED is the client between `BEGIN
IMMEDIATE` and the end of its transaction) and `Progress(c)`, which says for
each statement what the ones before it have established: the transaction's
tables are the committed tables with the header, then also the receipt, of the
call, and the checks that allowed this hold of the committed tables. Another
client's step keeps `Progress(c)` because it changes a table only when nobody
else holds RESERVED (`OthersProgress`). At `Commit`, `Progress` is exactly the
guard and the effect of the operation of `Ledger`.

`SQLiteSafety` starts from the refinement: an execution of the statements is one
of `Ledger` (`SerialLedger`), so the theorems of `LedgerProofs`, instantiated as
`Serial`, hold of the committed tables (`RowsOfTheLedger`, `RowsAreFinal`).
`SuccessIsDurable` and `ReplayNeverRefused` follow from that and the invariant;
`OneFirstUse` from counting, for each token, the answers `first_use` that were
given and the one that may be on its way, which are at most one together and
none while the token is unused. For `SchemaComplete` the invariant follows each
constructor through its script: the tables before the statement it has reached
exist, whichever process created them, because no step drops one and a
constructor passes a statement only when its table is there or it has committed
it. `CountsConsistent` relates numbers read at different times: the
accounts that `counts` has counted are at most the receipts there are now
(`CountsOrdered` when they were counted, and tables only grow), hence at most
the receipts it counts next.

`AccountProofs`: `LineageIsAChain` and `OriginPreserved`, and that what
`open_root`, `open_child`, `open_successor` and `open_version` return passes the
validators of the ledger (`OpeningsFit`, `VersionsFit`). The chain rests on an
argument about knowledge. What a caller knows of an account is all of it up to
some order (`WellKnown`), so when it drafts a receipt it knows every receipt
before the order it drafts for, and none of these continues the same prior
(`FreshDraft`). Others commit at that order or later, and then the draft is
refused, or is its own row again. `RefusedByRivals` says that this is the only
way to be refused: a draft never runs ahead of its account, because its caller
knows a receipt at every earlier order and all of them are committed, its prior
header is there, and its own row, if an answer was lost, is recognised; so
whoever is refused finds another row at its order or another header under its
key. The histories of `LedgerProofs` are used here. `VersionsInOrder` adds that
whoever knows a version knows the receipt that announced it. A residual's whole
history follows (`ResidualsTraceable`): each has exactly one registration, in
its own account, and each of its other receipts continues exactly one earlier
receipt of it that no other continues, so any receipt leads back to the
registration. `TypeOK` says that no validator refuses a bundle that a caller
submits. `StepShapes` sorts the steps into building, submitting and forgetting,
so that each of these proofs has three cases. `BooksAreSound` instantiates
`LedgerProofs` as `Books`: every bundle a caller submits is an operation of the
ledger on numbered rows, so `Sound`, and with it all that `LedgerProofs` says of
the tables, holds of what callers commit.

`RouterProofs`: `TypeOK` and the six properties of the route. The selection is
the `CHOOSE` of a candidate that precedes all others, so each theorem needs such
a candidate to exist and to be unique. `BestExists` shows it for finite sets of
candidates with unique ranks, by well-founded induction over strict subsets.
Ranking needs scores that can be compared: `ScoreIsInt` shows that a weighted
sum is an integer for every diagnostic and metrics that the validators accept
(`WellFormedDiagnostic`). Its sum is a fold over a set; a smallest set of
dimensions without a sum would lose one and have one. `FaultsIgnoreOthers` and
`FaultsIgnoreRanking` say what a guard does not read.

`ShadowProofs`: `TypeOK` and `GrantUsedOnce`. An admission binds its snapshot's
grant to its token, whichever candidate it selects (`AdmissionBinds`), and what
was acted on is in the table under a token of its own (`ActedConsumed`); a
second act would need the token to be unused.

`LifecycleProofs`: the five properties of the session and `TypeOK`. Lemmas say
what the engine returns for any packet (`ReceiptShape`, `ChangeIsJustified`).
The invariant says that an unsettled receipt is the engine's answer to a packet
of the session, so that what `Apply` installs was justified from the status it
replaces. `DecisionsAreGoverned` states in `Supports`, without the engine's
operators, everything a dossier owes a decision: an adopted, permitting rule and
an authority in force together, action and evidence, floors and ceilings, the
measurement and its burdens.

`CommandProofs`: `TypeOK`, `SuccessIsFlawless` and `ModesAgree`, for any texts
and any combinations of flaws. One lemma per command says which texts can be
admitted (`RawAdmits`, `SeparateAdmits`): the separate files are parsed, joined,
encoded and parsed again, and no flaw is lost between the parses without an
exception.

Model-checked only: the liveness properties `EveryCallEnds` and
`WriterReleases`, since liveness under fairness is beyond TLAPS. The four
findings are counterexamples that TLC finds.

## 6. Not modelled

* Formats of strings, dates, decimals and references, the free texts of decisions
  and receipts, and the reason texts: nothing decides by them.
* The normalisation of values by `canonical.py` beyond which values it refuses:
  hashes are modelled as the content they name.
* `wrap_legacy_receipt`, which copies its arguments into a payload without a
  validator of its own, and `reopens_links`, which nothing reads.
* Standard input, combinations of arguments that the parsers refuse, and reading
  `--replay-receipt` from a file; the replay itself is in `LifecycleSession`.
* Damage to the database file from outside the ledger, which `verify` would
  report: no operation can cause it (`VerifyFindsNothing`).
* Package surfaces, profile documents and reference records, which have no
  behaviour.

## 7. Plan

Done: all modules above, and proofs of every safety and action property. Left,
in this order:

1. Residuals carried between accounts, with a specification of which burdens are
open over all accounts. 2. An abstract specification of the lifecycle (statuses
and the moves between    them) that `LifecycleSession` implements. 3. The
canonical normalisation as a recursive function over small values, checked
for injectivity on what the successor profile accepts.
