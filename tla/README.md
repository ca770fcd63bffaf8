# Verification of Mailmap

Mailmap (package `mailmap`) keeps a local index of one Gmail mailbox, classifies what is in it, remembers the user's
decisions, and prepares cleanup plans. Nothing in the repository changes the mailbox: the code that would carry out a
plan is specified (`docs/contracts/CONTROLLED_EXECUTION_V1.md`) and not written. This directory holds TLA+ models of
its stateful parts, the TLC configurations that check them on small instances, and proofs checked by TLAPS. Paths
below are relative to the repository's root.

## 1. The system

| Part | Source | State | Operations | What makes it hard |
|---|---|---|---|---|
| Index persistence | `src/mailmap/repository.py` 3761-3969, `index_model.py` | SQLite: one row per message, one checkpoint per account | `apply_index_page`, `start_full_index`, `delete_indexed_messages`, `delete_account_index`, readers | the checkpoint must always describe the rows it was stored with |
| Gmail inventory | `gmail_inventory.py`, `gmail_inventory_model.py` | nothing of its own: a checkpoint in the index; locals of a running call | `scan_full`, `scan_partial` | the mailbox changes between two requests; retries, pauses, cancellation, crashes; history that expires |
| Gmail session | `oauth_session.py`, `session_model.py`, `windows_secret_store.py` | one pending authorization, the states already used, a snapshot per account (memory); one encrypted record per account (disk) | prepare, complete, restore, refresh, disconnect, revoke, forget | two remote effects and one write that cannot be made atomic; replayed and late callbacks; expiry |
| Classification | `classification_domain.py`, `classification_model.py` | none | snapshot of the index to classified sources | deterministic precedence of signals |
| Policy memory | `policy_domain.py`, `policy_model.py`, `repository.py` 1829-3750 | SQLite: an append-only log of decisions per account, receipts of commands, a revision | record, undo | supersession and undo over a log; repeated and conflicting commands |
| Map | `map_composition.py`, `map_model.py`, `map_api.py` | composed from classification and policies; a revision; listing cursors | overview, sources, details | a listing read page by page while the map moves |
| Cleanup plans | `cleanup_plan_domain.py`, `cleanup_plan_model.py`, `repository.py` 4905-5700 | SQLite: plans with their members and events, a catalogue revision, receipts | create, revalidate, cancel, list | what was frozen may only shrink; 24 h expiry that nobody writes; repeated commands; the map moves between preparing and revalidating |
| Plan API | `cleanup_plan_api.py` | a bounded table of cursors (memory) | HTTP handlers over the above | cursors evicted or stale |
| Frontend | `frontend/src` | what the client remembers of a command it could not confirm | retries | a lost answer to a command that was carried out |
| Base Segura | `service.py`, `api.py`, `classifier.py`, `fixtures.py` | synthetic prototype of the same ideas | create plan, revalidate | superseded by the parts above |

They interact as follows. The session yields credentials to the inventory's transport. The inventory writes the index.
The repository composes, in one transaction, a map from the index, the classification and the policies in force. The
cleanup-plan commands freeze a selection of that map, and check it again against a later map. The API reads and writes
through the repository and the frontend calls the API; both may repeat a command. All shared state is the SQLite file,
every operation on it one transaction (`Repository._connect`, 1532-1544).

What makes each part correct:

- Inventory and index: a completed index is right about every message, except those on which the next partial scan is
  going to be told; an interrupted scan can be continued without skipping anything; a call tells the truth about what
  it stored; calls and resumed scans end.
- Session: a state is exchanged once, and only the newest, unexpired one; what is stored belongs to the account that
  was verified, with exactly the permitted scope; nothing but `forget_local` loses a credential; a session is never
  reported revoked that is not.
- Policies: what is in force is what the decisions and undos of the log declare; undoing brings back what only the undone
  decision had replaced; a repeated command changes nothing and answers the same; what is recorded is what the user saw,
  and applies; whatever is in force, the map can be composed, and what was protected stays protected.
- Plans: a plan never grows, never revives, and never contains what was not selected when it was frozen; protected
  and unsafe messages are never in it; receipts make commands idempotent.

## 2. Modules

| Module | Models |
|---|---|
| `GmailMailbox` | the mailbox as the inventory's requests see it: places of messages, a history that can expire (external) |
| `IndexRepository` | rows and checkpoint of one account, the writing operations, each one transaction |
| `GmailInventory` | one caller of `scan_full` / `scan_partial`, request by request, over the two modules above |
| `MC_GmailInventory` | constants for TLC |
| `GmailInventoryInvariant` | `CoverageInv`, the inductive invariant |
| `GmailInventoryProofs`, `GmailInventoryStepProofs` | the theorems about it: of the states, and of the steps |
| `GmailOAuth` | the authorization service and the clock, as the session's ports see them (external) |
| `GmailSession` | `SecureGmailSession` over the secret store, remote call by remote call and write by write |
| `SessionLifecycle` | the abstract specification: what an account key promises |
| `GmailSessionInvariant`, `GmailSessionProofs` | `SessionInv`, the inductive invariant, and the theorems |
| `MC_GmailSession` | constants and symmetry for TLC |
| `CleanupRules` | what a plan selects and why a later map takes it away: the pure functions of `cleanup_plan_domain.py` |
| `CleanupPlanLedger` | the commands over plans, rows, receipts and catalogue revision, while the map moves |
| `CleanupPlanPromise` | the abstract specification: what a plan promises |
| `CleanupPlanLedgerProofs` | `LedgerInv`, the inductive invariant, and the theorems |
| `CleanupPlanAvailabilityProofs` | `ValidPlans`: every plan passes its own loader |
| `MC_CleanupPlans` | messages, maps and requests for TLC |
| `PolicyRules` | what decisions mean on a map, and which are refused: the pure functions of `policy_domain.py`, and the checks `repository.py` repeats |
| `PolicyMemory` | the log of decisions and undos, its replay and its receipts, written over two paths while the map moves |
| `PolicyPromise` | the abstract specification: which decisions are in force |
| `MapProjection` | the counters and the history that the map shows, and the checks these make on themselves |
| `PolicyRulesProofs` | theorems about the rules alone, of any map and any well-formed policies |
| `PolicyMemoryProofs` | `MemoryInv` and `PreparedInv`, the inductive invariants, and the theorems |
| `MapProjectionProofs` | the map and its history pass their own checks |
| `MC_Policies` | two classifications of four messages, and symmetry, for TLC |

### Inventory

`pc` is the place in `scan_full` / `scan_partial`: `profile` and `labels` are the first two requests; `open` is the
reading of the stored checkpoint and what follows from it (resume, start, refuse); `list` and `metadata` are the
requests of the loop over the pages; `persist` is the transaction at the end of a page. `call` is the local variable
`checkpoint`, `page` the locals of the loop, `result` the `InventoryResult` of the last call. Every remote request is
a step of its own because the mailbox moves in between; every transaction is one step.

Of the data, the model keeps what the properties tell apart. A message is a number, in the order in which
`messages.list` returns them; its labels are one of five places. A page token is the position already listed and a
history token how many records are consumed, which is all the code does with them. A `historyId` is the length of the
history. Left out: `processed_count`, the texts of records, the local label names, timestamps. `seen` is the
`historyId` of the profile while a full scan still needs it. `result.checkpoint` is kept only when the result claims
that it was stored.

What the model takes from the service, beyond the documented requests: a page of `history.list` reports all that
happened up to the moment it is asked for; a listing may or may not contain messages in excluded places.
One caller per account, as the contracts have it; an account or a message is deleted by the user between calls.
`removedByHand` is a history variable: a message the user took out of the index by hand is not the scan's to restore.

| Run | What it shows |
|---|---|
| `inventory` | the safety properties, with every interruption at every step |
| `inventory_live` | calls return; a full scan that is resumed until it ends, ends |
| `inventory_new_full` | *violated*: a new full scan paused or failing at the labels request keeps the earlier index under its own checkpoint |
| `inventory_interrupted_partial` | *violated*: a partial scan paused or failing there throws the consolidated `history_id` away |
| `inventory_partial_stuck` | *violated*: a message changed on one page of the history and deleted on a later one makes every resumption fail |

`MC_GmailInventory` starts from two mailboxes, one with a message the index leaves out and one with a message that is
still to arrive; all others are reached from them.

Bounds. `NumMessages` 2: a page boundary between two messages, one listed and one not. `MaxHistory` 2: a change before
and one after any moment of a scan, two pages of history, a change and a deletion of one message. `ScanIds` two: a scan
and the one that replaces it. `RetryLimit` 1 or 2 stands for `GMAIL_RETRY_ATTEMPT_LIMIT` = 5. `MaxHistory` is a guard of
the mailbox's actions only, so no step of the program is cut by it. The theorems need none of the bounds.

Fairness. `WF(ScanStep)`: a request is answered or times out, a transaction commits or fails, so a call that runs goes
on. `SF(Resume)`: the caller resumes what is not finished; it is the premise of the two properties about whole scans,
not of `CallReturns`. Both have, besides, the premise `Undisturbed`: from some time on nothing fails or pauses.

Three findings, each one a run. All three come from the order of the code, and none from a test:
`checkpoint` is a fresh one until the stored one is read, which is after the labels request (`gmail_inventory.py` 658,
805), and `_paused_result` / `_failed_result` store it; and a 404 on a message's metadata ends the call (455) at the
page where it began. `CursorNeverGoesBack` exempts the labels request for the first reason.

### Session

The session object keeps in memory a pending authorization (`pending`), the states already used (`consumed`) and a
snapshot per account (`snapshots`); the store keeps one record per account key (`store`). `pc` and `op` are the place and
the locals of the running operation: each remote call and each write of the store is a step, named after the call, and a
`...Fails` action stands for each way it can go wrong (`ExchangeFails`, `RefreshFails`, `RevocationFails`,
`MarkRevokedFails`). `Crash` is possible between any two of them, and takes the memory away. `prepared`, `booted`,
`exchanges` and `used` are history variables.

A token is the grant it comes from, a state the number of its attempt, an account key an element of a set; the values
drawn at random never collide. PKCE, URIs, the format of records and DPAPI are left out. The service may answer a refresh
with a token of any live grant, repeat the refresh token or not, and grant another scope. When it answers that it
revoked a grant, it did; when it does not answer, it may have. One session object runs one operation at a time.

| Run | What it shows |
|---|---|
| `session` | all the safety properties, and the refinement of `SessionLifecycle` |

Bounds. Two grants of one address and one of another, and two keys: an answer for the right account with the wrong
grant, and one for the wrong account. `MaxTime` 1 and `Ttl` 1: an attempt before and after it expires. `ReplayMemory` 1
stands for 64, with `MaxAttempts` 2: a state that is remembered and one that was evicted. The keys are interchangeable,
and so are the two grants of one account.

One case is left as the code has it: the service revoked the grant and the record could not be marked. The call itself
tells both, and shows the session as failed (`RevocationIsTrue`). Nothing repairs the record afterwards;
`restore_session` goes on reporting the session until the user forgets it.

### Cleanup plans

`maps` is the history of the map, and the number of a map its revision: the code's revision is a hash of the rows, the
checkpoint with its time, and the log of policies, which do not come back to what they were. One number stands for
`map_revision` and `policy_revision`. A map says of each message in the index its flow, whether it is unread, its labels
and the reasons the policies have to protect it. `plans` holds each plan with its members, events and removals, as
`PersistedCleanupPlan` does; `rows` the columns of `cleanup_plans` that say the same again and are compared when a plan
is read; `receipts` and `catalogRevision` the other two tables.

A client composes commands from the revisions it has read (`Compose`) and they stay in `sent`: each may arrive any
number of times, in any order, at any moment of a clock that need not go forward (`now` is chosen anew each time).
`create_cleanup_plan`, `revalidate_cleanup_plan` and `cancel_cleanup_plan` are one transaction each (`BEGIN IMMEDIATE`).
`Outcome` is the chain of checks before the write, in the order of the code; a refusal, a replay and a rolled-back
transaction change nothing (`Answer`). What the dataclasses of `cleanup_plan_model.py` verify whenever a plan is built is
`PersistedCleanupPlanIsValid`, and it guards every write, as it does there. Deleting the account takes everything with
it (`ON DELETE CASCADE`). `executed` is a history variable.

Left out: sizes, samples, names, the limits on the number of messages and on bytes, the sources that merging and
splitting policies make. A source's fingerprint is the set of its addresses. A day, and with it the validity of a plan,
is two units of time.

| Run | What it shows |
|---|---|
| `plans` | plans of every kind of target, period, filter and quota, under every change of the map |
| `plans_commands` | three commands under three identifiers, repeated and reordered, over deletions of the account |
| `plans_keep_latest` | *violated*: what the client calls kept, as one of the latest of its flow, is not one of the latest |

Bounds. Eight maps: one for each way in which a message leaves the scope of a plan, is protected, fails a filter or
exceeds a quota. `plans` has two commands, enough for a plan to be made of one map and compared with the next, and checks
what plans hold and that they stay usable; `plans_commands`, about commands and receipts, has three, so that two compete for one plan or one comes after a deletion and a new index, and three of
the maps. `MCSpec` starts from one map. `MaxMaps` and `MaxCommands` only stop the environment. No fairness is assumed:
the commands promise nothing about what eventually happens.

The finding: `keep_latest_per_flow` = N lets the N latest candidates of a flow *into* the plan and excludes the older ones
(`_quota_allowed`, `cleanup_plan_domain.py` 657; 826). `presenters.ts` 73 tells the user that what is excluded for this
reason was kept as one of the latest, and `docs/ESPECIFICACION_FUNCIONAL.md` 268 asks for a filter that keeps the last N;
the prototype (`service.py` 246) excludes the latest.

### Policies

A `map` is what the index and its classification are at one moment: which messages there are, which sender, flow and
conversation each has, which senders the classification put into one source, and which messages it guards by itself. The
identifiers of sources and flows are hashes of descriptors in the code and the descriptors themselves here, so that a
source of another classification is the same one exactly when it has the same senders. `ApplyLocalPolicies` is what
`_apply_local_policies` does with the decisions in force: bind the structural ones (merge, partition) to the automatic
sources, mark those in conflict, rebuild sources and flows, bind the others to what results, mark conflicts again, and
derive what is protected and what the user has to review. A binding is `exact`, `rebound`, `needs_review`, `ambiguous`,
`orphaned` or `conflict`; only the first two apply. `PreparePolicyOutcome` and `PreparedAnchors` are
`prepare_policy_decision`; `PreparedIsCompatible` is what the repository checks again when it writes.

`log` is `local_policy_events` with the anchors and relations of each event, `inForce` what `_active_policies_from_events`
makes of it, event by event (`AfterEvent`), `receipts` the table `map_policy_requests`. `inputRevision`, a digest in the
code, is its content; what a new checkpoint alone changes is left out of it, because a command it refuses might as well
never have arrived. There are two paths. Over `"map"`, the API looks the targets up on the map the client saw and
`record_map_policy` / `undo_map_policy` compare receipt, account, digest and revision before they write event and receipt;
over `"local"`, `record_policy` / `undo_policy` compare the revision of the log and write no receipt. Either way a command
already carried out is looked for first, and answered as such whatever moved since (`RetryIsReplayed`). A composed command
stays in `sent` and may be delivered any number of times, at any later moment; `Scan` puts any other classification in
place, and `DeleteAccount` takes log and receipts away. One transaction is one step.

`MapProjection` composes what the user is shown and states the checks that `map_model.py` makes when it is built. One that
fails is `COMPOSITION_MISMATCH`: no map, and so no way to undo. `MapIsShown` says that never happens.

Left out: labels (they bind by their messages, as senders do), isolated messages as anchors of a partition, names,
confidence and evidence, the order of lists, and the gate that lets only synthetic accounts be written
(`map_synthetic_gate.py`), which is no part of the protocol.

| Run | What it shows |
|---|---|
| `policies` | three commands through the map, decided on top of each other, over two classifications: what is recorded is what was seen and applies, the map stays whole and is shown, protection follows its messages |
| `policies_commands` | four commands over both paths, two under way at a time, delivered in any order, over deletions of the account: the log, its replay and its receipts, and the refinement of `PolicyPromise` |
| `policies_group_names` | *violated*: a decision that was prepared without conflict is refused with one |

Bounds. Two classifications of four messages of three senders: apart, with two flows of the first sender; and together,
where the second and third sender are one source and one message is gone. Between them a decision about a source binds
exactly, to what it shares a sender with, to several candidates, or to none; a partition loses and gains uncovered mail;
a conversation is partly protected. `policies` has every kind of structure, protection and one kind of correction, of flows;
`policies_commands` corrects sources. Two kinds of correction never interact (`CorrectionsClash`), so one is enough.
`MaxCommands` 3 allows a structure, a decision about what it made, and an undo of the structure; 4, in
`policies_commands`, that structure made again. `MaxPending` bounds the commands that were not carried out: one, or two
that compete. After the account is deleted nothing remembers a policy command: a late duplicate may be recorded again:
over the map only as its client saw it (`RecordedAsSeen`), over the local path whenever the revision of the log is the same. Identifiers are interchangeable. No fairness is assumed: the memory promises nothing about what eventually
happens.

The finding: `LOCAL_POLICY_MEMORY_V1.md` 166 says that conflicts are refused when a decision is prepared and never reach
the repository. The domain compares effective sources, the repository the automatic sources behind them, and the groups of a
partition share one: naming one group and then the other is prepared and refused. Two more differences from that
document have no run of their own, since the model simply follows the code: a flow that a later merge absorbs is bound
`REBOUND` at once (280), and names given before the user's own merge are in conflict after it (360).

## 3. Proofs

### Inventory

`TypeCorrect` proves `TypeOK`. `CoverageCorrect` proves `CoverageInv`, and from it `CompletedCorrect`, `PartialCorrect`
and `FullCorrect` prove the three safety properties about index and checkpoint for every number of messages, every
length of the history, every set of scan identifiers and every retry limit. Assumptions: those of the modules on their
constants, and nothing else.

The three properties are not inductive. A page that is being read is not in the index yet, and what it says may be
stale by the time it is stored; the invariant therefore says of a running call what its page and the index together
know (`PartialPageSound`, `FullPageSound` in `GmailInventoryInvariant`): each message of the page is still to be read, was read
and recorded as it was, or has changed since, with a history record beyond the cursor to show for it. It also ties
`call` to the stored checkpoint while the call runs, and bounds the stored `hist` by the length of the history. The proof of a
step then goes action by action: the actions of the mailbox only add history; the reads move a message from "to be
read" to "read"; `PersistPage` turns what the page knew into what the index holds.

`HistoryIdCorrect`, `CursorCorrect` and `ResultCorrect` prove the three action properties. They need little more
(`AheadInv`): that the profile a full scan took its history_id from is no older than the stored one (`ProfileAhead`, true
because nobody writes between the profile and the start of the scan), and that the cursor and the history_id after a page
are past those it was listed with (`PageAhead`). `CallSound` supplies the rest: what a call stores or reports once it has
a page is the checkpoint of the index in another state.

### Session

Every property of the run is proved, for all grants, addresses, keys, times and sizes of the replay memory, from
`OAuthAssumption`, `SessionAssumption` and `RecordAssumption` (`None` is not one of the values it stands beside).
`SessionCorrect` proves `SessionInv`. It is the conjunction of the properties with what a running operation may rely on
between its steps: the credentials just received have the permitted scope (`CreateSound`); the record that is refreshed
or revoked is still there and still unrevoked, because no other operation runs (`RefreshSound`, `RevokeSound`); and the
states remembered are exactly the last ones that were finished, in order (`ConsumedInOrder`), which is what makes the
deque an exact memory. `ExchangedOnce` needs that the pending attempt is the newest (`PendingIsNewest`) and that what was
exchanged is finished (`ExchangesSound`). The action properties and the refinement follow from the invariant, step by
step: a step of the session is a step of `SessionLifecycle` or leaves it as it is.

### Cleanup plans

Every property of the two runs is proved, for all messages, maps, requests, identifiers, times and bounds. Assumptions:
`RulesAssumption` and `LedgerAssumption`; `ReasonsAssumption`, that no protection has the name of a reason the plan finds by
itself (both are members of one enumeration, `cleanup_plan_model.py` 158); and `RequestsAssumption`, that a request names a
target, as its class demands (577).

`LedgerCorrect` proves `LedgerInv`. Beside the properties
it says that rows repeat plans (`RowsAgree`), that each event has exactly one receipt (`EventsHaveReceipts`), and, for a
command that was carried out, that it has its receipt or is `Lost`: made for a map that is past, or about a plan that is
gone and whose number will not be used again. That a receipt has the plan and the event its foreign keys name (`TypeOK`) is
part of its being believed (`BelievedHasKeys`). Without the last part `ExecutedOnce` is not inductive: a deletion takes the
receipt, which is what a repeated command is recognised by. The proof reduces the three commands to one transaction
(`Accepted`, `Persist`): the lemmas `CreationPrepared`, `RevalidationPrepared` and `CancellationPrepared` say what each
writes, `AcceptedIsNew` what its acceptance implies, and `TransactionKeeps` proves the step once. `PromiseCorrect` maps each
transaction to a step of `CleanupPlanPromise`; that there are identifiers enough follows from `ExecutedOnce` by counting.
`FreshCorrect` proves `EligibleIsFresh` over a second invariant, `FreshPlans`, which names the event that last looked at a
map.

`AvailabilityCorrect` proves `UnavailableOnlyByTheClock`. The property is about an answer that no step writes: a command is
refused because the plan it is about cannot be read, or because the plan that it would write could not be. Its invariant is
`ValidPlans` (`PlansCorrect`): every plan of the ledger is one its loader accepts, with the order and the number of its
events, its initial members, its eligible ones, and the removals of each event counted against the members
(`PersistedCleanupPlanIsValid`). It is inductive because each command prepares a plan of this kind from one
(`CreationIsValid`, `RevalidationIsValid`, `CancellationIsValid`): of the rules the loader repeats, only the one on the
time of the last event can fail, and that is the clock that went back (`AnswersAreExplained`).

### Policies

Every property of the two runs is proved. `MemoryCorrect` proves `MemoryInv`, and with it the properties of
`policies_commands` about the log and the receipts, the
action properties `LogReplays` and `RetryIsReplayed`, and the refinement of `PolicyPromise`, for all maps, identifiers, paths and kinds. The replay revives
what an undone decision had replaced unless another decision in force replaces it; that this gives `InForceAfter` needs that of the
decisions that replace a given one at most one stands (`OneSuccessor`), which holds because only decisions in force can be
replaced, and that what undos and replacements name was recorded. `UndoRestores` is part of the invariant because it
compares two prefixes of the log. `RetryCorrect` says what an answer of "replayed" rests on (`CarriedOut`: the event, the same
command, and over the map its receipt) and that no step but the deletion of the account takes it away. These proofs treat what a decision is about as opaque.

The properties about what decisions mean are proved in two layers. `PolicyRulesProofs` is about one map (`IsMap`) and one set
of policies that are well formed (`PoliciesOK`: each has the anchors its kind demands, and no two are the same decision), with
no state and no step. It goes along `ApplyLocalPolicies`: how a structural decision binds (`StructureBinds`), that
those that apply do not compete (`AppliedFit`), that what they make of the sources parts the messages (`SourcesParted`,
`FlowsParted`), how the others bind to the result (`TargetBinds`). Its four theorems are the properties for any map and
policies: `EveryViewIsComplete`, `ContextIsInForce`, `CoveredIsProtected`, `PreparedTakesEffect`. The last one compares two
views, the one a decision was prepared on and the one with it; its proof shows that what `prepare_policy_decision` refuses is
enough for the bindings of the others not to reach the new one.

`PolicyMemoryProofs` then shows that the policies in force are always well formed. `PreparedInv` says of every command that was
sent, delivered or not, that it was composed as `prepare_policy_decision` prepares it, on the map and the log its client saw,
and so has its shape (`ShapeOK`, `AsSeen`). This is not visible in the map and the log as they are now, since scans replace
the classification and undos the policies; it is what `RecordedAsSeen` and `RecordedApplies` need of a command that
arrives when `inputRevision` is again, or still, the one it was composed on. `PreparedCorrect` proves it, and `ViewCorrect`,
`ContextCorrect`, `ProtectionCorrect`, `RecordingCorrect` and `EffectCorrect` follow with the theorems about the rules.
Assumptions: `MemoryAssumption`, which has every classification be a map: finitely many messages, sources that
are disjoint and not empty, each message in a flow of the source of its sender.

`ShownCorrect` proves `MapIsShown`, the checks that the composed map makes on itself. What it adds is counting. The counters are
sums, folds over sets, and a theorem about a fold wants an induction over its set. Here the fold is a function that satisfies
one equation; the number of messages in the parts, a function of the set of parts, satisfies it (`PartsSumUp`), and
no two functions do (`SumIsUnique`, by a smallest set on which they differ), so they are the same. That sources and
flows part the messages, and that identifiers are unique, are `SourcesParted` and `FlowsParted` again; that the review has one
entry per decision is `BindingsAreOne`; that history can be told follows from the shape in `PreparedInv`.

### What is only model-checked

The liveness properties of the inventory, since fairness and `ENABLED` are beyond the prover, and the five violations, which
are counterexamples and need no proof. Every invariant, action property and refinement that a run checks and finds to hold is
a theorem.

## 4. Findings

The runs marked *violated* above: three in the inventory, one in the plans, one in the policies. `PROJECT.json` quotes the
texts they contradict.

## 5. What is not modelled, and why

- Listings and cursors (`cleanup_plan_api.py` 909-1020, `map_api.py`): a listing changes no state. A cursor is tied to the
  catalogue revision or the map revision of its first page and refused under another one; whether pages repeat or skip
  a plan that expires in between is the next question to ask, of a `PlanListing` over `CleanupPlanLedger`.
- The client's memory of a command it could not confirm (`frontend/src/study/commandMemory.ts`). The ledger and the policy
  memory take its commands, sent any number of times, late or never, which is more than the client does.
- Schema migrations: each script and its row in `schema_migrations` are one transaction (`BEGIN IMMEDIATE`, and no
  script commits), run at start-up by one process; what they change is the schema only.
- Classification: deterministic functions of the index, without state; its result is a value of `map`. The
  precedence of its signals would be an operator compared with a reference definition.
- Base Segura (`service.py`, `api.py`): the prototype, over fixture data.
- The endpoint allow-list (a predicate without state), presentation, decoders and page layout, the synthetic fixtures and
  their gate (constants), DPAPI and file formats, and the contracts of `docs/contracts` that have no implementation yet.

Next, in this order: `PlanListing`; the precedence of the classification's signals.
