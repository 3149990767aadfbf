# Swarm in TLA+

This directory is the verification project of the overnight agent swarm: TLA+
modules translated from the code, TLC runs that model-check them on small
instances, and TLAPS proofs of the properties that matter most. Line numbers
refer to the files of the repository as they are under `src/`.

Run a check with `tlc -config <run>.cfg <MC module>.tla`, and the proofs with
`tlapm <name>Proofs.tla`. `PROJECT.json` lists the runs, the source lines each
definition translates, the mutants that show each property can fail, the
hazards, and the theorems.

## 1. The system

Postgres is the source of truth. Whatever creates work (the issue sync, the
chat ingress, the injection script, the coordinator, a replay) writes a row of
`tasks` and a row of `outbox` in one transaction. A relay moves outbox rows into
the JetStream stream `SWARM_TASKS` with the row's `msg_id` as the deduplication
key. Workers pull messages, claim the task by compare-and-set, run an engine in
a sandbox under a Valkey lock and a Valkey budget, push a branch, and write the
verdict and its event row in one transaction. Messages that run out of
deliveries raise an advisory that lands in `SWARM_DLQ`, which a triage script
drains; an operator may replay a task.

    issue sync   chat   inject   coordinator   dlq_triage --replay
         \        |       |         |            /
          +-------+--- Postgres: tasks, outbox --+---------------+
                            |                                    |
                     relay.ts | relay_cdc.ts             events, verdicts
                            |                                    |
                  JetStream SWARM_TASKS ----------> agent_worker (n per role)
                            |                          |       |
                  MAX_DELIVERIES advisory        Valkey lock  sandbox.py
                            |                    and budget      |
                       SWARM_DLQ ---> dlq_triage             Forgejo

### Components

| Component | State | Operations | Talks to | Hard behaviour | What makes it correct |
|---|---|---|---|---|---|
| Agent worker (`agent_worker.py`, `budget.py`) | `tasks.status`, `claimed_by`, `attempt`; Valkey `lock:task:*`, `attempts:*` | fetch, claim, check, lock, run, measure, emit, release; ack, nak, term; reset to pending | Postgres, JetStream, Valkey, sandbox | duplicates, redelivery during work, death between any two calls, five except clauses | one owner per task, one event per verdict, final verdicts, caps over all instances, no task dropped |
| JetStream (`bootstrap_jetstream.sh`) | messages and their delivery counts, pending acks, advisories | store, deliver, ack, nak, term, ack-wait expiry, advise, age out | workers, relays, triage | at-least-once, bounded deliveries, bounded pending acks | settles every message |
| Sandbox (`sandbox.py`) | workspace, cycle, results; the task's branch on the forge; `budget:*` | clone, engine, check, verify, repair, push | forge, engine, Valkey | hanging and failing tools, unanswered push, overlapping attempts | red is never pushed, metrics consistent, budget bounded, pushes not lost |
| Poll relay (`relay.ts`) | row locks, uncommitted marks | select a batch, publish, mark, commit or roll back | Postgres, JetStream | several relays, a publish that outlives its transaction, a refused row | stored once, marked only if stored |
| CDC relay (`relay_cdc.ts`) | replication slot, stream position, callbacks under way | ensure the slot, sweep, subscribe, callbacks, acknowledge | Postgres, JetStream | callbacks nobody waits for, crash after acknowledgement, repeated tails | no row skipped, stored once |
| DLQ triage (`dlq_triage.py`) | a fetched batch of advisories | fetch, mark failed, open an issue, ack; replay | JetStream, Postgres, Forgejo | races with live workers, death between steps, replays of anything | does not take a task from its owner, closes each advisory with a report |
| Stage-1 qualification (`qualify_stage1.py`) | none | three counts | Postgres | - | its counts are invariants of the rest |
| Coordinator (`orchestrator_langgraph.py`) and planner (`planner.py`) | the graph state; ids and the set of replanned subtasks; `tasks.parent_task_id` | claim, plan, emit subtasks, poll, replan, work, report, pause for a human | Postgres, JetStream | occupies a consumer while it polls, replans, dies or raises half-way through a plan | a parent done only by its subtasks, one live subtask per line, plans end |
| Issue sync, chat ingress, injection (`ingest/`, `inject_task.py`) | `tasks.ext_id`; a cursor per chat | fetch, deduplicate, create | Forgejo, chats, Postgres | concurrent syncs, cursor ahead of the work, one loop's error ending all | each item becomes one task |
| Capacity and router (`capacity.py`, `router.py`, the worker's start-up and fetch loop) | a node's probe and subscriptions; the durables; `node_caps` | probe, register, subscribe, take turns over the subscriptions, propose a tier, route | JetStream, Postgres | a probe that is out of date after a restart elsewhere, subscriptions before the bootstrap, a first queue that never empties | tier tasks run only where they fit, what is out of deliveries is announced, an attended tier flows |
| Lessons (`lessons.py`) | `lessons`, an outbox row per lesson, an optional index | write, mirror, search | Postgres, index | mirror after the commit, a change of the vector's width | table, event and index agree |
| Knowledge seeding (`seed_knowledge.py`), accepted corrections (`morning_headroom_learn.py`) | rows of `lessons` | seed, index, mirror, re-embed | Postgres, Forgejo | look-then-insert without a transaction, a list of rows read once | a text once, each row with a vector of the column's model |
| Morning audit (`morning_audit.py`) and verifier (`verifier.py`) | lessons, issues | list, review, record, report | Forgejo, the models, Postgres | one error ends the run, one page of the listing, models that do not answer | no bad merge slips through |
| Speculative patching, compression | none | pure decisions | engines, SeaweedFS | boundary cases of the budget | the decision tables |
| SLA report, shadow evaluation, correction pull requests, context packs, crew roles, tracing, health, secrets, registry, CI gates, deployment | reports and configuration | - | - | no protocol of their own | - |

### What is hard to test here

`PROJECT.json` lists the hazards, each with its line. They come from five
places: messages that are delivered more than once and at any time; a process
that dies between two calls to different stores; a lock and a message whose
timers end while their holder works; a publish that is not part of the
transaction that records it; and operators and triage writing rows that
workers own.

## 2. Modules

| Module | Translates | Kind |
|---|---|---|
| `JetStream` | the stream and consumer configuration; operators on a stream of messages | operators |
| `AgentWorker` | `agent_worker.py`, `budget.py`; uses `JetStream` | state machine |
| `TaskBoard` | what the claim protocol promises | abstract specification |
| `DlqTriage` | `dlq_triage.py`; EXTENDS `AgentWorker`, so triage, replays and workers interleave | composition |
| `Coordinator` | `orchestrator_langgraph.py`, `planner.py`; uses `JetStream`, and puts plain workers as `TaskBoard` promises them beside the orchestrators | composition |
| `OutboxRelay` | `relay.ts` | state machine |
| `CdcRelay` | `relay_cdc.ts` | state machine |
| `Outbox` | what either relay promises | abstract specification |
| `Intake` | `forgejo_issue_sync.py`, `chat_ingress.py` over the UNIQUE column `ext_id` | state machine |
| `Sandbox` | `sandbox.py` | state machine |
| `Tiers` | `capacity.py`, `router.py`, `agent_worker.py` 154-229, the subjects of `forgejo_issue_sync.py`, the durables of `bootstrap_jetstream.sh`; uses `JetStream` | composition |
| `Verifier` | `verifier.py` | operators |
| `Lessons` | `lessons.py` and the table | state and operators |
| `LessonWriters` | `seed_knowledge.py`, `morning_headroom_learn.py`, `morning_audit.py`; EXTENDS `Lessons` and `Verifier` | composition |
| `EngineRun` | what a worker may assume of an engine run | abstract specification |
| `MC*` | the instances for TLC: model values, the message-task table, symmetry | |
| `*Proofs` | theorems about the module whose name they carry (`AgentWorkerProofs`: of `AgentWorker` and of `DlqTriage`, which extends it) | proofs |

### How the state and the actions correspond to the code

**AgentWorker.** `pc[w]` is the point in `main` or `handle_task` at which worker
`w` awaits, one value for each await that another process can overtake:
`idle` (fetch, 183-191), `fetched` (pg_claim, 195), `dropping` (ack of a lost
claim, 198), `claimed` (breaker, 210), `cleared` (lock, 119), `working` (engine,
121), `measuring` (122-129), `emitting` (130), the four `release*` values (the
lock's finally, one per way the body ended), `acking` (212), `resetting` and
`naking` (224-229), `failing` and `terming` (242-253). The program's variables
are the columns `status`, `claimed_by`, `attempt`, the event rows of each task
(`events`), what the metrics update and the push leave (`graded`, `pushed`), the
stream, the advisories in `SWARM_DLQ` (`dlq`), and the two Valkey keys (`lock`,
`recorded`). `Crash` is the death of a process, `Fault` an exception that no
clause catches, which ends the process as well. `overtime` holds the tasks whose
wall clock has passed. The message a worker has is `msg[w]`; `TaskOf` says which
task it carries, and several messages may carry one task (a republication after
the dupe window, or a replay). Ack, nak and term are publishes that nobody waits
for: `AnswerLost` is one that does not arrive. The ack-wait of a message may end
at any time (`AckWaitEnds`), as its first rung is one second and no worker
extends it.

**Sandbox.** Each attempt is one call of `run_sandboxed_aider`; the values of
`pc` are its awaits, and `cycle`, `green`, `firstPassGreen`, `repairCycles` its
locals. The budget counter and the branch on the forge are shared. A commit is
`base` (what was cloned) or `work` (what this attempt's engine made): the forge
takes a push if it is a fast-forward. Tools may fail, hang, or be missing at
each call, with the outcome the except clauses give them.

**OutboxRelay** and **CdcRelay** share `row`, `copies` and `window`: the status
of an outbox row, the messages it has in the stream, and the ids the server
still remembers. In `OutboxRelay` the row locks are `holder` and a transaction's
uncommitted updates `marked`; a rollback forgets them and keeps `copies`. In
`CdcRelay` the log of commits is `wal`, `slot` what has been acknowledged, and
`handlers` the callbacks under way. Two callbacks for one row in the same stage
are one element: their effects are the same.

**DlqTriage.** `tpc` is where the triage process awaits, `batch` the advisories
of its fetch, `taken` those whose own ack-wait runs, `closed` those acked,
`reported` those with an issue. `Replay` is one transaction at any time by any
operator, of any message that the stream still holds, whatever its task's row
says. The advisories' ids are those of the messages they are about. A message
leaves `SWARM_TASKS` by its age in whatever state it is (`AgeOut`), where `Ages`
says that the instance lasts a day. `lapsed` (whose lock's TTL has ended since it
took it) and `runs` (engine runs started) are history variables: no action reads
them.

**Coordinator.** `pc[g]` is the node of the graph in which process `g` is:
`planning`, `emitting`, `polling`, `scanning` are the plan node (95-127: the
question, `emit_subtasks`, the sleep and the query, the loop over the answer),
`working` and `reporting` the others, `interrupted` the pause before `work` that
`HIL=1` asks for, `ended` main's question to a human after a graph that is not
done (195-197), `acking` and `naking` the two ends of main's loop. `plan[g]` has
the locals of the plan node: the length of the plan, the subtask of each line,
the statuses last read (`seen`) and `replanned`; they die with the process, or
with the exception that ends the graph. LangGraph is external: an invocation
with an input starts at the first node whatever the checkpointer holds, and
`ainvoke(None)` (199) resumes at the interrupt. The columns are `status`,
`claimed_by`, `parent`, with `marked` for the mark in the title; `line` records
which line of the plan a row was written for, which the code never stores. A
task has one message, with the task's name; `Publish` is the relay. `NewId` is
uuid4: an id that was never drawn, which one makes no difference. The locks are
left out: `LockFree` (section 4) shows them uncontended where each claim has one
owner, and no replay is part of this module. Plain workers (`hand`, `down`) take,
decide, give back and drop as `TaskBoard` allows; the `Mortal` ones may die with a
task in hand, the message in a hand may end its ack-wait there, and an answer may
be lost, of theirs and of the orchestrators (`AnswerLost`). The `Mortal`
orchestrators may be killed in any node, or meet an exception there.

**Intake.** The workers are the runs of the issue sync (`Syncs`, each a process)
and the chat loops (`Loops`, all in one process, so that what ends one ends all:
`Fellows`). `todo[w]` is the rest of the answer a worker iterates over, `now[w]`
the item of its open transaction. `Select` is the SELECT that finds no row, after
which the body may be uploaded; `Insert` waits while another transaction has
inserted the same `ext_id` (`Pending`) and meets a UniqueViolationError
(`Conflict`) when that one has committed. `tasks` and `rows` count the committed
rows of both tables, item by item. `cursor` is Telegram's `offset` less one, and
Slack's `oldest` and Discord's `last_id`; `dropped` is what the service has
forgotten because the next request's offset confirmed it. The three loops differ
in their parameters only: `Confirms` (Telegram) and `Newest` (sources whose page
is the newest one: Slack's history, and the forge's listing, which asks for one
page and never for the next). Which page a service answers with is external.

**Tiers.** One role. A node is `down`, `up` (subscribing while `todo[n]` is not
empty, then in the loop of 183-191) or `working`. `Boot` is main up to the
subscriptions, with `probe[n]` what `register_node` measured; the row of
`node_caps` is written and read by nobody, so it has no variable. `subs[n]` is the
list of subscriptions in their order and `at[n]` the one asked next: each message
sends the loop back to the first (the `break`, then the next turn of `while`).
`consumer[s]` is the durable of a subject: added by the bootstrap (`ladder`), or
created by a subscription that found none (`implicit`, the client library's
behaviour), in whatever order the two come. A task's work is one step here, with
the outcomes `AgentWorker` gives it: `Settle` (ack or term), `Retry` (nak) and
`Die`, before or after the claim. `row` keeps whether the task is pending, decided
or claimed by one that died, since that decides what a redelivery does. A task in
`Endless` stands for a queue to which new tasks keep coming: once its message is
gone the next one is published under its name.

**Lessons** and **LessonWriters.** `lessons` is the table, its ids the order of
the inserts; a row keeps its text, its tag and the model of its vector. `Fits` is
pgvector's check of the width, `Upsert` the mirror into Qdrant or Chroma, whose
collection keeps the width it was created with. Three kinds of runs look for
their texts and insert what they do not find: `picked[w]` is the text between the
`SELECT` and the `INSERT` of writer `w`. `stale` is the list that `reembed` has
read and not yet updated, `Migrate` the script `db/migrations/001`. The audit's
`apc` is `auditing` (the loop over `list`), `recording`, `mirroring` or
`reporting` (the PR it has flagged); `Record` is the transaction of
`write_lesson`, or the direct `INSERT` for a PR without a task. `Die` is any call
that raises, or a crash: the script has no handler, and `morning_routine.sh` goes
on with `|| true`. `merged[p]` follows a merge from the day it is `recent` through a
run that has `asked` for it to the `past`. The window is the 24 hours before the
call, and the call's time moves with the two steps of the routine before it, so a
merge may also leave the window with no run having asked for it (`slipped`, in
`Age`). The page is of all closed pull requests, so any part of the wanted merges
may be missing from it (`Pages`). A reply of
a model in `Verifier` is one of five kinds, which `ParseVerdict` tells apart.

## 3. Runs

All runs finish within three and a half minutes on two cores.

| Run | Instance | Question |
|---|---|---|
| `workers` | 3 workers (2 mortal), 1 task, 2 messages, 2 deliveries, cap 2, ack-wait may end at any time, answers may be lost, fairness | Do ownership, events and counters stay consistent under every interleaving of duplicates, redeliveries, transient and poison failures, crashes and lapsed locks? Does the protocol implement `TaskBoard`? Is each message settled, and does each task end with a verdict, in the dead-letter queue, or stranded in one of the two known ways (`Stranded`)? |
| `replays` | 2 mortal workers, 1 task, 2 messages of which one is a replay's, 2 deliveries, cap 3, locks may lapse | What survives operators and triage that race with live workers? (`EngineExclusive`: engines overlap only where a lock's TTL has ended; `RunsCapped`: replays do not raise the cap on engine runs) |
| `triage` | 1 worker, 1 task, 2 messages of which one is a replay's, 1 delivery, messages age, the lease succeeds, fairness | Is an advisory ever closed without its issue? Is each closed in the end, unless the message of one is gone? |
| `relay` | 2 relays, 4 rows, batches of 2, 1 refused row, 1 lapsing window, 2 faults, fairness | Is each row in one batch at most, and does it flow? Is `Outbox` (stored once, marked only then) implemented? |
| `cdc` | 3 rows, 1 refused, 1 lapsing window, 2 faults, fairness | The same for the CDC relay, and is no row skipped between sweep and tail? |
| `sandbox` | 3 attempts, 2 repair cycles, limit 3 tokens, 1-2 tokens per run | Can anything red, or outside `feature/`, be pushed; does the budget hold; is `EngineRun` implemented? |
| `coordinator` | 2 orchestrators (1 mortal, 1 with a human), 1 mortal plain worker, 1 marked task, 2 ids for its subtasks, plans of 1 or 2 lines, 2 deliveries, 1 pending ack, fairness | Is a parent done only by its subtasks, is no line worked on twice at once, is every claim explained, is `TaskBoard` implemented by both kinds of consumer together? Does a plan end while the plain worker lives? |
| `intake` | 2 overlapping syncs and 2 loops (one that confirms, one with a page of 1), 2 items per source, 1 ignored, 1 fault, fairness | Does an item become exactly one task with its outbox row, is an item ever passed over, and does each item become a task in the end? |
| `tiers` | 2 nodes (one with `auto`, one that lists the largest tier), 1 death, 3 GPU tiers of which the bootstrap knows 2, free memory below or at what the largest needs, a plain task that never stops coming and one that is labelled, routed or neither, 2 deliveries, cap 2, fairness | Does a tier's task run only where the probe had room for it; is a task that is out of deliveries announced, whoever created the consumer first; does a tier that is attended flow? |
| `lessons` | 2 writers that may find 1 text, 2 PRs (1 with a task), 2 lenses, a page of 1, 2 audits, 2 rows, a migration, an index | Do table, outbox and index agree; does the re-embedding leave a row out; is a text stored twice; does a bad merge slip through the audit? |

Two runs are expected to fail. Each checks one sentence that the repository says
of the program:

| Run | Instance | The sentence |
|---|---|---|
| `crash_resumes` | 2 workers, 1 mortal | "redelivered after ack-wait to another instance" (`agent_worker.py:17`) |
| `lost_retry` | 2 workers, 1 task, 1 message | "nak(delay=30) -> JetStream retry" (`agent_worker.py:14`) |

### What the violations show, and what else was seen

- `crash_resumes`: the dead worker's row stays `claimed`, so the redelivered
  message loses the compare-and-set and is acked (`agent_worker.py:195-199`).
  Nothing resets the row.
- `lost_retry`: with `backoff` the ack-wait of the n-th delivery is the n-th rung
  of the ladder, one second for the first (`bootstrap_jetstream.sh:37`, where
  `RUNBOOK.md:50` says ten minutes), and the worker never extends it. The message
  that is redelivered while its owner works meets a claimed row and is acked; if
  the owner then fails transiently, its nak finds no message, and the task stays
  pending for ever. `TasksEnd` says that this and the dead owner are the only ways
  a task is left without an outcome.

More behaviours were seen while the modules were written. No run keeps them: each
is an exception that a passing property names, or its premise, or lies outside the
instances.

- a replay takes a task from a live worker: `replay()` does not look at the row it
  resets (`dlq_triage.py:129`), so two workers may decide one task, where the README
  says "exactly one owner" (`README.md:108`), and it can be `done` with no owner,
  which the count of `qualify_stage1.py:56` takes for an error. What still holds is
  `EngineExclusive` and `RunsCapped`;
- triage writes `failed` over `done` (`dlq_triage.py:109`), with the PR_OPENED event
  in the outbox, where the ack-wait of a last delivery ends under a worker that then
  succeeds, or that dies between its commit and its ack ("Event published but state
  lost: impossible", `README.md:111`);
- an exhausted message leaves `SWARM_TASKS` by its age, or by the late ack of its
  last worker. `get_msg` then raises (`dlq_triage.py:100`), triage dies, and dies on
  that advisory at every start: `Poisoned` in `AdvisoriesFlow`;
- a failed subtask is replaced by a new id, and it is the old id that goes into
  `replanned` (`orchestrator_langgraph.py:115-120`), so the test of line 124 never
  meets an id of the plan: the branch that fails the parent is dead code, and a line
  that keeps failing is replaced for ever, where the convention says "replans a
  verify-failed subtask once, then fails the parent to the DLQ"
  (`conventions/orchestration.md:17`). In `PlansEnd` such a plan ends when the
  model's ids run out (`OutOfIds`);
- `parse_verdict` looks for the letters PASS anywhere in the verdict line
  (`verifier.py:79`), so `VERDICT: BLOCK — the tests do not pass` counts as a PASS,
  where the docstring says "any BLOCK verdict blocks" (`verifier.py:9`). The merges
  concerned are `overruled` in `NoMergeSlips`;
- a merge between the starts of two audits that are more than a day apart is asked
  for by neither, where the docstring says "flagged the next morning"
  (`morning_audit.py:6`): it is `slipped`, and `NoMergeSlips` speaks of the others;
- a label `tier:<name>` routes to a subject of that name whatever it is
  (`forgejo_issue_sync.py:76`). Where no bootstrap and no running node knows the
  tier, as for `tier:api` or `tier:default`, the message has no consumer and ages
  out after a day, and the row stays pending: the premise of `TierFlows`;
- the tier `9b-bf16` of `capacity.py` is not among the bootstrap's tiers
  (`bootstrap_jetstream.sh:18`). A node with room for it creates the durable by
  subscribing, without `max_deliver` and without the ladder, and a worker that
  starts before the bootstrap does the same to any tier: a task there never
  reaches `SWARM_DLQ`. This is the exception in `LadderAnnounces`; the breaker's
  cap on attempts still ends the task, which is why `TierFlows` holds there too;
- each message sends the fetch loop back to the first subscription
  (`agent_worker.py:189`), which is the default queue: a default queue that never
  empties starves the tiers, for which `Attends` asks for quiet queues before it;
- a node probes at its start only: memory that others take later is not noticed
  until it restarts (`ServedByCapable` speaks of what was measured). With
  `WORKER_TIERS=""` there is no subscription, and the loop spins without ever
  awaiting, the health server with it;
- the first call of the audit that raises ends the review of all merges behind it
  (`morning_audit.py:107`), and a page of 50 closed pull requests hides the rest
  (line 42); the next morning's window does not ask for them again. These are the
  two ways in `missed`. A merge that its run found no time for and the next one
  asks for again can be reported twice;
- `write_lesson` raises when the mirror fails, though the lesson is committed
  (`lessons.py:153`); the direct inserts of the seeding, of the audit and of the
  accepted corrections reach neither the outbox nor the index, so a search without
  a tag over Qdrant or Chroma never returns them (the first two disjuncts of
  `StoresAgree`);
- after the migration the index collection keeps the old width, so each mirror of
  a new vector is refused after the commit, and a search meets the same refusal;
  `--reembed` on a host without sentence-transformers removes every vector
  (`seed_knowledge.py:132`), which is what `whole` leaves out;
- a poisoned or snowballed task never reaches triage: `term()` raises
  MSG_TERMINATED, and `SWARM_DLQ` captures MAX_DELIVERIES advisories only
  (`bootstrap_jetstream.sh:86`), whatever the comment "-> MAX_DELIVERIES advisory
  -> SWARM_DLQ" (`agent_worker.py:253`) says. The FAILED event is its only trace;
- an item that a full page of newer ones pushes off before it is asked for is
  never seen: Slack's `limit` of 50 with a cursor that moves to the newest, and
  the forge's single, unpaged listing for as long as the newer issues stay open.
  This is the exception `PushedOff` in `NothingPassedOver` and the premise of
  `ItemsFlow`;
- a sync that loses a race dies with the rest of its list
  (`forgejo_issue_sync.py:105`, no handler); `ItemsFlow` needs the next run;
- when the upload to SeaweedFS fails, the issue sync keeps only an excerpt of the
  body, without a `spec_ref`, though `compress_util.py:6` says "nothing is lost,
  only deferred"; the chat ingress then keeps the full text
  (`chat_ingress.py:64`);
- a replay resets neither `created_at` nor the `attempts` key
  (`dlq_triage.py:129`), so a task replayed after `MAX_TASK_WALL_S`, four hours
  after it was created, or out of attempts, trips the breaker at its first check:
  the task that the operator has fixed is failed and terminated without a run, and
  without a new advisory. The wall clock is in `overtime`, the count in `RunsCapped`;
- a host that keeps the old model can neither search under a tag nor insert once the
  column is migrated: the vectors' widths differ (`lessons.py:173`), and both raise.
  `NoMergeSlips` promises a lesson to hosts of the column's model, or without one;
- a row whose batch is rolled back for longer than the dupe window is stored
  again: the exception `Lapsing` in `Outbox` and in the theorems `PublishedOnce`.
  `OneOwner` and
  `BoardSpec` show that the second message is harmless to the task;
- a row that JetStream refuses rolls back its batch at every tick, so the rows
  that share its batch are never marked (the premise of `CleanRowsFlow`), and
  puts the CDC relay, whose sweep it ends, in a crash loop (that of `RowsFlow`);
- the row of a CDC callback whose publish failed waits for the next start of the
  process: the sweep runs once per process, and neither the reconnect loop nor
  the callback repeats it, whatever the log line "will re-sweep"
  (`relay_cdc.ts:94`) says (the other premise of `RowsFlow`);
- an exception in the graph naks the message and leaves the row `claimed`, so
  the redelivery is dropped and the task is lost, where the comment says "graph
  errors follow worker semantics" (`orchestrator_langgraph.py:202`): the third
  disjunct of `ClaimsExplained`, and `Stuck` in `PlansEnd`;
- the fallback plan is one subtask with the parent's own title, mark included
  (`planner.py:93`), so another orchestrator that fetches it decomposes it again;
  only the ids of the model end this;
- if no plain worker that serves the role lives, and all orchestrators wait in a
  plan, nobody fetches their subtasks: `PlansEnd` needs a live one, and a subtask
  whose message was acked away or whose owner died is `Stuck`;
- speculative patching charges its candidates to a key of its own
  (`budget:speculative:<task>`, `speculative_patch.py:77`), so "the remaining
  budget" of its check before the fan-out (line 60) is not reduced by what the
  workers have spent on the task, and `BudgetBounded` is a bound per key.

### Bounds, and why they are enough

- Workers are interchangeable and meet only through the row, the lock and the
  message. Two dead ones and a live one give each pair of (dead, dead), (dead,
  live) and (live, live): in `replays` both may live. The proofs do not bound their number.
- Two messages of one task are enough for "the other message": what a third
  can do, one of two redelivered messages does. Tasks meet only through the
  pending-ack limit, which the messages of one plan meet as well (`MaxAckPending = 1`
  in `coordinator`); the proofs do not bound the tasks.
- `MaxDeliver = 2` has a first, a repeated and an exhausted delivery (the code
  has 5), and `MaxDeliver = 1` in `triage` exhausts a message soonest;
  `MaxAttempts` 1 to 3 make the breaker trip on a first, a second and a third
  retry; in `replays` three engine runs are what it takes for a stale release to
  delete the lock of a second run under which a third one starts.
- Four rows in batches of two give two full batches, or one that shares a refused
  row, and a third choice for the second relay. In `cdc` the three rows are a
  clean, a lapsing and a refused one. Two faults make a crash during the recovery
  from a crash. `MaxCopies` bounds how often a lapsed row is stored again.
- Three attempts with a limit of 3 and runs of 1 or 2 tokens cross the limit in
  the first, second or third attempt, exactly or by one.
- In `coordinator` two ids make a plan of two lines, or one of one line and its
  replacement; with the plan of one marked line the second orchestrator decomposes
  the first one's subtask. Where an id is missing the plan waits: `OutOfIds` in
  `PlansEnd`. `MaxLines = 2` has a first and a last line. `MaxAckPending = 1`
  makes the coordinator's own message hold its subtasks back until it expires.
- In `intake` two syncs and two issues give every race and a loss of the rest of
  the list; the loops need no more than one that confirms its offset and one whose
  page is too small for what arrives. `Posts` bounds what a source ever holds.
- In `tiers` one node that probes and one that does not meet on the largest tier;
  the levels of free memory are below and at its need, so a restart may take it
  away. A third task would add a queue behind the second one, which `Attends`
  covers; one death makes a node come back with another probe, and one task
  claimed by the dead. `Endless` makes the default queue refill for ever.
- In `lessons` two rows are a text and its double, two lessons of the audit, or one
  of each; a page of one with two merges leaves out none, one or both; two audits
  give a merge that one leaves out and the next does not ask for. The kinds of seeding runs
  differ in their texts and tags only: one of them has a text in the instance, and
  the runs of the other two find nothing to insert.
- Counters (`attempt`, `recorded`) are bounded by the deliveries, not by a
  guard. `faults` and `MaxCopies` are guards and named.
- `AttemptSymmetry` permutes values that only safety properties see; the one
  temporal property of `sandbox` is the step relation of `EngineRun`, which is
  symmetric too. In `lessons` the writers are interchangeable. Runs with liveness
  use no symmetry.
- `replays` uses a VIEW besides the symmetry of its workers, and checks invariants
  only. `EngineView` leaves out what neither the two invariants nor any guard reads
  (`claimed_by`, `attempt`, `events`, `graded`, `pushed`, `reported`, and `lapsed` of
  workers that run no engine): two states that agree on the view have the same
  steps, up to the variables left out, and meet the same invariants.

`CHECK_DEADLOCK FALSE` is set where the system stops for good: once all messages
are settled and all tasks decided nothing is left to do (workers wait in fetch,
the relays poll an empty outbox, no attempt remains, the bounds on runs and rows
are reached).

### Fairness

- `AgentWorker`: each live worker's steps are weakly fair (`while True` over
  awaits that have timeouts, one process per worker), the relay publishes
  (polled every 250 ms), and the server's ack-wait timer ends. Crashes, faults,
  lost answers, lapsed locks and wall clocks are never forced.
- `DlqTriage`: the triage is run again after it ends or dies (it is a cron job,
  or `--watch` under a supervisor); each of its calls is strongly fair, as an
  outage does not strike the same call for ever.
- `OutboxRelay`, `CdcRelay`: each relay's loop is weakly fair (the container's
  restart policy is `unless-stopped`, `compose.yaml:139`), and so is each
  callback in the event loop. Outages end: `MaxFaults`.
- `Coordinator`: the steps of a live orchestrator are weakly fair, and so are the
  relay, the end of the ack-wait, and each plain worker, which is not passed over
  for ever while a message can be fetched. No human need ever answer, and crashes
  and exceptions are never forced. `PlansEnd` names what may still hold a plan
  back: `Stuck` and `OutOfIds`.
- `Intake`: every worker's step is weakly fair (the schedule runs the sync again
  for ever, the ingress container restarts with `unless-stopped`,
  `compose.yaml:193`, and its loops poll for ever). Outages and deaths end:
  `MaxFaults`; lost races need no bound.
- `Tiers`: the loop of each node is weakly fair, its start included (the restart
  policy), and so are the ack-wait timers. The bootstrap, the producers and deaths
  are never forced: a task is routed to a consumer that never comes as well.
- `LessonWriters` has no liveness property: nobody repeats a run that died.
- `Sandbox` has no liveness property: an attempt may be killed at any point.

## 4. Proofs

All theorems hold for every value of the constants that meets the named
assumptions of the module (numbers are natural, sets are disjoint, message
bounds positive), which TLC also evaluates in every run.

**AgentWorkerProofs.** The invariant is

    Inv == TypeOK /\ StreamOK(stream) /\ Claims /\ Ledger /\ Counters

`OneOwner` alone is not inductive: that a claimed row's owner is the worker that
works on it needs `ClaimHeld` (who `claimed_by` names is deciding that task, or
dead), and the release of the lock needs `LockOwner` (a lock's holder owns the
row). `EventsMatchVerdicts` needs `EvidenceFirst` (what was pushed and graded
before the verdict), `AttemptsAgree` and `BreakerHolds` need `AttemptPhase`
(which counter is ahead at which step). `StreamOK` bounds deliveries. Theorems:
`TypeCorrect`, `Ownership`, `NoStrayClaim`, `OneEventPerVerdict`,
`AttemptsCounted`, `CapHolds`, `LockFree`, `FinalVerdict`, and the refinement
`ImplementsBoard`. They hold with the earliest possible expiry of the ack-wait, and
with answers and locks that are lost at any time: within the claim protocol the lock
is never contended. `DeadOwnerKeepsRow` turns the finding of run `crash_resumes` into
a theorem: no step of anybody gives back the row of a worker that died.

*Triage and replays.* The proofs about `DlqTriage` stand in the same module, because
they reuse the workers' lemmas. `MarkFailed` and `Replay` write the row whoever owns
it, so that `Claims` is lost and the invariants are others:

- `ReportedBeforeClosed` (`ClosedIsReported`): `Rounds`, that the advisory in work is
  in the batch, that nothing closed is, and that what is being closed has its issue.
  `TriageTypes` needs it too.
- `OneEngine` (`EngineExclusive`), without a hypothesis: `LockHeld`, that whoever is
  inside the lock holds its key unless its TTL has ended under it. `Lock` takes the
  key only when it is free, and `Release` deletes it only when it is the worker's
  own, so that a late release leaves the successor's key alone. That row, claim and
  message are in disorder plays no part.
- `RunsWithinCap` (`RunsCapped`), for finitely many workers: `Tickets`, that the
  engine runs started and the workers between their check and their lock (`Cleared`)
  are together no more than the count in Valkey, and no more than the cap. `Check`
  hands out a ticket and `Lock` spends it, whoever owns the row; the counting rests
  on the library's facts on cardinality.

**OutboxRelayProofs.** `LocksCover` (a row in hand is locked by that relay, and
only unpublished rows are locked), `MarkedInStream` (what a transaction has
marked is stored) and `WindowRemembers` (an id the server has forgotten was
never stored, unless its window lapsed) make `DisjointBatches`,
`StreamMatchesOutbox` and `NoDoublePublish` inductive; `ImplementsOutbox` maps a
commit to `Outbox!Mark` of the whole batch.

**CdcRelayProofs.** `SlotFollows` (a subscription is never behind what it has
acknowledged), `Logged` (whoever works on a row works on a committed one),
`SweepsAlone` (no callback runs beside the sweep: it is what keeps a marked row
out of the sweep), `MarksStored` and `WindowRemembers` give `PublishedOnce` and
`ImplementsOutbox`; `NoneSkipped` follows row by row (`CoveredRow`).

**SandboxProofs.** `Gate` (an attempt reaches its push only green, and only an
ended attempt's commit is on the forge) and `MetricsFollow` (until an attempt
is given up, its metrics follow its cycle) give `RedStaysLocal`, `MetricsSound`
and `PushesStay`. `BudgetHolds` counts the attempts that ended transiently, with
the library's facts on cardinality. `ImplementsRun` is the refinement of
`EngineRun`.

**CoordinatorProofs.** The invariant is

    Inv == Basics /\ Plans /\ Results /\ ClaimsExplained

`Basics` has the types and bounds (`Typed`), that only rows are published,
claimed and fetched (`RowsFirst`), and that whoever is in a node of the graph, or
has a task in hand, owns its row (`Owners`). `DoneBySubtasks` is far from
inductive: it needs that a report follows only a plan that is over
(`ReportReady`), which needs that the ids in the process's memory are the
children in the table, line by line, but for those that failed (`PlanIsTree`),
that the statuses read are still true when they are final (`SeenIsFinal`), and
that a task nobody plans has no children (`ChildrenOfPlans`), so that two
orchestrators never write into one plan. `OneLivePerLine` follows from the same
tree, and `ClaimsExplained` from `Owners` and `ReportReady`: a report always
finds "done", so that no report leaves its claim behind. A worker that dies leaves
its claim in its own name (`down`).
`StepPlans` and `StepReports` say once what a step may do to a plan, and the
lemmas after them use no other fact of the actions. Theorems: `TypeCorrect`,
`DoneOnlyBySubtasks`, `LinesDisjoint`, `NoStrayClaim`, and the refinement
`ImplementsBoard`, for any number of orchestrators, workers, ids and lines.

**IntakeProofs.** The invariant is

    Inv == /\ TypeOK /\ OneTaskPerItem /\ Transactions
           /\ Ahead /\ Gapless /\ NothingPassedOver

`Transactions` (an inserted `ext_id` has no committed row, and no two open
transactions have inserted the same one) is what the UNIQUE constraint gives and
`OncePerItem` needs: the SELECT alone allows both of two overlapping syncs to
insert. `NoneLeftBehind` needs that a loop has in hand only what is ahead of its
cursor (`Ahead`), and that a page has no hole (`Gapless`), so that working through
it in order of age leaves nothing behind. `PageGapless` proves the latter of the
page itself, with the library's facts on cardinality: an item that the newest
page leaves out has `PageSize` newer ones.

**TiersProofs.** The invariant is

    Inv == TypeOK /\ Hands /\ Capable /\ Consumed /\ LadderAnnounces

`ServedByCapable` speaks of the task in hand, whose tier the node chose at its
start: `Capable` carries what the probe said from `todo` to the subscriptions and
on to the task in hand, and `Hands` (one node per message in flight) keeps the
task's subject from being rewritten under the node. `LadderAnnounces` needs
`Consumed`: a message that was fetched has a consumer, so that no bootstrap turns
its consumer into a ladder after the fact. Theorems: `TypeCorrect`, `CapableServe`,
`NoneExhaustedUnseen`, for any nodes, tiers, probes, labels and deaths.

**LessonWritersProofs.** The invariant is

    Inv == /\ TypeOK /\ Audits /\ StoresAgree /\ Vectors /\ NoneLeftOut
           /\ Looked /\ Followed

`NoneLeftOut` speaks of the end of a re-embedding; `Vectors` carries it through
the loop: whatever a re-embedding with the column's model no longer has to do is
current, the rows included that others insert beside it. `SeededOnce` needs
`Looked`: a text nobody has raced for is there once, and no run that looked has
it in hand. `NoMergeSlips` needs `Followed`, which accounts for a merge from the
moment the listing is asked for, and `PanelHears`: a panel that lets a merge pass
has heard every lens. `Audits` says what the audit holds at each of its steps.
`EachMergeAudited` speaks of the merges that a run has asked for, whatever part of
them its page shows: it says nothing of those that slipped between two windows, and
names those passed over a BLOCK (`overruled`) apart from those the panel passed.
Theorems: `TypeCorrect`, `LessonsStored`, `AllReembedded`, `SeededOnceUnlessRaced`,
`EachMergeAudited`, for any number of writers, texts, merges and rows.

The type invariants of `AgentWorker`, `DlqTriage`, `OutboxRelay`, `CdcRelay`,
`Sandbox`, `Coordinator`, `Intake`, `Tiers` and `LessonWriters`, and
`LockNeverContended` and `NoDoublePublish`, are parts of these proofs for every value
of the constants, and are not repeated in a run.

**Only model-checked:** the liveness properties (`MessagesSettle`, `TasksEnd`,
`AdvisoriesFlow`, `CleanRowsFlow`, `RowsFlow`, `PlansEnd`, `ItemsFlow`,
`TierFlows`): they rest on fairness, whose `ENABLED` the prover does not handle.
Every invariant, action property and refinement of a passing run is proved.

## 5. Not modelled, and why

- Formatting, prompts, traces, health endpoints, token parsing: no property here
  depends on them.
- Time: timers end at any moment; backoff delays and poll intervals are left out.
- The expiry of the Valkey counters. Each charge renews the 24 hours of the budget
  key (`budget.py:58`) and each attempt the 7 days of the attempts key (line 99).
  The breaker lets an attempt begin only within `MAX_TASK_WALL_S`, four hours, of the
  task's creation, and an attempt is a bounded number of engine runs with a time
  limit each, so that neither key ends between two of its uses.
- Postgres, JetStream, Valkey and the forge as servers: they do what the code
  asks of them or fail; their own replication and recovery are outside.
- The text of a model's reply beyond its verdict, the ranking and the limits of a
  search, chunks and signatures: `Verifier` and `Lessons` keep what decides.
- Speculative patching (`speculative_patch.py`) and compression
  (`compress_util.py`): sequential functions of one task or one body, without
  state that another process writes.
- The SLA report, the shadow evaluation, the correction pull requests, context
  packs, crew roles, tracing, CI gates, deployment and generated code: sequential
  scripts, wrappers and configuration.

## 6. Plan

Done: the claim protocol with triage, both relays, the sandbox, the coordinator
beside plain workers, the intake, the tiers, and the lessons with their writers
and the audit. What is next, in order of what matters most:

1. **Proofs**: the safety properties of the runs are proved. What can still be said
   for all constants is what remains of the task board beside triage and replays: a
   board whose decided tasks can be reopened by anybody, refined by `DlqTriage`.
2. **Speculative patching**: the fan-out beside the workers' attempts, with its own
   budget key, as a composition with `Sandbox`.
3. **Conventions**: the sentences that section 3 quotes and the code does not keep can
   each be stated as a property that a run refutes, as `crash_resumes` does.
