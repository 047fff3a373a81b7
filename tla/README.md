# A TLA+ model of zoid

zoid is a terminal coding agent: one process drives a chat with a language
model, runs the tools the model calls, and lets the model dispatch background
subagents that run their own turns in their own worktrees.  This directory holds
specifications of its concurrent core, the TLC instances that check them and
the TLAPS proofs of their invariants.  Paths below are relative to
`src/crates/` unless they start with `docs/`.

## Inventory

| Component | State | Operations | Hard behaviour | What makes it correct |
|---|---|---|---|---|
| Subagent pool (`zoid/src/main.rs`, `agent.rs`, `spawn_subagent.rs`) | registry `in_flight` behind a mutex, display rows, queue, kill arming, `AgentUpdate` channel | dispatch, queue, register, report, drain, cancel, Esc, takeover | check and update under separate locks, by turns and the main loop | bounded pool, no leaked slot or row, queued work starts, no duplicate task |
| Agent turn (`zoid/src/agent.rs`) | event log, pending calls, two cancellation tokens, retry counters | stream, batch of tools, questions, approvals, drains | cancel or failure at every await; six drain paths | each call answered once, turn ends when stopped, tools do not overlap |
| Subagent run (`spawn_subagent.rs`, `subagent.rs`, `wake_timer.rs`) | abort reason, hard token, worktree, report | run, time out, kill, reconcile, commit or drop, report | three parties race on reason and token | every subagent reports once; returned work is kept; the reason is the first |
| Wake scheduler (`main.rs` 3216-3250, 7566-7803) | pending wakes, watcher deadline, log | schedule, cancel, fire, restart | crash between two appends, re-arming, busy orchestrator | every wake fires at least once, none after its cancel |
| Chat loop (`main.rs` 2866-5100) | streaming flag, tokens, queued message, delegation wake, yielded | submit, complete, mode switch, session switch | stale TurnComplete, deferred wakes, bounded channel | one chat turn at a time, every delegation result wakes the model |
| Projection (`zoid-core/src/projection.rs`, `ProjectionCache` and `App::record` in `main.rs`) | the log, the conversation kept beside it | apply an event, refresh, finalize | two implementations of one fold; a fold in the middle of a stream | the screen shows what the log says |
| Session ownership (`zoid-core/src/store.rs`, `session.rs`, `main.rs` 2560-2780, 5040-5130, 7262-7320) | pid and heartbeat per session, `yielded`, heartbeat tasks | boot, claim, renew, lose, pick, take over, delete, exit | a stopped owner and a taker, a claim of an old clock, heartbeats left behind | a loser learns of its loss and stops, a live session is not taken silently |
| Eviction, compaction, recall (`zoid-core/src/eviction.rs`, `compaction.rs`, `context.rs`, `agent.rs` 3470-3640) | the log, calibration ratio | gate, compact, evict, force, recall | three folds of one log must agree; markers repeated and undone | newest turn whole, whole turns go, no thrashing, what the three folds count differently is known and bounded |
| Tools, gate, providers, MCP, embeddings, registry, plugins, web, TUI | mostly none | I/O, parsing, drawing | timeouts of pipes and HTTP | left to tests; see "Not modelled" |

Interaction: a chat turn is a tokio task that sends `AgentUpdate`s to the main
loop over one bounded channel and shares with it the registry and its two
tokens.  A subagent is another task that runs the same turn code headless and
reports by one `DelegationResult` on that channel.  The hazards this exposes,
with their lines, are in `PROJECT.json` under "hazards".

## Modules

| Module | What it is |
|---|---|
| `SubagentPool` | the pool: chat turns, subagent tasks and the main loop around the shared registry |
| `SubagentPoolProofs` | its inductive invariant and theorems |
| `AgentTurn` | one turn, chat or headless (constant `Headless`) |
| `AgentTurnProofs` | its inductive invariant and theorems |
| `SubagentRun` | a subagent's task: extends `AgentTurn` with its WakeTimer, its killers, reconciliation, worktree and report |
| `SubagentRunProofs` | that a subagent's run implements a turn, and the theorems about its report and worktree |
| `ChatLoop` | the main loop as what starts and ends turns: messages, results, wakes, wizards, takeover, session switch, stop and restart |
| `ChatLoopProofs` | its inductive invariant and theorems, and that it implements `WakeLedger` |
| `WakeLedger` | what scheduled wakes promise; `ChatLoop` implements it |
| `SessionOwnership` | several processes over one session database: claims, heartbeats, takeovers, stalls and crashes |
| `SessionOwnershipProofs` | its inductive invariant and theorems |
| `ContextLog` | a turn's gate, compaction, eviction and recall over the log, and the folds that read it |
| `ContextLogProofs` | its inductive invariant and theorems |
| `Projection` | the incrementally kept conversation against the fold of the log |
| `ProjectionProofs` | that the two agree: its inductive invariant and theorems |
| `SumTheorems` | lemmas for the two: induction on numbers and finite sets, the largest of a set, sums over finite sets |
| `MCSubagentPool`, `MCAgentTurn`, `MCSubagentRun`, `MCChatLoop`, `MCSessionOwnership`, `MCContextLog`, `MCProjection` | the instances TLC checks, one `.cfg` per question |

`SubagentPool` sees a subagent's run as one step, `Report`, and assumes weak
fairness of it.  `SubagentRun` justifies that assumption: its `RunReports` says
that a subagent with a deadline reports even if its provider's stream and its
tools hang for ever.  `SubagentPool` sees a turn as a sequence of dispatches that may end
anywhere; `AgentTurn` says what the turn does in between.

### SubagentPool

The registry is the set `inFlight`, the display list `rows`, the queue
`queue`, the channel `chan` (FIFO).  A dispatch is in a `stage`; "checking",
"refused", "admitted" and "announced" are the awaits inside the
`dispatch_subagent` arm (agent.rs 1861-2133), so anything may happen between
them.  The main loop's handlers are atomic except where they take the
registry's lock twice: the drain loop (`DrainTest`, `SpawnQueued`) and the
takeover (`HandleTakenOver`, `ForgetAll`) are split there by `mpc`.
Abstractions: a dispatch carries its name from its call on (the code mints a
ULID at the spawn); a turn's other tool calls are not seen; the channel has no
bound, except that the `try_send` of `spawn_queued_subagent` may fail.

### AgentTurn

`pc` is the await the turn is at.  The provider's stream is the set of steps
enabled at "stream": text, a call, an error, a close.  After an error or a close
the turn awaits the provider's task ("erred", "closed") and no token ends that
wait; the retry, the warning, the nudge, the final answer or the batch follow.
The kinds of tools differ in what a running call races with: nothing
("emitting", "dispatch"), a reply ("relayed", "feedback", "ask"), both tokens
("local", "shell", "network") or the graceful one ("mcp").  A shell's
dangerous command may be put to the user (gate prompt) in a chat turn and is
denied in a headless one.  `running` is what really executes: a "local" tool
that is interrupted is only abandoned.  `TurnFails` is an event the store
refuses, at any place.  Abstracted: texts, usage, thinking, eviction and
compaction, whose only effect here is the bounded `ContextRetry`.

### SubagentRun

The task's phases are turn, returned, settled, reported; the timer's and the
killers' two steps are "write the reason" and "fire the token", in that order.
Time is not counted: a deadline may pass between any two steps.

### ChatLoop and WakeLedger

One `AgentUpdate` or one user action is one step, as in the code's `select!`.
The exception is `drain_due_wakes`: its two appends per wake are the steps
`InjectNote` and `MarkFired`, because the process may stop between them
(`Stop` models a crash, a quit and an error that leaves `run()`, such as a
failed append there).  A turn is a task that may ask for a wake, a cancel or
the user's answer, dispatch a subagent, or end; `Blocked` is its await of a
reply.  Wakes are named by their fire time, so two never have the same one, and the clock counts
them.  `wakeState` and `home` are what the event log says, so they survive
`Stop`; everything else is rebuilt by `Boot`.  `HeartbeatLost` may happen at any
time: `SessionOwnership` says when the store makes it happen.  The wizard's
updates and answers spawn turns without asking whether one runs, as the code
does.  `WakeLedger` knows only the log and the injections; `WakesKept` is that
every step of the loop is a step of it, by `wakeState` and `injected` alone.

### SessionOwnership

`row` is the sessions table: whether a session has a row, the pid that claims
it and the age of the claim.  Time is counted in heartbeat intervals and kept
as ages, each only up to the largest value a test tells apart, so it needs no
bound.  A process goes through `phase`: it boots (`boot_decision`: resume, new,
the only session, or the picker), claims, loads, and runs until it exits
(`Exit` releases the row, `Kill` does not); a restart is another process.  The
claim of a boot carries the time the boot read (`bootAge`), not that of the
claim.  The code swallows the errors of a claim, a release and a `:new`, and a
pick whose log does not load returns early, after the claim if it was a
takeover; where the database may fail (`MayFail`) these are steps too, so a
process may show a session that it never claimed.  Each load starts a heartbeat task of its own, and nothing stops the
earlier ones: `beats` has them all, and `notices` counts the
`SessionTakenOver` messages, which carry no session.  A heartbeat renews its
row (`Renew`), finds it lost (`LoseRow`) or fails (`FailToRenew`, a database
error); the last two end the task with one message, which cancels the turn and
sets `yielded` whatever session is shown by then.  `Tick` is one interval; it
waits for the renewals and notices of every process that is awake.  A process
that is asleep (stopped, or in a suspended machine) may miss any number of
intervals, and its pid stays alive.  Abstractions: one repository; a pid is
not reused; a running turn stands for the pick's whole busy guard; the row and
the live mark the user sees in a picker are the ones of when it was opened.
`steady` and `lostAge` are auxiliary: how long a process has run with
heartbeats since it claimed the session it shows, and how long ago it lost that
session's row.

### ContextLog

An event's id is its place in `log`, its size is in characters; every other
size is in tokens.  `pc` is the place of the turn between two appends: the four
plans of `preflight_gate` (`GateCompact`, `GateEvict`, `GateFloor`,
`GateOverflow`), the stream with any number of texts and calls, the wait for its
end, a forced wave with its retry (`ContextRetry`, which forgets the calls the
stream has sent), the compactions recorded after the stream and after the tools,
and the tools: `RunTool`, whose output may be an error, `Recall`, and `AskUser`
with its card, its answer and its result.  A stream that fails, an empty reply
(`Nudge`), a cancel and the iteration cap append what they do in the code.  A
list of events is appended one by one, and an append that fails ends the turn
with the rest unwritten (`Emit`).  `Ask` starts a turn with a message of the
user or of a wake; a subagent's report starts one without (`ReportWakes`), so
for the planner it belongs to the turn before it.

Three folds read the log, and each has its own sizes, as in the code:
- `Window` (`context_window_with`): messages, the arguments of calls but not
  their names, consecutive deltas as one text (`Text`, `TextTokens`), outputs
  item by item, a file's as one; no reports, no cards;
- `EventTokens`, `Weight`, `Candidates` and `Waves` (`event_tokens`,
  `group_turns`, `compute_protection`, `plan_evictions`): event by event, names
  and reports included, each delta rounded up for itself;
- `Carried` and `RequestSize` (`conversation_for_branch`, `build_request`): what
  is sent, names and reports included, and the answer of a card in the place of
  the result of its call.

The arithmetic is the code's integer arithmetic.  Abstractions: the order in
which rescue by goal ranks the candidates comes from embeddings, so `Waves`
allows any order when rescue is on; the ratio a provider's count gives is one of
`Ratios`; of the reminders of the system prompt only the count they wait for is
modelled, not the copy that a request carries; the wire format (roles, ids,
tool names in results, the prefixes of errors and reports, the breadcrumb of
evicted turns) is left out of the sizes, and so is the narration cap.  Approval
cards, which replace no result and are sent as an empty message, are left out;
the card of `submit_feedback` is handled as `ask_user`'s is, and has no step of
its own.

`:compact` (`CompactNow`, `CompactionAppended`) is a task beside the turn, which
plans from a snapshot of the session.  A turn works on the log it started with
and its own events, so what the task appends, and the reports of subagents
(`SubagentReports`), wait in `aside` until the next turn starts; they join the
log after what the turn appended meanwhile.  That order matters between two
compactions of one output, and for a report, which stands after the other events
of the turn it arrived in, and so after a nudge that came later.  The code refuses `:compact` while it shows
that a compaction runs; the model lets the command come at any time, up to
`MaxByHand`.  The main loop frees the body of a compacted output
(`clear_tool_output`); what the folds read of such an output is its summary and
`original_tokens`.  The one reader left is the compaction of a file whose
later reads all failed, which then finds an empty body where the model finds the
old one.  Where a file was read twice the window counts it once and the request
twice, and the planner reclaims it twice; the properties about sizes except
that case by name (`Reread`).

### Projection

`Conversation` is the fold (`conversation_for_branch`), `Applied`, `Refresh` and `FinalizePending` are
`ProjectionCache`; the two are written apart from each other in the module as
they are in the code.  An action is what appends: a turn's event arrives by
`Appended` and is applied; one the loop records itself, or of a subagent's
branch, goes into the log alone (`Recorded`), and the next frame folds anew
because the lengths differ.  `turn` restricts the order of events to what a
turn emits.  A message is the list of the events it shows, with the event that
changed it since; `Screen` is the closed messages and the one that streams.  `base` and `cuts` are auxiliary: up to where the log was
last folded, and where a fold or a turn's end closed a message that goes on.
What the screen and a fold of the log really differ in is therefore said, and
nothing else is allowed: a fold in the middle of a stream parts a message, an
eviction marker since the last fold has not yet taken its turn off the
screen, and a recalled event is missing until the next fold.  (The trailing branch of
the fold for a thought without a text, projection.rs 405-416, is never taken:
the last flush has dropped the thought, while `finalize_pending` shows it.)

## Runs

| Run | Instance | Shows |
|---|---|---|
| `pool` | 1 slot, 3 dispatches of different tasks, 1 turn at a time, 1 takeover | `PoolTypeOK`, `PoolBound`, `SlotsHeldByLive`, `RowsWillClear`, `SlotFreed`, `QueueAdvances` |
| `pool_queued` | as `pool`, no takeover | violated: the documented `QueuedStarts` |
| `turn` | chat, 4 calls of 4 kinds, 2 rounds, 1 retry of each sort | `TurnTypeOK`, `AnsweredOnce`, `BalancedEnd`, `StopEnds`, `TurnEnds` |
| `subagent` | headless, 3 calls, both deadlines | `RunTypeOK`, `AbortNamed`, `OkNeverErased`, `CommittedTreeQuiet`, `ToolsNeverOverlap`, `RunReports` |
| `chat` | 1 session, 3 turns, 1 subagent, 1 wake, 1 takeover, 1 wizard step, channel of 2 | `WaitsForATurn`, `OneTurn`, `ResultsReachATurn` |
| `wakes` | 2 sessions, 2 turns, 2 wakes, 1 takeover, 1 stop, 1 refused cancel | `ChatTypeOK`, `WakesMatchLog`, `WakesAttendedAtHome`, `OncePerCrash`, `WakesKept` |
| `sessions` | 2 processes, 2 sessions (1 at the start), a window of 2 intervals; one process may be stopped and continued, the other loads two sessions; claims, loads and heartbeats may fail | `OwnershipTypeOK`, `LossNoticed`, `AutoResumeSpares`, `OneShowsInTheEnd` |
| `sessions_yield` | as `sessions`, the database does not fail | violated: `YieldsWhatItLost` |
| `context` | 3 turns, 2 calls, 2 recalls, 1 file, 1 context retry, a ratio of 150 %, names of 12 characters | `ContextTypeOK`, `NewestWhole`, `OnlyRecallSplits`, `WavesAreWhole`, `CumulativeGrows`, `GateEffective` |
| `context_folds` | 2 turns, 2 texts, 1 nudge, 1 call, 1 card, 1 report, 1 recall, 1 `:compact` | `WindowIsRequest` |
| `context_recall` | 3 turns, 2 calls, 1 recall | violated: `PairsWhole` |
| `projection` | logs of 6 events, 2 each of messages, texts and calls, 1 of each other kind | `ProjectionTypeOK`, `ShowsTheLog`, `SplitsOnlyAtCuts` |

Bounds.  One slot with three dispatches is the smallest pool in which one runs,
one waits and one is being admitted; that is what every race over a slot takes.
One turn alive at a time already races with the main loop's drain, and turns
follow each other.  In a turn, one call of each way of waiting (but the
MCP one, which races with fewer tokens than the others and is in the proofs, where every
kind is) in any order covers each drain path with calls before and after it; two rounds cover state
carried from a batch to the next (`dispatched`, an abandoned tool); one retry
covers the reset that follows it.  A channel of two fills while the loop is
still to read, so every sender waits in some behaviour; two wakes are the least
of which one can be fired, or cancelled, before the other; a session switched
away from and back needs two.  `Turns` exceeds the takeovers and wizards together, so that the
main loop always finds a name for the turn it starts (`ChatAssumption`).  
In `sessions` a window of two intervals is the least in which a claim is one
interval old and still live (the code's is 15 s to 5 s); two processes are an
owner and a taker, and two sessions with a second load give a heartbeat that was
left behind.  In `context` the gate's marks are 12 and 6 tokens and the hard
limit 16, against turns of 4 tokens and of 10 and more: the window holds one
turn with its calls or two short ones, not three, so every plan of the gate is
made, and a turn can go out, come back in part and go out again within three;
outputs of 18 characters are compacted to 12, and the ratio of 150 % moves a log
across the marks.  A name of 12 characters is 4 tokens that a wave counts and the
window never had, so a wave does stop short of its mark: without the term for
it `GateEffective` fails in this run.  In `context_folds` two texts give deltas
that a card, a report or an evicted turn part or join, and the answer's 6
characters, the result's 9 or 18 and its summary's 6 are told apart.  In `projection` six events are a message with a text, a call,
its question, answer and result; seven were checked too and add no violation.
No symmetry is used: the calls differ in
kind, and liveness is checked.  `CHECK_DEADLOCK FALSE` is given where the
system stops: a turn ends, a subagent reports.

The three violations are disagreements between the code and its own
documentation, quoted in `PROJECT.json` under "findings":
1. a queued dispatch is never started if the last running subagent's result is
   handled first, since only a result drains the queue (`pool_queued`);
2. the heartbeat task of a session a process has left goes on; when another
   process takes that session, the first yields the one it shows now, whose row
   it still holds (`sessions_yield`);
3. a recall brings single events back, so a result may be sent without its call
   or a call without its result, though eviction pages whole turns out to keep
   them together (`context_recall`).

Other places where the code does less than its comments say are not runs of
their own; the property that holds, if there is one, names what is excepted:
- the pool may exceed `max_concurrent`, since test and insertion are under
  separate locks: by at most one per live turn (`PoolBound`);
- the errors of `set_active` are swallowed (main.rs 2692, 3185, 5091, 5185,
  7062): a process may show a session that it never claimed, until its first
  heartbeat finds the row not its own (`LossNoticed`);
- the window is documented as the full request (context.rs 170-172), but a
  subagent's report and the names of calls are sent and never counted
  (`WindowIsRequest` names what is not);
- the result of an approved mapping is worded for the model (agent.rs
  2697-2708), but the request drops the result of a call that has a card and
  carries the card's bare answer in its place (`Carried`);
- while a turn awaits the provider's task after its last event (agent.rs 1112,
  1240) no token ends it; see Fairness;
- a queued dispatch that passed the duplicate guard is not compared again when it
  is drained (`NoDirectDuplicate` is of direct ones), and one whose tool result
  the store refuses is dropped (agent.rs 1984);
- a takeover forgets, without killing it, a subagent registered between its
  two locks (`ForgetAll` after `HandleTakenOver`; its row still clears,
  `RowsWillClear`);
- a stream error, a context retry and the iteration cap leave tool calls
  unanswered; all else answers them (`BalancedEnd`);
- a subagent cut short by its hard token returns `Ok`, so it is reported as
  done and its partial work is committed and kept (`CommittedTreeQuiet` and
  `OkNeverErased` hold of it too);
- a yielded process that picks a session drains its due wakes before the
  `yielded` flag is cleared, which parks the watcher with nothing to unpark it
  (`WakesAttendedAtHome` says when this cannot happen);
- a turn of which a recall brought only a part back is never evicted again,
  since a turn with any evicted event counts as protected (eviction.rs 665),
  although the cooldown's comment (670-672) says that recalled content never
  forms a permanent floor; `Candidates` has the code's rule, and
  `WavesAreWhole` states its good side;
- the forced wave after a context error is empty if the estimate is below the
  high water mark, as it mostly is behind the gate, because the planner tests
  the mark first; the retry then repeats the request (agent.rs 1115).

## Fairness

- Pool: the main loop polls (`MainStep`); a turn inside the dispatch arm gets
  on (its awaits are a channel and the store); a subagent ends, which
  `RunReports` shows for the default deadlines (900 s idle, 1800 s in all,
  `zoid-core/src/config.rs` 163-180).  Users, models and other processes are
  under no fairness.
- Turn: the task is polled, and the provider's stream closes (`zoid-provider`
  times out a silent stream after 900 s, and output is capped).  That the
  provider's task ends once it has sent an error or the end is an assumption:
  `openai_compat.rs` reads on after an error inside the stream (415-428), so a
  server that goes on sending could keep the turn, which listens to no token
  then, and block the task on the full channel of 256 events.  Tools and replies may
  never come, so the properties except a turn waiting for a reply, and
  `TurnEnds` also one waiting for a tool.
- Subagent: the task is polled, the timer ticks, and a provider that has sent its
  last event ends, as above; no fairness of its stream before that, of tools
  or of killers.

- Chat loop: the main loop polls (`MainStep`), and a turn that waits for nobody
  ends (strong fairness: it makes a bounded number of calls, and a channel
  serves waiting senders in turn).  Users, subagents, the clock, the watcher and other
  processes are under no fairness.
- Sessions: an interval passes (`Tick`), and while a renewal is due or a notice
  waits in a process that is awake, one is attended to (`Attend`): the
  heartbeat is a task of its own on a multi-threaded runtime, and the main loop polls its
  channel.  Users, turns and stopped processes are under no fairness; a
  process that is never continued shows nothing.

## Proofs

`SubagentPoolProofs` proves, for any finite set of dispatches and turns and any
limit (`PoolAssumption`), that `PoolSpec` implies []`PoolTypeOK`,
[]`PoolBound`, []`SlotsHeldByLive`, []`RowsWillClear` and
[]`NoDirectDuplicate`.  None of them is inductive alone.  `IInv` adds:
- where a dispatch's messages are: `PlaceInv` ties each stage to the messages
  of it in the channel and to its place in the queue, each at most once, so a
  result in the channel is the only one;
- `OneCallPerTurn`: a turn is inside one dispatch at a time, hence at most one
  admission per turn is pending; `BoundInv` counts those and the drain's
  against the overshoot;
- `GuardInv`: a dispatch past the duplicate guard differs in task from the
  registered ones of its own turn;
- `StartedAhead`: a `SubagentStarted` precedes its result in the channel, so a
  row is not added after its removal.

`AgentTurnProofs` proves for any set of calls, their kinds and any limits
(`TurnAssumption`) that `TurnSpec` implies []`TurnTypeOK`, []`AnsweredOnce`,
[]`BalancedEnd` and []`ToolsNeverOverlap`.  Its inductive invariant adds:
- `HeldInv`: the pending calls and the one taken up are different, issued and
  unanswered, and `PlaceInv` says at which awaits there is one taken up; an
  answer is therefore the first of its call (`ResultInv`);
- `OpenInv`: unless the code has dropped calls, every unanswered call is
  pending or taken up, so none is left where nothing is held;
- `RunningInv` and `AloneInv`: an abandoned tool leads only to places from which
  no tool starts.  The token test after a tool (`CheckAfterTool`) is what
  this rests on; a mutant of the `subagent` run drops it.

`SubagentRunProofs` proves `RunImplementsTurn`, that `RunSpec` implies
`TurnSpec`, so that every theorem about turns holds of a subagent's, and for
either deadline, both or none, []`RunTypeOK`, []`AbortNamed`, []`OkNeverErased`
and []`CommittedTreeQuiet`.  Its invariant `RunInv` adds to the turn's
`ReasonInv` (whoever is about to fire the token has seen that there is a
reason, so a fired token has one) and `PhaseInv` (what each phase of the task
has done).  The last theorem combines both modules: the turn's `AloneInv` says
an ended turn that was not cut short runs no tool.

`ChatLoopProofs` proves for any sessions, turns, subagents, channel capacity and
number of wakes (`ChatAssumption`) that `ChatSpec` implies every safety property
the `chat` and `wakes` runs check: []`ChatTypeOK`, []`WakesMatchLog`,
[]`OncePerCrash`, []`WaitsForATurn`, []`OneTurn`, []`WakesAttendedAtHome`, and
`WakesKept`, that it implements `WakeLedger`.  Its invariant adds:
- `ChanInv`: a question in the channel is a live turn's, and a request to
  schedule names a wake that neither the log nor another request has;
- `WakeInv`: between a wake's two records it has left the pending set but not
  the log, and it alone; the ledger's steps and `OnceInv`, which counts
  injections against stops, rest on that;
- `HomeInv`: while the session was not taken over and no wizard was used, the
  channel holds at most one end of a turn, and none beside a live turn;
- `ArmedInv`: the watcher is set to the first pending wake, or a wake is due
  and a turn's end, which drains it, is still to come.  It takes
  `WaitsForATurn`, since the drain parks the watcher when the loop streams.

`SessionOwnershipProofs` proves for any finite set of processes, any sessions
and any window of at least two heartbeat intervals (`OwnershipAssumption`; the
code's window is three) that `OwnershipSpec` implies []`OwnershipTypeOK`,
[]`LossNoticed` and []`AutoResumeSpares`, whatever processes stall, crash or
fail to renew.  Its invariant `OwnInv` adds:
- `CountInv` and `LifeInv`: what a process has in each phase of its life; each
  load gives one heartbeat, and a heartbeat one notice at most;
- `BeatInv`: a process that shows a session has a heartbeat for it, or a notice
  is on its way;
- `LossInv`: an interval after the loss that heartbeat is due, so time cannot
  pass again before it has found out (`Tick` waits for it);
- `RenewInv`: the same for a row that is held: two intervals on, its claim is at
  most one interval old.  What is live by `is_live` is therefore not offered to
  a boot that does not ask, which is where the window of two is needed.

`ContextLogProofs` proves for any policy, sizes, ratios and paths, with logs of any
length (`ContextAssumption`), that `ContextSpec` implies every property of the
runs `context` and `context_folds`.  Its invariant `CtxInv`
says of the log that every event refers to earlier ones (`EventOK`), that what
is paged out is of turns before the newest (`OldOut`), and that an eviction has
the whole of each turn it touches (`WholeOut`); of the turn, that the calls
it waits for have no result; and of a `:compact` under way, that what it planned
summarises outputs of the log, and a report is one (`Pending`).  The argument is in two parts: what
a step can append, action by action (`Step`, `CtxStep`), and that any such step keeps the
invariant of the log (`StepKeepsLog`), which rests on turns before the newest
being closed (`OldTurnsKept`).  []`ContextTypeOK`, []`NewestWhole`,
[]`OnlyRecallSplits` and `WavesAreWhole` follow.  That the compaction plan has an output at each
of its places takes a count (`EveryPlace`), and the largest of a bounded set is
in it by well-foundedness (`BoundedMax`).  The other three are about sums:
- []`WindowIsRequest`: each delta that is in belongs to one text
  (`TextsPartition`) and, unless a file was read twice, each output to one item,
  so the window is a sum over events (`WindowOfShares`); event by event that
  differs from what the request carries by a name, a report, a card or the
  result it replaces, and by the rounding of two characters
  (`WindowOfRequest`);
- `CumulativeGrows`: appending removes no term of the sum, and a compaction,
  which replaces an output's size by `original_tokens`, replaces it by the
  same number (`OriginalsInv`);
- `GateEffective`: once the gate has evicted, the estimate is under the high
  water mark, or no candidate is left, or the wave stopped at the low mark by
  its own count, and no later step of the gate changes that (`GateInv`).  A wave
  subtracts weights from an estimate that is not made of them, so it stops too
  early by what the weights have beyond the window (`Overweight`): names and
  reports outright, and for a delta up to a token, as eviction shortens and
  joins texts (`TextsShrink`, `EvictionWindow`).  The roundings of the weights
  and of the estimate are three tokens more (`EvictionEstimate`).  No distance
  of the marks is assumed.

`ProjectionProofs` proves for logs of any length, and whatever the bounds of
the run, that `ProjectionSpec` implies []`ProjectionTypeOK`, []`ShowsTheLog` and
[]`SplitsOnlyAtCuts`: the fold and the incremental implementation agree.  Its
parts:
- `LogInv`, what a log can be: a call has one result and one card, compactions
  and answers refer to what came before, and a wave names a turn that a later
  message of the user follows.  Each action appends only what `Fits`;
- `Shape(l, n, out, a)`: the messages and the pending parts of `a`, in order, are
  exactly the events up to `n` that have a place in the conversation and are
  not in `out`, and a changed message carries its latest change;
- `Joins(l, n, out, C, K, a)`: two texts of `K` share a message if no event
  between them closes it, and only then, except at the cuts `C`;
- one step of the fold keeps both (`FoldStep`, `JoinsStep`); by induction they
  hold of the fold of any log (`FoldHolds`);
- `apply_event` does to the cache what a step of the fold does
  (`AppliedIsFold`), or changes the one message it is about (`AmendKeeps`), and a
  fold in the middle of a stream and the end of a turn keep the invariant
  because they leave a cut (`RefoldKeeps`, `EndKeeps`).  `ProjectionInv` is that
  `ScreenOK` holds of log, cache, `base` and `cuts`.

The fold of the log leaves out what is paged out now, the screen only what was at
the last fold; that both group the texts that stayed alike is because what goes
is whole turns: a message of the user that stays parts them from the next text
(`PagedBetween`, `PagedIsOver`).

The library's induction theorems take an operator, which no installed prover can
instantiate; `SumTheorems` states induction about a set that holds 0 and the
successor of each of its numbers (`NatSetInduction`), and likewise on the subsets
of a finite set, from the well-foundedness of the two orders.  The models write
their recursion as recursive functions or folds, whose existence is
proved the same way (`PartialSumExists`, `FoldExists`).

Only model-checked: liveness (`SlotFreed`, `QueueAdvances`, `StopEnds`,
`TurnEnds`, `RunReports`, `ResultsReachATurn`, `OneShowsInTheEnd`), which needs
ENABLED.  Every invariant and every action property of the passing runs is
proved.  Only proved: `NoDirectDuplicate`, as the pool's instance has three
different tasks.

## Plan

1. Done: `SubagentPool`, `AgentTurn`, `SubagentRun`, `WakeLedger` and
   `ChatLoop`, `SessionOwnership`, `ContextLog` and `Projection`, their runs and
   proofs.
2. Next, if the code grows there: the arming of a kill across a takeover
   (`subagent_kill_armed`), which `SubagentPool` has no state for; mode switches;
   the MCP client's pending requests.

## Not modelled

- The log of a session that was switched away from: events of a turn that
  outlives the switch go into the log loaded by then (the `Appended` handler,
  main.rs 3783-3872), and the wizard's first events (4063-4085, 4105-4124) and
  a pending adjustment (3341-3345, 6207-6215) are appended without a session
  id.  `ChatLoop` keeps the wakes of each session, not its events.
- MCP servers (`zoid-mcp`): a table of pending requests by id, each answered
  or timed out once; its interleavings are with server processes outside this
  repository.
- Drawing and layout (`zoid-tui`, `zoid-syntax`), HTTP and stream parsing
  (`zoid-provider`, `zoid-web`, `zoid-companion`), tools' own I/O
  (`zoid-tools`), embeddings and ranking, the model registry, import of
  plugins: pure I/O, text or numeric work with no protocol state, or behaviour
  seen by the modules above only through the events they nondeterministically
  offer.
