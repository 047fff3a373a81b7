---------------------------- MODULE SubagentPool ----------------------------
(***************************************************************************)
(* The pool of background subagents of one zoid process.                   *)
(*                                                                         *)
(* Three kinds of task share it.  A chat turn (agent.rs) runs the model's  *)
(* dispatch_subagent calls: it reads the shared registry `in_flight', and  *)
(* either spawns a subagent or asks the main loop to queue the dispatch.   *)
(* A subagent task (spawn_subagent.rs) runs and reports one                *)
(* DelegationResult.  The main loop (main.rs) consumes the AgentUpdate     *)
(* channel one message at a time, frees slots and drains the queue.        *)
(*                                                                         *)
(* The registry is behind a mutex that no task holds from a test of it to  *)
(* the update that relies on the test, so every such pair is two steps     *)
(* here.  A dispatch and the subagent it becomes share one name, given     *)
(* when the tool call starts: the code mints the (fresh) ULID later.       *)
(* What the main loop does beside the pool (projection, log, wake of the   *)
(* orchestrator) is in ChatLoop.                                           *)
(***************************************************************************)
EXTENDS Naturals, Sequences, FiniteSets

CONSTANTS
    Dispatches,     \* the dispatch_subagent calls of one run (bounds the run)
    Turns,          \* chat-turn tasks that may be alive at the same time
    Tasks,          \* (agent, task) pairs, what the duplicate guard compares
    TaskOf,         \* the pair each dispatch asks for
    MaxConcurrent,  \* [subagent] max_concurrent; 0 is unlimited
    MaxTakeovers,   \* bound: SessionTakenOver messages
    Main, NoTurn    \* two names that are not turns

ASSUME PoolAssumption ==
    /\ IsFiniteSet(Dispatches)
    /\ IsFiniteSet(Turns)
    /\ TaskOf \in [Dispatches -> Tasks]
    /\ MaxConcurrent \in Nat
    /\ MaxTakeovers \in Nat
    /\ Main \notin Turns
    /\ NoTurn \notin Turns \cup {Main}

VARIABLES
    stage,      \* how far each dispatch has come
    owner,      \* the turn whose call it is; Main once the queue spawned it
    turns,      \* chat-turn tasks alive
    cancelled,  \* turns whose graceful token has fired
    token,      \* App::turn_cancel: the turn whose tokens the main loop holds
    inFlight,   \* App::in_flight: the shared registry, the pool itself
    killed,     \* running subagents whose hard token has fired
    chan,       \* the AgentUpdate channel, oldest first
    rows,       \* App::in_flight_subagents: the display list and busy guard
    queue,      \* App::queued_subagents
    armed,      \* App::subagent_kill_armed
    mpc,        \* where the main loop is between two lock acquisitions
    takeovers   \* SessionTakenOver messages so far

poolVars == <<stage, owner, turns, cancelled, token, inFlight, killed, chan,
              rows, queue, armed, mpc, takeovers>>

-----------------------------------------------------------------------------
(* Stages.  The calling turn is inside the dispatch arm in the first four   *)
(* stages after "none"; "dropped" is a dispatch no subagent will serve.     *)

Dispatching == {"checking", "refused", "admitted", "announced"}
Stage == {"none", "queued", "running", "reported", "done", "dropped"}
            \cup Dispatching

Started(d)  == [type |-> "SubagentStarted", sub |-> d]
Queued(d)   == [type |-> "SubagentQueued", sub |-> d]
Result(d)   == [type |-> "DelegationResult", sub |-> d]
Complete(t) == [type |-> "TurnComplete", turn |-> t]
TakenOver   == [type |-> "SessionTakenOver"]

Message == {Started(d) : d \in Dispatches} \cup {Queued(d) : d \in Dispatches}
             \cup {Result(d) : d \in Dispatches}
             \cup {Complete(t) : t \in Turns} \cup {TakenOver}

InChan(m) == \E i \in 1..Len(chan) : chan[i] = m

\* The turn is between tool calls: nothing of its batch is half done.
BetweenCalls(t) ==
    \A d \in Dispatches : owner[d] = t => stage[d] \notin Dispatching

\* Mutant: the pool is measured by the display rows, which lag behind.
HasRoomByRows == MaxConcurrent = 0 \/ Cardinality(rows) < MaxConcurrent

HasRoom == MaxConcurrent = 0 \/ Cardinality(inFlight) < MaxConcurrent

SetStage(d, st) == stage' = [stage EXCEPT ![d] = st]
Send(m) == chan' = Append(chan, m)

\* fire_subagent_kill: the token of a finished subagent fires to no effect.
Fire(targets) == killed' = killed \cup {d \in targets : stage[d] = "running"}

-----------------------------------------------------------------------------
PoolInit ==
    /\ stage = [d \in Dispatches |-> "none"]
    /\ owner = [d \in Dispatches |-> NoTurn]
    /\ turns = {}
    /\ cancelled = {}
    /\ token = NoTurn
    /\ inFlight = {}
    /\ killed = {}
    /\ chan = <<>>
    /\ rows = {}
    /\ queue = <<>>
    /\ armed = FALSE
    /\ mpc = "idle"
    /\ takeovers = 0

-----------------------------------------------------------------------------
(* The chat turn.                                                           *)

\* Next dispatch_subagent call of the batch: the batch loop has seen the turn
\* uncancelled, and no registered subagent runs the same (agent, task).  (A
\* duplicate gets a plain tool result and changes nothing.)
DispatchCall(t, d) ==
    /\ t \in turns \ cancelled
    /\ BetweenCalls(t)
    /\ stage[d] = "none"
    /\ \A s \in inFlight : TaskOf[s] # TaskOf[d]
    /\ SetStage(d, "checking")
    /\ owner' = [owner EXCEPT ![d] = t]
    /\ UNCHANGED <<turns, cancelled, token, inFlight, killed, chan, rows,
                   queue, armed, mpc, takeovers>>

\* The pool check: the registry's size against max_concurrent.
PoolCheck(d) ==
    /\ stage[d] = "checking"
    /\ SetStage(d, IF HasRoom THEN "admitted" ELSE "refused")
    /\ UNCHANGED <<owner, turns, cancelled, token, inFlight, killed, chan,
                   rows, queue, armed, mpc, takeovers>>

\* No room: the tool result says "queued" and the main loop is told to queue.
SendQueued(d) ==
    /\ stage[d] = "refused"
    /\ SetStage(d, "queued")
    /\ Send(Queued(d))
    /\ UNCHANGED <<owner, turns, cancelled, token, inFlight, killed, rows,
                   queue, armed, mpc, takeovers>>

\* The "queued" tool result cannot be stored: the turn ends on the error
\* before it has told the main loop anything.
QueueResultLost(d) ==
    /\ stage[d] = "refused"
    /\ SetStage(d, "dropped")
    /\ turns' = turns \ {owner[d]}
    /\ Send(Complete(owner[d]))
    /\ UNCHANGED <<owner, cancelled, token, inFlight, killed, rows, queue,
                   armed, mpc, takeovers>>

\* Room: the UI hears of the subagent before it is registered or runs.
Announce(d) ==
    /\ stage[d] = "admitted"
    /\ SetStage(d, "announced")
    /\ Send(Started(d))
    /\ UNCHANGED <<owner, turns, cancelled, token, inFlight, killed, rows,
                   queue, armed, mpc, takeovers>>

\* The handle is registered and the task spawned, with no await between.
SpawnDirect(d) ==
    /\ stage[d] = "announced"
    /\ SetStage(d, "running")
    /\ inFlight' = inFlight \cup {d}
    /\ UNCHANGED <<owner, turns, cancelled, token, killed, chan, rows, queue,
                   armed, mpc, takeovers>>

\* The model's cancel_subagent call, by id or for all: an id the registry
\* does not know fires nothing.
CancelSubagent(t, targets) ==
    /\ t \in turns \ cancelled
    /\ BetweenCalls(t)
    /\ targets = inFlight \/ \E d \in inFlight : targets = {d}
    /\ Fire(targets)
    /\ UNCHANGED <<stage, owner, turns, cancelled, token, inFlight, chan,
                   rows, queue, armed, mpc, takeovers>>

\* Every way out of a turn sends TurnComplete.
EndTurn(t) ==
    /\ t \in turns
    /\ BetweenCalls(t)
    /\ turns' = turns \ {t}
    /\ Send(Complete(t))
    /\ UNCHANGED <<stage, owner, cancelled, token, inFlight, killed, rows,
                   queue, armed, mpc, takeovers>>

-----------------------------------------------------------------------------
(* The subagent task.                                                       *)

\* Mutant: a subagent that was killed reports nothing.
ReportUnlessKilled(d) ==
    /\ stage[d] = "running"
    /\ SetStage(d, "reported")
    /\ IF d \in killed THEN UNCHANGED chan ELSE Send(Result(d))
    /\ killed' = killed \ {d}
    /\ UNCHANGED <<owner, turns, cancelled, token, inFlight, rows, queue,
                   armed, mpc, takeovers>>

\* The run is over (finished, failed, killed or timed out): its
\* DelegationResult goes to the log and then to the main loop.
Report(d) ==
    /\ stage[d] = "running"
    /\ SetStage(d, "reported")
    /\ Send(Result(d))
    /\ killed' = killed \ {d}
    /\ UNCHANGED <<owner, turns, cancelled, token, inFlight, rows, queue,
                   armed, mpc, takeovers>>

-----------------------------------------------------------------------------
(* The main loop.  A handler runs to its end before the next message, but   *)
(* turns and subagents run between its lock acquisitions.                   *)

Receive(m) ==
    /\ mpc = "idle"
    /\ chan # <<>>
    /\ Head(chan) = m
    /\ chan' = Tail(chan)

HandleStarted(d) ==
    /\ Receive(Started(d))
    /\ rows' = rows \cup {d}
    /\ UNCHANGED <<stage, owner, turns, cancelled, token, inFlight, killed,
                   queue, armed, mpc, takeovers>>

\* Mutant: the message is queued instead of the dispatch it carries.
HandleQueuedWhole(d) ==
    /\ Receive(Queued(d))
    /\ queue' = Append(queue, Queued(d))
    /\ UNCHANGED <<stage, owner, turns, cancelled, token, inFlight, killed,
                   rows, armed, mpc, takeovers>>

\* The queue only grows here: a free slot is not looked for.
HandleQueued(d) ==
    /\ Receive(Queued(d))
    /\ queue' = Append(queue, d)
    /\ UNCHANGED <<stage, owner, turns, cancelled, token, inFlight, killed,
                   rows, armed, mpc, takeovers>>

\* Mutant: the slot is freed only with a row on display.
HandleResultByRow(d) ==
    /\ Receive(Result(d))
    /\ rows' = rows \ {d}
    /\ inFlight' = IF d \in rows THEN inFlight \ {d} ELSE inFlight
    /\ armed' = (armed /\ inFlight' # {})
    /\ SetStage(d, "done")
    /\ mpc' = "drain"
    /\ UNCHANGED <<owner, turns, cancelled, token, killed, queue, takeovers>>

\* Mutant: the row is removed only for a registered subagent.
HandleResultBySlot(d) ==
    /\ Receive(Result(d))
    /\ rows' = IF d \in inFlight THEN rows \ {d} ELSE rows
    /\ inFlight' = inFlight \ {d}
    /\ armed' = (armed /\ inFlight' # {})
    /\ SetStage(d, "done")
    /\ mpc' = "drain"
    /\ UNCHANGED <<owner, turns, cancelled, token, killed, queue, takeovers>>

\* Mutant: the queue is not drained while a turn is streaming.
HandleResultIdleDrain(d) ==
    /\ Receive(Result(d))
    /\ rows' = rows \ {d}
    /\ inFlight' = inFlight \ {d}
    /\ armed' = (armed /\ inFlight' # {})
    /\ SetStage(d, "done")
    /\ mpc' = IF token = NoTurn THEN "drain" ELSE mpc
    /\ UNCHANGED <<owner, turns, cancelled, token, killed, queue, takeovers>>

\* A slot is freed; the queue is drained next.  The registry's emptiness is
\* read by a second lock; an insertion in between is as good as one before.
HandleResult(d) ==
    /\ Receive(Result(d))
    /\ rows' = rows \ {d}
    /\ inFlight' = inFlight \ {d}
    /\ armed' = (armed /\ inFlight' # {})
    /\ SetStage(d, "done")
    /\ mpc' = "drain"
    /\ UNCHANGED <<owner, turns, cancelled, token, killed, queue, takeovers>>

\* One test of the drain loop.
DrainTest ==
    /\ mpc = "drain"
    /\ mpc' = IF queue # <<>> /\ HasRoom THEN "spawn" ELSE "idle"
    /\ UNCHANGED <<stage, owner, turns, cancelled, token, inFlight, killed,
                   chan, rows, queue, armed, takeovers>>

\* spawn_queued_subagent: pop the oldest, register, tell the UI with a
\* try_send that a full channel refuses, spawn.
SpawnQueued ==
    /\ mpc = "spawn"
    /\ mpc' = "drain"
    /\ LET d == Head(queue) IN
         /\ queue' = Tail(queue)
         /\ inFlight' = inFlight \cup {d}
         /\ SetStage(d, "running")
         /\ owner' = [owner EXCEPT ![d] = Main]
         /\ Send(Started(d)) \/ UNCHANGED chan
    /\ UNCHANGED <<turns, cancelled, token, killed, rows, armed, takeovers>>

HandleComplete(t) ==
    /\ Receive(Complete(t))
    /\ token' = NoTurn
    /\ UNCHANGED <<stage, owner, turns, cancelled, inFlight, killed, rows,
                   queue, armed, mpc, takeovers>>

\* The session is another process's now: cancel the turn, kill the
\* registered subagents under one lock ...
HandleTakenOver ==
    /\ Receive(TakenOver)
    /\ cancelled' = cancelled \cup ({token} \ {NoTurn})
    /\ Fire(inFlight)
    /\ mpc' = "clear"
    /\ UNCHANGED <<stage, owner, turns, token, inFlight, rows, queue, armed,
                   takeovers>>

\* ... and forget them, and the queue, under another.
ForgetAll ==
    /\ mpc = "clear"
    /\ rows' = {}
    /\ inFlight' = {}
    /\ queue' = <<>>
    /\ stage' = [d \in Dispatches |->
                   IF \E i \in 1..Len(queue) : queue[i] = d
                   THEN "dropped" ELSE stage[d]]
    /\ mpc' = "idle"
    /\ UNCHANGED <<owner, turns, cancelled, token, killed, chan, armed,
                   takeovers>>

\* A turn is spawned with fresh tokens (a submit, a wake, a queued message).
StartTurn(t) ==
    /\ mpc = "idle"
    /\ t \notin turns
    /\ ~InChan(Complete(t))
    /\ turns' = turns \cup {t}
    /\ cancelled' = cancelled \ {t}
    /\ token' = t
    /\ UNCHANGED <<stage, owner, inFlight, killed, chan, rows, queue, armed,
                   mpc, takeovers>>

\* Esc: cancel the turn, then force-stop it with every subagent; with no
\* turn, arm, then kill every subagent.
CancelTurn ==
    /\ mpc = "idle"
    /\ \/ /\ token # NoTurn /\ token \notin cancelled
          /\ cancelled' = cancelled \cup {token}
          /\ UNCHANGED <<killed, armed>>
       \/ /\ token # NoTurn /\ token \in cancelled
          /\ Fire(inFlight)
          /\ UNCHANGED <<cancelled, armed>>
       \/ /\ token = NoTurn /\ inFlight # {}
          /\ armed' = ~armed
          /\ Fire(IF armed THEN inFlight ELSE {})
          /\ UNCHANGED cancelled
    /\ UNCHANGED <<stage, owner, turns, token, inFlight, chan, rows, queue,
                   mpc, takeovers>>

\* The heartbeat finds the session claimed by another instance.
HeartbeatLost ==
    /\ takeovers < MaxTakeovers
    /\ takeovers' = takeovers + 1
    /\ Send(TakenOver)
    /\ UNCHANGED <<stage, owner, turns, cancelled, token, inFlight, killed,
                   rows, queue, armed, mpc>>

-----------------------------------------------------------------------------
DispatchStep(d) == PoolCheck(d) \/ SendQueued(d) \/ Announce(d) \/ SpawnDirect(d)

HandleMessage ==
    \/ \E d \in Dispatches : HandleStarted(d) \/ HandleQueued(d) \/ HandleResult(d)
    \/ \E t \in Turns : HandleComplete(t)
    \/ HandleTakenOver

MainStep == HandleMessage \/ DrainTest \/ SpawnQueued \/ ForgetAll

TurnStep ==
    \/ \E t \in Turns : \E d \in Dispatches : DispatchCall(t, d)
    \/ \E t \in Turns : \E targets \in SUBSET inFlight : CancelSubagent(t, targets)
    \/ \E t \in Turns : EndTurn(t)
    \/ \E d \in Dispatches : DispatchStep(d) \/ QueueResultLost(d)

PoolNext ==
    \/ TurnStep
    \/ MainStep
    \/ \E d \in Dispatches : Report(d)
    \/ \E t \in Turns : StartTurn(t)
    \/ CancelTurn
    \/ HeartbeatLost

PoolSpec == PoolInit /\ [][PoolNext]_poolVars

\* The main loop keeps polling its channel, a turn inside a tool call gets to
\* its end, and a subagent ends (the default idle and ceiling timeouts fire
\* its hard token).  Nothing makes the user, the model or another process act.
PoolFairness ==
    /\ WF_poolVars(MainStep)
    /\ \A d \in Dispatches : WF_poolVars(DispatchStep(d)) /\ WF_poolVars(Report(d))

FairPoolSpec == PoolSpec /\ PoolFairness

-----------------------------------------------------------------------------
(* Properties.                                                              *)

\* Every variable keeps its type.
PoolTypeOK ==
    /\ stage \in [Dispatches -> Stage]
    /\ owner \in [Dispatches -> Turns \cup {Main, NoTurn}]
    /\ turns \subseteq Turns
    /\ cancelled \subseteq Turns
    /\ token \in Turns \cup {NoTurn}
    /\ inFlight \subseteq Dispatches
    /\ killed \subseteq Dispatches
    /\ chan \in Seq(Message)
    /\ rows \subseteq Dispatches
    /\ queue \in Seq(Dispatches)
    /\ armed \in BOOLEAN
    /\ mpc \in {"idle", "drain", "spawn", "clear"}
    /\ takeovers \in Nat

\* The pool limit, as far as it holds: the registry is tested and updated
\* under separate locks, so each turn alive and the draining main loop can be
\* admitted on the same free slot, but never more than one of each.
PoolBound ==
    MaxConcurrent > 0 =>
        Cardinality(inFlight) <= MaxConcurrent + Cardinality(Turns)

\* No slot leaks: whatever occupies the registry still runs, or its result is
\* on its way to the handler that frees the slot.
SlotsHeldByLive ==
    \A d \in inFlight : stage[d] = "running" \/ InChan(Result(d))

\* No ghost row: a row of the display list, which is also the busy guard of
\* session and worktree switches, belongs to a subagent whose result is still
\* to come, so the guard cannot block for ever.
RowsWillClear ==
    \A d \in rows : \/ stage[d] \in {"announced", "running"}
                    \/ InChan(Result(d))

\* The duplicate guard, as far as it holds: of two registered subagents with
\* the same (agent, task) at least one came through the queue or they were
\* dispatched by different turns.
NoDirectDuplicate ==
    \A d, e \in inFlight :
        d # e /\ owner[d] = owner[e] /\ owner[d] # Main => TaskOf[d] # TaskOf[e]

\* Every slot is freed again.
SlotFreed == \A d \in Dispatches : d \in inFlight ~> d \notin inFlight

\* While anything is registered, the oldest queued dispatch gets its turn
\* (unless a takeover drops the queue).
QueueAdvances ==
    \A d \in Dispatches :
        (queue # <<>> /\ Head(queue) = d /\ inFlight # {}) ~> stage[d] # "queued"

\* dispatch_subagent's own description: "additional dispatches are queued and
\* start when a slot frees".
QueuedStarts == \A d \in Dispatches : stage[d] = "queued" ~> stage[d] # "queued"

=============================================================================
