------------------------------ MODULE ChatLoop ------------------------------
(***************************************************************************)
(* The main loop of one zoid process (main.rs) as what starts chat turns.  *)
(*                                                                         *)
(* A turn is started by the user's message, by one queued while a turn     *)
(* ran, by a subagent's result, by a wake that the model scheduled, by a   *)
(* wizard.  The loop handles one event at a time, the user's or the head   *)
(* of the AgentUpdate channel, and remembers in a few flags what to start  *)
(* later.  Turns, subagents, the wake watcher and the heartbeat send to    *)
(* the channel at any time; the session may be another process's, or be    *)
(* switched; the process may stop between any two steps and is started     *)
(* again from the event log.                                               *)
(*                                                                         *)
(* A turn is a task that may end, ask the loop for something, or dispatch  *)
(* a subagent (AgentTurn has its inside, SubagentPool the pool, the tokens *)
(* and Esc).  Wakes are named by their fire times, so the least is due     *)
(* first; the clock is counted in them.                                    *)
(***************************************************************************)
EXTENDS Naturals, Sequences, FiniteSets

CONSTANTS
    Sessions,       \* sessions of the working directory
    Turns,          \* chat turns that may be alive at the same time
    Subagents,      \* subagents that may run at the same time
    Capacity,       \* room in the channel (256): a sender waits when it is full
    LastWake,       \* bound: wakes 1..LastWake, the clock stops at LastWake
    MaxTakeovers,   \* bound: times another process takes the session over
    MaxWizards,     \* bound: wizard scans, updates and own-word answers
    MaxCrashes,     \* bound: times the process stops and is started again
    MaxRefusals,    \* bound: times the log refuses one of several cancels
    Nobody          \* neither turn nor subagent nor session

ASSUME ChatAssumption ==
    /\ IsFiniteSet(Turns)
    /\ {LastWake, MaxTakeovers, MaxWizards, MaxCrashes, MaxRefusals} \subseteq Nat
    /\ Capacity \in Nat \ {0}
    /\ Cardinality(Turns) > MaxTakeovers + MaxWizards
    /\ Nobody \notin Turns \cup Subagents \cup Sessions
    /\ Sessions # {}

VARIABLES
    up,             \* the process runs
    session,        \* App::session_id
    opened,         \* sessions that exist
    streaming,      \* App::streaming
    yielded,        \* App::yielded
    pendingMessage, \* App::pending_message is Some
    wakeDeferred,   \* App::wake_after_delegation
    live,           \* chat turns alive
    answerer,       \* App::pending_answer: the turn waiting for the user
    subs,           \* subagents running
    rows,           \* App::in_flight_subagents
    chan,           \* the AgentUpdate channel, oldest first
    clock,          \* the wakes up to it are due
    wakeState,      \* what the log says of each wake
    home,           \* the session whose log has it
    injected,       \* how often its note has been recorded
    pendingWakes,   \* App::pending_wakes
    next,           \* App::next_wake_tx: the watcher's deadline, or Never
    mpc,            \* where the main loop is inside drain_due_wakes
    firing,         \* the due wakes it has still to fire
    takeovers, wizards, crashes, refusals   \* so far

flagVars == <<streaming, yielded, pendingMessage, wakeDeferred>>
sessionVars == <<session, opened>>
logVars == <<wakeState, home, injected>>
drainVars == <<next, mpc, firing>>
boundVars == <<takeovers, wizards, crashes, refusals>>
chatVars == <<up, sessionVars, flagVars, live, answerer, subs, rows, chan,
              clock, logVars, pendingWakes, drainVars, boundVars>>

-----------------------------------------------------------------------------
Wakes == 1..LastWake
Never == 0
WakeState == {"none", "scheduled", "fired", "cancelled"}

Kind == {"Complete", "TakenOver", "WakeDue", "Started", "Result", "Schedule",
         "Cancel", "Ask", "Scan", "Update"}
Message == [type : Kind,
            who  : Turns \cup Subagents \cup {Nobody},
            wake : 0..LastWake]
Msg(k, x, w) == [type |-> k, who |-> x, wake |-> w]
Complete == Msg("Complete", Nobody, 0)
TakenOver == Msg("TakenOver", Nobody, 0)
WakeDue == Msg("WakeDue", Nobody, 0)

InChan(m) == \E i \in 1..Len(chan) : chan[i] = m
Send(m) == chan' = Append(chan, m)

\* The turn waits for the main loop or the user to answer it.
Blocked(t) == answerer = t \/ \E i \in 1..Len(chan) : chan[i].who = t

\* rebuild_pending_wakes
Unsettled(s) == {w \in Wakes : home[w] = s /\ wakeState[w] = "scheduled"}

\* earliest_fire_at
EarliestIn(W) == IF W = {} THEN Never
                 ELSE CHOOSE w \in W : \A v \in W : w <= v

\* spawn_turn
SpawnTurn == /\ live # Turns
             /\ live' = live \cup {CHOOSE t \in Turns : t \notin live}

\* Both at once: the turn is started as the one the main loop streams.
StreamTurn == streaming' = TRUE /\ SpawnTurn

\* drain_due_wakes up to the first append, over the pending set W and the
\* deadline d: a busy loop parks the watcher.
DrainWakes(W, d, busy) ==
    LET due == {w \in W : w <= clock} IN
    /\ next' = IF due # {} /\ busy THEN Never ELSE d
    /\ firing' = IF busy THEN {} ELSE due
    /\ mpc' = IF firing' = {} THEN "idle" ELSE "inject"

-----------------------------------------------------------------------------
ChatInit ==
    /\ up = TRUE
    /\ session \in Sessions
    /\ opened = {session}
    /\ streaming = FALSE /\ yielded = FALSE
    /\ pendingMessage = FALSE /\ wakeDeferred = FALSE
    /\ live = {} /\ answerer = Nobody
    /\ subs = {} /\ rows = {}
    /\ chan = <<>>
    /\ clock = 0
    /\ wakeState = [w \in Wakes |-> "none"]
    /\ home = [w \in Wakes |-> Nobody]
    /\ injected = [w \in Wakes |-> 0]
    /\ pendingWakes = {}
    /\ next = Never /\ mpc = "idle" /\ firing = {}
    /\ takeovers = 0 /\ wizards = 0 /\ crashes = 0 /\ refusals = 0

-----------------------------------------------------------------------------
(* The turns, the subagents and the other tasks.                            *)

TaskSends(m) ==
    /\ up /\ Len(chan) < Capacity
    /\ Send(m)
    /\ UNCHANGED <<up, sessionVars, flagVars, answerer, rows, clock, logVars,
                   pendingWakes, drainVars>>

\* schedule_wake of a wake no other request has named.
AskSchedule(t, w) ==
    /\ t \in live /\ ~Blocked(t)
    /\ wakeState[w] = "none"
    /\ \A i \in 1..Len(chan) : chan[i].type = "Schedule" => chan[i].wake # w
    /\ TaskSends(Msg("Schedule", t, w))
    /\ UNCHANGED <<live, subs, boundVars>>

\* cancel_wake of one wake, or of all (0).
AskCancel(t, w) ==
    /\ t \in live /\ ~Blocked(t)
    /\ TaskSends(Msg("Cancel", t, w))
    /\ UNCHANGED <<live, subs, boundVars>>

\* The mapping a wizard's turn proposes is put to the user.
AskUser(t) ==
    /\ t \in live /\ ~Blocked(t)
    /\ TaskSends(Msg("Ask", t, 0))
    /\ UNCHANGED <<live, subs, boundVars>>

\* dispatch_subagent: the row's message goes out before the task starts.
Dispatch(t, s) ==
    /\ t \in live /\ ~Blocked(t)
    /\ s \notin subs \cup rows
    /\ \A i \in 1..Len(chan) : chan[i].who # s
    /\ subs' = subs \cup {s}
    /\ TaskSends(Msg("Started", s, 0))
    /\ UNCHANGED <<live, boundVars>>

FinishSubagent(s) ==
    /\ s \in subs
    /\ subs' = subs \ {s}
    /\ TaskSends(Msg("Result", s, 0))
    /\ UNCHANGED <<live, boundVars>>

\* Whatever its end, a turn sends TurnComplete last.
EndTurn(t) ==
    /\ t \in live /\ ~Blocked(t)
    /\ live' = live \ {t}
    /\ TaskSends(Complete)
    /\ UNCHANGED <<subs, boundVars>>

\* The watcher's deadline has passed.  It would ring again and again until it
\* is re-armed; bound: one ring is in the channel at a time.
Ring ==
    /\ next # Never /\ next <= clock
    /\ ~InChan(WakeDue)
    /\ TaskSends(WakeDue)
    /\ UNCHANGED <<live, subs, boundVars>>

\* The heartbeat finds that another process has claimed the session.
HeartbeatLost ==
    /\ takeovers < MaxTakeovers
    /\ takeovers' = takeovers + 1
    /\ TaskSends(TakenOver)
    /\ UNCHANGED <<live, subs, wizards, crashes, refusals>>

\* A repository asked for by :mode import or :mode update has been fetched.
WizardFetched(k) ==
    /\ wizards < MaxWizards
    /\ wizards' = wizards + 1
    /\ TaskSends(Msg(k, Nobody, 0))
    /\ UNCHANGED <<live, subs, takeovers, crashes, refusals>>

Tick ==
    /\ clock < LastWake
    /\ clock' = clock + 1
    /\ UNCHANGED <<up, sessionVars, flagVars, live, answerer, subs, rows, chan,
                   logVars, pendingWakes, drainVars, boundVars>>

-----------------------------------------------------------------------------
(* The main loop: the head of the channel.                                  *)

Ready == up /\ mpc = "idle"

Receive(k) ==
    /\ Ready
    /\ chan # <<>>
    /\ Head(chan).type = k
    /\ chan' = Tail(chan)

\* Mutant: the end of a turn does not look for wakes.
HandleCompleteNoDrain ==
    /\ Receive("Complete")
    /\ answerer' = Nobody
    /\ pendingMessage' = FALSE
    /\ wakeDeferred' = FALSE
    /\ \/ ~yielded /\ (pendingMessage \/ wakeDeferred) /\ StreamTurn
       \/ /\ ~(~yielded /\ (pendingMessage \/ wakeDeferred))
          /\ streaming' = FALSE
          /\ UNCHANGED live
    /\ UNCHANGED <<up, sessionVars, yielded, subs, rows, clock, logVars,
                   pendingWakes, drainVars, boundVars>>

\* Mutant: a queued message takes the deferred result's turn, not its flag.
HandleCompleteMessageOnly ==
    /\ Receive("Complete")
    /\ answerer' = Nobody
    /\ pendingMessage' = FALSE
    /\ \/ ~yielded /\ pendingMessage /\ StreamTurn
       \/ yielded /\ streaming' = FALSE /\ UNCHANGED live
       \/ ~yielded /\ ~pendingMessage /\ streaming' = FALSE /\ UNCHANGED live
    /\ UNCHANGED <<up, sessionVars, yielded, wakeDeferred, subs, rows, clock,
                   logVars, pendingWakes, drainVars, boundVars>>

\* Flags down; then the queued message, unless the session is gone; else the
\* deferred result; else the wakes that came due.
HandleComplete ==
    /\ Receive("Complete")
    /\ answerer' = Nobody
    /\ pendingMessage' = FALSE
    /\ wakeDeferred' = FALSE
    /\ \/ /\ ~yielded /\ (pendingMessage \/ wakeDeferred)
          /\ StreamTurn
          /\ UNCHANGED drainVars
       \/ /\ ~(~yielded /\ (pendingMessage \/ wakeDeferred))
          /\ streaming' = FALSE
          /\ DrainWakes(pendingWakes, next, yielded)
          /\ UNCHANGED live
    /\ UNCHANGED <<up, sessionVars, yielded, subs, rows, clock, logVars,
                   pendingWakes, boundVars>>

\* A takeover also forgets the display rows, so that no busy guard is left.
HandleTakenOver ==
    /\ Receive("TakenOver")
    /\ streaming' = FALSE
    /\ yielded' = TRUE
    /\ rows' = {}
    /\ UNCHANGED <<up, sessionVars, pendingMessage, wakeDeferred, live,
                   answerer, subs, clock, logVars, pendingWakes, drainVars,
                   boundVars>>

HandleStarted ==
    /\ Receive("Started")
    /\ rows' = rows \cup {Head(chan).who}
    /\ UNCHANGED <<up, sessionVars, flagVars, live, answerer, subs, clock,
                   logVars, pendingWakes, drainVars, boundVars>>

\* Mutant: a result is deferred even if the session is gone.
HandleResultAlways ==
    /\ Receive("Result")
    /\ rows' = rows \ {Head(chan).who}
    /\ \/ ~streaming /\ ~yielded /\ wakeDeferred' = FALSE /\ StreamTurn
       \/ (streaming \/ yielded) /\ wakeDeferred' = TRUE /\ UNCHANGED <<streaming, live>>
    /\ UNCHANGED <<up, sessionVars, yielded, pendingMessage, answerer, subs,
                   clock, logVars, pendingWakes, drainVars, boundVars>>

\* plan_delegation_wake: at once if idle, else when the turn completes.
HandleResult ==
    /\ Receive("Result")
    /\ rows' = rows \ {Head(chan).who}
    /\ \/ /\ ~streaming /\ ~yielded
          /\ wakeDeferred' = FALSE
          /\ StreamTurn
       \/ /\ streaming \/ yielded
          /\ wakeDeferred' = (wakeDeferred \/ ~yielded)
          /\ UNCHANGED <<streaming, live>>
    /\ UNCHANGED <<up, sessionVars, yielded, pendingMessage, answerer, subs,
                   clock, logVars, pendingWakes, drainVars, boundVars>>

\* Mutant: wakes are fired beside a running turn.
HandleWakeDueBusy ==
    /\ Receive("WakeDue")
    /\ DrainWakes(pendingWakes, next, yielded)
    /\ UNCHANGED <<up, sessionVars, flagVars, live, answerer, subs, rows,
                   clock, logVars, pendingWakes, boundVars>>

HandleWakeDue ==
    /\ Receive("WakeDue")
    /\ DrainWakes(pendingWakes, next, streaming \/ yielded)
    /\ UNCHANGED <<up, sessionVars, flagVars, live, answerer, subs, rows,
                   clock, logVars, pendingWakes, boundVars>>

\* handle_schedule_wake: refused (the cap, the delay, the same note, a full
\* disk), or recorded in the log of the session that is loaded now.
HandleSchedule ==
    /\ Receive("Schedule")
    /\ LET w == Head(chan).wake IN
         \/ UNCHANGED <<logVars, pendingWakes, next>>
         \/ /\ w > clock
            /\ wakeState' = [wakeState EXCEPT ![w] = "scheduled"]
            /\ home' = [home EXCEPT ![w] = session]
            /\ pendingWakes' = pendingWakes \cup {w}
            /\ next' = EarliestIn(pendingWakes')
            /\ UNCHANGED injected
    /\ UNCHANGED <<up, sessionVars, flagVars, live, answerer, subs, rows,
                   clock, mpc, firing, boundVars>>

\* Mutant: the wakes are forgotten before their cancels are recorded.
HandleCancelForgets ==
    /\ Receive("Cancel")
    /\ LET named == Head(chan).wake
           targets == {w \in pendingWakes : named = 0 \/ w = named}
       IN \E done \in SUBSET targets :
            /\ wakeState' = [w \in Wakes |-> IF w \in done THEN "cancelled"
                                             ELSE wakeState[w]]
            /\ pendingWakes' = pendingWakes \ targets
            /\ next' = EarliestIn(pendingWakes')
            /\ done = targets \/ refusals < MaxRefusals
    /\ refusals' = MaxRefusals
    /\ UNCHANGED <<up, sessionVars, flagVars, live, answerer, subs, rows,
                   clock, home, injected, mpc, firing, takeovers, wizards,
                   crashes>>

\* handle_cancel_wake records the cancels in the order of the fire times; if
\* the log refuses one, those before it stand and the watcher is not re-armed.
HandleCancel ==
    /\ Receive("Cancel")
    /\ LET named == Head(chan).wake
           targets == {w \in pendingWakes : named = 0 \/ w = named}
       IN \E done \in SUBSET targets :
            /\ \A w \in targets, v \in done : w < v => w \in done
            /\ wakeState' = [w \in Wakes |-> IF w \in done THEN "cancelled"
                                             ELSE wakeState[w]]
            /\ pendingWakes' = pendingWakes \ done
            /\ \/ /\ done = targets
                  /\ next' = EarliestIn(pendingWakes')
                  /\ UNCHANGED refusals
               \/ /\ done # targets /\ refusals < MaxRefusals
                  /\ refusals' = refusals + 1
                  /\ UNCHANGED next
    /\ UNCHANGED <<up, sessionVars, flagVars, live, answerer, subs, rows,
                   clock, home, injected, mpc, firing, takeovers, wizards,
                   crashes>>

\* The reply of a question that was still open is dropped.
HandleAsk ==
    /\ Receive("Ask")
    /\ answerer' = Head(chan).who
    /\ UNCHANGED <<up, sessionVars, flagVars, live, subs, rows, clock, logVars,
                   pendingWakes, drainVars, boundVars>>

\* The wizards' first turns are started whatever else runs, the one of an
\* update without the loop's streaming it.
HandleWizard ==
    /\ \/ Receive("Scan") /\ StreamTurn
       \/ Receive("Update") /\ SpawnTurn /\ UNCHANGED streaming
    /\ UNCHANGED <<up, sessionVars, yielded, pendingMessage, wakeDeferred,
                   answerer, subs, rows, clock, logVars, pendingWakes,
                   drainVars, boundVars>>

-----------------------------------------------------------------------------
(* The main loop: firing the due wakes, the earliest first.                 *)

\* Mutant: the wake is settled before its note is recorded.
InjectNoteLast ==
    /\ up /\ mpc = "inject"
    /\ mpc' = "mark"
    /\ LET w == EarliestIn(firing) IN
         /\ pendingWakes' = pendingWakes \ {w}
         /\ wakeState' = [wakeState EXCEPT ![w] = "fired"]
    /\ UNCHANGED <<up, sessionVars, flagVars, live, answerer, subs, rows, chan,
                   clock, injected, home, next, firing, boundVars>>

\* The note is recorded as a UserMessage ...
InjectNote ==
    /\ up /\ mpc = "inject"
    /\ mpc' = "mark"
    /\ LET w == EarliestIn(firing) IN
         /\ pendingWakes' = pendingWakes \ {w}
         /\ injected' = [injected EXCEPT ![w] = @ + 1]
    /\ UNCHANGED <<up, sessionVars, flagVars, live, answerer, subs, rows, chan,
                   clock, wakeState, home, next, firing, boundVars>>

\* Mutant: the loop is left after the first wake.
MarkFirstFired ==
    /\ up /\ mpc = "mark"
    /\ LET w == EarliestIn(firing) IN
         /\ wakeState' = [wakeState EXCEPT ![w] = "fired"]
         /\ firing' = firing \ {w}
    /\ mpc' = "idle"
    /\ next' = EarliestIn(pendingWakes)
    /\ StreamTurn
    /\ UNCHANGED <<up, sessionVars, yielded, pendingMessage, wakeDeferred,
                   answerer, subs, rows, chan, clock, home, injected,
                   pendingWakes, boundVars>>

\* Mutant: only the note is recorded.
MarkUnrecorded ==
    /\ up /\ mpc = "mark"
    /\ firing' = firing \ {EarliestIn(firing)}
    /\ \/ firing' # {} /\ mpc' = "inject" /\ UNCHANGED <<next, streaming, live>>
       \/ firing' = {} /\ mpc' = "idle" /\ next' = EarliestIn(pendingWakes) /\ StreamTurn
    /\ UNCHANGED <<up, sessionVars, yielded, pendingMessage, wakeDeferred,
                   answerer, subs, rows, chan, clock, logVars, pendingWakes,
                   boundVars>>

\* ... and then the wake as fired; after the last one the turn is started.
MarkFired ==
    /\ up /\ mpc = "mark"
    /\ LET w == EarliestIn(firing) IN
         /\ wakeState' = [wakeState EXCEPT ![w] = "fired"]
         /\ firing' = firing \ {w}
    /\ \/ /\ firing' # {}
          /\ mpc' = "inject"
          /\ UNCHANGED <<next, streaming, live>>
       \/ /\ firing' = {}
          /\ mpc' = "idle"
          /\ next' = EarliestIn(pendingWakes)
          /\ StreamTurn
    /\ UNCHANGED <<up, sessionVars, yielded, pendingMessage, wakeDeferred,
                   answerer, subs, rows, chan, clock, home, injected,
                   pendingWakes, boundVars>>

-----------------------------------------------------------------------------
(* The user.                                                                *)

Submit ==
    /\ Ready /\ ~yielded
    /\ \/ streaming /\ pendingMessage' = TRUE /\ UNCHANGED <<streaming, live>>
       \/ ~streaming /\ StreamTurn /\ UNCHANGED pendingMessage
    /\ UNCHANGED <<up, sessionVars, yielded, wakeDeferred, answerer, subs,
                   rows, chan, clock, logVars, pendingWakes, drainVars,
                   boundVars>>

\* The question is answered, or aborted: the turn gets on.
Answer ==
    /\ Ready /\ answerer # Nobody
    /\ answerer' = Nobody
    /\ UNCHANGED <<up, sessionVars, flagVars, live, subs, rows, chan, clock,
                   logVars, pendingWakes, drainVars, boundVars>>

\* An answer in the user's own words becomes a message of its own, which the
\* top of the loop flushes into a turn beside the one that asked.
Adjust ==
    /\ Ready /\ answerer # Nobody
    /\ wizards < MaxWizards
    /\ wizards' = wizards + 1
    /\ answerer' = Nobody
    /\ SpawnTurn
    /\ UNCHANGED <<up, sessionVars, flagVars, subs, rows, chan, clock, logVars,
                   pendingWakes, drainVars, takeovers, crashes, refusals>>

\* Sessions are switched only when nothing streams and no row is shown.
Switch(s) ==
    /\ Ready /\ ~streaming /\ rows = {}
    /\ session' = s
    /\ opened' = opened \cup {s}
    /\ yielded' = FALSE
    /\ pendingMessage' = FALSE
    /\ pendingWakes' = Unsettled(s)
    /\ UNCHANGED <<up, streaming, wakeDeferred, live, answerer, subs, rows,
                   chan, clock, logVars, boundVars>>

NewSession(s) ==
    /\ s \notin opened
    /\ Switch(s)
    /\ next' = EarliestIn(pendingWakes')
    /\ UNCHANGED <<mpc, firing>>

\* The wakes of the picked session are drained before `yielded' is cleared.
SessionPick(s) ==
    /\ s \in opened
    /\ Switch(s)
    /\ DrainWakes(Unsettled(s), EarliestIn(Unsettled(s)), yielded)

-----------------------------------------------------------------------------
(* The process stops, by a crash, an error that leaves run() or a quit, and *)
(* everything but the log is gone.                                          *)
Stop ==
    /\ up /\ crashes < MaxCrashes
    /\ up' = FALSE
    /\ crashes' = crashes + 1
    /\ streaming' = FALSE /\ yielded' = FALSE
    /\ pendingMessage' = FALSE /\ wakeDeferred' = FALSE
    /\ live' = {} /\ answerer' = Nobody
    /\ subs' = {} /\ rows' = {}
    /\ chan' = <<>>
    /\ pendingWakes' = {}
    /\ next' = Never /\ mpc' = "idle" /\ firing' = {}
    /\ UNCHANGED <<sessionVars, clock, logVars, takeovers, wizards, refusals>>

\* Boot into a session, rebuild its pending wakes, catch up on those due.
Boot(s) ==
    /\ ~up
    /\ up' = TRUE
    /\ session' = s
    /\ opened' = opened \cup {s}
    /\ pendingWakes' = Unsettled(s)
    /\ DrainWakes(Unsettled(s), EarliestIn(Unsettled(s)), FALSE)
    /\ UNCHANGED <<flagVars, live, answerer, subs, rows, chan, clock, logVars,
                   boundVars>>

-----------------------------------------------------------------------------
TaskStep ==
    \/ \E t \in Turns :
         \/ \E w \in Wakes : AskSchedule(t, w)
         \/ \E w \in 0..LastWake : AskCancel(t, w)
         \/ AskUser(t)
         \/ \E s \in Subagents : Dispatch(t, s)
         \/ EndTurn(t)
    \/ \E s \in Subagents : FinishSubagent(s)
    \/ Ring \/ HeartbeatLost
    \/ \E k \in {"Scan", "Update"} : WizardFetched(k)

HandleMessage ==
    \/ HandleComplete \/ HandleTakenOver
    \/ HandleStarted \/ HandleResult
    \/ HandleWakeDue \/ HandleSchedule \/ HandleCancel
    \/ HandleAsk \/ HandleWizard

MainStep == HandleMessage \/ InjectNote \/ MarkFired

UserStep ==
    \/ Submit \/ Answer \/ Adjust
    \/ \E s \in Sessions : NewSession(s) \/ SessionPick(s)

ChatNext ==
    \/ TaskStep \/ MainStep \/ UserStep
    \/ Tick
    \/ Stop
    \/ \E s \in Sessions : Boot(s)

ChatSpec == ChatInit /\ [][ChatNext]_chatVars

\* The main loop polls.  A turn that waits for nobody ends some time: it may
\* make a bounded number of calls, and the channel serves its senders in turn.
ChatFairness ==
    /\ WF_chatVars(MainStep)
    /\ \A t \in Turns : SF_chatVars(EndTurn(t))

FairChatSpec == ChatSpec /\ ChatFairness

-----------------------------------------------------------------------------
(* Properties.                                                              *)

ChatTypeOK ==
    /\ {up, streaming, yielded, pendingMessage, wakeDeferred} \subseteq BOOLEAN
    /\ session \in opened /\ opened \subseteq Sessions
    /\ live \subseteq Turns /\ answerer \in live \cup {Nobody}
    /\ subs \subseteq Subagents /\ rows \subseteq Subagents
    /\ chan \in Seq(Message)
    /\ clock \in 0..LastWake /\ next \in 0..LastWake
    /\ wakeState \in [Wakes -> WakeState]
    /\ home \in [Wakes -> Sessions \cup {Nobody}]
    /\ injected \in [Wakes -> Nat]
    /\ pendingWakes \subseteq Wakes
    /\ mpc \in {"idle", "inject", "mark"}
    /\ firing \subseteq Wakes
    /\ mpc = "idle" <=> firing = {}
    /\ {takeovers, wizards, crashes, refusals} \subseteq Nat

Busy == live # {} \/ InChan(Complete)

\* Whatever waits for a turn's end (a queued message, a subagent's result, the
\* loop's own `streaming') has a turn whose end is still to come, so that the
\* loop is never left busy with nothing.
WaitsForATurn == streaming \/ pendingMessage \/ wakeDeferred => Busy

\* "Rebuilt from the event log on load; mutated by schedule/cancel/fire": the
\* pending wakes are those the log of the loaded session calls for.
WakesMatchLog == Ready => pendingWakes = Unsettled(session)

\* Unless the session was taken over or a wizard was used, the next turn is
\* started only after the end of the one before was handled.
OneTurn ==
    takeovers = 0 /\ wizards = 0 =>
        /\ Cardinality(live) <= 1
        /\ live # {} => ~InChan(Complete) /\ streaming

\* "The wakes stay pending and the `TurnComplete' drain fires them once the turn
\* ends": the watcher is set, has rung, or a turn's end is still to come.  (Not
\* so after a takeover: a yielded process that picks a session drains it before
\* it clears `yielded', and parks the watcher.)
WakesAttended ==
    Ready /\ pendingWakes # {} =>
        \/ Busy \/ yielded
        \/ next # Never /\ next <= EarliestIn(pendingWakes)
        \/ InChan(WakeDue)

\* So it is, unless the session was taken over or a cancel failed halfway.
WakesAttendedAtHome == takeovers = 0 /\ refusals = 0 => WakesAttended

\* A wake is injected again only after a crash came between its two records.
OncePerCrash == \A w \in Wakes : injected[w] <= 1 + crashes

\* A subagent's result that arrived while a turn ran reaches a turn, unless
\* the turn waits for the user for ever.
ResultsReachATurn ==
    <>[](answerer # Nobody) \/ (wakeDeferred ~> ~wakeDeferred)

Ledger == INSTANCE WakeLedger WITH state <- wakeState

\* The log's wakes are settled only once injected, and stay cancelled.
WakesKept == Ledger!LedgerSpec

=============================================================================
