------------------------------ MODULE AgentTurn ------------------------------
(***************************************************************************)
(* One agent turn (run_agent_turn_cancellable in agent.rs): the loop that  *)
(* streams a model reply, runs the batch of tool calls in it and asks the  *)
(* model again, until a reply without calls, a limit, an error or a cancel.*)
(*                                                                         *)
(* The turn is one task; around it the provider streams, tools run, the    *)
(* user and the main loop reply to questions, and two tokens fire: the     *)
(* graceful one (`cancel', never in a subagent) and the hard one (`hard',  *)
(* in a chat turn only after the other).  Where the code reads a token is  *)
(* where it is read here; nowhere else does it matter.                     *)
(*                                                                         *)
(* Text, token counts, compaction and eviction leave no trace in this      *)
(* model; calls are given by the model in any order, each with its own id. *)
(***************************************************************************)
EXTENDS Naturals, Sequences, FiniteSets

CONSTANTS
    Calls,              \* the tool calls the model may make in this turn
    KindOf,             \* the tool kind of each
    Headless,           \* TRUE for a subagent's turn
    MaxIterations,      \* config.max_iterations / MAX_TOOL_ITERATIONS
    MaxContextRetries,  \* MAX_CONTEXT_RETRIES; 0 with eviction disabled
    MaxEmptyRetries,    \* MAX_EMPTY_RETRIES
    NoCall

\* "emitting" tools answer on the spot; "dispatch" is the emitting one that
\* starts a subagent; "relayed" ones wait for the main loop's reply, "feedback"
\* and "ask" for the user's; the rest run outside the turn's task, "shell" being
\* the local tool that the gate may want approved and that can be killed.
Kind == {"emitting", "dispatch", "relayed", "feedback", "ask",
         "local", "shell", "network", "mcp"}

\* A subagent is given no MCP manager and no interactive tool.
ASSUME TurnAssumption ==
    /\ IsFiniteSet(Calls)
    /\ NoCall \notin Calls
    /\ KindOf \in [Calls -> Kind]
    /\ Headless \in BOOLEAN
    /\ Headless => \A c \in Calls : KindOf[c] \in {"emitting", "local", "shell", "network"}
    /\ MaxIterations \in Nat
    /\ MaxContextRetries \in Nat
    /\ MaxEmptyRetries \in Nat

VARIABLES
    pc,             \* where the turn's task is
    cancel,         \* the graceful token
    hard,           \* the hard token
    uiGone,         \* the AgentUpdate receiver has been dropped
    issued,         \* ToolCall events in the log
    results,        \* how many ToolResult events each call has
    output,         \* the last of them
    pending,        \* calls of this sub-turn not yet taken up, in order
    cur,            \* the call taken up
    running,        \* tools executing, abandoned ones included
    produced,       \* sub_turn_produced_content
    toolSeen,       \* tool_call_seen_this_sub_turn
    dispatched,     \* dispatched_this_turn
    iterations,
    contextRetries,
    emptyRetries,
    outcome         \* "none" until decided

turnVars == <<pc, cancel, hard, uiGone, issued, results, output, pending, cur,
              running, produced, toolSeen, dispatched, iterations,
              contextRetries, emptyRetries, outcome>>

\* What only the calls' bookkeeping, the stream and the limits touch.
callVars   == <<issued, results, output, pending, cur, running>>
streamVars == <<produced, toolSeen, dispatched>>
limitVars  == <<iterations, contextRetries, emptyRetries>>
tokenVars  == <<cancel, hard, uiGone>>

Place == {"top", "stream", "closed", "erred", "batch", "approval", "reply", "run",
          "check", "drain", "ended"}
Output == {"none", "ok", "error", "skipped", "killed", "aborted"}
Outcome == {"none", "completed", "empty", "aborted", "narration_capped",
            "error", "cap", "failed"}

Stopped == cancel \/ hard
Unanswered == {c \in issued : results[c] = 0}
InBatch == {pending[i] : i \in 1..Len(pending)}

-----------------------------------------------------------------------------
TurnInit ==
    /\ pc = "top"
    /\ cancel = FALSE /\ hard = FALSE /\ uiGone = FALSE
    /\ issued = {}
    /\ results = [c \in Calls |-> 0]
    /\ output = [c \in Calls |-> "none"]
    /\ pending = <<>>
    /\ cur = NoCall
    /\ running = {}
    /\ produced = FALSE /\ toolSeen = FALSE /\ dispatched = FALSE
    /\ iterations = 0 /\ contextRetries = 0 /\ emptyRetries = 0
    /\ outcome = "none"

\* A ToolResult event is appended.
Answer(c, out) ==
    /\ results' = [results EXCEPT ![c] = @ + 1]
    /\ output' = [output EXCEPT ![c] = out]

\* The turn's function returns: the calls it still holds are forgotten, and
\* TurnComplete is sent.
End(o) ==
    /\ pc' = "ended"
    /\ outcome' = o
    /\ pending' = <<>>
    /\ cur' = NoCall

-----------------------------------------------------------------------------
(* Around the turn.                                                         *)

FireCancel ==
    /\ ~Headless /\ ~cancel
    /\ cancel' = TRUE
    /\ UNCHANGED <<pc, hard, uiGone, outcome, callVars, streamVars, limitVars>>

FireHard ==
    /\ Headless \/ cancel
    /\ ~hard
    /\ hard' = TRUE
    /\ UNCHANGED <<pc, cancel, uiGone, outcome, callVars, streamVars, limitVars>>

\* The main loop exits with the turn alive.
UiCloses ==
    /\ ~uiGone
    /\ uiGone' = TRUE
    /\ UNCHANGED <<pc, cancel, hard, outcome, callVars, streamVars, limitVars>>

\* An abandoned local tool ends on its own: nothing waits for it.
AbandonedEnds(c) ==
    /\ c \in running /\ c # cur
    /\ running' = running \ {c}
    /\ UNCHANGED <<pc, outcome, issued, results, output, pending, cur,
                   streamVars, limitVars, tokenVars>>

-----------------------------------------------------------------------------
(* A sub-turn: the request and its stream.                                  *)

\* Top of the loop: stop, or shrink the context to fit and ask the model.
StopAtTop ==
    /\ pc = "top" /\ Stopped
    /\ End("aborted")
    /\ UNCHANGED <<issued, results, output, running, streamVars, limitVars,
                   tokenVars>>

Request ==
    /\ pc = "top" /\ ~Stopped
    /\ pc' = "stream"
    /\ pending' = <<>>
    /\ produced' = FALSE /\ toolSeen' = FALSE
    /\ UNCHANGED <<outcome, issued, results, output, cur, running, dispatched,
                   limitVars, tokenVars>>

\* The select is biased: a fired token wins over the provider's next event.
Streaming == pc = "stream" /\ ~Stopped

\* A Truncated event only warns and usage is only counted: no step of theirs.
StreamText ==
    /\ Streaming
    /\ produced' = TRUE
    /\ UNCHANGED <<pc, outcome, callVars, toolSeen, dispatched, limitVars,
                   tokenVars>>

\* Text after a dispatch, past its budget, with no tool call before it.
NarrationCap ==
    /\ Streaming /\ dispatched /\ ~toolSeen
    /\ produced' = TRUE
    /\ pc' = "drain" /\ outcome' = "narration_capped"
    /\ UNCHANGED <<callVars, toolSeen, dispatched, limitVars, tokenVars>>

StreamCall(c) ==
    /\ Streaming /\ c \notin issued
    /\ issued' = issued \cup {c}
    /\ pending' = Append(pending, c)
    /\ produced' = TRUE /\ toolSeen' = TRUE
    /\ UNCHANGED <<pc, outcome, results, output, cur, running, dispatched,
                   limitVars, tokenVars>>

\* The provider is done, or reports an error.  The turn then waits for its task
\* to end, whatever the tokens say.
StreamCloses ==
    /\ Streaming
    /\ pc' = "closed"
    /\ UNCHANGED <<outcome, callVars, streamVars, limitVars, tokenVars>>

StreamErrs ==
    /\ Streaming
    /\ pc' = "erred"
    /\ UNCHANGED <<outcome, callVars, streamVars, limitVars, tokenVars>>

\* Mutant: the retries are counted down, from nothing.
ContextRetryCountsDown ==
    /\ pc = "erred" /\ contextRetries < MaxContextRetries
    /\ contextRetries' = contextRetries - 1
    /\ pc' = "top"
    /\ pending' = <<>>
    /\ UNCHANGED <<outcome, issued, results, output, cur, running, streamVars,
                   iterations, emptyRetries, tokenVars>>

\* A context-length error forces an eviction wave and a new request; the calls
\* this stream has brought are dropped with it.
ContextRetry ==
    /\ pc = "erred" /\ contextRetries < MaxContextRetries
    /\ contextRetries' = contextRetries + 1
    /\ pc' = "top"
    /\ pending' = <<>>
    /\ UNCHANGED <<outcome, issued, results, output, cur, running, streamVars,
                   iterations, emptyRetries, tokenVars>>

StreamError ==
    /\ pc = "erred"
    /\ End("error")
    /\ UNCHANGED <<issued, results, output, running, streamVars, limitVars,
                   tokenVars>>

\* Mutant: the nudges are not counted.
NudgeUncounted ==
    /\ pc = "closed" /\ pending = <<>> /\ ~produced
    /\ emptyRetries < MaxEmptyRetries
    /\ pc' = "top"
    /\ UNCHANGED <<outcome, callVars, streamVars, limitVars, tokenVars>>

\* The stream was empty: nudge the model, back off (cut short by a token),
\* ask again.
NudgeEmpty ==
    /\ pc = "closed" /\ pending = <<>> /\ ~produced
    /\ emptyRetries < MaxEmptyRetries
    /\ emptyRetries' = emptyRetries + 1
    /\ pc' = "top"
    /\ UNCHANGED <<outcome, callVars, streamVars, iterations, contextRetries,
                   tokenVars>>

\* It brought no calls: the turn's last reply.
FinalAnswer ==
    /\ pc = "closed" /\ pending = <<>>
    /\ produced \/ emptyRetries = MaxEmptyRetries
    /\ End(IF produced THEN "completed" ELSE "empty")
    /\ UNCHANGED <<issued, results, output, running, streamVars, limitVars,
                   tokenVars>>

\* It brought calls: run them, unless there were too many rounds.
StartBatch ==
    /\ pc = "closed" /\ pending # <<>>
    /\ iterations' = iterations + 1
    /\ iterations < MaxIterations
    /\ pc' = "batch"
    /\ UNCHANGED <<outcome, callVars, streamVars, contextRetries, emptyRetries,
                   tokenVars>>

HitCap ==
    /\ pc = "closed" /\ pending # <<>>
    /\ iterations' = iterations + 1
    /\ iterations >= MaxIterations
    /\ End("cap")
    /\ UNCHANGED <<issued, results, output, running, streamVars,
                   contextRetries, emptyRetries, tokenVars>>

\* A token fires while streaming: the calls parsed so far are answered.
AbortStream ==
    /\ pc = "stream" /\ Stopped
    /\ pc' = "drain" /\ outcome' = "aborted"
    /\ UNCHANGED <<callVars, streamVars, limitVars, tokenVars>>

-----------------------------------------------------------------------------
(* The batch.                                                               *)

\* Only the graceful token is looked at between two calls.
AbortBatch ==
    /\ pc = "batch" /\ pending # <<>> /\ cancel
    /\ pc' = "drain" /\ outcome' = "aborted"
    /\ UNCHANGED <<callVars, streamVars, limitVars, tokenVars>>

\* Every remaining call is answered "[skipped: turn aborted]"; then the end.
Drain ==
    /\ pc = "drain" /\ pending # <<>>
    /\ Answer(Head(pending), "skipped")
    /\ pending' = Tail(pending)
    /\ UNCHANGED <<pc, outcome, issued, cur, running, streamVars, limitVars,
                   tokenVars>>

EndAborted ==
    /\ pc = "drain" /\ pending = <<>>
    /\ End(outcome)
    /\ UNCHANGED <<issued, results, output, running, streamVars, limitVars,
                   tokenVars>>

\* The batch is done: compact, and ask the model again.
EndBatch ==
    /\ pc = "batch" /\ pending = <<>>
    /\ pc' = "top"
    /\ UNCHANGED <<outcome, callVars, streamVars, limitVars, tokenVars>>

Takes(c) == pc = "batch" /\ pending # <<>> /\ ~cancel /\ c = Head(pending)

\* The gate denies the call, its arguments are wrong or its directory is gone.
Refuse(c) ==
    /\ Takes(c)
    /\ Answer(c, "error")
    /\ pending' = Tail(pending)
    /\ UNCHANGED <<pc, outcome, issued, cur, running, streamVars, limitVars,
                   tokenVars>>

EmitTool(c) ==
    /\ Takes(c) /\ KindOf[c] \in {"emitting", "dispatch"}
    /\ Answer(c, "ok")
    /\ pending' = Tail(pending)
    /\ dispatched' = (dispatched \/ KindOf[c] = "dispatch")
    /\ UNCHANGED <<pc, outcome, issued, cur, running, produced, toolSeen,
                   limitVars, tokenVars>>

\* A question goes to the user, or a request to the main loop.
AskFor(c) ==
    /\ Takes(c) /\ KindOf[c] \in {"relayed", "feedback", "ask"}
    /\ pc' = "reply" /\ cur' = c
    /\ pending' = Tail(pending)
    /\ UNCHANGED <<outcome, issued, results, output, running, streamVars,
                   limitVars, tokenVars>>

\* The gate wants a dangerous command approved; in a subagent it denies it.
AskApproval(c) ==
    /\ Takes(c) /\ KindOf[c] = "shell" /\ ~Headless /\ ~uiGone
    /\ pc' = "approval" /\ cur' = c
    /\ pending' = Tail(pending)
    /\ UNCHANGED <<outcome, issued, results, output, running, streamVars,
                   limitVars, tokenVars>>

\* The approval cannot even be asked for: the rest of the batch is dropped.
ApprovalUnsendable(c) ==
    /\ Takes(c) /\ KindOf[c] = "shell" /\ ~Headless /\ uiGone
    /\ Answer(c, "aborted")
    /\ End("aborted")
    /\ UNCHANGED <<issued, running, streamVars, limitVars, tokenVars>>

StartTool(c) ==
    /\ Takes(c) /\ KindOf[c] \in {"local", "shell", "network", "mcp"}
    /\ pc' = "run" /\ cur' = c
    /\ pending' = Tail(pending)
    /\ running' = running \cup {c}
    /\ UNCHANGED <<outcome, issued, results, output, streamVars, limitVars,
                   tokenVars>>

\* Approved: on to the command itself, whatever the tokens say by now.
Approved ==
    /\ pc = "approval" /\ ~uiGone
    /\ pc' = "run"
    /\ running' = running \cup {cur}
    /\ UNCHANGED <<outcome, issued, results, output, pending, cur, streamVars,
                   limitVars, tokenVars>>

Denied ==
    /\ pc = "approval" /\ ~uiGone
    /\ Answer(cur, "error")
    /\ pc' = "batch" /\ cur' = NoCall
    /\ UNCHANGED <<outcome, issued, pending, running, streamVars, limitVars,
                   tokenVars>>

\* Mutant: the call stays in the batch, and is answered again by the drain.
ApprovalAbortedKeepsCall ==
    /\ pc = "approval"
    /\ Answer(cur, "aborted")
    /\ pc' = "drain" /\ outcome' = "aborted" /\ cur' = NoCall
    /\ pending' = <<cur>> \o pending
    /\ UNCHANGED <<issued, running, streamVars, limitVars, tokenVars>>

\* Esc on the question, or a receiver that goes away, drops the reply.
ApprovalAborted ==
    /\ pc = "approval"
    /\ Answer(cur, "aborted")
    /\ pc' = "drain" /\ outcome' = "aborted" /\ cur' = NoCall
    /\ UNCHANGED <<issued, pending, running, streamVars, limitVars, tokenVars>>

\* A reply, or for feedback and the main loop's requests also a lost one.
Replied ==
    /\ pc = "reply" /\ (KindOf[cur] = "ask" => ~uiGone)
    /\ \E out \in {"ok", "error"} : Answer(cur, out)
    /\ pc' = "batch" /\ cur' = NoCall
    /\ UNCHANGED <<outcome, issued, pending, running, streamVars, limitVars,
                   tokenVars>>

\* Mutant: an aborted question ends the turn without draining its batch.
AskAbortedEnds ==
    /\ pc = "reply" /\ KindOf[cur] = "ask"
    /\ Answer(cur, "aborted")
    /\ End("aborted")
    /\ UNCHANGED <<issued, running, streamVars, limitVars, tokenVars>>

\* Esc, a rejected mapping or a dropped reply.
AskAborted ==
    /\ pc = "reply" /\ KindOf[cur] = "ask"
    /\ Answer(cur, "aborted")
    /\ pc' = "drain" /\ outcome' = "aborted" /\ cur' = NoCall
    /\ UNCHANGED <<issued, pending, running, streamVars, limitVars, tokenVars>>

\* Mutant: no select races with the hard token, nor the MCP one with any.
InterruptedLate == KindOf[cur] # "mcp" /\ cancel

\* Mutant: only the second Esc interrupts a running tool.
InterruptedHard == hard

\* The tokens each select around a running tool races with.
Interrupted == IF KindOf[cur] = "mcp" THEN cancel ELSE Stopped

ToolReturns ==
    /\ pc = "run" /\ ~Interrupted
    /\ \E out \in {"ok", "error"} : Answer(cur, out)
    /\ running' = running \ {cur}
    /\ pc' = IF KindOf[cur] = "mcp" THEN "batch" ELSE "check"
    /\ cur' = NoCall
    /\ UNCHANGED <<outcome, issued, pending, streamVars, limitVars, tokenVars>>

\* A shell is killed, any other local tool abandoned; the futures of network
\* and MCP tools are dropped.  An MCP call that is cut short ends the turn.
ToolInterrupted ==
    /\ pc = "run" /\ Interrupted
    /\ Answer(cur, IF cancel THEN "skipped" ELSE "killed")
    /\ running' = IF KindOf[cur] = "local" THEN running ELSE running \ {cur}
    /\ IF KindOf[cur] = "mcp"
       THEN pc' = "drain" /\ outcome' = "aborted"
       ELSE pc' = "check" /\ UNCHANGED outcome
    /\ cur' = NoCall
    /\ UNCHANGED <<issued, pending, streamVars, limitVars, tokenVars>>

\* Mutant: after a tool only the graceful token is looked at.
CheckCancelOnly ==
    /\ pc = "check"
    /\ IF cancel THEN pc' = "drain" /\ outcome' = "aborted"
                 ELSE pc' = "batch" /\ UNCHANGED outcome
    /\ UNCHANGED <<callVars, streamVars, limitVars, tokenVars>>

\* After a local or network tool both tokens are looked at.
CheckAfterTool ==
    /\ pc = "check"
    /\ IF Stopped THEN pc' = "drain" /\ outcome' = "aborted"
                  ELSE pc' = "batch" /\ UNCHANGED outcome
    /\ UNCHANGED <<callVars, streamVars, limitVars, tokenVars>>

\* An event cannot be stored, or a tool's thread panics: the error is returned
\* from wherever the turn is.  The event may be the result of a local tool
\* just abandoned.
TurnFails ==
    /\ pc # "ended"
    /\ End("failed")
    /\ \/ running' = running \ {cur}
       \/ /\ pc = "run" /\ KindOf[cur] = "local" /\ Interrupted
          /\ UNCHANGED running
    /\ UNCHANGED <<issued, results, output, streamVars, limitVars, tokenVars>>

-----------------------------------------------------------------------------
\* Steps the turn takes alone.
OwnStep ==
    \/ StopAtTop \/ Request \/ AbortStream
    \/ AbortBatch \/ Drain \/ EndAborted \/ EndBatch
    \/ \E c \in Calls : \/ Refuse(c) \/ EmitTool(c) \/ AskFor(c)
                        \/ AskApproval(c) \/ ApprovalUnsendable(c)
                        \/ StartTool(c)
    \/ ToolInterrupted \/ CheckAfterTool

\* Steps after the provider's last event, once its task has ended.
AfterStream == StreamError \/ ContextRetry \/ NudgeEmpty \/ FinalAnswer
                 \/ StartBatch \/ HitCap

\* What ends the stream, whatever it brought.
StreamEnds == StreamCloses \/ StreamErrs \/ AfterStream

\* Steps another actor makes the turn take.
Answered == Approved \/ Denied \/ ApprovalAborted \/ Replied \/ AskAborted

\* Everything but the model's text, the tokens and the UI.
TurnStep ==
    \/ OwnStep \/ StreamEnds \/ Answered \/ ToolReturns \/ TurnFails
    \/ NarrationCap
    \/ \E c \in Calls : StreamCall(c) \/ AbandonedEnds(c)

TurnNext == TurnStep \/ StreamText \/ FireCancel \/ FireHard \/ UiCloses

TurnSpec == TurnInit /\ [][TurnNext]_turnVars

\* The turn's task is polled, and a provider's stream closes and its task ends
\* (its output is capped, its silence timed out).  A tool may never return, nor a user reply.
TurnFairness == WF_turnVars(OwnStep) /\ WF_turnVars(StreamEnds)

FairTurnSpec == TurnSpec /\ TurnFairness

-----------------------------------------------------------------------------
(* Properties.                                                              *)

TurnTypeOK ==
    /\ pc \in Place
    /\ cancel \in BOOLEAN /\ hard \in BOOLEAN /\ uiGone \in BOOLEAN
    /\ issued \subseteq Calls
    /\ results \in [Calls -> Nat]
    /\ output \in [Calls -> Output]
    /\ pending \in Seq(Calls)
    /\ cur \in Calls \cup {NoCall}
    /\ running \subseteq Calls
    /\ produced \in BOOLEAN /\ toolSeen \in BOOLEAN /\ dispatched \in BOOLEAN
    /\ iterations \in Nat /\ contextRetries \in Nat /\ emptyRetries \in Nat
    /\ outcome \in Outcome

\* No call is answered twice, or before it is made, on any of the paths that
\* drain a batch, and tools run for unanswered calls only, but for the local
\* tool a token made the turn abandon.
AnsweredOnce ==
    /\ \A c \in Calls : results[c] <= 1 /\ (results[c] = 1 => c \in issued)
    /\ \A c \in running : \/ c = cur /\ results[c] = 0
                          \/ /\ KindOf[c] = "local"
                             /\ outcome = "failed" \/ output[c] \in {"skipped", "killed"}

\* "No tool call is left unanswered" by a turn that ends of itself or by a
\* cancel, unless a context-length retry dropped the call or the UI is gone.
BalancedEnd ==
    /\ pc = "ended"
    /\ outcome \in {"completed", "empty", "aborted", "narration_capped"}
    /\ contextRetries = 0
    /\ ~uiGone
    => Unanswered = {}

\* The tools of a turn run one at a time, even when one is abandoned.
ToolsNeverOverlap == Cardinality(running) <= 1

Waiting == pc \in {"approval", "reply"}

\* Once a token has fired the turn ends, even if provider and tools hang,
\* unless it waits for ever for a reply.
StopEnds == <>[]Waiting \/ (Stopped ~> pc = "ended")

\* The retries and the cap are enough to end a turn that is not stuck in a
\* tool or a question.
TurnEnds == <>[](Waiting \/ pc = "run") \/ <>(pc = "ended")

=============================================================================
