----------------------------- MODULE SubagentRun -----------------------------
(***************************************************************************)
(* One background subagent from its spawn to its report.                   *)
(*                                                                         *)
(* The task of spawn_subagent.rs runs a headless agent turn (AgentTurn),   *)
(* then reconciles what it returned with the hard token, commits or drops  *)
(* the subagent's worktree and reports one DelegationResult.  Beside it a  *)
(* WakeTimer (wake_timer.rs) watches two deadlines, and Esc or the         *)
(* cancel_subagent tool may kill it (fire_subagent_kill in agent.rs).  Each*)
(* of these firers writes the shared abort reason and then fires the token.*)
(*                                                                         *)
(* The clock is not modelled: any step may take any time, so a deadline    *)
(* may pass between any two.  A subagent's graceful token never fires, its *)
(* context is never evicted, and the loss of the UI means nothing to it.   *)
(***************************************************************************)
EXTENDS AgentTurn

CONSTANTS
    Idle,       \* TRUE if [subagent] idle_timeout_secs > 0
    Ceiling     \* TRUE if [subagent] hard_timeout_secs > 0

ASSUME RunAssumption ==
    /\ Headless
    /\ MaxContextRetries = 0
    /\ Idle \in BOOLEAN
    /\ Ceiling \in BOOLEAN

VARIABLES
    task,       \* where the subagent's task is
    spoken,     \* the model's text is in the log
    timer,      \* where its WakeTimer is
    killer,     \* where fire_subagent_kill is
    reason,     \* abort_reason
    seenHard,   \* what the task read of the hard token
    report,     \* what the DelegationResult says
    named,      \* the abort reason in its summary
    worktree    \* the subagent's own worktree, if it has one

runVars == <<task, spoken, timer, killer, reason, seenHard, report, named,
                   worktree>>
allVars == <<turnVars, runVars>>

Reason == (IF Idle THEN {"idle"} ELSE {}) \cup (IF Ceiling THEN {"ceiling"} ELSE {})

-----------------------------------------------------------------------------
RunInit ==
    /\ TurnInit
    /\ task = "turn"
    /\ spoken = FALSE
    /\ timer = IF Reason = {} THEN "off" ELSE "watching"
    /\ killer = "idle"
    /\ reason = "none"
    /\ seenHard = FALSE
    /\ report = "none"
    /\ named = "none"
    /\ worktree \in {"none", "open"}

\* CancellationToken::cancel: firing twice is firing once.
FireToken == FireHard \/ (hard /\ UNCHANGED turnVars)

FirstReason(r) == reason' = IF reason = "none" THEN r ELSE reason

-----------------------------------------------------------------------------
(* The WakeTimer: on a breach it writes the reason, then fires; once the    *)
(* task says it is done it stops.                                           *)

TimerBreach ==
    /\ timer = "watching" /\ task = "turn"
    /\ timer' = "breached"
    /\ \E r \in Reason : FirstReason(r)
    /\ UNCHANGED <<turnVars, task, spoken, killer, seenHard, report, named,
                   worktree>>

TimerFires ==
    /\ timer = "breached"
    /\ timer' = "off"
    /\ FireToken
    /\ UNCHANGED <<task, spoken, killer, reason, seenHard, report, named,
                   worktree>>

TimerStops ==
    /\ timer = "watching" /\ task # "turn"
    /\ timer' = "off"
    /\ UNCHANGED <<turnVars, task, spoken, killer, reason, seenHard, report, named,
                   worktree>>

-----------------------------------------------------------------------------
(* fire_subagent_kill, for as long as the registry holds the handle.        *)

\* Mutant: the last reason wins.
KillMarkOverwrites ==
    /\ killer = "idle" /\ task # "reported"
    /\ killer' = "marked"
    /\ reason' = "killed"
    /\ UNCHANGED <<turnVars, task, spoken, timer, seenHard, report, named,
                   worktree>>

KillMark ==
    /\ killer = "idle" /\ task # "reported"
    /\ killer' = "marked"
    /\ FirstReason("killed")
    /\ UNCHANGED <<turnVars, task, spoken, timer, seenHard, report, named,
                   worktree>>

KillFire ==
    /\ killer = "marked"
    /\ killer' = "idle"
    /\ FireToken
    /\ UNCHANGED <<task, spoken, timer, reason, seenHard, report, named,
                   worktree>>

-----------------------------------------------------------------------------
(* The task.                                                                *)

\* run_subagent's turn.
RunTurn ==
    /\ task = "turn"
    /\ \/ TurnStep /\ UNCHANGED spoken
       \/ StreamText /\ spoken' = TRUE
    /\ UNCHANGED <<task, timer, killer, reason, seenHard, report, named,
                   worktree>>

\* A tool abandoned by the turn outlives it.
AbandonedOutlives ==
    /\ task # "turn"
    /\ \E c \in Calls : AbandonedEnds(c)
    /\ UNCHANGED runVars

\* The turn has returned: stop the timer and look at the token.
Returns ==
    /\ task = "turn" /\ pc = "ended"
    /\ task' = "returned"
    /\ seenHard' = hard
    /\ UNCHANGED <<turnVars, spoken, timer, killer, reason, report, named, worktree>>

\* distill: something was said, the last of it no warning (each of the other
\* outcomes ends on one), and no call errored or went unanswered.  The text
\* may still be empty, or followed by the warning that it was truncated.
Flawless ==
    /\ spoken
    /\ outcome \in {"completed", "aborted"}
    /\ Unanswered = {}
    /\ \A c \in Calls : output[c] \notin {"error", "killed"}

\* Mutant: whatever the turn returned is an abort if the token has fired.
SettleRelabels ==
    /\ task = "returned"
    /\ task' = "settled"
    /\ IF outcome # "failed" /\ ~seenHard
       THEN /\ report' \in IF Flawless THEN {"ok", "flawed"} ELSE {"flawed"}
            /\ worktree' = IF worktree = "open" THEN "kept" ELSE worktree
            /\ UNCHANGED named
       ELSE /\ report' = IF seenHard THEN "aborted" ELSE "failed"
            /\ named' = IF seenHard THEN reason ELSE "none"
            /\ worktree' = IF worktree = "open" THEN "dropped" ELSE worktree
    /\ UNCHANGED <<turnVars, spoken, timer, killer, reason, seenHard>>

\* Mutant: an abort is reported as its reason.
SettleMislabels ==
    /\ task = "returned"
    /\ task' = "settled"
    /\ report' = IF seenHard THEN reason ELSE "failed"
    /\ UNCHANGED <<turnVars, spoken, timer, killer, reason, seenHard, named, worktree>>

\* Mutant: whatever the subagent has said is worth its worktree.
SettleKeepsSpoken ==
    /\ task = "returned"
    /\ task' = "settled"
    /\ report' = IF spoken THEN "flawed" ELSE "failed"
    /\ worktree' = IF worktree = "open"
                   THEN IF spoken THEN "kept" ELSE "dropped"
                   ELSE worktree
    /\ UNCHANGED <<turnVars, spoken, timer, killer, reason, seenHard, named>>

\* reconcile_hard_cancel, the fate of the worktree, delegation_fields: a
\* result is kept whatever the token says, an error is relabelled if it fired.
Settle ==
    /\ task = "returned"
    /\ task' = "settled"
    /\ IF outcome # "failed"
       THEN /\ report' \in IF Flawless THEN {"ok", "flawed"} ELSE {"flawed"}
            /\ worktree' = IF worktree = "open" THEN "kept" ELSE worktree
            /\ UNCHANGED named
       ELSE /\ report' = IF seenHard THEN "aborted" ELSE "failed"
            /\ named' = IF seenHard THEN reason ELSE "none"
            /\ worktree' = IF worktree = "open" THEN "dropped" ELSE worktree
    /\ UNCHANGED <<turnVars, spoken, timer, killer, reason, seenHard>>

\* The DelegationResult is appended to the log and sent to the main loop.
Report ==
    /\ task = "settled"
    /\ task' = "reported"
    /\ UNCHANGED <<turnVars, spoken, timer, killer, reason, seenHard, report, named,
                   worktree>>

-----------------------------------------------------------------------------
Supervise == TimerBreach \/ TimerFires

RunNext ==
    \/ RunTurn \/ AbandonedOutlives
    \/ Supervise \/ TimerStops
    \/ KillMark \/ KillFire
    \/ Returns \/ Settle \/ Report

RunSpec == RunInit /\ [][RunNext]_allVars

\* The task is polled: its turn's own steps, and those after it; the timer
\* ticks.  A provider that has sent its last event ends; otherwise neither it
\* nor a tool has to do anything.
RunFairness ==
    /\ WF_allVars(task = "turn" /\ (OwnStep \/ AfterStream) /\ UNCHANGED runVars)
    /\ WF_allVars(Returns \/ Settle \/ Report)
    /\ WF_allVars(Supervise)

FairRunSpec == RunSpec /\ RunFairness

-----------------------------------------------------------------------------
(* Properties.                                                              *)

RunTypeOK ==
    /\ TurnTypeOK
    /\ task \in {"turn", "returned", "settled", "reported"}
    /\ spoken \in BOOLEAN
    /\ timer \in {"watching", "breached", "off"}
    /\ killer \in {"idle", "marked"}
    /\ reason \in {"none", "idle", "ceiling", "killed"}
    /\ seenHard \in BOOLEAN
    /\ report \in {"none", "ok", "flawed", "failed", "aborted"}
    /\ named \in {"none", "idle", "ceiling", "killed"}
    /\ worktree \in {"none", "open", "kept", "dropped"}

\* However the timer and the killers race, a report that says "aborted" gives
\* the reason that was written first, and there is one.
AbortNamed == report = "aborted" => named # "none" /\ named = reason

\* "An Ok result must always win": work the turn returned is reported and its
\* worktree kept, even if the token fires before the task looks at it, and
\* nothing is kept of a turn that failed.
OkNeverErased ==
    report # "none" =>
        /\ report \in {"ok", "flawed"} <=> outcome # "failed"
        /\ worktree # "none" => (worktree = "kept" <=> outcome # "failed")

\* Unless the turn was cut short, no tool of the subagent still writes into
\* the worktree when its changes are committed.
CommittedTreeQuiet == worktree = "kept" /\ outcome # "aborted" => running = {}

\* With a deadline set every subagent reports, even if the provider hangs in
\* its stream and every tool that is called hangs: what the pool's slots wait
\* for.
RunReports == Reason # {} => <>(task = "reported")

=============================================================================
