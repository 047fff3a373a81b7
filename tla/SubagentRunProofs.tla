-------------------------- MODULE SubagentRunProofs --------------------------
(***************************************************************************)
(* Proofs about SubagentRun, for every set of tool calls and every limit,  *)
(* with either deadline, both or none.                                     *)
(***************************************************************************)
EXTENDS SubagentRun, AgentTurnProofs

\* Whoever is about to fire the token has seen to it that there is a reason,
\* so there is one once it has fired and once it has been seen to have fired.
ReasonInv ==
    /\ timer = "breached" => reason # "none"
    /\ killer = "marked" => reason # "none"
    /\ hard => reason # "none"
    /\ seenHard => hard

\* What the task has done by each of its phases.
PhaseInv ==
    /\ task # "turn" => pc = "ended"
    /\ report # "none" <=> task \in {"settled", "reported"}
    /\ report = "none" => named = "none" /\ worktree \in {"none", "open"}

\* The types of what SubagentRun adds to the turn.
TaskTypes ==
    /\ task \in {"turn", "returned", "settled", "reported"}
    /\ spoken \in BOOLEAN
    /\ timer \in {"watching", "breached", "off"}
    /\ killer \in {"idle", "marked"}
    /\ reason \in {"none", "idle", "ceiling", "killed"}
    /\ seenHard \in BOOLEAN
    /\ report \in {"none", "ok", "flawed", "failed", "aborted"}
    /\ named \in {"none", "idle", "ceiling", "killed"}
    /\ worktree \in {"none", "open", "kept", "dropped"}

RunInv == /\ IInv
          /\ TaskTypes
          /\ ReasonInv
          /\ PhaseInv
          /\ AbortNamed
          /\ OkNeverErased

-----------------------------------------------------------------------------
(* A subagent's run is a turn's run, and more steps that leave the turn.    *)

\* Each step of the task is a step of its turn or leaves the turn alone.
LEMMA RunStepIsTurnStep == [RunNext]_allVars => [TurnNext]_turnVars
  BY DEF RunNext, RunTurn, AbandonedOutlives, Supervise, TimerBreach,
         TimerFires, TimerStops, KillMark, KillFire, Returns, Settle, Report,
         FireToken, allVars, TurnNext, TurnStep

\* The turn inside a subagent behaves as AgentTurn specifies, so whatever is
\* proved of a turn holds of a subagent's.
THEOREM RunImplementsTurn == RunSpec => TurnSpec
  <1>1. RunInit => TurnInit
    BY DEF RunInit
  <1>2. [RunNext]_allVars => [TurnNext]_turnVars
    BY RunStepIsTurnStep
  <1> QED BY <1>1, <1>2, PTL DEF RunSpec, TurnSpec

-----------------------------------------------------------------------------
(* Every step of the task, the timer and the killers.                       *)

\* An ended turn stays ended as it did.
LEMMA EndIsFinal ==
    ASSUME pc = "ended", [TurnNext]_turnVars
    PROVE  pc' = "ended" /\ outcome' = outcome
  <1>1. CASE FireCancel \/ FireHard \/ UiCloses
    BY <1>1 DEF FireCancel, FireHard, UiCloses
  <1>2. ASSUME NEW c \in Calls, AbandonedEnds(c)
        PROVE  pc' = "ended" /\ outcome' = outcome
    BY <1>2 DEF AbandonedEnds
  <1>3. CASE UNCHANGED turnVars
    BY <1>3 DEF turnVars
  <1> QED
    BY <1>1, <1>2, <1>3
       DEF TurnNext, TurnStep, OwnStep, StreamEnds, AfterStream, Answered, StopAtTop,
           Request, StreamCloses, StreamErrs, StreamText, NarrationCap, StreamCall, ContextRetry,
           StreamError, NudgeEmpty, FinalAnswer, StartBatch, HitCap, Streaming,
           AbortStream, AbortBatch, Drain, EndAborted, EndBatch, Takes, Refuse,
           EmitTool, AskFor, AskApproval, ApprovalUnsendable, StartTool,
           Approved, Denied, ApprovalAborted, Replied, AskAborted, ToolReturns,
           ToolInterrupted, CheckAfterTool, TurnFails

\* The turn fires no token of its own.
LEMMA TurnFiresNothing == TurnStep \/ StreamText => hard' = hard
  BY DEF TurnStep, OwnStep, StreamEnds, AfterStream, Answered, StopAtTop,
         Request, StreamCloses, StreamErrs, StreamText, NarrationCap, StreamCall, ContextRetry, StreamError,
         NudgeEmpty, FinalAnswer, StartBatch, HitCap, AbortStream, AbortBatch,
         Drain, EndAborted, EndBatch, Refuse, EmitTool, AskFor, AskApproval,
         ApprovalUnsendable, StartTool, Approved, Denied, ApprovalAborted,
         Replied, AskAborted, ToolReturns, ToolInterrupted, CheckAfterTool,
         TurnFails, AbandonedEnds, tokenVars

\* Firing the token leaves the turn where it is.
LEMMA FiringFires == FireToken => hard' /\ pc' = pc /\ outcome' = outcome
  BY DEF FireToken, FireHard, turnVars

\* A subagent starts in the invariant.
LEMMA RunInitInv == RunInit => RunInv
  BY InitInv
     DEF RunInit, RunInv, TaskTypes, ReasonInv, PhaseInv, AbortNamed,
         OkNeverErased, TurnInit

\* Every step of task, turn, timer and killers keeps the invariant.
LEMMA RunNextInv == RunInv /\ [RunNext]_allVars => RunInv'
  <1> SUFFICES ASSUME RunInv, [RunNext]_allVars PROVE RunInv'
    OBVIOUS
  <1>1. IInv' /\ (pc = "ended" => pc' = "ended" /\ outcome' = outcome)
    BY RunStepIsTurnStep, InvNext, EndIsFinal DEF RunInv
  <1> USE DEF RunInv, TaskTypes, ReasonInv, PhaseInv, AbortNamed, OkNeverErased
  <1>2. CASE RunTurn
    <2>1. /\ task = "turn" /\ hard' = hard
          /\ UNCHANGED <<task, timer, killer, reason, seenHard, report, named, worktree>>
          /\ spoken' = TRUE \/ spoken' = spoken
      BY <1>2, TurnFiresNothing DEF RunTurn
    <2>2. TaskTypes'
      BY <2>1
    <2>3. ReasonInv'
      BY <2>1
    <2>4. PhaseInv' /\ AbortNamed' /\ OkNeverErased'
      BY <2>1
    <2> QED BY <1>1, <2>2, <2>3, <2>4
  <1>3. CASE AbandonedOutlives
    BY <1>1, <1>3 DEF AbandonedOutlives, AbandonedEnds, runVars, tokenVars
  <1>4. CASE TimerBreach
    BY <1>1, <1>4 DEF TimerBreach, FirstReason, Reason, turnVars
  <1>5. CASE TimerFires
    BY <1>1, <1>5, FiringFires DEF TimerFires
  <1>6. CASE TimerStops
    BY <1>1, <1>6 DEF TimerStops, turnVars
  <1>7. CASE KillMark
    BY <1>1, <1>7 DEF KillMark, FirstReason, turnVars
  <1>8. CASE KillFire
    BY <1>1, <1>8, FiringFires DEF KillFire
  <1>9. CASE Returns
    <2>1. hard \in BOOLEAN /\ hard' = hard /\ seenHard' = hard
      BY <1>9 DEF Returns, turnVars, IInv, TurnTypeOK
    <2>2. TaskTypes' /\ PhaseInv' /\ AbortNamed' /\ OkNeverErased'
      BY <1>1, <1>9, <2>1 DEF Returns, turnVars
    <2>3. ReasonInv'
      BY <1>9, <2>1 DEF Returns
    <2> QED BY <1>1, <2>2, <2>3
  <1>10. CASE Settle
    BY <1>1, <1>10 DEF Settle, turnVars
  <1>11. CASE Report
    BY <1>1, <1>11 DEF Report, turnVars
  <1>12. CASE UNCHANGED allVars
    BY <1>1, <1>12 DEF allVars, turnVars, runVars
  <1> QED
    BY <1>2, <1>3, <1>4, <1>5, <1>6, <1>7, <1>8, <1>9, <1>10, <1>11, <1>12
       DEF RunNext, Supervise

\* The inductive invariant holds throughout every subagent's run.
THEOREM RunInvariant == RunSpec => []RunInv
  <1>1. RunInit => RunInv
    BY RunInitInv
  <1>2. RunInv /\ [RunNext]_allVars => RunInv'
    BY RunNextInv
  <1> QED BY <1>1, <1>2, PTL DEF RunSpec

-----------------------------------------------------------------------------
(* The theorems.                                                            *)

\* Every variable of a subagent's run keeps its type.
THEOREM RunTypeCorrect == RunSpec => []RunTypeOK
  <1>1. RunInv => RunTypeOK
    BY DEF RunInv, IInv, TaskTypes, RunTypeOK
  <1> QED BY <1>1, RunInvariant, PTL

\* However the timer and the killers race, an aborted report gives the reason
\* that was written first, and there is one.
THEOREM AbortsAreNamed == RunSpec => []AbortNamed
  <1>1. RunInv => AbortNamed
    BY DEF RunInv
  <1> QED BY <1>1, RunInvariant, PTL

\* Work a turn returned is reported and kept, whenever the token fires.
THEOREM ReturnedWorkIsKept == RunSpec => []OkNeverErased
  <1>1. RunInv => OkNeverErased
    BY DEF RunInv
  <1> QED BY <1>1, RunInvariant, PTL

\* No tool still writes into a worktree that is committed, unless the turn was
\* cut short.
THEOREM CommitsAreQuiet == RunSpec => []CommittedTreeQuiet
  <1>1. RunInv => CommittedTreeQuiet
    <2> SUFFICES ASSUME RunInv, worktree = "kept", outcome # "aborted"
                 PROVE  running = {}
      BY DEF CommittedTreeQuiet
    <2>1. pc = "ended" /\ outcome # "failed"
      BY DEF RunInv, PhaseInv, OkNeverErased, TaskTypes
    <2> QED BY <2>1 DEF RunInv, IInv, AloneInv
  <1> QED BY <1>1, RunInvariant, PTL

=============================================================================
