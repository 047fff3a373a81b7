--------------------------- MODULE AgentTurnProofs ---------------------------
(***************************************************************************)
(* Proofs about AgentTurn, for every set of tool calls of any kinds and    *)
(* every limit.                                                            *)
(***************************************************************************)
EXTENDS AgentTurn, FiniteSetTheorems, TLAPS

Elems(s) == {s[i] : i \in 1..Len(s)}
Distinct(s) == \A i, j \in 1..Len(s) : s[i] = s[j] => i = j

\* The calls waiting in the batch are different, made and not answered; so is
\* the one taken up, which is none of them.
HeldInv ==
    /\ Distinct(pending)
    /\ \A c \in Elems(pending) : c \in issued /\ results[c] = 0
    /\ cur # NoCall => cur \in issued /\ results[cur] = 0 /\ cur \notin Elems(pending)

\* An answered call was made, and only an answered call has an output.
ResultInv ==
    \A c \in Calls : /\ results[c] \in {0, 1}
                     /\ results[c] = 1 => c \in issued
                     /\ results[c] = 0 => output[c] = "none"

\* What executes is the call taken up or an abandoned local tool.
RunningInv ==
    \A c \in running : \/ c = cur /\ pc = "run"
                       \/ /\ KindOf[c] = "local"
                          /\ outcome = "failed" \/ output[c] \in {"skipped", "killed"}

\* Where a call can be taken up, and where none is held.
PlaceInv ==
    /\ cur # NoCall <=> pc \in {"approval", "reply", "run"}
    /\ pc \in {"top", "ended"} => pending = <<>>
    /\ outcome \in {"error", "cap", "failed"} => pc = "ended"

\* Unless the code has dropped calls, the unanswered ones are those held.
Dropped == \/ contextRetries # 0
           \/ outcome \in {"error", "cap", "failed"}
           \/ uiGone
OpenInv == ~Dropped => \A c \in Unanswered : c = cur \/ c \in Elems(pending)

\* One tool executes at most, and after an abandoned one no other is started.
AloneInv ==
    /\ \A c, d \in running : c = d
    /\ pc = "run" => cur \in running
    /\ running # {} => pc \in {"run", "check", "drain", "ended"}
    /\ running # {} /\ pc = "check" => Stopped
    /\ running # {} /\ pc \in {"drain", "ended"} => outcome \in {"aborted", "failed"}

IInv == /\ TurnTypeOK
        /\ HeldInv
        /\ ResultInv
        /\ RunningInv
        /\ PlaceInv
        /\ OpenInv
        /\ AloneInv

-----------------------------------------------------------------------------
(* The batch as a sequence of different calls.                              *)

\* Taking up the first call of a batch leaves the others, each once.
LEMMA TailElems ==
    ASSUME NEW S, NEW s \in Seq(S), s # <<>>, Distinct(s)
    PROVE  /\ Tail(s) \in Seq(S)
           /\ Head(s) \in S
           /\ Head(s) \in Elems(s)
           /\ Distinct(Tail(s))
           /\ Elems(Tail(s)) = Elems(s) \ {Head(s)}
  <1>1. /\ Tail(s) \in Seq(S)
        /\ Head(s) = s[1]
        /\ Len(s) \in Nat \ {0}
        /\ Len(Tail(s)) = Len(s) - 1
        /\ \A i \in 1..Len(Tail(s)) : Tail(s)[i] = s[i + 1]
    OBVIOUS
  <1>2. Head(s) \in S /\ Head(s) \in Elems(s)
    BY <1>1 DEF Elems
  <1>3. Distinct(Tail(s))
    BY <1>1 DEF Distinct
  <1>4. ASSUME NEW c \in Elems(Tail(s)) PROVE c \in Elems(s) \ {Head(s)}
    <2>1. PICK i \in 1..Len(Tail(s)) : c = Tail(s)[i]
      BY DEF Elems
    <2>2. i + 1 \in 1..Len(s) /\ c = s[i + 1] /\ i + 1 # 1 /\ 1 \in 1..Len(s)
      BY <1>1, <2>1
    <2> QED BY <1>1, <2>2 DEF Elems, Distinct
  <1>5. ASSUME NEW c \in Elems(s) \ {Head(s)} PROVE c \in Elems(Tail(s))
    <2>1. PICK i \in 1..Len(s) : c = s[i]
      BY DEF Elems
    <2>2. i # 1 /\ i - 1 \in 1..Len(Tail(s)) /\ Tail(s)[i - 1] = s[(i - 1) + 1]
      BY <1>1, <2>1
    <2> QED BY <2>1, <2>2 DEF Elems
  <1> QED BY <1>1, <1>2, <1>3, <1>4, <1>5

\* A call parsed from the stream joins the pending ones, each once.
LEMMA AppendElems ==
    ASSUME NEW S, NEW s \in Seq(S), NEW c \in S, c \notin Elems(s), Distinct(s)
    PROVE  /\ Append(s, c) \in Seq(S)
           /\ Distinct(Append(s, c))
           /\ Elems(Append(s, c)) = Elems(s) \cup {c}
  <1>1. /\ Append(s, c) \in Seq(S)
        /\ Len(s) \in Nat
        /\ Len(Append(s, c)) = Len(s) + 1
        /\ \A i \in 1..Len(s) : Append(s, c)[i] = s[i]
        /\ Append(s, c)[Len(s) + 1] = c
    OBVIOUS
  <1>2. \A i \in 1..(Len(s) + 1) : i \in 1..Len(s) \/ i = Len(s) + 1
    BY <1>1
  <1>3. Distinct(Append(s, c))
    BY <1>1, <1>2 DEF Distinct, Elems
  <1>4. Elems(Append(s, c)) = Elems(s) \cup {c}
    BY <1>1, <1>2 DEF Elems
  <1> QED BY <1>1, <1>3, <1>4

\* The empty batch is a batch.
LEMMA EmptySeq == \A S : <<>> \in Seq(S)
  OBVIOUS

\* An empty batch holds no call.
LEMMA EmptyElems == Elems(<<>>) = {} /\ Distinct(<<>>)
  BY DEF Elems, Distinct

-----------------------------------------------------------------------------
(* Types and places.                                                        *)

\* A turn starts in the invariant.
LEMMA InitInv == TurnInit => IInv
  <1> SUFFICES ASSUME TurnInit PROVE IInv
    OBVIOUS
  <1>1. TurnTypeOK
    BY EmptySeq DEF TurnInit, TurnTypeOK, Place, Output, Outcome
  <1>2. HeldInv
    BY EmptyElems DEF TurnInit, HeldInv
  <1>3. ResultInv /\ RunningInv /\ PlaceInv /\ AloneInv
    BY TurnAssumption DEF TurnInit, ResultInv, RunningInv, PlaceInv, AloneInv
  <1>4. OpenInv
    BY DEF TurnInit, OpenInv, Unanswered
  <1> QED BY <1>1, <1>2, <1>3, <1>4 DEF IInv

\* Every step of a turn keeps the variables' types.
LEMMA TypeNext ==
    ASSUME TurnTypeOK, PlaceInv, [TurnNext]_turnVars
    PROVE  TurnTypeOK'
  <1> USE TurnAssumption DEF TurnTypeOK, Place, Output, Outcome, callVars, streamVars,
             limitVars, tokenVars
  <1>1. CASE FireCancel
    BY <1>1 DEF FireCancel
  <1>2. CASE FireHard
    BY <1>2 DEF FireHard
  <1>3. CASE UiCloses
    BY <1>3 DEF UiCloses
  <1>4. CASE StopAtTop
    BY <1>4 DEF StopAtTop, End
  <1>5. CASE Request
    BY <1>5, EmptySeq DEF Request
  <1>6. CASE StreamText
    BY <1>6 DEF StreamText, Streaming
  <1>7. CASE NarrationCap
    BY <1>7 DEF NarrationCap, Streaming
  <1>8. CASE ContextRetry
    BY <1>8 DEF ContextRetry
  <1>9. CASE StreamError
    BY <1>9 DEF StreamError, End
  <1>10. CASE NudgeEmpty
    BY <1>10 DEF NudgeEmpty
  <1>11. CASE FinalAnswer
    BY <1>11 DEF FinalAnswer, End
  <1>12. CASE StartBatch
    BY <1>12 DEF StartBatch
  <1>13. CASE HitCap
    BY <1>13 DEF HitCap, End
  <1>14. CASE AbortStream
    BY <1>14 DEF AbortStream
  <1>15. CASE AbortBatch
    BY <1>15 DEF AbortBatch
  <1>16. CASE Drain
    BY <1>16 DEF Drain, Answer
  <1>17. CASE EndAborted
    BY <1>17 DEF EndAborted, End
  <1>18. CASE EndBatch
    BY <1>18 DEF EndBatch
  <1>19. CASE Approved
    BY <1>19 DEF PlaceInv, Approved
  <1>20. CASE Denied
    BY <1>20 DEF PlaceInv, Denied, Answer
  <1>21. CASE ApprovalAborted
    BY <1>21 DEF PlaceInv, ApprovalAborted, Answer
  <1>22. CASE Replied
    BY <1>22 DEF PlaceInv, Replied, Answer
  <1>23. CASE AskAborted
    BY <1>23 DEF PlaceInv, AskAborted, Answer
  <1>24. CASE ToolReturns
    BY <1>24 DEF PlaceInv, ToolReturns, Answer, Interrupted
  <1>25. CASE ToolInterrupted
    BY <1>25 DEF PlaceInv, ToolInterrupted, Answer, Interrupted
  <1>26. CASE CheckAfterTool
    BY <1>26 DEF CheckAfterTool
  <1>27. CASE TurnFails
    BY <1>27 DEF TurnFails, End, Interrupted
  <1>28. ASSUME NEW c \in Calls, AbandonedEnds(c) PROVE TurnTypeOK'
    BY <1>28 DEF AbandonedEnds
  <1>29. ASSUME NEW c \in Calls, StreamCall(c) PROVE TurnTypeOK'
    BY <1>29 DEF StreamCall, Streaming
  <1>30. ASSUME NEW c \in Calls, Refuse(c) PROVE TurnTypeOK'
    BY <1>30 DEF Refuse, Answer, Takes
  <1>31. ASSUME NEW c \in Calls, EmitTool(c) PROVE TurnTypeOK'
    BY <1>31 DEF EmitTool, Answer, Takes
  <1>32. ASSUME NEW c \in Calls, AskFor(c) PROVE TurnTypeOK'
    BY <1>32 DEF AskFor, Takes
  <1>33. ASSUME NEW c \in Calls, AskApproval(c) PROVE TurnTypeOK'
    BY <1>33 DEF AskApproval, Takes
  <1>34. ASSUME NEW c \in Calls, ApprovalUnsendable(c) PROVE TurnTypeOK'
    BY <1>34 DEF ApprovalUnsendable, End, Answer, Takes
  <1>35. ASSUME NEW c \in Calls, StartTool(c) PROVE TurnTypeOK'
    BY <1>35 DEF StartTool, Takes
  <1>36. CASE UNCHANGED turnVars
    BY <1>36 DEF turnVars
  <1>37. CASE StreamCloses
    BY <1>37 DEF StreamCloses, Streaming
  <1>38. CASE StreamErrs
    BY <1>38 DEF StreamErrs, Streaming
  <1> QED
    BY <1>1, <1>2, <1>3, <1>4, <1>5, <1>6, <1>7, <1>8, <1>9, <1>10,
       <1>11, <1>12, <1>13, <1>14, <1>15, <1>16, <1>17, <1>18,
       <1>19, <1>20, <1>21, <1>22, <1>23, <1>24, <1>25, <1>26,
       <1>27, <1>28, <1>29, <1>30, <1>31, <1>32, <1>33, <1>34,
       <1>35, <1>36, <1>37, <1>38
       DEF TurnNext, TurnStep, OwnStep, StreamEnds, AfterStream, Answered

\* Every step keeps a call held exactly at the awaits that hold one.
LEMMA PlaceNext ==
    ASSUME TurnTypeOK, HeldInv, PlaceInv, [TurnNext]_turnVars
    PROVE  PlaceInv'
  <1> USE TurnAssumption DEF TurnTypeOK, PlaceInv, callVars, streamVars, limitVars, tokenVars
  <1>1. CASE FireCancel
    BY <1>1 DEF FireCancel
  <1>2. CASE FireHard
    BY <1>2 DEF FireHard
  <1>3. CASE UiCloses
    BY <1>3 DEF UiCloses
  <1>4. CASE StopAtTop
    BY <1>4 DEF StopAtTop, End
  <1>5. CASE Request
    BY <1>5 DEF Request
  <1>6. CASE StreamText
    BY <1>6 DEF StreamText, Streaming
  <1>7. CASE NarrationCap
    BY <1>7 DEF NarrationCap, Streaming
  <1>8. CASE ContextRetry
    BY <1>8 DEF ContextRetry
  <1>9. CASE StreamError
    BY <1>9 DEF StreamError, End
  <1>10. CASE NudgeEmpty
    BY <1>10 DEF NudgeEmpty
  <1>11. CASE FinalAnswer
    BY <1>11 DEF FinalAnswer, End
  <1>12. CASE StartBatch
    BY <1>12 DEF StartBatch
  <1>13. CASE HitCap
    BY <1>13 DEF HitCap, End
  <1>14. CASE AbortStream
    BY <1>14 DEF AbortStream
  <1>15. CASE AbortBatch
    BY <1>15 DEF AbortBatch
  <1>16. CASE Drain
    BY <1>16 DEF Drain, Answer
  <1>17. CASE EndAborted
    BY <1>17 DEF EndAborted, End
  <1>18. CASE EndBatch
    BY <1>18 DEF EndBatch
  <1>19. CASE Approved
    BY <1>19 DEF Approved
  <1>20. CASE Denied
    BY <1>20 DEF Denied, Answer
  <1>21. CASE ApprovalAborted
    BY <1>21 DEF ApprovalAborted, Answer
  <1>22. CASE Replied
    BY <1>22 DEF Replied, Answer
  <1>23. CASE AskAborted
    BY <1>23 DEF AskAborted, Answer
  <1>24. CASE ToolReturns
    BY <1>24 DEF ToolReturns, Answer, Interrupted
  <1>25. CASE ToolInterrupted
    BY <1>25 DEF ToolInterrupted, Answer, Interrupted
  <1>26. CASE CheckAfterTool
    BY <1>26 DEF CheckAfterTool
  <1>27. CASE TurnFails
    BY <1>27 DEF TurnFails, End, Interrupted
  <1>28. ASSUME NEW c \in Calls, AbandonedEnds(c) PROVE PlaceInv'
    BY <1>28 DEF AbandonedEnds
  <1>29. ASSUME NEW c \in Calls, StreamCall(c) PROVE PlaceInv'
    BY <1>29 DEF StreamCall, Streaming
  <1>30. ASSUME NEW c \in Calls, Refuse(c) PROVE PlaceInv'
    BY <1>30 DEF Refuse, Answer, Takes
  <1>31. ASSUME NEW c \in Calls, EmitTool(c) PROVE PlaceInv'
    BY <1>31 DEF EmitTool, Answer, Takes
  <1>32. ASSUME NEW c \in Calls, AskFor(c) PROVE PlaceInv'
    BY <1>32 DEF AskFor, Takes
  <1>33. ASSUME NEW c \in Calls, AskApproval(c) PROVE PlaceInv'
    BY <1>33 DEF AskApproval, Takes
  <1>34. ASSUME NEW c \in Calls, ApprovalUnsendable(c) PROVE PlaceInv'
    BY <1>34 DEF ApprovalUnsendable, End, Answer, Takes
  <1>35. ASSUME NEW c \in Calls, StartTool(c) PROVE PlaceInv'
    BY <1>35 DEF StartTool, Takes
  <1>36. CASE UNCHANGED turnVars
    BY <1>36 DEF turnVars
  <1>37. CASE StreamCloses
    BY <1>37 DEF StreamCloses, Streaming
  <1>38. CASE StreamErrs
    BY <1>38 DEF StreamErrs, Streaming
  <1> QED
    BY <1>1, <1>2, <1>3, <1>4, <1>5, <1>6, <1>7, <1>8, <1>9, <1>10,
       <1>11, <1>12, <1>13, <1>14, <1>15, <1>16, <1>17, <1>18,
       <1>19, <1>20, <1>21, <1>22, <1>23, <1>24, <1>25, <1>26,
       <1>27, <1>28, <1>29, <1>30, <1>31, <1>32, <1>33, <1>34,
       <1>35, <1>36, <1>37, <1>38
       DEF TurnNext, TurnStep, OwnStep, StreamEnds, AfterStream, Answered

-----------------------------------------------------------------------------
(* The calls held, answered and executing.                                  *)

\* Every step keeps the held calls different, issued and unanswered.
LEMMA HeldNext ==
    ASSUME TurnTypeOK, HeldInv, ResultInv, PlaceInv, [TurnNext]_turnVars
    PROVE  HeldInv'
  <1> USE DEF HeldInv, PlaceInv, callVars, streamVars, limitVars, tokenVars
  <1>t. pending # <<>> =>
          /\ Head(pending) \in Calls /\ Head(pending) \in Elems(pending)
          /\ Distinct(Tail(pending))
          /\ Elems(Tail(pending)) = Elems(pending) \ {Head(pending)}
    BY TailElems DEF TurnTypeOK, HeldInv
  <1>a. \A c \in Calls : c \notin Elems(pending) =>
          /\ Distinct(Append(pending, c))
          /\ Elems(Append(pending, c)) = Elems(pending) \cup {c}
    BY AppendElems DEF TurnTypeOK, HeldInv
  <1>y. /\ issued \subseteq Calls /\ running \subseteq Calls
        /\ results \in [Calls -> Nat] /\ output \in [Calls -> Output]
        /\ cur \in Calls \cup {NoCall} /\ pending \in Seq(Calls)
        /\ NoCall \notin Calls
    BY TurnAssumption DEF TurnTypeOK
  <1>1. CASE FireCancel
    BY <1>1, <1>y DEF FireCancel
  <1>2. CASE FireHard
    BY <1>2, <1>y DEF FireHard
  <1>3. CASE UiCloses
    BY <1>3, <1>y DEF UiCloses
  <1>4. CASE StopAtTop
    BY <1>4, <1>y, EmptyElems DEF StopAtTop, End
  <1>5. CASE Request
    BY <1>5, <1>y, EmptyElems DEF Request
  <1>6. CASE StreamText
    BY <1>6, <1>y DEF StreamText, Streaming
  <1>7. CASE NarrationCap
    BY <1>7, <1>y DEF NarrationCap, Streaming
  <1>8. CASE ContextRetry
    BY <1>8, <1>y, EmptyElems DEF ContextRetry
  <1>9. CASE StreamError
    BY <1>9, <1>y, EmptyElems DEF StreamError, End
  <1>10. CASE NudgeEmpty
    BY <1>10, <1>y DEF NudgeEmpty
  <1>11. CASE FinalAnswer
    BY <1>11, <1>y, EmptyElems DEF FinalAnswer, End
  <1>12. CASE StartBatch
    BY <1>12, <1>y DEF StartBatch
  <1>13. CASE HitCap
    BY <1>13, <1>y, EmptyElems DEF HitCap, End
  <1>14. CASE AbortStream
    BY <1>14, <1>y DEF AbortStream
  <1>15. CASE AbortBatch
    BY <1>15, <1>y DEF AbortBatch
  <1>16. CASE Drain
    BY <1>16, <1>y, <1>t DEF Drain, Answer
  <1>17. CASE EndAborted
    BY <1>17, <1>y, EmptyElems DEF EndAborted, End
  <1>18. CASE EndBatch
    BY <1>18, <1>y DEF EndBatch
  <1>19. CASE Approved
    BY <1>19, <1>y DEF Approved
  <1>20. CASE Denied
    BY <1>20, <1>y DEF Denied, Answer
  <1>21. CASE ApprovalAborted
    BY <1>21, <1>y DEF ApprovalAborted, Answer
  <1>22. CASE Replied
    BY <1>22, <1>y DEF Replied, Answer
  <1>23. CASE AskAborted
    BY <1>23, <1>y DEF AskAborted, Answer
  <1>24. CASE ToolReturns
    BY <1>24, <1>y DEF ToolReturns, Answer, Interrupted
  <1>25. CASE ToolInterrupted
    BY <1>25, <1>y DEF ToolInterrupted, Answer, Interrupted
  <1>26. CASE CheckAfterTool
    BY <1>26, <1>y DEF CheckAfterTool
  <1>27. CASE TurnFails
    BY <1>27, <1>y, EmptyElems DEF TurnFails, End, Interrupted
  <1>28. ASSUME NEW c \in Calls, AbandonedEnds(c) PROVE HeldInv'
    BY <1>28, <1>y DEF AbandonedEnds
  <1>29. ASSUME NEW c \in Calls, StreamCall(c) PROVE HeldInv'
    <2>1. c \notin Elems(pending) /\ results[c] = 0 /\ cur # c
      BY <1>29, <1>y DEF StreamCall, ResultInv
    <2>2. Distinct(pending') /\ Elems(pending') = Elems(pending) \cup {c}
      BY <1>29, <1>a, <2>1 DEF StreamCall
    <2> QED BY <1>29, <1>y, <2>1, <2>2 DEF StreamCall
  <1>30. ASSUME NEW c \in Calls, Refuse(c) PROVE HeldInv'
    BY <1>30, <1>y, <1>t DEF Refuse, Answer, Takes
  <1>31. ASSUME NEW c \in Calls, EmitTool(c) PROVE HeldInv'
    BY <1>31, <1>y, <1>t DEF EmitTool, Answer, Takes
  <1>32. ASSUME NEW c \in Calls, AskFor(c) PROVE HeldInv'
    BY <1>32, <1>y, <1>t DEF AskFor, Takes
  <1>33. ASSUME NEW c \in Calls, AskApproval(c) PROVE HeldInv'
    BY <1>33, <1>y, <1>t DEF AskApproval, Takes
  <1>34. ASSUME NEW c \in Calls, ApprovalUnsendable(c) PROVE HeldInv'
    BY <1>34, <1>y, <1>t, EmptyElems DEF ApprovalUnsendable, End, Answer, Takes
  <1>35. ASSUME NEW c \in Calls, StartTool(c) PROVE HeldInv'
    BY <1>35, <1>y, <1>t DEF StartTool, Takes
  <1>36. CASE UNCHANGED turnVars
    BY <1>36 DEF turnVars
  <1>37. CASE StreamCloses
    BY <1>37, <1>y DEF StreamCloses, Streaming
  <1>38. CASE StreamErrs
    BY <1>38, <1>y DEF StreamErrs, Streaming
  <1> QED
    BY <1>1, <1>2, <1>3, <1>4, <1>5, <1>6, <1>7, <1>8, <1>9, <1>10,
       <1>11, <1>12, <1>13, <1>14, <1>15, <1>16, <1>17, <1>18,
       <1>19, <1>20, <1>21, <1>22, <1>23, <1>24, <1>25, <1>26,
       <1>27, <1>28, <1>29, <1>30, <1>31, <1>32, <1>33, <1>34,
       <1>35, <1>36, <1>37, <1>38
       DEF TurnNext, TurnStep, OwnStep, StreamEnds, AfterStream, Answered

\* No step answers a call twice or before it was issued.
LEMMA ResultNext ==
    ASSUME TurnTypeOK, HeldInv, ResultInv, PlaceInv, [TurnNext]_turnVars
    PROVE  ResultInv'
  <1> USE DEF HeldInv, ResultInv, PlaceInv, callVars, streamVars, limitVars, tokenVars
  <1>t. pending # <<>> =>
          /\ Head(pending) \in Calls /\ Head(pending) \in Elems(pending)
          /\ Distinct(Tail(pending))
          /\ Elems(Tail(pending)) = Elems(pending) \ {Head(pending)}
    BY TailElems DEF TurnTypeOK, HeldInv
  <1>y. /\ issued \subseteq Calls /\ running \subseteq Calls
        /\ results \in [Calls -> Nat] /\ output \in [Calls -> Output]
        /\ cur \in Calls \cup {NoCall} /\ pending \in Seq(Calls)
        /\ NoCall \notin Calls
    BY TurnAssumption DEF TurnTypeOK
  <1>1. CASE FireCancel
    BY <1>1, <1>y DEF FireCancel
  <1>2. CASE FireHard
    BY <1>2, <1>y DEF FireHard
  <1>3. CASE UiCloses
    BY <1>3, <1>y DEF UiCloses
  <1>4. CASE StopAtTop
    BY <1>4, <1>y DEF StopAtTop, End
  <1>5. CASE Request
    BY <1>5, <1>y DEF Request
  <1>6. CASE StreamText
    BY <1>6, <1>y DEF StreamText, Streaming
  <1>7. CASE NarrationCap
    BY <1>7, <1>y DEF NarrationCap, Streaming
  <1>8. CASE ContextRetry
    BY <1>8, <1>y DEF ContextRetry
  <1>9. CASE StreamError
    BY <1>9, <1>y DEF StreamError, End
  <1>10. CASE NudgeEmpty
    BY <1>10, <1>y DEF NudgeEmpty
  <1>11. CASE FinalAnswer
    BY <1>11, <1>y DEF FinalAnswer, End
  <1>12. CASE StartBatch
    BY <1>12, <1>y DEF StartBatch
  <1>13. CASE HitCap
    BY <1>13, <1>y DEF HitCap, End
  <1>14. CASE AbortStream
    BY <1>14, <1>y DEF AbortStream
  <1>15. CASE AbortBatch
    BY <1>15, <1>y DEF AbortBatch
  <1>16. CASE Drain
    BY <1>16, <1>y, <1>t DEF Drain, Answer
  <1>17. CASE EndAborted
    BY <1>17, <1>y DEF EndAborted, End
  <1>18. CASE EndBatch
    BY <1>18, <1>y DEF EndBatch
  <1>19. CASE Approved
    BY <1>19, <1>y DEF Approved
  <1>20. CASE Denied
    BY <1>20, <1>y DEF Denied, Answer
  <1>21. CASE ApprovalAborted
    BY <1>21, <1>y DEF ApprovalAborted, Answer
  <1>22. CASE Replied
    BY <1>22, <1>y DEF Replied, Answer
  <1>23. CASE AskAborted
    BY <1>23, <1>y DEF AskAborted, Answer
  <1>24. CASE ToolReturns
    BY <1>24, <1>y DEF ToolReturns, Answer, Interrupted
  <1>25. CASE ToolInterrupted
    BY <1>25, <1>y DEF ToolInterrupted, Answer, Interrupted
  <1>26. CASE CheckAfterTool
    BY <1>26, <1>y DEF CheckAfterTool
  <1>27. CASE TurnFails
    BY <1>27, <1>y DEF TurnFails, End, Interrupted
  <1>28. ASSUME NEW c \in Calls, AbandonedEnds(c) PROVE ResultInv'
    BY <1>28, <1>y DEF AbandonedEnds
  <1>29. ASSUME NEW c \in Calls, StreamCall(c) PROVE ResultInv'
    BY <1>29, <1>y DEF StreamCall, Streaming
  <1>30. ASSUME NEW c \in Calls, Refuse(c) PROVE ResultInv'
    BY <1>30, <1>y, <1>t DEF Refuse, Answer, Takes
  <1>31. ASSUME NEW c \in Calls, EmitTool(c) PROVE ResultInv'
    BY <1>31, <1>y, <1>t DEF EmitTool, Answer, Takes
  <1>32. ASSUME NEW c \in Calls, AskFor(c) PROVE ResultInv'
    BY <1>32, <1>y, <1>t DEF AskFor, Takes
  <1>33. ASSUME NEW c \in Calls, AskApproval(c) PROVE ResultInv'
    BY <1>33, <1>y, <1>t DEF AskApproval, Takes
  <1>34. ASSUME NEW c \in Calls, ApprovalUnsendable(c) PROVE ResultInv'
    BY <1>34, <1>y, <1>t DEF ApprovalUnsendable, End, Answer, Takes
  <1>35. ASSUME NEW c \in Calls, StartTool(c) PROVE ResultInv'
    BY <1>35, <1>y, <1>t DEF StartTool, Takes
  <1>36. CASE UNCHANGED turnVars
    BY <1>36 DEF turnVars
  <1>37. CASE StreamCloses
    BY <1>37, <1>y DEF StreamCloses, Streaming
  <1>38. CASE StreamErrs
    BY <1>38, <1>y DEF StreamErrs, Streaming
  <1> QED
    BY <1>1, <1>2, <1>3, <1>4, <1>5, <1>6, <1>7, <1>8, <1>9, <1>10,
       <1>11, <1>12, <1>13, <1>14, <1>15, <1>16, <1>17, <1>18,
       <1>19, <1>20, <1>21, <1>22, <1>23, <1>24, <1>25, <1>26,
       <1>27, <1>28, <1>29, <1>30, <1>31, <1>32, <1>33, <1>34,
       <1>35, <1>36, <1>37, <1>38
       DEF TurnNext, TurnStep, OwnStep, StreamEnds, AfterStream, Answered

\* No step answers a call that executes, other than by abandoning it.
LEMMA RunningNext ==
    ASSUME TurnTypeOK, HeldInv, ResultInv, RunningInv, PlaceInv, [TurnNext]_turnVars
    PROVE  RunningInv'
  <1> USE DEF HeldInv, ResultInv, RunningInv, PlaceInv, callVars, streamVars, limitVars, tokenVars
  <1>t. pending # <<>> =>
          /\ Head(pending) \in Calls /\ Head(pending) \in Elems(pending)
          /\ Distinct(Tail(pending))
          /\ Elems(Tail(pending)) = Elems(pending) \ {Head(pending)}
    BY TailElems DEF TurnTypeOK, HeldInv
  <1>y. /\ issued \subseteq Calls /\ running \subseteq Calls
        /\ results \in [Calls -> Nat] /\ output \in [Calls -> Output]
        /\ cur \in Calls \cup {NoCall} /\ pending \in Seq(Calls)
        /\ NoCall \notin Calls
    BY TurnAssumption DEF TurnTypeOK
  <1>1. CASE FireCancel
    BY <1>1, <1>y DEF FireCancel
  <1>2. CASE FireHard
    BY <1>2, <1>y DEF FireHard
  <1>3. CASE UiCloses
    BY <1>3, <1>y DEF UiCloses
  <1>4. CASE StopAtTop
    BY <1>4, <1>y DEF StopAtTop, End
  <1>5. CASE Request
    BY <1>5, <1>y DEF Request
  <1>6. CASE StreamText
    BY <1>6, <1>y DEF StreamText, Streaming
  <1>7. CASE NarrationCap
    BY <1>7, <1>y DEF NarrationCap, Streaming
  <1>8. CASE ContextRetry
    BY <1>8, <1>y DEF ContextRetry
  <1>9. CASE StreamError
    BY <1>9, <1>y DEF StreamError, End
  <1>10. CASE NudgeEmpty
    BY <1>10, <1>y DEF NudgeEmpty
  <1>11. CASE FinalAnswer
    BY <1>11, <1>y DEF FinalAnswer, End
  <1>12. CASE StartBatch
    BY <1>12, <1>y DEF StartBatch
  <1>13. CASE HitCap
    BY <1>13, <1>y DEF HitCap, End
  <1>14. CASE AbortStream
    BY <1>14, <1>y DEF AbortStream
  <1>15. CASE AbortBatch
    BY <1>15, <1>y DEF AbortBatch
  <1>16. CASE Drain
    BY <1>16, <1>y, <1>t DEF Drain, Answer
  <1>17. CASE EndAborted
    BY <1>17, <1>y DEF EndAborted, End
  <1>18. CASE EndBatch
    BY <1>18, <1>y DEF EndBatch
  <1>19. CASE Approved
    BY <1>19, <1>y DEF Approved
  <1>20. CASE Denied
    BY <1>20, <1>y DEF Denied, Answer
  <1>21. CASE ApprovalAborted
    BY <1>21, <1>y DEF ApprovalAborted, Answer
  <1>22. CASE Replied
    BY <1>22, <1>y DEF Replied, Answer
  <1>23. CASE AskAborted
    BY <1>23, <1>y DEF AskAborted, Answer
  <1>24. CASE ToolReturns
    BY <1>24, <1>y DEF ToolReturns, Answer, Interrupted
  <1>25. CASE ToolInterrupted
    BY <1>25, <1>y DEF ToolInterrupted, Answer, Interrupted
  <1>26. CASE CheckAfterTool
    BY <1>26, <1>y DEF CheckAfterTool
  <1>27. CASE TurnFails
    BY <1>27, <1>y DEF TurnFails, End, Interrupted
  <1>28. ASSUME NEW c \in Calls, AbandonedEnds(c) PROVE RunningInv'
    BY <1>28, <1>y DEF AbandonedEnds
  <1>29. ASSUME NEW c \in Calls, StreamCall(c) PROVE RunningInv'
    BY <1>29, <1>y DEF StreamCall, Streaming
  <1>30. ASSUME NEW c \in Calls, Refuse(c) PROVE RunningInv'
    BY <1>30, <1>y, <1>t DEF Refuse, Answer, Takes
  <1>31. ASSUME NEW c \in Calls, EmitTool(c) PROVE RunningInv'
    BY <1>31, <1>y, <1>t DEF EmitTool, Answer, Takes
  <1>32. ASSUME NEW c \in Calls, AskFor(c) PROVE RunningInv'
    BY <1>32, <1>y, <1>t DEF AskFor, Takes
  <1>33. ASSUME NEW c \in Calls, AskApproval(c) PROVE RunningInv'
    BY <1>33, <1>y, <1>t DEF AskApproval, Takes
  <1>34. ASSUME NEW c \in Calls, ApprovalUnsendable(c) PROVE RunningInv'
    BY <1>34, <1>y, <1>t DEF ApprovalUnsendable, End, Answer, Takes
  <1>35. ASSUME NEW c \in Calls, StartTool(c) PROVE RunningInv'
    BY <1>35, <1>y, <1>t DEF StartTool, Takes
  <1>36. CASE UNCHANGED turnVars
    BY <1>36 DEF turnVars
  <1>37. CASE StreamCloses
    BY <1>37, <1>y DEF StreamCloses, Streaming
  <1>38. CASE StreamErrs
    BY <1>38, <1>y DEF StreamErrs, Streaming
  <1> QED
    BY <1>1, <1>2, <1>3, <1>4, <1>5, <1>6, <1>7, <1>8, <1>9, <1>10,
       <1>11, <1>12, <1>13, <1>14, <1>15, <1>16, <1>17, <1>18,
       <1>19, <1>20, <1>21, <1>22, <1>23, <1>24, <1>25, <1>26,
       <1>27, <1>28, <1>29, <1>30, <1>31, <1>32, <1>33, <1>34,
       <1>35, <1>36, <1>37, <1>38
       DEF TurnNext, TurnStep, OwnStep, StreamEnds, AfterStream, Answered

\* No step loses track of an unanswered call.
LEMMA OpenNext ==
    ASSUME TurnTypeOK, HeldInv, ResultInv, PlaceInv, OpenInv, [TurnNext]_turnVars
    PROVE  OpenInv'
  <1> USE DEF HeldInv, PlaceInv, OpenInv, Dropped, Unanswered, callVars, streamVars, limitVars, tokenVars
  <1>t. pending # <<>> =>
          /\ Head(pending) \in Calls /\ Head(pending) \in Elems(pending)
          /\ Distinct(Tail(pending))
          /\ Elems(Tail(pending)) = Elems(pending) \ {Head(pending)}
    BY TailElems DEF TurnTypeOK, HeldInv
  <1>a. \A c \in Calls : c \notin Elems(pending) =>
          /\ Distinct(Append(pending, c))
          /\ Elems(Append(pending, c)) = Elems(pending) \cup {c}
    BY AppendElems DEF TurnTypeOK, HeldInv
  <1>y. /\ issued \subseteq Calls /\ running \subseteq Calls
        /\ results \in [Calls -> Nat] /\ output \in [Calls -> Output]
        /\ cur \in Calls \cup {NoCall} /\ pending \in Seq(Calls)
        /\ NoCall \notin Calls
    BY TurnAssumption DEF TurnTypeOK
  <1>1. CASE FireCancel
    BY <1>1, <1>y DEF FireCancel
  <1>2. CASE FireHard
    BY <1>2, <1>y DEF FireHard
  <1>3. CASE UiCloses
    BY <1>3, <1>y DEF UiCloses
  <1>4. CASE StopAtTop
    BY <1>4, <1>y, EmptyElems DEF StopAtTop, End
  <1>5. CASE Request
    BY <1>5, <1>y, EmptyElems DEF Request
  <1>6. CASE StreamText
    BY <1>6, <1>y DEF StreamText, Streaming
  <1>7. CASE NarrationCap
    BY <1>7, <1>y DEF NarrationCap, Streaming
  <1>8. CASE ContextRetry
    <2>1. contextRetries \in Nat /\ contextRetries' = contextRetries + 1
      BY <1>8 DEF ContextRetry, TurnTypeOK
    <2> QED BY <2>1
  <1>9. CASE StreamError
    BY <1>9, <1>y, EmptyElems DEF StreamError, End
  <1>10. CASE NudgeEmpty
    BY <1>10, <1>y DEF NudgeEmpty
  <1>11. CASE FinalAnswer
    BY <1>11, <1>y, EmptyElems DEF FinalAnswer, End
  <1>12. CASE StartBatch
    BY <1>12, <1>y DEF StartBatch
  <1>13. CASE HitCap
    BY <1>13, <1>y, EmptyElems DEF HitCap, End
  <1>14. CASE AbortStream
    BY <1>14, <1>y DEF AbortStream
  <1>15. CASE AbortBatch
    BY <1>15, <1>y DEF AbortBatch
  <1>16. CASE Drain
    BY <1>16, <1>y, <1>t DEF Drain, Answer
  <1>17. CASE EndAborted
    BY <1>17, <1>y, EmptyElems DEF EndAborted, End
  <1>18. CASE EndBatch
    BY <1>18, <1>y DEF EndBatch
  <1>19. CASE Approved
    BY <1>19, <1>y DEF Approved
  <1>20. CASE Denied
    BY <1>20, <1>y DEF Denied, Answer
  <1>21. CASE ApprovalAborted
    BY <1>21, <1>y DEF ApprovalAborted, Answer
  <1>22. CASE Replied
    BY <1>22, <1>y DEF Replied, Answer
  <1>23. CASE AskAborted
    BY <1>23, <1>y DEF AskAborted, Answer
  <1>24. CASE ToolReturns
    BY <1>24, <1>y DEF ToolReturns, Answer, Interrupted
  <1>25. CASE ToolInterrupted
    BY <1>25, <1>y DEF ToolInterrupted, Answer, Interrupted
  <1>26. CASE CheckAfterTool
    BY <1>26, <1>y DEF CheckAfterTool
  <1>27. CASE TurnFails
    BY <1>27, <1>y, EmptyElems DEF TurnFails, End, Interrupted
  <1>28. ASSUME NEW c \in Calls, AbandonedEnds(c) PROVE OpenInv'
    BY <1>28, <1>y DEF AbandonedEnds
  <1>29. ASSUME NEW c \in Calls, StreamCall(c) PROVE OpenInv'
    BY <1>29, <1>y, <1>a DEF StreamCall, Streaming
  <1>30. ASSUME NEW c \in Calls, Refuse(c) PROVE OpenInv'
    BY <1>30, <1>y, <1>t DEF Refuse, Answer, Takes
  <1>31. ASSUME NEW c \in Calls, EmitTool(c) PROVE OpenInv'
    BY <1>31, <1>y, <1>t DEF EmitTool, Answer, Takes
  <1>32. ASSUME NEW c \in Calls, AskFor(c) PROVE OpenInv'
    BY <1>32, <1>y, <1>t DEF AskFor, Takes
  <1>33. ASSUME NEW c \in Calls, AskApproval(c) PROVE OpenInv'
    BY <1>33, <1>y, <1>t DEF AskApproval, Takes
  <1>34. ASSUME NEW c \in Calls, ApprovalUnsendable(c) PROVE OpenInv'
    BY <1>34, <1>y, <1>t, EmptyElems DEF ApprovalUnsendable, End, Answer, Takes
  <1>35. ASSUME NEW c \in Calls, StartTool(c) PROVE OpenInv'
    BY <1>35, <1>y, <1>t DEF StartTool, Takes
  <1>36. CASE UNCHANGED turnVars
    BY <1>36 DEF turnVars
  <1>37. CASE StreamCloses
    BY <1>37, <1>y DEF StreamCloses, Streaming
  <1>38. CASE StreamErrs
    BY <1>38, <1>y DEF StreamErrs, Streaming
  <1> QED
    BY <1>1, <1>2, <1>3, <1>4, <1>5, <1>6, <1>7, <1>8, <1>9, <1>10,
       <1>11, <1>12, <1>13, <1>14, <1>15, <1>16, <1>17, <1>18,
       <1>19, <1>20, <1>21, <1>22, <1>23, <1>24, <1>25, <1>26,
       <1>27, <1>28, <1>29, <1>30, <1>31, <1>32, <1>33, <1>34,
       <1>35, <1>36, <1>37, <1>38
       DEF TurnNext, TurnStep, OwnStep, StreamEnds, AfterStream, Answered

\* No step starts a tool beside another.
LEMMA AloneNext ==
    ASSUME TurnTypeOK, HeldInv, PlaceInv, AloneInv, [TurnNext]_turnVars
    PROVE  AloneInv'
  <1> USE DEF PlaceInv, AloneInv, Stopped, callVars, streamVars, limitVars, tokenVars
  <1>y. /\ issued \subseteq Calls /\ running \subseteq Calls
        /\ results \in [Calls -> Nat] /\ output \in [Calls -> Output]
        /\ cur \in Calls \cup {NoCall} /\ pending \in Seq(Calls)
        /\ NoCall \notin Calls
    BY TurnAssumption DEF TurnTypeOK
  <1>1. CASE FireCancel
    BY <1>1, <1>y DEF FireCancel
  <1>2. CASE FireHard
    BY <1>2, <1>y DEF FireHard
  <1>3. CASE UiCloses
    BY <1>3, <1>y DEF UiCloses
  <1>4. CASE StopAtTop
    BY <1>4, <1>y DEF StopAtTop, End
  <1>5. CASE Request
    BY <1>5, <1>y DEF Request
  <1>6. CASE StreamText
    BY <1>6, <1>y DEF StreamText, Streaming
  <1>7. CASE NarrationCap
    BY <1>7, <1>y DEF NarrationCap, Streaming
  <1>8. CASE ContextRetry
    BY <1>8, <1>y DEF ContextRetry
  <1>9. CASE StreamError
    BY <1>9, <1>y DEF StreamError, End
  <1>10. CASE NudgeEmpty
    BY <1>10, <1>y DEF NudgeEmpty
  <1>11. CASE FinalAnswer
    BY <1>11, <1>y DEF FinalAnswer, End
  <1>12. CASE StartBatch
    BY <1>12, <1>y DEF StartBatch
  <1>13. CASE HitCap
    BY <1>13, <1>y DEF HitCap, End
  <1>14. CASE AbortStream
    BY <1>14, <1>y DEF AbortStream
  <1>15. CASE AbortBatch
    BY <1>15, <1>y DEF AbortBatch
  <1>16. CASE Drain
    BY <1>16, <1>y DEF Drain, Answer
  <1>17. CASE EndAborted
    BY <1>17, <1>y DEF EndAborted, End
  <1>18. CASE EndBatch
    BY <1>18, <1>y DEF EndBatch
  <1>19. CASE Approved
    BY <1>19, <1>y DEF Approved
  <1>20. CASE Denied
    BY <1>20, <1>y DEF Denied, Answer
  <1>21. CASE ApprovalAborted
    BY <1>21, <1>y DEF ApprovalAborted, Answer
  <1>22. CASE Replied
    BY <1>22, <1>y DEF Replied, Answer
  <1>23. CASE AskAborted
    BY <1>23, <1>y DEF AskAborted, Answer
  <1>24. CASE ToolReturns
    BY <1>24, <1>y DEF ToolReturns, Answer, Interrupted
  <1>25. CASE ToolInterrupted
    BY <1>25, <1>y DEF ToolInterrupted, Answer, Interrupted
  <1>26. CASE CheckAfterTool
    BY <1>26, <1>y DEF CheckAfterTool
  <1>27. CASE TurnFails
    BY <1>27, <1>y DEF TurnFails, End, Interrupted
  <1>28. ASSUME NEW c \in Calls, AbandonedEnds(c) PROVE AloneInv'
    BY <1>28, <1>y DEF AbandonedEnds
  <1>29. ASSUME NEW c \in Calls, StreamCall(c) PROVE AloneInv'
    BY <1>29, <1>y DEF StreamCall, Streaming
  <1>30. ASSUME NEW c \in Calls, Refuse(c) PROVE AloneInv'
    BY <1>30, <1>y DEF Refuse, Answer, Takes
  <1>31. ASSUME NEW c \in Calls, EmitTool(c) PROVE AloneInv'
    BY <1>31, <1>y DEF EmitTool, Answer, Takes
  <1>32. ASSUME NEW c \in Calls, AskFor(c) PROVE AloneInv'
    BY <1>32, <1>y DEF AskFor, Takes
  <1>33. ASSUME NEW c \in Calls, AskApproval(c) PROVE AloneInv'
    BY <1>33, <1>y DEF AskApproval, Takes
  <1>34. ASSUME NEW c \in Calls, ApprovalUnsendable(c) PROVE AloneInv'
    BY <1>34, <1>y DEF ApprovalUnsendable, End, Answer, Takes
  <1>35. ASSUME NEW c \in Calls, StartTool(c) PROVE AloneInv'
    BY <1>35, <1>y DEF StartTool, Takes
  <1>36. CASE UNCHANGED turnVars
    BY <1>36 DEF turnVars
  <1>37. CASE StreamCloses
    BY <1>37, <1>y DEF StreamCloses, Streaming
  <1>38. CASE StreamErrs
    BY <1>38, <1>y DEF StreamErrs, Streaming
  <1> QED
    BY <1>1, <1>2, <1>3, <1>4, <1>5, <1>6, <1>7, <1>8, <1>9, <1>10,
       <1>11, <1>12, <1>13, <1>14, <1>15, <1>16, <1>17, <1>18,
       <1>19, <1>20, <1>21, <1>22, <1>23, <1>24, <1>25, <1>26,
       <1>27, <1>28, <1>29, <1>30, <1>31, <1>32, <1>33, <1>34,
       <1>35, <1>36, <1>37, <1>38
       DEF TurnNext, TurnStep, OwnStep, StreamEnds, AfterStream, Answered

-----------------------------------------------------------------------------
(* The theorems.                                                            *)

\* The invariant is inductive.
LEMMA InvNext == IInv /\ [TurnNext]_turnVars => IInv'
  BY TypeNext, HeldNext, ResultNext, RunningNext, PlaceNext, OpenNext,
     AloneNext DEF IInv

\* The inductive invariant holds throughout every turn.
THEOREM TurnInvariant == TurnSpec => []IInv
  <1>1. TurnInit => IInv
    BY InitInv
  <1>2. IInv /\ [TurnNext]_turnVars => IInv'
    BY InvNext
  <1> QED BY <1>1, <1>2, PTL DEF TurnSpec

\* Every variable of a turn keeps its type.
THEOREM TurnTypeCorrect == TurnSpec => []TurnTypeOK
  <1>1. IInv => TurnTypeOK
    BY DEF IInv
  <1> QED BY <1>1, TurnInvariant, PTL

\* No call is answered twice or before it is made, and what executes is not
\* answered, or is a local tool a token made the turn abandon.
THEOREM EachCallAnsweredOnce == TurnSpec => []AnsweredOnce
  <1>1. IInv => AnsweredOnce
    <2> SUFFICES ASSUME IInv PROVE AnsweredOnce
      OBVIOUS
    <2>1. \A c \in Calls : results[c] <= 1 /\ (results[c] = 1 => c \in issued)
      BY DEF IInv, ResultInv
    <2>2. \A c \in running : c = cur => results[c] = 0
      BY TurnAssumption DEF IInv, HeldInv, TurnTypeOK
    <2> QED BY <2>1, <2>2 DEF IInv, RunningInv, AnsweredOnce
  <1> QED BY <1>1, TurnInvariant, PTL

\* A turn that ends of itself or by a cancel has answered every call, unless a
\* context-length retry dropped some or the UI is gone.
THEOREM EndsBalanced == TurnSpec => []BalancedEnd
  <1>1. IInv => BalancedEnd
    <2> SUFFICES ASSUME IInv, pc = "ended", ~Dropped PROVE Unanswered = {}
      BY DEF BalancedEnd, Dropped
    <2>1. pending = <<>> /\ cur = NoCall
      BY DEF IInv, PlaceInv
    <2>2. NoCall \notin Unanswered
      BY TurnAssumption DEF IInv, TurnTypeOK, Unanswered
    <2> QED BY <2>1, <2>2, EmptyElems DEF IInv, OpenInv
  <1> QED BY <1>1, TurnInvariant, PTL

\* The tools of a turn run one at a time, even when one is abandoned.
THEOREM ToolsRunAlone == TurnSpec => []ToolsNeverOverlap
  <1>1. IInv => ToolsNeverOverlap
    <2> SUFFICES ASSUME IInv PROVE ToolsNeverOverlap
      OBVIOUS
    <2>1. CASE running = {}
      BY <2>1, FS_EmptySet DEF ToolsNeverOverlap
    <2>2. CASE running # {}
      <3>1. PICK c \in running : running = {c}
        BY <2>2 DEF IInv, AloneInv
      <3> QED BY <3>1, FS_Singleton DEF ToolsNeverOverlap
    <2> QED BY <2>1, <2>2
  <1> QED BY <1>1, TurnInvariant, PTL

=============================================================================
