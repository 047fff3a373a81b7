------------------------- MODULE SubagentPoolProofs -------------------------
(***************************************************************************)
(* Proofs about SubagentPool, for every set of dispatches and turns and    *)
(* every max_concurrent.                                                   *)
(***************************************************************************)
EXTENDS SubagentPool, FiniteSetTheorems, TLAPS

\* The drain loop is about to pop a queue that is not empty.
PopsSomething == mpc = "spawn" => queue # <<>>

\* A dispatch in the dispatch arm is some turn's.
CallHasTurn == \A d \in Dispatches : stage[d] \in Dispatching => owner[d] \in Turns

TypeInv == PoolTypeOK /\ PopsSomething /\ CallHasTurn

\* A turn is in one dispatch_subagent call at a time.
OneCallPerTurn ==
    \A d, e \in Dispatches :
        /\ stage[d] \in Dispatching
        /\ stage[e] \in Dispatching
        /\ owner[d] = owner[e]
        => d = e

\* Turns that have passed the pool check and not yet registered.
Admitted == {t \in Turns : \E d \in Dispatches :
                              /\ owner[d] = t
                              /\ stage[d] \in {"admitted", "announced"}}

\* The main loop has passed its own check and not yet registered.
Popping == IF mpc = "spawn" THEN 1 ELSE 0

\* Every registered subagent, and everyone admitted on a slot, counted.
BoundInv ==
    MaxConcurrent > 0 =>
        Cardinality(inFlight) + Cardinality(Admitted) + Popping
            <= MaxConcurrent + Cardinality(Turns)

\* Registered subagents have been started; the duplicate guard has compared a
\* dispatch with everything its own turn had registered.
GuardInv ==
    /\ \A d \in inFlight : stage[d] \in {"running", "reported"}
    /\ \A d \in Dispatches : stage[d] \in Dispatching =>
          \A e \in inFlight : owner[e] = owner[d] => TaskOf[e] # TaskOf[d]

\* Each dispatch is in at most one place: one SubagentQueued message or one
\* queue entry while "queued", one DelegationResult while "reported".
ChanPlaces ==
    \A i \in 1..Len(chan) : \A d \in Dispatches :
        /\ chan[i] = Result(d) => stage[d] = "reported"
        /\ chan[i] = Queued(d) => stage[d] = "queued"
        /\ chan[i] = Queued(d) => \A k \in 1..Len(queue) : queue[k] # d

ChanUnique ==
    \A i, j \in 1..Len(chan) : \A d \in Dispatches :
        i # j /\ chan[i] = chan[j] => chan[i] \notin {Result(d), Queued(d)}

QueuePlaces ==
    /\ \A k \in 1..Len(queue) : stage[queue[k]] = "queued"
    /\ \A k, l \in 1..Len(queue) : queue[k] = queue[l] => k = l

PlaceInv == ChanPlaces /\ ChanUnique /\ QueuePlaces

\* A SubagentStarted message is ahead of the result of the same subagent.
StartedAhead ==
    \A i \in 1..Len(chan) : \A d \in Dispatches :
        chan[i] = Started(d) =>
            \/ stage[d] \in {"announced", "running"}
            \/ \E j \in (i + 1)..Len(chan) : chan[j] = Result(d)

IInv == /\ TypeInv
        /\ OneCallPerTurn
        /\ BoundInv
        /\ GuardInv
        /\ NoDirectDuplicate
        /\ PlaceInv
        /\ SlotsHeldByLive
        /\ StartedAhead
        /\ RowsWillClear

-----------------------------------------------------------------------------
(* The channel and the queue as sequences.                                  *)

\* Sending puts one message behind the others.
LEMMA AppendFacts ==
    ASSUME NEW S, NEW s \in Seq(S), NEW e \in S
    PROVE  /\ Append(s, e) \in Seq(S)
           /\ Len(Append(s, e)) = Len(s) + 1
           /\ \A i \in 1..Len(s) : Append(s, e)[i] = s[i]
           /\ Append(s, e)[Len(s) + 1] = e
  OBVIOUS

\* Receiving shifts the messages by one.
LEMMA TailFacts ==
    ASSUME NEW S, NEW s \in Seq(S), s # <<>>
    PROVE  /\ Tail(s) \in Seq(S)
           /\ Head(s) \in S
           /\ Head(s) = s[1]
           /\ Len(s) \in Nat \ {0}
           /\ Len(Tail(s)) = Len(s) - 1
           /\ \A i \in 1..Len(Tail(s)) : Tail(s)[i] = s[i + 1]
  OBVIOUS

\* The messages are told apart by their type and by what they carry.
LEMMA MessageFacts ==
    /\ \A d \in Dispatches : Started(d) \in Message /\ Queued(d) \in Message
                                /\ Result(d) \in Message
    /\ \A t \in Turns : Complete(t) \in Message
    /\ TakenOver \in Message
    /\ \A d, e : /\ Started(d) # Queued(e) /\ Started(d) # Result(e)
                 /\ Queued(d) # Result(e)
                 /\ Complete(d) \notin {Started(e), Queued(e), Result(e)}
                 /\ TakenOver \notin {Started(e), Queued(e), Result(e)}
                 /\ Started(d) = Started(e) => d = e
                 /\ Queued(d) = Queued(e) => d = e
                 /\ Result(d) = Result(e) => d = e
  <1>1. \A d, e : /\ Started(d) # Queued(e) /\ Started(d) # Result(e)
                  /\ Queued(d) # Result(e)
                  /\ Complete(d) \notin {Started(e), Queued(e), Result(e)}
                  /\ TakenOver \notin {Started(e), Queued(e), Result(e)}
    <2> TAKE d, e
    <2>1. /\ Started(d).type = "SubagentStarted"
          /\ Queued(d).type = "SubagentQueued"
          /\ Complete(d).type = "TurnComplete"
          /\ TakenOver.type = "SessionTakenOver"
          /\ Started(e).type = "SubagentStarted"
          /\ Queued(e).type = "SubagentQueued"
          /\ Result(e).type = "DelegationResult"
      BY DEF Started, Queued, Result, Complete, TakenOver
    <2> QED BY <2>1
  <1>2. \A d, e : /\ Started(d) = Started(e) => d = e
                  /\ Queued(d) = Queued(e) => d = e
                  /\ Result(d) = Result(e) => d = e
    <2> TAKE d, e
    <2>1. /\ Started(d).sub = d /\ Started(e).sub = e
          /\ Queued(d).sub = d /\ Queued(e).sub = e
          /\ Result(d).sub = d /\ Result(e).sub = e
      BY DEF Started, Queued, Result
    <2> QED BY <2>1
  <1>3. /\ \A d \in Dispatches : Started(d) \in Message /\ Queued(d) \in Message
                                    /\ Result(d) \in Message
        /\ \A t \in Turns : Complete(t) \in Message
        /\ TakenOver \in Message
    BY DEF Message
  <1> QED BY <1>1, <1>2, <1>3

-----------------------------------------------------------------------------
(* Type correctness.                                                        *)

\* The pool starts well typed.
LEMMA TypeInit == PoolInit => TypeInv
  <1> SUFFICES ASSUME PoolInit PROVE TypeInv
    OBVIOUS
  <1>1. stage \in [Dispatches -> Stage] /\ owner \in [Dispatches -> Turns \cup {Main, NoTurn}]
    BY DEF PoolInit, Stage
  <1>2. chan \in Seq(Message) /\ queue \in Seq(Dispatches)
    BY DEF PoolInit
  <1>3. PopsSomething /\ CallHasTurn
    BY DEF PoolInit, PopsSomething, CallHasTurn, Dispatching
  <1> QED
    BY <1>1, <1>2, <1>3 DEF PoolInit, TypeInv, PoolTypeOK

\* Every step keeps the variables' types.
LEMMA TypeStep == TypeInv /\ [PoolNext]_poolVars => TypeInv'
  <1> SUFFICES ASSUME TypeInv, [PoolNext]_poolVars PROVE TypeInv'
    OBVIOUS
  <1> USE DEF TypeInv, PoolTypeOK, PopsSomething, CallHasTurn, Stage, Dispatching, SetStage, Send, Fire
  <1>1. ASSUME NEW t \in Turns, NEW d \in Dispatches, DispatchCall(t, d)
        PROVE  TypeInv'
    <2>1. stage' \in [Dispatches -> Stage] /\ owner' \in [Dispatches -> Turns \cup {Main, NoTurn}]
      BY <1>1 DEF DispatchCall
    <2>2. CallHasTurn'
      BY <1>1 DEF DispatchCall
    <2> QED BY <1>1, <2>1, <2>2 DEF DispatchCall
  <1>2. ASSUME NEW d \in Dispatches, PoolCheck(d) PROVE TypeInv'
    BY <1>2 DEF PoolCheck
  <1>3. ASSUME NEW d \in Dispatches, SendQueued(d) PROVE TypeInv'
    BY <1>3, MessageFacts DEF SendQueued
  <1>4. ASSUME NEW d \in Dispatches, QueueResultLost(d) PROVE TypeInv'
    <2>1. Complete(owner[d]) \in Message
      BY <1>4, MessageFacts DEF QueueResultLost
    <2> QED BY <1>4, <2>1, MessageFacts DEF QueueResultLost
  <1>5. ASSUME NEW d \in Dispatches, Announce(d) PROVE TypeInv'
    BY <1>5, MessageFacts DEF Announce
  <1>6. ASSUME NEW d \in Dispatches, SpawnDirect(d) PROVE TypeInv'
    BY <1>6 DEF SpawnDirect
  <1>7. ASSUME NEW t \in Turns, NEW targets \in SUBSET inFlight,
               CancelSubagent(t, targets)
        PROVE  TypeInv'
    BY <1>7 DEF CancelSubagent
  <1>8. ASSUME NEW t \in Turns, EndTurn(t) PROVE TypeInv'
    BY <1>8, MessageFacts DEF EndTurn
  <1>9. ASSUME NEW d \in Dispatches, Report(d) PROVE TypeInv'
    BY <1>9, MessageFacts DEF Report
  <1>10. ASSUME NEW d \in Dispatches, HandleStarted(d) PROVE TypeInv'
    BY <1>10, TailFacts DEF HandleStarted, Receive
  <1>11. ASSUME NEW d \in Dispatches, HandleQueued(d) PROVE TypeInv'
    BY <1>11, TailFacts DEF HandleQueued, Receive
  <1>12. ASSUME NEW d \in Dispatches, HandleResult(d) PROVE TypeInv'
    BY <1>12, TailFacts DEF HandleResult, Receive
  <1>13. CASE DrainTest
    BY <1>13 DEF DrainTest
  <1>14. CASE SpawnQueued
    <2>1. Head(queue) \in Dispatches /\ Tail(queue) \in Seq(Dispatches)
      BY <1>14, TailFacts DEF SpawnQueued
    <2> DEFINE h == Head(queue)
    <2>2. /\ stage' = [stage EXCEPT ![h] = "running"]
          /\ owner' = [owner EXCEPT ![h] = Main]
          /\ inFlight' = inFlight \cup {h}
          /\ queue' = Tail(queue)
          /\ chan' = Append(chan, Started(h)) \/ chan' = chan
          /\ mpc' = "drain"
          /\ UNCHANGED <<turns, cancelled, token, killed, rows, armed, takeovers>>
      BY <1>14 DEF SpawnQueued
    <2> HIDE DEF h
    <2>3. h \in Dispatches
      BY <2>1 DEF h
    <2>4. chan' \in Seq(Message)
      BY <2>2, <2>3, MessageFacts
    <2> QED BY <2>1, <2>2, <2>3, <2>4
  <1>15. ASSUME NEW t \in Turns, HandleComplete(t) PROVE TypeInv'
    BY <1>15, TailFacts DEF HandleComplete, Receive
  <1>16. CASE HandleTakenOver
    BY <1>16, TailFacts DEF HandleTakenOver, Receive
  <1>17. CASE ForgetAll
    BY <1>17 DEF ForgetAll
  <1>18. ASSUME NEW t \in Turns, StartTurn(t) PROVE TypeInv'
    BY <1>18 DEF StartTurn
  <1>19. CASE CancelTurn
    BY <1>19 DEF CancelTurn
  <1>20. CASE HeartbeatLost
    BY <1>20, MessageFacts DEF HeartbeatLost
  <1>21. CASE UNCHANGED poolVars
    BY <1>21 DEF poolVars
  <1> QED
    BY <1>1, <1>2, <1>3, <1>4, <1>5, <1>6, <1>7, <1>8, <1>9, <1>10, <1>11, <1>12,
       <1>13, <1>14, <1>15, <1>16, <1>17, <1>18, <1>19, <1>20, <1>21
       DEF PoolNext, TurnStep, MainStep, HandleMessage, DispatchStep

-----------------------------------------------------------------------------
(* The steps that leave dispatches, registry, rows and queue alone, and add *)
(* to or take from the channel no message about a subagent.                 *)

AboutSub(m) == \E d : m \in {Started(d), Queued(d), Result(d)}

Quiet ==
    /\ UNCHANGED <<stage, owner, inFlight, rows, queue>>
    /\ mpc' = "spawn" <=> mpc = "spawn"
    /\ \/ UNCHANGED chan
       \/ \E m \in Message : ~AboutSub(m) /\ chan' = Append(chan, m)
       \/ chan # <<>> /\ ~AboutSub(Head(chan)) /\ chan' = Tail(chan)

\* Steps that touch no dispatch leave stages, queue and owners alone.
LEMMA QuietSteps ==
    ASSUME TypeInv,
           \/ \E t \in Turns : \/ \E targets \in SUBSET inFlight : CancelSubagent(t, targets)
                               \/ EndTurn(t)
                               \/ HandleComplete(t)
                               \/ StartTurn(t)
           \/ HandleTakenOver
           \/ CancelTurn
           \/ HeartbeatLost
           \/ UNCHANGED poolVars
    PROVE  Quiet
  <1> USE DEF TypeInv, PoolTypeOK, Quiet, Receive
  <1>1. ASSUME NEW t \in Turns, NEW targets \in SUBSET inFlight,
               CancelSubagent(t, targets)
        PROVE  Quiet
    BY <1>1 DEF CancelSubagent
  <1>2. ASSUME NEW t \in Turns, EndTurn(t) PROVE Quiet
    <2>1. Complete(t) \in Message /\ ~AboutSub(Complete(t))
      BY MessageFacts DEF AboutSub
    <2> QED BY <1>2, <2>1 DEF EndTurn, Send
  <1>3. ASSUME NEW t \in Turns, HandleComplete(t) PROVE Quiet
    <2>1. ~AboutSub(Complete(t))
      BY MessageFacts DEF AboutSub
    <2> QED BY <1>3, <2>1 DEF HandleComplete
  <1>4. ASSUME NEW t \in Turns, StartTurn(t) PROVE Quiet
    BY <1>4 DEF StartTurn
  <1>5. CASE HandleTakenOver
    <2>1. ~AboutSub(TakenOver)
      BY MessageFacts DEF AboutSub
    <2> QED BY <1>5, <2>1 DEF HandleTakenOver
  <1>6. CASE CancelTurn
    BY <1>6 DEF CancelTurn
  <1>7. CASE HeartbeatLost
    <2>1. TakenOver \in Message /\ ~AboutSub(TakenOver)
      BY MessageFacts DEF AboutSub
    <2> QED BY <1>7, <2>1 DEF HeartbeatLost, Send
  <1>8. CASE UNCHANGED poolVars
    BY <1>8 DEF poolVars
  <1> QED BY <1>1, <1>2, <1>3, <1>4, <1>5, <1>6, <1>7, <1>8

\* The steps of the pool, one by one.
LEMMA StepCases ==
    ASSUME TypeInv, [PoolNext]_poolVars
    PROVE  \/ \E t \in Turns, d \in Dispatches : DispatchCall(t, d)
           \/ \E d \in Dispatches : \/ PoolCheck(d)
                                    \/ SendQueued(d)
                                    \/ QueueResultLost(d)
                                    \/ Announce(d)
                                    \/ SpawnDirect(d)
                                    \/ Report(d)
                                    \/ HandleStarted(d)
                                    \/ HandleQueued(d)
                                    \/ HandleResult(d)
           \/ DrainTest
           \/ SpawnQueued
           \/ ForgetAll
           \/ Quiet
  BY QuietSteps DEF PoolNext, TurnStep, MainStep, HandleMessage, DispatchStep

\* What SpawnQueued does, with a name for the dispatch it pops.
LEMMA SpawnQueuedFacts ==
    ASSUME TypeInv, SpawnQueued
    PROVE  \E h \in Dispatches :
             /\ mpc = "spawn" /\ mpc' = "drain"
             /\ h = queue[1] /\ queue # <<>>
             /\ queue' = Tail(queue)
             /\ inFlight' = inFlight \cup {h}
             /\ stage' = [stage EXCEPT ![h] = "running"]
             /\ owner' = [owner EXCEPT ![h] = Main]
             /\ chan' = Append(chan, Started(h)) \/ chan' = chan
             /\ rows' = rows
  <1>1. /\ queue # <<>>
        /\ Head(queue) \in Dispatches
        /\ Head(queue) = queue[1]
    BY TailFacts DEF SpawnQueued, TypeInv, PoolTypeOK, PopsSomething
  <1>2. /\ mpc = "spawn" /\ mpc' = "drain"
        /\ queue' = Tail(queue)
        /\ inFlight' = inFlight \cup {Head(queue)}
        /\ stage' = [stage EXCEPT ![Head(queue)] = "running"]
        /\ owner' = [owner EXCEPT ![Head(queue)] = Main]
        /\ chan' = Append(chan, Started(Head(queue))) \/ chan' = chan
        /\ rows' = rows
    BY DEF SpawnQueued, SetStage, Send
  <1> QED BY <1>1, <1>2

-----------------------------------------------------------------------------
(* One dispatch call per turn.                                              *)

\* No step puts a turn inside two dispatches.
LEMMA OneCallStep ==
    ASSUME TypeInv, OneCallPerTurn, [PoolNext]_poolVars
    PROVE  OneCallPerTurn'
  <1> USE DEF TypeInv, PoolTypeOK, CallHasTurn, OneCallPerTurn, Dispatching, SetStage
  <1>1. ASSUME NEW t \in Turns, NEW d \in Dispatches, DispatchCall(t, d)
        PROVE  OneCallPerTurn'
    BY <1>1 DEF DispatchCall, BetweenCalls
  <1>2. ASSUME NEW d \in Dispatches,
               \/ PoolCheck(d) \/ SendQueued(d) \/ QueueResultLost(d)
               \/ Announce(d) \/ SpawnDirect(d) \/ Report(d)
        PROVE  OneCallPerTurn'
    <2>1. /\ owner' = owner
          /\ stage[d] \in Dispatching \cup {"running"}
          /\ \E st : stage' = [stage EXCEPT ![d] = st]
          /\ stage[d] = "running" => stage'[d] \notin Dispatching
      BY <1>2 DEF PoolCheck, SendQueued, QueueResultLost, Announce, SpawnDirect, Report
    <2>2. \A e \in Dispatches : stage'[e] \in Dispatching => stage[e] \in Dispatching
      BY <2>1
    <2> QED BY <2>1, <2>2
  <1>3. ASSUME NEW d \in Dispatches, HandleResult(d) PROVE OneCallPerTurn'
    BY <1>3 DEF HandleResult
  <1>4. CASE SpawnQueued
    BY <1>4, SpawnQueuedFacts
  <1>5. CASE ForgetAll
    BY <1>5 DEF ForgetAll
  <1>6. CASE Quiet \/ DrainTest \/ \E d \in Dispatches : HandleStarted(d) \/ HandleQueued(d)
    BY <1>6 DEF Quiet, DrainTest, HandleStarted, HandleQueued
  <1> QED BY <1>1, <1>2, <1>3, <1>4, <1>5, <1>6, StepCases

-----------------------------------------------------------------------------
(* The bound on the registry.                                               *)

\* Registry and admissions are finite, so they can be counted.
LEMMA FiniteFacts ==
    /\ \A F \in SUBSET Dispatches : IsFiniteSet(F) /\ Cardinality(F) \in Nat
    /\ \A A \in SUBSET Turns : /\ IsFiniteSet(A) /\ Cardinality(A) \in Nat
                               /\ Cardinality(A) <= Cardinality(Turns)
    /\ Cardinality(Turns) \in Nat
  BY FS_Subset, FS_CardinalityType, PoolAssumption

\* One more element counts at most one more; a subset counts no more.
LEMMA CardinalitySteps ==
    /\ \A F \in SUBSET Dispatches : \A d : Cardinality(F \cup {d}) <= Cardinality(F) + 1
    /\ \A A, B \in SUBSET Turns : A \subseteq B => Cardinality(A) <= Cardinality(B)
  <1>1. ASSUME NEW F \in SUBSET Dispatches, NEW d
        PROVE  Cardinality(F \cup {d}) <= Cardinality(F) + 1
    <2>1. IsFiniteSet(F) /\ Cardinality(F) \in Nat
      BY FiniteFacts
    <2>2. Cardinality(F \cup {d}) = IF d \in F THEN Cardinality(F) ELSE Cardinality(F) + 1
      BY <2>1, FS_AddElement
    <2> QED BY <2>1, <2>2
  <1>2. ASSUME NEW A \in SUBSET Turns, NEW B \in SUBSET Turns, A \subseteq B
        PROVE  Cardinality(A) <= Cardinality(B)
    <2>1. IsFiniteSet(B) /\ A \in SUBSET B
      BY <1>2, FiniteFacts
    <2> QED BY <2>1, FS_Subset
  <1> QED BY <1>1, <1>2

\* What is counted are dispatches and turns.
LEMMA SetsInBounds ==
    /\ TypeInv => inFlight \in SUBSET Dispatches
    /\ Admitted \in SUBSET Turns
    /\ Admitted' \in SUBSET Turns
    /\ TypeInv' => inFlight' \in SUBSET Dispatches
  BY DEF TypeInv, PoolTypeOK, Admitted

\* Subsets of the registry and of the admitted turns count no more.
LEMMA BoundShrinks ==
    ASSUME TypeInv, TypeInv', BoundInv,
           inFlight' \subseteq inFlight,
           Admitted' \subseteq Admitted,
           mpc' = "spawn" => mpc = "spawn"
    PROVE  BoundInv'
  <1>1. /\ Cardinality(inFlight') <= Cardinality(inFlight)
        /\ Cardinality(Admitted') <= Cardinality(Admitted)
    BY FiniteFacts, SetsInBounds, FS_Subset
  <1>2. /\ Cardinality(inFlight) \in Nat /\ Cardinality(Admitted) \in Nat
        /\ Cardinality(inFlight') \in Nat /\ Cardinality(Admitted') \in Nat
        /\ Cardinality(Turns) \in Nat
    BY FiniteFacts, SetsInBounds
  <1> QED BY <1>1, <1>2, PoolAssumption DEF BoundInv, Popping

\* No step overshoots the limit by more than the turns alive.
LEMMA BoundStep ==
    ASSUME TypeInv, TypeInv', OneCallPerTurn, BoundInv, [PoolNext]_poolVars
    PROVE  BoundInv'
  <1> USE DEF SetStage
  <1>0. /\ Cardinality(inFlight) \in Nat /\ Cardinality(Admitted) \in Nat
        /\ Cardinality(inFlight') \in Nat /\ Cardinality(Admitted') \in Nat
        /\ Cardinality(Turns) \in Nat /\ MaxConcurrent \in Nat
        /\ Cardinality(Admitted) <= Cardinality(Turns)
        /\ Cardinality(Admitted') <= Cardinality(Turns)
        /\ IsFiniteSet(inFlight) /\ IsFiniteSet(Admitted)
    BY FiniteFacts, SetsInBounds, PoolAssumption
  <1>t. /\ stage \in [Dispatches -> Stage]
        /\ owner \in [Dispatches -> Turns \cup {Main, NoTurn}]
    BY DEF TypeInv, PoolTypeOK
  <1>1. ASSUME NEW t \in Turns, NEW d \in Dispatches, DispatchCall(t, d)
        PROVE  BoundInv'
    <2>1. /\ inFlight' = inFlight /\ mpc' = mpc
          /\ Admitted' \subseteq Admitted
      BY <1>1, <1>t DEF DispatchCall, Admitted
    <2> QED BY <2>1, BoundShrinks
  <1>2. ASSUME NEW d \in Dispatches, PoolCheck(d) PROVE BoundInv'
    <2>1. CASE HasRoom
      <3>1. MaxConcurrent > 0 => Cardinality(inFlight) < MaxConcurrent
        BY <2>1, <1>0 DEF HasRoom
      <3>2. inFlight' = inFlight /\ Popping' = Popping /\ Popping \in {0, 1}
        BY <1>2 DEF PoolCheck, Popping
      <3> QED BY <3>1, <3>2, <1>0 DEF BoundInv
    <2>2. CASE ~HasRoom
      <3>1. stage' = [stage EXCEPT ![d] = "refused"] /\ UNCHANGED <<owner, inFlight, mpc>>
        BY <1>2, <2>2 DEF PoolCheck
      <3>2. Admitted' \subseteq Admitted
        BY <3>1, <1>t DEF Admitted
      <3> QED BY <3>1, <3>2, BoundShrinks
    <2> QED BY <2>1, <2>2
  <1>3. ASSUME NEW d \in Dispatches,
               SendQueued(d) \/ QueueResultLost(d) \/ Announce(d) \/ Report(d)
        PROVE  BoundInv'
    <2>1. UNCHANGED <<owner, inFlight, mpc>>
      BY <1>3 DEF SendQueued, QueueResultLost, Announce, Report
    <2>2. \A e \in Dispatches : stage'[e] \in {"admitted", "announced"}
                                    => stage[e] \in {"admitted", "announced"}
      BY <1>3, <1>t DEF SendQueued, QueueResultLost, Announce, Report
    <2>3. Admitted' \subseteq Admitted
      BY <2>1, <2>2 DEF Admitted
    <2> QED BY <2>1, <2>3, BoundShrinks
  <1>4. ASSUME NEW d \in Dispatches, SpawnDirect(d) PROVE BoundInv'
    <2> DEFINE t == owner[d]
    <2>1. /\ stage[d] = "announced" /\ t \in Turns
          /\ stage' = [stage EXCEPT ![d] = "running"]
          /\ inFlight' = inFlight \cup {d}
          /\ owner' = owner /\ mpc' = mpc
      BY <1>4 DEF SpawnDirect, TypeInv, CallHasTurn, Dispatching
    <2>2. t \in Admitted /\ Admitted' \subseteq Admitted \ {t}
      BY <2>1, <1>t DEF Admitted, OneCallPerTurn, Dispatching
    <2>3. Cardinality(Admitted') <= Cardinality(Admitted) - 1
      <3>1. /\ IsFiniteSet(Admitted \ {t})
            /\ Cardinality(Admitted \ {t}) = Cardinality(Admitted) - 1
        BY <2>2, <1>0, FS_RemoveElement
      <3>2. Cardinality(Admitted') <= Cardinality(Admitted \ {t})
        BY <3>1, <2>2, FS_Subset
      <3> QED BY <3>1, <3>2, <1>0
    <2>4. Cardinality(inFlight') <= Cardinality(inFlight) + 1
      BY <2>1, SetsInBounds, CardinalitySteps
    <2>5. Popping' = Popping /\ Popping \in {0, 1}
      BY <2>1 DEF Popping
    <2> QED BY <2>3, <2>4, <2>5, <1>0 DEF BoundInv
  <1>5. ASSUME NEW d \in Dispatches,
               HandleStarted(d) \/ HandleQueued(d) \/ HandleResult(d)
        PROVE  BoundInv'
    <2>1. /\ inFlight' \subseteq inFlight /\ owner' = owner
          /\ mpc' = "spawn" => mpc = "spawn"
      BY <1>5 DEF HandleStarted, HandleQueued, HandleResult
    <2>2. \A e \in Dispatches : stage'[e] \in {"admitted", "announced"}
                                    => stage[e] \in {"admitted", "announced"}
      BY <1>5, <1>t DEF HandleStarted, HandleQueued, HandleResult
    <2>3. Admitted' \subseteq Admitted
      BY <2>1, <2>2 DEF Admitted
    <2> QED BY <2>1, <2>3, BoundShrinks
  <1>6. CASE DrainTest
    <2>1. inFlight' = inFlight /\ Admitted' = Admitted
      BY <1>6 DEF DrainTest, Admitted
    <2>2. CASE queue # <<>> /\ HasRoom
      <3>1. MaxConcurrent > 0 => Cardinality(inFlight) < MaxConcurrent
        BY <2>2, <1>0 DEF HasRoom
      <3>2. Popping' \in {0, 1}
        BY DEF Popping
      <3> QED BY <3>1, <3>2, <2>1, <1>0 DEF BoundInv
    <2>3. CASE ~(queue # <<>> /\ HasRoom)
      <3>1. mpc' = "idle"
        BY <1>6, <2>3, Zenon DEF DrainTest
      <3> QED BY <2>1, <3>1, BoundShrinks
    <2> QED BY <2>2, <2>3
  <1>7. CASE SpawnQueued
    <2> PICK h \in Dispatches :
             /\ mpc = "spawn" /\ mpc' = "drain"
             /\ inFlight' = inFlight \cup {h}
             /\ stage' = [stage EXCEPT ![h] = "running"]
             /\ owner' = [owner EXCEPT ![h] = Main]
      BY <1>7, SpawnQueuedFacts
    <2>1. Admitted' \subseteq Admitted
      BY <1>t DEF Admitted
    <2>2. Cardinality(Admitted') <= Cardinality(Admitted)
      BY <2>1, SetsInBounds, CardinalitySteps
    <2>3. Cardinality(inFlight') <= Cardinality(inFlight) + 1
      BY SetsInBounds, CardinalitySteps
    <2>4. Popping = 1 /\ Popping' = 0
      BY DEF Popping
    <2> QED BY <2>2, <2>3, <2>4, <1>0 DEF BoundInv
  <1>8. CASE ForgetAll
    <2>1. inFlight' = {} /\ owner' = owner /\ mpc' = "idle"
      BY <1>8 DEF ForgetAll
    <2>2. \A e \in Dispatches : stage'[e] \in {"admitted", "announced"}
                                    => stage[e] \in {"admitted", "announced"}
      BY <1>8, <1>t DEF ForgetAll
    <2>3. Admitted' \subseteq Admitted
      BY <2>1, <2>2 DEF Admitted
    <2> QED BY <2>1, <2>3, BoundShrinks
  <1>9. CASE Quiet
    <2>1. inFlight' = inFlight /\ Admitted' = Admitted /\ (mpc' = "spawn" => mpc = "spawn")
      BY <1>9 DEF Quiet, Admitted
    <2> QED BY <2>1, BoundShrinks
  <1> QED
    BY <1>1, <1>2, <1>3, <1>4, <1>5, <1>6, <1>7, <1>8, <1>9, StepCases

-----------------------------------------------------------------------------
(* The duplicate guard.                                                     *)

\* No step lets a duplicate past a turn's own registered dispatches.
LEMMA GuardStep ==
    ASSUME TypeInv, OneCallPerTurn, PlaceInv, GuardInv, NoDirectDuplicate,
           [PoolNext]_poolVars
    PROVE  GuardInv' /\ NoDirectDuplicate'
  <1> USE DEF TypeInv, PoolTypeOK, CallHasTurn, OneCallPerTurn, GuardInv,
              NoDirectDuplicate, Dispatching, SetStage
  <1>1. ASSUME NEW t \in Turns, NEW d \in Dispatches, DispatchCall(t, d)
        PROVE  GuardInv' /\ NoDirectDuplicate'
    <2>1. d \notin inFlight
      BY <1>1 DEF DispatchCall
    <2> QED BY <1>1, <2>1 DEF DispatchCall
  <1>2. ASSUME NEW d \in Dispatches,
               \/ PoolCheck(d) \/ SendQueued(d) \/ QueueResultLost(d)
               \/ Announce(d) \/ Report(d)
        PROVE  GuardInv' /\ NoDirectDuplicate'
    <2>1. /\ owner' = owner /\ inFlight' = inFlight
          /\ \E st : stage' = [stage EXCEPT ![d] = st]
          /\ stage[d] \in Dispatching \cup {"running"}
          /\ stage[d] = "running" => stage'[d] = "reported"
      BY <1>2 DEF PoolCheck, SendQueued, QueueResultLost, Announce, Report
    <2> QED BY <2>1
  <1>3. ASSUME NEW d \in Dispatches, SpawnDirect(d)
        PROVE  GuardInv' /\ NoDirectDuplicate'
    BY <1>3 DEF SpawnDirect
  <1>4. ASSUME NEW d \in Dispatches, HandleResult(d)
        PROVE  GuardInv' /\ NoDirectDuplicate'
    BY <1>4 DEF HandleResult
  <1>5. CASE SpawnQueued
    <2> PICK h \in Dispatches :
             /\ inFlight' = inFlight \cup {h}
             /\ stage' = [stage EXCEPT ![h] = "running"]
             /\ owner' = [owner EXCEPT ![h] = Main]
      BY <1>5, SpawnQueuedFacts
    <2> QED BY PoolAssumption
  <1>6. CASE ForgetAll
    BY <1>6 DEF ForgetAll
  <1>7. CASE Quiet \/ DrainTest \/ \E d \in Dispatches : HandleStarted(d) \/ HandleQueued(d)
    BY <1>7 DEF Quiet, DrainTest, HandleStarted, HandleQueued
  <1> QED BY <1>1, <1>2, <1>3, <1>4, <1>5, <1>6, <1>7, StepCases

-----------------------------------------------------------------------------
(* The places a dispatch can be in.                                         *)

\* The channel after a send and after a receive, index by index.
LEMMA ChanAfterSend ==
    ASSUME TypeInv, NEW m \in Message, chan' = Append(chan, m)
    PROVE  /\ Len(chan) \in Nat
           /\ Len(chan') = Len(chan) + 1
           /\ \A i \in 1..Len(chan) : chan'[i] = chan[i]
           /\ chan'[Len(chan) + 1] = m
  BY AppendFacts DEF TypeInv, PoolTypeOK

\* What the channel holds after its head was received.
LEMMA ChanAfterReceive ==
    ASSUME TypeInv, chan # <<>>, chan' = Tail(chan)
    PROVE  /\ Len(chan) \in Nat \ {0}
           /\ Head(chan) = chan[1]
           /\ Len(chan') = Len(chan) - 1
           /\ \A i \in 1..Len(chan') : chan'[i] = chan[i + 1]
  BY TailFacts DEF TypeInv, PoolTypeOK

\* What a step does to the channel when no dispatch changes place.
OtherMessage ==
    \/ chan' = chan
    \/ \E m \in Message : /\ \A d : m # Result(d) /\ m # Queued(d)
                          /\ chan' = Append(chan, m)
    \/ chan # <<>> /\ chan' = Tail(chan)

\* A step that moves no dispatch keeps the places.
LEMMA PlaceKept ==
    ASSUME TypeInv, PlaceInv, OtherMessage, queue' = queue,
           \A d \in Dispatches :
               stage[d] \in {"queued", "reported"} => stage'[d] = stage[d]
    PROVE  PlaceInv'
  <1>1. /\ \A k \in 1..Len(queue) : queue[k] \in Dispatches
        /\ Len(chan) \in Nat
    BY DEF TypeInv, PoolTypeOK
  <1>2. QueuePlaces'
    BY <1>1 DEF PlaceInv, QueuePlaces
  <1>3. CASE chan' = chan
    BY <1>2, <1>3 DEF PlaceInv, ChanPlaces, ChanUnique
  <1>4. ASSUME NEW m \in Message, \A d : m # Result(d) /\ m # Queued(d),
               chan' = Append(chan, m)
        PROVE  PlaceInv'
    <2>1. /\ Len(chan') = Len(chan) + 1
          /\ \A i \in 1..Len(chan) : chan'[i] = chan[i]
          /\ chan'[Len(chan) + 1] = m
      BY <1>4, ChanAfterSend
    <2>2. \A i \in 1..Len(chan') : \A d \in Dispatches :
             chan'[i] \in {Result(d), Queued(d)} => i \in 1..Len(chan) /\ chan'[i] = chan[i]
      BY <1>1, <1>4, <2>1
    <2>3. ChanPlaces'
      BY <2>2 DEF PlaceInv, ChanPlaces
    <2>4. ChanUnique'
      BY <2>2 DEF PlaceInv, ChanUnique
    <2> QED BY <1>2, <2>3, <2>4 DEF PlaceInv
  <1>5. ASSUME chan # <<>>, chan' = Tail(chan) PROVE PlaceInv'
    <2>1. /\ Len(chan) \in Nat \ {0}
          /\ Len(chan') = Len(chan) - 1
          /\ \A i \in 1..Len(chan') : chan'[i] = chan[i + 1]
      BY <1>5, ChanAfterReceive
    <2>2. \A i \in 1..Len(chan') : i + 1 \in 1..Len(chan) /\ chan'[i] = chan[i + 1]
      BY <2>1
    <2>3. ChanPlaces'
      BY <2>2 DEF PlaceInv, ChanPlaces
    <2>4. ChanUnique'
      <3> SUFFICES ASSUME NEW i \in 1..Len(chan'), NEW j \in 1..Len(chan'),
                          NEW d \in Dispatches, i # j, chan'[i] = chan'[j]
                   PROVE  chan'[i] \notin {Result(d), Queued(d)}
        BY DEF ChanUnique
      <3>0. i + 1 # j + 1
        <4>1. i \in Int /\ j \in Int /\ i # j
          OBVIOUS
        <4> QED BY <4>1
      <3>1. i + 1 # j + 1 /\ chan[i + 1] = chan[j + 1]
        BY <2>2, <3>0, Zenon
      <3> QED BY <2>2, <3>1 DEF PlaceInv, ChanUnique
    <2> QED BY <1>2, <2>3, <2>4 DEF PlaceInv
  <1> QED BY <1>3, <1>4, <1>5 DEF OtherMessage

\* Every step keeps stages, messages and queue in agreement.
LEMMA PlaceStep ==
    ASSUME TypeInv, PlaceInv, [PoolNext]_poolVars
    PROVE  PlaceInv'
  <1>t. /\ stage \in [Dispatches -> Stage]
        /\ \A k \in 1..Len(queue) : queue[k] \in Dispatches
        /\ Len(chan) \in Nat /\ Len(queue) \in Nat
        /\ queue \in Seq(Dispatches)
    BY DEF TypeInv, PoolTypeOK
  <1>1. ASSUME NEW d \in Dispatches,
               \/ \E t \in Turns : DispatchCall(t, d)
               \/ PoolCheck(d) \/ QueueResultLost(d) \/ Announce(d) \/ SpawnDirect(d)
        PROVE  PlaceInv'
    <2>1. /\ queue' = queue
          /\ \E st : stage' = [stage EXCEPT ![d] = st]
          /\ stage[d] \notin {"queued", "reported"}
      BY <1>1 DEF DispatchCall, PoolCheck, QueueResultLost, Announce, SpawnDirect, SetStage
    <2>2. OtherMessage
      <3>1. CASE QueueResultLost(d)
        <4>1. owner[d] \in Turns
          BY <3>1 DEF QueueResultLost, TypeInv, CallHasTurn, Dispatching
        <4> QED BY <3>1, <4>1, MessageFacts DEF QueueResultLost, Send, OtherMessage
      <3>2. CASE Announce(d)
        BY <3>2, MessageFacts DEF Announce, Send, OtherMessage
      <3>3. CASE ~QueueResultLost(d) /\ ~Announce(d)
        BY <1>1, <3>3 DEF DispatchCall, PoolCheck, SpawnDirect, OtherMessage
      <3> QED BY <3>1, <3>2, <3>3
    <2>3. \A e \in Dispatches :
             stage[e] \in {"queued", "reported"} => stage'[e] = stage[e]
      BY <1>t, <2>1
    <2> QED BY <2>1, <2>2, <2>3, PlaceKept
  <1>2. CASE Quiet \/ DrainTest \/ \E d \in Dispatches : HandleStarted(d)
    <2>1. queue' = queue /\ stage' = stage
      BY <1>2 DEF Quiet, DrainTest, HandleStarted
    <2>2. OtherMessage
      BY <1>2 DEF Quiet, AboutSub, DrainTest, HandleStarted, Receive, OtherMessage
    <2> QED BY <2>1, <2>2, PlaceKept
  <1>3. ASSUME NEW d \in Dispatches, SendQueued(d) PROVE PlaceInv'
    <2>1. /\ stage[d] = "refused" /\ queue' = queue
          /\ stage' = [stage EXCEPT ![d] = "queued"]
          /\ chan' = Append(chan, Queued(d))
      BY <1>3 DEF SendQueued, SetStage, Send
    <2>2. /\ Len(chan') = Len(chan) + 1
          /\ \A i \in 1..Len(chan) : chan'[i] = chan[i]
          /\ chan'[Len(chan) + 1] = Queued(d)
      BY <2>1, ChanAfterSend, MessageFacts
    <2>3. /\ \A i \in 1..Len(chan) : chan[i] # Queued(d)
          /\ \A k \in 1..Len(queue) : queue[k] # d
      BY <2>1 DEF PlaceInv, ChanPlaces, QueuePlaces
    <2>4. QueuePlaces'
      BY <1>t, <2>1 DEF PlaceInv, QueuePlaces
    <2>5. ChanPlaces'
      <3> SUFFICES ASSUME NEW i \in 1..Len(chan'), NEW e \in Dispatches
                   PROVE  /\ chan'[i] = Result(e) => stage'[e] = "reported"
                          /\ chan'[i] = Queued(e) => stage'[e] = "queued"
                          /\ chan'[i] = Queued(e) => \A k \in 1..Len(queue') : queue'[k] # e
        BY DEF ChanPlaces
      <3>1. CASE i \in 1..Len(chan)
        BY <1>t, <2>1, <2>2, <3>1 DEF PlaceInv, ChanPlaces
      <3>2. CASE i = Len(chan) + 1
        BY <1>t, <2>1, <2>2, <2>3, <3>2, MessageFacts
      <3> QED BY <1>t, <2>2, <3>1, <3>2
    <2>6. ChanUnique'
      BY <1>t, <2>2, <2>3, MessageFacts DEF PlaceInv, ChanUnique
    <2> QED BY <2>4, <2>5, <2>6 DEF PlaceInv
  <1>4. ASSUME NEW d \in Dispatches, Report(d) PROVE PlaceInv'
    <2>1. /\ stage[d] = "running" /\ queue' = queue
          /\ stage' = [stage EXCEPT ![d] = "reported"]
          /\ chan' = Append(chan, Result(d))
      BY <1>4 DEF Report, SetStage, Send
    <2>2. /\ Len(chan') = Len(chan) + 1
          /\ \A i \in 1..Len(chan) : chan'[i] = chan[i]
          /\ chan'[Len(chan) + 1] = Result(d)
      BY <2>1, ChanAfterSend, MessageFacts
    <2>3. \A i \in 1..Len(chan) : chan[i] # Result(d)
      BY <2>1 DEF PlaceInv, ChanPlaces
    <2>4. QueuePlaces'
      BY <1>t, <2>1 DEF PlaceInv, QueuePlaces
    <2>5. ChanPlaces'
      <3> SUFFICES ASSUME NEW i \in 1..Len(chan'), NEW e \in Dispatches
                   PROVE  /\ chan'[i] = Result(e) => stage'[e] = "reported"
                          /\ chan'[i] = Queued(e) => stage'[e] = "queued"
                          /\ chan'[i] = Queued(e) => \A k \in 1..Len(queue') : queue'[k] # e
        BY DEF ChanPlaces
      <3>1. CASE i \in 1..Len(chan)
        BY <1>t, <2>1, <2>2, <3>1 DEF PlaceInv, ChanPlaces
      <3>2. CASE i = Len(chan) + 1
        BY <1>t, <2>1, <2>2, <3>2, MessageFacts
      <3> QED BY <1>t, <2>2, <3>1, <3>2
    <2>6. ChanUnique'
      BY <1>t, <2>2, <2>3, MessageFacts DEF PlaceInv, ChanUnique
    <2> QED BY <2>4, <2>5, <2>6 DEF PlaceInv
  <1>5. ASSUME NEW d \in Dispatches, HandleQueued(d) PROVE PlaceInv'
    <2>1. /\ chan # <<>> /\ chan' = Tail(chan) /\ Head(chan) = Queued(d)
          /\ queue' = Append(queue, d) /\ stage' = stage
      BY <1>5 DEF HandleQueued, Receive
    <2>2. /\ Len(chan) \in Nat \ {0}
          /\ chan[1] = Queued(d)
          /\ Len(chan') = Len(chan) - 1
          /\ \A i \in 1..Len(chan') : /\ chan'[i] = chan[i + 1]
                                      /\ i + 1 \in 1..Len(chan)
                                      /\ i + 1 # 1
      BY <2>1, ChanAfterReceive
    <2>3. /\ stage[d] = "queued"
          /\ \A k \in 1..Len(queue) : queue[k] # d
      BY <2>2 DEF PlaceInv, ChanPlaces
    <2>4. \A i \in 1..Len(chan') : chan'[i] # Queued(d)
      BY <2>2 DEF PlaceInv, ChanUnique
    <2>5. /\ Len(queue') = Len(queue) + 1
          /\ \A k \in 1..Len(queue) : queue'[k] = queue[k]
          /\ queue'[Len(queue) + 1] = d
      BY <1>t, <2>1, AppendFacts
    <2>6. QueuePlaces'
      BY <1>t, <2>1, <2>3, <2>5 DEF PlaceInv, QueuePlaces
    <2>7. ChanPlaces'
      BY <1>t, <2>1, <2>2, <2>4, <2>5 DEF PlaceInv, ChanPlaces
    <2>8. ChanUnique'
      <3> SUFFICES ASSUME NEW i \in 1..Len(chan'), NEW j \in 1..Len(chan'),
                          NEW e \in Dispatches, i # j, chan'[i] = chan'[j]
                   PROVE  chan'[i] \notin {Result(e), Queued(e)}
        BY DEF ChanUnique
      <3>1. i \in Nat /\ j \in Nat
        BY <2>2
      <3>2. i + 1 # j + 1
        BY <3>1
      <3>3. chan[i + 1] = chan[j + 1]
        BY <2>2
      <3> QED BY <2>2, <3>2, <3>3 DEF PlaceInv, ChanUnique
    <2> QED BY <2>6, <2>7, <2>8 DEF PlaceInv
  <1>6. ASSUME NEW d \in Dispatches, HandleResult(d) PROVE PlaceInv'
    <2>1. /\ chan # <<>> /\ chan' = Tail(chan) /\ Head(chan) = Result(d)
          /\ queue' = queue /\ stage' = [stage EXCEPT ![d] = "done"]
      BY <1>6 DEF HandleResult, Receive, SetStage
    <2>2. /\ Len(chan) \in Nat \ {0}
          /\ chan[1] = Result(d)
          /\ Len(chan') = Len(chan) - 1
          /\ \A i \in 1..Len(chan') : /\ chan'[i] = chan[i + 1]
                                      /\ i + 1 \in 1..Len(chan)
                                      /\ i + 1 # 1
      BY <2>1, ChanAfterReceive
    <2>3. stage[d] = "reported"
      BY <2>2 DEF PlaceInv, ChanPlaces
    <2>4. \A i \in 1..Len(chan') : chan'[i] # Result(d)
      BY <2>2 DEF PlaceInv, ChanUnique
    <2>5. QueuePlaces'
      BY <1>t, <2>1, <2>3 DEF PlaceInv, QueuePlaces
    <2>6. ChanPlaces'
      BY <1>t, <2>1, <2>2, <2>3, <2>4 DEF PlaceInv, ChanPlaces
    <2>7. ChanUnique'
      <3> SUFFICES ASSUME NEW i \in 1..Len(chan'), NEW j \in 1..Len(chan'),
                          NEW e \in Dispatches, i # j, chan'[i] = chan'[j]
                   PROVE  chan'[i] \notin {Result(e), Queued(e)}
        BY DEF ChanUnique
      <3>1. i \in Nat /\ j \in Nat
        BY <2>2
      <3>2. i + 1 # j + 1
        BY <3>1
      <3>3. chan[i + 1] = chan[j + 1]
        BY <2>2
      <3> QED BY <2>2, <3>2, <3>3 DEF PlaceInv, ChanUnique
    <2> QED BY <2>5, <2>6, <2>7 DEF PlaceInv
  <1>7. CASE SpawnQueued
    <2> PICK h \in Dispatches :
             /\ h = queue[1] /\ queue # <<>>
             /\ queue' = Tail(queue)
             /\ stage' = [stage EXCEPT ![h] = "running"]
             /\ chan' = Append(chan, Started(h)) \/ chan' = chan
      BY <1>7, SpawnQueuedFacts
    <2>1. /\ Len(queue) \in Nat \ {0}
          /\ Len(queue') = Len(queue) - 1
          /\ \A k \in 1..Len(queue') : /\ queue'[k] = queue[k + 1]
                                       /\ k + 1 \in 1..Len(queue)
                                       /\ k + 1 # 1
      BY <1>t, TailFacts
    <2>2. stage[h] = "queued"
      BY <2>1 DEF PlaceInv, QueuePlaces
    <2>3. \A k \in 1..Len(queue') : queue'[k] # h
      BY <2>1 DEF PlaceInv, QueuePlaces
    <2>4. QueuePlaces'
      <3>1. \A k \in 1..Len(queue') : stage'[queue'[k]] = "queued"
        BY <1>t, <2>1, <2>3 DEF PlaceInv, QueuePlaces
      <3>2. \A k, l \in 1..Len(queue') : queue'[k] = queue'[l] => k = l
        <4> SUFFICES ASSUME NEW k \in 1..Len(queue'), NEW l \in 1..Len(queue'),
                            queue'[k] = queue'[l]
                     PROVE  k = l
          OBVIOUS
        <4>1. k + 1 = l + 1
          BY <2>1 DEF PlaceInv, QueuePlaces
        <4> QED BY <2>1, <4>1
      <3> QED BY <3>1, <3>2 DEF QueuePlaces
    <2>5. \A i \in 1..Len(chan) : chan[i] # Queued(h) /\ chan[i] # Result(h)
      BY <2>1, <2>2 DEF PlaceInv, ChanPlaces
    <2>6. \A i \in 1..Len(chan') :
             \/ chan'[i] = Started(h)
             \/ i \in 1..Len(chan) /\ chan'[i] = chan[i]
      <3>1. CASE chan' = chan
        BY <3>1
      <3>2. CASE chan' = Append(chan, Started(h))
        <4>1. Started(h) \in Message
          BY MessageFacts
        <4>2. /\ Len(chan') = Len(chan) + 1
              /\ \A i \in 1..Len(chan) : chan'[i] = chan[i]
              /\ chan'[Len(chan) + 1] = Started(h)
          BY <3>2, <4>1, ChanAfterSend
        <4> QED BY <1>t, <4>2
      <3> QED BY <3>1, <3>2
    <2>7. ChanPlaces'
      BY <1>t, <2>1, <2>5, <2>6, MessageFacts DEF PlaceInv, ChanPlaces
    <2>8. ChanUnique'
      BY <2>6, MessageFacts DEF PlaceInv, ChanUnique
    <2> QED BY <2>4, <2>7, <2>8 DEF PlaceInv
  <1>8. CASE ForgetAll
    <2>1. /\ queue' = <<>> /\ chan' = chan
          /\ stage' = [d \in Dispatches |->
                         IF \E i \in 1..Len(queue) : queue[i] = d
                         THEN "dropped" ELSE stage[d]]
      BY <1>8 DEF ForgetAll
    <2>2. ChanPlaces'
      <3> SUFFICES ASSUME NEW i \in 1..Len(chan), NEW d \in Dispatches
                   PROVE  /\ chan[i] = Result(d) => stage'[d] = "reported"
                          /\ chan[i] = Queued(d) => stage'[d] = "queued"
        BY <2>1, <1>t DEF ChanPlaces
      <3>1. /\ chan[i] = Result(d) => stage[d] = "reported"
            /\ chan[i] = Queued(d) => stage[d] = "queued"
            /\ chan[i] = Queued(d) => \A k \in 1..Len(queue) : queue[k] # d
        BY DEF PlaceInv, ChanPlaces
      <3>2. \A k \in 1..Len(queue) : queue[k] = d => stage[d] = "queued"
        BY DEF PlaceInv, QueuePlaces
      <3>3. \/ stage'[d] = stage[d]
            \/ \E k \in 1..Len(queue) : queue[k] = d
        BY <2>1
      <3> QED BY <3>1, <3>2, <3>3
    <2> QED BY <2>1, <2>2 DEF PlaceInv, ChanUnique, QueuePlaces
  <1> QED
    BY <1>1, <1>2, <1>3, <1>4, <1>5, <1>6, <1>7, <1>8, StepCases

-----------------------------------------------------------------------------
(* Slots and rows.                                                          *)

\* A message stays in the channel until it is the one received.
LEMMA InChanKept ==
    ASSUME TypeInv, NEW m, InChan(m),
           \/ chan' = chan
           \/ \E e \in Message : chan' = Append(chan, e)
           \/ chan # <<>> /\ chan' = Tail(chan) /\ Head(chan) # m
    PROVE  InChan(m)'
  <1>1. PICK i \in 1..Len(chan) : chan[i] = m
    BY DEF InChan
  <1>2. CASE chan' = chan
    BY <1>1, <1>2 DEF InChan
  <1>3. ASSUME NEW e \in Message, chan' = Append(chan, e) PROVE InChan(m)'
    <2>1. /\ Len(chan) \in Nat
          /\ Len(chan') = Len(chan) + 1
          /\ chan'[i] = chan[i]
      BY <1>1, <1>3, ChanAfterSend
    <2>2. i \in 1..Len(chan')
      BY <2>1
    <2> QED BY <1>1, <2>1, <2>2 DEF InChan
  <1>4. ASSUME chan # <<>>, chan' = Tail(chan), Head(chan) # m PROVE InChan(m)'
    <2>1. /\ Len(chan) \in Nat \ {0}
          /\ Head(chan) = chan[1]
          /\ Len(chan') = Len(chan) - 1
          /\ \A j \in 1..Len(chan') : chan'[j] = chan[j + 1]
      BY <1>4, ChanAfterReceive
    <2>2. i # 1
      BY <1>1, <1>4, <2>1
    <2>3. i - 1 \in 1..Len(chan') /\ (i - 1) + 1 = i
      BY <2>1, <2>2
    <2>4. chan'[i - 1] = m
      BY <1>1, <2>1, <2>3
    <2> QED BY <2>3, <2>4 DEF InChan
  <1> QED BY <1>2, <1>3, <1>4

\* A sent message is in the channel.
LEMMA InChanSent ==
    ASSUME TypeInv, NEW m \in Message, chan' = Append(chan, m)
    PROVE  InChan(m)'
  <1>1. Len(chan) \in Nat /\ Len(chan') = Len(chan) + 1 /\ chan'[Len(chan) + 1] = m
    BY ChanAfterSend
  <1>2. Len(chan) + 1 \in 1..Len(chan')
    BY <1>1
  <1> QED BY <1>1, <1>2 DEF InChan

Live == {"announced", "running"}

\* A dispatch moves on from "announced" to "running" and from there to a sent
\* result; it gets a slot when it runs, a row when SubagentStarted is received.
Moves(d) ==
    /\ stage[d] = "announced" => stage'[d] \in Live
    /\ stage[d] = "running" => stage'[d] = "running" \/ chan' = Append(chan, Result(d))
    /\ d \in inFlight' => d \in inFlight \/ stage'[d] = "running"
    /\ d \in rows' => d \in rows \/ (chan # <<>> /\ Head(chan) = Started(d))

\* A SubagentStarted message is sent about a live dispatch; receiving a result
\* gives up slot and row.
ChanMoves ==
    \/ chan' = chan
    \/ \E m \in Message :
          /\ chan' = Append(chan, m)
          /\ \A d \in Dispatches : m = Started(d) => stage'[d] \in Live
    \/ /\ chan # <<>>
       /\ chan' = Tail(chan)
       /\ \A d \in Dispatches : Head(chan) = Result(d) => d \notin inFlight' \cup rows'

\* How far one step can move a dispatch.
LEMMA StepMoves ==
    ASSUME TypeInv, PlaceInv, [PoolNext]_poolVars
    PROVE  ChanMoves /\ \A d \in Dispatches : Moves(d)
  <1> USE DEF SetStage, Send, Live
  <1>t. stage \in [Dispatches -> Stage]
    BY DEF TypeInv, PoolTypeOK
  <1>1. ASSUME NEW d \in Dispatches,
               \/ \E t \in Turns : DispatchCall(t, d)
               \/ PoolCheck(d) \/ SpawnDirect(d)
        PROVE  ChanMoves /\ \A e \in Dispatches : Moves(e)
    BY <1>1, <1>t DEF DispatchCall, PoolCheck, SpawnDirect, ChanMoves, Moves
  <1>2. ASSUME NEW d \in Dispatches, SendQueued(d)
        PROVE  ChanMoves /\ \A e \in Dispatches : Moves(e)
    <2>1. ChanMoves
      BY <1>2, MessageFacts DEF SendQueued, ChanMoves
    <2> QED BY <1>2, <1>t, <2>1 DEF SendQueued, Moves
  <1>3. ASSUME NEW d \in Dispatches, QueueResultLost(d)
        PROVE  ChanMoves /\ \A e \in Dispatches : Moves(e)
    <2>1. owner[d] \in Turns
      BY <1>3 DEF QueueResultLost, TypeInv, CallHasTurn, Dispatching
    <2>2. /\ Complete(owner[d]) \in Message
          /\ \A e \in Dispatches : Complete(owner[d]) # Started(e)
      BY <2>1, MessageFacts
    <2>3. ChanMoves
      BY <1>3, <2>2 DEF QueueResultLost, ChanMoves
    <2> QED BY <1>3, <1>t, <2>3 DEF QueueResultLost, Moves
  <1>4. ASSUME NEW d \in Dispatches, Announce(d)
        PROVE  ChanMoves /\ \A e \in Dispatches : Moves(e)
    <2>1. ChanMoves
      BY <1>4, <1>t, MessageFacts DEF Announce, ChanMoves
    <2> QED BY <1>4, <1>t, <2>1 DEF Announce, Moves
  <1>5. ASSUME NEW d \in Dispatches, Report(d)
        PROVE  ChanMoves /\ \A e \in Dispatches : Moves(e)
    <2>1. ChanMoves
      BY <1>5, MessageFacts DEF Report, ChanMoves
    <2> QED BY <1>5, <1>t, <2>1 DEF Report, Moves
  <1>6. ASSUME NEW d \in Dispatches, HandleStarted(d)
        PROVE  ChanMoves /\ \A e \in Dispatches : Moves(e)
    <2>1. ChanMoves
      BY <1>6, MessageFacts DEF HandleStarted, Receive, ChanMoves
    <2> QED BY <1>6, <2>1 DEF HandleStarted, Receive, Moves
  <1>7. ASSUME NEW d \in Dispatches, HandleQueued(d)
        PROVE  ChanMoves /\ \A e \in Dispatches : Moves(e)
    <2>1. ChanMoves
      BY <1>7, MessageFacts DEF HandleQueued, Receive, ChanMoves
    <2> QED BY <1>7, <2>1 DEF HandleQueued, Receive, Moves
  <1>8. ASSUME NEW d \in Dispatches, HandleResult(d)
        PROVE  ChanMoves /\ \A e \in Dispatches : Moves(e)
    <2>1. ChanMoves
      BY <1>8, MessageFacts DEF HandleResult, Receive, ChanMoves
    <2>2. stage[d] = "reported"
      <3>1. chan # <<>> /\ Head(chan) = Result(d)
        BY <1>8 DEF HandleResult, Receive
      <3>2. 1 \in 1..Len(chan) /\ chan[1] = Result(d)
        BY <3>1, TailFacts DEF TypeInv, PoolTypeOK
      <3> QED BY <3>2 DEF PlaceInv, ChanPlaces
    <2> QED BY <1>8, <1>t, <2>1, <2>2 DEF HandleResult, Moves
  <1>9. CASE SpawnQueued
    <2> PICK h \in Dispatches :
             /\ h = queue[1] /\ queue # <<>>
             /\ inFlight' = inFlight \cup {h}
             /\ stage' = [stage EXCEPT ![h] = "running"]
             /\ chan' = Append(chan, Started(h)) \/ chan' = chan
             /\ rows' = rows
      BY <1>9, SpawnQueuedFacts
    <2>1. ChanMoves
      BY <1>t, MessageFacts DEF ChanMoves
    <2> QED BY <1>t, <2>1 DEF Moves
  <1>10. CASE ForgetAll
    <2>1. \A k \in 1..Len(queue) : stage[queue[k]] = "queued"
      BY DEF PlaceInv, QueuePlaces
    <2>2. \A d \in Dispatches : stage[d] \in Live => stage'[d] = stage[d]
      BY <1>10, <2>1 DEF ForgetAll
    <2>3. chan' = chan /\ rows' = {} /\ inFlight' = {}
      BY <1>10 DEF ForgetAll
    <2> QED BY <2>2, <2>3 DEF Moves, ChanMoves
  <1>11. CASE Quiet
    <2>1. ChanMoves
      BY <1>11 DEF Quiet, AboutSub, ChanMoves
    <2> QED BY <1>11, <2>1 DEF Quiet, Moves
  <1>12. CASE DrainTest
    BY <1>12 DEF DrainTest, Moves, ChanMoves
  <1> QED
    BY <1>1, <1>2, <1>3, <1>4, <1>5, <1>6, <1>7, <1>8, <1>9, <1>10, <1>11, <1>12,
       StepCases

\* A result on its way stays on its way, or its slot and row are given up.
LEMMA ResultKept ==
    ASSUME TypeInv, ChanMoves, NEW d \in Dispatches, InChan(Result(d)),
           d \in inFlight' \cup rows'
    PROVE  InChan(Result(d))'
  BY InChanKept DEF ChanMoves

\* No step leaves a slot to a dispatch that has neither task nor result.
LEMMA SlotsStep ==
    ASSUME TypeInv, PlaceInv, SlotsHeldByLive, [PoolNext]_poolVars
    PROVE  SlotsHeldByLive'
  <1> SUFFICES ASSUME NEW d \in Dispatches, d \in inFlight', stage'[d] # "running"
               PROVE  InChan(Result(d))'
    <2>1. TypeInv'
      BY TypeStep
    <2> QED BY <2>1 DEF SlotsHeldByLive, TypeInv, PoolTypeOK
  <1>1. ChanMoves /\ Moves(d) /\ Result(d) \in Message
    BY StepMoves, MessageFacts
  <1>2. d \in inFlight
    BY <1>1 DEF Moves
  <1>3. CASE stage[d] = "running"
    <2>1. chan' = Append(chan, Result(d))
      BY <1>1, <1>3 DEF Moves
    <2> QED BY <1>1, <2>1, InChanSent
  <1>4. CASE InChan(Result(d))
    BY <1>1, <1>4, ResultKept
  <1> QED BY <1>2, <1>3, <1>4 DEF SlotsHeldByLive

\* No step leaves a row whose result has gone.
LEMMA RowsStep ==
    ASSUME TypeInv, PlaceInv, StartedAhead, RowsWillClear, [PoolNext]_poolVars
    PROVE  RowsWillClear'
  <1> SUFFICES ASSUME NEW d \in Dispatches, d \in rows', stage'[d] \notin Live
               PROVE  InChan(Result(d))'
    <2>1. TypeInv'
      BY TypeStep
    <2> QED BY <2>1 DEF RowsWillClear, TypeInv, PoolTypeOK, Live
  <1>1. ChanMoves /\ Moves(d) /\ Result(d) \in Message
    BY StepMoves, MessageFacts
  <1>2. stage[d] \in Live \/ InChan(Result(d))
    <2>1. CASE d \in rows
      BY <2>1 DEF RowsWillClear, Live
    <2>2. CASE chan # <<>> /\ Head(chan) = Started(d)
      <3>1. 1 \in 1..Len(chan) /\ chan[1] = Started(d) /\ Len(chan) \in Nat
        BY <2>2, TailFacts DEF TypeInv, PoolTypeOK
      <3>2. \/ stage[d] \in {"announced", "running"}
            \/ \E j \in (1 + 1)..Len(chan) : chan[j] = Result(d)
        BY <3>1 DEF StartedAhead
      <3> QED BY <3>1, <3>2 DEF InChan, Live
    <2> QED BY <1>1, <2>1, <2>2 DEF Moves
  <1>3. CASE stage[d] \in Live
    <2>1. chan' = Append(chan, Result(d))
      BY <1>1, <1>3 DEF Moves, Live
    <2> QED BY <1>1, <2>1, InChanSent
  <1>4. CASE InChan(Result(d))
    BY <1>1, <1>4, ResultKept
  <1> QED BY <1>2, <1>3, <1>4

\* No step puts a start behind its own result.
LEMMA StartedStep ==
    ASSUME TypeInv, PlaceInv, StartedAhead, [PoolNext]_poolVars
    PROVE  StartedAhead'
  <1> SUFFICES ASSUME NEW i \in 1..Len(chan'), NEW d \in Dispatches,
                      chan'[i] = Started(d), stage'[d] \notin Live
               PROVE  \E j \in (i + 1)..Len(chan') : chan'[j] = Result(d)
    BY DEF StartedAhead, Live
  <1>1. ChanMoves /\ Moves(d) /\ Result(d) \in Message
    BY StepMoves, MessageFacts
  <1>2. CASE chan' = chan
    <2>1. Len(chan) \in Nat
      BY DEF TypeInv, PoolTypeOK
    <2>2. chan # Append(chan, Result(d))
      BY <1>1, AppendFacts DEF TypeInv, PoolTypeOK
    <2>3. stage[d] \notin Live
      BY <1>1, <1>2, <2>2 DEF Moves, Live
    <2> QED BY <1>2, <2>3 DEF StartedAhead, Live
  <1>3. ASSUME NEW m \in Message, chan' = Append(chan, m),
               m = Started(d) => stage'[d] \in Live
        PROVE  \E j \in (i + 1)..Len(chan') : chan'[j] = Result(d)
    <2>1. /\ Len(chan) \in Nat
          /\ Len(chan') = Len(chan) + 1
          /\ \A j \in 1..Len(chan) : chan'[j] = chan[j]
          /\ chan'[Len(chan) + 1] = m
      BY <1>3, ChanAfterSend
    <2>2. i \in 1..Len(chan) /\ chan[i] = Started(d)
      BY <1>3, <2>1
    <2>3. CASE stage[d] \in Live
      <3>1. chan' = Append(chan, Result(d))
        BY <1>1, <2>3 DEF Moves, Live
      <3>2. chan'[Len(chan) + 1] = Result(d)
        BY <1>1, <3>1, ChanAfterSend
      <3> QED BY <2>1, <2>2, <3>2
    <2>4. ASSUME NEW j \in (i + 1)..Len(chan), chan[j] = Result(d)
          PROVE  \E k \in (i + 1)..Len(chan') : chan'[k] = Result(d)
      <3>1. j \in (i + 1)..Len(chan') /\ j \in 1..Len(chan)
        BY <2>1, <2>2
      <3> QED BY <2>1, <2>4, <3>1
    <2> QED BY <2>2, <2>3, <2>4 DEF StartedAhead, Live
  <1>4. ASSUME chan # <<>>, chan' = Tail(chan)
        PROVE  \E j \in (i + 1)..Len(chan') : chan'[j] = Result(d)
    <2>1. /\ Len(chan) \in Nat \ {0}
          /\ Len(chan') = Len(chan) - 1
          /\ \A j \in 1..Len(chan') : chan'[j] = chan[j + 1]
      BY <1>4, ChanAfterReceive
    <2>2. i + 1 \in 1..Len(chan) /\ chan[i + 1] = Started(d)
      BY <2>1
    <2>3. stage[d] \notin Live
      <3>1. chan' # Append(chan, Result(d))
        BY <1>1, <2>1, AppendFacts DEF TypeInv, PoolTypeOK
      <3> QED BY <1>1, <3>1 DEF Moves, Live
    <2>4. PICK j \in ((i + 1) + 1)..Len(chan) : chan[j] = Result(d)
      BY <2>2, <2>3 DEF StartedAhead, Live
    <2>5. j - 1 \in (i + 1)..Len(chan') /\ j - 1 \in 1..Len(chan') /\ (j - 1) + 1 = j
      BY <2>1, <2>4
    <2> QED BY <2>1, <2>4, <2>5
  <1> QED BY <1>1, <1>2, <1>3, <1>4 DEF ChanMoves

-----------------------------------------------------------------------------
(* The invariant and its theorems.                                          *)

\* The pool starts in the invariant.
LEMMA InitInv == PoolInit => IInv
  <1> SUFFICES ASSUME PoolInit PROVE IInv
    OBVIOUS
  <1>1. TypeInv
    BY TypeInit
  <1>2. chan = <<>> /\ queue = <<>> /\ inFlight = {} /\ rows = {} /\ mpc = "idle"
        /\ Len(chan) = 0 /\ Len(queue) = 0
        /\ \A d \in Dispatches : stage[d] = "none"
    BY DEF PoolInit
  <1>3. OneCallPerTurn /\ GuardInv /\ NoDirectDuplicate
    BY <1>2 DEF OneCallPerTurn, GuardInv, NoDirectDuplicate, Dispatching
  <1>4. PlaceInv /\ StartedAhead
    BY <1>2 DEF PlaceInv, ChanPlaces, ChanUnique, QueuePlaces, StartedAhead
  <1>5. SlotsHeldByLive /\ RowsWillClear
    BY <1>2 DEF SlotsHeldByLive, RowsWillClear
  <1>6. BoundInv
    <2>1. Cardinality(inFlight) = 0
      BY <1>2, FS_EmptySet
    <2>2. Cardinality(Admitted) <= Cardinality(Turns) /\ Cardinality(Admitted) \in Nat
      BY FiniteFacts, SetsInBounds
    <2>3. Popping = 0
      BY <1>2 DEF Popping
    <2> QED BY <2>1, <2>2, <2>3, FiniteFacts, PoolAssumption DEF BoundInv
  <1> QED BY <1>1, <1>3, <1>4, <1>5, <1>6 DEF IInv

\* The invariant is inductive.
LEMMA StepInv == IInv /\ [PoolNext]_poolVars => IInv'
  <1> SUFFICES ASSUME IInv, [PoolNext]_poolVars PROVE IInv'
    OBVIOUS
  <1>0. /\ TypeInv /\ OneCallPerTurn /\ BoundInv /\ GuardInv /\ NoDirectDuplicate
        /\ PlaceInv /\ SlotsHeldByLive /\ StartedAhead /\ RowsWillClear
    BY DEF IInv
  <1>1. TypeInv'
    BY <1>0, TypeStep
  <1>2. OneCallPerTurn'
    BY <1>0, OneCallStep
  <1>3. BoundInv'
    BY <1>0, <1>1, BoundStep
  <1>4. GuardInv' /\ NoDirectDuplicate'
    BY <1>0, GuardStep
  <1>5. PlaceInv'
    BY <1>0, PlaceStep
  <1>6. SlotsHeldByLive'
    BY <1>0, SlotsStep
  <1>7. StartedAhead' /\ RowsWillClear'
    BY <1>0, StartedStep, RowsStep
  <1> QED BY <1>1, <1>2, <1>3, <1>4, <1>5, <1>6, <1>7 DEF IInv

\* The inductive invariant holds throughout every run of the pool.
LEMMA Invariance == PoolSpec => []IInv
  BY InitInv, StepInv, PTL DEF PoolSpec

\* Every variable of the pool keeps its type.
THEOREM PoolTypeCorrect == PoolSpec => []PoolTypeOK
  <1>1. IInv => PoolTypeOK
    BY DEF IInv, TypeInv
  <1> QED BY <1>1, Invariance, PTL

\* However turns, subagents and the main loop interleave between their lock
\* acquisitions, the registry exceeds max_concurrent by at most one subagent
\* per chat turn alive at the same time.
THEOREM PoolIsBounded == PoolSpec => []PoolBound
  <1>1. IInv => PoolBound
    <2> SUFFICES ASSUME IInv PROVE PoolBound
      OBVIOUS
    <2>1. BoundInv /\ TypeInv
      BY DEF IInv
    <2>2. /\ Cardinality(inFlight) \in Nat
          /\ Cardinality(Admitted) \in Nat
          /\ Cardinality(Turns) \in Nat
          /\ MaxConcurrent \in Nat
      BY <2>1, FiniteFacts, SetsInBounds, PoolAssumption
    <2>3. Popping \in {0, 1}
      BY DEF Popping
    <2> QED BY <2>1, <2>2, <2>3 DEF BoundInv, PoolBound
  <1> QED BY <1>1, Invariance, PTL

\* No slot leaks: whatever is registered still runs or has its result on the
\* way to the handler that frees the slot.
THEOREM SlotsNeverLeak == PoolSpec => []SlotsHeldByLive
  <1>1. IInv => SlotsHeldByLive
    BY DEF IInv
  <1> QED BY <1>1, Invariance, PTL

\* The busy guard cannot block for ever on a subagent that is gone.
THEOREM RowsNeverStick == PoolSpec => []RowsWillClear
  <1>1. IInv => RowsWillClear
    BY DEF IInv
  <1> QED BY <1>1, Invariance, PTL

\* One turn never has two subagents of its own direct dispatch on the same
\* (agent, task) pair registered.
THEOREM DirectDispatchesDiffer == PoolSpec => []NoDirectDuplicate
  <1>1. IInv => NoDirectDuplicate
    BY DEF IInv
  <1> QED BY <1>1, Invariance, PTL

=============================================================================
