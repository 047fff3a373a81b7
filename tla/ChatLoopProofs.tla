--------------------------- MODULE ChatLoopProofs ---------------------------
(***************************************************************************)
(* Proofs about ChatLoop, for every set of sessions, turns and subagents,  *)
(* every channel capacity and any number of wakes.                         *)
(***************************************************************************)
EXTENDS ChatLoop, FiniteSetTheorems, WellFoundedInduction, TLAPS

\* What a message may name: a subagent, a turn that lives, a wake that the log
\* does not have yet.
MessageInv(m) ==
    /\ m.type = "Started" => m.who \in Subagents
    /\ m.type = "Ask" => m.who \in live
    /\ m.type = "Schedule" => m.wake \in Wakes /\ wakeState[m.wake] = "none"

ChanInv ==
    /\ \A i \in 1..Len(chan) : MessageInv(chan[i])
    /\ \A i, j \in 1..Len(chan) :
          /\ i # j
          /\ chan[i].type = "Schedule" /\ chan[j].type = "Schedule"
          => chan[i].wake # chan[j].wake

\* Nothing of a process that is not running is left.
DownInv ==
    ~up => /\ ~streaming /\ ~yielded /\ ~pendingMessage /\ ~wakeDeferred
           /\ live = {} /\ answerer = Nobody /\ chan = <<>>
           /\ pendingWakes = {} /\ firing = {} /\ mpc = "idle"

TypeInv == ChatTypeOK /\ ChanInv /\ DownInv

\* In the middle of a drain the wake whose note has been recorded has left the
\* pending set already, and only that one.
WakeInv ==
    /\ pendingWakes = IF ~up THEN {}
                      ELSE IF mpc = "mark"
                           THEN Unsettled(session) \ {EarliestIn(firing)}
                           ELSE Unsettled(session)
    /\ firing \subseteq Unsettled(session)
    /\ mpc = "mark" => injected[EarliestIn(firing)] > 0

\* Each crash costs at most one more injection of a wake that is not settled.
Settling(w) == (mpc = "mark" /\ w = EarliestIn(firing))
                 \/ wakeState[w] \notin {"none", "scheduled"}

OnceInv == \A w \in Wakes :
    /\ injected[w] <= 1 + crashes
    /\ ~Settling(w) => injected[w] <= crashes

\* With neither takeovers nor wizards the loop's `streaming' says exactly that a
\* turn's end is still to come.
AtHome == takeovers = 0 /\ wizards = 0

HomeChan ==
    /\ \A i \in 1..Len(chan) :
          /\ chan[i].type \notin {"TakenOver", "Scan", "Update"}
          /\ chan[i].type = "Complete" => chan[i] = Complete
    /\ \A i, j \in 1..Len(chan) :
          chan[i] = Complete /\ chan[j] = Complete => i = j

HomeTurns ==
    /\ ~yielded
    /\ ~streaming => live = {} /\ ~InChan(Complete)
    /\ \A t, u \in live : t = u
    /\ live # {} => ~InChan(Complete)
    /\ mpc # "idle" => ~streaming

HomeInv == AtHome => HomeChan /\ HomeTurns

\* The watcher is set to the first pending wake, or a turn's end will look for
\* wakes and find one.
ArmedInv ==
    takeovers = 0 /\ refusals = 0 =>
        /\ ~yielded
        /\ \A i \in 1..Len(chan) : chan[i].type # "TakenOver"
        /\ Ready => \/ next = EarliestIn(pendingWakes)
                    \/ Busy /\ \E w \in pendingWakes : w <= clock

IInv == TypeInv /\ WakeInv /\ OnceInv /\ WaitsForATurn /\ HomeInv /\ ArmedInv

-----------------------------------------------------------------------------
(* Sequences, the earliest wake, a new turn.                                *)

\* Sending puts one message behind the others.
LEMMA AppendFacts ==
    ASSUME NEW S, NEW s \in Seq(S), NEW e \in S
    PROVE  /\ Append(s, e) \in Seq(S)
           /\ Len(Append(s, e)) = Len(s) + 1
           /\ \A i \in 1..Len(s) : Append(s, e)[i] = s[i]
           /\ Append(s, e)[Len(s) + 1] = e
  OBVIOUS

\* Receiving shifts the messages by one.
LEMMA TailFacts ==
    ASSUME NEW S, NEW s \in Seq(S), s # <<>>
    PROVE  /\ Tail(s) \in Seq(S)
           /\ Head(s) \in S
           /\ Head(s) = s[1]
           /\ Len(s) \in Nat \ {0}
           /\ Len(Tail(s)) = Len(s) - 1
           /\ \A i \in 1..Len(Tail(s)) : Tail(s)[i] = s[i + 1]
  OBVIOUS

\* Every set of numbers has a least one.
LEMMA LeastOf ==
    ASSUME NEW W, W \subseteq Nat, W # {}
    PROVE  \E x \in W : \A y \in W : x <= y
  <1> DEFINE R == {ss \in Nat \X Nat : ss[1] < ss[2]}
  <1>1. IsWellFoundedOn(R, Nat)
    BY NatLessThanWellFounded DEF OpToRel
  <1>2. \A x, y \in Nat : y < x => <<y, x>> \in R
    OBVIOUS
  <1> HIDE DEF R
  <1>3. PICK x \in W : \A y \in W : <<y, x>> \notin R
    BY <1>1, WFMin
  <1>4. ASSUME NEW y \in W PROVE x <= y
    <2>1. x \in Nat /\ y \in Nat
      OBVIOUS
    <2>2. ~(y < x)
      BY <1>2, <1>3, <2>1
    <2> QED BY <2>1, <2>2
  <1> QED BY <1>4

\* The first key of the map of pending wakes is one of them, unless it is empty.
LEMMA EarliestFacts ==
    /\ EarliestIn({}) = Never
    /\ \A W \in SUBSET Wakes : W # {} => EarliestIn(W) \in W
    /\ \A W \in SUBSET Wakes : EarliestIn(W) \in 0..LastWake
  <1>1. EarliestIn({}) = Never
    BY DEF EarliestIn
  <1>2. ASSUME NEW W \in SUBSET Wakes, W # {} PROVE EarliestIn(W) \in W
    <2>1. W \subseteq Nat
      BY DEF Wakes
    <2>2. \E x \in W : \A y \in W : x <= y
      BY <1>2, <2>1, LeastOf
    <2> QED BY <1>2, <2>2 DEF EarliestIn
  <1>3. ASSUME NEW W \in SUBSET Wakes PROVE EarliestIn(W) \in 0..LastWake
    <2>1. LastWake \in Nat
      BY ChatAssumption
    <2>2. CASE W = {}
      BY <1>1, <2>1, <2>2 DEF Never
    <2>3. CASE W # {}
      <3>1. EarliestIn(W) \in Wakes
        BY <1>2, <2>3
      <3> QED BY <2>1, <3>1 DEF Wakes
    <2> QED BY <2>2, <2>3
  <1> QED BY <1>1, <1>2, <1>3

\* spawn_turn adds one turn that was not alive.
LEMMA SpawnFacts ==
    ASSUME live \subseteq Turns, SpawnTurn
    PROVE  \E t \in Turns : t \notin live /\ live' = live \cup {t}
  <1>1. \E t \in Turns : t \notin live
    BY DEF SpawnTurn
  <1> QED BY <1>1 DEF SpawnTurn

\* The messages of the tasks.
LEMMA MessageFacts ==
    /\ \A k \in Kind, x \in Turns \cup Subagents \cup {Nobody}, w \in 0..LastWake :
          /\ Msg(k, x, w) \in Message
          /\ Msg(k, x, w).type = k /\ Msg(k, x, w).who = x /\ Msg(k, x, w).wake = w
    /\ {Complete, TakenOver, WakeDue} \subseteq Message
    /\ Complete.type = "Complete" /\ TakenOver.type = "TakenOver"
    /\ WakeDue.type = "WakeDue"
  BY ChatAssumption DEF Message, Msg, Kind, Complete, TakenOver, WakeDue

-----------------------------------------------------------------------------
(* What a task may send, as all the parts of the invariant see it.          *)

Sent(m) ==
    /\ m.type = "Started" => m.who \in Subagents
    /\ m.type = "Ask" => m.who \in live
    /\ m.type = "Schedule" =>
          /\ m.wake \in Wakes /\ wakeState[m.wake] = "none"
          /\ \A i \in 1..Len(chan) :
                chan[i].type = "Schedule" => chan[i].wake # m.wake
    /\ m.type = "TakenOver" => takeovers' > 0
    /\ m.type \in {"Scan", "Update"} => wizards' > 0
    /\ \/ live' = live /\ m.type # "Complete"
       \/ /\ m = Complete
          /\ \E t \in live : live' = live \ {t} /\ ~Blocked(t)

TaskEffect ==
    /\ up
    /\ \E m \in Message : Sent(m) /\ chan' = Append(chan, m)
    /\ subs' \subseteq Subagents
    /\ takeovers' \in Nat /\ takeovers' >= takeovers
    /\ wizards' \in Nat /\ wizards' >= wizards
    /\ UNCHANGED <<up, sessionVars, flagVars, answerer, rows, clock, logVars,
                   pendingWakes, drainVars, crashes, refusals>>

\* Every task step has that effect.
LEMMA TaskFacts ==
    ASSUME TypeInv, TaskStep
    PROVE  TaskEffect
  <1> USE ChatAssumption, MessageFacts DEF TypeInv, ChatTypeOK, TaskSends, Send, Sent,
          TaskEffect, boundVars
  <1>1. ASSUME NEW t \in Turns, NEW w \in Wakes, AskSchedule(t, w)
        PROVE  TaskEffect
    <2>1. w \in 0..LastWake /\ "Schedule" \in Kind
      BY DEF Wakes, Kind
    <2> DEFINE m == Msg("Schedule", t, w)
    <2>2. m \in Message /\ m.type = "Schedule" /\ m.who = t /\ m.wake = w
      BY <2>1
    <2> HIDE DEF m
    <2>3. Sent(m)
      BY <1>1, <2>2 DEF AskSchedule
    <2>4. chan' = Append(chan, m)
      BY <1>1 DEF AskSchedule, m
    <2>5. \E q \in Message : Sent(q) /\ chan' = Append(chan, q)
      <3> HIDE DEF Sent
      <3> QED BY <2>2, <2>3, <2>4
    <2> HIDE DEF Sent
    <2> QED BY <1>1, <2>5 DEF AskSchedule
  <1>2. ASSUME NEW t \in Turns, NEW w \in 0..LastWake, AskCancel(t, w)
        PROVE  TaskEffect
    <2>1. "Cancel" \in Kind
      BY DEF Kind
    <2> QED BY <1>2, <2>1 DEF AskCancel
  <1>3. ASSUME NEW t \in Turns, AskUser(t) PROVE TaskEffect
    <2>1. 0 \in 0..LastWake /\ "Ask" \in Kind
      BY DEF Kind
    <2> QED BY <1>3, <2>1 DEF AskUser
  <1>4. ASSUME NEW t \in Turns, NEW s \in Subagents, Dispatch(t, s)
        PROVE  TaskEffect
    <2>1. 0 \in 0..LastWake /\ "Started" \in Kind
      BY DEF Kind
    <2> QED BY <1>4, <2>1 DEF Dispatch
  <1>5. ASSUME NEW t \in Turns, EndTurn(t) PROVE TaskEffect
    BY <1>5 DEF EndTurn
  <1>6. ASSUME NEW s \in Subagents, FinishSubagent(s) PROVE TaskEffect
    <2>1. 0 \in 0..LastWake /\ "Result" \in Kind
      BY DEF Kind
    <2> QED BY <1>6, <2>1 DEF FinishSubagent
  <1>7. CASE Ring
    BY <1>7 DEF Ring
  <1>8. CASE HeartbeatLost
    <2>1. takeovers \in Nat /\ takeovers' = takeovers + 1
      BY <1>8 DEF HeartbeatLost
    <2>2. Sent(TakenOver)
      BY <1>8, <2>1 DEF HeartbeatLost
    <2> QED BY <1>8, <2>1, <2>2 DEF HeartbeatLost
  <1>9. ASSUME NEW k \in {"Scan", "Update"}, WizardFetched(k) PROVE TaskEffect
    <2>1. 0 \in 0..LastWake /\ k \in Kind
      BY DEF Kind
    <2> QED BY <1>9, <2>1 DEF WizardFetched
  <1> HIDE DEF TaskEffect, Sent, TypeInv, ChatTypeOK
  <1> QED
    BY <1>1, <1>2, <1>3, <1>4, <1>5, <1>6, <1>7, <1>8, <1>9, Zenon
       DEF TaskStep

-----------------------------------------------------------------------------
(* Helpers of the handlers.                                                 *)

\* A drain takes up due wakes of the set it is given, or none if it is busy.
LEMMA DrainFacts ==
    ASSUME NEW W \in SUBSET Wakes, NEW d \in 0..LastWake, NEW busy \in BOOLEAN,
           DrainWakes(W, d, busy)
    PROVE  /\ next' \in 0..LastWake
           /\ firing' \subseteq W
           /\ firing' \subseteq Wakes
           /\ mpc' \in {"idle", "inject"}
           /\ mpc' = "idle" <=> firing' = {}
           /\ \/ firing' = {} /\ (\A w \in W : ~(w <= clock)) /\ next' = d
              \/ firing' = {} /\ (\E w \in W : w <= clock) /\ busy /\ next' = Never
              \/ firing' # {} /\ ~busy /\ next' = d
  <1> DEFINE due == {w \in W : w <= clock}
  <1>1. /\ next' = IF due # {} /\ busy THEN Never ELSE d
        /\ firing' = IF busy THEN {} ELSE due
        /\ mpc' = IF firing' = {} THEN "idle" ELSE "inject"
    BY DEF DrainWakes
  <1>2. due = {} <=> \A w \in W : ~(w <= clock)
    OBVIOUS
  <1>3. due \subseteq W
    OBVIOUS
  <1>4. LastWake \in Nat /\ Never \in 0..LastWake
    BY ChatAssumption DEF Never
  <1> HIDE DEF due
  <1> QED BY <1>1, <1>2, <1>3, <1>4

\* The rebuilt pending wakes are wakes.
LEMMA UnsettledFacts == \A s : Unsettled(s) \in SUBSET Wakes
  BY DEF Unsettled

\* The bounds are numbers.
LEMMA BoundFacts ==
    /\ LastWake \in Nat /\ MaxTakeovers \in Nat /\ MaxWizards \in Nat
    /\ MaxCrashes \in Nat /\ MaxRefusals \in Nat
    /\ Nobody \notin Turns /\ Nobody \notin Subagents
    /\ \A w \in Wakes : w \in 0..LastWake /\ w > 0 /\ w \in Nat
    /\ \A s \in Sessions : s # Nobody
  BY ChatAssumption DEF Wakes

\* What a received message is.
LEMMA ReceiveFacts ==
    ASSUME TypeInv, NEW k \in Kind, Receive(k)
    PROVE  /\ up /\ mpc = "idle" /\ firing = {}
           /\ chan # <<>> /\ chan' = Tail(chan) /\ chan' \in Seq(Message)
           /\ Head(chan) \in Message /\ Head(chan) = chan[1]
           /\ Head(chan).type = k /\ MessageInv(Head(chan))
  <1>1. chan # <<>> /\ chan \in Seq(Message)
    BY DEF Receive, TypeInv, ChatTypeOK
  <1>2. /\ Tail(chan) \in Seq(Message) /\ Head(chan) \in Message
        /\ Head(chan) = chan[1] /\ Len(chan) \in Nat \ {0}
    BY <1>1, TailFacts
  <1>3. MessageInv(chan[1])
    BY <1>2 DEF TypeInv, ChanInv
  <1> QED
    BY <1>1, <1>2, <1>3 DEF Receive, Ready, TypeInv, ChatTypeOK

-----------------------------------------------------------------------------
(* Type correctness.                                                        *)

\* The loop starts well typed.
LEMMA TypeInit == ChatInit => TypeInv
  <1> SUFFICES ASSUME ChatInit PROVE TypeInv
    OBVIOUS
  <1>1. ChatTypeOK
    <2>1. /\ chan \in Seq(Message)
          /\ wakeState \in [Wakes -> WakeState]
          /\ home \in [Wakes -> Sessions \cup {Nobody}]
          /\ injected \in [Wakes -> Nat]
      BY DEF ChatInit, WakeState
    <2>2. /\ clock \in 0..LastWake /\ next \in 0..LastWake
          /\ {takeovers, wizards, crashes, refusals} \subseteq Nat
      BY BoundFacts DEF ChatInit, Never
    <2>3. /\ {up, streaming, yielded, pendingMessage, wakeDeferred} \subseteq BOOLEAN
          /\ session \in opened /\ opened \subseteq Sessions
      BY DEF ChatInit
    <2> QED BY <2>1, <2>2, <2>3 DEF ChatInit, ChatTypeOK
  <1>2. ChanInv /\ DownInv
    BY DEF ChatInit, ChanInv, DownInv
  <1> QED BY <1>1, <1>2 DEF TypeInv

\* Every step keeps the variables' types.
LEMMA TypeStep == TypeInv /\ [ChatNext]_chatVars => ChatTypeOK'
  <1> SUFFICES ASSUME TypeInv, [ChatNext]_chatVars PROVE ChatTypeOK'
    OBVIOUS
  <1>0. ChatTypeOK
    BY DEF TypeInv
  <1> USE BoundFacts
      DEF ChatTypeOK, flagVars, sessionVars, logVars, drainVars, boundVars, StreamTurn
  <1>1. CASE TaskStep
    <2>1. TaskEffect
      BY <1>1, TaskFacts
    <2>2. chan' \in Seq(Message)
      BY <1>0, <2>1, AppendFacts DEF TaskEffect
    <2>3. live' \subseteq Turns /\ answerer' \in live' \cup {Nobody}
      BY <1>0, <2>1 DEF TaskEffect, Sent, Blocked
    <2> QED BY <1>0, <2>1, <2>2, <2>3 DEF TaskEffect
  <1>2. CASE HandleComplete
    <2>1. chan' \in Seq(Message) /\ mpc = "idle" /\ firing = {}
      BY <1>2, ReceiveFacts DEF HandleComplete, Kind
    <2>2. CASE StreamTurn /\ UNCHANGED drainVars
      BY <1>0, <1>2, <2>1, <2>2, SpawnFacts DEF HandleComplete
    <2>3. CASE streaming' = FALSE /\ DrainWakes(pendingWakes, next, yielded)
                 /\ UNCHANGED live
      <3>1. pendingWakes \in SUBSET Wakes /\ next \in 0..LastWake /\ yielded \in BOOLEAN
        BY <1>0
      <3>2. /\ next' \in 0..LastWake /\ firing' \subseteq Wakes
            /\ mpc' \in {"idle", "inject"} /\ (mpc' = "idle" <=> firing' = {})
        BY <2>3, <3>1, DrainFacts
      <3> QED BY <1>0, <1>2, <2>1, <2>3, <3>2 DEF HandleComplete
    <2> QED BY <1>2, <2>2, <2>3 DEF HandleComplete
  <1>3. CASE HandleTakenOver
    <2>1. chan' \in Seq(Message)
      BY <1>3, ReceiveFacts DEF HandleTakenOver, Kind
    <2> QED BY <1>0, <1>3, <2>1 DEF HandleTakenOver
  <1>4. CASE HandleStarted
    <2>1. chan' \in Seq(Message) /\ Head(chan).who \in Subagents
      BY <1>4, ReceiveFacts DEF HandleStarted, Kind, MessageInv
    <2> QED BY <1>0, <1>4, <2>1 DEF HandleStarted
  <1>5. CASE HandleResult
    <2>1. chan' \in Seq(Message)
      BY <1>5, ReceiveFacts DEF HandleResult, Kind
    <2>2. live' \subseteq Turns /\ live \subseteq live'
      BY <1>0, <1>5, SpawnFacts DEF HandleResult
    <2> QED BY <1>0, <1>5, <2>1, <2>2 DEF HandleResult
  <1>6. CASE HandleWakeDue
    <2>1. chan' \in Seq(Message)
      BY <1>6, ReceiveFacts DEF HandleWakeDue, Kind
    <2> QED BY <1>0, <1>6, <2>1, DrainFacts DEF HandleWakeDue
  <1>7. CASE HandleSchedule
    <2>1. chan' \in Seq(Message) /\ Head(chan).wake \in Wakes
      BY <1>7, ReceiveFacts DEF HandleSchedule, Kind, MessageInv
    <2>2. CASE UNCHANGED <<logVars, pendingWakes, next>>
      BY <1>0, <1>7, <2>1, <2>2 DEF HandleSchedule
    <2>3. CASE /\ wakeState' = [wakeState EXCEPT ![Head(chan).wake] = "scheduled"]
               /\ home' = [home EXCEPT ![Head(chan).wake] = session]
               /\ pendingWakes' = pendingWakes \cup {Head(chan).wake}
               /\ next' = EarliestIn(pendingWakes')
               /\ UNCHANGED injected
      <3>1. pendingWakes' \in SUBSET Wakes /\ next' \in 0..LastWake
        BY <1>0, <2>1, <2>3, EarliestFacts
      <3>2. wakeState' \in [Wakes -> WakeState]
        BY <1>0, <2>1, <2>3 DEF WakeState
      <3>3. home' \in [Wakes -> Sessions \cup {Nobody}]
        BY <1>0, <2>1, <2>3
      <3> QED BY <1>0, <1>7, <2>1, <2>3, <3>1, <3>2, <3>3 DEF HandleSchedule
    <2> QED BY <1>7, <2>2, <2>3 DEF HandleSchedule
  <1>8. CASE HandleCancel
    <2>1. chan' \in Seq(Message)
      BY <1>8, ReceiveFacts DEF HandleCancel, Kind
    <2>2. PICK done \in SUBSET pendingWakes :
            /\ wakeState' = [w \in Wakes |-> IF w \in done THEN "cancelled"
                                             ELSE wakeState[w]]
            /\ pendingWakes' = pendingWakes \ done
            /\ \/ next' = EarliestIn(pendingWakes') /\ UNCHANGED refusals
               \/ refusals' = refusals + 1 /\ UNCHANGED next
      BY <1>8 DEF HandleCancel
    <2>3. pendingWakes' \in SUBSET Wakes /\ next' \in 0..LastWake
      BY <1>0, <2>2, EarliestFacts
    <2>4. wakeState' \in [Wakes -> WakeState]
      BY <1>0, <2>2 DEF WakeState
    <2> QED BY <1>0, <1>8, <2>1, <2>2, <2>3, <2>4 DEF HandleCancel
  <1>9. CASE HandleAsk
    <2>1. chan' \in Seq(Message) /\ Head(chan).who \in live
      BY <1>9, ReceiveFacts DEF HandleAsk, Kind, MessageInv
    <2> QED BY <1>0, <1>9, <2>1 DEF HandleAsk
  <1>10. CASE HandleWizard
    <2>1. chan' \in Seq(Message)
      BY <1>10, ReceiveFacts DEF HandleWizard, Kind
    <2> QED BY <1>0, <1>10, <2>1, SpawnFacts DEF HandleWizard
  <1>11. CASE InjectNote
    <2>1. EarliestIn(firing) \in Wakes /\ firing # {}
      BY <1>0, <1>11, EarliestFacts DEF InjectNote
    <2>2. injected' \in [Wakes -> Nat]
      BY <1>0, <1>11, <2>1 DEF InjectNote
    <2> QED BY <1>0, <1>11, <2>1, <2>2 DEF InjectNote
  <1>12. CASE MarkFired
    <2>1. EarliestIn(firing) \in Wakes /\ EarliestIn(pendingWakes) \in 0..LastWake
      BY <1>0, <1>12, EarliestFacts DEF MarkFired
    <2>2. wakeState' \in [Wakes -> WakeState]
      BY <1>0, <1>12, <2>1 DEF MarkFired, WakeState
    <2>3. live' \subseteq Turns /\ live \subseteq live'
      BY <1>0, <1>12, SpawnFacts DEF MarkFired
    <2> QED BY <1>0, <1>12, <2>1, <2>2, <2>3 DEF MarkFired
  <1>13. CASE Submit
    BY <1>0, <1>13, SpawnFacts DEF Submit, Ready
  <1>14. CASE Answer
    BY <1>0, <1>14 DEF Answer, Ready
  <1>15. CASE Adjust
    BY <1>0, <1>15, SpawnFacts DEF Adjust, Ready
  <1>16. ASSUME NEW s \in Sessions, NewSession(s) PROVE ChatTypeOK'
    BY <1>0, <1>16, UnsettledFacts, EarliestFacts DEF NewSession, Switch, Ready
  <1>17. ASSUME NEW s \in Sessions, SessionPick(s) PROVE ChatTypeOK'
    <2>1. Unsettled(s) \in SUBSET Wakes /\ EarliestIn(Unsettled(s)) \in 0..LastWake
      BY UnsettledFacts, EarliestFacts
    <2>2. DrainWakes(Unsettled(s), EarliestIn(Unsettled(s)), yielded)
      BY <1>17 DEF SessionPick
    <2>3. /\ next' \in 0..LastWake /\ firing' \subseteq Wakes
          /\ mpc' \in {"idle", "inject"} /\ (mpc' = "idle" <=> firing' = {})
      <3>1. yielded \in BOOLEAN
        BY <1>0
      <3> QED BY <2>1, <2>2, <3>1, DrainFacts
    <2> QED BY <1>0, <1>17, <2>1, <2>3 DEF SessionPick, Switch
  <1>18. CASE Tick
    BY <1>0, <1>18 DEF Tick
  <1>19. CASE Stop
    <2>1. chan' \in Seq(Message)
      BY <1>19 DEF Stop
    <2>2. {up', streaming', yielded', pendingMessage', wakeDeferred'} \subseteq BOOLEAN
      BY <1>19 DEF Stop
    <2>3. {takeovers', wizards', crashes', refusals'} \subseteq Nat
      BY <1>0, <1>19 DEF Stop
    <2>4. next' \in 0..LastWake
      BY <1>19 DEF Stop, Never
    <2> QED BY <1>0, <1>19, <2>1, <2>2, <2>3, <2>4 DEF Stop
  <1>20. ASSUME NEW s \in Sessions, Boot(s) PROVE ChatTypeOK'
    <2>1. Unsettled(s) \in SUBSET Wakes /\ EarliestIn(Unsettled(s)) \in 0..LastWake
      BY UnsettledFacts, EarliestFacts
    <2>2. DrainWakes(Unsettled(s), EarliestIn(Unsettled(s)), FALSE)
      BY <1>20 DEF Boot
    <2> QED BY <1>0, <1>20, <2>1, <2>2, DrainFacts DEF Boot
  <1>21. CASE UNCHANGED chatVars
    BY <1>0, <1>21 DEF chatVars
  <1> HIDE DEF ChatTypeOK
  <1> QED
    BY <1>1, <1>2, <1>3, <1>4, <1>5, <1>6, <1>7, <1>8, <1>9, <1>10, <1>11, <1>12,
       <1>13, <1>14, <1>15, <1>16, <1>17, <1>18, <1>19, <1>20, <1>21, Zenon
       DEF ChatNext, MainStep, HandleMessage, UserStep

-----------------------------------------------------------------------------
(* The channel.                                                             *)

\* Steps that leave the channel alone, end no turn and schedule no wake.
LEMMA ChanStays ==
    ASSUME TypeInv, UNCHANGED chan, live \subseteq live',
           \A w \in Wakes : wakeState[w] = "none" => wakeState'[w] = "none"
    PROVE  ChanInv'
  BY DEF TypeInv, ChanInv, MessageInv

\* Receiving a message, and scheduling at most the wake it asks for.
LEMMA ChanReceives ==
    ASSUME TypeInv, chan # <<>>, chan' = Tail(chan), live \subseteq live',
           \A w \in Wakes : wakeState[w] = "none" =>
              \/ wakeState'[w] = "none"
              \/ Head(chan).type = "Schedule" /\ w = Head(chan).wake
    PROVE  ChanInv'
  <1>1. chan \in Seq(Message)
    BY DEF TypeInv, ChatTypeOK
  <1>2. /\ Head(chan) = chan[1] /\ Len(chan) \in Nat \ {0}
        /\ Len(chan') = Len(chan) - 1
        /\ \A i \in 1..Len(chan') : chan'[i] = chan[i + 1]
    BY <1>1, TailFacts
  <1>3. \A i \in 1..Len(chan') : i + 1 \in 1..Len(chan) /\ i + 1 # 1
    BY <1>2
  <1>4. ASSUME NEW i \in 1..Len(chan') PROVE MessageInv(chan[i])'
    <2>1. chan'[i] = chan[i + 1] /\ MessageInv(chan[i + 1])
      BY <1>2, <1>3 DEF TypeInv, ChanInv
    <2>2. ~(chan[i + 1].type = "Schedule" /\ Head(chan).type = "Schedule"
              /\ chan[i + 1].wake = Head(chan).wake)
      BY <1>2, <1>3 DEF TypeInv, ChanInv
    <2> QED BY <2>1, <2>2 DEF MessageInv
  <1>5. ASSUME NEW i \in 1..Len(chan'), NEW j \in 1..Len(chan'), i # j,
               chan'[i].type = "Schedule", chan'[j].type = "Schedule"
        PROVE  chan'[i].wake # chan'[j].wake
    <2>1. i + 1 # j + 1
      BY <1>2, <1>5
    <2> QED BY <1>2, <1>3, <1>5, <2>1 DEF TypeInv, ChanInv
  <1> QED BY <1>2, <1>4, <1>5 DEF ChanInv

\* The wakes the loop holds are scheduled in the log.
LEMMA HeldScheduled ==
    ASSUME TypeInv, WakeInv
    PROVE  /\ \A w \in pendingWakes : w \in Wakes /\ wakeState[w] = "scheduled"
           /\ \A w \in firing : w \in Wakes /\ wakeState[w] = "scheduled"
           /\ mpc # "idle" => EarliestIn(firing) \in firing
  BY EarliestFacts DEF WakeInv, Unsettled, TypeInv, ChatTypeOK

\* Every step keeps what the messages name.
LEMMA ChanStep == TypeInv /\ WakeInv /\ [ChatNext]_chatVars => ChanInv'
  <1> SUFFICES ASSUME TypeInv, WakeInv, [ChatNext]_chatVars PROVE ChanInv'
    OBVIOUS
  <1>0. live \subseteq Turns /\ chan \in Seq(Message) /\ wakeState \in [Wakes -> WakeState]
    BY DEF TypeInv, ChatTypeOK
  <1> USE DEF flagVars, sessionVars, logVars, drainVars, StreamTurn
  <1>1. CASE TaskStep
    <2>1. TaskEffect
      BY <1>1, TaskFacts
    <2>2. PICK m \in Message : Sent(m) /\ chan' = Append(chan, m)
      BY <2>1 DEF TaskEffect
    <2>3. /\ Len(chan') = Len(chan) + 1 /\ Len(chan) \in Nat
          /\ \A i \in 1..Len(chan) : chan'[i] = chan[i]
          /\ chan'[Len(chan) + 1] = m
      BY <1>0, <2>2, AppendFacts
    <2>4. \A i \in 1..Len(chan') : i \in 1..Len(chan) \/ i = Len(chan) + 1
      BY <2>3
    <2>5. wakeState' = wakeState
      BY <2>1 DEF TaskEffect
    <2>6. ASSUME NEW i \in 1..Len(chan) PROVE MessageInv(chan[i])'
      <3>1. MessageInv(chan[i])
        BY DEF TypeInv, ChanInv
      <3>2. chan[i].type = "Ask" => chan[i].who \in live'
        BY <2>2, <3>1 DEF Sent, MessageInv, Blocked
      <3> QED BY <2>3, <2>5, <3>1, <3>2 DEF MessageInv
    <2>7. MessageInv(m)'
      BY <2>2, <2>5, MessageFacts DEF Sent, MessageInv
    <2>8. \A i \in 1..Len(chan) :
             m.type = "Schedule" /\ chan[i].type = "Schedule" => chan[i].wake # m.wake
      BY <2>2 DEF Sent
    <2>9. \A i, j \in 1..Len(chan) :
             /\ i # j
             /\ chan[i].type = "Schedule" /\ chan[j].type = "Schedule"
             => chan[i].wake # chan[j].wake
      BY DEF TypeInv, ChanInv
    <2>10. ASSUME NEW i \in 1..Len(chan') PROVE MessageInv(chan[i])'
      BY <2>3, <2>4, <2>6, <2>7
    <2>11. ASSUME NEW i \in 1..Len(chan'), NEW j \in 1..Len(chan'), i # j,
                  chan'[i].type = "Schedule", chan'[j].type = "Schedule"
           PROVE  chan'[i].wake # chan'[j].wake
      BY <2>3, <2>4, <2>8, <2>9, <2>11
    <2> QED BY <2>10, <2>11 DEF ChanInv
  <1>2. CASE HandleComplete
    <2>1. live \subseteq live'
      BY <1>0, <1>2, SpawnFacts DEF HandleComplete
    <2> QED BY <1>2, <2>1, ReceiveFacts, ChanReceives DEF HandleComplete, Kind
  <1>3. CASE HandleTakenOver
    BY <1>3, ReceiveFacts, ChanReceives DEF HandleTakenOver, Kind
  <1>4. CASE HandleStarted
    BY <1>4, ReceiveFacts, ChanReceives DEF HandleStarted, Kind
  <1>5. CASE HandleResult
    <2>1. live \subseteq live'
      BY <1>0, <1>5, SpawnFacts DEF HandleResult
    <2> QED BY <1>5, <2>1, ReceiveFacts, ChanReceives DEF HandleResult, Kind
  <1>6. CASE HandleWakeDue
    BY <1>6, ReceiveFacts, ChanReceives DEF HandleWakeDue, Kind
  <1>7. CASE HandleSchedule
    <2>1. chan # <<>> /\ chan' = Tail(chan) /\ Head(chan).type = "Schedule"
      BY <1>7, ReceiveFacts DEF HandleSchedule, Kind
    <2>2. \A w \in Wakes : w = Head(chan).wake \/ wakeState'[w] = wakeState[w]
      BY <1>0, <1>7 DEF HandleSchedule
    <2>3. live' = live
      BY <1>7 DEF HandleSchedule
    <2> QED BY <2>1, <2>2, <2>3, ChanReceives
  <1>8. CASE HandleCancel
    <2>1. chan # <<>> /\ chan' = Tail(chan)
      BY <1>8, ReceiveFacts DEF HandleCancel, Kind
    <2>2. \A w \in Wakes : wakeState[w] = "none" => wakeState'[w] = "none"
      BY <1>8, HeldScheduled DEF HandleCancel
    <2> QED BY <1>8, <2>1, <2>2, ChanReceives DEF HandleCancel
  <1>9. CASE HandleAsk
    BY <1>9, ReceiveFacts, ChanReceives DEF HandleAsk, Kind
  <1>10. CASE HandleWizard
    <2>1. live \subseteq live'
      BY <1>0, <1>10, SpawnFacts DEF HandleWizard
    <2> QED BY <1>10, <2>1, ReceiveFacts, ChanReceives DEF HandleWizard, Kind
  <1>11. CASE InjectNote
    BY <1>11, ChanStays DEF InjectNote
  <1>12. CASE MarkFired
    <2>1. live \subseteq live'
      BY <1>0, <1>12, SpawnFacts DEF MarkFired
    <2>2. \A w \in Wakes : wakeState[w] = "none" => wakeState'[w] = "none"
      BY <1>0, <1>12, HeldScheduled DEF MarkFired
    <2> QED BY <1>12, <2>1, <2>2, ChanStays DEF MarkFired
  <1>13. CASE Submit
    <2>1. live \subseteq live'
      BY <1>0, <1>13, SpawnFacts DEF Submit
    <2> QED BY <1>13, <2>1, ChanStays DEF Submit
  <1>14. CASE Answer
    BY <1>14, ChanStays DEF Answer
  <1>15. CASE Adjust
    <2>1. live \subseteq live'
      BY <1>0, <1>15, SpawnFacts DEF Adjust
    <2> QED BY <1>15, <2>1, ChanStays DEF Adjust
  <1>16. ASSUME NEW s \in Sessions, Switch(s) PROVE ChanInv'
    BY <1>16, ChanStays DEF Switch
  <1>17. CASE Tick
    BY <1>17, ChanStays DEF Tick
  <1>18. CASE Stop
    BY <1>18 DEF Stop, ChanInv
  <1>19. ASSUME NEW s \in Sessions, Boot(s) PROVE ChanInv'
    BY <1>19, ChanStays DEF Boot
  <1>20. CASE UNCHANGED chatVars
    BY <1>20, ChanStays DEF chatVars
  <1> HIDE DEF StreamTurn
  <1> QED
    BY <1>1, <1>2, <1>3, <1>4, <1>5, <1>6, <1>7, <1>8, <1>9, <1>10, <1>11, <1>12,
       <1>13, <1>14, <1>15, <1>16, <1>17, <1>18, <1>19, <1>20, Zenon
       DEF ChatNext, MainStep, HandleMessage, UserStep, NewSession, SessionPick

\* A process that stops leaves nothing behind, and only Boot starts one.
LEMMA DownStep == TypeInv /\ [ChatNext]_chatVars => DownInv'
  <1> SUFFICES ASSUME TypeInv, [ChatNext]_chatVars, ~up' PROVE DownInv'
    BY DEF DownInv
  <1> USE DEF Ready, Receive, TaskEffect
  <1>1. CASE TaskStep
    BY <1>1, TaskFacts
  <1>2. CASE MainStep
    BY <1>2 DEF MainStep, HandleMessage, HandleComplete, HandleTakenOver,
         HandleStarted, HandleResult, HandleWakeDue, HandleSchedule, HandleCancel,
         HandleAsk, HandleWizard, InjectNote, MarkFired
  <1>3. CASE UserStep
    BY <1>3 DEF UserStep, Submit, Answer, Adjust, NewSession, SessionPick, Switch
  <1>4. CASE Tick
    BY <1>4 DEF Tick, TypeInv, DownInv, flagVars, drainVars
  <1>5. CASE Stop
    BY <1>5 DEF Stop, DownInv
  <1>6. ASSUME NEW s \in Sessions, Boot(s) PROVE DownInv'
    BY <1>6 DEF Boot
  <1>7. CASE UNCHANGED chatVars
    BY <1>7 DEF chatVars, TypeInv, DownInv, flagVars, drainVars
  <1> QED
    BY <1>1, <1>2, <1>3, <1>4, <1>5, <1>6, <1>7 DEF ChatNext

-----------------------------------------------------------------------------
(* The steps that have nothing to do with wakes.                            *)

Aside ==
    UNCHANGED <<up, sessionVars, clock, logVars, pendingWakes, drainVars, crashes,
                refusals>>

AsideStep ==
    \/ TaskStep
    \/ HandleTakenOver \/ HandleStarted \/ HandleResult \/ HandleAsk \/ HandleWizard
    \/ Submit \/ Answer \/ Adjust
    \/ UNCHANGED chatVars

\* They leave the log, the pending wakes and the watcher alone.
LEMMA AsideFacts == TypeInv /\ AsideStep => Aside
  <1> SUFFICES ASSUME TypeInv, AsideStep PROVE Aside
    OBVIOUS
  <1> USE DEF Aside
  <1>1. CASE TaskStep
    BY <1>1, TaskFacts DEF TaskEffect
  <1>2. CASE HandleTakenOver
    BY <1>2 DEF HandleTakenOver, boundVars
  <1>3. CASE HandleStarted
    BY <1>3 DEF HandleStarted, boundVars
  <1>4. CASE HandleResult
    BY <1>4 DEF HandleResult, boundVars
  <1>5. CASE HandleAsk
    BY <1>5 DEF HandleAsk, boundVars
  <1>6. CASE HandleWizard
    BY <1>6 DEF HandleWizard, boundVars
  <1>7. CASE Submit
    BY <1>7 DEF Submit, boundVars
  <1>8. CASE Answer
    BY <1>8 DEF Answer, boundVars
  <1>9. CASE Adjust
    BY <1>9 DEF Adjust
  <1>10. CASE UNCHANGED chatVars
    BY <1>10 DEF chatVars, boundVars
  <1> QED
    BY <1>1, <1>2, <1>3, <1>4, <1>5, <1>6, <1>7, <1>8, <1>9, <1>10 DEF AsideStep

\* A step is aside from the wakes or one of these.
LEMMA StepCases ==
    ASSUME TypeInv, [ChatNext]_chatVars
    PROVE  \/ AsideStep
           \/ HandleComplete \/ HandleWakeDue \/ HandleSchedule \/ HandleCancel
           \/ InjectNote \/ MarkFired
           \/ \E s \in Sessions : NewSession(s) \/ SessionPick(s) \/ Boot(s)
           \/ Tick \/ Stop
  BY DEF AsideStep, ChatNext, MainStep, HandleMessage, UserStep

\* What a schedule request does, with a name for the wake.
LEMMA ScheduleFacts ==
    ASSUME TypeInv, HandleSchedule
    PROVE  \E w \in Wakes :
             /\ up /\ mpc = "idle" /\ wakeState[w] = "none"
             /\ \/ UNCHANGED <<logVars, pendingWakes, next>>
                \/ /\ wakeState' = [wakeState EXCEPT ![w] = "scheduled"]
                   /\ home' = [home EXCEPT ![w] = session]
                   /\ pendingWakes' = pendingWakes \cup {w}
                   /\ next' = EarliestIn(pendingWakes')
                   /\ UNCHANGED injected
             /\ UNCHANGED <<up, session, clock, mpc, firing, live, takeovers, crashes,
                            refusals, yielded>>
  <1>1. up /\ mpc = "idle" /\ Head(chan).wake \in Wakes
          /\ wakeState[Head(chan).wake] = "none"
    BY ReceiveFacts DEF HandleSchedule, Kind, MessageInv
  <1>2. /\ \/ UNCHANGED <<logVars, pendingWakes, next>>
           \/ /\ wakeState' = [wakeState EXCEPT ![Head(chan).wake] = "scheduled"]
              /\ home' = [home EXCEPT ![Head(chan).wake] = session]
              /\ pendingWakes' = pendingWakes \cup {Head(chan).wake}
              /\ next' = EarliestIn(pendingWakes')
              /\ UNCHANGED injected
        /\ UNCHANGED <<up, session, clock, mpc, firing, live, takeovers, crashes,
                       refusals, yielded>>
    BY DEF HandleSchedule, sessionVars, flagVars, boundVars
  <1> QED BY <1>1, <1>2

\* What a cancel does, with a name for the wakes whose cancel was recorded.
LEMMA CancelFacts ==
    ASSUME TypeInv, HandleCancel
    PROVE  \E done \in SUBSET pendingWakes :
             /\ up /\ mpc = "idle"
             /\ wakeState' = [w \in Wakes |-> IF w \in done THEN "cancelled"
                                              ELSE wakeState[w]]
             /\ pendingWakes' = pendingWakes \ done
             /\ \/ next' = EarliestIn(pendingWakes') /\ UNCHANGED refusals
                \/ refusals' = refusals + 1 /\ UNCHANGED next
             /\ UNCHANGED <<up, session, clock, home, injected, mpc, firing, live,
                            takeovers, crashes, yielded>>
  <1>1. up /\ mpc = "idle"
    BY DEF HandleCancel, Receive, Ready
  <1> QED BY <1>1 DEF HandleCancel, sessionVars, flagVars

-----------------------------------------------------------------------------
(* The pending wakes and the log.                                           *)

\* Every step keeps the pending wakes those of the log, but for the one of
\* which only the note has been recorded.
LEMMA WakeStep == TypeInv /\ WakeInv /\ [ChatNext]_chatVars => WakeInv'
  <1> SUFFICES ASSUME TypeInv, WakeInv, [ChatNext]_chatVars PROVE WakeInv'
    OBVIOUS
  <1>0. /\ pendingWakes \in SUBSET Wakes /\ firing \in SUBSET Wakes
        /\ wakeState \in [Wakes -> WakeState]
        /\ home \in [Wakes -> Sessions \cup {Nobody}]
        /\ injected \in [Wakes -> Nat]
        /\ next \in 0..LastWake /\ yielded \in BOOLEAN
        /\ mpc = "idle" <=> firing = {}
    BY DEF TypeInv, ChatTypeOK
  <1> USE DEF sessionVars, logVars, drainVars
  <1>1. CASE AsideStep
    BY <1>1, AsideFacts DEF Aside, WakeInv, Unsettled
  <1>2. CASE HandleComplete
    <2>1. up /\ mpc = "idle" /\ pendingWakes = Unsettled(session)
      BY <1>2, ReceiveFacts DEF HandleComplete, Kind, WakeInv
    <2>2. firing' \subseteq pendingWakes /\ mpc' # "mark"
      BY <1>0, <1>2, <2>1, DrainFacts DEF HandleComplete
    <2>3. UNCHANGED <<up, session, pendingWakes>> /\ Unsettled(session)' = Unsettled(session)
      BY <1>2 DEF HandleComplete, Unsettled
    <2> QED BY <2>1, <2>2, <2>3 DEF WakeInv
  <1>3. CASE HandleWakeDue
    <2>1. up /\ mpc = "idle" /\ pendingWakes = Unsettled(session)
      BY <1>3, ReceiveFacts DEF HandleWakeDue, Kind, WakeInv
    <2>2. DrainWakes(pendingWakes, next, streaming \/ yielded)
      BY <1>3 DEF HandleWakeDue
    <2>3. firing' \subseteq pendingWakes /\ mpc' # "mark"
      BY <1>0, <2>2, DrainFacts
    <2>4. UNCHANGED <<up, session, pendingWakes>> /\ Unsettled(session)' = Unsettled(session)
      BY <1>3 DEF HandleWakeDue, Unsettled
    <2> QED BY <2>1, <2>3, <2>4 DEF WakeInv
  <1>4. CASE HandleSchedule
    BY <1>0, <1>4, ScheduleFacts DEF WakeInv, Unsettled
  <1>5. CASE HandleCancel
    BY <1>0, <1>5, CancelFacts DEF WakeInv, Unsettled
  <1>6. CASE InjectNote
    <2> DEFINE w == EarliestIn(firing)
    <2>1. w \in firing /\ w \in Wakes
      BY <1>0, <1>6, HeldScheduled DEF InjectNote
    <2>2. /\ up /\ mpc = "inject" /\ mpc' = "mark"
          /\ pendingWakes' = pendingWakes \ {w}
          /\ injected' = [injected EXCEPT ![w] = @ + 1]
          /\ UNCHANGED <<up, session, firing, wakeState, home>>
      BY <1>6 DEF InjectNote
    <2>3. injected'[w] > 0
      BY <1>0, <2>1, <2>2
    <2> QED BY <2>1, <2>2, <2>3 DEF WakeInv, Unsettled
  <1>7. CASE MarkFired
    <2> DEFINE w == EarliestIn(firing)
    <2>1. w \in firing /\ w \in Wakes /\ wakeState[w] = "scheduled"
      BY <1>0, <1>7, HeldScheduled DEF MarkFired
    <2>2. /\ up /\ mpc = "mark" /\ mpc' \in {"inject", "idle"}
          /\ wakeState' = [wakeState EXCEPT ![w] = "fired"]
          /\ firing' = firing \ {w}
          /\ UNCHANGED <<up, session, pendingWakes, home>>
      BY <1>7 DEF MarkFired
    <2> QED BY <1>0, <2>1, <2>2 DEF WakeInv, Unsettled
  <1>8. ASSUME NEW s \in Sessions, NewSession(s) PROVE WakeInv'
    BY <1>0, <1>8 DEF NewSession, Switch, Ready, WakeInv, Unsettled
  <1>9. ASSUME NEW s \in Sessions, SessionPick(s) PROVE WakeInv'
    <2>1. Unsettled(s) \in SUBSET Wakes /\ EarliestIn(Unsettled(s)) \in 0..LastWake
      BY UnsettledFacts, EarliestFacts
    <2>2. DrainWakes(Unsettled(s), EarliestIn(Unsettled(s)), yielded)
      BY <1>9 DEF SessionPick
    <2>3. firing' \subseteq Unsettled(s) /\ mpc' # "mark"
      BY <1>0, <2>1, <2>2, DrainFacts
    <2> QED BY <1>9, <2>3 DEF SessionPick, Switch, Ready, WakeInv, Unsettled
  <1>10. ASSUME NEW s \in Sessions, Boot(s) PROVE WakeInv'
    <2>1. Unsettled(s) \in SUBSET Wakes /\ EarliestIn(Unsettled(s)) \in 0..LastWake
      BY UnsettledFacts, EarliestFacts
    <2>2. DrainWakes(Unsettled(s), EarliestIn(Unsettled(s)), FALSE)
      BY <1>10 DEF Boot
    <2>3. firing' \subseteq Unsettled(s) /\ mpc' # "mark"
      BY <2>1, <2>2, DrainFacts
    <2> QED BY <1>10, <2>3 DEF Boot, WakeInv, Unsettled
  <1>11. CASE Tick
    BY <1>11 DEF Tick, WakeInv, Unsettled
  <1>12. CASE Stop
    BY <1>12 DEF Stop, WakeInv
  <1> QED
    BY <1>1, <1>2, <1>3, <1>4, <1>5, <1>6, <1>7, <1>8, <1>9, <1>10, <1>11, <1>12,
       StepCases

-----------------------------------------------------------------------------
(* How often a wake is injected.                                            *)

\* Every step keeps the count of the injections.
LEMMA OnceStep == TypeInv /\ WakeInv /\ OnceInv /\ [ChatNext]_chatVars => OnceInv'
  <1> SUFFICES ASSUME TypeInv, WakeInv, OnceInv, [ChatNext]_chatVars PROVE OnceInv'
    OBVIOUS
  <1>0. /\ pendingWakes \in SUBSET Wakes /\ firing \in SUBSET Wakes
        /\ wakeState \in [Wakes -> WakeState]
        /\ injected \in [Wakes -> Nat] /\ crashes \in Nat
        /\ next \in 0..LastWake /\ yielded \in BOOLEAN
    BY DEF TypeInv, ChatTypeOK
  <1> USE DEF sessionVars, logVars, drainVars, boundVars
  <1>1. ASSUME UNCHANGED <<wakeState, injected, crashes>>, mpc # "mark" PROVE OnceInv'
    BY <1>0, <1>1 DEF OnceInv, Settling
  <1>2. CASE AsideStep
    BY <1>0, <1>2, AsideFacts DEF Aside, OnceInv, Settling
  <1>3. CASE HandleComplete
    <2>1. mpc = "idle"
      BY <1>3, ReceiveFacts DEF HandleComplete, Kind
    <2> QED BY <1>1, <1>3, <2>1 DEF HandleComplete
  <1>4. CASE HandleWakeDue
    <2>1. mpc = "idle"
      BY <1>4, ReceiveFacts DEF HandleWakeDue, Kind
    <2> QED BY <1>1, <1>4, <2>1 DEF HandleWakeDue
  <1>5. CASE HandleSchedule
    BY <1>0, <1>5, ScheduleFacts DEF OnceInv, Settling
  <1>6. CASE HandleCancel
    BY <1>0, <1>6, CancelFacts DEF OnceInv, Settling
  <1>7. CASE InjectNote
    <2> DEFINE w == EarliestIn(firing)
    <2>1. w \in Wakes /\ wakeState[w] = "scheduled" /\ mpc = "inject"
      BY <1>0, <1>7, HeldScheduled DEF InjectNote
    <2>2. /\ mpc' = "mark" /\ EarliestIn(firing)' = w
          /\ injected' = [injected EXCEPT ![w] = @ + 1]
          /\ UNCHANGED <<wakeState, crashes>>
      BY <1>7 DEF InjectNote
    <2> HIDE DEF w
    <2>3. injected[w] <= crashes
      BY <2>1 DEF OnceInv, Settling
    <2>4. injected'[w] <= 1 + crashes
      BY <1>0, <2>1, <2>2, <2>3
    <2>5. \A v \in Wakes : v # w => injected'[v] = injected[v]
      BY <1>0, <2>2
    <2> QED BY <2>1, <2>2, <2>4, <2>5 DEF OnceInv, Settling
  <1>8. CASE MarkFired
    <2> DEFINE w == EarliestIn(firing)
    <2>1. w \in Wakes /\ mpc = "mark" /\ mpc' # "mark"
      BY <1>0, <1>8, HeldScheduled DEF MarkFired
    <2>2. /\ wakeState' = [wakeState EXCEPT ![w] = "fired"]
          /\ UNCHANGED <<injected, crashes>>
      BY <1>8 DEF MarkFired
    <2> QED BY <1>0, <2>1, <2>2 DEF OnceInv, Settling
  <1>9. ASSUME NEW s \in Sessions, NewSession(s) \/ SessionPick(s) PROVE OnceInv'
    BY <1>1, <1>9 DEF NewSession, SessionPick, Switch, Ready
  <1>10. ASSUME NEW s \in Sessions, Boot(s) PROVE OnceInv'
    <2>1. mpc = "idle"
      BY <1>10 DEF Boot, TypeInv, DownInv
    <2> QED BY <1>1, <1>10, <2>1 DEF Boot
  <1>11. CASE Tick
    BY <1>11 DEF Tick, OnceInv, Settling
  <1>12. CASE Stop
    BY <1>0, <1>12 DEF Stop, OnceInv, Settling
  <1> QED
    BY <1>2, <1>3, <1>4, <1>5, <1>6, <1>7, <1>8, <1>9, <1>10, <1>11, <1>12,
       StepCases

-----------------------------------------------------------------------------
(* The ends of turns that are still to come.                                *)

\* A turn's end stays in the channel until it is handled.
LEMMA EndStays ==
    ASSUME TypeInv, NEW k \in Kind \ {"Complete"}, Receive(k)
    PROVE  InChan(Complete)' <=> InChan(Complete)
  <1>1. /\ chan # <<>> /\ chan \in Seq(Message) /\ chan' = Tail(chan)
        /\ Head(chan).type = k
    BY ReceiveFacts DEF TypeInv, ChatTypeOK
  <1>2. /\ Head(chan) = chan[1] /\ Len(chan) \in Nat \ {0}
        /\ Len(chan') = Len(chan) - 1
        /\ \A i \in 1..Len(chan') : chan'[i] = chan[i + 1]
    BY <1>1, TailFacts
  <1>3. chan[1] # Complete
    BY <1>1, <1>2, MessageFacts
  <1>4. ASSUME NEW i \in 1..Len(chan), chan[i] = Complete PROVE InChan(Complete)'
    <2>1. i - 1 \in 1..Len(chan') /\ i = (i - 1) + 1
      BY <1>2, <1>3, <1>4
    <2>2. chan'[i - 1] = Complete
      BY <1>2, <1>4, <2>1
    <2> QED BY <2>1, <2>2 DEF InChan
  <1>5. ASSUME NEW i \in 1..Len(chan'), chan'[i] = Complete PROVE InChan(Complete)
    <2>1. i + 1 \in 1..Len(chan)
      BY <1>2
    <2> QED BY <1>2, <1>5, <2>1 DEF InChan
  <1> QED BY <1>4, <1>5 DEF InChan

\* What a task's message does to the channel.
LEMMA TaskEnds ==
    ASSUME TypeInv, NEW m \in Message, Sent(m), chan' = Append(chan, m)
    PROVE  /\ Len(chan) \in Nat /\ Len(chan') = Len(chan) + 1
           /\ \A i \in 1..Len(chan) : chan'[i] = chan[i]
           /\ chan'[Len(chan) + 1] = m
           /\ \A i \in 1..Len(chan') : i \in 1..Len(chan) \/ i = Len(chan) + 1
           /\ InChan(Complete)' <=> InChan(Complete) \/ m = Complete
           /\ Busy => Busy'
  <1>1. chan \in Seq(Message)
    BY DEF TypeInv, ChatTypeOK
  <1>2. /\ Len(chan) \in Nat /\ Len(chan') = Len(chan) + 1
        /\ \A i \in 1..Len(chan) : chan'[i] = chan[i]
        /\ chan'[Len(chan) + 1] = m
    BY <1>1, AppendFacts
  <1>3. \A i \in 1..Len(chan') : i \in 1..Len(chan) \/ i = Len(chan) + 1
    BY <1>2
  <1>4. \A i \in 1..Len(chan) : i \in 1..Len(chan')
    BY <1>2
  <1>5. Len(chan) + 1 \in 1..Len(chan')
    BY <1>2
  <1>6. InChan(Complete)' <=> InChan(Complete) \/ m = Complete
    BY <1>2, <1>3, <1>4, <1>5 DEF InChan
  <1>7. Busy => Busy'
    BY <1>6 DEF Busy, Sent
  <1> QED BY <1>2, <1>3, <1>6, <1>7

\* Every step keeps that whatever waits for a turn's end has one to come.
LEMMA WaitsStep == TypeInv /\ WaitsForATurn /\ [ChatNext]_chatVars => WaitsForATurn'
  <1> SUFFICES ASSUME TypeInv, WaitsForATurn, [ChatNext]_chatVars
               PROVE  WaitsForATurn'
    OBVIOUS
  <1>0. /\ live \subseteq Turns
        /\ {streaming, yielded, pendingMessage, wakeDeferred} \subseteq BOOLEAN
    BY DEF TypeInv, ChatTypeOK
  <1> USE DEF WaitsForATurn, flagVars, StreamTurn
  <1>1. ASSUME SpawnTurn PROVE Busy'
    BY <1>0, <1>1, SpawnFacts DEF Busy
  <1>2. ASSUME UNCHANGED live, InChan(Complete)' <=> InChan(Complete), Busy
        PROVE  Busy'
    BY <1>2 DEF Busy
  <1>3. ASSUME UNCHANGED <<live, chan>>, Busy PROVE Busy'
    BY <1>3 DEF Busy, InChan
  <1>4. CASE TaskStep
    BY <1>4, TaskFacts, TaskEnds DEF TaskEffect
  <1>5. CASE HandleComplete
    BY <1>1, <1>5 DEF HandleComplete
  <1>6. CASE HandleTakenOver
    <2>1. InChan(Complete)' <=> InChan(Complete)
      BY <1>6, EndStays DEF HandleTakenOver, Kind
    <2> QED BY <1>2, <1>6, <2>1 DEF HandleTakenOver
  <1>7. CASE HandleStarted
    <2>1. InChan(Complete)' <=> InChan(Complete)
      BY <1>7, EndStays DEF HandleStarted, Kind
    <2> QED BY <1>2, <1>7, <2>1 DEF HandleStarted
  <1>8. CASE HandleResult
    <2>1. InChan(Complete)' <=> InChan(Complete)
      BY <1>8, EndStays DEF HandleResult, Kind
    <2>2. CASE SpawnTurn
      BY <1>1, <2>2
    <2>3. CASE /\ streaming \/ yielded
               /\ wakeDeferred' = (wakeDeferred \/ ~yielded)
               /\ UNCHANGED <<streaming, live, pendingMessage>>
      BY <1>0, <1>2, <2>1, <2>3
    <2> QED BY <1>8, <2>2, <2>3 DEF HandleResult
  <1>9. CASE HandleWakeDue
    <2>1. InChan(Complete)' <=> InChan(Complete)
      BY <1>9, EndStays DEF HandleWakeDue, Kind
    <2> QED BY <1>2, <1>9, <2>1 DEF HandleWakeDue
  <1>10. CASE HandleSchedule
    <2>1. InChan(Complete)' <=> InChan(Complete)
      BY <1>10, EndStays DEF HandleSchedule, Kind
    <2> QED BY <1>2, <1>10, <2>1 DEF HandleSchedule
  <1>11. CASE HandleCancel
    <2>1. InChan(Complete)' <=> InChan(Complete)
      BY <1>11, EndStays DEF HandleCancel, Kind
    <2> QED BY <1>2, <1>11, <2>1 DEF HandleCancel
  <1>12. CASE HandleAsk
    <2>1. InChan(Complete)' <=> InChan(Complete)
      BY <1>12, EndStays DEF HandleAsk, Kind
    <2> QED BY <1>2, <1>12, <2>1 DEF HandleAsk
  <1>13. CASE HandleWizard
    BY <1>1, <1>13 DEF HandleWizard
  <1>14. CASE InjectNote
    BY <1>3, <1>14 DEF InjectNote
  <1>15. CASE MarkFired
    BY <1>1, <1>3, <1>15 DEF MarkFired
  <1>16. CASE Submit
    BY <1>1, <1>3, <1>16 DEF Submit
  <1>17. CASE Answer
    BY <1>3, <1>17 DEF Answer
  <1>18. CASE Adjust
    BY <1>1, <1>18 DEF Adjust
  <1>19. ASSUME NEW s \in Sessions, NewSession(s) \/ SessionPick(s)
         PROVE  WaitsForATurn'
    BY <1>3, <1>19 DEF NewSession, SessionPick, Switch
  <1>20. CASE Tick
    BY <1>3, <1>20 DEF Tick
  <1>21. CASE Stop
    BY <1>21 DEF Stop
  <1>22. ASSUME NEW s \in Sessions, Boot(s) PROVE WaitsForATurn'
    BY <1>3, <1>22 DEF Boot
  <1>23. CASE UNCHANGED chatVars
    BY <1>3, <1>23 DEF chatVars
  <1> HIDE DEF WaitsForATurn, StreamTurn
  <1> QED
    BY <1>4, <1>5, <1>6, <1>7, <1>8, <1>9, <1>10, <1>11, <1>12, <1>13, <1>14,
       <1>15, <1>16, <1>17, <1>18, <1>19, <1>20, <1>21, <1>22, <1>23, Zenon
       DEF ChatNext, MainStep, HandleMessage, UserStep

-----------------------------------------------------------------------------
(* One turn at a time.                                                      *)

\* Receiving keeps the channel as it is at home, with no second end of a turn.
LEMMA HomeReceives ==
    ASSUME TypeInv, HomeChan, chan # <<>>, chan' = Tail(chan)
    PROVE  /\ HomeChan'
           /\ Head(chan).type \notin {"TakenOver", "Scan", "Update"}
           /\ Head(chan).type = "Complete" =>
                 InChan(Complete) /\ ~InChan(Complete)'
  <1>1. /\ Head(chan) = chan[1] /\ Len(chan) \in Nat \ {0}
        /\ Len(chan') = Len(chan) - 1
        /\ \A i \in 1..Len(chan') : chan'[i] = chan[i + 1]
    BY TailFacts DEF TypeInv, ChatTypeOK
  <1>2. \A i \in 1..Len(chan') : i + 1 \in 1..Len(chan) /\ i + 1 # 1
    BY <1>1
  <1>3. ASSUME NEW i \in 1..Len(chan'), NEW j \in 1..Len(chan'),
               chan'[i] = Complete, chan'[j] = Complete
        PROVE  i = j
    <2>1. i + 1 = j + 1
      BY <1>1, <1>2, <1>3 DEF HomeChan
    <2> QED BY <1>1, <2>1
  <1>4. HomeChan'
    BY <1>1, <1>2, <1>3 DEF HomeChan
  <1>5. 1 \in 1..Len(chan)
    BY <1>1
  <1> QED BY <1>1, <1>2, <1>4, <1>5 DEF HomeChan, InChan

\* Every step keeps one turn at a time while there is neither takeover nor wizard.
LEMMA HomeStep == TypeInv /\ HomeInv /\ [ChatNext]_chatVars => HomeInv'
  <1> SUFFICES ASSUME TypeInv, HomeInv, [ChatNext]_chatVars, AtHome'
               PROVE  HomeChan' /\ HomeTurns'
    BY DEF HomeInv
  <1>0. /\ live \subseteq Turns /\ chan \in Seq(Message)
        /\ {streaming, yielded} \subseteq BOOLEAN
        /\ takeovers \in Nat /\ wizards \in Nat
        /\ pendingWakes \in SUBSET Wakes /\ next \in 0..LastWake
        /\ mpc = "idle" <=> firing = {}
    BY DEF TypeInv, ChatTypeOK
  <1> USE DEF AtHome, HomeTurns, flagVars, sessionVars, drainVars, boundVars, StreamTurn
  <1>1. ASSUME takeovers' >= takeovers, wizards' >= wizards PROVE HomeChan /\ HomeTurns
    BY <1>0, <1>1 DEF HomeInv
  <1>2. ASSUME UNCHANGED <<takeovers, wizards>> PROVE HomeChan /\ HomeTurns
    BY <1>0, <1>1, <1>2
  <1>3. ASSUME UNCHANGED chan, HomeChan PROVE HomeChan' /\ (InChan(Complete)' <=> InChan(Complete))
    BY <1>3 DEF HomeChan, InChan
  <1>4. ASSUME live = {}, SpawnTurn
        PROVE  live' # {} /\ \A t, u \in live' : t = u
    BY <1>0, <1>4, SpawnFacts
  <1>5. CASE TaskStep
    <2>1. HomeChan /\ HomeTurns /\ TaskEffect
      BY <1>0, <1>1, <1>5, TaskFacts DEF TaskEffect
    <2>2. PICK m \in Message : Sent(m) /\ chan' = Append(chan, m)
      BY <2>1 DEF TaskEffect
    <2>3. /\ Len(chan) \in Nat
          /\ \A i \in 1..Len(chan) : chan'[i] = chan[i]
          /\ chan'[Len(chan) + 1] = m
          /\ \A i \in 1..Len(chan') : i \in 1..Len(chan) \/ i = Len(chan) + 1
          /\ InChan(Complete)' <=> InChan(Complete) \/ m = Complete
      BY <2>2, TaskEnds
    <2>4. /\ m.type \notin {"TakenOver", "Scan", "Update"}
          /\ m.type = "Complete" => m = Complete
      BY <2>1, <2>2 DEF Sent, TaskEffect
    <2>5. m = Complete => live # {} /\ live' = {}
      BY <2>1, <2>2, MessageFacts DEF Sent
    <2>6. m # Complete => live' = live
      BY <2>2 DEF Sent
    <2>7. m = Complete => \A i \in 1..Len(chan) : chan[i] # Complete
      BY <2>1, <2>5 DEF InChan
    <2>8. HomeChan'
      BY <2>1, <2>3, <2>4, <2>7 DEF HomeChan
    <2>9. HomeTurns'
      BY <2>1, <2>3, <2>5, <2>6 DEF TaskEffect
    <2> QED BY <2>8, <2>9
  <1>6. CASE HandleComplete
    <2>1. HomeChan /\ HomeTurns
      BY <1>2, <1>6 DEF HandleComplete
    <2>2. /\ mpc = "idle" /\ HomeChan' /\ InChan(Complete) /\ ~InChan(Complete)'
      BY <1>6, <2>1, ReceiveFacts, HomeReceives DEF HandleComplete, Kind
    <2>3. live = {}
      BY <2>1, <2>2
    <2>4. CASE StreamTurn /\ UNCHANGED drainVars
      BY <1>4, <1>6, <2>1, <2>2, <2>3, <2>4 DEF HandleComplete
    <2>5. CASE streaming' = FALSE /\ UNCHANGED live
      BY <1>6, <2>1, <2>2, <2>3, <2>5 DEF HandleComplete
    <2> QED BY <1>6, <2>4, <2>5 DEF HandleComplete
  <1>7. CASE HandleTakenOver
    BY <1>2, <1>7, ReceiveFacts, HomeReceives DEF HandleTakenOver, Kind
  <1>8. CASE HandleWizard
    BY <1>2, <1>8, ReceiveFacts, HomeReceives DEF HandleWizard, Kind
  <1>9. ASSUME NEW k \in Kind \ {"Complete"}, Receive(k), UNCHANGED <<takeovers, wizards>>
        PROVE  /\ HomeChan /\ HomeTurns /\ HomeChan'
               /\ InChan(Complete)' <=> InChan(Complete)
    BY <1>2, <1>9, ReceiveFacts, HomeReceives, EndStays
  <1>10. CASE HandleStarted
    <2>1. /\ HomeTurns /\ HomeChan'
          /\ InChan(Complete)' <=> InChan(Complete)
      BY <1>9, <1>10 DEF HandleStarted, Kind
    <2> QED BY <1>10, <2>1 DEF HandleStarted
  <1>11. CASE HandleResult
    <2>1. /\ HomeTurns /\ HomeChan' /\ mpc = "idle"
          /\ InChan(Complete)' <=> InChan(Complete)
      BY <1>9, <1>11, ReceiveFacts DEF HandleResult, Kind
    <2>2. CASE ~streaming /\ StreamTurn
      BY <1>4, <1>11, <2>1, <2>2 DEF HandleResult
    <2>3. CASE UNCHANGED <<streaming, live>>
      BY <1>11, <2>1, <2>3 DEF HandleResult
    <2> QED BY <1>11, <2>2, <2>3 DEF HandleResult
  <1>12. CASE HandleWakeDue
    <2>1. /\ HomeTurns /\ HomeChan'
          /\ InChan(Complete)' <=> InChan(Complete)
      BY <1>9, <1>12 DEF HandleWakeDue, Kind
    <2>2. DrainWakes(pendingWakes, next, streaming \/ yielded)
      BY <1>12 DEF HandleWakeDue
    <2>3. mpc' # "idle" => ~streaming
      BY <1>0, <2>2, DrainFacts
    <2> QED BY <1>12, <2>1, <2>3 DEF HandleWakeDue
  <1>13. CASE HandleSchedule
    <2>1. /\ HomeTurns /\ HomeChan'
          /\ InChan(Complete)' <=> InChan(Complete)
      BY <1>9, <1>13 DEF HandleSchedule, Kind
    <2> QED BY <1>13, <2>1 DEF HandleSchedule
  <1>14. CASE HandleCancel
    <2>1. /\ HomeTurns /\ HomeChan'
          /\ InChan(Complete)' <=> InChan(Complete)
      BY <1>9, <1>14 DEF HandleCancel, Kind
    <2> QED BY <1>14, <2>1 DEF HandleCancel
  <1>15. CASE HandleAsk
    <2>1. /\ HomeTurns /\ HomeChan'
          /\ InChan(Complete)' <=> InChan(Complete)
      BY <1>9, <1>15 DEF HandleAsk, Kind
    <2> QED BY <1>15, <2>1 DEF HandleAsk
  <1>16. CASE InjectNote
    BY <1>2, <1>3, <1>16 DEF InjectNote
  <1>17. CASE MarkFired
    <2>1. /\ HomeTurns /\ HomeChan' /\ ~streaming
          /\ InChan(Complete)' <=> InChan(Complete)
      BY <1>2, <1>3, <1>17 DEF MarkFired
    <2>2. CASE mpc' = "inject" /\ UNCHANGED <<streaming, live>>
      BY <1>17, <2>1, <2>2 DEF MarkFired
    <2>3. CASE mpc' = "idle" /\ StreamTurn
      BY <1>4, <1>17, <2>1, <2>3 DEF MarkFired
    <2> QED BY <1>17, <2>2, <2>3 DEF MarkFired
  <1>18. CASE Submit
    <2>1. /\ HomeTurns /\ HomeChan' /\ mpc = "idle"
          /\ InChan(Complete)' <=> InChan(Complete)
      BY <1>2, <1>3, <1>18 DEF Submit, Ready
    <2>2. CASE ~streaming /\ StreamTurn
      BY <1>4, <1>18, <2>1, <2>2 DEF Submit
    <2>3. CASE UNCHANGED <<streaming, live>>
      BY <1>18, <2>1, <2>3 DEF Submit
    <2> QED BY <1>18, <2>2, <2>3 DEF Submit
  <1>19. CASE Answer
    BY <1>2, <1>3, <1>19 DEF Answer
  <1>20. CASE Adjust
    BY <1>0, <1>20 DEF Adjust
  <1>21. ASSUME NEW s \in Sessions, NewSession(s) \/ SessionPick(s)
         PROVE  HomeChan' /\ HomeTurns'
    BY <1>2, <1>3, <1>21 DEF NewSession, SessionPick, Switch
  <1>22. CASE Tick
    BY <1>2, <1>3, <1>22 DEF Tick
  <1>23. CASE Stop
    BY <1>23 DEF Stop, HomeChan, InChan
  <1>24. ASSUME NEW s \in Sessions, Boot(s) PROVE HomeChan' /\ HomeTurns'
    BY <1>2, <1>3, <1>24 DEF Boot, TypeInv, DownInv
  <1>25. CASE UNCHANGED chatVars
    BY <1>2, <1>3, <1>25 DEF chatVars
  <1> HIDE DEF HomeTurns, AtHome, StreamTurn
  <1> QED
    BY <1>5, <1>6, <1>7, <1>8, <1>10, <1>11, <1>12, <1>13, <1>14, <1>15, <1>16,
       <1>17, <1>18, <1>19, <1>20, <1>21, <1>22, <1>23, <1>24, <1>25, Zenon
       DEF ChatNext, MainStep, HandleMessage, UserStep

-----------------------------------------------------------------------------
(* The watcher.                                                             *)

Calm == ~yielded /\ \A i \in 1..Len(chan) : chan[i].type # "TakenOver"

\* Receiving another message than a turn's end.
LEMMA CalmReceives ==
    ASSUME TypeInv, Calm, NEW k \in Kind, Receive(k)
    PROVE  /\ k # "TakenOver"
           /\ \A i \in 1..Len(chan') : chan'[i].type # "TakenOver"
           /\ k # "Complete" /\ UNCHANGED live => (Busy' <=> Busy)
  <1>1. /\ chan # <<>> /\ chan \in Seq(Message) /\ chan' = Tail(chan)
        /\ Head(chan).type = k
    BY ReceiveFacts DEF TypeInv, ChatTypeOK
  <1>2. /\ Head(chan) = chan[1] /\ Len(chan) \in Nat \ {0}
        /\ Len(chan') = Len(chan) - 1
        /\ \A i \in 1..Len(chan') : chan'[i] = chan[i + 1]
    BY <1>1, TailFacts
  <1>3. 1 \in 1..Len(chan) /\ \A i \in 1..Len(chan') : i + 1 \in 1..Len(chan)
    BY <1>2
  <1>4. k # "Complete" => (InChan(Complete)' <=> InChan(Complete))
    BY EndStays
  <1> QED BY <1>1, <1>2, <1>3, <1>4 DEF Calm, Busy

\* The steps aside from the wakes bring no takeover and take no turn's end away.
LEMMA CalmAside ==
    ASSUME TypeInv, AsideStep, takeovers' = 0, takeovers = 0 => Calm
    PROVE  takeovers = 0 /\ Calm' /\ (Busy => Busy')
  <1>0. /\ live \subseteq Turns /\ takeovers \in Nat /\ chan \in Seq(Message)
    BY DEF TypeInv, ChatTypeOK
  <1> USE DEF flagVars, boundVars, StreamTurn
  <1>1. takeovers = 0
    <2>1. takeovers' >= takeovers
      <3>1. CASE TaskStep
        BY <3>1, TaskFacts DEF TaskEffect
      <3>2. CASE ~TaskStep
        BY <1>0, <3>2 DEF AsideStep, HandleTakenOver, HandleStarted, HandleResult,
             HandleAsk, HandleWizard, Submit, Answer, Adjust, chatVars
      <3> QED BY <3>1, <3>2
    <2> QED BY <1>0, <2>1
  <1>2. Calm
    BY <1>1
  <1>3. ASSUME SpawnTurn PROVE Busy'
    BY <1>0, <1>3, SpawnFacts DEF Busy
  <1>4. ASSUME UNCHANGED <<chan, yielded>>
        PROVE  Calm' /\ (UNCHANGED live => (Busy => Busy'))
    BY <1>2, <1>4 DEF Calm, Busy, InChan
  <1>5. CASE TaskStep
    <2>1. TaskEffect
      BY <1>5, TaskFacts
    <2>2. PICK m \in Message : Sent(m) /\ chan' = Append(chan, m)
      BY <2>1 DEF TaskEffect
    <2>3. /\ \A i \in 1..Len(chan) : chan'[i] = chan[i]
          /\ chan'[Len(chan) + 1] = m
          /\ \A i \in 1..Len(chan') : i \in 1..Len(chan) \/ i = Len(chan) + 1
          /\ Busy => Busy'
      BY <2>2, TaskEnds
    <2>4. m.type # "TakenOver"
      BY <2>2 DEF Sent
    <2> QED BY <1>1, <1>2, <2>1, <2>3, <2>4 DEF Calm, TaskEffect
  <1>6. CASE HandleTakenOver
    BY <1>2, <1>6, CalmReceives DEF HandleTakenOver, Kind
  <1>7. CASE HandleStarted
    BY <1>1, <1>2, <1>7, CalmReceives DEF HandleStarted, Kind, Calm
  <1>8. CASE HandleResult
    <2>1. \A i \in 1..Len(chan') : chan'[i].type # "TakenOver"
      BY <1>2, <1>8, CalmReceives DEF HandleResult, Kind
    <2>2. UNCHANGED live => (Busy' <=> Busy)
      BY <1>2, <1>8, CalmReceives DEF HandleResult, Kind
    <2> QED BY <1>1, <1>2, <1>3, <1>8, <2>1, <2>2 DEF HandleResult, Calm
  <1>9. CASE HandleAsk
    BY <1>1, <1>2, <1>9, CalmReceives DEF HandleAsk, Kind, Calm
  <1>10. CASE HandleWizard
    <2>1. \A i \in 1..Len(chan') : chan'[i].type # "TakenOver"
      BY <1>2, <1>10, CalmReceives DEF HandleWizard, Kind
    <2> QED BY <1>1, <1>2, <1>3, <1>10, <2>1 DEF HandleWizard, Calm
  <1>11. CASE Submit
    BY <1>1, <1>3, <1>4, <1>11 DEF Submit
  <1>12. CASE Answer
    BY <1>1, <1>4, <1>12 DEF Answer
  <1>13. CASE Adjust
    BY <1>1, <1>3, <1>4, <1>13 DEF Adjust
  <1>14. CASE UNCHANGED chatVars
    BY <1>1, <1>4, <1>14 DEF chatVars
  <1> HIDE DEF StreamTurn
  <1> QED
    BY <1>5, <1>6, <1>7, <1>8, <1>9, <1>10, <1>11, <1>12, <1>13, <1>14
       DEF AsideStep

Armed ==
    Ready => \/ next = EarliestIn(pendingWakes)
             \/ Busy /\ \E w \in pendingWakes : w <= clock

\* Every step keeps the watcher set, or a turn's end to come in its place.
LEMMA ArmedStep ==
    TypeInv /\ WaitsForATurn /\ ArmedInv /\ [ChatNext]_chatVars => ArmedInv'
  <1> SUFFICES ASSUME TypeInv, WaitsForATurn, ArmedInv, [ChatNext]_chatVars,
                      takeovers' = 0, refusals' = 0
               PROVE  Calm' /\ Armed'
    BY DEF ArmedInv, Calm, Armed
  <1>0. /\ live \subseteq Turns /\ chan \in Seq(Message)
        /\ {streaming, yielded} \subseteq BOOLEAN
        /\ takeovers \in Nat /\ refusals \in Nat /\ clock \in 0..LastWake
        /\ pendingWakes \in SUBSET Wakes /\ next \in 0..LastWake
        /\ mpc = "idle" <=> firing = {}
    BY DEF TypeInv, ChatTypeOK
  <1>1. ASSUME takeovers = 0, refusals = 0 PROVE Calm /\ Armed
    BY <1>1 DEF ArmedInv, Calm, Armed
  <1> USE DEF flagVars, sessionVars, logVars, drainVars, boundVars, StreamTurn
  <1>2. ASSUME UNCHANGED <<chan, yielded>>, Calm PROVE Calm'
    BY <1>2 DEF Calm
  <1>3. ASSUME next' = EarliestIn(pendingWakes') PROVE Armed'
    BY <1>3 DEF Armed
  <1>4. CASE AsideStep
    <2>1. UNCHANGED <<up, mpc, next, pendingWakes, clock, refusals>>
      BY <1>4, AsideFacts DEF Aside
    <2>2. takeovers = 0 => Calm
      BY <1>1, <2>1
    <2>3. takeovers = 0 /\ Calm' /\ (Busy => Busy')
      BY <1>4, <2>2, CalmAside
    <2>4. Armed
      BY <1>1, <2>1, <2>3
    <2> QED BY <2>1, <2>3, <2>4 DEF Armed, Ready
  <1>5. CASE HandleComplete
    <2>1. Calm /\ Armed /\ Ready
      BY <1>1, <1>5 DEF HandleComplete, Receive
    <2>2. UNCHANGED <<up, yielded, pendingWakes, clock>>
      BY <1>5 DEF HandleComplete
    <2>3. Calm'
      BY <1>5, <2>1, <2>2, CalmReceives DEF HandleComplete, Calm, Kind
    <2>4. CASE SpawnTurn /\ UNCHANGED <<next, mpc>>
      <3>1. Busy'
        BY <1>0, <2>4, SpawnFacts DEF Busy
      <3> QED BY <2>1, <2>2, <2>3, <2>4, <3>1 DEF Armed
    <2>5. CASE DrainWakes(pendingWakes, next, yielded)
      <3>1. yielded = FALSE
        BY <1>0, <2>1 DEF Calm
      <3>2. \/ (\A w \in pendingWakes : ~(w <= clock)) /\ next' = next
            \/ mpc' # "idle"
        BY <1>0, <2>5, <3>1, DrainFacts
      <3> QED BY <2>1, <2>2, <2>3, <3>2 DEF Armed, Ready
    <2> QED BY <1>5, <2>4, <2>5 DEF HandleComplete
  <1>6. CASE HandleWakeDue
    <2>1. Calm /\ Armed /\ Ready
      BY <1>1, <1>6 DEF HandleWakeDue, Receive
    <2>2. UNCHANGED <<up, yielded, pendingWakes, clock, live>>
      BY <1>6 DEF HandleWakeDue
    <2>3. Calm' /\ (Busy' <=> Busy)
      BY <1>6, <2>1, <2>2, CalmReceives DEF HandleWakeDue, Calm, Kind
    <2>4. DrainWakes(pendingWakes, next, streaming \/ yielded)
      BY <1>6 DEF HandleWakeDue
    <2>5. \/ (\A w \in pendingWakes : ~(w <= clock)) /\ next' = next
          \/ (\E w \in pendingWakes : w <= clock) /\ (streaming \/ yielded)
          \/ mpc' # "idle"
      BY <1>0, <2>4, DrainFacts
    <2>6. streaming \/ yielded => Busy
      BY <2>1 DEF Calm, WaitsForATurn
    <2> QED BY <2>1, <2>2, <2>3, <2>5, <2>6 DEF Armed, Ready
  <1>7. CASE HandleSchedule
    <2>1. Calm /\ Armed /\ Ready
      BY <1>1, <1>7 DEF HandleSchedule, Receive
    <2>2. UNCHANGED <<up, yielded, clock, live>>
      BY <1>7 DEF HandleSchedule
    <2>3. Calm' /\ (Busy' <=> Busy)
      BY <1>7, <2>1, <2>2, CalmReceives DEF HandleSchedule, Calm, Kind
    <2>4. CASE UNCHANGED <<pendingWakes, next>>
      BY <2>1, <2>2, <2>3, <2>4 DEF Armed
    <2> QED BY <1>3, <1>7, <2>3, <2>4, ScheduleFacts
  <1>8. CASE HandleCancel
    <2>1. \/ next' = EarliestIn(pendingWakes') /\ UNCHANGED refusals
          \/ refusals' = refusals + 1
      BY <1>8, CancelFacts
    <2>2. next' = EarliestIn(pendingWakes') /\ refusals = 0
      BY <1>0, <2>1
    <2>3. Calm /\ UNCHANGED <<yielded>>
      BY <1>1, <1>8, <2>2 DEF HandleCancel
    <2>4. Calm'
      BY <1>8, <2>3, CalmReceives DEF HandleCancel, Calm, Kind
    <2> QED BY <1>3, <2>2, <2>4
  <1>9. CASE InjectNote
    BY <1>1, <1>2, <1>9 DEF InjectNote, Armed, Ready
  <1>10. CASE MarkFired
    BY <1>1, <1>2, <1>3, <1>10 DEF MarkFired, Armed, Ready
  <1>11. ASSUME NEW s \in Sessions, NewSession(s) PROVE Calm' /\ Armed'
    BY <1>1, <1>3, <1>11 DEF NewSession, Switch, Calm
  <1>12. ASSUME NEW s \in Sessions, SessionPick(s) PROVE Calm' /\ Armed'
    <2>1. Calm
      BY <1>1, <1>12 DEF SessionPick, Switch
    <2>2. Calm'
      BY <1>12, <2>1 DEF SessionPick, Switch, Calm
    <2>3. Unsettled(s) \in SUBSET Wakes /\ EarliestIn(Unsettled(s)) \in 0..LastWake
      BY UnsettledFacts, EarliestFacts
    <2>4. DrainWakes(Unsettled(s), EarliestIn(Unsettled(s)), yielded)
           /\ pendingWakes' = Unsettled(s)
      BY <1>12 DEF SessionPick, Switch
    <2>5. yielded = FALSE
      BY <1>0, <2>1 DEF Calm
    <2>6. next' = EarliestIn(pendingWakes') \/ mpc' # "idle"
      BY <2>3, <2>4, <2>5, DrainFacts
    <2> QED BY <2>2, <2>6 DEF Armed, Ready
  <1>13. ASSUME NEW s \in Sessions, Boot(s) PROVE Calm' /\ Armed'
    <2>1. ~yielded /\ chan = <<>>
      BY <1>13 DEF Boot, TypeInv, DownInv
    <2>2. Calm'
      BY <1>13, <2>1 DEF Boot, Calm
    <2>3. Unsettled(s) \in SUBSET Wakes /\ EarliestIn(Unsettled(s)) \in 0..LastWake
      BY UnsettledFacts, EarliestFacts
    <2>4. DrainWakes(Unsettled(s), EarliestIn(Unsettled(s)), FALSE)
           /\ pendingWakes' = Unsettled(s)
      BY <1>13 DEF Boot
    <2>5. next' = EarliestIn(pendingWakes') \/ mpc' # "idle"
      BY <2>3, <2>4, DrainFacts
    <2> QED BY <2>2, <2>5 DEF Armed, Ready
  <1>14. CASE Tick
    <2>1. Calm /\ Armed /\ Calm'
      BY <1>1, <1>2, <1>14 DEF Tick
    <2>2. \A w \in pendingWakes : w <= clock => w <= clock'
      BY <1>0, <1>14, BoundFacts DEF Tick
    <2> QED BY <1>14, <2>1, <2>2 DEF Tick, Armed, Ready, Busy, InChan
  <1>15. CASE Stop
    BY <1>15 DEF Stop, Calm, Armed, Ready
  <1> QED
    BY <1>4, <1>5, <1>6, <1>7, <1>8, <1>9, <1>10, <1>11, <1>12, <1>13, <1>14, <1>15,
       StepCases

-----------------------------------------------------------------------------
(* The invariant and what follows from it.                                  *)

\* The invariant holds at the start.
LEMMA IInvInit == ChatInit => IInv
  <1> SUFFICES ASSUME ChatInit PROVE IInv
    OBVIOUS
  <1>1. TypeInv
    BY TypeInit
  <1>2. WakeInv
    BY DEF ChatInit, WakeInv, Unsettled
  <1>3. OnceInv
    BY DEF ChatInit, OnceInv
  <1>4. WaitsForATurn
    BY DEF ChatInit, WaitsForATurn
  <1>5. HomeInv
    BY DEF ChatInit, HomeInv, HomeChan, HomeTurns, InChan
  <1>6. ArmedInv
    BY EarliestFacts DEF ChatInit, ArmedInv
  <1> QED BY <1>1, <1>2, <1>3, <1>4, <1>5, <1>6 DEF IInv

\* Every step keeps the invariant.
LEMMA IInvStep == IInv /\ [ChatNext]_chatVars => IInv'
  BY TypeStep, ChanStep, DownStep, WakeStep, OnceStep, WaitsStep, HomeStep,
     ArmedStep DEF IInv, TypeInv

\* The invariant holds in every state of the main loop.
THEOREM LoopInvariant == ChatSpec => []IInv
  BY IInvInit, IInvStep, PTL DEF ChatSpec

\* The main loop's variables keep their types; a turn that is asked something
\* lives, and no drain is under way unless there are wakes to fire.
THEOREM ChatTypeCorrect == ChatSpec => []ChatTypeOK
  <1>1. IInv => ChatTypeOK
    BY DEF IInv, TypeInv
  <1> QED BY <1>1, LoopInvariant, PTL

\* Whenever the main loop is not inside drain_due_wakes, pending_wakes is what
\* rebuild_pending_wakes would read from the log of the loaded session.
THEOREM PendingIsLogged == ChatSpec => []WakesMatchLog
  <1>1. IInv => WakesMatchLog
    BY DEF IInv, WakeInv, WakesMatchLog, Ready
  <1> QED BY <1>1, LoopInvariant, PTL

\* The note of a wake is recorded at most once, and once more for each crash.
THEOREM InjectedOncePerCrash == ChatSpec => []OncePerCrash
  <1>1. IInv => OncePerCrash
    BY DEF IInv, OnceInv, OncePerCrash
  <1> QED BY <1>1, LoopInvariant, PTL

\* A queued message, a deferred result and a streaming loop have a turn whose
\* TurnComplete is still to come.
THEOREM NothingWaitsInVain == ChatSpec => []WaitsForATurn
  <1>1. IInv => WaitsForATurn
    BY DEF IInv
  <1> QED BY <1>1, LoopInvariant, PTL

\* With neither a takeover nor a wizard one turn is alive at a time, and the
\* next one is started after the end of the one before was handled.
THEOREM OneTurnAtATime == ChatSpec => []OneTurn
  <1>1. ASSUME IInv, takeovers = 0, wizards = 0
        PROVE  /\ Cardinality(live) <= 1
               /\ live # {} => ~InChan(Complete) /\ streaming
    <2>1. HomeTurns
      BY <1>1 DEF IInv, HomeInv, AtHome
    <2>2. ASSUME NEW t \in live PROVE live = {t}
      BY <2>1 DEF HomeTurns
    <2>3. Cardinality(live) \in {0, 1}
      BY <2>2, FS_EmptySet, FS_Singleton, Zenon
    <2> QED BY <2>1, <2>3 DEF HomeTurns
  <1>2. IInv => OneTurn
    BY <1>1 DEF OneTurn
  <1> QED BY <1>2, LoopInvariant, PTL

\* With neither a takeover nor a cancel that failed halfway, pending wakes have
\* the watcher set, or a turn whose end will drain them.
THEOREM PendingWakesAttended == ChatSpec => []WakesAttendedAtHome
  <1>1. ASSUME IInv, takeovers = 0, refusals = 0, Ready, pendingWakes # {}
        PROVE  Busy \/ (next # Never /\ next <= EarliestIn(pendingWakes))
    <2>1. next = EarliestIn(pendingWakes) \/ Busy
      BY <1>1 DEF IInv, ArmedInv
    <2>2. EarliestIn(pendingWakes) \in Wakes
      BY <1>1, EarliestFacts DEF IInv, TypeInv, ChatTypeOK
    <2>3. next = EarliestIn(pendingWakes) =>
             next # Never /\ next <= EarliestIn(pendingWakes)
      BY <2>2, BoundFacts DEF Never
    <2> QED BY <2>1, <2>3
  <1>2. IInv => WakesAttendedAtHome
    BY <1>1 DEF WakesAttendedAtHome, WakesAttended
  <1> QED BY <1>2, LoopInvariant, PTL

-----------------------------------------------------------------------------
(* The main loop implements the wake ledger.                                *)

\* A step of the loop is a step of the ledger, or does not touch it.
LEMMA LedgerStep ==
    IInv /\ [ChatNext]_chatVars => [Ledger!LedgerNext]_(Ledger!ledgerVars)
  <1> SUFFICES ASSUME IInv, [ChatNext]_chatVars
               PROVE  Ledger!LedgerNext \/ UNCHANGED <<wakeState, injected>>
    BY DEF Ledger!ledgerVars
  <1>0. /\ TypeInv /\ WakeInv
        /\ wakeState \in [Wakes -> WakeState]
        /\ pendingWakes \in SUBSET Wakes
    BY DEF IInv, TypeInv, ChatTypeOK
  <1> USE DEF logVars
  <1>1. CASE AsideStep
    BY <1>0, <1>1, AsideFacts DEF Aside
  <1>2. CASE HandleSchedule
    BY <1>0, <1>2, ScheduleFacts DEF Ledger!LedgerNext, Ledger!Schedule
  <1>3. CASE HandleCancel
    <2>1. PICK done \in SUBSET pendingWakes :
             /\ wakeState' = [w \in Wakes |-> IF w \in done THEN "cancelled"
                                              ELSE wakeState[w]]
             /\ UNCHANGED injected
      BY <1>0, <1>3, CancelFacts
    <2>2. done \in SUBSET Wakes /\ \A w \in done : wakeState[w] = "scheduled"
      BY <1>0, HeldScheduled
    <2>3. Ledger!Cancel(done)
      BY <2>1, <2>2 DEF Ledger!Cancel
    <2> QED BY <2>2, <2>3 DEF Ledger!LedgerNext
  <1>4. CASE InjectNote
    <2>1. EarliestIn(firing) \in Wakes /\ wakeState[EarliestIn(firing)] = "scheduled"
      BY <1>0, <1>4, HeldScheduled DEF InjectNote
    <2>2. Ledger!Inject(EarliestIn(firing))
      BY <1>4, <2>1 DEF InjectNote, Ledger!Inject
    <2> QED BY <2>1, <2>2 DEF Ledger!LedgerNext
  <1>5. CASE MarkFired
    <2>1. EarliestIn(firing) \in Wakes /\ wakeState[EarliestIn(firing)] = "scheduled"
      BY <1>0, <1>5, HeldScheduled DEF MarkFired
    <2>2. injected[EarliestIn(firing)] > 0
      BY <1>0, <1>5 DEF MarkFired, WakeInv
    <2>3. Ledger!Settle(EarliestIn(firing))
      BY <1>5, <2>1, <2>2 DEF MarkFired, Ledger!Settle
    <2> QED BY <2>1, <2>3 DEF Ledger!LedgerNext
  <1>6. CASE HandleComplete
    BY <1>6 DEF HandleComplete
  <1>7. CASE HandleWakeDue
    BY <1>7 DEF HandleWakeDue
  <1>8. ASSUME NEW s \in Sessions, NewSession(s) \/ SessionPick(s) \/ Boot(s)
        PROVE  UNCHANGED <<wakeState, injected>>
    BY <1>8 DEF NewSession, SessionPick, Switch, Boot
  <1>9. CASE Tick \/ Stop
    BY <1>9 DEF Tick, Stop
  <1> QED
    BY <1>0, <1>1, <1>2, <1>3, <1>4, <1>5, <1>6, <1>7, <1>8, <1>9, StepCases

\* Whatever the sessions, the crashes and the refusals, the log settles a wake
\* only after its note was injected, and nothing happens to a cancelled one.
THEOREM LoopKeepsWakes == ChatSpec => WakesKept
  <1>1. ChatInit => Ledger!LedgerInit
    BY DEF ChatInit, Ledger!LedgerInit
  <1> QED
    BY <1>1, LedgerStep, LoopInvariant, PTL
       DEF ChatSpec, WakesKept, Ledger!LedgerSpec
=============================================================================
