----------------------- MODULE SessionOwnershipProofs -----------------------
(***************************************************************************)
(* Proofs about SessionOwnership, for any number of processes and          *)
(* sessions, any window of at least two heartbeat intervals, and any       *)
(* processes stopped at will, with heartbeats that may fail or not.        *)
(***************************************************************************)
EXTENDS SessionOwnership, FiniteSetTheorems, TLAPS

\* Each load has started one heartbeat, which runs or has left one message.
CountInv ==
    \A p \in Procs :
        /\ IsFiniteSet(beats[p])
        /\ Cardinality(beats[p]) + notices[p] <= loads[p]

\* What a process has in each phase of its life.
LifeInv ==
    \A p \in Procs :
        /\ phase[p] \in {"claiming", "loading"} => chosen[p] \in Sessions
        /\ phase[p] = "up" => home[p] \in Sessions
        /\ phase[p] # "up" => beats[p] = {} /\ notices[p] = 0 /\ loads[p] = 0 /\ turn[p] = "none"
        /\ cursor[p] # NoCursor => cursor[p].sess \in Sessions
        /\ p \in asleep => phase[p] = "up"
        /\ yielded[p] => turn[p] # "running"

HomeBeat(p) == \E b \in beats[p] : b.sess = home[p]
DueBeat(p) == \E b \in beats[p] : b.sess = home[p] /\ b.due = 0
Holds(p) == row[home[p]].pid = p

\* A session that is shown has a heartbeat, or a message that will yield it.
BeatInv == \A p \in Procs : phase[p] = "up" /\ ~yielded[p] => notices[p] > 0 \/ HomeBeat(p)

\* If a whole interval has passed since the loss, the heartbeat is due or has
\* sent its message; so no second one passes.
LossInv ==
    \A p \in Procs :
        Showing(p) /\ ~Holds(p) =>
            /\ lostAge[p] >= 1 /\ steady[p] >= 1 => notices[p] > 0 \/ DueBeat(p)
            /\ JustLost(p)

\* The same of a claim that is kept: after an interval it is young or due to be
\* renewed, after two it is at most one old.
RenewInv ==
    \A p \in Procs :
        Showing(p) /\ Holds(p) =>
            /\ steady[p] >= 1 => notices[p] > 0 \/ DueBeat(p) \/ row[home[p]].age = 0
            /\ steady[p] >= 2 => row[home[p]].age <= 1

OwnInv ==
    /\ OwnershipTypeOK
    /\ CountInv
    /\ LifeInv
    /\ BeatInv
    /\ LossInv
    /\ RenewInv
    /\ AutoResumeSpares

-----------------------------------------------------------------------------
(* The initial state.                                                       *)

LEMMA InitOwnInv ==
    ASSUME OwnershipInit PROVE OwnInv
  <1> USE OwnershipAssumption DEF OwnershipInit
  <1>1. OwnershipTypeOK
    BY DEF OwnershipTypeOK, FreeRow, NoRow, NoCursor, Phases, Turns, OldestBoot, Oldest, LongSteady
  <1>2. CountInv
    BY FS_EmptySet DEF CountInv
  <1>3. LifeInv
    BY DEF LifeInv
  <1>4. BeatInv /\ LossInv /\ RenewInv /\ AutoResumeSpares
    BY DEF BeatInv, LossInv, RenewInv, AutoResumeSpares, Showing, Up
  <1> QED
    BY <1>1, <1>2, <1>3, <1>4 DEF OwnInv

-----------------------------------------------------------------------------
(* What a step of one process leaves alone.                                 *)

\* Of another process, it changes nothing but what the rows say of it.
LEMMA OthersKept ==
    ASSUME OwnInv, NEW p \in Procs, ProcNext(p), NEW q \in Procs, q # p
    PROVE  /\ phase'[q] = phase[q] /\ (q \in asleep' <=> q \in asleep)
           /\ bootAge'[q] = bootAge[q] /\ cursor'[q] = cursor[q]
           /\ chosen'[q] = chosen[q] /\ quiet'[q] = quiet[q]
           /\ home'[q] = home[q] /\ yielded'[q] = yielded[q] /\ turn'[q] = turn[q]
           /\ beats'[q] = beats[q] /\ loads'[q] = loads[q] /\ notices'[q] = notices[q]
           /\ steady'[q] = steady[q]
  <1> USE DEF OwnInv, OwnershipTypeOK, procVars, appVars, beatVars
  <1>1. CASE Boot(p) \/ PickAtBoot(p) \/ DeleteAtBoot(p) \/ ClaimAtBoot(p)
    BY <1>1 DEF Boot, PickAtBoot, DeleteAtBoot, ClaimAtBoot, ChooseNew, Choose
  <1>2. CASE AbortPicker(p) \/ Exit(p) \/ Kill(p)
    BY <1>2 DEF AbortPicker, Exit, Kill, Gone
  <1>3. CASE Start(p) \/ PickSession(p) \/ TakeOver(p) \/ NewSession(p)
    BY <1>3 DEF Start, PickSession, TakeOver, NewSession, Attach, ClosePicker, SpawnHeartbeat
  <1>4. CASE Beating(p) \/ HandleTakenOver(p)
    BY <1>4 DEF Beating, Renew, LoseRow, FailToRenew, StopBeat, HandleTakenOver
  <1>5. CASE Submit(p) \/ EndTurn(p) \/ OpenPicker(p) \/ DeleteSession(p)
    BY <1>5 DEF Submit, EndTurn, OpenPicker, DeleteSession
  <1>6. CASE Suspend(p) \/ Resume(p)
    BY <1>6 DEF Suspend, Resume
  <1> QED
    BY <1>1, <1>2, <1>3, <1>4, <1>5, <1>6 DEF ProcNext

\* It does not write another's claim.
LEMMA ClaimsKept ==
    ASSUME OwnInv, NEW p \in Procs, ProcNext(p), NEW s \in Sessions
    PROVE  row'[s] = row[s] \/ row'[s].pid \in {p, NoProc}
  <1> USE DEF OwnInv, OwnershipTypeOK, procVars, appVars, beatVars, SetRow, NoRow, FreeRow, HeldRow
  <1>1. CASE Boot(p) \/ PickAtBoot(p) \/ ClaimAtBoot(p)
    <2>1. UNCHANGED row \/ ChooseNew(p) \/ ClaimRow(p, chosen[p], bootAge[p])
      BY <1>1 DEF Boot, PickAtBoot, ClaimAtBoot
    <2>2. ASSUME NEW u, NEW n, SetRow(u, FreeRow) \/ SetRow(u, HeldRow(p, n))
          PROVE  row'[s] = row[s] \/ row'[s].pid \in {p, NoProc}
      <3>1. CASE s = u
        BY <2>2, <3>1
      <3>2. CASE s # u
        BY <2>2, <3>2
      <3> QED
        BY <3>1, <3>2
    <2>3. CASE ChooseNew(p)
      BY <2>2, <2>3 DEF ChooseNew
    <2> QED
      BY <2>1, <2>2, <2>3 DEF ClaimRow
  <1>2. CASE AbortPicker(p) \/ Exit(p) \/ Kill(p)
    BY <1>2 DEF AbortPicker, Exit, Kill, ReleaseRow
  <1>3. CASE Start(p) \/ PickSession(p) \/ TakeOver(p) \/ NewSession(p)
    BY <1>3 DEF Start, PickSession, TakeOver, NewSession, ClaimRow
  <1>4. CASE DeleteAtBoot(p) \/ DeleteSession(p)
    BY <1>4 DEF DeleteAtBoot, DeleteSession
  <1>5. CASE Submit(p) \/ EndTurn(p) \/ OpenPicker(p) \/ HandleTakenOver(p)
    BY <1>5 DEF Submit, EndTurn, OpenPicker, HandleTakenOver
  <1>6. CASE Suspend(p) \/ Resume(p)
    BY <1>6 DEF Suspend, Resume
  <1>7. ASSUME NEW b \in beats[p], Renew(p, b)
        PROVE  row'[s] = row[s] \/ row'[s].pid \in {p, NoProc}
    <2>1. row' = [row EXCEPT ![b.sess].age = 0] /\ row[b.sess].pid = p /\ b.sess \in Sessions
      BY <1>7 DEF Renew
    <2>2. CASE s = b.sess
      BY <2>1, <2>2
    <2>3. CASE s # b.sess
      BY <2>1, <2>3
    <2> QED
      BY <2>2, <2>3
  <1>8. ASSUME NEW b \in beats[p], LoseRow(p, b) \/ FailToRenew(p, b)
        PROVE  UNCHANGED row
    BY <1>8 DEF LoseRow, FailToRenew, StopBeat
  <1> QED
    BY <1>1, <1>2, <1>3, <1>4, <1>5, <1>6, <1>7, <1>8 DEF ProcNext, Beating

-----------------------------------------------------------------------------
(* Heartbeats, counted.                                                     *)

\* A loss takes a heartbeat away, a load adds one of its own, and a renewal
\* replaces one by itself.
LEMMA BeatRemoved ==
    ASSUME NEW B, IsFiniteSet(B), NEW b \in B
    PROVE  /\ IsFiniteSet(B \ {b}) /\ Cardinality(B \ {b}) + 1 = Cardinality(B)
           /\ Cardinality(B) \in Nat /\ Cardinality(B \ {b}) \in Nat
  <1>1. /\ IsFiniteSet(B \ {b}) /\ Cardinality(B \ {b}) = Cardinality(B) - 1
        /\ Cardinality(B) \in Nat /\ Cardinality(B \ {b}) \in Nat
    BY FS_RemoveElement, FS_CardinalityType
  <1> QED
    BY <1>1

LEMMA BeatAdded ==
    ASSUME NEW B, IsFiniteSet(B), NEW c
    PROVE  /\ IsFiniteSet(B \cup {c}) /\ Cardinality(B \cup {c}) <= Cardinality(B) + 1
           /\ Cardinality(B) \in Nat /\ Cardinality(B \cup {c}) \in Nat
  BY FS_AddElement, FS_CardinalityType

LEMMA BeatReplaced ==
    ASSUME NEW B, IsFiniteSet(B), NEW b \in B, NEW c
    PROVE  /\ IsFiniteSet((B \ {b}) \cup {c})
           /\ Cardinality((B \ {b}) \cup {c}) <= Cardinality(B)
           /\ Cardinality((B \ {b}) \cup {c}) \in Nat
  <1> DEFINE R == B \ {b}
  <1>1. IsFiniteSet(R) /\ Cardinality(R) + 1 = Cardinality(B) /\ Cardinality(R) \in Nat
    BY BeatRemoved
  <1> HIDE DEF R
  <1>2. /\ IsFiniteSet(R \cup {c}) /\ Cardinality(R \cup {c}) <= Cardinality(R) + 1
        /\ Cardinality(R \cup {c}) \in Nat
    BY <1>1, BeatAdded
  <1> QED
    BY <1>1, <1>2 DEF R

LEMMA CountStep ==
    ASSUME OwnInv, NEW p \in Procs, ProcNext(p)
    PROVE  CountInv'
  <1> USE DEF OwnInv, OwnershipTypeOK
  <1> SUFFICES ASSUME NEW q \in Procs
               PROVE  /\ IsFiniteSet(beats'[q])
                      /\ Cardinality(beats'[q]) + notices'[q] <= loads'[q]
    BY DEF CountInv
  <1>1. CASE q # p
    BY <1>1, OthersKept DEF CountInv
  <1> SUFFICES ASSUME q = p PROVE /\ IsFiniteSet(beats'[p])
                                  /\ Cardinality(beats'[p]) + notices'[p] <= loads'[p]
    BY <1>1
  <1>2. /\ IsFiniteSet(beats[p]) /\ Cardinality(beats[p]) \in Nat
        /\ Cardinality(beats[p]) + notices[p] <= loads[p] /\ notices[p] \in Nat /\ loads[p] \in Nat
    BY FS_CardinalityType DEF CountInv
  <1>3. CASE UNCHANGED beatVars
    BY <1>2, <1>3 DEF beatVars
  <1>4. CASE AbortPicker(p) \/ Exit(p) \/ Kill(p)
    <2>1. beats'[p] = {} /\ loads'[p] = 0 /\ notices'[p] = 0
      BY <1>4 DEF AbortPicker, Exit, Kill, Gone
    <2> QED
      BY <2>1, FS_EmptySet
  <1>5. ASSUME NEW s, SpawnHeartbeat(p, s)
        PROVE  /\ IsFiniteSet(beats'[p])
               /\ Cardinality(beats'[p]) + notices'[p] <= loads'[p]
    <2> DEFINE c == [load |-> loads[p] + 1, sess |-> s, due |-> 1]
    <2>1. beats'[p] = beats[p] \cup {c} /\ loads'[p] = loads[p] + 1 /\ notices'[p] = notices[p]
      BY <1>5 DEF SpawnHeartbeat
    <2> HIDE DEF c
    <2>2. /\ IsFiniteSet(beats[p] \cup {c}) /\ Cardinality(beats[p] \cup {c}) <= Cardinality(beats[p]) + 1
          /\ Cardinality(beats[p] \cup {c}) \in Nat
      BY <1>2, BeatAdded
    <2> QED
      BY <1>2, <2>1, <2>2
  <1>6. ASSUME NEW b \in beats[p], Renew(p, b)
        PROVE  /\ IsFiniteSet(beats'[p])
               /\ Cardinality(beats'[p]) + notices'[p] <= loads'[p]
    <2> DEFINE c == [b EXCEPT !.due = 1]
    <2>1. beats'[p] = (beats[p] \ {b}) \cup {c} /\ loads'[p] = loads[p] /\ notices'[p] = notices[p]
      BY <1>6 DEF Renew
    <2> HIDE DEF c
    <2>2. /\ IsFiniteSet((beats[p] \ {b}) \cup {c})
          /\ Cardinality((beats[p] \ {b}) \cup {c}) <= Cardinality(beats[p])
          /\ Cardinality((beats[p] \ {b}) \cup {c}) \in Nat
      BY <1>2, BeatReplaced
    <2> QED
      BY <1>2, <2>1, <2>2
  <1>7. ASSUME NEW b \in beats[p], LoseRow(p, b) \/ FailToRenew(p, b)
        PROVE  /\ IsFiniteSet(beats'[p])
               /\ Cardinality(beats'[p]) + notices'[p] <= loads'[p]
    <2>1. beats'[p] = beats[p] \ {b} /\ loads'[p] = loads[p] /\ notices'[p] = notices[p] + 1
      BY <1>7 DEF LoseRow, FailToRenew, StopBeat
    <2>2. /\ IsFiniteSet(beats'[p]) /\ Cardinality(beats'[p]) + 1 = Cardinality(beats[p])
          /\ Cardinality(beats'[p]) \in Nat
      BY <1>2, <2>1, BeatRemoved
    <2> QED
      BY <1>2, <2>1, <2>2
  <1>8. CASE HandleTakenOver(p)
    <2>1. beats' = beats /\ loads' = loads /\ notices'[p] = notices[p] - 1 /\ notices[p] > 0
      BY <1>8 DEF HandleTakenOver
    <2> QED
      BY <1>2, <2>1
  <1>9. CASE Start(p) \/ PickSession(p) \/ TakeOver(p) \/ NewSession(p)
    BY <1>3, <1>5, <1>9 DEF Start, PickSession, TakeOver, NewSession, Attach, ClosePicker, beatVars
  <1>10. CASE Boot(p) \/ PickAtBoot(p) \/ DeleteAtBoot(p) \/ ClaimAtBoot(p)
    BY <1>3, <1>10 DEF Boot, PickAtBoot, DeleteAtBoot, ClaimAtBoot
  <1>11. CASE Submit(p) \/ EndTurn(p) \/ OpenPicker(p) \/ DeleteSession(p) \/ Suspend(p) \/ Resume(p)
    BY <1>3, <1>11 DEF Submit, EndTurn, OpenPicker, DeleteSession, Suspend, Resume, beatVars
  <1> QED
    BY <1>4, <1>6, <1>7, <1>8, <1>9, <1>10, <1>11 DEF ProcNext, Beating

-----------------------------------------------------------------------------
(* Lives.                                                                   *)

LifeOf(q) ==
    /\ phase[q] \in {"claiming", "loading"} => chosen[q] \in Sessions
    /\ phase[q] = "up" => home[q] \in Sessions
    /\ phase[q] # "up" => beats[q] = {} /\ notices[q] = 0 /\ loads[q] = 0 /\ turn[q] = "none"
    /\ cursor[q] # NoCursor => cursor[q].sess \in Sessions
    /\ q \in asleep => phase[q] = "up"
    /\ yielded[q] => turn[q] # "running"

\* The functions of OwnershipTypeOK.
PerProcess ==
    /\ phase \in [Procs -> Phases]
    /\ bootAge \in [Procs -> 0..OldestBoot]
    /\ cursor \in [Procs -> [sess: Sessions \cup {NoSession}, live: BOOLEAN]]
    /\ chosen \in [Procs -> Sessions \cup {NoSession}]
    /\ quiet \in [Procs -> BOOLEAN]
    /\ home \in [Procs -> Sessions \cup {NoSession}]
    /\ yielded \in [Procs -> BOOLEAN]
    /\ turn \in [Procs -> Turns]
    /\ beats \in [Procs -> SUBSET [load: Nat, sess: Sessions, due: 0..1]]
    /\ loads \in [Procs -> Nat]
    /\ notices \in [Procs -> Nat]
    /\ steady \in [Procs -> 0..LongSteady]

LEMMA LifeStep ==
    ASSUME OwnershipAssumption, OwnInv, NEW p \in Procs, ProcNext(p)
    PROVE  LifeInv'
  <1>1. LifeOf(p) /\ PerProcess
    BY DEF OwnInv, OwnershipTypeOK, LifeInv, LifeOf, PerProcess
  <1>2. ASSUME NEW q \in Procs, q # p PROVE LifeOf(q)'
    <2>1. LifeOf(q)
      BY DEF OwnInv, LifeInv, LifeOf
    <2> QED
      BY <1>2, <2>1, OthersKept DEF LifeOf, NoCursor
  <1>3. \A s \in StoredRows : s \in Sessions
    BY DEF StoredRows
  <1>4. \A c \in Shown : c.sess \in Sessions
    BY <1>3 DEF Shown
  <1>5. \A s \in Unused : s \in Sessions
    BY DEF Unused
  <1> SUFFICES LifeOf(p)'
    BY <1>2 DEF LifeInv, LifeOf
  <1> USE DEF LifeOf, PerProcess
  <1>6. CASE Boot(p) \/ PickAtBoot(p)
    <2>1. phase[p] # "up" /\ UNCHANGED <<asleep, appVars, beatVars>>
      BY <1>6 DEF Boot, PickAtBoot
    <2>2. \/ \E s \in Sessions, d \in BOOLEAN : Choose(p, s, d)
          \/ /\ phase' = [phase EXCEPT ![p] = "picking"]
             /\ \E c \in Shown : cursor' = [cursor EXCEPT ![p] = c]
             /\ UNCHANGED <<chosen, quiet>>
      <3>1. CASE PickAtBoot(p)
        BY <1>1, <1>5, <3>1 DEF PickAtBoot, ChooseNew
      <3>2. CASE Boot(p)
        BY <1>3, <1>5, <3>2 DEF Boot, ChooseNew
      <3> QED
        BY <1>6, <3>1, <3>2
    <2>3. ASSUME NEW s \in Sessions, NEW d \in BOOLEAN, Choose(p, s, d)
          PROVE  LifeOf(p)'
      BY <1>1, <2>1, <2>3 DEF Choose, NoCursor, appVars, beatVars
    <2>4. ASSUME NEW c \in Shown, phase' = [phase EXCEPT ![p] = "picking"],
                 cursor' = [cursor EXCEPT ![p] = c], UNCHANGED <<chosen, quiet>>
          PROVE  LifeOf(p)'
      BY <1>1, <1>4, <2>1, <2>4 DEF NoCursor, appVars, beatVars
    <2> QED
      BY <2>2, <2>3, <2>4
  <1>7. CASE DeleteAtBoot(p)
    <2>1. \A c \in Shown : [c EXCEPT !.live = TRUE].sess = c.sess
      BY DEF Shown
    <2>2. phase[p] = "picking" /\ UNCHANGED <<phase, asleep, chosen, appVars, beatVars>>
      BY <1>7 DEF DeleteAtBoot
    <2>3. \/ cursor' = [cursor EXCEPT ![p] = NoCursor]
          \/ \E c \in Shown : \/ cursor' = [cursor EXCEPT ![p] = c]
                              \/ cursor' = [cursor EXCEPT ![p] = [c EXCEPT !.live = TRUE]]
      BY <1>7 DEF DeleteAtBoot
    <2>4. cursor'[p] # NoCursor => cursor'[p].sess \in Sessions
      <3>1. \A d : cursor' = [cursor EXCEPT ![p] = d] => cursor'[p] = d
        BY <1>1
      <3>2. cursor'[p] = NoCursor \/ \E c \in Shown : cursor'[p] = c \/ cursor'[p] = [c EXCEPT !.live = TRUE]
        BY <2>3, <3>1
      <3> QED
        BY <1>4, <2>1, <3>2
    <2> QED
      BY <1>1, <2>2, <2>4 DEF NoCursor, appVars, beatVars
  <1>8. CASE AbortPicker(p) \/ Exit(p) \/ Kill(p)
    BY <1>1, <1>8 DEF AbortPicker, Exit, Kill, Gone, NoCursor
  <1>9. CASE Start(p) \/ ClaimAtBoot(p)
    <2>1. CASE Start(p)
      BY <1>1, <2>1 DEF Start, SpawnHeartbeat, NoCursor
    <2>2. CASE ClaimAtBoot(p)
      BY <1>1, <2>2 DEF ClaimAtBoot, NoCursor, appVars, beatVars
    <2> QED
      BY <1>9, <2>1, <2>2
  <1>10. CASE PickSession(p) \/ TakeOver(p) \/ NewSession(p)
    <2>1. ASSUME NEW s \in Sessions, Attach(p, s), phase[p] = "up", turn[p] # "running"
          PROVE  LifeOf(p)'
      BY <1>1, <2>1 DEF Attach, SpawnHeartbeat, NoCursor
    <2>2. phase[p] = "up"
      BY <1>10 DEF PickSession, TakeOver, NewSession, Up
    <2>3. \/ \E s \in Sessions : Attach(p, s) /\ turn[p] # "running"
          \/ /\ cursor' = [cursor EXCEPT ![p] = NoCursor]
             /\ UNCHANGED <<phase, asleep, chosen, appVars, beatVars>>
      BY <1>1, <1>5, <1>10 DEF PickSession, TakeOver, NewSession, ClosePicker
    <2>4. ASSUME cursor' = [cursor EXCEPT ![p] = NoCursor],
                 UNCHANGED <<phase, asleep, chosen, appVars, beatVars>>
          PROVE  LifeOf(p)'
      BY <1>1, <2>2, <2>4 DEF NoCursor, appVars, beatVars
    <2> QED
      BY <2>1, <2>2, <2>3, <2>4
  <1>11. CASE Beating(p) \/ HandleTakenOver(p)
    <2>1. phase[p] = "up" /\ UNCHANGED procVars
      BY <1>11 DEF Beating, Renew, LoseRow, FailToRenew, StopBeat, HandleTakenOver, Up
    <2>2. UNCHANGED home /\ (yielded'[p] => turn'[p] # "running")
      <3>1. CASE HandleTakenOver(p)
        BY <1>1, <3>1 DEF HandleTakenOver
      <3>2. CASE Beating(p)
        BY <1>1, <3>2 DEF Beating, Renew, LoseRow, FailToRenew, StopBeat, appVars
      <3> QED
        BY <1>11, <3>1, <3>2
    <2> QED
      BY <1>1, <2>1, <2>2 DEF procVars, NoCursor
  <1>12. CASE OpenPicker(p) \/ DeleteSession(p)
    <2>1. /\ phase[p] = "up" /\ UNCHANGED <<phase, asleep, chosen, appVars, beatVars>>
          /\ \E c \in Shown \cup {NoCursor} : cursor' = [cursor EXCEPT ![p] = c]
      BY <1>12 DEF OpenPicker, DeleteSession, Up
    <2> QED
      BY <1>1, <1>4, <2>1 DEF appVars, beatVars, NoCursor
  <1>13. CASE Submit(p) \/ EndTurn(p)
    BY <1>1, <1>13 DEF Submit, EndTurn, Up, procVars, beatVars, NoCursor
  <1>14. CASE Suspend(p) \/ Resume(p)
    BY <1>1, <1>14 DEF Suspend, Resume, Up, appVars, beatVars, NoCursor
  <1> QED
    BY <1>6, <1>7, <1>8, <1>9, <1>10, <1>11, <1>12, <1>13, <1>14 DEF ProcNext

-----------------------------------------------------------------------------
(* Types.                                                                   *)

RowType == [state: {"unused", "stored", "deleted"}, pid: Procs \cup {NoProc}, age: 0..Oldest]

LEMMA RowsTyped ==
    ASSUME OwnershipAssumption, OwnInv, NEW p \in Procs, ProcNext(p)
    PROVE  row' \in [Sessions -> RowType]
  <1>1. row \in [Sessions -> RowType] /\ bootAge[p] \in 0..Oldest
    BY DEF OwnInv, OwnershipTypeOK, RowType, OldestBoot, Oldest
  <1>2. \A s, r : SetRow(s, r) /\ r \in RowType => row' \in [Sessions -> RowType]
    BY <1>1 DEF SetRow
  <1>3. 0 \in 0..Oldest
    BY DEF Oldest, OwnershipAssumption
  <1>4. /\ NoRow("stored") \in RowType /\ NoRow("deleted") \in RowType /\ FreeRow \in RowType
        /\ \A n \in 0..Oldest : HeldRow(p, n) \in RowType
    BY <1>3 DEF NoRow, FreeRow, HeldRow, RowType
  <1>5. CASE UNCHANGED row
    BY <1>1, <1>5
  <1>6. \A s : \A n \in 0..Oldest : ClaimRow(p, s, n) => row' \in [Sessions -> RowType]
    BY <1>2, <1>4, <1>5 DEF ClaimRow
  <1>7. CASE Boot(p) \/ PickAtBoot(p) \/ ClaimAtBoot(p) \/ DeleteAtBoot(p)
    BY <1>1, <1>2, <1>4, <1>5, <1>6, <1>7
       DEF Boot, PickAtBoot, ClaimAtBoot, DeleteAtBoot, ChooseNew
  <1>8. CASE AbortPicker(p) \/ Exit(p) \/ Kill(p)
    BY <1>2, <1>4, <1>5, <1>8 DEF AbortPicker, Exit, Kill, ReleaseRow
  <1>9. CASE PickSession(p) \/ TakeOver(p) \/ NewSession(p) \/ DeleteSession(p)
    BY <1>2, <1>3, <1>4, <1>5, <1>6, <1>9 DEF PickSession, TakeOver, NewSession, DeleteSession
  <1>10. ASSUME NEW b \in beats[p], Renew(p, b)
         PROVE  row' \in [Sessions -> RowType]
    <2>1. row' = [row EXCEPT ![b.sess].age = 0]
      BY <1>10 DEF Renew
    <2>2. \A r \in RowType : [r EXCEPT !.age = 0] \in RowType
      BY <1>3 DEF RowType
    <2> QED
      BY <1>1, <2>1, <2>2
  <1>11. ASSUME NEW b \in beats[p], LoseRow(p, b) \/ FailToRenew(p, b)
         PROVE  UNCHANGED row
    BY <1>11 DEF LoseRow, FailToRenew, StopBeat
  <1>12. CASE Start(p) \/ HandleTakenOver(p) \/ Submit(p) \/ EndTurn(p) \/ OpenPicker(p)
              \/ Suspend(p) \/ Resume(p)
    BY <1>5, <1>12 DEF Start, HandleTakenOver, Submit, EndTurn, OpenPicker, Suspend, Resume
  <1> QED
    BY <1>5, <1>7, <1>8, <1>9, <1>10, <1>11, <1>12 DEF ProcNext, Beating

LEMMA CursorsTyped ==
    ASSUME OwnInv, NEW p \in Procs, ProcNext(p)
    PROVE  cursor' \in [Procs -> [sess: Sessions \cup {NoSession}, live: BOOLEAN]]
  <1> DEFINE Cursors == [sess: Sessions \cup {NoSession}, live: BOOLEAN]
  <1>1. cursor \in [Procs -> Cursors]
    BY DEF OwnInv, OwnershipTypeOK
  <1>2. \A c \in Shown : c \in Cursors /\ [c EXCEPT !.live = TRUE] \in Cursors
    <2>1. ASSUME NEW s \in StoredRows
          PROVE  s \in Sessions /\ (s \in LiveRows) \in BOOLEAN
      BY DEF StoredRows, LiveRows
    <2>2. ASSUME NEW s \in StoredRows
          PROVE  [sess |-> s, live |-> s \in LiveRows] \in Cursors
      BY <2>1
    <2>3. \A c \in Shown : c \in Cursors
      BY <2>2 DEF Shown
    <2> QED
      BY <2>3
  <1>3. NoCursor \in Cursors
    BY DEF NoCursor
  <1> SUFFICES cursor' \in [Procs -> Cursors]
    OBVIOUS
  <1> HIDE DEF Cursors
  <1>4. \A d \in Cursors : cursor' = [cursor EXCEPT ![p] = d] => cursor' \in [Procs -> Cursors]
    BY <1>1
  <1>5. CASE UNCHANGED cursor
    BY <1>1, <1>5
  <1>6. CASE Boot(p) \/ PickAtBoot(p) \/ DeleteAtBoot(p)
    BY <1>2, <1>3, <1>4, <1>6 DEF Boot, PickAtBoot, DeleteAtBoot, ChooseNew, Choose
  <1>7. CASE AbortPicker(p) \/ Exit(p) \/ Kill(p)
    BY <1>3, <1>4, <1>7 DEF AbortPicker, Exit, Kill, Gone
  <1>8. CASE PickSession(p) \/ TakeOver(p) \/ NewSession(p)
    BY <1>3, <1>4, <1>8 DEF PickSession, TakeOver, NewSession, Attach, ClosePicker
  <1>9. CASE OpenPicker(p)
    BY <1>2, <1>4, <1>9 DEF OpenPicker
  <1>10. CASE DeleteSession(p)
    BY <1>2, <1>3, <1>4, <1>10 DEF DeleteSession
  <1>11. CASE ClaimAtBoot(p) \/ Start(p) \/ Suspend(p) \/ Resume(p)
    BY <1>5, <1>11 DEF ClaimAtBoot, Start, Suspend, Resume
  <1>12. CASE Beating(p) \/ HandleTakenOver(p) \/ Submit(p) \/ EndTurn(p)
    BY <1>5, <1>12
       DEF Beating, Renew, LoseRow, FailToRenew, StopBeat, HandleTakenOver, Submit, EndTurn, procVars
  <1> QED
    BY <1>6, <1>7, <1>8, <1>9, <1>10, <1>11, <1>12 DEF ProcNext

\* Where a process is in its life, and the session it shows.
LEMMA LivesTyped ==
    ASSUME OwnInv, NEW p \in Procs, ProcNext(p)
    PROVE  /\ phase' \in [Procs -> Phases]
           /\ asleep' \subseteq Procs
           /\ bootAge' \in [Procs -> 0..OldestBoot]
           /\ chosen' \in [Procs -> Sessions \cup {NoSession}]
           /\ quiet' \in [Procs -> BOOLEAN]
           /\ home' \in [Procs -> Sessions \cup {NoSession}]
           /\ yielded' \in [Procs -> BOOLEAN]
           /\ turn' \in [Procs -> Turns]
           /\ steady' \in [Procs -> 0..LongSteady]
  <1>1. /\ phase \in [Procs -> Phases]
        /\ asleep \subseteq Procs
        /\ bootAge \in [Procs -> 0..OldestBoot]
        /\ chosen \in [Procs -> Sessions \cup {NoSession}]
        /\ quiet \in [Procs -> BOOLEAN]
        /\ home \in [Procs -> Sessions \cup {NoSession}]
        /\ yielded \in [Procs -> BOOLEAN]
        /\ turn \in [Procs -> Turns]
        /\ steady \in [Procs -> 0..LongSteady]
    BY DEF OwnInv, OwnershipTypeOK
  <1>2. cursor[p] # NoCursor => cursor[p].sess \in Sessions
    BY DEF OwnInv, LifeInv
  <1>3. 0 \in 0..OldestBoot /\ 0 \in 0..LongSteady
    BY OwnershipAssumption DEF OldestBoot, LongSteady
  <1>4. \A s \in StoredRows : s \in Sessions
    BY DEF StoredRows
  <1>5. \A s \in Unused : s \in Sessions
    BY DEF Unused
  <1> USE DEF Phases, Turns
  <1>6. CASE Boot(p) \/ PickAtBoot(p)
    <2>1. UNCHANGED <<asleep, bootAge, appVars, steady>>
      BY <1>6 DEF Boot, PickAtBoot
    <2>2. \/ \E s \in Sessions, d \in BOOLEAN : Choose(p, s, d)
          \/ phase' = [phase EXCEPT ![p] = "picking"] /\ UNCHANGED <<chosen, quiet>>
      <3>1. CASE PickAtBoot(p)
        BY <1>2, <1>5, <3>1 DEF PickAtBoot, ChooseNew
      <3>2. CASE Boot(p)
        BY <1>4, <1>5, <3>2 DEF Boot, ChooseNew
      <3> QED
        BY <1>6, <3>1, <3>2
    <2>3. /\ phase' \in [Procs -> Phases]
          /\ chosen' \in [Procs -> Sessions \cup {NoSession}]
          /\ quiet' \in [Procs -> BOOLEAN]
      BY <1>1, <2>2 DEF Choose
    <2> QED
      BY <1>1, <2>1, <2>3 DEF appVars
  <1>7. CASE DeleteAtBoot(p) \/ OpenPicker(p) \/ DeleteSession(p)
    BY <1>1, <1>7 DEF DeleteAtBoot, OpenPicker, DeleteSession, appVars
  <1>8. CASE AbortPicker(p) \/ Exit(p) \/ Kill(p)
    <2>1. Gone(p)
      BY <1>8 DEF AbortPicker, Exit, Kill
    <2>2. /\ phase' \in [Procs -> Phases]
          /\ asleep' \subseteq Procs
          /\ bootAge' \in [Procs -> 0..OldestBoot]
          /\ chosen' \in [Procs -> Sessions \cup {NoSession}]
          /\ quiet' \in [Procs -> BOOLEAN]
      BY <1>1, <1>3, <2>1 DEF Gone
    <2>3. /\ home' \in [Procs -> Sessions \cup {NoSession}]
          /\ yielded' \in [Procs -> BOOLEAN]
          /\ turn' \in [Procs -> Turns]
          /\ steady' \in [Procs -> 0..LongSteady]
      BY <1>1, <1>3, <2>1 DEF Gone
    <2> QED
      BY <2>2, <2>3
  <1>9. CASE ClaimAtBoot(p)
    BY <1>1, <1>9 DEF ClaimAtBoot, appVars
  <1>10. CASE Start(p)
    BY <1>1, <1>3, <1>10 DEF Start, SpawnHeartbeat
  <1>11. ASSUME NEW s \in Sessions, Attach(p, s)
         PROVE  /\ UNCHANGED <<phase, asleep, bootAge, chosen, quiet, turn>>
                /\ home' \in [Procs -> Sessions \cup {NoSession}]
                /\ yielded' \in [Procs -> BOOLEAN]
                /\ steady' \in [Procs -> 0..LongSteady]
    BY <1>1, <1>3, <1>11 DEF Attach, SpawnHeartbeat
  <1>12. CASE PickSession(p) \/ TakeOver(p) \/ NewSession(p)
    <2>1. \/ \E s \in Sessions : Attach(p, s)
          \/ /\ UNCHANGED <<phase, asleep, bootAge, chosen, quiet, appVars>>
             /\ \/ steady' = steady
                \/ steady' = [steady EXCEPT ![p] = IF cursor[p].sess = home[p] THEN 0 ELSE @]
      BY <1>2, <1>5, <1>12 DEF PickSession, TakeOver, NewSession, ClosePicker
    <2>2. CASE \E s \in Sessions : Attach(p, s)
      BY <1>1, <1>11, <2>2
    <2>3. CASE /\ UNCHANGED <<phase, asleep, bootAge, chosen, quiet, appVars>>
               /\ \/ steady' = steady
                  \/ steady' = [steady EXCEPT ![p] = IF cursor[p].sess = home[p] THEN 0 ELSE @]
      BY <1>1, <1>3, <2>3 DEF appVars
    <2> QED
      BY <2>1, <2>2, <2>3
  <1>13. CASE Beating(p)
    BY <1>1, <1>13 DEF Beating, Renew, LoseRow, FailToRenew, StopBeat, procVars, appVars
  <1>14. CASE HandleTakenOver(p)
    <2>1. UNCHANGED <<procVars, home, steady>>
      BY <1>14 DEF HandleTakenOver
    <2>2. turn' \in [Procs -> Turns]
      BY <1>1, <1>14 DEF HandleTakenOver
    <2>3. yielded' \in [Procs -> BOOLEAN]
      BY <1>1, <1>14 DEF HandleTakenOver
    <2> QED
      BY <1>1, <2>1, <2>2, <2>3 DEF procVars
  <1>15. CASE Submit(p) \/ EndTurn(p)
    BY <1>1, <1>15 DEF Submit, EndTurn, procVars
  <1>16. CASE Suspend(p) \/ Resume(p)
    BY <1>1, <1>3, <1>16 DEF Suspend, Resume, appVars
  <1> QED
    BY <1>6, <1>7, <1>8, <1>9, <1>10, <1>12, <1>13, <1>14, <1>15, <1>16 DEF ProcNext

\* Its heartbeats and their messages.
LEMMA BeatsTyped ==
    ASSUME OwnershipAssumption, OwnInv, NEW p \in Procs, ProcNext(p)
    PROVE  /\ beats' \in [Procs -> SUBSET [load: Nat, sess: Sessions, due: 0..1]]
           /\ loads' \in [Procs -> Nat]
           /\ notices' \in [Procs -> Nat]
           /\ \A b \in beats'[p] : b.load \in 1..loads'[p]
           /\ loads'[p] <= MaxLoads[p]
  <1> DEFINE Beats == [load: Nat, sess: Sessions, due: 0..1]
  <1>1. /\ beats \in [Procs -> SUBSET Beats]
        /\ loads \in [Procs -> Nat]
        /\ notices \in [Procs -> Nat]
        /\ \A b \in beats[p] : b.load \in 1..loads[p]
        /\ loads[p] <= MaxLoads[p]
    BY DEF OwnInv, OwnershipTypeOK
  <1>2. MaxLoads[p] \in Nat \ {0}
    BY DEF OwnershipAssumption
  <1>3. CASE UNCHANGED beatVars
    BY <1>1, <1>3 DEF beatVars
  <1>4. CASE AbortPicker(p) \/ Exit(p) \/ Kill(p)
    BY <1>1, <1>2, <1>4 DEF AbortPicker, Exit, Kill, Gone
  <1>5. ASSUME NEW s \in Sessions, SpawnHeartbeat(p, s), loads[p] < MaxLoads[p]
        PROVE  /\ beats' \in [Procs -> SUBSET Beats]
               /\ loads' \in [Procs -> Nat]
               /\ notices' \in [Procs -> Nat]
               /\ \A b \in beats'[p] : b.load \in 1..loads'[p]
               /\ loads'[p] <= MaxLoads[p]
    BY <1>1, <1>2, <1>5 DEF SpawnHeartbeat
  <1>6. CASE Start(p)
    BY <1>2, <1>5, <1>6 DEF Start, OwnInv, LifeInv
  <1>7. CASE PickSession(p) \/ TakeOver(p) \/ NewSession(p)
    <2>1. UNCHANGED beatVars \/ \E s \in Sessions : Attach(p, s)
      BY <1>7 DEF PickSession, TakeOver, NewSession, ClosePicker, Unused, OwnInv, LifeInv
    <2>2. ASSUME NEW s \in Sessions, Attach(p, s)
          PROVE  SpawnHeartbeat(p, s) /\ loads[p] < MaxLoads[p]
      BY <2>2 DEF Attach
    <2> QED
      BY <1>3, <1>5, <2>1, <2>2
  <1>8. ASSUME NEW b \in beats[p], Renew(p, b)
        PROVE  /\ beats' \in [Procs -> SUBSET Beats]
               /\ UNCHANGED <<loads, notices>>
               /\ \A c \in beats'[p] : c.load \in 1..loads'[p]
    <2>1. [b EXCEPT !.due = 1] \in Beats /\ [b EXCEPT !.due = 1].load = b.load
      BY <1>1, <1>8
    <2>2. /\ beats' = [beats EXCEPT ![p] = (@ \ {b}) \cup {[b EXCEPT !.due = 1]}]
          /\ UNCHANGED <<loads, notices>>
      BY <1>8 DEF Renew
    <2> HIDE DEF Beats
    <2> QED
      BY <1>1, <2>1, <2>2
  <1>9. ASSUME NEW b \in beats[p], LoseRow(p, b) \/ FailToRenew(p, b)
        PROVE  /\ beats' \in [Procs -> SUBSET Beats]
               /\ loads' = loads
               /\ notices' \in [Procs -> Nat]
               /\ \A c \in beats'[p] : c.load \in 1..loads'[p]
    BY <1>1, <1>9 DEF LoseRow, FailToRenew, StopBeat
  <1>10. CASE HandleTakenOver(p)
    BY <1>1, <1>10 DEF HandleTakenOver
  <1>11. CASE Boot(p) \/ PickAtBoot(p) \/ DeleteAtBoot(p) \/ ClaimAtBoot(p)
    BY <1>3, <1>11 DEF Boot, PickAtBoot, DeleteAtBoot, ClaimAtBoot
  <1>12. CASE Submit(p) \/ EndTurn(p) \/ OpenPicker(p) \/ DeleteSession(p) \/ Suspend(p) \/ Resume(p)
    BY <1>3, <1>12 DEF Submit, EndTurn, OpenPicker, DeleteSession, Suspend, Resume, beatVars
  <1> QED
    BY <1>1, <1>4, <1>6, <1>7, <1>8, <1>9, <1>10, <1>11, <1>12 DEF ProcNext, Beating

LEMMA TypeStep ==
    ASSUME OwnershipAssumption, OwnInv, NEW p \in Procs, ProcNext(p), Watch
    PROVE  OwnershipTypeOK'
  <1>1. lostAge' \in [Procs -> 0..2]
    BY DEF OwnInv, OwnershipTypeOK, Watch
  <1>2. ASSUME NEW q \in Procs
        PROVE  /\ \A b \in beats'[q] : b.load \in 1..loads'[q]
               /\ loads'[q] <= MaxLoads[q]
    <2>1. CASE q = p
      BY <2>1, BeatsTyped
    <2>2. CASE q # p
      BY <2>2, OthersKept DEF OwnInv, OwnershipTypeOK
    <2> QED
      BY <2>1, <2>2
  <1>3. ASSUME NEW q \in Procs
        PROVE  notices'[q] <= loads'[q]
    <2>1. IsFiniteSet(beats'[q]) /\ Cardinality(beats'[q]) + notices'[q] <= loads'[q]
      BY CountStep DEF CountInv
    <2>2. Cardinality(beats'[q]) \in Nat /\ notices'[q] \in Nat /\ loads'[q] \in Nat
      BY <2>1, FS_CardinalityType, BeatsTyped
    <2> QED
      BY <2>1, <2>2
  <1> QED
    BY <1>1, <1>2, <1>3, RowsTyped, CursorsTyped, LivesTyped, BeatsTyped DEF OwnershipTypeOK, RowType

-----------------------------------------------------------------------------
(* What a step of a process does to the session it shows.                   *)

Warned(p) == notices[p] > 0 \/ DueBeat(p)
Watched(p) == notices[p] > 0 \/ HomeBeat(p)

LEMMA AttachFacts ==
    ASSUME OwnInv, NEW p \in Procs, NEW s \in Sessions, Attach(p, s)
    PROVE  steady'[p] = 0 /\ Watched(p)'
  <1> DEFINE c == [load |-> loads[p] + 1, sess |-> s, due |-> 1]
  <1>1. /\ home'[p] = s /\ steady'[p] = 0
        /\ c \in beats'[p]
    BY DEF OwnInv, OwnershipTypeOK, Attach, SpawnHeartbeat
  <1> QED
    BY <1>1 DEF Watched, HomeBeat

\* It stops showing one, or starts to, with a heartbeat and steady at 0; or it
\* goes on showing the same one, whose row it may renew if it holds it, or
\* delete: only the renewal takes back a warning.
LEMMA OwnStep ==
    ASSUME OwnershipAssumption, OwnInv, NEW p \in Procs, ProcNext(p)
    PROVE  \/ ~Showing(p)'
           \/ steady'[p] = 0
           \/ /\ Showing(p) /\ home'[p] = home[p] /\ steady'[p] = steady[p]
              /\ \/ row'[home[p]] = row[home[p]] /\ (Warned(p) => Warned(p)')
                 \/ Holds(p) /\ row'[home[p]].pid = p /\ row'[home[p]].age = 0
                 \/ row'[home[p]].pid = NoProc /\ (Warned(p) => Warned(p)')
  <1> DEFINE Goal ==
        \/ ~Showing(p)'
        \/ steady'[p] = 0
        \/ /\ Showing(p) /\ home'[p] = home[p] /\ steady'[p] = steady[p]
           /\ \/ row'[home[p]] = row[home[p]] /\ (Warned(p) => Warned(p)')
              \/ Holds(p) /\ row'[home[p]].pid = p /\ row'[home[p]].age = 0
              \/ row'[home[p]].pid = NoProc /\ (Warned(p) => Warned(p)')
  <1> SUFFICES Goal
    OBVIOUS
  <1>1. /\ row \in [Sessions -> RowType] /\ PerProcess
        /\ phase[p] = "up" => home[p] \in Sessions
    BY DEF OwnInv, OwnershipTypeOK, RowType, PerProcess, LifeInv
  <1>2. ASSUME phase'[p] # "up" \/ p \in asleep' \/ yielded'[p] PROVE Goal
    BY <1>2 DEF Showing, Up
  <1>3. ASSUME steady'[p] = 0 PROVE Goal
    BY <1>3
  <1>4. ASSUME Up(p), UNCHANGED <<home, yielded, beatVars, steady>>,
               row'[home[p]] = row[home[p]] \/ row'[home[p]].pid = NoProc
        PROVE  Goal
    <2>1. Warned(p)' <=> Warned(p)
      BY <1>4 DEF Warned, DueBeat, beatVars
    <2> QED
      BY <1>2, <1>4, <2>1 DEF Showing
  <1> HIDE DEF Goal
  <1>5. CASE Boot(p) \/ PickAtBoot(p) \/ DeleteAtBoot(p) \/ ClaimAtBoot(p)
    <2>1. phase'[p] # "up"
      BY <1>1, <1>5 DEF PerProcess, Boot, PickAtBoot, DeleteAtBoot, ClaimAtBoot, ChooseNew, Choose
    <2> QED
      BY <1>2, <2>1
  <1>6. CASE AbortPicker(p) \/ Exit(p) \/ Kill(p)
    <2>1. phase'[p] # "up"
      BY <1>1, <1>6 DEF PerProcess, AbortPicker, Exit, Kill, Gone
    <2> QED
      BY <1>2, <2>1
  <1>7. CASE Start(p) \/ Resume(p)
    <2>1. steady'[p] = 0
      BY <1>1, <1>7 DEF PerProcess, Start, SpawnHeartbeat, Resume
    <2> QED
      BY <1>3, <2>1
  <1>8. CASE PickSession(p) \/ NewSession(p)
    <2>1. CASE \E s \in Sessions : Attach(p, s)
      BY <1>3, <2>1, AttachFacts
    <2>2. CASE ClosePicker(p) /\ UNCHANGED <<row, steady>>
      BY <1>4, <1>8, <2>2 DEF PickSession, NewSession, ClosePicker, appVars
    <2> QED
      BY <1>8, <2>1, <2>2 DEF PickSession, NewSession, Unused, OwnInv, LifeInv
  <1>9. CASE TakeOver(p)
    <2>1. CASE Attach(p, cursor[p].sess)
      <3>1. cursor[p].sess \in Sessions
        BY <1>9 DEF TakeOver, OwnInv, LifeInv
      <3> QED
        BY <1>3, <2>1, <3>1, AttachFacts
    <2>2. CASE ClosePicker(p) /\ ~Attach(p, cursor[p].sess)
      <3>1. /\ Up(p) /\ UNCHANGED <<home, yielded, beatVars>>
            /\ steady' = [steady EXCEPT ![p] = IF cursor[p].sess = home[p] THEN 0 ELSE @]
            /\ ClaimRow(p, cursor[p].sess, 0)
        BY <1>9, <2>2 DEF TakeOver, ClosePicker, appVars
      <3>2. CASE cursor[p].sess = home[p]
        BY <1>1, <1>3, <3>1, <3>2 DEF PerProcess
      <3>3. CASE cursor[p].sess # home[p]
        <4>1. row'[home[p]] = row[home[p]]
          BY <1>1, <3>1, <3>3 DEF ClaimRow, SetRow, Up
        <4>2. steady' = steady
          BY <1>1, <3>1, <3>3 DEF PerProcess
        <4> QED
          BY <1>4, <3>1, <4>1, <4>2
      <3> QED
        BY <3>2, <3>3
    <2> QED
      BY <1>9, <2>1, <2>2 DEF TakeOver
  <1>10. CASE DeleteSession(p)
    <2>1. /\ Up(p) /\ UNCHANGED <<home, yielded, beatVars, steady>>
          /\ SetRow(cursor[p].sess, NoRow("deleted"))
      BY <1>10 DEF DeleteSession, appVars
    <2>2. row'[home[p]] = row[home[p]] \/ row'[home[p]].pid = NoProc
      BY <1>1, <2>1 DEF SetRow, NoRow, Up
    <2> QED
      BY <1>4, <2>1, <2>2
  <1>11. ASSUME NEW b \in beats[p], Renew(p, b)
         PROVE  Goal
    <2>1. /\ Up(p) /\ UNCHANGED <<home, yielded, steady, notices>>
          /\ b.due = 0 /\ row[b.sess].pid = p
          /\ row' = [row EXCEPT ![b.sess].age = 0]
          /\ beats' = [beats EXCEPT ![p] = (@ \ {b}) \cup {[b EXCEPT !.due = 1]}]
      BY <1>11 DEF Renew, appVars
    <2>2. CASE b.sess = home[p]
      <3>1. Holds(p) /\ row'[home[p]].pid = p /\ row'[home[p]].age = 0
        BY <1>1, <2>1, <2>2 DEF Holds, RowType, Up
      <3> QED
        BY <1>2, <2>1, <3>1 DEF Goal, Showing
    <2>3. CASE b.sess # home[p]
      <3>1. row'[home[p]] = row[home[p]]
        BY <1>1, <2>1, <2>3 DEF RowType, Up
      <3>2. \A c \in beats[p] : c.sess = home[p] => c \in beats'[p]
        BY <1>1, <2>1, <2>3 DEF PerProcess
      <3>3. Warned(p) => Warned(p)'
        BY <2>1, <3>2 DEF Warned, DueBeat
      <3> QED
        BY <1>2, <2>1, <3>1, <3>3 DEF Goal, Showing
    <2> QED
      BY <2>2, <2>3
  <1>12. ASSUME NEW b \in beats[p], LoseRow(p, b) \/ FailToRenew(p, b)
         PROVE  Goal
    <2>1. /\ Up(p) /\ UNCHANGED <<row, home, yielded, steady>>
          /\ notices' = [notices EXCEPT ![p] = @ + 1]
      BY <1>12 DEF LoseRow, FailToRenew, StopBeat, appVars
    <2>2. notices'[p] > 0
      BY <1>1, <2>1 DEF PerProcess
    <2> QED
      BY <1>2, <2>1, <2>2 DEF Goal, Showing, Warned
  <1>13. CASE HandleTakenOver(p)
    <2>1. yielded'[p]
      BY <1>1, <1>13 DEF PerProcess, HandleTakenOver
    <2> QED
      BY <1>2, <2>1
  <1>14. CASE Submit(p) \/ EndTurn(p) \/ OpenPicker(p)
    <2>1. Up(p) /\ UNCHANGED <<row, home, yielded, beatVars, steady>>
      BY <1>14 DEF Submit, EndTurn, OpenPicker, appVars
    <2> QED
      BY <1>4, <2>1
  <1>15. CASE Suspend(p)
    BY <1>2, <1>15 DEF Suspend
  <1> QED
    BY <1>5, <1>6, <1>7, <1>8, <1>9, <1>10, <1>11, <1>12, <1>13, <1>14, <1>15
       DEF ProcNext, Beating

\* A session that is shown goes on being watched.
LEMMA BeatStep ==
    ASSUME OwnershipAssumption, OwnInv, NEW p \in Procs, ProcNext(p)
    PROVE  BeatInv'
  <1> DEFINE Goal == phase'[p] = "up" /\ ~yielded'[p] => Watched(p)'
  <1>1. /\ PerProcess
        /\ phase[p] = "up" => home[p] \in Sessions
        /\ phase[p] = "up" /\ ~yielded[p] => Watched(p)
    BY DEF OwnInv, OwnershipTypeOK, PerProcess, LifeInv, BeatInv, Watched
  <1>2. ASSUME NEW q \in Procs, q # p
        PROVE  phase'[q] = "up" /\ ~yielded'[q] => Watched(q)'
    BY <1>2, OthersKept DEF OwnInv, BeatInv, Watched, HomeBeat
  <1> SUFFICES Goal
    BY <1>2 DEF BeatInv, Watched
  <1>3. ASSUME phase'[p] # "up" \/ yielded'[p] PROVE Goal
    BY <1>3
  <1>4. ASSUME phase[p] = "up", UNCHANGED <<home, yielded, beatVars>> PROVE Goal
    BY <1>1, <1>4 DEF Watched, HomeBeat, beatVars
  <1>5. ASSUME Watched(p)' PROVE Goal
    BY <1>5
  <1> HIDE DEF Goal
  <1>6. CASE Boot(p) \/ PickAtBoot(p) \/ DeleteAtBoot(p) \/ ClaimAtBoot(p)
    <2>1. phase'[p] # "up"
      BY <1>1, <1>6 DEF PerProcess, Boot, PickAtBoot, DeleteAtBoot, ClaimAtBoot, ChooseNew, Choose
    <2> QED
      BY <1>3, <2>1
  <1>7. CASE AbortPicker(p) \/ Exit(p) \/ Kill(p)
    <2>1. phase'[p] # "up"
      BY <1>1, <1>7 DEF PerProcess, AbortPicker, Exit, Kill, Gone
    <2> QED
      BY <1>3, <2>1
  <1>8. CASE Start(p)
    <2> DEFINE c == [load |-> loads[p] + 1, sess |-> chosen[p], due |-> 1]
    <2>1. home'[p] = chosen[p] /\ c \in beats'[p]
      BY <1>1, <1>8 DEF PerProcess, Start, SpawnHeartbeat
    <2> QED
      BY <1>5, <2>1 DEF Watched, HomeBeat
  <1>9. CASE PickSession(p) \/ NewSession(p) \/ TakeOver(p)
    <2>1. \/ \E s \in Sessions : Attach(p, s)
          \/ UNCHANGED <<home, yielded, beatVars>>
      BY <1>9 DEF PickSession, NewSession, TakeOver, ClosePicker, Unused, OwnInv, LifeInv, appVars
    <2>2. phase[p] = "up"
      BY <1>9 DEF PickSession, NewSession, TakeOver, Up
    <2> QED
      BY <1>4, <1>5, <2>1, <2>2, AttachFacts
  <1>10. ASSUME NEW b \in beats[p], Renew(p, b)
         PROVE  Goal
    <2> DEFINE d == [b EXCEPT !.due = 1]
    <2>1. /\ phase[p] = "up" /\ UNCHANGED <<phase, home, yielded, notices>>
          /\ beats' = [beats EXCEPT ![p] = (@ \ {b}) \cup {d}]
      BY <1>10 DEF Renew, Up, procVars, appVars
    <2>2. d.sess = b.sess
      BY <1>1 DEF PerProcess
    <2> HIDE DEF d
    <2>3. HomeBeat(p) => HomeBeat(p)'
      BY <1>1, <2>1, <2>2 DEF PerProcess, HomeBeat
    <2> QED
      BY <1>1, <2>1, <2>3 DEF Goal, Watched
  <1>11. ASSUME NEW b \in beats[p], LoseRow(p, b) \/ FailToRenew(p, b)
         PROVE  Goal
    <2>1. notices'[p] > 0
      BY <1>1, <1>11 DEF PerProcess, LoseRow, FailToRenew, StopBeat
    <2> QED
      BY <1>5, <2>1 DEF Watched
  <1>12. CASE HandleTakenOver(p)
    <2>1. yielded'[p]
      BY <1>1, <1>12 DEF PerProcess, HandleTakenOver
    <2> QED
      BY <1>3, <2>1
  <1>13. CASE Submit(p) \/ EndTurn(p) \/ OpenPicker(p) \/ DeleteSession(p) \/ Suspend(p)
    BY <1>4, <1>13 DEF Submit, EndTurn, OpenPicker, DeleteSession, Suspend, Up, appVars
  <1>14. CASE Resume(p)
    <2>1. phase[p] = "up"
      BY <1>14 DEF Resume, OwnInv, LifeInv
    <2> QED
      BY <1>4, <1>14, <2>1 DEF Resume, appVars
  <1> QED
    BY <1>6, <1>7, <1>8, <1>9, <1>10, <1>11, <1>12, <1>13, <1>14 DEF ProcNext, Beating

\* How Watch counts the time since a loss.
LEMMA WatchFacts ==
    ASSUME OwnInv, Watch, NEW q \in Procs, home[q] \in Sessions, home'[q] = home[q], ~yielded'[q]
    PROVE  /\ Holds(q) \/ row'[home[q]].pid = q => lostAge'[q] = 0
           /\ lostAge'[q] = 0 \/ lostAge'[q] = lostAge[q]
  <1>1. home[q] # NoSession
    BY OwnershipAssumption
  <1>2. Holder(home[q]) = row[home[q]].pid /\ Holder(home[q])' = row'[home[q]].pid
    BY <1>1 DEF Holder
  <1> QED
    BY <1>2 DEF Watch, Holds

LEMMA LossStep ==
    ASSUME OwnershipAssumption, OwnInv, NEW p \in Procs, ProcNext(p), Watch
    PROVE  LossInv'
  <1> SUFFICES ASSUME NEW q \in Procs, Showing(q)', ~Holds(q)'
               PROVE  /\ lostAge'[q] >= 1 /\ steady'[q] >= 1 => Warned(q)'
                      /\ JustLost(q)'
    BY DEF LossInv, Warned
  <1>1. /\ Showing(q) /\ ~Holds(q) =>
              /\ lostAge[q] >= 1 /\ steady[q] >= 1 => Warned(q)
              /\ JustLost(q)
        /\ lostAge[q] \in 0..2 /\ steady[q] \in 0..LongSteady
        /\ Showing(q) => home[q] \in Sessions
    BY DEF OwnInv, LossInv, Warned, OwnershipTypeOK, LifeInv, Showing, Up
  <1>2. CASE steady'[q] = 0
    BY <1>2 DEF JustLost
  <1>3. CASE lostAge'[q] = 0
    BY <1>3 DEF JustLost
  <1>4. ASSUME Showing(q), home'[q] = home[q], steady'[q] = steady[q], Warned(q) => Warned(q)',
               lostAge'[q] # 0
        PROVE  /\ lostAge'[q] >= 1 /\ steady'[q] >= 1 => Warned(q)'
               /\ JustLost(q)'
    <2>1. ~Holds(q) /\ lostAge'[q] = lostAge[q]
      BY <1>1, <1>4, WatchFacts DEF Showing
    <2> QED
      BY <1>1, <1>4, <2>1 DEF JustLost
  <1>5. CASE q # p
    <2>1. Showing(q) /\ home'[q] = home[q] /\ steady'[q] = steady[q] /\ (Warned(q) => Warned(q)')
      BY <1>5, OthersKept DEF Showing, Up, Warned, DueBeat
    <2> QED
      BY <1>3, <1>4, <2>1
  <1>6. CASE q = p
    <2>1. CASE Showing(p) /\ home'[p] = home[p] /\ steady'[p] = steady[p] /\ (Warned(p) => Warned(p)')
      BY <1>3, <1>4, <1>6, <2>1
    <2> QED
      BY <1>2, <1>6, <2>1, OwnStep DEF Holds
  <1> QED
    BY <1>5, <1>6

LEMMA RenewStep ==
    ASSUME OwnershipAssumption, OwnInv, NEW p \in Procs, ProcNext(p)
    PROVE  RenewInv'
  <1> SUFFICES ASSUME NEW q \in Procs, Showing(q)', Holds(q)'
               PROVE  /\ steady'[q] >= 1 => Warned(q)' \/ row'[home'[q]].age = 0
                      /\ steady'[q] >= 2 => row'[home'[q]].age <= 1
    BY DEF RenewInv, Warned
  <1>1. /\ Showing(q) /\ Holds(q) =>
              /\ steady[q] >= 1 => Warned(q) \/ row[home[q]].age = 0
              /\ steady[q] >= 2 => row[home[q]].age <= 1
        /\ Showing(q) => home[q] \in Sessions
    BY DEF OwnInv, RenewInv, Warned, LifeInv, Showing, Up
  <1>2. ASSUME Showing(q), home'[q] = home[q], steady'[q] = steady[q], Warned(q) => Warned(q)',
               row'[home[q]] = row[home[q]]
        PROVE  /\ steady'[q] >= 1 => Warned(q)' \/ row'[home'[q]].age = 0
               /\ steady'[q] >= 2 => row'[home'[q]].age <= 1
    BY <1>1, <1>2 DEF Holds
  <1>3. CASE q # p
    <2>1. Showing(q) /\ home'[q] = home[q] /\ steady'[q] = steady[q] /\ (Warned(q) => Warned(q)')
      BY <1>3, OthersKept DEF Showing, Up, Warned, DueBeat
    <2>2. row'[home[q]] = row[home[q]]
      BY <1>1, <1>3, <2>1, ClaimsKept, OwnershipAssumption DEF Holds
    <2> QED
      BY <1>2, <2>1, <2>2
  <1>4. CASE q = p
    <2>1. p # NoProc
      BY DEF OwnershipAssumption
    <2>2. CASE steady'[p] = 0
      BY <1>4, <2>2
    <2>3. CASE /\ Showing(p) /\ home'[p] = home[p] /\ steady'[p] = steady[p]
               /\ \/ row'[home[p]] = row[home[p]] /\ (Warned(p) => Warned(p)')
                  \/ row'[home[p]].age = 0
      BY <1>2, <1>4, <2>3
    <2> QED
      BY <1>4, <2>1, <2>2, <2>3, OwnStep DEF Holds
  <1> QED
    BY <1>3, <1>4

\* A boot takes silently only what did not look live.
LEMMA QuietChoice ==
    ASSUME OwnershipAssumption, OwnInv, NEW p \in Procs, ProcNext(p),
           phase'[p] = "claiming", quiet'[p]
    PROVE  /\ UNCHANGED row
           /\ chosen'[p] \in Sessions /\ ~IsLive(chosen'[p])
  <1>1. PerProcess
    BY DEF OwnInv, OwnershipTypeOK, PerProcess
  <1>2. \A s, d : Choose(p, s, d) => chosen'[p] = s /\ quiet'[p] = d
    BY <1>1 DEF PerProcess, Choose
  <1>3. ~ChooseNew(p)
    BY <1>2 DEF ChooseNew
  <1>4. ~PickAtBoot(p)
    BY <1>2, <1>3 DEF PickAtBoot
  <1>5. Boot(p)
    <2>1. CASE DeleteAtBoot(p) \/ ClaimAtBoot(p) \/ Start(p)
      BY <1>1, <2>1 DEF PerProcess, DeleteAtBoot, ClaimAtBoot, Start
    <2>2. CASE AbortPicker(p) \/ Exit(p) \/ Kill(p)
      BY <1>1, <2>2 DEF PerProcess, AbortPicker, Exit, Kill, Gone
    <2>3. CASE PickSession(p) \/ TakeOver(p) \/ NewSession(p)
      BY <2>3 DEF PickSession, TakeOver, NewSession, Attach, ClosePicker, Up
    <2>4. CASE Beating(p) \/ HandleTakenOver(p) \/ Submit(p) \/ EndTurn(p)
      BY <2>4 DEF Beating, Renew, LoseRow, FailToRenew, StopBeat, HandleTakenOver, Submit, EndTurn,
                  Up, procVars
    <2>5. CASE OpenPicker(p) \/ DeleteSession(p) \/ Suspend(p)
      BY <2>5 DEF OpenPicker, DeleteSession, Suspend, Up
    <2>6. CASE Resume(p)
      BY <2>6 DEF Resume, OwnInv, LifeInv
    <2> QED
      BY <1>4, <2>1, <2>2, <2>3, <2>4, <2>5, <2>6 DEF ProcNext
  <1>6. PICK s \in StoredRows : ~IsLive(s) /\ Choose(p, s, TRUE) /\ UNCHANGED row
    <2>1. phase' # [phase EXCEPT ![p] = "picking"]
      BY <1>1 DEF PerProcess
    <2> QED
      BY <1>2, <1>3, <1>5, <2>1 DEF Boot
  <1> QED
    BY <1>2, <1>6 DEF StoredRows

LEMMA AutoStep ==
    ASSUME OwnershipAssumption, OwnInv, NEW p \in Procs, ProcNext(p)
    PROVE  AutoResumeSpares'
  <1> SUFFICES ASSUME NEW r \in Procs, NEW q \in Procs,
                      phase'[r] = "claiming", quiet'[r], bootAge'[r] < OldestBoot,
                      Showing(q)', home'[q] = chosen'[r], row'[chosen'[r]].pid = q
               PROVE  steady'[q] < bootAge'[r] + 2
    BY DEF AutoResumeSpares, Shows, OldestBoot
  <1>1. /\ PerProcess /\ row \in [Sessions -> RowType]
        /\ Showing(q) => phase[q] = "up" /\ home[q] \in Sessions
    BY DEF OwnInv, OwnershipTypeOK, PerProcess, RowType, LifeInv, Showing, Up
  <1>2. bootAge'[r] \in Nat
    BY LivesTyped, OwnershipAssumption DEF OldestBoot
  <1>3. CASE steady'[q] = 0
    BY <1>2, <1>3
  <1>4. CASE steady'[q] # 0
    <2>1. /\ Showing(q) /\ home'[q] = home[q] /\ steady'[q] = steady[q]
          /\ row[home[q]].pid = q
      <3>1. CASE q = p
        BY <1>4, <3>1, OwnStep DEF Holds, OwnershipAssumption
      <3>2. CASE q # p
        <4>1. Showing(q) /\ home'[q] = home[q] /\ steady'[q] = steady[q]
          BY <3>2, OthersKept DEF Showing, Up
        <4> QED
          BY <1>1, <3>2, <4>1, ClaimsKept DEF OwnershipAssumption
      <3> QED
        BY <3>1, <3>2
    <2>2. CASE r # p
      <3>1. phase[r] = "claiming" /\ quiet[r] /\ bootAge'[r] = bootAge[r] /\ chosen'[r] = chosen[r]
        BY <2>2, OthersKept
      <3> QED
        BY <2>1, <3>1 DEF OwnInv, AutoResumeSpares, Shows
    <2>3. CASE r = p
      <3>1. ~IsLive(home[q])
        BY <2>1, <2>3, QuietChoice
      <3>2. row[home[q]].age \in Nat /\ row[home[q]].age >= Window /\ Window >= 2
        BY <1>1, <2>1, <3>1 DEF IsLive, PidAlive, OwnershipAssumption, RowType, Oldest
      <3>3. steady[q] \in Nat /\ ~(steady[q] >= 2)
        BY <1>1, <2>1, <3>2 DEF OwnInv, RenewInv, Holds, PerProcess, LongSteady, OwnershipAssumption
      <3> QED
        BY <1>2, <2>1, <3>3
    <2> QED
      BY <2>2, <2>3
  <1> QED
    BY <1>3, <1>4

-----------------------------------------------------------------------------
(* A heartbeat interval passes.                                             *)

LEMMA AgedFacts ==
    ASSUME NEW cap \in Nat, NEW n \in 0..cap
    PROVE  /\ Aged(n, cap) \in 0..cap /\ Aged(n, cap) <= n + 1
           /\ Aged(n, cap) = n + 1 \/ Aged(n, cap) = cap
  BY DEF Aged

\* It waits for what an awake process has to renew or to handle, so afterwards
\* every heartbeat of a process that shows its session is due, and none was.
LEMMA TickFacts ==
    ASSUME OwnershipAssumption, OwnInv, Tick, NEW p \in Procs, Showing(p)
    PROVE  /\ ~Warned(p) /\ Warned(p)'
           /\ home'[p] = home[p] /\ home[p] \in Sessions
           /\ Holds(p)' <=> Holds(p)
           /\ PidAlive(p)
           /\ steady'[p] = Aged(steady[p], LongSteady)
           /\ lostAge'[p] = IF Holds(p) THEN 0 ELSE Aged(lostAge[p], 2)
  <1>1. /\ PerProcess /\ row \in [Sessions -> RowType]
        /\ phase[p] = "up" /\ p \notin asleep /\ ~yielded[p] /\ home[p] \in Sessions
        /\ Watched(p)
    BY DEF OwnInv, OwnershipTypeOK, PerProcess, RowType, LifeInv, BeatInv, Watched, Showing, Up
  <1>2. notices[p] = 0 /\ \A b \in beats[p] : b.due > 0
    BY <1>1 DEF Tick, Prompt
  <1>3. ~Warned(p)
    <2>1. \A b \in beats[p] : b.due # 0
      BY <1>2
    <2> QED
      BY <1>2, <2>1 DEF Warned, DueBeat
  <1>4. home'[p] = home[p]
    BY DEF Tick, appVars
  <1>5. PICK b \in beats[p] : b.sess = home[p]
    BY <1>1, <1>2 DEF Watched, HomeBeat
  <1>6. [b EXCEPT !.due = 0] \in beats'[p]
    BY DEF Tick
  <1>7. [b EXCEPT !.due = 0].sess = home[p] /\ [b EXCEPT !.due = 0].due = 0
    BY <1>1, <1>5 DEF PerProcess
  <1>8. Warned(p)'
    BY <1>4, <1>6, <1>7 DEF Warned, DueBeat
  <1>9. row'[home[p]].pid = row[home[p]].pid
    BY <1>1 DEF Tick, RowType
  <1>10. Holder(home[p]) = row[home[p]].pid
    BY <1>1 DEF Holder, OwnershipAssumption
  <1>11. /\ steady'[p] = Aged(steady[p], LongSteady)
         /\ lostAge'[p] = IF Holds(p) THEN 0 ELSE Aged(lostAge[p], 2)
    BY <1>10 DEF Tick, Holds
  <1> QED
    BY <1>1, <1>3, <1>4, <1>8, <1>9, <1>11 DEF Holds, PidAlive

LEMMA TickTypes ==
    ASSUME OwnershipAssumption, OwnInv, Tick
    PROVE  OwnershipTypeOK'
  <1> DEFINE Beats == [load: Nat, sess: Sessions, due: 0..1]
  <1>1. OwnershipTypeOK
    BY DEF OwnInv
  <1>2. OldestBoot \in Nat /\ Oldest \in Nat /\ LongSteady \in Nat
    BY OwnershipAssumption DEF OldestBoot, Oldest, LongSteady
  <1>3. row' \in [Sessions -> RowType]
    <2>1. \A s \in Sessions : row[s] \in RowType
      BY <1>1 DEF OwnershipTypeOK, RowType
    <2>2. \A r \in RowType : \A n \in 0..Oldest : [r EXCEPT !.age = n] \in RowType
      BY DEF RowType
    <2>3. ASSUME NEW s \in Sessions
          PROVE  Aged(row[s].age, Oldest) \in 0..Oldest /\ Oldest \in 0..Oldest
      <3>1. row[s].age \in 0..Oldest
        BY <2>1 DEF RowType
      <3>2. Aged(row[s].age, Oldest) \in 0..Oldest
        BY <1>2, <3>1, AgedFacts
      <3> QED
        BY <1>2, <3>2
    <2>4. ASSUME NEW s \in Sessions
          PROVE  (IF row[s].pid = NoProc THEN row[s]
                  ELSE [row[s] EXCEPT !.age = IF PidAlive(row[s].pid) THEN Aged(@, Oldest)
                                              ELSE Oldest]) \in RowType
      BY <2>1, <2>2, <2>3
    <2> QED
      BY <2>4 DEF Tick
  <1>4. bootAge' \in [Procs -> 0..OldestBoot]
    <2>1. \A p \in Procs : Aged(bootAge[p], OldestBoot) \in 0..OldestBoot
      BY <1>1, <1>2, AgedFacts DEF OwnershipTypeOK
    <2> QED
      BY <1>1, <2>1 DEF Tick, OwnershipTypeOK
  <1>5. steady' \in [Procs -> 0..LongSteady]
    <2>1. \A p \in Procs : Aged(steady[p], LongSteady) \in 0..LongSteady
      BY <1>1, <1>2, AgedFacts DEF OwnershipTypeOK
    <2> QED
      BY <1>2, <2>1 DEF Tick
  <1>6. lostAge' \in [Procs -> 0..2]
    <2>1. \A p \in Procs : Aged(lostAge[p], 2) \in 0..2
      BY <1>1, AgedFacts DEF OwnershipTypeOK
    <2> QED
      BY <2>1 DEF Tick
  <1>7. /\ beats' \in [Procs -> SUBSET Beats]
        /\ \A p \in Procs : \A b \in beats'[p] : b.load \in 1..loads[p]
    <2>1. \A p \in Procs : \A b \in beats[p] : b \in Beats /\ b.load \in 1..loads[p]
      BY <1>1 DEF OwnershipTypeOK
    <2>2. \A p \in Procs : \A b \in beats[p] :
             [b EXCEPT !.due = 0] \in Beats /\ [b EXCEPT !.due = 0].load = b.load
      BY <2>1
    <2>3. beats' = [p \in Procs |-> {[b EXCEPT !.due = 0] : b \in beats[p]}]
      BY DEF Tick
    <2> HIDE DEF Beats
    <2>4. ASSUME NEW p \in Procs, NEW c \in beats'[p]
          PROVE  c \in Beats /\ c.load \in 1..loads[p]
      <3>1. PICK b \in beats[p] : c = [b EXCEPT !.due = 0]
        BY <2>3
      <3> QED
        BY <2>1, <2>2, <3>1
    <2> QED
      BY <2>3, <2>4
  <1>8. UNCHANGED <<phase, asleep, cursor, chosen, quiet, home, yielded, turn, loads, notices>>
    BY DEF Tick, appVars
  <1> QED
    BY <1>1, <1>3, <1>4, <1>5, <1>6, <1>7, <1>8 DEF OwnershipTypeOK, RowType

LEMMA TickStep ==
    ASSUME OwnershipAssumption, OwnInv, Tick
    PROVE  OwnInv'
  <1>1. PerProcess /\ row \in [Sessions -> RowType] /\ lostAge \in [Procs -> 0..2]
    BY DEF OwnInv, OwnershipTypeOK, PerProcess, RowType
  <1>2. /\ UNCHANGED <<phase, asleep, cursor, chosen, quiet, home, yielded, turn, loads, notices>>
        /\ \A p \in Procs : Showing(p)' <=> Showing(p)
    BY DEF Tick, appVars, Showing, Up
  <1>3. Window \in Nat /\ Window >= 2 /\ LongSteady \in Nat /\ LongSteady >= 3 /\ Oldest = Window
    BY OwnershipAssumption DEF LongSteady, Oldest
  <1>4. CountInv'
    <2> SUFFICES ASSUME NEW p \in Procs
                 PROVE  /\ IsFiniteSet(beats'[p])
                        /\ Cardinality(beats'[p]) + notices'[p] <= loads'[p]
      BY DEF CountInv
    <2> DEFINE due(b) == [b EXCEPT !.due = 0]
    <2>1. beats'[p] = {due(b) : b \in beats[p]}
      BY DEF Tick
    <2>2. IsFiniteSet(beats[p]) /\ Cardinality(beats[p]) + notices[p] <= loads[p]
      BY DEF OwnInv, CountInv
    <2> DEFINE f == [b \in beats[p] |-> due(b)]
    <2>3. f \in Surjection(beats[p], beats'[p])
      BY <2>1 DEF Surjection
    <2>4. IsFiniteSet(beats'[p]) /\ Cardinality(beats'[p]) <= Cardinality(beats[p])
      BY <2>2, <2>3, FS_Surjection
    <2>5. /\ Cardinality(beats'[p]) \in Nat /\ Cardinality(beats[p]) \in Nat
          /\ notices[p] \in Nat /\ loads[p] \in Nat
      BY <1>1, <2>2, <2>4, FS_CardinalityType DEF PerProcess
    <2> QED
      BY <1>2, <2>2, <2>4, <2>5
  <1>5. LifeInv'
    <2>1. \A p \in Procs : beats[p] = {} => beats'[p] = {}
      BY DEF Tick
    <2> QED
      BY <1>2, <2>1 DEF OwnInv, LifeInv, NoCursor
  <1>6. BeatInv'
    <2>1. ASSUME NEW p \in Procs, NEW b \in beats[p], b.sess = home[p]
          PROVE  HomeBeat(p)'
      <3>1. [b EXCEPT !.due = 0] \in beats'[p]
        BY DEF Tick
      <3>2. [b EXCEPT !.due = 0].sess = home[p]
        BY <1>1, <2>1 DEF PerProcess
      <3> QED
        BY <1>2, <3>1, <3>2 DEF HomeBeat
    <2> QED
      BY <1>2, <2>1 DEF OwnInv, BeatInv, HomeBeat
  <1>7. LossInv'
    <2> SUFFICES ASSUME NEW p \in Procs, Showing(p)', ~Holds(p)'
                 PROVE  Warned(p)' /\ JustLost(p)'
      BY DEF LossInv, Warned
    <2>1. Warned(p)' /\ ~Warned(p) /\ ~Holds(p)
      BY <1>2, TickFacts
    <2>2. steady'[p] = Aged(steady[p], LongSteady) /\ lostAge'[p] = Aged(lostAge[p], 2)
      BY <1>2, <2>1, TickFacts
    <2>3. lostAge[p] = 0 \/ steady[p] = 0
      BY <1>1, <1>2, <2>1 DEF OwnInv, LossInv, Warned, PerProcess
    <2>4. lostAge'[p] = 1 \/ steady'[p] = 1
      BY <1>3, <2>2, <2>3 DEF Aged
    <2> QED
      BY <2>1, <2>4 DEF JustLost
  <1>8. RenewInv'
    <2> SUFFICES ASSUME NEW p \in Procs, Showing(p)', Holds(p)'
                 PROVE  Warned(p)' /\ (steady'[p] >= 2 => row'[home'[p]].age <= 1)
      BY DEF RenewInv, Warned
    <2>1. /\ Warned(p)' /\ ~Warned(p) /\ Holds(p) /\ PidAlive(p)
          /\ home'[p] = home[p] /\ home[p] \in Sessions
          /\ steady'[p] = Aged(steady[p], LongSteady)
      BY <1>2, TickFacts
    <2>2. steady[p] \in Nat /\ (steady'[p] >= 2 => steady[p] >= 1)
      BY <1>1, <1>3, <2>1 DEF Aged, PerProcess
    <2>3. steady[p] >= 1 => row[home[p]].age = 0
      BY <1>2, <2>1 DEF OwnInv, RenewInv, Warned
    <2>4. row'[home[p]] = [row[home[p]] EXCEPT !.age = Aged(@, Oldest)]
      BY <2>1 DEF Tick, Holds, OwnershipAssumption
    <2>5. row'[home[p]].age = Aged(row[home[p]].age, Oldest)
      BY <1>1, <2>1, <2>4 DEF RowType
    <2>6. Aged(0, Oldest) = 1
      BY <1>3 DEF Aged
    <2> QED
      BY <2>1, <2>2, <2>3, <2>5, <2>6
  <1>9. AutoResumeSpares'
    <2> SUFFICES ASSUME NEW r \in Procs, NEW q \in Procs,
                        phase'[r] = "claiming", quiet'[r], bootAge'[r] < OldestBoot,
                        Showing(q)', home'[q] = chosen'[r], row'[chosen'[r]].pid = q
                 PROVE  steady'[q] < bootAge'[r] + 2
      BY DEF AutoResumeSpares, Shows, OldestBoot
    <2>1. /\ Showing(q) /\ home[q] = chosen[r] /\ Holds(q) /\ phase[r] = "claiming" /\ quiet[r]
          /\ steady'[q] = Aged(steady[q], LongSteady)
      BY <1>2, TickFacts DEF Holds
    <2>2. OldestBoot \in Nat /\ bootAge[r] \in 0..OldestBoot /\ steady[q] \in 0..LongSteady
      BY <1>1, <1>3 DEF PerProcess, OldestBoot
    <2>3. bootAge'[r] = Aged(bootAge[r], OldestBoot)
      BY <2>1 DEF Tick
    <2>4. bootAge[r] < OldestBoot /\ bootAge'[r] = bootAge[r] + 1
      BY <2>2, <2>3 DEF Aged
    <2>5. steady[q] < bootAge[r] + 2
      BY <2>1, <2>4 DEF OwnInv, AutoResumeSpares, Shows, Holds
    <2>6. steady'[q] <= steady[q] + 1 /\ steady'[q] \in 0..LongSteady
      BY <1>3, <2>1, <2>2, AgedFacts
    <2> QED
      BY <1>3, <2>2, <2>4, <2>5, <2>6
  <1> QED
    BY <1>4, <1>5, <1>6, <1>7, <1>8, <1>9, TickTypes DEF OwnInv

-----------------------------------------------------------------------------
(* The theorems.                                                            *)

LEMMA OwnInvStep ==
    ASSUME OwnInv, [OwnershipNext]_ownVars
    PROVE  OwnInv'
  <1>1. ASSUME NEW p \in Procs, ProcNext(p), Watch
        PROVE  OwnInv'
    BY <1>1, OwnershipAssumption, TypeStep, CountStep, LifeStep, BeatStep, LossStep, RenewStep,
       AutoStep DEF OwnInv
  <1>2. CASE Tick
    BY <1>2, OwnershipAssumption, TickStep
  <1>3. CASE UNCHANGED ownVars
    BY <1>3 DEF ownVars, procVars, appVars, beatVars, OwnInv, OwnershipTypeOK, CountInv, LifeInv,
                BeatInv, LossInv, RenewInv, AutoResumeSpares, HomeBeat, DueBeat, Holds, Showing,
                Up, JustLost, Shows
  <1> QED
    BY <1>1, <1>2, <1>3 DEF OwnershipNext

THEOREM OwnInvHolds == OwnershipSpec => []OwnInv
  <1>1. OwnershipInit => OwnInv
    BY InitOwnInv
  <1>2. OwnInv /\ [OwnershipNext]_ownVars => OwnInv'
    BY OwnInvStep
  <1> QED
    BY <1>1, <1>2, PTL DEF OwnershipSpec

\* Rows, lives, heartbeats and messages have their types, and no process has more
\* messages than it has had heartbeats.
THEOREM OwnershipTypesHold == OwnershipSpec => []OwnershipTypeOK
  <1>1. OwnInv => OwnershipTypeOK
    BY DEF OwnInv
  <1> QED
    BY <1>1, OwnInvHolds, PTL

\* A process that is awake shows, or appends to, a session whose row it lost for
\* at most one interval, whatever the other processes do.
THEOREM LossIsNoticed == OwnershipSpec => []LossNoticed
  <1>1. OwnInv => LossNoticed
    BY DEF OwnInv, LossInv, LifeInv, LossNoticed, Holds, Showing, Up
  <1> QED
    BY <1>1, OwnInvHolds, PTL

\* A boot that resumes the only session without asking does not take it from an
\* awake process that had renewed its claim twice.
THEOREM AutoResumeIsSafe == OwnershipSpec => []AutoResumeSpares
  <1>1. OwnInv => AutoResumeSpares
    BY DEF OwnInv
  <1> QED
    BY <1>1, OwnInvHolds, PTL
=============================================================================
