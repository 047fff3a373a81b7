-------------------------- MODULE SessionOwnership --------------------------
(***************************************************************************)
(* Several zoid processes over one session database.                       *)
(*                                                                         *)
(* A process that shows a session writes its pid and the time into the     *)
(* session's row (store.rs, set_active) and starts a task that renews the  *)
(* time every five seconds (main.rs, spawn_heartbeat).  A renewal that     *)
(* matches no row tells the main loop that the session was taken over; the *)
(* loop then cancels its turn and refuses new messages (`yielded').        *)
(* Another process takes a row that does not look live without asking, and *)
(* one that does after a confirmation.  Nothing locks a session: appends   *)
(* do not look at the row, so all safety comes from noticing the loss.     *)
(*                                                                         *)
(* Time is counted in heartbeat intervals and kept as ages, so that it     *)
(* needs no bound: `Window' intervals without a renewal make a row stale.  *)
(* Time does not pass a process that is awake and has a renewal due or a   *)
(* notice to handle; a process that is asleep (stopped, or in a suspended  *)
(* machine) may miss any number.                                           *)
(***************************************************************************)
EXTENDS Naturals, FiniteSets

CONSTANTS
    Procs,        \* zoid processes; a restart is another one (another pid)
    Sessions,     \* session ids, of this repository
    Stored,       \* the sessions in the database at the start
    Window,       \* LIVE_WINDOW_MS in heartbeat intervals
    MaxLoads,     \* bound: sessions each process loads in its life
    Sleepers,     \* bound: the processes that may be stopped while they run
    MayFail,      \* may a claim, a load or a heartbeat fail with a database error?
    NoProc,       \* a NULL active_pid
    NoSession     \* no session; the nil session id of an untagged event

ASSUME OwnershipAssumption ==
    /\ IsFiniteSet(Procs)
    /\ Stored \subseteq Sessions
    /\ Window \in Nat \ {0, 1}
    /\ MaxLoads \in [Procs -> Nat \ {0}]
    /\ Sleepers \subseteq Procs
    /\ MayFail \in BOOLEAN
    /\ NoProc \notin Procs
    /\ NoSession \notin Sessions

VARIABLES
    row,       \* the sessions table: is there a row, its pid, its age
    phase,     \* where each process is in its life
    asleep,    \* processes that do not run
    bootAge,   \* intervals since the process read the clock at its boot
    cursor,    \* the row the user chose in the open (or startup) picker, and
               \* whether the list, made when the picker opened, had it in use
    chosen,    \* session a booting process will claim
    quiet,     \* was the chosen row taken because it did not look live?
    home,      \* App::session_id
    yielded,   \* App::yielded
    turn,      \* the chat turn: App::streaming holds while it is running
    beats,     \* heartbeat tasks: the load that started it, its session, time to go
    loads,     \* sessions loaded so far
    notices,   \* SessionTakenOver messages in the channel
    steady,    \* auxiliary: intervals it has run with heartbeats since it claimed the
               \* session it shows, at most LongSteady
    lostAge    \* auxiliary: intervals since it lost the row of home, at most 2

procVars == <<phase, asleep, bootAge, cursor, chosen, quiet>>
appVars == <<home, yielded, turn>>
beatVars == <<beats, loads, notices>>
ownVars == <<row, procVars, appVars, beatVars, steady, lostAge>>

-----------------------------------------------------------------------------
Phases == {"unborn", "picking", "claiming", "loading", "up", "gone"}
Turns == {"none", "running", "cancelled"}

NoCursor == [sess |-> NoSession, live |-> FALSE]

\* Ages stop counting where no test tells them apart any more.
OldestBoot == Window
Oldest == Window
LongSteady == Window + 1
Aged(n, cap) == IF n < cap THEN n + 1 ELSE cap

NoRow(state) == [state |-> state, pid |-> NoProc, age |-> 0]
FreeRow == NoRow("stored")
HeldRow(p, n) == [state |-> "stored", pid |-> p, age |-> n]

\* kill(pid, 0): a process that is asleep is alive.
PidAlive(p) == phase[p] \notin {"unborn", "gone"}
Runs(p) == PidAlive(p) /\ p \notin asleep
Up(p) == phase[p] = "up" /\ p \notin asleep

\* Mutant: the window is one interval shorter than the heartbeat allows for.
IsLiveHasty(s) ==
    /\ row[s].pid # NoProc
    /\ PidAlive(row[s].pid)
    /\ row[s].age + 1 < Window

\* is_live, with `now' the time of the call.
IsLive(s) ==
    /\ row[s].pid # NoProc
    /\ PidAlive(row[s].pid)
    /\ row[s].age < Window
StoredRows == {s \in Sessions : row[s].state = "stored"}
LiveRows == {s \in StoredRows : IsLive(s)}

OwnershipInit ==
    /\ row = [s \in Sessions |-> IF s \in Stored THEN FreeRow ELSE NoRow("unused")]
    /\ phase = [p \in Procs |-> "unborn"]
    /\ asleep = {}
    /\ bootAge = [p \in Procs |-> 0]
    /\ cursor = [p \in Procs |-> NoCursor]
    /\ chosen = [p \in Procs |-> NoSession]
    /\ quiet = [p \in Procs |-> FALSE]
    /\ home = [p \in Procs |-> NoSession]
    /\ yielded = [p \in Procs |-> FALSE]
    /\ turn = [p \in Procs |-> "none"]
    /\ beats = [p \in Procs |-> {}]
    /\ loads = [p \in Procs |-> 0]
    /\ notices = [p \in Procs |-> 0]
    /\ steady = [p \in Procs |-> 0]
    /\ lostAge = [p \in Procs |-> 0]

-----------------------------------------------------------------------------
(* The rows.                                                                *)

SetRow(s, r) == row' = [row EXCEPT ![s] = r]

\* set_active(active = true): an UPDATE, so a session without a row stays so.
\* An error is dropped: the caller goes on as if it had the claim.
ClaimRow(p, s, n) ==
    \/ IF s \in StoredRows THEN SetRow(s, HeldRow(p, n)) ELSE UNCHANGED row
    \/ MayFail /\ UNCHANGED row

\* set_active(active = false), with no look at who holds the row.
ReleaseRow(s) ==
    \/ IF s \in StoredRows THEN SetRow(s, FreeRow) ELSE UNCHANGED row
    \/ MayFail /\ UNCHANGED row

\* new_session: a row for an id that was never used.
Unused == {s \in Sessions : row[s].state = "unused"}

\* How long the row of the session shown has been another's.
Holder(s) == IF s = NoSession THEN NoProc ELSE row[s].pid
Watch ==
    lostAge' = [p \in Procs |->
                 IF Holder(home[p]) = p \/ Holder(home[p])' = p \/ yielded'[p] THEN 0
                 ELSE lostAge[p]]

-----------------------------------------------------------------------------
(* Start of a process.                                                      *)

\* A list of the sessions, with a marker on those in use; the user will choose
\* one of its rows.
Shown == {[sess |-> s, live |-> s \in LiveRows] : s \in StoredRows}

Choose(p, s, silently) ==
    /\ phase' = [phase EXCEPT ![p] = "claiming"]
    /\ chosen' = [chosen EXCEPT ![p] = s]
    /\ quiet' = [quiet EXCEPT ![p] = silently]
    /\ cursor' = [cursor EXCEPT ![p] = NoCursor]

ChooseNew(p) ==
    \E s \in Unused : SetRow(s, FreeRow) /\ Choose(p, s, FALSE)

\* main reads the clock and lists the sessions.  boot_decision: --resume and
\* --new, or else by the number of sessions.
Boot(p) ==
    /\ phase[p] = "unborn"
    /\ \/ /\ \E s \in StoredRows : Choose(p, s, FALSE)          \* --resume
          /\ UNCHANGED row
       \/ ChooseNew(p)                                          \* --new, or none
       \/ \E s \in StoredRows :                                  \* the only one
            /\ StoredRows = {s}
            /\ IF IsLive(s) THEN ChooseNew(p)
               ELSE Choose(p, s, TRUE) /\ UNCHANGED row
       \/ /\ Cardinality(StoredRows) > 1                        \* the picker
          /\ phase' = [phase EXCEPT ![p] = "picking"]
          /\ \E c \in Shown : cursor' = [cursor EXCEPT ![p] = c]
          /\ UNCHANGED <<row, chosen, quiet>>
    /\ UNCHANGED <<asleep, bootAge, appVars, beatVars, steady>>

\* The picker at startup: any row is resumed without a question.
PickAtBoot(p) ==
    /\ phase[p] = "picking" /\ Runs(p)
    /\ \/ cursor[p] # NoCursor /\ Choose(p, cursor[p].sess, FALSE) /\ UNCHANGED row
       \/ ChooseNew(p)
    /\ UNCHANGED <<asleep, bootAge, appVars, beatVars, steady>>

\* A row that was listed as not in use is deleted, and the list is made again
\* with the clock of the boot: a claim that is too old by now may have been
\* young enough then.
DeleteAtBoot(p) ==
    /\ phase[p] = "picking" /\ Runs(p)
    /\ cursor[p] # NoCursor /\ ~cursor[p].live
    /\ SetRow(cursor[p].sess, NoRow("deleted"))
    /\ \/ \E c \in Shown :
            /\ c.sess # cursor[p].sess
            /\ \/ cursor' = [cursor EXCEPT ![p] = c]
               \/ /\ bootAge[p] > 0 /\ row[c.sess].pid # NoProc /\ PidAlive(row[c.sess].pid)
                  /\ cursor' = [cursor EXCEPT ![p] = [c EXCEPT !.live = TRUE]]
       \/ cursor' = [cursor EXCEPT ![p] = NoCursor]
    /\ UNCHANGED <<phase, asleep, bootAge, chosen, quiet, appVars, beatVars, steady>>

\* The memory of the process goes with it.
Gone(p) ==
    /\ phase' = [phase EXCEPT ![p] = "gone"]
    /\ asleep' = asleep \ {p}
    /\ bootAge' = [bootAge EXCEPT ![p] = 0]
    /\ cursor' = [cursor EXCEPT ![p] = NoCursor]
    /\ chosen' = [chosen EXCEPT ![p] = NoSession]
    /\ quiet' = [quiet EXCEPT ![p] = FALSE]
    /\ home' = [home EXCEPT ![p] = NoSession]
    /\ yielded' = [yielded EXCEPT ![p] = FALSE]
    /\ turn' = [turn EXCEPT ![p] = "none"]
    /\ beats' = [beats EXCEPT ![p] = {}]
    /\ loads' = [loads EXCEPT ![p] = 0]
    /\ notices' = [notices EXCEPT ![p] = 0]
    /\ steady' = [steady EXCEPT ![p] = 0]

\* Esc in the picker.
AbortPicker(p) ==
    /\ phase[p] = "picking" /\ Runs(p)
    /\ UNCHANGED row
    /\ Gone(p)

\* The claim carries the time of the boot, not of the claim.
ClaimAtBoot(p) ==
    /\ phase[p] = "claiming" /\ Runs(p)
    /\ ClaimRow(p, chosen[p], bootAge[p])
    /\ phase' = [phase EXCEPT ![p] = "loading"]
    /\ UNCHANGED <<asleep, bootAge, cursor, chosen, quiet,
                   appVars, beatVars, steady>>

\* spawn_heartbeat: the first renewal is one interval away.
SpawnHeartbeat(p, s) ==
    /\ beats' = [beats EXCEPT ![p] =
                    @ \cup {[load |-> loads[p] + 1, sess |-> s, due |-> 1]}]
    /\ loads' = [loads EXCEPT ![p] = @ + 1]
    /\ steady' = [steady EXCEPT ![p] = 0]
    /\ UNCHANGED notices

\* The session is loaded and the main loop starts.
Start(p) ==
    /\ phase[p] = "loading" /\ Runs(p)
    /\ phase' = [phase EXCEPT ![p] = "up"]
    /\ home' = [home EXCEPT ![p] = chosen[p]]
    /\ bootAge' = [bootAge EXCEPT ![p] = 0]
    /\ chosen' = [chosen EXCEPT ![p] = NoSession]
    /\ quiet' = [quiet EXCEPT ![p] = FALSE]
    /\ SpawnHeartbeat(p, chosen[p])
    /\ UNCHANGED <<row, asleep, cursor, yielded, turn>>

-----------------------------------------------------------------------------
(* Heartbeats.                                                              *)

\* Mutant: the UPDATE does not look at the pid.
RenewAny(p, b) ==
    /\ Up(p) /\ b \in beats[p] /\ b.due = 0
    /\ row' = [row EXCEPT ![b.sess].age = 0]
    /\ beats' = [beats EXCEPT ![p] = (@ \ {b}) \cup {[b EXCEPT !.due = 1]}]
    /\ UNCHANGED <<procVars, appVars, loads, notices, steady>>

\* heartbeat: the UPDATE is of the row with this id and this pid.
Renew(p, b) ==
    /\ Up(p) /\ b \in beats[p] /\ b.due = 0
    /\ row[b.sess].pid = p
    /\ row' = [row EXCEPT ![b.sess].age = 0]
    /\ beats' = [beats EXCEPT ![p] = (@ \ {b}) \cup {[b EXCEPT !.due = 1]}]
    /\ UNCHANGED <<procVars, appVars, loads, notices, steady>>

\* Mutant: the loop does not stop after its message.
StopBeatNever(p, b) ==
    /\ notices' = [notices EXCEPT ![p] = @ + 1]
    /\ beats' = [beats EXCEPT ![p] = (@ \ {b}) \cup {[b EXCEPT !.due = 1]}]
    /\ UNCHANGED <<row, procVars, appVars, loads, steady>>

\* One message, and the task ends.
StopBeat(p, b) ==
    /\ beats' = [beats EXCEPT ![p] = @ \ {b}]
    /\ notices' = [notices EXCEPT ![p] = @ + 1]
    /\ UNCHANGED <<row, procVars, appVars, loads, steady>>

\* The UPDATE matches no row.
LoseRow(p, b) ==
    /\ Up(p) /\ b \in beats[p] /\ b.due = 0
    /\ row[b.sess].pid # p
    /\ StopBeat(p, b)

\* The UPDATE fails (the database is busy for longer than busy_timeout).
FailToRenew(p, b) ==
    /\ Up(p) /\ b \in beats[p] /\ b.due = 0
    /\ MayFail
    /\ StopBeat(p, b)

\* Mutant: a session that is idle is not marked as lost.
HandleTakenOverBusy(p) ==
    /\ Up(p) /\ notices[p] > 0
    /\ notices' = [notices EXCEPT ![p] = @ - 1]
    /\ turn' = [turn EXCEPT ![p] = IF @ = "running" THEN "cancelled" ELSE @]
    /\ yielded' = [yielded EXCEPT ![p] = @ \/ turn[p] = "running"]
    /\ UNCHANGED <<row, procVars, home, beats, loads, steady>>

\* AgentUpdate::SessionTakenOver: whatever session is loaded by then.
HandleTakenOver(p) ==
    /\ Up(p) /\ notices[p] > 0
    /\ notices' = [notices EXCEPT ![p] = @ - 1]
    /\ turn' = [turn EXCEPT ![p] = IF @ = "running" THEN "cancelled" ELSE @]
    /\ yielded' = [yielded EXCEPT ![p] = TRUE]
    /\ UNCHANGED <<row, procVars, home, beats, loads, steady>>

-----------------------------------------------------------------------------
(* Turns, as far as they append: one at a time (ChatLoop has the rest).     *)

\* spawn_turn: a message, a wake or a result starts a turn, unless the session
\* was yielded.  It appends to the session shown when it starts.
Submit(p) ==
    /\ Up(p) /\ ~yielded[p] /\ turn[p] = "none"
    /\ turn' = [turn EXCEPT ![p] = "running"]
    /\ UNCHANGED <<row, procVars, home, yielded, beatVars, steady>>

\* TurnComplete.
EndTurn(p) ==
    /\ Up(p) /\ turn[p] # "none"
    /\ turn' = [turn EXCEPT ![p] = "none"]
    /\ UNCHANGED <<row, procVars, home, yielded, beatVars, steady>>

-----------------------------------------------------------------------------
(* The user changes the session.  A running turn stands for the busy guard,  *)
(* which also looks at the rows of the subagents (SubagentPool).             *)

\* :session resume: the list, and the row the user will choose.  (A process
\* that has had its MaxLoads opens no picker.)
OpenPicker(p) ==
    /\ Up(p) /\ loads[p] < MaxLoads[p]
    /\ \E c \in Shown : cursor' = [cursor EXCEPT ![p] = c]
    /\ UNCHANGED <<row, phase, asleep, bootAge, chosen, quiet, appVars, beatVars, steady>>

\* Load and show s, with a claim and a heartbeat of its own: the row and the
\* heartbeat of the session that was shown are left as they are.
Attach(p, s) ==
    /\ loads[p] < MaxLoads[p]
    /\ home' = [home EXCEPT ![p] = s]
    /\ yielded' = [yielded EXCEPT ![p] = FALSE]
    /\ SpawnHeartbeat(p, s)
    /\ cursor' = [cursor EXCEPT ![p] = NoCursor]
    /\ UNCHANGED <<phase, asleep, bootAge, chosen, quiet, turn>>

\* The pick is given up.
ClosePicker(p) ==
    /\ cursor' = [cursor EXCEPT ![p] = NoCursor]
    /\ UNCHANGED <<phase, asleep, bootAge, chosen, quiet, appVars, beatVars>>

\* Enter on a row that was listed as not in use; its log may not load.
PickSession(p) ==
    /\ Up(p) /\ cursor[p] # NoCursor /\ ~cursor[p].live /\ turn[p] # "running"
    /\ \/ ClaimRow(p, cursor[p].sess, 0) /\ Attach(p, cursor[p].sess)
       \/ MayFail /\ ClosePicker(p) /\ UNCHANGED <<row, steady>>

\* Enter on a row listed as in use, and `y': the claim comes before the busy
\* guard of the pick, which may then refuse, and before the load.
TakeOver(p) ==
    /\ Up(p) /\ cursor[p] # NoCursor /\ cursor[p].live
    /\ ClaimRow(p, cursor[p].sess, 0)
    /\ \/ turn[p] # "running" /\ Attach(p, cursor[p].sess)
       \/ /\ turn[p] = "running" \/ MayFail
          /\ ClosePicker(p)
          /\ steady' = [steady EXCEPT ![p] = IF cursor[p].sess = home[p] THEN 0 ELSE @]

\* :new.  It is shown even if its row, or the claim, could not be written.
NewSession(p) ==
    /\ Up(p) /\ turn[p] # "running"
    /\ \E s \in Unused :
        /\ \/ SetRow(s, HeldRow(p, 0))
           \/ MayFail /\ (SetRow(s, FreeRow) \/ SetRow(s, NoRow("deleted")))
        /\ Attach(p, s)

\* Delete on a row listed as not in use, and `y'; the list is made again.
DeleteSession(p) ==
    /\ Up(p) /\ cursor[p] # NoCursor /\ ~cursor[p].live /\ turn[p] # "running"
    /\ SetRow(cursor[p].sess, NoRow("deleted"))
    /\ \E c \in (Shown \ {cursor[p]}) \cup {NoCursor} :
        /\ c.sess # cursor[p].sess
        /\ cursor' = [cursor EXCEPT ![p] = c]
    /\ UNCHANGED <<phase, asleep, bootAge, chosen, quiet, appVars, beatVars, steady>>

-----------------------------------------------------------------------------
(* Ends, stalls and time.                                                   *)

\* A clean exit releases the row of the session shown, whoever holds it.
Exit(p) ==
    /\ Up(p)
    /\ ReleaseRow(home[p])
    /\ Gone(p)

Kill(p) ==
    /\ PidAlive(p)
    /\ UNCHANGED row
    /\ Gone(p)

Suspend(p) ==
    /\ Up(p) /\ p \in Sleepers
    /\ asleep' = asleep \cup {p}
    /\ UNCHANGED <<row, phase, bootAge, cursor, chosen, quiet, appVars,
                   beatVars, steady>>

Resume(p) ==
    /\ p \in asleep
    /\ asleep' = asleep \ {p}
    /\ steady' = [steady EXCEPT ![p] = 0]
    /\ UNCHANGED <<row, phase, bootAge, cursor, chosen, quiet, appVars,
                   beatVars>>

\* An awake process does not let a renewal or a notice wait for an interval.
Prompt(p) ==
    p \in asleep \/ (notices[p] = 0 /\ \A b \in beats[p] : b.due > 0)

Showing(p) == Up(p) /\ ~yielded[p]

Tick ==
    /\ \A p \in Procs : Prompt(p)
    /\ row' = [s \in Sessions |->
                IF row[s].pid = NoProc THEN row[s]
                ELSE [row[s] EXCEPT !.age = IF PidAlive(row[s].pid) THEN Aged(@, Oldest)
                                            ELSE Oldest]]
    /\ bootAge' = [p \in Procs |->
                    IF phase[p] \in {"picking", "claiming"}
                      THEN Aged(bootAge[p], OldestBoot) ELSE bootAge[p]]
    /\ beats' = [p \in Procs |-> {[b EXCEPT !.due = 0] : b \in beats[p]}]
    /\ steady' = [p \in Procs |-> IF Showing(p) THEN Aged(steady[p], LongSteady) ELSE 0]
    /\ lostAge' = [p \in Procs |->
                    IF Showing(p) /\ Holder(home[p]) # p THEN Aged(lostAge[p], 2) ELSE 0]
    /\ UNCHANGED <<phase, asleep, cursor, chosen, quiet, appVars,
                   loads, notices>>

Beating(p) == \E b \in beats[p] : Renew(p, b) \/ LoseRow(p, b) \/ FailToRenew(p, b)

ProcNext(p) ==
    \/ Boot(p) \/ PickAtBoot(p) \/ DeleteAtBoot(p) \/ AbortPicker(p)
    \/ ClaimAtBoot(p) \/ Start(p)
    \/ Beating(p) \/ HandleTakenOver(p)
    \/ Submit(p) \/ EndTurn(p)
    \/ OpenPicker(p) \/ PickSession(p) \/ TakeOver(p) \/ DeleteSession(p) \/ NewSession(p)
    \/ Exit(p) \/ Kill(p) \/ Suspend(p) \/ Resume(p)

OwnershipNext == Tick \/ (\E p \in Procs : ProcNext(p) /\ Watch)

\* Time passes, and while a heartbeat is due or a notice waits in a process that
\* is awake, one of them is attended to.  Nothing is asked of the user or of a
\* stopped process.
Attend == \E p \in Procs : (Beating(p) \/ HandleTakenOver(p)) /\ Watch
OwnershipFairness == WF_ownVars(Tick) /\ WF_ownVars(Attend)

OwnershipSpec == OwnershipInit /\ [][OwnershipNext]_ownVars
FairOwnershipSpec == OwnershipSpec /\ OwnershipFairness

-----------------------------------------------------------------------------
OwnershipTypeOK ==
    /\ row \in [Sessions -> [state: {"unused", "stored", "deleted"},
                             pid: Procs \cup {NoProc}, age: 0..Oldest]]
    /\ phase \in [Procs -> Phases]
    /\ asleep \subseteq Procs
    /\ bootAge \in [Procs -> 0..OldestBoot]
    /\ cursor \in [Procs -> [sess: Sessions \cup {NoSession}, live: BOOLEAN]]
    /\ chosen \in [Procs -> Sessions \cup {NoSession}]
    /\ quiet \in [Procs -> BOOLEAN]
    /\ home \in [Procs -> Sessions \cup {NoSession}]
    /\ yielded \in [Procs -> BOOLEAN]
    /\ turn \in [Procs -> Turns]
    /\ beats \in [Procs -> SUBSET [load: Nat, sess: Sessions, due: 0..1]]
    /\ loads \in [Procs -> Nat]
    /\ notices \in [Procs -> Nat]
    /\ \A p \in Procs :
        /\ \A b \in beats[p] : b.load \in 1..loads[p]
        /\ loads[p] <= MaxLoads[p]
        /\ notices[p] <= loads[p]
    /\ steady \in [Procs -> 0..LongSteady]
    /\ lostAge \in [Procs -> 0..2]

\* p shows s to its user and accepts messages for it.
Shows(p, s) == Showing(p) /\ home[p] = s

\* At most one interval has passed since the row was lost, or since p has run
\* with a heartbeat for it.
JustLost(p) == lostAge[p] < 2 \/ steady[p] < 2

(* A process that is awake and still shows a session whose row it does not   *)
(* hold, or lets a turn append to it, lost the row or loaded the session at  *)
(* most one heartbeat interval ago (spawn_heartbeat, the takeover handler),  *)
(* whatever other processes did to the row: claim, release or delete it.     *)
LossNoticed ==
    \A p \in Procs :
        /\ Up(p) /\ (~yielded[p] \/ turn[p] = "running")
        /\ row[home[p]].pid # p
        => JustLost(p)

(* A boot that resumes the only session without asking takes it from a       *)
(* process that is awake and shows it only if that process had not renewed   *)
(* its claim twice when the boot read the rows (is_live, HEARTBEAT_INTERVAL  *)
(* and LIVE_WINDOW).                                                         *)
AutoResumeSpares ==
    \A p, q \in Procs :
        /\ phase[p] = "claiming" /\ quiet[p] /\ bootAge[p] < OldestBoot
        /\ Shows(q, chosen[p]) /\ row[chosen[p]].pid = q
        => steady[q] < bootAge[p] + 2

(* No session goes on being shown by two processes: sooner or later the ones *)
(* that lost it have noticed (the yield protocol of the heartbeat).          *)
ShownTwice == \E p, q \in Procs : \E s \in Sessions : p # q /\ Shows(p, s) /\ Shows(q, s)
OneShowsInTheEnd == ShownTwice ~> ~ShownTwice

(* The heartbeat is of "the active session" and stands for its loss when     *)
(* "another process took over the row" (main.rs, spawn_heartbeat): a process *)
(* yields the session it shows only if it no longer holds that row.          *)
YieldsWhatItLost ==
    [][\A p \in Procs : ~yielded[p] /\ yielded'[p] => row[home[p]].pid # p]_ownVars
=============================================================================
