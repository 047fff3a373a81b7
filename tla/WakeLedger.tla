----------------------------- MODULE WakeLedger -----------------------------
(***************************************************************************)
(* What scheduled wakes promise, whoever keeps them and however often that *)
(* one crashes: a wake is settled only after its note was injected (at     *)
(* least once, never lost), and a cancelled one is never injected.         *)
(***************************************************************************)
EXTENDS Naturals

CONSTANTS Wakes

VARIABLES
    state,      \* what the log says of each wake
    injected    \* how often its note has been injected

ledgerVars == <<state, injected>>

LedgerInit ==
    /\ state = [w \in Wakes |-> "none"]
    /\ injected = [w \in Wakes |-> 0]

Schedule(w) ==
    /\ state[w] = "none"
    /\ state' = [state EXCEPT ![w] = "scheduled"]
    /\ UNCHANGED injected

Inject(w) ==
    /\ state[w] = "scheduled"
    /\ injected' = [injected EXCEPT ![w] = @ + 1]
    /\ UNCHANGED state

Settle(w) ==
    /\ state[w] = "scheduled"
    /\ injected[w] > 0
    /\ state' = [state EXCEPT ![w] = "fired"]
    /\ UNCHANGED injected

Cancel(W) ==
    /\ \A w \in W : state[w] = "scheduled"
    /\ state' = [w \in Wakes |-> IF w \in W THEN "cancelled" ELSE state[w]]
    /\ UNCHANGED injected

LedgerNext ==
    \/ \E w \in Wakes : Schedule(w) \/ Inject(w) \/ Settle(w)
    \/ \E W \in SUBSET Wakes : Cancel(W)

LedgerSpec == LedgerInit /\ [][LedgerNext]_ledgerVars

=============================================================================
