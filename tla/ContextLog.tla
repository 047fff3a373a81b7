----------------------------- MODULE ContextLog -----------------------------
(***************************************************************************)
(* What a chat turn keeps of its session in the model's context window.    *)
(*                                                                         *)
(* The event log only grows.  To page a turn of the conversation out, the  *)
(* agent appends `evicted' with the ids of the turn's events; to bring     *)
(* events back, `readmitted'; to shrink a tool's output, `compacted' with  *)
(* a summary.  Three folds of one log must agree on what that leaves: the  *)
(* window that estimates the size (context.rs), the turns the planner may  *)
(* page out (eviction.rs) and the request that is sent (projection.rs).    *)
(*                                                                         *)
(* Before each request the gate (agent.rs, preflight_gate) compacts, then  *)
(* evicts, then evicts again near the hard limit, then compacts again if   *)
(* the request would not fit.  An event's id is its place in the log.      *)
(* The sizes of events are in characters, as the folds round them to       *)
(* tokens each in its own way; every other size is in tokens.              *)
(***************************************************************************)
EXTENDS Naturals, Sequences, FiniteSets, FiniteSetsExt, Functions

CONSTANTS
    Capacity, ContextTarget, OutputReserve,    \* EvictionPolicy, in tokens
    HeadroomPct, ProtectionPct,                \* and in percent
    MinProtectedTurns,
    SafetyMargin,       \* CAPACITY_SAFETY_MARGIN
    ModelWindow,        \* the model's own limit (TurnConfig.context_window)
    SoftThreshold,      \* compact_threshold; 0: none
    Overhead,           \* system prompt and tool specs
    SystemTokens,       \* the system prompt alone
    MaxContextRetries, MaxEmptyRetries,
    Ratios,             \* calibration ratios the provider's counts may show, in percent
    MessageSize, WarningSize, SkipSize, NameSize, ArgsSize,  \* of these texts, in characters
    HeadSize,           \* what compact_tool_output keeps of an output
    EnrichedSize,       \* what apply_mode_mapping's result says of an approved mapping
    DeltaSizes, OutputSizes, AnswerSizes, ReportSizes,       \* those a run may meet
    Paths, NoPath,      \* files that tools read
    RecallLimit,        \* bound: events one recall brings back
    MaxTurns, MaxTexts, MaxCalls, MaxCards, MaxReports, MaxRecalls,  \* bounds: such events in the log
    MaxByHand           \* bound: with so many of them under way, no more `:compact'

ASSUME ContextAssumption ==
    /\ {Capacity, ContextTarget, OutputReserve, HeadroomPct, ProtectionPct, SafetyMargin,
        ModelWindow, SoftThreshold, Overhead, SystemTokens, MaxContextRetries, MaxEmptyRetries,
        MessageSize, WarningSize, SkipSize, NameSize, ArgsSize, HeadSize, EnrichedSize,
        MinProtectedTurns, RecallLimit, MaxTurns, MaxTexts, MaxCalls, MaxCards, MaxReports,
        MaxRecalls, MaxByHand} \subseteq Nat
    /\ Ratios \cup DeltaSizes \cup OutputSizes \cup AnswerSizes \cup ReportSizes \subseteq Nat
    /\ NoPath \notin Paths

VARIABLES
    log,        \* the event log of the turn
    pc,         \* where the turn is in its loop
    calls,      \* pending: the calls of the stream that wait for their tools
    said,       \* sub_turn_produced_content
    ratio,      \* calibration_ratio, in percent; it starts anew in each turn
    retries,    \* context_retries
    nudges,     \* empty_retries
    planned,    \* compactions that a task of `:compact' has yet to append
    aside       \* what others appended to the session and the turn has not seen

handVars == <<planned, aside>>
turnVars == <<calls, said, ratio, retries, nudges>>
ctxVars == <<log, pc, turnVars, handVars>>

-----------------------------------------------------------------------------
(* Events.                                                                  *)

\* estimate_tokens.
Tokens(n) == (n + 2) \div 3

User == [kind |-> "user", size |-> MessageSize]
Warning == [kind |-> "warning", size |-> WarningSize]
Delta(n) == [kind |-> "delta", size |-> n]
Call(path) == [kind |-> "call", size |-> ArgsSize, name |-> NameSize, path |-> path]
Output(c, n, failed) == [kind |-> "result", ref |-> c, size |-> n, failed |-> failed]
Asked(c) == [kind |-> "asked", ref |-> c]
Answered(c, n) == [kind |-> "answered", ref |-> c, size |-> n]
Delegated(n) == [kind |-> "delegation", size |-> n]
\* Mutant: a compaction forgets what was there.
CompactedOnly(c, n, was) == [kind |-> "compacted", ref |-> c, size |-> n, original |-> Tokens(n)]
Compacted(c, n, was) == [kind |-> "compacted", ref |-> c, size |-> n, original |-> was]
Evicted(ids) == [kind |-> "evicted", ids |-> ids]
Readmitted(ids) == [kind |-> "readmitted", ids |-> ids]

OfKind(l, k) == {i \in DOMAIN l : l[i].kind = k}
\* is_inert holds of the other kinds.
Spoken(l) ==
    {i \in DOMAIN l : l[i].kind \in {"user", "warning", "delta", "call", "result",
                                      "asked", "answered", "delegation"}}

\* evicted_ids.
Out(l) ==
    {i \in Spoken(l) :
        \E e \in OfKind(l, "evicted") :
            /\ i \in l[e].ids
            /\ \A r \in OfKind(l, "readmitted") : r > e => i \notin l[r].ids}
In(l) == Spoken(l) \ Out(l)

SameFile(l, c, d) == l[c].path = l[d].path /\ l[c].path # NoPath
Compactions(l, c) == {j \in OfKind(l, "compacted") : l[j].ref = c}
\* The body the request carries for a tool's output: the last summary.
Body(l, r) ==
    IF Compactions(l, l[r].ref) = {} THEN l[r].size
    ELSE l[Max(Compactions(l, l[r].ref))].size

Summed(l, S) == SumFunction([i \in S |-> l[i].size])

-----------------------------------------------------------------------------
(* build_request: what the provider is sent of each event that is not       *)
(* evicted, in characters.                                                  *)

\* A question's card, whether it is evicted or not, takes the place of the
\* result of its call.
Cards(l, c) == {q \in OfKind(l, "asked") : l[q].ref = c}
Answer(l, c) ==
    LET given == {a \in OfKind(l, "answered") : l[a].ref = c}
    IN IF given = {} THEN 0 ELSE l[Max(given)].size

Carried(l, i) ==
    CASE l[i].kind = "call" -> l[i].name + l[i].size
      [] l[i].kind = "result" -> IF Cards(l, l[i].ref) = {} THEN Body(l, i) ELSE 0
      [] l[i].kind = "asked" -> Answer(l, l[i].ref)
      [] l[i].kind = "answered" -> 0
      [] OTHER -> l[i].size

RequestSize(l) == SumFunction([i \in In(l) |-> Carried(l, i)])

-----------------------------------------------------------------------------
(* context_window_with: the messages, the arguments of the calls, one item  *)
(* per tool output, and one per file, however often it was read.            *)

\* flush_delta: the deltas between two breaks are one text, which is named by
\* the last of them.
Breaks(l) == In(l) \cap (OfKind(l, "user") \cup OfKind(l, "warning") \cup OfKind(l, "result"))
Deltas(l) == In(l) \cap OfKind(l, "delta")
Text(l, e) == {d \in Deltas(l) : d <= e /\ \A b \in Breaks(l) : b < d \/ e < b}
Texts(l) == {e \in Deltas(l) : \A d \in Deltas(l) : e \in Text(l, d) => d = e}
TextTokens(l) == SumFunction([e \in Texts(l) |-> Tokens(Summed(l, Text(l, e)))])

\* call_path: only of the calls that are not evicted.
CallPath(l) ==
    LET in == In(l)
    IN [c \in OfKind(l, "call") |-> IF c \in in THEN l[c].path ELSE NoPath]
SameItem(path, c, d) == c = d \/ (path[c] = path[d] /\ path[c] # NoPath)
\* An item is named by the last of its outputs.
Items(l, path) ==
    LET results == OfKind(l, "result") \cap In(l)
    IN {r \in results : \A q \in results : SameItem(path, l[r].ref, l[q].ref) => q <= r}

\* Mutant: the compaction of a file's output does not find its item.
ItemTokensByCall(l, path, r) ==
    LET folded == {j \in OfKind(l, "compacted") : l[j].ref = l[r].ref /\ path[l[j].ref] = NoPath}
    IN Tokens(IF folded = {} THEN l[r].size ELSE l[Max(folded)].size)

\* The compactions are folded on after all the outputs, a file's by its path.
ItemTokens(l, path, r) ==
    LET folded == {j \in OfKind(l, "compacted") : SameItem(path, l[j].ref, l[r].ref)}
    IN Tokens(IF folded = {} THEN l[r].size ELSE l[Max(folded)].size)

\* The messages, and the calls, whose arguments are counted and not their names.
Plain(l) ==
    In(l) \cap (OfKind(l, "user") \cup OfKind(l, "warning") \cup OfKind(l, "call"))

Window(l) ==
    LET path == CallPath(l)
    IN Overhead
         + SumFunction([i \in Plain(l) |-> Tokens(l[i].size)])
         + TextTokens(l)
         + SumFunction([r \in Items(l, path) |-> ItemTokens(l, path, r)])

\* cumulative_appended, which spaces the reminders of the system prompt: every
\* text and output, a compacted one as the item it was.
Cumulative(l) ==
    SumFunction([i \in OfKind(l, "user") \cup OfKind(l, "warning") \cup OfKind(l, "delta") |->
                    Tokens(l[i].size)])
      + SumFunction([r \in OfKind(l, "result") |->
                        LET done == Compactions(l, l[r].ref)
                        IN IF done = {} THEN Tokens(l[r].size) ELSE l[Max(done)].original])

Calibrated(n, r) == (n * r) \div 100
\* OVERCOUNT_BIAS.
Estimate(l, r) == (Calibrated(Window(l), r) * 115) \div 100
Scaled(n, r) == (n * r * 115) \div 10000

-----------------------------------------------------------------------------
(* Compaction: the largest outputs first, until the total is under a limit.  *)

\* compact_tool_output.
Summary(n) == IF Tokens(HeadSize) < Tokens(n) THEN HeadSize ELSE n

\* The outputs that may stand for an item: of a file, all the reads of it in the
\* log, evicted or not.
Reads(l, path, r) ==
    {q \in OfKind(l, "result") :
        q = r \/ (path[l[r].ref] # NoPath /\ l[l[q].ref].path = path[l[r].ref])}

\* The compaction is of the last of them, but what it keeps is the last one that
\* did not fail, unless a file is compacted to fit the window.
Bodies(l, path, r, soft) ==
    {q \in Reads(l, path, r) : ~l[q].failed \/ (~soft /\ path[l[r].ref] # NoPath)}

\* The loop over the items that are not compacted yet, the largest first (the
\* code breaks ties by the item's key): it stops when what is left is within the
\* limit.
Compact(l, current, limit, soft) ==
    LET path == CallPath(l)
        items == {r \in Items(l, path) : Bodies(l, path, r, soft) # {}}
        read == [r \in items |-> Max(Reads(l, path, r))]
        tokens == [r \in items |-> ItemTokens(l, path, r)]
        summary == [r \in items |-> Summary(l[Max(Bodies(l, path, r, soft))].size)]
        gain == [r \in items |->
                    IF Tokens(summary[r]) < tokens[r] THEN tokens[r] - Tokens(summary[r]) ELSE 0]
        eligible == {r \in items : Compactions(l, l[read[r]].ref) = {} /\ (soft => gain[r] > 0)}
        before(r) == {q \in eligible : tokens[q] > tokens[r] \/ (tokens[q] = tokens[r] /\ q < r)}
        over(r) == current > limit + SumFunctionOnSet(gain, before(r))
        taken == {r \in eligible : \A q \in before(r) \cup {r} : over(q)}
    IN [k \in 1..Cardinality(taken) |->
          LET r == CHOOSE r \in taken : Cardinality(before(r)) = k - 1
          IN Compacted(l[read[r]].ref, summary[r], tokens[r])]

\* plan_compactions, and plan_compactions_for_overflow, which asks for no gain.
PlanCompactions(l, current, limit) ==
    IF current <= limit THEN <<>> ELSE Compact(l, current, limit, TRUE)
PlanOverflow(l, current, limit) ==
    IF current <= limit THEN <<>> ELSE Compact(l, current, limit, FALSE)

-----------------------------------------------------------------------------
(* Eviction: whole turns, up to the low water mark.                         *)

\* derive_band.
HighWater ==
    LET usable == IF Capacity > OutputReserve THEN Capacity - OutputReserve ELSE 0
    IN IF ContextTarget < usable THEN ContextTarget ELSE usable
LowWater ==
    LET room == (HighWater * HeadroomPct) \div 100
    IN IF room < HighWater THEN HighWater - room ELSE 0
HardLimit == IF Capacity > SafetyMargin THEN Capacity - SafetyMargin ELSE 0
Budget ==
    (LowWater * (IF ProtectionPct < HeadroomPct THEN ProtectionPct ELSE HeadroomPct)) \div 100

\* group_turns: a user's message starts a turn (and begins every log here); all
\* else joins the last one, a subagent's report too.
TurnOf(l, i) == Cardinality({u \in OfKind(l, "user") : u <= i})
LastTurn(l) == Cardinality(OfKind(l, "user"))
Ids(l, t) == {i \in Spoken(l) : TurnOf(l, i) = t}

\* event_tokens, and for a compacted output its summary: each delta is rounded
\* up for itself, a call's name is counted, and so is a report.
EventTokens(l, i) ==
    CASE l[i].kind = "call" -> Tokens(l[i].size) + Tokens(l[i].name)
      [] l[i].kind = "result" -> Tokens(Body(l, i))
      [] l[i].kind \in {"asked", "answered"} -> 0
      [] OTHER -> Tokens(l[i].size)
EventsTokens(l, S) == SumFunction([i \in S |-> EventTokens(l, i)])
Weight(l, t, r) == Scaled(EventsTokens(l, Ids(l, t)), r)

Weights(l, r) == [t \in 1..LastTurn(l) |-> Weight(l, t, r)]
SumOver(w, T) == SumFunctionOnSet(w, T)

\* Mutant: the newest turn is protected by its size only.
ProtectedNotNewest(w, t) ==
    \A u \in t..Len(w) : SumOver(w, u..Len(w)) <= HardLimit /\ SumOver(w, u..Len(w)) <= Budget

\* compute_protection: from the newest turn, which always is, back to the first
\* turn that does not fit.
Protected(w, t) ==
    \A u \in t..(Len(w) - 1) :
        /\ SumOver(w, u..Len(w)) <= HardLimit
        /\ Len(w) - u < MinProtectedTurns \/ SumOver(w, u..Len(w)) <= Budget

\* Mutant: the first readmission counts.
CoolingSinceFirst(l, t) ==
    \E i \in Ids(l, t) :
        LET marks == {j \in OfKind(l, "readmitted") : i \in l[j].ids}
        IN marks # {} /\ LastTurn(l) - TurnOf(l, Min(marks)) < MinProtectedTurns

\* The cooldown after a readmission; the last one counts.
Cooling(l, t) ==
    \E i \in Ids(l, t) :
        LET marks == {j \in OfKind(l, "readmitted") : i \in l[j].ids}
        IN marks # {} /\ LastTurn(l) - TurnOf(l, Max(marks)) < MinProtectedTurns

\* The turns that are not protected.
Candidates(l, w) ==
    LET out == Out(l)
    IN {t \in DOMAIN w : ~Protected(w, t) /\ Ids(l, t) \cap out = {} /\ ~Cooling(l, t)}

\* Mutant: the wave stops at the high water mark.
StopsAtHigh(est, w, all, V, last) ==
    /\ est > HighWater + SumOver(w, V \ {last})
    /\ V = all \/ est <= HighWater + SumOver(w, V)

\* The loop over the candidates, in an order in which `last' comes last of V:
\* the wave stops at the low water mark.
StopsAt(est, w, all, V, last) ==
    /\ est > LowWater + SumOver(w, V \ {last})
    /\ V = all \/ est <= LowWater + SumOver(w, V)

\* plan_evictions: the turns of a wave.  Turns that bear on the user's goal come
\* later (how much later, the embeddings say), so that with `rescue' the order
\* is any; without, it is the oldest first.
Waves(l, r, rescue) ==
    LET est == Estimate(l, r)
        w == Weights(l, r)
        all == Candidates(l, w)
    IN IF est < HighWater THEN {}
       ELSE {V \in SUBSET all :
                \E last \in V :
                    /\ StopsAt(est, w, all, V, last)
                    /\ rescue \/ V = {t \in all : t <= last}}

\* Mutant: calls stay in.
EvictionOfSpoken(l, V) == Evicted(UNION {Ids(l, t) : t \in V} \ OfKind(l, "call"))
EvictionOf(l, V) == Evicted(UNION {Ids(l, t) : t \in V})

-----------------------------------------------------------------------------
(* The turn (agent.rs, run_turn_inner), as far as it appends to the log.     *)

ContextInit ==
    /\ log = <<>>
    /\ pc = "idle"
    /\ calls = {} /\ said = FALSE
    /\ ratio = 100 /\ retries = 0 /\ nudges = 0
    /\ planned = <<>>
    /\ aside = <<>>

\* Events are appended one by one; one that the store refuses ends the turn.
Emit(events, next) ==
    \/ log' = log \o events /\ pc' = next
    \/ \E n \in 0..Len(events) :
          n < Len(events) /\ log' = log \o SubSeq(events, 1, n) /\ pc' = "idle"

TurnStarts(events) ==
    /\ log' = log \o events /\ aside' = <<>>
    /\ pc' = "compact"
    /\ calls' = {} /\ said' = FALSE /\ ratio' = 100 /\ retries' = 0 /\ nudges' = 0
    /\ UNCHANGED planned

\* A user's message, or that of a wake, starts a turn, with all that the session
\* has by then.
Ask ==
    /\ pc = "idle" /\ LastTurn(log) < MaxTurns
    /\ TurnStarts(Append(aside, User))

\* plan_delegation_wake: so does a subagent's report, without a message.
ReportWakes ==
    /\ pc = "idle" /\ \E k \in DOMAIN aside : aside[k].kind = "delegation"
    /\ TurnStarts(aside)

\* preflight_gate (1).
GateCompact ==
    /\ pc = "compact"
    /\ Emit(IF Estimate(log, ratio) < HighWater THEN <<>>
            ELSE PlanCompactions(log, Calibrated(Window(log), ratio), HighWater), "evict")
    /\ UNCHANGED turnVars

EmitEviction(rescue, next) ==
    IF Waves(log, ratio, rescue) = {} THEN log' = log /\ pc' = next
    ELSE \E V \in Waves(log, ratio, rescue) : Emit(<<EvictionOf(log, V)>>, next)

\* preflight_gate (2).
GateEvict ==
    /\ pc = "evict"
    /\ EmitEviction(TRUE, "floor")
    /\ UNCHANGED turnVars

\* preflight_gate (3).
GateFloor ==
    /\ pc = "floor"
    /\ IF Estimate(log, ratio) >= HardLimit THEN EmitEviction(TRUE, "overflow")
       ELSE log' = log /\ pc' = "overflow"
    /\ UNCHANGED turnVars

\* The hard ceiling of preflight_gate; the request is built from what is left.
GateOverflow ==
    /\ pc = "overflow"
    /\ Emit(IF Estimate(log, ratio) <= ModelWindow \/ ModelWindow = 0 THEN <<>>
            ELSE PlanOverflow(log, Calibrated(Window(log), ratio), ModelWindow), "stream")
    /\ said' = FALSE
    /\ UNCHANGED <<calls, ratio, retries, nudges>>

\* The stream brings texts, or the warning that it was cut off, and calls.
StreamText ==
    /\ pc = "stream"
    /\ Cardinality(OfKind(log, "delta") \cup OfKind(log, "warning")) < MaxTexts
    /\ \/ /\ \E n \in DeltaSizes : Emit(<<Delta(n)>>, "stream")
          /\ said' = TRUE
       \/ Emit(<<Warning>>, "stream") /\ UNCHANGED said
    /\ UNCHANGED <<calls, ratio, retries, nudges>>

StreamCall ==
    /\ pc = "stream" /\ Cardinality(OfKind(log, "call")) < MaxCalls
    /\ \E p \in Paths \cup {NoPath} : Emit(<<Call(p)>>, "stream")
    /\ calls' = IF pc' = "stream" THEN calls \cup {Len(log) + 1} ELSE calls
    /\ said' = TRUE
    /\ UNCHANGED <<ratio, retries, nudges>>

StreamEnds ==
    /\ pc = "stream"
    /\ pc' = "closed"
    /\ UNCHANGED <<log, turnVars>>

\* The provider says that the request is too long: a forced wave, and a retry.
\* The calls it has sent are forgotten.
ContextRetry ==
    /\ pc = "stream" /\ retries < MaxContextRetries
    /\ EmitEviction(FALSE, "compact")
    /\ retries' = retries + 1
    /\ calls' = {}
    /\ UNCHANGED <<said, ratio, nudges>>

\* Any other error ends the turn with a warning.
StreamFails ==
    /\ pc = "stream"
    /\ Emit(<<Warning>>, "idle")
    /\ calls' = {}
    /\ UNCHANGED <<said, ratio, retries, nudges>>

\* A cancel ends it too, and answers what is pending.
Skips(C) ==
    [k \in 1..Cardinality(C) |->
        LET c == CHOOSE c \in C : Cardinality({d \in C : d < c}) = k - 1
        IN Output(c, SkipSize, FALSE)]
Cancel ==
    /\ pc \in {"compact", "stream", "tool", "ran"}
    /\ Emit(Skips(calls), "idle")
    /\ calls' = {}
    /\ UNCHANGED <<said, ratio, retries, nudges>>

\* record_compactions, after the stream and after the tools: the provider's
\* count, if there is one, is the new ratio.
RecordCompactions ==
    /\ pc \in {"closed", "ran"}
    /\ \E r \in Ratios \cup {ratio} :
          /\ ratio' = r
          /\ Emit(IF SoftThreshold = 0 THEN <<>>
                  ELSE PlanCompactions(log, Calibrated(Window(log), r), SoftThreshold),
                  CASE pc = "ran" -> "compact"
                    [] pc # "ran" /\ calls # {} -> "tool"
                    [] OTHER -> "replied")
    /\ UNCHANGED <<calls, said, retries, nudges>>

\* An empty reply is answered by a message that asks for more, and in the end by
\* a warning.
Nudge ==
    /\ pc = "replied" /\ ~said /\ nudges < MaxEmptyRetries /\ LastTurn(log) < MaxTurns
    /\ Emit(<<User>>, "compact")
    /\ nudges' = nudges + 1
    /\ UNCHANGED <<calls, said, ratio, retries>>

Reply ==
    /\ pc = "replied" /\ (said \/ nudges = MaxEmptyRetries)
    /\ Emit(IF said THEN <<>> ELSE <<Warning>>, "idle")
    /\ UNCHANGED turnVars

\* The iteration cap: none of the calls is run or answered.
CapReached ==
    /\ pc = "tool" /\ \A r \in OfKind(log, "result"), c \in calls : r < c
    /\ Emit(<<Warning>>, "idle")
    /\ calls' = {}
    /\ UNCHANGED <<said, ratio, retries, nudges>>

NextCall == Min(calls)
AfterCall == IF calls = {NextCall} THEN "ran" ELSE "tool"

\* Mutant: the call that was run stays pending.
RunToolAgain ==
    /\ pc = "tool"
    /\ \E n \in OutputSizes, failed \in BOOLEAN : Emit(<<Output(NextCall, n, failed)>>, AfterCall)
    /\ UNCHANGED turnVars

\* A tool runs.
RunTool ==
    /\ pc = "tool"
    /\ \E n \in OutputSizes, failed \in BOOLEAN : Emit(<<Output(NextCall, n, failed)>>, AfterCall)
    /\ calls' = calls \ {NextCall}
    /\ UNCHANGED <<said, ratio, retries, nudges>>

\* The recall tool: those of its hits that are evicted come back, one by one.
Recall ==
    /\ pc = "tool" /\ log[NextCall].path = NoPath
    /\ Cardinality(OfKind(log, "readmitted")) < MaxRecalls
    /\ \E hits \in SUBSET Out(log), n \in OutputSizes :
          /\ hits # {} /\ Cardinality(hits) <= RecallLimit
          /\ Emit(<<Readmitted(hits), Output(NextCall, n, FALSE)>>, AfterCall)
    /\ calls' = calls \ {NextCall}
    /\ UNCHANGED <<said, ratio, retries, nudges>>

\* ask_user and apply_mode_mapping: the answer, or for a mapping what became of
\* it, is the result; a question that is not answered ends the turn.
AskUser ==
    /\ pc = "tool" /\ log[NextCall].path = NoPath
    /\ Cardinality(OfKind(log, "asked")) < MaxCards
    /\ \E a \in AnswerSizes :
          LET card == <<Asked(NextCall), Answered(NextCall, a)>>
          IN \/ \E n \in {a, EnrichedSize} : Emit(Append(card, Output(NextCall, n, FALSE)), AfterCall)
             \/ Emit(Append(card, Output(NextCall, a, TRUE)) \o Skips(calls \ {NextCall}), "idle")
    /\ calls' = IF pc' = "idle" THEN {} ELSE calls \ {NextCall}
    /\ UNCHANGED <<said, ratio, retries, nudges>>

\* `:compact', at any time: a task plans from a snapshot of the session, which the
\* turn's own compactions may overtake, and appends one by one.
CompactNow ==
    /\ Len(planned) + Cardinality(OfKind(aside, "compacted")) < MaxByHand
    /\ LET session == log \o aside
           current == Window(session) - Overhead + SystemTokens
       IN planned' = planned \o (IF SoftThreshold = 0 THEN <<>>
                                 ELSE PlanCompactions(session, current, SoftThreshold))
    /\ UNCHANGED <<log, pc, turnVars, aside>>

CompactionAppended ==
    /\ planned # <<>>
    /\ aside' = Append(aside, Head(planned))
    /\ planned' = Tail(planned)
    /\ UNCHANGED <<log, pc, turnVars>>

\* A subagent that a call dispatched reports, at any time.
SubagentReports ==
    /\ OfKind(log, "call") # {}
    /\ Cardinality(OfKind(log \o aside, "delegation")) < MaxReports
    /\ \E n \in ReportSizes : aside' = Append(aside, Delegated(n))
    /\ UNCHANGED <<log, pc, turnVars, planned>>

Gate == GateCompact \/ GateEvict \/ GateFloor \/ GateOverflow
Stream == StreamText \/ StreamCall \/ StreamEnds \/ ContextRetry \/ StreamFails
Replied == Nudge \/ Reply
Tools == CapReached \/ RunTool \/ Recall \/ AskUser
Run == Gate \/ Stream \/ Cancel \/ RecordCompactions \/ Replied \/ Tools
Others == CompactNow \/ CompactionAppended \/ SubagentReports
ContextNext == Ask \/ ReportWakes \/ (Run /\ UNCHANGED handVars) \/ Others
ContextSpec == ContextInit /\ [][ContextNext]_ctxVars
-----------------------------------------------------------------------------
(* Properties.                                                              *)

Pcs == {"idle", "compact", "evict", "floor", "overflow", "stream", "closed", "replied", "tool", "ran"}

\* What refers to an event refers to an earlier one of the right kind: a result,
\* a card and a compaction to a call, and a call has one result; the others to
\* events of the conversation.
EventOK(l, j) ==
    CASE l[j].kind = "user" -> l[j] = User
      [] l[j].kind = "warning" -> l[j] = Warning
      [] l[j].kind = "delta" -> l[j].size \in Nat /\ l[j] = Delta(l[j].size)
      [] l[j].kind = "delegation" -> l[j].size \in Nat /\ l[j] = Delegated(l[j].size)
      [] l[j].kind = "call" -> \E p \in Paths \cup {NoPath} : l[j] = Call(p)
      [] l[j].kind = "result" ->
            /\ l[j].size \in Nat /\ l[j].failed \in BOOLEAN
            /\ \E c \in OfKind(l, "call") : c < j /\ l[j] = Output(c, l[j].size, l[j].failed)
            /\ \A i \in OfKind(l, "result") : l[i].ref = l[j].ref => i = j
      [] l[j].kind = "asked" -> \E c \in OfKind(l, "call") : c < j /\ l[j] = Asked(c)
      [] l[j].kind = "answered" ->
            /\ l[j].size \in Nat
            /\ \E c \in OfKind(l, "call") : c < j /\ l[j] = Answered(c, l[j].size)
      [] l[j].kind = "compacted" ->
            /\ l[j].original \in Nat
            /\ \E r, q \in OfKind(l, "result") :
                  /\ r < j /\ q < j /\ (r = q \/ SameFile(l, l[r].ref, l[q].ref))
                  /\ l[j] = Compacted(l[r].ref, Summary(l[q].size), l[j].original)
      [] l[j].kind \in {"evicted", "readmitted"} ->
            /\ l[j] \in {Evicted(l[j].ids), Readmitted(l[j].ids)}
            /\ l[j].ids # {} /\ l[j].ids \subseteq Spoken(l) \cap 1..(j - 1)
      [] OTHER -> FALSE

\* The log is one the program writes, and the calls that wait for their tools have
\* no result yet.
ContextTypeOK ==
    /\ \A j \in DOMAIN log : EventOK(log, j)
    /\ pc \in Pcs /\ said \in BOOLEAN
    /\ ratio \in Ratios \cup {100} /\ retries \in 0..MaxContextRetries
    /\ nudges \in 0..MaxEmptyRetries
    /\ calls \subseteq OfKind(log, "call")
    /\ \A r \in OfKind(log, "result") : log[r].ref \notin calls
    /\ \A k \in DOMAIN planned : planned[k].kind = "compacted"
    /\ \A k \in DOMAIN (planned \o aside) :
          LET e == (planned \o aside)[k]
          IN CASE e.kind = "delegation" -> e.size \in Nat /\ e = Delegated(e.size)
               [] e.kind = "compacted" -> EventOK(Append(log, e), Len(log) + 1)
               [] OTHER -> FALSE

Reread(l) == \E c, d \in OfKind(l, "call") : c # d /\ SameFile(l, c, d)

\* When a request is built, and while its calls are run, the newest turn is in
\* it whole: the message it answers, and every call with its result
\* (compute_protection's hard floor, through four plans and a forced wave, and
\* with turns that start in the middle of one, as a nudge does).
NewestWhole ==
    pc \in {"stream", "tool"} => Ids(log, LastTurn(log)) \subseteq In(log)

\* What is in of a turn that is partly out was recalled: nothing else separates
\* a call from its result.
OnlyRecallSplits ==
    \A t \in 1..LastTurn(log) :
        LET ids == Ids(log, t)
        IN ids \cap Out(log) # {} =>
              ids \cap In(log) \subseteq UNION {log[j].ids : j \in OfKind(log, "readmitted")}

\* Of what the request carries, the window does not count the names of calls, the
\* reports of subagents and the answers on cards.
Uncounted(l) ==
    SumFunction([i \in In(l) |->
                    CASE l[i].kind = "call" -> l[i].name
                      [] l[i].kind = "delegation" -> l[i].size
                      [] l[i].kind = "asked" -> Answer(l, l[i].ref)
                      [] OTHER -> 0])
\* And it counts the results that cards replace.
Replaced(l) ==
    SumFunction([r \in {r \in OfKind(l, "result") \cap In(l) : Cards(l, l[r].ref) # {}} |->
                    Body(l, r)])

\* All else the window, which makes items of files and calls and joins texts,
\* and the request, which goes event by event, count alike, up to a token for
\* each event, as long as no file was read twice: whatever was compacted,
\* evicted and recalled, in whatever order (context_window_with against
\* conversation_for_branch).
WindowIsRequest ==
    ~Reread(log) =>
        LET window == 3 * (Window(log) - Overhead) + Uncounted(log)
            request == RequestSize(log) + Replaced(log)
        IN request <= window /\ window <= request + 2 * Cardinality(In(log))

\* What event_tokens counts of events beyond the window's share of them: the
\* names of calls, the reports, and a token for each delta.
Overweight(l, ids) ==
    SumFunction([i \in ids |->
                    CASE l[i].kind = "call" -> Tokens(l[i].name)
                      [] l[i].kind = "delegation" -> Tokens(l[i].size)
                      [] l[i].kind = "delta" -> 1
                      [] OTHER -> 0])

LastWave(l) ==
    IF OfKind(l, "evicted") = {} THEN {} ELSE l[Max(OfKind(l, "evicted"))].ids

\* The gate leaves a request over the high water mark only if no turn could be
\* paged out, or if its wave counted what the window never had: then it is over
\* the low water mark by no more than that, and the rounding of three tokens
\* (plan_evictions subtracts weights from an estimate that is not made of them).
\* A file that was read twice is reclaimed twice, and excepted.
GateEffective ==
    [][(pc = "overflow" /\ pc' = "stream" /\ ~Reread(log')
          /\ Estimate(log', ratio') >= HighWater
          /\ Candidates(log', Weights(log', ratio')) # {})
         => Estimate(log', ratio')
              <= LowWater + Scaled(Overweight(log', LastWave(log')), ratio') + 3]_ctxVars

\* A wave pages out whole turns of which nothing was out, and no turn any of
\* whose events a recall brought back fewer than MinProtectedTurns turns ago:
\* recall and eviction of the same turn cannot alternate within that distance
\* (the cooldown of group_turns).
WavesAreWhole ==
    [][\A e \in OfKind(log', "evicted") \ DOMAIN log :
          \A i \in log'[e].ids :
              /\ Ids(log, TurnOf(log, i)) \subseteq log'[e].ids \ Out(log)
              /\ \A j \in OfKind(log, "readmitted") :
                    i \in log[j].ids => LastTurn(log) - TurnOf(log, j) >= MinProtectedTurns]_ctxVars

\* What a reminder of the system prompt waits for never shrinks, as long as no
\* file was read twice: compaction keeps what it replaces (reassert.rs).
CumulativeGrows ==
    [][~Reread(log') => Cumulative(log') >= Cumulative(log)]_ctxVars

\* Every result in a request follows its call, and every call of an earlier
\* sub-turn that was answered has its result with it (the eviction unit is the
\* whole turn, so that tool_use and tool_result stay together).
PairsWhole ==
    pc = "stream" =>
        \A r \in OfKind(log, "result") : r \in In(log) <=> log[r].ref \in In(log)
=============================================================================
