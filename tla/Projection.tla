----------------------------- MODULE Projection -----------------------------
(***************************************************************************)
(* The conversation on the screen.                                         *)
(*                                                                         *)
(* What the user sees is a fold of the event log (projection.rs,           *)
(* conversation_for_branch).  To fold the whole log for every streamed     *)
(* word is too slow, so the main loop keeps the result, applies each event *)
(* of its own branch as it arrives (main.rs, ProjectionCache::apply_event) *)
(* and folds anew only when the lengths of log and cache differ: after an  *)
(* event it recorded itself, or one of a subagent's branch.  The two are   *)
(* written twice, and must agree.                                          *)
(*                                                                         *)
(* An event's id is its place in the log; a call's id is its event's.  A   *)
(* message is the list of the events it shows; `by' is the event that      *)
(* changed it since: the compaction of an output, the answer of a card.    *)
(***************************************************************************)
EXTENDS Naturals, Sequences, FiniteSets, FiniteSetsExt, Functions

CONSTANTS
    MaxLog,      \* bound: events of the log
    MaxTexts,    \* bound: messages of the user, streamed texts, and calls
    MaxMarks     \* bound: events of each other kind

ASSUME ProjectionAssumption == {MaxLog, MaxTexts, MaxMarks} \subseteq Nat

VARIABLES
    log,       \* App::events
    cache,     \* ProjectionCache: its length, messages, pending message, questions
    turn,      \* the turn that streams: idle, streaming, or running its tools
    base,      \* auxiliary: the length of the log at the last fold
    cuts       \* auxiliary: places where the cache ended a message early

projVars == <<log, cache, turn, base, cuts>>

-----------------------------------------------------------------------------
(* Events.                                                                  *)

Plain(kind) == [kind |-> kind]
About(kind, c) == [kind |-> kind, ref |-> c]
Marker(kind, ids) == [kind |-> kind, ids |-> ids]

OfKind(l, k) == {i \in DOMAIN l : l[i].kind = k}
RefersTo(l, k, c) == {i \in OfKind(l, k) : l[i].ref = c}
LastOrNone(S) == IF S = {} THEN 0 ELSE Max(S)
Texts == {"delta", "call"}

\* evicted_ids.
Out(l) ==
    {i \in DOMAIN l :
        \E e \in OfKind(l, "evicted") :
            i \in l[e].ids /\ \A r \in OfKind(l, "readmitted") : r > e => i \notin l[r].ids}

\* The results a question's card stands for.
Questions(l) == {l[i].ref : i \in OfKind(l, "asked")}

-----------------------------------------------------------------------------
(* Messages.                                                                *)

Msg(type, parts, by, think) == [type |-> type, parts |-> parts, by |-> by, think |-> think]
One(type, i) == Msg(type, <<i>>, 0, 0)

\* flush, flush_pending_assistant: without a text or a call, a thought is dropped.
Flush(acc) ==
    [acc EXCEPT !.msgs = IF acc.parts = <<>> THEN @
                         ELSE Append(@, Msg("assistant", acc.parts, 0, acc.think)),
                !.parts = <<>>, !.think = 0]
Push(acc, m) == [acc EXCEPT !.msgs = Append(@, m)]

-----------------------------------------------------------------------------
(* conversation_for_branch: the fold.                                       *)

NoMsgs == [msgs |-> <<>>, parts |-> <<>>, think |-> 0]

FoldEvent(l, out, acc, i) ==
    LET e == l[i]
    IN IF i \in out THEN acc
       ELSE CASE e.kind \in {"user", "said", "delegated", "evicted"} ->
                   Push(Flush(acc), One(e.kind, i))
              [] e.kind \in Texts -> [acc EXCEPT !.parts = Append(@, i)]
              [] e.kind = "thinking" -> [Flush(acc) EXCEPT !.think = i]
              [] e.kind = "result" ->
                   IF e.ref \in Questions(l) THEN Flush(acc)
                   ELSE Push(Flush(acc),
                             Msg("result", <<i>>, LastOrNone(RefersTo(l, "compacted", e.ref)), 0))
              [] e.kind \in {"asked", "approve"} ->
                   Push(Flush(acc),
                        Msg("card", <<i>>, LastOrNone(RefersTo(l, "answered", e.ref)), 0))
              [] OTHER -> acc

\* The last flush takes the thought, so that none is left for a message of its own.
Conversation(l) ==
    LET out == Out(l)
        acc[n \in 0..Len(l)] == IF n = 0 THEN NoMsgs ELSE FoldEvent(l, out, acc[n - 1], n)
    IN Flush(acc[Len(l)]).msgs

-----------------------------------------------------------------------------
(* ProjectionCache.                                                         *)

\* The latest message of a type that shows an event about c.
LatestAbout(l, msgs, type, c) ==
    LastOrNone({m \in DOMAIN msgs : msgs[m].type = type /\ l[msgs[m].parts[1]].ref = c})
\* Mutant: the change goes to the first message of the type.
AmendFirst(l, c, type, i) ==
    LET ms == {m \in DOMAIN c.msgs : c.msgs[m].type = type}
    IN IF ms = {} THEN c ELSE [c EXCEPT !.msgs[Min(ms)].by = i]
Amend(l, c, type, i) ==
    LET m == LatestAbout(l, c.msgs, type, l[i].ref)
    IN IF m = 0 THEN c ELSE [c EXCEPT !.msgs[m].by = i]

\* apply_event, to the last event of the log.
Applied(l, c, i) ==
    LET e == l[i]
    IN CASE e.kind \in Texts -> [c EXCEPT !.parts = Append(@, i)]
         [] e.kind \in {"user", "said", "delegated", "evicted"} -> Push(Flush(c), One(e.kind, i))
         [] e.kind = "thinking" -> [Flush(c) EXCEPT !.think = i]
         [] e.kind = "result" ->
              IF e.ref \in c.questions THEN Flush(c) ELSE Push(Flush(c), One("result", i))
         [] e.kind \in {"asked", "approve"} ->
              [Push(Flush(c), One("card", i)) EXCEPT
                  !.questions = IF e.kind = "asked" THEN @ \cup {e.ref} ELSE @]
         [] e.kind = "answered" -> Amend(l, c, "card", i)
         [] e.kind = "compacted" -> Amend(l, c, "result", i)
         [] OTHER -> c

\* Mutant: a message of the system goes past the answer that streams.
ApplyEventPast(l, c) ==
    IF l[Len(l)].kind = "said" THEN [Push(c, One("said", Len(l))) EXCEPT !.len = @ + 1]
    ELSE [Applied(l, c, Len(l)) EXCEPT !.len = @ + 1]
ApplyEvent(l, c) == [Applied(l, c, Len(l)) EXCEPT !.len = @ + 1]

\* finalize_pending, at the end of a turn: a thought alone is a message.
FinalizePending(c) ==
    IF c.parts = <<>> /\ c.think # 0
    THEN [c EXCEPT !.msgs = Append(@, Msg("assistant", <<>>, 0, c.think)), !.think = 0]
    ELSE Flush(c)

\* A fold of the whole log.
FullRefresh(l) ==
    [len |-> Len(l), msgs |-> Conversation(l), parts |-> <<>>, think |-> 0,
     questions |-> Questions(l)]

\* Mutant: no fold while an answer streams.
RefreshWhenQuiet(l, c) == IF c.len = Len(l) \/ c.parts # <<>> THEN c ELSE FullRefresh(l)

\* refresh, which runs before each frame, that is after each step.
Refresh(l, c) == IF c.len = Len(l) THEN c ELSE FullRefresh(l)

ProjectionInit ==
    /\ log = <<>>
    /\ cache = FullRefresh(<<>>)
    /\ turn = "idle"
    /\ base = 0
    /\ cuts = {}

\* A message that the cache ends here although it may go on.
Cut(c, l) == IF c.parts = <<>> THEN {} ELSE {Len(l)}

\* The next frame, with the log l and the cache c.
Frame(l, c) ==
    /\ log' = l
    /\ cache' = Refresh(l, c)
    /\ IF c.len = Len(l) THEN UNCHANGED <<base, cuts>>
       ELSE base' = Len(l) /\ cuts' = cuts \cup Cut(c, log)

\* Appended, an event of a turn or of a subagent's report.
Appended(e) ==
    /\ Len(log) < MaxLog
    /\ LET l == Append(log, e) IN Frame(l, ApplyEvent(l, cache))

\* App::record, and Appended with an event of another branch: the event goes
\* into the log alone.
Recorded(e) ==
    /\ Len(log) < MaxLog
    /\ Frame(Append(log, e), cache)

-----------------------------------------------------------------------------
(* What the program appends, and when.                                      *)

Unanswered == {c \in OfKind(log, "call") : RefersTo(log, "result", c) = {}}
\* The call whose tool runs: the calls of a sub-turn are answered in order.
Current == Min(Unanswered)
Fewer(kind, n) == Cardinality(OfKind(log, kind)) < n

\* A message of the user, or of a wake, starts a turn.
Submit ==
    /\ turn = "idle" /\ Fewer("user", MaxTexts) /\ Recorded(Plain("user"))
    /\ turn' = "stream"

\* A subagent's result, seen before, starts a turn without a message.
Continue ==
    /\ turn = "idle" /\ OfKind(log, "delegated") # {}
    /\ turn' = "stream"
    /\ UNCHANGED <<log, cache, base, cuts>>

\* The model's stream; the thought of an answer comes after its text.
StreamText ==
    /\ turn = "stream" /\ Fewer("delta", MaxTexts)
    /\ Appended(Plain("delta"))
    /\ UNCHANGED turn

StreamCall ==
    /\ turn = "stream" /\ Fewer("call", MaxTexts)
    /\ Appended(Plain("call"))
    /\ UNCHANGED turn

StreamThought ==
    /\ turn = "stream" /\ Unanswered = {} /\ Fewer("thinking", MaxMarks)
    /\ Appended(Plain("thinking"))
    /\ turn' = "over"

\* A warning, or the nudge after an empty reply.
StreamMessage ==
    /\ turn = "stream" /\ Unanswered = {}
    /\ \/ Fewer("said", MaxMarks) /\ Appended(Plain("said"))
       \/ Fewer("user", MaxTexts) /\ Appended(Plain("user"))
    /\ UNCHANGED turn

\* The stream closes with calls: their tools run.
RunTools ==
    /\ turn = "stream" /\ Unanswered # {}
    /\ turn' = "tools"
    /\ UNCHANGED <<log, cache, base, cuts>>

\* A question to the user, of a tool or of the gate; its answer; the result.
AskUser ==
    /\ turn = "tools" /\ Unanswered # {}
    /\ RefersTo(log, "asked", Current) \cup RefersTo(log, "approve", Current) = {}
    /\ \E kind \in {"asked", "approve"} : Appended(About(kind, Current))
    /\ UNCHANGED turn

Answer ==
    /\ turn = "tools" /\ Unanswered # {}
    /\ RefersTo(log, "asked", Current) \cup RefersTo(log, "approve", Current) # {}
    /\ RefersTo(log, "answered", Current) = {}
    /\ Appended(About("answered", Current))
    /\ UNCHANGED turn

ToolResult ==
    /\ turn = "tools" /\ Unanswered # {}
    /\ Appended(About("result", Current))
    /\ turn' = IF Cardinality(Unanswered) = 1 THEN "stream" ELSE "tools"

\* The gate pages out a turn that is not the newest; the recall tool brings
\* back an event of it; a result is compacted, also by the user's `:compact'.
TurnBefore(u) ==
    {i \in DOMAIN log :
        /\ i < u /\ \A v \in OfKind(log, "user") : v < u => v <= i
        /\ log[i].kind \notin {"mark", "evicted", "readmitted", "compacted"}}
Evict ==
    /\ turn = "stream" /\ Unanswered = {} /\ Fewer("evicted", MaxMarks)
    /\ \E u \in OfKind(log, "user") :
          /\ TurnBefore(u) # {} /\ TurnBefore(u) \cap Out(log) = {}
          /\ Appended(Marker("evicted", TurnBefore(u)))
    /\ UNCHANGED turn

Readmit ==
    /\ turn = "tools" /\ Unanswered # {} /\ Fewer("readmitted", MaxMarks)
    /\ \E i \in Out(log) : Appended(Marker("readmitted", {i}))
    /\ UNCHANGED turn

CompactResult ==
    /\ Fewer("compacted", MaxMarks)
    /\ \E r \in OfKind(log, "result") : Appended(About("compacted", log[r].ref))
    /\ UNCHANGED turn

\* A subagent's report, at any time.
Delegated ==
    /\ Fewer("delegated", MaxMarks)
    /\ Appended(Plain("delegated"))
    /\ UNCHANGED turn

\* Usage and other markers of the turn; a wake the main loop records; an event
\* of a subagent's own branch.
Bookkeeping ==
    /\ Fewer("mark", MaxMarks)
    /\ \/ turn # "idle" /\ Appended(Plain("mark"))
       \/ Recorded(Plain("mark"))
    /\ UNCHANGED turn

\* TurnComplete: also of a turn that was cancelled or has failed.
TurnComplete ==
    /\ turn # "idle"
    /\ turn' = "idle"
    /\ cache' = FinalizePending(cache)
    /\ cuts' = cuts \cup Cut(cache, log)
    /\ UNCHANGED <<log, base>>

ProjectionNext ==
    \/ Submit \/ Continue \/ StreamText \/ StreamCall \/ StreamThought \/ StreamMessage
    \/ RunTools \/ AskUser \/ Answer \/ ToolResult
    \/ Evict \/ Readmit \/ CompactResult \/ Delegated \/ Bookkeeping \/ TurnComplete
ProjectionSpec == ProjectionInit /\ [][ProjectionNext]_projVars

-----------------------------------------------------------------------------
(* Properties.                                                              *)

\* Everything has its type, and after a frame the cache is as long as the log.
ProjectionTypeOK ==
    /\ turn \in {"idle", "stream", "tools", "over"}
    /\ cache.len = Len(log) /\ base \in 0..Len(log) /\ cuts \subseteq 1..Len(log)
    /\ \A i \in Range(cache.parts) : i \in DOMAIN log /\ log[i].kind \in Texts
    /\ cache.think \in OfKind(log, "thinking") \cup {0}
    /\ \A m \in Range(cache.msgs) :
          /\ Range(m.parts) \subseteq DOMAIN log
          /\ IF m.type = "assistant" THEN m.parts # <<>> \/ m.think # 0 ELSE Len(m.parts) = 1

\* What the conversation has a place for: no marker, no bare answer of a question.
Showable ==
    {i \in DOMAIN log :
        log[i].kind \in Texts \cup {"user", "said", "delegated", "evicted", "asked", "approve"}}
    \cup {r \in OfKind(log, "result") : log[r].ref \notin Questions(log)}

\* The messages, the one that streams at the end.
Screen == Flush(cache).msgs

\* The screen shows every event that the conversation has a place for once and
\* in the order of the log, whichever of the two implementations put it there;
\* only what was paged out by the last fold is missing.  An output is shown with
\* its last compaction, a card with its last answer.
ShowsTheLog ==
    /\ UNION {Range(m.parts) : m \in Range(Screen)} = Showable \ Out(SubSeq(log, 1, base))
    /\ \A a, b \in DOMAIN Screen : \A x \in DOMAIN Screen[a].parts, y \in DOMAIN Screen[b].parts :
          a < b \/ (a = b /\ x < y) => Screen[a].parts[x] < Screen[b].parts[y]
    /\ \A m \in Range(cache.msgs) :
          /\ m.type = "result" => m.by = LastOrNone(RefersTo(log, "compacted", log[m.parts[1]].ref))
          /\ m.type = "card" => m.by = LastOrNone(RefersTo(log, "answered", log[m.parts[1]].ref))
    /\ cache.questions = Questions(log)

\* Two texts are in one message of the screen exactly if the fold puts them in
\* one; the screen may also part them where a fold in the middle of a stream, or
\* the end of a turn, closed the message.
Kept ==
    {i \in DOMAIN log :
        log[i].kind \in Texts /\ \A e \in OfKind(log, "evicted") : i \notin log[e].ids}
Together(msgs, i, j) == \E m \in Range(msgs) : {i, j} \subseteq Range(m.parts)
SplitsOnlyAtCuts ==
    LET fold == Conversation(log)
    IN \A i, j \in Kept :
          i < j => /\ Together(Screen, i, j) => Together(fold, i, j)
                   /\ Together(fold, i, j) /\ cuts \cap i..(j - 1) = {} => Together(Screen, i, j)
=============================================================================
