-------------------------- MODULE ProjectionProofs --------------------------
(***************************************************************************)
(* Proofs about Projection, for logs of any length: the two folds of the   *)
(* log agree.                                                              *)
(*                                                                         *)
(* Both keep the messages that are closed and the parts of the one that is *)
(* not.  Shape says what they hold after the first n events of the log,    *)
(* Joins which texts are in one message; both are kept by the one step     *)
(* that the two implementations share, FoldEvent.                          *)
(***************************************************************************)
EXTENDS Projection, SumTheorems, SequenceTheorems, TLAPS

PlainKinds == {"user", "said", "delegated", "thinking", "delta", "call", "mark"}
AboutKinds == {"asked", "approve", "answered", "result", "compacted"}
Events ==
    {Plain(k) : k \in PlainKinds}
      \cup {About(k, c) : k \in AboutKinds, c \in Nat}
      \cup {Marker(k, ids) : k \in {"evicted", "readmitted"}, ids \in SUBSET Nat}

-----------------------------------------------------------------------------
(* The log.                                                                 *)

Txt(l) == {i \in DOMAIN l : l[i].kind \in Texts}
Cards(l) == OfKind(l, "asked") \cup OfKind(l, "approve")
\* The events that close a message.
Closers(l) ==
    {k \in DOMAIN l : l[k].kind \in {"user", "said", "delegated", "evicted", "thinking",
                                     "result", "asked", "approve"}}
TurnIds(l, u) ==
    {i \in DOMAIN l :
        /\ i < u /\ \A v \in OfKind(l, "user") : v < u => v <= i
        /\ l[i].kind \notin {"mark", "evicted", "readmitted", "compacted"}}

\* A call has one result and one card, compactions and answers come after what
\* they are about, and what is paged out is a turn that another one follows.
LogInv(l) ==
    /\ l \in Seq(Events)
    /\ \A q, r \in OfKind(l, "result") : l[q].ref = l[r].ref => q = r
    /\ \A q, r \in Cards(l) : l[q].ref = l[r].ref => q = r
    /\ \A j \in OfKind(l, "compacted") : \E r \in OfKind(l, "result") : l[r].ref = l[j].ref
    /\ \A j \in OfKind(l, "answered") : \E r \in Cards(l) : l[r].ref = l[j].ref
    /\ \A e \in OfKind(l, "evicted") : \E u \in OfKind(l, "user") : u < e /\ l[e].ids = TurnIds(l, u)

\* What may be appended.
Fits(l, e) ==
    \/ \E k \in PlainKinds : e = Plain(k)
    \/ \E k \in {"asked", "approve"}, c \in Nat :
          /\ e = About(k, c)
          /\ \A r \in OfKind(l, "result") \cup Cards(l) : l[r].ref # c
    \/ \E r \in Cards(l) : l[r].ref \in Nat /\ e = About("answered", l[r].ref)
    \/ \E c \in Nat : e = About("result", c) /\ \A r \in OfKind(l, "result") : l[r].ref # c
    \/ \E r \in OfKind(l, "result") : l[r].ref \in Nat /\ e = About("compacted", l[r].ref)
    \/ \E u \in OfKind(l, "user") : e = Marker("evicted", TurnIds(l, u))
    \/ \E ids \in SUBSET Nat : e = Marker("readmitted", ids)

LEMMA KindsOfEvents ==
    /\ \A k : Plain(k).kind = k
    /\ \A k, c : About(k, c).kind = k /\ About(k, c).ref = c
    /\ \A k, ids : Marker(k, ids).kind = k /\ Marker(k, ids).ids = ids
  BY DEF Plain, About, Marker

LEMMA LogShape ==
    ASSUME NEW l \in Seq(Events)
    PROVE  /\ Len(l) \in Nat /\ DOMAIN l = 1..Len(l)
           /\ \A i \in DOMAIN l : l[i] \in Events /\ l[i].kind \in PlainKinds \cup AboutKinds \cup {"evicted", "readmitted"}
           /\ \A k : OfKind(l, k) \subseteq 1..Len(l)
  <1>1. Len(l) \in Nat /\ DOMAIN l = 1..Len(l) /\ \A i \in DOMAIN l : l[i] \in Events
    BY LenProperties, ElementOfSeq
  <1>2. \A e \in Events : e.kind \in PlainKinds \cup AboutKinds \cup {"evicted", "readmitted"}
    BY KindsOfEvents DEF Events
  <1> QED
    BY <1>1, <1>2 DEF OfKind

\* m is l with one more event.
Grows(l, e, m) == m = Append(l, e)

LEMMA Grown ==
    ASSUME NEW l \in Seq(Events), NEW e \in Events, NEW m, Grows(l, e, m)
    PROVE  /\ m \in Seq(Events) /\ Len(m) = Len(l) + 1 /\ Len(l) \in Nat
           /\ DOMAIN l = 1..Len(l) /\ DOMAIN m = DOMAIN l \cup {Len(m)} /\ Len(m) \notin DOMAIN l
           /\ m[Len(m)] = e /\ \A i \in DOMAIN l : m[i] = l[i] /\ i < Len(m)
  <1>1. /\ m \in Seq(Events) /\ Len(m) = Len(l) + 1 /\ Len(l) \in Nat
        /\ DOMAIN l = 1..Len(l) /\ DOMAIN m = 1..Len(m)
        /\ m[Len(m)] = e /\ \A i \in 1..Len(l) : m[i] = l[i]
    BY AppendProperties, LenProperties DEF Grows
  <1> QED
    BY <1>1

LEMMA GrownKinds ==
    ASSUME NEW l \in Seq(Events), NEW e \in Events, NEW m, Grows(l, e, m)
    PROVE  \A k : OfKind(m, k) = OfKind(l, k) \cup {i \in {Len(m)} : e.kind = k}
  <1>1. /\ m \in Seq(Events) /\ Len(m) = Len(l) + 1 /\ Len(l) \in Nat
        /\ DOMAIN l = 1..Len(l) /\ DOMAIN m = DOMAIN l \cup {Len(m)} /\ Len(m) \notin DOMAIN l
        /\ m[Len(m)] = e /\ \A i \in DOMAIN l : m[i] = l[i] /\ i < Len(m)
    BY Grown
  <1> QED
    BY <1>1 DEF OfKind

LEMMA NoneOfOthers ==
    ASSUME NEW l \in Seq(Events), NEW e \in Events, NEW m, Grows(l, e, m), NEW kind, kind # e.kind
    PROVE  OfKind(m, kind) = OfKind(l, kind) /\ \A c : RefersTo(m, kind, c) = RefersTo(l, kind, c)
  <1>1. /\ m \in Seq(Events) /\ Len(m) = Len(l) + 1 /\ Len(l) \in Nat
        /\ DOMAIN l = 1..Len(l) /\ DOMAIN m = DOMAIN l \cup {Len(m)} /\ Len(m) \notin DOMAIN l
        /\ m[Len(m)] = e /\ \A i \in DOMAIN l : m[i] = l[i] /\ i < Len(m)
    BY Grown
  <1>2. OfKind(m, kind) = OfKind(l, kind)
    BY <1>1 DEF OfKind
  <1>3. \A i \in OfKind(l, kind) : m[i] = l[i]
    BY <1>1 DEF OfKind
  <1> QED
    BY <1>2, <1>3 DEF RefersTo

LEMMA FitsIsEvent ==
    ASSUME NEW l \in Seq(Events), NEW e, Fits(l, e)
    PROVE  /\ e \in Events
           /\ e.kind \in {"asked", "approve"} => \A r \in OfKind(l, "result") \cup Cards(l) : l[r].ref # e.ref
           /\ e.kind = "answered" => \E r \in Cards(l) : l[r].ref = e.ref
           /\ e.kind = "result" => \A r \in OfKind(l, "result") : l[r].ref # e.ref
           /\ e.kind = "compacted" => \E r \in OfKind(l, "result") : l[r].ref = e.ref
           /\ e.kind = "evicted" => \E u \in OfKind(l, "user") : e.ids = TurnIds(l, u)
  <1>1. \A u : TurnIds(l, u) \in SUBSET Nat
    BY LogShape DEF TurnIds
  <1>2. CASE \E k \in PlainKinds : e = Plain(k)
    BY <1>2, KindsOfEvents DEF Events, PlainKinds
  <1>3. CASE \E k \in {"asked", "approve"}, c \in Nat :
                /\ e = About(k, c)
                /\ \A r \in OfKind(l, "result") \cup Cards(l) : l[r].ref # c
    BY <1>3, KindsOfEvents DEF Events, AboutKinds
  <1>4. CASE \E r \in Cards(l) : l[r].ref \in Nat /\ e = About("answered", l[r].ref)
    BY <1>4, KindsOfEvents DEF Events, AboutKinds
  <1>5. CASE \E c \in Nat : e = About("result", c) /\ \A r \in OfKind(l, "result") : l[r].ref # c
    BY <1>5, KindsOfEvents DEF Events, AboutKinds
  <1>6. CASE \E r \in OfKind(l, "result") : l[r].ref \in Nat /\ e = About("compacted", l[r].ref)
    BY <1>6, KindsOfEvents DEF Events, AboutKinds
  <1>7. CASE \E u \in OfKind(l, "user") : e = Marker("evicted", TurnIds(l, u))
    BY <1>1, <1>7, KindsOfEvents DEF Events
  <1>8. CASE \E ids \in SUBSET Nat : e = Marker("readmitted", ids)
    BY <1>8, KindsOfEvents DEF Events
  <1> QED
    BY <1>2, <1>3, <1>4, <1>5, <1>6, <1>7, <1>8 DEF Fits

LEMMA FitsKeepsLog ==
    ASSUME NEW l, LogInv(l), NEW e, Fits(l, e), NEW m, Grows(l, e, m)
    PROVE  LogInv(m)
  <1> DEFINE n == Len(m)
  <1>1. l \in Seq(Events) /\ e \in Events
    BY FitsIsEvent DEF LogInv
  <1>2. /\ m \in Seq(Events) /\ n \notin DOMAIN l /\ m[n] = e
        /\ DOMAIN m = DOMAIN l \cup {n} /\ n \in Nat
        /\ \A i \in DOMAIN l : m[i] = l[i] /\ i < n /\ i \in Nat
        /\ \A k : OfKind(m, k) = OfKind(l, k) \cup {i \in {n} : e.kind = k}
    <2>1. /\ m \in Seq(Events) /\ n = Len(l) + 1 /\ Len(l) \in Nat
          /\ DOMAIN l = 1..Len(l) /\ DOMAIN m = DOMAIN l \cup {n} /\ n \notin DOMAIN l
          /\ m[n] = e /\ \A i \in DOMAIN l : m[i] = l[i] /\ i < n
      BY <1>1, Grown
    <2>2. \A k : OfKind(m, k) = OfKind(l, k) \cup {i \in {n} : e.kind = k}
      BY <1>1, GrownKinds
    <2> QED
      BY <2>1, <2>2
  <1> HIDE DEF n
  <1>3. \A k : OfKind(l, k) \subseteq DOMAIN l
    BY DEF OfKind
  <1>4. \A q, r \in OfKind(m, "result") : m[q].ref = m[r].ref => q = r
    <2>1. e.kind = "result" => \A r \in OfKind(l, "result") : l[r].ref # e.ref
      BY <1>1, FitsIsEvent
    <2>2. \A r \in OfKind(l, "result") : m[r] = l[r]
      BY <1>2, <1>3
    <2>3. \A r \in OfKind(m, "result") : r \in OfKind(l, "result") \/ (r = n /\ e.kind = "result")
      BY <1>2
    <2>4. \A q, r \in OfKind(l, "result") : l[q].ref = l[r].ref => q = r
      BY DEF LogInv
    <2> QED
      BY <1>2, <2>1, <2>2, <2>3, <2>4
  <1>5. \A q, r \in Cards(m) : m[q].ref = m[r].ref => q = r
    BY <1>1, <1>2, <1>3, FitsIsEvent DEF LogInv, Cards
  <1>6. \A j \in OfKind(m, "compacted") : \E r \in OfKind(m, "result") : m[r].ref = m[j].ref
    BY <1>1, <1>2, <1>3, FitsIsEvent DEF LogInv
  <1>7. \A j \in OfKind(m, "answered") : \E r \in Cards(m) : m[r].ref = m[j].ref
    BY <1>1, <1>2, <1>3, FitsIsEvent DEF LogInv, Cards
  <1>8. \A u \in OfKind(l, "user") : TurnIds(m, u) = TurnIds(l, u)
    <2> SUFFICES ASSUME NEW u \in OfKind(l, "user") PROVE TurnIds(m, u) = TurnIds(l, u)
      OBVIOUS
    <2>1. u < n /\ u \in Nat
      BY <1>2, <1>3
    <2>2. \A i \in DOMAIN m : i < u => i \in DOMAIN l /\ m[i] = l[i]
      BY <1>2, <2>1
    <2>3. \A v : v \in OfKind(m, "user") /\ v < u <=> v \in OfKind(l, "user") /\ v < u
      BY <1>2, <1>3, <2>1
    <2> QED
      BY <1>2, <2>2, <2>3 DEF TurnIds
  <1>9. \A x \in OfKind(m, "evicted") : \E u \in OfKind(m, "user") : u < x /\ m[x].ids = TurnIds(m, u)
    <2> SUFFICES ASSUME NEW x \in OfKind(m, "evicted")
                 PROVE  \E u \in OfKind(l, "user") : u < x /\ m[x].ids = TurnIds(l, u)
      BY <1>2, <1>8
    <2>1. CASE x \in DOMAIN l
      BY <1>2, <1>3, <2>1 DEF LogInv
    <2>2. CASE x = n
      BY <1>1, <1>2, <1>3, <2>2, FitsIsEvent
    <2> QED
      BY <1>2, <1>3, <2>1, <2>2
  <1> QED
    BY <1>2, <1>4, <1>5, <1>6, <1>7, <1>9 DEF LogInv

-----------------------------------------------------------------------------
(* Messages.                                                                *)

Messages ==
    [type : {"assistant", "user", "said", "delegated", "evicted", "result", "card"},
     parts : Seq(Nat), by : Nat, think : Nat]
Accs(a) ==
    /\ {"msgs", "parts", "think"} \subseteq DOMAIN a
    /\ a.msgs \in Seq(Messages) /\ a.parts \in Seq(Nat) /\ a.think \in Nat

Increasing(s) == \A x, y \in DOMAIN s : x < y => s[x] < s[y]
Below(S, T) == \A p \in S, q \in T : p < q
PartsOf(msgs) == UNION {Range(m.parts) : m \in Range(msgs)}
Sorted(msgs) ==
    /\ \A m \in Range(msgs) : Increasing(m.parts)
    /\ \A a, b \in DOMAIN msgs : a < b => Below(Range(msgs[a].parts), Range(msgs[b].parts))

LEMMA AppendFacts ==
    ASSUME NEW S, NEW s \in Seq(S), NEW x \in S
    PROVE  /\ Append(s, x) \in Seq(S) /\ Append(s, x) # <<>>
           /\ Len(s) \in Nat /\ DOMAIN s = 1..Len(s)
           /\ DOMAIN Append(s, x) = DOMAIN s \cup {Len(s) + 1} /\ Len(s) + 1 \notin DOMAIN s
           /\ Append(s, x)[Len(s) + 1] = x /\ \A i \in DOMAIN s : Append(s, x)[i] = s[i] /\ i < Len(s) + 1
           /\ Range(Append(s, x)) = Range(s) \cup {x} /\ Range(s) \subseteq S
  <1> DEFINE t == Append(s, x)
  <1>1. /\ t \in Seq(S) /\ Len(t) = Len(s) + 1 /\ Len(s) \in Nat
        /\ DOMAIN s = 1..Len(s) /\ DOMAIN t = 1..Len(t)
        /\ t[Len(s) + 1] = x /\ \A i \in 1..Len(s) : t[i] = s[i]
    BY AppendProperties, LenProperties
  <1>2. \A i \in DOMAIN s : s[i] \in S
    BY ElementOfSeq, <1>1
  <1> HIDE DEF t
  <1>3. t # <<>>
    BY <1>1
  <1>4. DOMAIN t = DOMAIN s \cup {Len(s) + 1} /\ Len(s) + 1 \notin DOMAIN s
    BY <1>1
  <1>5. Range(t) = Range(s) \cup {x} /\ Range(s) \subseteq S
    BY <1>1, <1>2, <1>4 DEF Range
  <1> QED
    BY <1>1, <1>3, <1>4, <1>5 DEF t

\* One more message, of later events.
LEMMA PushSorted ==
    ASSUME NEW msgs \in Seq(Messages), Sorted(msgs), NEW m \in Messages,
           Increasing(m.parts), Below(PartsOf(msgs), Range(m.parts)),
           NEW more, more = Append(msgs, m)
    PROVE  /\ more \in Seq(Messages) /\ Sorted(more)
           /\ Range(more) = Range(msgs) \cup {m}
           /\ PartsOf(more) = PartsOf(msgs) \cup Range(m.parts)
           /\ \A i, j : Together(more, i, j) <=> Together(msgs, i, j) \/ {i, j} \subseteq Range(m.parts)
  <1> DEFINE n == Len(msgs) + 1
  <1>1. /\ more \in Seq(Messages) /\ Range(more) = Range(msgs) \cup {m}
        /\ DOMAIN more = DOMAIN msgs \cup {n} /\ n \notin DOMAIN msgs /\ DOMAIN msgs = 1..Len(msgs) /\ Len(msgs) \in Nat
        /\ more[n] = m /\ \A i \in DOMAIN msgs : more[i] = msgs[i] /\ i < n
    BY AppendFacts
  <1>2. PartsOf(more) = PartsOf(msgs) \cup Range(m.parts)
    BY <1>1 DEF PartsOf
  <1>3. \A i, j : Together(more, i, j) <=> Together(msgs, i, j) \/ {i, j} \subseteq Range(m.parts)
    BY <1>1 DEF Together
  <1>4. \A a \in DOMAIN msgs : Range(msgs[a].parts) \subseteq PartsOf(msgs)
    BY DEF PartsOf, Range
  <1>5. Sorted(more)
    <2>1. \A x \in Range(more) : Increasing(x.parts)
      BY <1>1 DEF Sorted
    <2>2. ASSUME NEW a \in DOMAIN more, NEW b \in DOMAIN more, a < b
          PROVE  Below(Range(more[a].parts), Range(more[b].parts))
      <3>1. n \in Nat /\ \A i \in DOMAIN msgs : i \in Nat
        BY <1>1
      <3> HIDE DEF n
      <3>2. a \in DOMAIN msgs
        BY <1>1, <2>2, <3>1
      <3>3. CASE b \in DOMAIN msgs
        BY <1>1, <2>2, <3>2, <3>3 DEF Sorted
      <3>4. CASE b = n
        BY <1>1, <1>4, <3>2, <3>4 DEF Below
      <3> QED
        BY <1>1, <3>3, <3>4
    <2> QED
      BY <2>1, <2>2 DEF Sorted
  <1> QED
    BY <1>1, <1>2, <1>3, <1>5

LEMMA EmptyMessages ==
    /\ <<>> \in Seq(Messages) /\ <<>> \in Seq(Nat) /\ Sorted(<<>>) /\ Increasing(<<>>)
    /\ PartsOf(<<>>) = {} /\ Range(<<>>) = {} /\ \A i, j : ~Together(<<>>, i, j)
  <1>1. <<>> \in Seq(Messages) /\ <<>> \in Seq(Nat) /\ DOMAIN <<>> = {}
    BY EmptySeq
  <1>2. Range(<<>>) = {}
    BY <1>1 DEF Range
  <1> QED
    BY <1>1, <1>2 DEF Sorted, Increasing, PartsOf, Together

\* The parts of a message of one event.
LEMMA SinglePart ==
    ASSUME NEW i \in Nat
    PROVE  /\ <<i>> \in Seq(Nat) /\ <<i>>[1] = i /\ Len(<<i>>) = 1
           /\ Increasing(<<i>>) /\ Range(<<i>>) = {i}
  <1>1. <<i>> \in Seq(Nat) /\ DOMAIN <<i>> = {1} /\ <<i>>[1] = i /\ Len(<<i>>) = 1
    OBVIOUS
  <1> QED
    BY <1>1 DEF Increasing, Range

-----------------------------------------------------------------------------
(* What a fold holds after the first n events.                              *)

ShowableIn(l) ==
    {i \in DOMAIN l :
        l[i].kind \in Texts \cup {"user", "said", "delegated", "evicted", "asked", "approve"}}
    \cup {r \in OfKind(l, "result") : l[r].ref \notin Questions(l)}
ShowsUpTo(l, n, out) == {i \in ShowableIn(l) : i <= n} \ out

MessageOK(l, m) ==
    /\ m.type = "assistant" => Range(m.parts) \subseteq Txt(l) /\ (m.parts # <<>> \/ m.think # 0)
    /\ m.type # "assistant" => Len(m.parts) = 1
    /\ m.type = "result" =>
          /\ m.parts[1] \in OfKind(l, "result")
          /\ m.by = LastOrNone(RefersTo(l, "compacted", l[m.parts[1]].ref))
    /\ m.type = "card" =>
          /\ m.parts[1] \in Cards(l)
          /\ m.by = LastOrNone(RefersTo(l, "answered", l[m.parts[1]].ref))

Shape(l, n, out, a) ==
    /\ Accs(a)
    /\ Sorted(a.msgs) /\ Increasing(a.parts) /\ Below(PartsOf(a.msgs), Range(a.parts))
    /\ Range(a.parts) \subseteq Txt(l) /\ a.think \in OfKind(l, "thinking") \cup {0}
    /\ PartsOf(a.msgs) \cup Range(a.parts) = ShowsUpTo(l, n, out)
    /\ \A m \in Range(a.msgs) : MessageOK(l, m)

LEMMA ShowableIsEvent ==
    ASSUME NEW l \in Seq(Events), NEW i
    PROVE  /\ i \in ShowableIn(l) <=>
                 /\ i \in DOMAIN l
                 /\ \/ l[i].kind \in Texts \cup {"user", "said", "delegated", "evicted", "asked", "approve"}
                    \/ l[i].kind = "result" /\ l[i].ref \notin Questions(l)
           /\ i \in ShowableIn(l) => i \in Nat
  <1>1. i \in DOMAIN l => i \in Nat
    BY LogShape
  <1> QED
    BY <1>1 DEF ShowableIn, OfKind

\* Two texts in one message, closed or not.
Tog(a, i, j) == Together(a.msgs, i, j) \/ {i, j} \subseteq Range(a.parts)

LEMMA LastIsNat ==
    ASSUME NEW l \in Seq(Events), NEW k, NEW c
    PROVE  LastOrNone(RefersTo(l, k, c)) \in Nat
  <1> DEFINE S == RefersTo(l, k, c)
  <1>1. S \subseteq 0..Len(l) /\ Len(l) \in Nat
    BY LogShape DEF RefersTo
  <1> HIDE DEF S
  <1>2. ASSUME S # {}
        PROVE  Max(S) \in S
    BY <1>1, <1>2, BoundedMax
  <1>3. LastOrNone(S) \in Nat
    <2>1. \A x \in S : x \in Nat
      BY <1>1
    <2> QED
      BY <1>2, <2>1 DEF LastOrNone
  <1> QED
    BY <1>3 DEF S

LEMMA FlushFields ==
    ASSUME NEW a, Accs(a)
    PROVE  /\ Flush(a).msgs = IF a.parts = <<>> THEN a.msgs
                              ELSE Append(a.msgs, Msg("assistant", a.parts, 0, a.think))
           /\ Flush(a).parts = <<>> /\ Flush(a).think = 0
           /\ DOMAIN Flush(a) = DOMAIN a
           /\ \A f \in DOMAIN a \ {"msgs", "parts", "think"} : Flush(a)[f] = a[f]
  BY DEF Flush, Accs

LEMMA FlushKeeps ==
    ASSUME NEW l \in Seq(Events), NEW n, NEW out, NEW a, Shape(l, n, out, a), NEW b, b = Flush(a)
    PROVE  /\ Shape(l, n, out, b) /\ b.parts = <<>> /\ b.think = 0
           /\ \A i, j : Tog(b, i, j) <=> Tog(a, i, j)
           /\ \A i, j : Together(b.msgs, i, j) <=> Tog(a, i, j)
  <1>1. Accs(a) /\ a.msgs \in Seq(Messages) /\ a.parts \in Seq(Nat) /\ a.think \in Nat
    BY DEF Shape, Accs
  <1>2. /\ b.msgs = IF a.parts = <<>> THEN a.msgs ELSE Append(a.msgs, Msg("assistant", a.parts, 0, a.think))
        /\ b.parts = <<>> /\ b.think = 0 /\ DOMAIN b = DOMAIN a
    BY <1>1, FlushFields
  <1>3. Range(<<>>) = {} /\ Increasing(<<>>) /\ <<>> \in Seq(Nat)
    BY EmptyMessages
  <1> DEFINE m == Msg("assistant", a.parts, 0, a.think)
  <1>4. m.parts = a.parts /\ m.type = "assistant" /\ m \in Messages
    BY <1>1 DEF Msg, Messages
  <1>5. /\ b.msgs \in Seq(Messages) /\ Sorted(b.msgs)
        /\ PartsOf(b.msgs) = PartsOf(a.msgs) \cup Range(a.parts)
        /\ \A x \in Range(b.msgs) : x \in Range(a.msgs) \/ (x = m /\ a.parts # <<>>)
        /\ \A i, j : Together(b.msgs, i, j) <=> Together(a.msgs, i, j) \/ {i, j} \subseteq Range(a.parts)
    <2>1. CASE a.parts = <<>>
      BY <1>1, <1>2, <1>3, <2>1 DEF Shape
    <2>2. CASE a.parts # <<>>
      <3>1. Sorted(a.msgs) /\ Increasing(m.parts) /\ Below(PartsOf(a.msgs), Range(m.parts))
        BY <1>4 DEF Shape
      <3>2. b.msgs = Append(a.msgs, m)
        BY <1>2, <2>2
      <3> HIDE DEF m
      <3>3. /\ b.msgs \in Seq(Messages) /\ Sorted(b.msgs) /\ Range(b.msgs) = Range(a.msgs) \cup {m}
            /\ PartsOf(b.msgs) = PartsOf(a.msgs) \cup Range(m.parts)
            /\ \A i, j : Together(b.msgs, i, j) <=> Together(a.msgs, i, j) \/ {i, j} \subseteq Range(m.parts)
        BY <1>1, <1>4, <3>1, <3>2, PushSorted
      <3> QED
        BY <1>4, <2>2, <3>3
    <2> QED
      BY <2>1, <2>2
  <1>6. MessageOK(l, m) \/ a.parts = <<>>
    BY <1>4 DEF MessageOK, Shape
  <1> HIDE DEF m
  <1>7. \A x \in Range(b.msgs) : MessageOK(l, x)
    BY <1>5, <1>6 DEF Shape
  <1>8. Accs(b)
    BY <1>1, <1>2, <1>3, <1>5 DEF Accs
  <1>9. Shape(l, n, out, b)
    <2>1. Below(PartsOf(b.msgs), Range(b.parts)) /\ Increasing(b.parts) /\ Range(b.parts) = {}
      BY <1>2, <1>3 DEF Below
    <2>2. PartsOf(b.msgs) \cup Range(b.parts) = ShowsUpTo(l, n, out)
      BY <1>5, <2>1 DEF Shape
    <2> QED
      BY <1>2, <1>5, <1>7, <1>8, <2>1, <2>2 DEF Shape
  <1>10. \A i, j : Tog(b, i, j) <=> Tog(a, i, j)
    BY <1>2, <1>3, <1>5 DEF Tog
  <1> QED
    BY <1>2, <1>5, <1>9, <1>10 DEF Tog

\* The event n + 1 is shown in a message of its own.
LEMMA PushKeeps ==
    ASSUME NEW l \in Seq(Events), NEW n \in Nat, NEW out, NEW a, Shape(l, n, out, a), a.parts = <<>>,
           n + 1 \in ShowableIn(l) \ out, NEW m \in Messages, m.parts = <<n + 1>>, MessageOK(l, m),
           NEW b, b = Push(a, m)
    PROVE  /\ Shape(l, n + 1, out, b) /\ b.parts = <<>>
           /\ \A i, j : i # j => (Tog(b, i, j) <=> Tog(a, i, j))
  <1>1. Accs(a) /\ a.msgs \in Seq(Messages) /\ Sorted(a.msgs)
    BY DEF Shape, Accs
  <1>2. b.msgs = Append(a.msgs, m) /\ b.parts = <<>> /\ b.think = a.think /\ DOMAIN b = DOMAIN a
    BY <1>1 DEF Push, Accs
  <1>3. Range(<<>>) = {} /\ Increasing(<<>>) /\ <<>> \in Seq(Nat)
    BY EmptyMessages
  <1>4. Range(m.parts) = {n + 1} /\ Increasing(m.parts)
    <2>1. DOMAIN <<n + 1>> = {1} /\ <<n + 1>>[1] = n + 1
      OBVIOUS
    <2> QED
      BY <2>1 DEF Range, Increasing
  <1>5. PartsOf(a.msgs) = ShowsUpTo(l, n, out)
    BY <1>3 DEF Shape
  <1>6. \A i \in ShowableIn(l) : i \in Nat
    BY ShowableIsEvent
  <1>7. ShowsUpTo(l, n + 1, out) = ShowsUpTo(l, n, out) \cup {n + 1}
    BY <1>6 DEF ShowsUpTo
  <1>8. Below(PartsOf(a.msgs), Range(m.parts))
    BY <1>4, <1>5, <1>6 DEF Below, ShowsUpTo
  <1>9. /\ b.msgs \in Seq(Messages) /\ Sorted(b.msgs) /\ Range(b.msgs) = Range(a.msgs) \cup {m}
        /\ PartsOf(b.msgs) = PartsOf(a.msgs) \cup Range(m.parts)
        /\ \A i, j : Together(b.msgs, i, j) <=> Together(a.msgs, i, j) \/ {i, j} \subseteq Range(m.parts)
    BY <1>1, <1>2, <1>4, <1>8, PushSorted
  <1>10. Accs(b)
    BY <1>1, <1>2, <1>3, <1>9 DEF Accs
  <1>11. Below(PartsOf(b.msgs), Range(b.parts)) /\ Increasing(b.parts) /\ Range(b.parts) = {}
    BY <1>2, <1>3 DEF Below
  <1>12. \A x \in Range(b.msgs) : MessageOK(l, x)
    BY <1>9 DEF Shape
  <1>13. Shape(l, n + 1, out, b)
    <2>1. PartsOf(b.msgs) \cup Range(b.parts) = ShowsUpTo(l, n + 1, out)
      BY <1>4, <1>5, <1>7, <1>9, <1>11
    <2>2. b.think \in OfKind(l, "thinking") \cup {0}
      BY <1>2 DEF Shape
    <2> QED
      BY <1>9, <1>10, <1>11, <1>12, <2>1, <2>2 DEF Shape
  <1>14. \A i, j : i # j => (Tog(b, i, j) <=> Tog(a, i, j))
    BY <1>2, <1>4, <1>9 DEF Tog
  <1> QED
    BY <1>2, <1>13, <1>14

-----------------------------------------------------------------------------
(* One step of the fold.                                                    *)

\* The events from n to n + 1, when the latter is not shown.
LEMMA NothingMoreToShow ==
    ASSUME NEW l \in Seq(Events), NEW n \in Nat, NEW out, n + 1 \notin ShowableIn(l) \ out
    PROVE  ShowsUpTo(l, n + 1, out) = ShowsUpTo(l, n, out)
  <1>1. \A i \in ShowableIn(l) : i \in Nat
    BY ShowableIsEvent
  <1>2. \A i \in Nat : i <= n + 1 <=> i <= n \/ i = n + 1
    OBVIOUS
  <1> QED
    BY <1>1, <1>2 DEF ShowsUpTo

\* A text joins the message that is open.
LEMMA TextKeeps ==
    ASSUME NEW l \in Seq(Events), NEW n \in Nat, NEW out, NEW a, Shape(l, n, out, a),
           n + 1 \in Txt(l) \ out,
           NEW b, b = [a EXCEPT !.parts = Append(@, n + 1)]
    PROVE  /\ Shape(l, n + 1, out, b)
           /\ b.msgs = a.msgs /\ Range(b.parts) = Range(a.parts) \cup {n + 1}
           /\ n + 1 \notin PartsOf(a.msgs) \cup Range(a.parts)
  <1>1. Accs(a) /\ a.msgs \in Seq(Messages) /\ a.parts \in Seq(Nat) /\ a.think \in Nat
    BY DEF Shape, Accs
  <1>2. b.msgs = a.msgs /\ b.parts = Append(a.parts, n + 1) /\ b.think = a.think /\ DOMAIN b = DOMAIN a
    BY <1>1 DEF Accs
  <1> DEFINE k == Len(a.parts) + 1
  <1>3. /\ b.parts \in Seq(Nat) /\ Range(b.parts) = Range(a.parts) \cup {n + 1}
        /\ DOMAIN a.parts = 1..Len(a.parts) /\ Len(a.parts) \in Nat
        /\ DOMAIN b.parts = DOMAIN a.parts \cup {k}
        /\ b.parts[k] = n + 1 /\ \A x \in DOMAIN a.parts : b.parts[x] = a.parts[x] /\ x < k /\ x \in Nat
    <2>1. /\ b.parts \in Seq(Nat) /\ Range(b.parts) = Range(a.parts) \cup {n + 1}
          /\ DOMAIN a.parts = 1..Len(a.parts) /\ Len(a.parts) \in Nat
          /\ DOMAIN b.parts = DOMAIN a.parts \cup {k} /\ b.parts[k] = n + 1
          /\ \A x \in DOMAIN a.parts : b.parts[x] = a.parts[x] /\ x < k
      <3>1. n + 1 \in Nat
        OBVIOUS
      <3>2. Append(a.parts, n + 1) = b.parts
        BY <1>2
      <3> QED
        BY <1>1, <3>1, <3>2, AppendFacts
    <2> QED
      BY <2>1
  <1>4. k \in Nat
    BY <1>3
  <1> HIDE DEF k
  <1>5. n + 1 \in ShowableIn(l) /\ \A i \in ShowableIn(l) : i \in Nat
    BY ShowableIsEvent DEF Txt
  <1>6. /\ ShowsUpTo(l, n + 1, out) = ShowsUpTo(l, n, out) \cup {n + 1}
        /\ \A i \in ShowsUpTo(l, n, out) : i \in Nat /\ i < n + 1
    BY <1>5 DEF ShowsUpTo
  <1>7. PartsOf(a.msgs) \cup Range(a.parts) = ShowsUpTo(l, n, out)
    BY DEF Shape
  <1>8. \A x \in DOMAIN a.parts : a.parts[x] < n + 1
    BY <1>6, <1>7 DEF Range
  <1>9. Increasing(b.parts)
    <2> SUFFICES ASSUME NEW x \in DOMAIN b.parts, NEW y \in DOMAIN b.parts, x < y
                 PROVE  b.parts[x] < b.parts[y]
      BY DEF Increasing
    <2>1. x \in DOMAIN a.parts
      BY <1>3, <1>4
    <2>2. CASE y \in DOMAIN a.parts
      BY <1>3, <2>1, <2>2 DEF Shape, Increasing
    <2>3. CASE y = k
      BY <1>3, <1>8, <2>1, <2>3
    <2> QED
      BY <1>3, <2>2, <2>3
  <1>10. Below(PartsOf(b.msgs), Range(b.parts))
    BY <1>2, <1>3, <1>6, <1>7 DEF Shape, Below
  <1>11. Range(b.parts) \subseteq Txt(l)
    BY <1>3 DEF Shape
  <1>12. PartsOf(b.msgs) \cup Range(b.parts) = ShowsUpTo(l, n + 1, out)
    BY <1>2, <1>3, <1>6, <1>7
  <1>13. Accs(b)
    BY <1>1, <1>2, <1>3 DEF Accs
  <1>14. n + 1 \notin PartsOf(a.msgs) \cup Range(a.parts)
    BY <1>6, <1>7
  <1> QED
    BY <1>2, <1>3, <1>9, <1>10, <1>11, <1>12, <1>13, <1>14 DEF Shape

\* What an event does to the grouping of the texts.
Effect(l, n, out, a, b) ==
    \/ /\ n + 1 \in out \/ n + 1 \notin Txt(l) \cup Closers(l)
       /\ Range(b.parts) = Range(a.parts)
       /\ \A i, j : Tog(b, i, j) <=> Tog(a, i, j)
    \/ /\ n + 1 \in Txt(l) \ out
       /\ Range(b.parts) = Range(a.parts) \cup {n + 1}
       /\ \A i, j \in 1..n : Tog(b, i, j) <=> Tog(a, i, j)
       /\ \A i \in 1..n : Tog(b, i, n + 1) <=> i \in Range(a.parts)
    \/ /\ n + 1 \in Closers(l) \ out
       /\ Range(b.parts) = {}
       /\ \A i, j : i # j => (Tog(b, i, j) <=> Tog(a, i, j))

LEMMA TextEffect ==
    ASSUME NEW l, NEW n \in Nat, NEW out, n + 1 \in Txt(l) \ out, NEW a, NEW b,
           b.msgs = a.msgs, Range(b.parts) = Range(a.parts) \cup {n + 1},
           n + 1 \notin PartsOf(a.msgs) \cup Range(a.parts)
    PROVE  Effect(l, n, out, a, b)
  <1>1. \A i \in 1..n : i # n + 1
    OBVIOUS
  <1>2. \A i, j : Together(a.msgs, i, j) => j \in PartsOf(a.msgs)
    BY DEF Together, PartsOf
  <1> QED
    BY <1>1, <1>2 DEF Effect, Tog

LEMMA FoldStep ==
    ASSUME NEW l \in Seq(Events), NEW n \in Nat, NEW out, NEW a, Shape(l, n, out, a),
           n + 1 \in DOMAIN l, NEW b, b = FoldEvent(l, out, a, n + 1)
    PROVE  Shape(l, n + 1, out, b) /\ Effect(l, n, out, a, b)
  <1> DEFINE i == n + 1
             f == Flush(a)
             Opens == {"user", "said", "delegated", "evicted"}
  <1>1. i \in Nat /\ i \in DOMAIN l
    OBVIOUS
  <1>2. /\ Shape(l, n, out, f) /\ f.parts = <<>> /\ f.think = 0
        /\ \A x, y : Tog(f, x, y) <=> Tog(a, x, y)
    BY FlushKeeps
  <1>3. /\ i \in Txt(l) <=> l[i].kind \in Texts
        /\ i \in Closers(l) <=> l[i].kind \in Opens \cup {"thinking", "result", "asked", "approve"}
        /\ i \in ShowableIn(l) <=>
              \/ l[i].kind \in Texts \cup Opens \cup {"asked", "approve"}
              \/ l[i].kind = "result" /\ l[i].ref \notin Questions(l)
    BY <1>1, ShowableIsEvent DEF Txt, Closers
  <1>4. Range(<<>>) = {}
    BY EmptyMessages
  <1>5. ASSUME i \notin ShowableIn(l) \ out, b = a,
               i \in out \/ i \notin Txt(l) \cup Closers(l)
        PROVE  Shape(l, i, out, b) /\ Effect(l, n, out, a, b)
    <2>1. ShowsUpTo(l, i, out) = ShowsUpTo(l, n, out)
      BY <1>5, NothingMoreToShow
    <2> QED
      BY <1>5, <2>1 DEF Shape, Effect
  <1>6. ASSUME i \in ShowableIn(l) \ out, i \in Closers(l), NEW m \in Messages, m.parts = <<i>>,
               MessageOK(l, m), b = Push(f, m)
        PROVE  Shape(l, i, out, b) /\ Effect(l, n, out, a, b)
    <2>1. /\ Shape(l, i, out, b) /\ b.parts = <<>>
          /\ \A x, y : x # y => (Tog(b, x, y) <=> Tog(f, x, y))
      BY <1>2, <1>6, PushKeeps
    <2> QED
      BY <1>2, <1>4, <1>6, <2>1 DEF Effect
  <1>7. CASE i \in out
    <2>1. b = a
      BY <1>7 DEF FoldEvent
    <2> QED
      BY <1>5, <1>7, <2>1
  <1>8. CASE i \notin out /\ l[i].kind \in Opens
    <2> DEFINE m == Msg(l[i].kind, <<i>>, 0, 0)
    <2>1. l[i].kind \notin Texts
      BY <1>8 DEF Texts
    <2>4. b = Push(f, m)
      BY <1>8, <2>1 DEF FoldEvent, One
    <2>2. m \in Messages /\ m.parts = <<i>> /\ m.type = l[i].kind /\ Len(m.parts) = 1
      BY <1>1, <1>8, SinglePart DEF Msg, Messages
    <2>3. MessageOK(l, m)
      BY <1>8, <2>2 DEF MessageOK
    <2> QED
      BY <1>3, <1>6, <1>8, <2>2, <2>3, <2>4
  <1>9. CASE i \notin out /\ l[i].kind \in Texts
    <2>1. b = [a EXCEPT !.parts = Append(@, i)]
      BY <1>9 DEF FoldEvent, Texts
    <2>2. i \in Txt(l) \ out
      BY <1>3, <1>9
    <2>3. /\ Shape(l, i, out, b)
          /\ b.msgs = a.msgs /\ Range(b.parts) = Range(a.parts) \cup {i}
          /\ i \notin PartsOf(a.msgs) \cup Range(a.parts)
      BY <2>1, <2>2, TextKeeps
    <2> QED
      BY <2>2, <2>3, TextEffect
  <1>10. CASE i \notin out /\ l[i].kind = "thinking"
    <2>1. b = [f EXCEPT !.think = i]
      BY <1>10 DEF FoldEvent, Texts
    <2>2. Accs(f)
      BY <1>2 DEF Shape
    <2>3. b.msgs = f.msgs /\ b.parts = <<>> /\ b.think = i /\ DOMAIN b = DOMAIN f
      BY <1>2, <2>1, <2>2 DEF Accs
    <2>4. i \notin ShowableIn(l) /\ i \in Closers(l)
      BY <1>3, <1>10 DEF Texts
    <2>5. ShowsUpTo(l, i, out) = ShowsUpTo(l, n, out)
      BY <2>4, NothingMoreToShow
    <2>6. i \in OfKind(l, "thinking")
      BY <1>1, <1>10 DEF OfKind
    <2>7. Accs(b)
      BY <1>1, <1>2, <2>2, <2>3 DEF Accs
    <2>8. Shape(l, i, out, b)
      BY <1>2, <2>3, <2>5, <2>6, <2>7 DEF Shape
    <2>9. \A x, y : Tog(b, x, y) <=> Tog(a, x, y)
      BY <1>2, <2>3 DEF Tog
    <2> QED
      BY <1>4, <1>10, <2>3, <2>4, <2>8, <2>9 DEF Effect
  <1>11. CASE i \notin out /\ l[i].kind = "result" /\ l[i].ref \in Questions(l)
    <2>1. b = f
      BY <1>11 DEF FoldEvent, Texts
    <2>2. i \notin ShowableIn(l) /\ i \in Closers(l)
      BY <1>3, <1>11 DEF Texts
    <2>3. ShowsUpTo(l, i, out) = ShowsUpTo(l, n, out)
      BY <2>2, NothingMoreToShow
    <2>4. Shape(l, i, out, b)
      BY <1>2, <2>1, <2>3 DEF Shape
    <2> QED
      BY <1>2, <1>4, <1>11, <2>1, <2>2, <2>4 DEF Effect
  <1>12. CASE i \notin out /\ l[i].kind = "result" /\ l[i].ref \notin Questions(l)
    <2> DEFINE y == LastOrNone(RefersTo(l, "compacted", l[i].ref))
               m == Msg("result", <<i>>, y, 0)
    <2>1. b = Push(f, m)
      BY <1>12 DEF FoldEvent, Texts
    <2>2. y \in Nat
      BY LastIsNat
    <2> HIDE DEF y
    <2>3. m \in Messages /\ m.parts = <<i>> /\ m.parts[1] = i /\ m.type = "result" /\ m.by = y /\ Len(m.parts) = 1
      BY <1>1, <2>2, SinglePart DEF Msg, Messages
    <2>4. MessageOK(l, m)
      BY <1>1, <1>12, <2>3 DEF MessageOK, OfKind, y
    <2> QED
      BY <1>3, <1>6, <1>12, <2>1, <2>3, <2>4
  <1>13. CASE i \notin out /\ l[i].kind \in {"asked", "approve"}
    <2> DEFINE y == LastOrNone(RefersTo(l, "answered", l[i].ref))
               m == Msg("card", <<i>>, y, 0)
    <2>1. b = Push(f, m)
      BY <1>13 DEF FoldEvent, Texts
    <2>2. y \in Nat
      BY LastIsNat
    <2> HIDE DEF y
    <2>3. m \in Messages /\ m.parts = <<i>> /\ m.parts[1] = i /\ m.type = "card" /\ m.by = y /\ Len(m.parts) = 1
      BY <1>1, <2>2, SinglePart DEF Msg, Messages
    <2>4. MessageOK(l, m)
      BY <1>1, <1>13, <2>3 DEF MessageOK, Cards, OfKind, y
    <2> QED
      BY <1>3, <1>6, <1>13, <2>1, <2>3, <2>4
  <1>14. CASE /\ i \notin out
              /\ l[i].kind \notin Opens \cup Texts \cup {"thinking", "result", "asked", "approve"}
    <2>1. b = a
      BY <1>14 DEF FoldEvent, Texts
    <2> QED
      BY <1>3, <1>5, <1>14, <2>1
  <1> QED
    BY <1>7, <1>8, <1>9, <1>10, <1>11, <1>12, <1>13, <1>14

-----------------------------------------------------------------------------
(* Which texts are in one message.                                          *)

\* No event closes a message between i and j.
Clear(l, out, i, j) == \A k \in Closers(l) \ out : ~(i < k /\ k < j)

\* Two of the texts K are in one message if nothing between them closes it, of
\* itself or at a place of C; and a text is in the open message likewise.
Joins(l, n, out, C, K, a) ==
    /\ \A i \in K : i <= n =>
          /\ i \in Range(a.parts) => Clear(l, out, i, n + 1)
          /\ Clear(l, out, i, n + 1) /\ C \cap i..n = {} => i \in Range(a.parts)
    /\ \A i, j \in K : i < j /\ j <= n =>
          /\ Tog(a, i, j) => Clear(l, out, i, j)
          /\ Clear(l, out, i, j) /\ C \cap i..(j - 1) = {} => Tog(a, i, j)

LEMMA JoinsStep ==
    ASSUME NEW l \in Seq(Events), NEW n \in Nat, NEW out, NEW C, NEW K, K \subseteq Txt(l) \ out,
           NEW a, NEW b, Joins(l, n, out, C, K, a), Effect(l, n, out, a, b)
    PROVE  Joins(l, n + 1, out, C, K, b)
  <1>1. \A i \in K : i \in Nat /\ i >= 1 /\ i \in Txt(l) \ out
    BY LogShape DEF Txt
  <1>2. Txt(l) \cap Closers(l) = {}
    BY DEF Txt, Closers, Texts
  <1>3. \A k \in Closers(l) : k \in Nat
    BY LogShape DEF Closers
  <1>4. ASSUME NEW i \in K, i <= n
        PROVE  Clear(l, out, i, (n + 1) + 1) <=> Clear(l, out, i, n + 1) /\ n + 1 \notin Closers(l) \ out
    BY <1>1, <1>3, <1>4 DEF Clear
  <1>5. Clear(l, out, n + 1, (n + 1) + 1)
    BY <1>3 DEF Clear
  <1>6. ASSUME NEW i \in Nat
        PROVE  C \cap i..(n + 1) = {} => C \cap i..n = {}
    BY <1>6
  <1>7. ASSUME NEW i \in K, i <= n + 1
        PROVE  /\ i \in Range(b.parts) => Clear(l, out, i, (n + 1) + 1)
               /\ Clear(l, out, i, (n + 1) + 1) /\ C \cap i..(n + 1) = {} => i \in Range(b.parts)
    <2>1. CASE i = n + 1
      BY <1>1, <1>2, <1>5, <2>1 DEF Effect
    <2>2. CASE i # n + 1
      <3>1. i <= n /\ i \in Nat
        BY <1>1, <1>7, <2>2
      <3>2. /\ i \in Range(a.parts) => Clear(l, out, i, n + 1)
            /\ Clear(l, out, i, n + 1) /\ C \cap i..n = {} => i \in Range(a.parts)
        BY <3>1 DEF Joins
      <3>3. Clear(l, out, i, (n + 1) + 1) <=> Clear(l, out, i, n + 1) /\ n + 1 \notin Closers(l) \ out
        BY <1>4, <3>1
      <3>4. C \cap i..(n + 1) = {} => C \cap i..n = {}
        BY <1>6, <3>1
      <3>5. \/ Range(b.parts) = Range(a.parts) /\ n + 1 \notin Closers(l) \ out
            \/ Range(b.parts) = Range(a.parts) \cup {n + 1} /\ n + 1 \notin Closers(l) \ out
            \/ Range(b.parts) = {} /\ n + 1 \in Closers(l) \ out
        <4>1. n + 1 \in Txt(l) => n + 1 \notin Closers(l)
          BY <1>2
        <4> QED
          BY <4>1 DEF Effect
      <3> QED
        BY <2>2, <3>2, <3>3, <3>4, <3>5
    <2> QED
      BY <2>1, <2>2
  <1>8. ASSUME NEW i \in K, NEW j \in K, i < j, j <= n + 1
        PROVE  /\ Tog(b, i, j) => Clear(l, out, i, j)
               /\ Clear(l, out, i, j) /\ C \cap i..(j - 1) = {} => Tog(b, i, j)
    <2>1. i \in 1..n /\ i <= n /\ i # j /\ j \in Nat
      BY <1>1, <1>8
    <2>2. CASE j # n + 1
      <3>1. j \in 1..n /\ j <= n
        BY <1>1, <1>8, <2>1, <2>2
      <3>2. Tog(b, i, j) <=> Tog(a, i, j)
        BY <2>1, <3>1 DEF Effect
      <3> QED
        BY <1>8, <3>1, <3>2 DEF Joins
    <2>3. CASE j = n + 1
      <3>1. j - 1 = n
        BY <2>3
      <3>2. n + 1 \in Txt(l) /\ n + 1 \notin out /\ n + 1 \notin Closers(l)
        BY <1>1, <1>2, <2>3
      <3>3. Tog(b, i, n + 1) <=> i \in Range(a.parts)
        BY <2>1, <3>2 DEF Effect
      <3>4. /\ i \in Range(a.parts) => Clear(l, out, i, n + 1)
            /\ Clear(l, out, i, n + 1) /\ C \cap i..n = {} => i \in Range(a.parts)
        BY <2>1 DEF Joins
      <3> QED
        BY <2>3, <3>1, <3>3, <3>4
    <2> QED
      BY <2>2, <2>3
  <1> QED
    BY <1>7, <1>8 DEF Joins

-----------------------------------------------------------------------------
(* The fold of the whole log.                                               *)

Folds(g, l, out, n) ==
    g = [k \in 0..n |-> IF k = 0 THEN NoMsgs ELSE FoldEvent(l, out, g[k - 1], k)]

LEMMA FoldExists ==
    ASSUME NEW l, NEW out, NEW n \in Nat
    PROVE  \E g : Folds(g, l, out, n)
  <1> DEFINE N == {k \in Nat : \E g : Folds(g, l, out, k)}
  <1>1. 0 \in N
    <2>1. Folds([k \in 0..0 |-> NoMsgs], l, out, 0)
      BY DEF Folds
    <2> QED
      BY <2>1
  <1>2. ASSUME NEW k \in Nat, k \in N
        PROVE  k + 1 \in N
    <2>1. PICK g : Folds(g, l, out, k)
      BY <1>2
    <2> DEFINE h == [i \in 0..(k + 1) |-> IF i <= k THEN g[i] ELSE FoldEvent(l, out, g[k], k + 1)]
    <2>2. \A i \in 0..k : g[i] = IF i = 0 THEN NoMsgs ELSE FoldEvent(l, out, g[i - 1], i)
      BY <2>1 DEF Folds
    <2>3. \A i \in 0..k : i \in 0..(k + 1) /\ h[i] = g[i]
      OBVIOUS
    <2>4. h[k + 1] = FoldEvent(l, out, g[k], k + 1)
      OBVIOUS
    <2>5. \A i \in 0..(k + 1) : h[i] = IF i = 0 THEN NoMsgs ELSE FoldEvent(l, out, h[i - 1], i)
      <3> SUFFICES ASSUME NEW i \in 0..(k + 1)
                   PROVE  h[i] = IF i = 0 THEN NoMsgs ELSE FoldEvent(l, out, h[i - 1], i)
        OBVIOUS
      <3>1. CASE i = 0
        BY <2>2, <2>3, <3>1
      <3>2. CASE i \in 1..k
        <4>1. i - 1 \in 0..k /\ i \in 0..k /\ i # 0
          BY <3>2
        <4> HIDE DEF h
        <4> QED
          BY <2>2, <2>3, <4>1
      <3>3. CASE i = k + 1
        <4>1. k \in 0..k /\ i - 1 = k /\ i # 0
          BY <3>3
        <4> HIDE DEF h
        <4> QED
          BY <2>3, <2>4, <3>3, <4>1
      <3> QED
        BY <3>1, <3>2, <3>3
    <2>6. h = [i \in 0..(k + 1) |-> h[i]]
      OBVIOUS
    <2> HIDE DEF h
    <2>7. Folds(h, l, out, k + 1)
      BY <2>5, <2>6 DEF Folds
    <2> QED
      BY <2>7
  <1> HIDE DEF N
  <1>3. Nat \subseteq N
    BY <1>1, <1>2, NatSetInduction
  <1> QED
    BY <1>3 DEF N

\* What conversation_for_branch gathers is what the log shows.
LEMMA FoldHolds ==
    ASSUME NEW l \in Seq(Events), NEW K, K \subseteq Txt(l) \ Out(l)
    PROVE  \E a : /\ Conversation(l) = Flush(a).msgs
                  /\ Shape(l, Len(l), Out(l), a)
                  /\ Joins(l, Len(l), Out(l), {}, K, a)
  <1> DEFINE out == Out(l)
             g == CHOOSE h : Folds(h, l, out, Len(l))
  <1>1. Len(l) \in Nat /\ DOMAIN l = 1..Len(l)
    BY LogShape
  <1>2. Folds(g, l, out, Len(l))
    BY <1>1, FoldExists
  <1>3. Conversation(l) = Flush(g[Len(l)]).msgs
    BY DEF Conversation, Folds
  <1> HIDE DEF out, g
  <1>4. \A k \in 0..Len(l) : g[k] = IF k = 0 THEN NoMsgs ELSE FoldEvent(l, out, g[k - 1], k)
    BY <1>1, <1>2 DEF Folds
  <1> DEFINE Right(n) == Shape(l, n, out, g[n]) /\ Joins(l, n, out, {}, K, g[n])
             N == {n \in Nat : n <= Len(l) => Right(n)}
  <1>5. 0 \in N
    <2>1. g[0] = NoMsgs
      BY <1>1, <1>4
    <2>2. /\ NoMsgs.msgs = <<>> /\ NoMsgs.parts = <<>> /\ NoMsgs.think = 0
          /\ DOMAIN NoMsgs = {"msgs", "parts", "think"}
      BY DEF NoMsgs
    <2>3. Accs(NoMsgs)
      BY <2>2, EmptyMessages DEF Accs
    <2>4. ShowsUpTo(l, 0, out) = {}
      <3>1. \A i \in DOMAIN l : ~(i <= 0)
        BY <1>1
      <3> QED
        BY <3>1, ShowableIsEvent DEF ShowsUpTo
    <2>5. Shape(l, 0, out, NoMsgs)
      BY <2>2, <2>3, <2>4, EmptyMessages DEF Shape, Below
    <2>6. \A i \in K : ~(i <= 0) /\ i \in Nat
      BY <1>1 DEF Txt
    <2>7. Joins(l, 0, out, {}, K, NoMsgs)
      BY <2>6 DEF Joins
    <2> QED
      BY <2>1, <2>5, <2>7
  <1>6. ASSUME NEW n \in Nat, n \in N
        PROVE  n + 1 \in N
    <2> SUFFICES ASSUME n + 1 <= Len(l) PROVE Right(n + 1)
      OBVIOUS
    <2>1. n <= Len(l) /\ n + 1 \in DOMAIN l /\ n + 1 \in 0..Len(l) /\ (n + 1) - 1 = n /\ n + 1 # 0
      BY <1>1
    <2>2. Shape(l, n, out, g[n]) /\ Joins(l, n, out, {}, K, g[n])
      BY <1>6, <2>1
    <2>3. g[n + 1] = FoldEvent(l, out, g[n], n + 1)
      BY <1>4, <2>1
    <2>4. Shape(l, n + 1, out, g[n + 1]) /\ Effect(l, n, out, g[n], g[n + 1])
      BY <2>1, <2>2, <2>3, FoldStep
    <2>5. K \subseteq Txt(l) \ out
      BY DEF out
    <2>6. Joins(l, n + 1, out, {}, K, g[n + 1])
      BY <2>2, <2>4, <2>5, JoinsStep
    <2> QED
      BY <2>4, <2>6
  <1> HIDE DEF N
  <1>7. Nat \subseteq N
    BY <1>5, <1>6, NatSetInduction
  <1>8. Right(Len(l))
    BY <1>1, <1>7 DEF N
  <1> QED
    BY <1>3, <1>8 DEF out

-----------------------------------------------------------------------------
(* The log grows.                                                           *)

\* What was ever paged out, and the texts that never were.
Paged(l) == UNION {l[e].ids : e \in OfKind(l, "evicted")}
KeptIn(l) == Txt(l) \ Paged(l)
OutAt(l, b) == Out(SubSeq(l, 1, b))

LEMMA OutIsPaged ==
    ASSUME NEW l \in Seq(Events)
    PROVE  Out(l) \subseteq Paged(l) \cap DOMAIN l
  BY DEF Out, Paged

LEMMA OutAtIsPaged ==
    ASSUME NEW l \in Seq(Events), NEW b \in 0..Len(l)
    PROVE  OutAt(l, b) \subseteq Paged(l) \cap 1..b
  <1> DEFINE s == SubSeq(l, 1, b)
  <1>1. Len(l) \in Nat /\ DOMAIN l = 1..Len(l) /\ b \in Nat
    BY LogShape
  <1>2. \A i \in 1..b : l[i] \in Events
    BY <1>1, LogShape
  <1>3. s \in Seq(Events) /\ Len(s) = b /\ \A i \in 1..b : s[i] = l[i]
    <2>1. /\ s \in Seq(Events) /\ Len(s) = IF 1 <= b THEN b - 1 + 1 ELSE 0
          /\ \A i \in 1..(b - 1 + 1) : s[i] = l[1 + i - 1]
      BY <1>1, <1>2, SubSeqProperties
    <2> QED
      BY <1>1, <2>1
  <1> HIDE DEF s
  <1>4. DOMAIN s = 1..b
    BY <1>3, LogShape
  <1>5. OfKind(s, "evicted") \subseteq OfKind(l, "evicted") /\ \A i \in OfKind(s, "evicted") : s[i] = l[i]
    BY <1>1, <1>3, <1>4 DEF OfKind
  <1>6. Paged(s) \subseteq Paged(l)
    BY <1>5 DEF Paged
  <1>7. Out(s) \subseteq Paged(s) \cap 1..b
    BY <1>3, <1>4, OutIsPaged
  <1> QED
    BY <1>6, <1>7 DEF OutAt, s

LEMMA OutAtGrows ==
    ASSUME NEW l \in Seq(Events), NEW e \in Events, NEW m, Grows(l, e, m), NEW b \in 0..Len(l)
    PROVE  OutAt(m, b) = OutAt(l, b)
  <1>1. /\ m \in Seq(Events) /\ Len(m) = Len(l) + 1 /\ Len(l) \in Nat /\ DOMAIN l = 1..Len(l)
        /\ \A i \in DOMAIN l : m[i] = l[i]
    <2>1. /\ m \in Seq(Events) /\ Len(m) = Len(l) + 1 /\ Len(l) \in Nat /\ DOMAIN l = 1..Len(l)
          /\ \A i \in DOMAIN l : m[i] = l[i] /\ i < Len(m)
      BY Grown
    <2> QED
      BY <2>1
  <1>2. DOMAIN m = 1..Len(m) /\ b \in 0..Len(m)
    BY <1>1, LogShape
  <1>3. SubSeq(l, 1, b) = Restrict(l, 1..b) /\ SubSeq(m, 1, b) = Restrict(m, 1..b)
    BY <1>1, <1>2, SubSeqRestrict
  <1>4. \A i \in 1..b : m[i] = l[i]
    BY <1>1
  <1>5. SubSeq(m, 1, b) = SubSeq(l, 1, b)
    BY <1>3, <1>4 DEF Restrict
  <1> QED
    BY <1>5 DEF OutAt

LEMMA OutAtEnd ==
    ASSUME NEW l \in Seq(Events)
    PROVE  OutAt(l, Len(l)) = Out(l)
  BY SubSeqFull DEF OutAt

\* No event of a turn that was paged out is the last of the user's messages.
LEMMA PagedIsOver ==
    ASSUME NEW l, LogInv(l), NEW k \in Paged(l)
    PROVE  \E w \in OfKind(l, "user") \ Paged(l) : k < w
  <1>1. l \in Seq(Events) /\ Len(l) \in Nat /\ OfKind(l, "user") \subseteq 0..Len(l)
    BY LogShape DEF LogInv
  <1>2. \A x \in Paged(l) : \E u \in OfKind(l, "user") : x \in TurnIds(l, u)
    BY DEF Paged, LogInv
  <1>3. PICK u \in OfKind(l, "user") : k \in TurnIds(l, u)
    BY <1>2
  <1> DEFINE w == Max(OfKind(l, "user"))
  <1>4. w \in OfKind(l, "user") /\ \A v \in OfKind(l, "user") : v <= w
    BY <1>1, <1>3, BoundedMax
  <1> HIDE DEF w
  <1>5. k < u /\ k \in Nat /\ u \in Nat /\ w \in Nat /\ u <= w
    BY <1>1, <1>3, <1>4, LogShape DEF TurnIds
  <1>6. w \notin Paged(l)
    <2> SUFFICES ASSUME w \in Paged(l) PROVE FALSE
      OBVIOUS
    <2>1. PICK v \in OfKind(l, "user") : w \in TurnIds(l, v)
      BY <1>2
    <2>2. v <= w /\ w < v /\ v \in Nat
      BY <1>1, <1>4, <2>1 DEF TurnIds
    <2> QED
      BY <1>5, <2>2
  <1>7. k < w
    BY <1>5
  <1> QED
    BY <1>4, <1>6, <1>7

\* Between two texts that stayed, a message of the user parts what was paged out
\* from the second.
LEMMA PagedBetween ==
    ASSUME NEW l, LogInv(l), NEW i \in KeptIn(l), NEW j \in KeptIn(l), NEW k \in Paged(l), i < k, k < j
    PROVE  \E w \in OfKind(l, "user") \ Paged(l) : i < w /\ w < j
  <1>1. l \in Seq(Events) /\ Len(l) \in Nat /\ OfKind(l, "user") \subseteq 0..Len(l) /\ DOMAIN l = 1..Len(l)
    BY LogShape DEF LogInv
  <1>2. \A x \in Paged(l) : \E u \in OfKind(l, "user") : x \in TurnIds(l, u)
    BY DEF Paged, LogInv
  <1>3. PICK e \in OfKind(l, "evicted") : k \in l[e].ids
    BY DEF Paged
  <1>4. PICK u \in OfKind(l, "user") : l[e].ids = TurnIds(l, u)
    BY <1>3 DEF LogInv
  <1>5. i \notin TurnIds(l, u) /\ k \in TurnIds(l, u)
    BY <1>3, <1>4 DEF KeptIn, Paged
  <1>6. \A x \in Txt(l) : x \in DOMAIN l /\ l[x].kind \in Texts /\ l[x].kind # "user"
                          /\ l[x].kind \notin {"mark", "evicted", "readmitted", "compacted"}
    BY DEF Txt, Texts
  <1>7. i \in Txt(l) /\ j \in Txt(l) /\ i \in Nat /\ j \in Nat /\ k \in Nat /\ u \in Nat /\ k < u
    BY <1>1, <1>5, <1>6 DEF KeptIn, TurnIds
  <1>8. PICK v \in OfKind(l, "user") : v < u /\ i < v
    <2>1. i < u
      BY <1>7
    <2>2. \E v \in OfKind(l, "user") : v < u /\ ~(v <= i)
      BY <1>5, <1>6, <1>7, <2>1 DEF TurnIds
    <2> QED
      BY <1>1, <1>7, <2>2
  <1>9. v <= k
    BY <1>5, <1>8 DEF TurnIds
  <1> DEFINE S == {x \in OfKind(l, "user") : x < j}
             w == Max(S)
  <1>10. v \in S /\ S \subseteq 0..Len(l)
    BY <1>1, <1>7, <1>8, <1>9
  <1> HIDE DEF S
  <1>11. w \in S /\ \A x \in S : x <= w
    BY <1>1, <1>10, BoundedMax
  <1> HIDE DEF w
  <1>12. w \in OfKind(l, "user") /\ w < j /\ i < w /\ w \in Nat
    BY <1>1, <1>7, <1>8, <1>10, <1>11 DEF S
  <1>13. w \notin Paged(l)
    <2> SUFFICES ASSUME w \in Paged(l) PROVE FALSE
      OBVIOUS
    <2>2. PICK d \in OfKind(l, "evicted") : w \in l[d].ids
      BY DEF Paged
    <2>3. PICK t \in OfKind(l, "user") : l[d].ids = TurnIds(l, t)
      BY <2>2 DEF LogInv
    <2>4. w < t /\ t \in Nat /\ \A x \in OfKind(l, "user") : x < t => x <= w
      BY <1>1, <2>2, <2>3 DEF TurnIds
    <2>5. t # j /\ ~(t < j)
      <3>1. t # j
        BY <1>6, <1>7 DEF OfKind
      <3>2. t < j => t \in S
        BY DEF S
      <3> QED
        BY <1>11, <1>12, <2>4, <3>1, <3>2
    <2>6. j < t
      BY <1>7, <2>4, <2>5
    <2>7. \A x \in OfKind(l, "user") : x < t => x <= j
      <3>1. \A x \in OfKind(l, "user") : x \in Nat
        BY <1>1
      <3> QED
        BY <1>7, <1>12, <2>4, <3>1
    <2>8. j \in TurnIds(l, t)
      BY <1>6, <1>7, <2>6, <2>7 DEF TurnIds
    <2> QED
      BY <2>3, <2>8 DEF KeptIn, Paged
  <1> QED
    BY <1>12, <1>13

\* What is out decides for no two of these texts whether they belong together.
LEMMA ClearAgrees ==
    ASSUME NEW l, LogInv(l), NEW o \in SUBSET Paged(l), NEW p, NEW i \in KeptIn(l), NEW j \in KeptIn(l),
           Clear(l, o, i, j)
    PROVE  Clear(l, p, i, j)
  <1> SUFFICES ASSUME NEW k \in Closers(l) \ p, i < k, k < j PROVE FALSE
    BY DEF Clear
  <1>1. k \in Paged(l)
    BY DEF Clear
  <1>2. PICK w \in OfKind(l, "user") \ Paged(l) : i < w /\ w < j
    BY <1>1, PagedBetween
  <1>3. w \in Closers(l)
    BY <1>2 DEF OfKind, Closers
  <1> QED
    BY <1>2, <1>3 DEF Clear

LEMMA ClearAgreesAtEnd ==
    ASSUME NEW l, LogInv(l), NEW o \in SUBSET Paged(l), NEW p, NEW i \in Nat,
           Clear(l, o, i, Len(l) + 1)
    PROVE  Clear(l, p, i, Len(l) + 1)
  <1> SUFFICES ASSUME NEW k \in Closers(l) \ p, i < k, k < Len(l) + 1 PROVE FALSE
    BY DEF Clear
  <1>1. k \in Paged(l)
    BY DEF Clear
  <1>2. PICK w \in OfKind(l, "user") \ Paged(l) : k < w
    BY <1>1, PagedIsOver
  <1>3. w \in Closers(l)
    BY <1>2 DEF OfKind, Closers
  <1>4. k \in Nat /\ w \in Nat /\ w < Len(l) + 1
    BY <1>3, LogShape DEF LogInv, Closers
  <1> QED
    BY <1>2, <1>3, <1>4 DEF Clear

LEMMA ShowsAsBefore ==
    ASSUME NEW l, LogInv(l), NEW e, Fits(l, e), NEW m, Grows(l, e, m), NEW out
    PROVE  ShowsUpTo(m, Len(l), out) = ShowsUpTo(l, Len(l), out)
  <1>1. l \in Seq(Events) /\ e \in Events
    BY FitsIsEvent DEF LogInv
  <1>2. /\ m \in Seq(Events) /\ Len(m) = Len(l) + 1 /\ Len(l) \in Nat
        /\ DOMAIN l = 1..Len(l) /\ DOMAIN m = DOMAIN l \cup {Len(m)} /\ Len(m) \notin DOMAIN l
        /\ m[Len(m)] = e /\ \A i \in DOMAIN l : m[i] = l[i]
        /\ OfKind(m, "asked") = OfKind(l, "asked") \cup {i \in {Len(m)} : e.kind = "asked"}
    <2>1. /\ m \in Seq(Events) /\ Len(m) = Len(l) + 1 /\ Len(l) \in Nat
          /\ DOMAIN l = 1..Len(l) /\ DOMAIN m = DOMAIN l \cup {Len(m)} /\ Len(m) \notin DOMAIN l
          /\ m[Len(m)] = e /\ \A i \in DOMAIN l : m[i] = l[i] /\ i < Len(m)
      BY <1>1, Grown
    <2>2. OfKind(m, "asked") = OfKind(l, "asked") \cup {i \in {Len(m)} : e.kind = "asked"}
      BY <1>1, GrownKinds
    <2> QED
      BY <2>1, <2>2
  <1>3. OfKind(l, "asked") \subseteq DOMAIN l /\ OfKind(l, "result") \subseteq DOMAIN l
    BY DEF OfKind
  <1>4. Questions(m) = Questions(l) \cup {c \in {e.ref} : e.kind = "asked"}
    BY <1>2, <1>3 DEF Questions
  <1>5. \A r \in OfKind(l, "result") : l[r].ref \in Questions(m) <=> l[r].ref \in Questions(l)
    <2>1. e.kind = "asked" => \A r \in OfKind(l, "result") : l[r].ref # e.ref
      BY <1>1, FitsIsEvent
    <2> QED
      BY <1>4, <2>1
  <1>6. \A i \in DOMAIN l : i \in ShowableIn(m) <=> i \in ShowableIn(l)
    BY <1>1, <1>2, <1>5, ShowableIsEvent DEF OfKind
  <1>7. \A i \in ShowableIn(m) : i <= Len(l) => i \in DOMAIN l
    BY <1>2, ShowableIsEvent
  <1>8. \A i \in ShowableIn(l) : i \in DOMAIN l
    BY <1>1, ShowableIsEvent
  <1> QED
    BY <1>6, <1>7, <1>8 DEF ShowsUpTo

LEMMA RefersGrows ==
    ASSUME NEW l \in Seq(Events), NEW e \in Events, NEW m, Grows(l, e, m), NEW kind, NEW c,
           ~(kind = e.kind /\ c = e.ref)
    PROVE  RefersTo(m, kind, c) = RefersTo(l, kind, c)
  <1>1. /\ m \in Seq(Events) /\ Len(m) = Len(l) + 1 /\ Len(l) \in Nat
        /\ DOMAIN l = 1..Len(l) /\ DOMAIN m = DOMAIN l \cup {Len(m)} /\ Len(m) \notin DOMAIN l
        /\ m[Len(m)] = e /\ \A i \in DOMAIN l : m[i] = l[i] /\ i < Len(m)
    BY Grown
  <1>2. \A i : i \in RefersTo(m, kind, c) <=> i \in DOMAIN m /\ m[i].kind = kind /\ m[i].ref = c
    BY DEF RefersTo, OfKind
  <1>3. \A i : i \in RefersTo(l, kind, c) <=> i \in DOMAIN l /\ l[i].kind = kind /\ l[i].ref = c
    BY DEF RefersTo, OfKind
  <1> QED
    BY <1>1, <1>2, <1>3

\* A message that the new event does not change is what it was.
LEMMA MessageStays ==
    ASSUME NEW l, LogInv(l), NEW e, Fits(l, e), NEW m, Grows(l, e, m), NEW x, MessageOK(l, x),
           ~(x.type = "result" /\ e.kind = "compacted" /\ l[x.parts[1]].ref = e.ref),
           ~(x.type = "card" /\ e.kind = "answered" /\ l[x.parts[1]].ref = e.ref)
    PROVE  MessageOK(m, x)
  <1>1. l \in Seq(Events) /\ e \in Events
    BY FitsIsEvent DEF LogInv
  <1>2. DOMAIN m = DOMAIN l \cup {Len(m)} /\ \A i \in DOMAIN l : m[i] = l[i] /\ i < Len(m)
    BY <1>1, Grown
  <1>3. /\ Txt(l) \subseteq Txt(m) /\ Cards(l) \subseteq Cards(m)
        /\ OfKind(l, "result") \subseteq OfKind(m, "result")
    BY <1>2 DEF Txt, Cards, OfKind
  <1>4. \A i \in OfKind(l, "result") \cup Cards(l) : m[i] = l[i]
    BY <1>2 DEF OfKind, Cards
  <1>5. CASE x.type = "result"
    <2>1. x.parts[1] \in OfKind(l, "result") /\ Len(x.parts) = 1
      BY <1>5 DEF MessageOK
    <2>2. RefersTo(m, "compacted", l[x.parts[1]].ref) = RefersTo(l, "compacted", l[x.parts[1]].ref)
      BY <1>1, <1>5, RefersGrows
    <2> QED
      BY <1>3, <1>4, <1>5, <2>1, <2>2 DEF MessageOK
  <1>6. CASE x.type = "card"
    <2>1. x.parts[1] \in Cards(l) /\ Len(x.parts) = 1
      BY <1>6 DEF MessageOK
    <2>2. RefersTo(m, "answered", l[x.parts[1]].ref) = RefersTo(l, "answered", l[x.parts[1]].ref)
      BY <1>1, <1>6, RefersGrows
    <2> QED
      BY <1>3, <1>4, <1>6, <2>1, <2>2 DEF MessageOK
  <1>7. CASE x.type # "result" /\ x.type # "card"
    BY <1>3, <1>7 DEF MessageOK
  <1> QED
    BY <1>5, <1>6, <1>7

LEMMA ShapeGrows ==
    ASSUME NEW l, LogInv(l), NEW e, Fits(l, e), NEW m, Grows(l, e, m), NEW out, NEW a,
           Shape(l, Len(l), out, a), e.kind \notin {"compacted", "answered"}
    PROVE  Shape(m, Len(l), out, a)
  <1>1. l \in Seq(Events) /\ e \in Events
    BY FitsIsEvent DEF LogInv
  <1>2. DOMAIN m = DOMAIN l \cup {Len(m)} /\ \A i \in DOMAIN l : m[i] = l[i] /\ i < Len(m)
    BY <1>1, Grown
  <1>3. ShowsUpTo(m, Len(l), out) = ShowsUpTo(l, Len(l), out)
    BY ShowsAsBefore
  <1>4. Txt(l) \subseteq Txt(m) /\ OfKind(l, "thinking") \subseteq OfKind(m, "thinking")
    BY <1>2 DEF Txt, OfKind
  <1>5. \A x \in Range(a.msgs) : MessageOK(m, x)
    BY MessageStays DEF Shape
  <1> QED
    BY <1>3, <1>4, <1>5 DEF Shape

LEMMA JoinsGrows ==
    ASSUME NEW l \in Seq(Events), NEW e \in Events, NEW m, Grows(l, e, m), NEW out, NEW C, NEW a,
           Joins(l, Len(l), out, C, KeptIn(l), a)
    PROVE  Joins(m, Len(l), out, C, KeptIn(m), a)
  <1>1. /\ Len(l) \in Nat /\ DOMAIN l = 1..Len(l) /\ DOMAIN m = DOMAIN l \cup {Len(m)} /\ Len(m) = Len(l) + 1
        /\ \A i \in DOMAIN l : m[i] = l[i]
        /\ OfKind(m, "evicted") = OfKind(l, "evicted") \cup {i \in {Len(m)} : e.kind = "evicted"}
    <2>1. /\ Len(m) = Len(l) + 1 /\ Len(l) \in Nat /\ DOMAIN l = 1..Len(l) /\ DOMAIN m = DOMAIN l \cup {Len(m)}
          /\ \A i \in DOMAIN l : m[i] = l[i] /\ i < Len(m)
      BY Grown
    <2>2. OfKind(m, "evicted") = OfKind(l, "evicted") \cup {i \in {Len(m)} : e.kind = "evicted"}
      BY GrownKinds
    <2> QED
      BY <2>1, <2>2
  <1>2. Paged(l) \subseteq Paged(m)
    <2>1. \A x \in OfKind(l, "evicted") : x \in OfKind(m, "evicted") /\ m[x] = l[x]
      BY <1>1 DEF OfKind
    <2> QED
      BY <2>1 DEF Paged
  <1>3. \A i \in KeptIn(m) : i \in Nat /\ (i <= Len(l) => i \in KeptIn(l))
    BY <1>1, <1>2 DEF KeptIn, Txt
  <1>4. \A k : k \in Closers(m) /\ k < Len(l) + 1 <=> k \in Closers(l)
    BY <1>1 DEF Closers
  <1>5. ASSUME NEW i, NEW j \in Nat, j <= Len(l) + 1
        PROVE  Clear(m, out, i, j) <=> Clear(l, out, i, j)
    <2>1. \A k \in Closers(m) : k \in Nat
      BY <1>1 DEF Closers
    <2>2. \A k \in Closers(m) : k < j => k \in Closers(l)
      BY <1>1, <1>4, <1>5, <2>1
    <2>3. Closers(l) \subseteq Closers(m)
      BY <1>4
    <2> QED
      BY <2>2, <2>3 DEF Clear
  <1>6. ASSUME NEW i \in KeptIn(m), i <= Len(l)
        PROVE  /\ i \in Range(a.parts) => Clear(m, out, i, Len(l) + 1)
               /\ Clear(m, out, i, Len(l) + 1) /\ C \cap i..Len(l) = {} => i \in Range(a.parts)
    <2>1. Clear(m, out, i, Len(l) + 1) <=> Clear(l, out, i, Len(l) + 1)
      BY <1>1, <1>5
    <2> QED
      BY <1>3, <1>6, <2>1 DEF Joins
  <1>7. ASSUME NEW i \in KeptIn(m), NEW j \in KeptIn(m), i < j, j <= Len(l)
        PROVE  /\ Tog(a, i, j) => Clear(m, out, i, j)
               /\ Clear(m, out, i, j) /\ C \cap i..(j - 1) = {} => Tog(a, i, j)
    <2>1. i <= Len(l) /\ j <= Len(l) + 1 /\ j \in Nat
      BY <1>1, <1>3, <1>7
    <2>2. Clear(m, out, i, j) <=> Clear(l, out, i, j)
      BY <1>5, <2>1
    <2>3. i \in KeptIn(l) /\ j \in KeptIn(l)
      BY <1>3, <1>7, <2>1
    <2> QED
      BY <1>7, <2>2, <2>3 DEF Joins
  <1> QED
    BY <1>6, <1>7 DEF Joins

-----------------------------------------------------------------------------
(* The cache takes an event.                                                *)

\* The latest event about c is the new one.
LEMMA LastIsNew ==
    ASSUME NEW l \in Seq(Events), NEW e \in Events, NEW m, Grows(l, e, m)
    PROVE  LastOrNone(RefersTo(m, e.kind, e.ref)) = Len(m)
  <1>1. /\ m \in Seq(Events) /\ Len(m) = Len(l) + 1 /\ Len(l) \in Nat
        /\ DOMAIN l = 1..Len(l) /\ DOMAIN m = DOMAIN l \cup {Len(m)} /\ Len(m) \notin DOMAIN l
        /\ m[Len(m)] = e /\ \A i \in DOMAIN l : m[i] = l[i] /\ i < Len(m)
    BY Grown
  <1> DEFINE S == RefersTo(m, e.kind, e.ref)
  <1>2. Len(m) \in S /\ S \subseteq 0..Len(m) /\ Len(m) \in Nat
    <2>1. \A i : i \in S <=> i \in DOMAIN m /\ m[i].kind = e.kind /\ m[i].ref = e.ref
      BY DEF RefersTo, OfKind
    <2> HIDE DEF S
    <2>2. DOMAIN m = 1..Len(m) /\ Len(m) \in Nat
      BY <1>1
    <2> QED
      BY <1>1, <2>1, <2>2
  <1> HIDE DEF S
  <1>3. Max(S) \in S /\ \A x \in S : x <= Max(S)
    BY <1>2, BoundedMax
  <1>4. Max(S) = Len(m)
    <2>1. Max(S) \in 0..Len(m) /\ Len(m) <= Max(S)
      BY <1>2, <1>3
    <2> QED
      BY <1>2, <2>1
  <1>5. LastOrNone(S) = Len(m)
    BY <1>2, <1>4 DEF LastOrNone
  <1> QED
    BY <1>5 DEF S

\* The same messages, but for whom they were changed by.
LEMMA SameParts ==
    ASSUME NEW s \in Seq(Messages), NEW t \in Seq(Messages), DOMAIN s = DOMAIN t,
           \A x \in DOMAIN s : s[x].parts = t[x].parts
    PROVE  /\ Sorted(s) => Sorted(t)
           /\ PartsOf(t) = PartsOf(s)
           /\ \A i, j : Together(t, i, j) <=> Together(s, i, j)
  <1>1. /\ \A x \in Range(s) : \E y \in Range(t) : y.parts = x.parts
        /\ \A y \in Range(t) : \E x \in Range(s) : x.parts = y.parts
    BY DEF Range
  <1>2. Sorted(s) => Sorted(t)
    <2> SUFFICES ASSUME Sorted(s) PROVE Sorted(t)
      OBVIOUS
    <2>1. \A y \in Range(t) : Increasing(y.parts)
      BY <1>1 DEF Sorted
    <2>2. \A a, b \in DOMAIN t : a < b => Below(Range(t[a].parts), Range(t[b].parts))
      BY DEF Sorted
    <2> QED
      BY <2>1, <2>2 DEF Sorted
  <1>3. PartsOf(t) = PartsOf(s)
    <2>1. \A i : i \in PartsOf(s) <=> \E x \in Range(s) : i \in Range(x.parts)
      BY DEF PartsOf
    <2>2. \A i : i \in PartsOf(t) <=> \E y \in Range(t) : i \in Range(y.parts)
      BY DEF PartsOf
    <2> QED
      BY <1>1, <2>1, <2>2
  <1>4. \A i, j : Together(t, i, j) <=> Together(s, i, j)
    BY <1>1 DEF Together
  <1> QED
    BY <1>2, <1>3, <1>4

Amends(type, kind) == (type = "result" /\ kind = "compacted") \/ (type = "card" /\ kind = "answered")

LEMMA AmendKeeps ==
    ASSUME NEW l, LogInv(l), NEW e, Fits(l, e), NEW m, Grows(l, e, m), NEW out, NEW a,
           Shape(l, Len(l), out, a), NEW type, Amends(type, e.kind),
           NEW b, b = Amend(m, a, type, Len(m))
    PROVE  /\ Shape(m, Len(l) + 1, out, b) /\ DOMAIN b = DOMAIN a
           /\ \A f \in DOMAIN a \ {"msgs"} : b[f] = a[f]
           /\ \A i, j : Tog(b, i, j) <=> Tog(a, i, j)
  <1> DEFINE n == Len(m)
             S == {x \in DOMAIN a.msgs : a.msgs[x].type = type /\ m[a.msgs[x].parts[1]].ref = m[n].ref}
             y == Max(S)
  <1>1. l \in Seq(Events) /\ e \in Events
    BY FitsIsEvent DEF LogInv
  <1>2. /\ m \in Seq(Events) /\ n = Len(l) + 1 /\ Len(l) \in Nat
        /\ DOMAIN l = 1..Len(l) /\ DOMAIN m = DOMAIN l \cup {n} /\ n \notin DOMAIN l
        /\ m[n] = e /\ \A i \in DOMAIN l : m[i] = l[i] /\ i < n
    BY <1>1, Grown
  <1>3. /\ Accs(a) /\ a.msgs \in Seq(Messages) /\ Sorted(a.msgs)
        /\ DOMAIN a.msgs = 1..Len(a.msgs) /\ Len(a.msgs) \in Nat
        /\ \A x \in DOMAIN a.msgs : a.msgs[x] \in Messages /\ a.msgs[x] \in Range(a.msgs)
    BY LenProperties, ElementOfSeq DEF Shape, Accs, Range
  <1>4. \A x \in DOMAIN a.msgs : MessageOK(l, a.msgs[x])
    BY <1>3 DEF Shape
  <1>5. ShowsUpTo(m, n, out) = ShowsUpTo(l, Len(l), out)
    <2>1. n \notin ShowableIn(m)
      BY <1>2, ShowableIsEvent DEF Amends, Texts
    <2>2. ShowsUpTo(m, Len(l) + 1, out) = ShowsUpTo(m, Len(l), out)
      BY <1>2, <2>1, NothingMoreToShow
    <2>3. ShowsUpTo(m, Len(l), out) = ShowsUpTo(l, Len(l), out)
      BY ShowsAsBefore
    <2> QED
      BY <1>2, <2>2, <2>3
  <1>6. Txt(l) \subseteq Txt(m) /\ OfKind(l, "thinking") \subseteq OfKind(m, "thinking")
    BY <1>2 DEF Txt, OfKind
  \* It shows an event that the log held before.
  <1>7. ASSUME NEW x \in DOMAIN a.msgs, a.msgs[x].type = type
        PROVE  /\ a.msgs[x].parts[1] \in OfKind(l, "result") \cup Cards(l)
               /\ type = "result" => a.msgs[x].parts[1] \in OfKind(l, "result")
               /\ type = "card" => a.msgs[x].parts[1] \in Cards(l)
               /\ m[a.msgs[x].parts[1]] = l[a.msgs[x].parts[1]]
               /\ a.msgs[x].parts[1] \in Range(a.msgs[x].parts)
    <2>1. /\ a.msgs[x].type # "assistant"
          /\ a.msgs[x].type \in {"result", "card"}
      BY <1>7 DEF Amends
    <2>2. /\ Len(a.msgs[x].parts) = 1
          /\ a.msgs[x].parts[1] \in OfKind(l, "result") \cup Cards(l)
          /\ type = "result" => a.msgs[x].parts[1] \in OfKind(l, "result")
          /\ type = "card" => a.msgs[x].parts[1] \in Cards(l)
      BY <1>4, <1>7, <2>1 DEF MessageOK
    <2>3. a.msgs[x].parts \in Seq(Nat)
      BY <1>3 DEF Messages
    <2>4. 1 \in DOMAIN a.msgs[x].parts
      BY <2>2, <2>3, LenProperties
    <2>5. a.msgs[x].parts[1] \in DOMAIN l
      BY <2>2 DEF OfKind, Cards
    <2> QED
      BY <1>2, <2>2, <2>4, <2>5 DEF Range
  <1>8. \A x \in DOMAIN a.msgs : x \notin S => MessageOK(m, a.msgs[x])
    <2> SUFFICES ASSUME NEW x \in DOMAIN a.msgs, x \notin S PROVE MessageOK(m, a.msgs[x])
      OBVIOUS
    <2>1. a.msgs[x].type = type => l[a.msgs[x].parts[1]].ref # e.ref
      BY <1>2, <1>7
    <2>2. /\ ~(a.msgs[x].type = "result" /\ e.kind = "compacted" /\ l[a.msgs[x].parts[1]].ref = e.ref)
          /\ ~(a.msgs[x].type = "card" /\ e.kind = "answered" /\ l[a.msgs[x].parts[1]].ref = e.ref)
      BY <2>1 DEF Amends
    <2> QED
      BY <1>4, <2>2, MessageStays
  <1>9. LatestAbout(m, a.msgs, type, m[n].ref) = LastOrNone(S)
    BY DEF LatestAbout
  <1>10. S \subseteq 0..Len(a.msgs) /\ S \subseteq DOMAIN a.msgs
    BY <1>3
  <1>11. CASE S = {}
    <2>1. b = a
      BY <1>9, <1>11 DEF Amend, LastOrNone
    <2>2. \A x \in DOMAIN a.msgs : MessageOK(m, a.msgs[x])
      BY <1>8, <1>11
    <2>3. Shape(m, n, out, a)
      BY <1>5, <1>6, <2>2 DEF Shape, Range
    <2> QED
      BY <1>2, <2>1, <2>3
  <1>12. CASE S # {}
    <2>1. y \in S
      BY <1>3, <1>10, <1>12, BoundedMax
    <2>2. /\ y \in DOMAIN a.msgs /\ a.msgs[y].type = type /\ m[a.msgs[y].parts[1]].ref = m[n].ref
          /\ y # 0
      <3> HIDE DEF y
      <3>1. y \in DOMAIN a.msgs /\ a.msgs[y].type = type /\ m[a.msgs[y].parts[1]].ref = m[n].ref
        BY <2>1
      <3> QED
        BY <1>3, <3>1
    <2>3. LatestAbout(m, a.msgs, type, m[n].ref) = y
      BY <1>9, <1>12 DEF LastOrNone
    <2>4. b = [a EXCEPT !.msgs[y].by = n]
      BY <2>2, <2>3 DEF Amend
    <2>5. \A x \in S : x = y
      <3> SUFFICES ASSUME NEW x \in S, x # y PROVE FALSE
        OBVIOUS
      <3>1. x \in DOMAIN a.msgs /\ a.msgs[x].type = type /\ m[a.msgs[x].parts[1]].ref = m[n].ref
        OBVIOUS
      <3> HIDE DEF S, y
      <3>2. a.msgs[x].parts[1] = a.msgs[y].parts[1]
        <4>1. l[a.msgs[x].parts[1]].ref = l[a.msgs[y].parts[1]].ref
          BY <1>7, <2>2, <3>1
        <4>2. CASE type = "result"
          BY <1>7, <2>2, <3>1, <4>1, <4>2 DEF LogInv
        <4>3. CASE type = "card"
          BY <1>7, <2>2, <3>1, <4>1, <4>3 DEF LogInv
        <4> QED
          BY <4>2, <4>3 DEF Amends
      <3>3. /\ a.msgs[x].parts[1] \in Range(a.msgs[x].parts)
            /\ a.msgs[y].parts[1] \in Range(a.msgs[y].parts)
            /\ a.msgs[x].parts[1] \in Nat
        <4>1. a.msgs[x].parts[1] \in Range(a.msgs[x].parts)
          BY <1>7, <3>1
        <4>2. a.msgs[y].parts[1] \in Range(a.msgs[y].parts)
          BY <1>7, <2>2
        <4>3. a.msgs[x].parts[1] \in OfKind(l, "result") \cup Cards(l)
          BY <1>7, <3>1
        <4>4. \A i \in OfKind(l, "result") \cup Cards(l) : i \in Nat
          BY <1>2 DEF OfKind, Cards
        <4> QED
          BY <4>1, <4>2, <4>3, <4>4
      <3>4. x < y \/ y < x
        BY <1>3, <2>2, <3>1
      <3>5. \A p, q \in DOMAIN a.msgs : p < q =>
               \A i \in Range(a.msgs[p].parts), j \in Range(a.msgs[q].parts) : i < j
        BY <1>3 DEF Sorted, Below
      <3>6. a.msgs[x].parts[1] < a.msgs[y].parts[1] \/ a.msgs[y].parts[1] < a.msgs[x].parts[1]
        BY <2>2, <3>1, <3>3, <3>4, <3>5
      <3> QED
        BY <3>2, <3>3, <3>6
    <2> HIDE DEF S, y
    <2> DEFINE z == [a.msgs[y] EXCEPT !.by = n]
    <2>6. /\ b.msgs = [a.msgs EXCEPT ![y] = z] /\ b.parts = a.parts /\ b.think = a.think
          /\ DOMAIN b = DOMAIN a /\ \A f \in DOMAIN a \ {"msgs"} : b[f] = a[f]
      BY <1>3, <2>4 DEF Accs
    <2>7. z \in Messages /\ z.parts = a.msgs[y].parts /\ z.type = type /\ z.by = n
      <3>1. n \in Nat /\ a.msgs[y] \in Messages
        BY <1>2, <1>3, <2>2
      <3> QED
        BY <2>2, <3>1 DEF Messages
    <2>8. MessageOK(m, z)
      <3>1. z.parts[1] = a.msgs[y].parts[1] /\ Len(z.parts) = 1
        BY <1>4, <2>2, <2>7 DEF MessageOK, Amends
      <3>2. LastOrNone(RefersTo(m, e.kind, e.ref)) = n
        BY <1>1, LastIsNew
      <3>3. m[z.parts[1]].ref = e.ref
        BY <1>2, <2>2, <3>1
      <3>4. OfKind(l, "result") \subseteq OfKind(m, "result") /\ Cards(l) \subseteq Cards(m)
        BY <1>2 DEF OfKind, Cards
      <3> HIDE DEF z
      <3> QED
        BY <1>7, <2>2, <2>7, <3>1, <3>2, <3>3, <3>4 DEF MessageOK, Amends
    <2> HIDE DEF z
    <2>9. /\ b.msgs \in Seq(Messages) /\ DOMAIN b.msgs = DOMAIN a.msgs
          /\ \A x \in DOMAIN a.msgs : b.msgs[x] = IF x = y THEN z ELSE a.msgs[x]
      BY <1>3, <2>2, <2>6, <2>7, ExceptSeq
    <2>10. \A x \in DOMAIN a.msgs : b.msgs[x].parts = a.msgs[x].parts
      BY <2>7, <2>9
    <2>11. /\ Sorted(b.msgs) /\ PartsOf(b.msgs) = PartsOf(a.msgs)
           /\ \A i, j : Together(b.msgs, i, j) <=> Together(a.msgs, i, j)
      BY <1>3, <2>9, <2>10, SameParts
    <2>12. \A x \in Range(b.msgs) : MessageOK(m, x)
      BY <1>8, <2>5, <2>8, <2>9 DEF Range
    <2>13. Accs(b)
      BY <1>3, <2>6, <2>9 DEF Accs
    <2>14. Shape(m, n, out, b)
      BY <1>5, <1>6, <2>6, <2>11, <2>12, <2>13 DEF Shape
    <2>15. \A i, j : Tog(b, i, j) <=> Tog(a, i, j)
      BY <2>6, <2>11 DEF Tog
    <2> QED
      BY <1>2, <2>6, <2>14, <2>15
  <1> QED
    BY <1>11, <1>12

\* ProjectionCache has more fields than the fold.
Caches(c) == Accs(c) /\ {"len", "questions"} \subseteq DOMAIN c

LEMMA FoldLeavesFields ==
    ASSUME NEW l, NEW out, NEW c, Caches(c), NEW i, NEW x, x = FoldEvent(l, out, c, i)
    PROVE  DOMAIN x = DOMAIN c /\ x.len = c.len /\ x.questions = c.questions
  <1> DEFINE f == Flush(c)
  <1>1. {"msgs", "parts", "think", "len", "questions"} \subseteq DOMAIN c
    BY DEF Caches, Accs
  <1>2. DOMAIN f = DOMAIN c /\ f.len = c.len /\ f.questions = c.questions
    BY <1>1 DEF Flush
  <1> HIDE DEF f
  <1>3. \A p : LET g == Push(f, p)
               IN DOMAIN g = DOMAIN c /\ g.len = c.len /\ g.questions = c.questions
    BY <1>1, <1>2 DEF Push
  <1>4. \A p : LET g == [c EXCEPT !.parts = p]
               IN DOMAIN g = DOMAIN c /\ g.len = c.len /\ g.questions = c.questions
    BY <1>1
  <1>5. \A p : LET g == [f EXCEPT !.think = p]
               IN DOMAIN g = DOMAIN c /\ g.len = c.len /\ g.questions = c.questions
    BY <1>1, <1>2
  <1>6. \/ x = c \/ x = f
        \/ x = Push(f, One(l[i].kind, i))
        \/ x = Push(f, Msg("result", <<i>>, LastOrNone(RefersTo(l, "compacted", l[i].ref)), 0))
        \/ x = Push(f, Msg("card", <<i>>, LastOrNone(RefersTo(l, "answered", l[i].ref)), 0))
        \/ x = [c EXCEPT !.parts = Append(@, i)]
        \/ x = [f EXCEPT !.think = i]
    BY DEF FoldEvent, f
  <1> QED
    BY <1>2, <1>3, <1>4, <1>5, <1>6

\* apply_event does what the fold does, but for what changes an earlier message,
\* and keeps the set of questions besides.
LEMMA AppliedIsFold ==
    ASSUME NEW l, LogInv(l), NEW e, Fits(l, e), NEW m, Grows(l, e, m), NEW out, Len(m) \notin out,
           NEW c, Caches(c), c.questions = Questions(l), e.kind \notin {"compacted", "answered"},
           NEW x, x = FoldEvent(m, out, c, Len(m)), NEW y, y = Applied(m, c, Len(m))
    PROVE  /\ y.msgs = x.msgs /\ y.parts = x.parts /\ y.think = x.think /\ DOMAIN y = DOMAIN c
           /\ y.len = c.len /\ y.questions = Questions(m)
  <1> DEFINE n == Len(m)
  <1>1. l \in Seq(Events) /\ e \in Events
    BY FitsIsEvent DEF LogInv
  <1>2. /\ m \in Seq(Events) /\ n = Len(l) + 1 /\ Len(l) \in Nat
        /\ DOMAIN l = 1..Len(l) /\ DOMAIN m = DOMAIN l \cup {n} /\ n \notin DOMAIN l
        /\ m[n] = e /\ \A i \in DOMAIN l : m[i] = l[i] /\ i < n
    BY <1>1, Grown
  <1>3. e.kind \in PlainKinds \cup AboutKinds \cup {"evicted", "readmitted"}
    BY <1>1, <1>2, LogShape
  <1>4. DOMAIN x = DOMAIN c /\ x.len = c.len /\ x.questions = c.questions
    BY FoldLeavesFields
  <1>5. e.kind # "asked" => Questions(m) = Questions(l)
    <2> SUFFICES ASSUME e.kind # "asked" PROVE Questions(m) = Questions(l)
      OBVIOUS
    <2>1. OfKind(m, "asked") = OfKind(l, "asked")
      BY <1>1, NoneOfOthers
    <2>2. \A i \in OfKind(l, "asked") : m[i] = l[i]
      BY <1>2 DEF OfKind
    <2> QED
      BY <2>1, <2>2 DEF Questions
  <1>6. CASE e.kind # "asked"
    <2>1. y = x
      <3>1. CASE e.kind = "result"
        <4>1. RefersTo(m, "compacted", e.ref) = {}
          <5>1. RefersTo(m, "compacted", e.ref) = RefersTo(l, "compacted", e.ref)
            BY <1>1, <3>1, NoneOfOthers
          <5>2. \A r \in OfKind(l, "result") : l[r].ref # e.ref
            BY <1>1, <3>1, FitsIsEvent
          <5>3. \A j \in OfKind(l, "compacted") : l[j].ref # e.ref
            BY <5>2 DEF LogInv
          <5> QED
            BY <5>1, <5>3 DEF RefersTo
        <4>2. LastOrNone(RefersTo(m, "compacted", e.ref)) = 0
          BY <4>1 DEF LastOrNone
        <4>3. Questions(m) = c.questions
          BY <1>5, <3>1
        <4> QED
          BY <1>2, <3>1, <4>2, <4>3 DEF FoldEvent, Applied, One, Texts
      <3>2. CASE e.kind = "approve"
        <4>1. RefersTo(m, "answered", e.ref) = {}
          <5>1. RefersTo(m, "answered", e.ref) = RefersTo(l, "answered", e.ref)
            BY <1>1, <3>2, NoneOfOthers
          <5>2. \A r \in Cards(l) : l[r].ref # e.ref
            BY <1>1, <3>2, FitsIsEvent
          <5>3. \A j \in OfKind(l, "answered") : l[j].ref # e.ref
            BY <5>2 DEF LogInv
          <5> QED
            BY <5>1, <5>3 DEF RefersTo
        <4>2. LastOrNone(RefersTo(m, "answered", e.ref)) = 0
          BY <4>1 DEF LastOrNone
        <4>3. x = Push(Flush(c), Msg("card", <<n>>, 0, 0))
          BY <1>2, <3>2, <4>2 DEF FoldEvent, Texts
        <4>4. y = [x EXCEPT !.questions = @]
          BY <1>2, <3>2, <4>3 DEF Applied, One, Texts
        <4>5. x = [f \in DOMAIN x |-> x[f]]
          BY <4>3 DEF Push
        <4> QED
          BY <4>4, <4>5
      <3>3. CASE e.kind \notin {"result", "approve"}
        BY <1>2, <1>6, <3>3 DEF FoldEvent, Applied, One, Texts
      <3> QED
        BY <3>1, <3>2, <3>3
    <2> QED
      BY <1>4, <1>5, <1>6, <2>1
  <1>7. CASE e.kind = "asked"
    <2>1. RefersTo(m, "answered", e.ref) = {}
      <3>1. RefersTo(m, "answered", e.ref) = RefersTo(l, "answered", e.ref)
        BY <1>1, <1>7, NoneOfOthers
      <3>2. \A r \in Cards(l) : l[r].ref # e.ref
        BY <1>1, <1>7, FitsIsEvent
      <3>3. \A j \in OfKind(l, "answered") : l[j].ref # e.ref
        BY <3>2 DEF LogInv
      <3> QED
        BY <3>1, <3>3 DEF RefersTo
    <2>2. LastOrNone(RefersTo(m, "answered", e.ref)) = 0
      BY <2>1 DEF LastOrNone
    <2>3. x = Push(Flush(c), Msg("card", <<n>>, 0, 0))
      BY <1>2, <1>7, <2>2 DEF FoldEvent, Texts
    <2>4. y = [x EXCEPT !.questions = @ \cup {e.ref}]
      BY <1>2, <1>7, <2>3 DEF Applied, One, Texts
    <2>5. {"msgs", "parts", "think", "len", "questions"} \subseteq DOMAIN x
      BY <1>4 DEF Caches, Accs
    <2>6. /\ y.msgs = x.msgs /\ y.parts = x.parts /\ y.think = x.think /\ y.len = x.len
          /\ y.questions = x.questions \cup {e.ref} /\ DOMAIN y = DOMAIN x
      BY <2>4, <2>5
    <2>7. Questions(m) = Questions(l) \cup {e.ref}
      <3>1. OfKind(m, "asked") = OfKind(l, "asked") \cup {n}
        BY <1>2, <1>7 DEF OfKind
      <3>2. \A i \in OfKind(l, "asked") : m[i] = l[i]
        BY <1>2 DEF OfKind
      <3> QED
        BY <1>2, <3>1, <3>2 DEF Questions
    <2> QED
      BY <1>4, <2>6, <2>7
  <1> QED
    BY <1>6, <1>7

-----------------------------------------------------------------------------
(* The screen.                                                              *)

\* The log l, the cache c, the length b at the last fold and the places C where
\* the cache ended a message early.
ScreenOK(l, c, b, C) ==
    /\ LogInv(l)
    /\ b \in 0..Len(l) /\ C \subseteq 1..Len(l)
    /\ Caches(c) /\ c.len = Len(l) /\ c.questions = Questions(l)
    /\ Shape(l, Len(l), OutAt(l, b), c)
    /\ Joins(l, Len(l), OutAt(l, b), C, KeptIn(l), c)

LEMMA SameScreen ==
    ASSUME NEW l, NEW n, NEW out, NEW x, Shape(l, n, out, x),
           NEW y, {"msgs", "parts", "think"} \subseteq DOMAIN y,
           y.msgs = x.msgs, y.parts = x.parts, y.think = x.think
    PROVE  /\ Shape(l, n, out, y)
           /\ \A i, j : Tog(y, i, j) <=> Tog(x, i, j)
           /\ \A k, a : Effect(l, k, out, a, x) => Effect(l, k, out, a, y)
  BY DEF Shape, Accs, Tog, Effect

\* apply_event keeps the screen right.
LEMMA ApplyKeeps ==
    ASSUME NEW l, NEW c, NEW b, NEW C, ScreenOK(l, c, b, C), NEW e, Fits(l, e),
           NEW m, Grows(l, e, m), NEW d, d = ApplyEvent(m, c)
    PROVE  ScreenOK(m, d, b, C)
  <1> DEFINE n == Len(m)
             out == OutAt(m, b)
             y == Applied(m, c, n)
             x == FoldEvent(m, out, c, n)
  <1>1. LogInv(l) /\ l \in Seq(Events) /\ e \in Events /\ LogInv(m)
    BY FitsIsEvent, FitsKeepsLog DEF ScreenOK, LogInv
  <1>2. /\ m \in Seq(Events) /\ n = Len(l) + 1 /\ Len(l) \in Nat
        /\ DOMAIN l = 1..Len(l) /\ DOMAIN m = DOMAIN l \cup {n} /\ n \notin DOMAIN l
        /\ m[n] = e /\ \A i \in DOMAIN l : m[i] = l[i] /\ i < n
    BY <1>1, Grown
  <1>3. b \in 0..Len(l) /\ b \in 0..n /\ C \subseteq 1..n
    BY <1>2 DEF ScreenOK
  <1>4. OutAt(l, b) = out
    BY <1>1, <1>3, OutAtGrows
  <1>5. out \subseteq Paged(m) /\ n \notin out
    <2>1. OutAt(m, b) \subseteq Paged(m) \cap 1..b
      BY <1>2, <1>3, OutAtIsPaged
    <2>2. n \notin 1..b
      BY <1>2, <1>3
    <2> QED
      BY <2>1, <2>2
  <1> HIDE DEF out
  <1>6. Shape(l, Len(l), out, c)
    BY <1>4 DEF ScreenOK
  <1>7. Joins(m, Len(l), out, C, KeptIn(m), c)
    <2>1. Joins(l, Len(l), out, C, KeptIn(l), c)
      BY <1>4 DEF ScreenOK
    <2> QED
      BY <1>1, <2>1, JoinsGrows
  <1>8. Caches(c) /\ c.len = Len(l) /\ c.questions = Questions(l)
    BY DEF ScreenOK
  <1>9. /\ y.len = c.len /\ y.questions = Questions(m) /\ DOMAIN y = DOMAIN c
        /\ Shape(m, n, out, y) /\ Effect(m, Len(l), out, c, y)
    <2>1. CASE e.kind \notin {"compacted", "answered"}
      <3>1. Shape(m, Len(l), out, c)
        BY <1>1, <1>6, <2>1, ShapeGrows
      <3>2. Shape(m, n, out, x) /\ Effect(m, Len(l), out, c, x)
        BY <1>2, <3>1, FoldStep
      <3>3. /\ y.msgs = x.msgs /\ y.parts = x.parts /\ y.think = x.think /\ DOMAIN y = DOMAIN c
            /\ y.len = c.len /\ y.questions = Questions(m)
        BY <1>1, <1>5, <1>8, <2>1, AppliedIsFold
      <3>4. {"msgs", "parts", "think"} \subseteq DOMAIN y
        BY <1>8, <3>3 DEF Caches, Accs
      <3> HIDE DEF x, y
      <3> QED
        BY <3>2, <3>3, <3>4, SameScreen
    <2>2. ASSUME NEW type, Amends(type, e.kind), y = Amend(m, c, type, n)
          PROVE  /\ y.len = c.len /\ y.questions = Questions(m) /\ DOMAIN y = DOMAIN c
                 /\ Shape(m, n, out, y) /\ Effect(m, Len(l), out, c, y)
      <3> HIDE DEF y
      <3>1. /\ Shape(m, Len(l) + 1, out, y) /\ DOMAIN y = DOMAIN c
            /\ \A f \in DOMAIN c \ {"msgs"} : y[f] = c[f]
            /\ \A i, j : Tog(y, i, j) <=> Tog(c, i, j)
        BY <1>1, <1>6, <2>2, AmendKeeps
      <3>2. y.len = c.len /\ y.questions = c.questions /\ y.parts = c.parts
        BY <1>8, <3>1 DEF Caches, Accs
      <3>3. n \notin Txt(m) \cup Closers(m)
        BY <1>2, <2>2 DEF Txt, Closers, Texts, Amends
      <3>4. Effect(m, Len(l), out, c, y)
        BY <1>2, <3>1, <3>2, <3>3 DEF Effect
      <3>5. OfKind(m, "asked") = OfKind(l, "asked")
        BY <1>1, <2>2, NoneOfOthers DEF Amends
      <3>6. \A i \in OfKind(l, "asked") : m[i] = l[i]
        BY <1>2 DEF OfKind
      <3>7. Questions(m) = Questions(l)
        BY <3>5, <3>6 DEF Questions
      <3> QED
        BY <1>2, <1>8, <3>1, <3>2, <3>4, <3>7
    <2>3. CASE e.kind = "compacted"
      <3>1. y = Amend(m, c, "result", n)
        BY <1>2, <2>3 DEF Applied, Texts
      <3> QED
        BY <2>2, <2>3, <3>1 DEF Amends
    <2>4. CASE e.kind = "answered"
      <3>1. y = Amend(m, c, "card", n)
        BY <1>2, <2>4 DEF Applied, Texts
      <3> QED
        BY <2>2, <2>4, <3>1 DEF Amends
    <2> QED
      BY <2>1, <2>3, <2>4
  <1>10. d = [y EXCEPT !.len = @ + 1]
    BY DEF ApplyEvent
  <1> HIDE DEF x, y
  <1>11. {"msgs", "parts", "think", "len", "questions"} \subseteq DOMAIN y
    BY <1>8, <1>9 DEF Caches, Accs
  <1>12. /\ d.msgs = y.msgs /\ d.parts = y.parts /\ d.think = y.think
         /\ d.questions = y.questions /\ d.len = n /\ DOMAIN d = DOMAIN y
    BY <1>2, <1>8, <1>9, <1>10, <1>11
  <1>13. Shape(m, n, out, d) /\ Effect(m, Len(l), out, c, d)
    BY <1>9, <1>11, <1>12, SameScreen
  <1>14. KeptIn(m) \subseteq Txt(m) \ out
    BY <1>5 DEF KeptIn
  <1>15. Joins(m, n, out, C, KeptIn(m), d)
    BY <1>2, <1>7, <1>13, <1>14, JoinsStep
  <1>16. Caches(d)
    BY <1>11, <1>12, <1>13 DEF Caches, Shape
  <1> QED
    BY <1>1, <1>3, <1>9, <1>12, <1>13, <1>15, <1>16 DEF ScreenOK, out

\* A cut is a place in the log, and there only where texts were pending.
LEMMA CutPlace ==
    ASSUME NEW l, NEW c, NEW b, NEW C, ScreenOK(l, c, b, C)
    PROVE  Cut(c, l) \subseteq 1..Len(l) /\ (Range(c.parts) # {} => Cut(c, l) = {Len(l)})
  <1>1. l \in Seq(Events) /\ Len(l) \in Nat /\ DOMAIN l = 1..Len(l)
    BY LogShape DEF ScreenOK, LogInv
  <1>2. Range(c.parts) \subseteq DOMAIN l /\ c.parts \in Seq(Nat)
    BY DEF ScreenOK, Shape, Accs, Txt
  <1>3. Cut(c, l) \subseteq 1..Len(l)
    <2> SUFFICES ASSUME c.parts # <<>> PROVE Len(l) \in 1..Len(l)
      BY DEF Cut
    <2>1. DOMAIN c.parts # {}
      <3>1. Len(c.parts) # 0
        BY <1>2, EmptySeq
      <3>2. Len(c.parts) \in Nat /\ DOMAIN c.parts = 1..Len(c.parts)
        BY <1>2, LenProperties
      <3>3. 1 \in 1..Len(c.parts)
        BY <3>1, <3>2
      <3> QED
        BY <3>2, <3>3
    <2>2. DOMAIN l # {}
      BY <1>2, <2>1 DEF Range
    <2> QED
      BY <1>1, <2>2
  <1>4. Range(c.parts) # {} => Cut(c, l) = {Len(l)}
    BY EmptyMessages DEF Cut
  <1> QED
    BY <1>3, <1>4

\* A fold of the whole log, after an event that the cache did not see.
LEMMA RefoldKeeps ==
    ASSUME NEW l, NEW c, NEW b, NEW C, ScreenOK(l, c, b, C), NEW e, e \in {Plain("user"), Plain("mark")},
           NEW m, Grows(l, e, m), NEW d, d = FullRefresh(m)
    PROVE  ScreenOK(m, d, Len(m), C \cup Cut(c, l))
  <1> DEFINE n == Len(m)
             out == Out(m)
             D == C \cup Cut(c, l)
             K == KeptIn(m)
  <1>1. Fits(l, e)
    BY DEF Fits, PlainKinds
  <1>2. LogInv(l) /\ l \in Seq(Events) /\ e \in Events /\ LogInv(m)
    BY <1>1, FitsIsEvent, FitsKeepsLog DEF ScreenOK, LogInv
  <1>3. /\ m \in Seq(Events) /\ n = Len(l) + 1 /\ Len(l) \in Nat
        /\ DOMAIN l = 1..Len(l) /\ DOMAIN m = DOMAIN l \cup {n} /\ n \notin DOMAIN l
        /\ m[n] = e /\ \A i \in DOMAIN l : m[i] = l[i] /\ i < n
    BY <1>2, Grown
  <1>4. out \subseteq Paged(m) /\ K \subseteq Txt(m) \ out /\ OutAt(m, n) = out
    BY <1>3, OutIsPaged, OutAtEnd DEF KeptIn
  <1>5. PICK a : Conversation(m) = Flush(a).msgs /\ Shape(m, n, out, a) /\ Joins(m, n, out, {}, K, a)
    BY <1>3, <1>4, FoldHolds
  <1>6. /\ Shape(m, n, out, Flush(a)) /\ Flush(a).parts = <<>> /\ Flush(a).think = 0
        /\ \A i, j : Tog(Flush(a), i, j) <=> Tog(a, i, j)
    <2>1. Shape(m, n, out, a) /\ m \in Seq(Events)
      BY <1>3, <1>5
    <2> HIDE DEF n, out
    <2> QED
      BY <2>1, FlushKeeps
  <1>7. /\ d.msgs = Flush(a).msgs /\ d.parts = <<>> /\ d.think = 0
        /\ d.len = n /\ d.questions = Questions(m)
        /\ DOMAIN d = {"msgs", "parts", "think", "len", "questions"}
    BY <1>5 DEF FullRefresh
  <1>8. Shape(m, n, out, d) /\ \A i, j : Tog(d, i, j) <=> Tog(a, i, j)
    <2>1. Shape(m, n, out, d) /\ \A i, j : Tog(d, i, j) <=> Tog(Flush(a), i, j)
      BY <1>6, <1>7, SameScreen
    <2> QED
      BY <1>6, <2>1
  <1>9. D \subseteq 1..n
    <2>1. Cut(c, l) \subseteq 1..Len(l) /\ C \subseteq 1..Len(l)
      BY CutPlace DEF ScreenOK
    <2>2. 1..Len(l) \subseteq 1..n
      BY <1>3
    <2> QED
      BY <2>1, <2>2
  \* A text at the end of the log that nothing closed was pending: it was cut.
  <1>10. ASSUME NEW i \in K, i <= n, Clear(m, out, i, n + 1)
         PROVE  D \cap i..n # {}
    <2>1. i \in Txt(m) /\ i \in Nat /\ i >= 1
      BY <1>3 DEF KeptIn, Txt
    <2>2. i # n /\ i <= Len(l)
      <3>1. i # n
        BY <1>3, <2>1, KindsOfEvents DEF Txt, Texts
      <3> QED
        BY <1>3, <1>10, <2>1, <3>1
    <2>3. e = Plain("mark")
      <3> SUFFICES ASSUME e = Plain("user") PROVE FALSE
        OBVIOUS
      <3>1. n \in Closers(m) /\ n \in OfKind(m, "user")
        BY <1>3, KindsOfEvents DEF Closers, OfKind
      <3>2. n \notin Paged(m)
        <4> SUFFICES ASSUME n \in Paged(m) PROVE FALSE
          OBVIOUS
        <4>1. PICK w \in OfKind(m, "user") \ Paged(m) : n < w
          BY <1>2, PagedIsOver
        <4> QED
          BY <1>3, <4>1 DEF OfKind
      <3>3. i < n /\ n < n + 1
        BY <1>3, <2>1, <2>2
      <3> QED
        BY <1>4, <1>10, <3>1, <3>2, <3>3 DEF Clear
    <2>4. OutAt(l, b) = OutAt(m, b)
      BY <1>2, OutAtGrows DEF ScreenOK
    <2>5. Clear(m, OutAt(m, b), i, n + 1)
      BY <1>2, <1>4, <1>10, <2>1, ClearAgreesAtEnd
    <2>6. Clear(m, OutAt(m, b), i, Len(l) + 1)
      BY <1>3, <2>5 DEF Clear, Closers
    <2>7. Joins(m, Len(l), OutAt(m, b), C, K, c)
      <3>1. Joins(l, Len(l), OutAt(m, b), C, KeptIn(l), c)
        BY <2>4 DEF ScreenOK
      <3> QED
        BY <1>2, <3>1, JoinsGrows
    <2>8. C \cap i..Len(l) = {} => i \in Range(c.parts)
      BY <2>2, <2>6, <2>7 DEF Joins
    <2>9. CASE C \cap i..Len(l) # {}
      BY <1>3, <2>1, <2>9
    <2>10. CASE i \in Range(c.parts)
      <3>1. c.parts # <<>>
        BY <2>10, EmptyMessages
      <3>2. Len(l) \in D /\ Len(l) \in i..n
        BY <1>3, <2>1, <2>2, <3>1 DEF Cut
      <3> QED
        BY <3>2
    <2> QED
      BY <2>8, <2>9, <2>10
  <1>11. Joins(m, n, out, D, K, d)
    <2>1. Range(d.parts) = {}
      BY <1>7, EmptyMessages
    <2>2. ASSUME NEW i \in K, NEW j \in K, i < j, j <= n
          PROVE  /\ Tog(d, i, j) => Clear(m, out, i, j)
                 /\ Clear(m, out, i, j) => Tog(d, i, j)
      BY <1>5, <1>8, <2>2 DEF Joins
    <2> HIDE DEF D, K, n, out
    <2> QED
      BY <1>10, <2>1, <2>2 DEF Joins
  <1>12. Caches(d)
    BY <1>7, <1>8 DEF Caches, Shape
  <1> QED
    BY <1>2, <1>3, <1>4, <1>7, <1>8, <1>9, <1>11, <1>12 DEF ScreenOK

\* finalize_pending, at the end of a turn.
LEMMA EndKeeps ==
    ASSUME NEW l, NEW c, NEW b, NEW C, ScreenOK(l, c, b, C), NEW d, d = FinalizePending(c)
    PROVE  ScreenOK(l, d, b, C \cup Cut(c, l))
  <1> DEFINE n == Len(l)
             out == OutAt(l, b)
             D == C \cup Cut(c, l)
             K == KeptIn(l)
  <1>1. LogInv(l) /\ l \in Seq(Events) /\ n \in Nat /\ DOMAIN l = 1..n
    BY LogShape DEF ScreenOK, LogInv
  <1>2. /\ Shape(l, n, out, c) /\ Joins(l, n, out, C, K, c) /\ Caches(c)
        /\ b \in 0..n /\ C \subseteq 1..n /\ c.len = n /\ c.questions = Questions(l)
    BY DEF ScreenOK
  <1>3. {"msgs", "parts", "think", "len", "questions"} \subseteq DOMAIN c /\ Accs(c)
    BY <1>2 DEF Caches, Accs
  <1>4. Range(<<>>) = {} /\ Increasing(<<>>) /\ <<>> \in Seq(Nat)
    BY EmptyMessages
  <1>5. /\ Shape(l, n, out, d) /\ d.parts = <<>>
        /\ \A i, j : Tog(d, i, j) <=> Tog(c, i, j)
        /\ DOMAIN d = DOMAIN c /\ d.len = c.len /\ d.questions = c.questions
    <2>1. CASE c.parts = <<>> /\ c.think # 0
      <3> DEFINE x == Msg("assistant", <<>>, 0, c.think)
      <3>1. d = [c EXCEPT !.msgs = Append(@, x), !.think = 0]
        BY <2>1 DEF FinalizePending
      <3>2. x \in Messages /\ x.parts = <<>> /\ x.type = "assistant" /\ x.think = c.think
        BY <1>3, <1>4 DEF Msg, Messages, Accs
      <3> HIDE DEF x
      <3>3. /\ d.msgs = Append(c.msgs, x) /\ d.parts = <<>> /\ d.think = 0
            /\ DOMAIN d = DOMAIN c /\ d.len = c.len /\ d.questions = c.questions
        BY <1>3, <2>1, <3>1
      <3>4. Below(PartsOf(c.msgs), Range(x.parts)) /\ Increasing(x.parts)
        BY <1>4, <3>2 DEF Below
      <3>5. /\ d.msgs \in Seq(Messages) /\ Sorted(d.msgs)
            /\ Range(d.msgs) = Range(c.msgs) \cup {x}
            /\ PartsOf(d.msgs) = PartsOf(c.msgs) \cup Range(x.parts)
            /\ \A i, j : Together(d.msgs, i, j) <=> Together(c.msgs, i, j) \/ {i, j} \subseteq Range(x.parts)
        <4>1. c.msgs \in Seq(Messages) /\ Sorted(c.msgs)
          BY <1>2 DEF Shape, Accs
        <4> QED
          BY <3>2, <3>3, <3>4, <4>1, PushSorted
      <3>6. MessageOK(l, x)
        BY <1>4, <2>1, <3>2 DEF MessageOK
      <3>7. \A z \in Range(d.msgs) : MessageOK(l, z)
        BY <1>2, <3>5, <3>6 DEF Shape
      <3>8. Accs(d)
        BY <1>3, <1>4, <3>3, <3>5 DEF Accs
      <3>9. Below(PartsOf(d.msgs), Range(d.parts)) /\ Range(d.parts) = {}
        BY <1>4, <3>3 DEF Below
      <3>10. PartsOf(d.msgs) \cup Range(d.parts) = ShowsUpTo(l, n, out)
        BY <1>2, <1>4, <2>1, <3>2, <3>5, <3>9 DEF Shape
      <3>11. Shape(l, n, out, d)
        BY <1>4, <3>3, <3>5, <3>7, <3>8, <3>9, <3>10 DEF Shape
      <3>12. \A i, j : Tog(d, i, j) <=> Tog(c, i, j)
        BY <1>4, <2>1, <3>2, <3>3, <3>5 DEF Tog
      <3> QED
        BY <3>3, <3>11, <3>12
    <2>2. CASE ~(c.parts = <<>> /\ c.think # 0)
      <3>1. d = Flush(c)
        BY <2>2 DEF FinalizePending
      <3>2. /\ Shape(l, n, out, d) /\ d.parts = <<>> /\ \A i, j : Tog(d, i, j) <=> Tog(c, i, j)
        BY <1>1, <1>2, <3>1, FlushKeeps
      <3>3. DOMAIN d = DOMAIN c /\ d.len = c.len /\ d.questions = c.questions
        BY <1>3, <3>1 DEF Flush
      <3> QED
        BY <3>2, <3>3
    <2> QED
      BY <2>1, <2>2
  <1>6. \A i \in K : i \in Nat /\ i >= 1 /\ i <= n
    BY <1>1 DEF KeptIn, Txt
  <1>7. Range(c.parts) # {} => Cut(c, l) = {n}
    BY CutPlace
  <1>8. Cut(c, l) \subseteq 1..n
    BY CutPlace
  <1>9. Joins(l, n, out, D, K, d)
    <2>1. Range(d.parts) = {}
      BY <1>4, <1>5
    <2>2. ASSUME NEW i \in K, i <= n, Clear(l, out, i, n + 1), D \cap i..n = {}
          PROVE  FALSE
      <3>1. C \cap i..n = {}
        BY <2>2
      <3>2. i \in Range(c.parts)
        BY <1>2, <2>2, <3>1 DEF Joins
      <3>3. n \in D /\ n \in i..n
        BY <1>1, <1>6, <1>7, <2>2, <3>2
      <3> QED
        BY <2>2, <3>3
    <2>3. ASSUME NEW i \in K, NEW j \in K, i < j, j <= n
          PROVE  /\ Tog(d, i, j) => Clear(l, out, i, j)
                 /\ Clear(l, out, i, j) /\ D \cap i..(j - 1) = {} => Tog(d, i, j)
      <3>1. D \cap i..(j - 1) = {} => C \cap i..(j - 1) = {}
        OBVIOUS
      <3>2. /\ Tog(c, i, j) => Clear(l, out, i, j)
            /\ Clear(l, out, i, j) /\ C \cap i..(j - 1) = {} => Tog(c, i, j)
        BY <1>2, <2>3 DEF Joins
      <3> QED
        BY <1>5, <3>1, <3>2
    <2> HIDE DEF D, K, n, out
    <2> QED
      BY <2>1, <2>2, <2>3 DEF Joins
  <1>10. Caches(d)
    BY <1>3, <1>5 DEF Caches, Shape
  <1> QED
    BY <1>1, <1>2, <1>5, <1>8, <1>9, <1>10 DEF ScreenOK

-----------------------------------------------------------------------------
(* The inductive invariant.                                                 *)

ProjectionInv ==
    /\ turn \in {"idle", "stream", "tools", "over"}
    /\ ScreenOK(log, cache, base, cuts)

LEMMA BoundedMin ==
    ASSUME NEW S \in SUBSET Nat, S # {}
    PROVE  Min(S) \in S
  <1> DEFINE R == OpToRel(<, Nat)
  <1>1. IsWellFoundedOn(R, Nat)
    BY NatLessThanWellFounded
  <1>2. PICK n \in S : \A k \in S : <<k, n>> \notin R
    <2> HIDE DEF R
    <2> QED
      BY <1>1, WFMin
  <1>3. \A k \in S : n <= k
    <2> SUFFICES ASSUME NEW k \in S, k < n PROVE FALSE
      OBVIOUS
    <2>1. <<k, n>> \in R
      BY DEF OpToRel
    <2> QED
      BY <1>2, <2>1
  <1> QED
    BY <1>3 DEF Min

LEMMA RefsAreNumbers ==
    ASSUME NEW l \in Seq(Events), NEW i \in DOMAIN l, l[i].kind \in AboutKinds
    PROVE  l[i].ref \in Nat
  <1>1. l[i] \in Events
    BY LogShape
  <1>2. \A k \in PlainKinds : k \notin AboutKinds
    BY DEF PlainKinds, AboutKinds
  <1> QED
    BY <1>1, <1>2, KindsOfEvents DEF Events, AboutKinds

\* The call whose tool runs has no result.
LEMMA CurrentIsUnanswered ==
    ASSUME log \in Seq(Events), Unanswered # {}
    PROVE  Current \in Nat /\ RefersTo(log, "result", Current) = {}
  <1>1. Unanswered \in SUBSET Nat
    BY LogShape DEF Unanswered, OfKind
  <1>2. Current \in Unanswered
    BY <1>1, BoundedMin DEF Current
  <1> QED
    BY <1>1, <1>2 DEF Unanswered

LEMMA AppendedKeeps ==
    ASSUME ScreenOK(log, cache, base, cuts), NEW e, Fits(log, e), Appended(e)
    PROVE  ScreenOK(log', cache', base', cuts')
  <1> DEFINE l == Append(log, e)
             c == ApplyEvent(l, cache)
  <1>1. Grows(log, e, l)
    BY DEF Grows
  <1>2. Frame(l, c)
    BY DEF Appended
  <1> HIDE DEF l
  <1>3. ScreenOK(l, c, base, cuts)
    BY <1>1, ApplyKeeps
  <1> HIDE DEF c
  <1>4. c.len = Len(l)
    BY <1>3 DEF ScreenOK
  <1>5. log' = l /\ cache' = c /\ base' = base /\ cuts' = cuts
    BY <1>2, <1>4 DEF Frame, Refresh
  <1> QED
    BY <1>3, <1>5

LEMMA RecordedKeeps ==
    ASSUME ScreenOK(log, cache, base, cuts), NEW e, e \in {Plain("user"), Plain("mark")}, Recorded(e)
    PROVE  ScreenOK(log', cache', base', cuts')
  <1> DEFINE l == Append(log, e)
  <1>1. Grows(log, e, l)
    BY DEF Grows
  <1>2. Frame(l, cache)
    BY DEF Recorded
  <1>3. e \in Events /\ log \in Seq(Events)
    BY DEF ScreenOK, LogInv, Events, PlainKinds
  <1> HIDE DEF l
  <1>4. Len(l) = Len(log) + 1 /\ Len(log) \in Nat
    BY <1>1, <1>3, Grown
  <1>5. cache.len # Len(l)
    BY <1>4 DEF ScreenOK
  <1>6. log' = l /\ cache' = FullRefresh(l) /\ base' = Len(l) /\ cuts' = cuts \cup Cut(cache, log)
    BY <1>2, <1>5 DEF Frame, Refresh
  <1>7. ScreenOK(l, FullRefresh(l), Len(l), cuts \cup Cut(cache, log))
    BY <1>1, RefoldKeeps
  <1> QED
    BY <1>6, <1>7

LEMMA ProjectionInvInit == ProjectionInit => ProjectionInv
  <1> SUFFICES ASSUME ProjectionInit PROVE ProjectionInv
    OBVIOUS
  <1> DEFINE l == <<>>
             c == FullRefresh(l)
  <1>1. l \in Seq(Events) /\ Len(l) = 0 /\ DOMAIN l = {}
    BY EmptySeq
  <1>2. log = l /\ cache = c /\ base = 0 /\ cuts = {} /\ turn = "idle"
    BY DEF ProjectionInit
  <1> HIDE DEF l
  <1>3. \A k : OfKind(l, k) = {}
    BY <1>1 DEF OfKind
  <1>4. LogInv(l)
    BY <1>1, <1>3 DEF LogInv, Cards
  <1>5. Txt(l) = {} /\ KeptIn(l) = {} /\ OutAt(l, 0) = Out(l)
    <2>1. OutAt(l, Len(l)) = Out(l)
      BY <1>1, OutAtEnd
    <2> QED
      BY <1>1, <2>1 DEF Txt, KeptIn
  <1>6. PICK a : Conversation(l) = Flush(a).msgs /\ Shape(l, 0, Out(l), a) /\ Joins(l, 0, Out(l), {}, {}, a)
    <2>1. {} \subseteq Txt(l) \ Out(l)
      OBVIOUS
    <2> QED
      BY <1>1, <2>1, FoldHolds
  <1>7. Shape(l, 0, Out(l), Flush(a)) /\ Flush(a).parts = <<>> /\ Flush(a).think = 0
    BY <1>1, <1>6, FlushKeeps
  <1>8. /\ c.msgs = Flush(a).msgs /\ c.parts = <<>> /\ c.think = 0
        /\ c.len = Len(l) /\ c.questions = Questions(l)
        /\ DOMAIN c = {"msgs", "parts", "think", "len", "questions"}
    BY <1>6 DEF FullRefresh
  <1>9. Shape(l, 0, Out(l), c)
    BY <1>7, <1>8, SameScreen
  <1>10. Caches(c)
    BY <1>8, <1>9 DEF Caches, Shape
  <1> HIDE DEF c
  <1>11. Joins(l, 0, Out(l), {}, {}, c)
    BY DEF Joins
  <1>12. ScreenOK(l, c, 0, {})
    BY <1>1, <1>4, <1>5, <1>8, <1>9, <1>10, <1>11 DEF ScreenOK
  <1> QED
    BY <1>2, <1>12 DEF ProjectionInv

LEMMA ProjectionInvStep == ProjectionInv /\ [ProjectionNext]_projVars => ProjectionInv'
  <1> SUFFICES ASSUME ProjectionInv, [ProjectionNext]_projVars PROVE ProjectionInv'
    OBVIOUS
  <1> USE DEF ProjectionInv
  <1>1. ScreenOK(log, cache, base, cuts) /\ LogInv(log) /\ log \in Seq(Events)
    BY DEF ScreenOK, LogInv
  <1>2. ASSUME NEW k \in PlainKinds, Appended(Plain(k))
        PROVE  ScreenOK(log', cache', base', cuts')
    <2>1. Fits(log, Plain(k))
      BY DEF Fits
    <2> QED
      BY <1>1, <1>2, <2>1, AppendedKeeps
  <1>3. CASE Submit
    BY <1>1, <1>3, RecordedKeeps DEF Submit
  <1>4. CASE Continue
    BY <1>1, <1>4 DEF Continue
  <1>5. CASE StreamText
    BY <1>2, <1>5 DEF StreamText, PlainKinds
  <1>6. CASE StreamCall
    BY <1>2, <1>6 DEF StreamCall, PlainKinds
  <1>7. CASE StreamThought
    BY <1>2, <1>7 DEF StreamThought, PlainKinds
  <1>8. CASE StreamMessage
    BY <1>2, <1>8 DEF StreamMessage, PlainKinds
  <1>9. CASE RunTools
    BY <1>1, <1>9 DEF RunTools
  <1>10. CASE AskUser
    <2>1. Current \in Nat /\ RefersTo(log, "result", Current) = {}
      BY <1>1, <1>10, CurrentIsUnanswered DEF AskUser
    <2>2. \A r \in OfKind(log, "result") \cup Cards(log) : log[r].ref # Current
      BY <1>10, <2>1 DEF AskUser, Cards, RefersTo
    <2>3. PICK kind \in {"asked", "approve"} : Appended(About(kind, Current))
      BY <1>10 DEF AskUser
    <2>4. Fits(log, About(kind, Current))
      BY <2>1, <2>2 DEF Fits
    <2> QED
      BY <1>1, <1>10, <2>3, <2>4, AppendedKeeps DEF AskUser
  <1>11. CASE Answer
    <2>1. Current \in Nat
      BY <1>1, <1>11, CurrentIsUnanswered DEF Answer
    <2>2. PICK r \in Cards(log) : log[r].ref = Current
      BY <1>11 DEF Answer, Cards, RefersTo
    <2>3. Fits(log, About("answered", Current))
      BY <2>1, <2>2 DEF Fits
    <2> QED
      BY <1>1, <1>11, <2>3, AppendedKeeps DEF Answer
  <1>12. CASE ToolResult
    <2>1. Current \in Nat /\ RefersTo(log, "result", Current) = {}
      BY <1>1, <1>12, CurrentIsUnanswered DEF ToolResult
    <2>2. \A r \in OfKind(log, "result") : log[r].ref # Current
      BY <2>1 DEF RefersTo
    <2>3. Fits(log, About("result", Current))
      BY <2>1, <2>2 DEF Fits
    <2> QED
      BY <1>1, <1>12, <2>3, AppendedKeeps DEF ToolResult
  <1>13. CASE Evict
    <2>1. PICK u \in OfKind(log, "user") : Appended(Marker("evicted", TurnBefore(u)))
      BY <1>13 DEF Evict
    <2>2. TurnBefore(u) = TurnIds(log, u)
      BY DEF TurnBefore, TurnIds
    <2>3. Fits(log, Marker("evicted", TurnBefore(u)))
      BY <2>2 DEF Fits
    <2> QED
      BY <1>1, <1>13, <2>1, <2>3, AppendedKeeps DEF Evict
  <1>14. CASE Readmit
    <2>1. PICK i \in Out(log) : Appended(Marker("readmitted", {i}))
      BY <1>14 DEF Readmit
    <2>2. {i} \in SUBSET Nat
      BY <1>1, LogShape, OutIsPaged
    <2>3. Fits(log, Marker("readmitted", {i}))
      BY <2>2 DEF Fits
    <2> QED
      BY <1>1, <1>14, <2>1, <2>3, AppendedKeeps DEF Readmit
  <1>15. CASE CompactResult
    <2>1. PICK r \in OfKind(log, "result") : Appended(About("compacted", log[r].ref))
      BY <1>15 DEF CompactResult
    <2>2. log[r].ref \in Nat
      BY <1>1, RefsAreNumbers DEF OfKind, AboutKinds
    <2>3. Fits(log, About("compacted", log[r].ref))
      BY <2>2 DEF Fits
    <2> QED
      BY <1>1, <1>15, <2>1, <2>3, AppendedKeeps DEF CompactResult
  <1>16. CASE Delegated
    BY <1>2, <1>16 DEF Delegated, PlainKinds
  <1>17. CASE Bookkeeping
    <2>1. CASE Appended(Plain("mark"))
      BY <1>2, <1>17, <2>1 DEF Bookkeeping, PlainKinds
    <2>2. CASE Recorded(Plain("mark"))
      BY <1>1, <1>17, <2>2, RecordedKeeps DEF Bookkeeping
    <2> QED
      BY <1>17, <2>1, <2>2 DEF Bookkeeping
  <1>18. CASE TurnComplete
    <2>1. ScreenOK(log, FinalizePending(cache), base, cuts \cup Cut(cache, log))
      BY <1>1, EndKeeps
    <2> QED
      BY <1>18, <2>1 DEF TurnComplete
  <1>19. CASE UNCHANGED projVars
    BY <1>1, <1>19 DEF projVars
  <1> QED
    BY <1>3, <1>4, <1>5, <1>6, <1>7, <1>8, <1>9, <1>10, <1>11, <1>12, <1>13, <1>14, <1>15, <1>16, <1>17,
       <1>18, <1>19 DEF ProjectionNext

LEMMA ProjectionInvHolds == ProjectionSpec => []ProjectionInv
  BY ProjectionInvInit, ProjectionInvStep, PTL DEF ProjectionSpec

-----------------------------------------------------------------------------
(* The theorems.                                                            *)

\* Everything has its type whatever the lengths of the log and of the turns:
\* after each frame the cache is as long as the log, a message of the assistant
\* is never empty and any other shows one event (ProjectionCache, refresh).
THEOREM ProjectionTypesHold == ProjectionSpec => []ProjectionTypeOK
  <1>1. ProjectionInv => ProjectionTypeOK
    <2> SUFFICES ASSUME ProjectionInv PROVE ProjectionTypeOK
      OBVIOUS
    <2> DEFINE out == OutAt(log, base)
    <2>1. /\ turn \in {"idle", "stream", "tools", "over"} /\ log \in Seq(Events)
          /\ cache.len = Len(log) /\ base \in 0..Len(log) /\ cuts \subseteq 1..Len(log)
          /\ Shape(log, Len(log), out, cache)
      BY DEF ProjectionInv, ScreenOK, LogInv
    <2> HIDE DEF out
    <2>2. \A i \in Range(cache.parts) : i \in DOMAIN log /\ log[i].kind \in Texts
      BY <2>1 DEF Shape, Txt
    <2>3. cache.think \in OfKind(log, "thinking") \cup {0}
      BY <2>1 DEF Shape
    <2>4. ASSUME NEW m \in Range(cache.msgs)
          PROVE  /\ Range(m.parts) \subseteq DOMAIN log
                 /\ IF m.type = "assistant" THEN m.parts # <<>> \/ m.think # 0 ELSE Len(m.parts) = 1
      <3>1. MessageOK(log, m)
        BY <2>1 DEF Shape
      <3>2. Range(m.parts) \subseteq ShowsUpTo(log, Len(log), out)
        BY <2>1 DEF Shape, PartsOf
      <3>3. Range(m.parts) \subseteq DOMAIN log
        BY <2>1, <3>2, ShowableIsEvent DEF ShowsUpTo
      <3> QED
        BY <3>1, <3>3 DEF MessageOK
    <2> QED
      BY <2>1, <2>2, <2>3, <2>4 DEF ProjectionTypeOK
  <1> QED
    BY <1>1, ProjectionInvHolds, PTL

\* The screen shows every event that the conversation has a place for once and
\* in the order of the log, a result with its last compaction and a card with
\* its last answer, whether apply_event or a fold of the log put it there.
THEOREM ScreenShowsTheLog == ProjectionSpec => []ShowsTheLog
  <1>1. ProjectionInv => ShowsTheLog
    <2> SUFFICES ASSUME ProjectionInv PROVE ShowsTheLog
      OBVIOUS
    <2> DEFINE out == OutAt(log, base)
    <2>1. /\ log \in Seq(Events) /\ cache.questions = Questions(log)
          /\ Shape(log, Len(log), out, cache)
      BY DEF ProjectionInv, ScreenOK, LogInv
    <2>2. out = Out(SubSeq(log, 1, base))
      BY DEF OutAt
    <2> HIDE DEF out
    <2>3. Shape(log, Len(log), out, Flush(cache)) /\ Flush(cache).parts = <<>>
      BY <2>1, FlushKeeps
    <2>4. Sorted(Screen) /\ PartsOf(Screen) = ShowsUpTo(log, Len(log), out)
      BY <2>3, EmptyMessages DEF Shape, Screen
    <2>5. ShowsUpTo(log, Len(log), out) = Showable \ out
      <3>1. \A i \in ShowableIn(log) : i <= Len(log)
        BY <2>1, ShowableIsEvent, LogShape
      <3>2. ShowableIn(log) = Showable
        BY DEF ShowableIn, Showable
      <3> QED
        BY <3>1, <3>2 DEF ShowsUpTo
    <2>6. UNION {Range(m.parts) : m \in Range(Screen)} = Showable \ Out(SubSeq(log, 1, base))
      BY <2>2, <2>4, <2>5 DEF PartsOf
    <2>7. ASSUME NEW a \in DOMAIN Screen, NEW b \in DOMAIN Screen,
                 NEW x \in DOMAIN Screen[a].parts, NEW y \in DOMAIN Screen[b].parts,
                 a < b \/ (a = b /\ x < y)
          PROVE  Screen[a].parts[x] < Screen[b].parts[y]
      <3>1. CASE a < b
        <4>1. Below(Range(Screen[a].parts), Range(Screen[b].parts))
          BY <2>4, <3>1 DEF Sorted
        <4>2. Screen[a].parts[x] \in Range(Screen[a].parts) /\ Screen[b].parts[y] \in Range(Screen[b].parts)
          BY DEF Range
        <4> QED
          BY <4>1, <4>2 DEF Below
      <3>2. CASE a = b /\ x < y
        <4>1. Screen[a] \in Range(Screen)
          BY DEF Range
        <4>2. Increasing(Screen[a].parts)
          BY <2>4, <4>1 DEF Sorted
        <4> QED
          BY <3>2, <4>2 DEF Increasing
      <3> QED
        BY <2>7, <3>1, <3>2
    <2>8. ASSUME NEW m \in Range(cache.msgs)
          PROVE  /\ m.type = "result" =>
                       m.by = LastOrNone(RefersTo(log, "compacted", log[m.parts[1]].ref))
                 /\ m.type = "card" =>
                       m.by = LastOrNone(RefersTo(log, "answered", log[m.parts[1]].ref))
      BY <2>1 DEF Shape, MessageOK
    <2> QED
      BY <2>1, <2>6, <2>7, <2>8 DEF ShowsTheLog
  <1> QED
    BY <1>1, ProjectionInvHolds, PTL

\* Two texts that were never paged out are in one message of the screen only if
\* the fold puts them in one; and if it does, the screen parts them only where a
\* fold in the middle of a stream, or the end of a turn, closed the message.
THEOREM SplitsOnlyAtCutsHolds == ProjectionSpec => []SplitsOnlyAtCuts
  <1>1. ProjectionInv => SplitsOnlyAtCuts
    <2> SUFFICES ASSUME ProjectionInv PROVE SplitsOnlyAtCuts
      OBVIOUS
    <2> DEFINE n == Len(log)
               out == OutAt(log, base)
               fold == Conversation(log)
    <2>1. /\ LogInv(log) /\ log \in Seq(Events) /\ base \in 0..n
          /\ Shape(log, n, out, cache) /\ Joins(log, n, out, cuts, KeptIn(log), cache)
      BY DEF ProjectionInv, ScreenOK, LogInv
    <2>2. KeptIn(log) = Kept
      BY DEF KeptIn, Kept, Txt, Paged
    <2>3. out \in SUBSET Paged(log) /\ Out(log) \in SUBSET Paged(log) /\ DOMAIN log = 1..n
      BY <2>1, OutAtIsPaged, OutIsPaged, LogShape
    <2>4. PICK a : fold = Flush(a).msgs /\ Shape(log, n, Out(log), a) /\ Joins(log, n, Out(log), {}, Kept, a)
      <3>1. Kept \subseteq Txt(log) \ Out(log)
        BY <2>2, <2>3 DEF KeptIn
      <3> QED
        BY <2>1, <3>1, FoldHolds
    <2> HIDE DEF out, fold
    <2>5. \A i, j : Together(fold, i, j) <=> Tog(a, i, j)
      <3>1. \A i, j : Together(Flush(a).msgs, i, j) <=> Tog(a, i, j)
        BY <2>1, <2>4, FlushKeeps
      <3> QED
        BY <2>4, <3>1
    <2>6. \A i, j : Together(Screen, i, j) <=> Tog(cache, i, j)
      <3>1. \A i, j : Together(Flush(cache).msgs, i, j) <=> Tog(cache, i, j)
        BY <2>1, FlushKeeps
      <3> QED
        BY <3>1 DEF Screen
    <2>7. ASSUME NEW i \in Kept, NEW j \in Kept, i < j
          PROVE  /\ Together(Screen, i, j) => Together(fold, i, j)
                 /\ Together(fold, i, j) /\ cuts \cap i..(j - 1) = {} => Together(Screen, i, j)
      <3>1. j <= n /\ i \in KeptIn(log) /\ j \in KeptIn(log)
        BY <2>2, <2>3 DEF Kept
      <3>2. /\ Tog(cache, i, j) => Clear(log, out, i, j)
            /\ Clear(log, out, i, j) /\ cuts \cap i..(j - 1) = {} => Tog(cache, i, j)
        BY <2>1, <2>7, <3>1 DEF Joins
      <3>3. Tog(a, i, j) <=> Clear(log, Out(log), i, j)
        <4>1. {} \cap i..(j - 1) = {}
          OBVIOUS
        <4> QED
          BY <2>4, <2>7, <3>1, <4>1 DEF Joins
      <3>4. Clear(log, out, i, j) <=> Clear(log, Out(log), i, j)
        BY <2>1, <2>3, <3>1, ClearAgrees
      <3> QED
        BY <2>5, <2>6, <3>2, <3>3, <3>4
    <2> QED
      BY <2>7 DEF SplitsOnlyAtCuts, fold
  <1> QED
    BY <1>1, ProjectionInvHolds, PTL
=============================================================================
