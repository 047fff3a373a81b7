-------------------------- MODULE ContextLogProofs --------------------------
(***************************************************************************)
(* Proofs about ContextLog, for every policy, every sizes and ratios, and  *)
(* logs of any length.                                                     *)
(***************************************************************************)
EXTENDS ContextLog, SumTheorems, SequenceTheorems, TLAPS

Events ==
    {User, Warning} \cup {Delta(n) : n \in Nat} \cup {Call(p) : p \in Paths \cup {NoPath}}
      \cup {Output(c, n, failed) : c \in Nat, n \in Nat, failed \in BOOLEAN}
      \cup {Asked(c) : c \in Nat} \cup {Answered(c, n) : c \in Nat, n \in Nat}
      \cup {Delegated(n) : n \in Nat}
      \cup {Compacted(c, n, was) : c \in Nat, n \in Nat, was \in Nat}
      \cup {Evicted(ids) : ids \in SUBSET Nat} \cup {Readmitted(ids) : ids \in SUBSET Nat}

-----------------------------------------------------------------------------
(* Numbers.                                                                 *)

\* The members of T in an order: by their keys, the largest first, then by
\* themselves.
Earlier(T, key, r) == {q \in T : key[q] > key[r] \/ (key[q] = key[r] /\ q < r)}

LEMMA EarlierCount ==
    ASSUME NEW T \in SUBSET Nat, IsFiniteSet(T), NEW key \in [T -> Nat], NEW r \in T
    PROVE  /\ IsFiniteSet(Earlier(T, key, r)) /\ Cardinality(Earlier(T, key, r)) \in Nat
           /\ Cardinality(Earlier(T, key, r)) < Cardinality(T)
           /\ \A q \in Earlier(T, key, r) :
                 Cardinality(Earlier(T, key, q)) < Cardinality(Earlier(T, key, r))
  <1> DEFINE B(x) == Earlier(T, key, x)
  <1>1. \A x \in T : B(x) \subseteq T /\ x \notin B(x)
    BY DEF Earlier
  <1>2. \A x \in T : IsFiniteSet(B(x))
    BY <1>1, FS_Subset
  <1>3. Cardinality(T) \in Nat /\ \A x \in T : Cardinality(B(x)) \in Nat
    BY <1>2, FS_CardinalityType
  <1>4. Cardinality(B(r)) <= Cardinality(T) /\ (Cardinality(B(r)) = Cardinality(T) => B(r) = T)
    BY <1>1, FS_Subset
  <1>5. ASSUME NEW q \in B(r)
        PROVE  Cardinality(B(q)) < Cardinality(B(r))
    <2>1. q \in T /\ B(q) \subseteq B(r) /\ q \notin B(q)
      <3>1. q \in T /\ key[q] \in Nat /\ key[r] \in Nat /\ q \in Nat /\ r \in Nat
        BY <1>1
      <3>2. ASSUME NEW p \in B(q)
            PROVE  p \in B(r)
        <4>1. p \in T /\ key[p] \in Nat /\ p \in Nat
          BY <1>1, <3>1
        <4> QED
          BY <3>1, <4>1, <3>2, <1>5 DEF Earlier
      <3> QED
        BY <1>1, <3>1, <3>2
    <2>2. Cardinality(B(q)) <= Cardinality(B(r)) /\ (Cardinality(B(q)) = Cardinality(B(r)) => B(q) = B(r))
      BY <1>2, <2>1, FS_Subset
    <2> QED
      BY <1>3, <2>1, <2>2
  <1> QED
    BY <1>1, <1>2, <1>3, <1>4, <1>5

\* Each place of that order is taken.
LEMMA EveryPlace ==
    ASSUME NEW T \in SUBSET Nat, IsFiniteSet(T), NEW key \in [T -> Nat],
           NEW k \in 1..Cardinality(T)
    PROVE  \E r \in T : Cardinality(Earlier(T, key, r)) = k - 1
  <1> DEFINE n == Cardinality(T)
             place == [r \in T |-> Cardinality(Earlier(T, key, r)) + 1]
  <1>1. n \in Nat /\ IsFiniteSet(1..n) /\ Cardinality(1..n) = n
    BY FS_CardinalityType, FS_Interval
  <1>2. place \in [T -> 1..n]
    BY <1>1, EarlierCount
  <1>3. ASSUME NEW q \in T, NEW r \in T, q # r
        PROVE  place[q] # place[r]
    <2>1. q \in Nat /\ r \in Nat /\ key[q] \in Nat /\ key[r] \in Nat
      OBVIOUS
    <2>2. q \in Earlier(T, key, r) \/ r \in Earlier(T, key, q)
      BY <1>3, <2>1 DEF Earlier
    <2>3. Cardinality(Earlier(T, key, q)) \in Nat /\ Cardinality(Earlier(T, key, r)) \in Nat
      BY EarlierCount
    <2>4. Cardinality(Earlier(T, key, q)) # Cardinality(Earlier(T, key, r))
      BY <2>2, <2>3, EarlierCount
    <2> QED
      BY <2>3, <2>4
  <1> HIDE DEF place
  <1>4. place \in Injection(T, 1..n)
    BY <1>2, <1>3 DEF Injection, IsInjective
  <1>5. place \in Surjection(T, 1..n)
    BY <1>1, <1>4, FS_Injection
  <1>6. PICK r \in T : place[r] = k
    BY <1>5 DEF Surjection
  <1>7. Cardinality(Earlier(T, key, r)) \in Nat /\ place[r] = Cardinality(Earlier(T, key, r)) + 1
    BY EarlierCount DEF place
  <1> QED
    BY <1>6, <1>7

-----------------------------------------------------------------------------
(* A log and what may be appended to it.                                    *)

LEMMA LogShape ==
    ASSUME NEW l \in Seq(Events)
    PROVE  /\ Len(l) \in Nat /\ DOMAIN l = 1..Len(l)
           /\ \A i \in DOMAIN l : l[i] \in Events
           /\ \A k : OfKind(l, k) \subseteq 1..Len(l) /\ IsFiniteSet(OfKind(l, k))
           /\ Spoken(l) \subseteq 1..Len(l)
  <1>1. Len(l) \in Nat /\ DOMAIN l = 1..Len(l) /\ \A i \in DOMAIN l : l[i] \in Events
    BY LenProperties, ElementOfSeq
  <1>2. IsFiniteSet(1..Len(l))
    BY <1>1, FS_Interval
  <1>3. \A k : OfKind(l, k) \subseteq 1..Len(l)
    BY <1>1 DEF OfKind
  <1>4. \A k : IsFiniteSet(OfKind(l, k))
    BY <1>2, <1>3, FS_Subset
  <1> QED
    BY <1>1, <1>3, <1>4 DEF Spoken

\* m is l with more events at its end.
Extends(l, m) ==
    /\ l \in Seq(Events) /\ m \in Seq(Events)
    /\ Len(l) <= Len(m)
    /\ \A i \in DOMAIN l : m[i] = l[i]

LEMMA ExtendsKinds ==
    ASSUME NEW l, NEW m, Extends(l, m), NEW k
    PROVE  /\ DOMAIN l \subseteq DOMAIN m
           /\ OfKind(l, k) = OfKind(m, k) \cap DOMAIN l
  <1>1. /\ DOMAIN l = 1..Len(l) /\ DOMAIN m = 1..Len(m) /\ Len(l) \in Nat /\ Len(m) \in Nat
    BY LogShape DEF Extends
  <1> QED
    BY <1>1 DEF Extends, OfKind

LEMMA ExtendsSpoken ==
    ASSUME NEW l, NEW m, Extends(l, m)
    PROVE  Spoken(l) = Spoken(m) \cap DOMAIN l
  <1>1. /\ DOMAIN l = 1..Len(l) /\ DOMAIN m = 1..Len(m) /\ Len(l) \in Nat /\ Len(m) \in Nat
    BY LogShape DEF Extends
  <1> QED
    BY <1>1 DEF Extends, Spoken

\* The turn of an event stays what it was; later events are of the last turn or
\* of later ones.
LEMMA ExtendsTurns ==
    ASSUME NEW l, NEW m, Extends(l, m)
    PROVE  /\ LastTurn(l) \in Nat /\ LastTurn(m) \in Nat /\ LastTurn(l) <= LastTurn(m)
           /\ \A i \in DOMAIN l : TurnOf(m, i) = TurnOf(l, i)
           /\ \A i \in DOMAIN m \ DOMAIN l : TurnOf(m, i) \in Nat /\ LastTurn(l) <= TurnOf(m, i)
  <1> DEFINE U == OfKind(l, "user")
             V == OfKind(m, "user")
  <1>1. /\ U = V \cap DOMAIN l /\ IsFiniteSet(U) /\ IsFiniteSet(V)
        /\ DOMAIN l = 1..Len(l) /\ DOMAIN m = 1..Len(m) /\ Len(l) \in Nat /\ Len(m) \in Nat
        /\ U \subseteq 1..Len(l) /\ V \subseteq 1..Len(m) /\ Len(l) <= Len(m)
    BY ExtendsKinds, LogShape DEF Extends
  <1>2. Cardinality(U) \in Nat /\ Cardinality(V) \in Nat /\ Cardinality(U) <= Cardinality(V)
    BY <1>1, FS_CardinalityType, FS_Subset
  <1>3. ASSUME NEW i \in DOMAIN l
        PROVE  TurnOf(m, i) = TurnOf(l, i)
    <2>1. {u \in V : u <= i} = {u \in U : u <= i}
      BY <1>1
    <2> QED
      BY <2>1 DEF TurnOf
  <1>4. ASSUME NEW i \in DOMAIN m \ DOMAIN l
        PROVE  TurnOf(m, i) \in Nat /\ LastTurn(l) <= TurnOf(m, i)
    <2> DEFINE W == {u \in V : u <= i}
    <2>1. W \subseteq V /\ U \subseteq W
      BY <1>1
    <2>2. IsFiniteSet(W) /\ Cardinality(W) \in Nat
      BY <1>1, <2>1, FS_Subset, FS_CardinalityType
    <2>3. Cardinality(U) <= Cardinality(W)
      BY <2>1, <2>2, FS_Subset
    <2> QED
      BY <2>2, <2>3 DEF TurnOf, LastTurn
  <1> QED
    BY <1>2, <1>3, <1>4 DEF LastTurn

\* Turns before the last are complete.
LEMMA OldTurnsKept ==
    ASSUME NEW l, NEW m, Extends(l, m), NEW t \in Nat, t < LastTurn(l)
    PROVE  Ids(m, t) = Ids(l, t)
  <1>1. /\ Spoken(l) = Spoken(m) \cap DOMAIN l /\ Spoken(m) \subseteq DOMAIN m
        /\ LastTurn(l) \in Nat
        /\ \A i \in DOMAIN l : TurnOf(m, i) = TurnOf(l, i)
        /\ \A i \in DOMAIN m \ DOMAIN l : TurnOf(m, i) \in Nat /\ LastTurn(l) <= TurnOf(m, i)
    BY ExtendsSpoken, ExtendsTurns DEF Spoken
  <1>2. \A i \in DOMAIN m \ DOMAIN l : TurnOf(m, i) # t
    BY <1>1
  <1> QED
    BY <1>1, <1>2 DEF Ids

\* An event of the log is of a turn up to the last.
LEMMA TurnBounds ==
    ASSUME NEW l \in Seq(Events), NEW i, NEW j, i <= j, i \in Nat, j \in Nat
    PROVE  /\ TurnOf(l, i) \in Nat /\ TurnOf(l, j) \in Nat /\ LastTurn(l) \in Nat
           /\ TurnOf(l, i) <= TurnOf(l, j) /\ TurnOf(l, j) <= LastTurn(l)
  <1> DEFINE U == OfKind(l, "user")
             A == {u \in U : u <= i}
             B == {u \in U : u <= j}
  <1>1. IsFiniteSet(U) /\ U \subseteq 1..Len(l) /\ Len(l) \in Nat
    BY LogShape
  <1>2. A \subseteq B /\ B \subseteq U
    BY <1>1
  <1>3. IsFiniteSet(A) /\ IsFiniteSet(B)
    BY <1>1, <1>2, FS_Subset
  <1>4. Cardinality(A) \in Nat /\ Cardinality(B) \in Nat /\ Cardinality(U) \in Nat
    BY <1>1, <1>3, FS_CardinalityType
  <1>5. Cardinality(A) <= Cardinality(B) /\ Cardinality(B) <= Cardinality(U)
    BY <1>1, <1>2, <1>3, FS_Subset
  <1> QED
    BY <1>4, <1>5 DEF TurnOf, LastTurn

-----------------------------------------------------------------------------
(* Turns and candidates.                                                    *)

\* Each turn up to the last has the message it starts with.
LEMMA EveryTurn ==
    ASSUME NEW l \in Seq(Events), NEW t \in 1..LastTurn(l)
    PROVE  Ids(l, t) # {}
  <1> DEFINE U == OfKind(l, "user")
             key == [u \in U |-> 0]
  <1>1. U \in SUBSET Nat /\ IsFiniteSet(U) /\ key \in [U -> Nat] /\ t \in 1..Cardinality(U)
    BY LogShape DEF LastTurn
  <1>2. PICK u \in U : Cardinality(Earlier(U, key, u)) = t - 1
    BY <1>1, EveryPlace
  <1>3. {q \in U : q <= u} = Earlier(U, key, u) \cup {u} /\ u \notin Earlier(U, key, u)
    BY <1>1 DEF Earlier
  <1>4. IsFiniteSet(Earlier(U, key, u)) /\ Cardinality(U) \in Nat
    BY <1>1, EarlierCount, FS_CardinalityType
  <1>5. TurnOf(l, u) = t
    <2>1. Cardinality(Earlier(U, key, u) \cup {u}) = Cardinality(Earlier(U, key, u)) + 1
      BY <1>3, <1>4, FS_AddElement
    <2>2. TurnOf(l, u) = Cardinality(Earlier(U, key, u) \cup {u})
      BY <1>3 DEF TurnOf
    <2>3. t \in Nat
      BY <1>1, <1>4
    <2> QED
      BY <1>2, <2>1, <2>2, <2>3
  <1>6. u \in Spoken(l)
    BY DEF Spoken, OfKind
  <1> QED
    BY <1>5, <1>6 DEF Ids

\* The planner's turns: not the newest, nothing of them out, none just recalled.
Chosen(l, V) ==
    /\ V # {}
    /\ \A t \in V : /\ t \in 1..LastTurn(l) /\ t < LastTurn(l)
                    /\ Ids(l, t) \cap Out(l) = {} /\ ~Cooling(l, t)

LEMMA WavesAreChosen ==
    ASSUME NEW l \in Seq(Events), NEW r, NEW rescue, NEW V \in Waves(l, r, rescue)
    PROVE  Chosen(l, V)
  <1> DEFINE w == Weights(l, r)
  <1>1. V # {} /\ V \subseteq Candidates(l, w)
    BY DEF Waves
  <1>2. LastTurn(l) \in Nat
    BY LogShape, FS_CardinalityType DEF LastTurn
  <1>3. DOMAIN w = 1..LastTurn(l)
    BY DEF Weights
  <1>4. w \in Seq({w[t] : t \in 1..LastTurn(l)})
    BY <1>2, <1>3 DEF Weights
  <1> HIDE DEF w
  <1>5. Len(w) = LastTurn(l)
    BY <1>2, <1>3, <1>4, LenProperties
  <1>6. \A t \in 1..LastTurn(l) : ~Protected(w, t) => t < LastTurn(l)
    BY <1>2, <1>5 DEF Protected
  <1> QED
    BY <1>1, <1>3, <1>6 DEF Candidates, Chosen

-----------------------------------------------------------------------------
(* The fields of events.                                                    *)

LEMMA TokensNat == \A n \in Nat : Tokens(n) \in Nat
  BY DEF Tokens

LEMMA KindsOfNew ==
    /\ User.kind = "user" /\ User.size = MessageSize
    /\ Warning.kind = "warning" /\ Warning.size = WarningSize
    /\ \A n : Delta(n).kind = "delta" /\ Delta(n).size = n
    /\ \A p : /\ Call(p).kind = "call" /\ Call(p).size = ArgsSize
              /\ Call(p).name = NameSize /\ Call(p).path = p
    /\ \A c, n, b : /\ Output(c, n, b).kind = "result" /\ Output(c, n, b).ref = c
                    /\ Output(c, n, b).size = n /\ Output(c, n, b).failed = b
    /\ \A c : Asked(c).kind = "asked" /\ Asked(c).ref = c
    /\ \A c, n : /\ Answered(c, n).kind = "answered" /\ Answered(c, n).ref = c
                 /\ Answered(c, n).size = n
    /\ \A n : Delegated(n).kind = "delegation" /\ Delegated(n).size = n
    /\ \A c, n, was : /\ Compacted(c, n, was).kind = "compacted" /\ Compacted(c, n, was).ref = c
                      /\ Compacted(c, n, was).size = n /\ Compacted(c, n, was).original = was
    /\ \A ids : Evicted(ids).kind = "evicted" /\ Evicted(ids).ids = ids
    /\ \A ids : Readmitted(ids).kind = "readmitted" /\ Readmitted(ids).ids = ids
  BY DEF User, Warning, Delta, Call, Output, Asked, Answered, Delegated, Compacted, Evicted,
         Readmitted

Kinds ==
    {"user", "warning", "delta", "call", "result", "asked", "answered", "delegation",
     "compacted", "evicted", "readmitted"}

LEMMA SummaryNat == \A n \in Nat : Summary(n) \in Nat /\ Tokens(Summary(n)) <= Tokens(n)
  BY ContextAssumption DEF Summary, Tokens

LEMMA Results ==
    ASSUME NEW l, \A j \in DOMAIN l : EventOK(l, j), NEW r \in OfKind(l, "result")
    PROVE  /\ l[r].size \in Nat /\ l[r].failed \in BOOLEAN
           /\ l[r].ref \in OfKind(l, "call") /\ l[r].ref < r
           /\ \A q \in OfKind(l, "result") : l[q].ref = l[r].ref => q = r
  <1>1. r \in DOMAIN l /\ l[r].kind = "result" /\ EventOK(l, r)
    BY DEF OfKind
  <1>2. /\ l[r].size \in Nat /\ l[r].failed \in BOOLEAN
        /\ \E c \in OfKind(l, "call") : c < r /\ l[r] = Output(c, l[r].size, l[r].failed)
        /\ \A q \in OfKind(l, "result") : l[q].ref = l[r].ref => q = r
    BY <1>1 DEF EventOK
  <1> QED
    BY <1>2, KindsOfNew

\* What a compaction refers to is the call of a result.
LEMMA CompactionsAreOfCalls ==
    ASSUME NEW l, \A j \in DOMAIN l : EventOK(l, j), NEW k \in OfKind(l, "compacted")
    PROVE  /\ l[k].original \in Nat
           /\ \E r, q \in OfKind(l, "result") :
                 /\ r < k /\ q < k /\ (r = q \/ SameFile(l, l[r].ref, l[q].ref))
                 /\ l[k].ref = l[r].ref /\ l[k].size = Summary(l[q].size)
           /\ l[k].ref \in OfKind(l, "call") /\ l[k].size \in Nat
  <1>1. k \in DOMAIN l /\ l[k].kind = "compacted" /\ EventOK(l, k)
    BY DEF OfKind
  <1>2. PICK r \in OfKind(l, "result"), q \in OfKind(l, "result") :
           /\ r < k /\ q < k /\ (r = q \/ SameFile(l, l[r].ref, l[q].ref))
           /\ l[k] = Compacted(l[r].ref, Summary(l[q].size), l[k].original)
    BY <1>1 DEF EventOK
  <1>3. l[k].ref = l[r].ref /\ l[k].size = Summary(l[q].size)
    BY <1>2, KindsOfNew
  <1>4. l[r].ref \in OfKind(l, "call") /\ l[q].size \in Nat
    BY Results
  <1>5. l[k].original \in Nat
    BY <1>1 DEF EventOK
  <1> QED
    BY <1>2, <1>3, <1>4, <1>5, SummaryNat

LEMMA Sizes ==
    ASSUME NEW l, \A j \in DOMAIN l : EventOK(l, j), NEW j \in DOMAIN l
    PROVE  /\ l[j].kind \in Kinds
           /\ l[j].kind \in {"user", "warning", "delta", "call", "result", "answered", "delegation",
                             "compacted"} => l[j].size \in Nat
           /\ l[j].kind = "call" => l[j].name \in Nat
  <1>1. EventOK(l, j)
    OBVIOUS
  <1>2. l[j].kind \in Kinds
    BY <1>1 DEF EventOK, Kinds
  <1>3. CASE l[j].kind \in {"user", "warning"}
    <2>1. l[j] \in {User, Warning}
      BY <1>1, <1>3 DEF EventOK
    <2> QED
      BY <1>2, <1>3, <2>1, KindsOfNew, ContextAssumption
  <1>7. CASE l[j].kind \in {"delta", "answered", "delegation"}
    BY <1>1, <1>7 DEF EventOK, Kinds
  <1>4. CASE l[j].kind = "call"
    <2>1. PICK p \in Paths \cup {NoPath} : l[j] = Call(p)
      BY <1>1, <1>4 DEF EventOK
    <2> QED
      BY <1>2, <1>4, <2>1, KindsOfNew, ContextAssumption
  <1>5. CASE l[j].kind = "result"
    BY <1>2, <1>5, Results DEF OfKind
  <1>6. CASE l[j].kind = "compacted"
    BY <1>2, <1>6, CompactionsAreOfCalls DEF OfKind
  <1> QED
    BY <1>2, <1>3, <1>4, <1>5, <1>6, <1>7

-----------------------------------------------------------------------------
(* Compaction.                                                              *)

LEMMA ReadsShape ==
    ASSUME NEW l \in Seq(Events), NEW path, NEW r \in OfKind(l, "result"), NEW soft
    PROVE  /\ r \in Reads(l, path, r) /\ Reads(l, path, r) \subseteq OfKind(l, "result")
           /\ Max(Reads(l, path, r)) \in Reads(l, path, r)
           /\ Bodies(l, path, r, soft) \subseteq Reads(l, path, r)
           /\ Bodies(l, path, r, soft) # {} =>
                 Max(Bodies(l, path, r, soft)) \in Bodies(l, path, r, soft)
  <1> DEFINE R == Reads(l, path, r)
             B == Bodies(l, path, r, soft)
  <1>1. R \subseteq OfKind(l, "result") /\ r \in R /\ B \subseteq R
    BY DEF Reads, Bodies
  <1>2. Len(l) \in Nat /\ OfKind(l, "result") \subseteq 0..Len(l)
    BY LogShape
  <1> HIDE DEF R, B
  <1>3. Max(R) \in R
    BY <1>1, <1>2, BoundedMax
  <1>4. B # {} => Max(B) \in B
    BY <1>1, <1>2, BoundedMax
  <1> QED
    BY <1>1, <1>3, <1>4 DEF R, B

\* The reads of an item are of one file.
LEMMA ReadsAreOfFile ==
    ASSUME NEW l \in Seq(Events), \A j \in DOMAIN l : EventOK(l, j),
           NEW r \in OfKind(l, "result"),
           NEW p \in Reads(l, CallPath(l), r), NEW q \in Reads(l, CallPath(l), r)
    PROVE  p = q \/ SameFile(l, l[p].ref, l[q].ref)
  <1>1. p \in OfKind(l, "result") /\ q \in OfKind(l, "result")
    BY DEF Reads
  <1>2. {l[p].ref, l[q].ref, l[r].ref} \subseteq OfKind(l, "call")
    BY <1>1, Results
  <1>3. \A c \in OfKind(l, "call") : CallPath(l)[c] # NoPath => CallPath(l)[c] = l[c].path
    BY DEF CallPath
  <1> QED
    BY <1>2, <1>3 DEF Reads, SameFile

LEMMA OneReadOfFile ==
    ASSUME NEW l, \A j \in DOMAIN l : EventOK(l, j), ~Reread(l),
           NEW p \in OfKind(l, "result"), NEW q \in OfKind(l, "result"),
           p = q \/ SameFile(l, l[p].ref, l[q].ref)
    PROVE  p = q
  <1>1. l[p].ref \in OfKind(l, "call") /\ l[q].ref \in OfKind(l, "call")
    BY Results
  <1>2. p = q \/ l[p].ref = l[q].ref
    BY <1>1 DEF Reread
  <1> QED
    BY <1>2, Results

LEMMA ItemNat ==
    ASSUME NEW l \in Seq(Events), \A j \in DOMAIN l : EventOK(l, j),
           NEW path, NEW r \in OfKind(l, "result")
    PROVE  ItemTokens(l, path, r) \in Nat
  <1> DEFINE S == {j \in OfKind(l, "compacted") : SameItem(path, l[j].ref, l[r].ref)}
  <1>1. S \subseteq 0..Len(l) /\ Len(l) \in Nat /\ S \subseteq OfKind(l, "compacted")
    BY LogShape
  <1>2. ItemTokens(l, path, r) = Tokens(IF S = {} THEN l[r].size ELSE l[Max(S)].size)
    BY DEF ItemTokens
  <1> HIDE DEF S
  <1>3. S # {} => Max(S) \in S
    BY <1>1, BoundedMax
  <1>4. l[r].size \in Nat /\ (S # {} => l[Max(S)].size \in Nat)
    BY <1>1, <1>3, Results, CompactionsAreOfCalls
  <1> QED
    BY <1>2, <1>4, TokensNat

\* As long as no file was read twice, an item is one output.
LEMMA ItemIsOutput ==
    ASSUME NEW l \in Seq(Events), \A j \in DOMAIN l : EventOK(l, j), ~Reread(l),
           NEW r \in OfKind(l, "result"), NEW c \in OfKind(l, "call"),
           SameItem(CallPath(l), c, l[r].ref)
    PROVE  c = l[r].ref
  <1>1. l[r].ref \in OfKind(l, "call")
    BY Results
  <1>2. \A d \in OfKind(l, "call") : CallPath(l)[d] # NoPath => CallPath(l)[d] = l[d].path
    BY DEF CallPath
  <1> QED
    BY <1>1, <1>2 DEF SameItem, SameFile, Reread

LEMMA ItemTokensAreBody ==
    ASSUME NEW l \in Seq(Events), \A j \in DOMAIN l : EventOK(l, j), ~Reread(l),
           NEW r \in OfKind(l, "result")
    PROVE  ItemTokens(l, CallPath(l), r) = Tokens(Body(l, r))
  <1>1. {j \in OfKind(l, "compacted") : SameItem(CallPath(l), l[j].ref, l[r].ref)}
           = Compactions(l, l[r].ref)
    BY CompactionsAreOfCalls, ItemIsOutput DEF Compactions, SameItem
  <1> QED
    BY <1>1 DEF ItemTokens, Body

\* What Compact returns: summaries of outputs of the log; each notes the tokens
\* that the output had, as long as no file was read twice.
Summarises(l, e) ==
    \E r, q \in OfKind(l, "result"), was \in Nat :
        /\ r = q \/ SameFile(l, l[r].ref, l[q].ref)
        /\ e = Compacted(l[r].ref, Summary(l[q].size), was)
        /\ Reread(l) \/ (r = q /\ was = Tokens(l[r].size))

\* And of outputs that are not compacted yet.
Fresh(l, e) ==
    \E r \in OfKind(l, "result") :
        /\ Compactions(l, l[r].ref) = {} /\ e.ref = l[r].ref
        /\ Reread(l) \/ e.size = Summary(l[r].size)

LEMMA CompactSummarises ==
    ASSUME NEW l \in Seq(Events), \A j \in DOMAIN l : EventOK(l, j),
           NEW current, NEW limit, NEW soft
    PROVE  \E n \in Nat :
              \E ev : /\ ev = Compact(l, current, limit, soft)
                      /\ ev = [k \in 1..n |-> ev[k]]
                      /\ \A k \in 1..n : Summarises(l, ev[k]) /\ Fresh(l, ev[k])
  <1> DEFINE path == CallPath(l)
        items == {r \in Items(l, path) : Bodies(l, path, r, soft) # {}}
        read == [r \in items |-> Max(Reads(l, path, r))]
        tokens == [r \in items |-> ItemTokens(l, path, r)]
        summary == [r \in items |-> Summary(l[Max(Bodies(l, path, r, soft))].size)]
        gain == [r \in items |->
                    IF Tokens(summary[r]) < tokens[r] THEN tokens[r] - Tokens(summary[r]) ELSE 0]
        eligible == {r \in items : Compactions(l, l[read[r]].ref) = {} /\ (soft => gain[r] > 0)}
        before(r) == {q \in eligible : tokens[q] > tokens[r] \/ (tokens[q] = tokens[r] /\ q < r)}
        over(r) == current > limit + SumFunctionOnSet(gain, before(r))
        taken == {r \in eligible : \A q \in before(r) \cup {r} : over(q)}
        at(k) == CHOOSE r \in taken : Cardinality(before(r)) = k - 1
        event(k) == Compacted(l[read[at(k)]].ref, summary[at(k)], tokens[at(k)])
  <1>1. Compact(l, current, limit, soft) = [k \in 1..Cardinality(taken) |-> event(k)]
    BY Zenon DEF Compact
  <1>2. items \subseteq OfKind(l, "result")
    BY DEF Items
  <1>3. \A r \in items : /\ read[r] = Max(Reads(l, path, r))
                         /\ tokens[r] = ItemTokens(l, path, r) /\ tokens[r] \in Nat
                         /\ summary[r] = Summary(l[Max(Bodies(l, path, r, soft))].size)
                         /\ Bodies(l, path, r, soft) # {}
    BY <1>2, ItemNat
  <1>4. eligible \subseteq items /\ \A r \in eligible : Compactions(l, l[read[r]].ref) = {}
    OBVIOUS
  <1>5. taken \subseteq eligible
    OBVIOUS
  <1>6. OfKind(l, "result") \subseteq Nat /\ IsFiniteSet(OfKind(l, "result"))
    BY LogShape
  <1>7. taken \in SUBSET Nat /\ IsFiniteSet(taken)
    <2> HIDE DEF taken, eligible, items
    <2> QED
      BY <1>2, <1>4, <1>5, <1>6, FS_Subset
  <1> DEFINE key == [r \in taken |-> tokens[r]]
  <1>8. \A r \in taken : before(r) = Earlier(taken, key, r)
    <2> SUFFICES ASSUME NEW r \in taken PROVE before(r) = Earlier(taken, key, r)
      OBVIOUS
    <2>1. ASSUME NEW q \in before(r)
          PROVE  q \in taken
      <3>1. q \in eligible /\ over(q) /\ r \in eligible
        OBVIOUS
      <3>2. ASSUME NEW p \in before(q)
            PROVE  p \in before(r)
        <4>1. {p, q, r} \subseteq Nat /\ {tokens[p], tokens[q], tokens[r]} \subseteq Nat
          <5> HIDE DEF tokens, items
          <5> QED
            BY <1>2, <1>3, <1>4, <1>6, <3>1
        <4> HIDE DEF tokens, eligible
        <4> QED
          BY <4>1
      <3>3. \A p \in before(r) : over(p)
        OBVIOUS
      <3> HIDE DEF before, over, eligible
      <3> QED
        BY <3>1, <3>2, <3>3
    <2>2. before(r) \subseteq taken
      BY <2>1
    <2> HIDE DEF tokens, over
    <2> QED
      BY <2>2, <1>5 DEF Earlier
  <1>9. \A k \in 1..Cardinality(taken) : \E r \in taken : Cardinality(before(r)) = k - 1
    <2>1. key \in [taken -> Nat]
      <3> HIDE DEF tokens, items, eligible, taken
      <3> QED
        BY <1>3, <1>4, <1>5
    <2> HIDE DEF key, before, taken
    <2> QED
      BY <1>7, <1>8, <2>1, EveryPlace
  <1>10. \A k \in 1..Cardinality(taken) : at(k) \in taken
    <2> HIDE DEF before, taken
    <2> QED
      BY <1>9
  <1>11. \A k \in 1..Cardinality(taken) : Summarises(l, event(k)) /\ Fresh(l, event(k))
    <2> SUFFICES ASSUME NEW k \in 1..Cardinality(taken)
                 PROVE  Summarises(l, event(k)) /\ Fresh(l, event(k))
      OBVIOUS
    <2> DEFINE r == at(k)
    <2>1. r \in items /\ r \in OfKind(l, "result") /\ Compactions(l, l[read[r]].ref) = {}
      <3> HIDE DEF at, read, taken, eligible, items
      <3> QED
        BY <1>2, <1>4, <1>5, <1>10
    <2> HIDE DEF at, read, tokens, summary, r, items
    <2> DEFINE p == Max(Reads(l, path, r))
               q == Max(Bodies(l, path, r, soft))
    <2>2. /\ event(k) = Compacted(l[p].ref, Summary(l[q].size), tokens[r])
          /\ tokens[r] = ItemTokens(l, path, r) /\ tokens[r] \in Nat
          /\ Compactions(l, l[p].ref) = {}
      BY <1>3, <2>1 DEF r
    <2>3. /\ p \in OfKind(l, "result") /\ q \in OfKind(l, "result")
          /\ p \in Reads(l, path, r) /\ q \in Reads(l, path, r) /\ r \in Reads(l, path, r)
      <3>1. Bodies(l, path, r, soft) # {}
        BY <1>3, <2>1
      <3> HIDE DEF path
      <3> QED
        BY <2>1, <3>1, ReadsShape
    <2> HIDE DEF p, q, event
    <2>4. p = q \/ SameFile(l, l[p].ref, l[q].ref)
      BY <2>1, <2>3, ReadsAreOfFile
    <2>5. ~Reread(l) => p = q /\ tokens[r] = Tokens(l[p].size)
      <3>1. p = r \/ SameFile(l, l[p].ref, l[r].ref)
        BY <2>1, <2>3, ReadsAreOfFile
      <3>2. ~Reread(l) => p = q /\ p = r
        BY <2>1, <2>3, <2>4, <3>1, OneReadOfFile
      <3>3. ~Reread(l) => tokens[r] = Tokens(Body(l, r))
        BY <2>1, <2>2, ItemTokensAreBody
      <3> QED
        BY <2>2, <3>2, <3>3 DEF Body
    <2>6. Summarises(l, event(k))
      BY <2>2, <2>3, <2>4, <2>5 DEF Summarises
    <2>7. event(k).ref = l[p].ref /\ event(k).size = Summary(l[q].size)
      BY <2>2, KindsOfNew
    <2>8. Fresh(l, event(k))
      BY <2>2, <2>3, <2>5, <2>7 DEF Fresh
    <2> QED
      BY <2>6, <2>8
  <1>12. Cardinality(taken) \in Nat
    BY <1>7, FS_CardinalityType
  <1> HIDE DEF event, taken
  <1> DEFINE ev == [k \in 1..Cardinality(taken) |-> event(k)]
  <1>13. /\ ev = [k \in 1..Cardinality(taken) |-> ev[k]]
         /\ \A k \in 1..Cardinality(taken) : Summarises(l, ev[k]) /\ Fresh(l, ev[k])
    BY <1>11
  <1> HIDE DEF ev
  <1>14. ev = Compact(l, current, limit, soft)
    BY <1>1 DEF ev
  <1> QED
    BY <1>12, <1>13, <1>14

-----------------------------------------------------------------------------
(* What a step appends.                                                     *)

\* The report of a subagent.
Reports(e) == \E n \in Nat : e = Delegated(n)

\* The events that are appended to l.
New(l, e) ==
    \/ e \in {User, Warning} \/ Reports(e)
    \/ \E n \in Nat : e = Delta(n)
    \/ \E p \in Paths \cup {NoPath} : e = Call(p)
    \/ \E c \in OfKind(l, "call"), n \in Nat, b \in BOOLEAN :
          e = Output(c, n, b) /\ \A r \in OfKind(l, "result") : l[r].ref # c
    \/ \E c \in OfKind(l, "call") : e = Asked(c) \/ \E n \in Nat : e = Answered(c, n)
    \/ Summarises(l, e)
    \/ \E V : Chosen(l, V) /\ e = EvictionOf(l, V)
    \/ \E ids \in SUBSET Spoken(l) : ids # {} /\ e = Readmitted(ids)

SameCall(d, e) == d.kind = "result" /\ e.kind = "result" /\ d.ref = e.ref

\* Events that one step may append; its results are of different calls.
NewList(l, ev) ==
    /\ ev \in Seq(Events)
    /\ \A k \in DOMAIN ev : New(l, ev[k])
    /\ \A i, k \in DOMAIN ev : SameCall(ev[i], ev[k]) => i = k

Step(l, m) ==
    /\ Extends(l, m)
    /\ \A j \in DOMAIN m \ DOMAIN l : New(l, m[j])
    /\ \A i, j \in DOMAIN m \ DOMAIN l : SameCall(m[i], m[j]) => i = j

LEMMA NewIsEvent ==
    ASSUME NEW l \in Seq(Events), \A j \in DOMAIN l : EventOK(l, j), NEW e, New(l, e)
    PROVE  e \in Events
  <1>1. OfKind(l, "call") \subseteq Nat /\ Spoken(l) \subseteq Nat
    <2>1. OfKind(l, "call") \subseteq 1..Len(l) /\ Spoken(l) \subseteq 1..Len(l)
      BY LogShape
    <2> QED
      BY <2>1
  <1>2. CASE Summarises(l, e)
    <2>1. PICK r \in OfKind(l, "result"), q \in OfKind(l, "result"), was \in Nat :
             e = Compacted(l[r].ref, Summary(l[q].size), was)
      BY <1>2 DEF Summarises
    <2>2. l[r].ref \in Nat /\ Summary(l[q].size) \in Nat
      BY <1>1, Results, SummaryNat
    <2> QED
      BY <2>1, <2>2 DEF Events
  <1>3. ASSUME NEW V, e = EvictionOf(l, V)
        PROVE  e \in Events
    <2> DEFINE ids == UNION {Ids(l, t) : t \in V}
    <2>1. ids \in SUBSET Nat
      BY <1>1 DEF Ids
    <2>2. e = Evicted(ids)
      BY <1>3 DEF EvictionOf
    <2> HIDE DEF ids
    <2> QED
      BY <2>1, <2>2 DEF Events
  <1>4. CASE \E c \in OfKind(l, "call"), n \in Nat, b \in BOOLEAN : e = Output(c, n, b)
    BY <1>1, <1>4 DEF Events
  <1>5. CASE \E ids \in SUBSET Spoken(l) : e = Readmitted(ids)
    BY <1>1, <1>5 DEF Events
  <1>6. CASE e \in {User, Warning} \/ \E p \in Paths \cup {NoPath} : e = Call(p)
    BY <1>6 DEF Events
  <1>7. CASE Reports(e) \/ \E n \in Nat : e = Delta(n)
    BY <1>7 DEF Events, Reports
  <1>8. CASE \E c \in OfKind(l, "call") : e = Asked(c) \/ \E n \in Nat : e = Answered(c, n)
    BY <1>1, <1>8 DEF Events
  <1> QED
    BY <1>2, <1>3, <1>4, <1>5, <1>6, <1>7, <1>8 DEF New

\* What m has more than l is of the list.
From(ev, l, m) == \A j \in DOMAIN m \ DOMAIN l : \E k \in DOMAIN ev : m[j] = ev[k]

\* Emit, of all of the list or of a part.
LEMMA EmitIsStep ==
    ASSUME NEW l \in Seq(Events), \A j \in DOMAIN l : EventOK(l, j), NEW ev, NewList(l, ev),
           NEW m, m = l \o ev \/ \E n \in 0..Len(ev) : n < Len(ev) /\ m = l \o SubSeq(ev, 1, n)
    PROVE  Step(l, m) /\ From(ev, l, m)
  <1>1. \A k \in DOMAIN ev : ev[k] \in Events
    BY NewIsEvent DEF NewList
  <1>2. ev \in Seq(Events)
    BY DEF NewList
  <1>3. Len(ev) \in Nat /\ DOMAIN ev = 1..Len(ev)
    BY <1>2, LenProperties
  <1>4. PICK s : /\ s \in Seq(Events) /\ m = l \o s
                 /\ Len(s) <= Len(ev) /\ \A k \in 1..Len(s) : s[k] = ev[k]
    <2>1. ASSUME m = l \o ev
          PROVE  \E s : /\ s \in Seq(Events) /\ m = l \o s
                        /\ Len(s) <= Len(ev) /\ \A k \in 1..Len(s) : s[k] = ev[k]
      <3> WITNESS ev
      <3> QED
        BY <1>2, <1>3, <2>1
    <2>2. ASSUME NEW n \in 0..Len(ev), m = l \o SubSeq(ev, 1, n)
          PROVE  \E s : /\ s \in Seq(Events) /\ m = l \o s
                        /\ Len(s) <= Len(ev) /\ \A k \in 1..Len(s) : s[k] = ev[k]
      <3>1. \A i \in 1..n : ev[i] \in Events
        BY <1>1, <1>3
      <3>2. /\ SubSeq(ev, 1, n) \in Seq(Events)
            /\ Len(SubSeq(ev, 1, n)) = IF 1 <= n THEN n - 1 + 1 ELSE 0
            /\ \A i \in 1..(n - 1 + 1) : SubSeq(ev, 1, n)[i] = ev[1 + i - 1]
        BY <1>3, <3>1, SubSeqProperties
      <3>3. Len(SubSeq(ev, 1, n)) = n
        BY <3>2
      <3>4. \A i \in 1..n : SubSeq(ev, 1, n)[i] = ev[i]
        BY <3>2
      <3> WITNESS SubSeq(ev, 1, n)
      <3> QED
        BY <2>2, <3>2, <3>3, <3>4
    <2> QED
      BY <2>1, <2>2
  <1>5. Len(l) \in Nat /\ DOMAIN l = 1..Len(l) /\ Len(s) \in Nat /\ DOMAIN s = 1..Len(s)
    BY <1>4, LenProperties
  <1>6. /\ m \in Seq(Events) /\ Len(m) = Len(l) + Len(s)
        /\ \A i \in 1..(Len(l) + Len(s)) : m[i] = IF i <= Len(l) THEN l[i] ELSE s[i - Len(l)]
    BY <1>4, ConcatProperties
  <1>7. DOMAIN m = 1..(Len(l) + Len(s))
    BY <1>6, LenProperties
  <1>8. Extends(l, m)
    BY <1>5, <1>6, <1>7 DEF Extends
  <1>9. \A j \in DOMAIN m \ DOMAIN l : j - Len(l) \in DOMAIN ev /\ m[j] = ev[j - Len(l)]
    BY <1>3, <1>4, <1>5, <1>6, <1>7
  <1>10. \A j \in DOMAIN m \ DOMAIN l : New(l, m[j])
    BY <1>9 DEF NewList
  <1>11. ASSUME NEW i \in DOMAIN m \ DOMAIN l, NEW j \in DOMAIN m \ DOMAIN l,
                SameCall(m[i], m[j])
         PROVE  i = j
    <2>1. i - Len(l) = j - Len(l)
      BY <1>9, <1>11 DEF NewList
    <2> QED
      BY <1>5, <1>7, <2>1
  <1> QED
    BY <1>8, <1>9, <1>10, <1>11 DEF Step, From

-----------------------------------------------------------------------------
(* The invariant of the log.                                                *)

\* What was paged out is of turns before the newest, and whole turns.
OldOut(l) ==
    \A e \in OfKind(l, "evicted") : \A i \in l[e].ids : TurnOf(l, i) < LastTurn(l)
WholeOut(l) ==
    \A e \in OfKind(l, "evicted") : \A i \in l[e].ids : Ids(l, TurnOf(l, i)) \subseteq l[e].ids

LogInv(l) ==
    /\ l \in Seq(Events)
    /\ \A j \in DOMAIN l : EventOK(l, j)
    /\ OldOut(l)
    /\ WholeOut(l)

LEMMA NewOfKind ==
    ASSUME NEW l, NEW e, New(l, e)
    PROVE  /\ e.kind = "user" => e = User
           /\ e.kind = "warning" => e = Warning
           /\ e.kind = "delta" => \E n \in Nat : e = Delta(n)
           /\ e.kind = "delegation" => Reports(e)
           /\ e.kind = "call" => \E p \in Paths \cup {NoPath} : e = Call(p)
           /\ e.kind = "result" =>
                 \E c \in OfKind(l, "call"), n \in Nat, b \in BOOLEAN :
                    e = Output(c, n, b) /\ \A r \in OfKind(l, "result") : l[r].ref # c
           /\ e.kind = "asked" => \E c \in OfKind(l, "call") : e = Asked(c)
           /\ e.kind = "answered" => \E c \in OfKind(l, "call"), n \in Nat : e = Answered(c, n)
           /\ e.kind = "compacted" => Summarises(l, e)
           /\ e.kind = "evicted" => \E V : Chosen(l, V) /\ e = EvictionOf(l, V)
           /\ e.kind = "readmitted" => \E ids \in SUBSET Spoken(l) : ids # {} /\ e = Readmitted(ids)
           /\ e.kind \in Kinds
  <1>1. (e = User => e.kind = "user") /\ (e = Warning => e.kind = "warning")
    BY KindsOfNew
  <1>2. \A n : (e = Delta(n) => e.kind = "delta") /\ (e = Delegated(n) => e.kind = "delegation")
    BY KindsOfNew
  <1>3. \A p : e = Call(p) => e.kind = "call"
    BY KindsOfNew
  <1>4. \A c, n, b : e = Output(c, n, b) => e.kind = "result"
    BY KindsOfNew
  <1>5. \A c, n : (e = Asked(c) => e.kind = "asked") /\ (e = Answered(c, n) => e.kind = "answered")
    BY KindsOfNew
  <1>6. Summarises(l, e) => e.kind = "compacted"
    BY KindsOfNew DEF Summarises
  <1>7. \A V : e = EvictionOf(l, V) => e.kind = "evicted"
    BY KindsOfNew DEF EvictionOf
  <1>8. \A ids : e = Readmitted(ids) => e.kind = "readmitted"
    BY KindsOfNew
  <1>9. Reports(e) => e.kind = "delegation"
    BY <1>2 DEF Reports
  <1> HIDE DEF Reports
  <1> QED
    BY <1>1, <1>2, <1>3, <1>4, <1>5, <1>6, <1>7, <1>8, <1>9 DEF New, Kinds

LEMMA OldEventsStay ==
    ASSUME NEW l, LogInv(l), NEW m, Step(l, m), NEW j \in DOMAIN l
    PROVE  EventOK(m, j)
  <1> DEFINE k == l[j].kind
  <1>1. /\ EventOK(l, j) /\ Extends(l, m) /\ m[j] = l[j] /\ j \in DOMAIN m
        /\ l \in Seq(Events) /\ m \in Seq(Events)
    BY ExtendsKinds DEF LogInv, Step, Extends
  <1>2. /\ \A kind : OfKind(l, kind) = OfKind(m, kind) \cap DOMAIN l
        /\ Spoken(l) = Spoken(m) \cap DOMAIN l
        /\ \A i \in DOMAIN l : m[i] = l[i]
    BY <1>1, ExtendsKinds, ExtendsSpoken DEF Extends
  <1>3. k \in Kinds
    BY <1>1, Sizes DEF LogInv
  <1>4. CASE k \in {"user", "warning", "delta", "delegation", "call"}
    BY <1>1, <1>4 DEF EventOK
  <1>5. CASE k \in {"asked", "answered"}
    BY <1>1, <1>2, <1>5 DEF EventOK
  <1>6. CASE k = "result"
    <2>1. PICK c \in OfKind(l, "call") : c < j /\ l[j] = Output(c, l[j].size, l[j].failed)
      BY <1>1, <1>6 DEF EventOK
    <2>2. /\ \A i \in OfKind(l, "result") : l[i].ref = l[j].ref => i = j
          /\ l[j].size \in Nat /\ l[j].failed \in BOOLEAN
      BY <1>1, <1>6 DEF EventOK
    <2>3. ASSUME NEW i \in OfKind(m, "result"), m[i].ref = m[j].ref
          PROVE  i = j
      <3>1. CASE i \in DOMAIN l
        BY <1>1, <1>2, <2>2, <2>3, <3>1
      <3>2. CASE i \notin DOMAIN l
        <4>1. i \in DOMAIN m \ DOMAIN l /\ m[i].kind = "result" /\ New(l, m[i])
          BY <3>2 DEF Step, OfKind
        <4>2. PICK d \in OfKind(l, "call"), n2 \in Nat, b2 \in BOOLEAN :
                 m[i] = Output(d, n2, b2) /\ \A r \in OfKind(l, "result") : l[r].ref # d
          BY <4>1, NewOfKind
        <4>3. m[i].ref = d
          BY <4>2, KindsOfNew
        <4>4. j \in OfKind(l, "result")
          BY <1>6 DEF OfKind
        <4> QED
          BY <1>1, <2>3, <4>2, <4>3, <4>4
      <3> QED
        BY <3>1, <3>2
    <2>4. c \in OfKind(m, "call")
      BY <1>2
    <2> QED
      BY <1>1, <1>6, <2>1, <2>2, <2>3, <2>4 DEF EventOK
  <1>7. CASE k = "compacted"
    <2>1. PICK r \in OfKind(l, "result"), q \in OfKind(l, "result") :
             /\ r < j /\ q < j /\ (r = q \/ SameFile(l, l[r].ref, l[q].ref))
             /\ l[j] = Compacted(l[r].ref, Summary(l[q].size), l[j].original)
      BY <1>1, <1>7 DEF EventOK
    <2>2. r \in OfKind(m, "result") /\ m[r] = l[r] /\ q \in OfKind(m, "result") /\ m[q] = l[q]
      BY <1>2
    <2>3. /\ l[r].ref \in DOMAIN l /\ m[l[r].ref] = l[l[r].ref]
          /\ l[q].ref \in DOMAIN l /\ m[l[q].ref] = l[l[q].ref]
      BY <1>2, Results DEF LogInv, OfKind
    <2>4. r = q \/ SameFile(m, m[r].ref, m[q].ref)
      BY <2>1, <2>2, <2>3 DEF SameFile
    <2>5. l[j].original \in Nat
      BY <1>1, <1>7 DEF EventOK
    <2> QED
      BY <1>1, <1>7, <2>1, <2>2, <2>4, <2>5 DEF EventOK
  <1>8. CASE k \in {"evicted", "readmitted"}
    <2>1. /\ l[j] \in {Evicted(l[j].ids), Readmitted(l[j].ids)}
          /\ l[j].ids # {} /\ l[j].ids \subseteq Spoken(l) \cap 1..(j - 1)
      BY <1>1, <1>8 DEF EventOK
    <2>2. Spoken(l) \subseteq Spoken(m)
      BY <1>2
    <2> QED
      BY <1>1, <1>8, <2>1, <2>2 DEF EventOK
  <1> QED
    BY <1>3, <1>4, <1>5, <1>6, <1>7, <1>8 DEF Kinds

LEMMA NewEventsFit ==
    ASSUME NEW l, LogInv(l), NEW m, Step(l, m), NEW j \in DOMAIN m \ DOMAIN l
    PROVE  EventOK(m, j)
  <1> DEFINE e == m[j]
  <1>1. /\ New(l, e) /\ Extends(l, m) /\ l \in Seq(Events) /\ m \in Seq(Events)
        /\ DOMAIN l \subseteq DOMAIN m
    BY ExtendsKinds DEF LogInv, Step, Extends
  <1>2. /\ \A kind : OfKind(l, kind) = OfKind(m, kind) \cap DOMAIN l
        /\ Spoken(l) = Spoken(m) \cap DOMAIN l
        /\ \A i \in DOMAIN l : m[i] = l[i]
    BY <1>1, ExtendsKinds, ExtendsSpoken DEF Extends
  <1>3. j \in Nat /\ DOMAIN l \subseteq 1..(j - 1)
    BY <1>1, LogShape
  <1>4. CASE e.kind \in {"user", "warning"}
    BY <1>1, <1>4, NewOfKind DEF EventOK
  <1>5. CASE e.kind \in {"delta", "delegation"}
    <2>1. PICK n \in Nat : e \in {Delta(n), Delegated(n)}
      BY <1>1, <1>5, NewOfKind DEF Reports
    <2>2. e.size = n
      BY <2>1, KindsOfNew
    <2> QED
      BY <1>5, <2>1, <2>2, KindsOfNew DEF EventOK
  <1>10. CASE e.kind = "call"
    BY <1>1, <1>10, NewOfKind DEF EventOK
  <1>11. CASE e.kind \in {"asked", "answered"}
    <2>1. PICK c \in OfKind(l, "call"), n \in Nat : e \in {Asked(c), Answered(c, n)}
      BY <1>1, <1>11, NewOfKind
    <2>2. c \in OfKind(m, "call") /\ c < j
      BY <1>2, <1>3, <2>1
    <2>3. e.kind = "answered" => e.size = n /\ e = Answered(c, n)
      BY <2>1, KindsOfNew
    <2>4. e.kind = "asked" => e = Asked(c)
      BY <2>1, KindsOfNew
    <2> QED
      BY <1>11, <2>2, <2>3, <2>4 DEF EventOK
  <1>6. CASE e.kind = "result"
    <2>1. PICK c \in OfKind(l, "call"), n \in Nat, b \in BOOLEAN :
             e = Output(c, n, b) /\ \A r \in OfKind(l, "result") : l[r].ref # c
      BY <1>1, <1>6, NewOfKind
    <2>2. c \in OfKind(m, "call") /\ c < j
      BY <1>2, <1>3, <2>1
    <2>3. e.ref = c /\ e.size = n /\ e.failed = b
      BY <2>1, KindsOfNew
    <2>4. ASSUME NEW i \in OfKind(m, "result"), m[i].ref = e.ref
          PROVE  i = j
      <3>1. i \notin DOMAIN l
        BY <1>2, <2>1, <2>3, <2>4
      <3>2. i \in DOMAIN m \ DOMAIN l /\ m[i].kind = "result"
        BY <3>1 DEF OfKind
      <3> QED
        BY <1>6, <2>4, <3>2 DEF Step, SameCall
    <2> QED
      BY <1>6, <2>1, <2>2, <2>3, <2>4 DEF EventOK
  <1>7. CASE e.kind = "compacted"
    <2>1. PICK r \in OfKind(l, "result"), q \in OfKind(l, "result"), was \in Nat :
             /\ r = q \/ SameFile(l, l[r].ref, l[q].ref)
             /\ e = Compacted(l[r].ref, Summary(l[q].size), was)
      BY <1>1, <1>7, NewOfKind DEF Summarises
    <2>2. /\ r \in OfKind(m, "result") /\ m[r] = l[r] /\ r < j
          /\ q \in OfKind(m, "result") /\ m[q] = l[q] /\ q < j
      BY <1>2, <1>3, <2>1
    <2>3. /\ l[r].ref \in DOMAIN l /\ m[l[r].ref] = l[l[r].ref]
          /\ l[q].ref \in DOMAIN l /\ m[l[q].ref] = l[l[q].ref]
      BY <1>2, Results DEF LogInv, OfKind
    <2>4. r = q \/ SameFile(m, m[r].ref, m[q].ref)
      BY <2>1, <2>2, <2>3 DEF SameFile
    <2>5. e.original = was
      BY <2>1, KindsOfNew
    <2> QED
      BY <1>7, <2>1, <2>2, <2>4, <2>5 DEF EventOK
  <1>8. CASE e.kind = "evicted"
    <2>1. PICK V : Chosen(l, V) /\ e = EvictionOf(l, V)
      BY <1>1, <1>8, NewOfKind
    <2>2. e = Evicted(e.ids) /\ e.ids = UNION {Ids(l, t) : t \in V}
      BY <2>1, KindsOfNew DEF EvictionOf
    <2>3. PICK t \in V : t \in 1..LastTurn(l)
      BY <2>1 DEF Chosen
    <2>4. Ids(l, t) # {}
      BY <1>1, <2>3, EveryTurn
    <2>5. e.ids # {}
      BY <2>2, <2>3, <2>4
    <2>6. e.ids \subseteq Spoken(l)
      BY <2>2 DEF Ids
    <2>7. e.ids \subseteq Spoken(m) \cap 1..(j - 1)
      BY <1>2, <1>3, <2>6
    <2> QED
      BY <1>8, <2>2, <2>5, <2>7 DEF EventOK
  <1>9. CASE e.kind = "readmitted"
    <2>1. PICK ids \in SUBSET Spoken(l) : ids # {} /\ e = Readmitted(ids)
      BY <1>1, <1>9, NewOfKind
    <2>2. e.ids = ids
      BY <2>1, KindsOfNew
    <2>3. e.ids \subseteq Spoken(m) \cap 1..(j - 1)
      BY <1>2, <1>3, <2>1, <2>2
    <2> QED
      BY <1>9, <2>1, <2>2, <2>3 DEF EventOK
  <1> QED
    BY <1>1, <1>4, <1>5, <1>6, <1>7, <1>8, <1>9, <1>10, <1>11, NewOfKind DEF Kinds

LEMMA StepKeepsLog ==
    ASSUME NEW l, LogInv(l), NEW m, Step(l, m)
    PROVE  LogInv(m)
  <1>1. /\ Extends(l, m) /\ l \in Seq(Events) /\ m \in Seq(Events)
        /\ LastTurn(l) \in Nat /\ LastTurn(m) \in Nat /\ LastTurn(l) <= LastTurn(m)
        /\ \A i \in DOMAIN l : TurnOf(m, i) = TurnOf(l, i)
        /\ \A i \in DOMAIN l : TurnOf(l, i) \in Nat
    <2>1. Extends(l, m) /\ l \in Seq(Events) /\ m \in Seq(Events)
      BY DEF LogInv, Step, Extends
    <2>2. \A i \in DOMAIN l : i \in Nat
      BY <2>1, LogShape
    <2> QED
      BY <2>1, <2>2, ExtendsTurns, TurnBounds
  <1>2. \A j \in DOMAIN m : EventOK(m, j)
    BY OldEventsStay, NewEventsFit
  <1>3. ASSUME NEW e \in OfKind(m, "evicted"), NEW i \in m[e].ids
        PROVE  /\ i \in DOMAIN l /\ TurnOf(l, i) < LastTurn(l)
               /\ Ids(l, TurnOf(l, i)) \subseteq m[e].ids
    <2>1. CASE e \in DOMAIN l
      <3>1. m[e] = l[e] /\ e \in OfKind(l, "evicted") /\ EventOK(l, e) /\ l[e].kind = "evicted"
        BY <1>1, <2>1, ExtendsKinds DEF Extends, LogInv, OfKind
      <3>2. i \in Spoken(l)
        BY <3>1 DEF EventOK
      <3> QED
        BY <3>1, <3>2 DEF LogInv, OldOut, WholeOut, Spoken
    <2>2. CASE e \notin DOMAIN l
      <3>1. New(l, m[e]) /\ m[e].kind = "evicted"
        BY <2>2 DEF Step, OfKind
      <3>2. PICK V : Chosen(l, V) /\ m[e] = EvictionOf(l, V)
        BY <3>1, NewOfKind
      <3>3. m[e].ids = UNION {Ids(l, t) : t \in V}
        BY <3>2, KindsOfNew DEF EvictionOf
      <3>4. PICK t \in V : i \in Ids(l, t)
        BY <3>3
      <3>5. i \in DOMAIN l /\ TurnOf(l, i) = t
        BY <3>4 DEF Ids, Spoken
      <3> QED
        BY <3>2, <3>3, <3>5 DEF Chosen
    <2> QED
      BY <2>1, <2>2
  <1>4. OldOut(m)
    <2>1. ASSUME NEW e \in OfKind(m, "evicted"), NEW i \in m[e].ids
          PROVE  TurnOf(m, i) < LastTurn(m)
      BY <1>1, <1>3
    <2> QED
      BY <2>1 DEF OldOut
  <1>5. WholeOut(m)
    <2>1. ASSUME NEW e \in OfKind(m, "evicted"), NEW i \in m[e].ids
          PROVE  Ids(m, TurnOf(m, i)) \subseteq m[e].ids
      <3>1. /\ i \in DOMAIN l /\ TurnOf(l, i) < LastTurn(l) /\ TurnOf(l, i) \in Nat
            /\ TurnOf(m, i) = TurnOf(l, i) /\ Ids(l, TurnOf(l, i)) \subseteq m[e].ids
        BY <1>1, <1>3
      <3> QED
        BY <1>1, <3>1, OldTurnsKept
    <2> QED
      BY <2>1 DEF WholeOut
  <1> QED
    BY <1>1, <1>2, <1>4, <1>5 DEF LogInv

-----------------------------------------------------------------------------
(* The actions.                                                             *)

LEMMA StepSelf ==
    ASSUME NEW l, LogInv(l)
    PROVE  Step(l, l)
  <1>1. l \in Seq(Events) /\ Len(l) \in Nat
    BY LenProperties DEF LogInv
  <1> QED
    BY <1>1 DEF Step, Extends

LEMMA EmptyList ==
    ASSUME NEW l
    PROVE  NewList(l, <<>>)
  BY EmptySeq DEF NewList

LEMMA OneEvent ==
    ASSUME NEW l, LogInv(l), NEW e, New(l, e)
    PROVE  NewList(l, <<e>>)
  <1>1. e \in Events
    BY NewIsEvent DEF LogInv
  <1>2. <<e>> \in Seq(Events) /\ DOMAIN <<e>> = 1..1 /\ <<e>>[1] = e
    BY <1>1
  <1>3. \A k \in DOMAIN <<e>> : k = 1
    BY <1>2
  <1> QED
    BY <1>2, <1>3 DEF NewList

\* No result of C is in the list.
Spares(ev, C) == \A k \in DOMAIN ev : ev[k].kind = "result" => ev[k].ref \notin C
Quiet(ev) == \A k \in DOMAIN ev : ev[k].kind # "result"

LEMMA EmitEvents ==
    ASSUME LogInv(log), NEW ev, NewList(log, ev), NEW next, Emit(ev, next)
    PROVE  /\ Step(log, log') /\ From(ev, log, log')
           /\ pc' = "idle" \/ (pc' = next /\ log' = log \o ev)
  <1>1. log \in Seq(Events) /\ \A j \in DOMAIN log : EventOK(log, j)
    BY DEF LogInv
  <1>2. log' = log \o ev \/ \E n \in 0..Len(ev) : n < Len(ev) /\ log' = log \o SubSeq(ev, 1, n)
    BY DEF Emit
  <1>3. pc' = "idle" \/ (pc' = next /\ log' = log \o ev)
    BY DEF Emit
  <1>4. Step(log, log') /\ From(ev, log, log')
    BY <1>1, <1>2, EmitIsStep
  <1> QED
    BY <1>3, <1>4

\* The calls a turn waits for have no result yet.
Waits(l, C) ==
    /\ C \subseteq OfKind(l, "call")
    /\ \A r \in OfKind(l, "result") : l[r].ref \notin C

LEMMA StillWaits ==
    ASSUME NEW l, NEW m, Step(l, m), NEW C, Waits(l, C), NEW D \in SUBSET C,
           NEW ev, From(ev, l, m), Spares(ev, D)
    PROVE  Waits(m, D)
  <1>1. Extends(l, m)
    BY DEF Step
  <1>2. D \subseteq OfKind(m, "call")
    BY <1>1, ExtendsKinds DEF Waits
  <1>3. ASSUME NEW r \in OfKind(m, "result")
        PROVE  m[r].ref \notin D
    <2>1. CASE r \in DOMAIN l
      BY <1>1, <2>1, ExtendsKinds DEF Extends, Waits
    <2>2. CASE r \notin DOMAIN l
      BY <2>2 DEF From, Spares, OfKind
    <2> QED
      BY <2>1, <2>2
  <1> QED
    BY <1>2, <1>3 DEF Waits

LEMMA CompactList ==
    ASSUME NEW l, LogInv(l), NEW current, NEW limit, NEW soft,
           NEW ev, ev = Compact(l, current, limit, soft)
    PROVE  /\ NewList(l, ev) /\ Quiet(ev)
           /\ \A k \in DOMAIN ev : Summarises(l, ev[k]) /\ Fresh(l, ev[k])
  <1>1. PICK n \in Nat : /\ ev = [k \in 1..n |-> ev[k]]
                        /\ \A k \in 1..n : Summarises(l, ev[k]) /\ Fresh(l, ev[k])
    BY CompactSummarises DEF LogInv
  <1>2. DOMAIN ev = 1..n
    BY <1>1
  <1>3. \A k \in DOMAIN ev : New(l, ev[k]) /\ ev[k].kind = "compacted"
    BY <1>1, <1>2, KindsOfNew DEF New, Summarises
  <1>4. ev \in Seq(Events)
    <2>1. \A k \in DOMAIN ev : ev[k] \in Events
      BY <1>3, NewIsEvent DEF LogInv
    <2>2. ev \in [1..n -> Events]
      BY <1>1, <1>2, <2>1
    <2> QED
      BY <2>2, SeqDef
  <1>5. \A i, k \in DOMAIN ev : ~SameCall(ev[i], ev[k])
    BY <1>3 DEF SameCall
  <1>6. \A k \in DOMAIN ev : Summarises(l, ev[k]) /\ Fresh(l, ev[k])
    BY <1>1, <1>2
  <1> QED
    BY <1>3, <1>4, <1>5, <1>6 DEF NewList, Quiet

\* Any of the plans of compaction.
LEMMA PlansCompact ==
    ASSUME NEW l, LogInv(l), NEW current, NEW limit, NEW ev,
           ev \in {<<>>, PlanCompactions(l, current, limit), PlanOverflow(l, current, limit)}
    PROVE  NewList(l, ev) /\ Quiet(ev)
  <1>1. \/ ev = <<>> \/ ev = Compact(l, current, limit, TRUE) \/ ev = Compact(l, current, limit, FALSE)
    BY DEF PlanCompactions, PlanOverflow
  <1>2. Quiet(<<>>)
    BY DEF Quiet
  <1> QED
    BY <1>1, <1>2, EmptyList, CompactList

LEMMA ListsJoin ==
    ASSUME NEW l, NEW a, NewList(l, a), NEW b, NewList(l, b),
           \A i \in DOMAIN a, k \in DOMAIN b : ~SameCall(a[i], b[k])
    PROVE  NewList(l, a \o b)
  <1>1. /\ a \o b \in Seq(Events) /\ Len(a \o b) = Len(a) + Len(b)
        /\ \A i \in 1..(Len(a) + Len(b)) : (a \o b)[i] = IF i <= Len(a) THEN a[i] ELSE b[i - Len(a)]
    BY ConcatProperties DEF NewList
  <1>2. /\ DOMAIN a = 1..Len(a) /\ Len(a) \in Nat /\ DOMAIN b = 1..Len(b) /\ Len(b) \in Nat
        /\ DOMAIN (a \o b) = 1..(Len(a) + Len(b))
    BY <1>1, LenProperties DEF NewList
  <1> DEFINE m == a \o b
  <1>3. \A k \in DOMAIN m : \/ k \in DOMAIN a /\ m[k] = a[k]
                            \/ k > Len(a) /\ k - Len(a) \in DOMAIN b /\ m[k] = b[k - Len(a)]
    BY <1>1, <1>2
  <1>4. m \in Seq(Events)
    BY <1>1
  <1>5. \A k \in DOMAIN m : k \in Nat
    BY <1>2
  <1> HIDE DEF m
  <1>6. \A k \in DOMAIN m : New(l, m[k])
    BY <1>3 DEF NewList
  <1>7. ASSUME NEW i \in DOMAIN m, NEW k \in DOMAIN m, SameCall(m[i], m[k])
        PROVE  i = k
    <2>1. SameCall(m[k], m[i])
      BY <1>7 DEF SameCall
    <2>2. CASE i \in DOMAIN a /\ m[i] = a[i] /\ k \in DOMAIN a /\ m[k] = a[k]
      BY <1>7, <2>2 DEF NewList
    <2>3. CASE i \in DOMAIN a /\ m[i] = a[i] /\ k - Len(a) \in DOMAIN b /\ m[k] = b[k - Len(a)]
      BY <1>7, <2>3
    <2>4. CASE k \in DOMAIN a /\ m[k] = a[k] /\ i - Len(a) \in DOMAIN b /\ m[i] = b[i - Len(a)]
      BY <2>1, <2>4
    <2>5. CASE /\ i - Len(a) \in DOMAIN b /\ m[i] = b[i - Len(a)]
               /\ k - Len(a) \in DOMAIN b /\ m[k] = b[k - Len(a)]
      <3>1. i - Len(a) = k - Len(a)
        BY <1>7, <2>5 DEF NewList
      <3> QED
        BY <1>2, <1>5, <3>1
    <2> QED
      BY <1>3, <2>2, <2>3, <2>4, <2>5
  <1> QED
    BY <1>4, <1>6, <1>7 DEF NewList, m

\* The answers to the calls of C, one of each.
LEMMA SkipsList ==
    ASSUME NEW l, LogInv(l), NEW C, Waits(l, C)
    PROVE  /\ NewList(l, Skips(C))
           /\ \A k \in DOMAIN Skips(C) : \E c \in C : Skips(C)[k] = Output(c, SkipSize, FALSE)
  <1> DEFINE key == [c \in C |-> 0]
             at(k) == CHOOSE c \in C : Cardinality({d \in C : d < c}) = k - 1
             n == Cardinality(C)
  <1>1. C \in SUBSET Nat /\ IsFiniteSet(C) /\ key \in [C -> Nat]
    BY LogShape, FS_Subset DEF LogInv, Waits
  <1>2. \A c \in C : {d \in C : d < c} = Earlier(C, key, c)
    BY <1>1 DEF Earlier
  <1>3. \A k \in 1..n : at(k) \in C /\ Cardinality({d \in C : d < at(k)}) = k - 1
    <2>1. \A k \in 1..n : \E c \in C : Cardinality({d \in C : d < c}) = k - 1
      <3> SUFFICES ASSUME NEW k \in 1..n
                   PROVE  \E c \in C : Cardinality({d \in C : d < c}) = k - 1
        OBVIOUS
      <3> HIDE DEF key
      <3>1. PICK c \in C : Cardinality(Earlier(C, key, c)) = k - 1
        BY <1>1, EveryPlace
      <3> QED
        BY <1>2, <3>1
    <2> QED
      BY <2>1
  <1>4. n \in Nat
    BY <1>1, FS_CardinalityType
  <1>5. Skips(C) = [k \in 1..n |-> Output(at(k), SkipSize, FALSE)]
    BY DEF Skips
  <1> HIDE DEF at, n
  <1> DEFINE ev == [k \in 1..n |-> Output(at(k), SkipSize, FALSE)]
  <1>6. \A k \in 1..n : New(l, ev[k]) /\ ev[k].ref = at(k)
    <2> SUFFICES ASSUME NEW k \in 1..n PROVE New(l, ev[k]) /\ ev[k].ref = at(k)
      OBVIOUS
    <2>1. ev[k] = Output(at(k), SkipSize, FALSE) /\ at(k) \in C
      BY <1>3
    <2>2. SkipSize \in Nat /\ FALSE \in BOOLEAN
      BY ContextAssumption
    <2>3. at(k) \in OfKind(l, "call") /\ \A r \in OfKind(l, "result") : l[r].ref # at(k)
      BY <2>1 DEF Waits
    <2> HIDE DEF ev
    <2>4. New(l, ev[k])
      BY <2>1, <2>2, <2>3 DEF New
    <2>5. ev[k].ref = at(k)
      BY <2>1 DEF Output
    <2> QED
      BY <2>4, <2>5
  <1>7. ev \in Seq(Events)
    <2>1. \A k \in 1..n : ev[k] \in Events
      BY <1>6, NewIsEvent DEF LogInv
    <2>2. ev \in [1..n -> Events]
      BY <2>1
    <2> HIDE DEF ev
    <2> QED
      BY <1>4, <2>2, SeqDef
  <1>8. DOMAIN ev = 1..n
    OBVIOUS
  <1> HIDE DEF ev
  <1>9. ASSUME NEW i \in DOMAIN ev, NEW k \in DOMAIN ev, SameCall(ev[i], ev[k])
        PROVE  i = k
    <2>1. at(i) = at(k)
      BY <1>6, <1>8, <1>9 DEF SameCall
    <2>2. i - 1 = k - 1
      BY <1>3, <1>8, <2>1
    <2> QED
      BY <1>4, <1>8, <2>2
  <1>10. NewList(l, ev)
    BY <1>6, <1>7, <1>8, <1>9 DEF NewList
  <1> QED
    BY <1>3, <1>5, <1>8, <1>10 DEF ev

-----------------------------------------------------------------------------
(* The invariant.                                                           *)

Places ==
    /\ pc \in Pcs /\ said \in BOOLEAN
    /\ ratio \in Ratios \cup {100} /\ retries \in 0..MaxContextRetries
    /\ nudges \in 0..MaxEmptyRetries
    /\ pc = "tool" => calls # {}

\* What others have yet to append: compactions of results of the log, and the
\* reports of subagents.
Pending(l, ev) == ev \in Seq(Events) /\ \A k \in DOMAIN ev : Summarises(l, ev[k]) \/ Reports(ev[k])

CtxInv ==
    /\ LogInv(log) /\ Waits(log, calls) /\ Places
    /\ Pending(log, planned) /\ Pending(log, aside)
    /\ \A k \in DOMAIN planned : planned[k].kind = "compacted"

\* A step that appends a list, and leaves no call waiting that it answers.
LEMMA EmitStep ==
    ASSUME CtxInv, NEW ev, NewList(log, ev), NEW next, Emit(ev, next),
           calls' \subseteq calls, Spares(ev, calls')
    PROVE  Step(log, log') /\ Waits(log', calls') /\ pc' \in {"idle", next}
  <1>1. Step(log, log') /\ From(ev, log, log') /\ pc' \in {"idle", next}
    BY EmitEvents DEF CtxInv
  <1>2. Waits(log', calls')
    BY <1>1, StillWaits DEF CtxInv
  <1> QED
    BY <1>1, <1>2

LEMMA QuietEmit ==
    ASSUME CtxInv, NEW ev, NewList(log, ev), Quiet(ev), NEW next, Emit(ev, next),
           calls' \subseteq calls
    PROVE  Step(log, log') /\ Waits(log', calls') /\ pc' \in {"idle", next}
  BY EmitStep DEF Quiet, Spares

LEMMA QuietNothing ==
    ASSUME CtxInv, log' = log, calls' \subseteq calls
    PROVE  Step(log, log') /\ Waits(log', calls')
  <1>1. Step(log, log)
    BY StepSelf DEF CtxInv
  <1> QED
    BY <1>1 DEF CtxInv, Waits

\* Of one event.
LEMMA QuietOne ==
    ASSUME NEW e, e.kind # "result"
    PROVE  Quiet(<<e>>)
  BY DEF Quiet

LEMMA EvictionStep ==
    ASSUME CtxInv, NEW rescue, NEW next, EmitEviction(rescue, next), calls' \subseteq calls
    PROVE  Step(log, log') /\ Waits(log', calls') /\ pc' \in {"idle", next}
  <1>1. CASE log' = log /\ pc' = next
    BY <1>1, QuietNothing
  <1>2. ASSUME NEW V \in Waves(log, ratio, rescue), Emit(<<EvictionOf(log, V)>>, next)
        PROVE  Step(log, log') /\ Waits(log', calls') /\ pc' \in {"idle", next}
    <2>1. Chosen(log, V)
      BY WavesAreChosen DEF CtxInv, LogInv
    <2>2. New(log, EvictionOf(log, V))
      BY <2>1 DEF New
    <2>3. NewList(log, <<EvictionOf(log, V)>>)
      BY <2>2, OneEvent DEF CtxInv
    <2>4. Quiet(<<EvictionOf(log, V)>>)
      BY KindsOfNew, QuietOne DEF EvictionOf
    <2> HIDE DEF CtxInv
    <2> QED
      BY <1>2, <2>3, <2>4, QuietEmit
  <1> QED
    BY <1>1, <1>2 DEF EmitEviction

\* Each action appends to the log what may be appended.
LEMMA GateStep ==
    ASSUME CtxInv, Gate
    PROVE  Step(log, log') /\ Waits(log', calls') /\ Places'
  <1>1. CASE GateCompact
    <2> DEFINE ev == IF Estimate(log, ratio) < HighWater THEN <<>>
                     ELSE PlanCompactions(log, Calibrated(Window(log), ratio), HighWater)
    <2>1. NewList(log, ev) /\ Quiet(ev)
      BY PlansCompact DEF CtxInv
    <2>2. Emit(ev, "evict") /\ UNCHANGED turnVars
      BY <1>1 DEF GateCompact
    <2> HIDE DEF ev
    <2>3. Step(log, log') /\ Waits(log', calls') /\ pc' \in {"idle", "evict"}
      BY <2>1, <2>2, QuietEmit DEF turnVars
    <2> QED
      BY <2>2, <2>3 DEF CtxInv, Places, Pcs, turnVars
  <1>2. CASE GateOverflow
    <2> DEFINE ev == IF Estimate(log, ratio) <= ModelWindow \/ ModelWindow = 0 THEN <<>>
                     ELSE PlanOverflow(log, Calibrated(Window(log), ratio), ModelWindow)
    <2>1. NewList(log, ev) /\ Quiet(ev)
      BY PlansCompact DEF CtxInv
    <2>2. Emit(ev, "stream") /\ said' = FALSE /\ UNCHANGED <<calls, ratio, retries, nudges>>
      BY <1>2 DEF GateOverflow
    <2> HIDE DEF ev
    <2>3. Step(log, log') /\ Waits(log', calls') /\ pc' \in {"idle", "stream"}
      BY <2>1, <2>2, QuietEmit
    <2> QED
      BY <2>2, <2>3 DEF CtxInv, Places, Pcs
  <1>3. CASE GateEvict
    <2>1. EmitEviction(TRUE, "floor") /\ UNCHANGED turnVars
      BY <1>3 DEF GateEvict
    <2>2. Step(log, log') /\ Waits(log', calls') /\ pc' \in {"idle", "floor"}
      BY <2>1, EvictionStep DEF turnVars
    <2> QED
      BY <2>1, <2>2 DEF CtxInv, Places, Pcs, turnVars
  <1>4. CASE GateFloor
    <2>1. /\ EmitEviction(TRUE, "overflow") \/ (log' = log /\ pc' = "overflow")
          /\ UNCHANGED turnVars
      BY <1>4 DEF GateFloor
    <2>2. Step(log, log') /\ Waits(log', calls') /\ pc' \in {"idle", "overflow"}
      BY <2>1, EvictionStep, QuietNothing DEF turnVars
    <2> QED
      BY <2>1, <2>2 DEF CtxInv, Places, Pcs, turnVars
  <1> QED
    BY <1>1, <1>2, <1>3, <1>4 DEF Gate

LEMMA QuietTexts ==
    ASSUME CtxInv
    PROVE  /\ NewList(log, <<User>>) /\ Quiet(<<User>>)
           /\ NewList(log, <<Warning>>) /\ Quiet(<<Warning>>)
           /\ NewList(log, <<>>) /\ Quiet(<<>>)
           /\ \A n \in Nat : NewList(log, <<Delta(n)>>) /\ Quiet(<<Delta(n)>>)
  <1>1. LogInv(log) /\ \A e \in {User, Warning} : New(log, e) /\ e.kind # "result"
    BY KindsOfNew DEF New, CtxInv
  <1>2. \A n \in Nat : New(log, Delta(n)) /\ Delta(n).kind # "result"
    BY KindsOfNew DEF New
  <1>3. NewList(log, <<>>) /\ Quiet(<<>>)
    BY EmptyList DEF Quiet
  <1>4. \A n \in Nat : NewList(log, <<Delta(n)>>) /\ Quiet(<<Delta(n)>>)
    BY <1>1, <1>2, OneEvent, QuietOne
  <1> QED
    BY <1>1, <1>3, <1>4, OneEvent, QuietOne

LEMMA StreamStep ==
    ASSUME CtxInv, Stream
    PROVE  Step(log, log') /\ Waits(log', calls') /\ Places'
  <1>1. CASE StreamEnds
    <2>1. log' = log /\ UNCHANGED turnVars /\ pc' = "closed"
      BY <1>1 DEF StreamEnds
    <2>2. Step(log, log') /\ Waits(log', calls')
      BY <2>1, QuietNothing DEF turnVars
    <2> QED
      BY <2>1, <2>2 DEF CtxInv, Places, Pcs, turnVars
  <1>2. CASE StreamText
    <2>1. /\ \/ \E n \in DeltaSizes : Emit(<<Delta(n)>>, "stream")
             \/ Emit(<<Warning>>, "stream")
          /\ said' \in {TRUE, said} /\ UNCHANGED <<calls, ratio, retries, nudges>>
      BY <1>2 DEF StreamText
    <2>2. DeltaSizes \subseteq Nat
      BY ContextAssumption
    <2>3. Step(log, log') /\ Waits(log', calls') /\ pc' \in {"idle", "stream"}
      BY <2>1, <2>2, QuietTexts, QuietEmit
    <2> QED
      BY <2>1, <2>3 DEF CtxInv, Places, Pcs
  <1>3. CASE ContextRetry
    <2>1. /\ EmitEviction(FALSE, "compact") /\ calls' = {} /\ UNCHANGED <<said, ratio, nudges>>
          /\ retries' = retries + 1 /\ retries < MaxContextRetries
      BY <1>3 DEF ContextRetry
    <2>2. Step(log, log') /\ Waits(log', calls') /\ pc' \in {"idle", "compact"}
      BY <2>1, EvictionStep
    <2>3. retries' \in 0..MaxContextRetries
      BY <2>1, ContextAssumption DEF CtxInv, Places
    <2> QED
      BY <2>1, <2>2, <2>3 DEF CtxInv, Places, Pcs
  <1>4. CASE StreamFails
    <2>1. /\ Emit(<<Warning>>, "idle") /\ calls' = {} /\ UNCHANGED <<said, ratio, retries, nudges>>
      BY <1>4 DEF StreamFails
    <2>2. Step(log, log') /\ Waits(log', calls') /\ pc' = "idle"
      BY <2>1, QuietTexts, QuietEmit
    <2> QED
      BY <2>1, <2>2 DEF CtxInv, Places, Pcs
  <1>5. CASE StreamCall
    <2>1. PICK p \in Paths \cup {NoPath} : Emit(<<Call(p)>>, "stream")
      BY <1>5 DEF StreamCall
    <2>2. /\ calls' = IF pc' = "stream" THEN calls \cup {Len(log) + 1} ELSE calls
          /\ said' = TRUE /\ UNCHANGED <<ratio, retries, nudges>>
      BY <1>5 DEF StreamCall
    <2>3. New(log, Call(p)) /\ NewList(log, <<Call(p)>>) /\ Quiet(<<Call(p)>>)
      BY OneEvent, QuietOne, KindsOfNew DEF New, CtxInv
    <2>4. /\ Step(log, log') /\ From(<<Call(p)>>, log, log')
          /\ pc' = "idle" \/ (pc' = "stream" /\ log' = log \o <<Call(p)>>)
      BY <2>1, <2>3, EmitEvents DEF CtxInv
    <2>5. Waits(log', calls)
      BY <2>3, <2>4, StillWaits DEF CtxInv, Spares, Quiet
    <2>6. Waits(log', calls')
      <3>1. CASE pc' = "idle"
        BY <2>2, <2>5, <3>1
      <3>2. CASE pc' = "stream" /\ log' = log \o <<Call(p)>>
        <4>1. log \in Seq(Events) /\ <<Call(p)>> \in Seq(Events) /\ Len(log) \in Nat
          BY <2>3, LenProperties DEF CtxInv, LogInv, NewList
        <4>2. log'[Len(log) + 1] = Call(p) /\ Len(log') = Len(log) + 1
          BY <3>2, <4>1
        <4>3. DOMAIN log' = 1..(Len(log) + 1) /\ DOMAIN log = 1..Len(log)
          BY <3>2, <4>1
        <4>4. Len(log) + 1 \in OfKind(log', "call")
          BY <4>1, <4>2, <4>3, KindsOfNew DEF OfKind
        <4>5. LogInv(log') /\ Extends(log, log')
          BY <2>4, StepKeepsLog DEF CtxInv, Step
        <4>6. \A r \in OfKind(log', "result") : log'[r].ref # Len(log) + 1
          <5> SUFFICES ASSUME NEW r \in OfKind(log', "result"), log'[r].ref = Len(log) + 1
                       PROVE  FALSE
            OBVIOUS
          <5>1. log'[r].ref < r
            BY <4>5, Results DEF LogInv
          <5> QED
            BY <4>1, <4>3, <5>1 DEF OfKind
        <4> QED
          BY <2>2, <2>5, <3>2, <4>4, <4>6 DEF Waits
      <3> QED
        BY <2>4, <3>1, <3>2
    <2> QED
      BY <2>2, <2>4, <2>6 DEF CtxInv, Places, Pcs
  <1> QED
    BY <1>1, <1>2, <1>3, <1>4, <1>5 DEF Stream

LEMMA TurnStep ==
    ASSUME CtxInv, RecordCompactions \/ Nudge \/ Reply \/ CapReached
    PROVE  Step(log, log') /\ Waits(log', calls') /\ Places'
  <1>1. CASE CapReached
    <2>1. Emit(<<Warning>>, "idle") /\ calls' = {} /\ UNCHANGED <<said, ratio, retries, nudges>>
      BY <1>1 DEF CapReached
    <2>2. Step(log, log') /\ Waits(log', calls') /\ pc' = "idle"
      BY <2>1, QuietTexts, QuietEmit
    <2> QED
      BY <2>1, <2>2 DEF CtxInv, Places, Pcs
  <1>3. CASE Nudge
    <2>1. /\ Emit(<<User>>, "compact") /\ UNCHANGED <<calls, said, ratio, retries>>
          /\ nudges' = nudges + 1 /\ nudges < MaxEmptyRetries
      BY <1>3 DEF Nudge
    <2>2. Step(log, log') /\ Waits(log', calls') /\ pc' \in {"idle", "compact"}
      BY <2>1, QuietTexts, QuietEmit
    <2>3. nudges' \in 0..MaxEmptyRetries
      BY <2>1, ContextAssumption DEF CtxInv, Places
    <2> QED
      BY <2>1, <2>2, <2>3 DEF CtxInv, Places, Pcs
  <1>4. CASE Reply
    <2>1. Emit(<<>>, "idle") \/ Emit(<<Warning>>, "idle")
      BY <1>4 DEF Reply
    <2>2. UNCHANGED turnVars
      BY <1>4 DEF Reply
    <2>3. Step(log, log') /\ Waits(log', calls') /\ pc' = "idle"
      BY <2>1, <2>2, QuietTexts, QuietEmit DEF turnVars
    <2> QED
      BY <2>2, <2>3 DEF CtxInv, Places, Pcs, turnVars
  <1>5. CASE RecordCompactions
    <2> DEFINE next == CASE pc = "ran" -> "compact"
                         [] pc # "ran" /\ calls # {} -> "tool"
                         [] OTHER -> "replied"
    <2>1. PICK r \in Ratios \cup {ratio} :
             /\ ratio' = r
             /\ Emit(IF SoftThreshold = 0 THEN <<>>
                     ELSE PlanCompactions(log, Calibrated(Window(log), r), SoftThreshold), next)
      BY <1>5 DEF RecordCompactions
    <2> DEFINE ev == IF SoftThreshold = 0 THEN <<>>
                     ELSE PlanCompactions(log, Calibrated(Window(log), r), SoftThreshold)
    <2>2. UNCHANGED <<calls, said, retries, nudges>>
      BY <1>5 DEF RecordCompactions
    <2>3. NewList(log, ev) /\ Quiet(ev)
      BY PlansCompact DEF CtxInv
    <2>4. Emit(ev, next)
      BY <2>1
    <2>5. next \in Pcs /\ (next = "tool" => calls # {})
      BY DEF Pcs
    <2> HIDE DEF ev, next
    <2>6. Step(log, log') /\ Waits(log', calls') /\ pc' \in {"idle", next}
      BY <2>2, <2>3, <2>4, QuietEmit
    <2> QED
      BY <2>1, <2>2, <2>5, <2>6 DEF CtxInv, Places, Pcs
  <1> QED
    BY <1>1, <1>3, <1>4, <1>5

LEMMA TwoEvents ==
    ASSUME NEW l, LogInv(l), NEW a, New(l, a), NEW b, New(l, b), a.kind # "result"
    PROVE  NewList(l, <<a, b>>) /\ \A k \in DOMAIN <<a, b>> : <<a, b>>[k] \in {a, b}
  <1>1. a \in Events /\ b \in Events
    BY NewIsEvent DEF LogInv
  <1>2. <<a, b>> \in Seq(Events) /\ DOMAIN <<a, b>> = 1..2 /\ <<a, b>>[1] = a /\ <<a, b>>[2] = b
    BY <1>1
  <1>3. \A k \in DOMAIN <<a, b>> : k = 1 \/ k = 2
    BY <1>2
  <1> QED
    BY <1>2, <1>3 DEF NewList, SameCall

LEMMA NextIsCalled ==
    ASSUME CtxInv, pc = "tool"
    PROVE  /\ NextCall \in calls
           /\ AfterCall \in {"ran", "tool"} /\ (AfterCall = "tool" => calls \ {NextCall} # {})
           /\ \A n \in Nat, b \in BOOLEAN : New(log, Output(NextCall, n, b))
           /\ New(log, Asked(NextCall)) /\ \A n \in Nat : New(log, Answered(NextCall, n))
  <1>1. calls \subseteq Nat /\ calls # {}
    BY LogShape DEF CtxInv, LogInv, Waits, Places
  <1>2. NextCall \in calls
    BY <1>1, SmallestOf DEF NextCall
  <1>3. NextCall \in OfKind(log, "call") /\ \A r \in OfKind(log, "result") : log[r].ref # NextCall
    BY <1>2 DEF CtxInv, Waits
  <1>4. AfterCall \in {"ran", "tool"} /\ (AfterCall = "tool" => calls \ {NextCall} # {})
    BY <1>2 DEF AfterCall
  <1> HIDE DEF NextCall
  <1> QED
    BY <1>2, <1>3, <1>4 DEF New

LEMMA ToolStep ==
    ASSUME CtxInv, RunTool \/ Recall \/ AskUser
    PROVE  Step(log, log') /\ Waits(log', calls') /\ Places'
  <1>1. pc = "tool" /\ UNCHANGED <<said, ratio, retries, nudges>>
    BY DEF RunTool, Recall, AskUser
  <1>2. /\ NextCall \in calls
        /\ AfterCall \in {"ran", "tool"} /\ (AfterCall = "tool" => calls \ {NextCall} # {})
        /\ \A n \in Nat, b \in BOOLEAN : New(log, Output(NextCall, n, b))
        /\ New(log, Asked(NextCall)) /\ \A n \in Nat : New(log, Answered(NextCall, n))
    BY <1>1, NextIsCalled
  <1> DEFINE c == NextCall
             after == AfterCall
             rest == calls \ {c}
  <1>3. OutputSizes \subseteq Nat /\ AnswerSizes \subseteq Nat /\ EnrichedSize \in Nat
    BY ContextAssumption
  <1>4. ASSUME NEW ev, NewList(log, ev), Spares(ev, calls \ {NextCall}), Emit(ev, AfterCall),
               calls' \in {{}, calls \ {NextCall}}, pc' # "idle" => calls' = calls \ {NextCall}
        PROVE  Step(log, log') /\ Waits(log', calls') /\ Places'
    <2>1. Spares(ev, calls') /\ calls' \subseteq calls
      BY <1>4 DEF Spares
    <2>2. Step(log, log') /\ Waits(log', calls') /\ pc' \in {"idle", AfterCall}
      BY <1>4, <2>1, EmitStep
    <2> QED
      BY <1>1, <1>2, <1>4, <2>2 DEF CtxInv, Places, Pcs
  <1>5. CASE RunTool
    <2>1. PICK n \in OutputSizes, b \in BOOLEAN : Emit(<<Output(NextCall, n, b)>>, AfterCall)
      BY <1>5 DEF RunTool
    <2>2. New(log, Output(NextCall, n, b))
      BY <1>2, <1>3
    <2>3. NewList(log, <<Output(NextCall, n, b)>>)
      BY <2>2, OneEvent DEF CtxInv
    <2>4. Spares(<<Output(NextCall, n, b)>>, calls \ {NextCall})
      <3>1. Output(NextCall, n, b).ref = NextCall
        BY DEF Output
      <3> QED
        BY <3>1 DEF Spares
    <2>5. calls' = calls \ {NextCall}
      BY <1>5 DEF RunTool
    <2> QED
      BY <1>4, <2>1, <2>3, <2>4, <2>5
  <1>6. CASE Recall
    <2>1. PICK hits \in SUBSET Out(log), n \in OutputSizes :
             hits # {} /\ Emit(<<Readmitted(hits), Output(NextCall, n, FALSE)>>, AfterCall)
      BY <1>6 DEF Recall
    <2> DEFINE a == Readmitted(hits)
               b == Output(NextCall, n, FALSE)
    <2>2. New(log, a) /\ New(log, b) /\ a.kind = "readmitted" /\ b.ref = NextCall
      <3>1. hits \in SUBSET Spoken(log) /\ hits # {}
        BY <2>1 DEF Out
      <3>2. New(log, a)
        BY <3>1 DEF New
      <3>3. a.kind = "readmitted" /\ b.ref = NextCall
        BY DEF Readmitted, Output
      <3>4. New(log, b)
        BY <1>2, <1>3
      <3> QED
        BY <3>2, <3>3, <3>4
    <2> HIDE DEF a, b
    <2>3. NewList(log, <<a, b>>) /\ Spares(<<a, b>>, calls \ {NextCall})
      <3>1. NewList(log, <<a, b>>) /\ \A k \in DOMAIN <<a, b>> : <<a, b>>[k] \in {a, b}
        BY <2>2, TwoEvents DEF CtxInv
      <3> QED
        BY <2>2, <3>1 DEF Spares
    <2>4. calls' = calls \ {NextCall}
      BY <1>6 DEF Recall
    <2>5. Emit(<<a, b>>, AfterCall)
      BY <2>1 DEF a, b
    <2> QED
      BY <1>4, <2>3, <2>4, <2>5
  <1>7. CASE AskUser
    <2>1. PICK x \in AnswerSizes :
             \/ \E n \in {x, EnrichedSize} :
                   Emit(Append(<<Asked(NextCall), Answered(NextCall, x)>>, Output(NextCall, n, FALSE)),
                        AfterCall)
             \/ Emit(Append(<<Asked(NextCall), Answered(NextCall, x)>>, Output(NextCall, x, TRUE))
                       \o Skips(calls \ {NextCall}), "idle")
      BY <1>7 DEF AskUser
    <2>2. calls' = IF pc' = "idle" THEN {} ELSE calls \ {NextCall}
      BY <1>7 DEF AskUser
    <2> DEFINE a == Asked(NextCall)
               b == Answered(NextCall, x)
    <2>3. New(log, a) /\ New(log, b) /\ a.kind = "asked" /\ b.kind = "answered"
      <3>1. New(log, a) /\ New(log, b)
        BY <1>2, <1>3
      <3> QED
        BY <3>1 DEF Asked, Answered
    <2> HIDE DEF a, b
    <2>4. ASSUME NEW e, New(log, e), e.kind = "result" => e.ref = NextCall
          PROVE  /\ NewList(log, Append(<<a, b>>, e))
                 /\ \A k \in DOMAIN Append(<<a, b>>, e) : Append(<<a, b>>, e)[k] \in {a, b, e}
      <3>1. NewList(log, <<a, b>>) /\ \A k \in DOMAIN <<a, b>> : <<a, b>>[k] \in {a, b}
        BY <2>3, TwoEvents DEF CtxInv
      <3>2. NewList(log, <<e>>) /\ DOMAIN <<e>> = 1..1 /\ <<e>>[1] = e
        BY <2>4, OneEvent DEF CtxInv
      <3>3. a \in Events /\ b \in Events /\ e \in Events
        BY <2>3, <2>4, NewIsEvent DEF CtxInv, LogInv
      <3>4. Append(<<a, b>>, e) = <<a, b>> \o <<e>>
        BY <3>3
      <3>5. \A i \in DOMAIN <<a, b>>, k \in DOMAIN <<e>> : ~SameCall(<<a, b>>[i], <<e>>[k])
        BY <2>3, <3>1 DEF SameCall
      <3>6. NewList(log, <<a, b>> \o <<e>>)
        BY <3>1, <3>2, <3>5, ListsJoin
      <3>7. /\ DOMAIN Append(<<a, b>>, e) = 1..3 /\ Append(<<a, b>>, e)[1] = a
            /\ Append(<<a, b>>, e)[2] = b /\ Append(<<a, b>>, e)[3] = e
        BY <3>3
      <3>8. \A k \in 1..3 : k = 1 \/ k = 2 \/ k = 3
        OBVIOUS
      <3> QED
        BY <3>4, <3>6, <3>7, <3>8
    <2>5. CASE \E n \in {x, EnrichedSize} :
                  Emit(Append(<<a, b>>, Output(NextCall, n, FALSE)), AfterCall)
      <3>1. PICK n \in {x, EnrichedSize} :
               Emit(Append(<<a, b>>, Output(NextCall, n, FALSE)), AfterCall)
        BY <2>5
      <3> DEFINE e == Output(NextCall, n, FALSE)
      <3>2. New(log, e) /\ e.ref = NextCall
        <4>1. New(log, e)
          BY <1>2, <1>3
        <4> QED
          BY <4>1 DEF Output
      <3> HIDE DEF e
      <3> DEFINE ev == Append(<<a, b>>, e)
      <3>3. NewList(log, ev) /\ \A k \in DOMAIN ev : ev[k] \in {a, b, e}
        BY <2>4, <3>2
      <3> HIDE DEF ev
      <3>4. Spares(ev, calls \ {NextCall})
        BY <2>3, <3>2, <3>3 DEF Spares
      <3>5. Emit(ev, AfterCall)
        BY <3>1 DEF ev, e
      <3> QED
        BY <1>4, <2>2, <3>3, <3>4, <3>5
    <2>6. CASE Emit(Append(<<a, b>>, Output(NextCall, x, TRUE)) \o Skips(calls \ {NextCall}), "idle")
      <3> DEFINE e == Output(NextCall, x, TRUE)
                 d == Append(<<a, b>>, e)
                 s == Skips(calls \ {NextCall})
      <3>1. New(log, e) /\ e.ref = NextCall
        <4>1. New(log, e)
          BY <1>2, <1>3
        <4> QED
          BY <4>1 DEF Output
      <3> HIDE DEF e
      <3>2. NewList(log, d) /\ \A k \in DOMAIN d : d[k] \in {a, b, e}
        BY <2>4, <3>1
      <3>3. NewList(log, s) /\ \A k \in DOMAIN s : \E q \in calls \ {NextCall} : s[k] = Output(q, SkipSize, FALSE)
        <4>1. Waits(log, calls \ {NextCall})
          BY DEF CtxInv, Waits
        <4> QED
          BY <4>1, SkipsList DEF CtxInv
      <3> HIDE DEF d, s
      <3>4. \A i \in DOMAIN d, k \in DOMAIN s : ~SameCall(d[i], s[k])
        <4> SUFFICES ASSUME NEW i \in DOMAIN d, NEW k \in DOMAIN s, SameCall(d[i], s[k])
                     PROVE  FALSE
          OBVIOUS
        <4>1. PICK q \in calls \ {NextCall} : s[k] = Output(q, SkipSize, FALSE)
          BY <3>3
        <4>2. s[k].ref = q
          BY <4>1 DEF Output
        <4>3. d[i] \in {a, b, e} /\ d[i].kind = "result"
          BY <3>2 DEF SameCall
        <4>4. d[i].ref = NextCall
          BY <2>3, <3>1, <4>3
        <4> QED
          BY <4>2, <4>4 DEF SameCall
      <3>5. NewList(log, d \o s)
        BY <3>2, <3>3, <3>4, ListsJoin
      <3>6. Emit(d \o s, "idle")
        BY <2>6 DEF d, s, e
      <3>7. pc' = "idle" /\ calls' = {}
        BY <2>2, <3>6 DEF Emit
      <3>8. Step(log, log') /\ Waits(log', calls')
        BY <3>5, <3>6, <3>7, EmitStep DEF Spares
      <3> QED
        BY <1>1, <3>7, <3>8 DEF CtxInv, Places, Pcs
    <2> QED
      BY <2>1, <2>5, <2>6 DEF a, b
  <1> QED
    BY <1>5, <1>6, <1>7

LEMMA CancelStep ==
    ASSUME CtxInv, Cancel
    PROVE  Step(log, log') /\ Waits(log', calls') /\ Places'
  <1>1. /\ Emit(Skips(calls), "idle") /\ calls' = {}
        /\ UNCHANGED <<said, ratio, retries, nudges>>
    BY DEF Cancel
  <1>2. NewList(log, Skips(calls))
    BY SkipsList DEF CtxInv
  <1>3. Step(log, log') /\ Waits(log', calls') /\ pc' = "idle"
    BY <1>1, <1>2, EmitStep DEF Spares
  <1> QED
    BY <1>1, <1>3 DEF CtxInv, Places, Pcs

-----------------------------------------------------------------------------
(* What others append: the task of `:compact', and subagents.               *)

LEMMA RereadStays ==
    ASSUME NEW l, NEW m, Extends(l, m), Reread(l)
    PROVE  Reread(m)
  <1>1. \A c \in OfKind(l, "call") : c \in OfKind(m, "call") /\ m[c] = l[c]
    BY ExtendsKinds DEF Extends
  <1> QED
    BY <1>1 DEF Reread, SameFile

LEMMA SummariesStay ==
    ASSUME NEW l, LogInv(l), NEW m, Step(l, m), NEW e, Summarises(l, e)
    PROVE  Summarises(m, e)
  <1>1. \A r \in OfKind(l, "result") : r \in OfKind(m, "result") /\ m[r] = l[r]
    BY ExtendsKinds DEF Step, Extends
  <1>2. \A c \in OfKind(l, "call") : m[c] = l[c]
    BY ExtendsKinds DEF Step, Extends
  <1>3. Reread(l) => Reread(m)
    BY RereadStays DEF Step
  <1>4. \A r, q \in OfKind(l, "result") :
           SameFile(l, l[r].ref, l[q].ref) => SameFile(m, m[r].ref, m[q].ref)
    BY <1>1, <1>2, Results DEF SameFile, LogInv
  <1> QED
    BY <1>1, <1>3, <1>4 DEF Summarises

LEMMA PendingList ==
    ASSUME NEW l, LogInv(l), NEW ev, Pending(l, ev)
    PROVE  NewList(l, ev) /\ \A k \in DOMAIN ev : ev[k].kind \in {"compacted", "delegation"}
  <1>1. \A k \in DOMAIN ev : New(l, ev[k])
    BY DEF Pending, New
  <1>2. \A k \in DOMAIN ev : ev[k].kind \in {"compacted", "delegation"}
    BY KindsOfNew DEF Pending, Summarises, Reports
  <1> QED
    BY <1>1, <1>2 DEF NewList, SameCall, Pending

\* The session that the others see: a summary of one of its results is one of
\* the log's.
LEMMA SessionLog ==
    ASSUME NEW l, LogInv(l), NEW ev, Pending(l, ev)
    PROVE  LogInv(l \o ev) /\ \A e : Summarises(l \o ev, e) => Summarises(l, e)
  <1> DEFINE m == l \o ev
  <1>1. NewList(l, ev) /\ \A k \in DOMAIN ev : ev[k].kind \in {"compacted", "delegation"}
    BY PendingList
  <1>2. Step(l, m) /\ From(ev, l, m)
    BY <1>1, EmitIsStep DEF LogInv
  <1>3. LogInv(m)
    BY <1>2, StepKeepsLog
  <1> HIDE DEF m
  <1>4. \A k \in {"call", "result"} : \A i \in OfKind(m, k) : i \in OfKind(l, k) /\ m[i] = l[i]
    <2> SUFFICES ASSUME NEW k \in {"call", "result"}, NEW i \in OfKind(m, k)
                 PROVE  i \in OfKind(l, k) /\ m[i] = l[i]
      OBVIOUS
    <2>1. i \in DOMAIN l
      BY <1>1, <1>2 DEF From, OfKind
    <2> QED
      BY <1>2, <2>1, ExtendsKinds DEF Step, Extends
  <1>5. Reread(m) => Reread(l)
    BY <1>4 DEF Reread, SameFile
  <1>6. \A r, q \in OfKind(l, "result") :
           SameFile(m, l[r].ref, l[q].ref) => SameFile(l, l[r].ref, l[q].ref)
    <2>1. \A r \in OfKind(l, "result") : l[r].ref \in OfKind(l, "call")
      BY Results DEF LogInv
    <2>2. \A c \in OfKind(l, "call") : m[c] = l[c]
      BY <1>2, ExtendsKinds DEF Step, Extends
    <2> QED
      BY <2>1, <2>2 DEF SameFile
  <1>7. \A e : Summarises(m, e) => Summarises(l, e)
    BY <1>4, <1>5, <1>6 DEF Summarises
  <1> QED
    BY <1>3, <1>7 DEF m

LEMMA PendingStays ==
    ASSUME NEW l, LogInv(l), NEW m, Step(l, m), NEW ev, Pending(l, ev)
    PROVE  Pending(m, ev)
  BY SummariesStay DEF Pending

LEMMA PlansArePending ==
    ASSUME NEW l, LogInv(l), NEW current, NEW limit, NEW ev,
           ev \in {<<>>, PlanCompactions(l, current, limit)}
    PROVE  ev \in Seq(Events) /\ \A k \in DOMAIN ev : Summarises(l, ev[k])
  <1>1. NewList(l, ev) /\ Quiet(ev)
    BY PlansCompact
  <1>2. CASE ev = <<>>
    BY <1>1, <1>2 DEF NewList
  <1>3. CASE ev = Compact(l, current, limit, TRUE)
    BY <1>3, CompactList DEF NewList
  <1> QED
    BY <1>2, <1>3 DEF PlanCompactions

LEMMA PendingMore ==
    ASSUME NEW l, NEW ev, Pending(l, ev), NEW e \in Events, Summarises(l, e) \/ Reports(e)
    PROVE  Pending(l, Append(ev, e))
  <1>1. /\ Append(ev, e) \in Seq(Events)
        /\ Len(Append(ev, e)) = Len(ev) + 1
        /\ \A i \in 1..Len(ev) : Append(ev, e)[i] = ev[i]
        /\ Append(ev, e)[Len(ev) + 1] = e
    BY AppendProperties DEF Pending
  <1>2. /\ Len(ev) \in Nat /\ DOMAIN ev = 1..Len(ev)
        /\ DOMAIN Append(ev, e) = 1..Len(Append(ev, e))
    BY <1>1, LenProperties DEF Pending
  <1>3. \A k \in DOMAIN Append(ev, e) : k \in DOMAIN ev \/ k = Len(ev) + 1
    BY <1>1, <1>2
  <1>4. \A k \in DOMAIN Append(ev, e) :
           Summarises(l, Append(ev, e)[k]) \/ Reports(Append(ev, e)[k])
    BY <1>1, <1>2, <1>3 DEF Pending
  <1> QED
    BY <1>1, <1>4 DEF Pending

\* They leave the log alone.
LEMMA OthersStep ==
    ASSUME CtxInv, Others
    PROVE  /\ UNCHANGED <<log, pc, turnVars>>
           /\ Pending(log, planned') /\ Pending(log, aside')
           /\ \A k \in DOMAIN planned' : planned'[k].kind = "compacted"
  <1>1. UNCHANGED <<log, pc, turnVars>>
    BY DEF Others, CompactNow, CompactionAppended, SubagentReports
  <1>2. /\ LogInv(log) /\ planned \in Seq(Events) /\ aside \in Seq(Events)
        /\ Pending(log, planned) /\ Pending(log, aside)
        /\ \A k \in DOMAIN planned : planned[k].kind = "compacted" /\ Summarises(log, planned[k])
    BY KindsOfNew DEF CtxInv, Pending, Reports
  <1>3. CASE CompactNow
    <2> DEFINE session == log \o aside
               current == Window(session) - Overhead + SystemTokens
               more == IF SoftThreshold = 0 THEN <<>>
                       ELSE PlanCompactions(session, current, SoftThreshold)
    <2>1. planned' = planned \o more /\ aside' = aside
      BY <1>3 DEF CompactNow
    <2>2. LogInv(session) /\ \A e : Summarises(session, e) => Summarises(log, e)
      BY <1>2, SessionLog
    <2>3. more \in {<<>>, PlanCompactions(session, current, SoftThreshold)}
      OBVIOUS
    <2> HIDE DEF more, session, current
    <2>4. more \in Seq(Events) /\ \A k \in DOMAIN more : Summarises(log, more[k])
      BY <2>2, <2>3, PlansArePending
    <2>5. /\ planned' \in Seq(Events) /\ Len(planned') = Len(planned) + Len(more)
          /\ \A i \in 1..Len(planned) + Len(more) :
                planned'[i] = IF i <= Len(planned) THEN planned[i] ELSE more[i - Len(planned)]
      BY <1>2, <2>1, <2>4, ConcatProperties
    <2>6. /\ DOMAIN planned = 1..Len(planned) /\ Len(planned) \in Nat
          /\ DOMAIN more = 1..Len(more) /\ Len(more) \in Nat
          /\ DOMAIN planned' = 1..Len(planned')
      BY <1>2, <2>4, <2>5, LenProperties
    <2>7. \A k \in DOMAIN planned' : Summarises(log, planned'[k])
      <3>1. \A k \in DOMAIN planned' :
              \/ k \in DOMAIN planned /\ planned'[k] = planned[k]
              \/ k - Len(planned) \in DOMAIN more /\ planned'[k] = more[k - Len(planned)]
        BY <2>5, <2>6
      <3> QED
        BY <1>2, <2>4, <3>1
    <2>8. \A k \in DOMAIN planned' : planned'[k].kind = "compacted"
      BY <2>7, KindsOfNew DEF Summarises
    <2>9. Pending(log, planned')
      BY <2>5, <2>7 DEF Pending
    <2>10. Pending(log, aside')
      BY <1>2, <2>1
    <2> QED
      BY <1>1, <2>8, <2>9, <2>10
  <1>4. CASE CompactionAppended
    <2>1. planned # <<>> /\ aside' = Append(aside, Head(planned)) /\ planned' = Tail(planned)
      BY <1>4 DEF CompactionAppended
    <2>2. Head(planned) = planned[1] /\ 1 \in DOMAIN planned /\ Head(planned) \in Events
      BY <1>2, <2>1, HeadTailProperties, LenProperties
    <2>3. /\ planned' \in Seq(Events)
          /\ \A k \in DOMAIN planned' : Summarises(log, planned'[k]) /\ planned'[k].kind = "compacted"
      <3>1. /\ Tail(planned) \in Seq(Events) /\ Len(Tail(planned)) = Len(planned) - 1
            /\ \A i \in 1..Len(Tail(planned)) : Tail(planned)[i] = planned[i + 1]
        BY <1>2, <2>1, HeadTailProperties
      <3>2. Len(planned) \in Nat /\ DOMAIN planned = 1..Len(planned)
            /\ DOMAIN Tail(planned) = 1..Len(Tail(planned))
        BY <1>2, <3>1, LenProperties
      <3>3. \A k \in DOMAIN Tail(planned) : k + 1 \in DOMAIN planned /\ Tail(planned)[k] = planned[k + 1]
        BY <3>1, <3>2
      <3> QED
        BY <1>2, <2>1, <3>1, <3>3
    <2>4. Pending(log, aside')
      BY <1>2, <2>1, <2>2, PendingMore
    <2>5. Pending(log, planned')
      BY <2>3 DEF Pending
    <2> QED
      BY <1>1, <2>3, <2>4, <2>5
  <1>5. CASE SubagentReports
    <2>1. PICK n \in ReportSizes : aside' = Append(aside, Delegated(n))
      BY <1>5 DEF SubagentReports
    <2>2. planned' = planned
      BY <1>5 DEF SubagentReports
    <2>3. n \in Nat
      BY ContextAssumption
    <2>4. Delegated(n) \in Events /\ Reports(Delegated(n))
      BY <2>3 DEF Events, Reports
    <2>5. Pending(log, aside')
      BY <1>2, <2>1, <2>4, PendingMore
    <2> QED
      BY <1>1, <1>2, <2>2, <2>5
  <1> QED
    BY <1>3, <1>4, <1>5 DEF Others

LEMMA AskStep ==
    ASSUME CtxInv, Ask \/ ReportWakes
    PROVE  /\ Step(log, log') /\ Waits(log', calls') /\ Places'
           /\ planned' = planned /\ aside' = <<>>
  <1>1. PICK ev \in {Append(aside, User), aside} : TurnStarts(ev)
    BY DEF Ask, ReportWakes
  <1>2. /\ log' = log \o ev /\ pc' = "compact" /\ planned' = planned
        /\ calls' = {} /\ said' = FALSE /\ ratio' = 100 /\ retries' = 0 /\ nudges' = 0 /\ aside' = <<>>
    BY <1>1 DEF TurnStarts
  <1>3. NewList(log, aside) /\ aside \in Seq(Events)
    BY PendingList DEF CtxInv, Pending
  <1>4. NewList(log, <<User>>) /\ Quiet(<<User>>) /\ User \in Events
    BY QuietTexts DEF Events
  <1>5. NewList(log, aside \o <<User>>)
    BY <1>3, <1>4, ListsJoin DEF Quiet, SameCall
  <1>6. Append(aside, User) = aside \o <<User>>
    BY <1>3, <1>4, AppendIsConcat
  <1>7. NewList(log, ev)
    BY <1>1, <1>3, <1>5, <1>6
  <1>8. Step(log, log')
    BY <1>2, <1>7, EmitIsStep DEF CtxInv, LogInv
  <1>9. retries' \in 0..MaxContextRetries /\ nudges' \in 0..MaxEmptyRetries
    BY <1>2, ContextAssumption
  <1> QED
    BY <1>2, <1>8, <1>9 DEF Waits, Places, Pcs

LEMMA NothingPends == ASSUME NEW l PROVE Pending(l, <<>>)
  BY EmptySeq DEF Pending

LEMMA CtxInvInit == ContextInit => CtxInv
  <1> SUFFICES ASSUME ContextInit PROVE CtxInv
    OBVIOUS
  <1>1. /\ log = <<>> /\ log \in Seq(Events) /\ DOMAIN log = {} /\ pc = "idle" /\ calls = {}
        /\ said = FALSE /\ ratio = 100 /\ planned = <<>> /\ aside = <<>>
    BY EmptySeq DEF ContextInit
  <1>2. retries \in 0..MaxContextRetries /\ nudges \in 0..MaxEmptyRetries
    BY ContextAssumption DEF ContextInit
  <1>3. LogInv(log)
    BY <1>1 DEF LogInv, OldOut, WholeOut, OfKind
  <1>4. DOMAIN planned = {}
    BY <1>1
  <1> QED
    BY <1>1, <1>2, <1>3, <1>4, NothingPends DEF CtxInv, Waits, Places, Pcs

LEMMA CtxStep ==
    ASSUME CtxInv, [ContextNext]_ctxVars
    PROVE  /\ Step(log, log') /\ Waits(log', calls') /\ Places'
           /\ Pending(log', planned') /\ Pending(log', aside')
           /\ \A k \in DOMAIN planned' : planned'[k].kind = "compacted"
  <1>1. /\ LogInv(log) /\ Pending(log, planned) /\ Pending(log, aside)
        /\ \A k \in DOMAIN planned : planned[k].kind = "compacted"
    BY DEF CtxInv
  <1>2. ASSUME UNCHANGED <<log, pc, turnVars>>
        PROVE  Step(log, log') /\ Waits(log', calls') /\ Places'
    <2>1. Step(log, log') /\ Waits(log', calls')
      BY <1>2, QuietNothing DEF turnVars
    <2> QED
      BY <1>2, <2>1 DEF CtxInv, Places, turnVars
  <1>3. CASE UNCHANGED ctxVars
    <2>1. UNCHANGED <<log, pc, turnVars>> /\ planned' = planned /\ aside' = aside
      BY <1>3 DEF ctxVars, handVars
    <2> QED
      BY <1>1, <1>2, <2>1
  <1>4. CASE Others
    <2>1. /\ UNCHANGED <<log, pc, turnVars>>
          /\ Pending(log, planned') /\ Pending(log, aside')
          /\ \A k \in DOMAIN planned' : planned'[k].kind = "compacted"
      BY <1>4, OthersStep
    <2> QED
      BY <1>2, <2>1
  <1>5. CASE Run /\ UNCHANGED handVars
    <2>1. Step(log, log') /\ Waits(log', calls') /\ Places'
      BY <1>5, GateStep, StreamStep, TurnStep, ToolStep, CancelStep DEF Run, Replied, Tools
    <2>2. planned' = planned /\ aside' = aside
      BY <1>5 DEF handVars
    <2> QED
      BY <1>1, <2>1, <2>2, PendingStays
  <1>6. CASE Ask \/ ReportWakes
    <2>1. /\ Step(log, log') /\ Waits(log', calls') /\ Places'
          /\ planned' = planned /\ aside' = <<>>
      BY <1>6, AskStep
    <2> QED
      BY <1>1, <2>1, PendingStays, NothingPends
  <1> QED
    BY <1>3, <1>4, <1>5, <1>6 DEF ContextNext

LEMMA CtxInvNext == CtxInv /\ [ContextNext]_ctxVars => CtxInv'
  <1> SUFFICES ASSUME CtxInv, [ContextNext]_ctxVars PROVE CtxInv'
    OBVIOUS
  <1>1. /\ Step(log, log') /\ Waits(log', calls') /\ Places'
        /\ Pending(log', planned') /\ Pending(log', aside')
        /\ \A k \in DOMAIN planned' : planned'[k].kind = "compacted"
    BY CtxStep
  <1>2. LogInv(log')
    BY <1>1, StepKeepsLog DEF CtxInv
  <1> QED
    BY <1>1, <1>2 DEF CtxInv

\* The log, the turn's place in its loop and the calls it waits for are always
\* as the program makes them.
THEOREM CtxInvHolds == ContextSpec => []CtxInv
  BY CtxInvInit, CtxInvNext, PTL DEF ContextSpec

-----------------------------------------------------------------------------
(* The properties.                                                          *)

LEMMA PendingFits ==
    ASSUME NEW l, LogInv(l), NEW ev, Pending(l, ev), NEW k \in DOMAIN ev
    PROVE  CASE ev[k].kind = "delegation" -> ev[k].size \in Nat /\ ev[k] = Delegated(ev[k].size)
             [] ev[k].kind = "compacted" -> EventOK(Append(l, ev[k]), Len(l) + 1)
             [] OTHER -> FALSE
  <1> DEFINE e == ev[k]
             m == Append(l, e)
  <1>1. CASE Reports(e)
    BY <1>1, KindsOfNew DEF Reports
  <1>2. CASE Summarises(l, e)
    <2>1. NewList(l, <<e>>) /\ e.kind = "compacted" /\ e \in Events
      <3>1. New(l, e) /\ e.kind = "compacted"
        BY <1>2, KindsOfNew DEF New, Summarises
      <3> QED
        BY <3>1, OneEvent, NewIsEvent DEF LogInv
    <2>2. m = l \o <<e>>
      BY <2>1, AppendIsConcat DEF LogInv
    <2>3. Step(l, m)
      BY <2>1, <2>2, EmitIsStep DEF LogInv
    <2>4. Len(l) + 1 \in DOMAIN m \ DOMAIN l
      <3>1. Len(m) = Len(l) + 1 /\ m \in Seq(Events) /\ l \in Seq(Events)
        BY <2>1, AppendProperties DEF LogInv
      <3>2. DOMAIN m = 1..(Len(l) + 1) /\ DOMAIN l = 1..Len(l) /\ Len(l) \in Nat
        BY <3>1, LenProperties
      <3> QED
        BY <3>2
    <2>5. EventOK(m, Len(l) + 1)
      BY <2>3, <2>4, NewEventsFit
    <2> HIDE DEF m
    <2> QED
      BY <2>1, <2>5 DEF m
  <1> QED
    BY <1>1, <1>2 DEF Pending

\* Every event of the log refers to earlier ones of the right kind, a call has
\* one result, and a turn waits for calls that have none.
THEOREM ContextTypesHold == ContextSpec => []ContextTypeOK
  <1>1. ASSUME CtxInv
        PROVE  ContextTypeOK
    <2> DEFINE both == planned \o aside
    <2>1. Pending(log, both)
      <3>1. planned \in Seq(Events) /\ aside \in Seq(Events)
        BY <1>1 DEF CtxInv, Pending
      <3>2. /\ both \in Seq(Events) /\ Len(both) = Len(planned) + Len(aside)
            /\ \A i \in 1..(Len(planned) + Len(aside)) :
                  both[i] = IF i <= Len(planned) THEN planned[i] ELSE aside[i - Len(planned)]
        BY <3>1, ConcatProperties
      <3>3. /\ DOMAIN planned = 1..Len(planned) /\ Len(planned) \in Nat
            /\ DOMAIN aside = 1..Len(aside) /\ Len(aside) \in Nat
            /\ DOMAIN both = 1..(Len(planned) + Len(aside))
        BY <3>1, <3>2, LenProperties
      <3>4. \A k \in DOMAIN both : \/ k \in DOMAIN planned /\ both[k] = planned[k]
                                   \/ k - Len(planned) \in DOMAIN aside /\ both[k] = aside[k - Len(planned)]
        BY <3>2, <3>3
      <3> HIDE DEF both
      <3> QED
        BY <1>1, <3>2, <3>4 DEF CtxInv, Pending
    <2> HIDE DEF both
    <2>2. \A k \in DOMAIN both :
            CASE both[k].kind = "delegation" -> both[k].size \in Nat /\ both[k] = Delegated(both[k].size)
              [] both[k].kind = "compacted" -> EventOK(Append(log, both[k]), Len(log) + 1)
              [] OTHER -> FALSE
      BY <1>1, <2>1, PendingFits DEF CtxInv
    <2> QED
      BY <1>1, <2>2 DEF CtxInv, LogInv, Waits, Places, ContextTypeOK, both
  <1> QED
    BY <1>1, CtxInvHolds, PTL

\* No policy and no sizes let the planner page out the newest turn before a
\* request (compute_protection).
THEOREM NewestStaysWhole == ContextSpec => []NewestWhole
  <1>1. ASSUME CtxInv
        PROVE  NewestWhole
    <2>1. \A i \in Out(log) : TurnOf(log, i) < LastTurn(log)
      BY <1>1 DEF CtxInv, LogInv, OldOut, Out
    <2>2. LastTurn(log) \in Nat
      BY <1>1, LogShape, FS_CardinalityType DEF CtxInv, LogInv, LastTurn
    <2>3. \A i \in Ids(log, LastTurn(log)) : i \in Spoken(log) /\ i \notin Out(log)
      BY <2>1, <2>2 DEF Ids
    <2> QED
      BY <2>3 DEF NewestWhole, In
  <1> QED
    BY <1>1, CtxInvHolds, PTL

\* Of a turn that is partly out, only what a recall brought back is in.
THEOREM RecallAloneSplits == ContextSpec => []OnlyRecallSplits
  <1>1. ASSUME CtxInv
        PROVE  OnlyRecallSplits
    <2> SUFFICES ASSUME NEW t \in 1..LastTurn(log),
                        NEW i \in Ids(log, t) \cap Out(log),
                        NEW k \in Ids(log, t) \cap In(log)
                 PROVE  k \in UNION {log[j].ids : j \in OfKind(log, "readmitted")}
      BY DEF OnlyRecallSplits
    <2>1. PICK e \in OfKind(log, "evicted") : i \in log[e].ids
      BY DEF Out
    <2>2. Ids(log, t) \subseteq log[e].ids
      BY <1>1, <2>1 DEF CtxInv, LogInv, WholeOut, Ids
    <2>3. k \in Spoken(log) /\ k \notin Out(log) /\ k \in log[e].ids
      BY <2>2 DEF In
    <2>4. \E r \in OfKind(log, "readmitted") : k \in log[r].ids
      BY <2>1, <2>3 DEF Out
    <2> QED
      BY <2>4
  <1> QED
    BY <1>1, CtxInvHolds, PTL

\* A wave pages out whole turns of which nothing was out and nothing was brought
\* back fewer than MinProtectedTurns turns ago.
THEOREM WavesStayWhole == ContextSpec => WavesAreWhole
  <1>1. ASSUME CtxInv, [ContextNext]_ctxVars,
               NEW e \in OfKind(log', "evicted") \ DOMAIN log, NEW i \in log'[e].ids
        PROVE  /\ Ids(log, TurnOf(log, i)) \subseteq log'[e].ids \ Out(log)
               /\ \A j \in OfKind(log, "readmitted") :
                     i \in log[j].ids => LastTurn(log) - TurnOf(log, j) >= MinProtectedTurns
    <2>1. New(log, log'[e]) /\ log'[e].kind = "evicted" /\ log \in Seq(Events)
      BY <1>1, CtxStep DEF Step, OfKind, CtxInv, LogInv
    <2>2. PICK V : Chosen(log, V) /\ log'[e] = EvictionOf(log, V)
      BY <2>1, NewOfKind
    <2>3. log'[e].ids = UNION {Ids(log, t) : t \in V}
      BY <2>2, KindsOfNew DEF EvictionOf
    <2>4. PICK t \in V : i \in Ids(log, t)
      BY <2>3
    <2>5. TurnOf(log, i) = t /\ Ids(log, t) \cap Out(log) = {} /\ ~Cooling(log, t)
      BY <2>2, <2>4 DEF Chosen, Ids
    <2>6. Ids(log, TurnOf(log, i)) \subseteq log'[e].ids \ Out(log)
      BY <2>3, <2>5
    <2>7. ASSUME NEW j \in OfKind(log, "readmitted"), i \in log[j].ids
          PROVE  LastTurn(log) - TurnOf(log, j) >= MinProtectedTurns
      <3> DEFINE marks == {k \in OfKind(log, "readmitted") : i \in log[k].ids}
      <3>1. marks \subseteq 0..Len(log) /\ Len(log) \in Nat /\ j \in marks
        BY <2>1, <2>7, LogShape
      <3>2. ~(LastTurn(log) - TurnOf(log, Max(marks)) < MinProtectedTurns)
        BY <2>4, <2>5, <3>1 DEF Cooling
      <3> HIDE DEF marks
      <3>3. Max(marks) \in marks /\ j <= Max(marks)
        BY <3>1, BoundedMax
      <3>4. /\ TurnOf(log, j) \in Nat /\ TurnOf(log, Max(marks)) \in Nat /\ LastTurn(log) \in Nat
            /\ TurnOf(log, j) <= TurnOf(log, Max(marks))
        <4>0. \A x \in marks : x \in Nat
          BY <3>1
        <4>1. j \in Nat /\ Max(marks) \in Nat
          BY <3>1, <3>3, <4>0
        <4> QED
          BY <2>1, <3>3, <4>1, TurnBounds
      <3> QED
        BY <3>2, <3>4, ContextAssumption
    <2> QED
      BY <2>6, <2>7
  <1>2. CtxInv /\ [ContextNext]_ctxVars =>
          [\A e \in OfKind(log', "evicted") \ DOMAIN log :
             \A i \in log'[e].ids :
               /\ Ids(log, TurnOf(log, i)) \subseteq log'[e].ids \ Out(log)
               /\ \A j \in OfKind(log, "readmitted") :
                     i \in log[j].ids => LastTurn(log) - TurnOf(log, j) >= MinProtectedTurns]_ctxVars
    BY <1>1
  <1> QED
    BY <1>2, CtxInvHolds, PTL DEF ContextSpec, WavesAreWhole

-----------------------------------------------------------------------------
(* Texts: each delta that is in is of one of them.                          *)

LEMMA PlacesAreNat ==
    ASSUME NEW l, LogInv(l)
    PROVE  /\ Spoken(l) \subseteq 1..Len(l) /\ Len(l) \in Nat /\ IsFiniteSet(Spoken(l))
           /\ In(l) \subseteq Spoken(l) /\ IsFiniteSet(In(l))
           /\ Deltas(l) \subseteq In(l) /\ IsFiniteSet(Deltas(l))
           /\ Texts(l) \subseteq Deltas(l) /\ IsFiniteSet(Texts(l))
           /\ \A e : Text(l, e) \subseteq Deltas(l) /\ IsFiniteSet(Text(l, e))
           /\ Breaks(l) \subseteq In(l)
           /\ \A i \in Deltas(l) : i \in DOMAIN l /\ l[i].kind = "delta" /\ l[i].size \in Nat
  <1>1. Len(l) \in Nat /\ Spoken(l) \subseteq 1..Len(l) /\ IsFiniteSet(1..Len(l))
    BY LogShape, FS_Interval DEF LogInv
  <1>2. In(l) \subseteq Spoken(l) /\ Deltas(l) \subseteq In(l) /\ Breaks(l) \subseteq In(l)
        /\ Texts(l) \subseteq Deltas(l) /\ \A e : Text(l, e) \subseteq Deltas(l)
    BY DEF In, Deltas, Texts, Text, Breaks
  <1>3. /\ IsFiniteSet(Spoken(l)) /\ IsFiniteSet(In(l)) /\ IsFiniteSet(Deltas(l))
        /\ IsFiniteSet(Texts(l)) /\ \A e : IsFiniteSet(Text(l, e))
    <2>1. IsFiniteSet(Spoken(l))
      BY <1>1, FS_Subset
    <2>2. IsFiniteSet(In(l))
      BY <1>2, <2>1, FS_Subset
    <2>3. IsFiniteSet(Deltas(l))
      BY <1>2, <2>2, FS_Subset
    <2> QED
      BY <1>2, <2>1, <2>2, <2>3, FS_Subset
  <1>4. \A i \in Deltas(l) : i \in DOMAIN l /\ l[i].kind = "delta" /\ l[i].size \in Nat
    BY Sizes DEF Deltas, OfKind, LogInv
  <1> QED
    BY <1>1, <1>2, <1>3, <1>4

\* Two deltas of a text are not parted, and what is not parted from a delta of a
\* text, and not after it, is of the text.
LEMMA TextsPartition ==
    ASSUME NEW l, LogInv(l)
    PROVE  /\ \A d \in Deltas(l) : \E e \in Texts(l) : d \in Text(l, e)
           /\ \A d \in Texts(l), e \in Texts(l) :
                 \A x \in Text(l, d) : x \in Text(l, e) => d = e
  <1>1. /\ Deltas(l) \subseteq 0..Len(l) /\ Len(l) \in Nat /\ Breaks(l) \subseteq Nat
        /\ Texts(l) \subseteq Deltas(l) /\ \A e : Text(l, e) \subseteq Deltas(l)
    BY PlacesAreNat
  <1>2. ASSUME NEW d \in Deltas(l)
        PROVE  \E e \in Texts(l) : d \in Text(l, e)
    <2> DEFINE T == {e \in Deltas(l) : d \in Text(l, e)}
    <2>1. d \in T
      <3>1. \A b \in Breaks(l) : b # d /\ b \in Nat
        BY <1>1 DEF Breaks, Deltas, OfKind
      <3>2. \A b \in Breaks(l) : b < d \/ d < b
        BY <1>1, <3>1
      <3> QED
        BY <1>1, <3>2 DEF Text
    <2>2. T \subseteq 0..Len(l)
      BY <1>1
    <2> DEFINE e == Max(T)
    <2>3. e \in T /\ \A x \in T : x <= e
      BY <1>1, <2>1, <2>2, BoundedMax
    <2> HIDE DEF e
    <2>4. ASSUME NEW x \in Deltas(l), e \in Text(l, x)
          PROVE  x = e
      <3>1. x \in Nat /\ e \in Nat /\ d \in Nat /\ e \in Deltas(l)
        BY <1>1, <2>3
      <3>2. d <= e /\ e <= x /\ \A b \in Breaks(l) : (b < d \/ e < b) /\ (b < e \/ x < b)
        BY <2>3, <2>4 DEF Text
      <3>3. d <= x /\ \A b \in Breaks(l) : b < d \/ x < b
        BY <1>1, <3>1, <3>2
      <3>4. x \in T
        BY <3>3 DEF Text
      <3> QED
        BY <2>3, <3>1, <3>2, <3>4
    <2>5. e \in Texts(l)
      BY <2>3, <2>4 DEF Texts
    <2> QED
      BY <2>3, <2>5
  <1>3. ASSUME NEW d \in Texts(l), NEW e \in Texts(l), NEW x \in Text(l, d) \cap Text(l, e), d <= e
        PROVE  d = e
    <2>1. x \in Nat /\ d \in Nat /\ e \in Nat
      BY <1>1
    <2>2. x <= d /\ x <= e /\ \A b \in Breaks(l) : b < x \/ e < b
      BY DEF Text
    <2>3. \A b \in Breaks(l) : b < d \/ e < b
      BY <1>1, <2>1, <2>2
    <2>4. d \in Text(l, e)
      BY <1>1, <1>3, <2>3 DEF Text
    <2> QED
      BY <1>1, <2>4 DEF Texts
  <1>4. \A d \in Texts(l), e \in Texts(l) : \A x \in Text(l, d) : x \in Text(l, e) => d = e
    <2>1. Texts(l) \subseteq Nat
      BY <1>1
    <2> QED
      BY <1>3, <2>1
  <1> QED
    BY <1>1, <1>2, <1>4

-----------------------------------------------------------------------------
(* The window, event by event.                                              *)

\* What an event that is in adds to the window by itself.
Share(l, i) ==
    CASE l[i].kind \in {"user", "warning", "call"} -> Tokens(l[i].size)
      [] l[i].kind = "result" -> Tokens(Body(l, i))
      [] OTHER -> 0
Shares(l) == [i \in Spoken(l) |-> Share(l, i)]

LEMMA BodiesAreNat ==
    ASSUME NEW l, LogInv(l), NEW r \in OfKind(l, "result")
    PROVE  Body(l, r) \in Nat
  <1> DEFINE C == Compactions(l, l[r].ref)
  <1>1. C \subseteq OfKind(l, "compacted") /\ C \subseteq 0..Len(l) /\ Len(l) \in Nat
    BY LogShape DEF Compactions, LogInv
  <1>2. l[r].size \in Nat
    BY Results DEF LogInv
  <1>3. C # {} => Max(C) \in C
    <2> HIDE DEF C
    <2> QED
      BY <1>1, BoundedMax
  <1>4. C # {} => l[Max(C)].size \in Nat
    <2> HIDE DEF C
    <2> QED
      BY <1>1, <1>3, CompactionsAreOfCalls DEF LogInv
  <1> QED
    BY <1>2, <1>4 DEF Body

LEMMA SharesAreNat ==
    ASSUME NEW l, LogInv(l), NEW i \in Spoken(l)
    PROVE  /\ i \in DOMAIN l /\ l[i].kind \in Kinds \ {"compacted", "evicted", "readmitted"}
           /\ Shares(l)[i] = Share(l, i) /\ Share(l, i) \in Nat
  <1>1. i \in DOMAIN l /\ l[i].kind \in {"user", "warning", "delta", "call", "result",
                                        "asked", "answered", "delegation"}
    BY DEF Spoken
  <1>2. CASE l[i].kind = "result"
    <2>1. Body(l, i) \in Nat
      BY <1>1, <1>2, BodiesAreNat DEF OfKind
    <2> QED
      BY <1>1, <1>2, <2>1, TokensNat DEF Share, Shares, Kinds
  <1>3. CASE l[i].kind \in {"user", "warning", "call"}
    <2>1. l[i].size \in Nat
      BY <1>1, <1>3, Sizes DEF LogInv
    <2> QED
      BY <1>1, <1>3, <2>1, TokensNat DEF Share, Shares, Kinds
  <1> QED
    BY <1>1, <1>2, <1>3 DEF Share, Shares, Kinds

LEMMA ItemsAreOutputs ==
    ASSUME NEW l, LogInv(l), ~Reread(l)
    PROVE  Items(l, CallPath(l)) = OfKind(l, "result") \cap In(l)
  <1>1. ASSUME NEW q \in OfKind(l, "result"), NEW r \in OfKind(l, "result"),
               SameItem(CallPath(l), l[r].ref, l[q].ref)
        PROVE  q = r
    <2>1. l[r].ref \in OfKind(l, "call")
      BY Results DEF LogInv
    <2>2. l[r].ref = l[q].ref
      BY <1>1, <2>1, ItemIsOutput DEF LogInv
    <2> QED
      BY <2>2, Results DEF LogInv
  <1>2. \A r \in OfKind(l, "result") : r \in Nat
    BY LogShape DEF LogInv
  <1>3. \A q, r \in OfKind(l, "result") : SameItem(CallPath(l), l[r].ref, l[q].ref) => q <= r
    BY <1>1, <1>2
  <1> QED
    BY <1>3 DEF Items

LEMMA TextTokensNat ==
    ASSUME NEW l, LogInv(l)
    PROVE  /\ TextTokens(l) \in Nat
           /\ \A S : S \subseteq Deltas(l) => /\ IsFiniteSet(S) /\ Summed(l, S) \in Nat
                                              /\ Summed(l, S) = SumFunctionOnSet([i \in Spoken(l) |-> l[i].size], S)
  <1> DEFINE f == [i \in Spoken(l) |-> l[i].size]
  <1>1. \A i \in Deltas(l) : i \in Spoken(l) /\ f[i] = l[i].size /\ f[i] \in Nat
    BY PlacesAreNat
  <1>2. ASSUME NEW S, S \subseteq Deltas(l)
        PROVE  IsFiniteSet(S) /\ Summed(l, S) \in Nat /\ Summed(l, S) = SumFunctionOnSet(f, S)
    <2> DEFINE g == [i \in S |-> l[i].size]
    <2>1. IsFiniteSet(S)
      BY <1>2, PlacesAreNat, FS_Subset
    <2>2. \A i \in S : g[i] \in Nat /\ g[i] = f[i] /\ f[i] \in Nat
      BY <1>1, <1>2
    <2>3. Summed(l, S) = SumFunctionOnSet(g, S)
      BY DEF Summed, SumFunction
    <2> HIDE DEF f, g
    <2> QED
      BY <2>1, <2>2, <2>3, SumAgree, SumNat
  <1>3. TextTokens(l) \in Nat
    <2> DEFINE t == [e \in Texts(l) |-> Tokens(Summed(l, Text(l, e)))]
    <2>1. \A e \in Texts(l) : t[e] \in Nat
      BY <1>2, PlacesAreNat, TokensNat
    <2>2. TextTokens(l) = SumFunctionOnSet(t, Texts(l))
      BY DEF TextTokens, SumFunction
    <2> HIDE DEF t
    <2> QED
      BY <2>1, <2>2, PlacesAreNat, SumNat
  <1> QED
    BY <1>2, <1>3

LEMMA WindowOfShares ==
    ASSUME NEW l, LogInv(l), ~Reread(l)
    PROVE  /\ Window(l) = Overhead + SumFunctionOnSet(Shares(l), In(l)) + TextTokens(l)
           /\ SumFunctionOnSet(Shares(l), In(l)) \in Nat /\ Window(l) \in Nat
  <1> DEFINE path == CallPath(l)
             R == OfKind(l, "result") \cap In(l)
             P == Plain(l)
             I == In(l)
             f == Shares(l)
             plain == [i \in Plain(l) |-> Tokens(l[i].size)]
             items == [r \in Items(l, path) |-> ItemTokens(l, path, r)]
  <1>1. \A i \in I : i \in Spoken(l) /\ i \in DOMAIN l /\ f[i] = Share(l, i) /\ f[i] \in Nat
    BY PlacesAreNat, SharesAreNat
  <1>2. /\ P \subseteq I /\ R \subseteq I /\ P \cap R = {}
        /\ \A i \in P : l[i].kind \in {"user", "warning", "call"}
        /\ \A i \in R : l[i].kind = "result" /\ i \in OfKind(l, "result")
        /\ \A i \in I \ (P \cup R) : l[i].kind \notin {"user", "warning", "call", "result"}
    BY <1>1 DEF Plain, OfKind
  <1>3. SumFunction(plain) = SumFunctionOnSet(f, P)
    <2>1. SumFunction(plain) = SumFunctionOnSet(plain, P)
      BY DEF SumFunction
    <2>2. \A i \in P : plain[i] = f[i] /\ f[i] \in Nat
      BY <1>1, <1>2 DEF Share
    <2>3. IsFiniteSet(P)
      BY <1>2, PlacesAreNat, FS_Subset
    <2> HIDE DEF plain, f, P
    <2> QED
      BY <2>1, <2>2, <2>3, SumAgree
  <1>4. SumFunction(items) = SumFunctionOnSet(f, R)
    <2>1. Items(l, path) = R
      BY ItemsAreOutputs
    <2>2. SumFunction(items) = SumFunctionOnSet(items, R)
      BY <2>1 DEF SumFunction
    <2>3. \A r \in R : items[r] = f[r] /\ f[r] \in Nat
      <3> SUFFICES ASSUME NEW r \in R PROVE items[r] = f[r] /\ f[r] \in Nat
        OBVIOUS
      <3>1. items[r] = Tokens(Body(l, r))
        BY <1>2, <2>1, ItemTokensAreBody DEF LogInv
      <3> QED
        BY <1>1, <1>2, <3>1 DEF Share
    <2>4. IsFiniteSet(R)
      BY <1>2, PlacesAreNat, FS_Subset
    <2> HIDE DEF items, f, R
    <2> QED
      BY <2>2, <2>3, <2>4, SumAgree
  <1>5. \A i \in I \ (P \cup R) : f[i] = 0
    BY <1>1, <1>2 DEF Share
  <1>6. Window(l) = Overhead + SumFunction(plain) + TextTokens(l) + SumFunction(items)
    BY DEF Window
  <1>7. IsFiniteSet(I) /\ IsFiniteSet(P) /\ IsFiniteSet(R)
    BY <1>2, PlacesAreNat, FS_Subset
  <1>8. Overhead \in Nat /\ TextTokens(l) \in Nat
    BY ContextAssumption, TextTokensNat
  <1> HIDE DEF I, P, R, f, plain, items
  <1>9. SumFunctionOnSet(f, I) = SumFunctionOnSet(f, P \cup R)
    BY <1>1, <1>2, <1>5, <1>7, SumSupport
  <1>10. SumFunctionOnSet(f, P \cup R) = SumFunctionOnSet(f, P) + SumFunctionOnSet(f, R)
    BY <1>1, <1>2, <1>7, SumDisjoint
  <1>11. SumFunctionOnSet(f, P) \in Nat /\ SumFunctionOnSet(f, R) \in Nat
    BY <1>1, <1>2, <1>7, SumNat
  <1> QED
    BY <1>3, <1>4, <1>6, <1>8, <1>9, <1>10, <1>11 DEF I, f

-----------------------------------------------------------------------------
(* The window and the request.                                              *)

\* Tokens are thirds, each rounded up.
LEMMA SumRounded ==
    ASSUME NEW f, NEW g, NEW S, IsFiniteSet(S),
           \A x \in S : f[x] \in Nat /\ g[x] \in Nat /\ f[x] <= 3 * g[x] /\ 3 * g[x] <= f[x] + 2
    PROVE  /\ SumFunctionOnSet(f, S) <= 3 * SumFunctionOnSet(g, S)
           /\ 3 * SumFunctionOnSet(g, S) <= SumFunctionOnSet(f, S) + 2 * Cardinality(S)
  <1> DEFINE F == {T \in SUBSET S :
                     /\ SumFunctionOnSet(f, T) <= 3 * SumFunctionOnSet(g, T)
                     /\ 3 * SumFunctionOnSet(g, T) <= SumFunctionOnSet(f, T) + 2 * Cardinality(T)}
  <1>1. {} \in F
    BY SumEmpty, FS_EmptySet
  <1>2. ASSUME NEW T \in SUBSET S, T # {}, \A x \in T : T \ {x} \in F
        PROVE  T \in F
    <2>1. PICK y \in T : TRUE
      BY <1>2
    <2>2. /\ IsFiniteSet(T) /\ IsFiniteSet(T \ {y})
          /\ Cardinality(T \ {y}) \in Nat /\ Cardinality(T) = Cardinality(T \ {y}) + 1
      <3>1. IsFiniteSet(T)
        BY FS_Subset
      <3>2. IsFiniteSet(T \ {y}) /\ Cardinality(T \ {y}) = Cardinality(T) - 1
        BY <2>1, <3>1, FS_RemoveElement
      <3>3. Cardinality(T \ {y}) \in Nat /\ Cardinality(T) \in Nat
        BY <3>1, <3>2, FS_CardinalityType
      <3> QED
        BY <3>1, <3>2, <3>3
    <2>3. /\ SumFunctionOnSet(f, T) = f[y] + SumFunctionOnSet(f, T \ {y})
          /\ SumFunctionOnSet(g, T) = g[y] + SumFunctionOnSet(g, T \ {y})
      BY <2>2, SumRemove
    <2>4. SumFunctionOnSet(f, T \ {y}) \in Nat /\ SumFunctionOnSet(g, T \ {y}) \in Nat
      BY <2>2, SumNat
    <2>5. /\ SumFunctionOnSet(f, T \ {y}) <= 3 * SumFunctionOnSet(g, T \ {y})
          /\ 3 * SumFunctionOnSet(g, T \ {y})
                <= SumFunctionOnSet(f, T \ {y}) + 2 * Cardinality(T \ {y})
      BY <1>2
    <2>6. f[y] \in Nat /\ g[y] \in Nat /\ f[y] <= 3 * g[y] /\ 3 * g[y] <= f[y] + 2
      OBVIOUS
    <2>7. /\ SumFunctionOnSet(f, T) <= 3 * SumFunctionOnSet(g, T)
          /\ 3 * SumFunctionOnSet(g, T) <= SumFunctionOnSet(f, T) + 2 * Cardinality(T)
      BY <2>2, <2>3, <2>4, <2>5, <2>6
    <2> QED
      BY <2>7
  <1> HIDE DEF F
  <1>3. S \in F
    BY <1>1, <1>2, FiniteSetInduction
  <1> QED
    BY <1>3 DEF F

LEMMA TokensRound == \A n \in Nat : n <= 3 * Tokens(n) /\ 3 * Tokens(n) <= n + 2
  BY DEF Tokens

\* What the window counts of an event, in characters.
Counted(l, i) ==
    CASE l[i].kind \in {"user", "warning", "call", "delta"} -> l[i].size
      [] l[i].kind = "result" -> Body(l, i)
      [] OTHER -> 0
\* What it does not count, and what it counts of results that cards replace.
Uncount(l, i) ==
    CASE l[i].kind = "call" -> l[i].name
      [] l[i].kind = "delegation" -> l[i].size
      [] l[i].kind = "asked" -> Answer(l, l[i].ref)
      [] OTHER -> 0
Replace(l, i) ==
    IF l[i].kind = "result" /\ Cards(l, l[i].ref) # {} THEN Body(l, i) ELSE 0

LEMMA AnswerNat ==
    ASSUME NEW l, LogInv(l), NEW c
    PROVE  Answer(l, c) \in Nat
  <1> DEFINE A == {a \in OfKind(l, "answered") : l[a].ref = c}
  <1>1. A \subseteq 0..Len(l) /\ Len(l) \in Nat /\ A \subseteq OfKind(l, "answered")
    BY LogShape DEF LogInv
  <1>2. Answer(l, c) = IF A = {} THEN 0 ELSE l[Max(A)].size
    BY DEF Answer
  <1> HIDE DEF A
  <1>3. A # {} => Max(A) \in OfKind(l, "answered")
    BY <1>1, BoundedMax
  <1>4. \A a \in OfKind(l, "answered") : l[a].size \in Nat
    BY Sizes DEF OfKind, LogInv
  <1> QED
    BY <1>2, <1>3, <1>4

LEMMA EventCounts ==
    ASSUME NEW l, LogInv(l), NEW i \in In(l)
    PROVE  /\ Counted(l, i) \in Nat /\ Uncount(l, i) \in Nat /\ Replace(l, i) \in Nat
           /\ Carried(l, i) \in Nat
           /\ Carried(l, i) + Replace(l, i) = Counted(l, i) + Uncount(l, i)
           /\ i \notin Deltas(l) => /\ Counted(l, i) <= 3 * Share(l, i)
                                    /\ 3 * Share(l, i) <= Counted(l, i) + 2
           /\ i \in Deltas(l) => Counted(l, i) = l[i].size /\ Share(l, i) = 0
  <1>1. /\ i \in Spoken(l) /\ i \in DOMAIN l
        /\ l[i].kind \in Kinds \ {"compacted", "evicted", "readmitted"}
        /\ i \in Deltas(l) <=> l[i].kind = "delta"
    BY PlacesAreNat, SharesAreNat DEF Deltas, OfKind
  <1>2. /\ l[i].kind \in {"user", "warning", "delta", "call", "result", "answered", "delegation"}
              => l[i].size \in Nat
        /\ l[i].kind = "call" => l[i].name \in Nat
        /\ Answer(l, l[i].ref) \in Nat
    BY <1>1, Sizes, AnswerNat DEF LogInv
  <1>3. l[i].kind = "result" => Body(l, i) \in Nat
    BY <1>1, BodiesAreNat DEF OfKind
  <1>4. CASE l[i].kind \in {"user", "warning"}
    BY <1>1, <1>2, <1>4, TokensRound DEF Counted, Uncount, Replace, Carried, Share
  <1>5. CASE l[i].kind = "call"
    BY <1>1, <1>2, <1>5, TokensRound DEF Counted, Uncount, Replace, Carried, Share
  <1>6. CASE l[i].kind = "delta"
    BY <1>1, <1>2, <1>6 DEF Counted, Uncount, Replace, Carried, Share
  <1>7. CASE l[i].kind = "result"
    BY <1>1, <1>3, <1>7, TokensRound DEF Counted, Uncount, Replace, Carried, Share
  <1>8. CASE l[i].kind \in {"asked", "answered", "delegation"}
    BY <1>1, <1>2, <1>8 DEF Counted, Uncount, Replace, Carried, Share
  <1> QED
    BY <1>1, <1>4, <1>5, <1>6, <1>7, <1>8 DEF Kinds

LEMMA WindowOfRequest ==
    ASSUME NEW l, LogInv(l), ~Reread(l)
    PROVE  /\ RequestSize(l) + Replaced(l) <= 3 * (Window(l) - Overhead) + Uncounted(l)
           /\ 3 * (Window(l) - Overhead) + Uncounted(l)
                 <= RequestSize(l) + Replaced(l) + 2 * Cardinality(In(l))
  <1> DEFINE I == In(l)
             D == Deltas(l)
             R == I \ D
             X == {r \in OfKind(l, "result") \cap In(l) : Cards(l, l[r].ref) # {}}
             counted == [i \in I |-> Counted(l, i)]
             carried == [i \in I |-> Carried(l, i)]
             uncount == [i \in I |-> Uncount(l, i)]
             replace == [i \in I |-> Replace(l, i)]
             both == [i \in I |-> Carried(l, i) + Replace(l, i)]
             share == Shares(l)
             replaced == [r \in X |-> Body(l, r)]
             text == [e \in Texts(l) |-> Summed(l, Text(l, e))]
             tokens == [e \in Texts(l) |-> Tokens(Summed(l, Text(l, e)))]
             size == [i \in Spoken(l) |-> l[i].size]
             part == [e \in Texts(l) |-> Text(l, e)]
             T == Texts(l)
  <1>1. /\ IsFiniteSet(I) /\ IsFiniteSet(D) /\ D \subseteq I /\ IsFiniteSet(R) /\ I = R \cup D
        /\ R \cap D = {} /\ T \subseteq D /\ IsFiniteSet(T)
    BY PlacesAreNat, FS_Subset
  <1>2. \A i \in I : /\ counted[i] \in Nat /\ uncount[i] \in Nat /\ replace[i] \in Nat
                     /\ carried[i] \in Nat /\ both[i] = carried[i] + replace[i]
                     /\ both[i] = counted[i] + uncount[i]
    BY EventCounts
  <1>3. \A i \in I : share[i] = Share(l, i) /\ share[i] \in Nat
    BY PlacesAreNat, SharesAreNat
  <1>4. RequestSize(l) = SumFunctionOnSet(carried, I)
    BY DEF RequestSize, SumFunction
  <1>5. Uncounted(l) = SumFunctionOnSet(uncount, I)
    BY DEF Uncounted, SumFunction, Uncount
  <1>6. Replaced(l) = SumFunctionOnSet(replace, I)
    <2>1. Replaced(l) = SumFunctionOnSet(replaced, X)
      BY DEF Replaced, SumFunction
    <2>2. X \subseteq I /\ IsFiniteSet(X)
      BY <1>1, FS_Subset
    <2>3. \A r \in X : replaced[r] = replace[r] /\ replace[r] \in Nat
      BY <1>2, <2>2 DEF Replace, OfKind
    <2>4. \A r \in I \ X : replace[r] = 0
      <3>1. \A r \in I : r \in DOMAIN l
        BY PlacesAreNat, SharesAreNat
      <3> QED
        BY <3>1 DEF Replace, OfKind
    <2> HIDE DEF replaced, replace, X, I
    <2>5. SumFunctionOnSet(replaced, X) = SumFunctionOnSet(replace, X)
      BY <2>2, <2>3, SumAgree
    <2>6. SumFunctionOnSet(replace, I) = SumFunctionOnSet(replace, X)
      BY <1>1, <1>2, <2>2, <2>4, SumSupport
    <2> QED
      BY <2>1, <2>5, <2>6
  <1>7. SumFunctionOnSet(share, I) = SumFunctionOnSet(share, R)
    <2>1. \A i \in I \ R : share[i] = 0
      BY <1>3, EventCounts
    <2> HIDE DEF share, I, R, D
    <2> QED
      BY <1>1, <1>3, <2>1, SumSupport
  <1>8. /\ SumFunctionOnSet(counted, R) <= 3 * SumFunctionOnSet(share, R)
        /\ 3 * SumFunctionOnSet(share, R) <= SumFunctionOnSet(counted, R) + 2 * Cardinality(R)
    <2>1. \A i \in R : /\ counted[i] \in Nat /\ share[i] \in Nat
                       /\ counted[i] <= 3 * share[i] /\ 3 * share[i] <= counted[i] + 2
      BY <1>2, <1>3, EventCounts
    <2> HIDE DEF share, counted, R
    <2> QED
      BY <1>1, <2>1, SumRounded
  <1>9. /\ \A e \in T : text[e] \in Nat /\ tokens[e] \in Nat
                        /\ text[e] <= 3 * tokens[e] /\ 3 * tokens[e] <= text[e] + 2
        /\ TextTokens(l) = SumFunctionOnSet(tokens, T)
    <2>1. \A e \in T : Summed(l, Text(l, e)) \in Nat
      BY PlacesAreNat, TextTokensNat
    <2>2. \A e \in T : tokens[e] = Tokens(text[e]) /\ text[e] \in Nat
      BY <2>1
    <2>3. TextTokens(l) = SumFunctionOnSet(tokens, T)
      BY DEF TextTokens, SumFunction
    <2> HIDE DEF tokens, text
    <2> QED
      BY <2>2, <2>3, TokensRound, TokensNat
  <1>10. SumFunctionOnSet(text, T) = SumFunctionOnSet(counted, D)
    <2>1. \A x \in D : size[x] \in Nat /\ size[x] = counted[x] /\ \E e \in T : x \in part[e]
      <3>1. \A x \in D : \E e \in T : x \in Text(l, e)
        BY TextsPartition
      <3> QED
        BY <3>1, PlacesAreNat, EventCounts
    <2>2. \A d \in T, e \in T : \A x \in part[d] : x \in part[e] => d = e
      BY TextsPartition
    <2>3. \A e \in T : /\ IsFiniteSet(part[e]) /\ part[e] \subseteq D
                       /\ text[e] = SumFunctionOnSet(size, part[e])
      <3>1. \A e \in T : Summed(l, Text(l, e)) = SumFunctionOnSet(size, Text(l, e))
        BY PlacesAreNat, TextTokensNat
      <3> QED
        BY <3>1, PlacesAreNat
    <2> HIDE DEF text, part, size, counted, D, T
    <2>6. SumFunctionOnSet(text, T) = SumFunctionOnSet(size, D)
      <3>1. Splits(part, T, D)
        BY <2>1, <2>2, <2>3 DEF Splits
      <3> QED
        BY <1>1, <2>1, <2>3, <3>1, SumOfParts
    <2>7. SumFunctionOnSet(size, D) = SumFunctionOnSet(counted, D)
      BY <1>1, <2>1, SumAgree
    <2> QED
      BY <2>6, <2>7
  <1>11. Cardinality(R) \in Nat /\ Cardinality(T) \in Nat
         /\ Cardinality(R) + Cardinality(T) <= Cardinality(I)
    <2>1. IsFiniteSet(R \cup T) /\ Cardinality(R \cup T) = Cardinality(R) + Cardinality(T)
      <3>1. R \cap T = {}
        BY <1>1
      <3> HIDE DEF R, T
      <3> QED
        BY <1>1, <3>1, FS_Union, FS_CardinalityType, FS_EmptySet
    <2>2. Cardinality(R \cup T) <= Cardinality(I)
      <3>1. R \cup T \subseteq I
        BY <1>1
      <3> HIDE DEF R, T, I
      <3> QED
        BY <1>1, <3>1, FS_Subset
    <2> QED
      BY <1>1, <2>1, <2>2, FS_CardinalityType
  <1>12. /\ Window(l) = Overhead + SumFunctionOnSet(share, I) + TextTokens(l)
         /\ SumFunctionOnSet(share, I) \in Nat /\ TextTokens(l) \in Nat /\ Overhead \in Nat
    BY WindowOfShares, TextTokensNat, ContextAssumption
  <1> HIDE DEF I, D, R, X, T, counted, carried, uncount, replace, both, share, replaced, text,
               tokens, size, part
  <1>13. /\ SumFunctionOnSet(text, T) <= 3 * TextTokens(l)
         /\ 3 * TextTokens(l) <= SumFunctionOnSet(text, T) + 2 * Cardinality(T)
    BY <1>1, <1>9, SumRounded
  <1>14. SumFunctionOnSet(both, I) = SumFunctionOnSet(carried, I) + SumFunctionOnSet(replace, I)
    BY <1>1, <1>2, SumPlus
  <1>15. SumFunctionOnSet(both, I) = SumFunctionOnSet(counted, I) + SumFunctionOnSet(uncount, I)
    BY <1>1, <1>2, SumPlus
  <1>16. SumFunctionOnSet(counted, R \cup D) = SumFunctionOnSet(counted, R) + SumFunctionOnSet(counted, D)
    BY <1>1, <1>2, SumDisjoint
  <1>17. /\ SumFunctionOnSet(counted, R) \in Nat /\ SumFunctionOnSet(counted, D) \in Nat
         /\ SumFunctionOnSet(uncount, I) \in Nat /\ SumFunctionOnSet(carried, I) \in Nat
         /\ SumFunctionOnSet(replace, I) \in Nat
    BY <1>1, <1>2, SumNat
  <1>18. Cardinality(I) \in Nat
    BY <1>1, FS_CardinalityType
  <1> QED
    BY <1>1, <1>4, <1>5, <1>6, <1>7, <1>8, <1>10, <1>11, <1>12, <1>13, <1>14, <1>15, <1>16, <1>17,
       <1>18 DEF I

\* The window counts what the request carries, up to a token for each event, but
\* for the names of calls, the reports of subagents and the cards, as long as no
\* file was read twice: context_window_with, which makes items and joins texts,
\* against conversation_for_branch, for any log the agent writes.
THEOREM WindowIsRequestHolds == ContextSpec => []WindowIsRequest
  <1>1. CtxInv => WindowIsRequest
    <2> SUFFICES ASSUME CtxInv, ~Reread(log) PROVE WindowIsRequest
      BY DEF WindowIsRequest
    <2>1. LogInv(log)
      BY DEF CtxInv
    <2> QED
      BY <2>1, WindowOfRequest DEF WindowIsRequest
  <1> QED
    BY <1>1, CtxInvHolds, PTL

-----------------------------------------------------------------------------
(* What eviction does to texts: it shortens and joins them.                 *)

\* Rounding each term apart gives no less than rounding the sum.
LEMMA TokensOfSum ==
    ASSUME NEW f, NEW t, NEW S, IsFiniteSet(S), \A x \in S : f[x] \in Nat /\ t[x] = Tokens(f[x])
    PROVE  Tokens(SumFunctionOnSet(f, S)) <= SumFunctionOnSet(t, S)
  <1> DEFINE F == {T \in SUBSET S : Tokens(SumFunctionOnSet(f, T)) <= SumFunctionOnSet(t, T)}
  <1>1. {} \in F
    BY SumEmpty DEF Tokens
  <1>2. \A x \in S : t[x] \in Nat
    BY TokensNat
  <1>3. ASSUME NEW T \in SUBSET S, T # {}, \A x \in T : T \ {x} \in F
        PROVE  T \in F
    <2>1. PICK y \in T : TRUE
      BY <1>3
    <2> DEFINE a == SumFunctionOnSet(f, T \ {y})
               b == SumFunctionOnSet(t, T \ {y})
    <2>2. IsFiniteSet(T) /\ IsFiniteSet(T \ {y}) /\ y \in S
      BY FS_Subset
    <2>3. SumFunctionOnSet(f, T) = f[y] + a /\ SumFunctionOnSet(t, T) = t[y] + b
      BY <1>2, <2>2, SumRemove
    <2>4. a \in Nat /\ b \in Nat /\ f[y] \in Nat /\ t[y] \in Nat /\ t[y] = Tokens(f[y])
      BY <1>2, <2>2, SumNat
    <2>5. Tokens(a) <= b
      BY <1>3
    <2> HIDE DEF a, b
    <2>6. Tokens(f[y] + a) <= Tokens(f[y]) + Tokens(a) /\ Tokens(f[y] + a) \in Nat /\ Tokens(a) \in Nat
      BY <2>4 DEF Tokens
    <2> QED
      BY <2>3, <2>4, <2>5, <2>6
  <1> HIDE DEF F
  <1>4. S \in F
    BY <1>1, <1>3, FiniteSetInduction
  <1> QED
    BY <1>4 DEF F

\* What is taken out of a text weighs no more than what the text loses, but for a
\* token for each delta.
LEMMA TextLoses ==
    ASSUME NEW f, NEW t, NEW one, NEW S, IsFiniteSet(S),
           \A x \in S : f[x] \in Nat /\ t[x] = Tokens(f[x]) /\ one[x] = 1,
           NEW X, X \subseteq S
    PROVE  Tokens(SumFunctionOnSet(f, S \ X)) + SumFunctionOnSet(t, X)
              <= Tokens(SumFunctionOnSet(f, S)) + SumFunctionOnSet(one, X)
  <1> DEFINE F == {Y \in SUBSET X :
                     Tokens(SumFunctionOnSet(f, S \ Y)) + SumFunctionOnSet(t, Y)
                        <= Tokens(SumFunctionOnSet(f, S)) + SumFunctionOnSet(one, Y)}
  <1>1. \A x \in S : t[x] \in Nat /\ one[x] \in Nat /\ f[x] \in Nat
    BY TokensNat
  <1>2. {} \in F
    <2>1. S \ {} = S /\ SumFunctionOnSet(f, S) \in Nat
      BY <1>1, SumNat
    <2>2. Tokens(SumFunctionOnSet(f, S)) \in Nat
      BY <2>1, TokensNat
    <2> QED
      BY <2>1, <2>2, SumEmpty
  <1>3. ASSUME NEW Y \in SUBSET X, Y # {}, \A x \in Y : Y \ {x} \in F
        PROVE  Y \in F
    <2>1. PICK y \in Y : TRUE
      BY <1>3
    <2> DEFINE Z == Y \ {y}
               a == SumFunctionOnSet(f, S \ Y)
               b == SumFunctionOnSet(t, Z)
               c == SumFunctionOnSet(one, Z)
               d == SumFunctionOnSet(f, S)
    <2>2. /\ IsFiniteSet(Y) /\ IsFiniteSet(Z) /\ IsFiniteSet(S \ Y) /\ IsFiniteSet(S \ Z)
          /\ y \in S /\ Y \subseteq S /\ Z \subseteq S
      BY FS_Subset
    <2>3. SumFunctionOnSet(t, Y) = t[y] + b /\ SumFunctionOnSet(one, Y) = one[y] + c
      BY <1>1, <2>2, SumRemove
    <2>4. SumFunctionOnSet(f, S \ Z) = f[y] + a
      <3>1. y \in S \ Z /\ (S \ Z) \ {y} = S \ Y /\ \A x \in S \ Z : f[x] \in Nat
        BY <1>1, <2>2
      <3> QED
        BY <2>2, <3>1, SumRemove
    <2>5. a \in Nat /\ b \in Nat /\ c \in Nat /\ d \in Nat /\ f[y] \in Nat
          /\ t[y] = Tokens(f[y]) /\ one[y] = 1
      BY <1>1, <2>2, SumNat
    <2>6. Tokens(SumFunctionOnSet(f, S \ Z)) + b <= Tokens(d) + c
      BY <1>3, <2>1
    <2> HIDE DEF a, b, c, d, Z
    <2>7. /\ Tokens(f[y]) + Tokens(a) <= Tokens(f[y] + a) + 1
          /\ Tokens(f[y] + a) \in Nat /\ Tokens(a) \in Nat /\ Tokens(f[y]) \in Nat /\ Tokens(d) \in Nat
      BY <2>5 DEF Tokens
    <2>8. Tokens(a) + (t[y] + b) <= Tokens(d) + (one[y] + c)
      BY <2>4, <2>5, <2>6, <2>7
    <2> QED
      BY <2>3, <2>8 DEF a, d
  <1> HIDE DEF F
  <1>4. X \in F
    BY <1>2, <1>3, FS_Subset, FiniteSetInduction
  <1> QED
    BY <1>4 DEF F

\* With fewer deltas and fewer breaks, what is left of a text is of one text.
LEMMA TextsStay ==
    ASSUME NEW l, LogInv(l), NEW m, LogInv(m),
           Deltas(m) \subseteq Deltas(l), Breaks(m) \subseteq Breaks(l),
           NEW e \in Texts(l), NEW x \in Texts(m),
           NEW d \in Text(l, e) \cap Text(m, x), NEW c \in Text(l, e) \cap Deltas(m)
    PROVE  c \in Text(m, x)
  <1>1. {c, d, e, x} \subseteq Nat /\ Breaks(l) \subseteq Nat /\ x \in Deltas(m)
    <2>1. /\ Deltas(l) \subseteq Nat /\ Breaks(l) \subseteq Nat
          /\ Texts(l) \subseteq Deltas(l) /\ Texts(m) \subseteq Deltas(m)
          /\ Text(l, e) \subseteq Deltas(l)
      BY PlacesAreNat
    <2> QED
      BY <2>1
  <1>2. /\ d <= e /\ c <= e /\ \A b \in Breaks(l) : (b < d \/ e < b) /\ (b < c \/ e < b)
        /\ d <= x /\ \A b \in Breaks(m) : b < d \/ x < b
    BY DEF Text
  <1>3. c <= x
    <2> SUFFICES ASSUME x < c PROVE FALSE
      BY <1>1
    <2>1. \A b \in Breaks(m) : b < x \/ c < b
      BY <1>1, <1>2
    <2>2. x \in Text(m, c)
      BY <1>1, <2>1 DEF Text
    <2> QED
      BY <1>1, <2>2 DEF Texts
  <1>4. \A b \in Breaks(m) : b < c \/ x < b
    BY <1>1, <1>2
  <1> QED
    BY <1>3, <1>4 DEF Text

LEMMA TextsShrink ==
    ASSUME NEW l, LogInv(l), NEW m, LogInv(m),
           Deltas(m) \subseteq Deltas(l), Breaks(m) \subseteq Breaks(l),
           \A i \in Deltas(m) : m[i] = l[i],
           NEW t, NEW one,
           \A i \in Deltas(l) : t[i] = Tokens(l[i].size) /\ one[i] = 1
    PROVE  TextTokens(m) + SumFunctionOnSet(t, Deltas(l) \ Deltas(m))
              <= TextTokens(l) + SumFunctionOnSet(one, Deltas(l) \ Deltas(m))
  <1> DEFINE T == Texts(l)
             X == Texts(m)
             gone == Deltas(l) \ Deltas(m)
             size == [i \in Spoken(l) |-> l[i].size]
             kept == [e \in T |-> Text(l, e) \cap Deltas(m)]
             lost == [e \in T |-> Text(l, e) \ Deltas(m)]
             texts == [e \in T |-> Tokens(Summed(l, Text(l, e)))]
             left == [e \in T |-> SumFunctionOnSet(size, kept[e])]
             leftTokens == [e \in T |-> Tokens(left[e])]
             lostTokens == [e \in T |-> SumFunctionOnSet(t, lost[e])]
             losts == [e \in T |-> SumFunctionOnSet(one, lost[e])]
             home == [x \in X |-> {e \in T : kept[e] # {} /\ kept[e] \subseteq Text(m, x)}]
             new == [x \in X |-> Tokens(Summed(m, Text(m, x)))]
             homeTokens == [x \in X |-> SumFunctionOnSet(leftTokens, home[x])]
  <1>1. /\ IsFiniteSet(T) /\ IsFiniteSet(X) /\ IsFiniteSet(gone) /\ IsFiniteSet(Deltas(l))
        /\ T \subseteq Deltas(l) /\ X \subseteq Deltas(m)
        /\ \A e : Text(l, e) \subseteq Deltas(l) /\ IsFiniteSet(Text(l, e))
        /\ \A e : Text(m, e) \subseteq Deltas(m) /\ IsFiniteSet(Text(m, e))
    BY PlacesAreNat, FS_Subset
  <1>2. \A i \in Deltas(l) : /\ size[i] = l[i].size /\ size[i] \in Nat
                             /\ t[i] = Tokens(size[i]) /\ t[i] \in Nat /\ one[i] = 1 /\ one[i] \in Nat
    <2>1. \A i \in Deltas(l) : i \in Spoken(l) /\ l[i].size \in Nat
      BY PlacesAreNat
    <2>2. \A i \in Deltas(l) : size[i] = l[i].size
      BY <2>1
    <2> HIDE DEF size
    <2> QED
      BY <2>1, <2>2, TokensNat
  <1>3. \A e \in T : /\ kept[e] = Text(l, e) \cap Deltas(m) /\ lost[e] = Text(l, e) \ Deltas(m)
                     /\ kept[e] = Text(l, e) \ lost[e] /\ lost[e] \subseteq Text(l, e)
                     /\ kept[e] \subseteq Deltas(l) /\ lost[e] \subseteq gone
                     /\ IsFiniteSet(kept[e]) /\ IsFiniteSet(lost[e])
    BY <1>1, FS_Subset
  <1>4. /\ TextTokens(l) = SumFunctionOnSet(texts, T)
        /\ TextTokens(m) = SumFunctionOnSet(new, X)
    BY DEF TextTokens, SumFunction
  <1>5. \A e \in T : texts[e] = Tokens(SumFunctionOnSet(size, Text(l, e)))
    <2>1. \A e \in T : Summed(l, Text(l, e)) = SumFunctionOnSet(size, Text(l, e))
      BY <1>1, TextTokensNat
    <2> QED
      BY <2>1
  <1>6. /\ \A e \in T : /\ left[e] = SumFunctionOnSet(size, kept[e]) /\ left[e] \in Nat
                        /\ leftTokens[e] = Tokens(left[e]) /\ leftTokens[e] \in Nat
                        /\ lostTokens[e] = SumFunctionOnSet(t, lost[e]) /\ lostTokens[e] \in Nat
                        /\ losts[e] = SumFunctionOnSet(one, lost[e]) /\ losts[e] \in Nat
                        /\ texts[e] \in Nat
                        /\ leftTokens[e] + lostTokens[e] <= texts[e] + losts[e]
    <2> SUFFICES ASSUME NEW e \in T
                 PROVE  /\ left[e] = SumFunctionOnSet(size, kept[e]) /\ left[e] \in Nat
                        /\ leftTokens[e] = Tokens(left[e]) /\ leftTokens[e] \in Nat
                        /\ lostTokens[e] = SumFunctionOnSet(t, lost[e]) /\ lostTokens[e] \in Nat
                        /\ losts[e] = SumFunctionOnSet(one, lost[e]) /\ losts[e] \in Nat
                        /\ texts[e] \in Nat
                        /\ leftTokens[e] + lostTokens[e] <= texts[e] + losts[e]
      OBVIOUS
    <2>1. /\ left[e] = SumFunctionOnSet(size, kept[e])
          /\ leftTokens[e] = Tokens(left[e])
          /\ lostTokens[e] = SumFunctionOnSet(t, lost[e])
          /\ losts[e] = SumFunctionOnSet(one, lost[e])
      OBVIOUS
    <2> HIDE DEF left, leftTokens, lostTokens, losts, texts, kept, lost, size, gone, T
    <2>2. /\ SumFunctionOnSet(size, kept[e]) \in Nat /\ SumFunctionOnSet(size, Text(l, e)) \in Nat
          /\ SumFunctionOnSet(t, lost[e]) \in Nat /\ SumFunctionOnSet(one, lost[e]) \in Nat
      <3>1. /\ \A i \in kept[e] : size[i] \in Nat
            /\ \A i \in Text(l, e) : size[i] \in Nat
            /\ \A i \in lost[e] : t[i] \in Nat /\ one[i] \in Nat
        BY <1>1, <1>2, <1>3
      <3> QED
        BY <1>1, <1>3, <3>1, SumNat
    <2>3. Tokens(SumFunctionOnSet(size, Text(l, e) \ lost[e])) + SumFunctionOnSet(t, lost[e])
            <= Tokens(SumFunctionOnSet(size, Text(l, e))) + SumFunctionOnSet(one, lost[e])
      <3>1. \A i \in Text(l, e) : size[i] \in Nat /\ t[i] = Tokens(size[i]) /\ one[i] = 1
        BY <1>1, <1>2
      <3> QED
        BY <1>1, <1>3, <3>1, TextLoses
    <2>4. kept[e] = Text(l, e) \ lost[e] /\ texts[e] = Tokens(SumFunctionOnSet(size, Text(l, e)))
      BY <1>3, <1>5
    <2> QED
      BY <2>1, <2>2, <2>3, <2>4, TokensNat
  <1>7. /\ SumFunctionOnSet(lostTokens, T) = SumFunctionOnSet(t, gone)
        /\ SumFunctionOnSet(losts, T) = SumFunctionOnSet(one, gone)
    <2>1. Splits(lost, T, gone)
      <3>1. \A d \in T, e \in T : \A i \in lost[d] : i \in lost[e] => d = e
        BY <1>3, TextsPartition
      <3>2. \A i \in gone : \E e \in T : i \in lost[e]
        BY <1>3, TextsPartition
      <3> HIDE DEF lost, gone, T
      <3> QED
        BY <1>3, <3>1, <3>2 DEF Splits
    <2>2. \A i \in gone : t[i] \in Nat /\ one[i] \in Nat
      BY <1>2
    <2>3. \A e \in T : /\ lostTokens[e] = SumFunctionOnSet(t, lost[e])
                       /\ losts[e] = SumFunctionOnSet(one, lost[e])
      BY <1>6
    <2> HIDE DEF lost, gone, T, lostTokens, losts, left, leftTokens, texts
    <2>4. SumFunctionOnSet(lostTokens, T) = SumFunctionOnSet(t, gone)
      BY <1>1, <2>1, <2>2, <2>3, SumOfParts
    <2>5. SumFunctionOnSet(losts, T) = SumFunctionOnSet(one, gone)
      BY <1>1, <2>1, <2>2, <2>3, SumOfParts
    <2> QED
      BY <2>4, <2>5
  <1>8. /\ \A x \in X : home[x] \subseteq T /\ IsFiniteSet(home[x])
        /\ \A x \in X : Splits(kept, home[x], Text(m, x))
    <2> SUFFICES ASSUME NEW x \in X
                 PROVE  home[x] \subseteq T /\ IsFiniteSet(home[x]) /\ Splits(kept, home[x], Text(m, x))
      OBVIOUS
    <2>1. home[x] = {e \in T : kept[e] # {} /\ kept[e] \subseteq Text(m, x)}
      OBVIOUS
    <2> HIDE DEF home
    <2>2. home[x] \subseteq T /\ IsFiniteSet(home[x])
      BY <1>1, <2>1, FS_Subset
    <2>3. \A d \in home[x], e \in home[x] : \A i \in kept[d] : i \in kept[e] => d = e
      BY <1>3, <2>1, TextsPartition
    <2>4. ASSUME NEW d \in Text(m, x)
          PROVE  \E e \in home[x] : d \in kept[e]
      <3>1. d \in Deltas(m) /\ d \in Deltas(l)
        BY <1>1
      <3>2. PICK e \in T : d \in Text(l, e)
        BY <3>1, TextsPartition
      <3>3. d \in kept[e]
        BY <1>3, <3>1, <3>2
      <3>4. kept[e] \subseteq Text(m, x)
        BY <1>3, <3>2, TextsStay
      <3> QED
        BY <2>1, <3>3, <3>4
    <2> QED
      BY <1>3, <2>1, <2>2, <2>3, <2>4 DEF Splits
  <1>9. \A x \in X : /\ new[x] <= homeTokens[x] /\ new[x] \in Nat
                     /\ homeTokens[x] = SumFunctionOnSet(leftTokens, home[x]) /\ homeTokens[x] \in Nat
    <2> SUFFICES ASSUME NEW x \in X
                 PROVE  /\ new[x] <= homeTokens[x] /\ new[x] \in Nat
                        /\ homeTokens[x] = SumFunctionOnSet(leftTokens, home[x]) /\ homeTokens[x] \in Nat
      OBVIOUS
    <2>1. /\ new[x] = Tokens(Summed(m, Text(m, x)))
          /\ homeTokens[x] = SumFunctionOnSet(leftTokens, home[x])
      OBVIOUS
    <2>2. Summed(m, Text(m, x)) = SumFunctionOnSet(size, Text(m, x))
          /\ SumFunctionOnSet(size, Text(m, x)) \in Nat
      <3> DEFINE sizes == [i \in Spoken(m) |-> m[i].size]
                 P == Text(m, x)
      <3>1. Summed(m, P) = SumFunctionOnSet(sizes, P)
        BY <1>1, TextTokensNat
      <3>2. \A i \in P : sizes[i] = size[i] /\ sizes[i] \in Nat
        <4>1. \A i \in P : i \in Spoken(m) /\ m[i] = l[i] /\ i \in Deltas(l)
          BY <1>1, PlacesAreNat
        <4> QED
          BY <1>2, <4>1
      <3>3. IsFiniteSet(P)
        BY <1>1
      <3> HIDE DEF sizes, size, P
      <3>4. SumFunctionOnSet(sizes, P) = SumFunctionOnSet(size, P) /\ SumFunctionOnSet(sizes, P) \in Nat
        BY <3>2, <3>3, SumAgree, SumNat
      <3> QED
        BY <3>1, <3>4 DEF P
    <2> HIDE DEF new, homeTokens, home, left, leftTokens, size, kept, T
    <2>3. SumFunctionOnSet(left, home[x]) = SumFunctionOnSet(size, Text(m, x))
      <3>1. \A e \in home[x] : left[e] = SumFunctionOnSet(size, kept[e])
        BY <1>6, <1>8
      <3>2. \A i \in Text(m, x) : size[i] \in Nat
        BY <1>1, <1>2
      <3> QED
        BY <1>8, <3>1, <3>2, SumOfParts
    <2>4. Tokens(SumFunctionOnSet(left, home[x])) <= SumFunctionOnSet(leftTokens, home[x])
      BY <1>6, <1>8, TokensOfSum
    <2>5. SumFunctionOnSet(leftTokens, home[x]) \in Nat
      BY <1>6, <1>8, SumNat
    <2> QED
      BY <2>1, <2>2, <2>3, <2>4, <2>5, TokensNat
  <1>10. SumFunctionOnSet(new, X) <= SumFunctionOnSet(leftTokens, T)
    <2> DEFINE some == {e \in T : kept[e] # {}}
    <2>1. Splits(home, X, some)
      <3>1. \A x \in X : IsFiniteSet(home[x]) /\ home[x] \subseteq some
        BY <1>8
      <3>2. ASSUME NEW x \in X, NEW y \in X, NEW e \in home[x], e \in home[y]
            PROVE  x = y
        <4>1. kept[e] # {} /\ kept[e] \subseteq Text(m, x) /\ kept[e] \subseteq Text(m, y)
          BY <3>2
        <4> QED
          BY <4>1, TextsPartition
      <3>3. ASSUME NEW e \in some
            PROVE  \E x \in X : e \in home[x]
        <4>1. e \in T /\ kept[e] # {}
          OBVIOUS
        <4>2. PICK d \in kept[e] : TRUE
          BY <4>1
        <4>3. d \in Text(l, e) /\ d \in Deltas(m)
          BY <1>3, <4>1
        <4>4. PICK x \in X : d \in Text(m, x)
          BY <4>3, TextsPartition
        <4>5. kept[e] \subseteq Text(m, x)
          BY <1>3, <4>1, <4>3, <4>4, TextsStay
        <4> QED
          BY <4>1, <4>4, <4>5
      <3> HIDE DEF home, some, X
      <3> QED
        BY <3>1, <3>2, <3>3 DEF Splits
    <2>2. some \subseteq T
      OBVIOUS
    <2> HIDE DEF some, home, new, homeTokens, left, leftTokens, T, X, kept, lost, texts, lostTokens, losts
    <2>3. SumFunctionOnSet(homeTokens, X) = SumFunctionOnSet(leftTokens, some)
      <3>1. \A e \in some : leftTokens[e] \in Nat
        BY <1>6, <2>2
      <3> QED
        BY <1>1, <1>9, <2>1, <3>1, SumOfParts
    <2>4. SumFunctionOnSet(new, X) <= SumFunctionOnSet(homeTokens, X)
      BY <1>1, <1>9, SumMonotone
    <2>5. /\ SumFunctionOnSet(leftTokens, T)
              = SumFunctionOnSet(leftTokens, some) + SumFunctionOnSet(leftTokens, T \ some)
          /\ SumFunctionOnSet(leftTokens, some) \in Nat /\ SumFunctionOnSet(leftTokens, T \ some) \in Nat
      <3>1. \A e \in T : leftTokens[e] \in Nat
        BY <1>6
      <3>2. IsFiniteSet(some) /\ IsFiniteSet(T \ some)
        BY <1>1, <2>2, FS_Subset
      <3> QED
        BY <1>1, <2>2, <3>1, <3>2, SumOfPart, SumNat
    <2>6. SumFunctionOnSet(new, X) \in Nat /\ SumFunctionOnSet(homeTokens, X) \in Nat
      BY <1>1, <1>9, SumNat
    <2> QED
      BY <2>3, <2>4, <2>5, <2>6
  <1> DEFINE before == [e \in T |-> texts[e] + losts[e]]
             after == [e \in T |-> leftTokens[e] + lostTokens[e]]
  <1>11. \A e \in T : before[e] = texts[e] + losts[e] /\ after[e] = leftTokens[e] + lostTokens[e]
    OBVIOUS
  <1> HIDE DEF T, X, gone, size, kept, lost, texts, left, leftTokens, lostTokens, losts, home, new,
               homeTokens, before, after
  <1>12. /\ SumFunctionOnSet(before, T) = SumFunctionOnSet(texts, T) + SumFunctionOnSet(losts, T)
         /\ SumFunctionOnSet(after, T) = SumFunctionOnSet(leftTokens, T) + SumFunctionOnSet(lostTokens, T)
    BY <1>1, <1>6, <1>11, SumPlus
  <1>13. SumFunctionOnSet(after, T) <= SumFunctionOnSet(before, T)
    <2>1. \A e \in T : after[e] \in Nat /\ before[e] \in Nat /\ after[e] <= before[e]
      BY <1>6, <1>11
    <2> QED
      BY <1>1, <2>1, SumMonotone
  <1>14. /\ SumFunctionOnSet(texts, T) \in Nat /\ SumFunctionOnSet(losts, T) \in Nat
         /\ SumFunctionOnSet(leftTokens, T) \in Nat /\ SumFunctionOnSet(lostTokens, T) \in Nat
         /\ SumFunctionOnSet(new, X) \in Nat
    BY <1>1, <1>6, <1>9, SumNat
  <1> QED
    BY <1>4, <1>7, <1>10, <1>12, <1>13, <1>14 DEF gone

-----------------------------------------------------------------------------
(* The gate.                                                                *)

\* What markers leave alone.
LEMMA MarkersKeepTurns ==
    ASSUME NEW l, LogInv(l), NEW m, Extends(l, m),
           \A j \in DOMAIN m \ DOMAIN l : m[j].kind \in {"compacted", "evicted"}
    PROVE  /\ Spoken(m) = Spoken(l) /\ \A i \in DOMAIN l : m[i] = l[i]
           /\ \A k \in Kinds \ {"compacted", "evicted"} : OfKind(m, k) = OfKind(l, k)
           /\ LastTurn(m) = LastTurn(l) /\ \A i : TurnOf(m, i) = TurnOf(l, i)
           /\ \A t : Ids(m, t) = Ids(l, t) /\ (Cooling(m, t) <=> Cooling(l, t))
           /\ Reread(m) <=> Reread(l)
  <1>1. \A i \in DOMAIN l : m[i] = l[i]
    BY DEF Extends
  <1>2. \A k \in Kinds \ {"compacted", "evicted"} : OfKind(m, k) = OfKind(l, k)
    <2> SUFFICES ASSUME NEW k \in Kinds \ {"compacted", "evicted"}
                 PROVE  OfKind(m, k) = OfKind(l, k)
      OBVIOUS
    <2>1. OfKind(l, k) = OfKind(m, k) \cap DOMAIN l
      BY ExtendsKinds
    <2>2. \A i \in OfKind(m, k) : i \in DOMAIN m /\ m[i].kind \notin {"compacted", "evicted"}
      BY DEF OfKind
    <2> QED
      BY <2>1, <2>2
  <1>3. Spoken(m) = Spoken(l)
    <2>1. Spoken(l) = Spoken(m) \cap DOMAIN l
      BY ExtendsSpoken
    <2>2. \A i \in Spoken(m) : i \in DOMAIN m /\ m[i].kind \notin {"compacted", "evicted"}
      BY DEF Spoken
    <2> QED
      BY <2>1, <2>2
  <1>4. /\ OfKind(m, "user") = OfKind(l, "user") /\ OfKind(m, "readmitted") = OfKind(l, "readmitted")
        /\ OfKind(m, "call") = OfKind(l, "call")
    BY <1>2 DEF Kinds
  <1>5. LastTurn(m) = LastTurn(l) /\ \A i : TurnOf(m, i) = TurnOf(l, i)
    BY <1>4 DEF LastTurn, TurnOf
  <1>6. \A t : Ids(m, t) = Ids(l, t)
    BY <1>3, <1>5 DEF Ids
  <1>7. \A i : {j \in OfKind(m, "readmitted") : i \in m[j].ids}
                = {j \in OfKind(l, "readmitted") : i \in l[j].ids}
    BY <1>1, <1>4 DEF OfKind
  <1>8. \A t : Cooling(m, t) <=> Cooling(l, t)
    BY <1>5, <1>6, <1>7 DEF Cooling
  <1>9. Reread(m) <=> Reread(l)
    <2>1. \A c \in OfKind(l, "call") : m[c] = l[c]
      BY <1>1 DEF OfKind
    <2> QED
      BY <1>4, <2>1 DEF Reread, SameFile
  <1> QED
    BY <1>1, <1>2, <1>3, <1>5, <1>6, <1>8, <1>9

\* m is l with one more event, the eviction of the turns V.
Evicts(l, V, m) ==
    /\ Extends(l, m) /\ DOMAIN m = DOMAIN l \cup {Len(l) + 1}
    /\ m[Len(l) + 1] = Evicted(UNION {Ids(l, t) : t \in V})

LEMMA EvictsOut ==
    ASSUME NEW l, LogInv(l), NEW V, Chosen(l, V), NEW m, Evicts(l, V, m)
    PROVE  /\ \A j \in DOMAIN m \ DOMAIN l : m[j].kind \in {"compacted", "evicted"}
           /\ Out(m) = Out(l) \cup UNION {Ids(l, t) : t \in V}
           /\ UNION {Ids(l, t) : t \in V} \subseteq In(l)
           /\ \A i \in OfKind(l, "result") : Body(m, i) = Body(l, i)
           /\ LastWave(m) = UNION {Ids(l, t) : t \in V}
  <1> DEFINE U == UNION {Ids(l, t) : t \in V}
             n == Len(l) + 1
  <1>1. /\ Extends(l, m) /\ DOMAIN m = DOMAIN l \cup {n} /\ m[n].kind = "evicted" /\ m[n].ids = U
        /\ n \notin DOMAIN l /\ n \in Nat /\ \A i \in DOMAIN l : m[i] = l[i] /\ i \in Nat /\ i < n
    <2>1. Extends(l, m) /\ DOMAIN m = DOMAIN l \cup {n} /\ m[n] = Evicted(U)
      BY DEF Evicts
    <2>2. Len(l) \in Nat /\ DOMAIN l = 1..Len(l)
      BY LogShape DEF LogInv
    <2> HIDE DEF U
    <2> QED
      BY <2>1, <2>2, KindsOfNew DEF Extends
  <1>2. \A j \in DOMAIN m \ DOMAIN l : m[j].kind \in {"compacted", "evicted"}
    BY <1>1
  <1>3. U \subseteq In(l) /\ U \subseteq Spoken(l)
    BY DEF Chosen, Ids, In
  <1> HIDE DEF U, n
  <1>4. /\ OfKind(m, "readmitted") = OfKind(l, "readmitted") /\ Spoken(m) = Spoken(l)
        /\ OfKind(m, "evicted") = OfKind(l, "evicted") \cup {n}
        /\ OfKind(m, "compacted") = OfKind(l, "compacted")
    <2>1. OfKind(m, "readmitted") = OfKind(l, "readmitted") /\ Spoken(m) = Spoken(l)
      BY <1>1, <1>2, MarkersKeepTurns DEF Kinds
    <2> QED
      BY <1>1, <2>1 DEF OfKind
  <1>5. Out(m) = Out(l) \cup U
    <2>1. \A r \in OfKind(l, "readmitted") : ~(r > n) /\ m[r] = l[r]
      BY <1>1 DEF OfKind, n
    <2>2. \A e \in OfKind(l, "evicted") : m[e] = l[e]
      BY <1>1 DEF OfKind
    <2>3. ASSUME NEW i \in Spoken(l)
          PROVE  i \in Out(m) <=> i \in Out(l) \cup U
      <3>1. i \in Out(m) <=> \E e \in OfKind(l, "evicted") \cup {n} :
               i \in m[e].ids /\ \A r \in OfKind(l, "readmitted") : r > e => i \notin m[r].ids
        BY <1>4, <2>3 DEF Out
      <3>2. i \in Out(l) <=> \E e \in OfKind(l, "evicted") :
               i \in l[e].ids /\ \A r \in OfKind(l, "readmitted") : r > e => i \notin l[r].ids
        BY <2>3 DEF Out
      <3> QED
        BY <1>1, <2>1, <2>2, <3>1, <3>2
    <2>4. Out(m) \subseteq Spoken(l) /\ Out(l) \subseteq Spoken(l)
      BY <1>4 DEF Out
    <2> QED
      BY <1>3, <2>3, <2>4
  <1>6. \A i \in OfKind(l, "result") : Body(m, i) = Body(l, i)
    <2>1. \A c : Compactions(m, c) = Compactions(l, c)
      BY <1>1, <1>4 DEF Compactions, OfKind
    <2>2. \A c : Compactions(l, c) \subseteq 0..Len(l) /\ Len(l) \in Nat
      BY LogShape DEF Compactions, LogInv
    <2>3. \A c : Compactions(l, c) # {} => Max(Compactions(l, c)) \in DOMAIN l
      <3> SUFFICES ASSUME NEW c, Compactions(l, c) # {}
                   PROVE  Max(Compactions(l, c)) \in DOMAIN l
        OBVIOUS
      <3>1. Max(Compactions(l, c)) \in Compactions(l, c)
        BY <2>2, BoundedMax
      <3> QED
        BY <3>1 DEF Compactions, OfKind
    <2> SUFFICES ASSUME NEW i \in OfKind(l, "result") PROVE Body(m, i) = Body(l, i)
      OBVIOUS
    <2>4. i \in DOMAIN l /\ m[i] = l[i]
      BY <1>1 DEF OfKind
    <2> QED
      BY <1>1, <2>1, <2>3, <2>4 DEF Body
  <1>7. LastWave(m) = U
    <2> DEFINE E == OfKind(m, "evicted")
    <2>1. n \in E /\ E \subseteq 0..n /\ n \in Nat
      <3>1. \A i \in OfKind(l, "evicted") : i \in DOMAIN l
        BY DEF OfKind
      <3> QED
        BY <1>1, <1>4, <3>1
    <2>2. LastWave(m) = m[Max(E)].ids
      BY <2>1 DEF LastWave
    <2> HIDE DEF E
    <2>3. Max(E) \in E /\ n <= Max(E)
      BY <2>1, BoundedMax
    <2>4. \A k \in E : n <= k => k = n
      BY <2>1
    <2>5. Max(E) = n
      BY <2>3, <2>4
    <2> QED
      BY <1>1, <2>2, <2>5
  <1> QED
    BY <1>2, <1>3, <1>5, <1>6, <1>7 DEF U

\* What an event weighs, and how much of it the window never had.
Excess(l, i) ==
    CASE l[i].kind = "call" -> Tokens(l[i].name)
      [] l[i].kind = "delegation" -> Tokens(l[i].size)
      [] l[i].kind = "delta" -> 1
      [] OTHER -> 0
EventsOf(l) == [i \in Spoken(l) |-> EventTokens(l, i)]
ExcessOf(l) == [i \in Spoken(l) |-> Excess(l, i)]

LEMMA EventWeights ==
    ASSUME NEW l, LogInv(l), NEW i \in Spoken(l)
    PROVE  /\ EventTokens(l, i) \in Nat /\ Excess(l, i) \in Nat
           /\ i \in OfKind(l, "delta") =>
                 EventTokens(l, i) = Tokens(l[i].size) /\ Share(l, i) = 0 /\ Excess(l, i) = 1
           /\ i \notin OfKind(l, "delta") =>
                 EventTokens(l, i) = Share(l, i) + Excess(l, i)
  <1>1. /\ i \in DOMAIN l /\ l[i].kind \in Kinds \ {"compacted", "evicted", "readmitted"}
        /\ Share(l, i) \in Nat
    BY SharesAreNat
  <1>2. /\ l[i].kind \in {"user", "warning", "delta", "call", "delegation"} => l[i].size \in Nat
        /\ l[i].kind = "call" => l[i].name \in Nat
    BY <1>1, Sizes DEF LogInv
  <1>3. CASE l[i].kind \in {"user", "warning"}
    BY <1>1, <1>2, <1>3, TokensNat DEF EventTokens, Excess, Share, OfKind
  <1>4. CASE l[i].kind = "call"
    BY <1>1, <1>2, <1>4, TokensNat DEF EventTokens, Excess, Share, OfKind
  <1>5. CASE l[i].kind = "result"
    BY <1>1, <1>5 DEF EventTokens, Excess, Share, OfKind
  <1>6. CASE l[i].kind = "delta"
    BY <1>1, <1>2, <1>6, TokensNat DEF EventTokens, Excess, Share, OfKind
  <1>7. CASE l[i].kind \in {"asked", "answered"}
    BY <1>1, <1>7 DEF EventTokens, Excess, Share, OfKind
  <1>8. CASE l[i].kind = "delegation"
    BY <1>1, <1>2, <1>8, TokensNat DEF EventTokens, Excess, Share, OfKind
  <1> QED
    BY <1>1, <1>3, <1>4, <1>5, <1>6, <1>7, <1>8 DEF Kinds

LEMMA EventSums ==
    ASSUME NEW l, LogInv(l), NEW S, S \subseteq Spoken(l)
    PROVE  /\ IsFiniteSet(S)
           /\ EventsTokens(l, S) = SumFunctionOnSet(EventsOf(l), S) /\ EventsTokens(l, S) \in Nat
           /\ Overweight(l, S) = SumFunctionOnSet(ExcessOf(l), S) /\ Overweight(l, S) \in Nat
           /\ \A i \in S : EventsOf(l)[i] = EventTokens(l, i) /\ ExcessOf(l)[i] = Excess(l, i)
  <1> DEFINE f == [i \in S |-> EventTokens(l, i)]
             g == [i \in S |-> Excess(l, i)]
  <1>1. IsFiniteSet(S)
    BY PlacesAreNat, FS_Subset
  <1>2. \A i \in S : /\ f[i] = EventTokens(l, i) /\ g[i] = Excess(l, i)
                     /\ EventsOf(l)[i] = EventTokens(l, i) /\ ExcessOf(l)[i] = Excess(l, i)
    BY DEF EventsOf, ExcessOf
  <1>3. \A i \in S : EventTokens(l, i) \in Nat /\ Excess(l, i) \in Nat
    BY EventWeights
  <1>4. EventsTokens(l, S) = SumFunctionOnSet(f, S)
    BY DEF EventsTokens, SumFunction
  <1>5. Overweight(l, S) = SumFunctionOnSet(g, S)
    BY DEF Overweight, SumFunction, Excess
  <1> HIDE DEF f, g
  <1>6. SumFunctionOnSet(f, S) = SumFunctionOnSet(EventsOf(l), S) /\ SumFunctionOnSet(f, S) \in Nat
    BY <1>1, <1>2, <1>3, SumAgree, SumNat
  <1>7. SumFunctionOnSet(g, S) = SumFunctionOnSet(ExcessOf(l), S) /\ SumFunctionOnSet(g, S) \in Nat
    BY <1>1, <1>2, <1>3, SumAgree, SumNat
  <1> QED
    BY <1>1, <1>2, <1>4, <1>5, <1>6, <1>7

\* The window loses what is evicted, but for what it never had.
LEMMA EvictionWindow ==
    ASSUME NEW l, LogInv(l), ~Reread(l), NEW V, Chosen(l, V), NEW m, LogInv(m), Evicts(l, V, m),
           NEW U, U = UNION {Ids(l, t) : t \in V}
    PROVE  /\ Window(l) \in Nat /\ Window(m) \in Nat
           /\ EventsTokens(l, U) \in Nat /\ Overweight(l, U) \in Nat
           /\ Overweight(m, U) = Overweight(l, U)
           /\ Window(m) + EventsTokens(l, U) <= Window(l) + Overweight(l, U)
  <1> DEFINE f == Shares(l)
             D == OfKind(l, "delta")
             gone == Deltas(l) \ Deltas(m)
             t == [i \in Spoken(l) |-> IF i \in D THEN Tokens(l[i].size) ELSE 0]
             one == [i \in Spoken(l) |-> IF i \in D THEN 1 ELSE 0]
             a == [i \in Spoken(l) |-> EventTokens(l, i) + one[i]]
             b == [i \in Spoken(l) |-> Share(l, i) + Excess(l, i)]
  <1>1. /\ \A j \in DOMAIN m \ DOMAIN l : m[j].kind \in {"compacted", "evicted"}
        /\ Out(m) = Out(l) \cup U /\ U \subseteq In(l)
        /\ \A i \in OfKind(l, "result") : Body(m, i) = Body(l, i)
        /\ Extends(l, m)
    <2>1. Extends(l, m)
      BY DEF Evicts
    <2> QED
      BY <2>1, EvictsOut
  <1>2. /\ Spoken(m) = Spoken(l) /\ ~Reread(m)
        /\ \A k \in {"user", "warning", "result", "delta"} : OfKind(m, k) = OfKind(l, k)
        /\ \A i \in DOMAIN l : m[i] = l[i]
    BY <1>1, MarkersKeepTurns DEF Kinds
  <1>3. /\ In(m) = In(l) \ U /\ In(l) \subseteq Spoken(l) /\ U \subseteq Spoken(l)
        /\ Deltas(m) \subseteq Deltas(l) /\ Breaks(m) \subseteq Breaks(l) /\ gone = U \cap D
        /\ \A i \in Spoken(l) : i \in DOMAIN l /\ m[i] = l[i]
    <2>1. In(m) = In(l) \ U /\ In(l) \subseteq Spoken(l)
      BY <1>1, <1>2 DEF In
    <2>2. Deltas(m) = In(m) \cap D /\ Deltas(l) = In(l) \cap D /\ Breaks(m) \subseteq Breaks(l)
      BY <1>2, <2>1 DEF Deltas, Breaks
    <2>3. \A i \in Spoken(l) : i \in DOMAIN l
      BY DEF Spoken
    <2> QED
      BY <1>1, <1>2, <2>1, <2>2, <2>3
  <1>4. \A i \in Spoken(l) : /\ t[i] \in Nat /\ one[i] \in Nat /\ f[i] \in Nat /\ f[i] = Share(l, i)
                             /\ EventTokens(l, i) \in Nat /\ Excess(l, i) \in Nat
                             /\ a[i] = EventTokens(l, i) + one[i] /\ b[i] = Share(l, i) + Excess(l, i)
                             /\ a[i] = b[i] + t[i] /\ b[i] \in Nat
                             /\ i \notin D => t[i] = 0 /\ one[i] = 0
                             /\ i \in D => t[i] = Tokens(l[i].size) /\ one[i] = 1
    <2> SUFFICES ASSUME NEW i \in Spoken(l)
                 PROVE  /\ t[i] \in Nat /\ one[i] \in Nat /\ f[i] \in Nat /\ f[i] = Share(l, i)
                        /\ EventTokens(l, i) \in Nat /\ Excess(l, i) \in Nat
                        /\ a[i] = EventTokens(l, i) + one[i] /\ b[i] = Share(l, i) + Excess(l, i)
                        /\ a[i] = b[i] + t[i] /\ b[i] \in Nat
                        /\ i \notin D => t[i] = 0 /\ one[i] = 0
                        /\ i \in D => t[i] = Tokens(l[i].size) /\ one[i] = 1
      OBVIOUS
    <2>1. /\ t[i] = IF i \in D THEN Tokens(l[i].size) ELSE 0
          /\ one[i] = IF i \in D THEN 1 ELSE 0
          /\ a[i] = EventTokens(l, i) + one[i] /\ b[i] = Share(l, i) + Excess(l, i)
      OBVIOUS
    <2>2. /\ EventTokens(l, i) \in Nat /\ Excess(l, i) \in Nat
          /\ f[i] = Share(l, i) /\ Share(l, i) \in Nat
          /\ i \in D => EventTokens(l, i) = Tokens(l[i].size) /\ Share(l, i) = 0 /\ Excess(l, i) = 1
          /\ i \notin D => EventTokens(l, i) = Share(l, i) + Excess(l, i)
      BY EventWeights, SharesAreNat
    <2> HIDE DEF f, t, one, a, b, D
    <2> QED
      BY <2>1, <2>2
  <1>5. /\ IsFiniteSet(In(l)) /\ IsFiniteSet(U) /\ IsFiniteSet(In(m)) /\ IsFiniteSet(gone)
        /\ gone \subseteq U
    <2>1. IsFiniteSet(In(l)) /\ IsFiniteSet(In(m)) /\ IsFiniteSet(Deltas(l))
      BY PlacesAreNat
    <2> QED
      BY <1>1, <1>3, <2>1, FS_Subset
  <1>6. TextTokens(m) + SumFunctionOnSet(t, gone) <= TextTokens(l) + SumFunctionOnSet(one, gone)
    <2>1. \A i \in Deltas(m) : m[i] = l[i]
      BY <1>2, <1>3, PlacesAreNat
    <2>2. \A i \in Deltas(l) : t[i] = Tokens(l[i].size) /\ one[i] = 1
      BY <1>3, <1>4 DEF Deltas
    <2> HIDE DEF t, one
    <2> QED
      BY <1>3, <2>1, <2>2, TextsShrink
  <1>7. SumFunctionOnSet(Shares(m), In(m)) = SumFunctionOnSet(f, In(m))
    <2>1. \A i \in In(m) : Shares(m)[i] = f[i] /\ Shares(m)[i] \in Nat
      <3> SUFFICES ASSUME NEW i \in In(m) PROVE Shares(m)[i] = f[i] /\ Shares(m)[i] \in Nat
        OBVIOUS
      <3>1. i \in Spoken(l) /\ i \in Spoken(m) /\ m[i] = l[i] /\ i \in DOMAIN l
        BY <1>2, <1>3
      <3>2. Share(m, i) = Share(l, i)
        BY <1>1, <3>1 DEF Share, OfKind
      <3> QED
        BY <3>1, <3>2, SharesAreNat
    <2> HIDE DEF f
    <2> QED
      BY <1>5, <2>1, SumAgree
  <1>8. Overweight(m, U) = Overweight(l, U)
    <2>1. \A i \in U : Excess(m, i) = Excess(l, i)
      BY <1>3 DEF Excess
    <2>2. [i \in U |-> Excess(m, i)] = [i \in U |-> Excess(l, i)]
      BY <2>1
    <2> QED
      BY <2>2 DEF Overweight, Excess
  <1>9. /\ EventsTokens(l, U) = SumFunctionOnSet(EventsOf(l), U) /\ EventsTokens(l, U) \in Nat
        /\ Overweight(l, U) = SumFunctionOnSet(ExcessOf(l), U) /\ Overweight(l, U) \in Nat
        /\ \A i \in U : EventsOf(l)[i] = EventTokens(l, i) /\ ExcessOf(l)[i] = Excess(l, i)
    BY <1>3, EventSums
  <1>10. /\ Window(l) = Overhead + SumFunctionOnSet(f, In(l)) + TextTokens(l) /\ Window(l) \in Nat
         /\ Window(m) = Overhead + SumFunctionOnSet(Shares(m), In(m)) + TextTokens(m)
         /\ Window(m) \in Nat /\ Overhead \in Nat
         /\ TextTokens(l) \in Nat /\ TextTokens(m) \in Nat
    BY <1>2, WindowOfShares, TextTokensNat, ContextAssumption
  <1> HIDE DEF f, t, one, a, b, D, gone
  <1>11. /\ SumFunctionOnSet(t, U) = SumFunctionOnSet(t, gone)
         /\ SumFunctionOnSet(one, U) = SumFunctionOnSet(one, gone)
    <2>1. \A i \in U : t[i] \in Nat /\ one[i] \in Nat
      BY <1>3, <1>4
    <2>2. \A i \in U \ gone : t[i] = 0 /\ one[i] = 0
      BY <1>3, <1>4
    <2>3. SumFunctionOnSet(t, U) = SumFunctionOnSet(t, gone)
      BY <1>5, <2>1, <2>2, SumSupport
    <2>4. SumFunctionOnSet(one, U) = SumFunctionOnSet(one, gone)
      BY <1>5, <2>1, <2>2, SumSupport
    <2> QED
      BY <2>3, <2>4
  <1>12. SumFunctionOnSet(f, In(l)) = SumFunctionOnSet(f, U) + SumFunctionOnSet(f, In(m))
    <2>1. \A i \in In(l) : f[i] \in Nat
      BY <1>3, <1>4
    <2> QED
      BY <1>1, <1>3, <1>5, <2>1, SumOfPart
  <1>13. SumFunctionOnSet(a, U) = SumFunctionOnSet(EventsOf(l), U) + SumFunctionOnSet(one, U)
    <2>1. \A i \in U : EventsOf(l)[i] \in Nat /\ one[i] \in Nat /\ a[i] = EventsOf(l)[i] + one[i]
      BY <1>3, <1>4, <1>9
    <2> QED
      BY <1>5, <2>1, SumPlus
  <1>14. SumFunctionOnSet(b, U) = SumFunctionOnSet(f, U) + SumFunctionOnSet(ExcessOf(l), U)
    <2>1. \A i \in U : f[i] \in Nat /\ ExcessOf(l)[i] \in Nat /\ b[i] = f[i] + ExcessOf(l)[i]
      BY <1>3, <1>4, <1>9
    <2> QED
      BY <1>5, <2>1, SumPlus
  <1>15. SumFunctionOnSet(a, U) = SumFunctionOnSet(b, U) + SumFunctionOnSet(t, U)
    <2>1. \A i \in U : b[i] \in Nat /\ t[i] \in Nat /\ a[i] = b[i] + t[i]
      BY <1>3, <1>4
    <2> QED
      BY <1>5, <2>1, SumPlus
  <1>16. /\ SumFunctionOnSet(f, U) \in Nat /\ SumFunctionOnSet(f, In(m)) \in Nat
         /\ SumFunctionOnSet(t, U) \in Nat /\ SumFunctionOnSet(one, U) \in Nat
    <2>1. /\ \A i \in U : f[i] \in Nat /\ t[i] \in Nat /\ one[i] \in Nat
          /\ \A i \in In(m) : f[i] \in Nat
      BY <1>3, <1>4
    <2> QED
      BY <1>5, <2>1, SumNat
  <1> QED
    BY <1>6, <1>7, <1>8, <1>9, <1>10, <1>11, <1>12, <1>13, <1>14, <1>15, <1>16

LEMMA SumOverRemove ==
    ASSUME NEW w, NEW T, IsFiniteSet(T), \A x \in T : w[x] \in Nat, NEW x \in T
    PROVE  SumOver(w, T) = w[x] + SumOver(w, T \ {x}) /\ SumOver(w, T \ {x}) \in Nat
  <1>1. SumFunctionOnSet(w, T) = w[x] + SumFunctionOnSet(w, T \ {x})
    BY SumRemove
  <1>2. IsFiniteSet(T \ {x}) /\ \A y \in T \ {x} : w[y] \in Nat
    BY FS_RemoveElement
  <1>3. SumFunctionOnSet(w, T \ {x}) \in Nat
    BY <1>2, SumNat
  <1> QED
    BY <1>1, <1>3 DEF SumOver

LEMMA ScaledNat == \A n, r \in Nat : Scaled(n, r) \in Nat
  <1> SUFFICES ASSUME NEW n \in Nat, NEW r \in Nat PROVE Scaled(n, r) \in Nat
    OBVIOUS
  <1> DEFINE x == n * r
  <1>1. x \in Nat /\ Scaled(n, r) = (x * 115) \div 10000
    BY DEF Scaled
  <1> HIDE DEF x
  <1> QED
    BY <1>1

LEMMA WeightsShape ==
    ASSUME NEW l, LogInv(l), NEW r \in Nat
    PROVE  /\ LastTurn(l) \in Nat /\ Len(Weights(l, r)) = LastTurn(l)
           /\ DOMAIN Weights(l, r) = 1..LastTurn(l)
           /\ \A t \in 1..LastTurn(l) :
                 Weights(l, r)[t] = Scaled(EventsTokens(l, Ids(l, t)), r) /\ Weights(l, r)[t] \in Nat
  <1> DEFINE w == Weights(l, r)
  <1>1. LastTurn(l) \in Nat
    BY LogShape, FS_CardinalityType DEF LastTurn, LogInv
  <1>2. DOMAIN w = 1..LastTurn(l)
        /\ \A t \in 1..LastTurn(l) : w[t] = Scaled(EventsTokens(l, Ids(l, t)), r)
    BY DEF Weights, Weight
  <1>3. \A t : EventsTokens(l, Ids(l, t)) \in Nat
    <2>1. \A t : Ids(l, t) \subseteq Spoken(l)
      BY DEF Ids
    <2> QED
      BY <2>1, EventSums
  <1>4. \A t \in 1..LastTurn(l) : w[t] \in Nat
    BY <1>2, <1>3, ScaledNat
  <1>5. w \in Seq(Nat)
    <2>1. w = [t \in 1..LastTurn(l) |-> w[t]]
      BY DEF Weights
    <2> HIDE DEF w
    <2>2. w \in [1..LastTurn(l) -> Nat]
      BY <1>4, <2>1
    <2> QED
      BY <1>1, <2>2, SeqDef
  <1> HIDE DEF w
  <1>6. Len(w) = LastTurn(l)
    BY <1>1, <1>2, <1>5, LenProperties
  <1> QED
    BY <1>1, <1>2, <1>4, <1>6 DEF w

\* The weights of turns are sums, rounded down one by one.
LEMMA WeightsAdd ==
    ASSUME NEW l, LogInv(l), NEW r \in Nat, NEW V, V \subseteq 1..LastTurn(l)
    PROVE  /\ SumOver(Weights(l, r), V) \in Nat
           /\ SumOver(Weights(l, r), V) <= Scaled(EventsTokens(l, UNION {Ids(l, t) : t \in V}), r)
  <1> DEFINE w == Weights(l, r)
             U(T) == UNION {Ids(l, t) : t \in T}
             sum(T) == EventsTokens(l, U(T))
             F == {T \in SUBSET V : SumOver(w, T) <= Scaled(sum(T), r)}
  <1>1. IsFiniteSet(V)
    <2>1. LastTurn(l) \in Nat
      BY WeightsShape
    <2>2. IsFiniteSet(1..LastTurn(l))
      BY <2>1, FS_Interval
    <2> QED
      BY <2>2, FS_Subset
  <1>2. \A t \in V : w[t] = Scaled(EventsTokens(l, Ids(l, t)), r) /\ w[t] \in Nat
    BY WeightsShape
  <1>3. \A t : Ids(l, t) \subseteq Spoken(l)
    BY DEF Ids
  <1>4. \A T : sum(T) \in Nat /\ Scaled(sum(T), r) \in Nat
    <2>1. \A T : U(T) \subseteq Spoken(l)
      BY <1>3
    <2> HIDE DEF U
    <2> QED
      BY <2>1, EventSums, ScaledNat
  <1>5. {} \in F
    <2>1. SumOver(w, {}) = 0 /\ Scaled(sum({}), r) \in Nat
      BY <1>4, SumEmpty DEF SumOver
    <2> HIDE DEF sum
    <2> QED
      BY <2>1
  <1> HIDE DEF w, sum
  <1>6. ASSUME NEW T \in SUBSET V, T # {}, \A x \in T : T \ {x} \in F
        PROVE  T \in F
    <2>1. PICK x \in T : TRUE
      BY <1>6
    <2> DEFINE a == sum(T \ {x})
               b == EventsTokens(l, Ids(l, x))
    <2>2. IsFiniteSet(T) /\ \A y \in T : w[y] \in Nat
      BY <1>1, <1>2, FS_Subset
    <2>3. SumOver(w, T) = w[x] + SumOver(w, T \ {x}) /\ SumOver(w, T \ {x}) \in Nat
      BY <2>2, SumOverRemove
    <2>4. sum(T) = a + b /\ a \in Nat /\ b \in Nat
      <3> DEFINE A == U(T \ {x})
                 B == Ids(l, x)
                 f == EventsOf(l)
      <3>1. U(T) = A \cup B /\ A \cap B = {} /\ A \subseteq Spoken(l) /\ B \subseteq Spoken(l)
            /\ A \cup B \subseteq Spoken(l)
        BY <1>3 DEF Ids
      <3> HIDE DEF A, B, f, U
      <3>2. /\ IsFiniteSet(A) /\ IsFiniteSet(B)
            /\ EventsTokens(l, A) = SumFunctionOnSet(f, A) /\ EventsTokens(l, A) \in Nat
            /\ EventsTokens(l, B) = SumFunctionOnSet(f, B) /\ EventsTokens(l, B) \in Nat
            /\ EventsTokens(l, A \cup B) = SumFunctionOnSet(f, A \cup B)
        BY <3>1, EventSums DEF f
      <3>3. \A i \in A \cup B : f[i] \in Nat
        <4>1. \A i \in A \cup B : f[i] = EventTokens(l, i)
          BY <3>1, EventSums DEF f
        <4>2. \A i \in A \cup B : EventTokens(l, i) \in Nat
          BY <3>1, EventWeights
        <4> QED
          BY <4>1, <4>2
      <3>4. SumFunctionOnSet(f, A \cup B) = SumFunctionOnSet(f, A) + SumFunctionOnSet(f, B)
        BY <3>1, <3>2, <3>3, SumDisjoint
      <3> QED
        BY <3>1, <3>2, <3>4 DEF sum, A, B
    <2>5. SumOver(w, T \ {x}) <= Scaled(a, r) /\ w[x] = Scaled(b, r) /\ w[x] \in Nat
      BY <1>2, <1>6
    <2> HIDE DEF a, b
    <2>6. /\ Scaled(a, r) + Scaled(b, r) <= Scaled(a + b, r)
          /\ Scaled(a, r) \in Nat /\ Scaled(b, r) \in Nat /\ Scaled(a + b, r) \in Nat
      <3> DEFINE x1 == a * r
                 y1 == b * r
      <3>1. (a + b) * r = x1 + y1 /\ x1 \in Nat /\ y1 \in Nat
        BY <2>4
      <3>2. /\ Scaled(a, r) = (x1 * 115) \div 10000 /\ Scaled(b, r) = (y1 * 115) \div 10000
            /\ Scaled(a + b, r) = ((x1 + y1) * 115) \div 10000
        BY <3>1 DEF Scaled
      <3> HIDE DEF x1, y1
      <3> QED
        BY <3>1, <3>2
    <2>7. SumOver(w, T) <= Scaled(sum(T), r)
      BY <2>3, <2>4, <2>5, <2>6
    <2> QED
      BY <2>7
  <1>7. SumOver(w, V) \in Nat
    BY <1>1, <1>2, SumNat DEF SumOver
  <1> HIDE DEF F
  <1>8. V \in F
    BY <1>1, <1>5, <1>6, FiniteSetInduction
  <1> QED
    BY <1>7, <1>8 DEF F, w, sum

LEMMA WaterMarks == LowWater \in Nat /\ HighWater \in Nat /\ LowWater <= HighWater
  <1> DEFINE usable == IF Capacity > OutputReserve THEN Capacity - OutputReserve ELSE 0
             room == (HighWater * HeadroomPct) \div 100
  <1>1. {Capacity, OutputReserve, ContextTarget, HeadroomPct} \subseteq Nat
    BY ContextAssumption
  <1>2. usable \in Nat
    BY <1>1
  <1>3. HighWater \in Nat
    BY <1>1, <1>2 DEF HighWater
  <1>4. room \in Nat
    BY <1>1, <1>3
  <1>5. LowWater = IF room < HighWater THEN HighWater - room ELSE 0
    BY DEF LowWater
  <1> HIDE DEF room
  <1> QED
    BY <1>3, <1>4, <1>5

\* A smaller window is estimated smaller, and what goes away takes its weight with
\* it, but for what it weighs too much and what the roundings lose.
LEMMA EstimateShrinks ==
    ASSUME NEW r \in Nat, NEW l, NEW m, Window(l) \in Nat, Window(m) \in Nat
    PROVE  /\ Estimate(l, r) \in Nat /\ Estimate(m, r) \in Nat
           /\ Window(m) <= Window(l) => Estimate(m, r) <= Estimate(l, r)
           /\ \A n, o \in Nat : Window(m) + n <= Window(l) + o
                 => Estimate(m, r) + Scaled(n, r) <= Estimate(l, r) + Scaled(o, r) + 3
  <1> DEFINE a == Window(l)
             b == Window(m)
             x == a * r
             z == b * r
  <1>1. x \in Nat /\ z \in Nat
    OBVIOUS
  <1>2. /\ Estimate(l, r) = ((x \div 100) * 115) \div 100
        /\ Estimate(m, r) = ((z \div 100) * 115) \div 100
    BY DEF Estimate, Calibrated
  <1>3. \A i, j \in Nat : i <= j => i * r <= j * r
    <2> SUFFICES ASSUME NEW i \in Nat, NEW j \in Nat, i <= j PROVE i * r <= j * r
      OBVIOUS
    <2>1. (j - i) * r \in Nat /\ (j - i) * r = j * r - i * r
      OBVIOUS
    <2> QED
      BY <2>1
  <1>4. ASSUME NEW n \in Nat, NEW o \in Nat, b + n <= a + o
        PROVE  Estimate(m, r) + Scaled(n, r) <= Estimate(l, r) + Scaled(o, r) + 3
    <2> DEFINE y == n * r
               q == o * r
    <2>1. /\ y \in Nat /\ Scaled(n, r) = (y * 115) \div 10000
          /\ q \in Nat /\ Scaled(o, r) = (q * 115) \div 10000
      BY DEF Scaled
    <2>2. z + y <= x + q
      <3>1. (b + n) * r = b * r + n * r /\ (a + o) * r = a * r + o * r
        OBVIOUS
      <3>2. (b + n) * r <= (a + o) * r
        BY <1>3, <1>4
      <3> QED
        BY <3>1, <3>2
    <2> HIDE DEF x, y, z, q
    <2> DEFINE x1 == x \div 100
               z1 == z \div 100
               x2 == (x1 * 115) \div 100
               z2 == (z1 * 115) \div 100
               y2 == (y * 115) \div 10000
               q2 == (q * 115) \div 10000
    <2>3. /\ x1 \in Nat /\ 100 * x1 <= x /\ x <= 100 * x1 + 99
          /\ z1 \in Nat /\ 100 * z1 <= z
      BY <1>1
    <2>4. /\ y2 \in Nat /\ 10000 * y2 <= 115 * y
          /\ q2 \in Nat /\ 115 * q <= 10000 * q2 + 9999
      BY <2>1
    <2>5. /\ x2 \in Nat /\ 115 * x1 <= 100 * x2 + 99
          /\ z2 \in Nat /\ 100 * z2 <= 115 * z1
      <3> HIDE DEF x1, z1
      <3> QED
        BY <2>3
    <2> HIDE DEF x1, z1, x2, z2, y2, q2
    <2>6. 10000 * (z2 + y2) <= 10000 * (x2 + q2) + 31284
      BY <1>1, <2>1, <2>2, <2>3, <2>4, <2>5
    <2>7. z2 + y2 <= x2 + q2 + 3
      BY <2>4, <2>5, <2>6
    <2> QED
      BY <1>2, <2>1, <2>7 DEF x1, z1, x2, z2, y2, q2
  <1>5. b <= a => Estimate(m, r) <= Estimate(l, r)
    <2>1. b <= a => z <= x
      BY <1>3
    <2> HIDE DEF x, z, a, b
    <2> QED
      BY <1>1, <1>2, <2>1
  <1>6. Estimate(l, r) \in Nat /\ Estimate(m, r) \in Nat
    <2> HIDE DEF x, z
    <2> QED
      BY <1>1, <1>2
  <1> QED
    BY <1>4, <1>5, <1>6

\* An evicted wave takes its weight off the estimate, but for three tokens and
\* what it weighs too much.
LEMMA EvictionEstimate ==
    ASSUME NEW l, LogInv(l), ~Reread(l), NEW r \in Nat, NEW V, Chosen(l, V),
           NEW m, LogInv(m), Evicts(l, V, m)
    PROVE  /\ Estimate(m, r) \in Nat /\ Estimate(l, r) \in Nat /\ SumOver(Weights(l, r), V) \in Nat
           /\ Scaled(Overweight(m, LastWave(m)), r) \in Nat
           /\ Estimate(m, r) + SumOver(Weights(l, r), V)
                <= Estimate(l, r) + Scaled(Overweight(m, LastWave(m)), r) + 3
  <1> DEFINE U == UNION {Ids(l, t) : t \in V}
             n == EventsTokens(l, U)
             o == Overweight(l, U)
  <1>1. LastWave(m) = U
    BY EvictsOut
  <1>2. /\ SumOver(Weights(l, r), V) \in Nat
        /\ SumOver(Weights(l, r), V) <= Scaled(n, r)
    <2>1. V \subseteq 1..LastTurn(l)
      BY DEF Chosen
    <2> QED
      BY <2>1, WeightsAdd
  <1> HIDE DEF U
  <1>3. /\ Window(l) \in Nat /\ Window(m) \in Nat /\ n \in Nat /\ o \in Nat
        /\ Overweight(m, U) = o /\ Window(m) + n <= Window(l) + o
    BY EvictionWindow DEF U
  <1>4. Scaled(n, r) \in Nat /\ Scaled(o, r) \in Nat
    BY <1>3, ScaledNat
  <1> HIDE DEF n, o
  <1>5. /\ Estimate(m, r) \in Nat /\ Estimate(l, r) \in Nat
        /\ Estimate(m, r) + Scaled(n, r) <= Estimate(l, r) + Scaled(o, r) + 3
    BY <1>3, EstimateShrinks
  <1> QED
    BY <1>1, <1>2, <1>3, <1>4, <1>5

\* What may still be paged out afterwards could be before, and is not of it.
LEMMA EvictionLeaves ==
    ASSUME NEW l, LogInv(l), NEW r \in Nat, NEW V, Chosen(l, V), NEW m, Evicts(l, V, m)
    PROVE  /\ Weights(m, r) = Weights(l, r)
           /\ Candidates(m, Weights(m, r)) \subseteq Candidates(l, Weights(l, r)) \ V
           /\ Reread(m) <=> Reread(l)
  <1>1. /\ \A j \in DOMAIN m \ DOMAIN l : m[j].kind \in {"compacted", "evicted"}
        /\ Out(m) = Out(l) \cup UNION {Ids(l, t) : t \in V}
        /\ \A i \in OfKind(l, "result") : Body(m, i) = Body(l, i)
        /\ Extends(l, m)
    <2>1. Extends(l, m)
      BY DEF Evicts
    <2> QED
      BY <2>1, EvictsOut
  <1>2. /\ LastTurn(m) = LastTurn(l) /\ \A t : Ids(m, t) = Ids(l, t) /\ (Cooling(m, t) <=> Cooling(l, t))
        /\ \A i \in DOMAIN l : m[i] = l[i]
        /\ Reread(m) <=> Reread(l)
    BY <1>1, MarkersKeepTurns
  <1>3. \A t : EventsTokens(m, Ids(m, t)) = EventsTokens(l, Ids(l, t))
    <2> SUFFICES ASSUME NEW t PROVE EventsTokens(m, Ids(l, t)) = EventsTokens(l, Ids(l, t))
      BY <1>2
    <2>1. \A i \in Ids(l, t) : i \in DOMAIN l
      BY DEF Ids, Spoken
    <2>2. \A i \in Ids(l, t) : EventTokens(m, i) = EventTokens(l, i)
      BY <1>1, <1>2, <2>1 DEF EventTokens, OfKind
    <2>3. [i \in Ids(l, t) |-> EventTokens(m, i)] = [i \in Ids(l, t) |-> EventTokens(l, i)]
      BY <2>2
    <2> QED
      BY <2>3 DEF EventsTokens
  <1>4. Weights(m, r) = Weights(l, r)
    BY <1>2, <1>3 DEF Weights, Weight
  <1>5. \A t \in V : Ids(l, t) \cap Out(m) # {}
    <2>1. \A t \in V : Ids(l, t) # {}
      BY EveryTurn DEF Chosen, LogInv
    <2> QED
      BY <1>1, <2>1
  <1> QED
    BY <1>1, <1>2, <1>4, <1>5 DEF Candidates

\* The loop over the candidates takes some, if there are any, unless the estimate
\* is no more than the low water mark.
LEMMA SomeWave ==
    ASSUME NEW l, LogInv(l), NEW r \in Nat, Window(l) \in Nat,
           Estimate(l, r) >= HighWater, Estimate(l, r) > LowWater,
           Candidates(l, Weights(l, r)) # {}
    PROVE  Waves(l, r, TRUE) # {}
  <1> DEFINE est == Estimate(l, r)
             w == Weights(l, r)
             all == Candidates(l, w)
             Stops == \E V \in SUBSET all : \E last \in V : StopsAt(est, w, all, V, last)
             F == {T \in SUBSET all : Stops \/ est > LowWater + SumOver(w, T)}
  <1>1. est \in Nat /\ LowWater \in Nat /\ HighWater \in Nat /\ est >= HighWater /\ est > LowWater
    BY EstimateShrinks, WaterMarks
  <1>2. IsFiniteSet(all) /\ all \subseteq 1..LastTurn(l)
    <2>1. LastTurn(l) \in Nat
      BY WeightsShape
    <2>2. IsFiniteSet(1..LastTurn(l))
      BY <2>1, FS_Interval
    <2>3. all \subseteq 1..LastTurn(l)
      BY DEF Candidates, Weights
    <2> QED
      BY <2>2, <2>3, FS_Subset
  <1>3. \A t \in all : w[t] \in Nat
    BY <1>2, WeightsShape
  <1>4. all # {}
    OBVIOUS
  <1> HIDE DEF est, w, all
  <1>5. {} \in F
    <2>1. SumOver(w, {}) = 0
      BY SumEmpty DEF SumOver
    <2> QED
      BY <1>1, <2>1
  <1>6. ASSUME NEW T \in SUBSET all, T # {}, \A x \in T : T \ {x} \in F
        PROVE  T \in F
    <2>1. PICK x \in T : TRUE
      BY <1>6
    <2>2. CASE Stops
      BY <2>2
    <2>3. CASE ~Stops
      <3>1. est > LowWater + SumOver(w, T \ {x})
        BY <1>6, <2>1, <2>3
      <3>2. SumOver(w, T) \in Nat
        <4>1. IsFiniteSet(T) /\ \A y \in T : w[y] \in Nat
          BY <1>2, <1>3, FS_Subset
        <4> QED
          BY <4>1, SumNat DEF SumOver
      <3>3. ~(est <= LowWater + SumOver(w, T))
        <4> SUFFICES ASSUME est <= LowWater + SumOver(w, T) PROVE FALSE
          OBVIOUS
        <4>1. StopsAt(est, w, all, T, x)
          BY <3>1 DEF StopsAt
        <4> QED
          BY <2>1, <2>3, <4>1
      <3> QED
        BY <1>1, <3>2, <3>3
    <2> QED
      BY <2>2, <2>3
  <1> HIDE DEF F
  <1>7. all \in F
    BY <1>2, <1>5, <1>6, FiniteSetInduction
  <1>8. Stops
    <2> HIDE DEF Stops
    <2> SUFFICES ASSUME est > LowWater + SumOver(w, all) PROVE Stops
      BY <1>7 DEF F
    <2>1. PICK x \in all : TRUE
      BY <1>4
    <2>2. SumOver(w, all) = w[x] + SumOver(w, all \ {x}) /\ SumOver(w, all \ {x}) \in Nat /\ w[x] \in Nat
      <3>1. IsFiniteSet(all)
        BY <1>2
      <3>2. w[x] \in Nat
        BY <1>3, <2>1
      <3>3. SumOver(w, all) = w[x] + SumOver(w, all \ {x}) /\ SumOver(w, all \ {x}) \in Nat
        BY <1>3, <2>1, <3>1, SumOverRemove
      <3> QED
        BY <3>2, <3>3
    <2>3. est > LowWater + SumOver(w, all \ {x})
      BY <1>1, <2>2
    <2>4. StopsAt(est, w, all, all, x)
      BY <2>3 DEF StopsAt
    <2> QED
      BY <2>1, <2>4 DEF Stops
  <1>9. PICK V \in SUBSET all : \E last \in V : StopsAt(est, w, all, V, last)
    BY <1>8
  <1>10. ~(est < HighWater)
    BY <1>1
  <1>11. V \in Waves(l, r, TRUE)
    BY <1>9, <1>10 DEF Waves, est, w, all
  <1> QED
    BY <1>11

\* The request is over the high water mark with turns left to page out only if it
\* is little over the low one.
Reclaimed(l, r) ==
    (Estimate(l, r) >= HighWater /\ ~Reread(l) /\ Candidates(l, Weights(l, r)) # {})
        => Estimate(l, r) <= LowWater + Scaled(Overweight(l, LastWave(l)), r) + 3

LEMMA ExcessNat ==
    ASSUME NEW l, LogInv(l), NEW r \in Nat
    PROVE  Scaled(Overweight(l, LastWave(l)), r) \in Nat
  <1> DEFINE E == OfKind(l, "evicted")
             W == LastWave(l)
  <1>1. W \subseteq Spoken(l)
    <2>1. W = IF E = {} THEN {} ELSE l[Max(E)].ids
      BY DEF LastWave
    <2>2. E # {} => Max(E) \in E
      <3>1. E \subseteq 0..Len(l) /\ Len(l) \in Nat
        BY LogShape DEF LogInv
      <3> HIDE DEF E
      <3> QED
        BY <3>1, BoundedMax
    <2>3. \A e \in E : l[e].ids \subseteq Spoken(l)
      <3> SUFFICES ASSUME NEW e \in E PROVE l[e].ids \subseteq Spoken(l)
        OBVIOUS
      <3>1. EventOK(l, e) /\ l[e].kind = "evicted"
        BY DEF LogInv, OfKind
      <3> QED
        BY <3>1 DEF EventOK
    <2> HIDE DEF E, W
    <2> QED
      BY <2>1, <2>2, <2>3
  <1> QED
    BY <1>1, EventSums, ScaledNat

LEMMA EvictionReclaims ==
    ASSUME CtxInv, LogInv(log'), NEW next, next # "idle",
           EmitEviction(TRUE, next), pc' = next
    PROVE  Reclaimed(log', ratio)
  <1> SUFFICES ASSUME Estimate(log', ratio) >= HighWater, ~Reread(log'),
                      Candidates(log', Weights(log', ratio)) # {}
               PROVE  Estimate(log', ratio)
                        <= LowWater + Scaled(Overweight(log', LastWave(log')), ratio) + 3
    BY DEF Reclaimed
  <1> DEFINE excess == Scaled(Overweight(log', LastWave(log')), ratio)
  <1>1. LogInv(log) /\ ratio \in Nat /\ LowWater \in Nat /\ HighWater \in Nat
    BY WaterMarks, ContextAssumption DEF CtxInv, Places
  <1>2. excess \in Nat
    BY <1>1, ExcessNat
  <1>3. CASE Waves(log, ratio, TRUE) = {}
    <2>1. log' = log
      BY <1>3 DEF EmitEviction
    <2>2. Window(log') \in Nat
      BY WindowOfShares
    <2>3. Estimate(log', ratio) \in Nat
      BY <1>1, <2>2, EstimateShrinks
    <2>4. ~(Estimate(log', ratio) > LowWater)
      BY <1>1, <1>3, <2>1, <2>2, SomeWave
    <2> QED
      BY <1>1, <1>2, <2>3, <2>4
  <1>4. CASE Waves(log, ratio, TRUE) # {}
    <2>1. PICK V \in Waves(log, ratio, TRUE) : log' = log \o <<EvictionOf(log, V)>>
      BY <1>4 DEF EmitEviction, Emit
    <2>2. Chosen(log, V)
      BY <1>1, WavesAreChosen DEF LogInv
    <2>3. Evicts(log, V, log')
      <3>1. log \in Seq(Events) /\ log' \in Seq(Events)
        BY <1>1 DEF LogInv
      <3>2. Len(log) \in Nat /\ DOMAIN log = 1..Len(log) /\ DOMAIN log' = 1..Len(log')
        BY <3>1, LogShape
      <3> DEFINE e == EvictionOf(log, V)
      <3>3. Len(log') = Len(log) + 1 /\ log'[Len(log) + 1] = e /\ \A i \in DOMAIN log : log'[i] = log[i]
        <4> HIDE DEF e
        <4>1. /\ Len(<<e>>) = 1 /\ <<e>>[1] = e /\ <<e>> \in Seq({e})
          BY SeqDef
        <4>2. log \in Seq(Events \cup {e}) /\ <<e>> \in Seq(Events \cup {e})
          BY <3>1, <4>1, SeqDef
        <4> QED
          BY <2>1, <3>2, <4>1, <4>2, ConcatProperties DEF e
      <3> QED
        BY <3>1, <3>2, <3>3 DEF Evicts, Extends, EvictionOf
    <2>4. /\ Weights(log', ratio) = Weights(log, ratio) /\ ~Reread(log)
          /\ Candidates(log', Weights(log', ratio)) \subseteq Candidates(log, Weights(log, ratio)) \ V
      BY <1>1, <2>2, <2>3, EvictionLeaves
    <2>5. /\ Estimate(log', ratio) \in Nat /\ Estimate(log, ratio) \in Nat
          /\ SumOver(Weights(log, ratio), V) \in Nat
          /\ Estimate(log', ratio) + SumOver(Weights(log, ratio), V)
               <= Estimate(log, ratio) + excess + 3
      BY <1>1, <2>2, <2>3, <2>4, EvictionEstimate
    <2>6. \/ V = Candidates(log, Weights(log, ratio))
          \/ Estimate(log, ratio) <= LowWater + SumOver(Weights(log, ratio), V)
      BY DEF Waves, StopsAt
    <2>7. Estimate(log, ratio) <= LowWater + SumOver(Weights(log, ratio), V)
      BY <2>4, <2>6
    <2> HIDE DEF excess
    <2>8. Estimate(log', ratio) <= LowWater + excess + 3
      BY <1>1, <1>2, <2>5, <2>7
    <2> QED
      BY <2>8 DEF excess
  <1> QED
    BY <1>3, <1>4

\* m is l with compactions of outputs that had none.
Compacts(l, m) ==
    Extends(l, m) /\ \A j \in DOMAIN m \ DOMAIN l : m[j].kind = "compacted" /\ Fresh(l, m[j])

\* Such a compaction makes no body larger, in tokens.
LEMMA BodiesShrink ==
    ASSUME NEW l, LogInv(l), ~Reread(l), NEW m, LogInv(m), Compacts(l, m),
           NEW i \in OfKind(l, "result")
    PROVE  /\ i \in OfKind(m, "result") /\ Body(m, i) \in Nat /\ Body(l, i) \in Nat
           /\ Tokens(Body(m, i)) <= Tokens(Body(l, i))
  <1>1. /\ Extends(l, m) /\ OfKind(m, "result") = OfKind(l, "result") /\ i \in DOMAIN l /\ m[i] = l[i]
        /\ \A j \in DOMAIN l : m[j] = l[j]
    <2>1. Extends(l, m) /\ \A j \in DOMAIN m \ DOMAIN l : m[j].kind \in {"compacted", "evicted"}
      BY DEF Compacts
    <2> QED
      BY <2>1, MarkersKeepTurns DEF OfKind, Kinds
  <1>2. Body(m, i) \in Nat /\ Body(l, i) \in Nat
    BY <1>1, BodiesAreNat
  <1> DEFINE A == Compactions(l, l[i].ref)
             B == Compactions(m, l[i].ref)
  <1>3. OfKind(l, "compacted") = OfKind(m, "compacted") \cap DOMAIN l
    BY <1>1, ExtendsKinds
  <1>4. A = B \cap DOMAIN l
    BY <1>1, <1>3 DEF Compactions, OfKind
  <1>5. \A j \in B \ DOMAIN l : A = {} /\ m[j].size = Summary(l[i].size)
    <2> SUFFICES ASSUME NEW j \in B \ DOMAIN l PROVE A = {} /\ m[j].size = Summary(l[i].size)
      OBVIOUS
    <2>1. j \in DOMAIN m \ DOMAIN l /\ m[j].ref = l[i].ref
      BY DEF Compactions, OfKind
    <2>2. PICK r \in OfKind(l, "result") :
             Compactions(l, l[r].ref) = {} /\ m[j].ref = l[r].ref /\ m[j].size = Summary(l[r].size)
      BY <2>1 DEF Compacts, Fresh
    <2>3. r = i
      BY <2>1, <2>2, Results DEF LogInv
    <2> QED
      BY <2>2, <2>3
  <1>6. B \subseteq 0..Len(m) /\ Len(m) \in Nat
    BY LogShape DEF Compactions, LogInv
  <1>7. A \subseteq 0..Len(l) /\ Len(l) \in Nat /\ A \subseteq DOMAIN l
    BY LogShape DEF Compactions, LogInv, OfKind
  <1>8. /\ Body(l, i) = IF A = {} THEN l[i].size ELSE l[Max(A)].size
        /\ Body(m, i) = IF B = {} THEN l[i].size ELSE m[Max(B)].size
    BY <1>1 DEF Body
  <1>9. Tokens(Summary(l[i].size)) <= Tokens(l[i].size)
    <2>1. l[i].size \in Nat
      BY Results DEF LogInv
    <2> QED
      BY <2>1, SummaryNat
  <1> HIDE DEF A, B
  <1>10. B # {} => Max(B) \in B
    BY <1>6, BoundedMax
  <1>11. A # {} => Max(A) \in A
    BY <1>7, BoundedMax
  <1>12. Tokens(Body(l, i)) \in Nat
    BY <1>2, TokensNat
  <1>13. CASE B \subseteq DOMAIN l
    <2>1. A = B
      BY <1>4, <1>13
    <2>2. B # {} => m[Max(B)] = l[Max(B)]
      BY <1>1, <1>10, <1>13
    <2> QED
      BY <1>1, <1>2, <1>8, <1>12, <2>1, <2>2
  <1>14. CASE ~(B \subseteq DOMAIN l)
    <2>1. A = {} /\ B # {}
      BY <1>5, <1>14
    <2>2. Max(B) \in B \ DOMAIN l
      BY <1>4, <1>10, <2>1
    <2> QED
      BY <1>1, <1>2, <1>5, <1>8, <1>9, <2>1, <2>2
  <1> QED
    BY <1>13, <1>14

LEMMA CompactsKeeps ==
    ASSUME NEW l, LogInv(l), ~Reread(l), NEW m, LogInv(m), Compacts(l, m)
    PROVE  /\ Spoken(m) = Spoken(l) /\ Out(m) = Out(l) /\ In(m) = In(l) /\ LastTurn(m) = LastTurn(l)
           /\ \A t : Ids(m, t) = Ids(l, t) /\ (Cooling(m, t) <=> Cooling(l, t))
           /\ ~Reread(m) /\ TextTokens(m) = TextTokens(l)
           /\ Overweight(m, LastWave(m)) = Overweight(l, LastWave(l))
           /\ \A i \in Spoken(l) : /\ Share(m, i) <= Share(l, i)
                                   /\ EventTokens(m, i) <= EventTokens(l, i)
  <1>1. /\ Extends(l, m) /\ \A j \in DOMAIN l : m[j] = l[j]
        /\ \A j \in DOMAIN m \ DOMAIN l : m[j].kind = "compacted"
    BY DEF Compacts, Extends
  <1>2. /\ Spoken(m) = Spoken(l) /\ LastTurn(m) = LastTurn(l)
        /\ \A t : Ids(m, t) = Ids(l, t) /\ (Cooling(m, t) <=> Cooling(l, t))
        /\ ~Reread(m)
        /\ \A k \in {"user", "warning", "result", "delta", "readmitted"} : OfKind(m, k) = OfKind(l, k)
    BY <1>1, MarkersKeepTurns DEF Kinds
  <1>3. OfKind(m, "evicted") = OfKind(l, "evicted")
    <2>1. OfKind(l, "evicted") = OfKind(m, "evicted") \cap DOMAIN l
      BY <1>1, ExtendsKinds
    <2>2. \A j \in OfKind(m, "evicted") : j \in DOMAIN m /\ m[j].kind # "compacted"
      BY DEF OfKind
    <2> QED
      BY <1>1, <2>1, <2>2
  <1>4. \A j \in OfKind(l, "evicted") \cup OfKind(l, "readmitted") \cup Spoken(l) :
           j \in DOMAIN l /\ m[j] = l[j]
    BY <1>1 DEF OfKind, Spoken
  <1>5. Out(m) = Out(l)
    BY <1>2, <1>3, <1>4 DEF Out
  <1>6. In(m) = In(l)
    BY <1>2, <1>5 DEF In
  <1>7. TextTokens(m) = TextTokens(l)
    <2>1. Deltas(m) = Deltas(l) /\ Breaks(m) = Breaks(l)
      BY <1>2, <1>6 DEF Deltas, Breaks
    <2>2. \A e : Text(m, e) = Text(l, e)
      BY <2>1 DEF Text
    <2>3. Texts(m) = Texts(l)
      BY <2>1, <2>2 DEF Texts
    <2>4. \A e \in Texts(l) : Summed(m, Text(l, e)) = Summed(l, Text(l, e))
      <3> SUFFICES ASSUME NEW e \in Texts(l) PROVE Summed(m, Text(l, e)) = Summed(l, Text(l, e))
        OBVIOUS
      <3>1. \A i \in Text(l, e) : m[i] = l[i]
        BY <1>4, PlacesAreNat
      <3>2. [i \in Text(l, e) |-> m[i].size] = [i \in Text(l, e) |-> l[i].size]
        BY <3>1
      <3> QED
        BY <3>2 DEF Summed
    <2>5. [e \in Texts(m) |-> Tokens(Summed(m, Text(m, e)))]
            = [e \in Texts(l) |-> Tokens(Summed(l, Text(l, e)))]
      BY <2>2, <2>3, <2>4
    <2> QED
      BY <2>5 DEF TextTokens
  <1>8. Overweight(m, LastWave(m)) = Overweight(l, LastWave(l))
    <2> DEFINE E == OfKind(l, "evicted")
               W == LastWave(l)
    <2>1. W = IF E = {} THEN {} ELSE l[Max(E)].ids
      BY DEF LastWave
    <2>2. E # {} => Max(E) \in E
      <3>1. E \subseteq 0..Len(l) /\ Len(l) \in Nat
        BY LogShape DEF LogInv
      <3> HIDE DEF E
      <3> QED
        BY <3>1, BoundedMax
    <2>3. \A e \in E : l[e].ids \subseteq Spoken(l) /\ m[e] = l[e]
      <3> SUFFICES ASSUME NEW e \in E PROVE l[e].ids \subseteq Spoken(l) /\ m[e] = l[e]
        OBVIOUS
      <3>1. EventOK(l, e) /\ l[e].kind = "evicted"
        BY DEF LogInv, OfKind
      <3> QED
        BY <1>4, <3>1 DEF EventOK
    <2>4. LastWave(m) = W
      <3>1. LastWave(m) = IF E = {} THEN {} ELSE m[Max(E)].ids
        BY <1>3 DEF LastWave
      <3> HIDE DEF E, W
      <3> QED
        BY <2>1, <2>2, <2>3, <3>1
    <2>5. W \subseteq Spoken(l)
      <3> HIDE DEF E, W
      <3> QED
        BY <2>1, <2>2, <2>3
    <2> HIDE DEF E, W
    <2>6. \A i \in W : Excess(m, i) = Excess(l, i)
      BY <1>4, <2>5 DEF Excess
    <2>7. [i \in W |-> Excess(m, i)] = [i \in W |-> Excess(l, i)]
      BY <2>6
    <2> QED
      BY <2>4, <2>7 DEF Overweight, Excess, W
  <1>9. ASSUME NEW i \in Spoken(l)
        PROVE  Share(m, i) <= Share(l, i) /\ EventTokens(m, i) <= EventTokens(l, i)
    <2>1. m[i] = l[i] /\ i \in DOMAIN l
      BY <1>4
    <2>2. /\ Share(l, i) \in Nat /\ EventTokens(l, i) \in Nat
      BY SharesAreNat, EventWeights
    <2>3. CASE l[i].kind = "result"
      <3>1. /\ Tokens(Body(m, i)) <= Tokens(Body(l, i))
        BY <2>1, <2>3, BodiesShrink DEF OfKind
      <3> QED
        BY <2>1, <2>3, <3>1 DEF Share, EventTokens
    <2>4. CASE l[i].kind # "result"
      <3>1. Share(m, i) = Share(l, i) /\ EventTokens(m, i) = EventTokens(l, i)
        BY <2>1, <2>4 DEF Share, EventTokens
      <3> QED
        BY <2>2, <3>1
    <2> QED
      BY <2>3, <2>4
  <1> QED
    BY <1>2, <1>5, <1>6, <1>7, <1>8, <1>9

LEMMA WindowShrinks ==
    ASSUME NEW l, LogInv(l), ~Reread(l), NEW m, LogInv(m), Compacts(l, m)
    PROVE  /\ Window(m) \in Nat /\ Window(l) \in Nat /\ Window(m) <= Window(l)
           /\ \A S : S \subseteq Spoken(l) =>
                 /\ EventsTokens(m, S) \in Nat /\ EventsTokens(l, S) \in Nat
                 /\ EventsTokens(m, S) <= EventsTokens(l, S)
  <1>1. /\ Spoken(m) = Spoken(l) /\ In(m) = In(l) /\ ~Reread(m) /\ TextTokens(m) = TextTokens(l)
        /\ \A i \in Spoken(l) : /\ Share(m, i) <= Share(l, i)
                                /\ EventTokens(m, i) <= EventTokens(l, i)
    BY CompactsKeeps
  <1>2. SumFunctionOnSet(Shares(m), In(l)) <= SumFunctionOnSet(Shares(l), In(l))
    <2>1. \A i \in In(l) : /\ Shares(m)[i] \in Nat /\ Shares(l)[i] \in Nat
                           /\ Shares(m)[i] <= Shares(l)[i]
      <3>1. \A i \in In(l) : i \in Spoken(l)
        BY PlacesAreNat
      <3>2. \A i \in In(l) : /\ Shares(l)[i] = Share(l, i) /\ Share(l, i) \in Nat
                             /\ Shares(m)[i] = Share(m, i) /\ Share(m, i) \in Nat
        BY <1>1, <3>1, SharesAreNat
      <3> QED
        BY <1>1, <3>1, <3>2
    <2> QED
      BY <2>1, PlacesAreNat, SumMonotone
  <1>3. /\ Window(l) = Overhead + SumFunctionOnSet(Shares(l), In(l)) + TextTokens(l)
        /\ Window(m) = Overhead + SumFunctionOnSet(Shares(m), In(l)) + TextTokens(l)
        /\ SumFunctionOnSet(Shares(l), In(l)) \in Nat /\ SumFunctionOnSet(Shares(m), In(l)) \in Nat
        /\ Window(l) \in Nat /\ Window(m) \in Nat
        /\ Overhead \in Nat /\ TextTokens(l) \in Nat
    BY <1>1, WindowOfShares, TextTokensNat, ContextAssumption
  <1>4. ASSUME NEW S, S \subseteq Spoken(l)
        PROVE  /\ EventsTokens(m, S) \in Nat /\ EventsTokens(l, S) \in Nat
               /\ EventsTokens(m, S) <= EventsTokens(l, S)
    <2>1. /\ EventsTokens(l, S) = SumFunctionOnSet(EventsOf(l), S) /\ EventsTokens(l, S) \in Nat
          /\ EventsTokens(m, S) = SumFunctionOnSet(EventsOf(m), S) /\ EventsTokens(m, S) \in Nat
          /\ IsFiniteSet(S)
          /\ \A i \in S : EventsOf(l)[i] = EventTokens(l, i) /\ EventsOf(m)[i] = EventTokens(m, i)
      BY <1>1, <1>4, EventSums
    <2>2. \A i \in S : EventTokens(l, i) \in Nat /\ EventTokens(m, i) \in Nat
      BY <1>1, <1>4, EventWeights
    <2>3. \A i \in S : /\ EventsOf(m)[i] \in Nat /\ EventsOf(l)[i] \in Nat
                       /\ EventsOf(m)[i] <= EventsOf(l)[i]
      BY <1>1, <1>4, <2>1, <2>2
    <2> QED
      BY <2>1, <2>3, SumMonotone
  <1> QED
    BY <1>2, <1>3, <1>4

\* After such compactions the request is no larger, and no turn may be paged out
\* that could not be before.
LEMMA CompactionReclaims ==
    ASSUME NEW l, LogInv(l), ~Reread(l), NEW m, LogInv(m), Compacts(l, m), NEW r \in Nat
    PROVE  /\ Estimate(m, r) \in Nat /\ Estimate(l, r) \in Nat /\ Estimate(m, r) <= Estimate(l, r)
           /\ Candidates(m, Weights(m, r)) \subseteq Candidates(l, Weights(l, r))
  <1> DEFINE v == Weights(l, r)
             w == Weights(m, r)
             n == LastTurn(l)
  <1>1. /\ Spoken(m) = Spoken(l) /\ Out(m) = Out(l) /\ LastTurn(m) = n /\ ~Reread(m)
        /\ \A t : Ids(m, t) = Ids(l, t) /\ (Cooling(m, t) <=> Cooling(l, t))
    BY CompactsKeeps
  <1>2. Estimate(m, r) \in Nat /\ Estimate(l, r) \in Nat /\ Estimate(m, r) <= Estimate(l, r)
    <2>1. Window(m) \in Nat /\ Window(l) \in Nat /\ Window(m) <= Window(l)
      BY WindowShrinks
    <2> QED
      BY <2>1, EstimateShrinks
  <1>3. /\ n \in Nat /\ Len(v) = n /\ Len(w) = n /\ DOMAIN v = 1..n /\ DOMAIN w = 1..n
        /\ \A t \in 1..n : v[t] \in Nat /\ w[t] \in Nat
    BY <1>1, WeightsShape
  <1>4. \A t \in 1..n : w[t] <= v[t]
    <2> SUFFICES ASSUME NEW t \in 1..n PROVE w[t] <= v[t]
      OBVIOUS
    <2> DEFINE a == EventsTokens(l, Ids(l, t))
               b == EventsTokens(m, Ids(l, t))
    <2>1. v[t] = Scaled(a, r) /\ w[t] = Scaled(b, r)
      BY <1>1, WeightsShape
    <2>2. a \in Nat /\ b \in Nat /\ b <= a
      <3>1. Ids(l, t) \subseteq Spoken(l)
        BY DEF Ids
      <3> QED
        BY <3>1, WindowShrinks
    <2> HIDE DEF a, b
    <2> DEFINE x == a * r
               y == b * r
    <2>3. x \in Nat /\ y \in Nat /\ y <= x
      <3>1. (a - b) * r \in Nat /\ (a - b) * r = a * r - b * r
        BY <2>2
      <3>2. a * r \in Nat /\ b * r \in Nat
        BY <2>2
      <3> QED
        BY <3>1, <3>2
    <2>4. v[t] = (x * 115) \div 10000 /\ w[t] = (y * 115) \div 10000
      BY <2>1 DEF Scaled
    <2> HIDE DEF x, y
    <2> QED
      BY <2>3, <2>4
  <1> HIDE DEF v, w, n
  <1>5. ASSUME NEW u \in 1..n
        PROVE  SumOver(w, u..n) \in Nat /\ SumOver(v, u..n) \in Nat /\ SumOver(w, u..n) <= SumOver(v, u..n)
    <2>1. u \in Nat /\ u..n \subseteq 1..n
      BY <1>3
    <2>2. IsFiniteSet(u..n)
      BY <1>3, <2>1, FS_Interval
    <2>3. \A t \in u..n : v[t] \in Nat /\ w[t] \in Nat /\ w[t] <= v[t]
      BY <1>3, <1>4, <2>1
    <2>4. SumFunctionOnSet(w, u..n) \in Nat /\ SumFunctionOnSet(v, u..n) \in Nat
      BY <2>2, <2>3, SumNat
    <2>5. SumFunctionOnSet(w, u..n) <= SumFunctionOnSet(v, u..n)
      BY <2>2, <2>3, SumMonotone
    <2> QED
      BY <2>4, <2>5 DEF SumOver
  <1>6. HardLimit \in Nat /\ Budget \in Nat
    <2>1. {Capacity, SafetyMargin, HeadroomPct, ProtectionPct} \subseteq Nat /\ LowWater \in Nat
      BY ContextAssumption, WaterMarks
    <2> DEFINE p == IF ProtectionPct < HeadroomPct THEN ProtectionPct ELSE HeadroomPct
    <2>2. p \in Nat /\ LowWater * p \in Nat
      BY <2>1
    <2>3. Budget = (LowWater * p) \div 100
      BY DEF Budget
    <2> HIDE DEF p
    <2>4. HardLimit \in Nat
      BY <2>1 DEF HardLimit
    <2> QED
      BY <2>2, <2>3, <2>4
  <1>7. ASSUME NEW t \in 1..n, Protected(v, t)
        PROVE  Protected(w, t)
    <2> SUFFICES ASSUME NEW u \in t..(n - 1)
                 PROVE  /\ SumOver(w, u..n) <= HardLimit
                        /\ n - u < MinProtectedTurns \/ SumOver(w, u..n) <= Budget
      BY <1>3 DEF Protected
    <2>1. /\ SumOver(v, u..n) <= HardLimit
          /\ n - u < MinProtectedTurns \/ SumOver(v, u..n) <= Budget
      BY <1>3, <1>7 DEF Protected
    <2>2. u \in 1..n
      BY <1>3
    <2> QED
      BY <1>5, <1>6, <2>1, <2>2
  <1>8. Candidates(m, w) \subseteq Candidates(l, v)
    BY <1>1, <1>3, <1>7 DEF Candidates
  <1> QED
    BY <1>2, <1>8 DEF v, w

\* From its second step to its last, the gate has reclaimed what it could.
GateInv == pc \in {"floor", "overflow"} => Reclaimed(log, ratio)

LEMMA OverflowReclaims ==
    ASSUME CtxInv, LogInv(log'), GateInv, GateOverflow
    PROVE  Reclaimed(log', ratio')
  <1> DEFINE ev == IF Estimate(log, ratio) <= ModelWindow \/ ModelWindow = 0 THEN <<>>
                   ELSE PlanOverflow(log, Calibrated(Window(log), ratio), ModelWindow)
  <1>1. /\ pc = "overflow" /\ ratio' = ratio /\ Emit(ev, "stream")
        /\ LogInv(log) /\ ratio \in Nat /\ HighWater \in Nat /\ LowWater \in Nat
    <2>1. pc = "overflow" /\ ratio' = ratio /\ Emit(ev, "stream")
      BY DEF GateOverflow
    <2> HIDE DEF ev
    <2>2. LogInv(log) /\ ratio \in Nat
      BY ContextAssumption DEF CtxInv, Places
    <2> QED
      BY <2>1, <2>2, WaterMarks
  <1>2. NewList(log, ev)
    <2> DEFINE current == Calibrated(Window(log), ratio)
    <2>1. ev \in {<<>>, PlanCompactions(log, current, ModelWindow), PlanOverflow(log, current, ModelWindow)}
      OBVIOUS
    <2> HIDE DEF ev, current
    <2> QED
      BY <1>1, <2>1, PlansCompact
  <1>3. ev = <<>> \/ ev = Compact(log, Calibrated(Window(log), ratio), ModelWindow, FALSE)
    BY DEF PlanOverflow
  <1> HIDE DEF ev
  <1>4. \A k \in DOMAIN ev : ev[k].kind = "compacted" /\ Fresh(log, ev[k])
    <2>1. CASE ev = <<>>
      BY <2>1
    <2>2. CASE ev = Compact(log, Calibrated(Window(log), ratio), ModelWindow, FALSE)
      <3>1. \A k \in DOMAIN ev : Summarises(log, ev[k]) /\ Fresh(log, ev[k])
        BY <1>1, <2>2, CompactList
      <3> QED
        BY <3>1, KindsOfNew DEF Summarises
    <2> QED
      BY <1>3, <2>1, <2>2
  <1>5. Compacts(log, log')
    <2>1. Step(log, log') /\ From(ev, log, log')
      BY <1>1, <1>2, EmitEvents
    <2> QED
      BY <1>4, <2>1 DEF Compacts, Step, From
  <1> SUFFICES ASSUME Estimate(log', ratio) >= HighWater, ~Reread(log'),
                      Candidates(log', Weights(log', ratio)) # {}
               PROVE  Estimate(log', ratio)
                        <= LowWater + Scaled(Overweight(log', LastWave(log')), ratio) + 3
    BY <1>1 DEF Reclaimed
  <1>6. ~Reread(log)
    BY <1>5, RereadStays DEF Compacts
  <1>7. /\ Estimate(log', ratio) \in Nat /\ Estimate(log, ratio) \in Nat
        /\ Estimate(log', ratio) <= Estimate(log, ratio)
        /\ Candidates(log', Weights(log', ratio)) \subseteq Candidates(log, Weights(log, ratio))
    BY <1>1, <1>5, <1>6, CompactionReclaims
  <1>8. Overweight(log', LastWave(log')) = Overweight(log, LastWave(log))
    BY <1>1, <1>5, <1>6, CompactsKeeps
  <1>9. Estimate(log, ratio) >= HighWater /\ Candidates(log, Weights(log, ratio)) # {}
    BY <1>1, <1>7
  <1>10. Estimate(log, ratio) <= LowWater + Scaled(Overweight(log, LastWave(log)), ratio) + 3
    BY <1>1, <1>6, <1>9 DEF GateInv, Reclaimed
  <1>11. Scaled(Overweight(log, LastWave(log)), ratio) \in Nat
    BY <1>1, ExcessNat
  <1> QED
    BY <1>1, <1>7, <1>8, <1>10, <1>11

LEMMA GateInvNext ==
    ASSUME CtxInv, CtxInv', GateInv, [ContextNext]_ctxVars
    PROVE  GateInv'
  <1>1. LogInv(log')
    BY DEF CtxInv
  <1>2. CASE UNCHANGED <<log, pc, ratio>>
    BY <1>2 DEF GateInv
  <1>3. CASE pc' \notin {"floor", "overflow"}
    BY <1>3 DEF GateInv
  <1>4. ASSUME NEW next \in {"floor", "overflow"}, EmitEviction(TRUE, next), ratio' = ratio
        PROVE  GateInv'
    <2>1. pc' = next \/ pc' = "idle"
      BY <1>4 DEF EmitEviction, Emit
    <2> QED
      BY <1>1, <1>3, <1>4, <2>1, EvictionReclaims DEF GateInv
  <1>5. CASE GateEvict
    BY <1>4, <1>5 DEF GateEvict, turnVars
  <1>6. CASE GateFloor
    <2>1. CASE Estimate(log, ratio) >= HardLimit
      BY <1>4, <1>6, <2>1 DEF GateFloor, turnVars
    <2>2. CASE ~(Estimate(log, ratio) >= HardLimit)
      BY <1>6, <2>2 DEF GateFloor, GateInv, turnVars
    <2> QED
      BY <2>1, <2>2
  <1>7. ASSUME NEW ev, NEW next, next \notin {"floor", "overflow"}, Emit(ev, next)
        PROVE  GateInv'
    BY <1>3, <1>7 DEF Emit
  <1>8. CASE GateCompact \/ GateOverflow \/ Stream \/ Cancel \/ Replied
    <2>1. CASE GateCompact
      BY <1>7, <2>1 DEF GateCompact
    <2>2. CASE GateOverflow
      BY <1>7, <2>2 DEF GateOverflow
    <2>3. CASE StreamText \/ StreamCall \/ StreamFails
      BY <1>7, <2>3 DEF StreamText, StreamCall, StreamFails
    <2>4. CASE StreamEnds \/ ContextRetry
      BY <1>3, <2>4 DEF StreamEnds, ContextRetry, EmitEviction, Emit
    <2>5. CASE Cancel
      BY <1>7, <2>5 DEF Cancel
    <2>6. CASE Replied
      BY <1>7, <2>6 DEF Replied, Nudge, Reply
    <2> QED
      BY <1>8, <2>1, <2>2, <2>3, <2>4, <2>5, <2>6 DEF Stream
  <1>9. CASE RecordCompactions
    <2>1. \E ev : Emit(ev, CASE pc = "ran" -> "compact"
                             [] pc # "ran" /\ calls # {} -> "tool"
                             [] OTHER -> "replied")
      BY <1>9 DEF RecordCompactions
    <2> QED
      BY <1>7, <2>1
  <1>10. CASE Tools
    <2>1. AfterCall \notin {"floor", "overflow"}
      BY DEF AfterCall
    <2>2. CASE CapReached \/ RunTool \/ Recall
      BY <1>7, <2>1, <2>2 DEF CapReached, RunTool, Recall
    <2>3. CASE AskUser
      <3>1. \E ev, next : next \in {AfterCall, "idle"} /\ Emit(ev, next)
        BY <2>3 DEF AskUser
      <3>2. \A ev, next : next \in {AfterCall, "idle"} /\ Emit(ev, next) => GateInv'
        BY <1>7, <2>1
      <3> QED
        BY <3>1, <3>2
    <2> QED
      BY <1>10, <2>2, <2>3 DEF Tools
  <1>11. CASE Ask \/ ReportWakes
    BY <1>3, <1>11 DEF Ask, ReportWakes, TurnStarts
  <1>12. CASE Others
    BY <1>2, <1>12 DEF Others, CompactNow, CompactionAppended, SubagentReports, turnVars
  <1>13. CASE UNCHANGED ctxVars
    BY <1>2, <1>13 DEF ctxVars, turnVars
  <1> QED
    BY <1>5, <1>6, <1>8, <1>9, <1>10, <1>11, <1>12, <1>13 DEF ContextNext, Run, Gate

\* A request that is built over the high water mark, while there are turns that
\* could be paged out, is over the low water mark by no more than what the last
\* wave weighed too much and three tokens, under every policy (preflight_gate).
THEOREM GateIsEffective == ContextSpec => GateEffective
  <1>1. ContextInit => GateInv
    BY DEF ContextInit, GateInv
  <1>2. CtxInv /\ CtxInv' /\ GateInv /\ [ContextNext]_ctxVars => GateInv'
    BY GateInvNext
  <1>3. ASSUME CtxInv, CtxInv', GateInv, [ContextNext]_ctxVars
        PROVE  [(pc = "overflow" /\ pc' = "stream" /\ ~Reread(log')
                 /\ Estimate(log', ratio') >= HighWater
                 /\ Candidates(log', Weights(log', ratio')) # {})
                => Estimate(log', ratio')
                     <= LowWater + Scaled(Overweight(log', LastWave(log')), ratio') + 3]_ctxVars
    <2> SUFFICES ASSUME pc = "overflow", pc' = "stream", ~UNCHANGED ctxVars
                 PROVE  Reclaimed(log', ratio')
      BY DEF Reclaimed
    <2>1. GateOverflow
      BY <1>3 DEF ContextNext, Run, Gate, Stream, Replied, Tools, Others, Ask, ReportWakes,
                  GateCompact, GateEvict, GateFloor, StreamText, StreamCall, StreamEnds, ContextRetry,
                  StreamFails, Cancel, RecordCompactions, Nudge, Reply, CapReached, RunTool, Recall,
                  AskUser, CompactNow, CompactionAppended, SubagentReports, Tools
    <2> QED
      BY <1>3, <2>1, OverflowReclaims DEF CtxInv
  <1> QED
    BY <1>1, <1>2, <1>3, CtxInvHolds, PTL DEF ContextSpec, GateEffective

-----------------------------------------------------------------------------
(* What was appended.                                                       *)

\* A compaction remembers the size of the output it replaces.
OriginalsKept(l) ==
    \A j \in OfKind(l, "compacted") :
        \E r \in OfKind(l, "result") : l[r].ref = l[j].ref /\ l[j].original = Tokens(l[r].size)

LEMMA StepKeepsOriginals ==
    ASSUME NEW l, LogInv(l), NEW m, Step(l, m), ~Reread(m), OriginalsKept(l)
    PROVE  OriginalsKept(m)
  <1>1. Extends(l, m) /\ \A j \in DOMAIN m \ DOMAIN l : New(l, m[j])
    BY DEF Step
  <1>2. ~Reread(l)
    BY <1>1, RereadStays
  <1>3. \A r \in OfKind(l, "result") : r \in OfKind(m, "result") /\ m[r] = l[r]
    BY <1>1, ExtendsKinds DEF Extends, OfKind
  <1>4. ASSUME NEW j \in OfKind(m, "compacted")
        PROVE  \E r \in OfKind(l, "result") : l[r].ref = m[j].ref /\ m[j].original = Tokens(l[r].size)
    <2>1. CASE j \in DOMAIN l
      <3>1. j \in OfKind(l, "compacted") /\ m[j] = l[j]
        BY <1>1, <2>1, ExtendsKinds DEF Extends
      <3> QED
        BY <3>1 DEF OriginalsKept
    <2>2. CASE j \notin DOMAIN l
      <3>1. New(l, m[j]) /\ m[j].kind = "compacted"
        BY <1>1, <2>2 DEF OfKind
      <3>2. PICK r \in OfKind(l, "result"), was \in Nat :
               m[j] = Compacted(l[r].ref, Summary(l[r].size), was) /\ was = Tokens(l[r].size)
        BY <1>2, <3>1, NewOfKind DEF Summarises
      <3>3. m[j].ref = l[r].ref /\ m[j].original = was
        BY <3>2 DEF Compacted
      <3> QED
        BY <3>2, <3>3
    <2> QED
      BY <2>1, <2>2
  <1> QED
    BY <1>3, <1>4 DEF OriginalsKept

Phrases(l) == OfKind(l, "user") \cup OfKind(l, "warning") \cup OfKind(l, "delta")
Said(l) == [i \in Phrases(l) |-> Tokens(l[i].size)]
Printed(l) == [r \in OfKind(l, "result") |-> Tokens(l[r].size)]

LEMMA SaidAndPrinted ==
    ASSUME NEW l, LogInv(l)
    PROVE  /\ IsFiniteSet(Phrases(l)) /\ IsFiniteSet(OfKind(l, "result"))
           /\ \A i \in Phrases(l) : Said(l)[i] \in Nat
           /\ \A r \in OfKind(l, "result") : Printed(l)[r] \in Nat
  <1>1. IsFiniteSet(Phrases(l)) /\ IsFiniteSet(OfKind(l, "result"))
    BY LogShape, FS_Union DEF Phrases, LogInv
  <1>2. \A i \in Phrases(l) \cup OfKind(l, "result") : l[i].size \in Nat
    BY Sizes DEF Phrases, OfKind, LogInv
  <1> QED
    BY <1>1, <1>2, TokensNat DEF Said, Printed

\* So the count is of what was appended, whatever was compacted since.
LEMMA CumulativeOfLog ==
    ASSUME NEW l, LogInv(l), OriginalsKept(l)
    PROVE  /\ Cumulative(l) = SumFunctionOnSet(Said(l), Phrases(l))
                                + SumFunctionOnSet(Printed(l), OfKind(l, "result"))
           /\ SumFunctionOnSet(Said(l), Phrases(l)) \in Nat
           /\ SumFunctionOnSet(Printed(l), OfKind(l, "result")) \in Nat
  <1> DEFINE results == OfKind(l, "result")
             g == [r \in results |->
                      LET done == Compactions(l, l[r].ref)
                      IN IF done = {} THEN Tokens(l[r].size) ELSE l[Max(done)].original]
  <1>1. \A r \in results : g[r] = Printed(l)[r]
    <2> SUFFICES ASSUME NEW r \in results PROVE g[r] = Tokens(l[r].size)
      BY DEF Printed
    <2> DEFINE done == Compactions(l, l[r].ref)
    <2>1. done \subseteq 0..Len(l) /\ Len(l) \in Nat
      BY LogShape DEF Compactions, LogInv
    <2>2. \A j \in done : l[j].original = Tokens(l[r].size)
      <3> SUFFICES ASSUME NEW j \in done PROVE l[j].original = Tokens(l[r].size)
        OBVIOUS
      <3>1. j \in OfKind(l, "compacted") /\ l[j].ref = l[r].ref
        BY DEF Compactions
      <3>2. PICK q \in results : l[q].ref = l[j].ref /\ l[j].original = Tokens(l[q].size)
        BY <3>1 DEF OriginalsKept
      <3>3. q = r
        BY <3>1, <3>2, Results DEF LogInv
      <3> QED
        BY <3>2, <3>3
    <2>3. g[r] = IF done = {} THEN Tokens(l[r].size) ELSE l[Max(done)].original
      OBVIOUS
    <2> HIDE DEF done, g
    <2>4. done # {} => Max(done) \in done
      BY <2>1, BoundedMax
    <2> QED
      BY <2>2, <2>3, <2>4
  <1>2. Cumulative(l) = SumFunctionOnSet(Said(l), Phrases(l)) + SumFunctionOnSet(g, results)
    BY DEF Cumulative, SumFunction, Said, Phrases
  <1> HIDE DEF g, results
  <1>3. /\ SumFunctionOnSet(Said(l), Phrases(l)) \in Nat
        /\ SumFunctionOnSet(Printed(l), results) \in Nat
        /\ SumFunctionOnSet(g, results) = SumFunctionOnSet(Printed(l), results)
    BY <1>1, SaidAndPrinted, SumNat, SumAgree DEF results
  <1> QED
    BY <1>2, <1>3 DEF results

LEMMA StepGrows ==
    ASSUME NEW l, LogInv(l), OriginalsKept(l), NEW m, LogInv(m), OriginalsKept(m), Extends(l, m)
    PROVE  Cumulative(m) >= Cumulative(l)
  <1>1. /\ Phrases(l) \subseteq Phrases(m) /\ OfKind(l, "result") \subseteq OfKind(m, "result")
        /\ \A i \in Phrases(l) \cup OfKind(l, "result") : m[i] = l[i]
    BY ExtendsKinds DEF Extends, Phrases, OfKind
  <1>2. /\ \A i \in Phrases(l) : Said(l)[i] = Said(m)[i]
        /\ \A r \in OfKind(l, "result") : Printed(l)[r] = Printed(m)[r]
    BY <1>1 DEF Said, Printed
  <1>3. SumFunctionOnSet(Said(l), Phrases(l)) <= SumFunctionOnSet(Said(m), Phrases(m))
    BY <1>1, <1>2, SaidAndPrinted, SumGrows
  <1>4. SumFunctionOnSet(Printed(l), OfKind(l, "result")) <= SumFunctionOnSet(Printed(m), OfKind(m, "result"))
    BY <1>1, <1>2, SaidAndPrinted, SumGrows
  <1> QED
    BY <1>3, <1>4, CumulativeOfLog

OriginalsInv == Reread(log) \/ OriginalsKept(log)

LEMMA OriginalsInvNext ==
    ASSUME CtxInv, OriginalsInv, [ContextNext]_ctxVars
    PROVE  OriginalsInv' /\ (~Reread(log') => Cumulative(log') >= Cumulative(log))
  <1>1. LogInv(log) /\ Step(log, log') /\ Extends(log, log')
    BY CtxStep DEF CtxInv, Step
  <1>2. LogInv(log')
    BY <1>1, StepKeepsLog
  <1>3. ASSUME ~Reread(log')
        PROVE  OriginalsKept(log) /\ OriginalsKept(log')
    <2>1. OriginalsKept(log)
      BY <1>1, <1>3, RereadStays DEF OriginalsInv
    <2> QED
      BY <1>1, <1>3, <2>1, StepKeepsOriginals
  <1>4. ASSUME ~Reread(log')
        PROVE  Cumulative(log') >= Cumulative(log)
    BY <1>1, <1>2, <1>3, <1>4, StepGrows
  <1> QED
    BY <1>3, <1>4 DEF OriginalsInv

\* What a reminder of the system prompt waits for never shrinks, as long as no
\* file was read twice (reassert.rs).
THEOREM CumulativeNeverShrinks == ContextSpec => CumulativeGrows
  <1>1. ContextInit => OriginalsInv
    BY DEF ContextInit, OriginalsInv, OriginalsKept, OfKind
  <1>2. CtxInv /\ OriginalsInv /\ [ContextNext]_ctxVars => OriginalsInv'
    BY OriginalsInvNext
  <1>3. CtxInv /\ OriginalsInv /\ [ContextNext]_ctxVars
          => [~Reread(log') => Cumulative(log') >= Cumulative(log)]_ctxVars
    BY OriginalsInvNext
  <1> QED
    BY <1>1, <1>2, <1>3, CtxInvHolds, PTL DEF ContextSpec, CumulativeGrows
=============================================================================
