------------------------- MODULE SessionTurnProofs -------------------------
(***************************************************************************)
(* What a snapshot on disk is worth, for every vocabulary, image grid and   *)
(* limit: its rows and its recurrent state are those of its tokens, its     *)
(* history is never cut, and a turn reported saved is there.                *)
(*                                                                         *)
(* Rotary positions are typed last, by TypeInv: the invariant about         *)
(* snapshots needs a sequence of rows by its length and its kinds only      *)
(* (RowsOf).                                                               *)
(***************************************************************************)
EXTENDS SessionTurn, RangeSumTheorems, FiniteSetTheorems

-----------------------------------------------------------------------------
(* Lemmas on last and first elements.                                      *)

\* A nonempty set of numbers up to n has a greatest one.
LEMMA GreatestUpTo ==
    ASSUME NEW n \in Nat, NEW T \in SUBSET (1 .. n), T # {}
    PROVE  \E m \in T : \A k \in T : k <= m
<1> DEFINE U == {n - k : k \in T}
<1>1. U \in SUBSET Nat /\ U # {}
  <2>1. \A k \in T : n - k \in Nat
    OBVIOUS
  <2>2. U \in SUBSET Nat
    BY <2>1
  <2>3. PICK k \in T : TRUE
    OBVIOUS
  <2>4. n - k \in U
    OBVIOUS
  <2> QED
    BY <2>2, <2>4
<1>2. PICK u \in U : \A k \in U : u <= k
  <2> HIDE DEF U
  <2> QED
    BY <1>1, LeastElement
<1>3. PICK m \in T : u = n - m
  OBVIOUS
<1>4. ASSUME NEW k \in T PROVE k <= m
  <2>1. n - m <= n - k
    BY <1>2, <1>3
  <2>2. n \in Int /\ m \in Int /\ k \in Int
    OBVIOUS
  <2> QED
    BY <2>1, <2>2
<1> QED
  BY <1>3, <1>4

\* LastOf returns the greatest element, or 0.
LEMMA LastOfIsLast ==
    ASSUME NEW n \in Nat, NEW T \in SUBSET (1 .. n)
    PROVE  /\ T = {} => LastOf(T) = 0
           /\ T # {} => LastOf(T) \in T /\ \A k \in T : k <= LastOf(T)
<1>1. CASE T = {}
  BY <1>1 DEF LastOf
<1>2. CASE T # {}
  <2>1. \E m \in T : \A k \in T : k <= m
    BY <1>2, GreatestUpTo
  <2>2. LastOf(T) = CHOOSE m \in T : \A k \in T : k <= m
    BY <1>2 DEF LastOf
  <2> QED
    BY <1>2, <2>1, <2>2
<1> QED
  BY <1>1, <1>2

\* FirstOf returns the least element, or the default.
LEMMA FirstOfIsFirst ==
    ASSUME NEW n \in Nat, NEW T \in SUBSET (1 .. n), NEW default
    PROVE  /\ T = {} => FirstOf(T, default) = default
           /\ T # {} => FirstOf(T, default) \in T /\ \A k \in T : FirstOf(T, default) <= k
<1>1. CASE T = {}
  BY <1>1 DEF FirstOf
<1>2. CASE T # {}
  <2>1. T \in SUBSET Nat
    OBVIOUS
  <2>2. \E m \in T : \A k \in T : m <= k
    BY <1>2, <2>1, LeastElement
  <2>3. FirstOf(T, default) = CHOOSE m \in T : \A k \in T : m <= k
    BY <1>2 DEF FirstOf
  <2> QED
    BY <1>2, <2>2, <2>3
<1> QED
  BY <1>1, <1>2

-----------------------------------------------------------------------------
(* Lemmas on the chat template.                                            *)

\* The pads of an image.
LEMMA PadsType ==
    ASSUME NEW grid \in Grids \cup {NoGrid}
    PROVE  Pads(grid) \in Seq(Kinds)
<1>1. CASE grid = NoGrid
  BY <1>1 DEF Pads
<1>2. CASE grid # NoGrid
  <2>1. grid[1] \in Nat /\ grid[2] \in Nat
    BY <1>2, SessionAssumption
  <2>2. grid[1] * grid[2] \in Nat
    BY <2>1
  <2>3. "pad" \in Kinds
    BY DEF Kinds
  <2> QED
    BY <1>2, <2>2, <2>3 DEF Pads
<1> QED
  BY <1>1, <1>2

\* A prompt is a sequence of kinds.
LEMMA PromptType ==
    ASSUME NEW thinking \in BOOLEAN, NEW grid \in Grids \cup {NoGrid}
    PROVE  ChatPrompt(thinking, grid) \in Seq(Kinds) /\ Len(ChatPrompt(thinking, grid)) >= 5
<1>1. Pads(grid) \in Seq(Kinds)
  BY PadsType
<1> DEFINE tail == IF thinking THEN <<>> ELSE <<"close">>
<1>2. tail \in Seq(Kinds)
  <2>1. <<>> \in Seq(Kinds) /\ <<"close">> \in Seq(Kinds)
    BY DEF Kinds
  <2> QED
    BY <2>1
<1>3. <<"start">> \in Seq(Kinds) /\ <<"text", "end", "start", "open">> \in Seq(Kinds)
  BY DEF Kinds
<1>4. Len(<<"start">>) = 1 /\ Len(<<"text", "end", "start", "open">>) = 4
  OBVIOUS
<1>5. ChatPrompt(thinking, grid) =
        <<"start">> \o Pads(grid) \o <<"text", "end", "start", "open">> \o tail
  BY DEF ChatPrompt
<1> QED
  <2> HIDE DEF tail
  <2> QED
    BY <1>1, <1>2, <1>3, <1>4, <1>5

\* So is a continuation.
LEMMA ContinuationType ==
    ASSUME NEW history, NEW thinking \in BOOLEAN, NEW grid \in Grids \cup {NoGrid}
    PROVE  /\ Continuation(history, thinking, grid) \in Seq(Kinds)
           /\ Len(Continuation(history, thinking, grid)) >= 5
<1> DEFINE closing == IF history[Len(history)] = "end" THEN <<>> ELSE <<"end">>
<1>1. closing \in Seq(Kinds)
  <2>1. <<>> \in Seq(Kinds) /\ <<"end">> \in Seq(Kinds)
    BY DEF Kinds
  <2> QED
    BY <2>1
<1>2. Continuation(history, thinking, grid) = closing \o ChatPrompt(thinking, grid)
  BY DEF Continuation
<1> QED
  <2> HIDE DEF closing
  <2> QED
    BY <1>1, <1>2, PromptType

-----------------------------------------------------------------------------
(* Lemmas on rows.                                                         *)

ASequence(s) == \E S : s \in Seq(S)

\* rs are the rows of the first n tokens of ts.
RowsOf(rs, ts, n) ==
    /\ ASequence(rs) /\ Len(rs) = n
    /\ \A i \in 1 .. n : rs[i].kind = EmbeddedAs(ts[i])

\* Two sequences have a set of elements in common.
LEMMA CommonSet ==
    ASSUME NEW s, NEW t, ASequence(s), ASequence(t)
    PROVE  \E S : s \in Seq(S) /\ t \in Seq(S)
<1>1. PICK S : s \in Seq(S)
  BY DEF ASequence
<1>2. PICK T : t \in Seq(T)
  BY DEF ASequence
<1>3. s \in Seq(S \cup T) /\ t \in Seq(S \cup T)
  BY <1>1, <1>2
<1> QED
  BY <1>3

\* A concatenation, element by element.
LEMMA Concatenation ==
    ASSUME NEW s, NEW t, ASequence(s), ASequence(t)
    PROVE  /\ ASequence(s \o t)
           /\ Len(s) \in Nat /\ Len(t) \in Nat
           /\ Len(s \o t) = Len(s) + Len(t)
           /\ \A i \in 1 .. Len(s) : (s \o t)[i] = s[i]
           /\ \A i \in Len(s) + 1 .. Len(s) + Len(t) : (s \o t)[i] = t[i - Len(s)]
<1>1. PICK S : s \in Seq(S) /\ t \in Seq(S)
  BY CommonSet
<1>2. s \o t \in Seq(S)
  BY <1>1
<1> QED
  BY <1>1, <1>2 DEF ASequence

\* A function on 1 .. n is a sequence.
LEMMA FunctionIsSequence ==
    ASSUME NEW n \in Nat, NEW S, NEW f \in [1 .. n -> S]
    PROVE  ASequence(f) /\ Len(f) = n
<1>1. f \in Seq(S) /\ Len(f) = n
  OBVIOUS
<1> QED
  BY <1>1 DEF ASequence

\* A chunk has a row for each of its tokens.
LEMMA ChunkRowsAreRows ==
    ASSUME NEW chunk, ASequence(chunk), NEW base, NEW grid
    PROVE  RowsOf(ChunkRows(chunk, base, grid), chunk, Len(chunk))
<1> DEFINE n == Len(chunk)
           pos(s) == LET before == {r \in 1 .. s - 1 : chunk[r] # "pad"}
                         past == chunk[s] # "pad" /\ Cardinality(before) < s - 1
                     IN  base + Cardinality(before) + (IF past THEN Extent(grid) ELSE 0)
           row(s) == [kind |-> IF chunk[s] = "pad" THEN "image" ELSE chunk[s],
                      pos |-> pos(s)]
           f == [s \in 1 .. n |-> row(s)]
<1>1. ChunkRows(chunk, base, grid) = f
  BY DEF ChunkRows
<1>2. \A s : row(s).kind = EmbeddedAs(chunk[s])
  BY DEF EmbeddedAs
<1>3. n \in Nat
  BY DEF ASequence
<1> HIDE DEF row
<1>4. f \in [1 .. n -> {row(s) : s \in 1 .. n}]
  OBVIOUS
<1>5. \A i \in 1 .. n : f[i] = row(i)
  OBVIOUS
<1> HIDE DEF f, n
<1>6. ASequence(f) /\ Len(f) = n
  BY <1>3, <1>4, FunctionIsSequence
<1>7. RowsOf(f, chunk, n)
  BY <1>2, <1>5, <1>6 DEF RowsOf
<1> QED
  BY <1>1, <1>7 DEF n

\* The kinds of rows, one by one.
LEMMA KindsOfRows ==
    ASSUME NEW rs, ASequence(rs)
    PROVE  /\ ASequence(KindsOf(rs)) /\ Len(KindsOf(rs)) = Len(rs)
           /\ \A i \in 1 .. Len(rs) : KindsOf(rs)[i] = rs[i].kind
<1>1. DOMAIN rs = 1 .. Len(rs) /\ Len(rs) \in Nat
  BY DEF ASequence
<1> DEFINE f == [i \in 1 .. Len(rs) |-> rs[i].kind]
<1>2. KindsOf(rs) = f
  BY <1>1 DEF KindsOf
<1>3. f \in [1 .. Len(rs) -> {rs[i].kind : i \in 1 .. Len(rs)}]
  OBVIOUS
<1>4. \A i \in 1 .. Len(rs) : f[i] = rs[i].kind
  OBVIOUS
<1> HIDE DEF f
<1> QED
  BY <1>1, <1>2, <1>3, <1>4, FunctionIsSequence

\* They are kinds of embeddings.
LEMMA KindsOfType ==
    ASSUME NEW rs \in Seq(Rows)
    PROVE  KindsOf(rs) \in Seq(Embedded)
<1>1. ASSUME NEW i \in 1 .. Len(rs) PROVE rs[i].kind \in Embedded
  <2>1. rs[i] \in Rows
    OBVIOUS
  <2> QED
    BY <2>1 DEF Rows
<1>2. DOMAIN rs = 1 .. Len(rs) /\ Len(rs) \in Nat
  OBVIOUS
<1>3. KindsOf(rs) = [i \in 1 .. Len(rs) |-> rs[i].kind]
  BY <1>2 DEF KindsOf
<1> QED
  BY <1>1, <1>2, <1>3

\* Sequences of the same length with the same elements are equal.
LEMMA SequencesEqual ==
    ASSUME NEW s, NEW t, ASequence(s), ASequence(t), Len(s) = Len(t),
           \A i \in 1 .. Len(s) : s[i] = t[i]
    PROVE  s = t
<1>1. PICK S : s \in Seq(S) /\ t \in Seq(S)
  BY CommonSet
<1> QED
  BY <1>1

\* The kinds of a concatenation are those of its parts.
LEMMA KindsOfConcatenation ==
    ASSUME NEW rs, NEW more, ASequence(rs), ASequence(more)
    PROVE  KindsOf(rs \o more) = KindsOf(rs) \o KindsOf(more)
<1> DEFINE l == KindsOf(rs \o more)
           r == KindsOf(rs) \o KindsOf(more)
<1>1. ASequence(rs \o more) /\ Len(rs \o more) = Len(rs) + Len(more)
  BY Concatenation
<1>2. ASequence(l) /\ Len(l) = Len(rs) + Len(more)
  BY <1>1, KindsOfRows
<1>3. ASequence(r) /\ Len(r) = Len(rs) + Len(more)
  BY KindsOfRows, Concatenation
<1>4. \A i \in 1 .. Len(rs) + Len(more) : l[i] = r[i]
  <2> SUFFICES ASSUME NEW i \in 1 .. Len(rs) + Len(more) PROVE l[i] = r[i]
    OBVIOUS
  <2>1. l[i] = (rs \o more)[i].kind
    BY <1>1, KindsOfRows
  <2>2. Len(rs) \in Nat /\ Len(more) \in Nat
    BY Concatenation
  <2>3. CASE i \in 1 .. Len(rs)
    <3>1. (rs \o more)[i] = rs[i]
      BY <2>3, Concatenation
    <3>2. r[i] = KindsOf(rs)[i]
      BY <2>3, KindsOfRows, Concatenation
    <3> QED
      BY <2>1, <2>3, <3>1, <3>2, KindsOfRows
  <2>4. CASE i \in Len(rs) + 1 .. Len(rs) + Len(more)
    <3>1. (rs \o more)[i] = more[i - Len(rs)]
      BY <2>4, Concatenation
    <3>2. r[i] = KindsOf(more)[i - Len(rs)]
      BY <2>4, KindsOfRows, Concatenation
    <3>3. i - Len(rs) \in 1 .. Len(more)
      BY <2>2, <2>4
    <3> QED
      BY <2>1, <3>1, <3>2, <3>3, KindsOfRows
  <2>5. i \in 1 .. Len(rs) \/ i \in Len(rs) + 1 .. Len(rs) + Len(more)
    BY <2>2
  <2> HIDE DEF l, r
  <2> QED
    BY <2>3, <2>4, <2>5
<1> QED
  <2> HIDE DEF l, r
  <2>1. l = r
    BY <1>2, <1>3, <1>4, SequencesEqual
  <2> QED
    BY <2>1 DEF l, r

\* Rows of a prefix, followed by rows of what comes next.
LEMMA RowsJoin ==
    ASSUME NEW n \in Nat, NEW rs, NEW ts, RowsOf(rs, ts, n),
           NEW m \in Nat, NEW more, NEW chunk, RowsOf(more, chunk, m),
           NEW us, \A i \in 1 .. n : us[i] = ts[i], \A i \in 1 .. m : us[n + i] = chunk[i]
    PROVE  RowsOf(rs \o more, us, n + m)
<1>1. /\ ASequence(rs) /\ ASequence(more) /\ Len(rs) = n /\ Len(more) = m
      /\ \A i \in 1 .. n : rs[i].kind = EmbeddedAs(ts[i])
      /\ \A i \in 1 .. m : more[i].kind = EmbeddedAs(chunk[i])
  BY DEF RowsOf
<1>2. ASequence(rs \o more) /\ Len(rs \o more) = n + m
  BY <1>1, Concatenation
<1>3. ASSUME NEW i \in 1 .. n + m PROVE (rs \o more)[i].kind = EmbeddedAs(us[i])
  <2>1. CASE i \in 1 .. n
    BY <1>1, <2>1, Concatenation
  <2>2. CASE i \in n + 1 .. n + m
    <3>1. (rs \o more)[i] = more[i - n]
      BY <1>1, <2>2, Concatenation
    <3>2. i - n \in 1 .. m /\ n + (i - n) = i
      BY <2>2
    <3>3. us[i] = chunk[i - n]
      BY <3>2
    <3> QED
      BY <1>1, <3>1, <3>2, <3>3
  <2>3. i \in 1 .. n \/ i \in n + 1 .. n + m
    OBVIOUS
  <2> QED
    BY <2>1, <2>2, <2>3
<1> QED
  BY <1>2, <1>3 DEF RowsOf

\* One more row.
LEMMA RowsAppend ==
    ASSUME NEW n \in Nat, NEW rs, NEW ts, RowsOf(rs, ts, n),
           NEW row, row.kind = EmbeddedAs(ts[n + 1])
    PROVE  /\ RowsOf(Append(rs, row), ts, n + 1)
           /\ KindsOf(Append(rs, row)) = Append(KindsOf(rs), row.kind)
<1>1. ASequence(rs) /\ Len(rs) = n
  BY DEF RowsOf
<1>2. PICK S : rs \in Seq(S)
  BY <1>1 DEF ASequence
<1>3. rs \in Seq(S \cup {row}) /\ <<row>> \in Seq(S \cup {row})
  BY <1>2
<1>4. Append(rs, row) = rs \o <<row>>
  BY <1>3
<1>5. ASequence(<<row>>) /\ Len(<<row>>) = 1 /\ <<row>>[1] = row
  BY <1>3 DEF ASequence
<1>6. RowsOf(<<row>>, <<ts[n + 1]>>, 1)
  BY <1>5 DEF RowsOf
<1>7. RowsOf(rs \o <<row>>, ts, n + 1)
  <2>1. \A i \in 1 .. 1 : ts[n + i] = <<ts[n + 1]>>[i]
    OBVIOUS
  <2> QED
    BY <1>6, <2>1, RowsJoin, 1 \in Nat
<1>8. KindsOf(<<row>>) = <<row.kind>>
  <2>1. ASequence(KindsOf(<<row>>)) /\ Len(KindsOf(<<row>>)) = 1 /\ KindsOf(<<row>>)[1] = row.kind
    BY <1>5, KindsOfRows
  <2>2. <<row.kind>> \in Seq({row.kind})
    OBVIOUS
  <2>3. ASequence(<<row.kind>>) /\ Len(<<row.kind>>) = 1 /\ <<row.kind>>[1] = row.kind
    BY <2>2 DEF ASequence
  <2> QED
    BY <2>1, <2>3, SequencesEqual
<1>9. KindsOf(rs \o <<row>>) = KindsOf(rs) \o <<row.kind>>
  BY <1>1, <1>5, <1>8, KindsOfConcatenation
<1>10. KindsOf(rs) \o <<row.kind>> = Append(KindsOf(rs), row.kind)
  <2>1. PICK T : KindsOf(rs) \in Seq(T)
    BY <1>1, KindsOfRows DEF ASequence
  <2>2. KindsOf(rs) \in Seq(T \cup {row.kind}) /\ <<row.kind>> \in Seq(T \cup {row.kind})
    BY <2>1
  <2> QED
    BY <2>2
<1> QED
  BY <1>4, <1>7, <1>9, <1>10

\* A continuation prefills the last token of the history and what follows.
LEMMA ResumedRows ==
    ASSUME NEW h \in Seq(Kinds), Len(h) >= 2, NEW extra \in Seq(Kinds),
           NEW rs, RowsOf(rs, h, Len(h) - 1), NEW base, NEW grid
    PROVE  LET chunk == <<h[Len(h)]>> \o extra
           IN  RowsOf(rs \o ChunkRows(chunk, base, grid), h \o extra, Len(h) + Len(extra))
<1> DEFINE chunk == <<h[Len(h)]>> \o extra
           n == Len(h) - 1
           m == Len(extra) + 1
<1>1. <<h[Len(h)]>> \in Seq(Kinds)
  OBVIOUS
<1>2. chunk \in Seq(Kinds) /\ Len(chunk) = m
  BY <1>1
<1>3. n \in Nat /\ m \in Nat /\ n + m = Len(h) + Len(extra)
  OBVIOUS
<1>4. RowsOf(ChunkRows(chunk, base, grid), chunk, m)
  BY <1>2, ChunkRowsAreRows DEF ASequence
<1>5. \A i \in 1 .. n : (h \o extra)[i] = h[i]
  OBVIOUS
<1>6. \A i \in 1 .. m : (h \o extra)[n + i] = chunk[i]
  BY <1>1
<1> HIDE DEF chunk, n, m
<1>7. RowsOf(rs, h, n)
  BY DEF n
<1>8. RowsOf(rs \o ChunkRows(chunk, base, grid), h \o extra, n + m)
  BY <1>3, <1>4, <1>5, <1>6, <1>7, RowsJoin
<1> QED
  BY <1>3, <1>8 DEF chunk

-----------------------------------------------------------------------------
(* Lemmas on where a transcript is cut.                                    *)

\* The trim of a cancelled answer ends in the answer, or keeps nothing.
LEMMA TrimIsInAnswer ==
    ASSUME tokens \in Seq(Kinds), answer \in Nat
    PROVE  CancelledTrim = 0 \/ CancelledTrim \in answer + 1 .. Len(tokens)
<1> DEFINE at(kind) == {i \in answer + 1 .. Len(tokens) : tokens[i] = kind}
           opened == LastOf(at("open"))
           closed == LastOf(at("close"))
           final == IF opened > closed THEN opened - 1 ELSE Len(tokens)
           T == {i \in at("stop") : closed < i /\ i <= final}
<1>1. CancelledTrim = LastOf(T)
  BY DEF CancelledTrim, LastSentence
<1>2. T \subseteq answer + 1 .. Len(tokens)
  OBVIOUS
<1> HIDE DEF T
<1>3. Len(tokens) \in Nat /\ T \in SUBSET (1 .. Len(tokens))
  BY <1>2
<1>4. LastOf(T) = 0 \/ LastOf(T) \in T
  BY <1>3, LastOfIsLast
<1> QED
  BY <1>1, <1>2, <1>4

\* The tail that a compaction keeps begins at a message, and has no image.
LEMMA TailIsText ==
    ASSUME NEW h \in Seq(Kinds)
    PROVE  LET t == TextTailStart(h)
           IN  /\ t \in 1 .. Len(h) + 1
               /\ t <= Len(h) => h[t] = "start"
               /\ \A i \in t .. Len(h) : h[i] # "pad"
<1> DEFINE n == Len(h)
           starts == MessageStarts(h)
           desired == IF n > TargetTail THEN n - TargetTail + 1 ELSE 1
           after == {i \in starts : i >= desired}
           before == {i \in starts : i < desired /\ n - i + 1 <= 2 * TargetTail}
<1>1. n \in Nat
  OBVIOUS
<1>2. starts \subseteq 1 .. n /\ \A i \in starts : h[i] = "start"
  BY DEF MessageStarts
<1>3. TailStart(h) = IF after # {} THEN FirstOf(after, n + 1)
                     ELSE IF before # {} THEN LastOf(before) ELSE n + 1
  BY DEF TailStart
<1>4. after \in SUBSET starts /\ before \in SUBSET starts
  OBVIOUS
<1> HIDE DEF n, starts, after, before
<1>5. after \in SUBSET (1 .. n) /\ before \in SUBSET (1 .. n)
  BY <1>2, <1>4
<1>6. TailStart(h) \in starts \/ TailStart(h) = n + 1
  <2>1. after # {} => FirstOf(after, n + 1) \in after
    BY <1>1, <1>5, FirstOfIsFirst
  <2>2. before # {} => LastOf(before) \in before
    BY <1>1, <1>5, LastOfIsLast
  <2> QED
    BY <1>3, <1>4, <2>1, <2>2
<1>7. TailStart(h) \in 1 .. n + 1
  <2>1. starts \subseteq 1 .. n
    BY <1>2
  <2>2. 1 .. n \subseteq 1 .. n + 1 /\ n + 1 \in 1 .. n + 1
    BY <1>1
  <2> QED
    BY <1>6, <2>1, <2>2
<1> DEFINE images == {i \in TailStart(h) .. n : h[i] = "pad"}
           image == LastOf(images)
           later == {i \in starts : i > image}
<1>8. TextTailStart(h) = IF image = 0 THEN TailStart(h) ELSE FirstOf(later, n + 1)
  BY DEF TextTailStart, n, starts
<1>9. images \subseteq TailStart(h) .. n /\ \A i \in TailStart(h) .. n : h[i] = "pad" => i \in images
  OBVIOUS
<1> HIDE DEF images
<1>10. images \in SUBSET (1 .. n)
  BY <1>1, <1>7, <1>9
<1>11. CASE image = 0
  <2>1. images = {}
    <3>1. images # {} => image \in images
      BY <1>1, <1>10, LastOfIsLast
    <3>2. 0 \notin 1 .. n
      OBVIOUS
    <3> QED
      BY <1>10, <1>11, <3>1, <3>2
  <2>2. TextTailStart(h) = TailStart(h)
    BY <1>8, <1>11
  <2>3. TailStart(h) <= n => h[TailStart(h)] = "start"
    <3>1. CASE TailStart(h) \in starts
      BY <1>2, <3>1
    <3>2. CASE TailStart(h) = n + 1
      BY <1>1, <3>2
    <3> QED
      BY <1>6, <3>1, <3>2
  <2> QED
    BY <1>7, <1>9, <2>1, <2>2, <2>3 DEF n
<1>12. CASE image # 0
  <2>1. image \in images /\ \A k \in images : k <= image
    BY <1>1, <1>10, <1>12, LastOfIsLast
  <2>2. image \in TailStart(h) .. n
    BY <1>9, <2>1
  <2>3. later \in SUBSET (1 .. n) /\ \A i \in later : i > image /\ h[i] = "start"
    BY <1>2
  <2>4. TextTailStart(h) = FirstOf(later, n + 1)
    BY <1>8, <1>12
  <2> HIDE DEF image, later
  <2>5. TextTailStart(h) = n + 1 \/ TextTailStart(h) \in later
    <3>1. later \in SUBSET (1 .. n)
      BY <2>3
    <3>2. later # {} => FirstOf(later, n + 1) \in later
      BY <1>1, <3>1, FirstOfIsFirst
    <3>3. later = {} => FirstOf(later, n + 1) = n + 1
      BY <1>1, <3>1, FirstOfIsFirst
    <3> QED
      BY <2>4, <3>2, <3>3
  <2>6. TextTailStart(h) \in 1 .. n + 1 /\ TextTailStart(h) > image
    <3>1. image \in 1 .. n
      BY <1>1, <1>7, <2>2
    <3>2. CASE TextTailStart(h) = n + 1
      BY <1>1, <3>1, <3>2
    <3>3. CASE TextTailStart(h) \in later
      <4>1. TextTailStart(h) \in 1 .. n /\ TextTailStart(h) > image
        BY <2>3, <3>3
      <4> QED
        BY <1>1, <4>1
    <3> QED
      BY <2>5, <3>2, <3>3
  <2>7. TextTailStart(h) <= n => h[TextTailStart(h)] = "start"
    <3>1. CASE TextTailStart(h) = n + 1
      BY <1>1, <3>1
    <3>2. CASE TextTailStart(h) \in later
      BY <2>3, <3>2
    <3> QED
      BY <2>5, <3>1, <3>2
  <2>8. ASSUME NEW i \in TextTailStart(h) .. n PROVE h[i] # "pad"
    <3>1. i \in TailStart(h) .. n /\ i > image
      BY <1>1, <1>7, <2>2, <2>6
    <3> QED
      BY <1>1, <1>9, <2>1, <2>2, <3>1
  <2> QED
    BY <2>6, <2>7, <2>8 DEF n
<1> QED
  BY <1>11, <1>12

\* A compacted transcript is text, and ends with whole messages of the old one.
LEMMA CompactedIsText ==
    ASSUME NEW h \in Seq(Kinds), Len(Compacted(h)) < Len(h)
    PROVE  /\ Compacted(h) \in Seq(Kinds) /\ Len(Compacted(h)) >= 3
           /\ \A i \in 1 .. Len(Compacted(h)) : Compacted(h)[i] # "pad"
           /\ Shortens(Compacted(h), h)
<1> DEFINE t == TextTailStart(h)
           head == <<"start", "text", "end">>
           tail == SubSeq(h, t, Len(h))
           c == Compacted(h)
<1>1. /\ t \in 1 .. Len(h) + 1
      /\ t <= Len(h) => h[t] = "start"
      /\ \A i \in t .. Len(h) : h[i] # "pad"
  BY TailIsText
<1>2. c = head \o tail
  BY DEF Compacted
<1>3. head \in Seq(Kinds) /\ Len(head) = 3
  BY DEF Kinds
<1>11. \A i \in 1 .. 3 : head[i] # "pad"
  OBVIOUS
<1> HIDE DEF t
<1>4. tail \in Seq(Kinds) /\ Len(tail) = Len(h) + 1 - t
  BY <1>1
<1>5. \A i \in 1 .. Len(tail) : tail[i] # "pad"
  BY <1>1, <1>4
<1> HIDE DEF head, tail
<1>6. c \in Seq(Kinds) /\ Len(c) = 3 + Len(tail)
  <2>1. tail \in Seq(Kinds) /\ head \in Seq(Kinds)
    BY <1>3, <1>4
  <2>2. head \o tail \in Seq(Kinds) /\ Len(head \o tail) = Len(head) + Len(tail)
    BY <2>1
  <2> HIDE DEF c
  <2> QED
    BY <1>2, <1>3, <2>2
<1>7. \A i \in 1 .. Len(c) : c[i] # "pad"
  <2> SUFFICES ASSUME NEW i \in 1 .. Len(c) PROVE c[i] # "pad"
    OBVIOUS
  <2>1. CASE i <= 3
    <3>1. i \in 1 .. 3 /\ c[i] = head[i]
      BY <1>2, <1>3, <1>4, <1>6, <2>1
    <3> QED
      BY <1>11, <3>1
  <2>2. CASE i > 3
    <3>1. i - 3 \in 1 .. Len(tail) /\ c[i] = tail[i - 3]
      BY <1>2, <1>3, <1>4, <1>6, <2>2
    <3> QED
      BY <1>5, <3>1
  <2> QED
    BY <2>1, <2>2
<1>8. SubSeq(c, 4, Len(c)) = tail
  BY <1>2, <1>3, <1>4, <1>6
<1>9. Shortens(c, h)
  BY <1>1, <1>8 DEF Shortens, tail
<1>10. Len(tail) \in Nat
  BY <1>4
<1> QED
  BY <1>6, <1>7, <1>9, <1>10
-----------------------------------------------------------------------------
(* The invariant.                                                          *)

\* The recurrent state is that of the rows, unless a cancelled turn left its own.
ExactState(isResidue, state, rs) == ~isResidue => state = KindsOf(rs)

\* What a snapshot is.
Snapshot(s) ==
    /\ s.tokens \in Seq(Kinds) /\ Len(s.tokens) >= 2
    /\ RowsOf(s.rows, s.tokens, Len(s.tokens) - 1)
    /\ ASequence(s.recurrent) /\ s.residue \in BOOLEAN
    /\ ExactState(s.residue, s.recurrent, s.rows)

FileInv == file # NoFile => Snapshot(file)

\* Nothing is held between calls, nor while a summary is made.
AtRest == rows = <<>> /\ recurrent = <<>> /\ residue = FALSE

RestInv ==
    /\ phase \in {"idle", "down", "summary"} => AtRest
    /\ phase = "summary" => file # NoFile

\* While a turn decodes, the history on disk is a prefix of what it resumed; all
\* tokens have rows, except the last one from its choice to its step.
Stepped == RowsOf(rows, tokens, Len(tokens)) /\ ExactState(residue, recurrent, rows)
Chosen == RowsOf(rows, tokens, Len(tokens) - 1) /\ ExactState(residue, recurrent, rows)

TurnInv ==
    phase \in {"decode", "sink", "step", "finish"} =>
        /\ tokens \in Seq(Kinds) /\ answer \in 2 .. Len(tokens)
        /\ ASequence(recurrent)
        /\ file # NoFile =>
             /\ Len(file.tokens) <= answer
             /\ \A i \in 1 .. Len(file.tokens) : tokens[i] = file.tokens[i]
        /\ phase = "decode" => Stepped
        /\ phase \in {"sink", "step"} => Chosen /\ tokens[Len(tokens)] # "pad"
        /\ phase = "finish" =>
             Chosen \/ (cancelled /\ RowsOf(rows, tokens, Len(tokens)))

\* While a compaction prefills, all is text, and the rows so far are exact.
PrefillInv ==
    phase = "prefill" =>
        /\ tokens \in Seq(Kinds) /\ Len(tokens) >= 2
        /\ \A i \in 1 .. Len(tokens) : tokens[i] # "pad"
        /\ RowsOf(rows, tokens, Len(rows)) /\ Len(rows) <= Len(tokens) - 1
        /\ recurrent = KindsOf(rows) /\ residue = FALSE
        /\ file # NoFile => Shortens(tokens, file.tokens)

\* What may take the place of the snapshot.
Succeeds(new) ==
    file # NoFile => Extends(new, file.tokens) \/ Shortens(new, file.tokens)

\* While a save is made, what it writes is a snapshot that may follow the last.
SaveInv ==
    /\ phase \in {"save", "write"} =>
        /\ tokens \in Seq(Kinds) /\ Len(tokens) >= 2
        /\ RowsOf(SavedRows, tokens, Len(tokens) - 1)
        /\ ASequence(recurrent)
        /\ ExactState(residue, recurrent, SavedRows)
        /\ Succeeds(tokens)
    /\ phase = "rename" => Snapshot(temp) /\ Succeeds(temp.tokens)

SessionInv ==
    /\ residue \in BOOLEAN /\ cancelled \in BOOLEAN
    /\ FileInv /\ RestInv /\ TurnInv /\ PrefillInv /\ SaveInv

-----------------------------------------------------------------------------
(* More on rows, in the words of the invariant.                            *)

\* The first rows of rows are rows.
LEMMA RowsCut ==
    ASSUME NEW n \in Nat, NEW rs, NEW ts, RowsOf(rs, ts, n), NEW k \in 0 .. n
    PROVE  /\ RowsOf(SubSeq(rs, 1, k), ts, k)
           /\ k = n => SubSeq(rs, 1, k) = rs
<1>1. ASequence(rs) /\ Len(rs) = n /\ \A i \in 1 .. n : rs[i].kind = EmbeddedAs(ts[i])
  BY DEF RowsOf
<1>2. PICK S : rs \in Seq(S)
  BY <1>1 DEF ASequence
<1>3. /\ SubSeq(rs, 1, k) \in Seq(S) /\ Len(SubSeq(rs, 1, k)) = k
      /\ \A i \in 1 .. k : SubSeq(rs, 1, k)[i] = rs[i]
  BY <1>1, <1>2
<1>4. RowsOf(SubSeq(rs, 1, k), ts, k)
  <2>1. ASequence(SubSeq(rs, 1, k))
    BY <1>3 DEF ASequence
  <2>2. \A i \in 1 .. k : i \in 1 .. n
    OBVIOUS
  <2>3. \A i \in 1 .. k : SubSeq(rs, 1, k)[i].kind = EmbeddedAs(ts[i])
    BY <1>1, <1>3, <2>2
  <2> QED
    BY <1>3, <2>1, <2>3 DEF RowsOf
<1>5. ASSUME k = n PROVE SubSeq(rs, 1, k) = rs
  <2>1. ASequence(SubSeq(rs, 1, k))
    BY <1>3 DEF ASequence
  <2> QED
    BY <1>1, <1>3, <1>5, <2>1, SequencesEqual
<1> QED
  BY <1>4, <1>5

\* Rows of tokens are rows of any other tokens that begin the same.
LEMMA RowsOfSame ==
    ASSUME NEW n, NEW rs, NEW ts, RowsOf(rs, ts, n),
           NEW us, \A i \in 1 .. n : us[i] = ts[i]
    PROVE  RowsOf(rs, us, n)
BY DEF RowsOf

-----------------------------------------------------------------------------
(* Each action keeps the invariant.                                        *)

LEMMA GenerateKeeps ==
    ASSUME SessionInv, NEW thinking \in BOOLEAN, NEW grid \in Grids \cup {NoGrid},
           Generate(thinking, grid), phase' = "decode", cancelled' = FALSE, file' = file
    PROVE  SessionInv'
<1> DEFINE prompt == ChatPrompt(thinking, grid)
           new == ChunkRows(prompt, 0, grid)
<1>1. prompt \in Seq(Kinds) /\ Len(prompt) >= 5
  BY PromptType
<1>2. /\ file = NoFile /\ tokens' = prompt /\ answer' = Len(prompt)
      /\ rows' = new /\ recurrent' = KindsOf(new) /\ residue' = FALSE
  BY DEF Generate
<1> HIDE DEF prompt
<1>3. RowsOf(new, prompt, Len(prompt))
  BY <1>1, ChunkRowsAreRows DEF ASequence
<1> HIDE DEF new
<1>4. ASequence(KindsOf(new))
  BY <1>3, KindsOfRows DEF RowsOf
<1>5. Stepped'
  BY <1>2, <1>3 DEF Stepped, ExactState
<1>6. TurnInv'
  BY <1>1, <1>2, <1>4, <1>5 DEF TurnInv
<1> QED
  BY <1>2, <1>6 DEF SessionInv, FileInv, RestInv, PrefillInv, SaveInv

LEMMA ResumeKeeps ==
    ASSUME SessionInv, NEW thinking \in BOOLEAN, NEW grid \in Grids \cup {NoGrid},
           Resume(thinking, grid), phase' = "decode", cancelled' = FALSE, file' = file
    PROVE  SessionInv'
<1> DEFINE h == file.tokens
           extra == Continuation(h, thinking, grid)
           base == HistoryDelta(SubSeq(h, 1, Len(h) - 1))
           chunk == <<h[Len(h)]>> \o extra
           new == ChunkRows(chunk, Len(h) - 1 + base, grid)
<1>1. Snapshot(file)
  BY DEF Resume, SessionInv, FileInv
<1>2. h \in Seq(Kinds) /\ Len(h) \in Nat /\ Len(h) >= 2
  BY <1>1 DEF Snapshot
<1>3. extra \in Seq(Kinds) /\ Len(extra) >= 5
  BY ContinuationType
<1>4. /\ tokens' = h \o extra /\ answer' = Len(h) + Len(extra)
      /\ rows' = file.rows \o new /\ recurrent' = file.recurrent \o KindsOf(new)
      /\ residue' = file.residue
  <2>1. Len(h) - 1 + 1 = Len(h)
    BY <1>2
  <2> QED
    BY <2>1 DEF Resume
<1> HIDE DEF h, extra, base
<1>5. RowsOf(file.rows, h, Len(h) - 1)
  BY <1>1 DEF Snapshot, h
<1>6. RowsOf(file.rows \o new, h \o extra, Len(h) + Len(extra))
  BY <1>2, <1>3, <1>5, ResumedRows
<1>7. chunk \in Seq(Kinds)
  BY <1>2, <1>3
<1> HIDE DEF chunk
<1>8. ASequence(new)
  BY <1>7, ChunkRowsAreRows DEF RowsOf, ASequence
<1> HIDE DEF new
<1>9. /\ tokens' \in Seq(Kinds) /\ Len(tokens') = Len(h) + Len(extra)
      /\ \A i \in 1 .. Len(h) : tokens'[i] = h[i]
  BY <1>2, <1>3, <1>4
<1>10. ASequence(file.rows) /\ ASequence(file.recurrent) /\ ASequence(KindsOf(new))
  BY <1>1, <1>5, <1>8, KindsOfRows DEF RowsOf, Snapshot
<1>11. ASequence(recurrent')
  BY <1>4, <1>10, Concatenation
<1>12. ExactState(residue', recurrent', rows')
  <2> SUFFICES ASSUME ~file.residue PROVE recurrent' = KindsOf(rows')
    BY <1>4 DEF ExactState
  <2>1. file.recurrent = KindsOf(file.rows)
    BY <1>1 DEF Snapshot, ExactState
  <2> QED
    BY <1>4, <1>8, <1>10, <2>1, KindsOfConcatenation
<1>13. Stepped'
  BY <1>4, <1>6, <1>9, <1>12 DEF Stepped
<1>14. answer' \in 2 .. Len(tokens') /\ Len(h) <= answer'
  BY <1>2, <1>3, <1>4, <1>9
<1>15. TurnInv'
  BY <1>9, <1>11, <1>13, <1>14 DEF TurnInv, h
<1>16. residue' \in BOOLEAN
  BY <1>1, <1>4 DEF Snapshot
<1> QED
  BY <1>1, <1>15, <1>16 DEF SessionInv, FileInv, RestInv, PrefillInv, SaveInv

LEMMA ChooseTokenKeeps ==
    ASSUME SessionInv, ChooseToken
    PROVE  SessionInv'
<1> USE DEF ChooseToken, stateVars
<1>1. /\ phase = "decode" /\ file' = file /\ answer' = answer /\ rows' = rows
      /\ recurrent' = recurrent /\ residue' = residue
  OBVIOUS
<1>2. /\ tokens \in Seq(Kinds) /\ answer \in 2 .. Len(tokens) /\ ASequence(recurrent)
      /\ file # NoFile =>
           /\ Len(file.tokens) <= answer
           /\ \A i \in 1 .. Len(file.tokens) : tokens[i] = file.tokens[i]
      /\ RowsOf(rows, tokens, Len(tokens)) /\ ExactState(residue, recurrent, rows)
  BY <1>1 DEF SessionInv, TurnInv, Stepped
<1>3. residue \in BOOLEAN /\ cancelled \in BOOLEAN /\ FileInv'
  BY <1>1 DEF SessionInv, FileInv
<1>4. CASE cancel /\ EndDecode(TRUE) /\ UNCHANGED tokens
  <2>1. phase' = "finish" /\ cancelled' = TRUE /\ tokens' = tokens
    BY <1>4 DEF EndDecode
  <2>2. TurnInv'
    BY <1>1, <1>2, <2>1 DEF TurnInv
  <2> QED
    BY <1>1, <1>3, <2>1, <2>2 DEF SessionInv, RestInv, PrefillInv, SaveInv
<1>5. ASSUME NEW k \in Vocabulary, tokens' = Append(tokens, k), phase' = "sink",
             cancelled' = cancelled
      PROVE  SessionInv'
  <2>1. k \in Kinds /\ k # "pad"
    BY SessionAssumption
  <2>2. /\ tokens' \in Seq(Kinds) /\ Len(tokens') = Len(tokens) + 1
        /\ \A i \in 1 .. Len(tokens) : tokens'[i] = tokens[i]
        /\ tokens'[Len(tokens')] = k
    BY <1>2, <1>5, <2>1
  <2>3. Len(tokens') - 1 = Len(tokens) /\ answer \in 2 .. Len(tokens')
    BY <1>2, <2>2
  <2>4. RowsOf(rows, tokens', Len(tokens))
    BY <1>2, <2>2, RowsOfSame
  <2>5. Chosen'
    BY <1>1, <1>2, <2>3, <2>4 DEF Chosen
  <2>6. file # NoFile =>
          /\ Len(file.tokens) <= answer
          /\ \A i \in 1 .. Len(file.tokens) : tokens'[i] = file.tokens[i]
    <3> SUFFICES ASSUME file # NoFile, NEW i \in 1 .. Len(file.tokens)
                 PROVE  tokens'[i] = file.tokens[i]
      BY <1>2
    <3>1. Len(file.tokens) \in Nat
      BY DEF SessionInv, FileInv, Snapshot
    <3>2. i \in 1 .. Len(tokens)
      BY <1>2, <3>1
    <3> QED
      BY <1>2, <2>2, <3>2
  <2>7. TurnInv'
    BY <1>1, <1>2, <1>5, <2>1, <2>2, <2>3, <2>5, <2>6 DEF TurnInv
  <2> QED
    BY <1>1, <1>3, <1>5, <2>7 DEF SessionInv, RestInv, PrefillInv, SaveInv
<1> QED
  BY <1>4, <1>5

LEMMA TokenSinkKeeps ==
    ASSUME SessionInv, TokenSink
    PROVE  SessionInv'
<1>1. /\ phase = "sink" /\ file' = file /\ answer' = answer /\ tokens' = tokens
      /\ residue' = residue /\ rows' = rows /\ recurrent' = recurrent
      /\ phase' \in {"finish", "step"} /\ cancelled' \in BOOLEAN
  BY DEF TokenSink, LeftAtLimit, EndDecode, SessionInv
<1>2. TurnInv'
  BY <1>1 DEF SessionInv, TurnInv, Chosen
<1>3. residue \in BOOLEAN /\ FileInv'
  BY <1>1 DEF SessionInv, FileInv
<1> QED
  BY <1>1, <1>2, <1>3 DEF SessionInv, RestInv, PrefillInv, SaveInv

LEMMA StepTokenKeeps ==
    ASSUME SessionInv, StepToken
    PROVE  SessionInv'
<1> DEFINE n == Len(tokens) - 1
           row == [kind |-> LastToken, pos |-> Len(tokens) - 1 + delta]
<1>1. /\ phase = "step" /\ phase' = "decode" /\ file' = file /\ answer' = answer
      /\ tokens' = tokens /\ residue' = residue /\ cancelled' = cancelled
      /\ rows' = Append(rows, row) /\ recurrent' = Append(recurrent, LastToken)
  BY DEF StepToken, Step
<1>2. /\ tokens \in Seq(Kinds) /\ answer \in 2 .. Len(tokens) /\ ASequence(recurrent)
      /\ RowsOf(rows, tokens, n) /\ ExactState(residue, recurrent, rows)
      /\ tokens[Len(tokens)] # "pad"
  BY <1>1 DEF SessionInv, TurnInv, Chosen
<1>3. n \in Nat /\ n + 1 = Len(tokens)
  BY <1>2
<1>4. row.kind = LastToken /\ LastToken = EmbeddedAs(tokens[n + 1])
  BY <1>2, <1>3 DEF LastToken, EmbeddedAs
<1> HIDE DEF n, row
<1>5. RowsOf(rows', tokens, n + 1) /\ KindsOf(rows') = Append(KindsOf(rows), LastToken)
  BY <1>1, <1>2, <1>3, <1>4, RowsAppend
<1>6. ExactState(residue', recurrent', rows')
  BY <1>1, <1>2, <1>5 DEF ExactState
<1>7. ASequence(recurrent')
  <2>1. PICK S : recurrent \in Seq(S)
    BY <1>2 DEF ASequence
  <2>2. recurrent \in Seq(S \cup {LastToken})
    BY <2>1
  <2>3. recurrent' \in Seq(S \cup {LastToken})
    BY <1>1, <2>2
  <2> QED
    BY <2>3 DEF ASequence
<1>8. Stepped'
  BY <1>1, <1>3, <1>5, <1>6 DEF Stepped
<1>9. TurnInv'
  BY <1>1, <1>7, <1>8 DEF SessionInv, TurnInv
<1>10. residue \in BOOLEAN /\ cancelled \in BOOLEAN /\ FileInv'
  BY <1>1 DEF SessionInv, FileInv
<1> QED
  BY <1>1, <1>9, <1>10 DEF SessionInv, RestInv, PrefillInv, SaveInv

LEMMA FinishKeeps ==
    ASSUME SessionInv, Finish
    PROVE  SessionInv'
<1>1. phase = "finish" /\ file' = file
  BY DEF Finish
<1>2. /\ tokens \in Seq(Kinds) /\ answer \in 2 .. Len(tokens) /\ ASequence(recurrent)
      /\ file # NoFile =>
           /\ Len(file.tokens) <= answer
           /\ \A i \in 1 .. Len(file.tokens) : tokens[i] = file.tokens[i]
      /\ Chosen \/ (cancelled /\ RowsOf(rows, tokens, Len(tokens)))
  BY <1>1 DEF SessionInv, TurnInv
<1>3. residue \in BOOLEAN /\ cancelled \in BOOLEAN /\ FileInv'
  BY <1>1 DEF SessionInv, FileInv
<1>4. CASE SavedLength < 2
  <2>1. phase' = "idle" /\ AtRest' /\ cancelled' = FALSE
    BY <1>4 DEF Finish, Free, AtRest
  <2> QED
    BY <1>3, <2>1 DEF SessionInv, RestInv, TurnInv, PrefillInv, SaveInv, AtRest
<1>5. CASE ~(SavedLength < 2)
  <2> DEFINE L == SavedLength
  <2>1. /\ tokens' = SubSeq(tokens, 1, L) /\ phase' = "save"
        /\ residue' = (residue \/ cancelled)
        /\ rows' = rows /\ recurrent' = recurrent /\ cancelled' = cancelled
    BY <1>5 DEF Finish, stateVars
  <2>2. L \in answer .. Len(tokens) /\ (~cancelled => L = Len(tokens))
    <3>1. CASE cancelled
      <4>1. L = CancelledTrim
        BY <3>1 DEF SavedLength
      <4>2. answer \in Nat /\ Len(tokens) \in Nat
        BY <1>2
      <4>3. L = 0 \/ L \in answer + 1 .. Len(tokens)
        BY <1>2, <4>1, <4>2, TrimIsInAnswer
      <4> HIDE DEF L
      <4>4. L # 0
        BY <1>5 DEF L
      <4> QED
        BY <3>1, <4>2, <4>3, <4>4
    <3>2. CASE ~cancelled
      BY <1>2, <3>2 DEF SavedLength
    <3> QED
      BY <3>1, <3>2
  <2> HIDE DEF L
  <2>3. L \in Nat /\ L >= 2 /\ L <= Len(tokens) /\ Len(tokens) \in Nat
    BY <1>2, <2>2
  <2>4. /\ tokens' \in Seq(Kinds) /\ Len(tokens') = L
        /\ \A i \in 1 .. L : tokens'[i] = tokens[i]
    BY <1>2, <2>1, <2>3
  <2>5. RowsOf(SavedRows', tokens', L - 1) /\ ExactState(residue', recurrent', SavedRows')
    <3>1. SavedRows' = SubSeq(rows, 1, L - 1)
      BY <2>1, <2>4 DEF SavedRows
    <3>2. PICK n \in {Len(tokens) - 1, Len(tokens)} : RowsOf(rows, tokens, n)
      BY <1>2 DEF Chosen
    <3>3. n \in Nat /\ L - 1 \in 0 .. n
      BY <2>3
    <3>4. RowsOf(SavedRows', tokens, L - 1)
      BY <3>1, <3>2, <3>3, RowsCut
    <3>5. \A i \in 1 .. L - 1 : tokens'[i] = tokens[i]
      BY <2>3, <2>4
    <3>6. RowsOf(SavedRows', tokens', L - 1)
      BY <3>4, <3>5, RowsOfSame
    <3>7. ASSUME ~residue' PROVE recurrent' = KindsOf(SavedRows')
      <4>1. ~residue /\ ~cancelled
        BY <2>1, <3>7
      <4>2. RowsOf(rows, tokens, Len(tokens) - 1) /\ recurrent = KindsOf(rows)
        BY <1>2, <4>1 DEF Chosen, ExactState
      <4>3. L - 1 = Len(tokens) - 1 /\ L - 1 \in Nat /\ L - 1 \in 0 .. L - 1
        BY <2>2, <2>3, <4>1
      <4>4. SavedRows' = rows
        BY <3>1, <4>2, <4>3, RowsCut
      <4> QED
        BY <2>1, <4>2, <4>4
    <3> QED
      BY <3>6, <3>7 DEF ExactState
  <2>6. ASSUME file # NoFile PROVE Extends(tokens', file.tokens)
    <3> DEFINE h == file.tokens
    <3>1. h \in Seq(Kinds) /\ Len(h) \in Nat
      BY <2>6 DEF SessionInv, FileInv, Snapshot
    <3>2. Len(h) <= L
      BY <1>2, <2>2, <2>6
    <3>3. \A i \in 1 .. Len(h) : tokens'[i] = h[i]
      BY <1>2, <2>3, <2>4, <2>6, <3>1, <3>2
    <3> HIDE DEF h
    <3>4. SubSeq(tokens', 1, Len(h)) = h
      <4>1. /\ SubSeq(tokens', 1, Len(h)) \in Seq(Kinds)
            /\ Len(SubSeq(tokens', 1, Len(h))) = Len(h)
            /\ \A i \in 1 .. Len(h) : SubSeq(tokens', 1, Len(h))[i] = tokens'[i]
        BY <2>3, <2>4, <3>1, <3>2
      <4> QED
        BY <3>1, <3>3, <4>1
    <3> QED
      BY <2>4, <3>2, <3>4 DEF Extends, h
  <2>7. SaveInv'
    BY <1>1, <1>2, <2>1, <2>3, <2>4, <2>5, <2>6 DEF SaveInv, Succeeds
  <2>8. residue' \in BOOLEAN /\ cancelled' \in BOOLEAN
    BY <1>3, <2>1
  <2> QED
    BY <1>3, <2>1, <2>7, <2>8 DEF SessionInv, RestInv, TurnInv, PrefillInv
<1> QED
  BY <1>4, <1>5

LEMMA SaveKeeps ==
    ASSUME SessionInv, SaveCreates \/ SaveWrites \/ SaveRenames \/ SaveFails \/ Reply
    PROVE  SessionInv'
<1>1. residue \in BOOLEAN /\ cancelled \in BOOLEAN /\ FileInv /\ SaveInv
  BY DEF SessionInv
<1>2. CASE SaveCreates
  <2>1. /\ phase = "save" /\ phase' = "write" /\ file' = file /\ tokens' = tokens
        /\ rows' = rows /\ recurrent' = recurrent /\ residue' = residue
        /\ cancelled' = cancelled
    BY <1>2 DEF SaveCreates, stateVars
  <2>2. SaveInv' /\ FileInv'
    BY <1>1, <2>1 DEF SaveInv, FileInv, SavedRows, Succeeds
  <2> QED
    BY <1>1, <2>1, <2>2 DEF SessionInv, RestInv, TurnInv, PrefillInv
<1>3. CASE SaveWrites
  <2>1. /\ phase = "write" /\ phase' = "rename" /\ file' = file
        /\ temp' = [tokens |-> tokens, rows |-> SavedRows, recurrent |-> recurrent,
                    residue |-> residue]
        /\ residue' = residue /\ cancelled' = cancelled
    BY <1>3 DEF SaveWrites
  <2>2. /\ temp'.tokens = tokens /\ temp'.rows = SavedRows
        /\ temp'.recurrent = recurrent /\ temp'.residue = residue
    BY <2>1
  <2>3. Snapshot(temp)'
    BY <1>1, <2>1, <2>2 DEF SaveInv, Snapshot
  <2>4. Succeeds(temp.tokens)'
    BY <1>1, <2>1, <2>2 DEF SaveInv, Succeeds
  <2>5. FileInv' /\ SaveInv'
    BY <1>1, <2>1, <2>3, <2>4 DEF FileInv, SaveInv
  <2> QED
    BY <1>1, <2>1, <2>5 DEF SessionInv, RestInv, TurnInv, PrefillInv
<1>4. CASE SaveRenames
  <2>1. /\ phase = "rename" /\ phase' = "reply" /\ file' = temp
        /\ residue' = residue /\ cancelled' = cancelled
    BY <1>4 DEF SaveRenames, stateVars
  <2>2. FileInv'
    BY <1>1, <2>1 DEF SaveInv, FileInv
  <2> QED
    BY <1>1, <2>1, <2>2 DEF SessionInv, RestInv, TurnInv, PrefillInv, SaveInv
<1>5. CASE SaveFails \/ Reply
  <2>1. phase' = "idle" /\ file' = file /\ AtRest' /\ cancelled' = FALSE
    BY <1>5 DEF SaveFails, Reply, Free, AtRest
  <2>2. FileInv'
    BY <1>1, <2>1 DEF FileInv
  <2> QED
    BY <2>1, <2>2 DEF SessionInv, RestInv, TurnInv, PrefillInv, SaveInv, AtRest
<1> QED
  BY <1>2, <1>3, <1>4, <1>5

LEMMA CompactKeeps ==
    ASSUME SessionInv, StartCompact \/ EndSummary
    PROVE  SessionInv'
<1>1. residue \in BOOLEAN /\ cancelled \in BOOLEAN /\ FileInv /\ RestInv
  BY DEF SessionInv
<1>2. /\ phase \in {"idle", "summary"} /\ file' = file /\ rows' = rows
      /\ recurrent' = recurrent /\ residue' = residue /\ cancelled' = cancelled
  BY DEF StartCompact, EndSummary, stateVars
<1>3. AtRest /\ AtRest' /\ FileInv'
  BY <1>1, <1>2 DEF RestInv, AtRest, FileInv
<1>4. CASE phase' \in {"idle", "summary"}
  <2>1. phase' = "summary" => file # NoFile
    BY <1>1, <1>4 DEF StartCompact, EndSummary, RestInv
  <2> QED
    BY <1>1, <1>2, <1>3, <1>4, <2>1 DEF SessionInv, RestInv, TurnInv, PrefillInv, SaveInv
<1>5. CASE ~(phase' \in {"idle", "summary"})
  <2> DEFINE h == file.tokens
  <2>1. /\ phase = "summary" /\ phase' = "prefill" /\ tokens' = Compacted(h)
        /\ Len(Compacted(h)) < Len(h)
    BY <1>5 DEF StartCompact, EndSummary
  <2>2. h \in Seq(Kinds)
    BY <1>1, <2>1 DEF RestInv, FileInv, Snapshot
  <2> HIDE DEF h
  <2>3. /\ tokens' \in Seq(Kinds) /\ Len(tokens') >= 3
        /\ \A i \in 1 .. Len(tokens') : tokens'[i] # "pad"
        /\ Shortens(tokens', h)
    BY <2>1, <2>2, CompactedIsText
  <2>4. rows' = <<>> /\ recurrent' = <<>> /\ residue' = FALSE
    BY <1>3 DEF AtRest
  <2>5. ASequence(rows') /\ Len(rows') = 0
    <3>1. <<>> \in Seq({}) /\ Len(<<>>) = 0
      OBVIOUS
    <3> QED
      BY <2>4, <3>1 DEF ASequence
  <2>6. RowsOf(rows', tokens', Len(rows'))
    BY <2>5 DEF RowsOf
  <2>7. recurrent' = KindsOf(rows')
    <3>1. ASequence(KindsOf(rows')) /\ Len(KindsOf(rows')) = 0
      BY <2>5, KindsOfRows
    <3> QED
      BY <2>4, <2>5, <3>1, SequencesEqual
  <2>8. PrefillInv'
    <3>1. Len(tokens') \in Nat
      BY <2>3
    <3> QED
      BY <1>2, <2>3, <2>4, <2>5, <2>6, <2>7, <3>1 DEF PrefillInv, h
  <2> QED
    BY <1>1, <1>2, <1>3, <2>1, <2>8 DEF SessionInv, RestInv, TurnInv, SaveInv
<1> QED
  BY <1>4, <1>5

LEMMA PrefillKeeps ==
    ASSUME SessionInv, PrefillStep
    PROVE  SessionInv'
<1> DEFINE done == Len(rows)
           rest == Len(tokens) - 1 - done
           count == IF rest > PrefillChunk THEN PrefillChunk ELSE rest
           chunk == SubSeq(tokens, done + 1, done + count)
           more == [s \in 1 .. count |-> [kind |-> chunk[s], pos |-> done + s - 1]]
<1>1. phase = "prefill" /\ file' = file
  BY DEF PrefillStep
<1>2. /\ tokens \in Seq(Kinds) /\ Len(tokens) >= 2
      /\ \A i \in 1 .. Len(tokens) : tokens[i] # "pad"
      /\ RowsOf(rows, tokens, done) /\ done <= Len(tokens) - 1
      /\ recurrent = KindsOf(rows) /\ residue = FALSE
      /\ file # NoFile => Shortens(tokens, file.tokens)
  BY <1>1 DEF SessionInv, PrefillInv
<1>3. residue \in BOOLEAN /\ cancelled \in BOOLEAN /\ FileInv'
  BY <1>1 DEF SessionInv, FileInv
<1>4. ASequence(rows) /\ done \in Nat /\ Len(tokens) \in Nat
  BY <1>2 DEF RowsOf, ASequence
<1>5. CASE rest > 0 /\ cancel /\ phase' = "idle" /\ Free
  <2>1. AtRest' /\ cancelled' = FALSE
    BY <1>5 DEF Free, AtRest
  <2> QED
    BY <1>3, <1>5, <2>1 DEF SessionInv, RestInv, TurnInv, PrefillInv, SaveInv, AtRest
<1>6. CASE /\ rest > 0 /\ ~cancel
           /\ rows' = rows \o more /\ recurrent' = recurrent \o chunk
           /\ UNCHANGED <<phase, tokens, answer, delta, cancelled, residue>>
  <2>1. count \in Nat /\ count > 0 /\ count <= rest
    BY <1>2, <1>4, <1>6, SessionAssumption
  <2>2. done + count <= Len(tokens) - 1 /\ done + count \in Nat
    BY <1>4, <2>1
  <2> HIDE DEF done, count
  <2>3. /\ chunk \in Seq(Kinds) /\ Len(chunk) = count
        /\ \A i \in 1 .. count : chunk[i] = tokens[done + i]
    BY <1>2, <1>4, <2>1, <2>2
  <2>4. \A i \in 1 .. count : chunk[i] # "pad"
    <3> SUFFICES ASSUME NEW i \in 1 .. count PROVE chunk[i] # "pad"
      OBVIOUS
    <3>1. done + i \in 1 .. Len(tokens)
      BY <1>4, <2>1, <2>2
    <3> QED
      BY <1>2, <2>3, <3>1
  <2> HIDE DEF chunk
  <2>5. /\ ASequence(more) /\ Len(more) = count
        /\ \A i \in 1 .. count : more[i].kind = chunk[i]
    <3>1. more \in [1 .. count -> {[kind |-> chunk[s], pos |-> done + s - 1] : s \in 1 .. count}]
      OBVIOUS
    <3>2. ASequence(more) /\ Len(more) = count
      <4> HIDE DEF more
      <4> QED
        BY <2>1, <3>1, FunctionIsSequence
    <3>3. \A i \in 1 .. count : more[i].kind = chunk[i]
      OBVIOUS
    <3> QED
      BY <3>2, <3>3
  <2> HIDE DEF more
  <2>6. RowsOf(more, chunk, count)
    BY <2>4, <2>5 DEF RowsOf, EmbeddedAs
  <2>7. RowsOf(rows \o more, tokens, done + count)
    <3>1. \A i \in 1 .. count : tokens[done + i] = chunk[i]
      BY <2>3
    <3> QED
      BY <1>2, <1>4, <2>1, <2>6, <3>1, RowsJoin
  <2>8. KindsOf(more) = chunk
    <3>1. ASequence(chunk)
      BY <2>3 DEF ASequence
    <3>2. ASequence(KindsOf(more)) /\ Len(KindsOf(more)) = count
      BY <2>5, KindsOfRows
    <3>3. \A i \in 1 .. count : KindsOf(more)[i] = chunk[i]
      BY <2>5, KindsOfRows
    <3> QED
      BY <2>3, <3>1, <3>2, <3>3, SequencesEqual
  <2>9. recurrent' = KindsOf(rows')
    BY <1>2, <1>4, <1>6, <2>5, <2>8, KindsOfConcatenation
  <2>10. Len(rows') = done + count
    BY <1>6, <2>7 DEF RowsOf
  <2>11. PrefillInv'
    BY <1>1, <1>2, <1>6, <2>2, <2>7, <2>9, <2>10 DEF PrefillInv
  <2> QED
    BY <1>1, <1>3, <1>6, <2>11 DEF SessionInv, RestInv, TurnInv, SaveInv
<1>7. CASE /\ rest = 0 /\ phase' = "save"
           /\ UNCHANGED <<tokens, answer, stateVars, cancelled, residue>>
  <2>1. done = Len(tokens) - 1 /\ done \in 0 .. done
    BY <1>4, <1>7
  <2>2. rows' = rows /\ tokens' = tokens /\ recurrent' = recurrent
    BY <1>7 DEF stateVars
  <2>3. SavedRows' = SubSeq(rows, 1, done)
    BY <2>1, <2>2 DEF SavedRows
  <2> HIDE DEF done
  <2>4. SavedRows' = rows
    BY <1>2, <1>4, <2>1, <2>3, RowsCut
  <2>5. RowsOf(SavedRows', tokens', Len(tokens') - 1)
    BY <1>2, <2>1, <2>2, <2>4
  <2>6. ExactState(residue', recurrent', SavedRows') /\ ASequence(recurrent')
    BY <1>2, <1>4, <2>2, <2>4, KindsOfRows DEF ExactState
  <2>7. SaveInv'
    BY <1>1, <1>2, <1>7, <2>2, <2>5, <2>6 DEF SaveInv, Succeeds
  <2> QED
    BY <1>3, <1>7, <2>7 DEF SessionInv, RestInv, TurnInv, PrefillInv
<1> QED
  BY <1>5, <1>6, <1>7 DEF PrefillStep

\* The invariant holds at the start, and every step keeps it.
LEMMA SessionInvHolds == Spec => []SessionInv
<1>1. Init => SessionInv
  BY DEF Init, SessionInv, FileInv, RestInv, AtRest, TurnInv, PrefillInv, SaveInv
<1>2. SessionInv /\ [Next]_vars => SessionInv'
  <2> SUFFICES ASSUME SessionInv, [Next]_vars PROVE SessionInv'
    OBVIOUS
  <2>1. ASSUME NEW thinking \in BOOLEAN, NEW grid \in Grids \cup {NoGrid},
               StartTurn(thinking, grid)
        PROVE  SessionInv'
    <3>1. phase' = "decode" /\ cancelled' = FALSE /\ file' = file
      BY <2>1 DEF StartTurn
    <3>2. Generate(thinking, grid) \/ Resume(thinking, grid)
      BY <2>1 DEF StartTurn
    <3> QED
      BY <3>1, <3>2, GenerateKeeps, ResumeKeeps
  <2>2. CASE RaiseCancel \/ UNCHANGED vars
    <3>1. UNCHANGED <<file, temp, phase, tokens, answer, rows, recurrent, cancelled, residue>>
      BY <2>2 DEF RaiseCancel, vars, stateVars
    <3> QED
      BY <3>1 DEF SessionInv, FileInv, RestInv, AtRest, TurnInv, Stepped, Chosen,
                  PrefillInv, SaveInv, SavedRows, Succeeds
  <2>3. CASE Crash \/ Restart
    <3>1. /\ phase' \in {"idle", "down"} /\ file' = file /\ AtRest'
          /\ cancelled' \in BOOLEAN
      BY <2>3 DEF Crash, Restart, Free, AtRest, stateVars, SessionInv, RestInv
    <3> QED
      BY <3>1 DEF SessionInv, FileInv, RestInv, AtRest, TurnInv, PrefillInv, SaveInv
  <2> QED
    BY <2>1, <2>2, <2>3, ChooseTokenKeeps, TokenSinkKeeps, StepTokenKeeps, FinishKeeps,
       SaveKeeps, CompactKeeps, PrefillKeeps DEF Next
<1> QED
  BY <1>1, <1>2, PTL DEF Spec

-----------------------------------------------------------------------------
(* Types.  The lemmas above know a row by its kind; here positions are typed *)
(* too, on top of SessionInv.                                               *)

\* The integer square root of a number of pads.
LEMMA RootType ==
    ASSUME NEW n \in Nat
    PROVE  Root(n) \in 0 .. n
<1>1. \E r \in 0 .. n : r * r <= n /\ (r + 1) * (r + 1) > n
  <2>1. CASE n = 0
    BY <2>1
  <2>2. CASE n # 0
    <3> DEFINE T == {r \in 1 .. n : r * r <= n}
    <3>1. 1 \in T
      BY <2>2
    <3>2. PICK m \in T : \A k \in T : k <= m
      <4> HIDE DEF T
      <4>1. T \in SUBSET (1 .. n)
        BY DEF T
      <4> QED
        BY <3>1, <4>1, GreatestUpTo
    <3>3. m \in 1 .. n /\ m * m <= n
      OBVIOUS
    <3>4. CASE m + 1 \in 1 .. n
      <4>1. m + 1 \notin T
        BY <3>2, <3>3
      <4>2. (m + 1) * (m + 1) \in Int
        BY <3>3
      <4>3. (m + 1) * (m + 1) > n
        BY <3>4, <4>1, <4>2
      <4> QED
        BY <3>3, <4>3
    <3>5. CASE m = n
      <4>1. (m + 1) * (m + 1) = m * m + 2 * m + 1 /\ m * m \in Nat
        BY <3>3
      <4>2. (m + 1) * (m + 1) > n
        BY <3>3, <3>5, <4>1
      <4> QED
        BY <3>3, <4>2
    <3> QED
      BY <3>3, <3>4, <3>5
  <2> QED
    BY <2>1, <2>2
<1> QED
  BY <1>1 DEF Root

\* The offset reconstructed from a history is an integer.
LEMMA HistoryDeltaType ==
    ASSUME NEW history \in Seq(Kinds)
    PROVE  HistoryDelta(history) \in Int
<1> DEFINE n == Len(history)
           term(i) == Root(RunLength(history, i)) - RunLength(history, i)
           f == [i \in 1 .. n |-> term(i)]
<1>1. n \in Nat
  OBVIOUS
<1>2. ASSUME NEW i \in 1 .. n PROVE term(i) \in Int
  <2> DEFINE T == {j \in 1 .. i : history[j] # "pad"}
  <2>1. LastOf(T) \in 0 .. i
    <3>1. T \subseteq 1 .. i /\ i \in Nat
      OBVIOUS
    <3> HIDE DEF T
    <3>2. LastOf(T) = 0 \/ LastOf(T) \in T
      BY <3>1, LastOfIsLast
    <3>3. CASE LastOf(T) = 0
      BY <3>1, <3>3
    <3>4. CASE LastOf(T) \in T
      <4>1. LastOf(T) \in 1 .. i
        BY <3>1, <3>4
      <4> QED
        BY <3>1, <4>1
    <3> QED
      BY <3>2, <3>3, <3>4
  <2>2. RunLength(history, i) \in Nat
    BY <2>1 DEF RunLength
  <2> QED
    BY <2>2, RootType
<1>3. f \in [1 .. n -> Int]
  <2> HIDE DEF term
  <2> QED
    BY <1>2
<1>4. HistoryDelta(history) = Total(n, f)
  BY DEF HistoryDelta
<1> HIDE DEF f, n
<1> QED
  BY <1>1, <1>3, <1>4, TotalInt

\* An image advances the position by a number, and so the offset by one.
LEMMA ExtentType ==
    ASSUME NEW grid \in Grids \cup {NoGrid}
    PROVE  Extent(grid) \in Nat /\ ImageDelta(grid) \in Int
<1>1. Extent(grid) \in Nat
  <2>1. CASE grid = NoGrid
    BY <2>1 DEF Extent
  <2>2. CASE grid # NoGrid
    <3>1. grid[1] \in Nat /\ grid[2] \in Nat
      BY <2>2, SessionAssumption
    <3>2. Extent(grid) \in {grid[1], grid[2]}
      BY <2>2 DEF Extent
    <3> QED
      BY <3>1, <3>2
  <2> QED
    BY <2>1, <2>2
<1>2. Len(Pads(grid)) \in Nat
  <2>1. Pads(grid) \in Seq(Kinds)
    BY PadsType
  <2> QED
    BY <2>1
<1> QED
  BY <1>1, <1>2 DEF ImageDelta

\* The rows of a chunk, and their kinds.
LEMMA ChunkRowsType ==
    ASSUME NEW chunk \in Seq(Kinds), NEW base \in Int, NEW grid \in Grids \cup {NoGrid}
    PROVE  /\ ChunkRows(chunk, base, grid) \in Seq(Rows)
           /\ KindsOf(ChunkRows(chunk, base, grid)) \in Seq(Embedded)
<1> DEFINE n == Len(chunk)
           before(s) == {r \in 1 .. s - 1 : chunk[r] # "pad"}
           past(s) == chunk[s] # "pad" /\ Cardinality(before(s)) < s - 1
           kind(s) == IF chunk[s] = "pad" THEN "image" ELSE chunk[s]
           pos(s) == base + Cardinality(before(s)) + (IF past(s) THEN Extent(grid) ELSE 0)
           row(s) == [kind |-> kind(s), pos |-> pos(s)]
           f == [s \in 1 .. n |-> row(s)]
<1>1. n \in Nat /\ Extent(grid) \in Nat
  BY ExtentType
<1>2. ASSUME NEW s \in 1 .. n PROVE row(s) \in Rows
  <2>1. Cardinality(before(s)) \in Nat
    <3>1. before(s) \subseteq 1 .. s - 1 /\ IsFiniteSet(1 .. s - 1)
      <4>1. s - 1 \in Int
        OBVIOUS
      <4>2. IsFiniteSet(1 .. s - 1)
        BY <4>1, FS_Interval
      <4> QED
        BY <4>2
    <3>2. IsFiniteSet(before(s))
      BY <3>1, FS_Subset
    <3> QED
      BY <3>2, FS_CardinalityType
  <2>2. kind(s) \in Embedded
    <3>1. chunk[s] \in Kinds
      OBVIOUS
    <3> QED
      BY <3>1 DEF Embedded
  <2>3. pos(s) \in Int
    <3> HIDE DEF before, past
    <3>1. CASE past(s)
      BY <1>1, <2>1, <3>1
    <3>2. CASE ~past(s)
      BY <2>1, <3>2
    <3> QED
      BY <3>1, <3>2
  <2> HIDE DEF kind, pos
  <2> QED
    BY <2>2, <2>3 DEF Rows
<1>3. ChunkRows(chunk, base, grid) = f
  BY DEF ChunkRows
<1> HIDE DEF row
<1>4. f \in Seq(Rows)
  BY <1>1, <1>2
<1> HIDE DEF f
<1> QED
  BY <1>3, <1>4, KindsOfType

\* SessionTypeOK with what keeps it: what a save will write has its type, what it
\* has written is the transcript, and so is the file that a reply speaks of.
TypeInv ==
    /\ SessionTypeOK
    /\ phase \in {"save", "write"} => SavedRows \in Seq(Rows)
    /\ phase = "rename" => temp \in Snapshots /\ temp.tokens = tokens
    /\ phase = "reply" => file \in Snapshots /\ file.tokens = tokens

\* Nothing is saved in the other phases.
LEMMA TypeInvOutsideSaves ==
    ASSUME SessionTypeOK, phase \notin {"save", "write", "rename", "reply"}
    PROVE  TypeInv
BY DEF TypeInv

\* A call that ends leaves everything typed.
LEMMA FreeTypes ==
    ASSUME SessionTypeOK, Free
    PROVE  /\ tokens' \in Seq(Kinds) /\ answer' \in Nat
           /\ rows' \in Seq(Rows) /\ recurrent' \in Seq(Embedded) /\ delta' \in Int
           /\ cancelled' \in BOOLEAN /\ residue' \in BOOLEAN
<1>1. <<>> \in Seq(Kinds) /\ <<>> \in Seq(Rows) /\ <<>> \in Seq(Embedded)
  OBVIOUS
<1>2. /\ tokens' = <<>> /\ answer' = 0 /\ rows' = <<>> /\ recurrent' = <<>>
      /\ delta' = 0 /\ cancelled' = FALSE /\ residue' = FALSE
  BY DEF Free
<1>3. tokens' \in Seq(Kinds)
  BY <1>1, <1>2
<1>4. rows' \in Seq(Rows)
  BY <1>1, <1>2
<1>5. recurrent' \in Seq(Embedded)
  BY <1>1, <1>2
<1>6. answer' \in Nat /\ delta' \in Int
  BY DEF Free
<1>7. cancelled' \in BOOLEAN /\ residue' \in BOOLEAN
  BY Zenon DEF Free
<1> QED
  BY <1>3, <1>4, <1>5, <1>6, <1>7

LEMMA StartTurnTypes ==
    ASSUME SessionInv, TypeInv,
           NEW thinking \in BOOLEAN, NEW grid \in Grids \cup {NoGrid},
           StartTurn(thinking, grid)
    PROVE  TypeInv'
<1>1. /\ file' = file /\ temp' = temp /\ told' = told /\ phase' = "decode"
      /\ cancel' = FALSE /\ cancelled' = FALSE
      /\ turns < MaxTurns /\ turns' = turns + 1
  BY DEF StartTurn
<1>2. SessionTypeOK
  BY DEF TypeInv
<1>3. turns' \in 0 .. MaxTurns
  BY <1>1, <1>2, SessionAssumption DEF SessionTypeOK
<1>4. ImageDelta(grid) \in Int
  BY ExtentType
<1>5. /\ tokens' \in Seq(Kinds) /\ answer' \in Nat
      /\ rows' \in Seq(Rows) /\ recurrent' \in Seq(Embedded) /\ delta' \in Int
      /\ residue' \in BOOLEAN
  <2>1. CASE Generate(thinking, grid)
    <3> DEFINE prompt == ChatPrompt(thinking, grid)
               new == ChunkRows(prompt, 0, grid)
    <3>1. prompt \in Seq(Kinds)
      BY PromptType
    <3>2. /\ tokens' = prompt /\ answer' = Len(prompt) /\ rows' = new
          /\ recurrent' = KindsOf(new) /\ delta' = ImageDelta(grid) /\ residue' = FALSE
      BY <2>1 DEF Generate
    <3> HIDE DEF prompt
    <3>3. new \in Seq(Rows) /\ KindsOf(new) \in Seq(Embedded)
      BY <3>1, ChunkRowsType
    <3>4. Len(prompt) \in Nat
      BY <3>1
    <3> HIDE DEF new
    <3>5. recurrent' \in Seq(Embedded)
      BY <3>2, <3>3
    <3> QED
      BY <1>4, <3>1, <3>2, <3>3, <3>4, <3>5
  <2>2. CASE Resume(thinking, grid)
    <3> DEFINE h == file.tokens
               extra == Continuation(h, thinking, grid)
               kept == Len(h) - 1
               base == HistoryDelta(SubSeq(h, 1, kept))
               chunk == <<h[kept + 1]>> \o extra
               new == ChunkRows(chunk, kept + base, grid)
    <3>1. /\ tokens' = h \o extra /\ answer' = Len(h) + Len(extra)
          /\ rows' = file.rows \o new /\ recurrent' = file.recurrent \o KindsOf(new)
          /\ delta' = base + ImageDelta(grid) /\ residue' = file.residue
          /\ file # NoFile
      BY <2>2 DEF Resume
    <3>2. file \in Snapshots
      BY <1>2, <3>1 DEF SessionTypeOK
    <3>3. /\ h \in Seq(Kinds) /\ file.rows \in Seq(Rows)
          /\ file.recurrent \in Seq(Embedded) /\ file.residue \in BOOLEAN
      BY <3>2 DEF Snapshots
    <3>4. Len(h) >= 2
      BY <3>1 DEF SessionInv, FileInv, Snapshot
    <3>5. extra \in Seq(Kinds)
      BY ContinuationType
    <3> HIDE DEF h, extra
    <3>6. kept \in Nat /\ kept + 1 \in 1 .. Len(h) /\ SubSeq(h, 1, kept) \in Seq(Kinds)
      BY <3>3, <3>4
    <3>7. base \in Int
      BY <3>6, HistoryDeltaType
    <3>8. chunk \in Seq(Kinds)
      <4>1. h[kept + 1] \in Kinds
        BY <3>3, <3>6
      <4>2. <<h[kept + 1]>> \in Seq(Kinds)
        BY <4>1
      <4> QED
        BY <3>5, <4>2
    <3> HIDE DEF kept, base, chunk
    <3>9. new \in Seq(Rows) /\ KindsOf(new) \in Seq(Embedded)
      <4>1. kept + base \in Int
        BY <3>6, <3>7
      <4> QED
        BY <3>8, <4>1, ChunkRowsType
    <3> HIDE DEF new
    <3>10. tokens' \in Seq(Kinds) /\ answer' \in Nat
      BY <3>1, <3>3, <3>5
    <3>11. rows' \in Seq(Rows)
      BY <3>1, <3>3, <3>9
    <3>12. recurrent' \in Seq(Embedded)
      <4> DEFINE new2 == KindsOf(new)
      <4>1. new2 \in Seq(Embedded) /\ recurrent' = file.recurrent \o new2
        BY <3>1, <3>9
      <4> HIDE DEF new2
      <4> QED
        BY <3>3, <4>1
    <3>13. delta' \in Int
      BY <1>4, <3>1, <3>7
    <3> QED
      BY <3>1, <3>3, <3>10, <3>11, <3>12, <3>13
  <2> QED
    BY <2>1, <2>2 DEF StartTurn
<1>6. SessionTypeOK'
  BY <1>1, <1>2, <1>3, <1>5 DEF SessionTypeOK
<1> QED
  BY <1>1, <1>6 DEF TypeInv

\* The decode loop.
LEMMA DecodeTypes ==
    ASSUME SessionInv, TypeInv, ChooseToken \/ TokenSink \/ StepToken
    PROVE  TypeInv'
<1>1. SessionTypeOK
  BY DEF TypeInv
<1>2. /\ phase \in {"decode", "sink", "step"} /\ phase' \in {"decode", "sink", "step", "finish"}
      /\ file' = file /\ temp' = temp /\ told' = told /\ turns' = turns /\ answer' = answer
      /\ delta' = delta /\ residue' = residue
      /\ cancel' \in BOOLEAN /\ cancelled' \in BOOLEAN
  BY <1>1 DEF ChooseToken, TokenSink, StepToken, EndDecode, LeftAtLimit, Step, stateVars,
              SessionTypeOK
<1>3. tokens \in Seq(Kinds) /\ Len(tokens) \in Nat /\ Len(tokens) >= 2
  BY <1>2 DEF SessionInv, TurnInv
<1>4. tokens' \in Seq(Kinds)
  <2>1. CASE tokens' = tokens
    BY <1>3, <2>1
  <2>2. CASE \E k \in Vocabulary : tokens' = Append(tokens, k)
    BY <1>3, <2>2, SessionAssumption
  <2> QED
    BY <2>1, <2>2 DEF ChooseToken, TokenSink, StepToken
<1>5. rows' \in Seq(Rows) /\ recurrent' \in Seq(Embedded)
  <2>1. CASE rows' = rows /\ recurrent' = recurrent
    BY <1>1, <2>1 DEF SessionTypeOK
  <2>2. CASE StepToken
    <3>1. LastToken \in Kinds
      BY <1>3 DEF LastToken
    <3>2. [kind |-> LastToken, pos |-> Len(tokens) - 1 + delta] \in Rows
      BY <1>1, <1>3, <3>1 DEF SessionTypeOK, Rows, Embedded
    <3>3. LastToken \in Embedded
      BY <3>1 DEF Embedded
    <3> QED
      BY <1>1, <2>2, <3>2, <3>3 DEF StepToken, Step, SessionTypeOK
  <2> QED
    BY <2>1, <2>2 DEF ChooseToken, TokenSink, LeftAtLimit, stateVars
<1>6. SessionTypeOK'
  BY <1>1, <1>2, <1>4, <1>5 DEF SessionTypeOK
<1> QED
  BY <1>2, <1>6 DEF TypeInv

LEMMA FinishTypes ==
    ASSUME SessionInv, TypeInv, Finish
    PROVE  TypeInv'
<1>1. SessionTypeOK
  BY DEF TypeInv
<1>2. /\ phase = "finish" /\ file' = file /\ temp' = temp /\ cancel' = cancel
      /\ told' = told /\ turns' = turns
  BY DEF Finish
<1>3. CASE Free /\ phase' = "idle"
  <2>1. SessionTypeOK'
    BY <1>1, <1>2, <1>3, FreeTypes DEF SessionTypeOK
  <2> QED
    BY <1>3, <2>1 DEF TypeInv
<1>4. CASE /\ ~(SavedLength < 2) /\ tokens' = SubSeq(tokens, 1, SavedLength)
           /\ phase' = "save" /\ residue' = (residue \/ cancelled)
           /\ UNCHANGED <<answer, stateVars, cancelled>>
  <2>1. /\ tokens \in Seq(Kinds) /\ answer \in 2 .. Len(tokens) /\ Len(tokens) \in Nat
        /\ Len(rows) \in {Len(tokens) - 1, Len(tokens)}
    BY <1>2 DEF SessionInv, TurnInv, Chosen, RowsOf
  <2> DEFINE L == SavedLength
  <2>2. L \in 2 .. Len(tokens)
    <3>1. answer \in Nat
      BY <2>1
    <3>2. CancelledTrim = 0 \/ CancelledTrim \in answer + 1 .. Len(tokens)
      BY <2>1, <3>1, TrimIsInAnswer
    <3> QED
      BY <1>4, <2>1, <3>2 DEF SavedLength
  <2> HIDE DEF L
  <2>3. tokens' \in Seq(Kinds) /\ Len(tokens') = L
    BY <1>4, <2>1, <2>2 DEF L
  <2>4. rows \in Seq(Rows) /\ rows' = rows
    BY <1>1, <1>4 DEF SessionTypeOK, stateVars
  <2>5. SavedRows' \in Seq(Rows)
    <3>1. SavedRows' = SubSeq(rows, 1, L - 1)
      BY <2>3, <2>4 DEF SavedRows
    <3>2. L - 1 \in 0 .. Len(rows)
      BY <2>1, <2>2, <2>4
    <3> QED
      BY <2>4, <3>1, <3>2
  <2>6. residue' \in BOOLEAN
    BY <1>4 DEF SessionInv
  <2>7. SessionTypeOK'
    BY <1>1, <1>2, <1>4, <2>3, <2>6 DEF SessionTypeOK, stateVars
  <2> QED
    BY <1>4, <2>5, <2>7 DEF TypeInv
<1> QED
  BY <1>3, <1>4 DEF Finish

\* The steps of a save: what is written is a snapshot, and neither NoFile nor Torn.
LEMMA SaveTypes ==
    ASSUME SessionInv, TypeInv, SaveCreates \/ SaveWrites \/ SaveRenames \/ SaveFails \/ Reply
    PROVE  TypeInv'
<1>1. SessionTypeOK
  BY DEF TypeInv
<1>2. CASE SaveCreates
  <2>1. /\ phase = "save" /\ phase' = "write" /\ temp' = Torn
        /\ UNCHANGED <<file, tokens, answer, rows, recurrent, delta, cancel, cancelled,
                       residue, told, turns>>
    BY <1>2 DEF SaveCreates, stateVars
  <2>2. SessionTypeOK'
    BY <1>1, <2>1 DEF SessionTypeOK
  <2> QED
    BY <2>1, <2>2 DEF TypeInv, SavedRows
<1>3. CASE SaveWrites
  <2>1. /\ phase = "write" /\ phase' = "rename"
        /\ temp' = [tokens |-> tokens, rows |-> SavedRows, recurrent |-> recurrent,
                    residue |-> residue]
        /\ UNCHANGED <<file, tokens, answer, rows, recurrent, delta, cancel, cancelled,
                       residue, told, turns>>
    BY <1>3 DEF SaveWrites, stateVars
  <2>2. /\ tokens \in Seq(Kinds) /\ SavedRows \in Seq(Rows)
        /\ recurrent \in Seq(Embedded) /\ residue \in BOOLEAN
    BY <1>1, <2>1 DEF TypeInv, SessionTypeOK
  <2>3. temp' \in Snapshots /\ temp'.tokens = tokens'
    BY <2>1, <2>2 DEF Snapshots
  <2>4. SessionTypeOK'
    BY <1>1, <2>1, <2>3 DEF SessionTypeOK
  <2> QED
    BY <2>1, <2>3, <2>4 DEF TypeInv
<1>4. CASE SaveRenames
  <2>1. /\ phase = "rename" /\ phase' = "reply" /\ file' = temp /\ temp' = NoFile
        /\ UNCHANGED <<tokens, answer, rows, recurrent, delta, cancel, cancelled,
                       residue, told, turns>>
    BY <1>4 DEF SaveRenames, stateVars
  <2>2. temp \in Snapshots /\ temp.tokens = tokens
    BY <2>1 DEF TypeInv
  <2>3. SessionTypeOK'
    BY <1>1, <2>1, <2>2 DEF SessionTypeOK
  <2> QED
    BY <2>1, <2>2, <2>3 DEF TypeInv
<1>5. CASE SaveFails
  <2>1. Free /\ phase' = "idle" /\ temp' = NoFile /\ UNCHANGED <<file, cancel, told, turns>>
    BY <1>5 DEF SaveFails
  <2>2. SessionTypeOK'
    BY <1>1, <2>1, FreeTypes DEF SessionTypeOK
  <2> QED
    BY <2>1, <2>2 DEF TypeInv
<1>6. CASE Reply
  <2>1. /\ Free /\ phase' = "idle" /\ told' = tokens
        /\ UNCHANGED <<file, temp, cancel, turns>>
    BY <1>6 DEF Reply
  <2>2. SessionTypeOK'
    BY <1>1, <2>1, FreeTypes DEF SessionTypeOK
  <2> QED
    BY <2>1, <2>2 DEF TypeInv
<1> QED
  BY <1>2, <1>3, <1>4, <1>5, <1>6

LEMMA CompactTypes ==
    ASSUME SessionInv, TypeInv, StartCompact \/ EndSummary
    PROVE  TypeInv'
<1>1. SessionTypeOK
  BY DEF TypeInv
<1>2. /\ phase' \in {"idle", "summary", "prefill"}
      /\ UNCHANGED <<file, temp, answer, rows, recurrent, delta, cancelled, residue, told>>
      /\ cancel' \in BOOLEAN
  BY <1>1 DEF StartCompact, EndSummary, stateVars, SessionTypeOK
<1>3. turns' \in 0 .. MaxTurns
  <2>1. turns' = turns \/ (turns < MaxTurns /\ turns' = turns + 1)
    BY DEF StartCompact, EndSummary
  <2> QED
    BY <1>1, <2>1, SessionAssumption DEF SessionTypeOK
<1>4. tokens' \in Seq(Kinds)
  <2>1. CASE tokens' = tokens
    BY <1>1, <2>1 DEF SessionTypeOK
  <2>2. CASE /\ phase = "summary" /\ tokens' = Compacted(file.tokens)
             /\ Len(Compacted(file.tokens)) < Len(file.tokens)
    <3>1. file.tokens \in Seq(Kinds)
      BY <2>2 DEF SessionInv, RestInv, FileInv, Snapshot
    <3> QED
      BY <2>2, <3>1, CompactedIsText
  <2> QED
    BY <2>1, <2>2 DEF StartCompact, EndSummary
<1>5. SessionTypeOK'
  BY <1>1, <1>2, <1>3, <1>4 DEF SessionTypeOK
<1> QED
  BY <1>2, <1>5 DEF TypeInv

LEMMA PrefillTypes ==
    ASSUME SessionInv, TypeInv, PrefillStep
    PROVE  TypeInv'
<1> DEFINE done == Len(rows)
           rest == Len(tokens) - 1 - done
           count == IF rest > PrefillChunk THEN PrefillChunk ELSE rest
           chunk == SubSeq(tokens, done + 1, done + count)
           row(s) == [kind |-> chunk[s], pos |-> done + s - 1]
           more == [s \in 1 .. count |-> row(s)]
<1>1. SessionTypeOK
  BY DEF TypeInv
<1>2. /\ phase = "prefill" /\ UNCHANGED <<file, temp, cancel, told, turns>>
  BY DEF PrefillStep
<1>3. /\ tokens \in Seq(Kinds) /\ rows \in Seq(Rows) /\ recurrent \in Seq(Embedded)
      /\ done \in Nat /\ Len(tokens) \in Nat /\ done <= Len(tokens) - 1
  BY <1>1, <1>2 DEF SessionInv, PrefillInv, SessionTypeOK
<1>4. CASE rest > 0 /\ cancel /\ phase' = "idle" /\ Free
  <2>1. SessionTypeOK'
    BY <1>1, <1>2, <1>4, FreeTypes DEF SessionTypeOK
  <2> QED
    BY <1>4, <2>1 DEF TypeInv
<1>5. CASE /\ rest > 0 /\ ~cancel
           /\ rows' = rows \o more /\ recurrent' = recurrent \o chunk
           /\ UNCHANGED <<phase, tokens, answer, delta, cancelled, residue>>
  <2>1. count \in Nat /\ count <= rest
    BY <1>3, <1>5, SessionAssumption
  <2>2. chunk \in Seq(Kinds) /\ Len(chunk) = count
    BY <1>3, <2>1
  <2> HIDE DEF count, chunk, done
  <2>3. chunk \in Seq(Embedded)
    BY <2>2 DEF Embedded
  <2>4. ASSUME NEW s \in 1 .. count PROVE row(s) \in Rows
    <3>1. chunk[s] \in Embedded
      BY <2>2, <2>3
    <3>2. done + s - 1 \in Int
      BY <1>3
    <3> QED
      BY <3>1, <3>2 DEF Rows
  <2> HIDE DEF row
  <2>5. more \in Seq(Rows)
    BY <2>1, <2>4
  <2> HIDE DEF more
  <2>6. rows' \in Seq(Rows)
    BY <1>3, <1>5, <2>5
  <2>7. recurrent' \in Seq(Embedded)
    BY <1>3, <1>5, <2>3
  <2>8. SessionTypeOK'
    BY <1>1, <1>2, <1>5, <2>6, <2>7 DEF SessionTypeOK
  <2> QED
    BY <1>2, <1>5, <2>8 DEF TypeInv
<1>6. CASE /\ rest = 0 /\ phase' = "save"
           /\ UNCHANGED <<tokens, answer, stateVars, cancelled, residue>>
  <2>1. rows' = rows /\ tokens' = tokens /\ recurrent' = recurrent /\ delta' = delta
    BY <1>6 DEF stateVars
  <2>2. SavedRows' \in Seq(Rows)
    <3>1. Len(tokens) - 1 = done
      BY <1>3, <1>6
    <3>2. SavedRows' = SubSeq(rows, 1, done)
      BY <2>1, <3>1 DEF SavedRows
    <3> QED
      BY <1>3, <3>2
  <2>3. SessionTypeOK'
    BY <1>1, <1>2, <1>6, <2>1 DEF SessionTypeOK
  <2> QED
    BY <1>6, <2>2, <2>3 DEF TypeInv
<1> QED
  BY <1>4, <1>5, <1>6 DEF PrefillStep

\* The types hold at the start, and every step keeps them.
LEMMA TypeInvHolds == Spec => []TypeInv
<1>1. Init => TypeInv
  <2> SUFFICES ASSUME Init PROVE TypeInv
    OBVIOUS
  <2>1. <<>> \in Seq(Kinds) /\ <<>> \in Seq(Rows) /\ <<>> \in Seq(Embedded)
    OBVIOUS
  <2>2. 0 \in 0 .. MaxTurns
    BY SessionAssumption
  <2>3. tokens \in Seq(Kinds) /\ told \in Seq(Kinds)
    BY <2>1 DEF Init
  <2>4. rows \in Seq(Rows)
    BY <2>1 DEF Init
  <2>5. recurrent \in Seq(Embedded)
    BY <2>1 DEF Init
  <2>6. /\ file = NoFile /\ temp = NoFile /\ phase = "idle" /\ answer \in Nat /\ delta \in Int
        /\ turns \in 0 .. MaxTurns
    BY <2>2 DEF Init
  <2>7. cancel \in BOOLEAN /\ cancelled \in BOOLEAN /\ residue \in BOOLEAN
    BY Zenon DEF Init
  <2>8. SessionTypeOK
    BY <2>3, <2>4, <2>5, <2>6, <2>7 DEF SessionTypeOK
  <2> QED
    BY <2>6, <2>8 DEF TypeInv
<1>2. SessionInv /\ TypeInv /\ [Next]_vars => TypeInv'
  <2> SUFFICES ASSUME SessionInv, TypeInv, [Next]_vars PROVE TypeInv'
    OBVIOUS
  <2>1. SessionTypeOK
    BY DEF TypeInv
  <2>2. CASE RaiseCancel \/ UNCHANGED vars
    <3>1. /\ UNCHANGED <<file, temp, phase, tokens, answer, rows, recurrent, delta,
                         cancelled, residue, told, turns>>
          /\ cancel' \in BOOLEAN
      BY <2>1, <2>2 DEF RaiseCancel, vars, stateVars, SessionTypeOK
    <3> QED
      BY <2>1, <3>1 DEF TypeInv, SessionTypeOK, SavedRows
  <2>3. CASE Crash
    <3>1. /\ Free /\ phase' = "down" /\ temp' = NoFile /\ cancel' = FALSE
          /\ UNCHANGED <<file, told, turns>>
      BY <2>3 DEF Crash
    <3>2. SessionTypeOK'
      BY <2>1, <3>1, FreeTypes DEF SessionTypeOK
    <3> QED
      BY <3>1, <3>2 DEF TypeInv
  <2>4. CASE Restart
    <3>1. SessionTypeOK' /\ phase' = "idle"
      BY <2>1, <2>4 DEF Restart, stateVars, SessionTypeOK
    <3> QED
      BY <3>1 DEF TypeInv
  <2> QED
    BY <2>2, <2>3, <2>4, StartTurnTypes, DecodeTypes, FinishTypes, SaveTypes, CompactTypes,
       PrefillTypes DEF Next
<1> QED
  BY <1>1, <1>2, SessionInvHolds, PTL DEF Spec

-----------------------------------------------------------------------------
(* The theorems.                                                           *)

\* Every snapshot has one row for every token but the last, each computed from
\* that token, whatever session_save, session_resume and compact_session did.
THEOREM SnapshotRows == Spec => []RowsAreTheTokens
<1>1. SessionInv => RowsAreTheTokens
  <2> SUFFICES ASSUME SessionInv, file # NoFile
               PROVE  /\ Len(file.tokens) >= 2 /\ Len(file.rows) = Len(file.tokens) - 1
                      /\ \A i \in 1 .. Len(file.rows) :
                           file.rows[i].kind = EmbeddedAs(file.tokens[i])
    BY DEF RowsAreTheTokens
  <2> QED
    BY DEF SessionInv, FileInv, Snapshot, RowsOf
<1> QED
  BY <1>1, SessionInvHolds, PTL

\* Its recurrent state is that of the same tokens, unless a cancelled turn left
\* the state of what it dropped.
THEOREM SnapshotState == Spec => []StateIsOfTheTokens
<1>1. SessionInv => StateIsOfTheTokens
  BY DEF SessionInv, FileInv, Snapshot, ExactState, StateIsOfTheTokens
<1> QED
  BY <1>1, SessionInvHolds, PTL

\* The history on disk is extended by turns, cancelled ones included, and cut only
\* by a compaction, at a message.
THEOREM HistoryKept == Spec => HistoryIsKept
<1>1. SessionInv /\ [Next]_vars =>
        (file' # file /\ file # NoFile =>
           Extends(file'.tokens, file.tokens) \/ Shortens(file'.tokens, file.tokens))
  <2> SUFFICES ASSUME SessionInv, [Next]_vars, file' # file, file # NoFile
               PROVE  Extends(file'.tokens, file.tokens) \/ Shortens(file'.tokens, file.tokens)
    OBVIOUS
  <2>1. SaveRenames
    BY DEF Next, vars, stateVars, StartTurn, RaiseCancel, ChooseToken, TokenSink, StepToken,
           Finish, SaveCreates, SaveWrites, SaveFails, Reply, StartCompact, EndSummary,
           PrefillStep, Crash, Restart
  <2>2. phase = "rename" /\ file' = temp
    BY <2>1 DEF SaveRenames
  <2> QED
    BY <2>2 DEF SessionInv, SaveInv, Succeeds
<1> QED
  BY <1>1, SessionInvHolds, PTL DEF Spec, HistoryIsKept

\* At every moment the file under the snapshot's name is a whole snapshot, or there
\* is none, whatever failed or died; and every variable has its type.
THEOREM SessionTyped == Spec => []SessionTypeOK
<1>1. TypeInv => SessionTypeOK
  BY DEF TypeInv
<1> QED
  BY <1>1, TypeInvHolds, PTL

\* A client is told of a save only when the file that has the name is the one this
\* turn wrote: a failure at any step of session_save ends the turn without a word.
THEOREM SavedBeforeTold == Spec => ToldIsOnDisk
<1>1. TypeInv /\ [Next]_vars =>
        (told' # told => file' # NoFile /\ file'.tokens = told')
  <2> SUFFICES ASSUME TypeInv, [Next]_vars, told' # told
               PROVE  file' # NoFile /\ file'.tokens = told'
    OBVIOUS
  <2>1. Reply
    BY DEF Next, vars, stateVars, StartTurn, RaiseCancel, ChooseToken, TokenSink, StepToken,
           Finish, SaveCreates, SaveWrites, SaveRenames, SaveFails, StartCompact, EndSummary,
           PrefillStep, Crash, Restart
  <2>2. phase = "reply" /\ told' = tokens /\ file' = file
    BY <2>1 DEF Reply
  <2> QED
    BY <2>2, SessionAssumption DEF TypeInv
<1> QED
  BY <1>1, TypeInvHolds, PTL DEF Spec, ToldIsOnDisk
=============================================================================
