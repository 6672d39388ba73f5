------------------------ MODULE StartupMapperProofs ------------------------
(***************************************************************************)
(* What the startup mapper makes of a line, for texts of any length over   *)
(* any alphabet.  Induction over texts is by a set: a set of sequences     *)
(* that holds the empty one and is closed under Append holds all of them.  *)
(***************************************************************************)
EXTENDS MCAlgorithms, PortAllocatorProofs

-----------------------------------------------------------------------------
(* Induction and recursion. *)

\* A set that holds the empty sequence and is closed under Append holds every
\* sequence: a shortest one outside it would be empty or an Append.
LEMMA SequenceInduction ==
  ASSUME NEW S, NEW P, <<>> \in P,
         \A t \in Seq(S), x \in S : t \in P => Append(t, x) \in P
  PROVE  Seq(S) \subseteq P
<1> SUFFICES ASSUME NEW u \in Seq(S), u \notin P PROVE FALSE
  OBVIOUS
<1> DEFINE T == {n \in Nat : \E t \in Seq(S) : t \notin P /\ Len(t) = n}
<1>1. Len(u) \in T
  BY LenProperties
<1>2. PICK n \in T : \A m \in T : n <= m
  <2>1. T \subseteq Nat /\ T # {}
    BY <1>1
  <2> HIDE DEF T
  <2> QED
    BY <2>1, LeastNatural
<1>3. PICK t \in Seq(S) : t \notin P /\ Len(t) = n
  BY <1>2
<1>4. t # <<>>
  BY <1>3
<1>5. PICK s \in Seq(S), x \in S : t = Append(s, x)
  BY <1>3, <1>4, SequenceEmptyOrAppend
<1>6. Len(s) \in Nat /\ Len(t) = Len(s) + 1
  BY <1>5, LenProperties, AppendProperties
<1>7. s \in P
  BY <1>2, <1>3, <1>6
<1> QED
  BY <1>3, <1>5, <1>7

\* A set of naturals that holds 0 and is closed under successor holds them all.
LEMMA NaturalInduction ==
  ASSUME NEW P, 0 \in P, \A n \in Nat : n \in P => n + 1 \in P
  PROVE  Nat \subseteq P
<1> SUFFICES ASSUME NEW u \in Nat, u \notin P PROVE FALSE
  OBVIOUS
<1> DEFINE T == {n \in Nat : n \notin P}
<1>1. PICK n \in T : \A m \in T : n <= m
  <2>1. T \subseteq Nat /\ T # {}
    OBVIOUS
  <2> HIDE DEF T
  <2> QED
    BY <2>1, LeastNatural
<1>2. n # 0 /\ n - 1 \in Nat
  BY <1>1
<1>3. n - 1 \in P
  BY <1>1, <1>2
<1> QED
  BY <1>1, <1>2, <1>3

\* The recursion of FlattenSeq.
Flattening(f, seqs, n) ==
  f = [i \in 1 .. n |-> IF i = 1 THEN seqs[i] ELSE f[i - 1] \o seqs[i]]

\* It has a solution.
LEMMA FlatteningExists == ASSUME NEW seqs PROVE \A n \in Nat : \E f : Flattening(f, seqs, n)
<1> DEFINE P == {n \in Nat : \E f : Flattening(f, seqs, n)}
<1>1. 0 \in P
  <2>1. Flattening([i \in 1 .. 0 |-> 0], seqs, 0)
    BY DEF Flattening
  <2> QED
    BY <2>1
<1>2. ASSUME NEW n \in Nat, n \in P PROVE n + 1 \in P
  <2>1. PICK f : Flattening(f, seqs, n)
    BY <1>2
  <2> DEFINE last == IF n = 0 THEN seqs[1] ELSE f[n] \o seqs[n + 1]
             g == [i \in 1 .. n + 1 |-> IF i = n + 1 THEN last ELSE f[i]]
  <2>2. ASSUME NEW i \in 1 .. n + 1
        PROVE  g[i] = IF i = 1 THEN seqs[i] ELSE g[i - 1] \o seqs[i]
    <3>1. CASE i = n + 1
      <4>1. g[i] = last
        BY <3>1
      <4>2. CASE n = 0
        BY <3>1, <4>1, <4>2
      <4>3. CASE n # 0
        <5>1. g[i - 1] = f[n] /\ i # 1
          BY <3>1, <4>3
        <5> QED
          BY <3>1, <4>1, <4>3, <5>1
      <4> QED
        BY <4>2, <4>3
    <3>2. CASE i # n + 1
      <4>1. i \in 1 .. n /\ g[i] = f[i]
        BY <3>2
      <4>2. i # 1 => g[i - 1] = f[i - 1]
        BY <4>1
      <4>3. f[i] = IF i = 1 THEN seqs[i] ELSE f[i - 1] \o seqs[i]
        BY <2>1, <4>1 DEF Flattening
      <4> QED
        BY <4>1, <4>2, <4>3
    <3> QED
      BY <3>1, <3>2
  <2>3. Flattening(g, seqs, n + 1)
    <3>1. g = [i \in 1 .. n + 1 |-> g[i]]
      OBVIOUS
    <3> HIDE DEF g
    <3> QED
      BY <2>2, <3>1 DEF Flattening
  <2> QED
    BY <2>3
<1> HIDE DEF P
<1>3. Nat \subseteq P
  BY <1>1, <1>2, NaturalInduction
<1> QED
  BY <1>3 DEF P

\* FlattenSeq is the last value of its recursion.
LEMMA FlattenIs ==
  ASSUME NEW seqs, Len(seqs) \in Nat, Len(seqs) # 0
  PROVE  \E f : Flattening(f, seqs, Len(seqs)) /\ FlattenSeq(seqs) = f[Len(seqs)]
<1> DEFINE f == CHOOSE f : Flattening(f, seqs, Len(seqs))
<1>1. Flattening(f, seqs, Len(seqs))
  BY FlatteningExists
<1>2. FlattenSeq(seqs) = f[Len(seqs)]
  BY DEF FlattenSeq, Flattening
<1> HIDE DEF f
<1> QED
  BY <1>1, <1>2

\* Nothing flattens to nothing,
LEMMA FlattenEmpty == FlattenSeq(<<>>) = <<>>
BY DEF FlattenSeq

\* and one more sequence is appended.
LEMMA FlattenAppend ==
  ASSUME NEW S, NEW seqs \in Seq(Seq(S)), NEW t \in Seq(S)
  PROVE  FlattenSeq(Append(seqs, t)) = FlattenSeq(seqs) \o t
<1> DEFINE more == Append(seqs, t)
           n == Len(seqs)
<1>1. /\ n \in Nat /\ Len(more) = n + 1 /\ more[n + 1] = t
      /\ \A i \in 1 .. n : more[i] = seqs[i]
  BY LenProperties, AppendProperties
<1>2. PICK g : Flattening(g, more, n + 1) /\ FlattenSeq(more) = g[n + 1]
  <2> HIDE DEF more
  <2> QED
    BY <1>1, FlattenIs
<1>3. CASE n = 0
  <2>1. FlattenSeq(more) = t
    BY <1>1, <1>2, <1>3 DEF Flattening
  <2>2. seqs = <<>>
    BY <1>3, EmptySeq
  <2> QED
    BY <2>1, <2>2, FlattenEmpty, ConcatEmptySeq
<1>4. CASE n # 0
  <2>1. PICK f : Flattening(f, seqs, n) /\ FlattenSeq(seqs) = f[n]
    BY <1>1, <1>4, FlattenIs
  <2>2. f[n] = g[n]
    <3> HIDE DEF more, n
    <3> DEFINE P == {i \in Nat : i \in 1 .. n => f[i] = g[i]}
    <3>1. 0 \in P
      BY <1>1
    <3>2. ASSUME NEW i \in Nat, i \in P PROVE i + 1 \in P
      <4> SUFFICES ASSUME i + 1 \in 1 .. n PROVE f[i + 1] = g[i + 1]
        OBVIOUS
      <4>1. f[i + 1] = IF i + 1 = 1 THEN seqs[i + 1] ELSE f[(i + 1) - 1] \o seqs[i + 1]
        BY <2>1 DEF Flattening
      <4>2. g[i + 1] = IF i + 1 = 1 THEN more[i + 1] ELSE g[(i + 1) - 1] \o more[i + 1]
        <5>1. i + 1 \in 1 .. n + 1
          BY <1>1
        <5> QED
          BY <1>2, <5>1 DEF Flattening
      <4>3. more[i + 1] = seqs[i + 1]
        BY <1>1, Zenon
      <4>5. (i + 1) - 1 = i /\ (i + 1 = 1 <=> i = 0)
        OBVIOUS
      <4>4. i # 0 => f[i] = g[i]
        BY <1>1, <3>2
      <4> QED
        BY <4>1, <4>2, <4>3, <4>4, <4>5
    <3> HIDE DEF P
    <3>3. Nat \subseteq P
      BY <3>1, <3>2, NaturalInduction
    <3> QED
      BY <1>1, <1>4, <3>3 DEF P
  <2>3. g[n + 1] = g[n] \o t
    <3>1. n + 1 \in 1 .. n + 1 /\ n + 1 # 1 /\ (n + 1) - 1 = n
      BY <1>1, <1>4
    <3> HIDE DEF more, n
    <3> QED
      BY <1>1, <1>2, <3>1 DEF Flattening
  <2> QED
    BY <1>2, <2>1, <2>2, <2>3
<1> QED
  BY <1>3, <1>4

\* The result is a sequence.
LEMMA FlattenType ==
  ASSUME NEW S, NEW seqs \in Seq(Seq(S))
  PROVE  FlattenSeq(seqs) \in Seq(S)
<1> DEFINE P == {ss \in Seq(Seq(S)) : FlattenSeq(ss) \in Seq(S)}
<1>1. <<>> \in P
  <2>1. <<>> \in Seq(Seq(S)) /\ <<>> \in Seq(S)
    BY EmptySeq
  <2> QED
    BY <2>1, FlattenEmpty
<1>2. ASSUME NEW ss \in Seq(Seq(S)), NEW t \in Seq(S), ss \in P PROVE Append(ss, t) \in P
  BY <1>2, FlattenAppend, AppendProperties, ConcatProperties
<1> HIDE DEF P
<1>3. Seq(Seq(S)) \subseteq P
  BY <1>1, <1>2, SequenceInduction
<1> QED
  BY <1>3 DEF P

-----------------------------------------------------------------------------
(* The loop of splitCommand. *)

Start == [tokens |-> <<>>, current |-> <<>>, quote |-> NoQuote, escaped |-> FALSE]

\* Its recursion.
Scanning(s, raw, n) ==
  s = [i \in 0 .. n |-> IF i = 0 THEN Start ELSE splitStep(s[i - 1], raw[i])]

\* It has a solution.
LEMMA ScanningExists == ASSUME NEW raw PROVE \A n \in Nat : \E s : Scanning(s, raw, n)
<1> DEFINE P == {n \in Nat : \E s : Scanning(s, raw, n)}
<1>1. 0 \in P
  <2>1. Scanning([i \in 0 .. 0 |-> Start], raw, 0)
    BY DEF Scanning
  <2> QED
    BY <2>1
<1>2. ASSUME NEW n \in Nat, n \in P PROVE n + 1 \in P
  <2>1. PICK s : Scanning(s, raw, n)
    BY <1>2
  <2> DEFINE last == splitStep(s[n], raw[n + 1])
             g == [i \in 0 .. n + 1 |-> IF i = n + 1 THEN last ELSE s[i]]
  <2> HIDE DEF last
  <2>2. ASSUME NEW i \in 0 .. n + 1
        PROVE  g[i] = IF i = 0 THEN Start ELSE splitStep(g[i - 1], raw[i])
    <3>1. CASE i = n + 1
      <4>1. g[i] = last /\ g[i - 1] = s[n] /\ i # 0
        BY <3>1
      <4> QED
        BY <3>1, <4>1 DEF last
    <3>2. CASE i # n + 1
      <4>1. i \in 0 .. n /\ g[i] = s[i]
        BY <3>2
      <4>2. i # 0 => g[i - 1] = s[i - 1]
        BY <4>1
      <4>3. s[i] = IF i = 0 THEN Start ELSE splitStep(s[i - 1], raw[i])
        BY <2>1, <4>1 DEF Scanning
      <4> QED
        BY <4>1, <4>2, <4>3
    <3> QED
      BY <3>1, <3>2
  <2>3. Scanning(g, raw, n + 1)
    <3>1. g = [i \in 0 .. n + 1 |-> g[i]]
      OBVIOUS
    <3> HIDE DEF g
    <3> QED
      BY <2>2, <3>1 DEF Scanning
  <2> QED
    BY <2>3
<1> HIDE DEF P
<1>3. Nat \subseteq P
  BY <1>1, <1>2, NaturalInduction
<1> QED
  BY <1>3 DEF P

\* The loop returns the last value of the recursion.
LEMMA ScanIs ==
  ASSUME NEW raw, Len(raw) \in Nat
  PROVE  \E s : Scanning(s, raw, Len(raw)) /\ scan(raw) = s[Len(raw)]
<1> DEFINE s == CHOOSE s : Scanning(s, raw, Len(raw))
<1>1. Scanning(s, raw, Len(raw))
  BY ScanningExists
<1>2. scan(raw) = s[Len(raw)]
  BY DEF scan, Scanning, Start
<1> HIDE DEF s
<1> QED
  BY <1>1, <1>2

\* An empty line leaves the loop where it starts,
LEMMA ScanEmpty == scan(<<>>) = Start
<1>1. Len(<<>>) = 0
  OBVIOUS
<1>2. PICK s : Scanning(s, <<>>, 0) /\ scan(<<>>) = s[0]
  BY <1>1, ScanIs
<1> QED
  BY <1>2 DEF Scanning

\* and one more symbol is one more step.
LEMMA ScanAppend ==
  ASSUME NEW S, NEW t \in Seq(S), NEW x \in S
  PROVE  scan(Append(t, x)) = splitStep(scan(t), x)
<1> DEFINE more == Append(t, x)
           n == Len(t)
<1>1. /\ n \in Nat /\ Len(more) = n + 1 /\ more[n + 1] = x
      /\ \A i \in 1 .. n : more[i] = t[i]
  BY LenProperties, AppendProperties
<1> HIDE DEF more, n
<1>2. PICK g : Scanning(g, more, n + 1) /\ scan(more) = g[n + 1]
  BY <1>1, ScanIs
<1>3. PICK f : Scanning(f, t, n) /\ scan(t) = f[n]
  BY <1>1, ScanIs DEF n
<1> DEFINE P == {i \in Nat : i \in 0 .. n => f[i] = g[i]}
<1>4. 0 \in P
  BY <1>1, <1>2, <1>3 DEF Scanning
<1>5. ASSUME NEW i \in Nat, i \in P PROVE i + 1 \in P
  <2> SUFFICES ASSUME i + 1 \in 0 .. n PROVE f[i + 1] = g[i + 1]
    OBVIOUS
  <2>1. i + 1 \in 1 .. n /\ i + 1 \in 0 .. n + 1 /\ i \in 0 .. n
    BY <1>1
  <2>2. f[i + 1] = IF i + 1 = 0 THEN Start ELSE splitStep(f[(i + 1) - 1], t[i + 1])
    BY <1>3 DEF Scanning
  <2>3. g[i + 1] = IF i + 1 = 0 THEN Start ELSE splitStep(g[(i + 1) - 1], more[i + 1])
    BY <1>2, <2>1 DEF Scanning
  <2>4. more[i + 1] = t[i + 1]
    BY <1>1, <2>1, Zenon
  <2>5. (i + 1) - 1 = i /\ i + 1 # 0
    OBVIOUS
  <2>6. f[i] = g[i]
    BY <1>5, <2>1
  <2> QED
    BY <2>2, <2>3, <2>4, <2>5, <2>6
<1> HIDE DEF P
<1>6. Nat \subseteq P
  BY <1>4, <1>5, NaturalInduction
<1>7. f[n] = g[n]
  BY <1>1, <1>6 DEF P
<1>8. g[n + 1] = splitStep(g[n], x)
  <2>1. n + 1 \in 0 .. n + 1 /\ n + 1 # 0 /\ (n + 1) - 1 = n
    BY <1>1
  <2> QED
    BY <1>1, <1>2, <2>1 DEF Scanning
<1> QED
  BY <1>2, <1>3, <1>7, <1>8 DEF more

-----------------------------------------------------------------------------
(* splitCommand undoes quoting. *)

State(tokens, current, quote, escaped) ==
  [tokens |-> tokens, current |-> current, quote |-> quote, escaped |-> escaped]

\* The loop goes from one state to another with a symbol.
Steps(s, x, t) == splitStep(s, x) = t

\* The steps that a quoted token takes, in the states where it takes them.
LEMMA QuotedSteps ==
  ASSUME NEW ts, NEW c, NEW x
  PROVE  /\ Steps(State(ts, c, NoQuote, FALSE), "'", State(ts, c, "'", FALSE))
         /\ Steps(State(ts, c, "'", FALSE), "'", State(ts, c, NoQuote, FALSE))
         /\ Steps(State(ts, c, "'", FALSE), Escape, State(ts, c, "'", TRUE))
         /\ Steps(State(ts, c, "'", TRUE), x, State(ts, Append(c, x), "'", FALSE))
         /\ x \notin {"'", Escape} =>
              Steps(State(ts, c, "'", FALSE), x, State(ts, Append(c, x), "'", FALSE))
         /\ c # <<>> =>
              Steps(State(ts, c, NoQuote, FALSE), Space, State(Append(ts, c), <<>>, NoQuote, FALSE))
BY Zenon DEF Steps, splitStep, State, WriteRune, flush, Escape, Space, Quotes, NoQuote

\* The symbols of a quoted text.
Signs == {"'", Escape, Space}

EscapedSymbol(x) == IF x \in {"'", Escape} THEN <<Escape, x>> ELSE <<x>>
EscapedText(token) == FlattenSeq([i \in DOMAIN token |-> EscapedSymbol(token[i])])

\* Escaping is a map over the symbols.
LEMMA EscapedAppend ==
  ASSUME NEW S, NEW t \in Seq(S), NEW x \in S
  PROVE  /\ EscapedText(t) \in Seq(S \cup Signs)
         /\ EscapedText(Append(t, x)) = EscapedText(t) \o EscapedSymbol(x)
<1> DEFINE m(u) == [i \in DOMAIN u |-> EscapedSymbol(u[i])]
<1>1. \A y \in S : EscapedSymbol(y) \in Seq(S \cup Signs)
  <2> SUFFICES ASSUME NEW y \in S PROVE EscapedSymbol(y) \in Seq(S \cup Signs)
    OBVIOUS
  <2>1. Escape \in S \cup Signs /\ y \in S \cup Signs
    BY DEF Signs
  <2> DEFINE A == S \cup Signs
  <2> HIDE DEF A
  <2>2. <<Escape, y>> \in Seq(A) /\ <<y>> \in Seq(A)
    BY <2>1 DEF A
  <2> QED
    BY <2>2 DEF EscapedSymbol, A
<1>2. m(t) \in Seq(Seq(S \cup Signs))
  <2>1. DOMAIN t = 1 .. Len(t) /\ Len(t) \in Nat /\ \A i \in 1 .. Len(t) : t[i] \in S
    BY LenProperties, ElementOfSeq
  <2>2. \A i \in 1 .. Len(t) : EscapedSymbol(t[i]) \in Seq(S \cup Signs)
    BY <1>1, <2>1
  <2> QED
    BY <2>1, <2>2, IsASeq
<1>3. m(Append(t, x)) = Append(m(t), EscapedSymbol(x))
  OBVIOUS
<1>4. EscapedText(t) = FlattenSeq(m(t))
      /\ EscapedText(Append(t, x)) = FlattenSeq(m(Append(t, x)))
  BY DEF EscapedText
<1> HIDE DEF m
<1> QED
  BY <1>1, <1>2, <1>3, <1>4, FlattenType, FlattenAppend

\* One symbol more at the end of a concatenation.
LEMMA ConcatSymbols ==
  ASSUME NEW A, NEW p \in Seq(A), NEW u \in Seq(A), NEW x \in A
  PROVE  p \o <<x>> = Append(p, x) /\ p \o (u \o <<x>>) = Append(p \o u, x)
OBVIOUS

\* Between single quotes the loop collects exactly what was escaped.
LEMMA ScanEscaped ==
  ASSUME NEW S, NEW p \in Seq(S \cup Signs), NEW ts,
         scan(p) = State(ts, <<>>, "'", FALSE), NEW token \in Seq(S)
  PROVE  scan(p \o EscapedText(token)) = State(ts, token, "'", FALSE)
<1> DEFINE A == S \cup Signs
           P == {t \in Seq(S) : scan(p \o EscapedText(t)) = State(ts, t, "'", FALSE)}
<1>1. <<>> \in P
  <2>1. EscapedText(<<>>) = <<>>
    <3>1. [i \in DOMAIN <<>> |-> EscapedSymbol(<<>>[i])] = <<>>
      OBVIOUS
    <3> QED
      BY <3>1, FlattenEmpty DEF EscapedText
  <2>2. p \o <<>> = p /\ <<>> \in Seq(S)
    BY ConcatEmptySeq, EmptySeq
  <2> QED
    BY <2>1, <2>2
<1>2. ASSUME NEW t \in Seq(S), NEW x \in S, t \in P PROVE Append(t, x) \in P
  <2> DEFINE u == p \o EscapedText(t)
  <2>1. /\ EscapedText(t) \in Seq(A) /\ u \in Seq(A)
        /\ Append(t, x) \in Seq(S) /\ x \in A /\ Escape \in A
    BY EscapedAppend, ConcatProperties, AppendProperties DEF Signs
  <2>2. scan(u) = State(ts, t, "'", FALSE)
    BY <1>2
  <2> HIDE DEF A, P
  <2>3. EscapedText(Append(t, x)) = EscapedText(t) \o EscapedSymbol(x)
    BY EscapedAppend
  <2>4. CASE x \in {"'", Escape}
    <3>1. p \o EscapedText(Append(t, x)) = Append(Append(u, Escape), x)
      <4>1. EscapedSymbol(x) = <<Escape, x>>
        BY <2>4, Zenon DEF EscapedSymbol
      <4>2. p \in Seq(A)
        BY DEF A
      <4>3. p \o (EscapedText(t) \o <<Escape, x>>) =
              Append(Append(p \o EscapedText(t), Escape), x)
        <5> DEFINE v == EscapedText(t)
        <5>1. v \in Seq(A) /\ Escape \in A /\ x \in A /\ p \in Seq(A)
          BY <2>1, <4>2
        <5>2. v \o <<Escape>> \in Seq(A)
          BY <5>1
        <5>3. v \o <<Escape, x>> = (v \o <<Escape>>) \o <<x>>
          BY <5>1
        <5> HIDE DEF v
        <5>4. p \o ((v \o <<Escape>>) \o <<x>>) = Append(p \o (v \o <<Escape>>), x)
          BY <5>1, <5>2, ConcatSymbols
        <5>5. p \o (v \o <<Escape>>) = Append(p \o v, Escape)
          BY <5>1, ConcatSymbols
        <5> QED
          BY <5>3, <5>4, <5>5, Zenon DEF v
      <4> QED
        BY <2>3, <4>1, <4>3, Zenon
    <3>2. Append(u, Escape) \in Seq(A)
      BY <2>1, AppendProperties
    <3> HIDE DEF u
    <3>3. scan(Append(u, Escape)) = State(ts, t, "'", TRUE)
      <4>1. scan(Append(u, Escape)) = splitStep(scan(u), Escape)
        BY <2>1, ScanAppend, Zenon
      <4>2. Steps(State(ts, t, "'", FALSE), Escape, State(ts, t, "'", TRUE))
        BY QuotedSteps, Zenon
      <4> QED
        BY <2>2, <4>1, <4>2, Zenon DEF Steps
    <3>4. scan(Append(Append(u, Escape), x)) = State(ts, Append(t, x), "'", FALSE)
      <4>1. scan(Append(Append(u, Escape), x)) = splitStep(scan(Append(u, Escape)), x)
        BY <2>1, <3>2, ScanAppend, Zenon
      <4>2. Steps(State(ts, t, "'", TRUE), x, State(ts, Append(t, x), "'", FALSE))
        BY QuotedSteps, Zenon
      <4> QED
        BY <3>3, <4>1, <4>2, Zenon DEF Steps
    <3> QED
      BY <2>1, <3>1, <3>4 DEF P
  <2>5. CASE x \notin {"'", Escape}
    <3>1. p \o EscapedText(Append(t, x)) = Append(u, x)
      <4>1. EscapedSymbol(x) = <<x>>
        BY <2>5, Zenon DEF EscapedSymbol
      <4>2. p \in Seq(A)
        BY DEF A
      <4> QED
        BY <2>1, <2>3, <4>1, <4>2, ConcatSymbols
    <3> HIDE DEF u
    <3>2. scan(Append(u, x)) = State(ts, Append(t, x), "'", FALSE)
      <4>1. scan(Append(u, x)) = splitStep(scan(u), x)
        BY <2>1, ScanAppend, Zenon
      <4>2. Steps(State(ts, t, "'", FALSE), x, State(ts, Append(t, x), "'", FALSE))
        BY <2>5, QuotedSteps, Zenon
      <4> QED
        BY <2>2, <4>1, <4>2, Zenon DEF Steps
    <3> QED
      BY <2>1, <3>1, <3>2 DEF P
  <2> QED
    BY <2>4, <2>5
<1> HIDE DEF P
<1>3. Seq(S) \subseteq P
  BY <1>1, <1>2, SequenceInduction
<1> QED
  BY <1>3 DEF P

\* The line so far is split into whole tokens.
Whole(p, S, ts) ==
  p \in Seq(S \cup Signs) /\ scan(p) = State(ts, <<>>, NoQuote, FALSE)

\* A quoted token and a space add the token to the list.
LEMMA ScanQuoted ==
  ASSUME NEW S, NEW p, NEW ts, Whole(p, S, ts), NEW token \in Seq(S) \ {<<>>}
  PROVE  /\ Quoted(token) \o <<Space>> \in Seq(S \cup Signs)
         /\ Whole(p \o (Quoted(token) \o <<Space>>), S, Append(ts, token))
<1> USE DEF Whole
<1> DEFINE A == S \cup Signs
           e == EscapedText(token)
           q == Append(p, "'")
<1>0. "'" \in A /\ Space \in A /\ p \in Seq(A)
  BY DEF Signs
<1>1. e \in Seq(A)
  <2>1. CASE token = <<>>
    BY <2>1
  <2>2. CASE token # <<>>
    <3>1. PICK t \in Seq(S), x \in S : token = Append(t, x)
      BY <2>2, SequenceEmptyOrAppend
    <3>2. token[1] \in S
      BY <2>2, ElementOfSeq, LenProperties, EmptySeq
    <3> QED
      BY <3>2, EscapedAppend
  <2> QED
    BY <2>1, <2>2
<1>2. Quoted(token) = (<<"'">> \o e) \o <<"'">>
  <2>1. e = FlattenSeq([i \in DOMAIN token |->
                          IF token[i] \in {"'", Escape} THEN <<Escape, token[i]>>
                          ELSE <<token[i]>>])
    BY Zenon DEF EscapedText, EscapedSymbol
  <2> QED
    BY <2>1, Zenon DEF Quoted
<1>3. /\ q \in Seq(A) /\ q \o e \in Seq(A) /\ Append(q \o e, "'") \in Seq(A)
      /\ Quoted(token) \o <<Space>> \in Seq(A)
      /\ p \o (Quoted(token) \o <<Space>>) = Append(Append(q \o e, "'"), Space)
  <2> DEFINE z == "'"
             y == Space
  <2> HIDE DEF A, e, z, y
  <2>1. z \in A /\ y \in A /\ p \in Seq(A) /\ e \in Seq(A)
    BY <1>0, <1>1 DEF z, y
  <2>2. /\ Append(p, z) \in Seq(A) /\ Append(p, z) \o e \in Seq(A)
        /\ Append(Append(p, z) \o e, z) \in Seq(A)
    BY <2>1, AppendProperties, ConcatProperties
  <2>3. ((<<z>> \o e) \o <<z>>) \o <<y>> \in Seq(A)
    BY <2>1
  <2>4. p \o (((<<z>> \o e) \o <<z>>) \o <<y>>) =
          Append(Append(Append(p, z) \o e, z), y)
    <3> DEFINE a == <<z>> \o e
    <3>1. a \in Seq(A) /\ a \o <<z>> \in Seq(A) /\ <<z>> \in Seq(A)
      BY <2>1
    <3>2. p \o a = Append(p, z) \o e
      <4>1. p \o (<<z>> \o e) = (p \o <<z>>) \o e
        BY <2>1, <3>1, ConcatAssociative
      <4>2. p \o <<z>> = Append(p, z)
        BY <2>1, ConcatSymbols
      <4> QED
        BY <4>1, <4>2, Zenon
    <3> HIDE DEF a
    <3>3. p \o ((a \o <<z>>) \o <<y>>) = Append(p \o (a \o <<z>>), y)
      BY <2>1, <3>1, ConcatSymbols
    <3>4. p \o (a \o <<z>>) = Append(p \o a, z)
      BY <2>1, <3>1, ConcatSymbols
    <3> QED
      BY <3>2, <3>3, <3>4, Zenon DEF a
  <2> QED
    BY <1>2, <2>2, <2>3, <2>4, Zenon DEF z, y
<1>4. scan(q) = State(ts, <<>>, "'", FALSE)
  <2> HIDE DEF A
  <2>1. scan(q) = splitStep(scan(p), "'")
    BY <1>0, ScanAppend, Zenon
  <2>2. Steps(State(ts, <<>>, NoQuote, FALSE), "'", State(ts, <<>>, "'", FALSE))
    BY QuotedSteps, Zenon
  <2> QED
    BY <2>1, <2>2, Zenon DEF Steps
<1>5. scan(q \o e) = State(ts, token, "'", FALSE)
  BY <1>3, <1>4, ScanEscaped
<1> HIDE DEF A, e, q
<1>6. scan(Append(q \o e, "'")) = State(ts, token, NoQuote, FALSE)
  <2>1. scan(Append(q \o e, "'")) = splitStep(scan(q \o e), "'")
    BY <1>0, <1>3, ScanAppend, Zenon
  <2>2. Steps(State(ts, token, "'", FALSE), "'", State(ts, token, NoQuote, FALSE))
    BY QuotedSteps, Zenon
  <2> QED
    BY <1>5, <2>1, <2>2, Zenon DEF Steps
<1>7. scan(Append(Append(q \o e, "'"), Space)) = State(Append(ts, token), <<>>, NoQuote, FALSE)
  <2>1. scan(Append(Append(q \o e, "'"), Space)) =
          splitStep(scan(Append(q \o e, "'")), Space)
    BY <1>0, <1>3, ScanAppend, Zenon
  <2>2. Steps(State(ts, token, NoQuote, FALSE), Space,
              State(Append(ts, token), <<>>, NoQuote, FALSE))
    BY QuotedSteps, Zenon
  <2> QED
    BY <1>6, <2>1, <2>2, Zenon DEF Steps
<1>8. Append(Append(q \o e, "'"), Space) \in Seq(A)
  BY <1>0, <1>3, AppendProperties
<1> QED
  BY <1>3, <1>7, <1>8, Zenon DEF A

\* A line of quoted tokens leaves the loop with the tokens.
LEMMA ScanJoined ==
  ASSUME NEW S, NEW tokens \in Seq(Seq(S) \ {<<>>})
  PROVE  scan(Joined(tokens)) = State(tokens, <<>>, NoQuote, FALSE)
<1> DEFINE A == S \cup Signs
           W == Seq(S) \ {<<>>}
           q(t) == Quoted(t) \o <<Space>>
           m(ts) == [i \in DOMAIN ts |-> q(ts[i])]
           P == {ts \in Seq(W) : /\ m(ts) \in Seq(Seq(A))
                                 /\ Joined(ts) \in Seq(A)
                                 /\ scan(Joined(ts)) = State(ts, <<>>, NoQuote, FALSE)}
<1>0. \A ts : Joined(ts) = FlattenSeq(m(ts))
  BY DEF Joined
<1>1. <<>> \in P
  <2>1. m(<<>>) = <<>>
    OBVIOUS
  <2>2. <<>> \in Seq(W) /\ <<>> \in Seq(Seq(A)) /\ <<>> \in Seq(A)
    BY EmptySeq
  <2>3. Joined(<<>>) = <<>>
    BY <1>0, <2>1, FlattenEmpty
  <2>4. scan(<<>>) = State(<<>>, <<>>, NoQuote, FALSE)
    BY ScanEmpty DEF Start, State
  <2> HIDE DEF W, A
  <2> QED
    BY <2>1, <2>2, <2>3, <2>4, Zenon
<1>2. ASSUME NEW ts \in Seq(W), NEW t \in W, ts \in P PROVE Append(ts, t) \in P
  <2>1. m(Append(ts, t)) = Append(m(ts), q(t))
    <3> HIDE DEF q
    <3> QED
      OBVIOUS
  <2>2. /\ m(ts) \in Seq(Seq(A)) /\ Joined(ts) \in Seq(A)
        /\ scan(Joined(ts)) = State(ts, <<>>, NoQuote, FALSE)
    BY <1>2, Zenon
  <2>3. /\ q(t) \in Seq(A)
        /\ scan(Joined(ts) \o q(t)) = State(Append(ts, t), <<>>, NoQuote, FALSE)
    <3>1. Whole(Joined(ts), S, ts)
      BY <2>2, Zenon DEF Whole
    <3>2. /\ Quoted(t) \o <<Space>> \in Seq(S \cup Signs)
          /\ Whole(Joined(ts) \o (Quoted(t) \o <<Space>>), S, Append(ts, t))
      BY <3>1, ScanQuoted, Zenon
    <3> QED
      BY <3>2, Zenon DEF Whole
  <2> HIDE DEF A, W, m, q
  <2>4. Joined(Append(ts, t)) = Joined(ts) \o q(t)
    BY <1>0, <2>1, <2>2, <2>3, FlattenAppend
  <2>5. Append(m(ts), q(t)) \in Seq(Seq(A)) /\ Joined(ts) \o q(t) \in Seq(A)
    BY <2>2, <2>3, AppendProperties, ConcatProperties
  <2>6. Append(ts, t) \in Seq(W)
    BY AppendProperties
  <2> QED
    BY <2>1, <2>3, <2>4, <2>5, <2>6, Zenon
<1>3. tokens \in P
  <2> HIDE DEF P
  <2>1. tokens \in Seq(W)
    OBVIOUS
  <2> HIDE DEF W
  <2> QED
    BY <1>1, <1>2, <2>1, SequenceInduction
<1> QED
  BY <1>3, Zenon

\* splitCommand undoes quoting, for lists of non-empty tokens of any length over
\* any alphabet, spaces, quotes and backslashes included.
THEOREM SplitOfQuoted ==
  ASSUME NEW S, NEW tokens \in Seq(Seq(S) \ {<<>>})
  PROVE  splitCommand(Joined(tokens)) = [ok |-> TRUE, tokens |-> tokens]
<1>1. scan(Joined(tokens)) = State(tokens, <<>>, NoQuote, FALSE)
  BY ScanJoined
<1> DEFINE end == scan(Joined(tokens))
<1>2. /\ end.escaped = FALSE /\ end.quote = NoQuote
      /\ end.current = <<>> /\ end.tokens = tokens
  BY <1>1 DEF State
<1> HIDE DEF end
<1>3. flush(end).tokens = tokens
  BY <1>2 DEF flush
<1>4. (~ end.escaped /\ end.quote = NoQuote) = TRUE
  BY <1>2
<1> QED
  BY <1>3, <1>4, Zenon DEF splitCommand, end

\* The lists of tokens that are split.
SplitCase ==
  /\ input.call = "splitCommand" =>
       input.tokens \in Seq(Seq({"a"} \cup Special) \ {<<>>})
  /\ Ended("splitCommand") => output.result = splitCommand(Joined(input.tokens))

\* The bounded inputs are such lists.
LEMMA SplitInputsType ==
  ASSUME NEW x \in SplitInputs
  PROVE  x.tokens \in Seq(Seq({"a"} \cup Special) \ {<<>>})
<1> DEFINE A == {"a"} \cup Special
           W == Seq(A) \ {<<>>}
<1>1. x.tokens \in BoundedSeq(Tokens, MaxTokens)
  BY DEF SplitInputs
<1> HIDE DEF A
<1>2. Tokens \subseteq W
  <2>1. ASSUME NEW m \in 0 .. MaxToken, NEW t \in [1 .. m -> A] PROVE t \in Seq(A)
    BY DEF MaxToken
  <2> QED
    BY <2>1 DEF Tokens, BoundedSeq, SeqOf, A
<1> HIDE DEF W
<1>3. ASSUME NEW m \in 0 .. MaxTokens, NEW t \in [1 .. m -> Tokens] PROVE t \in Seq(W)
  BY <1>2 DEF MaxTokens
<1>4. x.tokens \in Seq(W)
  BY <1>1, <1>3 DEF BoundedSeq, SeqOf
<1> QED
  BY <1>4 DEF A, W

\* Every list of tokens that is quoted and joined comes back from splitCommand.
THEOREM QuotingUndone == Spec => []SplitUndoesQuoting
<1>1. Init => SplitCase
  <2> SUFFICES ASSUME Init PROVE SplitCase
    OBVIOUS
  <2>1. ~ (output.stage = "end")
    BY DEF Init, Waiting
  <2>2. input.call = "splitCommand" => input \in SplitInputs
    BY DEF Init, AllocateInputs, ResolveInputs
  <2> QED
    BY <2>1, <2>2, SplitInputsType DEF SplitCase, Ended
<1>2. SplitCase /\ [Next]_vars => SplitCase'
  <2> SUFFICES ASSUME SplitCase, [Next]_vars PROVE SplitCase'
    OBVIOUS
  <2>1. input' = input
    BY DEF Next, CallAllocate, CallSplitCommand, CallResolve, CreateRequest, ApplyManifest,
           Pass, Call, vars
  <2>2. CASE CallSplitCommand
    <3>1. output'.result = splitCommand(Joined(input.tokens))
      BY <2>2 DEF CallSplitCommand
    <3> QED
      BY <2>1, <3>1, Zenon DEF SplitCase, Ended
  <2>3. CASE UNCHANGED vars
    <3>1. input' = input /\ output' = output
      BY <2>3 DEF vars
    <3> QED
      BY <3>1, Zenon DEF SplitCase, Ended
  <2>4. CASE CallAllocate \/ CallResolve \/ CreateRequest \/ ApplyManifest
    <3>1. input.call # "splitCommand"
      BY <2>4 DEF CallAllocate, CallResolve, CreateRequest, ApplyManifest, Call
    <3> QED
      BY <2>1, <3>1, Zenon DEF SplitCase, Ended
  <2>5. CASE Pass
    <3>1. output'.stage # "end"
      BY <2>5 DEF Pass
    <3> QED
      BY <2>1, <3>1, Zenon DEF SplitCase, Ended
  <2> QED
    BY <2>2, <2>3, <2>4, <2>5 DEF Next
<1>3. SplitCase => SplitUndoesQuoting
  BY SplitOfQuoted, Zenon DEF SplitCase, SplitUndoesQuoting, Ended
<1> QED
  BY <1>1, <1>2, <1>3, PTL DEF Spec

-----------------------------------------------------------------------------
(* The loop of expandStartup. *)

\* Its recursion.
Expanding(f, raw, values, order, n) ==
  f = [i \in 0 .. n |->
         IF i = 0 THEN raw ELSE Substitute(f[i - 1], order[i], values[order[i]])]

\* It has a solution.
LEMMA ExpandingExists ==
  ASSUME NEW raw, NEW values, NEW order
  PROVE  \A n \in Nat : \E f : Expanding(f, raw, values, order, n)
<1> DEFINE P == {n \in Nat : \E f : Expanding(f, raw, values, order, n)}
<1>1. 0 \in P
  <2>1. Expanding([i \in 0 .. 0 |-> raw], raw, values, order, 0)
    BY DEF Expanding
  <2> QED
    BY <2>1
<1>2. ASSUME NEW n \in Nat, n \in P PROVE n + 1 \in P
  <2>1. PICK f : Expanding(f, raw, values, order, n)
    BY <1>2
  <2> DEFINE last == Substitute(f[n], order[n + 1], values[order[n + 1]])
             g == [i \in 0 .. n + 1 |-> IF i = n + 1 THEN last ELSE f[i]]
  <2> HIDE DEF last
  <2>2. ASSUME NEW i \in 0 .. n + 1
        PROVE  g[i] = IF i = 0 THEN raw ELSE Substitute(g[i - 1], order[i], values[order[i]])
    <3>1. CASE i = n + 1
      <4>1. g[i] = last /\ g[i - 1] = f[n] /\ i # 0
        BY <3>1
      <4> QED
        BY <3>1, <4>1 DEF last
    <3>2. CASE i # n + 1
      <4>1. i \in 0 .. n /\ g[i] = f[i]
        BY <3>2
      <4>2. i # 0 => g[i - 1] = f[i - 1]
        BY <4>1
      <4>3. f[i] = IF i = 0 THEN raw ELSE Substitute(f[i - 1], order[i], values[order[i]])
        BY <2>1, <4>1 DEF Expanding
      <4> QED
        BY <4>1, <4>2, <4>3
    <3> QED
      BY <3>1, <3>2
  <2>3. Expanding(g, raw, values, order, n + 1)
    <3>1. g = [i \in 0 .. n + 1 |-> g[i]]
      OBVIOUS
    <3> HIDE DEF g
    <3> QED
      BY <2>2, <3>1 DEF Expanding
  <2> QED
    BY <2>3
<1> HIDE DEF P
<1>3. Nat \subseteq P
  BY <1>1, <1>2, NaturalInduction
<1> QED
  BY <1>3 DEF P

\* The loop returns the last value of the recursion.
LEMMA ExpandIs ==
  ASSUME NEW raw, NEW values, NEW order, Len(order) \in Nat
  PROVE  \E f : /\ Expanding(f, raw, values, order, Len(order))
                /\ expandStartup(raw, values, order) = f[Len(order)]
<1> DEFINE f == CHOOSE f : Expanding(f, raw, values, order, Len(order))
<1>1. Expanding(f, raw, values, order, Len(order))
  BY ExpandingExists
<1>2. expandStartup(raw, values, order) = f[Len(order)]
  BY DEF expandStartup, Expanding
<1> HIDE DEF f
<1> QED
  BY <1>1, <1>2

\* Without variables the line stays as it is,
LEMMA ExpandEmpty == ASSUME NEW raw, NEW values PROVE expandStartup(raw, values, <<>>) = raw
<1>1. Len(<<>>) = 0
  OBVIOUS
<1>2. PICK f : Expanding(f, raw, values, <<>>, 0) /\ expandStartup(raw, values, <<>>) = f[0]
  BY <1>1, ExpandIs
<1> QED
  BY <1>2 DEF Expanding

\* and one more variable is one more ReplaceAll.
LEMMA ExpandAppend ==
  ASSUME NEW N, NEW order \in Seq(N), NEW x \in N, NEW raw, NEW values
  PROVE  expandStartup(raw, values, Append(order, x)) =
           Substitute(expandStartup(raw, values, order), x, values[x])
<1> DEFINE more == Append(order, x)
           n == Len(order)
<1>1. /\ n \in Nat /\ Len(more) = n + 1 /\ more[n + 1] = x
      /\ \A i \in 1 .. n : more[i] = order[i]
  BY LenProperties, AppendProperties
<1> HIDE DEF more, n
<1>2. PICK g : Expanding(g, raw, values, more, n + 1)
               /\ expandStartup(raw, values, more) = g[n + 1]
  BY <1>1, ExpandIs
<1>3. PICK f : Expanding(f, raw, values, order, n)
               /\ expandStartup(raw, values, order) = f[n]
  BY <1>1, ExpandIs DEF n
<1> DEFINE P == {i \in Nat : i \in 0 .. n => f[i] = g[i]}
<1>4. 0 \in P
  BY <1>1, <1>2, <1>3 DEF Expanding
<1>5. ASSUME NEW i \in Nat, i \in P PROVE i + 1 \in P
  <2> SUFFICES ASSUME i + 1 \in 0 .. n PROVE f[i + 1] = g[i + 1]
    OBVIOUS
  <2>1. i + 1 \in 1 .. n /\ i + 1 \in 0 .. n + 1 /\ i \in 0 .. n
    BY <1>1
  <2>2. f[i + 1] = IF i + 1 = 0 THEN raw
                   ELSE Substitute(f[(i + 1) - 1], order[i + 1], values[order[i + 1]])
    BY <1>3 DEF Expanding
  <2>3. g[i + 1] = IF i + 1 = 0 THEN raw
                   ELSE Substitute(g[(i + 1) - 1], more[i + 1], values[more[i + 1]])
    BY <1>2, <2>1 DEF Expanding
  <2>4. more[i + 1] = order[i + 1]
    BY <1>1, <2>1, Zenon
  <2>5. (i + 1) - 1 = i /\ i + 1 # 0
    OBVIOUS
  <2>6. f[i] = g[i]
    BY <1>5, <2>1
  <2> QED
    BY <2>2, <2>3, <2>4, <2>5, <2>6
<1> HIDE DEF P
<1>6. Nat \subseteq P
  BY <1>4, <1>5, NaturalInduction
<1>7. f[n] = g[n]
  BY <1>1, <1>6 DEF P
<1>8. g[n + 1] = Substitute(g[n], x, values[x])
  <2>1. n + 1 \in 0 .. n + 1 /\ n + 1 # 0 /\ (n + 1) - 1 = n
    BY <1>1
  <2> QED
    BY <1>1, <1>2, <2>1 DEF Expanding
<1> QED
  BY <1>2, <1>3, <1>7, <1>8 DEF more

-----------------------------------------------------------------------------
(* Maps over the symbols of a text. *)

\* Concatenation, as the proofs below use it: by its laws only.
Cat(a, b) == a \o b

CatLaws(A) ==
  /\ \A a, b \in Seq(A) : Cat(a, b) \in Seq(A)
  /\ \A a, b, c \in Seq(A) : Cat(Cat(a, b), c) = Cat(a, Cat(b, c))
  /\ \A a \in Seq(A) : Cat(a, <<>>) = a /\ Cat(<<>>, a) = a
  /\ \A a, b \in Seq(A), x \in A : Cat(a, Append(b, x)) = Append(Cat(a, b), x)
  /\ \A a \in Seq(A), x \in A : Cat(a, <<x>>) = Append(a, x)

LEMMA CatFacts == ASSUME NEW A PROVE CatLaws(A)
<1>1. \A a, b \in Seq(A) : Cat(a, b) \in Seq(A)
  BY DEF Cat
<1>2. \A a, b, c \in Seq(A) : Cat(Cat(a, b), c) = Cat(a, Cat(b, c))
  BY ConcatAssociative DEF Cat
<1>3. \A a \in Seq(A) : Cat(a, <<>>) = a /\ Cat(<<>>, a) = a
  BY ConcatEmptySeq DEF Cat
<1>4. \A a, b \in Seq(A), x \in A : Cat(a, Append(b, x)) = Append(Cat(a, b), x)
  BY DEF Cat
<1>5. \A a \in Seq(A), x \in A : Cat(a, <<x>>) = Append(a, x)
  BY ConcatSymbols DEF Cat
<1> QED
  BY <1>1, <1>2, <1>3, <1>4, <1>5, Zenon DEF CatLaws

\* A text with every symbol replaced by a text.
Each(t, g) == FlattenSeq([i \in DOMAIN t |-> g[t[i]]])

LEMMA EachEmpty == ASSUME NEW g PROVE Each(<<>>, g) = <<>>
<1>1. [i \in DOMAIN <<>> |-> g[<<>>[i]]] = <<>>
  OBVIOUS
<1> QED
  BY <1>1, FlattenEmpty DEF Each

\* The map over texts that a map over symbols gives.
EachLaws(A, B, g) ==
  /\ \A t \in Seq(A) : Each(t, g) \in Seq(B)
  /\ \A t \in Seq(A), x \in A : Each(Append(t, x), g) = Cat(Each(t, g), g[x])

LEMMA EachSteps == ASSUME NEW A, NEW B, NEW g \in [A -> Seq(B)] PROVE EachLaws(A, B, g)
<1> DEFINE m(u) == [i \in DOMAIN u |-> g[u[i]]]
<1>1. ASSUME NEW t \in Seq(A) PROVE m(t) \in Seq(Seq(B))
  <2>1. DOMAIN t = 1 .. Len(t) /\ Len(t) \in Nat /\ \A i \in 1 .. Len(t) : t[i] \in A
    BY LenProperties, ElementOfSeq
  <2>2. \A i \in 1 .. Len(t) : g[t[i]] \in Seq(B)
    BY <2>1
  <2> QED
    BY <2>1, <2>2, IsASeq
<1>2. ASSUME NEW t \in Seq(A), NEW x \in A
      PROVE  m(Append(t, x)) = Append(m(t), g[x]) /\ g[x] \in Seq(B)
  OBVIOUS
<1>3. \A t : Each(t, g) = FlattenSeq(m(t))
  BY Zenon DEF Each
<1> HIDE DEF m
<1>4. ASSUME NEW t \in Seq(A) PROVE Each(t, g) \in Seq(B)
  <2>1. FlattenSeq(m(t)) \in Seq(B)
    BY <1>1, FlattenType
  <2> QED
    BY <1>3, <2>1, Zenon
<1>5. ASSUME NEW t \in Seq(A), NEW x \in A
      PROVE  Each(Append(t, x), g) = Cat(Each(t, g), g[x])
  <2>1. FlattenSeq(Append(m(t), g[x])) = FlattenSeq(m(t)) \o g[x]
    BY <1>1, <1>2, FlattenAppend
  <2> QED
    BY <1>2, <1>3, <2>1, Zenon DEF Cat
<1> QED
  BY <1>4, <1>5, Zenon DEF EachLaws

\* A single symbol.
LEMMA EachOne ==
  ASSUME NEW A, NEW B, NEW g \in [A -> Seq(B)]
  PROVE  \A x \in A : Each(<<x>>, g) = g[x]
<1> SUFFICES ASSUME NEW x \in A PROVE Each(<<x>>, g) = g[x]
  OBVIOUS
<1>1. <<x>> = Append(<<>>, x) /\ <<>> \in Seq(A) /\ g[x] \in Seq(B)
  OBVIOUS
<1>2. EachLaws(A, B, g) /\ CatLaws(B)
  BY EachSteps, CatFacts
<1>3. Each(Append(<<>>, x), g) = Cat(Each(<<>>, g), g[x])
  BY <1>1, <1>2, Zenon DEF EachLaws
<1>4. Cat(<<>>, g[x]) = g[x]
  BY <1>1, <1>2, Zenon DEF CatLaws
<1> QED
  BY <1>1, <1>3, <1>4, EachEmpty, Zenon

\* A concatenation.
LEMMA EachConcat ==
  ASSUME NEW A, NEW B, NEW g \in [A -> Seq(B)], NEW t \in Seq(A)
  PROVE  \A u \in Seq(A) : Each(Cat(t, u), g) = Cat(Each(t, g), Each(u, g))
<1> DEFINE P == {s \in Seq(A) : Each(Cat(t, s), g) = Cat(Each(t, g), Each(s, g))}
<1>0. EachLaws(A, B, g) /\ CatLaws(A) /\ CatLaws(B)
  BY EachSteps, CatFacts
<1>1. <<>> \in P
  <2>1. Cat(t, <<>>) = t
    BY <1>0, Zenon DEF CatLaws
  <2>2. Each(t, g) \in Seq(B) /\ <<>> \in Seq(A)
    BY <1>0, EmptySeq, Zenon DEF EachLaws
  <2>3. Cat(Each(t, g), <<>>) = Each(t, g)
    BY <1>0, <2>2, Zenon DEF CatLaws
  <2> QED
    BY <2>1, <2>2, <2>3, EachEmpty, Zenon
<1>2. ASSUME NEW s \in Seq(A), NEW y \in A, s \in P PROVE Append(s, y) \in P
  <2>1. Append(s, y) \in Seq(A)
    BY AppendProperties
  <2>2. Cat(t, s) \in Seq(A) /\ Cat(t, Append(s, y)) = Append(Cat(t, s), y)
    BY <1>0 DEF CatLaws
  <2>3. Each(Append(Cat(t, s), y), g) = Cat(Each(Cat(t, s), g), g[y])
    BY <1>0, <2>2, Zenon DEF EachLaws
  <2>4. Each(t, g) \in Seq(B) /\ Each(s, g) \in Seq(B)
    BY <1>0, Zenon DEF EachLaws
  <2>5. g[y] \in Seq(B)
    OBVIOUS
  <2>6. Cat(Cat(Each(t, g), Each(s, g)), g[y]) = Cat(Each(t, g), Cat(Each(s, g), g[y]))
    BY <1>0, <2>4, <2>5 DEF CatLaws
  <2>7. Each(Append(s, y), g) = Cat(Each(s, g), g[y])
    BY <1>0, Zenon DEF EachLaws
  <2>8. Each(Cat(t, s), g) = Cat(Each(t, g), Each(s, g))
    BY <1>2
  <2>9. Each(Cat(t, Append(s, y)), g) = Cat(Each(t, g), Each(Append(s, y), g))
    BY <2>2, <2>3, <2>6, <2>7, <2>8, Zenon
  <2> QED
    BY <2>1, <2>9
<1> HIDE DEF P
<1>3. Seq(A) \subseteq P
  BY <1>1, <1>2, SequenceInduction
<1> QED
  BY <1>3 DEF P

\* Symbol for symbol, k is g and then h.
Composed(A, g, h, k) ==
  /\ g \in [A -> Seq(A)] /\ h \in [A -> Seq(A)] /\ k \in [A -> Seq(A)]
  /\ \A x \in A : Each(g[x], h) = k[x]

\* One map after another is a map.
LEMMA EachOfEach ==
  ASSUME NEW A, NEW g, NEW h, NEW k, Composed(A, g, h, k)
  PROVE  \A t \in Seq(A) : Each(Each(t, g), h) = Each(t, k)
<1>0. /\ g \in [A -> Seq(A)] /\ h \in [A -> Seq(A)] /\ k \in [A -> Seq(A)]
      /\ \A x \in A : Each(g[x], h) = k[x]
  BY DEF Composed
<1> DEFINE P == {t \in Seq(A) : Each(Each(t, g), h) = Each(t, k)}
<1>a. EachLaws(A, A, g) /\ EachLaws(A, A, k)
  BY <1>0, EachSteps
<1>1. <<>> \in P
  BY EachEmpty, EmptySeq
<1>2. ASSUME NEW t \in Seq(A), NEW x \in A, t \in P PROVE Append(t, x) \in P
  <2>1. Append(t, x) \in Seq(A) /\ g[x] \in Seq(A)
    BY <1>0, AppendProperties
  <2>2. Each(t, g) \in Seq(A) /\ Each(Append(t, x), g) = Cat(Each(t, g), g[x])
    BY <1>a, Zenon DEF EachLaws
  <2>3. Each(Append(t, x), k) = Cat(Each(t, k), k[x])
    BY <1>a, Zenon DEF EachLaws
  <2>4. Each(Cat(Each(t, g), g[x]), h) = Cat(Each(Each(t, g), h), Each(g[x], h))
    <3>1. \A u \in Seq(A) : Each(Cat(Each(t, g), u), h) = Cat(Each(Each(t, g), h), Each(u, h))
      BY <1>0, <2>2, EachConcat
    <3> QED
      BY <2>1, <3>1, Zenon
  <2>5. Each(Each(t, g), h) = Each(t, k) /\ Each(g[x], h) = k[x]
    BY <1>0, <1>2
  <2>6. Each(Each(Append(t, x), g), h) = Each(Append(t, x), k)
    BY <2>2, <2>3, <2>4, <2>5, Zenon
  <2> QED
    BY <2>1, <2>6
<1> HIDE DEF P
<1>3. Seq(A) \subseteq P
  BY <1>1, <1>2, SequenceInduction
<1> QED
  BY <1>3 DEF P

\* The map leaves the symbols of K alone.
Keeps(A, g, K) == g \in [A -> Seq(A)] /\ K \in SUBSET A /\ \A x \in K : g[x] = <<x>>

\* A text of symbols that the map keeps stays as it is.
LEMMA EachKept ==
  ASSUME NEW A, NEW g, NEW K, Keeps(A, g, K)
  PROVE  \A t \in Seq(K) : Each(t, g) = t
<1>0. g \in [A -> Seq(A)] /\ K \in SUBSET A /\ \A x \in K : g[x] = <<x>>
  BY DEF Keeps
<1> DEFINE P == {t \in Seq(K) : Each(t, g) = t}
<1>a. EachLaws(A, A, g) /\ CatLaws(K)
  BY <1>0, EachSteps, CatFacts
<1>1. <<>> \in P
  BY EachEmpty, EmptySeq
<1>2. ASSUME NEW t \in Seq(K), NEW x \in K, t \in P PROVE Append(t, x) \in P
  <2>1. Append(t, x) \in Seq(K) /\ t \in Seq(A) /\ x \in A
    BY <1>0, AppendProperties, SeqMonotonic
  <2>2. Each(Append(t, x), g) = Cat(Each(t, g), g[x])
    BY <1>a, <2>1, Zenon DEF EachLaws
  <2>3. Cat(t, <<x>>) = Append(t, x)
    BY <1>a, Zenon DEF CatLaws
  <2>4. Each(t, g) = t /\ g[x] = <<x>>
    BY <1>0, <1>2
  <2>5. Each(Append(t, x), g) = Append(t, x)
    BY <2>2, <2>3, <2>4, Zenon
  <2> QED
    BY <2>1, <2>5
<1> HIDE DEF P
<1>3. Seq(K) \subseteq P
  BY <1>1, <1>2, SequenceInduction
<1> QED
  BY <1>3 DEF P

-----------------------------------------------------------------------------
(* Expansion. *)

\* The map of one ReplaceAll.
SubstituteMap(A, name, value) == [x \in A |-> IF x = Placeholder(name) THEN value ELSE <<x>>]

LEMMA SubstituteIsEach ==
  ASSUME NEW A, NEW t \in Seq(A), NEW name, NEW value
  PROVE  Substitute(t, name, value) = Each(t, SubstituteMap(A, name, value))
<1>1. \A i \in DOMAIN t : t[i] \in A
  BY LenProperties, ElementOfSeq
<1>2. \A x \in A : SubstituteMap(A, name, value)[x] =
                     IF x = Placeholder(name) THEN value ELSE <<x>>
  BY DEF SubstituteMap
<1>3. [i \in DOMAIN t |-> IF t[i] = Placeholder(name) THEN value ELSE <<t[i]>>] =
        [i \in DOMAIN t |-> SubstituteMap(A, name, value)[t[i]]]
  BY <1>1, <1>2, Zenon
<1> QED
  BY <1>3, Zenon DEF Substitute, Each

\* The map of a replacement at once.
ImageMap(A, merged) == [x \in A |-> Image(x, merged)]

LEMMA ReplacedIsEach ==
  ASSUME NEW A, NEW t \in Seq(A), NEW merged
  PROVE  Replaced(t, merged) = Each(t, ImageMap(A, merged))
<1>1. \A i \in DOMAIN t : t[i] \in A
  BY LenProperties, ElementOfSeq
<1>2. \A x \in A : ImageMap(A, merged)[x] = Image(x, merged)
  BY DEF ImageMap
<1>3. [i \in DOMAIN t |-> Image(t[i], merged)] =
        [i \in DOMAIN t |-> ImageMap(A, merged)[t[i]]]
  BY <1>1, <1>2, Zenon
<1> QED
  BY <1>3, Zenon DEF Replaced, Each

\* Values over A for names with a placeholder each, none of which occurs in a
\* value.
Plain(A, values) ==
  LET marks == {Placeholder(n) : n \in DOMAIN values}
  IN  /\ values \in [DOMAIN values -> Seq(A \ marks)]
      /\ \A n, k \in DOMAIN values : Placeholder(n) = Placeholder(k) => n = k

\* The values of some of the names.
Some(values, N) == [n \in N |-> values[n]]

\* They are texts.
LEMMA PlainValues ==
  ASSUME NEW A, NEW values, Plain(A, values)
  PROVE  \A n \in DOMAIN values :
           /\ values[n] \in Seq(A \ {Placeholder(k) : k \in DOMAIN values})
           /\ values[n] \in Seq(A)
<1> DEFINE K == A \ {Placeholder(k) : k \in DOMAIN values}
<1>1. \A n \in DOMAIN values : values[n] \in Seq(K)
  BY DEF Plain
<1>2. K \subseteq A
  OBVIOUS
<1> HIDE DEF K
<1>3. \A u \in Seq(K) : u \in Seq(A)
  BY <1>2, SeqMonotonic
<1>4. \A n \in DOMAIN values : values[n] \in Seq(K) /\ values[n] \in Seq(A)
  BY <1>1, <1>3
<1> QED
  BY <1>4 DEF K

\* The image of a symbol, by cases.
LEMMA ImageCases ==
  ASSUME NEW A, NEW values, Plain(A, values), NEW N \in SUBSET DOMAIN values
  PROVE  /\ \A n \in N : Image(Placeholder(n), Some(values, N)) = values[n]
         /\ \A x : (\A n \in N : x # Placeholder(n)) => Image(x, Some(values, N)) = <<x>>
<1> DEFINE named(x) == {n \in DOMAIN Some(values, N) : Placeholder(n) = x}
<1>0. DOMAIN Some(values, N) = N /\ \A n \in N : Some(values, N)[n] = values[n]
  BY DEF Some
<1>1. ASSUME NEW n \in N PROVE Image(Placeholder(n), Some(values, N)) = values[n]
  <2>1. named(Placeholder(n)) = {n}
    BY <1>0 DEF Plain
  <2>2. (CHOOSE k \in {n} : TRUE) = n /\ {n} # {}
    OBVIOUS
  <2>3. Image(Placeholder(n), Some(values, N)) =
          IF named(Placeholder(n)) = {} THEN <<Placeholder(n)>>
          ELSE Some(values, N)[CHOOSE k \in named(Placeholder(n)) : TRUE]
    BY Zenon DEF Image
  <2> HIDE DEF named
  <2> QED
    BY <1>0, <2>1, <2>2, <2>3, Zenon
<1>2. ASSUME NEW x, \A n \in N : x # Placeholder(n) PROVE Image(x, Some(values, N)) = <<x>>
  <2>1. named(x) = {}
    BY <1>0, <1>2
  <2>2. Image(x, Some(values, N)) =
          IF named(x) = {} THEN <<x>> ELSE Some(values, N)[CHOOSE k \in named(x) : TRUE]
    BY Zenon DEF Image
  <2> HIDE DEF named
  <2> QED
    BY <2>1, <2>2, Zenon
<1> QED
  BY <1>1, <1>2

\* The images are texts, and values and other symbols are kept.
LEMMA ImageType ==
  ASSUME NEW A, NEW values, Plain(A, values), NEW N \in SUBSET DOMAIN values
  PROVE  ImageMap(A, Some(values, N)) \in [A -> Seq(A)]
<1> SUFFICES ASSUME NEW x \in A PROVE Image(x, Some(values, N)) \in Seq(A)
  BY DEF ImageMap
<1>1. CASE \A n \in N : x # Placeholder(n)
  <2>1. <<x>> \in Seq(A)
    OBVIOUS
  <2> QED
    BY <1>1, <2>1, ImageCases, Zenon
<1>2. ASSUME NEW n \in N, x = Placeholder(n) PROVE Image(x, Some(values, N)) \in Seq(A)
  <2>1. Image(x, Some(values, N)) = values[n]
    BY <1>2, ImageCases, Zenon
  <2>2. values[n] \in Seq(A)
    BY PlainValues
  <2> QED
    BY <2>1, <2>2
<1> QED
  BY <1>1, <1>2

\* Replacing one name more: a ReplaceAll after a replacement of some names.
LEMMA OneMore ==
  ASSUME NEW A, NEW values, Plain(A, values), NEW N \in SUBSET DOMAIN values,
         NEW n \in DOMAIN values
  PROVE  \A t \in Seq(A) :
           Substitute(Replaced(t, Some(values, N)), n, values[n]) =
             Replaced(t, Some(values, N \cup {n}))
<1> DEFINE g == ImageMap(A, Some(values, N))
           h == SubstituteMap(A, n, values[n])
           k == ImageMap(A, Some(values, N \cup {n}))
           marks == {Placeholder(i) : i \in DOMAIN values}
           more == N \cup {n}
<1>1. more \in SUBSET DOMAIN values
  OBVIOUS
<1>2. g \in [A -> Seq(A)] /\ k \in [A -> Seq(A)]
  BY <1>1, ImageType, Zenon
<1>3. \A i \in DOMAIN values : values[i] \in Seq(A \ marks) /\ values[i] \in Seq(A)
  BY PlainValues
<1>4. h \in [A -> Seq(A)]
  <2>1. \A x \in A : (IF x = Placeholder(n) THEN values[n] ELSE <<x>>) \in Seq(A)
    <3>1. values[n] \in Seq(A)
      BY <1>3
    <3>2. \A x \in A : <<x>> \in Seq(A)
      OBVIOUS
    <3> QED
      BY <3>1, <3>2, Zenon
  <2> QED
    BY <2>1, Zenon DEF SubstituteMap
<1>5. \A x \in A : /\ g[x] = Image(x, Some(values, N))
                   /\ k[x] = Image(x, Some(values, more))
                   /\ h[x] = IF x = Placeholder(n) THEN values[n] ELSE <<x>>
  BY DEF ImageMap, SubstituteMap
<1>6. \A t \in Seq(A \ marks) : Each(t, h) = t
  <2>1. \A x \in A \ marks : h[x] = <<x>>
    BY <1>5
  <2>2. Keeps(A, h, A \ marks)
    BY <1>4, <2>1 DEF Keeps
  <2> HIDE DEF h, marks
  <2> QED
    BY <2>2, EachKept
<1>7. \A x \in A : Each(<<x>>, h) = h[x]
  <2> HIDE DEF h
  <2> QED
    BY <1>4, EachOne
<1>a. /\ \A i \in N : Image(Placeholder(i), Some(values, N)) = values[i]
      /\ \A x : (\A i \in N : x # Placeholder(i)) => Image(x, Some(values, N)) = <<x>>
  BY ImageCases, Zenon
<1>b. /\ \A i \in more : Image(Placeholder(i), Some(values, more)) = values[i]
      /\ \A x : (\A i \in more : x # Placeholder(i)) => Image(x, Some(values, more)) = <<x>>
  <2> HIDE DEF more
  <2> QED
    BY <1>1, ImageCases, Zenon
<1> HIDE DEF g, h, k, more
<1>8. ASSUME NEW x \in A PROVE Each(g[x], h) = k[x]
  <2>1. ASSUME NEW i \in N, x = Placeholder(i) PROVE Each(g[x], h) = k[x]
    <3>1. g[x] = values[i]
      BY <1>5, <1>a, <2>1
    <3>2. i \in more /\ values[i] \in Seq(A \ marks)
      BY <1>3 DEF more
    <3>3. k[x] = values[i]
      BY <1>5, <1>b, <2>1, <3>2
    <3> QED
      BY <1>6, <3>1, <3>2, <3>3, Zenon
  <2>2. CASE x = Placeholder(n) /\ \A i \in N : x # Placeholder(i)
    <3>1. g[x] = <<x>>
      BY <1>5, <1>a, <2>2
    <3>2. h[x] = values[n]
      BY <1>5, <2>2, Zenon
    <3>3. k[x] = values[n]
      <4>1. n \in more
        BY DEF more
      <4> QED
        BY <1>5, <1>b, <2>2, <4>1
    <3> QED
      BY <1>7, <3>1, <3>2, <3>3, Zenon
  <2>3. CASE \A i \in more : x # Placeholder(i)
    <3>1. x # Placeholder(n) /\ \A i \in N : x # Placeholder(i)
      BY <2>3 DEF more
    <3>2. g[x] = <<x>>
      BY <1>5, <1>a, <3>1
    <3>3. h[x] = <<x>>
      BY <1>5, <3>1, Zenon
    <3>4. k[x] = <<x>>
      BY <1>5, <1>b, <2>3
    <3> QED
      BY <1>7, <3>2, <3>3, <3>4, Zenon
  <2> QED
    BY <2>1, <2>2, <2>3 DEF more
<1>9. \A t \in Seq(A) : Each(Each(t, g), h) = Each(t, k)
  <2>1. \A x \in A : Each(g[x], h) = k[x]
    BY <1>8
  <2>2. Composed(A, g, h, k)
    BY <1>2, <1>4, <2>1, Zenon DEF Composed
  <2> QED
    BY <2>2, EachOfEach
<1> SUFFICES ASSUME NEW t \in Seq(A)
             PROVE  Substitute(Replaced(t, Some(values, N)), n, values[n]) =
                      Replaced(t, Some(values, more))
  BY DEF more
<1>10. Replaced(t, Some(values, N)) = Each(t, g) /\ Replaced(t, Some(values, more)) = Each(t, k)
  BY ReplacedIsEach DEF g, k, more
<1>11. Each(t, g) \in Seq(A)
  <2>1. EachLaws(A, A, g)
    BY <1>2, EachSteps
  <2> QED
    BY <2>1, Zenon DEF EachLaws
<1>12. Substitute(Each(t, g), n, values[n]) = Each(Each(t, g), h)
  BY <1>11, SubstituteIsEach DEF h
<1> QED
  BY <1>9, <1>10, <1>12, Zenon

\* Nothing is replaced without names.
LEMMA ReplacedNothing ==
  ASSUME NEW A, NEW values, Plain(A, values)
  PROVE  \A t \in Seq(A) : Replaced(t, Some(values, {})) = t
<1> DEFINE g == ImageMap(A, Some(values, {}))
<1>1. {} \in SUBSET DOMAIN values
  OBVIOUS
<1>2. g \in [A -> Seq(A)]
  BY <1>1, ImageType
<1>3. \A x \in A : Image(x, Some(values, {})) = <<x>>
  BY <1>1, ImageCases
<1>4. \A x \in A : g[x] = <<x>>
  BY <1>3 DEF ImageMap
<1>5. \A t \in Seq(A) : Replaced(t, Some(values, {})) = Each(t, g)
  BY ReplacedIsEach
<1>6. Keeps(A, g, A)
  <2> HIDE DEF g
  <2> QED
    BY <1>2, <1>4 DEF Keeps
<1> HIDE DEF g
<1>7. \A t \in Seq(A) : Each(t, g) = t
  BY <1>6, EachKept
<1> QED
  BY <1>5, <1>7

\* The names a sequence holds.
Held(order) == {order[i] : i \in DOMAIN order}

LEMMA HeldAppend ==
  ASSUME NEW N, NEW order \in Seq(N), NEW n \in N
  PROVE  /\ Held(order) \in SUBSET N
         /\ Held(Append(order, n)) = Held(order) \cup {n}
<1>1. /\ Len(order) \in Nat /\ DOMAIN order = 1 .. Len(order)
      /\ DOMAIN Append(order, n) = 1 .. (Len(order) + 1)
      /\ \A i \in 1 .. Len(order) : order[i] \in N /\ Append(order, n)[i] = order[i]
      /\ Append(order, n)[Len(order) + 1] = n
  BY LenProperties, AppendProperties, ElementOfSeq
<1>2. 1 .. (Len(order) + 1) = (1 .. Len(order)) \cup {Len(order) + 1}
  BY <1>1
<1> HIDE DEF Held
<1>3. ASSUME NEW x PROVE x \in Held(Append(order, n)) <=> x \in Held(order) \cup {n}
  BY <1>1, <1>2 DEF Held
<1> QED
  BY <1>1, <1>3 DEF Held

\* One ReplaceAll after the other is a replacement at once, of the names held
\* by the order.
LEMMA ExpandIsReplaced ==
  ASSUME NEW A, NEW values, Plain(A, values), NEW raw \in Seq(A)
  PROVE  \A order \in Seq(DOMAIN values) :
           expandStartup(raw, values, order) = Replaced(raw, Some(values, Held(order)))
<1> DEFINE N == DOMAIN values
           P == {o \in Seq(N) : expandStartup(raw, values, o) = Replaced(raw, Some(values, Held(o)))}
<1>1. <<>> \in P
  <2>1. Held(<<>>) = {} /\ <<>> \in Seq(N)
    BY DEF Held
  <2>2. Replaced(raw, Some(values, {})) = raw
    BY ReplacedNothing
  <2> QED
    BY <2>1, <2>2, ExpandEmpty
<1>2. ASSUME NEW o \in Seq(N), NEW n \in N, o \in P PROVE Append(o, n) \in P
  <2>1. Append(o, n) \in Seq(N)
    BY AppendProperties
  <2>2. Held(o) \in SUBSET N /\ Held(Append(o, n)) = Held(o) \cup {n}
    BY HeldAppend
  <2>3. expandStartup(raw, values, Append(o, n)) =
          Substitute(expandStartup(raw, values, o), n, values[n])
    BY ExpandAppend
  <2>4. Substitute(Replaced(raw, Some(values, Held(o))), n, values[n]) =
          Replaced(raw, Some(values, Held(o) \cup {n}))
    BY <2>2, OneMore
  <2>5. expandStartup(raw, values, o) = Replaced(raw, Some(values, Held(o)))
    BY <1>2
  <2>6. expandStartup(raw, values, Append(o, n)) =
          Replaced(raw, Some(values, Held(Append(o, n))))
    BY <2>2, <2>3, <2>4, <2>5, Zenon
  <2> QED
    BY <2>1, <2>6
<1> HIDE DEF P
<1>3. Seq(N) \subseteq P
  BY <1>1, <1>2, SequenceInduction
<1> QED
  BY <1>3 DEF P

\* Every order of a finite set holds all of it.
LEMMA OrdersHoldAll ==
  ASSUME NEW N, IsFiniteSet(N), NEW order \in SetToSeqs(N)
  PROVE  order \in Seq(N) /\ Held(order) = N
<1> DEFINE D == 1 .. Cardinality(N)
<1>1. Cardinality(N) \in Nat
  BY FS_CardinalityType
<1>2. order \in [D -> N] /\ \A i, j \in D : i # j => order[i] # order[j]
  BY DEF SetToSeqs
<1>3. order \in Seq(N)
  BY <1>1, <1>2
<1>4. order \in Injection(D, N)
  BY <1>2 DEF Injection, IsInjective
<1>5. Cardinality(D) = Cardinality(N)
  BY <1>1, FS_Interval
<1>6. order \in Surjection(D, N)
  BY <1>4, <1>5, FS_Injection
<1> QED
  BY <1>2, <1>3, <1>6 DEF Surjection, Held

\* Whatever order Go visits the variables in, expandStartup replaces all of
\* them at once, when no value holds a placeholder.
THEOREM ExpansionIgnoresOrder ==
  ASSUME NEW A, NEW values, Plain(A, values), IsFiniteSet(DOMAIN values), NEW raw \in Seq(A),
         NEW order \in SetToSeqs(DOMAIN values)
  PROVE  expandStartup(raw, values, order) = Replaced(raw, values)
<1>1. order \in Seq(DOMAIN values) /\ Held(order) = DOMAIN values
  BY OrdersHoldAll
<1>2. Some(values, DOMAIN values) = values
  BY DEF Plain, Some
<1>3. expandStartup(raw, values, order) = Replaced(raw, Some(values, Held(order)))
  BY <1>1, ExpandIsReplaced
<1> QED
  BY <1>1, <1>2, <1>3, Zenon

-----------------------------------------------------------------------------
(* Whose startup line decides. *)

Symbols == Letters \cup Special \cup {Placeholder(n) : n \in Names}

\* Variables: texts for some of the names.
Variables(v) == DOMAIN v \subseteq Names /\ v \in [DOMAIN v -> Seq(Symbols)]

LEMMA NamesFinite == IsFiniteSet(Names)
<1>1. IsFiniteSet({}) /\ IsFiniteSet({} \cup {"A"}) /\ IsFiniteSet(({} \cup {"A"}) \cup {"B"})
  BY FS_EmptySet, FS_AddElement
<1>2. ({} \cup {"A"}) \cup {"B"} = Names
  BY DEF Names
<1> QED
  BY <1>1, <1>2, Zenon

\* The merged variables are variables, of finitely many names.
LEMMA MergedType ==
  ASSUME NEW variables, Variables(variables), NEW env, Variables(env)
  PROVE  /\ Variables(mergedVariables(variables, env))
         /\ IsFiniteSet(DOMAIN mergedVariables(variables, env))
<1> DEFINE m == mergedVariables(variables, env)
           set == {n \in DOMAIN env : env[n] # <<>>}
<1>1. m = [n \in DOMAIN variables \cup set |->
             IF n \in DOMAIN variables THEN variables[n] ELSE env[n]]
  BY Zenon DEF mergedVariables
<1>2. DOMAIN m = DOMAIN variables \cup set
  BY <1>1
<1>3. DOMAIN m \subseteq Names
  BY <1>2 DEF Variables
<1>4. \A n \in DOMAIN variables \cup set :
        (IF n \in DOMAIN variables THEN variables[n] ELSE env[n]) \in Seq(Symbols)
  BY Zenon DEF Variables
<1>5. m \in [DOMAIN m -> Seq(Symbols)]
  BY <1>1, <1>2, <1>4, Zenon
<1> HIDE DEF m
<1>6. IsFiniteSet(DOMAIN m)
  BY <1>3, NamesFinite, FS_Subset
<1>7. Variables(m)
  BY <1>3, <1>5 DEF Variables
<1> QED
  BY <1>6, <1>7 DEF m

\* A text without placeholders.
LEMMA FlatText ==
  ASSUME NEW A, NEW K, NEW t \in Seq(A), \A i \in DOMAIN t : t[i] \notin K
  PROVE  t \in Seq(A \ K)
<1>1. Len(t) \in Nat /\ DOMAIN t = 1 .. Len(t) /\ \A i \in 1 .. Len(t) : t[i] \in A
  BY LenProperties, ElementOfSeq
<1>2. t = [i \in 1 .. Len(t) |-> t[i]]
  BY LenProperties
<1>3. \A i \in 1 .. Len(t) : t[i] \in A \ K
  BY <1>1
<1>4. [i \in 1 .. Len(t) |-> t[i]] \in Seq(A \ K)
  BY <1>1, <1>3, IsASeq
<1> QED
  BY <1>2, <1>4, Zenon

\* and they are plain, when no value holds a placeholder.
LEMMA FlatIsPlain ==
  ASSUME NEW variables, Variables(variables), NEW env, Variables(env), Flat(variables, env)
  PROVE  Plain(Symbols, mergedVariables(variables, env))
<1> DEFINE m == mergedVariables(variables, env)
           marks == {Placeholder(n) : n \in DOMAIN m}
           set == {n \in DOMAIN env : env[n] # <<>>}
<1>1. DOMAIN m \subseteq Names /\ m \in [DOMAIN m -> Seq(Symbols)]
  BY MergedType DEF Variables
<1>2. \A n \in DOMAIN m : m[n] \in Range(variables) \cup Range(env)
  <2>1. m = [n \in DOMAIN variables \cup set |->
               IF n \in DOMAIN variables THEN variables[n] ELSE env[n]]
    BY Zenon DEF mergedVariables
  <2>2. DOMAIN m = DOMAIN variables \cup set
        /\ \A n \in DOMAIN m : m[n] = IF n \in DOMAIN variables THEN variables[n] ELSE env[n]
    BY <2>1, Zenon
  <2> HIDE DEF m
  <2> QED
    BY <2>2, Zenon DEF Range
<1>3. \A n \in DOMAIN m : \A i \in DOMAIN m[n] : m[n][i] \notin marks
  <2>1. marks \subseteq {Placeholder(n) : n \in Names}
    BY <1>1, Zenon
  <2> HIDE DEF m, marks
  <2> QED
    BY <1>2, <2>1, Zenon DEF Flat
<1>4. \A n, k \in DOMAIN m : Placeholder(n) = Placeholder(k) => n = k
  BY <1>1, PlaceholderAssumption, Zenon
<1>5. m \in [DOMAIN m -> Seq(Symbols \ marks)]
  <2> HIDE DEF m, marks
  <2>1. ASSUME NEW n \in DOMAIN m PROVE m[n] \in Seq(Symbols \ marks)
    <3>1. m[n] \in Seq(Symbols) /\ \A i \in DOMAIN m[n] : m[n][i] \notin marks
      BY <1>1, <1>3
    <3> QED
      BY <3>1, FlatText
  <2> QED
    BY <1>1, <2>1
<1> QED
  BY <1>4, <1>5, Zenon DEF Plain

\* Every order of the variables gives the same command.
LEMMA ResolveIgnoresOrder ==
  ASSUME NEW raw \in Seq(Symbols), NEW variables, Variables(variables),
         NEW env, Variables(env), Flat(variables, env),
         NEW o1 \in Orders(variables, env), NEW o2 \in Orders(variables, env)
  PROVE  Resolve(raw, variables, env, o1) = Resolve(raw, variables, env, o2)
<1> DEFINE m == mergedVariables(variables, env)
<1>1. Plain(Symbols, m) /\ IsFiniteSet(DOMAIN m)
  BY FlatIsPlain, MergedType
<1>2. o1 \in SetToSeqs(DOMAIN m) /\ o2 \in SetToSeqs(DOMAIN m)
  BY DEF Orders
<1> HIDE DEF m
<1>3. expandStartup(raw, m, o1) = Replaced(raw, m)
  BY <1>1, <1>2, ExpansionIgnoresOrder
<1>4. expandStartup(raw, m, o2) = Replaced(raw, m)
  BY <1>1, <1>2, ExpansionIgnoresOrder
<1>5. expandStartup(raw, m, o1) = expandStartup(raw, m, o2)
  BY <1>3, <1>4
<1> QED
  BY <1>5, Zenon DEF Resolve, m

\* A spec whose startup line and environment are texts.
StartsWithText(s) ==
  /\ DOMAIN s = DOMAIN EmptySpec
  /\ s.startup.raw \in Seq(Symbols) /\ Variables(s.startup.variables) /\ Variables(s.env)

\* ApplyStartup keeps the startup line and the environment, and puts the
\* resolved command in place.
LEMMA StartedFields ==
  ASSUME NEW s, DOMAIN s = DOMAIN EmptySpec, NEW order
  PROVE  LET e == ApplyStartup(s, order).spec
             r == Resolve(s.startup.raw, s.startup.variables, s.env, order)
         IN  /\ DOMAIN e = DOMAIN EmptySpec
             /\ e.startup = s.startup /\ e.env = s.env
             /\ s.startup.present /\ r.set => e.command = r.command /\ e.args = r.args
<1> DEFINE r == Resolve(s.startup.raw, s.startup.variables, s.env, order)
<1>1. {"startup", "env", "command", "args"} \subseteq DOMAIN s
  BY DEF EmptySpec
<1>2. \A x, y : LET t == [s EXCEPT !.command = x, !.args = y]
                IN  /\ DOMAIN t = DOMAIN EmptySpec /\ t.startup = s.startup /\ t.env = s.env
                    /\ t.command = x /\ t.args = y
  BY <1>1
<1>3. ApplyStartup(s, order).spec =
        IF ~ s.startup.present THEN s
        ELSE IF r.set THEN [s EXCEPT !.command = r.command, !.args = r.args] ELSE s
  BY DEF ApplyStartup
<1> HIDE DEF r
<1> QED
  BY <1>2, <1>3 DEF r

\* MergeWithClass keeps a startup line and the environment.
LEMMA MergedFields ==
  ASSUME NEW s, DOMAIN s = DOMAIN EmptySpec, s.startup.present, NEW class
  PROVE  LET m == MergeWithClass(s, class)
         IN  /\ DOMAIN m = DOMAIN EmptySpec
             /\ m.startup = s.startup /\ m.env = s.env
<1>1. "startup" \in DOMAIN s /\ "env" \in DOMAIN s
  BY DEF EmptySpec
<1>2. "env" \notin ClassDefaults
  BY DEF ClassDefaults
<1>3. EmptySpec["startup"].present = FALSE
  BY DEF EmptySpec, NoStartup
<1>4. s["startup"] # EmptySpec["startup"]
  BY <1>3
<1> QED
  BY <1>1, <1>2, <1>4 DEF MergeWithClass

\* What gameServerFromRequest starts from.
Requested(req) ==
  [EmptySpec EXCEPT
     !.image = req.image, !.env = req.env,
     !.deletePolicy = "Retain", !.backupPolicy = "None",
     !.lifecyclePolicy = "Retain",
     !.limits = Quantities(req.limits), !.requests = Quantities(req.limits),
     !.size = req.disk * MiB,
     !.mountPath = IF req.disk > 0 THEN "/data" ELSE "",
     !.startup = IF req.startup = <<>> THEN NoStartup
                 ELSE [present |-> TRUE, raw |-> req.startup,
                       variables |-> req.variables]]

LEMMA RequestedFields ==
  ASSUME NEW req
  PROVE  /\ DOMAIN Requested(req) = DOMAIN EmptySpec
         /\ Requested(req).env = req.env
         /\ req.startup = <<>> => Requested(req).startup = NoStartup
         /\ req.startup # <<>> =>
              Requested(req).startup = [present |-> TRUE, raw |-> req.startup,
                                        variables |-> req.variables]
<1>1. "env" \in DOMAIN EmptySpec /\ "startup" \in DOMAIN EmptySpec
  BY DEF EmptySpec
<1> QED
  BY <1>1 DEF Requested

\* A request whose startup line and environment are texts.
RequestsText(req) ==
  req.startup \in Seq(Symbols) /\ Variables(req.variables) /\ Variables(req.env)

\* The spec of such a request: its startup line is the request's, and when it
\* gives a command, that command is stored.
LEMMA StoredFromRequest ==
  ASSUME NEW req, RequestsText(req), NEW order
  PROVE  LET s == gameServerFromRequest(req, order).spec
             r == Resolve(s.startup.raw, s.startup.variables, s.env, order)
         IN  /\ StartsWithText(s) /\ s.env = req.env
             /\ s.startup.present => s.startup.variables = req.variables
             /\ s.startup.present /\ r.set => s.command = r.command /\ s.args = r.args
<1> DEFINE b == Requested(req)
           s == gameServerFromRequest(req, order).spec
<1>1. s = ApplyStartup(b, order).spec
  BY Zenon DEF gameServerFromRequest, Requested
<1>2. /\ DOMAIN b = DOMAIN EmptySpec
      /\ b.env = req.env
      /\ req.startup = <<>> => b.startup = NoStartup
      /\ req.startup # <<>> => b.startup = [present |-> TRUE, raw |-> req.startup,
                                            variables |-> req.variables]
  BY RequestedFields, Zenon
<1> HIDE DEF b, s
<1>3. /\ DOMAIN s = DOMAIN EmptySpec /\ s.startup = b.startup /\ s.env = b.env
      /\ LET r == Resolve(b.startup.raw, b.startup.variables, b.env, order)
         IN  b.startup.present /\ r.set => s.command = r.command /\ s.args = r.args
  BY <1>1, <1>2, StartedFields
<1>4. b.startup.raw \in Seq(Symbols) /\ Variables(b.startup.variables)
      /\ (b.startup.present => b.startup.variables = req.variables)
  <2>1. CASE req.startup = <<>>
    <3>1. NoStartup.raw = <<>> /\ NoStartup.variables = <<>> /\ NoStartup.present = FALSE
      BY DEF NoStartup
    <3>2. <<>> \in Seq(Symbols) /\ Variables(<<>>)
      BY DEF Variables
    <3> QED
      BY <1>2, <2>1, <3>1, <3>2, Zenon
  <2>2. CASE req.startup # <<>>
    <3>1. b.startup.raw = req.startup /\ b.startup.variables = req.variables
      BY <1>2, <2>2
    <3> QED
      BY <3>1, Zenon DEF RequestsText
  <2> QED
    BY <2>1, <2>2
<1>5. Variables(req.env)
  BY DEF RequestsText
<1>6. StartsWithText(s)
  BY <1>2, <1>3, <1>4, <1>5, Zenon DEF StartsWithText
<1> QED
  BY <1>2, <1>3, <1>4, <1>6, Zenon DEF s

-----------------------------------------------------------------------------
(* The inputs are texts. *)

LEMMA AssignmentsType ==
  ASSUME NEW N \in SUBSET Names, NEW V \in SUBSET Seq(Symbols), NEW v \in Assignments(N, V)
  PROVE  Variables(v)
<1>1. PICK S \in SUBSET N : v \in [S -> V]
  BY DEF Assignments
<1> QED
  BY <1>1 DEF Variables

LEMMA SymbolFacts ==
  /\ {"a", "b", "'", Space, Escape} \subseteq Symbols
  /\ "A" \in Names /\ "B" \in Names
  /\ Placeholder("A") \in Symbols /\ Placeholder("B") \in Symbols
<1>1. "A" \in Names /\ "B" \in Names
  BY DEF Names
<1>2. {"a", "b", "'", Space, Escape} \subseteq Letters \cup Special
  BY DEF Letters, Special, Quotes
<1> QED
  BY <1>1, <1>2, Zenon DEF Symbols

LEMMA StartupsType ==
  ASSUME NEW s \in Startups
  PROVE  s.raw \in Seq(Symbols) /\ Variables(s.variables)
<1> DEFINE raws == {<<Space>>, <<"a", "'">>, <<Placeholder("A")>>,
                    <<"a", Space, Placeholder("A"), Placeholder("B")>>}
           values == {<<>>, <<"b", Space>>} \cup Nested
<1>1. CASE s = NoStartup
  <2>1. NoStartup.raw = <<>> /\ NoStartup.variables = <<>>
    BY DEF NoStartup
  <2>2. <<>> \in Seq(Symbols) /\ Variables(<<>>)
    BY DEF Variables
  <2> QED
    BY <1>1, <2>1, <2>2, Zenon
<1>2. CASE s \in [present : {TRUE}, raw : raws, variables : Assignments(Names, values)]
  <2>0. "a" \in Symbols /\ "b" \in Symbols /\ "'" \in Symbols /\ Space \in Symbols
    BY SymbolFacts
  <2>1. s.raw \in raws /\ s.variables \in Assignments(Names, values)
    BY <1>2
  <2>2. raws \subseteq Seq(Symbols)
    BY <2>0, SymbolFacts
  <2>3. values \subseteq Seq(Symbols)
    BY <2>0, SymbolFacts DEF Nested
  <2> HIDE DEF raws, values
  <2> QED
    BY <2>1, <2>2, <2>3, AssignmentsType
<1> QED
  BY <1>1, <1>2 DEF Startups

\* The create requests,
LEMMA RequestsType == \A req \in CreateRequests : RequestsText(req)
<1> SUFFICES ASSUME NEW req \in CreateRequests PROVE RequestsText(req)
  OBVIOUS
<1>1. PICK e \in Assignments({"A"}, Values), s \in Startups :
        req.env = e /\ req.startup = s.raw /\ req.variables = s.variables
  BY DEF CreateRequests
<1>2. {"A"} \in SUBSET Names
  BY DEF Names
<1>3. Values \in SUBSET Seq(Symbols)
  <2>1. "a" \in Symbols /\ "b" \in Symbols
    BY SymbolFacts
  <2> QED
    BY <2>1 DEF Values
<1>4. Variables(e)
  BY <1>2, <1>3, AssignmentsType
<1>5. s.raw \in Seq(Symbols) /\ Variables(s.variables)
  BY StartupsType
<1> QED
  BY <1>1, <1>4, <1>5, Zenon DEF RequestsText

\* and the manifests.
LEMMA ManifestsType == \A s \in Manifests : StartsWithText(s)
<1> DEFINE started(x, c, a) ==
             [EmptySpec EXCEPT !.image = "i", !.startup = x, !.command = c, !.args = a]
           sized(r, l) == [EmptySpec EXCEPT !.requests = r, !.limits = l]
           A == {started(x, c, a) : x \in Startups, c \in {<<>>, <<<<"c">>>>},
                                    a \in {<<>>, <<<<"d">>>>}}
           B == {sized(r, l) : r \in Lists, l \in Lists}
<1>1. Manifests = A \cup B
  BY DEF Manifests
<1>2. /\ EmptySpec.env = <<>> /\ EmptySpec.startup = NoStartup
      /\ "env" \in DOMAIN EmptySpec /\ "startup" \in DOMAIN EmptySpec
  BY DEF EmptySpec
<1>3. \A x, c, a : /\ DOMAIN started(x, c, a) = DOMAIN EmptySpec
                   /\ started(x, c, a).startup = x /\ started(x, c, a).env = <<>>
  BY <1>2
<1>4. \A r, l : /\ DOMAIN sized(r, l) = DOMAIN EmptySpec
                /\ sized(r, l).startup = NoStartup /\ sized(r, l).env = <<>>
  BY <1>2
<1>5. NoStartup \in Startups
  BY DEF Startups
<1>6. Variables(<<>>)
  BY DEF Variables
<1> HIDE DEF started, sized
<1>7. \A s \in A \cup B :
        DOMAIN s = DOMAIN EmptySpec /\ s.startup \in Startups /\ s.env = <<>>
  BY <1>3, <1>4, <1>5
<1> QED
  BY <1>1, <1>6, <1>7, StartupsType DEF StartsWithText

-----------------------------------------------------------------------------

\* What is stored starts with texts, for a create it is what the request gave in
\* some order, and what is rendered is the effective spec in some order.
StartedCase ==
  /\ input.call = "manifest" => StartsWithText(input.spec)
  /\ input.call = "create" => RequestsText(input.req)
  /\ output.stage \in {"stored", "rendered"} =>
       /\ StartsWithText(output.stored)
       /\ input.call = "create" =>
            \E order \in Orders(input.req.variables, input.req.env) :
              output.stored = gameServerFromRequest(input.req, order).spec
  /\ Rendered =>
       \E order \in Orders(MergeWithClass(output.stored, input.class).startup.variables,
                           MergeWithClass(output.stored, input.class).env) :
         output.result = Effective(output.stored, input.class, order)

LEMMA StartedCaseInvariant == Spec => []StartedCase
<1>1. Init => StartedCase
  <2> SUFFICES ASSUME Init PROVE StartedCase
    OBVIOUS
  <2>1. output.stage = "start"
    BY DEF Init, Waiting
  <2>2. input.call = "manifest" => input.spec \in Manifests
    BY DEF Init, AllocateInputs, SplitInputs, ResolveInputs
  <2>3. input.call = "create" => input.req \in CreateRequests
    BY DEF Init, AllocateInputs, SplitInputs, ResolveInputs
  <2> QED
    BY <2>1, <2>2, <2>3, ManifestsType, RequestsType DEF StartedCase, Rendered
<1>2. StartedCase /\ [Next]_vars => StartedCase'
  <2> SUFFICES ASSUME StartedCase, [Next]_vars PROVE StartedCase'
    OBVIOUS
  <2>1. input' = input
    BY DEF Next, CallAllocate, CallSplitCommand, CallResolve, CreateRequest, ApplyManifest,
           Pass, Call, vars
  <2>2. CASE CallAllocate \/ CallSplitCommand \/ CallResolve
    <3>1. output'.stage = "end"
      BY <2>2 DEF CallAllocate, CallSplitCommand, CallResolve
    <3> QED
      BY <2>1, <3>1 DEF StartedCase, Rendered
  <2>3. CASE CreateRequest
    <3>1. PICK order \in Orders(input.req.variables, input.req.env) : output' =
            [stage |-> IF gameServerFromRequest(input.req, order).ok THEN "stored" ELSE "end",
             stored |-> gameServerFromRequest(input.req, order).spec]
      BY <2>3, Zenon DEF CreateRequest
    <3>2. /\ output'.stage \in {"stored", "end"}
          /\ output'.stored = gameServerFromRequest(input.req, order).spec
      BY <3>1
    <3>3. RequestsText(input.req)
      BY <2>3 DEF CreateRequest, Call, StartedCase
    <3>4. StartsWithText(gameServerFromRequest(input.req, order).spec)
      BY <3>3, StoredFromRequest
    <3>5. ~ Rendered'
      BY <3>2 DEF Rendered
    <3> QED
      BY <2>1, <3>2, <3>4, <3>5, Zenon DEF StartedCase
  <2>4. CASE ApplyManifest
    <3>1. /\ output'.stage = "stored" /\ output'.stored = input.spec
          /\ input.call = "manifest" /\ StartsWithText(input.spec)
      BY <2>4 DEF ApplyManifest, Call, StartedCase
    <3>2. input.call # "create" /\ ~ Rendered'
      BY <3>1 DEF Rendered
    <3> QED
      BY <2>1, <3>1, <3>2, Zenon DEF StartedCase
  <2>5. CASE Pass
    <3>1. PICK order \in Orders(MergeWithClass(output.stored, input.class).startup.variables,
                                MergeWithClass(output.stored, input.class).env) :
            output' = [stage |-> "rendered", stored |-> output.stored,
                       result |-> Effective(output.stored, input.class, order)]
      BY <2>5, Zenon DEF Pass
    <3>2. /\ output'.stored = output.stored
          /\ output'.result = Effective(output.stored, input.class, order)
      BY <3>1
    <3>3. output.stage \in {"stored", "rendered"}
      BY <2>5 DEF Pass
    <3> QED
      BY <2>1, <3>2, <3>3, Zenon DEF StartedCase
  <2>6. CASE UNCHANGED vars
    <3>1. input' = input /\ output' = output
      BY <2>6 DEF vars
    <3> QED
      BY <3>1, Zenon DEF StartedCase, Rendered
  <2> QED
    BY <2>2, <2>3, <2>4, <2>5, <2>6 DEF Next
<1> QED
  BY <1>1, <1>2, PTL DEF Spec

\* The effective spec of a server with a startup line of its own.
LEMMA OwnLineRendered ==
  ASSUME NEW s, StartsWithText(s), s.startup.present, Flat(s.startup.variables, s.env),
         NEW class, NEW o1 \in Orders(s.startup.variables, s.env),
         NEW o2 \in Orders(MergeWithClass(s, class).startup.variables,
                           MergeWithClass(s, class).env),
         Resolve(s.startup.raw, s.startup.variables, s.env, o1).set
  PROVE  LET own == Resolve(s.startup.raw, s.startup.variables, s.env, o1)
             e == Effective(s, class, o2).spec
         IN  e.command = own.command /\ e.args = own.args
<1> DEFINE m == MergeWithClass(s, class)
           own == Resolve(s.startup.raw, s.startup.variables, s.env, o1)
           e == Effective(s, class, o2).spec
<1>1. DOMAIN m = DOMAIN EmptySpec /\ m.startup = s.startup /\ m.env = s.env
  BY MergedFields DEF StartsWithText
<1>2. e = ApplyStartup(m, o2).spec
  BY DEF Effective
<1>3. o2 \in Orders(m.startup.variables, m.env)
  OBVIOUS
<1> HIDE DEF m, e
<1>4. o2 \in Orders(s.startup.variables, s.env)
  BY <1>1, <1>3, Zenon
<1>5. Resolve(s.startup.raw, s.startup.variables, s.env, o2) = own
  BY <1>4, ResolveIgnoresOrder DEF StartsWithText
<1>6. LET r == Resolve(m.startup.raw, m.startup.variables, m.env, o2)
      IN  m.startup.present /\ r.set => e.command = r.command /\ e.args = r.args
  BY <1>1, <1>2, StartedFields
<1>7. e.command = own.command /\ e.args = own.args
  BY <1>1, <1>5, <1>6, Zenon
<1> QED
  BY <1>7 DEF e

\* The server's own startup line decides the whole command that ApplyStartup
\* renders: no class and no order of the variables changes it, and what
\* gameServerFromRequest stored is the same command.
THEOREM OwnLineDecides == Spec => []OwnStartupDecides
<1>1. StartedCase => OwnStartupDecides
  <2> SUFFICES ASSUME StartedCase, Rendered, output.stored.startup.present,
                      NEW order \in Orders(output.stored.startup.variables, output.stored.env),
                      Resolve(output.stored.startup.raw, output.stored.startup.variables,
                              output.stored.env, order).set,
                      Flat(output.stored.startup.variables, output.stored.env)
               PROVE  LET own == Resolve(output.stored.startup.raw,
                                         output.stored.startup.variables,
                                         output.stored.env, order)
                      IN  /\ output.result.spec.command = own.command
                          /\ output.result.spec.args = own.args
                          /\ input.call = "create" => /\ output.stored.command = own.command
                                                      /\ output.stored.args = own.args
    BY Zenon DEF OwnStartupDecides
  <2> DEFINE s == output.stored
             own == Resolve(s.startup.raw, s.startup.variables, s.env, order)
  <2>1. StartsWithText(s)
    BY DEF StartedCase, Rendered
  <2>2. PICK o2 \in Orders(MergeWithClass(s, input.class).startup.variables,
                           MergeWithClass(s, input.class).env) :
          output.result = Effective(s, input.class, o2)
    BY Zenon DEF StartedCase
  <2>3. output.result.spec.command = own.command /\ output.result.spec.args = own.args
    BY <2>1, <2>2, OwnLineRendered
  <2>4. ASSUME input.call = "create" PROVE s.command = own.command /\ s.args = own.args
    <3>1. PICK o3 \in Orders(input.req.variables, input.req.env) :
            s = gameServerFromRequest(input.req, o3).spec
      BY <2>4 DEF StartedCase, Rendered
    <3>2. RequestsText(input.req)
      BY <2>4 DEF StartedCase
    <3> DEFINE r == Resolve(s.startup.raw, s.startup.variables, s.env, o3)
    <3>3. /\ s.env = input.req.env /\ s.startup.variables = input.req.variables
          /\ r.set => s.command = r.command /\ s.args = r.args
      <4> DEFINE t == gameServerFromRequest(input.req, o3).spec
                 q == Resolve(t.startup.raw, t.startup.variables, t.env, o3)
      <4>1. /\ t.env = input.req.env
            /\ t.startup.present => t.startup.variables = input.req.variables
            /\ t.startup.present /\ q.set => t.command = q.command /\ t.args = q.args
        BY <3>2, StoredFromRequest, Zenon
      <4> HIDE DEF t
      <4>2. s = t
        BY <3>1 DEF t
      <4> QED
        BY <4>1, <4>2, Zenon
    <3>4. o3 \in Orders(s.startup.variables, s.env)
      BY <3>3
    <3>5. r = own
      BY <2>1, <3>4, ResolveIgnoresOrder DEF StartsWithText
    <3> QED
      BY <3>3, <3>5, Zenon
  <2> QED
    BY <2>3, <2>4, Zenon
<1> QED
  BY <1>1, StartedCaseInvariant, PTL

-----------------------------------------------------------------------------
(* Expanding and then splitting. *)

\* The image of a symbol under all values.
LEMMA WholeImage ==
  ASSUME NEW A, NEW values, Plain(A, values)
  PROVE  /\ \A n \in DOMAIN values : Image(Placeholder(n), values) = values[n]
         /\ \A x : (\A n \in DOMAIN values : x # Placeholder(n)) => Image(x, values) = <<x>>
         /\ ImageMap(A, values) \in [A -> Seq(A)]
<1>1. Some(values, DOMAIN values) = values
  BY DEF Plain, Some
<1>2. DOMAIN values \in SUBSET DOMAIN values
  OBVIOUS
<1> DEFINE w == Some(values, DOMAIN values)
<1>3. /\ \A n \in DOMAIN values : Image(Placeholder(n), w) = values[n]
      /\ \A x : (\A n \in DOMAIN values : x # Placeholder(n)) => Image(x, w) = <<x>>
  BY <1>2, ImageCases
<1>4. ImageMap(A, w) \in [A -> Seq(A)]
  BY <1>2, ImageType
<1> HIDE DEF w
<1>5. w = values
  BY <1>1 DEF w
<1> QED
  BY <1>3, <1>4, <1>5, Zenon

\* Replacing placeholders, symbol for symbol,
LEMMA ReplacedSteps ==
  ASSUME NEW A, NEW values, Plain(A, values)
  PROVE  /\ Replaced(<<>>, values) = <<>>
         /\ \A t \in Seq(A) : Replaced(t, values) \in Seq(A)
         /\ \A t \in Seq(A), x \in A :
              Replaced(Append(t, x), values) = Cat(Replaced(t, values), Image(x, values))
<1> DEFINE g == ImageMap(A, values)
<1>1. g \in [A -> Seq(A)]
  BY WholeImage
<1>2. \A t \in Seq(A) : Replaced(t, values) = Each(t, g)
  BY ReplacedIsEach
<1>3. \A x \in A : g[x] = Image(x, values)
  BY DEF ImageMap
<1> HIDE DEF g
<1>4. Each(<<>>, g) = <<>>
  BY EachEmpty
<1>5. /\ \A t \in Seq(A) : Each(t, g) \in Seq(A)
      /\ \A t \in Seq(A), x \in A : Each(Append(t, x), g) = Cat(Each(t, g), g[x])
  <2>1. EachLaws(A, A, g)
    BY <1>1, EachSteps
  <2> QED
    BY <2>1, Zenon DEF EachLaws
<1>6. <<>> \in Seq(A) /\ \A t \in Seq(A), x \in A : Append(t, x) \in Seq(A)
  OBVIOUS
<1> QED
  BY <1>2, <1>3, <1>4, <1>5, <1>6, Zenon

\* and token for token.
LEMMA ReplacedTokensSteps ==
  ASSUME NEW A, NEW values, Plain(A, values)
  PROVE  /\ ReplacedTokens(<<>>, values) = <<>>
         /\ \A ts \in Seq(Seq(A)) : ReplacedTokens(ts, values) \in Seq(Seq(A))
         /\ \A ts \in Seq(Seq(A)), t \in Seq(A) :
              ReplacedTokens(Append(ts, t), values) =
                IF Replaced(t, values) = <<>> THEN ReplacedTokens(ts, values)
                ELSE Append(ReplacedTokens(ts, values), Replaced(t, values))
<1> DEFINE W == Seq(A)
           R(t) == Replaced(t, values)
           g == [t \in W |-> IF R(t) = <<>> THEN <<>> ELSE <<R(t)>>]
<1>1. \A t \in W : R(t) \in W
  BY ReplacedSteps
<1> HIDE DEF W
<1>2. \A t \in W : (IF R(t) = <<>> THEN <<>> ELSE <<R(t)>>) \in Seq(W)
  <2> HIDE DEF R
  <2> QED
    BY <1>1
<1>3. g \in [W -> Seq(W)] /\ \A t \in W : g[t] = IF R(t) = <<>> THEN <<>> ELSE <<R(t)>>
  BY <1>2, Zenon
<1>4. \A ts \in Seq(W) : ReplacedTokens(ts, values) = Each(ts, g)
  <2> SUFFICES ASSUME NEW ts \in Seq(W) PROVE ReplacedTokens(ts, values) = Each(ts, g)
    OBVIOUS
  <2>1. \A i \in DOMAIN ts : ts[i] \in W
    BY LenProperties, ElementOfSeq
  <2>2. [i \in DOMAIN ts |-> IF R(ts[i]) = <<>> THEN <<>> ELSE <<R(ts[i])>>] =
          [i \in DOMAIN ts |-> g[ts[i]]]
    <3> HIDE DEF g, R
    <3> QED
      BY <1>3, <2>1, Zenon
  <2> QED
    BY <2>2, Zenon DEF ReplacedTokens, Each
<1> HIDE DEF g, R
<1>5. Each(<<>>, g) = <<>>
  BY EachEmpty
<1>6. /\ \A ts \in Seq(W) : Each(ts, g) \in Seq(W)
      /\ \A ts \in Seq(W), t \in W : Each(Append(ts, t), g) = Cat(Each(ts, g), g[t])
  <2>1. EachLaws(W, W, g)
    BY <1>3, EachSteps
  <2> QED
    BY <2>1, Zenon DEF EachLaws
<1>7. <<>> \in Seq(W) /\ \A ts \in Seq(W), t \in W : Append(ts, t) \in Seq(W)
  OBVIOUS
<1>8. ASSUME NEW ts \in Seq(W), NEW t \in W
      PROVE  Each(Append(ts, t), g) =
               IF R(t) = <<>> THEN Each(ts, g) ELSE Append(Each(ts, g), R(t))
  <2>1. Each(ts, g) \in Seq(W) /\ R(t) \in W
    BY <1>1, <1>6
  <2>2. Cat(Each(ts, g), <<>>) = Each(ts, g) /\ Cat(Each(ts, g), <<R(t)>>) = Append(Each(ts, g), R(t))
    <3>1. CatLaws(W)
      BY CatFacts
    <3> QED
      BY <2>1, <3>1 DEF CatLaws
  <2> QED
    BY <1>3, <1>6, <2>2, Zenon
<1>9. /\ ReplacedTokens(<<>>, values) = <<>>
      /\ \A ts \in Seq(W) : ReplacedTokens(ts, values) \in Seq(W)
      /\ \A ts \in Seq(W), t \in W :
           ReplacedTokens(Append(ts, t), values) =
             IF R(t) = <<>> THEN ReplacedTokens(ts, values)
             ELSE Append(ReplacedTokens(ts, values), R(t))
  BY <1>4, <1>5, <1>6, <1>7, <1>8, Zenon
<1> QED
  BY <1>9 DEF W, R

\* One symbol, from any state of the loop.
LEMMA StepCases ==
  ASSUME NEW ts, NEW c, NEW q, NEW x
  PROVE  /\ Steps(State(ts, c, q, TRUE), x, State(ts, Append(c, x), q, FALSE))
         /\ x = Escape => Steps(State(ts, c, q, FALSE), x, State(ts, c, q, TRUE))
         /\ x # Escape /\ q # NoQuote /\ x = q =>
              Steps(State(ts, c, q, FALSE), x, State(ts, c, NoQuote, FALSE))
         /\ x # Escape /\ q # NoQuote /\ x # q =>
              Steps(State(ts, c, q, FALSE), x, State(ts, Append(c, x), q, FALSE))
         /\ x # Escape /\ q = NoQuote /\ x \in Quotes =>
              Steps(State(ts, c, q, FALSE), x, State(ts, c, x, FALSE))
         /\ x # Escape /\ q = NoQuote /\ x \notin Quotes /\ x = Space /\ c = <<>> =>
              Steps(State(ts, c, q, FALSE), x, State(ts, c, q, FALSE))
         /\ x # Escape /\ q = NoQuote /\ x \notin Quotes /\ x = Space /\ c # <<>> =>
              Steps(State(ts, c, q, FALSE), x, State(Append(ts, c), <<>>, q, FALSE))
         /\ x # Escape /\ q = NoQuote /\ x \notin Quotes /\ x # Space =>
              Steps(State(ts, c, q, FALSE), x, State(ts, Append(c, x), q, FALSE))
<1>1. Steps(State(ts, c, q, TRUE), x, State(ts, Append(c, x), q, FALSE))
  BY Zenon DEF Steps, splitStep, State, WriteRune
<1>2. x = Escape => Steps(State(ts, c, q, FALSE), x, State(ts, c, q, TRUE))
  BY Zenon DEF Steps, splitStep, State
<1>3. x # Escape /\ q # NoQuote /\ x = q =>
        Steps(State(ts, c, q, FALSE), x, State(ts, c, NoQuote, FALSE))
  BY Zenon DEF Steps, splitStep, State
<1>4. x # Escape /\ q # NoQuote /\ x # q =>
        Steps(State(ts, c, q, FALSE), x, State(ts, Append(c, x), q, FALSE))
  BY Zenon DEF Steps, splitStep, State, WriteRune
<1>5. x # Escape /\ q = NoQuote /\ x \in Quotes =>
        Steps(State(ts, c, q, FALSE), x, State(ts, c, x, FALSE))
  BY Zenon DEF Steps, splitStep, State
<1>6. x # Escape /\ q = NoQuote /\ x \notin Quotes /\ x = Space =>
        Steps(State(ts, c, q, FALSE), x, flush(State(ts, c, q, FALSE)))
  BY Zenon DEF Steps, splitStep, State
<1>7. /\ c = <<>> => flush(State(ts, c, q, FALSE)) = State(ts, c, q, FALSE)
      /\ c # <<>> => flush(State(ts, c, q, FALSE)) = State(Append(ts, c), <<>>, q, FALSE)
  BY Zenon DEF flush, State
<1>8. x # Escape /\ q = NoQuote /\ x \notin Quotes /\ x # Space =>
        Steps(State(ts, c, q, FALSE), x, State(ts, Append(c, x), q, FALSE))
  BY Zenon DEF Steps, splitStep, State, WriteRune
<1> QED
  BY <1>1, <1>2, <1>3, <1>4, <1>5, <1>6, <1>7, <1>8, Zenon

\* An ordinary symbol is collected, escaped or not, between quotes or not.
LEMMA OrdinaryStep ==
  ASSUME NEW ts, NEW c, NEW q \in {NoQuote} \cup Quotes, NEW e \in BOOLEAN,
         NEW x, x \notin Special
  PROVE  Steps(State(ts, c, q, e), x, State(ts, Append(c, x), q, FALSE))
<1>1. x # Escape /\ x # Space /\ x \notin Quotes
  BY DEF Special
<1>2. CASE e = TRUE
  BY <1>2, StepCases, Zenon
<1>3. CASE e = FALSE /\ q = NoQuote
  BY <1>1, <1>3, StepCases, Zenon
<1>4. CASE e = FALSE /\ q # NoQuote
  <2>1. x # q
    BY <1>1, <1>4
  <2> QED
    BY <1>1, <1>4, <2>1, StepCases, Zenon
<1> QED
  BY <1>2, <1>3, <1>4

\* The loop ends in a state.
Scanned(t, ts, c, q, e) == scan(t) = State(ts, c, q, e)

\* A text of ordinary symbols is collected as it is.
LEMMA ScanOrdinary ==
  ASSUME NEW A, NEW p \in Seq(A), NEW ts, NEW c \in Seq(A),
         NEW q \in {NoQuote} \cup Quotes, NEW e \in BOOLEAN, Scanned(p, ts, c, q, e)
  PROVE  \A v \in Seq(A \ Special) :
           Scanned(Cat(p, v), ts, Cat(c, v), q, IF v = <<>> THEN e ELSE FALSE)
<1> DEFINE K == A \ Special
           P == {v \in Seq(K) : scan(Cat(p, v)) =
                                  State(ts, Cat(c, v), q, IF v = <<>> THEN e ELSE FALSE)}
<1>0. scan(p) = State(ts, c, q, e)
  BY DEF Scanned
<1>a. /\ Cat(p, <<>>) = p /\ Cat(c, <<>>) = c
      /\ \A v \in Seq(A), x \in A : /\ Cat(p, v) \in Seq(A)
                                    /\ Cat(p, Append(v, x)) = Append(Cat(p, v), x)
                                    /\ Cat(c, Append(v, x)) = Append(Cat(c, v), x)
  <2>1. CatLaws(A)
    BY CatFacts
  <2>2. Cat(p, <<>>) = p /\ Cat(c, <<>>) = c
    BY <2>1, Zenon DEF CatLaws
  <2>3. ASSUME NEW v \in Seq(A), NEW x \in A
        PROVE  /\ Cat(p, v) \in Seq(A)
               /\ Cat(p, Append(v, x)) = Append(Cat(p, v), x)
               /\ Cat(c, Append(v, x)) = Append(Cat(c, v), x)
    <3>1. Cat(p, v) \in Seq(A)
      BY <2>1, Zenon DEF CatLaws
    <3>2. \A a \in Seq(A) : Cat(a, Append(v, x)) = Append(Cat(a, v), x)
      BY DEF Cat
    <3>3. Cat(p, Append(v, x)) = Append(Cat(p, v), x) /\ Cat(c, Append(v, x)) = Append(Cat(c, v), x)
      BY <3>2, Zenon
    <3> QED
      BY <3>1, <3>3
  <2> QED
    BY <2>2, <2>3
<1>1. <<>> \in P
  <2>1. <<>> \in Seq(K)
    OBVIOUS
  <2> QED
    BY <1>0, <1>a, <2>1
<1>2. ASSUME NEW v \in Seq(K), NEW x \in K, v \in P PROVE Append(v, x) \in P
  <2>1. /\ Append(v, x) \in Seq(K) /\ Append(v, x) # <<>>
        /\ v \in Seq(A) /\ x \in A /\ x \notin Special
    BY AppendProperties, SeqMonotonic
  <2> DEFINE d == IF v = <<>> THEN e ELSE FALSE
  <2>2. d \in BOOLEAN
    OBVIOUS
  <2>3. scan(Cat(p, v)) = State(ts, Cat(c, v), q, d)
    BY <1>2
  <2> HIDE DEF d
  <2>4. scan(Append(Cat(p, v), x)) = splitStep(scan(Cat(p, v)), x)
    BY <1>a, <2>1, ScanAppend
  <2>5. Steps(State(ts, Cat(c, v), q, d), x, State(ts, Append(Cat(c, v), x), q, FALSE))
    BY <2>1, <2>2, OrdinaryStep, Zenon
  <2>6. scan(Cat(p, Append(v, x))) = State(ts, Cat(c, Append(v, x)), q, FALSE)
    BY <1>a, <2>1, <2>3, <2>4, <2>5, Zenon DEF Steps
  <2> QED
    BY <2>1, <2>6
<1> HIDE DEF P
<1>3. Seq(K) \subseteq P
  BY <1>1, <1>2, SequenceInduction
<1> QED
  BY <1>3 DEF P, Scanned

-----------------------------------------------------------------------------

\* Values without quotes, spaces, backslashes and placeholders.
Harmless(A, values) ==
  /\ Plain(A, values)
  /\ \A n \in DOMAIN values : values[n] \in Seq(A \ Special) /\ Placeholder(n) \notin Special

\* A state of the loop.
LoopState(A, ts, c, q, e) ==
  ts \in Seq(Seq(A)) /\ c \in Seq(A) /\ q \in {NoQuote} \cup Quotes /\ e \in BOOLEAN

\* The state of the loop with placeholders replaced.
ReplacedState(values, ts, c, q, e) ==
  State(ReplacedTokens(ts, values), Replaced(c, values), q, e)

\* With x a state and its replaced state go to a state and its replaced state.
GoTogether(A, values, ts, c, q, e, x) ==
  \E ts2, c2, q2, e2 :
    /\ LoopState(A, ts2, c2, q2, e2)
    /\ Steps(State(ts, c, q, e), x, State(ts2, c2, q2, e2))
    /\ Steps(ReplacedState(values, ts, c, q, e), x, ReplacedState(values, ts2, c2, q2, e2))
    /\ e2 => x = Escape

\* They do with every symbol that is no placeholder.
LEMMA SameStep ==
  ASSUME NEW A, NEW values, Harmless(A, values), NEW ts, NEW c, NEW q, NEW e,
         LoopState(A, ts, c, q, e), NEW x \in A, Image(x, values) = <<x>>
  PROVE  GoTogether(A, values, ts, c, q, e, x)
<1> DEFINE T == ReplacedTokens(ts, values)
           C == Replaced(c, values)
           Goal(ts2, c2, q2, e2) ==
             /\ LoopState(A, ts2, c2, q2, e2)
             /\ Steps(State(ts, c, q, e), x, State(ts2, c2, q2, e2))
             /\ Steps(State(T, C, q, e), x, ReplacedState(values, ts2, c2, q2, e2))
             /\ e2 => x = Escape
<1> SUFFICES \E ts2, c2, q2, e2 : Goal(ts2, c2, q2, e2)
  BY Zenon DEF ReplacedState, GoTogether
<1>1. /\ Replaced(<<>>, values) = <<>> /\ C \in Seq(A)
      /\ Replaced(Append(c, x), values) = Append(C, x)
  <2>1. /\ Replaced(<<>>, values) = <<>> /\ C \in Seq(A)
        /\ Replaced(Append(c, x), values) = Cat(C, Image(x, values))
    BY ReplacedSteps DEF Harmless, LoopState
  <2>2. Cat(C, <<x>>) = Append(C, x)
    <3>1. CatLaws(A)
      BY CatFacts
    <3> QED
      BY <2>1, <3>1, Zenon DEF CatLaws
  <2> QED
    BY <2>1, <2>2, Zenon
<1>2. ReplacedTokens(Append(ts, c), values) = IF C = <<>> THEN T ELSE Append(T, C)
  BY ReplacedTokensSteps DEF Harmless, LoopState
<1>3. /\ Append(c, x) \in Seq(A) /\ Append(ts, c) \in Seq(Seq(A)) /\ <<>> \in Seq(A)
      /\ ts \in Seq(Seq(A)) /\ c \in Seq(A)
  BY DEF LoopState
<1>4. q \in {NoQuote} \cup Quotes /\ NoQuote \in {NoQuote} \cup Quotes /\ e \in BOOLEAN
  BY DEF LoopState
<1> HIDE DEF T, C
<1>w. ASSUME Steps(State(ts, c, q, e), x, State(ts, Append(c, x), q, FALSE)),
             Steps(State(T, C, q, e), x, State(T, Append(C, x), q, FALSE))
      PROVE  Goal(ts, Append(c, x), q, FALSE)
  <2>1. LoopState(A, ts, Append(c, x), q, FALSE)
    BY <1>3, <1>4 DEF LoopState
  <2>2. ReplacedState(values, ts, Append(c, x), q, FALSE) = State(T, Append(C, x), q, FALSE)
    BY <1>1, Zenon DEF ReplacedState, T
  <2> QED
    BY <1>w, <2>1, <2>2, Zenon
<1>s. \A q2, e2 : ReplacedState(values, ts, c, q2, e2) = State(T, C, q2, e2)
  BY Zenon DEF ReplacedState, T, C
<1>5. CASE e = TRUE
  <2>1. /\ Steps(State(ts, c, q, e), x, State(ts, Append(c, x), q, FALSE))
        /\ Steps(State(T, C, q, e), x, State(T, Append(C, x), q, FALSE))
    BY <1>5, StepCases, Zenon
  <2> QED
    BY <1>w, <2>1, Zenon
<1>6. CASE e = FALSE /\ x = Escape
  <2>1. /\ Steps(State(ts, c, q, e), x, State(ts, c, q, TRUE))
        /\ Steps(State(T, C, q, e), x, State(T, C, q, TRUE))
    BY <1>6, StepCases, Zenon
  <2>2. LoopState(A, ts, c, q, TRUE)
    BY <1>3, <1>4 DEF LoopState
  <2>3. Goal(ts, c, q, TRUE)
    BY <1>s, <1>6, <2>1, <2>2, Zenon
  <2> HIDE DEF Goal
  <2> QED
    BY <2>3, Zenon
<1>7. CASE e = FALSE /\ x # Escape /\ q # NoQuote /\ x = q
  <2>1. /\ Steps(State(ts, c, q, e), x, State(ts, c, NoQuote, FALSE))
        /\ Steps(State(T, C, q, e), x, State(T, C, NoQuote, FALSE))
    BY <1>7, StepCases, Zenon
  <2>2. LoopState(A, ts, c, NoQuote, FALSE)
    BY <1>3, <1>4 DEF LoopState
  <2>3. Goal(ts, c, NoQuote, FALSE)
    BY <1>s, <2>1, <2>2, Zenon
  <2> HIDE DEF Goal
  <2> QED
    BY <2>3, Zenon
<1>8. CASE e = FALSE /\ x # Escape /\ q # NoQuote /\ x # q
  <2>1. /\ Steps(State(ts, c, q, e), x, State(ts, Append(c, x), q, FALSE))
        /\ Steps(State(T, C, q, e), x, State(T, Append(C, x), q, FALSE))
    BY <1>8, StepCases, Zenon
  <2> QED
    BY <1>w, <2>1, Zenon
<1>9. CASE e = FALSE /\ x # Escape /\ q = NoQuote /\ x \in Quotes
  <2>1. /\ Steps(State(ts, c, q, e), x, State(ts, c, x, FALSE))
        /\ Steps(State(T, C, q, e), x, State(T, C, x, FALSE))
    BY <1>9, StepCases, Zenon
  <2>2. LoopState(A, ts, c, x, FALSE)
    BY <1>3, <1>9 DEF LoopState
  <2>3. Goal(ts, c, x, FALSE)
    BY <1>s, <2>1, <2>2, Zenon
  <2> HIDE DEF Goal
  <2> QED
    BY <2>3, Zenon
<1>10. CASE e = FALSE /\ x # Escape /\ q = NoQuote /\ x \notin Quotes /\ x = Space
  <2>1. CASE c = <<>>
    <3>1. C = <<>>
      BY <1>1, <2>1 DEF C
    <3>2. /\ Steps(State(ts, c, q, e), x, State(ts, c, q, FALSE))
          /\ Steps(State(T, C, q, e), x, State(T, C, q, FALSE))
      BY <1>10, <2>1, <3>1, StepCases, Zenon
    <3>3. LoopState(A, ts, c, q, FALSE)
      BY <1>3, <1>4 DEF LoopState
    <3>4. Goal(ts, c, q, FALSE)
      BY <1>s, <3>2, <3>3, Zenon
    <3> HIDE DEF Goal
    <3> QED
      BY <3>4, Zenon
  <2>2. CASE c # <<>>
    <3>1. Steps(State(ts, c, q, e), x, State(Append(ts, c), <<>>, q, FALSE))
      BY <1>10, <2>2, StepCases, Zenon
    <3>2. LoopState(A, Append(ts, c), <<>>, q, FALSE)
      BY <1>3, <1>4 DEF LoopState
    <3>3. ReplacedState(values, Append(ts, c), <<>>, q, FALSE) =
            State(IF C = <<>> THEN T ELSE Append(T, C), <<>>, q, FALSE)
      BY <1>1, <1>2, Zenon DEF ReplacedState
    <3>4. Steps(State(T, C, q, e), x, State(IF C = <<>> THEN T ELSE Append(T, C), <<>>, q, FALSE))
      <4>1. CASE C = <<>>
        <5>1. Steps(State(T, C, q, e), x, State(T, C, q, FALSE))
          BY <1>10, <4>1, StepCases, Zenon
        <5> QED
          BY <4>1, <5>1, Zenon
      <4>2. CASE C # <<>>
        <5>1. Steps(State(T, C, q, e), x, State(Append(T, C), <<>>, q, FALSE))
          BY <1>10, <4>2, StepCases, Zenon
        <5> QED
          BY <4>2, <5>1, Zenon
      <4> QED
        BY <4>1, <4>2
    <3>5. Goal(Append(ts, c), <<>>, q, FALSE)
      BY <3>1, <3>2, <3>3, <3>4, Zenon
    <3> HIDE DEF Goal
    <3> QED
      BY <3>5, Zenon
  <2> QED
    BY <2>1, <2>2
<1>11. CASE e = FALSE /\ x # Escape /\ q = NoQuote /\ x \notin Quotes /\ x # Space
  <2>1. /\ Steps(State(ts, c, q, e), x, State(ts, Append(c, x), q, FALSE))
        /\ Steps(State(T, C, q, e), x, State(T, Append(C, x), q, FALSE))
    BY <1>11, StepCases, Zenon
  <2> QED
    BY <1>w, <2>1, Zenon
<1> QED
  BY <1>4, <1>5, <1>6, <1>7, <1>8, <1>9, <1>10, <1>11

\* The text and the text with its placeholders replaced leave the loop alike.
Alike(A, values, t, ts, c, q, e) ==
  /\ LoopState(A, ts, c, q, e)
  /\ scan(t) = State(ts, c, q, e)
  /\ scan(Replaced(t, values)) = ReplacedState(values, ts, c, q, e)
  /\ e => t # <<>> /\ t[Len(t)] = Escape

\* One symbol more; after a backslash it must not vanish.
LEMMA AlikeStep ==
  ASSUME NEW A, NEW values, Harmless(A, values), NEW t \in Seq(A), NEW x \in A,
         NEW ts, NEW c, NEW q, NEW e, Alike(A, values, t, ts, c, q, e),
         e => Image(x, values) # <<>>
  PROVE  \E ts2, c2, q2, e2 : Alike(A, values, Append(t, x), ts2, c2, q2, e2)
<1> DEFINE R(u) == Replaced(u, values)
           v == Image(x, values)
<1>1. LoopState(A, ts, c, q, e) /\ scan(t) = State(ts, c, q, e)
      /\ scan(R(t)) = ReplacedState(values, ts, c, q, e)
  BY DEF Alike
<1>2. Plain(A, values)
  BY DEF Harmless
<1>3. R(t) \in Seq(A) /\ R(Append(t, x)) = Cat(R(t), v)
  BY <1>2, ReplacedSteps
<1>4. scan(Append(t, x)) = splitStep(State(ts, c, q, e), x)
  BY <1>1, ScanAppend
<1>5. Append(t, x) # <<>> /\ Append(t, x)[Len(Append(t, x))] = x
  BY AppendProperties
<1> HIDE DEF R, v
<1>6. ASSUME NEW ts2, NEW c2, NEW q2, NEW e2, LoopState(A, ts2, c2, q2, e2),
             Steps(State(ts, c, q, e), x, State(ts2, c2, q2, e2)),
             scan(Cat(R(t), v)) = ReplacedState(values, ts2, c2, q2, e2),
             e2 => x = Escape
      PROVE  \E ts3, c3, q3, e3 : Alike(A, values, Append(t, x), ts3, c3, q3, e3)
  <2>1. scan(Append(t, x)) = State(ts2, c2, q2, e2)
    BY <1>4, <1>6, Zenon DEF Steps
  <2>2. scan(Replaced(Append(t, x), values)) = ReplacedState(values, ts2, c2, q2, e2)
    BY <1>3, <1>6, Zenon DEF R
  <2>3. Alike(A, values, Append(t, x), ts2, c2, q2, e2)
    BY <1>5, <1>6, <2>1, <2>2, Zenon DEF Alike
  <2> QED
    BY <2>3, Zenon
<1>7. CASE \A n \in DOMAIN values : x # Placeholder(n)
  <2>1. v = <<x>>
    BY <1>2, <1>7, WholeImage DEF v
  <2>2. PICK ts2, c2, q2, e2 :
          /\ LoopState(A, ts2, c2, q2, e2)
          /\ Steps(State(ts, c, q, e), x, State(ts2, c2, q2, e2))
          /\ Steps(ReplacedState(values, ts, c, q, e), x,
                   ReplacedState(values, ts2, c2, q2, e2))
          /\ e2 => x = Escape
    <3>1. Image(x, values) = <<x>>
      BY <2>1 DEF v
    <3>2. GoTogether(A, values, ts, c, q, e, x)
      BY <1>1, <3>1, SameStep, Zenon
    <3> QED
      BY <3>2, Zenon DEF GoTogether
  <2>3. Cat(R(t), v) = Append(R(t), x)
    <3>1. CatLaws(A)
      BY CatFacts
    <3> QED
      BY <1>3, <2>1, <3>1, Zenon DEF CatLaws
  <2>4. scan(Append(R(t), x)) = splitStep(scan(R(t)), x)
    BY <1>3, ScanAppend
  <2>5. scan(Cat(R(t), v)) = ReplacedState(values, ts2, c2, q2, e2)
    BY <1>1, <2>2, <2>3, <2>4, Zenon DEF Steps
  <2> QED
    BY <1>6, <2>2, <2>5, Zenon
<1>8. ASSUME NEW n \in DOMAIN values, x = Placeholder(n)
      PROVE  \E ts2, c2, q2, e2 : Alike(A, values, Append(t, x), ts2, c2, q2, e2)
  <2>1. v = values[n]
    BY <1>2, <1>8, WholeImage DEF v
  <2>2. v \in Seq(A \ Special) /\ x \notin Special
    BY <1>8, <2>1 DEF Harmless
  <2>3. /\ ts \in Seq(Seq(A)) /\ c \in Seq(A) /\ Append(c, x) \in Seq(A)
        /\ q \in {NoQuote} \cup Quotes /\ e \in BOOLEAN
    BY <1>1 DEF LoopState
  <2>4. LoopState(A, ts, Append(c, x), q, FALSE)
    BY <2>3 DEF LoopState
  <2>5. Steps(State(ts, c, q, e), x, State(ts, Append(c, x), q, FALSE))
    BY <2>2, <2>3, OrdinaryStep, Zenon
  <2>6. R(c) \in Seq(A) /\ R(Append(c, x)) = Cat(R(c), v)
    BY <1>2, <2>3, ReplacedSteps DEF R, v
  <2> DEFINE T == ReplacedTokens(ts, values)
  <2>7. scan(R(t)) = State(T, R(c), q, e)
    BY <1>1, Zenon DEF ReplacedState, R
  <2> HIDE DEF T
  <2>8. scan(Cat(R(t), v)) = State(T, Cat(R(c), v), q, IF v = <<>> THEN e ELSE FALSE)
    <3>1. Scanned(R(t), T, R(c), q, e)
      BY <2>7 DEF Scanned
    <3>2. Scanned(Cat(R(t), v), T, Cat(R(c), v), q, IF v = <<>> THEN e ELSE FALSE)
      BY <1>3, <2>2, <2>3, <2>6, <3>1, ScanOrdinary, Zenon
    <3> QED
      BY <3>2 DEF Scanned
  <2>9. (IF v = <<>> THEN e ELSE FALSE) = FALSE
    BY <2>3 DEF v
  <2>10. scan(Cat(R(t), v)) = ReplacedState(values, ts, Append(c, x), q, FALSE)
    BY <2>6, <2>8, <2>9, Zenon DEF ReplacedState, R, T
  <2> QED
    BY <1>6, <2>4, <2>5, <2>10, Zenon
<1> QED
  BY <1>7, <1>8

\* No symbol after a backslash vanishes.
EscapesHold(values, t) ==
  \A i \in 2 .. Len(t) : t[i - 1] = Escape => Image(t[i], values) # <<>>

LEMMA EscapesHoldAppend ==
  ASSUME NEW A, NEW values, NEW t \in Seq(A), NEW x \in A, EscapesHold(values, Append(t, x))
  PROVE  /\ EscapesHold(values, t)
         /\ t # <<>> /\ t[Len(t)] = Escape => Image(x, values) # <<>>
<1> DEFINE u == Append(t, x)
<1>1. /\ Len(t) \in Nat /\ Len(u) = Len(t) + 1 /\ u[Len(t) + 1] = x
      /\ \A i \in 1 .. Len(t) : u[i] = t[i]
  BY LenProperties, AppendProperties
<1>2. \A i \in 2 .. Len(u) : u[i - 1] = Escape => Image(u[i], values) # <<>>
  BY DEF EscapesHold
<1>3. t # <<>> => Len(t) >= 1
  BY <1>1, EmptySeq
<1> HIDE DEF u
<1>4. ASSUME NEW i \in 2 .. Len(t), t[i - 1] = Escape PROVE Image(t[i], values) # <<>>
  <2>1. i \in 2 .. Len(u) /\ i \in 1 .. Len(t) /\ i - 1 \in 1 .. Len(t)
    BY <1>1
  <2> QED
    BY <1>1, <1>2, <1>4, <2>1, Zenon
<1>5. ASSUME t # <<>>, t[Len(t)] = Escape PROVE Image(x, values) # <<>>
  <2>1. /\ Len(t) + 1 \in 2 .. Len(u) /\ (Len(t) + 1) - 1 = Len(t)
        /\ Len(t) \in 1 .. Len(t)
    BY <1>1, <1>3, <1>5
  <2> QED
    BY <1>1, <1>2, <1>5, <2>1, Zenon
<1> QED
  BY <1>4, <1>5 DEF EscapesHold

\* Every text in which no symbol after a backslash vanishes.
LEMMA AlikeAll ==
  ASSUME NEW A, NEW values, Harmless(A, values)
  PROVE  \A t \in Seq(A) : EscapesHold(values, t) =>
           \E ts, c, q, e : Alike(A, values, t, ts, c, q, e)
<1> DEFINE Good(t) == \E ts, c, q, e : Alike(A, values, t, ts, c, q, e)
           P == {t \in Seq(A) : EscapesHold(values, t) => Good(t)}
<1>1. <<>> \in P
  <2>1. Replaced(<<>>, values) = <<>> /\ ReplacedTokens(<<>>, values) = <<>>
    BY ReplacedSteps, ReplacedTokensSteps DEF Harmless
  <2>2. scan(<<>>) = State(<<>>, <<>>, NoQuote, FALSE)
    BY ScanEmpty, Zenon DEF Start, State
  <2>3. ReplacedState(values, <<>>, <<>>, NoQuote, FALSE) = State(<<>>, <<>>, NoQuote, FALSE)
    BY <2>1, Zenon DEF ReplacedState
  <2>4. LoopState(A, <<>>, <<>>, NoQuote, FALSE)
    BY DEF LoopState
  <2>5. Alike(A, values, <<>>, <<>>, <<>>, NoQuote, FALSE)
    BY <2>1, <2>2, <2>3, <2>4, Zenon DEF Alike
  <2>6. Good(<<>>)
    BY <2>5, Zenon
  <2> HIDE DEF Good
  <2> QED
    BY <2>6, EmptySeq
<1>2. ASSUME NEW t \in Seq(A), NEW x \in A, t \in P PROVE Append(t, x) \in P
  <2>1. ASSUME EscapesHold(values, Append(t, x)) PROVE Good(Append(t, x))
    <3>1. EscapesHold(values, t) /\ (t # <<>> /\ t[Len(t)] = Escape => Image(x, values) # <<>>)
      BY <2>1, EscapesHoldAppend
    <3>2. Good(t)
      <4> HIDE DEF Good
      <4> QED
        BY <1>2, <3>1
    <3>3. PICK ts, c, q, e : Alike(A, values, t, ts, c, q, e)
      BY <3>2, Zenon
    <3>4. e => Image(x, values) # <<>>
      BY <3>1, <3>3, Zenon DEF Alike
    <3> QED
      BY <3>3, <3>4, AlikeStep, Zenon
  <2>2. Append(t, x) \in Seq(A)
    BY AppendProperties
  <2> HIDE DEF Good
  <2> QED
    BY <2>1, <2>2
<1> HIDE DEF P
<1>3. Seq(A) \subseteq P
  BY <1>1, <1>2, SequenceInduction
<1> QED
  BY <1>3 DEF P

\* What splitCommand returns, from the state the loop ends in.
LEMMA SplitOfState ==
  ASSUME NEW t, NEW ts, NEW c, NEW q, NEW e \in BOOLEAN, scan(t) = State(ts, c, q, e)
  PROVE  splitCommand(t) = [ok |-> ~ e /\ q = NoQuote,
                            tokens |-> IF c = <<>> THEN ts ELSE Append(ts, c)]
<1>1. /\ State(ts, c, q, e).escaped = e /\ State(ts, c, q, e).quote = q
      /\ State(ts, c, q, e).tokens = ts /\ State(ts, c, q, e).current = c
  BY Zenon DEF State
<1>2. c = <<>> => flush(State(ts, c, q, e)).tokens = ts
  BY <1>1, Zenon DEF flush
<1>3. c # <<>> => flush(State(ts, c, q, e)).tokens = Append(ts, c)
  BY Zenon DEF flush, State
<1>4. flush(State(ts, c, q, e)).tokens = IF c = <<>> THEN ts ELSE Append(ts, c)
  BY <1>2, <1>3
<1>5. splitCommand(t) = [ok |-> ~ State(ts, c, q, e).escaped /\ State(ts, c, q, e).quote = NoQuote,
                         tokens |-> flush(State(ts, c, q, e)).tokens]
  BY Zenon DEF splitCommand
<1> QED
  BY <1>1, <1>4, <1>5, Zenon

\* Splitting the expanded line gives the tokens of the line as written, each
\* with its placeholders replaced at once and without those that are then
\* empty: for texts of any length over any alphabet, values without quotes,
\* spaces, backslashes and placeholders, and no value that vanishes behind a
\* backslash.
THEOREM SplitAfterExpansion ==
  ASSUME NEW A, NEW values, Harmless(A, values), NEW t \in Seq(A), EscapesHold(values, t)
  PROVE  /\ splitCommand(t).tokens \in Seq(Seq(A))
         /\ splitCommand(Replaced(t, values)) =
              [ok |-> splitCommand(t).ok,
               tokens |-> ReplacedTokens(splitCommand(t).tokens, values)]
<1>1. PICK ts, c, q, e : Alike(A, values, t, ts, c, q, e)
  BY AlikeAll, Zenon
<1>2. /\ ts \in Seq(Seq(A)) /\ c \in Seq(A) /\ e \in BOOLEAN
      /\ scan(t) = State(ts, c, q, e)
      /\ scan(Replaced(t, values)) =
           State(ReplacedTokens(ts, values), Replaced(c, values), q, e)
  BY <1>1, Zenon DEF Alike, LoopState, ReplacedState
<1> DEFINE T == ReplacedTokens(ts, values)
           C == Replaced(c, values)
           whole == IF c = <<>> THEN ts ELSE Append(ts, c)
           fine == ~ e /\ q = NoQuote
<1>3. splitCommand(t) = [ok |-> fine, tokens |-> whole]
  BY <1>2, SplitOfState
<1>4. splitCommand(Replaced(t, values)) =
        [ok |-> fine, tokens |-> IF C = <<>> THEN T ELSE Append(T, C)]
  BY <1>2, SplitOfState
<1>5. whole \in Seq(Seq(A))
  BY <1>2
<1>6. ReplacedTokens(whole, values) = IF C = <<>> THEN T ELSE Append(T, C)
  <2>1. CASE c = <<>>
    <3>1. C = <<>>
      BY <2>1, ReplacedSteps DEF Harmless
    <3> QED
      BY <2>1, <3>1, Zenon
  <2>2. CASE c # <<>>
    <3>1. ReplacedTokens(Append(ts, c), values) = IF C = <<>> THEN T ELSE Append(T, C)
      BY <1>2, ReplacedTokensSteps DEF Harmless
    <3> QED
      BY <2>2, <3>1, Zenon
  <2> QED
    BY <2>1, <2>2
<1> HIDE DEF T, C, whole, fine
<1>7. splitCommand(t).ok = fine /\ splitCommand(t).tokens = whole
  BY <1>3
<1> QED
  BY <1>4, <1>5, <1>6, <1>7, Zenon

\* A line of spaces has no tokens.
LEMMA BlankSplit ==
  ASSUME NEW A, NEW t \in Seq(A), Blank(t)
  PROVE  splitCommand(t) = [ok |-> TRUE, tokens |-> <<>>]
<1> DEFINE start == State(<<>>, <<>>, NoQuote, FALSE)
           P == {u \in Seq(A) : Blank(u) => scan(u) = start}
<1>1. <<>> \in P
  <2>1. scan(<<>>) = start
    BY ScanEmpty, Zenon DEF Start, State
  <2> HIDE DEF start
  <2> QED
    BY <2>1, EmptySeq
<1>2. ASSUME NEW u \in Seq(A), NEW x \in A, u \in P PROVE Append(u, x) \in P
  <2>1. Append(u, x) \in Seq(A)
    BY AppendProperties
  <2>2. ASSUME Blank(Append(u, x)) PROVE scan(Append(u, x)) = start
    <3>1. Blank(u) /\ x = Space
      <4>1. /\ Len(u) \in Nat /\ DOMAIN u = 1 .. Len(u)
            /\ DOMAIN Append(u, x) = 1 .. (Len(u) + 1)
            /\ \A i \in 1 .. Len(u) : Append(u, x)[i] = u[i]
            /\ Append(u, x)[Len(u) + 1] = x
        BY LenProperties, AppendProperties
      <4> QED
        BY <2>2, <4>1 DEF Blank
    <3>2. scan(u) = start
      BY <1>2, <3>1
    <3>3. scan(Append(u, x)) = splitStep(scan(u), x)
      BY ScanAppend
    <3>4. Space # Escape /\ Space \notin Quotes
      BY DEF Space, Escape, Quotes
    <3>5. Steps(start, Space, start)
      BY <3>4, StepCases, Zenon
    <3> QED
      BY <3>1, <3>2, <3>3, <3>5, Zenon DEF Steps
  <2> HIDE DEF start
  <2> QED
    BY <2>1, <2>2
<1> HIDE DEF P
<1>3. Seq(A) \subseteq P
  BY <1>1, <1>2, SequenceInduction
<1>4. scan(t) = start
  BY <1>3 DEF P
<1>5. splitCommand(t) = [ok |-> ~ FALSE /\ NoQuote = NoQuote,
                         tokens |-> IF <<>> = <<>> THEN <<>> ELSE Append(<<>>, <<>>)]
  BY <1>4, SplitOfState
<1> QED
  BY <1>5, Zenon

-----------------------------------------------------------------------------

\* The result of Resolve is that of splitting, as a command and its arguments.
LEMMA ResolveOf ==
  ASSUME NEW A, NEW raw \in Seq(A), NEW variables, NEW env, NEW order,
         NEW split, split = splitCommand(expandStartup(raw, mergedVariables(variables, env), order)),
         split.ok \in BOOLEAN, split.tokens \in Seq(Seq(A)), ~ Blank(raw)
  PROVE  LET r == Resolve(raw, variables, env, order)
         IN  /\ ~ split.ok => ~ r.ok
             /\ split.ok => r.ok /\ r.command \o r.args = split.tokens
<1> DEFINE r == Resolve(raw, variables, env, order)
<1>1. r = IF ~ split.ok THEN [Nothing EXCEPT !.ok = FALSE]
          ELSE IF split.tokens = <<>> THEN Nothing
          ELSE [ok |-> TRUE, set |-> TRUE, command |-> <<Head(split.tokens)>>,
                args |-> Tail(split.tokens)]
  BY Zenon DEF Resolve
<1>2. ASSUME ~ split.ok PROVE ~ r.ok
  BY <1>1, <1>2 DEF Nothing
<1>3. ASSUME split.ok, split.tokens = <<>> PROVE r.ok /\ r.command \o r.args = split.tokens
  <2>1. r = Nothing
    BY <1>1, <1>3, Zenon
  <2>2. Nothing.ok = TRUE /\ Nothing.command = <<>> /\ Nothing.args = <<>>
    BY DEF Nothing
  <2>3. <<>> \o <<>> = <<>>
    OBVIOUS
  <2> QED
    BY <1>3, <2>1, <2>2, <2>3, Zenon
<1>4. ASSUME split.ok, split.tokens # <<>> PROVE r.ok /\ r.command \o r.args = split.tokens
  <2>1. r = [ok |-> TRUE, set |-> TRUE, command |-> <<Head(split.tokens)>>,
             args |-> Tail(split.tokens)]
    BY <1>1, <1>4, Zenon
  <2> HIDE DEF r
  <2>2. r.ok = TRUE /\ r.command = <<Head(split.tokens)>> /\ r.args = Tail(split.tokens)
    BY <2>1, Zenon
  <2> DEFINE u == split.tokens
  <2>3. u \in Seq(Seq(A)) /\ u # <<>>
    BY <1>4
  <2> HIDE DEF u
  <2>4. <<Head(u)>> \o Tail(u) = u
    BY <2>3
  <2> QED
    BY <2>2, <2>4, Zenon DEF u
<1> QED
  BY <1>2, <1>3, <1>4, Zenon

\* The inputs of a Resolve call: texts, and values of letters.
LEMMA ResolveInputsType ==
  ASSUME NEW x \in ResolveInputs
  PROVE  /\ x.raw \in Seq(Symbols)
         /\ IsFiniteSet(DOMAIN mergedVariables(x.variables, x.env))
         /\ Harmless(Symbols, mergedVariables(x.variables, x.env))
<1> DEFINE m == mergedVariables(x.variables, x.env)
           marks == {Placeholder(n) : n \in DOMAIN m}
           set == {n \in DOMAIN x.env : x.env[n] # <<>>}
<1>0. /\ x.raw \in Raws /\ x.variables \in Assignments({"A"}, Values)
      /\ x.env \in Assignments(Names, {<<>>, <<"b">>})
  BY DEF ResolveInputs
<1>1. x.raw \in Seq(Symbols)
  <2> DEFINE S == {"a", Space, Escape, "'", Placeholder("A"), Placeholder("B")}
  <2>1. S \subseteq Symbols
    BY SymbolFacts
  <2>2. x.raw \in BoundedSeq(S, MaxRaw)
    BY <1>0 DEF Raws
  <2> HIDE DEF S
  <2>3. x.raw \in Seq(S)
    <3>1. ASSUME NEW k \in 0 .. MaxRaw, NEW t \in [1 .. k -> S] PROVE t \in Seq(S)
      BY DEF MaxRaw
    <3> QED
      BY <2>2, <3>1 DEF BoundedSeq, SeqOf
  <2> QED
    BY <2>1, <2>3, SeqMonotonic
<1>2. PICK S \in SUBSET {"A"} : x.variables \in [S -> Values]
  BY <1>0 DEF Assignments
<1>3. PICK N \in SUBSET Names : x.env \in [N -> {<<>>, <<"b">>}]
  BY <1>0 DEF Assignments
<1>4. Values \subseteq Seq(Letters) /\ {<<>>, <<"b">>} \subseteq Seq(Letters)
  BY DEF Values, Letters
<1>5. /\ DOMAIN x.variables \subseteq Names /\ DOMAIN x.env \subseteq Names
      /\ \A n \in DOMAIN x.variables : x.variables[n] \in Seq(Letters)
      /\ \A n \in DOMAIN x.env : x.env[n] \in Seq(Letters)
  BY <1>2, <1>3, <1>4 DEF Names
<1>6. /\ DOMAIN m \subseteq Names
      /\ m \in [DOMAIN m -> Seq(Letters)]
  <2>1. m = [n \in DOMAIN x.variables \cup set |->
               IF n \in DOMAIN x.variables THEN x.variables[n] ELSE x.env[n]]
    BY Zenon DEF mergedVariables
  <2>2. DOMAIN m = DOMAIN x.variables \cup set
    BY <2>1
  <2>3. \A n \in DOMAIN x.variables \cup set :
          (IF n \in DOMAIN x.variables THEN x.variables[n] ELSE x.env[n]) \in Seq(Letters)
    BY <1>5, Zenon
  <2>4. m \in [DOMAIN m -> Seq(Letters)]
    BY <2>1, <2>2, <2>3, Zenon
  <2> HIDE DEF m
  <2> QED
    BY <1>5, <2>2, <2>4
<1> HIDE DEF m
<1>7. IsFiniteSet(DOMAIN m)
  BY <1>6, NamesFinite, FS_Subset
<1>8. Letters \subseteq Symbols /\ Letters \cap Special = {}
  BY DEF Symbols, Letters, Special, Space, Escape, Quotes
<1>9. \A n \in DOMAIN m : Placeholder(n) \notin Letters /\ Placeholder(n) \notin Special
  BY <1>6, PlaceholderAssumption
<1>10. Letters \subseteq Symbols \ marks /\ Letters \subseteq Symbols \ Special
  BY <1>8, <1>9
<1>11. \A n \in DOMAIN m : m[n] \in Seq(Symbols \ marks) /\ m[n] \in Seq(Symbols \ Special)
  <2> HIDE DEF marks
  <2>1. \A u \in Seq(Letters) : u \in Seq(Symbols \ marks) /\ u \in Seq(Symbols \ Special)
    BY <1>10, SeqMonotonic
  <2> QED
    BY <1>6, <2>1
<1>12. \A n, k \in DOMAIN m : Placeholder(n) = Placeholder(k) => n = k
  BY <1>6, PlaceholderAssumption, Zenon
<1>13. Plain(Symbols, m)
  <2>1. m \in [DOMAIN m -> Seq(Symbols \ marks)]
    <3> HIDE DEF marks
    <3> QED
      BY <1>6, <1>11
  <2> QED
    BY <1>12, <2>1, Zenon DEF Plain
<1>14. Harmless(Symbols, m)
  BY <1>9, <1>11, <1>13, Zenon DEF Harmless
<1> QED
  BY <1>1, <1>7, <1>14 DEF m

\* A finished Resolve call returned what Resolve returns in some order.
ResolveCase ==
  /\ input.call = "Resolve" => input \in ResolveInputs
  /\ Ended("Resolve") =>
       \E order \in Orders(input.variables, input.env) :
         output.result = Resolve(input.raw, input.variables, input.env, order)

LEMMA ResolveCaseInvariant == Spec => []ResolveCase
<1>1. Init => ResolveCase
  <2> SUFFICES ASSUME Init PROVE ResolveCase
    OBVIOUS
  <2>1. ~ (output.stage = "end")
    BY DEF Init, Waiting
  <2>2. input.call = "Resolve" => input \in ResolveInputs
    BY DEF Init, AllocateInputs, SplitInputs
  <2> QED
    BY <2>1, <2>2 DEF ResolveCase, Ended
<1>2. ResolveCase /\ [Next]_vars => ResolveCase'
  <2> SUFFICES ASSUME ResolveCase, [Next]_vars PROVE ResolveCase'
    OBVIOUS
  <2>1. input' = input
    BY DEF Next, CallAllocate, CallSplitCommand, CallResolve, CreateRequest, ApplyManifest,
           Pass, Call, vars
  <2>2. CASE CallResolve
    <3>1. PICK order \in Orders(input.variables, input.env) :
            output' = [stage |-> "end",
                       result |-> Resolve(input.raw, input.variables, input.env, order)]
      BY <2>2, Zenon DEF CallResolve
    <3>2. output'.result = Resolve(input.raw, input.variables, input.env, order)
      BY <3>1, Zenon
    <3> QED
      BY <2>1, <3>2, Zenon DEF ResolveCase, Ended
  <2>3. CASE CallAllocate \/ CallSplitCommand \/ CreateRequest \/ ApplyManifest
    <3>1. input.call # "Resolve"
      BY <2>3 DEF CallSplitCommand, CallAllocate, CreateRequest, ApplyManifest, Call
    <3> QED
      BY <2>1, <3>1, Zenon DEF ResolveCase, Ended
  <2>4. CASE Pass
    <3>1. output'.stage = "rendered"
      BY <2>4 DEF Pass
    <3>2. ~ (output'.stage = "end")
      BY <3>1
    <3> QED
      BY <2>1, <3>2, Zenon DEF ResolveCase, Ended
  <2>5. CASE UNCHANGED vars
    <3>1. input' = input /\ output' = output
      BY <2>5 DEF vars
    <3> QED
      BY <3>1, Zenon DEF ResolveCase, Ended
  <2> QED
    BY <2>2, <2>3, <2>4, <2>5 DEF Next
<1> QED
  BY <1>1, <1>2, PTL DEF Spec

\* Resolve, on a line where no value vanishes behind a backslash.
LEMMA ResolveKeepsTokens ==
  ASSUME NEW x \in ResolveInputs, NEW order \in Orders(x.variables, x.env),
         EscapesHold(mergedVariables(x.variables, x.env), x.raw)
  PROVE  LET m == mergedVariables(x.variables, x.env)
             split == splitCommand(x.raw)
             r == Resolve(x.raw, x.variables, x.env, order)
         IN  IF ~ split.ok THEN ~ r.ok
             ELSE r.ok /\ r.command \o r.args = ReplacedTokens(split.tokens, m)
<1> DEFINE m == mergedVariables(x.variables, x.env)
           split == splitCommand(x.raw)
           done == splitCommand(expandStartup(x.raw, m, order))
           r == Resolve(x.raw, x.variables, x.env, order)
<1>1. x.raw \in Seq(Symbols) /\ IsFiniteSet(DOMAIN m) /\ Harmless(Symbols, m)
  BY ResolveInputsType
<1>2. order \in SetToSeqs(DOMAIN m)
  BY DEF Orders
<1>3. Plain(Symbols, m)
  BY <1>1, Zenon DEF Harmless
<1>4. expandStartup(x.raw, m, order) = Replaced(x.raw, m)
  <2> HIDE DEF m
  <2> QED
    BY <1>1, <1>2, <1>3, ExpansionIgnoresOrder
<1>5. EscapesHold(m, x.raw)
  OBVIOUS
<1>6. /\ split.tokens \in Seq(Seq(Symbols))
      /\ splitCommand(Replaced(x.raw, m)) =
           [ok |-> split.ok, tokens |-> ReplacedTokens(split.tokens, m)]
  <2> HIDE DEF m
  <2> QED
    BY <1>1, <1>5, SplitAfterExpansion
<1>7. split.ok \in BOOLEAN
  BY Zenon DEF splitCommand
<1>8. ReplacedTokens(split.tokens, m) \in Seq(Seq(Symbols)) /\ ReplacedTokens(<<>>, m) = <<>>
  <2> HIDE DEF m, split
  <2> QED
    BY <1>3, <1>6, ReplacedTokensSteps
<1>9. CASE Blank(x.raw)
  <2>1. split = [ok |-> TRUE, tokens |-> <<>>]
    BY <1>1, <1>9, BlankSplit
  <2>2. r = Nothing
    BY <1>9, Zenon DEF Resolve
  <2>3. Nothing.ok = TRUE /\ Nothing.command = <<>> /\ Nothing.args = <<>> /\ <<>> \o <<>> = <<>>
    BY DEF Nothing
  <2> HIDE DEF split, r, m
  <2>4. split.ok = TRUE /\ split.tokens = <<>>
    BY <2>1, Zenon
  <2>5. r.ok /\ r.command \o r.args = ReplacedTokens(split.tokens, m)
    BY <1>8, <2>2, <2>3, <2>4, Zenon
  <2> QED
    BY <2>4, <2>5, Zenon DEF split, r, m
<1>10. CASE ~ Blank(x.raw)
  <2>1. done = [ok |-> split.ok, tokens |-> ReplacedTokens(split.tokens, m)]
    BY <1>4, <1>6, Zenon
  <2> HIDE DEF split, m
  <2>2. done.ok = split.ok /\ done.tokens = ReplacedTokens(split.tokens, m)
    <3> HIDE DEF done
    <3> QED
      BY <2>1
  <2>3. done.ok \in BOOLEAN /\ done.tokens \in Seq(Seq(Symbols))
    BY <1>7, <1>8, <2>2, Zenon
  <2>4. /\ ~ done.ok => ~ r.ok
        /\ done.ok => r.ok /\ r.command \o r.args = done.tokens
    BY <1>1, <1>10, <2>3, ResolveOf DEF m
  <2> HIDE DEF done, r
  <2>5. IF ~ split.ok THEN ~ r.ok
        ELSE r.ok /\ r.command \o r.args = ReplacedTokens(split.tokens, m)
    BY <2>2, <2>4, Zenon
  <2> QED
    BY <2>5 DEF split, r, m
<1> QED
  BY <1>9, <1>10

\* Values of letters cannot disturb the tokens: whatever order expandStartup
\* visits the variables in, splitCommand finds the tokens of the line as
\* written, each with its placeholders replaced.
THEOREM TokensSurviveExpansion == Spec => []ExpansionKeepsTokens
<1>1. ResolveCase => ExpansionKeepsTokens
  <2> DEFINE m == mergedVariables(input.variables, input.env)
  <2> SUFFICES ASSUME ResolveCase, Ended("Resolve"), EscapesHold(m, input.raw)
               PROVE  LET split == splitCommand(input.raw)
                      IN  IF ~ split.ok THEN ~ output.result.ok
                          ELSE /\ output.result.ok
                               /\ output.result.command \o output.result.args =
                                    ReplacedTokens(split.tokens, m)
    BY Zenon DEF ExpansionKeepsTokens, EscapesHold
  <2>1. input \in ResolveInputs
    BY Zenon DEF ResolveCase, Ended
  <2>2. PICK order \in Orders(input.variables, input.env) :
          output.result = Resolve(input.raw, input.variables, input.env, order)
    BY Zenon DEF ResolveCase
  <2> QED
    BY <2>1, <2>2, ResolveKeepsTokens
<1> QED
  BY <1>1, ResolveCaseInvariant, PTL
=============================================================================
