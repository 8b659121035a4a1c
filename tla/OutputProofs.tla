---------------------------- MODULE OutputProofs ----------------------------
(***************************************************************************)
(* What the operators of SnapshotReads and LogSort return, for any records,*)
(* any jaq program and any sizes of pages, chunks and groups.  First the   *)
(* output of a program over the events: it is in order and does not change *)
(* when events come in after the watermark, a cursor divides it in two, and*)
(* a page is a piece of it.  Then the pages of a logs: the sorted chunks,  *)
(* the rounds and the last merge list the records by timestamp (PagesAreOf),*)
(* and a page is what comes next in that list (LogPageAfter).              *)
(*                                                                         *)
(* FlattenSeq, Merge and MergeRounds are recursive functions.  A fact about*)
(* one is proved by induction, and the induction is one over sets: a set of*)
(* numbers that has 0 and with each number the next one has them all       *)
(* (NatSets), since what it lacked would have a least number.              *)
(***************************************************************************)
EXTENDS SnapshotReads, EvidenceProofs, SequenceTheorems, FiniteSetTheorems,
        WellFoundedInduction

\* A set with 0 and the successor of each of its numbers has all numbers: induction,
\* from the fact that every set of numbers has a least one.
LEMMA NatSets ==
  ASSUME NEW S, 0 \in S, \A n \in Nat : n \in S => n + 1 \in S
  PROVE  Nat \subseteq S
<1> DEFINE R == OpToRel(<, Nat)
<1> DEFINE T == Nat \ S
<1> SUFFICES ASSUME T # {} PROVE FALSE
  OBVIOUS
<1>1. IsWellFoundedOn(R, Nat)
  BY NatLessThanWellFounded
<1>2. \A x, y \in Nat : x < y => <<x, y>> \in R
  BY DEF OpToRel
<1> HIDE DEF R
<1>3. PICK x \in T : \A y \in T : ~(<<y, x>> \in R)
  BY <1>1, WFMin
<1>4. x # 0 /\ x - 1 \in Nat
  BY <1>3
<1>5. x - 1 \in S
  BY <1>2, <1>3, <1>4, x - 1 < x
<1> QED BY <1>3, <1>4, <1>5

\* Some numbers have a least.
LEMMA LeastNumber ==
  ASSUME NEW S \in SUBSET Nat, S # {}
  PROVE  \E m \in S : \A n \in S : m <= n
<1> DEFINE R == OpToRel(<, Nat)
<1>1. IsWellFoundedOn(R, Nat)
  BY NatLessThanWellFounded
<1>2. \A m, n \in Nat : m < n => <<m, n>> \in R
  BY DEF OpToRel
<1> HIDE DEF R
<1>3. PICK m \in S : \A n \in S : ~(<<n, m>> \in R)
  BY <1>1, WFMin
<1>4. m \in Nat /\ S \subseteq Nat
  OBVIOUS
<1>5. \A n \in S : ~(n < m)
  BY <1>2, <1>3, <1>4
<1> QED BY <1>4, <1>5

\* What FlattenSeq defines recursively for the first n of some sequences.
Flattens(g, s, n) == g = [i \in 1 .. n |-> IF i = 1 THEN s[i] ELSE g[i - 1] \o s[i]]

\* What such a function returns at the first sequence and at every later one.
LEMMA FlattensAt ==
  ASSUME NEW g, NEW s, NEW n \in Nat, Flattens(g, s, n), NEW i \in 1 .. n
  PROVE  g[i] = IF i = 1 THEN s[i] ELSE g[i - 1] \o s[i]
<1> DEFINE f == [j \in 1 .. n |-> IF j = 1 THEN s[j] ELSE g[j - 1] \o s[j]]
<1>1. f[i] = IF i = 1 THEN s[i] ELSE g[i - 1] \o s[i]
  OBVIOUS
<1>2. g = f
  BY Zenon DEF Flattens
<1> HIDE DEF f
<1> QED BY <1>1, <1>2

\* There is such a function.
LEMMA FlattensExists ==
  ASSUME NEW s, NEW n \in Nat
  PROVE  \E g : Flattens(g, s, n)
<1> DEFINE S == {k \in Nat : \E g : Flattens(g, s, k)}
<1>1. 0 \in S
  <2>1. Flattens([i \in 1 .. 0 |-> <<>>], s, 0)
    BY DEF Flattens
  <2> QED BY <2>1
<1>2. ASSUME NEW k \in Nat, k \in S PROVE k + 1 \in S
  <2>1. PICK g : Flattens(g, s, k)
    BY <1>2
  <2> DEFINE last == IF k = 0 THEN s[1] ELSE g[k] \o s[k + 1]
  <2> DEFINE h == [i \in 1 .. k + 1 |-> IF i = k + 1 THEN last ELSE g[i]]
  <2>2. \A i \in 1 .. k : g[i] = IF i = 1 THEN s[i] ELSE g[i - 1] \o s[i]
    BY <2>1 DEF Flattens
  <2>3. \A i \in 1 .. k + 1 : h[i] = IF i = 1 THEN s[i] ELSE h[i - 1] \o s[i]
    <3>1. ASSUME NEW i \in 1 .. k PROVE h[i] = IF i = 1 THEN s[i] ELSE h[i - 1] \o s[i]
      <4>1. h[i] = g[i] /\ (i # 1 => h[i - 1] = g[i - 1])
        BY <3>1
      <4> QED BY <2>2, <4>1
    <3>2. h[k + 1] = IF k + 1 = 1 THEN s[k + 1] ELSE h[k] \o s[k + 1]
      OBVIOUS
    <3> HIDE DEF h
    <3>3. \A i \in 1 .. k + 1 : i \in 1 .. k \/ i = k + 1
      OBVIOUS
    <3> QED BY <3>1, <3>2, <3>3
  <2>4. h = [i \in 1 .. k + 1 |-> h[i]]
    OBVIOUS
  <2> HIDE DEF h
  <2>5. Flattens(h, s, k + 1)
    BY <2>3, <2>4 DEF Flattens
  <2> QED BY <2>5
<1> HIDE DEF S
<1>3. n \in S
  BY <1>1, <1>2, NatSets
<1> QED BY <1>3 DEF S

\* It depends on those sequences only.
LEMMA FlattensAgree ==
  ASSUME NEW s, NEW t, NEW n \in Nat, NEW m \in Nat, NEW g, NEW h, n <= m,
         Flattens(g, s, n), Flattens(h, t, m), \A i \in 1 .. n : s[i] = t[i]
  PROVE  \A i \in 1 .. n : g[i] = h[i]
<1> DEFINE S == {k \in Nat : k \in 1 .. n => g[k] = h[k]}
<1>1. 0 \in S
  OBVIOUS
<1>2. ASSUME NEW k \in Nat, k \in S PROVE k + 1 \in S
  <2>1. CASE k + 1 \in 1 .. n
    <3>1. g[k + 1] = IF k + 1 = 1 THEN s[k + 1] ELSE g[k + 1 - 1] \o s[k + 1]
      BY <2>1, FlattensAt
    <3>2. h[k + 1] = IF k + 1 = 1 THEN t[k + 1] ELSE h[k + 1 - 1] \o t[k + 1]
      BY <2>1, FlattensAt
    <3>3. k + 1 # 1 => g[k] = h[k]
      BY <1>2, <2>1
    <3>4. k + 1 - 1 = k /\ s[k + 1] = t[k + 1]
      BY <2>1
    <3> QED BY <3>1, <3>2, <3>3, <3>4
  <2> QED BY <2>1
<1> HIDE DEF S
<1>3. Nat \subseteq S
  BY <1>1, <1>2, NatSets
<1> QED BY <1>3 DEF S

\* FlattenSeq is the last value of the function that flattens the whole sequence.
LEMMA FlattenIsFlat ==
  ASSUME NEW s, Len(s) \in Nat, Len(s) # 0
  PROVE  \E g : Flattens(g, s, Len(s)) /\ FlattenSeq(s) = g[Len(s)]
<1> DEFINE g == CHOOSE f : f = [i \in 1 .. Len(s) |-> IF i = 1 THEN s[i] ELSE f[i - 1] \o s[i]]
<1>1. FlattenSeq(s) = g[Len(s)]
  BY Zenon DEF FlattenSeq
<1>2. Flattens(g, s, Len(s))
  <2>1. \E f : Flattens(f, s, Len(s))
    BY ONLY Len(s) \in Nat, FlattensExists
  <2> QED BY ONLY <2>1, Zenon DEF Flattens
<1> HIDE DEF g
<1> QED BY <1>1, <1>2

\* FlattenSeq from the front to the back, and what it returns.
LEMMA FlattenEmpty == FlattenSeq(<<>>) = <<>>
  BY DEF FlattenSeq

\* One sequence more, put after what was flattened before it.
LEMMA FlattenLonger ==
  ASSUME NEW s, NEW t, NEW n \in Nat, Len(s) = n, Len(t) = n + 1,
         \A i \in 1 .. n : s[i] = t[i]
  PROVE  FlattenSeq(t) = IF n = 0 THEN t[1] ELSE FlattenSeq(s) \o t[n + 1]
<1>1. PICK h : Flattens(h, t, n + 1) /\ FlattenSeq(t) = h[n + 1]
  BY FlattenIsFlat
<1>2. h[n + 1] = IF n + 1 = 1 THEN t[n + 1] ELSE h[n + 1 - 1] \o t[n + 1]
  <2>1. n + 1 \in Nat /\ n + 1 \in 1 .. n + 1 /\ Flattens(h, t, n + 1)
    BY <1>1
  <2> QED BY <2>1, FlattensAt
<1>3. CASE n # 0
  <2>1. PICK g : Flattens(g, s, n) /\ FlattenSeq(s) = g[n]
    BY <1>3, FlattenIsFlat
  <2>2. \A i \in 1 .. n : g[i] = h[i]
    <3>1. n <= n + 1 /\ n + 1 \in Nat
      OBVIOUS
    <3>2. Flattens(g, s, n) /\ Flattens(h, t, n + 1) /\ \A i \in 1 .. n : s[i] = t[i]
      BY <1>1, <2>1
    <3> QED BY ONLY n \in Nat, <3>1, <3>2, FlattensAgree
  <2>3. n \in 1 .. n /\ n + 1 - 1 = n /\ n + 1 # 1
    BY <1>3
  <2> QED BY <1>1, <1>2, <1>3, <2>1, <2>2, <2>3
<1> QED BY <1>1, <1>2, <1>3

\* The same for a sequence that a new one is appended to.
LEMMA FlattenAppend ==
  ASSUME NEW S, NEW s \in Seq(Seq(S)), NEW x \in Seq(S)
  PROVE  FlattenSeq(Append(s, x)) = FlattenSeq(s) \o x
<1> DEFINE t == Append(s, x)
<1>1. t \in Seq(Seq(S)) /\ Len(s) \in Nat /\ Len(t) = Len(s) + 1 /\ t[Len(s) + 1] = x
  OBVIOUS
<1>2. \A i \in 1 .. Len(s) : s[i] = t[i]
  OBVIOUS
<1> HIDE DEF t
<1>3. FlattenSeq(t) = IF Len(s) = 0 THEN t[1] ELSE FlattenSeq(s) \o t[Len(s) + 1]
  BY <1>1, <1>2, FlattenLonger
<1>4. CASE Len(s) = 0
  <2>1. FlattenSeq(s) = <<>>
    BY <1>4, FlattenEmpty
  <2> QED BY <1>1, <1>3, <1>4, <2>1 DEF t
<1> QED BY <1>1, <1>3, <1>4 DEF t

-----------------------------------------------------------------------------
(***************************************************************************)
(* The output of a program.                                                *)
(***************************************************************************)
\* Outputs as the jaq program makes them over some lines, one line after the other.
InOrder(outs, lines) ==
    /\ outs \in Seq(OutRecords)
    /\ \A i \in 1 .. Len(outs) : outs[i].line < lines
    /\ \A i, j \in 1 .. Len(outs) : i < j => Before(outs[i], outs[j])

\* What the program makes of one record: numbered outputs of that line.
LEMMA OutputsOfTyped ==
  ASSUME NEW e \in EventRecords, NEW line \in Nat
  PROVE  /\ OutputsOf(e, line) \in Seq(OutRecords)
         /\ \A i \in 1 .. Len(OutputsOf(e, line)) :
               /\ OutputsOf(e, line)[i].line = line
               /\ OutputsOf(e, line)[i].ordinal = i - 1
<1> DEFINE made == Outputs[e.id.what]
<1>1. e.id \in RecordIds /\ made \in Seq({"value", "error"})
  BY ReadsAssumption DEF EventRecords, RecordIds
<1> HIDE DEF made
<1>2. /\ DOMAIN made = 1 .. Len(made) /\ Len(made) \in Nat
      /\ \A k \in 1 .. Len(made) : made[k] \in {"value", "error"}
  BY <1>1
<1> DEFINE out(k) == [line |-> line, ordinal |-> k - 1, of |-> e.id, is |-> made[k]]
<1>3. \A k \in 1 .. Len(made) : out(k) \in OutRecords
  BY <1>1, <1>2 DEF OutRecords
<1>4. \A k : out(k).line = line /\ out(k).ordinal = k - 1
  OBVIOUS
<1>5. OutputsOf(e, line) = [k \in 1 .. Len(made) |-> out(k)]
  BY <1>2 DEF OutputsOf, made
<1> HIDE DEF out
<1>6. OutputsOf(e, line) \in Seq(OutRecords) /\ Len(OutputsOf(e, line)) = Len(made)
  BY <1>2, <1>3, <1>5
<1>7. \A i \in 1 .. Len(made) : OutputsOf(e, line)[i] = out(i)
  BY <1>5
<1> QED BY <1>3, <1>4, <1>6, <1>7

\* What the jaq program makes of the record on a line up to the watermark.
OutputsUpTo(e, line, mark) == IF e.seq > mark THEN <<>> ELSE OutputsOf(e, line)

\* An empty evidence file has no output.
LEMMA AllOutputsEmpty == ASSUME NEW mark PROVE AllOutputs(<<>>, mark) = <<>>
<1>1. [i \in DOMAIN <<>> |-> IF <<>>[i].seq > mark THEN <<>> ELSE OutputsOf(<<>>[i], i - 1)] = <<>>
  OBVIOUS
<1> QED BY <1>1, FlattenEmpty DEF AllOutputs

\* An event appended to the file adds its outputs after the others, or nothing if it
\* is later than the watermark.
LEMMA AllOutputsAppend ==
  ASSUME NEW evts \in Seq(EventRecords), NEW e \in EventRecords, NEW mark \in Nat
  PROVE  AllOutputs(Append(evts, e), mark)
           = AllOutputs(evts, mark) \o OutputsUpTo(e, Len(evts), mark)
<1> DEFINE more == Append(evts, e)
<1> DEFINE s == [i \in DOMAIN evts |-> OutputsUpTo(evts[i], i - 1, mark)]
<1> DEFINE t == [i \in DOMAIN more |-> OutputsUpTo(more[i], i - 1, mark)]
<1>1. /\ Len(evts) \in Nat /\ DOMAIN evts = 1 .. Len(evts) /\ DOMAIN more = 1 .. Len(evts) + 1
      /\ more[Len(evts) + 1] = e
  OBVIOUS
<1>2. \A i \in 1 .. Len(evts) : more[i] = evts[i] /\ evts[i] \in EventRecords
  OBVIOUS
<1>3. ASSUME NEW x \in EventRecords, NEW l \in Nat PROVE OutputsUpTo(x, l, mark) \in Seq(OutRecords)
  BY OutputsOfTyped DEF OutputsUpTo
<1>4. AllOutputs(evts, mark) = FlattenSeq(s) /\ AllOutputs(more, mark) = FlattenSeq(t)
  BY DEF AllOutputs, OutputsUpTo
<1> HIDE DEF more
<1>5. ASSUME NEW i \in 1 .. Len(evts)
      PROVE  i - 1 \in Nat /\ s[i] = OutputsUpTo(evts[i], i - 1, mark) /\ t[i] = s[i]
  BY <1>1, <1>2
<1>6. s \in Seq(Seq(OutRecords)) /\ Len(s) = Len(evts)
  BY <1>1, <1>2, <1>3, <1>5
<1> DEFINE x == OutputsUpTo(e, Len(evts), mark)
<1>7. x \in Seq(OutRecords)
  BY <1>1, <1>3
<1>8. t[Len(evts) + 1] = x
  BY <1>1
<1>9. t = Append(s, x)
  <2>1. Append(s, x) = [i \in 1 .. Len(s) + 1 |-> IF i = Len(s) + 1 THEN x ELSE s[i]]
    BY <1>6, <1>7
  <2>2. \A i \in 1 .. Len(evts) + 1 : t[i] = IF i = Len(s) + 1 THEN x ELSE s[i]
    <3> HIDE DEF s, t, x
    <3>1. \A i \in 1 .. Len(evts) : t[i] = s[i]
      BY <1>5
    <3> QED BY <1>1, <1>6, <1>8, <3>1
  <2>3. t = [i \in 1 .. Len(evts) + 1 |-> t[i]]
    BY <1>1
  <2> HIDE DEF t, x, s
  <2> QED BY <1>6, <2>1, <2>2, <2>3
<1> HIDE DEF s, t, x
<1> QED BY <1>4, <1>6, <1>7, <1>9, FlattenAppend DEF more, x

\* The outputs for one more line keep the order.
LEMMA AppendInOrder ==
  ASSUME NEW n \in Nat, NEW outs, InOrder(outs, n), NEW made \in Seq(OutRecords),
         \A i \in 1 .. Len(made) : made[i].line = n /\ made[i].ordinal = i - 1
  PROVE  InOrder(outs \o made, n + 1)
<1> DEFINE all == outs \o made
<1>1. /\ outs \in Seq(OutRecords) /\ Len(outs) \in Nat /\ Len(made) \in Nat
      /\ all \in Seq(OutRecords) /\ Len(all) = Len(outs) + Len(made)
  BY DEF InOrder
<1>2. \A i \in 1 .. Len(all) :
         \/ i \in 1 .. Len(outs) /\ all[i] = outs[i]
         \/ i - Len(outs) \in 1 .. Len(made) /\ all[i] = made[i - Len(outs)] /\ i > Len(outs)
  BY <1>1
<1> HIDE DEF all
<1>3. \A i \in 1 .. Len(outs) :
         outs[i].line \in Nat /\ outs[i].line < n
  <2>1. \A i \in 1 .. Len(outs) : outs[i] \in OutRecords
    BY <1>1
  <2> QED BY <2>1 DEF InOrder, OutRecords
<1>4. ASSUME NEW i \in 1 .. Len(all)
      PROVE  all[i].line < n + 1
  <2>1. CASE i \in 1 .. Len(outs) /\ all[i] = outs[i]
    BY <1>3, <2>1
  <2>2. CASE i - Len(outs) \in 1 .. Len(made) /\ all[i] = made[i - Len(outs)]
    BY <2>2
  <2> QED BY <1>2, <2>1, <2>2
<1>5. ASSUME NEW i \in 1 .. Len(all), NEW j \in 1 .. Len(all), i < j
      PROVE  Before(all[i], all[j])
  <2>1. CASE j \in 1 .. Len(outs) /\ all[j] = outs[j]
    <3>1. i \in 1 .. Len(outs) /\ all[i] = outs[i]
      <4>1. i \in Nat /\ j \in Nat /\ 1 <= i /\ i <= Len(outs)
        BY <1>1, <1>5, <2>1
      <4>2. ~(i > Len(outs))
        BY <1>1, <4>1
      <4> QED BY <1>2, <4>2
    <3> QED BY <1>5, <2>1, <3>1 DEF InOrder
  <2>2. CASE j - Len(outs) \in 1 .. Len(made) /\ all[j] = made[j - Len(outs)]
    <3>1. CASE i \in 1 .. Len(outs) /\ all[i] = outs[i]
      <4>1. all[i].line < n /\ all[j].line = n
        BY <1>3, <2>2, <3>1
      <4> QED BY <4>1 DEF Before
    <3>2. CASE i - Len(outs) \in 1 .. Len(made) /\ all[i] = made[i - Len(outs)]
      <4>1. all[i].line = n /\ all[j].line = n
        BY <2>2, <3>2
      <4>2. all[i].ordinal = i - Len(outs) - 1 /\ all[j].ordinal = j - Len(outs) - 1
        BY <2>2, <3>2
      <4>3. all[i].ordinal < all[j].ordinal
        BY <1>1, <1>5, <4>2
      <4> QED BY <4>1, <4>3 DEF Before
    <3> QED BY <1>2, <3>1, <3>2
  <2> QED BY <1>2, <2>1, <2>2
<1> QED BY <1>1, <1>4, <1>5 DEF InOrder, all

\* The program's output is in order.
LEMMA AllOutputsInOrder ==
  ASSUME NEW mark \in Nat
  PROVE  \A evts \in Seq(EventRecords) : InOrder(AllOutputs(evts, mark), Len(evts))
<1> DEFINE S == {n \in Nat : \A evts \in Seq(EventRecords) :
                     Len(evts) = n => InOrder(AllOutputs(evts, mark), n)}
<1>1. 0 \in S
  <2>1. InOrder(<<>>, 0)
    BY DEF InOrder
  <2>2. \A evts \in Seq(EventRecords) : Len(evts) = 0 => evts = <<>>
    OBVIOUS
  <2> QED BY <2>1, <2>2, AllOutputsEmpty
<1>2. ASSUME NEW n \in Nat, n \in S PROVE n + 1 \in S
  <2>1. ASSUME NEW more \in Seq(EventRecords), Len(more) = n + 1
        PROVE  InOrder(AllOutputs(more, mark), n + 1)
    <3>1. PICK evts \in Seq(EventRecords), e \in EventRecords : more = Append(evts, e)
      BY <2>1, SequenceEmptyOrAppend
    <3>2. Len(evts) = n
      BY <2>1, <3>1
    <3> DEFINE outs == AllOutputs(evts, mark)
               made == OutputsUpTo(e, n, mark)
    <3>3. InOrder(outs, n)
      BY <1>2, <3>2
    <3>4. AllOutputs(more, mark) = outs \o made
      BY <3>1, <3>2, AllOutputsAppend
    <3>5. /\ made \in Seq(OutRecords)
          /\ \A i \in 1 .. Len(made) : made[i].line = n /\ made[i].ordinal = i - 1
      BY OutputsOfTyped DEF OutputsUpTo
    <3> HIDE DEF outs, made
    <3> QED BY <3>3, <3>4, <3>5, AppendInOrder
  <2> QED BY <2>1
<1> HIDE DEF S
<1>3. Nat \subseteq S
  BY <1>1, <1>2, NatSets
<1> QED BY <1>3 DEF S

\* Records after the watermark add nothing to it.
LEMMA AllOutputsPinned ==
  ASSUME NEW mark \in Nat, NEW few \in Seq(EventRecords), NEW many \in Seq(EventRecords),
         Len(few) <= Len(many), \A i \in 1 .. Len(few) : few[i] = many[i],
         \A i \in 1 .. Len(many) : i > Len(few) => many[i].seq > mark
  PROVE  AllOutputs(many, mark) = AllOutputs(few, mark)
<1> DEFINE At(n) == SubSeq(many, 1, Len(few) + n)
<1> DEFINE S == {n \in Nat : Len(few) + n <= Len(many) =>
                     AllOutputs(At(n), mark) = AllOutputs(few, mark)}
<1>0. Len(few) \in Nat /\ Len(many) \in Nat
  OBVIOUS
<1>1. 0 \in S
  <2>1. At(0) = few
    BY <1>0
  <2> QED BY <2>1
<1>2. ASSUME NEW n \in Nat, n \in S PROVE n + 1 \in S
  <2>1. CASE Len(few) + n + 1 <= Len(many)
    <3> DEFINE l == Len(few) + n
    <3>1. l \in Nat /\ l + 1 \in 1 .. Len(many) /\ l + 1 > Len(few) /\ l <= Len(many)
      BY <1>0, <2>1
    <3>2. many[l + 1] \in EventRecords /\ many[l + 1].seq > mark
      BY <3>1
    <3>3. At(n) \in Seq(EventRecords) /\ At(n + 1) = Append(At(n), many[l + 1])
      <4>1. At(n) = SubSeq(many, 1, l) /\ At(n + 1) = SubSeq(many, 1, l + 1)
        BY <1>0
      <4> HIDE DEF At, l
      <4> QED BY <3>1, <4>1
    <3>4. AllOutputs(At(n), mark) = AllOutputs(few, mark)
      BY <1>2, <3>1
    <3>5. AllOutputs(few, mark) \in Seq(OutRecords)
      BY AllOutputsInOrder DEF InOrder
    <3> HIDE DEF At, l
    <3>6. AllOutputs(At(n + 1), mark) = AllOutputs(At(n), mark) \o <<>>
      BY <3>2, <3>3, AllOutputsAppend DEF OutputsUpTo
    <3>7. AllOutputs(At(n + 1), mark) = AllOutputs(few, mark)
      BY <3>4, <3>5, <3>6
    <3> QED BY <3>7
  <2> QED BY <2>1
<1>3. At(Len(many) - Len(few)) = many /\ Len(many) - Len(few) \in Nat
      /\ Len(few) + (Len(many) - Len(few)) <= Len(many)
  BY <1>0
<1> HIDE DEF S
<1>4. Nat \subseteq S
  BY <1>1, <1>2, NatSets
<1> HIDE DEF At
<1> QED BY <1>3, <1>4 DEF S

\* A bounded set of numbers has a largest.
LEMMA BoundedMax ==
  ASSUME NEW n \in Nat
  PROVE  \A T \in SUBSET (0 .. n) : T # {} => \E m \in T : \A k \in T : m >= k
<1> DEFINE Has(T) == T # {} => \E m \in T : \A k \in T : m >= k
<1> DEFINE S == {b \in Nat : \A T \in SUBSET (0 .. b) : Has(T)}
<1>1. 0 \in S
  <2>1. ASSUME NEW T \in SUBSET (0 .. 0), T # {} PROVE \E m \in T : \A k \in T : m >= k
    <3>1. PICK m \in T : TRUE
      BY <2>1
    <3>2. \A k \in T : k = 0
      OBVIOUS
    <3> QED BY <3>1, <3>2
  <2> QED BY <2>1
<1>2. ASSUME NEW b \in Nat, b \in S PROVE b + 1 \in S
  <2>1. ASSUME NEW T \in SUBSET (0 .. b + 1) PROVE Has(T)
    <3>1. CASE b + 1 \in T
      BY <2>1, <3>1
    <3>2. CASE b + 1 \notin T
      <4>1. T \in SUBSET (0 .. b)
        BY <2>1, <3>2
      <4> HIDE DEF Has
      <4> QED BY <1>2, <4>1
    <3> QED BY <3>1, <3>2
  <2> HIDE DEF Has
  <2> QED BY <2>1
<1> HIDE DEF S
<1>3. n \in S
  BY <1>1, <1>2, NatSets
<1> QED BY <1>3 DEF S

\* A cursor's place divides outputs that are in order into what it has behind it
\* and what it has before it.
LEMMA PassedIs ==
  ASSUME NEW outs \in Seq(OutRecords), NEW place, NEW p \in 0 .. Len(outs),
         \A i \in 1 .. p : Before(outs[i], place),
         \A i \in p + 1 .. Len(outs) : ~Before(outs[i], place)
  PROVE  Passed(outs, place) = p
<1> DEFINE T == {0} \cup {i \in DOMAIN outs : Before(outs[i], place)}
<1>1. Len(outs) \in Nat /\ DOMAIN outs = 1 .. Len(outs)
  OBVIOUS
<1>2. p \in T /\ \A k \in T : p >= k /\ k \in Nat
  BY <1>1
<1>3. \A m \in T : (\A k \in T : m >= k) => m = p
  BY <1>2
<1> HIDE DEF T
<1>4. Max(T) = p
  BY <1>2, <1>3 DEF Max
<1> QED BY <1>4 DEF Passed, T

\* Passed counts what a cursor has behind it: all before that count is at or before the
\* place, nothing after it is.
LEMMA PassedDivides ==
  ASSUME NEW lines \in Nat, NEW outs, InOrder(outs, lines),
         NEW place, place.line \in Nat, place.ordinal \in Nat
  PROVE  /\ Passed(outs, place) \in 0 .. Len(outs)
         /\ \A i \in 1 .. Passed(outs, place) : Before(outs[i], place)
         /\ \A i \in Passed(outs, place) + 1 .. Len(outs) : ~Before(outs[i], place)
<1> DEFINE T == {0} \cup {i \in DOMAIN outs : Before(outs[i], place)}
<1>1. /\ Len(outs) \in Nat /\ DOMAIN outs = 1 .. Len(outs) /\ outs \in Seq(OutRecords)
      /\ \A i \in 1 .. Len(outs) : outs[i].line \in Nat /\ outs[i].ordinal \in Nat
  <2>1. outs \in Seq(OutRecords)
    BY DEF InOrder
  <2>2. \A i \in 1 .. Len(outs) : outs[i] \in OutRecords
    BY <2>1
  <2> QED BY <2>1, <2>2 DEF OutRecords
<1>2. \A k \in T : k \in 0 .. Len(outs) /\ (k # 0 => Before(outs[k], place))
  BY <1>1
<1>3. T # {} /\ T \in SUBSET (0 .. Len(outs))
  BY <1>2
<1>4. \A i \in 1 .. Len(outs) : Before(outs[i], place) => i \in T
  BY <1>1
<1>5. Passed(outs, place) = Max(T)
  BY DEF Passed
<1> HIDE DEF T
<1>6. \E m \in T : \A k \in T : m >= k
  BY <1>1, <1>3, BoundedMax
<1>7. Max(T) \in T /\ \A k \in T : Max(T) >= k
  BY <1>6 DEF Max
<1> DEFINE p == Passed(outs, place)
<1>8. p \in 0 .. Len(outs)
  BY <1>2, <1>5, <1>7
<1>9. ASSUME NEW i \in 1 .. p PROVE Before(outs[i], place)
  <2>1. p \in 1 .. Len(outs) /\ i \in 1 .. Len(outs) /\ Before(outs[p], place)
    BY <1>1, <1>2, <1>5, <1>7, <1>8
  <2>2. i = p \/ Before(outs[i], outs[p])
    BY <1>8, <2>1 DEF InOrder
  <2> QED BY <1>1, <2>1, <2>2 DEF Before
<1>10. ASSUME NEW i \in p + 1 .. Len(outs) PROVE ~Before(outs[i], place)
  <2>1. i \in 1 .. Len(outs) /\ ~(p >= i)
    BY <1>1, <1>8
  <2> QED BY <1>4, <1>5, <1>7, <2>1
<1> QED BY <1>8, <1>9, <1>10

-----------------------------------------------------------------------------
(***************************************************************************)
(* Pages of it.                                                            *)
(***************************************************************************)
\* A page of a stream: the outputs over n lines, and perhaps half a line after
\* them, from a cursor on.
StreamOf(outs, n, tail) ==
    /\ InOrder(outs, n)
    /\ tail = <<>> \/ \E m \in OutRecords : tail = <<m>> /\ m.line = n /\ m.ordinal = 0
                                            /\ m.is = "malformed"

\* With half a line after them the outputs are still in order, and what the half line
\* adds is the malformed last one.
LEMMA TailInOrder ==
  ASSUME NEW n \in Nat, NEW outs, NEW tail, StreamOf(outs, n, tail)
  PROVE  /\ InOrder(outs \o tail, n + 1) /\ outs \in Seq(OutRecords)
         /\ outs \o tail \in Seq(OutRecords)
         /\ Len(outs \o tail) \in {Len(outs), Len(outs) + 1}
         /\ \A i \in 1 .. Len(outs) : (outs \o tail)[i] = outs[i]
         /\ Len(outs \o tail) = Len(outs) + 1 =>
               /\ (outs \o tail)[Len(outs) + 1].is = "malformed"
               /\ (outs \o tail)[Len(outs) + 1].line = n
               /\ (outs \o tail)[Len(outs) + 1].ordinal = 0
<1> DEFINE all == outs \o tail
<1>1. outs \in Seq(OutRecords) /\ InOrder(outs, n) /\ Len(outs) \in Nat
  BY DEF StreamOf, InOrder
<1>2. /\ tail \in Seq(OutRecords) /\ Len(tail) \in {0, 1}
      /\ Len(tail) = 1 => tail[1].is = "malformed" /\ tail[1].line = n /\ tail[1].ordinal = 0
  <2>1. ASSUME NEW m \in OutRecords, tail = <<m>>
        PROVE  tail \in Seq(OutRecords) /\ Len(tail) = 1 /\ tail[1] = m
    BY <2>1
  <2>2. CASE tail = <<>>
    BY <2>2
  <2>3. CASE tail # <<>>
    <3>1. PICK m \in OutRecords : tail = <<m>> /\ m.line = n /\ m.ordinal = 0 /\ m.is = "malformed"
      BY <2>3 DEF StreamOf
    <3>2. tail \in Seq(OutRecords) /\ Len(tail) = 1 /\ tail[1] = m
      BY <2>1, <3>1
    <3> QED BY <3>1, <3>2
  <2> QED BY <2>2, <2>3
<1>3. /\ Len(all) = Len(outs) + Len(tail) /\ all \in Seq(OutRecords)
      /\ \A i \in 1 .. Len(outs) : (all)[i] = outs[i]
      /\ Len(tail) = 1 => (all)[Len(outs) + 1] = tail[1]
  BY <1>1, <1>2
<1>4. \A i \in 1 .. Len(tail) : tail[i].line = n /\ tail[i].ordinal = i - 1
  BY <1>2
<1>5. InOrder(all, n + 1)
  BY <1>1, <1>2, <1>4, AppendInOrder
<1> HIDE DEF all
<1>6. Len(all) \in {Len(outs), Len(outs) + 1}
      /\ (Len(all) = Len(outs) + 1 => Len(tail) = 1)
  <2>1. Len(tail) = 0 \/ Len(tail) = 1
    BY <1>2
  <2>2. Len(all) = Len(outs) + Len(tail) /\ Len(outs) \in Nat
    BY <1>1, <1>3
  <2>3. CASE Len(tail) = 0
    <3>1. Len(all) = Len(outs)
      BY <2>2, <2>3
    <3> QED BY <2>2, <3>1
  <2>4. CASE Len(tail) = 1
    BY <2>2, <2>4
  <2> QED BY <2>1, <2>3, <2>4
<1>7. Len(all) = Len(outs) + 1 =>
               /\ (all)[Len(outs) + 1].is = "malformed"
               /\ (all)[Len(outs) + 1].line = n
               /\ (all)[Len(outs) + 1].ordinal = 0
  BY ONLY <1>2, <1>3, <1>6
<1> QED BY <1>1, <1>3, <1>5, <1>6, <1>7 DEF all

\* A piece of a sequence.
LEMMA Slice ==
  ASSUME NEW S, NEW s \in Seq(S), NEW m \in Nat, NEW n \in Nat, m <= n, n <= Len(s)
  PROVE  /\ SubSeq(s, m + 1, n) \in Seq(S) /\ Len(SubSeq(s, m + 1, n)) = n - m
         /\ \A i \in 1 .. n - m : SubSeq(s, m + 1, n)[i] = s[m + i]
<1>1. \A i \in m + 1 .. n : s[i] \in S
  OBVIOUS
<1>2. \A i \in 1 .. n - m : i \in 1 .. n - (m + 1) + 1 /\ (m + 1) + i - 1 = m + i
  OBVIOUS
<1>3. m + 1 \in Int /\ n \in Int
  OBVIOUS
<1>4. /\ SubSeq(s, m + 1, n) \in Seq(S)
      /\ Len(SubSeq(s, m + 1, n)) = IF m + 1 <= n THEN n - (m + 1) + 1 ELSE 0
      /\ \A i \in 1 .. n - (m + 1) + 1 : SubSeq(s, m + 1, n)[i] = s[(m + 1) + i - 1]
  BY ONLY <1>1, <1>3, s \in Seq(S), SubSeqProperties
<1> QED BY <1>2, <1>4

\* How many outputs a page takes, when there are L, after them at most one that is
\* malformed, and the page begins behind the first q.
PageLength(all, q) == IF PageSize <= all - q THEN PageSize ELSE all - q

\* How long a page is, and whether it leaves anything.
LEMMA PageNumbers ==
  ASSUME NEW L \in Nat, NEW A \in {L, L + 1}, NEW q \in Nat, q <= A,
         PageLength(A, q) > 0 => q + PageLength(A, q) # L + 1
  PROVE  LET l == PageLength(A, q)
             p == IF q <= L THEN q ELSE L
         IN /\ l \in Nat /\ q + l <= A /\ p \in 0 .. L /\ p + l <= L
            /\ l < PageSize => p + l = L
            /\ l = PageSize \/ l < PageSize
            /\ l > 0 => p = q
<1>1. PageSize \in Nat /\ PageSize > 0
  BY ReadsAssumption
<1> QED BY <1>1 DEF PageLength

\* What a page takes of the outputs and half a line is a piece of the outputs, if
\* there is nothing malformed in it.
LEMMA PageIsSlice ==
  ASSUME NEW outs \in Seq(OutRecords), NEW all \in Seq(OutRecords),
         Len(all) \in {Len(outs), Len(outs) + 1},
         \A i \in 1 .. Len(outs) : all[i] = outs[i],
         Len(all) = Len(outs) + 1 => all[Len(outs) + 1].is = "malformed",
         NEW q \in Nat, q <= Len(all),
         AllValues(SubSeq(all, q + 1, q + PageLength(Len(all), q)))
  PROVE  LET l == PageLength(Len(all), q)
             p == IF q <= Len(outs) THEN q ELSE Len(outs)
         IN /\ l \in Nat /\ p \in 0 .. Len(outs) /\ p + l <= Len(outs)
            /\ SubSeq(all, q + 1, q + l) = SubSeq(outs, p + 1, p + l)
            /\ l < PageSize => p + l = Len(outs)
            /\ l = PageSize \/ l < PageSize
            /\ l > 0 => p = q
<1> DEFINE L == Len(outs)
           A == Len(all)
           l == PageLength(A, q)
           p == IF q <= L THEN q ELSE L
           full == SubSeq(all, q + 1, q + l)
<1>1. L \in Nat /\ A \in {L, L + 1} /\ q <= A
  OBVIOUS
<1>2. PageSize \in Nat /\ l \in Nat /\ q + l \in Nat /\ q <= q + l /\ q + l <= A /\ q + l - q = l
  BY <1>1, ReadsAssumption DEF PageLength
<1> HIDE DEF l
<1>3. /\ full \in Seq(OutRecords) /\ Len(full) = l
      /\ \A i \in 1 .. l : full[i] = all[q + i]
  BY <1>2, Slice
<1>4. AllValues(full) /\ DOMAIN full = 1 .. l
  BY <1>3 DEF l
<1> HIDE DEF full
<1>5. l > 0 => q + l # L + 1
  <2> SUFFICES ASSUME l > 0, q + l = L + 1 PROVE FALSE
    OBVIOUS
  <2>1. A = L + 1 /\ l \in 1 .. l
    BY <1>1, <1>2
  <2>2. full[l].is = "malformed"
    BY <1>3, <2>1
  <2>3. full[l].is = "value"
    BY <1>4, <2>1 DEF AllValues
  <2> QED BY <2>2, <2>3
<1>6. /\ p \in 0 .. L /\ p + l <= L
      /\ l < PageSize => p + l = L
      /\ l = PageSize \/ l < PageSize
      /\ l > 0 => p = q
  BY <1>1, <1>5, PageNumbers DEF l
<1> HIDE DEF p
<1>7. p \in Nat /\ p + l \in Nat /\ p <= p + l /\ p + l <= Len(outs) /\ p + l - p = l
  BY <1>1, <1>2, <1>6
<1>0. outs \in Seq(OutRecords)
  OBVIOUS
<1> DEFINE piece == SubSeq(outs, p + 1, p + l)
<1>8. /\ piece \in Seq(OutRecords) /\ Len(piece) = l
      /\ \A i \in 1 .. l : piece[i] = outs[p + i]
  <2> DEFINE m == p + l
  <2>1. p \in Nat /\ m \in Nat /\ p <= m /\ m <= Len(outs) /\ m - p = l
    BY <1>2, <1>7
  <2> HIDE DEF m
  <2>2. /\ SubSeq(outs, p + 1, m) \in Seq(OutRecords) /\ Len(SubSeq(outs, p + 1, m)) = m - p
        /\ \A i \in 1 .. m - p : SubSeq(outs, p + 1, m)[i] = outs[p + i]
    BY ONLY <1>0, <2>1, Slice
  <2> QED BY <2>1, <2>2 DEF m
<1> HIDE DEF piece
<1>9. ASSUME NEW i \in 1 .. l PROVE full[i] = piece[i]
  <2>1. p = q /\ q + i \in 1 .. L
    BY <1>1, <1>2, <1>6, <1>9
  <2> QED BY <1>3, <1>8, <2>1
<1>10. full = piece
  BY <1>3, <1>8, <1>9, SeqEqual
<1> QED BY <1>2, <1>6, <1>10 DEF full, piece, l, p

\* The places at which a page of P outputs may stop have just those behind them.
LEMMA StopsPassed ==
  ASSUME NEW n \in Nat, NEW outs, InOrder(outs, n), NEW P \in 1 .. Len(outs), NEW c,
         \/ /\ c.line \in outs[P].line + 1 .. (IF P = Len(outs) THEN n ELSE outs[P + 1].line)
            /\ c.ordinal = 0
         \/ c.line = outs[P].line /\ c.ordinal = outs[P].ordinal + 1
         \/ P < Len(outs) /\ c.line = outs[P + 1].line /\ c.ordinal = outs[P + 1].ordinal
  PROVE  Passed(outs, c) = P
<1>1. outs \in Seq(OutRecords) /\ Len(outs) \in Nat
  BY DEF InOrder
<1>2. \A i \in 1 .. Len(outs) : outs[i].line \in Nat /\ outs[i].ordinal \in Nat /\ outs[i].line < n
  <2>1. \A i \in 1 .. Len(outs) : outs[i] \in OutRecords
    BY <1>1
  <2> QED BY <2>1 DEF OutRecords, InOrder
<1>3. \A i \in 1 .. Len(outs) : i < P => Before(outs[i], outs[P])
  BY DEF InOrder
<1>4. \A i \in 1 .. Len(outs) : i > P => Before(outs[P], outs[i])
  BY DEF InOrder
<1>5. P < Len(outs) => \A i \in 1 .. Len(outs) : i > P + 1 => Before(outs[P + 1], outs[i])
  BY <1>1 DEF InOrder
<1>6. P < Len(outs) => P + 1 \in 1 .. Len(outs) /\ Before(outs[P], outs[P + 1])
  BY <1>1, <1>4
<1>7. ASSUME NEW i \in 1 .. P PROVE Before(outs[i], c)
  <2>1. i \in 1 .. Len(outs) /\ (i = P \/ Before(outs[i], outs[P]))
    BY <1>1, <1>3
  <2>2. CASE c.line \in outs[P].line + 1 .. (IF P = Len(outs) THEN n ELSE outs[P + 1].line)
    <3>1. outs[P].line \in Nat /\ outs[i].line \in Nat /\ n \in Nat
          /\ (P # Len(outs) => outs[P + 1].line \in Nat)
      BY <1>1, <1>2, <1>6, <2>1
    <3>2. c.line \in Int /\ c.line > outs[P].line
      BY ONLY <2>2, <3>1
    <3>3. outs[i].line <= outs[P].line
      BY ONLY <2>1, <3>1 DEF Before
    <3> QED BY ONLY <3>1, <3>2, <3>3 DEF Before
  <2>3. CASE c.line = outs[P].line /\ c.ordinal = outs[P].ordinal + 1
    BY <1>2, <2>1, <2>3 DEF Before
  <2>4. CASE P < Len(outs) /\ c.line = outs[P + 1].line /\ c.ordinal = outs[P + 1].ordinal
    BY <1>2, <1>6, <2>1, <2>4 DEF Before
  <2> QED BY <2>2, <2>3, <2>4
<1>8. ASSUME NEW i \in P + 1 .. Len(outs) PROVE ~Before(outs[i], c)
  <2>1. i \in 1 .. Len(outs) /\ P < Len(outs) /\ (i = P + 1 \/ Before(outs[P + 1], outs[i]))
        /\ Before(outs[P], outs[i])
    BY <1>1, <1>4, <1>5
  <2>2. CASE c.line \in outs[P].line + 1 .. (IF P = Len(outs) THEN n ELSE outs[P + 1].line)
             /\ c.ordinal = 0
    <3>1. /\ outs[P].line \in Nat /\ outs[P + 1].line \in Nat
          /\ outs[i].line \in Nat /\ outs[i].ordinal \in Nat
      BY <1>2, <1>6, <2>1
    <3>2. c.line \in outs[P].line + 1 .. outs[P + 1].line /\ c.ordinal = 0
      BY <1>1, <2>1, <2>2
    <3>3. c.line \in Int /\ c.line <= outs[P + 1].line
      BY ONLY <3>1, <3>2
    <3>4. outs[P + 1].line <= outs[i].line
      BY ONLY <2>1, <3>1 DEF Before
    <3> QED BY ONLY <3>1, <3>2, <3>3, <3>4 DEF Before
  <2>3. CASE c.line = outs[P].line /\ c.ordinal = outs[P].ordinal + 1
    <3>1. /\ outs[P].line \in Nat /\ outs[P].ordinal \in Nat
          /\ outs[i].line \in Nat /\ outs[i].ordinal \in Nat
      BY <1>2, <2>1
    <3> QED BY <2>1, <2>3, <3>1 DEF Before
  <2>4. CASE P < Len(outs) /\ c.line = outs[P + 1].line /\ c.ordinal = outs[P + 1].ordinal
    BY <1>2, <1>6, <2>1, <2>4 DEF Before
  <2> QED BY <2>2, <2>3, <2>4
<1>9. P \in 0 .. Len(outs)
  BY <1>1
<1> QED BY <1>1, <1>7, <1>8, <1>9, PassedIs

\* A piece of the rest of a sequence.
LEMMA SliceOfRest ==
  ASSUME NEW S, NEW s \in Seq(S), NEW q \in Nat, NEW m \in Nat, NEW n \in Nat,
         m <= n, q + n <= Len(s)
  PROVE  SubSeq(SubSeq(s, q + 1, Len(s)), m + 1, n) = SubSeq(s, q + m + 1, q + n)
<1> DEFINE rest == SubSeq(s, q + 1, Len(s))
<1>1. Len(s) \in Nat /\ q <= Len(s) /\ Len(s) <= Len(s)
  OBVIOUS
<1>2. /\ rest \in Seq(S) /\ Len(rest) = Len(s) - q
      /\ \A i \in 1 .. Len(s) - q : rest[i] = s[q + i]
  BY <1>1, Slice
<1> HIDE DEF rest
<1>3. n <= Len(rest)
  BY <1>1, <1>2
<1> DEFINE a == SubSeq(rest, m + 1, n)
           b == SubSeq(s, q + m + 1, q + n)
<1>4. /\ a \in Seq(S) /\ Len(a) = n - m
      /\ \A i \in 1 .. n - m : a[i] = rest[m + i]
  <2>1. rest \in Seq(S) /\ m \in Nat /\ n \in Nat /\ m <= n /\ n <= Len(rest)
    BY <1>2, <1>3
  <2> QED BY ONLY <2>1, Slice
<1>5. /\ b \in Seq(S) /\ Len(b) = n - m
      /\ \A i \in 1 .. n - m : b[i] = s[q + m + i]
  <2> DEFINE k == q + m
             l == q + n
  <2>1. k \in Nat /\ l \in Nat /\ k <= l /\ l <= Len(s)
    OBVIOUS
  <2>2. l - k = n - m
    OBVIOUS
  <2> HIDE DEF k, l
  <2>3. /\ SubSeq(s, k + 1, l) \in Seq(S) /\ Len(SubSeq(s, k + 1, l)) = l - k
        /\ \A i \in 1 .. l - k : SubSeq(s, k + 1, l)[i] = s[k + i]
    BY ONLY s \in Seq(S), <2>1, Slice
  <2> QED BY <2>2, <2>3 DEF k, l
<1> HIDE DEF a, b
<1>6. ASSUME NEW i \in 1 .. n - m PROVE a[i] = b[i]
  <2>1. m + i \in 1 .. Len(s) - q /\ q + (m + i) = q + m + i
    BY <1>1
  <2>2. rest[m + i] = s[q + (m + i)]
    BY <1>2, <2>1
  <2> QED BY <1>4, <1>5, <2>1, <2>2
<1>7. a = b
  BY <1>4, <1>5, <1>6, SeqEqual
<1> QED BY <1>7 DEF a, b, rest

\* The smaller of two numbers, by the definition of Min.
LEMMA LeastOf == ASSUME NEW a \in Nat, NEW b \in Nat PROVE Min({a, b}) = IF a <= b THEN a ELSE b
<1> DEFINE m == IF a <= b THEN a ELSE b
<1>1. m \in {a, b} /\ \A y \in {a, b} : m <= y
  OBVIOUS
<1>2. \A x \in {a, b} : (\A y \in {a, b} : x <= y) => x = m
  OBVIOUS
<1> HIDE DEF m
<1>3. Min({a, b}) = m
  BY <1>1, <1>2 DEF Min
<1> QED BY <1>3 DEF m

\* What a page of a stream is: the outputs from the cursor's place on, as many as fit,
\* and what comes after them.
PageOfStream(outs, n, tail, place) ==
    LET all == outs \o tail
        rest == SubSeq(all, Passed(all, place) + 1, Len(all))
        full == SubSeq(rest, 1, Min({PageSize, Len(rest)}))
        left == SubSeq(rest, PageSize + 1, Len(rest))
        p == Passed(outs, place)
        l == Len(full)
    IN /\ l \in Nat /\ p \in 0 .. Len(outs) /\ p + l <= Len(outs)
       /\ full = SubSeq(outs, p + 1, p + l)
       /\ l < PageSize => p + l = Len(outs)
       /\ l = PageSize \/ l < PageSize
       /\ l = PageSize =>
             /\ full[l] = outs[p + l]
             /\ left = <<>> => p + l = Len(outs)
             /\ left # <<>> /\ p + l < Len(outs) => left[1] = outs[p + l + 1]
             /\ left # <<>> /\ p + l = Len(outs) => left[1].line = n /\ left[1].ordinal = 0

\* A page that is not malformed is what comes next of the program's output.
LEMMA StreamPage ==
  ASSUME NEW n \in Nat, NEW outs, NEW tail, StreamOf(outs, n, tail),
         NEW place, place.line \in Nat, place.ordinal \in Nat,
         LET rest == SubSeq(outs \o tail, Passed(outs \o tail, place) + 1, Len(outs \o tail))
         IN AllValues(SubSeq(rest, 1, Min({PageSize, Len(rest)})))
  PROVE  PageOfStream(outs, n, tail, place)
<1> DEFINE all == outs \o tail
           q == Passed(all, place)
           rest == SubSeq(all, q + 1, Len(all))
           full == SubSeq(rest, 1, Min({PageSize, Len(rest)}))
           left == SubSeq(rest, PageSize + 1, Len(rest))
           p == Passed(outs, place)
           l == PageLength(Len(all), q)
<1>0. PageSize \in Nat /\ PageSize > 0
  BY ReadsAssumption
<1>1. /\ InOrder(all, n + 1) /\ outs \in Seq(OutRecords) /\ all \in Seq(OutRecords)
      /\ Len(all) \in {Len(outs), Len(outs) + 1} /\ Len(all) \in Nat /\ Len(outs) \in Nat
      /\ \A i \in 1 .. Len(outs) : all[i] = outs[i]
      /\ Len(all) = Len(outs) + 1 => /\ all[Len(outs) + 1].is = "malformed"
                                     /\ all[Len(outs) + 1].line = n
                                     /\ all[Len(outs) + 1].ordinal = 0
  BY TailInOrder
<1>2. AllValues(full)
  OBVIOUS
<1> HIDE DEF all
<1>3. /\ q \in 0 .. Len(all)
      /\ \A i \in 1 .. q : Before(all[i], place)
      /\ \A i \in q + 1 .. Len(all) : ~Before(all[i], place)
  BY <1>1, PassedDivides
<1> HIDE DEF q
<1>4. p = IF q <= Len(outs) THEN q ELSE Len(outs)
  <2> DEFINE r == IF q <= Len(outs) THEN q ELSE Len(outs)
  <2>1. r \in 0 .. Len(outs)
    BY <1>1, <1>3
  <2>2. \A i \in 1 .. r : Before(outs[i], place)
    BY <1>1, <1>3
  <2>3. \A i \in r + 1 .. Len(outs) : ~Before(outs[i], place)
    BY <1>1, <1>3
  <2> HIDE DEF r
  <2>4. p = r
    BY <1>1, <2>1, <2>2, <2>3, PassedIs
  <2> QED BY <2>4 DEF r
<1> HIDE DEF p
<1>5. q \in Nat /\ q <= Len(all)
  BY <1>1, <1>3
<1>6. rest \in Seq(OutRecords) /\ Len(rest) = Len(all) - q /\ Len(rest) \in Nat
  <2>1. rest \in Seq(OutRecords) /\ Len(rest) = Len(all) - q
    BY <1>1, <1>5, Slice
  <2> QED BY <1>1, <1>5, <2>1
<1>7. l \in Nat /\ q + l <= Len(all) /\ q + 0 + 1 = q + 1 /\ 0 <= l
  BY <1>0, <1>1, <1>5 DEF PageLength
<1>8. Min({PageSize, Len(rest)}) = l
  BY <1>0, <1>6, LeastOf DEF PageLength
<1> HIDE DEF l
<1>9. full = SubSeq(all, q + 1, q + l)
  <2>1. full = SubSeq(rest, 0 + 1, l)
    <3>1. 0 + 1 = 1
      OBVIOUS
    <3> HIDE DEF rest
    <3> QED BY ONLY <1>8, <3>1 DEF full
  <2>2. SubSeq(rest, 0 + 1, l) = SubSeq(all, q + 0 + 1, q + l)
    BY <1>1, <1>5, <1>7, SliceOfRest
  <2> QED BY <1>7, <2>1, <2>2
<1> HIDE DEF full
<1>10. /\ p \in 0 .. Len(outs) /\ p + l <= Len(outs)
       /\ full = SubSeq(outs, p + 1, p + l)
       /\ l < PageSize => p + l = Len(outs)
       /\ l = PageSize \/ l < PageSize
       /\ l > 0 => p = q
  <2>1. AllValues(SubSeq(all, q + 1, q + PageLength(Len(all), q)))
    BY <1>2, <1>9 DEF l
  <2>2. LET m == PageLength(Len(all), q)
            k == IF q <= Len(outs) THEN q ELSE Len(outs)
        IN /\ m \in Nat /\ k \in 0 .. Len(outs) /\ k + m <= Len(outs)
           /\ SubSeq(all, q + 1, q + m) = SubSeq(outs, k + 1, k + m)
           /\ m < PageSize => k + m = Len(outs)
           /\ m = PageSize \/ m < PageSize
           /\ m > 0 => k = q
    BY <1>1, <1>5, <2>1, PageIsSlice
  <2> QED BY <1>4, <1>9, <2>2 DEF l
<1>11. /\ full \in Seq(OutRecords) /\ Len(full) = l
       /\ \A i \in 1 .. l : full[i] = outs[p + i]
  <2> DEFINE m == p + l
  <2>1. p \in Nat /\ m \in Nat /\ p <= m /\ m <= Len(outs) /\ m - p = l
    BY <1>1, <1>7, <1>10
  <2>2. full = SubSeq(outs, p + 1, m)
    BY <1>10
  <2> HIDE DEF m
  <2>3. /\ SubSeq(outs, p + 1, m) \in Seq(OutRecords) /\ Len(SubSeq(outs, p + 1, m)) = m - p
        /\ \A i \in 1 .. m - p : SubSeq(outs, p + 1, m)[i] = outs[p + i]
    BY <1>1, <2>1, Slice
  <2> QED BY <2>1, <2>2, <2>3
<1>12. ASSUME l = PageSize
       PROVE  /\ full[l] = outs[p + l]
              /\ left = <<>> => p + l = Len(outs)
              /\ left # <<>> /\ p + l < Len(outs) => left[1] = outs[p + l + 1]
              /\ left # <<>> /\ p + l = Len(outs) => left[1].line = n /\ left[1].ordinal = 0
  <2>1. p = q /\ l \in 1 .. l
    BY <1>0, <1>10, <1>12
  <2>2. l <= Len(rest) /\ q + Len(rest) <= Len(all) /\ q + Len(rest) = Len(all)
    BY <1>1, <1>5, <1>6, <1>7
  <2> DEFINE k == q + l
  <2>3. left = SubSeq(all, k + 1, Len(all))
    BY <1>1, <1>5, <1>6, <1>7, <1>12, <2>2, SliceOfRest
  <2>4. k \in Nat /\ k <= Len(all) /\ k = p + l
    BY <1>1, <1>5, <1>7, <2>1
  <2> HIDE DEF k, left
  <2>5. /\ left \in Seq(OutRecords) /\ Len(left) = Len(all) - k
        /\ \A i \in 1 .. Len(all) - k : left[i] = all[k + i]
    <3>1. /\ SubSeq(all, k + 1, Len(all)) \in Seq(OutRecords)
          /\ Len(SubSeq(all, k + 1, Len(all))) = Len(all) - k
          /\ \A i \in 1 .. Len(all) - k : SubSeq(all, k + 1, Len(all))[i] = all[k + i]
      <4>1. Len(all) \in Nat /\ all \in Seq(OutRecords) /\ Len(all) <= Len(all)
        BY <1>1
      <4> QED BY ONLY <4>1, <2>4, Slice
    <3> QED BY <2>3, <3>1
  <2>6. left = <<>> => k = Len(outs)
    <3>1. left = <<>> => Len(left) = 0
      OBVIOUS
    <3> QED BY <1>1, <1>10, <2>4, <2>5, <3>1
  <2>7. left # <<>> => 1 \in 1 .. Len(all) - k /\ left[1] = all[k + 1]
    BY <1>1, <2>4, <2>5
  <2>8. left # <<>> /\ k < Len(outs) => left[1] = outs[k + 1]
    <3>1. k < Len(outs) => k + 1 \in 1 .. Len(outs)
      BY <1>1, <2>4
    <3> QED BY <1>1, <2>7, <3>1
  <2>9. left # <<>> /\ k = Len(outs) => left[1].line = n /\ left[1].ordinal = 0
    BY <1>1, <2>4, <2>7
  <2>10. full[l] = outs[p + l]
    BY <1>11, <2>1
  <2> QED BY <2>4, <2>6, <2>8, <2>9, <2>10
<1> HIDE DEF left
<1>13. LET m == Len(full)
       IN /\ m \in Nat /\ p \in 0 .. Len(outs) /\ p + m <= Len(outs)
          /\ full = SubSeq(outs, p + 1, p + m)
          /\ m < PageSize => p + m = Len(outs)
          /\ m = PageSize \/ m < PageSize
          /\ m = PageSize =>
                /\ full[m] = outs[p + m]
                /\ left = <<>> => p + m = Len(outs)
                /\ left # <<>> /\ p + m < Len(outs) => left[1] = outs[p + m + 1]
                /\ left # <<>> /\ p + m = Len(outs) => left[1].line = n /\ left[1].ordinal = 0
  BY <1>7, <1>10, <1>11, <1>12
<1> QED BY ONLY <1>13 DEF PageOfStream, left, full, rest, p, q, all

-----------------------------------------------------------------------------
(***************************************************************************)
(* The sorted pages of logs, for any order of the timestamps and any sizes *)
(* of chunks, groups and pages.                                            *)
(***************************************************************************)

\* Records in their order, none twice.
Ascending(s) == \A i, j \in DOMAIN s : i < j => Earlier(s[i], s[j])

NoneTwice(s) == \A i, j \in DOMAIN s : i # j => s[i] # s[j]

\* Records of one evidence file: each has a sequence number of its own.
Distinct(U) == U \subseteq EventRecords /\ \A x, y \in U : x.seq = y.seq => x = y

Lists(s, U) == s \in Seq(EventRecords) /\ Ascending(s) /\ Range(s) = U

\* Files that hold the records of U, each in one of them and each file in order.
Holds(files, U) ==
    /\ files \in Seq(Seq(EventRecords))
    /\ \A f \in DOMAIN files : Ascending(files[f])
    /\ \A f, g \in DOMAIN files : f # g => Range(files[f]) \cap Range(files[g]) = {}
    /\ U = UNION {Range(files[f]) : f \in DOMAIN files}

\* Records are ordered by timestamp and, where that is the same, by sequence number.
LEMMA EarlierOrders ==
  ASSUME NEW x \in EventRecords, NEW y \in EventRecords, NEW z \in EventRecords
  PROVE  /\ ~Earlier(x, x)
         /\ Earlier(x, y) /\ Earlier(y, z) => Earlier(x, z)
         /\ Earlier(x, y) => ~Earlier(y, x)
         /\ x.seq # y.seq => Earlier(x, y) \/ Earlier(y, x)
<1>1. \A e \in EventRecords : Stamp[e.id.what] \in Nat /\ e.seq \in Nat
  BY ReadsAssumption DEF EventRecords, RecordIds
<1> QED BY <1>1 DEF Earlier

\* Of different records of one evidence file one is the earlier.
LEMMA OneIsEarlier ==
  ASSUME NEW U, Distinct(U), NEW x \in U, NEW y \in U, x # y
  PROVE  Earlier(x, y) \/ Earlier(y, x)
  BY EarlierOrders DEF Distinct

\* Some records of one evidence file have an earliest.
LEMMA EarliestExists ==
  ASSUME NEW U, Distinct(U), U # {}
  PROVE  \E m \in U : \A x \in U : x # m => Earlier(m, x)
<1> DEFINE stamp(e) == Stamp[e.id.what]
<1>1. \A e \in U : stamp(e) \in Nat /\ e.seq \in Nat /\ e \in EventRecords
  BY ReadsAssumption DEF EventRecords, RecordIds, Distinct
<1> DEFINE T == {stamp(e) : e \in U}
<1>2. PICK t \in T : \A k \in T : t <= k
  <2>1. T \subseteq Nat /\ T # {}
    BY <1>1
  <2> HIDE DEF T
  <2> QED BY <2>1, LeastNumber
<1> DEFINE V == {e \in U : stamp(e) = t}
<1> DEFINE N == {e.seq : e \in V}
<1>3. PICK n \in N : \A k \in N : n <= k
  <2>1. N \subseteq Nat /\ N # {}
    BY <1>1, <1>2
  <2> HIDE DEF N
  <2> QED BY <2>1, LeastNumber
<1>4. PICK m \in V : m.seq = n
  BY <1>3
<1>5. ASSUME NEW x \in U, x # m PROVE Earlier(m, x)
  <2>1. m \in U /\ m.seq # x.seq
    BY <1>4, <1>5 DEF Distinct
  <2>2. stamp(m) = t /\ t <= stamp(x)
    BY <1>2, <1>4
  <2>3. stamp(x) = t => n <= x.seq
    BY <1>3
  <2> QED BY <1>1, <1>4, <2>1, <2>2, <2>3 DEF Earlier
<1> QED BY <1>4, <1>5

\* Different records are as many as the sequence is long.
LEMMA NoneTwiceIsFinite ==
  ASSUME NEW s \in Seq(EventRecords), NoneTwice(s)
  PROVE  /\ IsFiniteSet(Range(s)) /\ Cardinality(Range(s)) = Len(s)
         /\ s \in Bijection(1 .. Len(s), Range(s))
<1> DEFINE D == 1 .. Len(s)
<1>1. Len(s) \in Nat /\ DOMAIN s = D
  OBVIOUS
<1>2. IsFiniteSet(D) /\ Cardinality(D) = Len(s)
  BY <1>1, FS_Interval
<1>3. s \in [D -> Range(s)] /\ \A y \in Range(s) : \E x \in D : s[x] = y
  BY <1>1 DEF Range
<1>4. \A i, j \in D : s[i] = s[j] => i = j
  BY <1>1 DEF NoneTwice
<1>5. s \in Bijection(D, Range(s))
  BY <1>3, <1>4 DEF Bijection, Injection, Surjection, IsInjective
<1> QED BY <1>2, <1>5, FS_Bijection DEF ExistsBijection

\* Records in their order are such.
LEMMA ListIsFinite ==
  ASSUME NEW s \in Seq(EventRecords), Ascending(s)
  PROVE  NoneTwice(s) /\ IsFiniteSet(Range(s)) /\ Cardinality(Range(s)) = Len(s)
<1>1. ASSUME NEW i \in DOMAIN s, NEW j \in DOMAIN s, i < j PROVE s[i] # s[j]
  <2>1. Earlier(s[i], s[j]) /\ s[i] \in EventRecords
    BY <1>1 DEF Ascending
  <2> QED BY <2>1, EarlierOrders
<1>2. \A i, j \in DOMAIN s : i < j \/ j < i \/ i = j
  OBVIOUS
<1>3. NoneTwice(s)
  BY <1>1, <1>2 DEF NoneTwice
<1> QED BY <1>3, NoneTwiceIsFinite

\* Files of Holds, and the records in them.
LEMMA FilesAre ==
  ASSUME NEW files, NEW U, Holds(files, U)
  PROVE  /\ Len(files) \in Nat /\ DOMAIN files = 1 .. Len(files)
         /\ \A f \in DOMAIN files :
               /\ files[f] \in Seq(EventRecords) /\ Len(files[f]) \in Nat
               /\ DOMAIN files[f] = 1 .. Len(files[f])
               /\ \A i \in DOMAIN files[f] : files[f][i] \in U /\ files[f][i] \in EventRecords
         /\ \A x \in U : \E f \in DOMAIN files : \E i \in DOMAIN files[f] : x = files[f][i]
<1>1. files \in Seq(Seq(EventRecords)) /\ U = UNION {Range(files[f]) : f \in DOMAIN files}
  BY DEF Holds
<1>2. Len(files) \in Nat /\ DOMAIN files = 1 .. Len(files)
  BY <1>1
<1>3. \A f \in DOMAIN files : files[f] \in Seq(EventRecords)
  BY <1>1
<1>4. \A f \in DOMAIN files : /\ Len(files[f]) \in Nat /\ DOMAIN files[f] = 1 .. Len(files[f])
                             /\ \A i \in DOMAIN files[f] : files[f][i] \in EventRecords
  BY <1>3
<1>5. \A f \in DOMAIN files : \A i \in DOMAIN files[f] : files[f][i] \in Range(files[f])
  BY DEF Range
<1>6. \A f \in DOMAIN files : Range(files[f]) \subseteq U
  BY <1>1
<1>7. \A x \in U : \E f \in DOMAIN files : \E i \in DOMAIN files[f] : x = files[f][i]
  BY <1>1 DEF Range
<1> QED BY <1>2, <1>3, <1>4, <1>5, <1>6, <1>7

\* A sequence after another.
LEMMA RangeOfConcat ==
  ASSUME NEW S, NEW s \in Seq(S), NEW t \in Seq(S)
  PROVE  /\ s \o t \in Seq(S) /\ Len(s \o t) = Len(s) + Len(t)
         /\ Len(s) \in Nat /\ Len(t) \in Nat
         /\ \A i \in 1 .. Len(s) : (s \o t)[i] = s[i]
         /\ \A i \in 1 .. Len(t) : (s \o t)[Len(s) + i] = t[i]
         /\ Range(s \o t) = Range(s) \cup Range(t)
<1>1. /\ s \o t \in Seq(S) /\ Len(s \o t) = Len(s) + Len(t)
      /\ Len(s) \in Nat /\ Len(t) \in Nat
      /\ DOMAIN s = 1 .. Len(s) /\ DOMAIN t = 1 .. Len(t)
      /\ DOMAIN (s \o t) = 1 .. Len(s) + Len(t)
      /\ \A i \in 1 .. Len(s) : (s \o t)[i] = s[i]
      /\ \A i \in 1 .. Len(t) : (s \o t)[Len(s) + i] = t[i]
  OBVIOUS
<1> DEFINE both == s \o t
<1> HIDE DEF both
<1>2. Range(both) \subseteq Range(s) \cup Range(t)
  <2>1. ASSUME NEW k \in DOMAIN both PROVE both[k] \in Range(s) \cup Range(t)
    <3>1. CASE k \in 1 .. Len(s)
      BY <1>1, <3>1 DEF Range, both
    <3>2. CASE k \notin 1 .. Len(s)
      <4> DEFINE i == k - Len(s)
      <4>1. i \in 1 .. Len(t) /\ Len(s) + i = k
        BY <1>1, <3>2 DEF both
      <4> HIDE DEF i
      <4>2. both[k] = t[i]
        BY <1>1, <4>1 DEF both
      <4> QED BY <1>1, <4>1, <4>2 DEF Range
    <3> QED BY <3>1, <3>2
  <2> QED BY <2>1 DEF Range
<1>3. Range(s) \subseteq Range(both)
  <2>1. \A i \in DOMAIN s : i \in DOMAIN both /\ both[i] = s[i]
    BY <1>1 DEF both
  <2> QED BY <2>1 DEF Range
<1>4. Range(t) \subseteq Range(both)
  <2>1. \A i \in DOMAIN t : Len(s) + i \in DOMAIN both /\ both[Len(s) + i] = t[i]
    BY <1>1 DEF both
  <2> QED BY <2>1 DEF Range
<1>5. Range(both) = Range(s) \cup Range(t)
  BY <1>2, <1>3, <1>4
<1> QED BY <1>1, <1>5 DEF both

\* The records of all files are as many as the files one after the other are long.
LEMMA FilesCount ==
  ASSUME NEW files, NEW U, Holds(files, U)
  PROVE  /\ FlattenSeq(files) \in Seq(EventRecords) /\ IsFiniteSet(U)
         /\ Cardinality(U) = Len(FlattenSeq(files))
<1> DEFINE Counted(s, V) == /\ FlattenSeq(s) \in Seq(EventRecords) /\ IsFiniteSet(V)
                            /\ Cardinality(V) = Len(FlattenSeq(s))
<1> DEFINE S == {n \in Nat : \A s \in Seq(Seq(EventRecords)), V \in SUBSET EventRecords :
                     Len(s) = n /\ Holds(s, V) => Counted(s, V)}
<1>1. 0 \in S
  <2> SUFFICES ASSUME NEW s \in Seq(Seq(EventRecords)), NEW V \in SUBSET EventRecords,
                      Len(s) = 0, Holds(s, V)
               PROVE  Counted(s, V)
    OBVIOUS
  <2>1. s = <<>> /\ V = {}
    BY DEF Holds
  <2>2. <<>> \in Seq(EventRecords) /\ Len(<<>>) = 0
    OBVIOUS
  <2> QED BY <2>1, <2>2, FlattenEmpty, FS_EmptySet
<1>2. ASSUME NEW n \in Nat, n \in S PROVE n + 1 \in S
  <2> SUFFICES ASSUME NEW t \in Seq(Seq(EventRecords)), NEW V \in SUBSET EventRecords,
                      Len(t) = n + 1, Holds(t, V)
               PROVE  Counted(t, V)
    OBVIOUS
  <2> DEFINE s == [i \in 1 .. n |-> t[i]]
  <2> DEFINE W == UNION {Range(s[f]) : f \in DOMAIN s}
  <2> DEFINE last == t[n + 1]
  <2>1. /\ \A i \in 1 .. n : t[i] \in Seq(EventRecords)
        /\ last \in Seq(EventRecords) /\ DOMAIN t = 1 .. n + 1
    OBVIOUS
  <2>2. s \in Seq(Seq(EventRecords)) /\ Len(s) = n /\ DOMAIN s = 1 .. n
        /\ \A i \in 1 .. n : s[i] = t[i]
    BY <2>1
  <2>a. /\ \A f \in 1 .. n + 1 : Ascending(t[f])
        /\ \A f, g \in 1 .. n + 1 : f # g => Range(t[f]) \cap Range(t[g]) = {}
    <3>1. DOMAIN t = 1 .. n + 1
      OBVIOUS
    <3> QED BY ONLY Holds(t, V), <3>1 DEF Holds
  <2>b. n + 1 \in 1 .. n + 1 /\ \A f \in 1 .. n : f \in 1 .. n + 1 /\ f # n + 1
    OBVIOUS
  <2>3. Ascending(last) /\ \A f \in 1 .. n : Ascending(t[f]) /\ Range(t[f]) \cap Range(last) = {}
    BY ONLY <2>a, <2>b
  <2>4. \A f, g \in 1 .. n : f # g => Range(t[f]) \cap Range(t[g]) = {}
    BY ONLY <2>a, <2>b
  <2>5. V = UNION {Range(t[f]) : f \in 1 .. n + 1}
    BY <2>1 DEF Holds
  <2> HIDE DEF s, last
  <2>6. 1 .. n + 1 = (1 .. n) \cup {n + 1}
    OBVIOUS
  <2>7. W = UNION {Range(t[f]) : f \in 1 .. n}
    BY <2>2
  <2> HIDE DEF W
  <2>8. V = W \cup Range(last) /\ W \cap Range(last) = {} /\ W \subseteq EventRecords
    <3>1. V = W \cup Range(last)
      BY <2>5, <2>6, <2>7 DEF last
    <3>2. W \cap Range(last) = {}
      <4>1. ASSUME NEW x \in W, x \in Range(last) PROVE FALSE
        <5>1. PICK f \in 1 .. n : x \in Range(t[f])
          BY ONLY <2>7, <4>1
        <5> QED BY <2>3, <4>1, <5>1
      <4> QED BY ONLY <4>1
    <3> QED BY <3>1, <3>2
  <2>9. Holds(s, W)
    BY <2>2, <2>3, <2>4 DEF Holds, W
  <2>10. Counted(s, W)
    BY <1>2, <2>2, <2>8, <2>9
  <2>11. IsFiniteSet(Range(last)) /\ Cardinality(Range(last)) = Len(last)
    BY <2>1, <2>3, ListIsFinite
  <2>12. FlattenSeq(t) = IF n = 0 THEN last ELSE FlattenSeq(s) \o last
    <3>1. FlattenSeq(t) = IF n = 0 THEN t[1] ELSE FlattenSeq(s) \o t[n + 1]
      BY <2>2, FlattenLonger
    <3>2. n = 0 => t[1] = t[n + 1]
      OBVIOUS
    <3> QED BY <3>1, <3>2 DEF last
  <2>13. n = 0 => FlattenSeq(s) = <<>>
    BY <2>2, FlattenEmpty
  <2>14. FlattenSeq(t) = FlattenSeq(s) \o last
    BY <2>1, <2>12, <2>13
  <2>15. FlattenSeq(t) \in Seq(EventRecords) /\ Len(FlattenSeq(t)) = Len(FlattenSeq(s)) + Len(last)
    BY <2>1, <2>10, <2>14, RangeOfConcat
  <2>16. IsFiniteSet(V) /\ Cardinality(V) = Cardinality(W) + Cardinality(Range(last))
    <3>1. Cardinality(W \cap Range(last)) = 0
      BY <2>8, FS_EmptySet
    <3>2. Cardinality(W) \in Nat /\ Cardinality(Range(last)) \in Nat
      BY <2>10, <2>11, FS_CardinalityType
    <3> DEFINE R == Range(last)
    <3>3. /\ IsFiniteSet(W \cup R)
          /\ Cardinality(W \cup R) = Cardinality(W) + Cardinality(R) - Cardinality(W \cap R)
      <4>1. IsFiniteSet(W) /\ IsFiniteSet(R)
        BY <2>10, <2>11
      <4> QED BY ONLY <4>1, FS_Union
    <3> QED BY <2>8, <3>1, <3>2, <3>3
  <2> QED BY <2>10, <2>11, <2>15, <2>16
<1> HIDE DEF S
<1>3. Nat \subseteq S
  BY <1>1, <1>2, NatSets
<1>4. files \in Seq(Seq(EventRecords)) /\ Len(files) \in Nat /\ U \subseteq EventRecords
  <2>1. \A x \in U : x \in EventRecords
    BY FilesAre
  <2> QED BY <2>1, FilesAre DEF Holds
<1>5. Len(files) \in S
  BY <1>3, <1>4
<1> HIDE DEF Counted
<1>6. Counted(files, U)
  BY <1>4, <1>5 DEF S
<1> QED BY <1>6 DEF Counted

\* What is left of the files when they have been read up to some places.
NextLive(files, at) == {f \in DOMAIN files : at[f] <= Len(files[f])}

\* nextReader returns the file whose record is the earliest of those that come next.
LEMMA NextReaderIs ==
  ASSUME NEW files, NEW U, Holds(files, U), Distinct(U),
         NEW at, \A f \in DOMAIN files : at[f] \in Nat /\ at[f] >= 1,
         NextLive(files, at) # {}
  PROVE  LET next == Sort!NextReader(files, at)
         IN /\ next \in NextLive(files, at)
            /\ \A g \in NextLive(files, at) \ {next} :
                  Earlier(files[next][at[next]], files[g][at[g]])
<1> DEFINE live == NextLive(files, at)
<1> DEFINE current(f) == files[f][at[f]]
<1> DEFINE Is(f) == \A g \in live \ {f} : /\ ~Earlier(current(g), current(f))
                                          /\ g < f => Earlier(current(f), current(g))
<1>1. \A f \in live : f \in DOMAIN files /\ current(f) \in Range(files[f]) /\ current(f) \in U
                      /\ current(f) \in EventRecords
  <2>1. \A f \in live : f \in DOMAIN files /\ at[f] \in DOMAIN files[f]
    BY FilesAre DEF NextLive
  <2> QED BY <2>1, FilesAre DEF Range
<1>2. \A f, g \in live : f # g => current(f) # current(g)
  BY <1>1 DEF Holds
<1> DEFINE C == {current(f) : f \in live}
<1>3. C # {} /\ Distinct(C)
  BY <1>1 DEF Distinct
<1>4. PICK m \in C : \A x \in C : x # m => Earlier(m, x)
  <2> HIDE DEF C
  <2> QED BY <1>3, EarliestExists
<1>5. PICK f \in live : m = current(f)
  BY <1>4
<1>6. Is(f)
  <2>1. ASSUME NEW g \in live \ {f} PROVE Earlier(current(f), current(g))
    BY <1>2, <1>4, <1>5
  <2> QED BY <1>1, <2>1, EarlierOrders
<1> DEFINE next == CHOOSE h \in live : Is(h)
<1>7. next \in live /\ Is(next)
  BY <1>6
<1>8. Sort!NextReader(files, at) = next
  BY DEF Sort!NextReader, NextLive
<1> HIDE DEF next
<1>9. \A g \in live \ {next} : Earlier(current(next), current(g))
  <2> SUFFICES ASSUME NEW g \in live \ {next} PROVE Earlier(current(next), current(g))
    OBVIOUS
  <2>1. ~Earlier(current(g), current(next))
    BY <1>7
  <2>2. current(g) # current(next)
    BY <1>2, <1>7
  <2> QED BY <1>1, <1>7, <2>1, <2>2, OneIsEarlier
<1> QED BY <1>7, <1>8, <1>9

\* What Merge defines recursively for the first n records.
Takes(t, files, n) ==
    t = [k \in 0 .. n |-> IF k = 0 THEN Sort!Opened(files) ELSE Sort!Take(files, t[k - 1])]

\* What such a function returns at the start and after every record.
LEMMA TakesAt ==
  ASSUME NEW t, NEW files, NEW n \in Nat, Takes(t, files, n), NEW k \in 0 .. n
  PROVE  t[k] = IF k = 0 THEN Sort!Opened(files) ELSE Sort!Take(files, t[k - 1])
<1> DEFINE f == [j \in 0 .. n |-> IF j = 0 THEN Sort!Opened(files) ELSE Sort!Take(files, t[j - 1])]
<1>1. f[k] = IF k = 0 THEN Sort!Opened(files) ELSE Sort!Take(files, t[k - 1])
  OBVIOUS
<1>2. t = f
  BY Zenon DEF Takes
<1> HIDE DEF f
<1> QED BY <1>1, <1>2

\* There is such a function.
LEMMA TakesExists ==
  ASSUME NEW files, NEW n \in Nat
  PROVE  \E t : Takes(t, files, n)
<1> DEFINE S == {k \in Nat : \E t : Takes(t, files, k)}
<1>1. 0 \in S
  <2> DEFINE t == [k \in 0 .. 0 |-> Sort!Opened(files)]
  <2>1. \A k \in 0 .. 0 : t[k] = IF k = 0 THEN Sort!Opened(files) ELSE Sort!Take(files, t[k - 1])
    OBVIOUS
  <2>2. t = [k \in 0 .. 0 |-> t[k]]
    OBVIOUS
  <2> HIDE DEF t
  <2>3. Takes(t, files, 0)
    BY <2>1, <2>2 DEF Takes
  <2> QED BY <2>3
<1>2. ASSUME NEW k \in Nat, k \in S PROVE k + 1 \in S
  <2>1. PICK t : Takes(t, files, k)
    BY <1>2
  <2> DEFINE h == [j \in 0 .. k + 1 |-> IF j = k + 1 THEN Sort!Take(files, t[k]) ELSE t[j]]
  <2>2. \A j \in 0 .. k : t[j] = IF j = 0 THEN Sort!Opened(files) ELSE Sort!Take(files, t[j - 1])
    BY <2>1, TakesAt
  <2>3. \A j \in 0 .. k + 1 :
           h[j] = IF j = 0 THEN Sort!Opened(files) ELSE Sort!Take(files, h[j - 1])
    <3>1. ASSUME NEW j \in 0 .. k
          PROVE  h[j] = IF j = 0 THEN Sort!Opened(files) ELSE Sort!Take(files, h[j - 1])
      <4>1. h[j] = t[j] /\ (j # 0 => h[j - 1] = t[j - 1])
        OBVIOUS
      <4> QED BY <2>2, <4>1
    <3>2. h[k + 1] = Sort!Take(files, h[k]) /\ k + 1 # 0 /\ k + 1 - 1 = k
      OBVIOUS
    <3> HIDE DEF h
    <3>3. \A j \in 0 .. k + 1 : j \in 0 .. k \/ j = k + 1
      OBVIOUS
    <3> QED BY <3>1, <3>2, <3>3
  <2>4. h = [j \in 0 .. k + 1 |-> h[j]]
    OBVIOUS
  <2> HIDE DEF h
  <2>5. Takes(h, files, k + 1)
    BY <2>3, <2>4 DEF Takes
  <2> QED BY <2>5
<1> HIDE DEF S
<1>3. n \in S
  BY <1>1, <1>2, NatSets
<1> QED BY <1>3 DEF S

\* LogSort's instance has the operators of the libraries once more.
LEMMA SortUses ==
  ASSUME NEW S, NEW T
  PROVE  /\ Sort!FlattenSeq(S) = FlattenSeq(S)
         /\ Sort!Min(S) = Min(S)
         /\ Sort!Bijection(S, T) = Bijection(S, T)
<1>1. Sort!FlattenSeq(S) = FlattenSeq(S)
  BY DEF Sort!FlattenSeq, FlattenSeq
<1>2. Sort!Min(S) = Min(S)
  BY DEF Sort!Min, Min
<1>3. Sort!Bijection(S, T) = Bijection(S, T)
  BY DEF Sort!Bijection, Bijection, Sort!Injection, Injection, Sort!Surjection, Surjection,
         Sort!IsInjective, IsInjective
<1> QED BY <1>1, <1>2, <1>3

\* Merge is the last value of the function that takes all records.
LEMMA MergeTakes ==
  ASSUME NEW files, NEW n \in Nat, n = Len(FlattenSeq(files))
  PROVE  \E t : Takes(t, files, n) /\ Sort!Merge(files) = t[n].out
<1> DEFINE t == CHOOSE u : u = [k \in 0 .. Len(Sort!FlattenSeq(files)) |->
                    IF k = 0 THEN Sort!Opened(files) ELSE Sort!Take(files, u[k - 1])]
<1>1. Sort!Merge(files) = t[Len(Sort!FlattenSeq(files))].out
  BY DEF Sort!Merge
<1>2. Len(Sort!FlattenSeq(files)) = n
  BY SortUses
<1>3. Takes(t, files, n)
  <2>1. Takes(t, files, Len(Sort!FlattenSeq(files)))
    <3>1. Len(Sort!FlattenSeq(files)) \in Nat
      BY <1>2
    <3>2. \E u : Takes(u, files, Len(Sort!FlattenSeq(files)))
      BY <3>1, TakesExists
    <3>3. \E u : u = [k \in 0 .. Len(Sort!FlattenSeq(files)) |->
                    IF k = 0 THEN Sort!Opened(files) ELSE Sort!Take(files, u[k - 1])]
      BY Zenon, <3>2 DEF Takes
    <3> QED BY Zenon, <3>3 DEF Takes
  <2> HIDE DEF t
  <2> QED BY <1>2, <2>1
<1> QED BY <1>1, <1>2, <1>3

\* A merge has taken the n earliest records, in their order.
Merged(files, U, state, n) ==
    /\ state.at \in [DOMAIN files -> Nat]
    /\ \A f \in DOMAIN files : 1 <= state.at[f]
    /\ state.out \in Seq(EventRecords) /\ Len(state.out) = n
    /\ Ascending(state.out)
    /\ Range(state.out) \subseteq U
    /\ \A f \in DOMAIN files : \A i \in DOMAIN files[f] :
          IF i < state.at[f] THEN files[f][i] \in Range(state.out)
          ELSE \A x \in Range(state.out) : Earlier(x, files[f][i])

\* A record that is later than all before comes after them.
LEMMA AscendingAppend ==
  ASSUME NEW s \in Seq(EventRecords), Ascending(s), NEW m \in EventRecords,
         \A x \in Range(s) : Earlier(x, m)
  PROVE  /\ Append(s, m) \in Seq(EventRecords) /\ Len(Append(s, m)) = Len(s) + 1
         /\ Ascending(Append(s, m))
         /\ Range(Append(s, m)) = Range(s) \cup {m}
<1> DEFINE t == Append(s, m)
<1>1. /\ t \in Seq(EventRecords) /\ Len(t) = Len(s) + 1 /\ Len(s) \in Nat
      /\ DOMAIN s = 1 .. Len(s) /\ DOMAIN t = 1 .. Len(s) + 1
      /\ \A i \in 1 .. Len(s) : t[i] = s[i]
      /\ t[Len(s) + 1] = m
  OBVIOUS
<1> HIDE DEF t
<1>2. 1 .. Len(s) + 1 = (1 .. Len(s)) \cup {Len(s) + 1}
  BY <1>1
<1>3. Range(t) = Range(s) \cup {m}
  BY <1>1, <1>2 DEF Range
<1>4. Ascending(t)
  <2> SUFFICES ASSUME NEW i \in DOMAIN t, NEW j \in DOMAIN t, i < j PROVE Earlier(t[i], t[j])
    BY DEF Ascending
  <2>1. i \in DOMAIN s /\ t[i] = s[i] /\ s[i] \in Range(s)
    BY <1>1 DEF Range
  <2>2. CASE j \in DOMAIN s
    BY <1>1, <2>1, <2>2 DEF Ascending
  <2>3. CASE j = Len(s) + 1
    BY <1>1, <2>1, <2>3
  <2> QED BY <1>1, <2>2, <2>3
<1> QED BY <1>1, <1>3, <1>4 DEF t

\* The next record a merge takes is the earliest of those that are left.
LEMMA TakeKeeps ==
  ASSUME NEW files, NEW U, Holds(files, U), Distinct(U), NEW state, NEW n \in Nat,
         Merged(files, U, state, n), n < Cardinality(U)
  PROVE  Merged(files, U, Sort!Take(files, state), n + 1)
<1> DEFINE at == state.at
<1> DEFINE next == Sort!NextReader(files, at)
<1> DEFINE m == files[next][at[next]]
<1> DEFINE then == Sort!Take(files, state)
<1>1. /\ at \in [DOMAIN files -> Nat] /\ \A f \in DOMAIN files : at[f] \in Nat /\ at[f] >= 1
      /\ state.out \in Seq(EventRecords) /\ Len(state.out) = n
      /\ Ascending(state.out) /\ Range(state.out) \subseteq U
      /\ \A f \in DOMAIN files : \A i \in DOMAIN files[f] :
            /\ i < at[f] => files[f][i] \in Range(state.out)
            /\ ~(i < at[f]) => \A x \in Range(state.out) : Earlier(x, files[f][i])
  BY DEF Merged
<1>2. /\ \A f \in DOMAIN files :
            /\ files[f] \in Seq(EventRecords) /\ Len(files[f]) \in Nat
            /\ DOMAIN files[f] = 1 .. Len(files[f])
            /\ \A i \in DOMAIN files[f] : files[f][i] \in U /\ files[f][i] \in EventRecords
      /\ \A x \in U : \E f \in DOMAIN files : \E i \in DOMAIN files[f] : x = files[f][i]
  BY FilesAre
<1>3. NextLive(files, at) # {}
  <2> SUFFICES ASSUME NextLive(files, at) = {} PROVE FALSE
    OBVIOUS
  <2>1. \A f \in DOMAIN files : \A i \in DOMAIN files[f] : i < at[f]
    BY <1>1, <1>2 DEF NextLive
  <2>2. U \subseteq Range(state.out)
    BY <1>1, <1>2, <2>1
  <2>3. U = Range(state.out) /\ Cardinality(Range(state.out)) = n
    BY <1>1, <2>2, ListIsFinite
  <2> QED BY <2>3
<1>4. /\ next \in NextLive(files, at)
      /\ \A g \in NextLive(files, at) \ {next} : Earlier(m, files[g][at[g]])
  BY <1>1, <1>3, NextReaderIs
<1> HIDE DEF next
<1>5. next \in DOMAIN files /\ at[next] \in DOMAIN files[next] /\ at[next] \in Nat
      /\ m \in U /\ m \in EventRecords
  BY <1>1, <1>2, <1>4 DEF NextLive
<1>6. \A x \in Range(state.out) : Earlier(x, m)
  BY <1>1, <1>5
<1>7. /\ then.at = [at EXCEPT ![next] = at[next] + 1]
      /\ then.out = Append(state.out, m)
  BY DEF Sort!Take, next
<1> HIDE DEF then, m
<1>8. /\ then.out \in Seq(EventRecords) /\ Len(then.out) = n + 1
      /\ Ascending(then.out) /\ Range(then.out) = Range(state.out) \cup {m}
  BY <1>1, <1>5, <1>6, <1>7, AscendingAppend
<1>9. /\ then.at \in [DOMAIN files -> Nat]
      /\ then.at[next] = at[next] + 1
      /\ \A f \in DOMAIN files \ {next} : then.at[f] = at[f]
  BY <1>1, <1>5, <1>7
<1>10. ASSUME NEW f \in DOMAIN files, NEW i \in DOMAIN files[f], ~(i < at[f]),
              f # next \/ i # at[next]
       PROVE  Earlier(m, files[f][i])
  <2>1. i \in Nat /\ at[f] \in Nat /\ at[f] <= i /\ at[f] \in DOMAIN files[f]
    BY <1>1, <1>2, <1>10
  <2>2. Ascending(files[f])
    BY DEF Holds
  <2>3. at[f] = i \/ Earlier(files[f][at[f]], files[f][i])
    BY <2>1, <2>2 DEF Ascending
  <2>4. CASE f = next
    BY <1>10, <2>3, <2>4 DEF m
  <2>5. CASE f # next
    <3>1. f \in NextLive(files, at)
      BY <1>2, <2>1 DEF NextLive
    <3>2. Earlier(m, files[f][at[f]])
      BY <1>4, <2>5, <3>1
    <3>3. files[f][at[f]] \in EventRecords /\ files[f][i] \in EventRecords
      BY <1>2, <2>1
    <3> QED BY <1>5, <2>3, <3>2, <3>3, EarlierOrders
  <2> QED BY <2>4, <2>5
<1>11. ASSUME NEW f \in DOMAIN files, NEW i \in DOMAIN files[f]
       PROVE  IF i < then.at[f] THEN files[f][i] \in Range(then.out)
              ELSE \A x \in Range(then.out) : Earlier(x, files[f][i])
  <2>1. i \in Nat /\ at[f] \in Nat
    BY <1>1, <1>2
  <2>2. CASE f = next /\ i = at[next]
    <3>1. i < then.at[f] /\ files[f][i] = m
      BY <1>9, <2>1, <2>2 DEF m
    <3> QED BY <1>8, <3>1
  <2>3. CASE f # next \/ i # at[next]
    <3>1. i < then.at[f] <=> i < at[f]
      BY <1>5, <1>9, <2>1, <2>3
    <3> QED BY <1>1, <1>8, <1>10, <2>3, <3>1
  <2> QED BY <2>2, <2>3
<1>12. ASSUME NEW f \in DOMAIN files PROVE 1 <= then.at[f]
  <2>1. at[f] \in Nat /\ 1 <= at[f]
    BY <1>1
  <2>2. then.at[f] = at[f] \/ then.at[f] = at[f] + 1
    BY <1>9
  <2> QED BY <2>1, <2>2
<1>13. Range(then.out) \subseteq U
  BY <1>1, <1>5, <1>8
<1>14. Merged(files, U, then, n + 1)
  BY <1>8, <1>9, <1>11, <1>12, <1>13 DEF Merged
<1> QED BY <1>14 DEF then

\* The merge of files in order lists their records.
LEMMA MergeLists ==
  ASSUME NEW files, NEW U, Holds(files, U), Distinct(U)
  PROVE  Lists(Sort!Merge(files), U)
<1> DEFINE n == Cardinality(U)
<1>1. n = Len(FlattenSeq(files)) /\ IsFiniteSet(U) /\ n \in Nat
  BY FilesCount, FS_CardinalityType
<1> HIDE DEF n
<1>2. PICK t : Takes(t, files, n) /\ Sort!Merge(files) = t[n].out
  BY <1>1, MergeTakes
<1> DEFINE S == {k \in Nat : k <= n => Merged(files, U, t[k], k)}
<1>3. 0 \in S
  <2> DEFINE ones == [f \in DOMAIN files |-> 1]
  <2>1. t[0] = Sort!Opened(files)
    BY <1>1, <1>2, TakesAt
  <2>2. t[0].at = ones /\ t[0].out = <<>>
    BY <2>1 DEF Sort!Opened
  <2>3. ones \in [DOMAIN files -> Nat] /\ \A f \in DOMAIN files : ones[f] = 1
    OBVIOUS
  <2>4. <<>> \in Seq(EventRecords) /\ Len(<<>>) = 0 /\ Ascending(<<>>) /\ Range(<<>>) = {}
    BY DEF Ascending, Range
  <2>5. \A f \in DOMAIN files : \A i \in DOMAIN files[f] : ~(i < 1)
    BY FilesAre
  <2> HIDE DEF ones
  <2>6. Merged(files, U, t[0], 0)
    BY <2>2, <2>3, <2>4, <2>5 DEF Merged
  <2> QED BY <2>6
<1>4. ASSUME NEW k \in Nat, k \in S PROVE k + 1 \in S
  <2> SUFFICES ASSUME k + 1 <= n PROVE Merged(files, U, t[k + 1], k + 1)
    OBVIOUS
  <2>1. k < n /\ k + 1 \in 0 .. n /\ k + 1 # 0 /\ k + 1 - 1 = k
    BY <1>1
  <2>2. t[k + 1] = Sort!Take(files, t[k])
    BY <1>1, <1>2, <2>1, TakesAt
  <2>3. Merged(files, U, t[k], k)
    BY <1>4, <2>1, <1>1
  <2>4. k < Cardinality(U)
    BY <2>1 DEF n
  <2>5. Merged(files, U, Sort!Take(files, t[k]), k + 1)
    BY <2>3, <2>4, TakeKeeps
  <2> QED BY <2>2, <2>5
<1> HIDE DEF S
<1>5. n \in S
  BY <1>1, <1>3, <1>4, NatSets
<1>6. Merged(files, U, t[n], n)
  BY <1>1, <1>5 DEF S
<1> DEFINE out == Sort!Merge(files)
<1>7. out \in Seq(EventRecords) /\ Len(out) = n /\ Ascending(out) /\ Range(out) \subseteq U
  BY <1>2, <1>6 DEF Merged
<1> HIDE DEF out
<1>8. Range(out) = U
  <2>1. Cardinality(Range(out)) = n
    BY <1>7, ListIsFinite
  <2>2. Range(out) \in SUBSET U /\ Cardinality(U) = Cardinality(Range(out))
    BY <1>7, <2>1 DEF n
  <2> QED BY ONLY <1>1, <2>2, FS_Subset
<1> QED BY <1>7, <1>8 DEF Lists, out

\* The least of two numbers.
LEMMA MinOfTwo ==
  ASSUME NEW a \in Nat, NEW b \in Nat
  PROVE  Sort!Min({a, b}) = IF a <= b THEN a ELSE b
  BY LeastOf, SortUses

\* How many pieces of a size make up a length.
LEMMA Divides ==
  ASSUME NEW n \in Nat, NEW d \in Nat, d > 0
  PROVE  n \div d \in Nat /\ d * (n \div d) <= n /\ n < d * (n \div d) + d
  OBVIOUS

\* Pieces of a size do not overlap.
LEMMA Apart ==
  ASSUME NEW p \in Nat, NEW q \in Nat, NEW d \in Nat, p < q
  PROVE  p * d <= (q - 1) * d
<1> DEFINE k == q - 1 - p
<1>1. k \in Nat /\ q - 1 = p + k
  OBVIOUS
<1> HIDE DEF k
<1>2. (p + k) * d = p * d + k * d /\ k * d \in Nat /\ p * d \in Nat
  BY <1>1
<1> QED BY <1>1, <1>2

\* Pieces of a size that have all of a sequence and no place of it twice.
Pieced(pieces, S, s, size) ==
    /\ pieces \in Seq(Seq(S))
    /\ \A p \in DOMAIN pieces : p \in Nat
    /\ \A p \in DOMAIN pieces : \A i \in DOMAIN pieces[p] :
          /\ i \in 1 .. size
          /\ (p - 1) * size + i \in DOMAIN s
          /\ pieces[p][i] = s[(p - 1) * size + i]
    /\ \A k \in DOMAIN s : \E p \in DOMAIN pieces : \E i \in DOMAIN pieces[p] :
          k = (p - 1) * size + i
    /\ \A p, q \in DOMAIN pieces : \A i, j \in 1 .. size :
          (p - 1) * size + i = (q - 1) * size + j => p = q /\ i = j

\* So Pieces cuts a sequence.
LEMMA PiecesAre ==
  ASSUME NEW S, NEW s \in Seq(S), NEW size \in Nat, size > 0
  PROVE  Pieced(Sort!Pieces(s, size), S, s, size)
<1> DEFINE L == Len(s)
<1> DEFINE count == (L + size - 1) \div size
<1> DEFINE pieces == Sort!Pieces(s, size)
<1>1. L \in Nat /\ DOMAIN s = 1 .. L
  OBVIOUS
<1>2. L + size - 1 \in Nat
  BY <1>1
<1>3. count \in Nat /\ size * count <= L + size - 1 /\ L + size - 1 < size * count + size
  BY <1>2, Divides
<1> HIDE DEF count
<1> DEFINE upto(p) == IF p * size <= L THEN p * size ELSE L
<1>4. pieces = [p \in 1 .. count |-> SubSeq(s, (p - 1) * size + 1, Sort!Min({p * size, L}))]
  BY DEF Sort!Pieces, count
<1>5. ASSUME NEW p \in 1 .. count
      PROVE  /\ p \in Nat /\ (p - 1) * size \in Nat /\ p * size = (p - 1) * size + size
             /\ (p - 1) * size < L
             /\ pieces[p] \in Seq(S)
             /\ Len(pieces[p]) = upto(p) - (p - 1) * size
             /\ upto(p) \in Nat
             /\ \A i \in 1 .. upto(p) - (p - 1) * size : pieces[p][i] = s[(p - 1) * size + i]
  <2>1. p \in Nat /\ p - 1 \in Nat /\ count \in Nat
    BY <1>3
  <2>2. (p - 1) * size \in Nat /\ p * size = (p - 1) * size + size /\ p * size \in Nat
    BY <2>1
  <2>3. p * size <= count * size /\ count * size = size * count
    <3> DEFINE k == count - p
    <3>1. k \in Nat /\ count = p + k
      BY <1>3
    <3> HIDE DEF k
    <3>2. (p + k) * size = p * size + k * size /\ k * size \in Nat
      BY <2>1, <3>1
    <3>3. count * size = size * count
      BY <1>3
    <3> QED BY <2>2, <3>1, <3>2, <3>3
  <2> DEFINE a == (p - 1) * size
  <2> DEFINE b == p * size
  <2>4. a \in Nat /\ b \in Nat /\ b = a + size /\ a < L
    <3> DEFINE c == size * count
    <3>1. b <= c /\ c <= L + size - 1
      BY <1>3, <2>3
    <3>2. a \in Nat /\ b \in Nat /\ b = a + size
      BY <2>2
    <3>3. c \in Nat
      BY <1>3
    <3> HIDE DEF a, b, c
    <3> QED BY <1>1, <3>1, <3>2, <3>3
  <2> DEFINE u == IF b <= L THEN b ELSE L
  <2>5. pieces[p] = SubSeq(s, a + 1, u)
    <3>1. Sort!Min({b, L}) = u
      <4> HIDE DEF b, L
      <4> QED BY <1>1, <2>4, MinOfTwo
    <3> HIDE DEF pieces
    <3> QED BY <1>4, <3>1
  <2> HIDE DEF pieces
  <2>6. u \in Nat /\ a <= u /\ u <= Len(s)
    <3> HIDE DEF a, b
    <3> QED BY <1>1, <2>4
  <2>7. /\ pieces[p] \in Seq(S) /\ Len(pieces[p]) = u - a
        /\ \A i \in 1 .. u - a : pieces[p][i] = s[a + i]
    <3> HIDE DEF a, u
    <3> QED BY <2>4, <2>5, <2>6, Slice
  <2> QED BY <2>1, <2>2, <2>4, <2>6, <2>7
<1> HIDE DEF pieces
<1>6. DOMAIN pieces = 1 .. count
  BY <1>4
<1>7. pieces \in Seq(Seq(S))
  <2>1. pieces = [p \in 1 .. count |-> pieces[p]] /\ \A p \in 1 .. count : pieces[p] \in Seq(S)
    BY <1>4, <1>5
  <2>2. pieces \in [1 .. count -> Seq(S)] /\ count \in Nat
    BY <1>3, <2>1
  <2> QED BY ONLY <2>2
<1>8. ASSUME NEW p \in DOMAIN pieces, NEW i \in DOMAIN pieces[p]
      PROVE  /\ i \in 1 .. size /\ (p - 1) * size + i \in DOMAIN s
             /\ pieces[p][i] = s[(p - 1) * size + i]
  <2> DEFINE a == (p - 1) * size
  <2> DEFINE u == upto(p)
  <2>1. /\ a \in Nat /\ p * size = a + size /\ a < L /\ Len(pieces[p]) = u - a /\ u \in Nat
        /\ pieces[p] \in Seq(S) /\ \A k \in 1 .. u - a : pieces[p][k] = s[a + k]
    BY <1>5, <1>6
  <2>2. u <= L /\ u <= a + size
    <3>1. (a + size <= L => u = a + size) /\ (~(a + size <= L) => u = L)
      BY <2>1
    <3> HIDE DEF a, u, L
    <3> QED BY <1>1, <2>1, <3>1
  <2>3. i \in 1 .. u - a
    BY <2>1
  <2> HIDE DEF a, u
  <2>4. i \in 1 .. size /\ a + i \in 1 .. L /\ pieces[p][i] = s[a + i]
    BY <1>1, <2>1, <2>2, <2>3
  <2> QED BY <1>1, <2>4 DEF a
<1>9. ASSUME NEW k \in DOMAIN s
      PROVE  \E p \in DOMAIN pieces : \E i \in DOMAIN pieces[p] : k = (p - 1) * size + i
  <2> DEFINE m == (k - 1) \div size
  <2>1. k - 1 \in Nat /\ k <= L /\ k \in Nat
    BY <1>1
  <2>2. m \in Nat /\ size * m <= k - 1 /\ k - 1 < size * m + size
    BY <2>1, Divides
  <2> HIDE DEF m
  <2> DEFINE p == m + 1
  <2>3. p - 1 = m /\ p \in Nat /\ m * size = size * m /\ size * m \in Nat
    BY <2>2
  <2>4. m < count
    <3> SUFFICES ASSUME count <= m PROVE FALSE
      BY <1>3, <2>2
    <3> DEFINE d == m - count
    <3>1. d \in Nat /\ m = count + d
      BY <1>3, <2>2
    <3> HIDE DEF d
    <3>2. size * (count + d) = size * count + size * d /\ size * d \in Nat /\ size * count \in Nat
      BY <1>3, <3>1
    <3> DEFINE c == size * count
    <3>3. c <= size * m /\ c \in Nat
      BY <3>1, <3>2
    <3>4. L + size - 1 < c + size
      BY <1>3
    <3> HIDE DEF c
    <3> QED BY <1>1, <2>1, <2>2, <2>3, <3>3, <3>4
  <2>5. p \in 1 .. count
    BY <1>3, <2>2, <2>4
  <2> DEFINE a == (p - 1) * size
  <2> DEFINE u == upto(p)
  <2>6. /\ a \in Nat /\ p * size = a + size /\ Len(pieces[p]) = u - a /\ u \in Nat
        /\ pieces[p] \in Seq(S)
    BY <1>5, <2>5
  <2>7. (a + size <= L => u = a + size) /\ (~(a + size <= L) => u = L)
    BY <2>6
  <2>8. a = size * m
    BY <2>3
  <2> DEFINE i == k - a
  <2>9. i \in 1 .. u - a /\ k = a + i
    <3>1. a <= k - 1 /\ k - 1 < a + size
      BY <2>2, <2>8
    <3> HIDE DEF a, u, p, L
    <3>2. k <= u
      BY <1>1, <2>1, <2>6, <2>7, <3>1
    <3> QED BY <2>1, <2>6, <3>1, <3>2
  <2>10. i \in DOMAIN pieces[p]
    <3> HIDE DEF i, a, u, p
    <3> QED BY <2>6, <2>9
  <2> HIDE DEF i, p
  <2> QED BY <1>6, <2>5, <2>9, <2>10
<1>10. ASSUME NEW p \in DOMAIN pieces, NEW q \in DOMAIN pieces,
              NEW i \in 1 .. size, NEW j \in 1 .. size,
              (p - 1) * size + i = (q - 1) * size + j
       PROVE  p = q /\ i = j
  <2> DEFINE a == (p - 1) * size
  <2> DEFINE b == (q - 1) * size
  <2>1. p \in Nat /\ q \in Nat /\ a \in Nat /\ b \in Nat
        /\ p * size = a + size /\ q * size = b + size
    BY <1>5, <1>6
  <2>0. i \in Nat /\ j \in Nat /\ 1 <= i /\ i <= size /\ 1 <= j /\ j <= size /\ a + i = b + j
    BY <1>10
  <2>2. ~(p < q)
    <3> SUFFICES ASSUME p < q PROVE FALSE
      OBVIOUS
    <3>1. a + size <= b
      BY <2>1, Apart
    <3> HIDE DEF a, b
    <3> QED BY <2>1, <2>0, <3>1
  <2>3. ~(q < p)
    <3> SUFFICES ASSUME q < p PROVE FALSE
      OBVIOUS
    <3>1. b + size <= a
      BY <2>1, Apart
    <3> HIDE DEF a, b
    <3> QED BY <2>1, <2>0, <3>1
  <2>4. p = q
    BY <2>1, <2>2, <2>3
  <2> HIDE DEF a, b
  <2>5. a + i = b + j /\ a = b
    BY <1>10, <2>4 DEF a, b
  <2> QED BY <2>1, <2>4, <2>5
<1>11. \A p \in DOMAIN pieces : p \in Nat
  BY <1>3, <1>6
<1> QED BY <1>7, <1>8, <1>9, <1>10, <1>11 DEF pieces, Pieced

-----------------------------------------------------------------------------
\* Any records of one evidence file can be listed: the earliest, then the others.
LEMMA ListExists ==
  ASSUME NEW U, Distinct(U), IsFiniteSet(U)
  PROVE  \E t : Lists(t, U)
<1> DEFINE S == {n \in Nat : \A V \in SUBSET EventRecords :
                     Distinct(V) /\ IsFiniteSet(V) /\ Cardinality(V) = n => \E t : Lists(t, V)}
<1>1. 0 \in S
  <2> SUFFICES ASSUME NEW V \in SUBSET EventRecords, IsFiniteSet(V), Cardinality(V) = 0
               PROVE  \E t : Lists(t, V)
    OBVIOUS
  <2>1. V = {}
    BY FS_EmptySet
  <2>2. <<>> \in Seq(EventRecords) /\ Ascending(<<>>) /\ Range(<<>>) = {}
    BY DEF Ascending, Range
  <2>3. Lists(<<>>, V)
    BY <2>1, <2>2 DEF Lists
  <2> QED BY <2>3
<1>2. ASSUME NEW n \in Nat, n \in S PROVE n + 1 \in S
  <2> SUFFICES ASSUME NEW V \in SUBSET EventRecords, Distinct(V), IsFiniteSet(V),
                      Cardinality(V) = n + 1
               PROVE  \E t : Lists(t, V)
    OBVIOUS
  <2>1. V # {}
    BY FS_EmptySet
  <2>2. PICK m \in V : \A x \in V : x # m => Earlier(m, x)
    BY <2>1, EarliestExists
  <2> DEFINE W == V \ {m}
  <2>3. IsFiniteSet(W) /\ Cardinality(W) = n
    <3>1. IsFiniteSet(V) /\ m \in V
      BY <2>2
    <3>2. /\ IsFiniteSet(W)
          /\ Cardinality(W) = IF m \in V THEN Cardinality(V) - 1 ELSE Cardinality(V)
      BY ONLY <3>1, FS_RemoveElement, Zenon
    <3> HIDE DEF W
    <3> QED BY <3>1, <3>2
  <2>4. W \in SUBSET EventRecords /\ Distinct(W)
    BY DEF Distinct
  <2>5. PICK t : Lists(t, W)
    BY <1>2, <2>3, <2>4
  <2> DEFINE first == <<m>>
  <2> DEFINE u == first \o t
  <2>6. first \in Seq(EventRecords) /\ Len(first) = 1 /\ first[1] = m /\ Range(first) = {m}
    BY DEF Range
  <2>7. t \in Seq(EventRecords) /\ Ascending(t) /\ Range(t) = W
    BY <2>5 DEF Lists
  <2> HIDE DEF first
  <2>8. /\ u \in Seq(EventRecords) /\ Len(u) = 1 + Len(t) /\ Len(t) \in Nat
        /\ \A i \in 1 .. 1 : u[i] = first[i]
        /\ \A i \in 1 .. Len(t) : u[1 + i] = t[i]
        /\ Range(u) = V
    <3>1. /\ u \in Seq(EventRecords) /\ Len(u) = Len(first) + Len(t) /\ Len(t) \in Nat
          /\ \A i \in 1 .. Len(first) : u[i] = first[i]
          /\ \A i \in 1 .. Len(t) : u[Len(first) + i] = t[i]
          /\ Range(u) = Range(first) \cup Range(t)
      <4>1. first \in Seq(EventRecords) /\ t \in Seq(EventRecords)
        BY <2>6, <2>7
      <4> HIDE DEF W, S
      <4>2. /\ first \o t \in Seq(EventRecords) /\ Len(first \o t) = Len(first) + Len(t)
            /\ Len(first) \in Nat /\ Len(t) \in Nat
            /\ \A i \in 1 .. Len(first) : (first \o t)[i] = first[i]
            /\ \A i \in 1 .. Len(t) : (first \o t)[Len(first) + i] = t[i]
            /\ Range(first \o t) = Range(first) \cup Range(t)
        BY ONLY <4>1, RangeOfConcat
      <4> QED BY <4>2
    <3>2. {m} \cup W = V
      OBVIOUS
    <3> HIDE DEF u, W
    <3> QED BY <2>6, <2>7, <3>1, <3>2
  <2> HIDE DEF u
  <2>9. u[1] = m /\ \A i \in 2 .. Len(u) : i - 1 \in 1 .. Len(t) /\ u[i] = t[i - 1]
    <3>1. ASSUME NEW i \in 2 .. Len(u) PROVE i - 1 \in 1 .. Len(t) /\ u[i] = t[i - 1]
      <4>1. i - 1 \in 1 .. Len(t) /\ 1 + (i - 1) = i
        BY <2>8
      <4> QED BY <2>8, <4>1
    <3> QED BY <2>6, <2>8, <3>1
  <2>10. Ascending(u)
    <3> SUFFICES ASSUME NEW i \in DOMAIN u, NEW j \in DOMAIN u, i < j
                 PROVE  Earlier(u[i], u[j])
      BY DEF Ascending
    <3>1. DOMAIN u = 1 .. Len(u) /\ DOMAIN t = 1 .. Len(t) /\ Len(u) \in Nat
      BY <2>7, <2>8
    <3>2. j \in 2 .. Len(u)
      BY <3>1
    <3>3. CASE i = 1
      <4>1. u[j] \in W
        BY <2>7, <2>9, <3>1, <3>2 DEF Range
      <4> QED BY <2>2, <2>9, <3>3, <4>1
    <3>4. CASE i # 1
      <4>1. i \in 2 .. Len(u)
        BY <3>1, <3>4
      <4>2. i - 1 \in DOMAIN t /\ j - 1 \in DOMAIN t /\ i - 1 < j - 1
        BY <2>9, <3>1, <3>2, <4>1
      <4> QED BY <2>7, <2>9, <3>2, <4>1, <4>2 DEF Ascending
    <3> QED BY <3>3, <3>4
  <2>11. Lists(u, V)
    BY <2>8, <2>10 DEF Lists
  <2> QED BY <2>11
<1> HIDE DEF S
<1>3. Nat \subseteq S
  BY <1>1, <1>2, NatSets
<1>4. Cardinality(U) \in S /\ U \in SUBSET EventRecords
  BY <1>3, FS_CardinalityType DEF Distinct
<1> QED BY <1>4 DEF S

\* events.sort lists the records of a chunk.
LEMMA SortedLists ==
  ASSUME NEW s \in Seq(EventRecords), NoneTwice(s), Distinct(Range(s))
  PROVE  Lists(Sort!Sorted(s), Range(s))
<1> DEFINE D == DOMAIN s
<1> DEFINE Fits(p) == \A i, j \in D : i < j => ~Earlier(s[p[j]], s[p[i]])
<1>1. /\ D = 1 .. Len(s) /\ Len(s) \in Nat
      /\ IsFiniteSet(Range(s)) /\ Cardinality(Range(s)) = Len(s)
  BY NoneTwiceIsFinite
<1>2. PICK t : Lists(t, Range(s))
  BY <1>1, ListExists
<1>3. /\ t \in Seq(EventRecords) /\ Ascending(t) /\ Range(t) = Range(s)
      /\ NoneTwice(t) /\ Len(t) = Len(s) /\ DOMAIN t = D
  <2>1. t \in Seq(EventRecords) /\ Ascending(t) /\ Range(t) = Range(s)
    BY <1>2 DEF Lists
  <2>2. NoneTwice(t) /\ Len(t) = Len(s)
    BY <1>1, <2>1, ListIsFinite
  <2> QED BY <1>1, <2>1, <2>2
<1> DEFINE p == [i \in D |-> CHOOSE k \in D : s[k] = t[i]]
<1>4. \A i \in D : p[i] \in D /\ s[p[i]] = t[i]
  <2>1. \A i \in D : \E k \in D : s[k] = t[i]
    BY <1>3 DEF Range
  <2> QED BY <2>1
<1>5. p \in [D -> D]
  BY <1>4
<1> HIDE DEF p
<1>6. \A i, j \in D : p[i] = p[j] => i = j
  BY <1>3, <1>4 DEF NoneTwice
<1>7. \A k \in D : \E i \in D : p[i] = k
  <2> SUFFICES ASSUME NEW k \in D PROVE \E i \in D : p[i] = k
    OBVIOUS
  <2>1. PICK i \in D : t[i] = s[k]
    BY <1>3 DEF Range
  <2> QED BY <1>4, <2>1 DEF NoneTwice
<1>8. p \in Bijection(D, D)
  BY <1>5, <1>6, <1>7 DEF Bijection, Injection, Surjection, IsInjective
<1>9. Fits(p)
  <2> SUFFICES ASSUME NEW i \in D, NEW j \in D, i < j PROVE ~Earlier(s[p[j]], s[p[i]])
    OBVIOUS
  <2>1. Earlier(t[i], t[j]) /\ t[i] \in EventRecords /\ t[j] \in EventRecords
    BY <1>3 DEF Ascending
  <2> QED BY <1>4, <2>1, EarlierOrders
<1> DEFINE q == CHOOSE r \in Sort!Bijection(DOMAIN s, DOMAIN s) :
                    \A i, j \in DOMAIN s : i < j => ~Earlier(s[r[j]], s[r[i]])
<1>10. q \in Bijection(D, D) /\ Fits(q)
  <2>1. Sort!Bijection(D, D) = Bijection(D, D)
    BY SortUses
  <2> QED BY <1>8, <1>9, <2>1
<1>11. Sort!Sorted(s) = [i \in D |-> s[q[i]]]
  BY DEF Sort!Sorted
<1> HIDE DEF q
<1>12. /\ q \in [D -> D]
       /\ \A i, j \in D : q[i] = q[j] => i = j
       /\ \A k \in D : \E i \in D : q[i] = k
  BY <1>10 DEF Bijection, Injection, Surjection, IsInjective
<1> DEFINE u == Sort!Sorted(s)
<1>13. u \in Seq(EventRecords) /\ DOMAIN u = D /\ \A i \in D : u[i] = s[q[i]] /\ u[i] \in Range(s)
  <2>1. \A i \in D : s[q[i]] \in EventRecords /\ s[q[i]] \in Range(s)
    BY <1>12 DEF Range
  <2> QED BY <1>1, <1>11, <2>1
<1> HIDE DEF u
<1>14. Range(u) = Range(s)
  <2>1. \A i \in D : u[i] \in Range(s)
    BY <1>13
  <2>2. \A k \in D : \E i \in D : u[i] = s[k]
    BY <1>12, <1>13
  <2>3. Range(u) = {u[i] : i \in D} /\ Range(s) = {s[i] : i \in D}
    BY <1>13 DEF Range
  <2> QED BY <2>1, <2>2, <2>3
<1>15. Ascending(u)
  <2> SUFFICES ASSUME NEW i \in D, NEW j \in D, i < j PROVE Earlier(u[i], u[j])
    BY <1>13 DEF Ascending
  <2>1. q[i] # q[j]
    BY <1>1, <1>12
  <2>2. u[i] # u[j]
    BY <1>12, <1>13, <2>1 DEF NoneTwice
  <2>3. ~Earlier(u[j], u[i])
    BY <1>10, <1>13
  <2> QED BY <1>13, <2>2, <2>3, OneIsEarlier
<1> QED BY <1>13, <1>14, <1>15 DEF Lists, u

\* The sorted chunks hold the records.
LEMMA ChunksHold ==
  ASSUME NEW s \in Seq(EventRecords), NoneTwice(s), Distinct(Range(s))
  PROVE  Holds(Sort!SortedChunks(s), Range(s))
<1> DEFINE pieces == Sort!Pieces(s, SortChunk)
<1> DEFINE files == [c \in DOMAIN pieces |-> Sort!Sorted(pieces[c])]
<1> DEFINE Place(c, i) == (c - 1) * SortChunk + i
<1>1. /\ pieces \in Seq(Seq(EventRecords))
      /\ \A p \in DOMAIN pieces : \A i \in DOMAIN pieces[p] :
            /\ i \in 1 .. SortChunk
            /\ Place(p, i) \in DOMAIN s
            /\ pieces[p][i] = s[Place(p, i)]
      /\ \A k \in DOMAIN s : \E p \in DOMAIN pieces : \E i \in DOMAIN pieces[p] : k = Place(p, i)
      /\ \A p, q \in DOMAIN pieces : \A i, j \in 1 .. SortChunk :
            Place(p, i) = Place(q, j) => p = q /\ i = j
  <2>1. SortChunk \in Nat /\ SortChunk > 0 /\ s \in Seq(EventRecords)
    BY ReadsAssumption
  <2>2. Pieced(pieces, EventRecords, s, SortChunk)
    BY <2>1, PiecesAre
  <2> HIDE DEF files, pieces
  <2> QED BY <2>2 DEF Pieced
<1>2. Sort!SortedChunks(s) = files
  BY DEF Sort!SortedChunks
<1> HIDE DEF pieces, Place
<1>3. ASSUME NEW p \in DOMAIN pieces
      PROVE  /\ pieces[p] \in Seq(EventRecords) /\ NoneTwice(pieces[p])
             /\ Range(pieces[p]) \subseteq Range(s)
             /\ files[p] = Sort!Sorted(pieces[p])
  <2>1. pieces[p] \in Seq(EventRecords)
    BY <1>1
  <2>2. NoneTwice(pieces[p])
    <3> SUFFICES ASSUME NEW i \in DOMAIN pieces[p], NEW j \in DOMAIN pieces[p], i # j
                 PROVE  pieces[p][i] # pieces[p][j]
      BY DEF NoneTwice
    <3>1. Place(p, i) # Place(p, j)
      BY <1>1
    <3> QED BY <1>1, <3>1 DEF NoneTwice
  <2>3. Range(pieces[p]) \subseteq Range(s)
    BY <1>1 DEF Range
  <2> QED BY <2>1, <2>2, <2>3
<1>4. ASSUME NEW p \in DOMAIN pieces PROVE Lists(files[p], Range(pieces[p]))
  <2>1. Distinct(Range(pieces[p]))
    BY <1>3 DEF Distinct
  <2> QED BY <1>3, <2>1, SortedLists
<1>5. DOMAIN files = DOMAIN pieces
  OBVIOUS
<1> HIDE DEF files
<1>6. files \in Seq(Seq(EventRecords))
  <2>1. files = [c \in 1 .. Len(pieces) |-> files[c]] /\ Len(pieces) \in Nat
        /\ DOMAIN pieces = 1 .. Len(pieces)
    BY <1>1, <1>5 DEF files
  <2>2. \A c \in 1 .. Len(pieces) : files[c] \in Seq(EventRecords)
    BY <1>4, <2>1 DEF Lists
  <2> QED BY <2>1, <2>2
<1>7. \A p \in DOMAIN pieces : Ascending(files[p]) /\ Range(files[p]) = Range(pieces[p])
  BY <1>4 DEF Lists
<1>8. ASSUME NEW p \in DOMAIN pieces, NEW q \in DOMAIN pieces, p # q
      PROVE  Range(pieces[p]) \cap Range(pieces[q]) = {}
  <2> SUFFICES ASSUME NEW i \in DOMAIN pieces[p], NEW j \in DOMAIN pieces[q],
                      pieces[p][i] = pieces[q][j]
               PROVE  FALSE
    BY DEF Range
  <2>1. Place(p, i) # Place(q, j)
    BY <1>1, <1>8
  <2> QED BY <1>1, <2>1 DEF NoneTwice
<1>9. Range(s) = UNION {Range(pieces[p]) : p \in DOMAIN pieces}
  <2>1. \A k \in DOMAIN s : \E p \in DOMAIN pieces : s[k] \in Range(pieces[p])
    BY <1>1 DEF Range
  <2>2. Range(s) = {s[k] : k \in DOMAIN s}
    BY DEF Range
  <2>3. \A p \in DOMAIN pieces : Range(pieces[p]) \subseteq Range(s)
    BY <1>3
  <2>4. Range(s) \subseteq UNION {Range(pieces[p]) : p \in DOMAIN pieces}
    BY <2>1, <2>2
  <2> QED BY <2>3, <2>4
<1>10. Range(s) = UNION {Range(files[p]) : p \in DOMAIN files}
  BY <1>5, <1>7, <1>9
<1>11. Holds(files, Range(s))
  BY <1>5, <1>6, <1>7, <1>8, <1>10 DEF Holds
<1> QED BY <1>2, <1>11

\* A round of merging groups of files holds what the files held.
LEMMA GroupsHold ==
  ASSUME NEW files, NEW U, Holds(files, U), Distinct(U)
  PROVE  Holds(Sort!MergeGroups(files), U)
<1> DEFINE groups == Sort!Pieces(files, FanIn)
<1> DEFINE merged == [g \in DOMAIN groups |-> Sort!Merge(groups[g])]
<1> DEFINE Place(g, i) == (g - 1) * FanIn + i
<1> DEFINE In(g) == UNION {Range(groups[g][i]) : i \in DOMAIN groups[g]}
<1>0. files \in Seq(Seq(EventRecords))
  BY DEF Holds
<1>1. /\ groups \in Seq(Seq(Seq(EventRecords)))
      /\ \A p \in DOMAIN groups : \A i \in DOMAIN groups[p] :
            /\ i \in 1 .. FanIn
            /\ Place(p, i) \in DOMAIN files
            /\ groups[p][i] = files[Place(p, i)]
      /\ \A k \in DOMAIN files : \E p \in DOMAIN groups : \E i \in DOMAIN groups[p] :
            k = Place(p, i)
      /\ \A p, q \in DOMAIN groups : \A i, j \in 1 .. FanIn :
            Place(p, i) = Place(q, j) => p = q /\ i = j
  <2>1. FanIn \in Nat /\ FanIn > 0
    BY ReadsAssumption
  <2>2. Pieced(groups, Seq(EventRecords), files, FanIn)
    BY <1>0, <2>1, PiecesAre
  <2> HIDE DEF groups, merged, In
  <2> QED BY <2>2 DEF Pieced
<1>2. Sort!MergeGroups(files) \in {files, merged}
  BY DEF Sort!MergeGroups
<1> HIDE DEF groups, Place
<1>3. ASSUME NEW g \in DOMAIN groups PROVE Holds(groups[g], In(g)) /\ In(g) \subseteq U
  <2>1. groups[g] \in Seq(Seq(EventRecords))
    BY <1>1
  <2>2. \A i \in DOMAIN groups[g] : Ascending(groups[g][i]) /\ Range(groups[g][i]) \subseteq U
    BY <1>1 DEF Holds
  <2>3. ASSUME NEW i \in DOMAIN groups[g], NEW j \in DOMAIN groups[g], i # j
        PROVE  Range(groups[g][i]) \cap Range(groups[g][j]) = {}
    <3>1. Place(g, i) # Place(g, j)
      BY <1>1, <2>3
    <3> QED BY <1>1, <3>1 DEF Holds
  <2>4. Holds(groups[g], In(g))
    BY <2>1, <2>2, <2>3 DEF Holds
  <2> QED BY <2>2, <2>4
<1>4. ASSUME NEW g \in DOMAIN groups PROVE Lists(merged[g], In(g))
  <2>1. Distinct(In(g))
    BY <1>3 DEF Distinct
  <2> HIDE DEF In
  <2>2. Lists(Sort!Merge(groups[g]), In(g))
    BY <1>3, <2>1, MergeLists
  <2> QED BY <2>2
<1>5. DOMAIN merged = DOMAIN groups
  OBVIOUS
<1> HIDE DEF merged
<1>6. merged \in Seq(Seq(EventRecords))
  <2>1. merged = [g \in 1 .. Len(groups) |-> merged[g]] /\ Len(groups) \in Nat
        /\ DOMAIN groups = 1 .. Len(groups)
    BY <1>1, <1>5 DEF merged
  <2>2. \A g \in 1 .. Len(groups) : merged[g] \in Seq(EventRecords)
    BY <1>4, <2>1 DEF Lists
  <2> QED BY <2>1, <2>2
<1>7. ASSUME NEW g \in DOMAIN groups, NEW h \in DOMAIN groups, g # h
      PROVE  In(g) \cap In(h) = {}
  <2>1. ASSUME NEW i \in DOMAIN groups[g], NEW j \in DOMAIN groups[h]
        PROVE  Range(groups[g][i]) \cap Range(groups[h][j]) = {}
    <3>1. Place(g, i) # Place(h, j)
      BY <1>1, <1>7
    <3> QED BY <1>1, <3>1 DEF Holds
  <2> QED BY <2>1
<1>8. U = UNION {In(g) : g \in DOMAIN groups}
  <2>1. \A k \in DOMAIN files : \E g \in DOMAIN groups : Range(files[k]) \subseteq In(g)
    BY <1>1
  <2>2. U \subseteq UNION {In(g) : g \in DOMAIN groups}
    BY <2>1 DEF Holds
  <2> QED BY <1>3, <2>2
<1> HIDE DEF In
<1>9. \A g \in DOMAIN groups : Ascending(merged[g]) /\ Range(merged[g]) = In(g)
  BY <1>4 DEF Lists
<1>10. U = UNION {Range(merged[g]) : g \in DOMAIN merged}
  BY <1>5, <1>8, <1>9
<1>11. Holds(merged, U)
  BY <1>5, <1>6, <1>7, <1>9, <1>10 DEF Holds
<1> QED BY <1>2, <1>11

\* What MergeRounds defines recursively for the first n rounds.
Rounds(t, files, n) ==
    t = [k \in 0 .. n |-> IF k = 0 THEN files ELSE Sort!MergeGroups(t[k - 1])]

\* What such a function returns at first and after every round.
LEMMA RoundsAt ==
  ASSUME NEW t, NEW files, NEW n \in Nat, Rounds(t, files, n), NEW k \in 0 .. n
  PROVE  t[k] = IF k = 0 THEN files ELSE Sort!MergeGroups(t[k - 1])
<1> DEFINE f == [j \in 0 .. n |-> IF j = 0 THEN files ELSE Sort!MergeGroups(t[j - 1])]
<1>1. f[k] = IF k = 0 THEN files ELSE Sort!MergeGroups(t[k - 1])
  OBVIOUS
<1>2. t = f
  BY Zenon DEF Rounds
<1> HIDE DEF f
<1> QED BY <1>1, <1>2

\* There is such a function.
LEMMA RoundsExists ==
  ASSUME NEW files, NEW n \in Nat
  PROVE  \E t : Rounds(t, files, n)
<1> DEFINE S == {k \in Nat : \E t : Rounds(t, files, k)}
<1>1. 0 \in S
  <2> DEFINE t == [k \in 0 .. 0 |-> files]
  <2>1. \A k \in 0 .. 0 : t[k] = IF k = 0 THEN files ELSE Sort!MergeGroups(t[k - 1])
    OBVIOUS
  <2>2. t = [k \in 0 .. 0 |-> t[k]]
    OBVIOUS
  <2> HIDE DEF t
  <2>3. Rounds(t, files, 0)
    BY <2>1, <2>2 DEF Rounds
  <2> QED BY <2>3
<1>2. ASSUME NEW k \in Nat, k \in S PROVE k + 1 \in S
  <2>1. PICK t : Rounds(t, files, k)
    BY <1>2
  <2> DEFINE h == [j \in 0 .. k + 1 |-> IF j = k + 1 THEN Sort!MergeGroups(t[k]) ELSE t[j]]
  <2>2. \A j \in 0 .. k : t[j] = IF j = 0 THEN files ELSE Sort!MergeGroups(t[j - 1])
    BY <2>1, RoundsAt
  <2>3. \A j \in 0 .. k + 1 : h[j] = IF j = 0 THEN files ELSE Sort!MergeGroups(h[j - 1])
    <3>1. ASSUME NEW j \in 0 .. k
          PROVE  h[j] = IF j = 0 THEN files ELSE Sort!MergeGroups(h[j - 1])
      <4>1. h[j] = t[j] /\ (j # 0 => h[j - 1] = t[j - 1])
        OBVIOUS
      <4> QED BY <2>2, <4>1
    <3>2. h[k + 1] = Sort!MergeGroups(h[k]) /\ k + 1 # 0 /\ k + 1 - 1 = k
      OBVIOUS
    <3> HIDE DEF h
    <3>3. \A j \in 0 .. k + 1 : j \in 0 .. k \/ j = k + 1
      OBVIOUS
    <3> QED BY <3>1, <3>2, <3>3
  <2>4. h = [j \in 0 .. k + 1 |-> h[j]]
    OBVIOUS
  <2> HIDE DEF h
  <2>5. Rounds(h, files, k + 1)
    BY <2>3, <2>4 DEF Rounds
  <2> QED BY <2>5
<1> HIDE DEF S
<1>3. n \in S
  BY <1>1, <1>2, NatSets
<1> QED BY <1>3 DEF S

\* However many rounds there are, the files hold the records.
LEMMA RoundsHold ==
  ASSUME NEW files, NEW U, Holds(files, U), Distinct(U)
  PROVE  Holds(Sort!MergeRounds(files), U)
<1> DEFINE t == CHOOSE r : r = [k \in 0 .. Len(files) |->
                    IF k = 0 THEN files ELSE Sort!MergeGroups(r[k - 1])]
<1>1. Len(files) \in Nat
  BY FilesAre
<1>2. Sort!MergeRounds(files) = t[Len(files)]
  BY DEF Sort!MergeRounds
<1>3. Rounds(t, files, Len(files))
  BY <1>1, RoundsExists DEF Rounds
<1> HIDE DEF t
<1> DEFINE S == {k \in Nat : k <= Len(files) => Holds(t[k], U)}
<1>4. 0 \in S
  BY <1>1, <1>3, RoundsAt
<1>5. ASSUME NEW k \in Nat, k \in S PROVE k + 1 \in S
  <2> SUFFICES ASSUME k + 1 <= Len(files) PROVE Holds(t[k + 1], U)
    OBVIOUS
  <2>1. k <= Len(files) /\ k + 1 \in 0 .. Len(files) /\ k + 1 # 0 /\ k + 1 - 1 = k
    BY <1>1
  <2>2. t[k + 1] = Sort!MergeGroups(t[k])
    BY <1>1, <1>3, <2>1, RoundsAt
  <2> QED BY <1>5, <2>1, <2>2, GroupsHold
<1> HIDE DEF S
<1>6. Len(files) \in S
  BY <1>1, <1>4, <1>5, NatSets
<1> QED BY <1>1, <1>2, <1>6 DEF S

\* The sorted records, of which a page is a part.
InOrderOfTime(s) == Sort!Merge(Sort!MergeRounds(Sort!SortedChunks(s)))

\* The chunks, the rounds and the last merge together list the records: none is lost,
\* none comes twice.
LEMMA PagesAreOf ==
  ASSUME NEW s \in Seq(EventRecords), NoneTwice(s), Distinct(Range(s))
  PROVE  /\ Lists(InOrderOfTime(s), Range(s))
         /\ Len(InOrderOfTime(s)) = Len(s)
<1>1. Lists(InOrderOfTime(s), Range(s))
  BY ChunksHold, RoundsHold, MergeLists DEF InOrderOfTime
<1>2. Len(InOrderOfTime(s)) = Cardinality(Range(s))
  BY <1>1, ListIsFinite DEF Lists
<1> QED BY <1>1, <1>2, NoneTwiceIsFinite

-----------------------------------------------------------------------------
(***************************************************************************)
(* What the pages of a logs are pieces of.                                 *)
(***************************************************************************)

\* The records a logs is about.
Wants(evts, mark) == {e \in Range(evts) : e.seq <= mark /\ e.id.what \in Wanted}

\* Events in the order of their numbers, as the ingest appends them.
Numbered(evts) ==
    /\ evts \in Seq(EventRecords)
    /\ \A i, j \in DOMAIN evts : i < j => evts[i].seq < evts[j].seq

\* A record of the file, or nothing if the logs is not about it.
Selection(e, mark) == IF e.seq <= mark /\ e.id.what \in Wanted THEN <<e>> ELSE <<>>

\* Nothing is selected of an empty file.
LEMMA SelectedEmpty == ASSUME NEW mark PROVE Selected(<<>>, mark) = <<>>
<1>1. [i \in DOMAIN <<>> |-> IF <<>>[i].seq <= mark /\ <<>>[i].id.what \in Wanted
                             THEN <<(<<>>[i])>> ELSE <<>>] = <<>>
  OBVIOUS
<1> QED BY <1>1, FlattenEmpty DEF Selected

\* An event appended to the file comes after what is selected of the others.
LEMMA SelectedAppend ==
  ASSUME NEW evts \in Seq(EventRecords), NEW e \in EventRecords, NEW mark
  PROVE  Selected(Append(evts, e), mark) = Selected(evts, mark) \o Selection(e, mark)
<1> DEFINE more == Append(evts, e)
<1> DEFINE s == [i \in DOMAIN evts |-> Selection(evts[i], mark)]
<1> DEFINE t == [i \in DOMAIN more |-> Selection(more[i], mark)]
<1> DEFINE x == Selection(e, mark)
<1>1. /\ Len(evts) \in Nat /\ DOMAIN evts = 1 .. Len(evts) /\ DOMAIN more = 1 .. Len(evts) + 1
      /\ more[Len(evts) + 1] = e
  OBVIOUS
<1>2. \A i \in 1 .. Len(evts) : more[i] = evts[i] /\ evts[i] \in EventRecords
  OBVIOUS
<1>3. ASSUME NEW y \in EventRecords PROVE Selection(y, mark) \in Seq(EventRecords)
  <2>1. <<y>> \in Seq(EventRecords) /\ <<>> \in Seq(EventRecords)
    OBVIOUS
  <2> QED BY <2>1 DEF Selection
<1>4. Selected(evts, mark) = FlattenSeq(s) /\ Selected(more, mark) = FlattenSeq(t)
  BY DEF Selected, Selection
<1> HIDE DEF more
<1>5. ASSUME NEW i \in 1 .. Len(evts) PROVE s[i] = Selection(evts[i], mark) /\ t[i] = s[i]
  BY <1>1, <1>2
<1>6. t[Len(evts) + 1] = x
  BY <1>1
<1>7. s \in Seq(Seq(EventRecords)) /\ Len(s) = Len(evts)
  <2>1. \A i \in 1 .. Len(evts) : Selection(evts[i], mark) \in Seq(EventRecords)
    BY <1>2, <1>3
  <2>2. s = [i \in 1 .. Len(evts) |-> Selection(evts[i], mark)]
    BY <1>1
  <2> HIDE DEF s
  <2> QED BY <1>1, <2>1, <2>2
<1>8. x \in Seq(EventRecords)
  BY <1>3
<1>9. t = Append(s, x)
  <2>1. \A i \in 1 .. Len(evts) + 1 : t[i] = IF i = Len(evts) + 1 THEN x ELSE s[i]
    <3>1. ASSUME NEW i \in 1 .. Len(evts) + 1
          PROVE  t[i] = IF i = Len(evts) + 1 THEN x ELSE s[i]
      <4>1. i = Len(evts) + 1 \/ i \in 1 .. Len(evts)
        BY <1>1
      <4> HIDE DEF s, t, x
      <4> QED BY <1>1, <1>5, <1>6, <4>1
    <3> QED BY <3>1
  <2>2. t = [i \in 1 .. Len(evts) + 1 |-> t[i]]
    BY <1>1
  <2>3. t \in Seq(Seq(EventRecords)) /\ Len(t) = Len(evts) + 1
    <3>1. \A i \in 1 .. Len(evts) + 1 : t[i] \in Seq(EventRecords)
      <4> HIDE DEF s, t, x
      <4>1. \A i \in 1 .. Len(evts) : s[i] \in Seq(EventRecords)
        BY <1>7
      <4> QED BY <1>1, <1>8, <2>1, <4>1
    <3> HIDE DEF s, t, x
    <3> QED BY <1>1, <2>2, <3>1
  <2> HIDE DEF s, t, x
  <2>4. /\ Append(s, x) \in Seq(Seq(EventRecords)) /\ Len(Append(s, x)) = Len(evts) + 1
        /\ \A i \in 1 .. Len(evts) + 1 : Append(s, x)[i] = t[i]
    BY <1>1, <1>7, <1>8, <2>1
  <2> QED BY <2>3, <2>4, SeqEqual
<1> HIDE DEF s, t, x
<1> QED BY <1>4, <1>7, <1>8, <1>9, FlattenAppend DEF more, x

\* The events of a file, and so those a logs is about, have numbers of their own.
LEMMA NumberedDistinct ==
  ASSUME NEW evts, Numbered(evts), NEW mark
  PROVE  Distinct(Range(evts)) /\ Distinct(Wants(evts, mark))
<1>1. \A i \in DOMAIN evts : evts[i] \in EventRecords /\ i \in Nat
  BY DEF Numbered
<1>2. \A i \in DOMAIN evts : evts[i].seq \in Nat
  BY <1>1 DEF EventRecords
<1>3. ASSUME NEW i \in DOMAIN evts, NEW j \in DOMAIN evts, evts[i].seq = evts[j].seq
      PROVE  i = j
  <2>1. ~(i < j) /\ ~(j < i)
    BY <1>2, <1>3 DEF Numbered
  <2> QED BY <1>1, <2>1
<1>4. Distinct(Range(evts))
  BY <1>1, <1>3 DEF Distinct, Range
<1> QED BY <1>4 DEF Wants, Distinct

\* One record more.
LEMMA NoneTwiceAppend ==
  ASSUME NEW s \in Seq(EventRecords), NoneTwice(s), NEW e \in EventRecords, e \notin Range(s)
  PROVE  NoneTwice(s \o <<e>>) /\ Range(s \o <<e>>) = Range(s) \cup {e}
         /\ s \o <<e>> \in Seq(EventRecords)
<1> DEFINE t == s \o <<e>>
<1>1. /\ t \in Seq(EventRecords) /\ DOMAIN s = 1 .. Len(s) /\ Len(s) \in Nat
      /\ DOMAIN t = 1 .. Len(s) + 1 /\ t[Len(s) + 1] = e
      /\ \A i \in 1 .. Len(s) : t[i] = s[i]
  OBVIOUS
<1> HIDE DEF t
<1>2. \A i \in DOMAIN t :
         \/ i \in DOMAIN s /\ t[i] = s[i] /\ t[i] \in Range(s)
         \/ i = Len(s) + 1 /\ t[i] = e
  BY <1>1 DEF Range
<1>3. NoneTwice(t)
  <2> SUFFICES ASSUME NEW i \in DOMAIN t, NEW j \in DOMAIN t, i # j PROVE t[i] # t[j]
    BY DEF NoneTwice
  <2>1. CASE i \in DOMAIN s /\ j \in DOMAIN s
    <3>1. t[i] = s[i] /\ t[j] = s[j]
      BY <1>1, <2>1
    <3> QED BY <2>1, <3>1 DEF NoneTwice
  <2>2. CASE i \notin DOMAIN s \/ j \notin DOMAIN s
    BY <1>2, <2>2
  <2> QED BY <2>1, <2>2
<1>4. Range(t) \subseteq Range(s) \cup {e}
  BY <1>2 DEF Range
<1>5. Range(s) \cup {e} \subseteq Range(t)
  <2>1. \A i \in DOMAIN s : i \in DOMAIN t /\ t[i] = s[i]
    BY <1>1
  <2>2. Len(s) + 1 \in DOMAIN t
    BY <1>1
  <2> QED BY <1>1, <2>1, <2>2 DEF Range
<1> QED BY <1>1, <1>3, <1>4, <1>5 DEF t

\* What is selected are the wanted records, each once.
LEMMA SelectedIs ==
  ASSUME NEW mark
  PROVE  \A evts : Numbered(evts) =>
            /\ Selected(evts, mark) \in Seq(EventRecords)
            /\ NoneTwice(Selected(evts, mark))
            /\ Range(Selected(evts, mark)) = Wants(evts, mark)
<1> DEFINE Good(evts) ==
             /\ Selected(evts, mark) \in Seq(EventRecords)
             /\ NoneTwice(Selected(evts, mark))
             /\ Range(Selected(evts, mark)) = Wants(evts, mark)
<1> DEFINE S == {n \in Nat : \A evts \in Seq(EventRecords) :
                     Numbered(evts) /\ Len(evts) = n => Good(evts)}
<1>1. 0 \in S
  <2>1. <<>> \in Seq(EventRecords) /\ NoneTwice(<<>>) /\ Range(<<>>) = {}
    BY DEF NoneTwice, Range
  <2>2. Wants(<<>>, mark) = {}
    BY <2>1 DEF Wants
  <2>3. Good(<<>>)
    BY <2>1, <2>2, SelectedEmpty
  <2>4. \A evts \in Seq(EventRecords) : Len(evts) = 0 => evts = <<>>
    OBVIOUS
  <2> HIDE DEF Good
  <2> QED BY <2>3, <2>4
<1>2. ASSUME NEW n \in Nat, n \in S PROVE n + 1 \in S
  <2>1. ASSUME NEW more \in Seq(EventRecords), Numbered(more), Len(more) = n + 1
        PROVE  Good(more)
    <3>1. PICK evts \in Seq(EventRecords), e \in EventRecords : more = Append(evts, e)
      BY <2>1, SequenceEmptyOrAppend
    <3>2. /\ Len(evts) = n /\ DOMAIN evts = 1 .. n /\ DOMAIN more = 1 .. n + 1
          /\ more[n + 1] = e /\ \A i \in 1 .. n : more[i] = evts[i]
      BY <2>1, <3>1
    <3>3. Numbered(evts)
      BY <2>1, <3>2 DEF Numbered
    <3>4. \A x \in Range(evts) : x.seq < e.seq /\ x.seq \in Nat
      <4>1. ASSUME NEW i \in 1 .. n PROVE evts[i].seq < e.seq /\ evts[i].seq \in Nat
        <5>1. i \in DOMAIN more /\ n + 1 \in DOMAIN more /\ i < n + 1
          BY <3>2
        <5>2. more[i].seq < more[n + 1].seq
          BY <2>1, <5>1 DEF Numbered
        <5>3. evts[i] \in EventRecords
          BY <3>2
        <5> QED BY <3>2, <5>2, <5>3 DEF EventRecords
      <4> QED BY <3>2, <4>1 DEF Range
    <3>5. e \notin Range(evts)
      BY <3>4
    <3>6. Range(more) = Range(evts) \cup {e}
      <4>1. Range(more) = {more[i] : i \in 1 .. n + 1} /\ Range(evts) = {evts[i] : i \in 1 .. n}
        BY <3>2 DEF Range
      <4> QED BY <3>2, <4>1
    <3> DEFINE sel == Selected(evts, mark)
    <3>7. sel \in Seq(EventRecords) /\ NoneTwice(sel) /\ Range(sel) = Wants(evts, mark)
      BY <1>2, <3>2, <3>3
    <3>8. Selected(more, mark) = sel \o Selection(e, mark)
      BY <3>1, SelectedAppend
    <3>9. e \notin Range(sel)
      BY <3>5, <3>7 DEF Wants
    <3> HIDE DEF sel
    <3>10. CASE e.seq <= mark /\ e.id.what \in Wanted
      <4>1. Selection(e, mark) = <<e>>
        BY <3>10 DEF Selection
      <4>2. Wants(more, mark) = Wants(evts, mark) \cup {e}
        BY <3>6, <3>10 DEF Wants
      <4> QED BY <3>7, <3>8, <3>9, <4>1, <4>2, NoneTwiceAppend
    <3>11. CASE ~(e.seq <= mark /\ e.id.what \in Wanted)
      <4>1. Selection(e, mark) = <<>>
        BY <3>11 DEF Selection
      <4>2. Wants(more, mark) = Wants(evts, mark)
        BY <3>6, <3>11 DEF Wants
      <4>3. sel \o <<>> = sel
        BY <3>7
      <4> QED BY <3>7, <3>8, <4>1, <4>2, <4>3
    <3> QED BY <3>10, <3>11
  <2> HIDE DEF Good
  <2> QED BY <2>1
<1> HIDE DEF S
<1>3. Nat \subseteq S
  BY <1>1, <1>2, NatSets
<1> QED BY <1>3 DEF S, Numbered

\* Rows that are the first of some records, in their order.
OnTop(rows, U) ==
    /\ rows \in Seq(EventRecords)
    /\ Ascending(rows)
    /\ Range(rows) \subseteq U
    /\ \A e \in Range(rows), f \in U \ Range(rows) : Earlier(e, f)

\* There is one way to have the first records: those at the front of their list.
LEMMA OnTopIsFront ==
  ASSUME NEW U, NEW list, Lists(list, U), NEW rows, OnTop(rows, U)
  PROVE  Len(rows) <= Len(list) /\ \A i \in 1 .. Len(rows) : rows[i] = list[i]
<1>1. /\ list \in Seq(EventRecords) /\ Ascending(list) /\ Range(list) = U
      /\ rows \in Seq(EventRecords) /\ Ascending(rows) /\ Range(rows) \subseteq U
      /\ U \subseteq EventRecords
  <2>1. list \in Seq(EventRecords) /\ Range(list) = U
    BY DEF Lists
  <2>2. Range(list) \subseteq EventRecords
    BY <2>1 DEF Range
  <2> QED BY <2>1, <2>2 DEF Lists, OnTop
<1>2. /\ DOMAIN list = 1 .. Len(list) /\ Len(list) \in Nat
      /\ DOMAIN rows = 1 .. Len(rows) /\ Len(rows) \in Nat
  BY <1>1
<1> DEFINE S == {k \in Nat : k <= Len(rows) =>
                     k <= Len(list) /\ \A i \in 1 .. k : rows[i] = list[i]}
<1>3. 0 \in S
  BY <1>2
<1>4. ASSUME NEW k \in Nat, k \in S PROVE k + 1 \in S
  <2> SUFFICES ASSUME k + 1 <= Len(rows)
               PROVE  k + 1 <= Len(list) /\ rows[k + 1] = list[k + 1]
    BY <1>4
  <2>1. k <= Len(list) /\ \A i \in 1 .. k : rows[i] = list[i]
    BY <1>2, <1>4
  <2> DEFINE x == rows[k + 1]
  <2>2. k + 1 \in DOMAIN rows /\ x \in Range(rows) /\ x \in U /\ x \in EventRecords
    BY <1>1, <1>2 DEF Range
  <2>3. PICK j \in DOMAIN list : list[j] = x
    BY <1>1, <2>2 DEF Range
  <2> HIDE DEF x
  <2>4. j >= k + 1
    <3> SUFFICES ASSUME j <= k PROVE FALSE
      BY <1>2
    <3>1. j \in DOMAIN rows /\ j < k + 1 /\ rows[j] = x
      BY <1>2, <2>1, <2>3
    <3>2. Earlier(x, x)
      BY <1>1, <2>2, <3>1 DEF Ascending, x
    <3> QED BY <2>2, <3>2, EarlierOrders
  <2>5. k + 1 \in DOMAIN list /\ k + 1 <= Len(list)
    BY <1>2, <2>3, <2>4
  <2> DEFINE y == list[k + 1]
  <2>6. y \in U /\ y \in EventRecords
    BY <1>1, <2>5 DEF Range
  <2> HIDE DEF y
  <2>7. j = k + 1
    <3> SUFFICES ASSUME j > k + 1 PROVE FALSE
      BY <1>2, <2>4
    <3>1. Earlier(y, x) /\ ~Earlier(x, y)
      <4>1. Earlier(y, x)
        BY <1>1, <2>3, <2>5 DEF Ascending, y
      <4> QED BY <2>2, <2>6, <4>1, EarlierOrders
    <3>2. PICK l \in DOMAIN rows : rows[l] = y
      BY <2>2, <2>6, <3>1 DEF OnTop, Range
    <3>3. CASE l <= k
      <4>1. l \in DOMAIN list /\ l < k + 1 /\ list[l] = y
        BY <1>2, <2>1, <2>5, <3>2, <3>3
      <4>2. Earlier(y, y)
        BY <1>1, <2>5, <4>1 DEF Ascending, y
      <4> QED BY <2>6, <4>2, EarlierOrders
    <3>4. CASE l = k + 1
      <4>1. Earlier(x, x)
        BY <3>1, <3>2, <3>4 DEF x
      <4> QED BY <2>2, <4>1, EarlierOrders
    <3>5. CASE l > k + 1
      <4>1. Earlier(x, y)
        BY <1>1, <2>2, <3>2, <3>5 DEF Ascending, x
      <4> QED BY <3>1, <4>1
    <3> QED BY <1>2, <3>2, <3>3, <3>4, <3>5
  <2> QED BY <2>3, <2>5, <2>7 DEF x
<1> HIDE DEF S
<1>5. Len(rows) \in S
  BY <1>2, <1>3, <1>4, NatSets
<1> QED BY <1>2, <1>5 DEF S

\* The front of a list has the first records of it.
LEMMA FrontIsOnTop ==
  ASSUME NEW U, NEW list, Lists(list, U), NEW rows \in Seq(EventRecords),
         Len(rows) <= Len(list), \A i \in 1 .. Len(rows) : rows[i] = list[i]
  PROVE  OnTop(rows, U) /\ (Len(rows) = Len(list) => U \subseteq Range(rows))
<1>1. /\ list \in Seq(EventRecords) /\ Ascending(list) /\ Range(list) = U
      /\ DOMAIN list = 1 .. Len(list) /\ Len(list) \in Nat
      /\ DOMAIN rows = 1 .. Len(rows) /\ Len(rows) \in Nat
  BY DEF Lists
<1>2. \A i \in DOMAIN rows : i \in DOMAIN list /\ rows[i] = list[i]
  BY <1>1
<1>3. Ascending(rows)
  BY <1>1, <1>2 DEF Ascending
<1>4. Range(rows) \subseteq U
  BY <1>1, <1>2 DEF Range
<1>5. ASSUME NEW e \in Range(rows), NEW f \in U \ Range(rows) PROVE Earlier(e, f)
  <2>1. PICK i \in DOMAIN rows : rows[i] = e
    BY DEF Range
  <2>2. PICK j \in DOMAIN list : list[j] = f
    BY <1>1 DEF Range
  <2>3. j \notin DOMAIN rows
    <3> SUFFICES ASSUME j \in DOMAIN rows PROVE FALSE
      OBVIOUS
    <3>1. rows[j] = f
      BY <1>2, <2>2
    <3> QED BY <3>1 DEF Range
  <2>4. i < j /\ i \in DOMAIN list /\ list[i] = e
    BY <1>1, <1>2, <2>1, <2>3
  <2> QED BY <1>1, <2>2, <2>4 DEF Ascending
<1>6. Len(rows) = Len(list) => U \subseteq Range(rows)
  BY <1>1, <1>2 DEF Range
<1> QED BY <1>3, <1>4, <1>5, <1>6 DEF OnTop

\* A page after some rows leaves its reader with more of the first records and, when it
\* is not one of the last of them, with all.
Advances(rows, page, last, limit, U) ==
    /\ OnTop(rows \o page, U)
    /\ Len(rows) + Len(page) < last => Len(rows \o page) = Len(rows) + limit
    /\ ~(Len(rows) + Len(page) < last) => U \subseteq Range(rows \o page)

\* A page after the first records leaves a reader with more of the first records, and
\* the last page with all.
LEMMA PageAfter ==
  ASSUME NEW U, NEW list, Lists(list, U), NEW rows, OnTop(rows, U),
         NEW limit \in Nat \ {0}
  PROVE  Advances(rows, SubSeq(list, Len(rows) + 1, Min({Len(rows) + limit, Len(list)})),
                  Len(list), limit, U)
<1> DEFINE line == Len(rows)
           upto == Min({line + limit, Len(list)})
           page == SubSeq(list, line + 1, upto)
           next == rows \o page
<1>1. list \in Seq(EventRecords) /\ Len(list) \in Nat /\ rows \in Seq(EventRecords) /\ line \in Nat
  BY DEF Lists, OnTop
<1>2. line <= Len(list) /\ \A i \in 1 .. line : rows[i] = list[i]
  BY OnTopIsFront
<1> HIDE DEF line
<1>3. upto = IF line + limit <= Len(list) THEN line + limit ELSE Len(list)
  <2>1. line + limit \in Nat
    BY <1>1
  <2> QED BY <1>1, <2>1, LeastOf
<1>4. upto \in Nat /\ line <= upto /\ upto <= Len(list)
      /\ (upto < Len(list) => upto = line + limit)
  BY <1>1, <1>2, <1>3
<1> HIDE DEF upto
<1>5. /\ page \in Seq(EventRecords) /\ Len(page) = upto - line
      /\ \A i \in 1 .. upto - line : page[i] = list[line + i]
  BY <1>1, <1>4, Slice
<1> HIDE DEF page
<1>6. /\ next \in Seq(EventRecords) /\ Len(next) = upto
      /\ \A i \in 1 .. line : next[i] = rows[i]
      /\ \A i \in 1 .. upto - line : next[line + i] = page[i]
  BY <1>1, <1>4, <1>5 DEF line
<1> HIDE DEF next
<1>7. \A i \in 1 .. Len(next) : next[i] = list[i]
  <2> SUFFICES ASSUME NEW i \in 1 .. Len(next) PROVE next[i] = list[i]
    OBVIOUS
  <2>1. CASE i <= line
    BY <1>1, <1>2, <1>6, <2>1
  <2>2. CASE i > line
    <3> DEFINE k == i - line
    <3>1. k \in 1 .. upto - line /\ line + k = i
      BY <1>1, <1>4, <1>6, <2>2
    <3> HIDE DEF k
    <3>2. next[line + k] = page[k]
      BY ONLY <1>6, <3>1, Zenon
    <3>3. page[k] = list[line + k]
      BY ONLY <1>5, <3>1, Zenon
    <3> QED BY <3>1, <3>2, <3>3
  <2> QED BY <1>1, <2>1, <2>2
<1>8. OnTop(next, U) /\ (upto = Len(list) => U \subseteq Range(next))
  BY <1>4, <1>6, <1>7, FrontIsOnTop
<1>9. Advances(rows, page, Len(list), limit, U)
  BY <1>1, <1>4, <1>5, <1>6, <1>8 DEF Advances, line, next
<1> QED BY <1>9 DEF page, upto, line

\* A page of a logs is the next piece of the list of the records it is about.
LEMMA LogPageAfter ==
  ASSUME NEW evts, Numbered(evts), NEW mark, NEW rows, OnTop(rows, Wants(evts, mark))
  PROVE  Advances(rows, Sort!SortedPage(Selected(evts, mark), Len(rows), LogLimit),
                  Len(Selected(evts, mark)), LogLimit, Wants(evts, mark))
<1> DEFINE U == Wants(evts, mark)
           all == Selected(evts, mark)
           list == InOrderOfTime(all)
<1>1. all \in Seq(EventRecords) /\ NoneTwice(all) /\ Range(all) = U /\ Distinct(U)
  BY SelectedIs, NumberedDistinct
<1>2. Lists(list, U) /\ Len(list) = Len(all)
  BY <1>1, PagesAreOf
<1>3. LogLimit \in Nat \ {0}
  BY ReadsAssumption
<1>4. Sort!SortedPage(all, Len(rows), LogLimit)
        = SubSeq(list, Len(rows) + 1, Min({Len(rows) + LogLimit, Len(list)}))
  BY SortUses DEF Sort!SortedPage, InOrderOfTime
<1>5. OnTop(rows, U)
  OBVIOUS
<1> HIDE DEF U, all, list
<1> QED BY <1>2, <1>3, <1>4, <1>5, PageAfter DEF U, all

\* Nothing got is the first of anything.
LEMMA NothingOnTop == ASSUME NEW U PROVE OnTop(<<>>, U)
<1>1. <<>> \in Seq(EventRecords) /\ Range(<<>>) = {}
  BY DEF Range
<1> QED BY <1>1 DEF OnTop, Ascending
=============================================================================
