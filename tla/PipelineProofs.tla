--------------------------- MODULE PipelineProofs ---------------------------
(***************************************************************************)
(* Proofs about Pipeline, for any outputs, any profile a backend answers   *)
(* with, any budget and any number of samples.                             *)
(*                                                                         *)
(* The rules are folds over lists of lines.  First what a fold makes of    *)
(* nothing and of one element more (FoldLaws), and an induction over       *)
(* sequences (SeqInduct); with these two, what each rule and the           *)
(* interpreter do to a list of any length.  Then the inductive invariant   *)
(* IInv, in which a run in progress shows what its layers make of the raw  *)
(* output (LastOK) and a learned baseline has passed its self-test on      *)
(* every output it was trained on (ProfileOK).  The properties follow from *)
(* IInv and the lemmas on the rules, at every state by itself.             *)
(***************************************************************************)
EXTENDS Pipeline, SetInduction, SequenceTheorems, TLAPS

-----------------------------------------------------------------------------
(***************************************************************************)
(* Folds.                                                                  *)
(***************************************************************************)
\* The last position.
LEMMA MaxIs ==
  ASSUME NEW n \in Nat, NEW S \in SUBSET (1 .. n), n \in S
  PROVE  Max(S) = n
<1>1. \A x \in S : x <= n
  OBVIOUS
<1>2. \A x \in S : (\A y \in S : x >= y) => x = n
  BY <1>1
<1>3. \A y \in S : n >= y
  BY <1>1
<1>4. Max(S) \in S /\ \A y \in S : Max(S) >= y
  BY <1>3 DEF Max
<1> QED
  BY <1>2, <1>4

LEMMA MaxIn ==
  ASSUME NEW n \in Nat, NEW S \in SUBSET (1 .. n), S # {}
  PROVE  Max(S) \in S
<1> DEFINE T == {n - i : i \in S}
<1>1. T \in SUBSET Nat /\ T # {}
  <2>1. \A i \in S : n - i \in Nat
    OBVIOUS
  <2> QED
    BY <2>1
<1>2. PICK m \in T : \A j \in T : m <= j
  BY <1>1, LeastNumber
<1>3. PICK k \in S : m = n - k
  OBVIOUS
<1>4. ASSUME NEW j \in S PROVE k >= j
  <2>1. n - j \in T
    OBVIOUS
  <2>2. n - k <= n - j
    BY <1>2, <1>3, <2>1
  <2> QED
    BY <2>2
<1> QED
  BY <1>4 DEF Max

\* f is what visit makes of base along the first n of s, for every part of them.
Folding(f, visit, base, s, n) ==
  \A S \in SUBSET (1 .. n) :
    f[S] = IF S = {} THEN base ELSE visit[<<f[S \ {Max(S)}], s[Max(S)]>>]

\* What visit makes of base along a sequence, for every part of it.
LEMMA FoldExists ==
  ASSUME NEW L, NEW D, NEW base \in D, NEW visit \in [D \X L -> D],
         NEW n \in Nat, NEW s \in [1 .. n -> L]
  PROVE  \E f \in [SUBSET (1 .. n) -> D] : Folding(f, visit, base, s, n)
<1> DEFINE Right(f, k) == \A S \in SUBSET (1 .. k) :
             f[S] = IF S = {} THEN base ELSE visit[<<f[S \ {Max(S)}], s[Max(S)]>>]
           K == {k \in Nat : k <= n => \E f \in [SUBSET (1 .. k) -> D] : Right(f, k)}
<1>2. 0 \in K
  <2> DEFINE f0 == [S \in SUBSET (1 .. 0) |-> base]
  <2>1. f0 \in [SUBSET (1 .. 0) -> D]
    OBVIOUS
  <2>2. Right(f0, 0)
    <3>1. \A S \in SUBSET (1 .. 0) : S = {} /\ f0[S] = base
      OBVIOUS
    <3> HIDE DEF f0
    <3> QED
      BY <3>1
  <2> HIDE DEF f0
  <2>3. \E f \in [SUBSET (1 .. 0) -> D] : Right(f, 0)
    BY <2>1, <2>2
  <2> HIDE DEF Right
  <2> QED
    BY <2>3
<1>3. ASSUME NEW k \in Nat, k \in K PROVE k + 1 \in K
  <2> SUFFICES ASSUME k + 1 <= n PROVE \E f \in [SUBSET (1 .. k + 1) -> D] : Right(f, k + 1)
    <3>1. k + 1 \in Nat
      OBVIOUS
    <3> HIDE DEF Right
    <3> QED
      BY <3>1, Zenon
  <2>0. \E f \in [SUBSET (1 .. k) -> D] : Right(f, k)
    <3>1. k <= n
      OBVIOUS
    <3> HIDE DEF Right
    <3> QED
      BY <1>3, <3>1, Zenon
  <2>1. PICK f \in [SUBSET (1 .. k) -> D] : Right(f, k)
    BY <2>0
  <2> DEFINE h == [S \in SUBSET (1 .. k + 1) |->
                     IF k + 1 \in S THEN visit[<<f[S \ {k + 1}], s[k + 1]>>] ELSE f[S]]
  <2>2. \A S \in SUBSET (1 .. k + 1) : S \ {k + 1} \in SUBSET (1 .. k)
    OBVIOUS
  <2>3. s[k + 1] \in L
    OBVIOUS
  <2>4. h \in [SUBSET (1 .. k + 1) -> D]
    <3> SUFFICES ASSUME NEW S \in SUBSET (1 .. k + 1)
                 PROVE  (IF k + 1 \in S THEN visit[<<f[S \ {k + 1}], s[k + 1]>>] ELSE f[S]) \in D
      OBVIOUS
    <3>1. CASE k + 1 \in S
      <4>1. f[S \ {k + 1}] \in D
        BY <2>2
      <4> QED
        BY <2>3, <3>1, <4>1
    <3>2. CASE k + 1 \notin S
      <4>1. S \in SUBSET (1 .. k)
        BY <2>2, <3>2
      <4> QED
        BY <3>2, <4>1
    <3> QED
      BY <3>1, <3>2
  <2>5. Right(h, k + 1)
    <3> SUFFICES ASSUME NEW S \in SUBSET (1 .. k + 1)
                 PROVE  h[S] = IF S = {} THEN base ELSE visit[<<h[S \ {Max(S)}], s[Max(S)]>>]
      OBVIOUS
    <3>1. CASE k + 1 \in S
      <4>1. Max(S) = k + 1
        BY <3>1, MaxIs
      <4>2. h[S \ {k + 1}] = f[S \ {k + 1}]
        BY <2>2
      <4>3. h[S] = visit[<<f[S \ {k + 1}], s[k + 1]>>]
        BY <3>1
      <4> HIDE DEF h
      <4> QED
        BY <3>1, <4>1, <4>2, <4>3
    <3>2. CASE k + 1 \notin S
      <4>1. S \in SUBSET (1 .. k)
        BY <2>2, <3>2
      <4>2. h[S] = f[S]
        BY <3>2
      <4>3. h[S \ {Max(S)}] = f[S \ {Max(S)}]
        <5>1. S \ {Max(S)} \in SUBSET (1 .. k + 1) /\ k + 1 \notin S \ {Max(S)}
          BY <3>2
        <5> QED
          BY <5>1
      <4>4. f[S] = IF S = {} THEN base ELSE visit[<<f[S \ {Max(S)}], s[Max(S)]>>]
        BY <2>1, <4>1
      <4> HIDE DEF h
      <4> QED
        BY <4>2, <4>3, <4>4
    <3> QED
      BY <3>1, <3>2
  <2> HIDE DEF h, Right
  <2> QED
    BY <2>4, <2>5
<1>4. n \in K
  <2> HIDE DEF K
  <2> QED
    BY <1>2, <1>3, NatSetInduction
<1>5. \E f \in [SUBSET (1 .. n) -> D] : Right(f, n)
  <2>1. n <= n
    OBVIOUS
  <2> HIDE DEF Right
  <2> QED
    BY <1>4, <2>1, Zenon
<1> QED
  BY <1>5 DEF Folding

Folds(visit, base, L, D) ==
  /\ Fold(visit, base, <<>>) = base
  /\ \A s \in Seq(L) : Fold(visit, base, s) \in D
  /\ \A s \in Seq(L) : \A x \in L :
       Fold(visit, base, Append(s, x)) = visit[<<Fold(visit, base, s), x>>]

\* The value of a fold: of nothing, its type, and one element more.
LEMMA FoldLaws ==
  ASSUME NEW L, NEW D, NEW base \in D, NEW visit \in [D \X L -> D]
  PROVE  Folds(visit, base, L, D)
<1> DEFINE Iter(t) == CHOOSE f : f = [S \in SUBSET DOMAIN t |->
                        IF S = {} THEN base ELSE visit[<<f[S \ {Max(S)}], t[Max(S)]>>]]
<1>1. ASSUME NEW t PROVE Fold(visit, base, t) = Iter(t)[DOMAIN t]
  BY DEF Fold, FoldLeft, MapThenFoldSet
<1>2. ASSUME NEW n \in Nat, NEW t \in Seq(L), Len(t) = n
      PROVE  Iter(t) = [S \in SUBSET (1 .. n) |->
                         IF S = {} THEN base ELSE visit[<<Iter(t)[S \ {Max(S)}], t[Max(S)]>>]]
  <2>1. DOMAIN t = 1 .. n /\ \A i \in 1 .. n : t[i] \in L
    BY <1>2
  <2>3. PICK f \in [SUBSET (1 .. n) -> D] : Folding(f, visit, base, t, n)
    <3>1. t \in [1 .. n -> L]
      BY <1>2
    <3> HIDE DEF Iter
    <3> QED
      BY <3>1, FoldExists
  <2>2. f = [S \in SUBSET (1 .. n) |->
                      IF S = {} THEN base ELSE visit[<<f[S \ {Max(S)}], t[Max(S)]>>]]
    <3> HIDE DEF Iter
    <3>1. f = [S \in SUBSET (1 .. n) |-> f[S]]
      OBVIOUS
    <3> QED
      BY <2>3, <3>1 DEF Folding
  <2> QED
    BY <2>1, <2>2
<1> HIDE DEF Iter
<1>3. ASSUME NEW n \in Nat, NEW t \in Seq(L), Len(t) = n
      PROVE  /\ Iter(t)[{}] = base
             /\ \A k \in 0 .. n - 1 :
                  Iter(t)[1 .. k + 1] = visit[<<Iter(t)[1 .. k], t[k + 1]>>]
  <2>1. Iter(t)[{}] = base
    BY <1>2, <1>3
  <2>2. ASSUME NEW k \in 0 .. n - 1
        PROVE  Iter(t)[1 .. k + 1] = visit[<<Iter(t)[1 .. k], t[k + 1]>>]
    <3>1. k + 1 \in Nat /\ k + 1 <= n /\ 1 \in 1 .. k + 1
      OBVIOUS
    <3>7. \A i \in 1 .. k + 1 : i \in 1 .. n
      BY <3>1
    <3>5. 1 .. k + 1 \in SUBSET (1 .. n) /\ 1 .. k + 1 # {}
      BY <3>1, <3>7
    <3>2. k + 1 \in Nat /\ 1 .. k + 1 \in SUBSET (1 .. k + 1) /\ k + 1 \in 1 .. k + 1
      OBVIOUS
    <3>3. Max(1 .. k + 1) = k + 1
      BY <3>2, MaxIs
    <3>4. (1 .. k + 1) \ {k + 1} = 1 .. k
      OBVIOUS
    <3>6. Iter(t)[1 .. k + 1] = IF 1 .. k + 1 = {} THEN base
            ELSE visit[<<Iter(t)[(1 .. k + 1) \ {Max(1 .. k + 1)}], t[Max(1 .. k + 1)]>>]
      <4>1. Iter(t) = [S \in SUBSET (1 .. n) |->
                         IF S = {} THEN base ELSE visit[<<Iter(t)[S \ {Max(S)}], t[Max(S)]>>]]
        BY <1>2, <1>3
      <4> QED
        BY <3>5, <4>1
    <3> QED
      BY <3>3, <3>4, <3>5, <3>6
  <2> QED
    BY <2>1, <2>2
<1>4. 1 .. 0 = {}
  OBVIOUS
<1>5. ASSUME NEW t \in Seq(L), NEW x \in L
      PROVE  /\ Fold(visit, base, t) \in D
             /\ Fold(visit, base, Append(t, x)) = visit[<<Fold(visit, base, t), x>>]
  <2> DEFINE n == Len(t)
             u == Append(t, x)
             K == {k \in Nat : k <= n => Iter(t)[1 .. k] \in D /\ Iter(u)[1 .. k] = Iter(t)[1 .. k]}
  <2>1. /\ n \in Nat /\ u \in Seq(L) /\ Len(u) = n + 1 /\ u[n + 1] = x
        /\ DOMAIN t = 1 .. n /\ DOMAIN u = 1 .. n + 1
        /\ \A i \in 1 .. n : t[i] \in L /\ u[i] = t[i]
    OBVIOUS
  <2>2. /\ Iter(t)[{}] = base /\ Iter(u)[{}] = base
        /\ \A k \in 0 .. n - 1 : Iter(t)[1 .. k + 1] = visit[<<Iter(t)[1 .. k], t[k + 1]>>]
        /\ \A k \in 0 .. n : Iter(u)[1 .. k + 1] = visit[<<Iter(u)[1 .. k], u[k + 1]>>]
    <3> HIDE DEF u
    <3>1. n + 1 \in Nat /\ (n + 1) - 1 = n
      BY <2>1
    <3>2. /\ Iter(u)[{}] = base
          /\ \A k \in 0 .. (n + 1) - 1 : Iter(u)[1 .. k + 1] = visit[<<Iter(u)[1 .. k], u[k + 1]>>]
      BY <1>3, <2>1, <3>1
    <3>3. /\ Iter(t)[{}] = base
          /\ \A k \in 0 .. n - 1 : Iter(t)[1 .. k + 1] = visit[<<Iter(t)[1 .. k], t[k + 1]>>]
      BY <1>3, <2>1
    <3> QED
      BY <3>1, <3>2, <3>3
  <2> HIDE DEF n, u
  <2>3. 0 \in K
    BY <1>4, <2>2
  <2>4. ASSUME NEW k \in Nat, k \in K PROVE k + 1 \in K
    <3> SUFFICES ASSUME k + 1 <= n
                 PROVE  Iter(t)[1 .. k + 1] \in D /\ Iter(u)[1 .. k + 1] = Iter(t)[1 .. k + 1]
      OBVIOUS
    <3>1. Iter(t)[1 .. k] \in D /\ Iter(u)[1 .. k] = Iter(t)[1 .. k]
      BY <2>1, <2>4
    <3>2. k \in 0 .. n - 1 /\ k \in 0 .. n /\ k + 1 \in 1 .. n
      BY <2>1
    <3>3. Iter(t)[1 .. k + 1] = visit[<<Iter(t)[1 .. k], t[k + 1]>>]
      BY <2>2, <3>2
    <3>4. Iter(u)[1 .. k + 1] = visit[<<Iter(u)[1 .. k], u[k + 1]>>]
      BY <2>2, <3>2
    <3>5. t[k + 1] \in L /\ u[k + 1] = t[k + 1]
      BY <2>1, <3>2
    <3> QED
      BY <3>1, <3>3, <3>4, <3>5
  <2>5. n \in K
    <3> HIDE DEF K
    <3> QED
      BY <2>1, <2>3, <2>4, NatSetInduction
  <2>6. Iter(t)[1 .. n] \in D /\ Iter(u)[1 .. n] = Iter(t)[1 .. n]
    BY <2>1, <2>5
  <2>7. Iter(u)[1 .. n + 1] = visit[<<Iter(u)[1 .. n], u[n + 1]>>]
    BY <2>1, <2>2
  <2>8. Fold(visit, base, t) = Iter(t)[1 .. n] /\ Fold(visit, base, u) = Iter(u)[1 .. n + 1]
    BY <1>1, <2>1
  <2>9. /\ Fold(visit, base, t) \in D
        /\ Fold(visit, base, u) = visit[<<Fold(visit, base, t), x>>]
    BY <2>1, <2>6, <2>7, <2>8
  <2> QED
    BY <2>9 DEF u
<1>6. Fold(visit, base, <<>>) = base
  <2>1. DOMAIN <<>> = {} /\ <<>> \in Seq(L) /\ Len(<<>>) = 0
    OBVIOUS
  <2> QED
    BY <1>1, <1>3, <2>1
<1>7. \A s \in Seq(L) : Fold(visit, base, s) \in D
  <2> TAKE s \in Seq(L)
  <2>1. CASE s = <<>>
    BY <1>6, <2>1
  <2>2. CASE s # <<>>
    <3>1. s[1] \in L
      BY <2>2
    <3> QED
      BY <1>5, <3>1
  <2> QED
    BY <2>1, <2>2
<1>8. \A s \in Seq(L) : \A x \in L :
        Fold(visit, base, Append(s, x)) = visit[<<Fold(visit, base, s), x>>]
  BY <1>5
<1> QED
  BY <1>6, <1>7, <1>8 DEF Folds

\* What holds of the empty sequence and goes on to one element more holds of all.
LEMMA SeqInduct ==
  ASSUME NEW L, NEW P, <<>> \in P, \A s \in Seq(L) : \A x \in L : s \in P => Append(s, x) \in P
  PROVE  Seq(L) \subseteq P
<1> DEFINE K == {k \in Nat : \A s \in Seq(L) : Len(s) = k => s \in P}
<1>1. 0 \in K
  <2>1. \A s \in Seq(L) : Len(s) = 0 => s = <<>>
    OBVIOUS
  <2> QED
    BY <2>1
<1>2. ASSUME NEW k \in Nat, k \in K PROVE k + 1 \in K
  <2> SUFFICES ASSUME NEW s \in Seq(L), Len(s) = k + 1 PROVE s \in P
    OBVIOUS
  <2> DEFINE t == SubSeq(s, 1, k)
  <2>1. t \in Seq(L) /\ Len(t) = k /\ s[k + 1] \in L
    OBVIOUS
  <2>2. s = Append(t, s[k + 1])
    OBVIOUS
  <2>3. t \in P
    <3> HIDE DEF t
    <3> QED
      BY <1>2, <2>1
  <2> HIDE DEF t
  <2> QED
    BY <2>1, <2>2, <2>3
<1>3. Nat \subseteq K
  <2> HIDE DEF K
  <2> QED
    BY <1>1, <1>2, NatSetInduction
<1> QED
  BY <1>3
-----------------------------------------------------------------------------
(***************************************************************************)
(* What each rule does with nothing and with one line more.                *)
(***************************************************************************)
VerbatimLines == [verbatim : {TRUE}, text : STRING, colour : BOOLEAN, cr : Nat, count : {0}]
MarkerLine ==
  [verbatim : {FALSE}, text : {"elided", "truncated"}, colour : {FALSE}, cr : {0}, count : Nat]

LEMMA LineKinds == Lines = VerbatimLines \cup MarkerLine
  BY DEF Lines, VerbatimLines, MarkerLine

Same(l) ==
  [verbatim |-> l.verbatim, text |-> l.text, colour |-> l.colour, cr |-> l.cr, count |-> l.count]

\* The fields of a line.
LEMMA LineFields ==
  ASSUME NEW l \in Lines
  PROVE  /\ l.verbatim \in BOOLEAN /\ l.colour \in BOOLEAN /\ l.count \in Nat
         /\ l = Same(l)
         /\ l.verbatim => l.count = 0 /\ l.text \in STRING
         /\ ~l.verbatim => l.colour = FALSE /\ l.cr = 0
         /\ l.cr \in Nat
<1>1. CASE l \in VerbatimLines
  <2>1. /\ l.verbatim \in {TRUE} /\ l.text \in STRING /\ l.colour \in BOOLEAN /\ l.count \in {0}
        /\ l.cr \in Nat
    BY <1>1 DEF VerbatimLines
  <2>2. l = Same(l)
    BY <1>1 DEF VerbatimLines, Same
  <2>3. 0 \in Nat
    OBVIOUS
  <2> QED
    BY <2>1, <2>2, <2>3, Zenon
<1>2. CASE l \in MarkerLine
  <2>1. l.verbatim \in {FALSE} /\ l.colour \in {FALSE} /\ l.count \in Nat /\ l.cr \in {0}
    BY <1>2 DEF MarkerLine
  <2>2. l = Same(l)
    BY <1>2 DEF MarkerLine, Same
  <2>3. 0 \in Nat
    OBVIOUS
  <2> QED
    BY <2>1, <2>2, <2>3, Zenon
<1> QED
  BY <1>1, <1>2, LineKinds

LEMMA FilterLaws ==
  ASSUME NEW keep
  PROVE  /\ Filter(<<>>, keep) = <<>>
         /\ \A s \in Seq(Lines) : Filter(s, keep) \in Seq(Lines)
         /\ \A s \in Seq(Lines) : \A x \in Lines :
              Filter(Append(s, x), keep) =
                IF x \in keep THEN Append(Filter(s, keep), x) ELSE Filter(s, keep)
<1> DEFINE visit == [p \in Seq(Lines) \X Lines |->
                       IF p[2] \in keep THEN Append(p[1], p[2]) ELSE p[1]]
<1>1. visit \in [Seq(Lines) \X Lines -> Seq(Lines)] /\ <<>> \in Seq(Lines)
  OBVIOUS
<1>2. \A s : Filter(s, keep) = Fold(visit, <<>>, s)
  BY DEF Filter
<1>3. \A out \in Seq(Lines) : \A x \in Lines :
        visit[<<out, x>>] = IF x \in keep THEN Append(out, x) ELSE out
  OBVIOUS
<1> HIDE DEF visit
<1>4. /\ Fold(visit, <<>>, <<>>) = <<>>
      /\ \A s \in Seq(Lines) : Fold(visit, <<>>, s) \in Seq(Lines)
      /\ \A s \in Seq(Lines) : \A x \in Lines :
           Fold(visit, <<>>, Append(s, x)) = visit[<<Fold(visit, <<>>, s), x>>]
  <2>1. Folds(visit, <<>>, Lines, Seq(Lines))
    BY <1>1, FoldLaws
  <2> QED
    BY <2>1 DEF Folds
<1>5. ASSUME NEW s \in Seq(Lines), NEW x \in Lines
      PROVE  Filter(Append(s, x), keep) =
               IF x \in keep THEN Append(Filter(s, keep), x) ELSE Filter(s, keep)
  <2>1. Fold(visit, <<>>, s) \in Seq(Lines)
    BY <1>4
  <2>2. Fold(visit, <<>>, Append(s, x)) = visit[<<Fold(visit, <<>>, s), x>>]
    BY <1>4
  <2> QED
    BY <1>2, <1>3, <2>1, <2>2
<1>6. Filter(<<>>, keep) = <<>> /\ \A s \in Seq(Lines) : Filter(s, keep) \in Seq(Lines)
  BY <1>2, <1>4
<1> QED
  BY <1>5, <1>6

LEMMA DedupLaws ==
  /\ Dedup(<<>>) = <<>>
  /\ \A s \in Seq(Lines) : Dedup(s) \in Seq(Lines)
  /\ \A s \in Seq(Lines) : \A x \in Lines :
       Dedup(Append(s, x)) =
         IF Dedup(s) # <<>> /\ Dedup(s)[Len(Dedup(s))] = x THEN Dedup(s) ELSE Append(Dedup(s), x)
<1> DEFINE visit == [p \in Seq(Lines) \X Lines |->
                       IF p[1] # <<>> /\ p[1][Len(p[1])] = p[2] THEN p[1] ELSE Append(p[1], p[2])]
<1>1. visit \in [Seq(Lines) \X Lines -> Seq(Lines)] /\ <<>> \in Seq(Lines)
  OBVIOUS
<1>2. \A s : Dedup(s) = Fold(visit, <<>>, s)
  BY DEF Dedup
<1>3. \A out \in Seq(Lines) : \A x \in Lines :
        visit[<<out, x>>] = IF out # <<>> /\ out[Len(out)] = x THEN out ELSE Append(out, x)
  OBVIOUS
<1> HIDE DEF visit
<1>4. /\ Fold(visit, <<>>, <<>>) = <<>>
      /\ \A s \in Seq(Lines) : Fold(visit, <<>>, s) \in Seq(Lines)
      /\ \A s \in Seq(Lines) : \A x \in Lines :
           Fold(visit, <<>>, Append(s, x)) = visit[<<Fold(visit, <<>>, s), x>>]
  <2>1. Folds(visit, <<>>, Lines, Seq(Lines))
    BY <1>1, FoldLaws
  <2> QED
    BY <2>1 DEF Folds
<1>5. ASSUME NEW s \in Seq(Lines), NEW x \in Lines
      PROVE  Dedup(Append(s, x)) =
               IF Dedup(s) # <<>> /\ Dedup(s)[Len(Dedup(s))] = x THEN Dedup(s) ELSE Append(Dedup(s), x)
  <2>1. Fold(visit, <<>>, s) \in Seq(Lines)
    BY <1>4
  <2>2. Fold(visit, <<>>, Append(s, x)) = visit[<<Fold(visit, <<>>, s), x>>]
    BY <1>4
  <2> QED
    BY <1>2, <1>3, <2>1, <2>2
<1>6. Dedup(<<>>) = <<>> /\ \A s \in Seq(Lines) : Dedup(s) \in Seq(Lines)
  BY <1>2, <1>4
<1> QED
  BY <1>5, <1>6

LEMMA ElidedLaws ==
  /\ Elided(<<>>) = 0
  /\ \A s \in Seq(Lines) : Elided(s) \in Nat
  /\ \A s \in Seq(Lines) : \A x \in Lines : Elided(Append(s, x)) = Elided(s) + x.count
<1> DEFINE visit == [p \in Nat \X Lines |-> p[1] + p[2].count]
<1>0. \A x \in Lines : x.count \in Nat
  BY LineFields
<1>1. visit \in [Nat \X Lines -> Nat] /\ 0 \in Nat
  BY <1>0
<1>2. \A s : Elided(s) = Fold(visit, 0, s)
  BY DEF Elided
<1>3. \A n \in Nat : \A x \in Lines : visit[<<n, x>>] = n + x.count
  OBVIOUS
<1> HIDE DEF visit
<1>4. /\ Fold(visit, 0, <<>>) = 0
      /\ \A s \in Seq(Lines) : Fold(visit, 0, s) \in Nat
      /\ \A s \in Seq(Lines) : \A x \in Lines :
           Fold(visit, 0, Append(s, x)) = visit[<<Fold(visit, 0, s), x>>]
  <2>1. Folds(visit, 0, Lines, Nat)
    BY <1>1, FoldLaws
  <2> QED
    BY <2>1 DEF Folds
<1> QED
  BY <1>2, <1>3, <1>4

LEMMA MarkerLines == Truncated \in Lines /\ \A n \in Nat : Placeholder(n) \in Lines
<1>1. Truncated \in MarkerLine
  BY DEF Truncated, MarkerLine
<1>2. \A n \in Nat : Placeholder(n) \in MarkerLine
  BY DEF Placeholder, MarkerLine
<1> QED
  BY <1>1, <1>2, LineKinds

RunAcc == [out : Seq(Lines), run : Seq(Lines)]

LEMMA FlushType ==
  ASSUME NEW acc \in RunAcc, NEW min
  PROVE  /\ Flush(acc, min).run = <<>> /\ Flush(acc, min).out \in Seq(Lines)
         /\ \/ Flush(acc, min).out = acc.out \o <<Placeholder(Len(acc.run))>>
            \/ Flush(acc, min).out = acc.out \o acc.run
<1>1. acc.out \in Seq(Lines) /\ acc.run \in Seq(Lines)
  BY DEF RunAcc
<1>2. Placeholder(Len(acc.run)) \in Lines
  <2>1. Len(acc.run) \in Nat
    BY <1>1
  <2> QED
    BY <2>1, MarkerLines
<1>3. acc.out \o <<Placeholder(Len(acc.run))>> \in Seq(Lines) /\ acc.out \o acc.run \in Seq(Lines)
  BY <1>1, <1>2
<1>4. CASE Len(acc.run) >= min
  BY <1>3, <1>4 DEF Flush
<1>5. CASE ~(Len(acc.run) >= min)
  BY <1>3, <1>5 DEF Flush
<1> QED
  BY <1>4, <1>5

LEMMA RunStepIs ==
  ASSUME NEW acc \in RunAcc, NEW l \in Lines, NEW pattern, NEW min
  PROVE  /\ RunStep(acc, l, pattern, min) \in RunAcc
         /\ Hits(pattern, l) =>
              RunStep(acc, l, pattern, min) = [out |-> acc.out, run |-> Append(acc.run, l)]
         /\ ~Hits(pattern, l) =>
              RunStep(acc, l, pattern, min) = [out |-> Append(Flush(acc, min).out, l), run |-> <<>>]
<1>1. acc.out \in Seq(Lines) /\ acc.run \in Seq(Lines)
  BY DEF RunAcc
<1>2. CASE Hits(pattern, l)
  <2>1. RunStep(acc, l, pattern, min) = [acc EXCEPT !.run = Append(acc.run, l)]
    BY <1>2 DEF RunStep
  <2>2. RunStep(acc, l, pattern, min) = [out |-> acc.out, run |-> Append(acc.run, l)]
    BY <2>1 DEF RunAcc
  <2>3. Append(acc.run, l) \in Seq(Lines)
    BY <1>1
  <2> QED
    BY <1>1, <1>2, <2>2, <2>3 DEF RunAcc
<1>3. CASE ~Hits(pattern, l)
  <2> DEFINE done == Flush(acc, min)
  <2>1. done.run = <<>> /\ done.out \in Seq(Lines)
    BY FlushType
  <2>2. RunStep(acc, l, pattern, min) = [done EXCEPT !.out = Append(done.out, l)]
    BY <1>3 DEF RunStep
  <2>3. done = [out |-> done.out, run |-> done.run]
    BY DEF Flush
  <2> HIDE DEF done
  <2>4. RunStep(acc, l, pattern, min) = [out |-> Append(done.out, l), run |-> <<>>]
    BY <2>1, <2>2, <2>3
  <2>5. Append(done.out, l) \in Seq(Lines) /\ <<>> \in Seq(Lines)
    BY <2>1
  <2> QED
    BY <1>3, <2>4, <2>5 DEF RunAcc, done
<1> QED
  BY <1>2, <1>3

LEMMA RunsLaws ==
  ASSUME NEW pattern, NEW min
  PROVE  /\ RunsIn(<<>>, pattern, min) = [out |-> <<>>, run |-> <<>>]
         /\ \A s \in Seq(Lines) : RunsIn(s, pattern, min) \in RunAcc
         /\ \A s \in Seq(Lines) : \A x \in Lines :
              RunsIn(Append(s, x), pattern, min) = RunStep(RunsIn(s, pattern, min), x, pattern, min)
<1> DEFINE visit == [p \in RunAcc \X Lines |-> RunStep(p[1], p[2], pattern, min)]
           base == [out |-> <<>>, run |-> <<>>]
<1>1. visit \in [RunAcc \X Lines -> RunAcc] /\ base \in RunAcc
  <2>1. base \in RunAcc
    BY DEF RunAcc
  <2> HIDE DEF base
  <2>2. \A p \in RunAcc \X Lines : RunStep(p[1], p[2], pattern, min) \in RunAcc
    BY RunStepIs
  <2> QED
    BY <2>1, <2>2
<1>2. \A s : RunsIn(s, pattern, min) = Fold(visit, base, s)
  BY DEF RunsIn, RunAcc
<1>3. \A acc \in RunAcc : \A x \in Lines : visit[<<acc, x>>] = RunStep(acc, x, pattern, min)
  OBVIOUS
<1>6. base = [out |-> <<>>, run |-> <<>>]
  OBVIOUS
<1> HIDE DEF visit, base
<1>4. Folds(visit, base, Lines, RunAcc)
  BY <1>1, FoldLaws
<1>5. ASSUME NEW s \in Seq(Lines), NEW x \in Lines
      PROVE  RunsIn(Append(s, x), pattern, min) = RunStep(RunsIn(s, pattern, min), x, pattern, min)
  <2>1. Fold(visit, base, s) \in RunAcc
    BY <1>4 DEF Folds
  <2>2. Fold(visit, base, Append(s, x)) = visit[<<Fold(visit, base, s), x>>]
    BY <1>4 DEF Folds
  <2> QED
    BY <1>2, <1>3, <2>1, <2>2
<1>7. /\ RunsIn(<<>>, pattern, min) = base
      /\ \A s \in Seq(Lines) : RunsIn(s, pattern, min) \in RunAcc
  BY <1>2, <1>4 DEF Folds
<1> QED
  BY <1>5, <1>6, <1>7

FenceAcc == [out : Seq(Lines), inside : BOOLEAN, n : Nat]

LEMMA FenceStepIs ==
  ASSUME NEW acc \in FenceAcc, NEW l \in Lines, NEW begin, NEW end
  PROVE  /\ FenceStep(acc, l, begin, end) \in FenceAcc
         /\ ~acc.inside =>
              FenceStep(acc, l, begin, end) =
                [out |-> Append(acc.out, l), inside |-> Hits(begin, l), n |-> 0]
         /\ acc.inside /\ Hits(end, l) =>
              FenceStep(acc, l, begin, end) =
                [out |-> acc.out \o <<Placeholder(acc.n), l>>, inside |-> FALSE, n |-> 0]
         /\ acc.inside /\ ~Hits(end, l) =>
              FenceStep(acc, l, begin, end) =
                [out |-> acc.out, inside |-> TRUE, n |-> acc.n + 1]
<1>1. /\ acc.out \in Seq(Lines) /\ acc.inside \in BOOLEAN /\ acc.n \in Nat
      /\ acc = [out |-> acc.out, inside |-> acc.inside, n |-> acc.n]
  BY DEF FenceAcc
<1>2. Hits(begin, l) \in BOOLEAN
  <2>1. l.verbatim \in BOOLEAN
    BY LineFields
  <2> QED
    BY <2>1 DEF Hits, Matches
<1>3. CASE ~acc.inside
  <2>1. Append(acc.out, l) \in Seq(Lines)
    BY <1>1
  <2>2. FenceStep(acc, l, begin, end) =
                [out |-> Append(acc.out, l), inside |-> Hits(begin, l), n |-> 0]
    BY <1>3 DEF FenceStep
  <2>3. FenceStep(acc, l, begin, end) \in FenceAcc
    BY <1>2, <2>1, <2>2 DEF FenceAcc
  <2> QED
    BY <1>3, <2>2, <2>3
<1>4. CASE acc.inside /\ Hits(end, l)
  <2>1. acc.out \o <<Placeholder(acc.n), l>> \in Seq(Lines)
    <3>1. Placeholder(acc.n) \in Lines
      BY <1>1, MarkerLines
    <3> QED
      BY <1>1, <3>1
  <2>2. FenceStep(acc, l, begin, end) =
                [out |-> acc.out \o <<Placeholder(acc.n), l>>, inside |-> FALSE, n |-> 0]
    BY <1>4 DEF FenceStep
  <2>3. FenceStep(acc, l, begin, end) \in FenceAcc
    BY <2>1, <2>2 DEF FenceAcc
  <2> QED
    BY <1>4, <2>2, <2>3
<1>5. CASE acc.inside /\ ~Hits(end, l)
  <2>1. FenceStep(acc, l, begin, end) = [out |-> acc.out, inside |-> TRUE, n |-> acc.n + 1]
    BY <1>5 DEF FenceStep
  <2>2. acc.n + 1 \in Nat
    BY <1>1
  <2>3. FenceStep(acc, l, begin, end) \in FenceAcc
    BY <1>1, <2>1, <2>2 DEF FenceAcc
  <2> QED
    BY <1>5, <2>1, <2>3
<1> QED
  BY <1>3, <1>4, <1>5

LEMMA FencedLaws ==
  ASSUME NEW begin, NEW end
  PROVE  /\ Fenced(<<>>, begin, end) = [out |-> <<>>, inside |-> FALSE, n |-> 0]
         /\ \A s \in Seq(Lines) : Fenced(s, begin, end) \in FenceAcc
         /\ \A s \in Seq(Lines) : \A x \in Lines :
              Fenced(Append(s, x), begin, end) = FenceStep(Fenced(s, begin, end), x, begin, end)
<1> DEFINE visit == [p \in FenceAcc \X Lines |-> FenceStep(p[1], p[2], begin, end)]
           base == [out |-> <<>>, inside |-> FALSE, n |-> 0]
<1>1. visit \in [FenceAcc \X Lines -> FenceAcc] /\ base \in FenceAcc
  <2>1. base \in FenceAcc
    BY DEF FenceAcc
  <2> HIDE DEF base
  <2>2. \A p \in FenceAcc \X Lines : FenceStep(p[1], p[2], begin, end) \in FenceAcc
    BY FenceStepIs
  <2> QED
    BY <2>1, <2>2
<1>2. \A s : Fenced(s, begin, end) = Fold(visit, base, s)
  BY DEF Fenced, FenceAcc
<1>3. \A acc \in FenceAcc : \A x \in Lines : visit[<<acc, x>>] = FenceStep(acc, x, begin, end)
  OBVIOUS
<1>6. base = [out |-> <<>>, inside |-> FALSE, n |-> 0]
  OBVIOUS
<1> HIDE DEF visit, base
<1>4. Folds(visit, base, Lines, FenceAcc)
  BY <1>1, FoldLaws
<1>5. ASSUME NEW s \in Seq(Lines), NEW x \in Lines
      PROVE  Fenced(Append(s, x), begin, end) = FenceStep(Fenced(s, begin, end), x, begin, end)
  <2>1. Fold(visit, base, s) \in FenceAcc
    BY <1>4 DEF Folds
  <2>2. Fold(visit, base, Append(s, x)) = visit[<<Fold(visit, base, s), x>>]
    BY <1>4 DEF Folds
  <2> QED
    BY <1>2, <1>3, <2>1, <2>2
<1>7. /\ Fenced(<<>>, begin, end) = base
      /\ \A s \in Seq(Lines) : Fenced(s, begin, end) \in FenceAcc
  BY <1>2, <1>4 DEF Folds
<1> QED
  BY <1>5, <1>6, <1>7

LEMMA FirstIsIn ==
  ASSUME NEW n \in Nat, NEW I \in SUBSET (1 .. n)
  PROVE  (IF I # {} THEN Min(I) ELSE 0) \in 0 .. n
<1>1. CASE I = {}
  BY <1>1
<1>2. CASE I # {}
  <2>1. PICK i \in I : \A j \in I : i <= j
    BY <1>2, LeastNumber
  <2>2. Min(I) \in I
    BY <2>1 DEF Min
  <2>3. Min(I) \in 1 .. n
    BY <2>2
  <2>4. Min(I) \in 0 .. n
    BY <2>3
  <2> QED
    BY <1>2, <2>4
<1> QED
  BY <1>1, <1>2

\* A hit is a position, 0 when there is none.
LEMMA FirstHitIn ==
  ASSUME NEW pattern, NEW s \in Seq(Lines)
  PROVE  FirstHit(pattern, s) \in 0 .. Len(s)
<1> DEFINE I == {i \in 1 .. Len(s) : Hits(pattern, s[i])}
<1>1. FirstHit(pattern, s) = IF I # {} THEN Min(I) ELSE 0
  BY DEF FirstHit, SelectInSeq
<1>2. I \in SUBSET (1 .. Len(s)) /\ Len(s) \in Nat
  OBVIOUS
<1> HIDE DEF I
<1> QED
  BY <1>1, <1>2, FirstIsIn

LEMMA EnteredType ==
  ASSUME NEW active \in Nat, NEW l, NEW states \in Seq(StateDefs)
  PROVE  Entered(active, l, states) \in Nat
<1> DEFINE I == {i \in 1 .. Len(states) : Matches(states[i].enter, l)}
           first == SelectInSeq(states, LAMBDA s : Matches(s.enter, l))
<1>1. first = IF I # {} THEN Min(I) ELSE 0
  BY DEF SelectInSeq
<1>2. I \in SUBSET (1 .. Len(states)) /\ Len(states) \in Nat
  OBVIOUS
<1>3. Entered(active, l, states) = IF first = 0 THEN active ELSE first
  BY DEF Entered
<1> HIDE DEF I, first
<1>4. first \in Nat
  BY <1>1, <1>2, FirstIsIn
<1> QED
  BY <1>3, <1>4

StateAcc == [active : Nat, out : Seq(Lines)]

LEMMA StateStepIs ==
  ASSUME NEW acc \in StateAcc, NEW l \in Lines, NEW states \in Seq(StateDefs)
  PROVE  /\ StateStep(acc, l, states) \in StateAcc
         /\ \/ StateStep(acc, l, states).out = acc.out
            \/ StateStep(acc, l, states).out = Append(acc.out, l)
<1> DEFINE active == IF l.verbatim THEN Entered(acc.active, l, states) ELSE acc.active
           drops == l.verbatim /\ active # 0 /\ ~KeptIn(states[active], l)
           out == IF drops THEN acc.out ELSE Append(acc.out, l)
<1>1. acc.active \in Nat /\ acc.out \in Seq(Lines)
  BY DEF StateAcc
<1>2. active \in Nat
  BY <1>1, EnteredType
<1>3. StateStep(acc, l, states) = [active |-> active, out |-> out]
  BY DEF StateStep
<1> HIDE DEF active, drops
<1>4. out \in Seq(Lines) /\ (out = acc.out \/ out = Append(acc.out, l))
  BY <1>1
<1> HIDE DEF out
<1> QED
  BY <1>2, <1>3, <1>4 DEF StateAcc

StatesIn(s, states) ==
  Fold([p \in [active : Nat, out : Seq(Lines)] \X Lines |-> StateStep(p[1], p[2], states)],
       [active |-> 0, out |-> <<>>], s)

LEMMA StatesLaws ==
  ASSUME NEW states \in Seq(StateDefs)
  PROVE  /\ StatesIn(<<>>, states) = [active |-> 0, out |-> <<>>]
         /\ \A s \in Seq(Lines) : StatesIn(s, states) \in StateAcc
         /\ \A s \in Seq(Lines) : \A x \in Lines :
              StatesIn(Append(s, x), states) = StateStep(StatesIn(s, states), x, states)
<1> DEFINE visit == [p \in StateAcc \X Lines |-> StateStep(p[1], p[2], states)]
           base == [active |-> 0, out |-> <<>>]
<1>1. visit \in [StateAcc \X Lines -> StateAcc] /\ base \in StateAcc
  <2>1. base \in StateAcc
    BY DEF StateAcc
  <2> HIDE DEF base
  <2>2. \A p \in StateAcc \X Lines : StateStep(p[1], p[2], states) \in StateAcc
    BY StateStepIs
  <2> QED
    BY <2>1, <2>2
<1>2. \A s : StatesIn(s, states) = Fold(visit, base, s)
  BY DEF StatesIn, StateAcc
<1>3. \A acc \in StateAcc : \A x \in Lines : visit[<<acc, x>>] = StateStep(acc, x, states)
  OBVIOUS
<1>6. base = [active |-> 0, out |-> <<>>]
  OBVIOUS
<1> HIDE DEF visit, base
<1>4. Folds(visit, base, Lines, StateAcc)
  BY <1>1, FoldLaws
<1>5. ASSUME NEW s \in Seq(Lines), NEW x \in Lines
      PROVE  StatesIn(Append(s, x), states) = StateStep(StatesIn(s, states), x, states)
  <2>1. Fold(visit, base, s) \in StateAcc
    BY <1>4 DEF Folds
  <2>2. Fold(visit, base, Append(s, x)) = visit[<<Fold(visit, base, s), x>>]
    BY <1>4 DEF Folds
  <2> QED
    BY <1>2, <1>3, <2>1, <2>2
<1>7. /\ StatesIn(<<>>, states) = base
      /\ \A s \in Seq(Lines) : StatesIn(s, states) \in StateAcc
  BY <1>2, <1>4 DEF Folds
<1> QED
  BY <1>5, <1>6, <1>7

-----------------------------------------------------------------------------
(***************************************************************************)
(* What a rule makes of lines are lines.                                   *)
(***************************************************************************)
LEMMA CollapseRunsType ==
  ASSUME NEW s \in Seq(Lines), NEW pattern, NEW min
  PROVE  CollapseRuns(s, pattern, min) \in Seq(Lines)
<1>1. RunsIn(s, pattern, min) \in RunAcc
  BY RunsLaws
<1> QED
  BY <1>1, FlushType DEF CollapseRuns

LEMMA CollapseSectionType ==
  ASSUME NEW s \in Seq(Lines), NEW begin, NEW end
  PROVE  CollapseSection(s, begin, end) \in Seq(Lines)
<1> DEFINE acc == Fenced(s, begin, end)
<1>1. acc \in FenceAcc
  BY FencedLaws
<1>2. CollapseSection(s, begin, end) =
        IF acc.inside /\ acc.n > 0 THEN Append(acc.out, Placeholder(acc.n)) ELSE acc.out
  BY DEF CollapseSection
<1> HIDE DEF acc
<1>3. acc.out \in Seq(Lines) /\ acc.n \in Nat
  BY <1>1 DEF FenceAcc
<1>4. Append(acc.out, Placeholder(acc.n)) \in Seq(Lines)
  BY <1>3, MarkerLines
<1> QED
  BY <1>2, <1>3, <1>4

LEMMA RunStatesType ==
  ASSUME NEW s \in Seq(Lines), NEW states \in Seq(StateDefs)
  PROVE  RunStates(s, states) = StatesIn(s, states).out /\ RunStates(s, states) \in Seq(Lines)
<1>1. StatesIn(s, states) \in StateAcc
  BY StatesLaws
<1>2. RunStates(s, states) = StatesIn(s, states).out
  BY DEF RunStates, StatesIn
<1> QED
  BY <1>1, <1>2 DEF StateAcc

\* A part of the lines.
Part(s, t) == \E a \in 1 .. Len(s) + 1 : \E b \in a - 1 .. Len(s) : t = SubSeq(s, a, b)

LEMMA PartType ==
  ASSUME NEW s \in Seq(Lines), NEW t, Part(s, t)
  PROVE  t \in Seq(Lines) /\ Len(t) <= Len(s)
<1>1. PICK a \in 1 .. Len(s) + 1 : \E b \in a - 1 .. Len(s) : t = SubSeq(s, a, b)
  BY DEF Part
<1>5. PICK b \in a - 1 .. Len(s) : t = SubSeq(s, a, b)
  BY <1>1
<1>2. Len(s) \in Nat
  OBVIOUS
<1>3. t \in Seq(Lines)
  BY <1>5
<1>4. Len(t) = b - a + 1
  BY <1>5
<1> QED
  BY <1>2, <1>3, <1>4

LEMMA FirstOfPart ==
  ASSUME NEW s \in Seq(Lines), NEW n \in Nat
  PROVE  Part(s, FirstOf(s, n)) /\ (n <= Len(s) => Len(FirstOf(s, n)) = n)
<1> DEFINE b == IF n < Len(s) THEN n ELSE Len(s)
<1>1. FirstOf(s, n) = SubSeq(s, 1, b)
  BY DEF FirstOf
<1>2. 1 \in 1 .. Len(s) + 1 /\ b \in 1 - 1 .. Len(s)
  OBVIOUS
<1>3. n <= Len(s) => b = n
  OBVIOUS
<1> HIDE DEF b
<1>4. Len(SubSeq(s, 1, b)) = b
  BY <1>2
<1>5. Part(s, SubSeq(s, 1, b))
  BY <1>2 DEF Part
<1> QED
  BY <1>1, <1>3, <1>4, <1>5

LEMMA LastOfPart ==
  ASSUME NEW s \in Seq(Lines), NEW n \in Nat
  PROVE  Part(s, LastOf(s, n))
<1> DEFINE a == IF n < Len(s) THEN Len(s) - n + 1 ELSE 1
<1>1. LastOf(s, n) = SubSeq(s, a, Len(s))
  BY DEF LastOf
<1>2. a \in 1 .. Len(s) + 1 /\ Len(s) \in a - 1 .. Len(s)
  OBVIOUS
<1> HIDE DEF a
<1> QED
  BY <1>1, <1>2 DEF Part

LEMMA WholePart ==
  ASSUME NEW s \in Seq(Lines)
  PROVE  Part(s, s)
<1>1. s = SubSeq(s, 1, Len(s))
  OBVIOUS
<1>2. 1 \in 1 .. Len(s) + 1 /\ Len(s) \in 1 - 1 .. Len(s)
  OBVIOUS
<1> QED
  BY <1>1, <1>2 DEF Part

LEMMA HeadAfterPart ==
  ASSUME NEW s \in Seq(Lines), NEW n \in Nat, NEW pattern
  PROVE  Part(s, HeadAfter(s, n, pattern))
<1> DEFINE hit == FirstHit(pattern, s)
<1>1. hit \in Nat
  BY FirstHitIn
<1>2. HeadAfter(s, n, pattern) = IF hit = 0 THEN s ELSE FirstOf(s, hit + n)
  BY DEF HeadAfter
<1> HIDE DEF hit
<1>3. hit + n \in Nat
  BY <1>1
<1> QED
  BY <1>2, <1>3, FirstOfPart, WholePart

LEMMA TailBeforePart ==
  ASSUME NEW s \in Seq(Lines), NEW n \in Nat, NEW pattern
  PROVE  /\ Part(s, TailBefore(s, n, pattern))
         /\ FirstHit(pattern, s) # 0 => TailStart(s, n, pattern) \in 1 .. Len(s)
<1> DEFINE hit == FirstHit(pattern, s)
           start == TailStart(s, n, pattern)
<1>1. hit \in 0 .. Len(s)
  BY FirstHitIn
<1>2. start = IF hit > n THEN hit - n ELSE 1
  BY DEF TailStart
<1>3. TailBefore(s, n, pattern) = IF hit = 0 THEN s ELSE SubSeq(s, start, Len(s))
  BY DEF TailBefore
<1>4. Len(s) \in Nat
  OBVIOUS
<1> HIDE DEF hit, start
<1>5. CASE hit = 0
  BY <1>3, <1>5, WholePart DEF hit
<1>6. CASE hit # 0
  <2>1. start \in 1 .. Len(s)
    BY <1>1, <1>2, <1>4, <1>6
  <2>2. start \in 1 .. Len(s) + 1 /\ Len(s) \in start - 1 .. Len(s)
    BY <1>4, <2>1
  <2>3. Part(s, SubSeq(s, start, Len(s)))
    BY <2>2 DEF Part
  <2> QED
    BY <1>3, <1>6, <2>1, <2>3 DEF start
<1> QED
  BY <1>5, <1>6

LEMMA StripAnsiType ==
  ASSUME NEW s \in Seq(Lines)
  PROVE  /\ StripAnsi(s) \in Seq(Lines) /\ Len(StripAnsi(s)) = Len(s)
         /\ \A i \in 1 .. Len(s) : StripAnsi(s)[i] = Plain(s[i]) /\ Plain(s[i]) \in Lines
<1>1. ASSUME NEW l \in Lines PROVE Plain(l) \in Lines
  <2>1. CASE l \in VerbatimLines
    <3>1. Plain(l) \in VerbatimLines
      BY <2>1 DEF Plain, VerbatimLines
    <3> QED
      BY <3>1, LineKinds
  <2>2. CASE l \in MarkerLine
    <3>1. Plain(l) \in MarkerLine
      BY <2>2 DEF Plain, MarkerLine
    <3> QED
      BY <3>1, LineKinds
  <2> QED
    BY <2>1, <2>2, LineKinds
<1>2. DOMAIN s = 1 .. Len(s) /\ Len(s) \in Nat /\ \A i \in 1 .. Len(s) : s[i] \in Lines
  OBVIOUS
<1>3. StripAnsi(s) = [i \in 1 .. Len(s) |-> Plain(s[i])]
  BY <1>2 DEF StripAnsi
<1>4. StripAnsi(s) \in Seq(Lines) /\ Len(StripAnsi(s)) = Len(s)
  BY <1>1, <1>2, <1>3
<1> QED
  BY <1>1, <1>2, <1>3, <1>4

\* The carriage returns of a line.
LEMMA CrLine ==
  ASSUME NEW l \in Lines, NEW n \in Nat, l.verbatim \/ n = 0
  PROVE  LET m == [l EXCEPT !.cr = n]
         IN /\ m \in Lines /\ m.verbatim = l.verbatim /\ m.text = l.text /\ m.cr = n
            /\ l.cr = n => m = l
<1> DEFINE m == [l EXCEPT !.cr = n]
<1>1. CASE l \in VerbatimLines
  <2>1. m \in VerbatimLines
    BY <1>1 DEF VerbatimLines
  <2>2. /\ m.verbatim = l.verbatim /\ m.text = l.text /\ m.cr = n
        /\ l.cr = n => m = l
    BY <1>1 DEF VerbatimLines
  <2> QED
    BY <2>1, <2>2, LineKinds
<1>2. CASE l \in MarkerLine
  <2>1. n = 0
    BY <1>2 DEF MarkerLine
  <2>2. m \in MarkerLine
    BY <1>2, <2>1 DEF MarkerLine
  <2>3. /\ m.verbatim = l.verbatim /\ m.text = l.text /\ m.cr = n
        /\ l.cr = n => m = l
    BY <1>2 DEF MarkerLine
  <2> QED
    BY <2>2, <2>3, LineKinds
<1> QED
  BY <1>1, <1>2, LineKinds

LEMMA StripCrIs ==
  ASSUME NEW s \in Seq(Lines)
  PROVE  /\ StripCr(s) \in Seq(Lines) /\ Len(StripCr(s)) = Len(s)
         /\ \A i \in 1 .. Len(s) :
              /\ StripCr(s)[i].verbatim = s[i].verbatim /\ StripCr(s)[i].text = s[i].text
              /\ s[i].cr = 0 => StripCr(s)[i] = s[i]
<1>1. DOMAIN s = 1 .. Len(s) /\ Len(s) \in Nat /\ \A i \in 1 .. Len(s) : s[i] \in Lines
  OBVIOUS
<1>2. StripCr(s) = [i \in 1 .. Len(s) |-> [s[i] EXCEPT !.cr = 0]]
  BY <1>1 DEF StripCr
<1>3. \A i \in 1 .. Len(s) :
        /\ [s[i] EXCEPT !.cr = 0] \in Lines
        /\ [s[i] EXCEPT !.cr = 0].verbatim = s[i].verbatim
        /\ [s[i] EXCEPT !.cr = 0].text = s[i].text
        /\ s[i].cr = 0 => [s[i] EXCEPT !.cr = 0] = s[i]
  BY <1>1, CrLine
<1>4. StripCr(s) \in Seq(Lines) /\ Len(StripCr(s)) = Len(s)
  BY <1>1, <1>2, <1>3
<1> QED
  BY <1>2, <1>3, <1>4

\* Lines without carriage returns are read as they were printed.
LEMMA ReadIs ==
  ASSUME NEW s \in Seq(Lines)
  PROVE  /\ DOMAIN Read(s) = 1 .. Len(s)
         /\ \A i \in 1 .. Len(s) : Read(s)[i].text = s[i].text /\ Read(s)[i].cr \in Nat
         /\ (\A i \in 1 .. Len(s) : s[i].cr = 0) => Read(s) = s
<1> DEFINE cr(i) == IF s[i].cr = 0 THEN 0 ELSE s[i].cr - 1
<1>1. DOMAIN s = 1 .. Len(s) /\ Len(s) \in Nat /\ \A i \in 1 .. Len(s) : s[i] \in Lines
  OBVIOUS
<1>2. Read(s) = [i \in 1 .. Len(s) |-> [s[i] EXCEPT !.cr = cr(i)]]
  BY <1>1 DEF Read
<1>3. ASSUME NEW i \in 1 .. Len(s)
      PROVE  cr(i) \in Nat /\ (s[i].verbatim \/ cr(i) = 0) /\ (s[i].cr = 0 => cr(i) = 0)
  <2>1. s[i].cr \in Nat /\ (~s[i].verbatim => s[i].cr = 0)
    BY <1>1, LineFields
  <2> QED
    BY <2>1
<1> HIDE DEF cr
<1>4. \A i \in 1 .. Len(s) :
        /\ [s[i] EXCEPT !.cr = cr(i)].text = s[i].text /\ [s[i] EXCEPT !.cr = cr(i)].cr = cr(i)
        /\ s[i].cr = cr(i) => [s[i] EXCEPT !.cr = cr(i)] = s[i]
  BY <1>1, <1>3, CrLine
<1>5. ASSUME \A i \in 1 .. Len(s) : s[i].cr = 0 PROVE Read(s) = s
  <2>1. \A i \in 1 .. Len(s) : [s[i] EXCEPT !.cr = cr(i)] = s[i]
    BY <1>3, <1>4, <1>5
  <2>2. s = [i \in 1 .. Len(s) |-> s[i]]
    BY <1>1
  <2> QED
    BY <1>2, <2>1, <2>2
<1>6. DOMAIN Read(s) = 1 .. Len(s)
  BY <1>2
<1>7. \A i \in 1 .. Len(s) : Read(s)[i] = [s[i] EXCEPT !.cr = cr(i)]
  BY <1>2
<1>8. \A i \in 1 .. Len(s) : Read(s)[i].text = s[i].text /\ Read(s)[i].cr \in Nat
  <2> TAKE i \in 1 .. Len(s)
  <2>1. cr(i) \in Nat
    BY <1>3
  <2>2. [s[i] EXCEPT !.cr = cr(i)].text = s[i].text /\ [s[i] EXCEPT !.cr = cr(i)].cr = cr(i)
    BY <1>4
  <2>3. Read(s)[i] = [s[i] EXCEPT !.cr = cr(i)]
    BY <1>7
  <2> QED
    BY <2>1, <2>2, <2>3, Zenon
<1> QED
  BY <1>5, <1>6, <1>8

\* A document printed anew.
LEMMA ReprintType ==
  ASSUME NEW s \in Seq(Lines), NEW rule, rule.kind \in JsonKinds
  PROVE  Reprint(rule, s) \in Seq(Lines)
<1> DEFINE texts == [i \in DOMAIN s |-> s[i].text]
           new == Pretty[<<rule.kind, texts, rule.paths \cap Json[texts]>>]
           lines == [i \in DOMAIN new |-> Verbatim(new[i], FALSE, 0)]
<1>1. ASSUME texts \in DOMAIN Json PROVE lines \in Seq(Lines)
  <2>1. rule.paths \cap Json[texts] \in SUBSET Json[texts]
    OBVIOUS
  <2> HIDE DEF texts
  <2>2. new \in Seq(STRING)
    BY <1>1, <2>1, JsonAssumption
  <2> HIDE DEF new
  <2>3. DOMAIN new = 1 .. Len(new) /\ Len(new) \in Nat /\ \A i \in 1 .. Len(new) : new[i] \in STRING
    BY <2>2
  <2>4. \A t \in STRING : Verbatim(t, FALSE, 0) \in Lines
    BY LineKinds DEF Verbatim, VerbatimLines
  <2>5. \A i \in 1 .. Len(new) : Verbatim(new[i], FALSE, 0) \in Lines
    BY <2>3, <2>4
  <2> DEFINE line(i) == Verbatim(new[i], FALSE, 0)
  <2>6. lines = [i \in 1 .. Len(new) |-> line(i)]
    BY <2>3
  <2>7. \A i \in 1 .. Len(new) : line(i) \in Lines
    BY <2>5
  <2> HIDE DEF lines, line
  <2>8. [i \in 1 .. Len(new) |-> line(i)] \in Seq(Lines)
    BY <2>3, <2>7
  <2> QED
    BY <2>6, <2>8
<1>2. Reprint(rule, s) = lines \/ Reprint(rule, s) = s
  BY DEF Reprint
<1>3. Reprint(rule, s) # s => texts \in DOMAIN Json
  BY DEF Reprint
<1> QED
  BY <1>1, <1>2, <1>3

LEMMA TruncateToType ==
  ASSUME NEW s \in Seq(Lines), NEW n \in Nat
  PROVE  TruncateTo(s, n) \in Seq(Lines)
<1>1. FirstOf(s, n) \in Seq(Lines)
  BY FirstOfPart, PartType
<1>2. Append(FirstOf(s, n), Truncated) \in Seq(Lines)
  BY <1>1, MarkerLines
<1> QED
  BY <1>2 DEF TruncateTo

\* A rule by its kind: what it needs and what it does.
LEMMA RuleCases ==
  ASSUME NEW rule \in Rules, NEW s
  PROVE  \/ /\ rule.kind \in {"keep_lines", "ndjson_filter"} /\ rule.match \in Patterns
            /\ Applied(rule, s) = KeepMatching(s, rule.match)
         \/ /\ rule.kind = "drop_lines" /\ rule.match \in Patterns
            /\ Applied(rule, s) = DropMatching(s, rule.match)
         \/ /\ rule.kind = "collapse_repeated" /\ rule.n \in Nat
            /\ Applied(rule, s) = CollapseRuns(s, rule.match, rule.n)
         \/ /\ rule.kind = "collapse_between"
            /\ Applied(rule, s) = CollapseSection(s, rule.match, rule.end)
         \/ /\ rule.kind = "head" /\ rule.n \in Nat
            /\ Applied(rule, s) = FirstOf(s, rule.n)
         \/ /\ rule.kind = "tail" /\ rule.n \in Nat
            /\ Applied(rule, s) = LastOf(s, rule.n)
         \/ /\ rule.kind = "head_after" /\ rule.n \in Nat
            /\ Applied(rule, s) = HeadAfter(s, rule.n, rule.match)
         \/ /\ rule.kind = "tail_before" /\ rule.n \in Nat
            /\ Applied(rule, s) = TailBefore(s, rule.n, rule.match)
         \/ rule.kind = "dedup" /\ Applied(rule, s) = Dedup(s)
         \/ rule.kind = "strip_ansi" /\ Applied(rule, s) = StripAnsi(s)
         \/ /\ rule.kind = "state_machine" /\ rule.states \in Seq(StateDefs)
            /\ Applied(rule, s) = RunStates(s, rule.states)
         \/ /\ rule.kind = "truncate_to" /\ rule.n \in Nat
            /\ Applied(rule, s) = TruncateTo(s, rule.n)
         \/ rule.kind \in JsonKinds /\ Applied(rule, s) = Reprint(rule, s)
<1>1. CASE rule \in [kind : {"dedup", "strip_ansi"}]
  <2>1. rule.kind \in {"dedup", "strip_ansi"}
    BY <1>1
  <2> QED
    BY <2>1 DEF Applied
<1>2. CASE rule \in [kind : {"keep_lines", "drop_lines", "ndjson_filter"}, match : Patterns]
  <2>1. rule.kind \in {"keep_lines", "drop_lines", "ndjson_filter"} /\ rule.match \in Patterns
    BY <1>2
  <2> QED
    BY <2>1 DEF Applied
<1>3. CASE rule \in [kind : {"head", "tail", "truncate_to"}, n : Nat]
  <2>1. rule.kind \in {"head", "tail", "truncate_to"} /\ rule.n \in Nat
    BY <1>3
  <2> QED
    BY <2>1 DEF Applied
<1>4. CASE rule \in [kind : {"head_after", "tail_before", "collapse_repeated"}, match : Patterns,
                     n : Nat]
  <2>1. rule.kind \in {"head_after", "tail_before", "collapse_repeated"} /\ rule.n \in Nat
    BY <1>4
  <2> QED
    BY <2>1 DEF Applied
<1>5. CASE rule \in [kind : {"collapse_between"}, match : Patterns, end : Patterns]
  <2>1. rule.kind = "collapse_between"
    BY <1>5
  <2> QED
    BY <2>1 DEF Applied
<1>6. CASE rule \in [kind : {"state_machine"}, states : Seq(StateDefs)]
  <2>1. rule.kind = "state_machine" /\ rule.states \in Seq(StateDefs)
    BY <1>6
  <2> QED
    BY <2>1 DEF Applied
<1>7. CASE rule \in [kind : JsonKinds, paths : SUBSET STRING]
  <2>1. rule.kind \in JsonKinds
    BY <1>7
  <2> QED
    BY <2>1 DEF Applied, JsonKinds
<1> QED
  BY <1>1, <1>2, <1>3, <1>4, <1>5, <1>6, <1>7 DEF Rules

LEMMA AppliedType ==
  ASSUME NEW rule \in Rules, NEW s \in Seq(Lines)
  PROVE  Applied(rule, s) \in Seq(Lines)
<1>1. \A p : KeepMatching(s, p) \in Seq(Lines) /\ DropMatching(s, p) \in Seq(Lines)
  BY FilterLaws DEF KeepMatching, DropMatching
<1>2. \A t : Part(s, t) => t \in Seq(Lines)
  BY PartType
<1>3. \A p : \A n \in Nat :
        /\ FirstOf(s, n) \in Seq(Lines) /\ LastOf(s, n) \in Seq(Lines)
        /\ HeadAfter(s, n, p) \in Seq(Lines) /\ TailBefore(s, n, p) \in Seq(Lines)
        /\ TruncateTo(s, n) \in Seq(Lines)
  BY <1>2, FirstOfPart, LastOfPart, HeadAfterPart, TailBeforePart, TruncateToType
<1>4. \A p, q : CollapseRuns(s, p, q) \in Seq(Lines) /\ CollapseSection(s, p, q) \in Seq(Lines)
  BY CollapseRunsType, CollapseSectionType
<1>5. Dedup(s) \in Seq(Lines) /\ StripAnsi(s) \in Seq(Lines)
  BY DedupLaws, StripAnsiType
<1>6. \A d \in Seq(StateDefs) : RunStates(s, d) \in Seq(Lines)
  BY RunStatesType
<1>7. rule.kind \in JsonKinds => Reprint(rule, s) \in Seq(Lines)
  BY ReprintType
<1> QED
  BY <1>1, <1>3, <1>4, <1>5, <1>6, <1>7, RuleCases

LEMMA TicksType ==
  ASSUME NEW rule \in Rules, NEW s \in Seq(Lines)
  PROVE  Ticks(rule, s) \in Nat
<1> DEFINE len == Len(s)
           hit == FirstHit(rule.match, s)
           AtMost(n) == IF n < len THEN n ELSE len
           start == TailStart(s, rule.n, rule.match)
<1>1. len \in Nat /\ hit \in 0 .. len
  BY FirstHitIn
<1>2. \A n \in Nat : AtMost(n) \in Nat
  BY <1>1
<1>3. CASE rule.kind \in {"ndjson_filter", "truncate_to"} \cup JsonKinds
  <2>1. Ticks(rule, s) = 0
    BY <1>3 DEF Ticks, JsonKinds
  <2> QED
    BY <2>1
<1>4. CASE rule.kind \in {"head", "tail"}
  <2>1. rule.n \in Nat
    BY <1>4, RuleCases DEF JsonKinds
  <2>2. Ticks(rule, s) = AtMost(rule.n)
    BY <1>4 DEF Ticks
  <2> QED
    BY <1>2, <2>1, <2>2
<1>5. CASE rule.kind = "head_after" /\ hit # 0
  <2>1. rule.n \in Nat
    BY <1>5, RuleCases DEF JsonKinds
  <2>2. Ticks(rule, s) = AtMost(hit + rule.n + 1)
    BY <1>5 DEF Ticks
  <2> HIDE DEF AtMost, hit, len
  <2>3. hit + rule.n + 1 \in Nat
    BY <1>1, <2>1
  <2> QED
    BY <1>2, <2>2, <2>3
<1>6. CASE rule.kind = "tail_before" /\ hit # 0
  <2>1. rule.n \in Nat
    BY <1>6, RuleCases DEF JsonKinds
  <2>2. Ticks(rule, s) = hit + len - start + 1
    BY <1>6 DEF Ticks
  <2>3. start \in 1 .. len
    BY <1>6, <2>1, TailBeforePart
  <2> HIDE DEF start, hit, len
  <2> QED
    BY <1>1, <2>2, <2>3
<1>7. CASE /\ rule.kind \notin {"ndjson_filter", "truncate_to"} \cup JsonKinds
           /\ rule.kind \notin {"head", "tail"}
           /\ ~(rule.kind = "head_after" /\ hit # 0)
           /\ ~(rule.kind = "tail_before" /\ hit # 0)
  <2>1. Ticks(rule, s) = len
    BY <1>7 DEF Ticks
  <2> QED
    BY <1>1, <2>1
<1> QED
  BY <1>3, <1>4, <1>5, <1>6, <1>7

ApplyAcc == [lines : Seq(Lines), steps : Nat, aborted : BOOLEAN]

LEMMA ApplyOneIs ==
  ASSUME NEW acc \in ApplyAcc, NEW rule \in Rules, NEW budget, NEW slow
  PROVE  /\ ApplyOne(acc, rule, budget, slow) \in ApplyAcc
         /\ acc.aborted => ApplyOne(acc, rule, budget, slow) = acc
         /\ ~acc.aborted /\ Exceeds(acc, rule, budget, slow) =>
              ApplyOne(acc, rule, budget, slow) =
                [lines |-> <<>>, steps |-> acc.steps, aborted |-> TRUE]
         /\ ~acc.aborted /\ ~Exceeds(acc, rule, budget, slow) =>
              ApplyOne(acc, rule, budget, slow) =
                [lines |-> Applied(rule, acc.lines), steps |-> acc.steps + Ticks(rule, acc.lines),
                 aborted |-> FALSE]
<1> DEFINE next == Applied(rule, acc.lines)
           ticks == Ticks(rule, acc.lines)
           after == ApplyOne(acc, rule, budget, slow)
<1>1. acc.lines \in Seq(Lines) /\ acc.steps \in Nat /\ acc.aborted \in BOOLEAN
  BY DEF ApplyAcc
<1>2. next \in Seq(Lines) /\ ticks \in Nat
  BY <1>1, AppliedType, TicksType
<1>3. acc.aborted => after = acc
  BY DEF ApplyOne
<1>4. ~acc.aborted /\ Exceeds(acc, rule, budget, slow) =>
        after = [lines |-> <<>>, steps |-> acc.steps, aborted |-> TRUE]
  BY DEF ApplyOne, ApplyAcc
<1>5. ~acc.aborted /\ ~Exceeds(acc, rule, budget, slow) =>
        after = [lines |-> next, steps |-> acc.steps + ticks, aborted |-> FALSE]
  BY DEF ApplyOne, ApplyAcc
<1> HIDE DEF next, ticks, after
<1>6. after \in ApplyAcc
  <2>1. CASE acc.aborted
    BY <1>3, <2>1
  <2>2. CASE ~acc.aborted /\ Exceeds(acc, rule, budget, slow)
    <3>1. <<>> \in Seq(Lines)
      OBVIOUS
    <3>2. [lines |-> <<>>, steps |-> acc.steps, aborted |-> TRUE] \in ApplyAcc
      BY <1>1, <3>1 DEF ApplyAcc
    <3> QED
      BY <1>4, <2>2, <3>2, Zenon
  <2>3. CASE ~acc.aborted /\ ~Exceeds(acc, rule, budget, slow)
    <3>1. acc.steps + ticks \in Nat
      BY <1>1, <1>2
    <3>2. [lines |-> next, steps |-> acc.steps + ticks, aborted |-> FALSE] \in ApplyAcc
      BY <1>2, <3>1 DEF ApplyAcc
    <3> QED
      BY <1>5, <2>3, <3>2, Zenon
  <2> QED
    BY <2>1, <2>2, <2>3
<1> QED
  BY <1>3, <1>4, <1>5, <1>6 DEF next, ticks, after

Start(s) == [lines |-> s, steps |-> 0, aborted |-> FALSE]

LEMMA ApplyLaws ==
  ASSUME NEW s \in Seq(Lines), NEW budget, NEW slow
  PROVE  /\ ApplyRules(s, <<>>, budget, slow) = Start(s)
         /\ \A rules \in Seq(Rules) : ApplyRules(s, rules, budget, slow) \in ApplyAcc
         /\ \A rules \in Seq(Rules) : \A r \in Rules :
              ApplyRules(s, Append(rules, r), budget, slow) =
                ApplyOne(ApplyRules(s, rules, budget, slow), r, budget, slow)
<1> DEFINE visit == [p \in ApplyAcc \X Rules |-> ApplyOne(p[1], p[2], budget, slow)]
           base == Start(s)
<1>1. visit \in [ApplyAcc \X Rules -> ApplyAcc] /\ base \in ApplyAcc
  <2>1. base \in ApplyAcc
    BY DEF ApplyAcc, Start
  <2> HIDE DEF base
  <2>2. \A p \in ApplyAcc \X Rules : ApplyOne(p[1], p[2], budget, slow) \in ApplyAcc
    BY ApplyOneIs
  <2> QED
    BY <2>1, <2>2
<1>2. \A rules : ApplyRules(s, rules, budget, slow) = Fold(visit, base, rules)
  BY DEF ApplyRules, ApplyAcc, Start
<1>3. \A acc \in ApplyAcc : \A r \in Rules : visit[<<acc, r>>] = ApplyOne(acc, r, budget, slow)
  OBVIOUS
<1> HIDE DEF visit
<1>4. Folds(visit, base, Rules, ApplyAcc)
  <2> HIDE DEF base
  <2> QED
    BY <1>1, FoldLaws
<1>5. ASSUME NEW rules \in Seq(Rules), NEW r \in Rules
      PROVE  ApplyRules(s, Append(rules, r), budget, slow) =
               ApplyOne(ApplyRules(s, rules, budget, slow), r, budget, slow)
  <2> HIDE DEF base
  <2>1. Fold(visit, base, rules) \in ApplyAcc
    BY <1>4 DEF Folds
  <2>2. Fold(visit, base, Append(rules, r)) = visit[<<Fold(visit, base, rules), r>>]
    BY <1>4 DEF Folds
  <2> QED
    BY <1>2, <1>3, <2>1, <2>2
<1>7. /\ ApplyRules(s, <<>>, budget, slow) = base
      /\ \A rules \in Seq(Rules) : ApplyRules(s, rules, budget, slow) \in ApplyAcc
  <2> HIDE DEF base
  <2> QED
    BY <1>2, <1>4 DEF Folds
<1> QED
  BY <1>5, <1>7

-----------------------------------------------------------------------------
(***************************************************************************)
(* Subsequences.                                                           *)
(***************************************************************************)
LEMMA SubEmpty ==
  ASSUME NEW t
  PROVE  IsSubsequence(<<>>, t)
<1> DEFINE place == [i \in {} |-> i]
<1>1. DOMAIN <<>> = {}
  OBVIOUS
<1>2. place \in [DOMAIN <<>> -> DOMAIN t]
  BY <1>1
<1> QED
  BY <1>1, <1>2 DEF IsSubsequence

LEMMA SubSelf ==
  ASSUME NEW S, NEW s \in Seq(S)
  PROVE  IsSubsequence(s, s)
<1> DEFINE place == [i \in DOMAIN s |-> i]
<1>1. place \in [DOMAIN s -> DOMAIN s]
  OBVIOUS
<1>2. \A i \in DOMAIN s : place[i] = i
  OBVIOUS
<1> HIDE DEF place
<1>3. \A i \in DOMAIN s : s[i] = s[place[i]]
  BY <1>2
<1>4. \A i, j \in DOMAIN s : i < j => place[i] < place[j]
  BY <1>2
<1> QED
  BY <1>1, <1>3, <1>4 DEF IsSubsequence

LEMMA SubTrans ==
  ASSUME NEW S, NEW s \in Seq(S), NEW t \in Seq(S), NEW u \in Seq(S),
         IsSubsequence(s, t), IsSubsequence(t, u)
  PROVE  IsSubsequence(s, u)
<1>1. PICK f \in [DOMAIN s -> DOMAIN t] :
        /\ \A i \in DOMAIN s : s[i] = t[f[i]]
        /\ \A i, j \in DOMAIN s : i < j => f[i] < f[j]
  BY DEF IsSubsequence
<1>2. PICK g \in [DOMAIN t -> DOMAIN u] :
        /\ \A i \in DOMAIN t : t[i] = u[g[i]]
        /\ \A i, j \in DOMAIN t : i < j => g[i] < g[j]
  BY DEF IsSubsequence
<1> DEFINE place == [i \in DOMAIN s |-> g[f[i]]]
<1>3. place \in [DOMAIN s -> DOMAIN u]
  OBVIOUS
<1>4. \A i \in DOMAIN s : place[i] = g[f[i]] /\ f[i] \in DOMAIN t
  OBVIOUS
<1> HIDE DEF place
<1>5. \A i \in DOMAIN s : s[i] = u[place[i]]
  BY <1>1, <1>2, <1>4
<1>6. \A i, j \in DOMAIN s : i < j => place[i] < place[j]
  BY <1>1, <1>2, <1>4
<1> QED
  BY <1>3, <1>5, <1>6 DEF IsSubsequence

\* What is a subsequence of a part is one of the whole.
LEMMA SubWider ==
  ASSUME NEW S, NEW s \in Seq(S), NEW t \in Seq(S), NEW u \in Seq(S), IsSubsequence(s, t)
  PROVE  IsSubsequence(s, t \o u)
<1>1. PICK f \in [DOMAIN s -> DOMAIN t] :
        /\ \A i \in DOMAIN s : s[i] = t[f[i]]
        /\ \A i, j \in DOMAIN s : i < j => f[i] < f[j]
  BY DEF IsSubsequence
<1>2. t \o u \in Seq(S) /\ \A k \in DOMAIN t : k \in DOMAIN (t \o u) /\ (t \o u)[k] = t[k]
  OBVIOUS
<1> DEFINE v == t \o u
<1> HIDE DEF v
<1>3. f \in [DOMAIN s -> DOMAIN v]
  BY <1>2 DEF v
<1>4. \A i \in DOMAIN s : s[i] = v[f[i]]
  BY <1>1, <1>2 DEF v
<1>5. IsSubsequence(s, v)
  BY <1>1, <1>3, <1>4 DEF IsSubsequence
<1> QED
  BY <1>5 DEF v

LEMMA SubBehind ==
  ASSUME NEW S, NEW t \in Seq(S), NEW u \in Seq(S)
  PROVE  IsSubsequence(t, u \o t)
<1> DEFINE v == u \o t
           place == [i \in DOMAIN t |-> Len(u) + i]
<1>1. /\ v \in Seq(S) /\ Len(u) \in Nat /\ DOMAIN t = 1 .. Len(t) /\ Len(t) \in Nat
      /\ \A i \in DOMAIN t : Len(u) + i \in DOMAIN v /\ v[Len(u) + i] = t[i]
  OBVIOUS
<1> HIDE DEF v
<1>2. place \in [DOMAIN t -> DOMAIN v]
  BY <1>1
<1>3. \A i \in DOMAIN t : place[i] = Len(u) + i
  OBVIOUS
<1> HIDE DEF place
<1>4. \A i \in DOMAIN t : t[i] = v[place[i]]
  BY <1>1, <1>3
<1>5. \A i, j \in DOMAIN t : i < j => place[i] < place[j]
  BY <1>1, <1>3
<1>6. IsSubsequence(t, v)
  BY <1>2, <1>4, <1>5 DEF IsSubsequence
<1> QED
  BY <1>6 DEF v

LEMMA SubAppend ==
  ASSUME NEW S, NEW s \in Seq(S), NEW t \in Seq(S), NEW x \in S, IsSubsequence(s, t)
  PROVE  IsSubsequence(Append(s, x), Append(t, x))
<1>1. PICK f \in [DOMAIN s -> DOMAIN t] :
        /\ \A i \in DOMAIN s : s[i] = t[f[i]]
        /\ \A i, j \in DOMAIN s : i < j => f[i] < f[j]
  BY DEF IsSubsequence
<1> DEFINE n == Len(s)
           m == Len(t)
           v == Append(s, x)
           w == Append(t, x)
           place == [i \in 1 .. n + 1 |-> IF i = n + 1 THEN m + 1 ELSE f[i]]
<1>2. /\ n \in Nat /\ DOMAIN s = 1 .. n /\ DOMAIN v = 1 .. n + 1 /\ v[n + 1] = x
      /\ \A i \in 1 .. n : v[i] = s[i]
  OBVIOUS
<1>3. /\ m \in Nat /\ DOMAIN t = 1 .. m /\ DOMAIN w = 1 .. m + 1 /\ w[m + 1] = x
      /\ \A i \in 1 .. m : w[i] = t[i]
  OBVIOUS
<1> HIDE DEF v, w, n, m
<1>4. \A i \in 1 .. n : f[i] \in 1 .. m
  BY <1>2, <1>3
<1>5. place[n + 1] = m + 1 /\ \A i \in 1 .. n : place[i] = f[i]
  BY <1>2
<1>6. place \in [1 .. n + 1 -> 1 .. m + 1]
  <2> SUFFICES ASSUME NEW i \in 1 .. n + 1
               PROVE  (IF i = n + 1 THEN m + 1 ELSE f[i]) \in 1 .. m + 1
    OBVIOUS
  <2>1. CASE i = n + 1
    BY <1>3, <2>1
  <2>2. CASE i # n + 1
    <3>1. i \in 1 .. n
      BY <1>2, <2>2
    <3> QED
      BY <1>3, <1>4, <2>2, <3>1
  <2> QED
    BY <2>1, <2>2
<1> HIDE DEF place
<1>7. ASSUME NEW i \in 1 .. n + 1 PROVE v[i] = w[place[i]]
  <2>1. CASE i = n + 1
    BY <1>2, <1>3, <1>5, <2>1
  <2>2. CASE i # n + 1
    <3>1. i \in 1 .. n
      BY <1>2, <2>2
    <3>2. place[i] = f[i] /\ f[i] \in 1 .. m
      BY <1>4, <1>5, <3>1
    <3> QED
      BY <1>1, <1>2, <1>3, <3>1, <3>2
  <2> QED
    BY <2>1, <2>2
<1>8. ASSUME NEW i \in 1 .. n + 1, NEW j \in 1 .. n + 1, i < j PROVE place[i] < place[j]
  <2>1. i \in 1 .. n
    BY <1>2, <1>8
  <2>2. place[i] = f[i] /\ f[i] \in 1 .. m
    BY <1>4, <1>5, <2>1
  <2>3. CASE j = n + 1
    BY <1>3, <1>5, <2>2, <2>3
  <2>4. CASE j # n + 1
    <3>1. j \in 1 .. n
      BY <1>2, <2>4
    <3>2. place[j] = f[j]
      BY <1>5, <3>1
    <3> QED
      BY <1>1, <1>2, <1>8, <2>1, <2>2, <3>1, <3>2
  <2> QED
    BY <2>3, <2>4
<1>9. IsSubsequence(v, w)
  BY <1>2, <1>3, <1>6, <1>7, <1>8 DEF IsSubsequence
<1> QED
  BY <1>9 DEF v, w
-----------------------------------------------------------------------------
(***************************************************************************)
(* Verbatim lines.                                                         *)
(***************************************************************************)
LEMMA VerbatimLaws ==
  /\ VerbatimOf(<<>>) = <<>>
  /\ \A s \in Seq(Lines) : VerbatimOf(s) \in Seq(Lines)
  /\ \A s \in Seq(Lines) : \A x \in Lines :
       VerbatimOf(Append(s, x)) = IF x.verbatim THEN Append(VerbatimOf(s), x) ELSE VerbatimOf(s)
<1> DEFINE keep == {l \in Lines : l.verbatim}
<1>1. \A s : VerbatimOf(s) = Filter(s, keep)
  BY DEF VerbatimOf
<1>2. \A x \in Lines : x \in keep <=> x.verbatim
  OBVIOUS
<1> HIDE DEF keep
<1>3. ASSUME NEW s \in Seq(Lines), NEW x \in Lines
      PROVE  VerbatimOf(Append(s, x)) =
               IF x.verbatim THEN Append(VerbatimOf(s), x) ELSE VerbatimOf(s)
  <2>1. Filter(Append(s, x), keep) =
                IF x \in keep THEN Append(Filter(s, keep), x) ELSE Filter(s, keep)
    BY FilterLaws
  <2>2. CASE x.verbatim
    BY <1>1, <1>2, <2>1, <2>2
  <2>3. CASE ~x.verbatim
    BY <1>1, <1>2, <2>1, <2>3
  <2> QED
    BY <2>2, <2>3
<1>4. VerbatimOf(<<>>) = <<>> /\ \A s \in Seq(Lines) : VerbatimOf(s) \in Seq(Lines)
  BY <1>1, FilterLaws
<1> QED
  BY <1>3, <1>4

LEMMA VerbatimConcat ==
  ASSUME NEW s \in Seq(Lines), NEW t \in Seq(Lines)
  PROVE  VerbatimOf(s \o t) = VerbatimOf(s) \o VerbatimOf(t)
<1> DEFINE P == {u \in Seq(Lines) : VerbatimOf(s \o u) = VerbatimOf(s) \o VerbatimOf(u)}
<1>1. <<>> \in P
  <2>1. s \o <<>> = s /\ VerbatimOf(s) \o <<>> = VerbatimOf(s)
    BY VerbatimLaws
  <2> QED
    BY <2>1, VerbatimLaws
<1>2. ASSUME NEW u \in Seq(Lines), NEW x \in Lines, u \in P PROVE Append(u, x) \in P
  <2>1. s \o Append(u, x) = Append(s \o u, x) /\ s \o u \in Seq(Lines) /\ Append(u, x) \in Seq(Lines)
    OBVIOUS
  <2>2. VerbatimOf(s \o u) = VerbatimOf(s) \o VerbatimOf(u)
    BY <1>2
  <2>3. VerbatimOf(s) \in Seq(Lines) /\ VerbatimOf(u) \in Seq(Lines)
    BY VerbatimLaws
  <2>4. VerbatimOf(s) \o Append(VerbatimOf(u), x) = Append(VerbatimOf(s) \o VerbatimOf(u), x)
    BY <2>3
  <2>5. VerbatimOf(s \o Append(u, x)) = VerbatimOf(s) \o VerbatimOf(Append(u, x))
    <3>1. CASE x.verbatim
      BY <2>1, <2>2, <2>4, <3>1, VerbatimLaws
    <3>2. CASE ~x.verbatim
      BY <2>1, <2>2, <3>2, VerbatimLaws
    <3> QED
      BY <3>1, <3>2
  <2> QED
    BY <2>1, <2>5
<1>3. Seq(Lines) \subseteq P
  <2> HIDE DEF P
  <2> QED
    BY <1>1, <1>2, SeqInduct
<1> QED
  BY <1>3

\* The verbatim lines of t are lines of s in their order, none twice.
Keeps(s, t) == IsSubsequence(VerbatimOf(t), VerbatimOf(s))

LEMMA KeepsEmpty ==
  ASSUME NEW s
  PROVE  Keeps(s, <<>>)
BY VerbatimLaws, SubEmpty DEF Keeps

LEMMA KeepsSelf ==
  ASSUME NEW s \in Seq(Lines)
  PROVE  Keeps(s, s)
BY VerbatimLaws, SubSelf DEF Keeps

LEMMA KeepsTrans ==
  ASSUME NEW s \in Seq(Lines), NEW t \in Seq(Lines), NEW u \in Seq(Lines), Keeps(s, t), Keeps(t, u)
  PROVE  Keeps(s, u)
<1>1. VerbatimOf(s) \in Seq(Lines) /\ VerbatimOf(t) \in Seq(Lines) /\ VerbatimOf(u) \in Seq(Lines)
  BY VerbatimLaws
<1> QED
  BY <1>1, SubTrans DEF Keeps

LEMMA KeepsMore ==
  ASSUME NEW s \in Seq(Lines), NEW t \in Seq(Lines), NEW x \in Lines, Keeps(s, t)
  PROVE  /\ Keeps(Append(s, x), t) /\ Keeps(Append(s, x), Append(t, x))
         /\ \A y \in Lines : ~y.verbatim => Keeps(s, Append(t, y))
<1> DEFINE vs == VerbatimOf(s)
           vt == VerbatimOf(t)
<1>1. vs \in Seq(Lines) /\ vt \in Seq(Lines)
  BY VerbatimLaws
<1>2. IsSubsequence(vt, vs)
  BY DEF Keeps
<1>3. /\ VerbatimOf(Append(s, x)) = IF x.verbatim THEN Append(vs, x) ELSE vs
      /\ VerbatimOf(Append(t, x)) = IF x.verbatim THEN Append(vt, x) ELSE vt
      /\ \A y \in Lines : ~y.verbatim => VerbatimOf(Append(t, y)) = vt
  BY VerbatimLaws
<1> HIDE DEF vs, vt
<1>4. IsSubsequence(vt, Append(vs, x))
  <2>1. Append(vs, x) = vs \o <<x>> /\ <<x>> \in Seq(Lines)
    BY <1>1
  <2> QED
    BY <1>1, <1>2, <2>1, SubWider
<1>5. IsSubsequence(Append(vt, x), Append(vs, x))
  BY <1>1, <1>2, SubAppend
<1>6. Keeps(Append(s, x), t)
  BY <1>2, <1>3, <1>4 DEF Keeps, vt
<1>7. Keeps(Append(s, x), Append(t, x))
  BY <1>2, <1>3, <1>5 DEF Keeps
<1>8. \A y \in Lines : ~y.verbatim => Keeps(s, Append(t, y))
  BY <1>2, <1>3 DEF Keeps, vs
<1> QED
  BY <1>6, <1>7, <1>8

LEMMA KeepsPrefix ==
  ASSUME NEW s \in Seq(Lines), NEW t \in Seq(Lines), NEW u \in Seq(Lines), Keeps(s, t \o u)
  PROVE  Keeps(s, t)
<1>1. VerbatimOf(s) \in Seq(Lines) /\ VerbatimOf(t) \in Seq(Lines) /\ VerbatimOf(u) \in Seq(Lines)
  BY VerbatimLaws
<1>2. VerbatimOf(t \o u) = VerbatimOf(t) \o VerbatimOf(u)
  BY VerbatimConcat
<1>3. VerbatimOf(t) \o VerbatimOf(u) \in Seq(Lines)
  BY <1>1
<1>4. IsSubsequence(VerbatimOf(t), VerbatimOf(t))
  BY <1>1, SubSelf
<1>5. IsSubsequence(VerbatimOf(t), VerbatimOf(t) \o VerbatimOf(u))
  BY <1>1, <1>4, SubWider
<1> QED
  BY <1>1, <1>2, <1>3, <1>5, SubTrans DEF Keeps

LEMMA KeepsFilter ==
  ASSUME NEW s \in Seq(Lines), NEW keep
  PROVE  Keeps(s, Filter(s, keep))
<1> DEFINE P == {u \in Seq(Lines) : Keeps(u, Filter(u, keep))}
<1>1. <<>> \in P
  BY FilterLaws, KeepsEmpty
<1>2. ASSUME NEW u \in Seq(Lines), NEW x \in Lines, u \in P PROVE Append(u, x) \in P
  <2>6. Filter(u, keep) \in Seq(Lines)
    BY FilterLaws
  <2>1. Filter(u, keep) \in Seq(Lines) /\ Append(u, x) \in Seq(Lines)
    BY <2>6
  <2>2. Keeps(u, Filter(u, keep))
    BY <1>2
  <2>3. /\ Keeps(Append(u, x), Filter(u, keep))
        /\ Keeps(Append(u, x), Append(Filter(u, keep), x))
    BY <2>1, <2>2, KeepsMore
  <2>4. Filter(Append(u, x), keep) = IF x \in keep THEN Append(Filter(u, keep), x) ELSE Filter(u, keep)
    BY FilterLaws
  <2>5. Keeps(Append(u, x), Filter(Append(u, x), keep))
    BY <2>3, <2>4
  <2> QED
    BY <2>1, <2>5
<1>3. Seq(Lines) \subseteq P
  <2> HIDE DEF P
  <2> QED
    BY <1>1, <1>2, SeqInduct
<1> QED
  BY <1>3

LEMMA KeepsDedup ==
  ASSUME NEW s \in Seq(Lines)
  PROVE  Keeps(s, Dedup(s))
<1> DEFINE P == {u \in Seq(Lines) : Keeps(u, Dedup(u))}
<1>1. <<>> \in P
  BY DedupLaws, KeepsEmpty
<1>2. ASSUME NEW u \in Seq(Lines), NEW x \in Lines, u \in P PROVE Append(u, x) \in P
  <2>1. Dedup(u) \in Seq(Lines) /\ Append(u, x) \in Seq(Lines)
    BY DedupLaws
  <2>2. Keeps(u, Dedup(u))
    BY <1>2
  <2>3. Keeps(Append(u, x), Dedup(u)) /\ Keeps(Append(u, x), Append(Dedup(u), x))
    BY <2>1, <2>2, KeepsMore
  <2>4. Dedup(Append(u, x)) = Dedup(u) \/ Dedup(Append(u, x)) = Append(Dedup(u), x)
    BY DedupLaws
  <2>5. Keeps(Append(u, x), Dedup(Append(u, x)))
    BY <2>3, <2>4
  <2> QED
    BY <2>1, <2>5
<1>3. Seq(Lines) \subseteq P
  <2> HIDE DEF P
  <2> QED
    BY <1>1, <1>2, SeqInduct
<1> QED
  BY <1>3

\* A run that is flushed leaves its lines or a placeholder.
LEMMA KeepsFlush ==
  ASSUME NEW s \in Seq(Lines), NEW acc \in RunAcc, NEW min, Keeps(s, acc.out \o acc.run)
  PROVE  Keeps(s, Flush(acc, min).out)
<1>1. acc.out \in Seq(Lines) /\ acc.run \in Seq(Lines) /\ Len(acc.run) \in Nat
  BY DEF RunAcc
<1>2. CASE Flush(acc, min).out = acc.out \o acc.run
  BY <1>2
<1>3. CASE Flush(acc, min).out = acc.out \o <<Placeholder(Len(acc.run))>>
  <2> DEFINE mark == Placeholder(Len(acc.run))
  <2>1. mark \in Lines /\ ~mark.verbatim
    BY <1>1, MarkerLines DEF Placeholder
  <2> HIDE DEF mark
  <2>2. Keeps(s, acc.out)
    BY <1>1, KeepsPrefix
  <2>3. Keeps(s, Append(acc.out, mark))
    BY <1>1, <2>1, <2>2, KeepsMore
  <2>4. acc.out \o <<mark>> = Append(acc.out, mark)
    BY <1>1, <2>1
  <2> QED
    BY <1>3, <2>3, <2>4 DEF mark
<1> QED
  BY <1>2, <1>3, FlushType

LEMMA KeepsCollapseRuns ==
  ASSUME NEW s \in Seq(Lines), NEW pattern, NEW min
  PROVE  Keeps(s, CollapseRuns(s, pattern, min))
<1> DEFINE R(u) == RunsIn(u, pattern, min)
           P == {u \in Seq(Lines) : Keeps(u, R(u).out \o R(u).run)}
<1>1. <<>> \in P
  <2>1. R(<<>>) = [out |-> <<>>, run |-> <<>>]
    BY RunsLaws
  <2>2. R(<<>>).out \o R(<<>>).run = <<>>
    BY <2>1
  <2>3. <<>> \in Seq(Lines)
    OBVIOUS
  <2> HIDE DEF R
  <2> QED
    BY <2>2, <2>3, KeepsEmpty
<1>2. ASSUME NEW u \in Seq(Lines), NEW x \in Lines, u \in P PROVE Append(u, x) \in P
  <2> DEFINE acc == R(u)
             out == acc.out
             run == acc.run
  <2>1. acc \in RunAcc /\ R(Append(u, x)) = RunStep(acc, x, pattern, min)
    BY RunsLaws
  <2>2. Keeps(u, out \o run)
    BY <1>2
  <2>9. out \in Seq(Lines) /\ run \in Seq(Lines) /\ Append(u, x) \in Seq(Lines)
    BY <2>1 DEF RunAcc
  <2> HIDE DEF R
  <2>3. CASE Hits(pattern, x)
    <3>1. R(Append(u, x)) = [out |-> out, run |-> Append(run, x)]
      BY <2>1, <2>3, RunStepIs
    <3> HIDE DEF acc, out, run
    <3>5. R(Append(u, x)).out = out /\ R(Append(u, x)).run = Append(run, x)
      BY <3>1
    <3>2. R(Append(u, x)).out \o R(Append(u, x)).run = out \o Append(run, x)
      BY <3>5
    <3>3. out \o Append(run, x) = Append(out \o run, x) /\ out \o run \in Seq(Lines)
      BY <2>9
    <3>4. Keeps(Append(u, x), Append(out \o run, x))
      BY <2>2, <3>3, KeepsMore
    <3> QED
      BY <2>9, <3>2, <3>3, <3>4
  <2>4. CASE ~Hits(pattern, x)
    <3> DEFINE done == Flush(acc, min).out
    <3>1. R(Append(u, x)) = [out |-> Append(done, x), run |-> <<>>]
      BY <2>1, <2>4, RunStepIs
    <3>2. done \in Seq(Lines)
      BY <2>1, FlushType
    <3>3. Keeps(u, done)
      BY <2>1, <2>2, KeepsFlush
    <3> HIDE DEF done
    <3>4. R(Append(u, x)).out \o R(Append(u, x)).run = Append(done, x) \o <<>>
      BY <3>1
    <3>5. Append(done, x) \o <<>> = Append(done, x)
      BY <3>2
    <3>6. Keeps(Append(u, x), Append(done, x))
      BY <3>2, <3>3, KeepsMore
    <3> QED
      BY <2>9, <3>4, <3>5, <3>6
  <2> QED
    BY <2>3, <2>4
<1>3. Seq(Lines) \subseteq P
  <2> HIDE DEF P
  <2> QED
    BY <1>1, <1>2, SeqInduct
<1>4. R(s) \in RunAcc /\ Keeps(s, R(s).out \o R(s).run)
  BY <1>3, RunsLaws
<1>5. CollapseRuns(s, pattern, min) = Flush(R(s), min).out
  BY DEF CollapseRuns
<1> HIDE DEF R
<1> QED
  BY <1>4, <1>5, KeepsFlush

LEMMA KeepsCollapseSection ==
  ASSUME NEW s \in Seq(Lines), NEW begin, NEW end
  PROVE  Keeps(s, CollapseSection(s, begin, end))
<1> DEFINE F(u) == Fenced(u, begin, end)
           P == {u \in Seq(Lines) : Keeps(u, F(u).out)}
<1>1. <<>> \in P
  <2>1. F(<<>>).out = <<>>
    BY FencedLaws
  <2> HIDE DEF F
  <2> QED
    BY <2>1, KeepsEmpty
<1>2. ASSUME NEW u \in Seq(Lines), NEW x \in Lines, u \in P PROVE Append(u, x) \in P
  <2> DEFINE acc == F(u)
  <2>1. acc \in FenceAcc /\ F(Append(u, x)) = FenceStep(acc, x, begin, end)
    BY FencedLaws
  <2>2. Keeps(u, acc.out)
    BY <1>2
  <2> HIDE DEF F, acc
  <2>3. acc.out \in Seq(Lines) /\ acc.n \in Nat /\ Append(u, x) \in Seq(Lines)
    BY <2>1 DEF FenceAcc
  <2>4. Keeps(Append(u, x), acc.out) /\ Keeps(Append(u, x), Append(acc.out, x))
    BY <2>2, <2>3, KeepsMore
  <2>5. Keeps(Append(u, x), acc.out \o <<Placeholder(acc.n), x>>)
    <3> DEFINE mark == Placeholder(acc.n)
    <3>1. mark \in Lines /\ ~mark.verbatim
      BY <2>3, MarkerLines DEF Placeholder
    <3> HIDE DEF mark
    <3>2. Keeps(u, Append(acc.out, mark)) /\ Append(acc.out, mark) \in Seq(Lines)
      BY <2>2, <2>3, <3>1, KeepsMore
    <3>3. Keeps(Append(u, x), Append(Append(acc.out, mark), x))
      BY <3>2, KeepsMore
    <3>4. acc.out \o <<mark, x>> = Append(Append(acc.out, mark), x)
      BY <2>3, <3>1
    <3> QED
      BY <3>3, <3>4 DEF mark
  <2>6. Keeps(Append(u, x), F(Append(u, x)).out)
    <3>1. CASE ~acc.inside
      <4>2. FenceStep(acc, x, begin, end) =
              [out |-> Append(acc.out, x), inside |-> Hits(begin, x), n |-> 0]
        BY <2>1, <3>1, FenceStepIs
      <4>1. F(Append(u, x)).out = Append(acc.out, x)
        BY <2>1, <4>2
      <4> QED
        BY <2>4, <4>1
    <3>2. CASE acc.inside /\ Hits(end, x)
      <4>1. F(Append(u, x)).out = acc.out \o <<Placeholder(acc.n), x>>
        BY <2>1, <3>2, FenceStepIs
      <4> QED
        BY <2>5, <4>1
    <3>3. CASE acc.inside /\ ~Hits(end, x)
      <4>2. FenceStep(acc, x, begin, end) = [out |-> acc.out, inside |-> TRUE, n |-> acc.n + 1]
        BY <2>1, <3>3, FenceStepIs
      <4>1. F(Append(u, x)).out = acc.out
        BY <2>1, <4>2
      <4> QED
        BY <2>4, <4>1
    <3> QED
      BY <3>1, <3>2, <3>3
  <2> QED
    BY <2>3, <2>6
<1>3. Seq(Lines) \subseteq P
  <2> HIDE DEF P
  <2> QED
    BY <1>1, <1>2, SeqInduct
<1> DEFINE acc == F(s)
<1>4. acc \in FenceAcc /\ Keeps(s, acc.out)
  BY <1>3, FencedLaws
<1>5. CollapseSection(s, begin, end) =
        IF acc.inside /\ acc.n > 0 THEN Append(acc.out, Placeholder(acc.n)) ELSE acc.out
  BY DEF CollapseSection
<1> HIDE DEF F, acc, P
<1>6. acc.out \in Seq(Lines) /\ acc.n \in Nat
  BY <1>4 DEF FenceAcc
<1>7. Keeps(s, Append(acc.out, Placeholder(acc.n)))
  <2> DEFINE mark == Placeholder(acc.n)
  <2>1. mark \in Lines /\ ~mark.verbatim
    BY <1>6, MarkerLines DEF Placeholder
  <2> HIDE DEF mark
  <2>2. Keeps(s, Append(acc.out, mark))
    BY <1>4, <1>6, <2>1, KeepsMore
  <2> QED
    BY <2>2 DEF mark
<1> QED
  BY <1>4, <1>5, <1>7

LEMMA KeepsRunStates ==
  ASSUME NEW s \in Seq(Lines), NEW states \in Seq(StateDefs)
  PROVE  Keeps(s, RunStates(s, states))
<1> DEFINE P == {u \in Seq(Lines) : Keeps(u, StatesIn(u, states).out)}
<1>1. <<>> \in P
  <2>1. StatesIn(<<>>, states).out = <<>>
    BY StatesLaws
  <2> QED
    BY <2>1, KeepsEmpty
<1>2. ASSUME NEW u \in Seq(Lines), NEW x \in Lines, u \in P PROVE Append(u, x) \in P
  <2> DEFINE acc == StatesIn(u, states)
  <2>1. acc \in StateAcc /\ StatesIn(Append(u, x), states) = StateStep(acc, x, states)
    BY StatesLaws
  <2>2. Keeps(u, acc.out)
    BY <1>2
  <2> HIDE DEF acc
  <2>3. acc.out \in Seq(Lines) /\ Append(u, x) \in Seq(Lines)
    BY <2>1 DEF StateAcc
  <2>4. Keeps(Append(u, x), acc.out) /\ Keeps(Append(u, x), Append(acc.out, x))
    BY <2>2, <2>3, KeepsMore
  <2>5. \/ StateStep(acc, x, states).out = acc.out
        \/ StateStep(acc, x, states).out = Append(acc.out, x)
    BY <2>1, StateStepIs
  <2> QED
    BY <2>1, <2>3, <2>4, <2>5
<1>3. Seq(Lines) \subseteq P
  <2> HIDE DEF P
  <2> QED
    BY <1>1, <1>2, SeqInduct
<1> QED
  BY <1>3, RunStatesType

LEMMA ConcatIs ==
  ASSUME NEW S, NEW s \in Seq(S), NEW t \in Seq(S)
  PROVE  /\ s \o t \in Seq(S) /\ Len(s \o t) = Len(s) + Len(t)
         /\ \A i \in 1 .. Len(s) : (s \o t)[i] = s[i]
         /\ \A i \in 1 .. Len(t) : (s \o t)[Len(s) + i] = t[i]
<1>1. Len(s) \in Nat /\ Len(t) \in Nat
  OBVIOUS
<1>2. s \o t \in Seq(S) /\ Len(s \o t) = Len(s) + Len(t)
  OBVIOUS
<1>3. \A i \in 1 .. Len(s) : (s \o t)[i] = s[i]
  OBVIOUS
<1>4. ASSUME NEW i \in 1 .. Len(t) PROVE (s \o t)[Len(s) + i] = t[i]
  <2>1. Len(s) + i \in 1 .. Len(s) + Len(t) /\ ~(Len(s) + i <= Len(s)) /\ (Len(s) + i) - Len(s) = i
    BY <1>1
  <2> QED
    BY <2>1
<1> QED
  BY <1>2, <1>3, <1>4

LEMMA KeepsPart ==
  ASSUME NEW s \in Seq(Lines), NEW t, Part(s, t)
  PROVE  Keeps(s, t)
<1>1. PICK a \in 1 .. Len(s) + 1 : \E b \in a - 1 .. Len(s) : t = SubSeq(s, a, b)
  BY DEF Part
<1>2. PICK b \in a - 1 .. Len(s) : t = SubSeq(s, a, b)
  BY <1>1
<1> DEFINE before == SubSeq(s, 1, a - 1)
           behind == SubSeq(s, b + 1, Len(s))
<1>3. Len(s) \in Nat
  OBVIOUS
<1>4. before \in Seq(Lines) /\ Len(before) = a - 1
  OBVIOUS
<1>5. t \in Seq(Lines) /\ Len(t) = b - a + 1
  BY <1>2
<1>6. behind \in Seq(Lines) /\ Len(behind) = Len(s) - b
  OBVIOUS
<1>7. s = before \o (t \o behind)
  <2> DEFINE n == Len(s)
             c == t \o behind
             w == before \o c
  <2>4. n \in Nat /\ a \in 1 .. n + 1 /\ b \in a - 1 .. n
    BY <1>3
  <2>5. /\ \A i \in 1 .. a - 1 : before[i] = s[i]
        /\ \A i \in 1 .. b - a + 1 : t[i] = s[a - 1 + i]
        /\ \A i \in 1 .. n - b : behind[i] = s[b + i]
    BY <1>2, <1>3
  <2>6. Len(before) = a - 1 /\ Len(t) = b - a + 1 /\ Len(behind) = n - b
    BY <1>4, <1>5, <1>6
  <2> HIDE DEF before, behind, n
  <2>7. /\ c \in Seq(Lines) /\ Len(c) = Len(t) + Len(behind)
        /\ \A i \in 1 .. Len(t) : c[i] = t[i]
        /\ \A i \in 1 .. Len(behind) : c[Len(t) + i] = behind[i]
    <3>1. t \in Seq(Lines) /\ behind \in Seq(Lines)
      BY <1>5, <1>6
    <3> QED
      <4>1. c \in Seq(Lines) /\ Len(c) = Len(t) + Len(behind)
        BY <3>1
      <4>2. \A i \in 1 .. Len(t) : c[i] = t[i]
        BY <3>1, ConcatIs
      <4>3. \A i \in 1 .. Len(behind) : c[Len(t) + i] = behind[i]
        BY <3>1, ConcatIs
      <4> QED
        BY <4>1, <4>2, <4>3
  <2>8. /\ w \in Seq(Lines) /\ Len(w) = Len(before) + Len(c)
        /\ \A i \in 1 .. Len(before) : w[i] = before[i]
        /\ \A i \in 1 .. Len(c) : w[Len(before) + i] = c[i]
    <3> HIDE DEF c
    <3> QED
      <4>1. w \in Seq(Lines) /\ Len(w) = Len(before) + Len(c)
        <5>1. before \in Seq(Lines) /\ c \in Seq(Lines)
          BY <1>4, <2>7
        <5> QED
          BY <5>1
      <4>2. \A i \in 1 .. Len(before) : w[i] = before[i]
        BY <1>4, <2>7, ConcatIs
      <4>3. \A i \in 1 .. Len(c) : w[Len(before) + i] = c[i]
        <5>1. before \in Seq(Lines) /\ c \in Seq(Lines)
          BY <1>4, <2>7
        <5> QED
          BY <5>1, ConcatIs
      <4> QED
        BY <4>1, <4>2, <4>3
  <2> HIDE DEF c, w
  <2>1. w \in Seq(Lines) /\ Len(w) = n
    BY <2>4, <2>6, <2>7, <2>8
  <2>2. \A i \in 1 .. n : w[i] = s[i]
    <3> TAKE i \in 1 .. n
    <3>1. CASE i < a
      BY <2>4, <2>5, <2>6, <2>8, <3>1
    <3>2. CASE i >= a /\ i <= b
      <4>1. i - (a - 1) \in 1 .. b - a + 1 /\ i - (a - 1) \in 1 .. Len(c)
        BY <2>4, <2>6, <2>7, <3>2
      <4>2. (a - 1) + (i - (a - 1)) = i
        BY <2>4
      <4>3. w[i] = c[i - (a - 1)]
        BY <2>6, <2>8, <4>1, <4>2
      <4>4. c[i - (a - 1)] = t[i - (a - 1)]
        BY <2>6, <2>7, <4>1
      <4> QED
        BY <2>5, <4>1, <4>2, <4>3, <4>4
    <3>3. CASE i > b
      <4>0. i - b \in 1 .. n - b
        BY <2>4, <3>3
      <4>5. Len(c) = (b - a + 1) + (n - b)
        BY <2>6, <2>7
      <4>1. i - b \in 1 .. n - b /\ (b - a + 1) + (i - b) \in 1 .. Len(c)
        BY <2>4, <4>0, <4>5
      <4>2. (a - 1) + ((b - a + 1) + (i - b)) = i /\ b + (i - b) = i
        BY <2>4
      <4>3. w[i] = c[(b - a + 1) + (i - b)]
        BY <2>6, <2>8, <4>1, <4>2
      <4>4. c[(b - a + 1) + (i - b)] = behind[i - b]
        BY <2>6, <2>7, <4>1
      <4> QED
        BY <2>5, <4>1, <4>2, <4>3, <4>4
    <3> QED
      BY <2>4, <3>1, <3>2, <3>3
  <2>3. w = s
    BY <2>1, <2>2 DEF n
  <2> QED
    BY <2>3 DEF c, w
<1> HIDE DEF before, behind
<1> DEFINE vt == VerbatimOf(t)
           vb == VerbatimOf(behind)
           va == VerbatimOf(before)
<1>8. vt \in Seq(Lines) /\ vb \in Seq(Lines) /\ va \in Seq(Lines)
  BY <1>4, <1>5, <1>6, VerbatimLaws
<1>9. VerbatimOf(s) = va \o (vt \o vb)
  <2>1. t \o behind \in Seq(Lines) /\ VerbatimOf(t \o behind) = vt \o vb
    BY <1>5, <1>6, VerbatimConcat
  <2>2. VerbatimOf(before \o (t \o behind)) = va \o VerbatimOf(t \o behind)
    BY <1>4, <2>1, VerbatimConcat
  <2> QED
    BY <1>7, <2>1, <2>2
<1> HIDE DEF va, vt, vb
<1>10. IsSubsequence(vt, vt \o vb)
  BY <1>8, SubSelf, SubWider
<1>11. vt \o vb \in Seq(Lines) /\ va \o (vt \o vb) \in Seq(Lines)
  BY <1>8
<1>12. IsSubsequence(vt \o vb, va \o (vt \o vb))
  BY <1>8, <1>11, SubBehind
<1>13. IsSubsequence(vt, va \o (vt \o vb))
  BY <1>8, <1>10, <1>11, <1>12, SubTrans
<1> QED
  BY <1>9, <1>13 DEF Keeps, vt

LEMMA KeepsTruncateTo ==
  ASSUME NEW s \in Seq(Lines), NEW n \in Nat
  PROVE  Keeps(s, TruncateTo(s, n))
<1> DEFINE t == FirstOf(s, n)
<1>1. t \in Seq(Lines) /\ Keeps(s, t)
  BY FirstOfPart, PartType, KeepsPart
<1> HIDE DEF t
<1>2. Truncated \in Lines /\ ~Truncated.verbatim
  BY MarkerLines DEF Truncated
<1>3. Keeps(s, Append(t, Truncated))
  BY <1>1, <1>2, KeepsMore
<1> QED
  BY <1>3, KeepsSelf DEF TruncateTo, t

-----------------------------------------------------------------------------
(***************************************************************************)
(* The lines that occur.                                                   *)
(***************************************************************************)
LEMMA RangeAppend ==
  ASSUME NEW S, NEW s \in Seq(S), NEW x \in S
  PROVE  Range(Append(s, x)) = Range(s) \cup {x}
<1> DEFINE n == Len(s)
           t == Append(s, x)
<1>1. /\ n \in Nat /\ DOMAIN s = 1 .. n /\ DOMAIN t = 1 .. n + 1 /\ t[n + 1] = x
      /\ \A i \in 1 .. n : t[i] = s[i]
  OBVIOUS
<1> HIDE DEF n, t
<1>2. Range(s) = {s[i] : i \in 1 .. n} /\ Range(t) = {t[i] : i \in 1 .. n + 1}
  BY <1>1 DEF Range
<1>3. ASSUME NEW y \in Range(t) PROVE y \in Range(s) \cup {x}
  <2>1. PICK i \in 1 .. n + 1 : y = t[i]
    BY <1>2
  <2>2. CASE i = n + 1
    BY <1>1, <2>1, <2>2
  <2>3. CASE i # n + 1
    <3>1. i \in 1 .. n
      BY <1>1, <2>3
    <3> QED
      BY <1>1, <1>2, <2>1, <3>1
  <2> QED
    BY <2>2, <2>3
<1>4. ASSUME NEW y \in Range(s) PROVE y \in Range(t)
  <2>1. PICK i \in 1 .. n : y = s[i]
    BY <1>2
  <2>2. i \in 1 .. n + 1 /\ y = t[i]
    BY <1>1, <2>1
  <2> QED
    BY <1>2, <2>2
<1>5. x \in Range(t)
  <2>1. n + 1 \in 1 .. n + 1
    BY <1>1
  <2> QED
    BY <1>1, <1>2, <2>1
<1>6. Range(t) = Range(s) \cup {x}
  BY <1>3, <1>4, <1>5
<1> QED
  BY <1>6 DEF t

LEMMA RangeEmpty == Range(<<>>) = {}
<1>1. DOMAIN <<>> = {}
  OBVIOUS
<1> QED
  BY <1>1 DEF Range

LEMMA RangeSeq ==
  ASSUME NEW S, NEW s \in Seq(S)
  PROVE  Range(s) \subseteq S /\ \A i \in 1 .. Len(s) : s[i] \in Range(s)
<1>1. DOMAIN s = 1 .. Len(s) /\ \A i \in 1 .. Len(s) : s[i] \in S
  OBVIOUS
<1> QED
  BY <1>1 DEF Range

LEMMA RangeSub ==
  ASSUME NEW s, NEW t, IsSubsequence(s, t)
  PROVE  Range(s) \subseteq Range(t)
<1>1. PICK place \in [DOMAIN s -> DOMAIN t] : \A i \in DOMAIN s : s[i] = t[place[i]]
  BY DEF IsSubsequence
<1>2. \A i \in DOMAIN s : place[i] \in DOMAIN t
  OBVIOUS
<1> QED
  BY <1>1, <1>2 DEF Range

LEMMA RangeFilter ==
  ASSUME NEW s \in Seq(Lines), NEW keep
  PROVE  Range(Filter(s, keep)) = Range(s) \cap keep
<1> DEFINE P == {u \in Seq(Lines) : Range(Filter(u, keep)) = Range(u) \cap keep}
<1>1. <<>> \in P
  <2>1. Filter(<<>>, keep) = <<>> /\ <<>> \in Seq(Lines)
    BY FilterLaws
  <2> QED
    BY <2>1, RangeEmpty
<1>2. ASSUME NEW u \in Seq(Lines), NEW x \in Lines, u \in P PROVE Append(u, x) \in P
  <2>1. Filter(u, keep) \in Seq(Lines)
    BY FilterLaws
  <2>2. Append(u, x) \in Seq(Lines)
    OBVIOUS
  <2>3. Range(Append(u, x)) = Range(u) \cup {x}
    BY RangeAppend
  <2>4. Range(Append(Filter(u, keep), x)) = Range(Filter(u, keep)) \cup {x}
    BY <2>1, RangeAppend
  <2>5. Filter(Append(u, x), keep) = IF x \in keep THEN Append(Filter(u, keep), x) ELSE Filter(u, keep)
    BY FilterLaws
  <2>6. Range(Filter(u, keep)) = Range(u) \cap keep
    BY <1>2
  <2>7. Range(Filter(Append(u, x), keep)) = Range(Append(u, x)) \cap keep
    <3>1. CASE x \in keep
      BY <2>3, <2>4, <2>5, <2>6, <3>1
    <3>2. CASE x \notin keep
      BY <2>3, <2>5, <2>6, <3>2
    <3> QED
      BY <3>1, <3>2
  <2> QED
    BY <2>2, <2>7
<1>3. Seq(Lines) \subseteq P
  <2> HIDE DEF P
  <2> QED
    BY <1>1, <1>2, SeqInduct
<1> QED
  BY <1>3

\* Nor does it change what comes last.
LEMMA DedupKeepsLast ==
  ASSUME NEW s \in Seq(Lines)
  PROVE  /\ Range(Dedup(s)) = Range(s)
         /\ s # <<>> => Dedup(s) # <<>> /\ Dedup(s)[Len(Dedup(s))] = s[Len(s)]
<1> DEFINE P == {u \in Seq(Lines) :
                   /\ Range(Dedup(u)) = Range(u)
                   /\ u # <<>> => Dedup(u) # <<>> /\ Dedup(u)[Len(Dedup(u))] = u[Len(u)]}
<1>1. <<>> \in P
  <2>1. Dedup(<<>>) = <<>> /\ <<>> \in Seq(Lines)
    BY DedupLaws
  <2> QED
    BY <2>1
<1>2. ASSUME NEW u \in Seq(Lines), NEW x \in Lines, u \in P PROVE Append(u, x) \in P
  <2> DEFINE d == Dedup(u)
  <2>1. d \in Seq(Lines)
    BY DedupLaws
  <2>2. Append(u, x) \in Seq(Lines) /\ Append(u, x)[Len(Append(u, x))] = x
    OBVIOUS
  <2>3. Range(Append(u, x)) = Range(u) \cup {x}
    BY RangeAppend
  <2>4. Range(d) = Range(u)
    BY <1>2
  <2>5. Dedup(Append(u, x)) = IF d # <<>> /\ d[Len(d)] = x THEN d ELSE Append(d, x)
    BY DedupLaws
  <2> HIDE DEF d
  <2>6. CASE d # <<>> /\ d[Len(d)] = x
    <3>1. d[Len(d)] \in Range(d)
      <4>1. Len(d) \in 1 .. Len(d)
        BY <2>1, <2>6
      <4> QED
        BY <2>1, <4>1, RangeSeq
    <3>2. Dedup(Append(u, x)) = d
      BY <2>5, <2>6
    <3>3. Range(d) = Range(Append(u, x))
      BY <2>3, <2>4, <2>6, <3>1
    <3> QED
      BY <2>2, <2>6, <3>2, <3>3
  <2>7. CASE ~(d # <<>> /\ d[Len(d)] = x)
    <3>1. Dedup(Append(u, x)) = Append(d, x)
      BY <2>5, <2>7
    <3>2. Range(Append(d, x)) = Range(d) \cup {x}
      BY <2>1, RangeAppend
    <3>3. Append(d, x) # <<>> /\ Append(d, x)[Len(Append(d, x))] = x
      BY <2>1
    <3> QED
      BY <2>2, <2>3, <2>4, <3>1, <3>2, <3>3
  <2> QED
    BY <2>6, <2>7
<1>3. Seq(Lines) \subseteq P
  <2> HIDE DEF P
  <2> QED
    BY <1>1, <1>2, SeqInduct
<1> QED
  BY <1>3

LEMMA RangeVerbatim ==
  ASSUME NEW s \in Seq(Lines)
  PROVE  Range(VerbatimOf(s)) = {l \in Range(s) : l.verbatim}
<1>1. Range(VerbatimOf(s)) = Range(s) \cap {l \in Lines : l.verbatim}
  BY RangeFilter DEF VerbatimOf
<1>2. Range(s) \subseteq Lines
  BY RangeSeq
<1> QED
  BY <1>1, <1>2

-----------------------------------------------------------------------------
(***************************************************************************)
(* Lines without colours.                                                  *)
(***************************************************************************)
PlainSeq == {s \in Seq(Lines) : \A l \in Range(s) : l.colour = FALSE}

LEMMA PlainLine ==
  ASSUME NEW l \in Lines
  PROVE  /\ Plain(l).colour = FALSE /\ Plain(l).verbatim = l.verbatim /\ Plain(l).text = l.text
         /\ Plain(l).cr = l.cr
         /\ l.colour = FALSE => Plain(l) = l
<1>1. l = Same(l)
  BY LineFields
<1>2. Plain(l) = [l EXCEPT !.colour = FALSE]
  BY DEF Plain
<1>3. Plain(l) = [Same(l) EXCEPT !.colour = FALSE]
  BY <1>1, <1>2
<1>4. /\ Plain(l).colour = FALSE /\ Plain(l).verbatim = l.verbatim /\ Plain(l).text = l.text
      /\ Plain(l).cr = l.cr
  BY <1>3 DEF Same
<1>5. l.colour = FALSE => Plain(l) = l
  BY <1>1, <1>3 DEF Same
<1> QED
  BY <1>4, <1>5

LEMMA StripPlain ==
  ASSUME NEW s \in Seq(Lines)
  PROVE  StripAnsi(s) \in PlainSeq /\ (s \in PlainSeq => StripAnsi(s) = s)
<1>1. /\ StripAnsi(s) \in Seq(Lines) /\ Len(StripAnsi(s)) = Len(s) /\ Len(s) \in Nat
      /\ \A i \in 1 .. Len(s) : s[i] \in Lines /\ StripAnsi(s)[i] = Plain(s[i])
  BY StripAnsiType
<1>2. \A i \in 1 .. Len(s) : StripAnsi(s)[i].colour = FALSE
  <2>1. \A l \in Lines : Plain(l).colour = FALSE
    BY PlainLine
  <2> QED
    BY <1>1, <2>1
<1>3. Range(StripAnsi(s)) = {StripAnsi(s)[i] : i \in 1 .. Len(s)}
  BY <1>1 DEF Range
<1>4. StripAnsi(s) \in PlainSeq
  BY <1>1, <1>2, <1>3 DEF PlainSeq
<1>5. ASSUME s \in PlainSeq PROVE StripAnsi(s) = s
  <2>1. \A i \in 1 .. Len(s) : s[i].colour = FALSE
    BY <1>5, RangeSeq DEF PlainSeq
  <2>3. \A l \in Lines : l.colour = FALSE => Plain(l) = l
    BY PlainLine
  <2>2. \A i \in 1 .. Len(s) : StripAnsi(s)[i] = s[i]
    BY <1>1, <2>1, <2>3
  <2> QED
    BY <1>1, <2>2
<1> QED
  BY <1>4, <1>5

LEMMA KeepsPlain ==
  ASSUME NEW s \in PlainSeq, NEW t \in Seq(Lines), Keeps(s, t)
  PROVE  t \in PlainSeq
<1>1. s \in Seq(Lines)
  BY DEF PlainSeq
<1>2. Range(VerbatimOf(t)) \subseteq Range(VerbatimOf(s))
  BY RangeSub DEF Keeps
<1>3. {l \in Range(t) : l.verbatim} \subseteq {l \in Range(s) : l.verbatim}
  BY <1>1, <1>2, RangeVerbatim
<1>4. ASSUME NEW l \in Range(t) PROVE l.colour = FALSE
  <2>1. l \in Lines
    BY RangeSeq
  <2>2. CASE l.verbatim
    BY <1>3, <2>2 DEF PlainSeq
  <2>3. CASE ~l.verbatim
    BY <2>1, <2>3, LineFields
  <2> QED
    BY <2>2, <2>3
<1> QED
  BY <1>4 DEF PlainSeq

\* No rule but the JSON path rules adds, changes or reorders a verbatim line.
LEMMA AppliedKeeps ==
  ASSUME NEW rule \in Rules, rule.kind \notin JsonKinds, NEW s \in PlainSeq
  PROVE  Keeps(s, Applied(rule, s))
<1>1. s \in Seq(Lines)
  BY DEF PlainSeq
<1>2. \A p : Keeps(s, KeepMatching(s, p)) /\ Keeps(s, DropMatching(s, p))
  BY <1>1, KeepsFilter DEF KeepMatching, DropMatching
<1>3. \A t : Part(s, t) => Keeps(s, t)
  BY <1>1, KeepsPart
<1>4. \A p : \A n \in Nat :
        /\ Keeps(s, FirstOf(s, n)) /\ Keeps(s, LastOf(s, n))
        /\ Keeps(s, HeadAfter(s, n, p)) /\ Keeps(s, TailBefore(s, n, p))
        /\ Keeps(s, TruncateTo(s, n))
  BY <1>1, <1>3, FirstOfPart, LastOfPart, HeadAfterPart, TailBeforePart, KeepsTruncateTo
<1>5. \A p, q : Keeps(s, CollapseRuns(s, p, q)) /\ Keeps(s, CollapseSection(s, p, q))
  BY <1>1, KeepsCollapseRuns, KeepsCollapseSection
<1>6. Keeps(s, Dedup(s)) /\ Keeps(s, StripAnsi(s))
  BY <1>1, KeepsDedup, KeepsSelf, StripPlain
<1>7. \A d \in Seq(StateDefs) : Keeps(s, RunStates(s, d))
  BY <1>1, KeepsRunStates
<1> QED
  BY <1>2, <1>4, <1>5, <1>6, <1>7, RuleCases

LineRules == {r \in Rules : r.kind \notin JsonKinds}

LEMMA ApplyRulesKeeps ==
  ASSUME NEW s \in PlainSeq, NEW rules \in Seq(LineRules), NEW budget, NEW slow
  PROVE  Keeps(s, ApplyRules(s, rules, budget, slow).lines)
<1>1. s \in Seq(Lines)
  BY DEF PlainSeq
<1> DEFINE A(r) == ApplyRules(s, r, budget, slow)
           P == {r \in Seq(LineRules) : Keeps(s, A(r).lines)}
<1>2. <<>> \in P
  <2>1. A(<<>>).lines = s
    BY <1>1, ApplyLaws DEF Start
  <2>2. <<>> \in Seq(LineRules)
    OBVIOUS
  <2> HIDE DEF A
  <2> QED
    BY <1>1, <2>1, <2>2, KeepsSelf
<1>3. ASSUME NEW r \in Seq(LineRules), NEW rule \in LineRules, r \in P PROVE Append(r, rule) \in P
  <2> DEFINE acc == A(r)
             next == ApplyOne(acc, rule, budget, slow)
  <2>0. r \in Seq(Rules) /\ rule \in Rules /\ rule.kind \notin JsonKinds
    <3>1. LineRules \subseteq Rules
      BY DEF LineRules
    <3>2. r \in Seq(Rules)
      BY <3>1
    <3> QED
      BY <3>2 DEF LineRules
  <2>1. acc \in ApplyAcc /\ A(Append(r, rule)) = next
    BY <1>1, <2>0, ApplyLaws
  <2>2. Keeps(s, acc.lines)
    BY <1>3
  <2>3. Append(r, rule) \in Seq(LineRules)
    OBVIOUS
  <2> HIDE DEF A, acc
  <2>4. acc.lines \in Seq(Lines)
    BY <2>1 DEF ApplyAcc
  <2>5. Keeps(s, next.lines)
    <3> HIDE DEF next
    <3>1. CASE acc.aborted
      BY <2>0, <2>2, <3>1, ApplyOneIs, <2>1 DEF next
    <3>2. CASE ~acc.aborted /\ Exceeds(acc, rule, budget, slow)
      <4>1. next = [lines |-> <<>>, steps |-> acc.steps, aborted |-> TRUE]
        BY <2>0, <2>1, <3>2, ApplyOneIs DEF next
      <4> QED
        BY <4>1, KeepsEmpty
    <3>3. CASE ~acc.aborted /\ ~Exceeds(acc, rule, budget, slow)
      <4>1. next = [lines |-> Applied(rule, acc.lines), steps |-> acc.steps + Ticks(rule, acc.lines),
                    aborted |-> FALSE]
        BY <2>0, <2>1, <3>3, ApplyOneIs DEF next
      <4>2. Keeps(acc.lines, Applied(rule, acc.lines)) /\ Applied(rule, acc.lines) \in Seq(Lines)
        BY <2>0, <2>2, <2>4, KeepsPlain, AppliedKeeps, AppliedType
      <4>3. Keeps(s, Applied(rule, acc.lines))
        BY <1>1, <2>2, <2>4, <4>2, KeepsTrans
      <4> QED
        BY <4>1, <4>3
    <3> QED
      BY <3>1, <3>2, <3>3
  <2> HIDE DEF next
  <2> QED
    BY <2>1, <2>3, <2>5
<1>4. Seq(LineRules) \subseteq P
  <2> HIDE DEF P
  <2> QED
    BY <1>2, <1>3, SeqInduct
<1> QED
  BY <1>4

-----------------------------------------------------------------------------
(***************************************************************************)
(* Counting lines: those shown and those a placeholder stands for.         *)
(***************************************************************************)
VLines == {l \in Lines : l.verbatim}

LEMMA VSeq ==
  ASSUME NEW s \in Seq(VLines)
  PROVE  s \in Seq(Lines) /\ \A l \in Range(s) : l \in Lines /\ l.verbatim
<1>1. \A i \in 1 .. Len(s) : s[i] \in VLines
  OBVIOUS
<1>2. DOMAIN s = 1 .. Len(s) /\ Len(s) \in Nat
  OBVIOUS
<1>3. s \in [1 .. Len(s) -> Lines]
  BY <1>1, <1>2 DEF VLines
<1>4. s \in Seq(Lines)
  BY <1>1, <1>2 DEF VLines
<1>5. Range(s) \subseteq VLines
  BY RangeSeq
<1> QED
  BY <1>4, <1>5 DEF VLines

LEMMA SeqV ==
  ASSUME NEW s \in Seq(Lines), \A l \in Range(s) : l.verbatim
  PROVE  s \in Seq(VLines)
<1>1. \A i \in 1 .. Len(s) : s[i] \in Lines /\ s[i].verbatim
  BY RangeSeq
<1>2. \A i \in 1 .. Len(s) : s[i] \in VLines
  BY <1>1 DEF VLines
<1> QED
  BY <1>2

Weight(s) == Len(VerbatimOf(s)) + Elided(s)

LEMMA WeightAppend ==
  ASSUME NEW s \in Seq(Lines), NEW x \in Lines
  PROVE  /\ Weight(s) \in Nat
         /\ x.verbatim => Weight(Append(s, x)) = Weight(s) + 1
         /\ ~x.verbatim => Weight(Append(s, x)) = Weight(s) + x.count
<1>1. VerbatimOf(s) \in Seq(Lines) /\ Elided(s) \in Nat
  BY VerbatimLaws, ElidedLaws
<1>2. Elided(Append(s, x)) = Elided(s) + x.count
  BY ElidedLaws
<1>3. VerbatimOf(Append(s, x)) = IF x.verbatim THEN Append(VerbatimOf(s), x) ELSE VerbatimOf(s)
  BY VerbatimLaws
<1>4. x.count \in Nat /\ (x.verbatim => x.count = 0)
  BY LineFields
<1>5. Len(VerbatimOf(s)) \in Nat /\ Len(Append(VerbatimOf(s), x)) = Len(VerbatimOf(s)) + 1
  BY <1>1
<1> QED
  BY <1>1, <1>2, <1>3, <1>4, <1>5 DEF Weight

LEMMA WeightEmpty == Weight(<<>>) = 0
<1>1. VerbatimOf(<<>>) = <<>> /\ Elided(<<>>) = 0
  BY VerbatimLaws, ElidedLaws
<1>2. Len(<<>>) = 0
  OBVIOUS
<1> QED
  BY <1>1, <1>2 DEF Weight

LEMMA WeightConcat ==
  ASSUME NEW s \in Seq(Lines), NEW t \in Seq(VLines)
  PROVE  Weight(s \o t) = Weight(s) + Len(t)
<1> DEFINE P == {u \in Seq(VLines) : Weight(s \o u) = Weight(s) + Len(u)}
<1>0. Weight(s) \in Nat
  <2>1. VerbatimOf(s) \in Seq(Lines) /\ Elided(s) \in Nat
    BY VerbatimLaws, ElidedLaws
  <2>2. Len(VerbatimOf(s)) \in Nat
    BY <2>1
  <2> QED
    BY <2>1, <2>2 DEF Weight
<1>1. <<>> \in P
  <2>1. s \o <<>> = s /\ Len(<<>>) = 0 /\ <<>> \in Seq(VLines)
    OBVIOUS
  <2> QED
    BY <1>0, <2>1
<1>2. ASSUME NEW u \in Seq(VLines), NEW x \in VLines, u \in P PROVE Append(u, x) \in P
  <2>1. u \in Seq(Lines) /\ x \in Lines /\ x.verbatim
    BY VSeq DEF VLines
  <2>2. s \o u \in Seq(Lines) /\ s \o Append(u, x) = Append(s \o u, x)
    BY <2>1
  <2>3. Append(u, x) \in Seq(VLines) /\ Len(Append(u, x)) = Len(u) + 1 /\ Len(u) \in Nat
    OBVIOUS
  <2>4. Weight(Append(s \o u, x)) = Weight(s \o u) + 1
    BY <2>1, <2>2, WeightAppend
  <2>5. Weight(s \o u) = Weight(s) + Len(u)
    BY <1>2
  <2>6. Weight(s \o Append(u, x)) = Weight(s) + Len(Append(u, x))
    BY <1>0, <2>2, <2>3, <2>4, <2>5
  <2> QED
    BY <2>3, <2>6
<1>3. Seq(VLines) \subseteq P
  <2> HIDE DEF P
  <2> QED
    BY <1>1, <1>2, SeqInduct
<1> QED
  BY <1>3

LEMMA VerbatimWeighs ==
  ASSUME NEW s \in Seq(VLines)
  PROVE  Weight(s) = Len(s) /\ VerbatimOf(s) = s
<1> DEFINE P == {u \in Seq(VLines) : Weight(u) = Len(u) /\ VerbatimOf(u) = u}
<1>1. <<>> \in P
  <2>1. Len(<<>>) = 0 /\ <<>> \in Seq(VLines)
    OBVIOUS
  <2> QED
    BY <2>1, WeightEmpty, VerbatimLaws
<1>2. ASSUME NEW u \in Seq(VLines), NEW x \in VLines, u \in P PROVE Append(u, x) \in P
  <2>1. u \in Seq(Lines) /\ x \in Lines /\ x.verbatim
    BY VSeq DEF VLines
  <2>2. Append(u, x) \in Seq(VLines) /\ Len(Append(u, x)) = Len(u) + 1
    OBVIOUS
  <2>3. Weight(Append(u, x)) = Weight(u) + 1
    BY <2>1, WeightAppend
  <2>4. VerbatimOf(Append(u, x)) = Append(VerbatimOf(u), x)
    BY <2>1, VerbatimLaws
  <2> QED
    BY <1>2, <2>2, <2>3, <2>4
<1>3. Seq(VLines) \subseteq P
  <2> HIDE DEF P
  <2> QED
    BY <1>1, <1>2, SeqInduct
<1> QED
  BY <1>3

LEMMA FlushWeighs ==
  ASSUME NEW acc \in RunAcc, acc.run \in Seq(VLines), NEW min
  PROVE  Weight(Flush(acc, min).out) = Weight(acc.out) + Len(acc.run)
<1>1. acc.out \in Seq(Lines) /\ acc.run \in Seq(Lines) /\ Len(acc.run) \in Nat
  BY DEF RunAcc
<1>2. CASE Flush(acc, min).out = acc.out \o acc.run
  BY <1>1, <1>2, WeightConcat
<1>3. CASE Flush(acc, min).out = acc.out \o <<Placeholder(Len(acc.run))>>
  <2> DEFINE mark == Placeholder(Len(acc.run))
  <2>1. mark \in Lines /\ ~mark.verbatim /\ mark.count = Len(acc.run)
    BY <1>1, MarkerLines DEF Placeholder
  <2> HIDE DEF mark
  <2>2. Weight(Append(acc.out, mark)) = Weight(acc.out) + mark.count
    BY <1>1, <2>1, WeightAppend
  <2>3. acc.out \o <<mark>> = Append(acc.out, mark)
    BY <1>1, <2>1
  <2> QED
    BY <1>3, <2>1, <2>2, <2>3 DEF mark
<1> QED
  BY <1>2, <1>3, FlushType

LEMMA CollapseRunsWeighs ==
  ASSUME NEW s \in Seq(VLines), NEW pattern, NEW min
  PROVE  Weight(CollapseRuns(s, pattern, min)) = Len(s)
<1> DEFINE R(u) == RunsIn(u, pattern, min)
           P == {u \in Seq(VLines) :
                   R(u).run \in Seq(VLines) /\ Weight(R(u).out) + Len(R(u).run) = Len(u)}
<1>1. <<>> \in P
  <2>1. R(<<>>) = [out |-> <<>>, run |-> <<>>]
    BY RunsLaws
  <2>2. R(<<>>).out = <<>> /\ R(<<>>).run = <<>>
    BY <2>1
  <2>3. <<>> \in Seq(VLines) /\ Len(<<>>) = 0 /\ 0 + 0 = 0
    OBVIOUS
  <2> HIDE DEF R
  <2> QED
    BY <2>2, <2>3, WeightEmpty
<1>2. ASSUME NEW u \in Seq(VLines), NEW x \in VLines, u \in P PROVE Append(u, x) \in P
  <2> DEFINE acc == R(u)
             out == acc.out
             run == acc.run
  <2>1. u \in Seq(Lines) /\ x \in Lines /\ x.verbatim
    BY VSeq DEF VLines
  <2>2. acc \in RunAcc /\ R(Append(u, x)) = RunStep(acc, x, pattern, min)
    BY <2>1, RunsLaws
  <2>3. run \in Seq(VLines) /\ Weight(out) + Len(run) = Len(u)
    BY <1>2
  <2>4. out \in Seq(Lines) /\ Weight(out) \in Nat /\ Len(run) \in Nat
    BY <2>1, <2>2, <2>3, WeightAppend DEF RunAcc
  <2>5. Append(u, x) \in Seq(VLines) /\ Len(Append(u, x)) = Len(u) + 1 /\ Len(u) \in Nat
    OBVIOUS
  <2> HIDE DEF R
  <2>6. CASE Hits(pattern, x)
    <3>1. R(Append(u, x)) = [out |-> out, run |-> Append(run, x)]
      BY <2>1, <2>2, <2>6, RunStepIs
    <3> HIDE DEF acc, out, run
    <3>2. R(Append(u, x)).out = out /\ R(Append(u, x)).run = Append(run, x)
      BY <3>1
    <3>3. Append(run, x) \in Seq(VLines) /\ Len(Append(run, x)) = Len(run) + 1
      BY <2>3
    <3>5. \A a, b, c \in Nat : a + b = c => a + (b + 1) = c + 1
      OBVIOUS
    <3>4. Weight(out) + (Len(run) + 1) = Len(u) + 1
      BY <2>3, <2>4, <2>5, <3>5
    <3> QED
      BY <2>5, <3>2, <3>3, <3>4
  <2>7. CASE ~Hits(pattern, x)
    <3> DEFINE done == Flush(acc, min).out
    <3>1. R(Append(u, x)) = [out |-> Append(done, x), run |-> <<>>]
      BY <2>1, <2>2, <2>7, RunStepIs
    <3>2. done \in Seq(Lines)
      BY <2>2, FlushType
    <3>3. Weight(done) = Weight(out) + Len(run)
      BY <2>2, <2>3, FlushWeighs
    <3> HIDE DEF done, acc, out, run
    <3>4. R(Append(u, x)).out = Append(done, x) /\ R(Append(u, x)).run = <<>>
      BY <3>1
    <3>5. Weight(Append(done, x)) = Weight(done) + 1
      BY <2>1, <3>2, WeightAppend
    <3>6. <<>> \in Seq(VLines) /\ Len(<<>>) = 0
      OBVIOUS
    <3>7. Weight(Append(done, x)) + Len(<<>>) = Len(u) + 1
      BY <2>3, <2>4, <2>5, <3>3, <3>5, <3>6
    <3> QED
      BY <2>5, <3>4, <3>6, <3>7
  <2> QED
    BY <2>6, <2>7
<1>3. Seq(VLines) \subseteq P
  <2> HIDE DEF P
  <2> QED
    BY <1>1, <1>2, SeqInduct
<1>4. R(s) \in RunAcc /\ R(s).run \in Seq(VLines) /\ Weight(R(s).out) + Len(R(s).run) = Len(s)
  <2>1. s \in Seq(Lines)
    BY VSeq
  <2> QED
    BY <1>3, <2>1, RunsLaws
<1>5. CollapseRuns(s, pattern, min) = Flush(R(s), min).out
  BY DEF CollapseRuns
<1> HIDE DEF R
<1> QED
  BY <1>4, <1>5, FlushWeighs

LEMMA AppendTwo ==
  ASSUME NEW S, NEW s \in Seq(S), NEW x \in S, NEW y \in S
  PROVE  s \o <<x, y>> = Append(Append(s, x), y)
OBVIOUS

LEMMA CollapseSectionWeighs ==
  ASSUME NEW s \in Seq(VLines), NEW begin, NEW end
  PROVE  Weight(CollapseSection(s, begin, end)) = Len(s)
<1> DEFINE F(u) == Fenced(u, begin, end)
           P == {u \in Seq(VLines) :
                   Weight(F(u).out) + F(u).n = Len(u) /\ (F(u).inside \/ F(u).n = 0)}
<1>1. <<>> \in P
  <2>1. F(<<>>) = [out |-> <<>>, inside |-> FALSE, n |-> 0]
    BY FencedLaws
  <2>2. F(<<>>).out = <<>> /\ F(<<>>).n = 0
    BY <2>1
  <2>3. <<>> \in Seq(VLines) /\ Len(<<>>) = 0 /\ 0 + 0 = 0
    OBVIOUS
  <2> HIDE DEF F
  <2> QED
    BY <2>2, <2>3, WeightEmpty
<1>2. ASSUME NEW u \in Seq(VLines), NEW x \in VLines, u \in P PROVE Append(u, x) \in P
  <2> DEFINE acc == F(u)
             next == F(Append(u, x))
  <2>1. u \in Seq(Lines) /\ x \in Lines /\ x.verbatim
    BY VSeq DEF VLines
  <2>2. acc \in FenceAcc /\ next = FenceStep(acc, x, begin, end)
    BY <2>1, FencedLaws
  <2>3. Weight(acc.out) + acc.n = Len(u) /\ (acc.inside \/ acc.n = 0)
    BY <1>2
  <2>4. Append(u, x) \in Seq(VLines) /\ Len(Append(u, x)) = Len(u) + 1 /\ Len(u) \in Nat
    OBVIOUS
  <2>9. Append(u, x) \in P <=>
          /\ Append(u, x) \in Seq(VLines)
          /\ Weight(next.out) + next.n = Len(Append(u, x)) /\ (next.inside \/ next.n = 0)
    OBVIOUS
  <2> HIDE DEF F, acc, next, P
  <2>5. acc.out \in Seq(Lines) /\ acc.n \in Nat /\ Weight(acc.out) \in Nat
    BY <2>1, <2>2, WeightAppend DEF FenceAcc
  <2>6. Weight(Append(acc.out, x)) = Weight(acc.out) + 1
    BY <2>1, <2>5, WeightAppend
  <2>7. CASE ~acc.inside
    <3>1. next = [out |-> Append(acc.out, x), inside |-> Hits(begin, x), n |-> 0]
      BY <2>1, <2>2, <2>7, FenceStepIs
    <3>2. next.out = Append(acc.out, x) /\ next.n = 0
      BY <3>1
    <3>3. Weight(next.out) + next.n = Len(u) + 1
      BY <2>3, <2>4, <2>5, <2>6, <2>7, <3>2
    <3> QED
      BY <2>4, <2>9, <3>2, <3>3
  <2>8. CASE acc.inside /\ Hits(end, x)
    <3> DEFINE mark == Placeholder(acc.n)
    <3>1. mark \in Lines /\ ~mark.verbatim /\ mark.count = acc.n
      BY <2>5, MarkerLines DEF Placeholder
    <3>2. next = [out |-> acc.out \o <<mark, x>>, inside |-> FALSE, n |-> 0]
      BY <2>1, <2>2, <2>8, FenceStepIs
    <3> HIDE DEF mark
    <3>3. next.out = acc.out \o <<mark, x>> /\ next.n = 0
      BY <3>2
    <3>4. acc.out \o <<mark, x>> = Append(Append(acc.out, mark), x)
      BY <2>1, <2>5, <3>1, AppendTwo
    <3>5. Append(acc.out, mark) \in Seq(Lines) /\ Weight(Append(acc.out, mark)) = Weight(acc.out) + acc.n
      BY <2>5, <3>1, WeightAppend
    <3>6. Weight(Append(Append(acc.out, mark), x)) = Weight(acc.out) + acc.n + 1
      BY <2>1, <3>5, WeightAppend
    <3>8. Weight(next.out) = Weight(acc.out) + acc.n + 1
      BY <3>3, <3>4, <3>6
    <3>9. \A a, b, c \in Nat : a + b = c => (a + b + 1) + 0 = c + 1
      OBVIOUS
    <3>10. next.n = 0
      BY <3>3
    <3>11. (Weight(acc.out) + acc.n + 1) + 0 = Len(u) + 1
      BY <2>3, <2>4, <2>5, <3>9
    <3>7. Weight(next.out) + next.n = Len(u) + 1
      BY <3>8, <3>10, <3>11
    <3> QED
      BY <2>4, <2>9, <3>3, <3>7
  <2>10. CASE acc.inside /\ ~Hits(end, x)
    <3>1. next = [out |-> acc.out, inside |-> TRUE, n |-> acc.n + 1]
      BY <2>1, <2>2, <2>10, FenceStepIs
    <3>2. next.out = acc.out /\ next.n = acc.n + 1 /\ next.inside
      BY <3>1
    <3>3. Weight(next.out) + next.n = Len(u) + 1
      BY <2>3, <2>4, <2>5, <3>2
    <3> QED
      BY <2>4, <2>9, <3>2, <3>3
  <2> QED
    BY <2>7, <2>8, <2>10
<1>3. Seq(VLines) \subseteq P
  <2> HIDE DEF P
  <2> QED
    BY <1>1, <1>2, SeqInduct
<1> DEFINE acc == F(s)
<1>4. acc \in FenceAcc /\ Weight(acc.out) + acc.n = Len(s) /\ (acc.inside \/ acc.n = 0)
  <2>1. s \in Seq(Lines)
    BY VSeq
  <2> QED
    BY <1>3, <2>1, FencedLaws
<1>5. CollapseSection(s, begin, end) =
        IF acc.inside /\ acc.n > 0 THEN Append(acc.out, Placeholder(acc.n)) ELSE acc.out
  BY DEF CollapseSection
<1> HIDE DEF F, acc, P
<1>6. acc.out \in Seq(Lines) /\ acc.n \in Nat
  BY <1>4 DEF FenceAcc
<1> DEFINE mark == Placeholder(acc.n)
<1>7. mark \in Lines /\ ~mark.verbatim /\ mark.count = acc.n
  BY <1>6, MarkerLines DEF Placeholder
<1>8. CASE acc.inside /\ acc.n > 0
  <2> HIDE DEF mark
  <2>1. Weight(Append(acc.out, mark)) = Weight(acc.out) + acc.n
    BY <1>6, <1>7, WeightAppend
  <2> QED
    BY <1>4, <1>5, <1>8, <2>1 DEF mark
<1>9. CASE ~(acc.inside /\ acc.n > 0)
  <2>1. acc.n = 0
    BY <1>4, <1>6, <1>9
  <2>2. Weight(acc.out) \in Nat
    BY <1>6, <1>7, WeightAppend
  <2>3. CollapseSection(s, begin, end) = acc.out
    BY <1>5, <1>9
  <2> QED
    BY <1>4, <2>1, <2>2, <2>3
<1> QED
  BY <1>8, <1>9

-----------------------------------------------------------------------------
(***************************************************************************)
(* Layers 1 and 2.                                                         *)
(***************************************************************************)
LEMMA DedupSelf ==
  ASSUME NEW s \in PlainSeq
  PROVE  Dedup(s) \in PlainSeq
<1>1. s \in Seq(Lines) /\ \A l \in Range(s) : l.colour = FALSE
  BY DEF PlainSeq
<1>2. Dedup(s) \in Seq(Lines) /\ Range(Dedup(s)) = Range(s)
  BY <1>1, DedupLaws, DedupKeepsLast
<1> QED
  BY <1>1, <1>2 DEF PlainSeq

\* An output without carriage returns and colours.
Bare(raw) == StripAnsi(StripCr(raw))

\* What layer 1 leaves of an output.
LEMMA LayerOneIs ==
  ASSUME NEW raw \in Outputs
  PROVE  /\ raw \in Seq(VLines) /\ raw \in Seq(Lines)
         /\ Bare(raw) \in PlainSeq /\ Bare(raw) \in Seq(VLines)
         /\ LayerOne(raw) \in PlainSeq /\ LayerOne(raw) \in Seq(VLines)
         /\ LayerOne(raw) \in Seq(Lines) /\ Bare(raw) \in Seq(Lines)
         /\ Range(LayerOne(raw)) = Range(Bare(raw))
         /\ LayerOne(raw) = Dedup(Bare(raw))
<1> DEFINE clean == StripCr(raw)
           strip == StripAnsi(clean)
<1>1. raw \in Seq(VLines)
  BY OutputsAssumption DEF VLines
<1>2. raw \in Seq(Lines) /\ \A i \in 1 .. Len(raw) : raw[i] \in Lines /\ raw[i].verbatim
  <2>1. \A i \in 1 .. Len(raw) : raw[i] \in VLines
    BY <1>1
  <2> QED
    BY <1>1, <2>1, VSeq DEF VLines
<1>0. clean \in Seq(Lines) /\ Len(clean) = Len(raw)
      /\ \A i \in 1 .. Len(raw) : clean[i] \in Lines /\ clean[i].verbatim
  <2>1. /\ clean \in Seq(Lines) /\ Len(clean) = Len(raw)
        /\ \A i \in 1 .. Len(raw) : clean[i].verbatim = raw[i].verbatim
    BY <1>2, StripCrIs
  <2> HIDE DEF clean
  <2>2. \A i \in 1 .. Len(raw) : clean[i] \in Lines
    BY <2>1
  <2> QED
    BY <1>2, <2>1, <2>2
<1> HIDE DEF clean
<1>3. strip \in PlainSeq /\ strip \in Seq(Lines) /\ Len(strip) = Len(raw)
  BY <1>0, StripPlain, StripAnsiType
<1>4. \A i \in 1 .. Len(raw) : strip[i].verbatim
  <2>1. \A i \in 1 .. Len(raw) : strip[i] = Plain(clean[i])
    BY <1>0, StripAnsiType
  <2> HIDE DEF strip
  <2>2. ASSUME NEW i \in 1 .. Len(raw) PROVE strip[i].verbatim
    <3>1. clean[i] \in Lines /\ clean[i].verbatim
      BY <1>0
    <3>2. Plain(clean[i]).verbatim = clean[i].verbatim
      BY <3>1, PlainLine
    <3>3. strip[i] = Plain(clean[i])
      BY <2>1
    <3> QED
      BY <3>1, <3>2, <3>3, Zenon
  <2> QED
    BY <2>2
<1> HIDE DEF strip
<1>5. strip \in Seq(VLines)
  <2>1. \A i \in 1 .. Len(strip) : strip[i] \in VLines
    BY <1>3, <1>4 DEF VLines
  <2> QED
    BY <1>3, <2>1
<1>6. LayerOne(raw) = Dedup(strip) /\ Bare(raw) = strip
  BY DEF LayerOne, Bare, strip, clean
<1>7. Dedup(strip) \in PlainSeq /\ Dedup(strip) \in Seq(Lines) /\ Range(Dedup(strip)) = Range(strip)
  BY <1>3, DedupSelf, DedupLaws, DedupKeepsLast
<1>8. Dedup(strip) \in Seq(VLines)
  BY <1>5, <1>7, VSeq, SeqV
<1> QED
  BY <1>1, <1>2, <1>3, <1>5, <1>6, <1>7, <1>8

\* Layers 1 and 2 leave lines of the stripped output.
LEMMA LayersKeep ==
  ASSUME NEW raw \in Outputs
  PROVE  /\ Keeps(Bare(raw), LayerOne(raw))
         /\ \A log : Keeps(Bare(raw), LayerTwo(LayerOne(raw), log))
         /\ \A t : Keeps(Bare(raw), t) => IsSubsequence(VerbatimOf(t), Bare(raw))
<1>1. /\ Bare(raw) \in Seq(Lines) /\ LayerOne(raw) \in Seq(Lines)
      /\ Bare(raw) \in Seq(VLines)
  BY LayerOneIs
<1>2. Keeps(Bare(raw), LayerOne(raw))
  BY <1>1, KeepsDedup, LayerOneIs
<1>3. \A p : Keeps(LayerOne(raw), DropMatching(LayerOne(raw), p))
             /\ DropMatching(LayerOne(raw), p) \in Seq(Lines)
  BY <1>1, KeepsFilter, FilterLaws DEF DropMatching
<1>4. \A p : Keeps(Bare(raw), DropMatching(LayerOne(raw), p))
  BY <1>1, <1>2, <1>3, KeepsTrans
<1>5. \A log : Keeps(Bare(raw), LayerTwo(LayerOne(raw), log))
  BY <1>2, <1>4 DEF LayerTwo
<1>6. VerbatimOf(Bare(raw)) = Bare(raw)
  BY <1>1, VerbatimWeighs
<1> QED
  BY <1>2, <1>5, <1>6 DEF Keeps

-----------------------------------------------------------------------------
(***************************************************************************)
(* The inductive invariant.                                                *)
(***************************************************************************)
\* A profile in the table: rules of the language that validate; a baseline that
\* a run learned has passed its self-test on every output it was trained on.
ProfileOK(p, outputs) ==
  /\ p.rules \in Seq(Rules)
  /\ ValidProfile(p)
  /\ p.auto /\ ~p.refined =>
       /\ \E anchors \in Patterns : p = [Baseline(anchors) EXCEPT !.auto = TRUE]
       /\ \A s \in outputs : SelfTest(p, s)

\* A run shows what its layers make of the raw output.
LastOK ==
  /\ last.raw \in Outputs
  /\ last.by = None =>
       /\ ~last.aborted
       /\ \E log \in BOOLEAN : last.shown = LayerTwo(LayerOne(last.raw), log)
  /\ last.by # None =>
       /\ ProfileOK(last.by, last.trained)
       /\ LET out == ApplyRules(LayerOne(last.raw), last.by.rules, Budget, last.slow)
          IN last.shown = Shown(last.raw, out) /\ last.aborted = out.aborted

IInv ==
  /\ TypeOK
  /\ IsFiniteSet(Rows)
  /\ profile # None => ProfileOK(profile, trained)
  /\ last # None => LastOK

-----------------------------------------------------------------------------
(***************************************************************************)
(* The baseline.                                                           *)
(***************************************************************************)
StripRule == [kind |-> "strip_ansi"]
KeepRule(anchors) == [kind |-> "keep_lines", match |-> anchors]
BlankRule == [kind |-> "drop_lines", match |-> BlankLines]
DedupRule == [kind |-> "dedup"]
FloorRule == [kind |-> "truncate_to", n |-> Floor]

\* Its first rule or two.
Anchoring(anchors) == IF anchors = {} THEN <<StripRule>> ELSE Append(<<StripRule>>, KeepRule(anchors))

LEMMA BaselineRuleTypes ==
  /\ StripRule \in Rules /\ BlankRule \in Rules /\ DedupRule \in Rules /\ FloorRule \in Rules
  /\ \A anchors \in Patterns : KeepRule(anchors) \in Rules
<1>1. StripRule \in Rules /\ DedupRule \in Rules
  BY DEF StripRule, DedupRule, Rules
<1>2. \A p \in Patterns : [kind |-> "drop_lines", match |-> p] \in Rules
  BY DEF Rules
<1>3. BlankRule \in Rules
  BY <1>2, PatternsAssumption DEF BlankRule
<1>4. FloorRule \in Rules
  BY BoundsAssumption DEF FloorRule, Rules
<1>5. \A anchors \in Patterns : KeepRule(anchors) \in Rules
  BY DEF KeepRule, Rules
<1> QED
  BY <1>1, <1>3, <1>4, <1>5

\* The rules of the baseline one by one.
LEMMA FiveRules ==
  ASSUME NEW S, NEW a \in S, NEW b \in S, NEW c \in S, NEW d \in S, NEW e \in S
  PROVE  /\ <<a>> \o (<<>> \o <<c, d, e>>) = Append(Append(Append(<<a>>, c), d), e)
         /\ <<a>> \o (<<b>> \o <<c, d, e>>) = Append(Append(Append(Append(<<a>>, b), c), d), e)
<1>1. <<>> \o <<c, d, e>> = <<c, d, e>>
  OBVIOUS
<1>2. <<a>> \o <<c, d, e>> = Append(Append(Append(<<a>>, c), d), e)
  OBVIOUS
<1>3. <<b>> \o <<c, d, e>> = Append(Append(Append(<<b>>, c), d), e)
  OBVIOUS
<1>4. \A s \in Seq(S) : \A x \in S :
        /\ Append(s, x) \in Seq(S)
        /\ <<a>> \o Append(s, x) = Append(<<a>> \o s, x)
  OBVIOUS
<1>5. <<b>> \in Seq(S) /\ <<a>> \o <<b>> = Append(<<a>>, b)
  OBVIOUS
<1> DEFINE one == Append(<<b>>, c)
           two == Append(one, d)
<1>6. one \in Seq(S) /\ two \in Seq(S)
  BY <1>4, <1>5
<1>7. <<a>> \o Append(two, e) = Append(Append(Append(<<a>> \o <<b>>, c), d), e)
  BY <1>4, <1>5, <1>6
<1> QED
  BY <1>1, <1>2, <1>3, <1>5, <1>7

LEMMA BaselineRules ==
  ASSUME NEW anchors \in Patterns
  PROVE  /\ Anchoring(anchors) \in Seq(Rules)
         /\ Baseline(anchors).rules =
              Append(Append(Append(Anchoring(anchors), BlankRule), DedupRule), FloorRule)
         /\ Baseline(anchors).rules \in Seq(Rules)
         /\ ValidProfile(Baseline(anchors))
<1> DEFINE rules == <<StripRule>> \o Filters(anchors)
           keep == KeepRule(anchors)
           all == Append(Append(Append(Anchoring(anchors), BlankRule), DedupRule), FloorRule)
<1>1. Baseline(anchors).rules = rules
  BY DEF Baseline, BaselineOf, StripRule
<1>2. /\ StripRule \in Rules /\ BlankRule \in Rules /\ DedupRule \in Rules /\ FloorRule \in Rules
      /\ keep \in Rules
  BY BaselineRuleTypes
<1>3. Filters(anchors) = (IF anchors = {} THEN <<>> ELSE <<keep>>)
                           \o <<BlankRule, DedupRule, FloorRule>>
  BY DEF Filters, BlankRule, DedupRule, FloorRule, KeepRule
<1>4. ValidRule(StripRule) /\ ValidRule(BlankRule) /\ ValidRule(DedupRule) /\ ValidRule(keep)
  BY DEF ValidRule, StripRule, BlankRule, DedupRule, KeepRule
<1>5. ValidRule(FloorRule)
  BY BoundsAssumption DEF ValidRule, FloorRule
<1> HIDE DEF keep, rules
<1>6. rules = all
  <2>1. rules = <<StripRule>> \o ((IF anchors = {} THEN <<>> ELSE <<keep>>)
                                    \o <<BlankRule, DedupRule, FloorRule>>)
    BY <1>3 DEF rules
  <2>2. /\ <<StripRule>> \o (<<>> \o <<BlankRule, DedupRule, FloorRule>>) =
             Append(Append(Append(<<StripRule>>, BlankRule), DedupRule), FloorRule)
        /\ <<StripRule>> \o (<<keep>> \o <<BlankRule, DedupRule, FloorRule>>) =
             Append(Append(Append(Append(<<StripRule>>, keep), BlankRule), DedupRule), FloorRule)
    BY <1>2, FiveRules
  <2> QED
    BY <2>1, <2>2 DEF Anchoring, keep
<1>7. Anchoring(anchors) \in Seq({r \in Rules : ValidRule(r)})
  <2> DEFINE V == {r \in Rules : ValidRule(r)}
  <2>1. StripRule \in V /\ keep \in V
    BY <1>2, <1>4
  <2> HIDE DEF V
  <2>2. <<StripRule>> \in Seq(V) /\ Append(<<StripRule>>, keep) \in Seq(V)
    BY <2>1
  <2>3. Anchoring(anchors) \in Seq(V)
    BY <2>2 DEF Anchoring, keep
  <2> QED
    BY <2>3 DEF V
<1>8. all \in Seq({r \in Rules : ValidRule(r)})
  <2> DEFINE V == {r \in Rules : ValidRule(r)}
  <2>1. BlankRule \in V /\ DedupRule \in V /\ FloorRule \in V
    BY <1>2, <1>4, <1>5
  <2>2. Anchoring(anchors) \in Seq(V)
    BY <1>7
  <2> HIDE DEF V
  <2>3. all \in Seq(V)
    BY <2>1, <2>2
  <2> QED
    BY <2>3 DEF V
<1> HIDE DEF all
<1>9. \A t \in Seq({r \in Rules : ValidRule(r)}) :
        t \in Seq(Rules) /\ \A i \in DOMAIN t : ValidRule(t[i])
  <2> DEFINE V == {r \in Rules : ValidRule(r)}
  <2>1. ASSUME NEW t \in Seq(V) PROVE t \in Seq(Rules) /\ \A i \in DOMAIN t : ValidRule(t[i])
    <3>1. DOMAIN t = 1 .. Len(t) /\ \A i \in 1 .. Len(t) : t[i] \in V
      OBVIOUS
    <3>2. \A i \in 1 .. Len(t) : t[i] \in Rules /\ ValidRule(t[i])
      BY <3>1
    <3> HIDE DEF V
    <3> QED
      BY <3>1, <3>2
  <2> QED
    BY <2>1
<1>10. all \in Seq(Rules) /\ \A i \in DOMAIN all : ValidRule(all[i])
  BY <1>8, <1>9
<1>11. Anchoring(anchors) \in Seq(Rules)
  BY <1>7, <1>9
<1>12. Baseline(anchors).rules = all
  BY <1>1, <1>6
<1>13. ValidProfile(Baseline(anchors))
  BY <1>10, <1>12 DEF ValidProfile
<1> QED
  BY <1>10, <1>11, <1>12, <1>13 DEF all

\* Anchors are lines of the samples.
LEMMA AnchorsArePatterns ==
  ASSUME NEW outputs \in SUBSET Outputs, NEW anchors \in AnchorSets(outputs)
  PROVE  anchors \in Patterns
<1>1. anchors \subseteq Constant(outputs)
  BY DEF AnchorSets
<1>2. ASSUME NEW a \in Constant(outputs) PROVE a \in STRING \X BOOLEAN \X Nat
  <2>1. a \in UNION {LinesOf(o) : o \in outputs}
    BY <1>2 DEF Constant
  <2>2. PICK o \in outputs : a \in LinesOf(o)
    BY <2>1
  <2>3. PICK i \in DOMAIN o : a = <<Read(o)[i].text, o[i].colour, Read(o)[i].cr>>
    BY <2>2 DEF LinesOf
  <2>4. o \in Seq(VLines) /\ o \in Seq(Lines)
    BY LayerOneIs
  <2>5. o[i] \in VLines /\ i \in 1 .. Len(o)
    BY <2>4
  <2>6. o[i].text \in STRING /\ o[i].colour \in BOOLEAN
    BY <2>5, LineFields DEF VLines
  <2>7. Read(o)[i].text = o[i].text /\ Read(o)[i].cr \in Nat
    BY <2>4, <2>5, ReadIs
  <2> QED
    BY <2>3, <2>6, <2>7
<1> QED
  BY <1>1, <1>2 DEF Patterns

\* A candidate is typed, validates, and is a baseline unless it is a refinement.
LEMMA CandidateIs ==
  ASSUME NEW p \in Candidates(Captured), NEW auto \in BOOLEAN
  PROVE  /\ p.rules \in Seq(Rules) /\ ValidProfile(p)
         /\ p.version \in {"1.0.0"} \cup {r.version : r \in Refinements}
         /\ \A field \in {"rules", "invariants", "version", "refined"} :
              [p EXCEPT !.auto = auto][field] = p[field]
         /\ [p EXCEPT !.auto = auto].auto = auto
         /\ ~p.refined => \E anchors \in Patterns : p = Baseline(anchors)
<1>1. CASE \E A \in AnchorSets(Captured) : p = Baseline(A)
  <2>1. PICK A \in AnchorSets(Captured) : p = Baseline(A)
    BY <1>1
  <2>2. A \in Patterns
    BY AnchorsArePatterns DEF Captured
  <2>3. p.rules \in Seq(Rules) /\ ValidProfile(p)
    BY <2>1, <2>2, BaselineRules
  <2>4. p.version = "1.0.0"
    BY <2>1 DEF Baseline, BaselineOf
  <2>5. /\ \A field \in {"rules", "invariants", "version", "refined"} :
             [p EXCEPT !.auto = auto][field] = p[field]
        /\ [p EXCEPT !.auto = auto].auto = auto
    BY <2>1 DEF Baseline, BaselineOf
  <2> QED
    BY <2>1, <2>2, <2>3, <2>4, <2>5
<1>2. CASE p \in ValidRefinements
  <2>1. p \in Refinements /\ p \in ProfileRows /\ p.refined /\ ValidProfile(p)
    BY <1>2, RefinementsAssumption DEF ValidRefinements
  <2>2. p.rules \in Seq(Rules)
    BY <2>1 DEF ProfileRows
  <2>3. /\ \A field \in {"rules", "invariants", "version", "refined"} :
             [p EXCEPT !.auto = auto][field] = p[field]
        /\ [p EXCEPT !.auto = auto].auto = auto
    BY <2>1 DEF ProfileRows
  <2> QED
    BY <2>1, <2>2, <2>3
<1> QED
  BY <1>1, <1>2 DEF Candidates

-----------------------------------------------------------------------------
(***************************************************************************)
(* Counting samples.                                                       *)
(***************************************************************************)
\* With room for a sample there is room for one more of each output.
LEMMA RoomForEach ==
  ASSUME samples \in [Outputs -> 0 .. SampleCap], IsFiniteSet(Rows), Count < SampleCap,
         NEW raw \in Outputs
  PROVE  samples[raw] < SampleCap
<1> SUFFICES ASSUME samples[raw] >= SampleCap PROVE FALSE
  BY BoundsAssumption
<1> DEFINE f == [n \in 1 .. SampleCap |-> <<raw, n>>]
<1>1. SampleCap \in Nat
  BY BoundsAssumption
<1>2. \A n \in 1 .. SampleCap : <<raw, n>> \in Rows
  BY <1>1 DEF Rows
<1>3. \A m, n \in 1 .. SampleCap : f[m] = f[n] => m = n
  OBVIOUS
<1>4. f \in [1 .. SampleCap -> Rows]
  BY <1>2
<1>5. f \in Injection(1 .. SampleCap, Rows)
  BY <1>3, <1>4 DEF Injection, IsInjective
<1>6. IsFiniteSet(1 .. SampleCap) /\ Cardinality(1 .. SampleCap) = SampleCap
  BY <1>1, FS_Interval
<1>7. Cardinality(1 .. SampleCap) <= Cardinality(Rows)
  BY <1>5, <1>6, FS_Injection
<1> QED
  BY <1>1, <1>6, <1>7, FS_CardinalityType DEF Count

\* A sample captured is one row more.
LEMMA OneMoreSample ==
  ASSUME samples \in [Outputs -> 0 .. SampleCap], IsFiniteSet(Rows), Room,
         NEW raw \in Outputs, samples' = [samples EXCEPT ![raw] = @ + 1]
  PROVE  /\ samples' \in [Outputs -> 0 .. SampleCap]
         /\ IsFiniteSet(Rows)' /\ Count' <= SampleCap
<1>1. SampleCap \in Nat
  BY BoundsAssumption
<1>2. samples[raw] \in Nat /\ samples[raw] < SampleCap
  BY RoomForEach DEF Room
<1>3. samples' \in [Outputs -> 0 .. SampleCap]
  BY <1>1, <1>2
<1> DEFINE row == <<raw, samples[raw] + 1>>
<1>4. Rows' = Rows \cup {row}
  <2>1. samples[raw] + 1 \in 1 .. SampleCap
    BY <1>1, <1>2
  <2>2. \A o \in Outputs, n \in 1 .. SampleCap :
          n <= samples'[o] <=> n <= samples[o] \/ (o = raw /\ n = samples[raw] + 1)
    BY <1>1, <1>2
  <2>3. \A r \in Outputs \X (1 .. SampleCap) : r = row <=> r[1] = raw /\ r[2] = samples[raw] + 1
    BY <2>1
  <2>4. row \in Outputs \X (1 .. SampleCap)
    BY <2>1
  <2>5. Rows' = {r \in Outputs \X (1 .. SampleCap) : r[2] <= samples'[r[1]]}
    BY DEF Rows
  <2>6. \A r \in Outputs \X (1 .. SampleCap) :
          r[2] <= samples'[r[1]] <=> r[2] <= samples[r[1]] \/ r = row
    BY <2>2, <2>3
  <2> HIDE DEF row
  <2> QED
    BY <2>4, <2>5, <2>6 DEF Rows
<1>5. row \notin Rows
  <2>1. ~(samples[raw] + 1 <= samples[raw])
    BY <1>2
  <2> QED
    BY <2>1 DEF Rows
<1> HIDE DEF row
<1>6. IsFiniteSet(Rows') /\ Cardinality(Rows') = Cardinality(Rows) + 1
  BY <1>4, <1>5, FS_AddElement
<1> QED
  BY <1>1, <1>3, <1>6, FS_CardinalityType DEF Room, Count

-----------------------------------------------------------------------------
(***************************************************************************)
(* The invariant is kept by every step.                                    *)
(***************************************************************************)
\* A profile is in use with the outputs it was trained on.
LEMMA InstallKeeps ==
  ASSUME IInv, NEW auto \in BOOLEAN, NEW p \in Candidates(Captured), Install(p, auto),
         auto => \A s \in Captured : SelfTest(p, s)
  PROVE  /\ ProfileOK(profile', trained') /\ ValidProfile(profile')
         /\ profile'.version \in taken' /\ trained' \subseteq Outputs
         /\ taken' \subseteq {"1.0.0"} \cup {r.version : r \in Refinements}
<1> DEFINE q == [p EXCEPT !.auto = auto]
<1>1. profile' = q /\ trained' = Captured /\ taken' = taken \cup {p.version}
  BY DEF Install
<1>2. q.rules = p.rules /\ q.invariants = p.invariants /\ q.version = p.version
      /\ q.refined = p.refined /\ q.auto = auto
  BY CandidateIs
<1>3. p.rules \in Seq(Rules) /\ ValidProfile(p)
      /\ p.version \in {"1.0.0"} \cup {r.version : r \in Refinements}
      /\ (~p.refined => \E anchors \in Patterns : p = Baseline(anchors))
  BY CandidateIs
<1>4. Captured \subseteq Outputs
  BY DEF Captured
<1>5. ValidProfile(q)
  BY <1>2, <1>3 DEF ValidProfile
<1>6. ASSUME q.auto, ~q.refined
      PROVE  /\ \E anchors \in Patterns : q = [Baseline(anchors) EXCEPT !.auto = TRUE]
             /\ \A s \in Captured : SelfTest(q, s)
  <2>1. auto = TRUE /\ ~p.refined
    BY <1>2, <1>6
  <2>2. \E anchors \in Patterns : q = [Baseline(anchors) EXCEPT !.auto = TRUE]
    BY <1>3, <2>1
  <2>3. \A s : SelfTest(q, s) <=> SelfTest(p, s)
    <3> HIDE DEF q
    <3> QED
      BY <1>2 DEF SelfTest, PassesAll
  <2> QED
    BY <2>1, <2>2, <2>3
<1> HIDE DEF q
<1>7. ProfileOK(q, Captured)
  BY <1>2, <1>3, <1>5, <1>6 DEF ProfileOK
<1>8. q.version \in taken \cup {p.version}
  BY <1>2
<1>9. taken \subseteq {"1.0.0"} \cup {r.version : r \in Refinements}
  BY DEF IInv, TypeOK
<1> QED
  BY <1>1, <1>3, <1>4, <1>5, <1>7, <1>8, <1>9

LEMMA InitIInv == Init => IInv
<1> SUFFICES ASSUME Init PROVE IInv
  OBVIOUS
<1>1. samples = [o \in Outputs |-> 0] /\ profile = None /\ trained = {} /\ taken = {}
      /\ learning = FALSE /\ last = None
  BY DEF Init
<1>2. Rows = {}
  BY <1>1 DEF Rows
<1>3. IsFiniteSet(Rows) /\ Count = 0
  BY <1>2, FS_EmptySet DEF Count
<1>4. SampleCap \in Nat /\ 0 \in 0 .. SampleCap /\ Count <= SampleCap
  BY <1>3, BoundsAssumption
<1>5. samples \in [Outputs -> 0 .. SampleCap]
  BY <1>1, <1>4
<1>6. TypeOK
  BY <1>1, <1>4, <1>5 DEF TypeOK
<1> QED
  BY <1>1, <1>3, <1>6 DEF IInv

\* What the invariant says of the samples and of the profile, for steps that leave them.
LEMMA SamplesKept ==
  ASSUME IInv, UNCHANGED samples
  PROVE  samples' \in [Outputs -> 0 .. SampleCap] /\ IsFiniteSet(Rows)' /\ Count' <= SampleCap
<1>1. Rows' = Rows
  BY DEF Rows
<1> QED
  BY <1>1 DEF IInv, TypeOK, Count

LEMMA ProfileKept ==
  ASSUME IInv, UNCHANGED <<profile, trained, taken>>
  PROVE  /\ profile' # None => ProfileOK(profile', trained') /\ ValidProfile(profile')
                               /\ profile'.version \in taken'
         /\ trained' \subseteq Outputs
         /\ taken' \subseteq {"1.0.0"} \cup {r.version : r \in Refinements}
BY DEF IInv, TypeOK

LEMMA RunUnlearnedKeeps ==
  ASSUME IInv, NEW raw \in Outputs, NEW log \in BOOLEAN, RunUnlearned(raw, log)
  PROVE  IInv'
<1>1. profile = None /\ profile' = profile /\ trained' = trained /\ taken' = taken
  BY DEF RunUnlearned
<1>2. last' = Ran(raw, LayerTwo(LayerOne(raw), log), FALSE, FALSE)
  BY DEF RunUnlearned
<1>3. learning' \in BOOLEAN /\ samples' \in [Outputs -> 0 .. SampleCap]
      /\ IsFiniteSet(Rows)' /\ Count' <= SampleCap
  <2>1. CASE Room
    <3>1. samples' = [samples EXCEPT ![raw] = @ + 1] /\ learning' = TRUE
      BY <2>1 DEF RunUnlearned
    <3> QED
      BY <2>1, <3>1, OneMoreSample DEF IInv, TypeOK
  <2>2. CASE ~Room
    <3>1. UNCHANGED <<samples, learning>>
      BY <2>2 DEF RunUnlearned
    <3> QED
      BY <3>1, SamplesKept DEF IInv, TypeOK
  <2> QED
    BY <2>1, <2>2
<1>4. last'.raw = raw /\ last'.by = None /\ last'.aborted = FALSE
      /\ last'.shown = LayerTwo(LayerOne(raw), log)
  BY <1>1, <1>2 DEF Ran
<1>5. LastOK'
  BY <1>4 DEF LastOK
<1> QED
  BY <1>1, <1>3, <1>4, <1>5, ProfileKept DEF IInv, TypeOK

LEMMA RunLearnedKeeps ==
  ASSUME IInv, NEW raw \in Outputs, NEW slow \in BOOLEAN, RunLearned(raw, slow)
  PROVE  IInv'
<1> DEFINE out == ApplyRules(LayerOne(raw), profile.rules, Budget, slow)
<1>1. /\ profile # None /\ last' = Ran(raw, Shown(raw, out), out.aborted, slow)
      /\ UNCHANGED <<samples, taken, learning>>
      /\ IF out.aborted THEN Quarantine ELSE UNCHANGED <<profile, trained>>
  BY DEF RunLearned
<1>2. samples' \in [Outputs -> 0 .. SampleCap] /\ IsFiniteSet(Rows)' /\ Count' <= SampleCap
  BY <1>1, SamplesKept
<1> HIDE DEF out
<1>3. last'.raw = raw /\ last'.by = profile /\ last'.trained = trained /\ last'.slow = slow
      /\ last'.aborted = out.aborted /\ last'.shown = Shown(raw, out)
  BY <1>1 DEF Ran
<1>4. ProfileOK(profile, trained)
  BY <1>1 DEF IInv
<1>5. out = ApplyRules(LayerOne(last'.raw), last'.by.rules, Budget, last'.slow)
  BY <1>3 DEF out
<1>6. LastOK'
  BY <1>1, <1>3, <1>4, <1>5 DEF LastOK
<1>7. /\ profile' # None => ProfileOK(profile', trained') /\ ValidProfile(profile')
                              /\ profile'.version \in taken'
      /\ trained' \subseteq Outputs
      /\ taken' \subseteq {"1.0.0"} \cup {r.version : r \in Refinements}
  <2>1. CASE out.aborted
    <3>1. profile' = None /\ trained' = {} /\ taken' = taken
      BY <1>1, <2>1 DEF Quarantine
    <3>2. taken \subseteq {"1.0.0"} \cup {r.version : r \in Refinements}
      BY DEF IInv, TypeOK
    <3> QED
      BY <3>1, <3>2
  <2>2. CASE ~out.aborted
    BY <1>1, <2>2, ProfileKept
  <2> QED
    BY <2>1, <2>2
<1>8. learning' \in BOOLEAN
  BY <1>1 DEF IInv, TypeOK
<1> QED
  BY <1>2, <1>3, <1>6, <1>7, <1>8 DEF IInv, TypeOK

LEMMA AutoSynthesizeKeeps ==
  ASSUME IInv, AutoSynthesize
  PROVE  IInv'
<1>1. learning' = FALSE /\ last' = None /\ UNCHANGED samples
  BY DEF AutoSynthesize
<1>2. PICK p \in Candidates(Captured) : Install(p, TRUE) /\ \A s \in Captured : SelfTest(p, s)
  BY DEF AutoSynthesize
<1> QED
  BY <1>1, <1>2, InstallKeeps, SamplesKept DEF IInv, TypeOK

LEMMA SynthesizeKeeps ==
  ASSUME IInv, Synthesize
  PROVE  IInv'
<1>1. last = None /\ UNCHANGED <<samples, learning, last>>
  BY DEF Synthesize
<1>2. PICK p \in Candidates(Captured) : Install(p, FALSE)
  BY DEF Synthesize
<1>3. learning \in BOOLEAN
  BY DEF IInv, TypeOK
<1> QED
  BY <1>1, <1>2, <1>3, InstallKeeps, SamplesKept DEF IInv, TypeOK

LEMMA ExitKeeps ==
  ASSUME IInv, Exit
  PROVE  IInv'
<1>1. learning' = FALSE /\ last' = None /\ UNCHANGED <<samples, profile, trained, taken>>
  BY DEF Exit
<1> QED
  BY <1>1, ProfileKept, SamplesKept DEF IInv, TypeOK

LEMMA NextIInv ==
  ASSUME IInv, [Next]_vars
  PROVE  IInv'
<1>1. CASE UNCHANGED vars
  <2>1. UNCHANGED <<samples, profile, trained, taken, learning, last>>
    BY <1>1 DEF vars
  <2>2. last # None => LastOK
    BY DEF IInv
  <2>3. last' # None => LastOK'
    BY <2>1, <2>2 DEF LastOK
  <2> QED
    BY <2>1, <2>3, ProfileKept, SamplesKept DEF IInv, TypeOK
<1>2. CASE Next
  BY <1>2, RunUnlearnedKeeps, RunLearnedKeeps, AutoSynthesizeKeeps, SynthesizeKeeps, ExitKeeps
     DEF Next
<1> QED
  BY <1>1, <1>2

\* The invariant holds of every state the runs of one command can reach.
THEOREM Invariance == Spec => []IInv
<1> QED
  BY InitIInv, NextIInv, PTL DEF Spec

-----------------------------------------------------------------------------
(***************************************************************************)
(* What a run shows.                                                       *)
(***************************************************************************)
\* Samples stay within their cap, and the active profile validates and has its
\* version in the table (run.rs, sample_repo.rs:69-77).
THEOREM TypeCorrect == Spec => []TypeOK
<1>1. IInv => TypeOK
  BY DEF IInv
<1> QED
  BY <1>1, Invariance, PTL

\* Whatever a run shows.
LEMMA ShownKeeps ==
  ASSUME IInv, last # None, last.by # None => ~Reprints(last.by)
  PROVE  /\ last.raw \in Outputs
         /\ Keeps(Bare(last.raw), last.shown)
<1> DEFINE raw == last.raw
           plain == Bare(raw)
           lines == LayerOne(raw)
           out == ApplyRules(lines, last.by.rules, Budget, last.slow)
<1>1. LastOK /\ raw \in Outputs
  BY DEF IInv, LastOK
<1>2. lines \in PlainSeq /\ lines \in Seq(Lines) /\ plain \in Seq(Lines)
  BY <1>1, LayerOneIs
<1>3. Keeps(plain, lines) /\ \A log : Keeps(plain, LayerTwo(lines, log))
  BY <1>1, LayersKeep
<1>4. CASE last.by = None
  BY <1>1, <1>3, <1>4 DEF LastOK
<1>5. CASE last.by # None
  <2>1. last.shown = Shown(raw, out) /\ last.by.rules \in Seq(Rules)
    BY <1>1, <1>5 DEF LastOK, ProfileOK
  <2> DEFINE rules == last.by.rules
  <2>0. rules \in Seq(LineRules)
    <3>1. \A i \in DOMAIN rules : rules[i].kind \notin JsonKinds
      BY <1>5 DEF Reprints
    <3> HIDE DEF rules
    <3>2. rules \in Seq(Rules)
      BY <2>1 DEF rules
    <3>3. \A i \in 1 .. Len(rules) : rules[i] \in LineRules
      BY <3>1, <3>2 DEF LineRules
    <3> QED
      BY <3>2, <3>3
  <2> HIDE DEF plain, lines, rules
  <2>2. out \in ApplyAcc /\ Keeps(lines, out.lines)
    BY <1>2, <2>0, <2>1, ApplyLaws, ApplyRulesKeeps DEF rules
  <2> HIDE DEF out
  <2>3. out.lines \in Seq(Lines)
    BY <2>2 DEF ApplyAcc
  <2>4. Keeps(plain, out.lines)
    BY <1>2, <1>3, <2>2, <2>3, KeepsTrans
  <2>5. Shown(raw, out) = lines \/ Shown(raw, out) = out.lines
    BY DEF Shown, lines
  <2>6. Keeps(plain, Shown(raw, out))
    BY <1>3, <2>4, <2>5
  <2> QED
    BY <1>1, <2>1, <2>6 DEF plain
<1> QED
  BY <1>1, <1>4, <1>5

\* Whatever rules but the JSON path rules a profile composes, the verbatim lines
\* shown are lines of the raw output without its colours and carriage returns, in
\* their order (README.md:61; interpreter.rs).
THEOREM NothingRewritten == Spec => []NeverRewritten
<1>1. IInv => NeverRewritten
  BY ShownKeeps, LayersKeep DEF NeverRewritten, Bare
<1> QED
  BY <1>1, Invariance, PTL

\* Layer 1 leaves every text.
LEMMA LayerOneTexts ==
  ASSUME NEW raw \in Outputs
  PROVE  {raw[i].text : i \in DOMAIN raw} \subseteq
           {LayerOne(raw)[i].text : i \in DOMAIN LayerOne(raw)}
<1> DEFINE clean == StripCr(raw)
           plain == StripAnsi(clean)
           lines == LayerOne(raw)
<1>1. raw \in Seq(Lines) /\ lines \in Seq(Lines) /\ Range(lines) = Range(plain)
      /\ plain \in Seq(Lines)
  BY LayerOneIs DEF Bare
<1>4. /\ clean \in Seq(Lines) /\ Len(clean) = Len(raw)
      /\ \A i \in 1 .. Len(raw) : clean[i].text = raw[i].text
  BY <1>1, StripCrIs
<1> HIDE DEF clean
<1>2. Len(plain) = Len(raw) /\ \A i \in 1 .. Len(raw) : plain[i] = Plain(clean[i])
  BY <1>4, StripAnsiType
<1> HIDE DEF plain, lines
<1>3. ASSUME NEW i \in DOMAIN raw PROVE \E j \in DOMAIN lines : lines[j].text = raw[i].text
  <2>1. i \in 1 .. Len(raw) /\ clean[i] \in Lines
    BY <1>1, <1>4
  <2>2. plain[i].text = raw[i].text
    BY <1>2, <1>4, <2>1, PlainLine
  <2>3. plain[i] \in Range(lines)
    BY <1>1, <1>2, <2>1, RangeSeq
  <2>4. PICK j \in DOMAIN lines : lines[j] = plain[i]
    BY <2>3 DEF Range
  <2> QED
    BY <2>2, <2>4
<1> QED
  BY <1>3 DEF lines

\* A profile that exceeds its budget costs no text (run.rs:170-176).
THEOREM AbortCostsNothing == Spec => []NothingLostToAbort
<1>1. ASSUME IInv, last # None, last.aborted
      PROVE  {last.raw[i].text : i \in DOMAIN last.raw} \subseteq
               {last.shown[i].text : i \in DOMAIN last.shown}
  <2>1. LastOK
    BY <1>1 DEF IInv
  <2>2. last.by # None
    BY <1>1, <2>1 DEF LastOK
  <2>3. last.shown = LayerOne(last.raw)
    BY <1>1, <2>1, <2>2 DEF LastOK, Shown
  <2>4. last.raw \in Outputs
    BY <2>1 DEF LastOK
  <2> QED
    BY <2>3, <2>4, LayerOneTexts
<1>2. IInv => NothingLostToAbort
  BY <1>1 DEF NothingLostToAbort
<1> QED
  BY <1>2, Invariance, PTL

LEMMA OneRule ==
  ASSUME NEW S, NEW s \in Seq(S), Len(s) = 1
  PROVE  s = Append(<<>>, s[1]) /\ s[1] \in S
<1>0. s \in [1 .. Len(s) -> S]
  BY LenProperties
<1>1. s \in [1 .. 1 -> S] /\ s[1] \in S
  BY <1>0
<1> DEFINE t == Append(<<>>, s[1])
<1>2. t \in Seq(S) /\ Len(t) = 1 /\ t[1] = s[1]
  BY <1>1
<1> HIDE DEF t
<1>3. t \in [1 .. 1 -> S]
  BY <1>2
<1>4. s = t
  BY <1>1, <1>2, <1>3
<1> QED
  BY <1>1, <1>4 DEF t

\* A profile of one collapse rule accounts for every line that layer 1 passed on:
\* it is shown or a placeholder counts it (interpreter.rs:277-356).
THEOREM CollapsedIsCounted == Spec => []ElidedCounted
<1>1. ASSUME IInv, InUse, ~last.aborted, Len(last.by.rules) = 1,
             last.by.rules[1].kind \in {"collapse_repeated", "collapse_between"}
      PROVE  Weight(last.shown) = Len(LayerOne(last.raw))
  <2> DEFINE lines == LayerOne(last.raw)
             rule == last.by.rules[1]
             out == ApplyRules(lines, last.by.rules, Budget, last.slow)
  <2>1. last # None /\ last.by # None /\ LastOK
    BY <1>1 DEF IInv, InUse
  <2>2. /\ last.raw \in Outputs /\ last.by.rules \in Seq(Rules)
        /\ last.shown = Shown(last.raw, out) /\ last.aborted = out.aborted
    BY <2>1 DEF LastOK, ProfileOK
  <2>3. last.shown = out.lines /\ ~out.aborted
    BY <1>1, <2>2 DEF Shown
  <2>4. rule \in Rules /\ last.by.rules = Append(<<>>, rule)
    BY <1>1, <2>2, OneRule
  <2>5. lines \in Seq(VLines) /\ lines \in Seq(Lines)
    BY <2>2, LayerOneIs
  <2> HIDE DEF lines, rule
  <2>6. /\ ApplyRules(lines, <<>>, Budget, last.slow) = Start(lines)
        /\ out = ApplyOne(ApplyRules(lines, <<>>, Budget, last.slow), rule, Budget, last.slow)
    <3>1. <<>> \in Seq(Rules)
      OBVIOUS
    <3>2. ApplyRules(lines, <<>>, Budget, last.slow) = Start(lines)
      BY <2>5, ApplyLaws
    <3>3. \A rules \in Seq(Rules) : \A r \in Rules :
            ApplyRules(lines, Append(rules, r), Budget, last.slow) =
              ApplyOne(ApplyRules(lines, rules, Budget, last.slow), r, Budget, last.slow)
      BY <2>5, ApplyLaws
    <3>4. ApplyRules(lines, Append(<<>>, rule), Budget, last.slow) =
            ApplyOne(ApplyRules(lines, <<>>, Budget, last.slow), rule, Budget, last.slow)
      BY <2>4, <3>1, <3>3, Zenon
    <3> QED
      BY <2>4, <3>2, <3>4
  <2>7. Start(lines) \in ApplyAcc /\ ~Start(lines).aborted /\ Start(lines).lines = lines
    BY <2>5 DEF Start, ApplyAcc
  <2> HIDE DEF out
  <2>8. out.lines = Applied(rule, lines)
    <3> DEFINE acc == Start(lines)
    <3> HIDE DEF acc
    <3>1. acc \in ApplyAcc /\ ~acc.aborted /\ acc.lines = lines
          /\ out = ApplyOne(acc, rule, Budget, last.slow)
      BY <2>6, <2>7 DEF acc
    <3>2. CASE Exceeds(acc, rule, Budget, last.slow)
      <4>1. out = [lines |-> <<>>, steps |-> acc.steps, aborted |-> TRUE]
        BY <2>4, <3>1, <3>2, ApplyOneIs
      <4> QED
        BY <2>3, <4>1
    <3>3. CASE ~Exceeds(acc, rule, Budget, last.slow)
      <4>1. out = [lines |-> Applied(rule, lines), steps |-> acc.steps + Ticks(rule, lines),
                   aborted |-> FALSE]
        BY <2>4, <3>1, <3>3, ApplyOneIs
      <4> QED
        BY <4>1
    <3> QED
      BY <3>2, <3>3
  <2>9. rule.kind \in {"collapse_repeated", "collapse_between"}
    BY <1>1 DEF rule
  <2>10. \/ Applied(rule, lines) = CollapseRuns(lines, rule.match, rule.n)
         \/ Applied(rule, lines) = CollapseSection(lines, rule.match, rule.end)
    BY <2>4, <2>9, RuleCases DEF JsonKinds
  <2>11. Weight(Applied(rule, lines)) = Len(lines)
    BY <2>5, <2>10, CollapseRunsWeighs, CollapseSectionWeighs
  <2> QED
    BY <2>3, <2>8, <2>11 DEF lines
<1>2. IInv => ElidedCounted
  BY <1>1 DEF ElidedCounted, Weight
<1> QED
  BY <1>2, Invariance, PTL

-----------------------------------------------------------------------------
(***************************************************************************)
(* Removing repeats, early or late.                                        *)
(***************************************************************************)
LEMMA FilterFilter ==
  ASSUME NEW s \in Seq(Lines), NEW K, NEW M
  PROVE  Filter(Filter(s, K), M) = Filter(s, K \cap M)
<1> DEFINE P == {u \in Seq(Lines) : Filter(Filter(u, K), M) = Filter(u, K \cap M)}
<1>1. <<>> \in P
  <2>1. <<>> \in Seq(Lines)
    OBVIOUS
  <2> QED
    BY <2>1, FilterLaws
<1>2. ASSUME NEW u \in Seq(Lines), NEW x \in Lines, u \in P PROVE Append(u, x) \in P
  <2>0. Append(u, x) \in Seq(Lines)
    OBVIOUS
  <2>1. Filter(u, K) \in Seq(Lines)
    BY FilterLaws
  <2>2. Filter(Append(u, x), K) = IF x \in K THEN Append(Filter(u, K), x) ELSE Filter(u, K)
    BY FilterLaws
  <2>3. Filter(Append(Filter(u, K), x), M) =
          IF x \in M THEN Append(Filter(Filter(u, K), M), x) ELSE Filter(Filter(u, K), M)
    BY <2>1, FilterLaws
  <2>4. Filter(Append(u, x), K \cap M) =
          IF x \in K \cap M THEN Append(Filter(u, K \cap M), x) ELSE Filter(u, K \cap M)
    BY FilterLaws
  <2>5. Filter(Filter(u, K), M) = Filter(u, K \cap M)
    BY <1>2
  <2> HIDE DEF P
  <2>6. Filter(Filter(Append(u, x), K), M) = Filter(Append(u, x), K \cap M)
    <3>1. CASE x \notin K
      BY <2>2, <2>4, <2>5, <3>1
    <3>2. CASE x \in K /\ x \notin M
      BY <2>2, <2>3, <2>4, <2>5, <3>2
    <3>3. CASE x \in K /\ x \in M
      <4>1. Filter(Append(u, x), K) = Append(Filter(u, K), x)
        BY <2>2, <3>3
      <4>2. Filter(Append(Filter(u, K), x), M) = Append(Filter(Filter(u, K), M), x)
        BY <2>3, <3>3
      <4>3. Filter(Append(u, x), K \cap M) = Append(Filter(u, K \cap M), x)
        BY <2>4, <3>3
      <4> QED
        BY <4>1, <4>2, <4>3, <2>5
    <3> QED
      BY <3>1, <3>2, <3>3
  <2> QED
    BY <2>0, <2>6 DEF P
<1>3. Seq(Lines) \subseteq P
  <2> HIDE DEF P
  <2> QED
    BY <1>1, <1>2, SeqInduct
<1> QED
  BY <1>3

LEMMA FilterAll ==
  ASSUME NEW s \in Seq(Lines)
  PROVE  Filter(s, Lines) = s
<1> DEFINE P == {u \in Seq(Lines) : Filter(u, Lines) = u}
<1>1. <<>> \in P
  <2>1. <<>> \in Seq(Lines)
    OBVIOUS
  <2> QED
    BY <2>1, FilterLaws
<1>2. ASSUME NEW u \in Seq(Lines), NEW x \in Lines, u \in P PROVE Append(u, x) \in P
  <2>1. Append(u, x) \in Seq(Lines)
    OBVIOUS
  <2>2. Filter(Append(u, x), Lines) = Append(Filter(u, Lines), x)
    BY FilterLaws
  <2> QED
    BY <1>2, <2>1, <2>2
<1>3. Seq(Lines) \subseteq P
  <2> HIDE DEF P
  <2> QED
    BY <1>1, <1>2, SeqInduct
<1> QED
  BY <1>3

\* A last line that is wanted stays the last.
LEMMA FilterKeepsLast ==
  ASSUME NEW s \in Seq(Lines), NEW K, s # <<>>, s[Len(s)] \in K
  PROVE  Filter(s, K) # <<>> /\ Filter(s, K)[Len(Filter(s, K))] = s[Len(s)]
<1> DEFINE P == {u \in Seq(Lines) : u # <<>> /\ u[Len(u)] \in K =>
                   Filter(u, K) # <<>> /\ Filter(u, K)[Len(Filter(u, K))] = u[Len(u)]}
<1>1. <<>> \in P
  OBVIOUS
<1>2. ASSUME NEW u \in Seq(Lines), NEW x \in Lines, u \in P PROVE Append(u, x) \in P
  <2>1. Append(u, x) \in Seq(Lines) /\ Append(u, x)[Len(Append(u, x))] = x
    OBVIOUS
  <2>2. CASE x \in K
    <3>1. Filter(Append(u, x), K) = Append(Filter(u, K), x) /\ Filter(u, K) \in Seq(Lines)
      BY <2>2, FilterLaws
    <3>2. \A t \in Seq(Lines) : Append(t, x) # <<>> /\ Append(t, x)[Len(Append(t, x))] = x
      OBVIOUS
    <3> QED
      BY <2>1, <3>1, <3>2
  <2>3. CASE x \notin K
    BY <2>1, <2>3
  <2> QED
    BY <2>2, <2>3
<1>3. Seq(Lines) \subseteq P
  <2> HIDE DEF P
  <2> QED
    BY <1>1, <1>2, SeqInduct
<1> QED
  BY <1>3

\* Repeats that are removed before filtering need not be removed after it.
LEMMA DedupFilter ==
  ASSUME NEW s \in Seq(Lines), NEW K
  PROVE  /\ Dedup(Filter(Dedup(s), K)) = Dedup(Filter(s, K))
         /\ Len(Filter(Dedup(s), K)) <= Len(Filter(s, K))
<1> DEFINE P == {u \in Seq(Lines) :
                   /\ Dedup(Filter(Dedup(u), K)) = Dedup(Filter(u, K))
                   /\ Len(Filter(Dedup(u), K)) <= Len(Filter(u, K))}
<1>1. <<>> \in P
  <2>1. <<>> \in Seq(Lines)
    OBVIOUS
  <2> QED
    BY <2>1, FilterLaws, DedupLaws
<1>2. ASSUME NEW u \in Seq(Lines), NEW x \in Lines, u \in P PROVE Append(u, x) \in P
  <2> DEFINE d == Dedup(u)
             fd == Filter(d, K)
             fu == Filter(u, K)
             ends == d # <<>> /\ d[Len(d)] = x
  <2>1. d \in Seq(Lines) /\ fu \in Seq(Lines)
    BY DedupLaws, FilterLaws
  <2>2. fd \in Seq(Lines)
    BY <2>1, FilterLaws
  <2>3. Append(u, x) \in Seq(Lines)
    OBVIOUS
  <2>4. Dedup(Append(u, x)) = IF ends THEN d ELSE Append(d, x)
    BY DedupLaws
  <2>5. Filter(Append(u, x), K) = IF x \in K THEN Append(fu, x) ELSE fu
    BY FilterLaws
  <2>6. Filter(Append(d, x), K) = IF x \in K THEN Append(fd, x) ELSE fd
    BY <2>1, FilterLaws
  <2>7. Dedup(fd) = Dedup(fu) /\ Len(fd) <= Len(fu)
    BY <1>2
  <2>8. /\ Dedup(Append(fd, x)) = IF Dedup(fd) # <<>> /\ Dedup(fd)[Len(Dedup(fd))] = x
                                    THEN Dedup(fd) ELSE Append(Dedup(fd), x)
        /\ Dedup(Append(fu, x)) = IF Dedup(fu) # <<>> /\ Dedup(fu)[Len(Dedup(fu))] = x
                                    THEN Dedup(fu) ELSE Append(Dedup(fu), x)
    BY <2>1, <2>2, DedupLaws
  <2>9. ends /\ x \in K => Dedup(fd) # <<>> /\ Dedup(fd)[Len(Dedup(fd))] = x
    <3>1. ends /\ x \in K => fd # <<>> /\ fd[Len(fd)] = x
      BY <2>1, FilterKeepsLast
    <3> HIDE DEF fd, ends
    <3> QED
      BY <2>2, <3>1, DedupKeepsLast
  <2>10. /\ Len(fd) \in Nat /\ Len(fu) \in Nat
         /\ Len(Append(fd, x)) = Len(fd) + 1 /\ Len(Append(fu, x)) = Len(fu) + 1
    BY <2>1, <2>2
  <2> HIDE DEF d, fd, fu, ends
  <2>11. Dedup(Filter(Dedup(Append(u, x)), K)) = Dedup(Filter(Append(u, x), K))
    BY <2>4, <2>5, <2>6, <2>7, <2>8, <2>9 DEF fd
  <2>12. Len(Filter(Dedup(Append(u, x)), K)) <= Len(Filter(Append(u, x), K))
    BY <2>4, <2>5, <2>6, <2>7, <2>10 DEF fd
  <2> QED
    BY <2>3, <2>11, <2>12
<1>3. Seq(Lines) \subseteq P
  <2> HIDE DEF P
  <2> QED
    BY <1>1, <1>2, SeqInduct
<1> QED
  BY <1>3

\* t is s without some of the repeats.
Thinner(s, t) ==
  /\ s \in Seq(Lines) /\ t \in Seq(Lines)
  /\ Dedup(s) = Dedup(t)
  /\ \A K : Len(Filter(t, K)) <= Len(Filter(s, K))

LEMMA ThinnerDedup ==
  ASSUME NEW s \in Seq(Lines)
  PROVE  Thinner(s, Dedup(s))
<1>1. Dedup(s) \in Seq(Lines)
  BY DedupLaws
<1>2. Dedup(Filter(Dedup(s), Lines)) = Dedup(Filter(s, Lines))
  BY DedupFilter
<1>3. Dedup(Dedup(s)) = Dedup(s)
  BY <1>1, <1>2, FilterAll
<1> QED
  BY <1>1, <1>3, DedupFilter DEF Thinner

LEMMA ThinnerFilter ==
  ASSUME NEW s, NEW t, NEW K, Thinner(s, t)
  PROVE  Thinner(Filter(s, K), Filter(t, K))
<1>1. s \in Seq(Lines) /\ t \in Seq(Lines) /\ Dedup(s) = Dedup(t)
  BY DEF Thinner
<1>2. Filter(s, K) \in Seq(Lines) /\ Filter(t, K) \in Seq(Lines)
  BY <1>1, FilterLaws
<1>3. Dedup(Filter(s, K)) = Dedup(Filter(t, K))
  <2>1. Dedup(Filter(Dedup(s), K)) = Dedup(Filter(s, K))
    BY <1>1, DedupFilter
  <2>2. Dedup(Filter(Dedup(t), K)) = Dedup(Filter(t, K))
    BY <1>1, DedupFilter
  <2> QED
    BY <1>1, <2>1, <2>2
<1>4. ASSUME NEW M PROVE Len(Filter(Filter(t, K), M)) <= Len(Filter(Filter(s, K), M))
  <2>1. Len(Filter(t, K \cap M)) <= Len(Filter(s, K \cap M))
    BY DEF Thinner
  <2>2. Filter(Filter(t, K), M) = Filter(t, K \cap M) /\ Filter(Filter(s, K), M) = Filter(s, K \cap M)
    BY <1>1, FilterFilter
  <2> QED
    BY <2>1, <2>2
<1> QED
  BY <1>2, <1>3, <1>4 DEF Thinner

LEMMA ThinnerLen ==
  ASSUME NEW s, NEW t, Thinner(s, t)
  PROVE  Len(t) <= Len(s)
<1>1. Len(Filter(t, Lines)) <= Len(Filter(s, Lines)) /\ s \in Seq(Lines) /\ t \in Seq(Lines)
  BY DEF Thinner
<1> QED
  BY <1>1, FilterAll

-----------------------------------------------------------------------------
(***************************************************************************)
(* A self-test a and a run b, rule by rule.                                *)
(***************************************************************************)
\* The self-test has not aborted; the run has not either, unless the machine is
\* slow, and has spent no more steps.
Tied(a, b, slow) ==
  /\ a \in ApplyAcc /\ b \in ApplyAcc
  /\ ~a.aborted
  /\ b.aborted => slow
  /\ ~b.aborted => b.steps <= a.steps

\* The rule has no more lines to visit or to leave in the run.
NoMore(a, b, rule) ==
  ~b.aborted =>
    /\ Len(b.lines) <= Len(a.lines)
    /\ Len(Applied(rule, b.lines)) <= Len(Applied(rule, a.lines))
    /\ Ticks(rule, b.lines) <= Ticks(rule, a.lines)

\* Both have taken the step, or the run has aborted.
Stepped(a, b, a1, b1, rule, slow) ==
  /\ Tied(a1, b1, slow)
  /\ a1.lines = Applied(rule, a.lines)
  /\ ~b1.aborted => ~b.aborted /\ b1.lines = Applied(rule, b.lines)

\* A rule that does to the run no more than to the self-test keeps them tied.
LEMMA StepTied ==
  ASSUME NEW a, NEW b, NEW slow, Tied(a, b, slow), NEW rule \in Rules,
         ~ApplyOne(a, rule, Budget, FALSE).aborted, NoMore(a, b, rule)
  PROVE  Stepped(a, b, ApplyOne(a, rule, Budget, FALSE), ApplyOne(b, rule, Budget, slow), rule, slow)
<1> DEFINE a1 == ApplyOne(a, rule, Budget, FALSE)
           b1 == ApplyOne(b, rule, Budget, slow)
           la == Applied(rule, a.lines)
           lb == Applied(rule, b.lines)
           ta == Ticks(rule, a.lines)
           tb == Ticks(rule, b.lines)
<1>1. /\ a \in ApplyAcc /\ b \in ApplyAcc /\ ~a.aborted /\ a.lines \in Seq(Lines)
      /\ b.lines \in Seq(Lines) /\ a.steps \in Nat /\ b.steps \in Nat
  BY DEF Tied, ApplyAcc
<1>2. la \in Seq(Lines) /\ lb \in Seq(Lines) /\ ta \in Nat /\ tb \in Nat
  BY <1>1, AppliedType, TicksType
<1>3. a1 \in ApplyAcc /\ b1 \in ApplyAcc
  BY <1>1, ApplyOneIs
<1>4. ~Exceeds(a, rule, Budget, FALSE)
  <2>1. ASSUME Exceeds(a, rule, Budget, FALSE) PROVE FALSE
    <3>1. a1 = [lines |-> <<>>, steps |-> a.steps, aborted |-> TRUE]
      BY <1>1, <2>1, ApplyOneIs
    <3>2. ~a1.aborted
      OBVIOUS
    <3> HIDE DEF a1
    <3>3. a1.aborted
      BY <3>1, Zenon
    <3> QED
      BY <3>2, <3>3
  <2> QED
    BY <2>1
<1>5. a1 = [lines |-> la, steps |-> a.steps + ta, aborted |-> FALSE]
  BY <1>1, <1>4, ApplyOneIs
<1>6. CASE b.aborted
  <2>1. b1 = b
    BY <1>1, <1>6, ApplyOneIs
  <2>2. slow
    BY <1>6 DEF Tied
  <2> HIDE DEF a1, b1, la, ta
  <2>3. b1.aborted
    BY <1>6, <2>1
  <2>4. ~a1.aborted /\ a1.lines = la
    BY <1>5
  <2>5. Tied(a1, b1, slow)
    BY <1>3, <2>2, <2>3, <2>4 DEF Tied
  <2> QED
    BY <2>3, <2>4, <2>5 DEF a1, b1, la, Stepped
<1>7. CASE ~b.aborted /\ Exceeds(b, rule, Budget, slow)
  <2>1. b1 = [lines |-> <<>>, steps |-> b.steps, aborted |-> TRUE]
    BY <1>1, <1>7, ApplyOneIs
  <2>2. ASSUME ~slow PROVE FALSE
    <3>1. /\ Len(a.lines) <= Budget.peak /\ a.steps + ta <= Budget.steps
          /\ Len(la) <= Budget.peak
      <4>1. /\ Len(a.lines) \in Nat /\ Len(la) \in Nat /\ a.steps + ta \in Nat
            /\ Budget.peak \in Nat /\ Budget.steps \in Nat
        BY <1>1, <1>2, BoundsAssumption
      <4>2. ~(Len(a.lines) > Budget.peak) /\ ~(a.steps + ta > Budget.steps) /\ ~(Len(la) > Budget.peak)
        BY <1>4 DEF Exceeds, OverSteps
      <4> HIDE DEF la, ta
      <4> QED
        BY <4>1, <4>2
    <3>2. /\ Len(b.lines) <= Len(a.lines) /\ Len(lb) <= Len(la) /\ tb <= ta
          /\ b.steps <= a.steps
      BY <1>7 DEF Tied, NoMore
    <3>3. \/ Len(b.lines) > Budget.peak \/ b.steps + tb > Budget.steps \/ Len(lb) > Budget.peak
      BY <1>7, <2>2 DEF Exceeds, OverSteps
    <3>4. Len(a.lines) \in Nat /\ Len(la) \in Nat /\ Len(b.lines) \in Nat /\ Len(lb) \in Nat
          /\ Budget.peak \in Nat /\ Budget.steps \in Nat
      BY <1>1, <1>2, BoundsAssumption
    <3> HIDE DEF la, ta, lb, tb
    <3>5. \A i, j, k \in Nat : i <= j /\ j <= k => i <= k
      OBVIOUS
    <3>9. b.steps + tb <= a.steps + ta /\ a.steps + ta \in Nat /\ b.steps + tb \in Nat
      BY <1>1, <1>2, <3>2
    <3>6. Len(b.lines) <= Budget.peak /\ b.steps + tb <= Budget.steps /\ Len(lb) <= Budget.peak
      BY <3>1, <3>2, <3>4, <3>5, <3>9
    <3>7. b.steps + tb \in Nat
      BY <1>1, <1>2
    <3>8. \A m, n \in Nat : m <= n => ~(m > n)
      OBVIOUS
    <3> QED
      BY <3>3, <3>4, <3>6, <3>7, <3>8
  <2> HIDE DEF a1, b1, la, ta
  <2>3. b1.aborted /\ ~a1.aborted /\ a1.lines = la
    BY <1>5, <2>1
  <2>4. slow
    BY <2>2
  <2>5. Tied(a1, b1, slow)
    BY <1>3, <2>3, <2>4 DEF Tied
  <2> QED
    BY <2>3, <2>5 DEF a1, b1, la, Stepped
<1>8. CASE ~b.aborted /\ ~Exceeds(b, rule, Budget, slow)
  <2>1. b1 = [lines |-> lb, steps |-> b.steps + tb, aborted |-> FALSE]
    BY <1>1, <1>8, ApplyOneIs
  <2>2. tb <= ta /\ b.steps <= a.steps
    BY <1>8 DEF Tied, NoMore
  <2> HIDE DEF a1, b1, la, lb, ta, tb
  <2>3. b.steps + tb <= a.steps + ta
    BY <1>1, <1>2, <2>2
  <2>4. /\ ~b1.aborted /\ b1.lines = lb /\ b1.steps = b.steps + tb
        /\ ~a1.aborted /\ a1.lines = la /\ a1.steps = a.steps + ta
    BY <1>5, <2>1
  <2>5. Tied(a1, b1, slow)
    BY <1>3, <2>3, <2>4 DEF Tied
  <2> QED
    BY <1>8, <2>4, <2>5 DEF a1, b1, la, lb, Stepped
<1> QED
  BY <1>6, <1>7, <1>8

\* What the rules of the baseline do, and that each line costs them one step.
LEMMA BaselineApplied ==
  ASSUME NEW s \in Seq(Lines)
  PROVE  /\ Applied(StripRule, s) = StripAnsi(s) /\ Ticks(StripRule, s) = Len(s)
         /\ Applied(BlankRule, s) = DropMatching(s, BlankLines) /\ Ticks(BlankRule, s) = Len(s)
         /\ Applied(DedupRule, s) = Dedup(s) /\ Ticks(DedupRule, s) = Len(s)
         /\ Applied(FloorRule, s) = TruncateTo(s, Floor) /\ Ticks(FloorRule, s) = 0
         /\ \A anchors : Applied(KeepRule(anchors), s) = KeepMatching(s, anchors)
                         /\ Ticks(KeepRule(anchors), s) = Len(s)
<1>1. Applied(StripRule, s) = StripAnsi(s) /\ Ticks(StripRule, s) = Len(s)
  BY DEF Applied, Ticks, JsonKinds, StripRule
<1>2. Applied(BlankRule, s) = DropMatching(s, BlankLines) /\ Ticks(BlankRule, s) = Len(s)
  BY DEF Applied, Ticks, JsonKinds, BlankRule
<1>3. Applied(DedupRule, s) = Dedup(s) /\ Ticks(DedupRule, s) = Len(s)
  BY DEF Applied, Ticks, JsonKinds, DedupRule
<1>4. Applied(FloorRule, s) = TruncateTo(s, Floor) /\ Ticks(FloorRule, s) = 0
  BY DEF Applied, Ticks, JsonKinds, FloorRule
<1>5. \A anchors : Applied(KeepRule(anchors), s) = KeepMatching(s, anchors)
                   /\ Ticks(KeepRule(anchors), s) = Len(s)
  BY DEF Applied, Ticks, JsonKinds, KeepRule
<1> QED
  BY <1>1, <1>2, <1>3, <1>4, <1>5

\* A rule that leaves the lines in K, one step for each line.
Filtering(rule, K) ==
  \A s \in Seq(Lines) : Applied(rule, s) = Filter(s, K) /\ Ticks(rule, s) = Len(s)

\* The run has the lines of the self-test without some repeats.
TiedThinner(a, b, slow) == Tied(a, b, slow) /\ (~b.aborted => Thinner(a.lines, b.lines))

\* A run that is thinner than its self-test stays so, along a rule that filters.
LEMMA FilterTied ==
  ASSUME NEW a, NEW b, NEW slow, TiedThinner(a, b, slow), NEW rule \in Rules, NEW K,
         Filtering(rule, K), ~ApplyOne(a, rule, Budget, FALSE).aborted
  PROVE  /\ TiedThinner(ApplyOne(a, rule, Budget, FALSE), ApplyOne(b, rule, Budget, slow), slow)
         /\ Range(ApplyOne(a, rule, Budget, FALSE).lines) \subseteq Range(a.lines)
<1>0. Tied(a, b, slow) /\ (~b.aborted => Thinner(a.lines, b.lines))
  BY DEF TiedThinner
<1>1. a.lines \in Seq(Lines) /\ b.lines \in Seq(Lines)
  BY <1>0 DEF Tied, ApplyAcc
<1>2. ~b.aborted => Thinner(Filter(a.lines, K), Filter(b.lines, K))
  BY <1>0, ThinnerFilter
<1>3. /\ Applied(rule, a.lines) = Filter(a.lines, K) /\ Ticks(rule, a.lines) = Len(a.lines)
      /\ Applied(rule, b.lines) = Filter(b.lines, K) /\ Ticks(rule, b.lines) = Len(b.lines)
  BY <1>1 DEF Filtering
<1>4. NoMore(a, b, rule)
  BY <1>0, <1>2, <1>3, ThinnerLen DEF NoMore
<1>5. Stepped(a, b, ApplyOne(a, rule, Budget, FALSE), ApplyOne(b, rule, Budget, slow), rule, slow)
  BY <1>0, <1>4, StepTied
<1>6. Range(Filter(a.lines, K)) \subseteq Range(a.lines)
  BY <1>1, RangeFilter
<1> QED
  BY <1>2, <1>3, <1>5, <1>6 DEF Stepped, TiedThinner

\* One rule more.
LEMMA ApplyAppend ==
  ASSUME NEW s \in Seq(Lines), NEW rules \in Seq(Rules), NEW rule \in Rules, NEW slow
  PROVE  ApplyRules(s, Append(rules, rule), Budget, slow) =
           ApplyOne(ApplyRules(s, rules, Budget, slow), rule, Budget, slow)
<1>1. \A t \in Seq(Rules) : \A r \in Rules :
        ApplyRules(s, Append(t, r), Budget, slow) =
          ApplyOne(ApplyRules(s, t, Budget, slow), r, Budget, slow)
  BY ApplyLaws
<1> QED
  BY <1>1

\* Rules that abort have aborted for good.
LEMMA AbortedBefore ==
  ASSUME NEW s \in Seq(Lines), NEW rules \in Seq(Rules), NEW rule \in Rules, NEW slow,
         ~ApplyRules(s, Append(rules, rule), Budget, slow).aborted
  PROVE  /\ ~ApplyRules(s, rules, Budget, slow).aborted
         /\ ~ApplyOne(ApplyRules(s, rules, Budget, slow), rule, Budget, slow).aborted
<1> DEFINE acc == ApplyRules(s, rules, Budget, slow)
           next == ApplyOne(acc, rule, Budget, slow)
<1>1. acc \in ApplyAcc
  BY ApplyLaws
<1>3. ApplyRules(s, Append(rules, rule), Budget, slow) = next
  BY ApplyAppend
<1> HIDE DEF acc
<1>4. acc.aborted => next = acc
  BY <1>1, ApplyOneIs
<1> HIDE DEF next
<1>5. ~next.aborted
  BY <1>3, Zenon
<1>6. ~acc.aborted
  BY <1>4, <1>5
<1> QED
  BY <1>5, <1>6 DEF acc, next

LEMMA TruncateToRange ==
  ASSUME NEW s \in Seq(Lines), NEW n \in Nat
  PROVE  Range(TruncateTo(s, n)) \subseteq Range(s) \cup {Truncated}
<1>1. Part(s, FirstOf(s, n)) /\ FirstOf(s, n) \in Seq(Lines)
  BY FirstOfPart, PartType
<1>2. PICK a \in 1 .. Len(s) + 1 : \E b \in a - 1 .. Len(s) : FirstOf(s, n) = SubSeq(s, a, b)
  BY <1>1 DEF Part
<1>5. PICK b \in a - 1 .. Len(s) : FirstOf(s, n) = SubSeq(s, a, b)
  BY <1>2
<1>3. Range(SubSeq(s, a, b)) \subseteq Range(s)
  <2> DEFINE t == SubSeq(s, a, b)
  <2>1. \A i \in DOMAIN t : \E j \in 1 .. Len(s) : t[i] = s[j]
    OBVIOUS
  <2>2. \A i \in DOMAIN t : t[i] \in Range(s)
    BY <2>1, RangeSeq
  <2> QED
    BY <2>2 DEF Range
<1>4. Range(Append(FirstOf(s, n), Truncated)) = Range(FirstOf(s, n)) \cup {Truncated}
  BY <1>1, MarkerLines, RangeAppend
<1> QED
  BY <1>3, <1>4, <1>5 DEF TruncateTo

\* An output without carriage returns is the same for layer 1 and the self-test.
LEMMA NoCrIs ==
  ASSUME NEW raw \in Outputs, NoCr(raw)
  PROVE  /\ StripCr(raw) = raw /\ Read(raw) = raw
         /\ \A l \in Range(LayerOne(raw)) : l.cr = 0
<1>1. raw \in Seq(Lines) /\ LayerOne(raw) \in Seq(Lines)
      /\ Range(LayerOne(raw)) = Range(Bare(raw))
  BY LayerOneIs
<1>2. \A i \in 1 .. Len(raw) : raw[i].cr = 0 /\ raw[i] \in Lines
  BY <1>1 DEF NoCr
<1>3. StripCr(raw) = raw
  <2>1. /\ StripCr(raw) \in Seq(Lines) /\ Len(StripCr(raw)) = Len(raw)
        /\ \A i \in 1 .. Len(raw) : StripCr(raw)[i] = raw[i]
    BY <1>1, <1>2, StripCrIs
  <2> QED
    BY <1>1, <2>1
<1>4. Read(raw) = raw
  BY <1>1, <1>2, ReadIs
<1>5. ASSUME NEW l \in Range(LayerOne(raw)) PROVE l.cr = 0
  <2> DEFINE plain == StripAnsi(raw)
  <2>1. plain = Bare(raw)
    BY <1>3 DEF Bare
  <2>2. /\ plain \in Seq(Lines) /\ Len(plain) = Len(raw)
        /\ \A i \in 1 .. Len(raw) : plain[i] = Plain(raw[i])
    BY <1>1, StripAnsiType
  <2> HIDE DEF plain
  <2>4. l \in Range(plain)
    BY <1>1, <1>5, <2>1
  <2>3. PICK i \in 1 .. Len(raw) : l = plain[i]
    BY <2>2, <2>4 DEF Range
  <2> QED
    BY <1>2, <2>2, <2>3, PlainLine
<1> QED
  BY <1>3, <1>4, <1>5

\* The baseline in use and in its self-test after its first rule or two.
LEMMA AnchoringTied ==
  ASSUME NEW raw \in Outputs, NoCr(raw), NEW anchors \in Patterns, NEW slow,
         ~ApplyRules(raw, Anchoring(anchors), Budget, FALSE).aborted
  PROVE  LET a == ApplyRules(raw, Anchoring(anchors), Budget, FALSE)
             b == ApplyRules(LayerOne(raw), Anchoring(anchors), Budget, slow)
         IN /\ TiedThinner(a, b, slow)
            /\ Range(a.lines) \subseteq Range(LayerOne(raw))
<1> DEFINE lines == LayerOne(raw)
           plain == StripAnsi(raw)
           A(t) == ApplyRules(raw, t, Budget, FALSE)
           B(t) == ApplyRules(lines, t, Budget, slow)
           a0 == Start(raw)
           b0 == Start(lines)
           a1 == ApplyOne(a0, StripRule, Budget, FALSE)
           b1 == ApplyOne(b0, StripRule, Budget, slow)
<1>1. /\ raw \in Seq(Lines) /\ lines \in Seq(Lines) /\ plain \in Seq(Lines)
      /\ lines \in PlainSeq /\ Range(lines) = Range(plain) /\ lines = Dedup(plain)
      /\ Len(plain) = Len(raw)
  <2>1. plain = Bare(raw)
    BY NoCrIs DEF Bare
  <2>2. raw \in Seq(Lines) /\ Len(plain) = Len(raw)
    BY LayerOneIs, StripAnsiType
  <2> HIDE DEF lines, plain
  <2> QED
    BY <2>1, <2>2, LayerOneIs DEF lines
<1>2. <<>> \in Seq(Rules) /\ StripRule \in Rules /\ KeepRule(anchors) \in Rules
      /\ <<StripRule>> = Append(<<>>, StripRule) /\ <<StripRule>> \in Seq(Rules)
  <2>1. StripRule \in Rules /\ KeepRule(anchors) \in Rules
    BY BaselineRuleTypes
  <2> QED
    BY <2>1
<1>3. /\ A(<<>>) = a0 /\ B(<<>>) = b0
      /\ \A t \in Seq(Rules) : \A r \in Rules : A(Append(t, r)) = ApplyOne(A(t), r, Budget, FALSE)
      /\ \A t \in Seq(Rules) : \A r \in Rules : B(Append(t, r)) = ApplyOne(B(t), r, Budget, slow)
  <2> HIDE DEF lines, plain, a1, b1
  <2>1. A(<<>>) = a0 /\ B(<<>>) = b0
    BY <1>1, ApplyLaws
  <2>2. \A t \in Seq(Rules) : \A r \in Rules : A(Append(t, r)) = ApplyOne(A(t), r, Budget, FALSE)
    BY <1>1, ApplyAppend
  <2>3. \A t \in Seq(Rules) : \A r \in Rules : B(Append(t, r)) = ApplyOne(B(t), r, Budget, slow)
    BY <1>1, ApplyAppend
  <2> QED
    BY <2>1, <2>2, <2>3
<1>4. A(<<StripRule>>) = a1 /\ B(<<StripRule>>) = b1
  BY <1>2, <1>3
<1>5. Thinner(plain, lines) /\ Len(lines) <= Len(plain)
  BY <1>1, ThinnerDedup, ThinnerLen
<1>6. ~A(<<StripRule>>).aborted
  <2>1. CASE anchors = {}
    BY <2>1 DEF Anchoring
  <2>2. CASE anchors # {}
    <3>1. ~A(Append(<<StripRule>>, KeepRule(anchors))).aborted
      BY <2>2 DEF Anchoring
    <3> QED
      BY <1>1, <1>2, <3>1, AbortedBefore
  <2> QED
    BY <2>1, <2>2
<1>7. Tied(a0, b0, slow) /\ a0.lines = raw /\ b0.lines = lines
  <2>1. a0 \in ApplyAcc /\ b0 \in ApplyAcc
    BY <1>1 DEF Start, ApplyAcc
  <2>2. ~a0.aborted /\ ~b0.aborted /\ b0.steps = 0 /\ a0.steps = 0
        /\ a0.lines = raw /\ b0.lines = lines
    BY DEF Start
  <2> HIDE DEF a0, b0
  <2> QED
    BY <2>1, <2>2 DEF Tied
<1> HIDE DEF a0, b0, lines, plain
<1>8. NoMore(a0, b0, StripRule)
  <2>1. /\ Applied(StripRule, raw) = plain /\ Ticks(StripRule, raw) = Len(raw)
        /\ Applied(StripRule, lines) = lines /\ Ticks(StripRule, lines) = Len(lines)
    <3>1. /\ Applied(StripRule, raw) = plain /\ Ticks(StripRule, raw) = Len(raw)
          /\ Applied(StripRule, lines) = StripAnsi(lines) /\ Ticks(StripRule, lines) = Len(lines)
      BY <1>1, BaselineApplied DEF plain
    <3>2. StripAnsi(lines) = lines
      BY <1>1, StripPlain
    <3> QED
      BY <3>1, <3>2
  <2> QED
    BY <1>1, <1>5, <1>7, <2>1 DEF NoMore
<1>9. Stepped(a0, b0, a1, b1, StripRule, slow)
  <2>1. ~a1.aborted
    BY <1>4, <1>6
  <2> QED
    BY <1>2, <1>7, <1>8, <2>1, StepTied
<1>10. Tied(a1, b1, slow) /\ a1.lines = plain /\ (~b1.aborted => b1.lines = lines)
  <2>1. Applied(StripRule, raw) = plain /\ Applied(StripRule, lines) = lines
    BY <1>1, BaselineApplied, StripPlain DEF plain
  <2> QED
    BY <1>7, <1>9, <2>1 DEF Stepped
<1> HIDE DEF a1, b1
<1>11. TiedThinner(a1, b1, slow)
  BY <1>5, <1>10 DEF TiedThinner
<1>12. Range(a1.lines) \subseteq Range(lines)
  BY <1>1, <1>10
<1>13. CASE anchors = {}
  BY <1>4, <1>10, <1>11, <1>12, <1>13 DEF Anchoring, lines
<1>14. CASE anchors # {}
  <2> DEFINE rule == KeepRule(anchors)
             a2 == ApplyOne(a1, rule, Budget, FALSE)
             b2 == ApplyOne(b1, rule, Budget, slow)
             K == {l \in Lines : ~l.verbatim \/ Matches(anchors, l)}
  <2>1. A(Anchoring(anchors)) = a2 /\ B(Anchoring(anchors)) = b2
    BY <1>2, <1>3, <1>4, <1>14 DEF Anchoring
  <2>2. ~a2.aborted
    BY <2>1
  <2>3. Filtering(rule, K)
    BY BaselineApplied DEF KeepMatching, Filtering
  <2> HIDE DEF K, rule
  <2>4. rule \in Rules
    BY <1>2 DEF rule
  <2>5. TiedThinner(a2, b2, slow) /\ Range(a2.lines) \subseteq Range(a1.lines)
    BY <1>11, <2>2, <2>3, <2>4, FilterTied
  <2> HIDE DEF a2, b2
  <2> QED
    BY <1>12, <2>1, <2>5 DEF lines
<1> QED
  BY <1>13, <1>14

\* Rules in use leave what they left in the self-test, unless they abort, and that
\* only on a slow machine; and they leave lines that layer 1 leaves, and a marker.
SameOutcome(raw, rules, slow) ==
  LET a == ApplyRules(raw, rules, Budget, FALSE)
      b == ApplyRules(LayerOne(raw), rules, Budget, slow)
  IN /\ b.aborted => slow
     /\ ~b.aborted => b.lines = a.lines
     /\ Range(a.lines) \subseteq Range(LayerOne(raw)) \cup {Truncated}

LEMMA BaselineTied ==
  ASSUME NEW raw \in Outputs, NoCr(raw), NEW anchors \in Patterns, NEW slow,
         ~ApplyRules(raw, Baseline(anchors).rules, Budget, FALSE).aborted
  PROVE  SameOutcome(raw, Baseline(anchors).rules, slow)
<1> DEFINE lines == LayerOne(raw)
           A(t) == ApplyRules(raw, t, Budget, FALSE)
           B(t) == ApplyRules(lines, t, Budget, slow)
           t2 == Anchoring(anchors)
           t3 == Append(t2, BlankRule)
           t4 == Append(t3, DedupRule)
           t5 == Append(t4, FloorRule)
           K == {l \in Lines : ~Hits(BlankLines, l)}
<1>1. raw \in Seq(Lines) /\ lines \in Seq(Lines)
  BY LayerOneIs
<1>2. /\ BlankRule \in Rules /\ DedupRule \in Rules /\ FloorRule \in Rules
      /\ t2 \in Seq(Rules) /\ Baseline(anchors).rules = t5
  BY BaselineRuleTypes, BaselineRules
<1> HIDE DEF t2
<1>3. t3 \in Seq(Rules)
  BY <1>2
<1> HIDE DEF t3
<1>4. t4 \in Seq(Rules)
  BY <1>2, <1>3
<1> HIDE DEF t4
<1>5. ~A(t5).aborted
  BY <1>2
<1>6. ~A(t4).aborted /\ ~ApplyOne(A(t4), FloorRule, Budget, FALSE).aborted
  BY <1>1, <1>2, <1>4, <1>5, AbortedBefore
<1>7. ~A(t3).aborted /\ ~ApplyOne(A(t3), DedupRule, Budget, FALSE).aborted
  BY <1>1, <1>2, <1>3, <1>6, AbortedBefore DEF t4
<1>8. ~A(t2).aborted /\ ~ApplyOne(A(t2), BlankRule, Budget, FALSE).aborted
  BY <1>1, <1>2, <1>7, AbortedBefore DEF t3
<1>9. /\ \A t \in Seq(Rules) : \A r \in Rules : A(Append(t, r)) = ApplyOne(A(t), r, Budget, FALSE)
      /\ \A t \in Seq(Rules) : \A r \in Rules : B(Append(t, r)) = ApplyOne(B(t), r, Budget, slow)
  BY <1>1, ApplyLaws
<1>10. /\ A(t3) = ApplyOne(A(t2), BlankRule, Budget, FALSE)
       /\ B(t3) = ApplyOne(B(t2), BlankRule, Budget, slow)
  BY <1>2, <1>9 DEF t3
<1>11. /\ A(t4) = ApplyOne(A(t3), DedupRule, Budget, FALSE)
       /\ B(t4) = ApplyOne(B(t3), DedupRule, Budget, slow)
  BY <1>2, <1>3, <1>9 DEF t4
<1>12. /\ A(t5) = ApplyOne(A(t4), FloorRule, Budget, FALSE)
       /\ B(t5) = ApplyOne(B(t4), FloorRule, Budget, slow)
  BY <1>2, <1>4, <1>9
<1>13. /\ TiedThinner(A(t2), B(t2), slow)
       /\ Range(A(t2).lines) \subseteq Range(lines)
  BY <1>8, AnchoringTied DEF t2
<1> HIDE DEF A, B, lines, t5
<1>14. /\ TiedThinner(A(t3), B(t3), slow)
       /\ Range(A(t3).lines) \subseteq Range(lines)
  <2>1. Filtering(BlankRule, K)
    BY BaselineApplied DEF DropMatching, Filtering
  <2> HIDE DEF K
  <2>2. /\ TiedThinner(A(t3), B(t3), slow)
        /\ Range(A(t3).lines) \subseteq Range(A(t2).lines)
    BY <1>2, <1>8, <1>10, <1>13, <2>1, FilterTied
  <2> QED
    BY <1>13, <2>2
<1>15. A(t3).lines \in Seq(Lines) /\ B(t3).lines \in Seq(Lines)
  BY <1>14 DEF TiedThinner, Tied, ApplyAcc
<1>16. Tied(A(t4), B(t4), slow) /\ A(t4).lines = Dedup(A(t3).lines)
       /\ (~B(t4).aborted => B(t4).lines = A(t4).lines)
  <2>1. \A s \in Seq(Lines) : Applied(DedupRule, s) = Dedup(s) /\ Ticks(DedupRule, s) = Len(s)
    BY BaselineApplied
  <2>2. ~B(t3).aborted => Dedup(B(t3).lines) = Dedup(A(t3).lines)
                          /\ Len(B(t3).lines) <= Len(A(t3).lines)
    BY <1>14, ThinnerLen DEF Thinner, TiedThinner
  <2>3. Dedup(A(t3).lines) \in Seq(Lines)
    BY <1>15, DedupLaws
  <2>4. Len(Dedup(A(t3).lines)) <= Len(Dedup(A(t3).lines))
    BY <2>3
  <2>5. NoMore(A(t3), B(t3), DedupRule)
    BY <1>15, <2>1, <2>2, <2>4 DEF NoMore
  <2>6. Stepped(A(t3), B(t3), A(t4), B(t4), DedupRule, slow)
    BY <1>2, <1>7, <1>11, <1>14, <2>5, StepTied DEF TiedThinner
  <2> QED
    BY <1>15, <2>1, <2>2, <2>6 DEF Stepped
<1>17. A(t4).lines \in Seq(Lines) /\ B(t4).lines \in Seq(Lines)
       /\ Range(A(t4).lines) \subseteq Range(lines)
  <2>1. Range(A(t4).lines) = Range(A(t3).lines)
    BY <1>15, <1>16, DedupKeepsLast
  <2> QED
    BY <1>14, <1>16, <2>1 DEF Tied, ApplyAcc
<1>18. Tied(A(t5), B(t5), slow) /\ A(t5).lines = TruncateTo(A(t4).lines, Floor)
       /\ (~B(t5).aborted => B(t5).lines = A(t5).lines)
  <2>1. \A s \in Seq(Lines) : Applied(FloorRule, s) = TruncateTo(s, Floor) /\ Ticks(FloorRule, s) = 0
    BY BaselineApplied
  <2>2. Len(A(t4).lines) <= Len(A(t4).lines)
    BY <1>17
  <2>3. TruncateTo(A(t4).lines, Floor) \in Seq(Lines)
    BY <1>17, TruncateToType, BoundsAssumption
  <2>4. Len(TruncateTo(A(t4).lines, Floor)) <= Len(TruncateTo(A(t4).lines, Floor))
    BY <2>3
  <2>5. NoMore(A(t4), B(t4), FloorRule)
    BY <1>16, <1>17, <2>1, <2>2, <2>4 DEF NoMore
  <2>6. Stepped(A(t4), B(t4), A(t5), B(t5), FloorRule, slow)
    BY <1>2, <1>6, <1>12, <1>16, <2>5, StepTied
  <2> QED
    BY <1>16, <1>17, <2>1, <2>6 DEF Stepped
<1>19. Range(A(t5).lines) \subseteq Range(lines) \cup {Truncated}
  BY <1>17, <1>18, TruncateToRange, BoundsAssumption
<1>20. B(t5).aborted => slow
  BY <1>18 DEF Tied
<1> QED
  BY <1>2, <1>18, <1>19, <1>20 DEF A, B, lines, SameOutcome

-----------------------------------------------------------------------------
(***************************************************************************)
(* The learned baseline on the outputs it was trained on.                  *)
(***************************************************************************)
\* What the self-test of the baseline left is in what layer 1 leaves, so that
\* layer 1 alone passes too.
LEMMA LayerOnePasses ==
  ASSUME NEW raw \in Outputs, NoCr(raw), NEW anchors \in Patterns, NEW left \in Seq(Lines),
         Range(left) \subseteq Range(LayerOne(raw)) \cup {Truncated},
         PassesAll(Baseline(anchors), raw, left)
  PROVE  PassesAll(Baseline(anchors), raw, LayerOne(raw))
<1> DEFINE lines == LayerOne(raw)
           errors == [kind |-> "all_matching_preserved", match |-> ErrorLines]
           exits == [kind |-> "exit_line_preserved", match |-> ExitLines]
<1>1. raw \in Seq(VLines) /\ raw \in Seq(Lines) /\ lines \in Seq(Lines)
  BY LayerOneIs
<1>2. Baseline(anchors).invariants = {errors, exits}
  BY DEF Baseline, BaselineOf
<1>8. Read(raw) = raw /\ Read(left) = left /\ Read(lines) = lines
  <2>1. Read(raw) = raw /\ \A l \in Range(lines) : l.cr = 0
    BY NoCrIs
  <2>2. Truncated.cr = 0
    BY DEF Truncated
  <2> HIDE DEF lines
  <2>3. \A i \in 1 .. Len(lines) : lines[i].cr = 0
    BY <1>1, <2>1, RangeSeq
  <2>4. \A i \in 1 .. Len(left) : left[i].cr = 0
    <3>1. Range(left) \subseteq Range(lines) \cup {Truncated}
      BY DEF lines
    <3>2. \A i \in 1 .. Len(left) : left[i] \in Range(left)
      BY RangeSeq
    <3> QED
      BY <2>1, <2>2, <3>1, <3>2
  <2> QED
    BY <1>1, <2>1, <2>3, <2>4, ReadIs
<1>3. AllPreserved(ErrorLines, raw, left) /\ SomePreserved(ExitLines, raw, left)
  <2>1. Passes(errors, raw, left) /\ Passes(exits, raw, left)
    BY <1>2, <1>8 DEF PassesAll
  <2>2. Passes(errors, raw, left) <=> AllPreserved(ErrorLines, raw, left)
    BY DEF Passes
  <2>3. Passes(exits, raw, left) <=> SomePreserved(ExitLines, raw, left)
    BY DEF Passes
  <2> QED
    BY <2>1, <2>2, <2>3
<1> HIDE DEF lines
<1>4. \A j \in DOMAIN left : left[j] # Truncated => \E k \in DOMAIN lines : lines[k] = left[j]
  <2>1. ASSUME NEW j \in DOMAIN left, left[j] # Truncated PROVE left[j] \in Range(lines)
    <3>1. left[j] \in Range(left)
      BY DEF Range
    <3> QED
      BY <2>1, <3>1 DEF lines
  <2> QED
    BY <2>1 DEF Range
<1>5. AllPreserved(ErrorLines, raw, lines)
  <2>1. ASSUME NEW i \in DOMAIN raw, Matches(ErrorLines, raw[i])
        PROVE  \E k \in DOMAIN lines : Matches(ErrorLines, lines[k]) /\ lines[k] = raw[i]
    <3>1. PICK j \in DOMAIN left : left[j] = raw[i]
      BY <1>3, <2>1 DEF AllPreserved
    <3>2. raw[i] \in VLines
      BY <1>1
    <3>3. Truncated \notin VLines
      BY DEF VLines, Truncated
    <3>5. left[j] # Truncated
      BY <3>1, <3>2, <3>3, Zenon
    <3>6. PICK k \in DOMAIN lines : lines[k] = left[j]
      BY <1>4, <3>5
    <3>7. lines[k] = raw[i]
      BY <3>1, <3>6
    <3> QED
      BY <2>1, <3>7
  <2> QED
    BY <2>1 DEF AllPreserved
<1>6. SomePreserved(ExitLines, raw, lines)
  <2>1. ASSUME \E i \in DOMAIN raw : Matches(ExitLines, raw[i])
        PROVE  \E k \in DOMAIN lines : Matches(ExitLines, lines[k])
    <3>1. PICK j \in DOMAIN left : Matches(ExitLines, left[j])
      BY <1>3, <2>1 DEF SomePreserved
    <3>2. left[j] # Truncated
      BY <3>1, MarkerAssumption
    <3>3. PICK k \in DOMAIN lines : lines[k] = left[j]
      BY <1>4, <3>2
    <3> QED
      BY <3>1, <3>3
  <2> QED
    BY <2>1 DEF SomePreserved
<1>7. Passes(errors, raw, lines) /\ Passes(exits, raw, lines)
  <2>2. Passes(errors, raw, lines) <=> AllPreserved(ErrorLines, raw, lines)
    BY DEF Passes
  <2>3. Passes(exits, raw, lines) <=> SomePreserved(ExitLines, raw, lines)
    BY DEF Passes
  <2> QED
    BY <1>5, <1>6, <2>2, <2>3
<1> QED
  BY <1>2, <1>7, <1>8 DEF PassesAll, lines

\* A learned baseline in use on an output it was trained on.
LEMMA TrainedRun ==
  ASSUME IInv, InUseAsTrained, last.by.auto
  PROVE  \E anchors \in Patterns :
           /\ last.raw \in Outputs
           /\ last.by.rules = Baseline(anchors).rules
           /\ last.by.invariants = Baseline(anchors).invariants
           /\ ~ApplyRules(last.raw, last.by.rules, Budget, FALSE).aborted
           /\ PassesAll(last.by, last.raw,
                        ApplyRules(last.raw, last.by.rules, Budget, FALSE).lines)
<1>1. last # None /\ last.by # None /\ ~last.by.refined /\ last.raw \in last.trained
  BY DEF InUseAsTrained, InUse
<1>2. LastOK
  BY <1>1 DEF IInv
<1>3. last.raw \in Outputs /\ ProfileOK(last.by, last.trained)
  BY <1>1, <1>2 DEF LastOK
<1>4. /\ \E anchors \in Patterns : last.by = [Baseline(anchors) EXCEPT !.auto = TRUE]
      /\ SelfTest(last.by, last.raw)
  BY <1>1, <1>3 DEF ProfileOK
<1>5. PICK anchors \in Patterns : last.by = [Baseline(anchors) EXCEPT !.auto = TRUE]
  BY <1>4
<1>6. last.by.rules = Baseline(anchors).rules
      /\ last.by.invariants = Baseline(anchors).invariants
  BY <1>5 DEF Baseline, BaselineOf
<1>7. /\ ~ApplyRules(last.raw, last.by.rules, Budget, FALSE).aborted
      /\ PassesAll(last.by, last.raw,
                   ApplyRules(last.raw, last.by.rules, Budget, FALSE).lines)
  BY <1>4 DEF SelfTest
<1> QED
  BY <1>3, <1>6, <1>7

LEMMA PassesByInvariants ==
  ASSUME NEW p, NEW q, p.invariants = q.invariants, NEW raw, NEW lines
  PROVE  PassesAll(p, raw, lines) <=> PassesAll(q, raw, lines)
BY DEF PassesAll

LEMMA TrainedRunIs ==
  ASSUME IInv, InUseAsTrained, last.by.auto, NoCr(last.raw)
  PROVE  /\ last.aborted => last.slow
         /\ PassesAll(last.by, last.raw, last.shown)
<1> DEFINE a == ApplyRules(last.raw, last.by.rules, Budget, FALSE)
           b == ApplyRules(LayerOne(last.raw), last.by.rules, Budget, last.slow)
<1>1. PICK anchors \in Patterns :
        /\ last.raw \in Outputs
        /\ last.by.rules = Baseline(anchors).rules
        /\ last.by.invariants = Baseline(anchors).invariants
        /\ ~a.aborted /\ PassesAll(last.by, last.raw, a.lines)
  BY TrainedRun
<1>2. last.shown = Shown(last.raw, b) /\ last.aborted = b.aborted
  BY DEF InUseAsTrained, InUse, IInv, LastOK
<1>3. /\ b.aborted => last.slow
      /\ ~b.aborted => b.lines = a.lines
      /\ Range(a.lines) \subseteq Range(LayerOne(last.raw)) \cup {Truncated}
  <2>1. ~ApplyRules(last.raw, Baseline(anchors).rules, Budget, FALSE).aborted
    BY <1>1
  <2>2. SameOutcome(last.raw, Baseline(anchors).rules, last.slow)
    BY <1>1, <2>1, BaselineTied
  <2>3. SameOutcome(last.raw, last.by.rules, last.slow)
    BY <1>1, <2>2
  <2> QED
    BY <2>3 DEF SameOutcome
<1>4. a \in ApplyAcc
  <2>1. last.raw \in Seq(Lines) /\ last.by.rules \in Seq(Rules)
    BY <1>1, LayerOneIs, BaselineRules
  <2> QED
    BY <2>1, ApplyLaws
<1> HIDE DEF a, b
<1>5. last.aborted => last.slow
  BY <1>2, <1>3
<1>6. CASE b.aborted
  <2>1. last.shown = LayerOne(last.raw)
    BY <1>2, <1>6 DEF Shown
  <2>2. PassesAll(Baseline(anchors), last.raw, a.lines)
    BY <1>1, PassesByInvariants
  <2>3. a.lines \in Seq(Lines)
    BY <1>4 DEF ApplyAcc
  <2>4. PassesAll(Baseline(anchors), last.raw, LayerOne(last.raw))
    BY <1>1, <1>3, <2>2, <2>3, LayerOnePasses
  <2>5. PassesAll(last.by, last.raw, LayerOne(last.raw))
    BY <1>1, <2>4, PassesByInvariants
  <2> QED
    BY <1>5, <2>1, <2>5
<1>7. CASE ~b.aborted
  <2>1. last.shown = a.lines
    BY <1>2, <1>3, <1>7 DEF Shown
  <2> QED
    BY <1>1, <1>5, <2>1
<1> QED
  BY <1>6, <1>7

\* A learned baseline passes its invariants in use on every output without carriage
\* returns at line ends it was trained on, though the self-test reads the raw sample
\* and the run what layer 1 leaves of it, and though a slow machine may abort the
\* rules (run.rs:237-266, 758-790).
THEOREM TrainedPassesInUse == Spec => []TrainedPasses
<1>1. IInv => TrainedPasses
  BY TrainedRunIs DEF TrainedPasses
<1> QED
  BY <1>1, Invariance, PTL

\* On a machine that is not slow it stays within its budget there: without carriage
\* returns layer 1 only makes the work less (README.md:845; run.rs:762-775).
THEOREM TrainedStaysWithinBudget == Spec => []TrainedWithinBudget
<1>1. IInv => TrainedWithinBudget
  BY TrainedRunIs DEF TrainedWithinBudget
<1> QED
  BY <1>1, Invariance, PTL
=============================================================================
