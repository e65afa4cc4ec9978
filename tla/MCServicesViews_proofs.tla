----------------------- MODULE MCServicesViews_proofs -----------------------
(***************************************************************************)
(* What the dashboard shows of the files, proved for any number of files,  *)
(* callers, writes and replacements.  A behaviour of MCServices is about   *)
(* one protocol, so a property of one part holds when the inductive        *)
(* invariant IInv of its module does: one section proves IInv for each     *)
(* module, in the variables v1, v2, ... that MCServices gives it, and the  *)
(* last one draws the property of the run from them.                       *)
(***************************************************************************)
EXTENDS MCServices, FiniteSetTheorems, FunctionTheorems, SequenceTheorems,
        WellFoundedInduction, TLAPS

-----------------------------------------------------------------------------
\* Telemetry (JsonlTail): what is cached of a file is what was read of it, and an entry of
\* another file is never taken for it.
\* Variables: v1 file, v2 written, v3 looked, v4 cache, v5 result, v6 astray.

\* Finite sets, in the instance and in the library.
LEMMA TelemetryFinite ==
  \A S : (Telemetry!IsFiniteSet(S) <=> IsFiniteSet(S)) /\ Telemetry!Cardinality(S) = Cardinality(S)
BY Zenon DEF Telemetry!IsFiniteSet, IsFiniteSet, Telemetry!Cardinality, Cardinality

\* Half of the numbers up to n are even.
LEMMA TelemetryEvens ==
  ASSUME NEW n \in Nat
  PROVE  Telemetry!Cardinality({i \in 2..n : i % 2 = 0}) = n \div 2
<1> DEFINE E == {i \in 2..n : i % 2 = 0}
           h == n \div 2
           f == [k \in 1..h |-> 2 * k]
<1>1. h \in Nat /\ 2 * h <= n /\ n <= 2 * h + 1
  OBVIOUS
<1> HIDE DEF h
<1>2. \A k \in 1..h : 2 * k \in E
  BY <1>1
<1>3. \A i \in E : \E k \in 1..h : i = 2 * k
  <2> SUFFICES ASSUME NEW i \in E PROVE i \div 2 \in 1..h /\ i = 2 * (i \div 2)
    OBVIOUS
  <2> QED
    BY <1>1
<1>4. f \in Bijection(1..h, E)
  <2>1. f \in [1..h -> E]
    BY <1>2
  <2>2. \A k, l \in 1..h : f[k] = f[l] => k = l
    BY <1>1
  <2>3. \A i \in E : \E k \in 1..h : f[k] = i
    BY <1>3
  <2> HIDE DEF f, E
  <2> QED
    BY <2>1, <2>2, <2>3, Fun_IsBij
<1> HIDE DEF f, E
<1>5. ExistsBijection(1..h, E) /\ Telemetry!IsFiniteSet(1..h) /\ Telemetry!Cardinality(1..h) = h
  BY <1>1, <1>4, FS_Interval, TelemetryFinite DEF ExistsBijection
<1> QED
  BY <1>5, FS_Bijection, TelemetryFinite DEF E, h

\* A file of whole lines and at most one half: its records are its lines.
LEMMA TelemetryLinesAre ==
  ASSUME NEW D \in Seq(Telemetry!Halves), Telemetry!Paired(D)
  PROVE  Telemetry!LinesOf(D) = Telemetry!FirstLines(D, Len(D) \div 2)
<1> DEFINE E == {i \in 2..Len(D) : i % 2 = 0}
           h == Len(D) \div 2
<1>1. Len(D) \in Nat /\ h \in Nat /\ 2 * h <= Len(D)
  OBVIOUS
<1>2. Telemetry!Ends(D) = E
  <2>1. ASSUME NEW i \in 2..Len(D), i % 2 = 0
        PROVE  D[i].half = 2 /\ D[i - 1] = [line |-> D[i].line, half |-> 1]
    <3>1. i - 1 \in 1..Len(D) /\ i \in 1..Len(D) /\ (i - 1) % 2 = 1
      BY <1>1, <2>1
    <3>2. D[i - 1].half = 1 /\ D[i] = [line |-> D[i - 1].line, half |-> 2]
      BY <2>1, <3>1 DEF Telemetry!Paired
    <3>3. D[i - 1] \in Telemetry!Halves
      BY <3>1
    <3> QED
      BY <3>2, <3>3 DEF Telemetry!Halves
  <2>2. ASSUME NEW i \in 2..Len(D), i % 2 # 0
        PROVE  D[i].half # 2
    <3>1. i \in 1..Len(D) /\ i % 2 = 1
      BY <1>1, <2>2
    <3>2. D[i].half = 1
      BY <3>1 DEF Telemetry!Paired
    <3> QED
      BY <3>2
  <2> QED
    BY <2>1, <2>2 DEF Telemetry!Ends
<1>3. Telemetry!Cardinality(Telemetry!Ends(D)) = h
  BY <1>1, <1>2, TelemetryEvens
<1>4. ASSUME NEW i \in E PROVE Telemetry!Cardinality({j \in Telemetry!Ends(D) : j <= i}) = i \div 2
  <2>1. {j \in Telemetry!Ends(D) : j <= i} = {j \in 2..i : j % 2 = 0}
    BY <1>1, <1>2
  <2> QED
    BY <2>1, TelemetryEvens
<1>5. ASSUME NEW k \in 1..h PROVE Telemetry!End(D, k) = 2 * k
  <2>1. 2 * k \in E /\ (2 * k) \div 2 = k
    BY <1>1
  <2>2. \A i \in E : Telemetry!Cardinality({j \in Telemetry!Ends(D) : j <= i}) = k <=> i = 2 * k
    BY <1>4, <2>1
  <2> HIDE DEF E
  <2> QED
    BY <1>2, <2>1, <2>2 DEF Telemetry!End
<1> QED
  BY <1>3, <1>5 DEF Telemetry!LinesOf, Telemetry!FirstLines

\* What is cut out of a file behind a whole line is a file, and its lines are those.
LEMMA TelemetryPieceOf ==
  ASSUME NEW D \in Seq(Telemetry!Halves), Telemetry!Paired(D), NEW m \in Nat, NEW n \in Nat,
         2 * m <= n, n <= Len(D)
  PROVE  LET P == SubSeq(D, 2 * m + 1, n)
         IN  /\ P \in Seq(Telemetry!Halves) /\ Telemetry!Paired(P) /\ Len(P) = n - 2 * m
             /\ \A i \in 1..Len(P) : P[i] = D[2 * m + i]
<1> DEFINE P == SubSeq(D, 2 * m + 1, n)
<1>1. P \in Seq(Telemetry!Halves) /\ Len(P) = n - 2 * m /\ \A i \in 1..Len(P) : P[i] = D[2 * m + i]
  BY SubSeqProperties
<1>2. Telemetry!Paired(P)
  <2> SUFFICES ASSUME NEW i \in 1..Len(P)
               PROVE  /\ i % 2 = 1 => P[i].half = 1
                      /\ i % 2 = 0 => P[i] = [line |-> P[i - 1].line, half |-> 2]
    BY DEF Telemetry!Paired
  <2> HIDE DEF P
  <2>1. 2 * m + i \in 1..Len(D) /\ P[i] = D[2 * m + i] /\ i \in Nat /\ Len(P) \in Nat
    BY <1>1
  <2>2. (2 * m + i) % 2 = i % 2 /\ (i % 2 = 0 => i # 1)
    BY <2>1
  <2>3. i # 1 => i - 1 \in 1..Len(P) /\ 2 * m + (i - 1) = 2 * m + i - 1
    BY <2>1
  <2>4. i # 1 => P[i - 1] = D[2 * m + i - 1]
    BY <1>1, <2>3
  <2>5. i % 2 = 1 => P[i].half = 1
    BY <2>1, <2>2 DEF Telemetry!Paired
  <2>6. ASSUME i % 2 = 0 PROVE P[i] = [line |-> P[i - 1].line, half |-> 2]
    BY <2>1, <2>2, <2>4, <2>6 DEF Telemetry!Paired
  <2> QED
    BY <2>5, <2>6
<1> QED
  BY <1>1, <1>2

\* The first lines of a file are as many, each at its second half.
LEMMA TelemetryFirstLinesIs ==
  ASSUME NEW D \in Seq(Telemetry!Halves), NEW n \in Nat, 2 * n <= Len(D)
  PROVE  /\ Telemetry!FirstLines(D, n) \in Seq(Nat) /\ Len(Telemetry!FirstLines(D, n)) = n
         /\ \A k \in 1..n : Telemetry!FirstLines(D, n)[k] = D[2 * k].line
<1>1. Len(D) \in Nat
  OBVIOUS
<1>2. \A k \in 1..n : 2 * k \in 1..Len(D)
  BY <1>1
<1>3. \A k \in 1..n : D[2 * k] \in Telemetry!Halves
  BY <1>2
<1>4. \A k \in 1..n : D[2 * k].line \in Nat
  BY <1>3 DEF Telemetry!Halves
<1>5. Telemetry!FirstLines(D, n) \in [1..n -> Nat]
  BY <1>4 DEF Telemetry!FirstLines
<1>6. \A k \in 1..n : Telemetry!FirstLines(D, n)[k] = D[2 * k].line
  BY DEF Telemetry!FirstLines
<1> QED
  BY <1>5, <1>6

\* A piece of a piece.
LEMMA TelemetryPieceOfPiece ==
  ASSUME NEW S, NEW D \in Seq(S), NEW a \in Nat, NEW b \in Nat, a <= b, b <= Len(D),
         NEW i \in Nat, NEW j \in Nat, i <= j, j <= b - a
  PROVE  SubSeq(SubSeq(D, a + 1, b), i + 1, j) = SubSeq(D, a + i + 1, a + j)
<1>1. SubSeq(D, a + 1, b) \in Seq(S) /\ Len(SubSeq(D, a + 1, b)) = b - a
      /\ \A k \in 1..b - a : SubSeq(D, a + 1, b)[k] = D[a + k]
  OBVIOUS
<1> DEFINE P == SubSeq(D, a + 1, b)
<1> HIDE DEF P
<1>2. SubSeq(P, i + 1, j) \in Seq(S) /\ Len(SubSeq(P, i + 1, j)) = j - i
      /\ \A k \in 1..j - i : SubSeq(P, i + 1, j)[k] = P[i + k]
  BY <1>1 DEF P
<1>3. a + i \in Nat /\ a + j \in Nat /\ a + i <= a + j /\ a + j <= Len(D)
  OBVIOUS
<1>4. SubSeq(D, a + i + 1, a + j) \in Seq(S) /\ Len(SubSeq(D, a + i + 1, a + j)) = j - i
      /\ \A k \in 1..j - i : SubSeq(D, a + i + 1, a + j)[k] = D[a + i + k]
  BY <1>3
<1>5. \A k \in 1..j - i : P[i + k] = D[a + i + k]
  <2> SUFFICES ASSUME NEW k \in 1..j - i PROVE P[i + k] = D[a + i + k]
    OBVIOUS
  <2>1. i + k \in 1..b - a /\ a + (i + k) = a + i + k
    OBVIOUS
  <2> QED
    BY <1>1, <2>1 DEF P
<1> DEFINE Q == SubSeq(P, i + 1, j)
           R == SubSeq(D, a + i + 1, a + j)
<1>6. Q \in Seq(S) /\ R \in Seq(S) /\ Len(Q) = j - i /\ Len(R) = j - i
      /\ \A k \in 1..j - i : Q[k] = R[k]
  BY <1>2, <1>4, <1>5
<1> HIDE DEF Q, R
<1>7. Q = R
  BY <1>6
<1> QED
  BY <1>7 DEF P, Q, R

LEMMA TelemetryPieceAtTheStart ==
  ASSUME NEW S, NEW D \in Seq(S), NEW a \in Nat, NEW b \in Nat, a <= b, b <= Len(D),
         NEW j \in Nat, j <= b - a
  PROVE  SubSeq(SubSeq(D, a + 1, b), 1, j) = SubSeq(D, a + 1, a + j)
<1>1. PICK i \in Nat : i = 0
  OBVIOUS
<1>2. i <= j /\ i + 1 = 1 /\ a + i + 1 = a + 1
  BY <1>1
<1>3. SubSeq(SubSeq(D, a + 1, b), i + 1, j) = SubSeq(D, a + i + 1, a + j)
  BY <1>2, TelemetryPieceOfPiece
<1> QED
  BY <1>2, <1>3

\* What was pending and what came behind it.
LEMMA TelemetryJoined ==
  ASSUME NEW S, NEW D \in Seq(S), NEW a \in Nat, NEW o \in Nat, a <= o, o <= Len(D)
  PROVE  SubSeq(D, a + 1, o) \o SubSeq(D, o + 1, Len(D)) = SubSeq(D, a + 1, Len(D))
<1>1. Len(D) \in Nat
  OBVIOUS
<1>2. /\ a + 1 \in 1..Len(D) + 1 /\ o \in (a + 1) - 1 .. Len(D) /\ Len(D) \in o..Len(D)
  BY <1>1
<1> QED
  BY <1>2, ConcatAdjacentSubSeq

\* It ends with half a line if the file does.
LEMMA TelemetryHalfAtTheEnd ==
  ASSUME NEW D \in Seq(Telemetry!Halves), Telemetry!Paired(D), NEW m \in Nat, NEW h \in Nat, m <= h,
         2 * h <= Len(D), Len(D) <= 2 * h + 1
  PROVE  LET P == SubSeq(D, 2 * m + 1, Len(D))
         IN  /\ Len(P) = Len(D) - 2 * m
             /\ (P # <<>> /\ Telemetry!Last(P).half = 1) <=> Len(D) = 2 * h + 1
<1> DEFINE P == SubSeq(D, 2 * m + 1, Len(D))
<1>1. /\ P \in Seq(Telemetry!Halves) /\ Len(P) = Len(D) - 2 * m
      /\ \A i \in 1..Len(P) : P[i] = D[2 * m + i]
  <2>1. Len(D) \in Nat
    OBVIOUS
  <2>2. 2 * m <= Len(D) /\ Len(D) <= Len(D)
    BY <2>1
  <2> QED
    BY <2>1, <2>2, TelemetryPieceOf
<1> HIDE DEF P
<1>2. Len(D) \in Nat /\ Len(P) \in Nat
  BY <1>1
<1>3. CASE Len(P) = 0
  <2>1. P = <<>>
    BY <1>1, <1>3
  <2>2. Len(D) # 2 * h + 1
    BY <1>1, <1>2, <1>3
  <2> QED
    BY <1>1, <2>1, <2>2 DEF P
<1>4. CASE Len(P) # 0
  <2>1. Len(P) \in 1..Len(P) /\ 2 * m + Len(P) = Len(D) /\ Len(D) \in 1..Len(D)
    BY <1>1, <1>2, <1>4
  <2>2. Telemetry!Last(P) = D[Len(D)]
    BY <1>1, <2>1 DEF Telemetry!Last
  <2>3. P # <<>>
    BY <1>4
  <2>4. Len(D) = 2 * h \/ Len(D) = 2 * h + 1
    BY <1>2
  <2>5. Len(D) = 2 * h + 1 => Len(D) % 2 = 1
    OBVIOUS
  <2>6. Len(D) = 2 * h => Len(D) % 2 = 0
    OBVIOUS
  <2>7. Len(D) % 2 = 1 => D[Len(D)].half = 1
    BY <2>1 DEF Telemetry!Paired
  <2>8. Len(D) % 2 = 0 => D[Len(D)] = [line |-> D[Len(D) - 1].line, half |-> 2]
    BY <2>1 DEF Telemetry!Paired
  <2>9. Len(D) % 2 = 0 => D[Len(D)].half = 2
    BY <2>8
  <2>10. Telemetry!Last(P).half = 1 <=> Len(D) = 2 * h + 1
    <3>1. 2 * h # 2 * h + 1
      OBVIOUS
    <3> QED
      BY <2>2, <2>4, <2>5, <2>6, <2>7, <2>9, <3>1
  <2> QED
    BY <1>1, <2>3, <2>10 DEF P
<1> QED
  BY <1>3, <1>4

\* The lines of the piece behind the first m are those from the next to the last.
LEMMA TelemetryLinesGoOn ==
  ASSUME NEW D \in Seq(Telemetry!Halves), Telemetry!Paired(D), NEW m \in Nat, NEW h \in Nat, m <= h,
         2 * h <= Len(D)
  PROVE  Telemetry!FirstLines(D, m) \o Telemetry!LinesOf(SubSeq(D, 2 * m + 1, 2 * h)) = Telemetry!FirstLines(D, h)
<1> DEFINE W == SubSeq(D, 2 * m + 1, 2 * h)
<1>1. /\ W \in Seq(Telemetry!Halves) /\ Telemetry!Paired(W) /\ Len(W) = 2 * h - 2 * m
      /\ \A i \in 1..Len(W) : W[i] = D[2 * m + i]
  <2>1. 2 * h \in Nat /\ 2 * m <= 2 * h
    OBVIOUS
  <2> QED
    BY <2>1, TelemetryPieceOf
<1> HIDE DEF W
<1>2. Len(W) \div 2 = h - m /\ h - m \in Nat /\ 2 * (h - m) <= Len(W)
  BY <1>1
<1>3. Telemetry!LinesOf(W) = Telemetry!FirstLines(W, h - m)
  BY <1>1, <1>2, TelemetryLinesAre
<1> DEFINE A == Telemetry!FirstLines(D, m)
           B == Telemetry!FirstLines(W, h - m)
           C == Telemetry!FirstLines(D, h)
<1>4. A \in Seq(Nat) /\ Len(A) = m /\ \A k \in 1..m : A[k] = D[2 * k].line
  <2>1. 2 * m <= Len(D)
    OBVIOUS
  <2> QED
    BY <2>1, TelemetryFirstLinesIs
<1>5. C \in Seq(Nat) /\ Len(C) = h /\ \A k \in 1..h : C[k] = D[2 * k].line
  BY TelemetryFirstLinesIs
<1>6. B \in Seq(Nat) /\ Len(B) = h - m /\ \A k \in 1..h - m : B[k] = W[2 * k].line
  BY <1>1, <1>2, TelemetryFirstLinesIs
<1> HIDE DEF A, B, C
<1>7. \A k \in m + 1..h : B[k - m] = D[2 * k].line
  <2> SUFFICES ASSUME NEW k \in m + 1..h PROVE B[k - m] = D[2 * k].line
    OBVIOUS
  <2>1. k - m \in 1..h - m /\ 2 * (k - m) \in 1..Len(W) /\ 2 * m + 2 * (k - m) = 2 * k
    BY <1>1
  <2> QED
    BY <1>1, <1>6, <2>1
<1>8. /\ A \o B \in Seq(Nat) /\ Len(A \o B) = h
      /\ \A k \in 1..h : (A \o B)[k] = IF k <= m THEN A[k] ELSE B[k - m]
  <2>1. Len(A) + Len(B) = h
    BY <1>2, <1>4, <1>6
  <2> QED
    BY <1>4, <1>6, <2>1, ConcatProperties
<1>9. \A k \in 1..h : (A \o B)[k] = C[k]
  <2> SUFFICES ASSUME NEW k \in 1..h PROVE (A \o B)[k] = C[k]
    OBVIOUS
  <2>1. CASE k <= m
    <3>1. k \in 1..m
      BY <2>1
    <3> QED
      BY <1>4, <1>5, <1>8, <2>1, <3>1
  <2>2. CASE ~(k <= m)
    <3>1. k \in m + 1..h
      BY <2>2
    <3> QED
      BY <1>5, <1>7, <1>8, <2>2, <3>1
  <2> QED
    BY <2>1, <2>2
<1>10. A \o B = C
  BY <1>5, <1>8, <1>9, SeqEqual
<1> QED
  BY <1>3, <1>10 DEF A, B, C, W


LEMMA TelemetryHalfOf ==
  ASSUME NEW n \in Nat
  PROVE  n \div 2 \in Nat /\ 2 * (n \div 2) <= n /\ n <= 2 * (n \div 2) + 1
OBVIOUS

\* Reading on from what was read gives what a reader of the whole file knows.
LEMMA TelemetryExtendedIsRead ==
  ASSUME Telemetry!Types, NEW c \in Telemetry!Entries, Telemetry!EntryIsRead(c)
  PROVE  /\ Telemetry!Extended(c) \in Telemetry!Entries /\ Telemetry!EntryIsRead(Telemetry!Extended(c))
         /\ Telemetry!Extended(c).inode = v1.inode /\ Telemetry!Extended(c).offset = Len(v1.data)
<1>a. PICK D : D = v1.data
  OBVIOUS
<1>b. PICK L : L = Len(D)
  OBVIOUS
<1>c. PICK o : o = c.offset
  OBVIOUS
<1>d. PICK m : m = o \div 2
  OBVIOUS
<1>e. PICK h : h = L \div 2
  OBVIOUS
<1>f. PICK chunk : chunk = SubSeq(D, o + 1, L)
  OBVIOUS
<1>g. PICK data : data = c.pending \o chunk
  OBVIOUS
<1>h. PICK cut : cut = IF data # <<>> /\ Telemetry!Last(data).half = 1 THEN Len(data) - 1 ELSE Len(data)
  OBVIOUS
<1>1. /\ D \in Seq(Telemetry!Halves) /\ Telemetry!Paired(D) /\ L \in Nat /\ v1.mtime \in Nat /\ v1.inode \in Nat
      /\ o \in Nat /\ o <= L /\ c.records = Telemetry!FirstLines(D, m) /\ c.pending = SubSeq(D, 2 * m + 1, o)
  BY <1>a, <1>b, <1>c, <1>d DEF Telemetry!Types, Telemetry!Entries, Telemetry!EntryIsRead
<1>2. /\ m \in Nat /\ h \in Nat /\ 2 * h <= L /\ L <= 2 * h + 1 /\ 2 * m <= o /\ o <= 2 * m + 1
  BY <1>1, <1>d, <1>e, TelemetryHalfOf
<1>3. /\ 2 * m \in Nat /\ 2 * h \in Nat /\ 2 * m <= 2 * h /\ 2 * m <= L /\ m <= h
  BY <1>1, <1>2
<1>4. data = SubSeq(D, 2 * m + 1, L)
  BY <1>1, <1>2, <1>3, <1>b, <1>f, <1>g, TelemetryJoined
<1>5. Len(data) = L - 2 * m /\ ((data # <<>> /\ Telemetry!Last(data).half = 1) <=> L = 2 * h + 1)
  BY <1>1, <1>2, <1>3, <1>4, <1>b, TelemetryHalfAtTheEnd
<1>6. cut = 2 * h - 2 * m
  <2>1. cut = IF L = 2 * h + 1 THEN L - 2 * m - 1 ELSE L - 2 * m
    BY <1>5, <1>h
  <2> QED
    BY <1>1, <1>2, <1>3, <2>1
<1>7. PICK a, b : a = 2 * m /\ b = 2 * h
  OBVIOUS
<1>8. /\ a \in Nat /\ b \in Nat /\ cut \in Nat /\ L - a \in Nat /\ a <= L /\ cut <= L - a
      /\ a + cut = b /\ a + (L - a) = L
  BY <1>1, <1>2, <1>3, <1>6, <1>7
<1>9. /\ SubSeq(data, 1, cut) = SubSeq(D, a + 1, b)
      /\ SubSeq(data, cut + 1, Len(data)) = SubSeq(D, b + 1, L)
  <2>1. SubSeq(SubSeq(D, a + 1, L), 1, cut) = SubSeq(D, a + 1, a + cut)
    BY <1>1, <1>8, <1>b, TelemetryPieceAtTheStart
  <2>2. PICK j \in Nat : j = L - a
    BY <1>8
  <2>3. j <= L - a /\ cut <= j
    BY <1>8, <2>2
  <2>4. SubSeq(SubSeq(D, a + 1, L), cut + 1, j) = SubSeq(D, a + cut + 1, a + j)
    BY <1>1, <1>8, <1>b, <2>3, TelemetryPieceOfPiece
  <2>5. data = SubSeq(D, a + 1, L) /\ Len(data) = j /\ a + j = L
    BY <1>4, <1>5, <1>7, <1>8, <2>2
  <2> QED
    BY <1>8, <2>1, <2>4, <2>5
<1>10. c.records \o Telemetry!LinesOf(SubSeq(data, 1, cut)) = Telemetry!FirstLines(D, h)
  <2>1. Telemetry!FirstLines(D, m) \o Telemetry!LinesOf(SubSeq(D, 2 * m + 1, 2 * h)) = Telemetry!FirstLines(D, h)
    BY <1>1, <1>2, <1>3, <1>b, TelemetryLinesGoOn
  <2> QED
    BY <1>1, <1>7, <1>9, <2>1
<1>11. o + Len(chunk) = L
  <2>1. Len(chunk) = L - o
    BY <1>1, <1>b, <1>f
  <2> QED
    BY <1>1, <2>1
<1>12. Telemetry!Extended(c) = [c EXCEPT !.records = @ \o Telemetry!LinesOf(SubSeq(data, 1, cut)),
                               !.pending = SubSeq(data, cut + 1, Len(data)),
                               !.offset = @ + Len(chunk), !.inode = v1.inode, !.mtime = v1.mtime]
  BY <1>a, <1>b, <1>c, <1>f, <1>g, <1>h DEF Telemetry!Extended
<1>13. Telemetry!Extended(c) = [inode |-> v1.inode, mtime |-> v1.mtime, offset |-> L,
                     pending |-> SubSeq(D, 2 * h + 1, L), records |-> Telemetry!FirstLines(D, h)]
  <2>1. SubSeq(data, cut + 1, Len(data)) = SubSeq(D, 2 * h + 1, L)
    BY <1>7, <1>9
  <2>2. c = [inode |-> c.inode, mtime |-> c.mtime, offset |-> c.offset,
             pending |-> c.pending, records |-> c.records]
    BY DEF Telemetry!Entries
  <2>3. PICK pending, records :
          pending = SubSeq(D, 2 * h + 1, L) /\ records = Telemetry!FirstLines(D, h)
    OBVIOUS
  <2>4. Telemetry!Extended(c) = [c EXCEPT !.records = records, !.pending = pending, !.offset = L,
                                !.inode = v1.inode, !.mtime = v1.mtime]
    BY <1>11, <1>12, <1>10, <2>1, <2>3, <1>c
  <2>5. Telemetry!Extended(c) = [inode |-> v1.inode, mtime |-> v1.mtime, offset |-> L,
                       pending |-> pending, records |-> records]
    BY <2>2, <2>4
  <2> QED
    BY <2>3, <2>5
<1>14. SubSeq(D, 2 * h + 1, L) \in Seq(Telemetry!Halves) /\ Telemetry!FirstLines(D, h) \in Seq(Nat)
  <2>1. SubSeq(D, 2 * h + 1, L) \in Seq(Telemetry!Halves)
    BY <1>1, <1>2, <1>b, TelemetryPieceOf
  <2>2. Telemetry!FirstLines(D, h) \in Seq(Nat)
    BY <1>1, <1>2, <1>b, TelemetryFirstLinesIs
  <2> QED
    BY <2>1, <2>2
<1>15. Telemetry!Extended(c) \in Telemetry!Entries
  BY <1>1, <1>13, <1>14 DEF Telemetry!Entries
<1>16. Telemetry!EntryIsRead([inode |-> v1.inode, mtime |-> v1.mtime, offset |-> L,
                   pending |-> SubSeq(D, 2 * h + 1, L), records |-> Telemetry!FirstLines(D, h)])
  <2>1. L <= Len(v1.data) /\ v1.mtime <= v1.mtime
    BY <1>1, <1>a, <1>b
  <2> QED
    BY <2>1, <1>a, <1>e DEF Telemetry!EntryIsRead
<1> QED
  BY <1>13, <1>15, <1>16, <1>a, <1>b

LEMMA TelemetryLinesAreFirst ==
  ASSUME NEW D \in Seq(Telemetry!Halves), Telemetry!Paired(D), NEW n \in Nat, 2 * n <= Len(D)
  PROVE  Telemetry!IsPrefix(Telemetry!FirstLines(D, n), Telemetry!LinesOf(D))
<1>1. Len(D) \in Nat
  OBVIOUS
<1>2. PICK h : h = Len(D) \div 2
  OBVIOUS
<1>3. h \in Nat /\ 2 * h <= Len(D) /\ n <= h
  BY <1>1, <1>2, TelemetryHalfOf
<1> DEFINE A == Telemetry!FirstLines(D, n)
           B == Telemetry!FirstLines(D, h)
<1>4. A \in Seq(Nat) /\ Len(A) = n /\ \A k \in 1..n : A[k] = D[2 * k].line
  BY TelemetryFirstLinesIs
<1>5. B \in Seq(Nat) /\ Len(B) = h /\ \A k \in 1..h : B[k] = D[2 * k].line
  BY <1>3, TelemetryFirstLinesIs
<1> HIDE DEF A, B
<1>6. SubSeq(A, 1, n) \in Seq(Nat) /\ Len(SubSeq(A, 1, n)) = n
      /\ \A k \in 1..n : SubSeq(A, 1, n)[k] = A[k]
  BY <1>4
<1>7. SubSeq(B, 1, n) \in Seq(Nat) /\ Len(SubSeq(B, 1, n)) = n
      /\ \A k \in 1..n : SubSeq(B, 1, n)[k] = B[k]
  BY <1>3, <1>5
<1>8. \A k \in 1..n : A[k] = B[k]
  <2> SUFFICES ASSUME NEW k \in 1..n PROVE A[k] = B[k]
    OBVIOUS
  <2>1. k \in 1..h
    BY <1>3
  <2> QED
    BY <1>4, <1>5, <2>1
<1>9. SubSeq(A, 1, n) = SubSeq(B, 1, n)
  BY <1>6, <1>7, <1>8, SeqEqual
<1> QED
  BY <1>2, <1>3, <1>4, <1>5, <1>9, TelemetryLinesAre DEF A, B, Telemetry!IsPrefix

\* A file that goes on is a file, and what was read of it is still what it holds.
LEMMA TelemetryPairedGoesOn ==
  ASSUME NEW D \in Seq(Telemetry!Halves), Telemetry!Paired(D), NEW x \in Telemetry!Halves,
         Len(D) % 2 = 0 => x.half = 1,
         Len(D) % 2 = 1 => x = [D[Len(D)] EXCEPT !.half = 2]
  PROVE  Telemetry!Paired(Append(D, x))
<1>1. /\ Append(D, x) \in Seq(Telemetry!Halves) /\ Len(Append(D, x)) = Len(D) + 1 /\ Len(D) \in Nat
      /\ \A i \in 1..Len(D) : Append(D, x)[i] = D[i]
      /\ Append(D, x)[Len(D) + 1] = x
  OBVIOUS
<1> DEFINE E == Append(D, x)
<1> HIDE DEF E
<1> SUFFICES ASSUME NEW i \in 1..Len(E)
             PROVE  /\ i % 2 = 1 => E[i].half = 1
                    /\ i % 2 = 0 => E[i] = [line |-> E[i - 1].line, half |-> 2]
  BY DEF Telemetry!Paired, E
<1>2. CASE i \in 1..Len(D)
  <2>1. E[i] = D[i]
    BY <1>1, <1>2 DEF E
  <2>2. i % 2 = 0 => i - 1 \in 1..Len(D)
    BY <1>1, <1>2
  <2>3. i % 2 = 0 => E[i - 1] = D[i - 1]
    BY <1>1, <2>2 DEF E
  <2> QED
    BY <1>2, <2>1, <2>3 DEF Telemetry!Paired
<1>3. CASE i = Len(D) + 1
  <2>1. E[i] = x
    BY <1>1, <1>3 DEF E
  <2>2. i % 2 = 1 => Len(D) % 2 = 0
    BY <1>1, <1>3
  <2>3. ASSUME i % 2 = 0
        PROVE  E[i] = [line |-> E[i - 1].line, half |-> 2]
    <3>1. Len(D) % 2 = 1 /\ i - 1 = Len(D) /\ Len(D) \in 1..Len(D)
      BY <1>1, <1>3, <2>3
    <3>2. E[i - 1] = D[Len(D)]
      BY <1>1, <3>1 DEF E
    <3>3. D[Len(D)] \in Telemetry!Halves
      BY <3>1
    <3>4. x = [D[Len(D)] EXCEPT !.half = 2]
      BY <3>1
    <3>5. x = [line |-> D[Len(D)].line, half |-> 2]
      BY <3>3, <3>4 DEF Telemetry!Halves
    <3> QED
      BY <2>1, <3>2, <3>5
  <2> QED
    BY <2>1, <2>2, <2>3
<1> QED
  BY <1>1, <1>2, <1>3 DEF E

LEMMA TelemetryStillRead ==
  ASSUME NEW D \in Seq(Telemetry!Halves), NEW x \in Telemetry!Halves, NEW o \in Nat, o <= Len(D)
  PROVE  /\ Telemetry!FirstLines(Append(D, x), o \div 2) = Telemetry!FirstLines(D, o \div 2)
         /\ SubSeq(Append(D, x), 2 * (o \div 2) + 1, o) = SubSeq(D, 2 * (o \div 2) + 1, o)
<1>1. /\ Append(D, x) \in Seq(Telemetry!Halves) /\ Len(Append(D, x)) = Len(D) + 1 /\ Len(D) \in Nat
      /\ \A i \in 1..Len(D) : Append(D, x)[i] = D[i]
  OBVIOUS
<1>2. PICK m : m = o \div 2
  OBVIOUS
<1>3. m \in Nat /\ 2 * m <= o /\ \A k \in 1..m : 2 * k \in 1..Len(D)
  BY <1>1, <1>2, TelemetryHalfOf
<1>4. PICK a \in Nat : a = 2 * m
  BY <1>3
<1> DEFINE E == Append(D, x)
           P == SubSeq(E, a + 1, o)
           Q == SubSeq(D, a + 1, o)
<1> HIDE DEF E
<1>5. Telemetry!FirstLines(E, m) = Telemetry!FirstLines(D, m)
  BY <1>1, <1>3 DEF Telemetry!FirstLines, E
<1>6. P \in Seq(Telemetry!Halves) /\ Len(P) = o - a /\ \A k \in 1..o - a : P[k] = E[a + k]
  BY <1>1, <1>3, <1>4 DEF E
<1>7. Q \in Seq(Telemetry!Halves) /\ Len(Q) = o - a /\ \A k \in 1..o - a : Q[k] = D[a + k]
  BY <1>1, <1>3, <1>4
<1>8. \A k \in 1..o - a : E[a + k] = D[a + k]
  BY <1>1, <1>3, <1>4 DEF E
<1> HIDE DEF P, Q
<1>9. P = Q
  BY <1>6, <1>7, <1>8, SeqEqual
<1> QED
  BY <1>2, <1>4, <1>5, <1>9 DEF E, P, Q

------------------------------------------------------------------------------
LEMMA TelemetryInitIInv == ASSUME Telemetry!Init PROVE Telemetry!IInv
<1>1. Telemetry!Types
  BY DEF Telemetry!Init, Telemetry!Types, Telemetry!Halves, Telemetry!Paired, Telemetry!NoStat
<1>2. v4 \in Telemetry!Entries /\ v4.inode <= v1.inode /\ v4.inode # v1.inode
  BY DEF Telemetry!Init, Telemetry!NoEntry, Telemetry!Empty, Telemetry!NoStat,
     Telemetry!Entries
<1>3. Telemetry!LooksAreOfTheFile /\ Telemetry!IsPrefix(v5.got, v5.due)
  BY DEF Telemetry!Init, Telemetry!LooksAreOfTheFile, Telemetry!IsPrefix
<1> QED
  BY <1>1, <1>2, <1>3 DEF Telemetry!IInv, Telemetry!EntryIsOfTheFile

LEMMA TelemetryWriteKeeps == ASSUME Telemetry!IInv, Telemetry!Write PROVE Telemetry!IInv'
<1>1. /\ v1 \in [inode : Nat, data : Seq(Telemetry!Halves), mtime : Nat] /\ Telemetry!Paired(v1.data)
      /\ v1.data \in Seq(Telemetry!Halves) /\ Len(v1.data) \in Nat /\ v1.mtime \in Nat /\ v2 \in Nat
  BY DEF Telemetry!IInv, Telemetry!Types
<1>2. PICK x : x = Telemetry!NextHalf
  OBVIOUS
<1>3. /\ x \in Telemetry!Halves
      /\ Len(v1.data) % 2 = 0 => x.half = 1
      /\ Len(v1.data) % 2 = 1 => x = [v1.data[Len(v1.data)] EXCEPT !.half = 2]
  <2>1. CASE Len(v1.data) = 0
    <3>1. v1.data = <<>>
      BY <1>1, <2>1
    <3>2. x = [line |-> v2 + 1, half |-> 1]
      BY <1>2, <3>1 DEF Telemetry!NextHalf
    <3> QED
      BY <1>1, <2>1, <3>2 DEF Telemetry!Halves
  <2>2. CASE Len(v1.data) # 0
    <3>1. PICK n \in Nat : n = Len(v1.data)
      BY <1>1
    <3>2. n \in 1..n /\ v1.data # <<>> /\ v1.data[n] \in Telemetry!Halves /\ Telemetry!Last(v1.data) = v1.data[n]
      BY <1>1, <2>2, <3>1 DEF Telemetry!Last
    <3>3. /\ n % 2 = 1 => v1.data[n].half = 1
          /\ n % 2 = 0 => v1.data[n] = [line |-> v1.data[n - 1].line, half |-> 2]
      BY <1>1, <3>1, <3>2 DEF Telemetry!Paired
    <3>4. CASE n % 2 = 1
      <4>1. v1.data[n].half = 1
        BY <3>3, <3>4
      <4>2. x = [v1.data[n] EXCEPT !.half = 2]
        BY <1>2, <3>2, <4>1 DEF Telemetry!NextHalf
      <4>3. x \in Telemetry!Halves
        BY <3>2, <4>2 DEF Telemetry!Halves
      <4>4. Len(v1.data) % 2 = 1 /\ ~(Len(v1.data) % 2 = 0)
        BY <1>1, <3>1, <3>4
      <4>5. x = [v1.data[Len(v1.data)] EXCEPT !.half = 2]
        BY <3>1, <4>2
      <4> QED
        BY <4>3, <4>4, <4>5
    <3>5. CASE n % 2 = 0
      <4>1. v1.data[n].half = 2
        BY <3>3, <3>5
      <4>2. x = [line |-> v2 + 1, half |-> 1]
        BY <1>2, <3>2, <4>1 DEF Telemetry!NextHalf
      <4>3. x \in Telemetry!Halves /\ x.half = 1
        BY <1>1, <4>2 DEF Telemetry!Halves
      <4>4. ~(Len(v1.data) % 2 = 1)
        BY <1>1, <3>1, <3>5
      <4> QED
        BY <4>3, <4>4
    <3>6. n % 2 = 0 \/ n % 2 = 1
      OBVIOUS
    <3> QED
      BY <3>4, <3>5, <3>6
  <2> QED
    BY <2>1, <2>2
<1>4. /\ v1' = [inode |-> v1.inode, data |-> Append(v1.data, x), mtime |-> v1.mtime + 1]
      /\ v2' = v2 + 1 /\ UNCHANGED <<v3, v4, v5>>
  BY <1>1, <1>2 DEF Telemetry!Write
<1>5. /\ v1'.inode = v1.inode /\ v1'.data = Append(v1.data, x) /\ v1'.mtime = v1.mtime + 1
      /\ Len(v1'.data) = Len(v1.data) + 1 /\ Append(v1.data, x) \in Seq(Telemetry!Halves)
  BY <1>1, <1>3, <1>4
<1>6. Telemetry!Types'
  <2>1. Telemetry!Paired(Append(v1.data, x))
    BY <1>1, <1>3, TelemetryPairedGoesOn
  <2>2. v6' \in {"no", "cut", "yes"}
    BY DEF Telemetry!Write, Telemetry!IInv, Telemetry!Types
  <2> QED
    BY <1>1, <1>4, <1>5, <2>1, <2>2 DEF Telemetry!IInv, Telemetry!Types
<1> SUFFICES ASSUME v6' # "yes"
             PROVE  /\ (v4 \in Telemetry!Entries)' /\ (v4.inode <= v1.inode)'
                    /\ Telemetry!LooksAreOfTheFile' /\ Telemetry!EntryIsOfTheFile' /\ Telemetry!IsPrefix(v5.got, v5.due)'
  BY <1>6 DEF Telemetry!IInv
<1>7. v6' = v6 /\ (v6 = "cut" => Len(v1.data) < v4.offset) /\ v6 # "yes"
      /\ v4 \in Telemetry!Entries /\ v4.inode <= v1.inode /\ Telemetry!LooksAreOfTheFile /\ Telemetry!EntryIsOfTheFile
      /\ Telemetry!IsPrefix(v5.got, v5.due)
  BY <1>1 DEF Telemetry!Write, Telemetry!IInv, Telemetry!Types, Telemetry!Entries
<1>8. (v4 \in Telemetry!Entries)' /\ (v4.inode <= v1.inode)' /\ Telemetry!IsPrefix(v5.got, v5.due)'
  BY <1>4, <1>5, <1>7
<1>9. Telemetry!LooksAreOfTheFile'
  BY <1>1, <1>4, <1>5, <1>7 DEF Telemetry!LooksAreOfTheFile, Telemetry!IInv, Telemetry!Types
<1>10. Telemetry!EntryIsOfTheFile'
  <2> SUFFICES ASSUME v4.inode = v1.inode
               PROVE  IF v6' = "no" THEN Telemetry!EntryIsRead(v4)'
                      ELSE /\ Len(v1'.data) <= v4.offset /\ v4.mtime < v1'.mtime
                           /\ \A r \in Readers : v3[r] # Telemetry!NoStat => v3[r].mtime > v4.mtime
    BY <1>4, <1>5 DEF Telemetry!EntryIsOfTheFile
  <2>1. CASE v6 = "no"
    <3>1. v4.offset \in Nat /\ v4.mtime \in Nat /\ Telemetry!EntryIsRead(v4)
      BY <1>7, <2>1 DEF Telemetry!EntryIsOfTheFile, Telemetry!Entries
    <3>2. /\ v4.offset <= Len(v1.data) /\ v4.mtime <= v1.mtime
          /\ v4.records = Telemetry!FirstLines(v1.data, v4.offset \div 2)
          /\ v4.pending = SubSeq(v1.data, 2 * (v4.offset \div 2) + 1, v4.offset)
      BY <3>1 DEF Telemetry!EntryIsRead
    <3>3. /\ v4.records = Telemetry!FirstLines(Append(v1.data, x), v4.offset \div 2)
          /\ v4.pending = SubSeq(Append(v1.data, x), 2 * (v4.offset \div 2) + 1, v4.offset)
      BY <1>1, <1>3, <3>1, <3>2, TelemetryStillRead
    <3>4. v4.offset <= Len(v1'.data) /\ v4.mtime <= v1'.mtime
      BY <1>1, <1>5, <3>1, <3>2
    <3>5. Telemetry!EntryIsRead(v4)'
      BY <1>4, <1>5, <3>3, <3>4 DEF Telemetry!EntryIsRead
    <3> QED
      BY <1>7, <2>1, <3>5
  <2>2. CASE v6 # "no"
    <3>1. v6 = "cut"
      BY <1>7, <2>2 DEF Telemetry!IInv, Telemetry!Types
    <3>2. v4.offset \in Nat /\ v4.mtime \in Nat
      BY <1>7 DEF Telemetry!Entries
    <3> QED
      BY <1>1, <1>5, <1>7, <2>2, <3>1, <3>2 DEF Telemetry!EntryIsOfTheFile
  <2> QED
    BY <2>1, <2>2
<1> QED
  BY <1>8, <1>9, <1>10

\* The writer puts another file in its place, or empties this one.
LEMMA TelemetryReplaceKeeps == ASSUME Telemetry!IInv, Telemetry!Replace PROVE Telemetry!IInv'
<1>1. /\ v1' = [inode |-> v1.inode + 1, data |-> <<>>, mtime |-> v1.mtime + 1]
      /\ v1.inode \in Nat /\ v1.mtime \in Nat
      /\ UNCHANGED <<v2, v3, v4, v5>>
  BY DEF Telemetry!IInv, Telemetry!Types, Telemetry!Replace
<1>2. Telemetry!Types'
  BY <1>1 DEF Telemetry!IInv, Telemetry!Types, Telemetry!Replace, Telemetry!Halves,
     Telemetry!Paired
<1> SUFFICES ASSUME v6' # "yes"
             PROVE  /\ (v4 \in Telemetry!Entries)' /\ (v4.inode <= v1.inode)'
                    /\ Telemetry!LooksAreOfTheFile' /\ Telemetry!EntryIsOfTheFile' /\ Telemetry!IsPrefix(v5.got, v5.due)'
  BY <1>2 DEF Telemetry!IInv
<1>3. /\ ~Telemetry!Looking /\ v6 # "yes" /\ v4 \in Telemetry!Entries /\ v4.inode <= v1.inode
      /\ Telemetry!IsPrefix(v5.got, v5.due)
  BY DEF Telemetry!Replace, Telemetry!IInv
<1>4. Telemetry!LooksAreOfTheFile'
  BY <1>1, <1>3 DEF Telemetry!LooksAreOfTheFile, Telemetry!Looking
<1>5. v4.inode \in Nat /\ v1'.inode = v1.inode + 1
  BY <1>1, <1>3 DEF Telemetry!Entries
<1> QED
  BY <1>1, <1>3, <1>4, <1>5 DEF Telemetry!EntryIsOfTheFile

LEMMA TelemetryTruncateKeeps == ASSUME Telemetry!IInv, Telemetry!Truncate PROVE Telemetry!IInv'
<1>1. /\ v1' = [inode |-> v1.inode, data |-> <<>>, mtime |-> v1.mtime + 1]
      /\ v1.inode \in Nat /\ v1.mtime \in Nat
      /\ UNCHANGED <<v2, v3, v4, v5>>
  BY DEF Telemetry!IInv, Telemetry!Types, Telemetry!Truncate
<1>2. v6' = CASE Telemetry!Looking -> "yes"
                  [] ~Telemetry!Looking /\ v6 = "no" /\ v4.inode = v1.inode -> "cut"
                  [] OTHER -> v6
  BY DEF Telemetry!Truncate
<1>3. Telemetry!Types'
  BY <1>1, <1>2 DEF Telemetry!IInv, Telemetry!Types, Telemetry!Halves, Telemetry!Paired
<1> SUFFICES ASSUME v6' # "yes"
             PROVE  /\ (v4 \in Telemetry!Entries)' /\ (v4.inode <= v1.inode)'
                    /\ Telemetry!LooksAreOfTheFile' /\ Telemetry!EntryIsOfTheFile' /\ Telemetry!IsPrefix(v5.got, v5.due)'
  BY <1>3 DEF Telemetry!IInv
<1>4. /\ ~Telemetry!Looking /\ v6 # "yes"
  BY <1>2
<1>5. /\ v4 \in Telemetry!Entries /\ v4.inode <= v1.inode /\ Telemetry!EntryIsOfTheFile
      /\ Telemetry!IsPrefix(v5.got, v5.due)
  BY <1>4 DEF Telemetry!IInv
<1>6. Telemetry!LooksAreOfTheFile'
  BY <1>1, <1>4 DEF Telemetry!LooksAreOfTheFile, Telemetry!Looking
<1>7. Telemetry!EntryIsOfTheFile'
  <2> SUFFICES ASSUME v4.inode = v1.inode
               PROVE  /\ v6' # "no" /\ Len(v1'.data) <= v4.offset /\ v4.mtime < v1'.mtime
                      /\ \A r \in Readers : v3[r] = Telemetry!NoStat
    BY <1>1 DEF Telemetry!EntryIsOfTheFile
  <2>1. v4.offset \in Nat /\ v4.mtime \in Nat
    BY <1>5 DEF Telemetry!Entries
  <2>2. Len(v1'.data) = 0 /\ v1'.mtime = v1.mtime + 1
    BY <1>1
  <2>3. v4.mtime <= v1.mtime
    BY <1>1, <1>5, <2>1 DEF Telemetry!EntryIsOfTheFile, Telemetry!EntryIsRead
  <2>4. v6' # "no"
    BY <1>2, <1>4
  <2> QED
    BY <1>1, <1>4, <2>1, <2>2, <2>3, <2>4 DEF Telemetry!Looking
<1> QED
  BY <1>1, <1>5, <1>6, <1>7

LEMMA TelemetryLookKeeps == ASSUME Telemetry!IInv, NEW r \in Readers, Telemetry!Look(r) PROVE Telemetry!IInv'
<1>1. /\ v3' = [v3 EXCEPT ![r] = Telemetry!Stat]
      /\ v3 \in [Readers -> [inode : Nat, size : Nat, mtime : Nat]]
      /\ UNCHANGED <<v1, v2, v4, v5, v6>>
  BY DEF Telemetry!IInv, Telemetry!Types, Telemetry!Look
<1>2. /\ Telemetry!Stat \in [inode : Nat, size : Nat, mtime : Nat]
      /\ Telemetry!Stat.inode = v1.inode /\ Telemetry!Stat.size = Len(v1.data) /\ Telemetry!Stat.mtime = v1.mtime
      /\ v1.mtime \in Nat /\ Len(v1.data) \in Nat
  BY DEF Telemetry!IInv, Telemetry!Types, Telemetry!Stat
<1>3. Telemetry!Types'
  BY <1>1, <1>2 DEF Telemetry!IInv, Telemetry!Types
<1>4. Telemetry!LooksAreOfTheFile => Telemetry!LooksAreOfTheFile'
  BY <1>1, <1>2 DEF Telemetry!LooksAreOfTheFile
<1>5. Telemetry!EntryIsOfTheFile => Telemetry!EntryIsOfTheFile'
  BY <1>1, <1>2 DEF Telemetry!EntryIsOfTheFile, Telemetry!EntryIsRead
<1> QED
  BY <1>1, <1>3, <1>4, <1>5 DEF Telemetry!IInv

\* Whoever takes the lock starts from an entry that is right, or from none.
Base(r) == IF Telemetry!Reset(v3[r]) THEN Telemetry!Empty(v3[r]) ELSE v4

LEMMA TelemetryBaseIsRead ==
  ASSUME Telemetry!IInv, v6 # "yes", NEW r \in Readers, v3[r] # Telemetry!NoStat
  PROVE  /\ Base(r) \in Telemetry!Entries /\ Base(r).inode = v1.inode /\ Telemetry!EntryIsRead(Base(r))
         /\ v6 = "cut" => Telemetry!Reset(v3[r])
<1>1. /\ v3[r] \in [inode : Nat, size : Nat, mtime : Nat]
      /\ v3[r].inode = v1.inode /\ v3[r].size <= Len(v1.data)
      /\ v3[r].mtime <= v1.mtime /\ v1.data \in Seq(Telemetry!Halves) /\ Len(v1.data) \in Nat
      /\ v1.mtime \in Nat /\ v4 \in Telemetry!Entries /\ Telemetry!EntryIsOfTheFile /\ v6 \in {"no", "cut"}
  BY DEF Telemetry!IInv, Telemetry!Types, Telemetry!LooksAreOfTheFile
<1>2. v4.offset \in Nat /\ v4.mtime \in Nat /\ v3[r].size \in Nat /\ v3[r].mtime \in Nat
  BY <1>1 DEF Telemetry!Entries
<1>3. ASSUME v6 = "cut" PROVE Telemetry!Reset(v3[r])
  <2> SUFFICES ASSUME v4.inode = v1.inode PROVE Telemetry!Reset(v3[r])
    BY <1>1 DEF Telemetry!Reset
  <2>1. Len(v1.data) <= v4.offset /\ v3[r].mtime > v4.mtime
    BY <1>1, <1>3 DEF Telemetry!EntryIsOfTheFile
  <2> QED
    BY <1>1, <1>2, <2>1 DEF Telemetry!Reset
<1>4. CASE Telemetry!Reset(v3[r])
  <2>1. Base(r) = [inode |-> v1.inode, mtime |-> v3[r].mtime, offset |-> 0,
                   pending |-> <<>>, records |-> <<>>]
    BY <1>1, <1>4 DEF Base, Telemetry!Empty
  <2>2. 0 \div 2 = 0 /\ 2 * 0 + 1 = 1
    OBVIOUS
  <2>3. Telemetry!FirstLines(v1.data, 0) = <<>>
    BY DEF Telemetry!FirstLines
  <2>4. SubSeq(v1.data, 1, 0) = <<>>
    BY <1>1, SubSeqEmpty
  <2>5. Telemetry!EntryIsRead([inode |-> v1.inode, mtime |-> v3[r].mtime, offset |-> 0,
                     pending |-> <<>>, records |-> <<>>])
    BY <1>1, <2>2, <2>3, <2>4 DEF Telemetry!EntryIsRead
  <2>6. Base(r) \in Telemetry!Entries
    BY <1>1, <1>2, <2>1 DEF Telemetry!Entries
  <2> QED
    BY <1>4, <2>1, <2>5, <2>6
<1>5. CASE ~Telemetry!Reset(v3[r])
  <2>1. Base(r) = v4 /\ v4.inode = v1.inode /\ v6 = "no"
    BY <1>1, <1>3, <1>5 DEF Base, Telemetry!Reset
  <2>2. Telemetry!EntryIsRead(v4)
    BY <1>1, <2>1 DEF Telemetry!EntryIsOfTheFile
  <2> QED
    BY <1>1, <1>5, <2>1, <2>2
<1> QED
  BY <1>4, <1>5

\* The file as it was opened is in the entry, and nobody else knows another.
LEMMA TelemetryStoreKeeps ==
  ASSUME Telemetry!IInv, NEW r \in Readers, v3[r] # Telemetry!NoStat,
         UNCHANGED <<v1, v2>>, v3' = [v3 EXCEPT ![r] = Telemetry!NoStat],
         v6' = IF Telemetry!Reset(v3[r]) /\ v6 = "cut" THEN "no" ELSE v6,
         v6 # "yes" => /\ v4' \in Telemetry!Entries /\ v4'.inode = v1.inode /\ Telemetry!EntryIsRead(v4')
                           /\ Telemetry!IsPrefix(v5'.got, v5'.due)
  PROVE  Telemetry!IInv'
<1>1. Telemetry!NoStat \in [inode : Nat, size : Nat, mtime : Nat]
  BY DEF Telemetry!NoStat
<1>2. Telemetry!Types'
  BY <1>1 DEF Telemetry!IInv, Telemetry!Types
<1> SUFFICES ASSUME v6' # "yes"
             PROVE  /\ (v4 \in Telemetry!Entries)' /\ (v4.inode <= v1.inode)'
                    /\ Telemetry!LooksAreOfTheFile' /\ Telemetry!EntryIsOfTheFile' /\ Telemetry!IsPrefix(v5.got, v5.due)'
  BY <1>2 DEF Telemetry!IInv
<1>3. v6 # "yes" /\ v6' = "no"
  BY TelemetryBaseIsRead DEF Telemetry!IInv, Telemetry!Types
<1>4. Telemetry!LooksAreOfTheFile'
  BY <1>3 DEF Telemetry!IInv, Telemetry!Types, Telemetry!LooksAreOfTheFile
<1>5. Telemetry!EntryIsOfTheFile'
  BY <1>3 DEF Telemetry!EntryIsOfTheFile, Telemetry!EntryIsRead
<1> QED
  BY <1>3, <1>4, <1>5 DEF Telemetry!IInv, Telemetry!Types, Telemetry!Entries

LEMMA TelemetryLoadKeeps == ASSUME Telemetry!IInv, NEW r \in Readers, Telemetry!Load(r) PROVE Telemetry!IInv'
<1>1. /\ v3[r] # Telemetry!NoStat /\ UNCHANGED <<v1, v2>> /\ v3' = [v3 EXCEPT ![r] = Telemetry!NoStat]
      /\ v6' = IF Telemetry!Reset(v3[r]) /\ v6 = "cut" THEN "no" ELSE v6
      /\ v4' = IF v3[r].size > Base(r).offset THEN Telemetry!Extended(Base(r)) ELSE Base(r)
      /\ v5' = [got |-> v4'.records, due |-> Telemetry!LinesOf(v1.data)]
  BY DEF Telemetry!Load, Base
<1>2. ASSUME v6 # "yes"
      PROVE  /\ v4' \in Telemetry!Entries /\ v4'.inode = v1.inode /\ Telemetry!EntryIsRead(v4')
             /\ Telemetry!IsPrefix(v5'.got, v5'.due)
  <2>1. Base(r) \in Telemetry!Entries /\ Base(r).inode = v1.inode /\ Telemetry!EntryIsRead(Base(r))
    BY <1>1, <1>2, TelemetryBaseIsRead
  <2>2. Telemetry!Types
    BY DEF Telemetry!IInv
  <2>3. v4' \in Telemetry!Entries /\ v4'.inode = v1.inode /\ Telemetry!EntryIsRead(v4')
    BY <1>1, <2>1, <2>2, TelemetryExtendedIsRead
  <2>4. PICK o \in Nat : o = v4'.offset
    BY <2>3 DEF Telemetry!Entries
  <2>5. o <= Len(v1.data) /\ v4'.records = Telemetry!FirstLines(v1.data, o \div 2)
    BY <2>3, <2>4 DEF Telemetry!EntryIsRead
  <2>6. PICK n \in Nat : n = o \div 2 /\ 2 * n <= o
    BY <2>4, TelemetryHalfOf
  <2>7. v1.data \in Seq(Telemetry!Halves) /\ Telemetry!Paired(v1.data) /\ Len(v1.data) \in Nat
    BY DEF Telemetry!IInv, Telemetry!Types
  <2>8. 2 * n <= Len(v1.data)
    BY <2>5, <2>6, <2>7
  <2>9. Telemetry!IsPrefix(Telemetry!FirstLines(v1.data, n), Telemetry!LinesOf(v1.data))
    BY <2>7, <2>8, TelemetryLinesAreFirst
  <2> QED
    BY <1>1, <2>3, <2>5, <2>6, <2>9
<1> QED
  BY <1>1, <1>2, TelemetryStoreKeeps

LEMMA TelemetryLoadFailsKeeps == ASSUME Telemetry!IInv, NEW r \in Readers, Telemetry!LoadFails(r) PROVE Telemetry!IInv'
<1>1. /\ v3[r] # Telemetry!NoStat /\ UNCHANGED <<v1, v2>> /\ v3' = [v3 EXCEPT ![r] = Telemetry!NoStat]
      /\ v6' = IF Telemetry!Reset(v3[r]) /\ v6 = "cut" THEN "no" ELSE v6
      /\ v4' = Base(r) /\ v5' = v5
  BY DEF Telemetry!LoadFails, Base
<1>2. v6 # "yes" => /\ v4' \in Telemetry!Entries /\ v4'.inode = v1.inode /\ Telemetry!EntryIsRead(v4')
                        /\ Telemetry!IsPrefix(v5'.got, v5'.due)
  BY <1>1, TelemetryBaseIsRead DEF Telemetry!IInv
<1> QED
  BY <1>1, <1>2, TelemetryStoreKeeps

LEMMA TelemetryEvictKeeps == ASSUME Telemetry!IInv, Telemetry!Evict PROVE Telemetry!IInv'
<1>1. /\ v4' = Telemetry!NoEntry /\ UNCHANGED <<v1, v2, v3, v5>>
      /\ v6' = IF v6 = "cut" THEN "no" ELSE v6
  BY DEF Telemetry!Evict
<1>2. Telemetry!Types'
  BY <1>1 DEF Telemetry!IInv, Telemetry!Types
<1>3. Telemetry!NoEntry \in Telemetry!Entries /\ Telemetry!NoEntry.inode = 0
  BY DEF Telemetry!NoEntry, Telemetry!Empty, Telemetry!NoStat, Telemetry!Entries
<1>4. v1.inode \in Nat /\ v1.inode > 0
  BY DEF Telemetry!IInv, Telemetry!Types
<1>5. Telemetry!LooksAreOfTheFile => Telemetry!LooksAreOfTheFile'
  BY <1>1 DEF Telemetry!LooksAreOfTheFile
<1>6. Telemetry!EntryIsOfTheFile'
  BY <1>1, <1>3, <1>4 DEF Telemetry!EntryIsOfTheFile
<1> QED
  BY <1>1, <1>2, <1>3, <1>4, <1>5, <1>6 DEF Telemetry!IInv

LEMMA TelemetryStepPreserves == ASSUME Telemetry!IInv, [Telemetry!Next]_Telemetry!vars PROVE Telemetry!IInv'
<1>1. ASSUME UNCHANGED Telemetry!vars PROVE Telemetry!IInv'
  BY <1>1 DEF Telemetry!vars, Telemetry!IInv, Telemetry!Types, Telemetry!LooksAreOfTheFile,
     Telemetry!EntryIsOfTheFile, Telemetry!EntryIsRead
<1> QED
  BY <1>1, TelemetryWriteKeeps, TelemetryReplaceKeeps, TelemetryTruncateKeeps,
     TelemetryEvictKeeps, TelemetryLookKeeps, TelemetryLoadKeeps,
     TelemetryLoadFailsKeeps DEF Telemetry!Next

\* At the end of the file every whole line is in.
LEMMA TelemetryRecordsAreLines == ASSUME Telemetry!IInv PROVE Telemetry!RecordsAreTheFile
<1>1. v6 # "yes" => Telemetry!IsPrefix(v5.got, v5.due)
  BY DEF Telemetry!IInv
<1>2. ASSUME v6 = "no", v4.inode = v1.inode, v4.offset = Len(v1.data)
      PROVE  v4.records = Telemetry!LinesOf(v1.data)
  <2>1. Telemetry!EntryIsRead(v4) /\ v1.data \in Seq(Telemetry!Halves) /\ Telemetry!Paired(v1.data)
    BY <1>2 DEF Telemetry!IInv, Telemetry!Types, Telemetry!EntryIsOfTheFile
  <2>2. v4.records = Telemetry!FirstLines(v1.data, Len(v1.data) \div 2)
    BY <1>2, <2>1 DEF Telemetry!EntryIsRead
  <2> QED
    BY <2>1, <2>2, TelemetryLinesAre
<1> QED
  BY <1>1, <1>2 DEF Telemetry!RecordsAreTheFile

-----------------------------------------------------------------------------
\* History (TelemetryHistory): a history kept or answered is the one of the files at a
\* moment of the call.
\* Variables: v1 disk, v2 current, v3 serial, v4 inodes, v5 lock, v6 loader, v7 kept,
\*   v8 call.

\* Finite sets, in the instance and in the library.
LEMMA HistoryFinite ==
  \A S : (History!IsFiniteSet(S) <=> IsFiniteSet(S)) /\ History!Cardinality(S) = Cardinality(S)
BY Zenon DEF History!IsFiniteSet, IsFiniteSet, History!Cardinality, Cardinality

\* A set of numbers with a bound has a greatest.
LEMMA HistoryGreatest ==
  ASSUME NEW n \in Nat, NEW S, S \subseteq 1..n, S # {}
  PROVE  History!Max(S) \in S /\ \A i \in S : History!Max(S) >= i
<1> DEFINE T == {n - i : i \in S}
<1>1. T \subseteq Nat /\ T # {}
  <2>1. \A i \in S : n - i \in Nat
    OBVIOUS
  <2> QED
    BY <2>1
<1>2. PICK x \in T : \A y \in T : ~ (<<y, x>> \in OpToRel(<, Nat))
  BY <1>1, NatLessThanWellFounded, WFMin, Zenon
<1>3. \A y \in T : y >= x
  <2> HIDE DEF T
  <2>1. \A y \in T : y \in Nat /\ x \in Nat /\ ~ (y < x)
    BY <1>1, <1>2 DEF OpToRel
  <2> QED
    BY <2>1
<1>4. PICK i \in S : x = n - i
  OBVIOUS
<1>5. \A j \in S : i >= j
  BY <1>3, <1>4
<1> QED
  BY <1>5 DEF History!Max

LEMMA HistoryNumbered == \E n \in Nat \ {0} : Files = 1..n
BY HistoryParameters, FS_CardinalityType, FS_EmptySet

\* The files are numbered, and Names lists them.
LEMMA HistoryFilesAre ==
  /\ Files \subseteq Nat \ {0} /\ 1 \in Files /\ History!Cardinality(Files) \in Nat
  /\ History!Names \in Seq(Files) /\ History!ToSet(History!Names) = Files
<1> PICK n \in Nat \ {0} : Files = 1..n
  BY HistoryNumbered
<1>1. History!Cardinality(Files) = n
  BY FS_Interval, HistoryFinite
<1> QED
  BY <1>1 DEF History!Names, History!ToSet

LEMMA HistoryFileNumbers == \A f \in Files : f <= History!Cardinality(Files)
<1> PICK n \in Nat \ {0} : Files = 1..n
  BY HistoryNumbered
<1>1. History!Cardinality(Files) = n
  BY FS_Interval, HistoryFinite
<1> QED
  BY <1>1

\* No list of signatures is the empty one.
LEMMA HistoryNoKeyIs ==
  ASSUME NEW S PROVE \A key \in [Files -> S] : key # History!NoKey
<1>1. DOMAIN History!NoKey = {} /\ 1 \in Files
  BY HistoryFilesAre DEF History!NoKey
<1> QED
  BY <1>1

LEMMA HistoryGreatestFile ==
  ASSUME NEW S, S \subseteq Files, S # {}
  PROVE  History!Max(S) \in S /\ \A i \in S : History!Max(S) >= i
BY HistoryNumbered, HistoryGreatest

LEMMA HistoryRecordsAre ==
  /\ History!NoRecords \in History!Records
  /\ \A r \in History!Records : /\ DOMAIN r \subseteq LogSteps /\ r = [s \in DOMAIN r |-> r[s]]
                        /\ \A s \in DOMAIN r : r[s] \in 1..MaxLogged
  /\ \A S \in SUBSET LogSteps : \A r \in [S -> 1..MaxLogged] : r \in History!Records
BY DEF History!Records, History!NoRecords

\* Reading events adds them to the records, the later of a step over the earlier.
LEMMA HistoryUpdatedIs ==
  ASSUME NEW records \in History!Records, NEW events \in Seq(History!Events),
         \A i, j \in DOMAIN events : i < j => events[i].serial < events[j].serial
  PROVE  LET u == History!Updated(records, events)
         IN  /\ u \in History!Records
             /\ \A s \in DOMAIN records : s \in DOMAIN u
             /\ \A i \in DOMAIN events : /\ events[i].step \in DOMAIN u
                                         /\ u[events[i].step] >= events[i].serial
             /\ \A s \in DOMAIN u :
                  \/ \E i \in DOMAIN events : events[i].step = s /\ events[i].serial = u[s]
                  \/ s \in DOMAIN records /\ u[s] = records[s]
<1> DEFINE Of(s) == {i \in DOMAIN events : events[i].step = s}
           steps == {events[i].step : i \in DOMAIN events}
           u == History!Updated(records, events)
<1>1. \A s \in steps : /\ History!Max(Of(s)) \in Of(s)
                       /\ \A i \in Of(s) : History!Max(Of(s)) >= i
  <2> SUFFICES ASSUME NEW s \in steps
               PROVE  History!Max(Of(s)) \in Of(s) /\ \A i \in Of(s) : History!Max(Of(s)) >= i
    OBVIOUS
  <2>1. Of(s) \subseteq 1..Len(events) /\ Of(s) # {} /\ Len(events) \in Nat
    OBVIOUS
  <2> HIDE DEF Of
  <2> QED
    BY <2>1, HistoryGreatest
<1>2. \A s \in steps : History!LastOf(events, s) = events[History!Max(Of(s))]
  BY DEF History!LastOf
<1>3. \A i \in DOMAIN events : events[i].step \in LogSteps /\ events[i].serial \in 1..MaxLogged
  <2>1. \A i \in DOMAIN events : events[i] \in History!Events
    OBVIOUS
  <2> QED
    BY <2>1 DEF History!Events
<1>4. DOMAIN u = DOMAIN records \cup steps
  BY DEF History!Updated
<1>5. /\ \A s \in steps : u[s] = History!LastOf(events, s).serial
      /\ \A s \in DOMAIN records : s \notin steps => u[s] = records[s]
  BY Zenon DEF History!Updated
<1>6. u = [s \in DOMAIN u |-> u[s]]
  BY DEF History!Updated
<1> HIDE DEF u
<1>7. \A s \in steps : \E i \in Of(s) : u[s] = events[i].serial /\ \A j \in Of(s) : i >= j
  BY <1>1, <1>2, <1>5
<1>8. \A s \in steps : \E i \in DOMAIN events : events[i].step = s /\ events[i].serial = u[s]
  BY <1>7
<1>9. \A i \in DOMAIN events : u[events[i].step] >= events[i].serial
  <2> SUFFICES ASSUME NEW i \in DOMAIN events PROVE u[events[i].step] >= events[i].serial
    OBVIOUS
  <2>1. i \in Of(events[i].step) /\ events[i].step \in steps
    OBVIOUS
  <2>2. PICK j \in Of(events[i].step) : u[events[i].step] = events[j].serial /\ j >= i
    BY <2>1, <1>7
  <2> QED
    BY <2>2, <1>3
<1>10. \A s \in DOMAIN u : s \in LogSteps /\ u[s] \in 1..MaxLogged
  <2> SUFFICES ASSUME NEW s \in DOMAIN u PROVE s \in LogSteps /\ u[s] \in 1..MaxLogged
    OBVIOUS
  <2>1. CASE s \in steps
    BY <2>1, <1>8, <1>3
  <2>2. CASE s \notin steps
    BY <2>2, <1>4, <1>5, HistoryRecordsAre
  <2> QED
    BY <2>1, <2>2
<1>11. u \in History!Records
  <2>1. DOMAIN u \in SUBSET LogSteps
    BY <1>10
  <2>2. u \in [DOMAIN u -> 1..MaxLogged]
    BY <1>6, <1>10
  <2> QED
    BY <2>1, <2>2, HistoryRecordsAre
<1>12. \A s \in DOMAIN u :
         \/ \E i \in DOMAIN events : events[i].step = s /\ events[i].serial = u[s]
         \/ s \in DOMAIN records /\ u[s] = records[s]
  BY <1>4, <1>5, <1>8
<1>13. \A i \in DOMAIN events : events[i].step \in DOMAIN u
  BY <1>4
<1> QED
  BY <1>4, <1>9, <1>11, <1>12, <1>13 DEF u

\* The types of what the variables hold.
LEMMA HistoryDiskIs ==
  ASSUME History!Types, NEW f \in Files
  PROVE  /\ v1[f].inode \in Nat /\ v1[f].events \in Seq(History!Events)
         /\ Len(v1[f].events) \in Nat
         /\ \A i \in DOMAIN v1[f].events :
              v1[f].events[i] \in History!Events /\ v1[f].events[i].serial \in Nat
         /\ History!ToSet(v1[f].events) \subseteq History!Events
<1>1. v1[f] \in [inode : Nat, events : Seq(History!Events)]
  BY DEF History!Types
<1>2. v1[f].inode \in Nat /\ v1[f].events \in Seq(History!Events)
  BY <1>1
<1>3. \A i \in DOMAIN v1[f].events : v1[f].events[i] \in History!Events
  BY <1>2
<1>4. \A e \in History!Events : e.serial \in Nat
  BY DEF History!Events
<1> QED
  BY <1>2, <1>3, <1>4 DEF History!ToSet

LEMMA HistoryLoaderIs ==
  ASSUME NEW l \in History!Loaders
  PROVE  /\ l.sig \in History!Signs /\ l.sig.inode \in Int /\ l.sig.size \in Int
         /\ l.open \in Int /\ l.read \in Nat /\ l.records \in History!Records
         /\ l = [sig |-> l.sig, open |-> l.open, read |-> l.read, records |-> l.records]
BY DEF History!Loaders, History!Signs

LEMMA HistoryCallIs ==
  ASSUME History!Types, NEW c \in Callers
  PROVE  /\ v8[c] \in History!Calls /\ v8[c].at \in History!Places /\ v8[c].key \in History!Keys
         /\ v8[c].todo \in Seq(Files)
         /\ v8[c].sig \in History!Signs /\ v8[c].sig.inode \in Int /\ v8[c].sig.size \in Int
         /\ v8[c].records \in History!Records
         /\ v8[c].due \subseteq History!Events /\ v8[c].seen \subseteq History!Events
<1>1. v8[c] \in History!Calls
  BY DEF History!Types
<1>2. /\ v8[c].at \in History!Places /\ v8[c].key \in History!Keys /\ v8[c].todo \in Seq(Files)
      /\ v8[c].sig \in History!Signs /\ v8[c].records \in History!Records
      /\ v8[c].due \in SUBSET History!Events /\ v8[c].seen \in SUBSET History!Events
  BY <1>1 DEF History!Calls
<1> QED
  BY <1>1, <1>2 DEF History!Signs

\* What is not read of a file yet.
LEMMA HistoryFreshIs ==
  ASSUME History!Types, History!InOrder, NEW f \in Files, NEW n \in 0..Len(v1[f].events)
  PROVE  LET events == v1[f].events
             fresh == SubSeq(events, n + 1, Len(events))
         IN  /\ fresh \in Seq(History!Events) /\ Len(fresh) = Len(events) - n
             /\ \A i \in DOMAIN fresh : n + i \in DOMAIN events /\ fresh[i] = events[n + i]
             /\ \A j \in DOMAIN events : j > n => \E i \in DOMAIN fresh : fresh[i] = events[j]
             /\ \A i, j \in DOMAIN fresh : i < j => fresh[i].serial < fresh[j].serial
<1> DEFINE events == v1[f].events
           m == Len(events)
           fresh == SubSeq(events, n + 1, m)
<1>1. m \in Nat /\ DOMAIN events = 1..m /\ events \in Seq(History!Events)
  BY HistoryDiskIs
<1>2. \A i, j \in 1..m : i < j => events[i].serial < events[j].serial
  BY <1>1 DEF History!InOrder
<1>3. \A i \in n + 1..m : events[i] \in History!Events
  BY <1>1
<1> HIDE DEF m, events
<1>4. /\ fresh \in Seq(History!Events) /\ Len(fresh) = m - n
      /\ \A i \in 1..m - n : fresh[i] = events[n + i]
  <2>1. n + 1 \in Int /\ m \in Int
    BY <1>1
  <2>2. /\ fresh \in Seq(History!Events)
        /\ Len(fresh) = IF n + 1 <= m THEN m - (n + 1) + 1 ELSE 0
        /\ \A i \in 1..m - (n + 1) + 1 : fresh[i] = events[(n + 1) + i - 1]
    BY <2>1, <1>3, SubSeqProperties
  <2>3. n \in Nat /\ n <= m
    BY DEF m, events
  <2>4. \A i \in 1..m - n : (n + 1) + i - 1 = n + i
    BY <2>3, <1>1
  <2>5. m - (n + 1) + 1 = m - n
    BY <2>3, <1>1
  <2> QED
    BY <2>2, <2>3, <2>4, <2>5, <1>1
<1>5. DOMAIN fresh = 1..m - n /\ n \in Nat /\ n <= m
  BY <1>4 DEF m, events
<1> HIDE DEF fresh
<1>6. \A i \in DOMAIN fresh : n + i \in DOMAIN events /\ fresh[i] = events[n + i]
  BY <1>4, <1>5, <1>1
<1>7. \A j \in DOMAIN events : j > n => \E i \in DOMAIN fresh : fresh[i] = events[j]
  <2> SUFFICES ASSUME NEW j \in DOMAIN events, j > n
               PROVE  \E i \in DOMAIN fresh : fresh[i] = events[j]
    OBVIOUS
  <2>1. j - n \in DOMAIN fresh /\ n + (j - n) = j
    BY <1>5, <1>1
  <2> QED
    BY <2>1, <1>6
<1>8. \A i, j \in DOMAIN fresh : i < j => fresh[i].serial < fresh[j].serial
  <2> SUFFICES ASSUME NEW i \in DOMAIN fresh, NEW j \in DOMAIN fresh, i < j
               PROVE  fresh[i].serial < fresh[j].serial
    OBVIOUS
  <2>1. n + i \in 1..m /\ n + j \in 1..m /\ n + i < n + j
    BY <1>5, <1>1
  <2> QED
    BY <2>1, <1>2, <1>6
<1> QED
  BY <1>4, <1>6, <1>7, <1>8 DEF fresh, m, events

\* A loader that goes on has the whole of the file it opened.
LEMMA HistoryMoreIs ==
  ASSUME History!Types, History!InOrder, NEW f \in Files, NEW l \in History!Loaders,
         l.open = v1[f].inode => History!Has(l, f)
  PROVE  LET m == History!More(l, f)
         IN  /\ m = [sig |-> l.sig, open |-> l.open, read |-> m.read, records |-> m.records]
             /\ m.read \in Nat /\ m.records \in History!Records
             /\ l.open = v1[f].inode => History!Has(m, f) /\ m.read = Len(v1[f].events)
             /\ l.open # v1[f].inode => m.records = l.records
<1> DEFINE events == v1[f].events
           m == History!More(l, f)
           n == l.read
           fresh == IF l.open = v1[f].inode
                    THEN SubSeq(events, n + 1, Len(events)) ELSE <<>>
           u == History!Updated(l.records, fresh)
<1>1. n \in Nat /\ l.records \in History!Records
  BY HistoryLoaderIs
<1>2. m = [sig |-> l.sig, open |-> l.open, read |-> n + Len(fresh), records |-> u]
  <2>1. m = [l EXCEPT !.read = n + Len(fresh), !.records = u]
    BY Zenon DEF History!More
  <2> HIDE DEF m, u, fresh
  <2>2. l = [sig |-> l.sig, open |-> l.open, read |-> l.read, records |-> l.records]
    BY HistoryLoaderIs
  <2> QED
    BY <2>1, <2>2
<1>3. CASE l.open = v1[f].inode
  <2> DEFINE sub == SubSeq(events, n + 1, Len(events))
  <2>1. n \in 0..Len(events) /\ Len(events) \in Nat /\ DOMAIN events = 1..Len(events)
    BY <1>1, <1>3, HistoryDiskIs DEF History!Has
  <2>2. /\ sub \in Seq(History!Events) /\ Len(sub) = Len(events) - n
        /\ \A i \in DOMAIN sub : n + i \in DOMAIN events /\ sub[i] = events[n + i]
        /\ \A j \in DOMAIN events : j > n => \E i \in DOMAIN sub : sub[i] = events[j]
        /\ \A i, j \in DOMAIN sub : i < j => sub[i].serial < sub[j].serial
    BY <2>1, HistoryFreshIs
  <2>3. fresh = sub
    BY <1>3
  <2> HIDE DEF sub
  <2> HIDE DEF fresh
  <2>4. /\ u \in History!Records /\ \A s \in DOMAIN l.records : s \in DOMAIN u
        /\ \A i \in DOMAIN sub : sub[i].step \in DOMAIN u /\ u[sub[i].step] >= sub[i].serial
        /\ \A s \in DOMAIN u :
             \/ \E i \in DOMAIN sub : sub[i].step = s /\ sub[i].serial = u[s]
             \/ s \in DOMAIN l.records /\ u[s] = l.records[s]
    BY <1>1, <2>2, <2>3, HistoryUpdatedIs
  <2> HIDE DEF u
  <2>5. m.read = Len(events) /\ m.records = u
    BY <1>1, <1>2, <2>1, <2>2, <2>3
  <2>6. \A i \in DOMAIN events :
          events[i] = [step |-> events[i].step, serial |-> events[i].serial]
    BY HistoryDiskIs DEF History!Events
  <2>7. History!Within(u, History!ToSet(events))
    <3> SUFFICES ASSUME NEW s \in DOMAIN u
                 PROVE  [step |-> s, serial |-> u[s]] \in History!ToSet(events)
      BY DEF History!Within
    <3>1. CASE s \in DOMAIN l.records /\ u[s] = l.records[s]
      BY <3>1, <1>3 DEF History!Has, History!Within
    <3>2. CASE \E i \in DOMAIN sub : sub[i].step = s /\ sub[i].serial = u[s]
      <4>1. PICK j \in DOMAIN events : events[j].step = s /\ events[j].serial = u[s]
        BY <3>2, <2>2
      <4>2. events[j] = [step |-> s, serial |-> u[s]]
        BY <4>1, <2>6
      <4> QED
        BY <4>2 DEF History!ToSet
    <3> QED
      BY <3>1, <3>2, <2>4
  <2>8. \A i \in 1..Len(events) : History!Covers(u, {events[i]})
    <3> SUFFICES ASSUME NEW i \in 1..Len(events)
                 PROVE  events[i].step \in DOMAIN u /\ u[events[i].step] >= events[i].serial
      BY DEF History!Covers
    <3>1. i \in DOMAIN events
      BY <2>1
    <3>2. CASE i > n
      BY <3>1, <3>2, <2>2, <2>4
    <3>3. CASE i <= n
      <4> DEFINE s == events[i].step
      <4>1. i \in 1..n
        BY <3>1, <3>3, <2>1
      <4>2. s \in DOMAIN l.records /\ l.records[s] >= events[i].serial
        BY <4>1, <1>3 DEF History!Has, History!Covers
      <4>3. CASE u[s] = l.records[s]
        BY <4>2, <4>3, <2>4
      <4>4. CASE \E k \in DOMAIN sub : sub[k].step = s /\ sub[k].serial = u[s]
        <5>1. PICK k \in DOMAIN sub : sub[k].serial = u[s]
          BY <4>4
        <5>2. /\ n + k \in DOMAIN events /\ u[s] = events[n + k].serial /\ i < n + k
          BY <5>1, <2>1, <2>2, <4>1
        <5>3. events[i].serial < events[n + k].serial
          BY <5>2, <3>1 DEF History!InOrder
        <5>4. events[i].serial \in Nat /\ events[n + k].serial \in Nat
          BY <5>2, <3>1, HistoryDiskIs
        <5> QED
          BY <5>2, <5>3, <5>4, <4>2, <2>4
      <4> QED
        BY <4>2, <4>3, <4>4, <2>4
    <3> QED
      BY <3>2, <3>3, <2>1
  <2>9. m.read <= Len(events)
    BY <2>5, <2>1
  <2> QED
    BY <1>2, <1>3, <2>1, <2>4, <2>5, <2>7, <2>8, <2>9 DEF History!Has, m
<1>4. CASE l.open # v1[f].inode
  <2>1. fresh = <<>> /\ DOMAIN fresh = {}
    BY <1>4
  <2>2. u = [s \in DOMAIN l.records |-> l.records[s]]
    BY <2>1 DEF History!Updated
  <2>3. u = l.records
    BY <1>1, <2>2, HistoryRecordsAre
  <2> HIDE DEF u, fresh
  <2>4. n + Len(fresh) = n
    BY <2>1, <1>1, EmptySeq
  <2> QED
    BY <1>1, <1>2, <1>4, <2>3, <2>4 DEF m
<1> QED
  BY <1>3, <1>4

\* After a read under a signature the loader is right again, has the events the signature
\* counts, and nothing that it did not have or that is not in the file.
LEMMA HistoryAdvancedIs ==
  ASSUME History!Types, History!InOrder, NEW f \in Files, History!LoaderIsOfTheFile(v6[f], f),
         NEW sig \in History!Signs, sig.inode <= v1[f].inode,
         sig.inode = v1[f].inode => sig.size <= Len(v1[f].events)
  PROVE  LET a == History!Advanced(f, sig)
         IN  /\ a \in History!Loaders /\ History!LoaderIsOfTheFile(a, f)
             /\ \/ History!Within(a.records, History!ToSet(v1[f].events))
                \/ sig.inode = v6[f].sig.inode /\ a.records = v6[f].records
             /\ sig.inode = v1[f].inode =>
                  \A i \in 1..sig.size : History!Covers(a.records, {v1[f].events[i]})
<1> DEFINE l == v6[f]
           events == v1[f].events
           a == History!Advanced(f, sig)
           new == [History!Closed EXCEPT !.open = v1[f].inode]
<1>1. l \in History!Loaders /\ sig.inode \in Int /\ sig.size \in Int
  BY DEF History!Types, History!Signs
<1>2. v1[f].inode \in Nat /\ v1[f].inode > 0 /\ Len(events) \in Nat
  BY HistoryDiskIs DEF History!InOrder
<1>3. /\ l.sig.inode \in Int /\ l.sig.size \in Int /\ l.open \in Int /\ l.read \in Nat
      /\ l = [sig |-> l.sig, open |-> l.open, read |-> l.read, records |-> l.records]
      /\ l.sig \in History!Signs /\ l.records \in History!Records
  BY <1>1, HistoryLoaderIs
<1>4. /\ l.sig.inode <= l.open /\ l.open <= v1[f].inode
      /\ l.open = v1[f].inode => History!Has(l, f)
      /\ l.sig.inode = v1[f].inode => l.sig.size <= l.read
  BY DEF History!LoaderIsOfTheFile
<1>5. CASE History!Reopened(f, sig)
  <2> DEFINE m == History!More(new, f)
  <2>1. /\ new = [sig |-> History!Closed.sig, open |-> v1[f].inode, read |-> 0, records |-> History!NoRecords]
        /\ History!Closed.sig = [inode |-> -1, size |-> -1]
    BY DEF History!Closed, History!None
  <2>2. new \in History!Loaders /\ new.open = v1[f].inode
    BY <2>1, <1>2, HistoryRecordsAre DEF History!Loaders, History!Signs
  <2>3. History!Has(new, f)
    BY <2>1, <1>2 DEF History!Has, History!Within, History!NoRecords
  <2>4. a = [m EXCEPT !.sig = sig]
    BY <1>5 DEF History!Advanced
  <2> HIDE DEF new
  <2>5. /\ m = [sig |-> new.sig, open |-> new.open, read |-> m.read, records |-> m.records]
        /\ m.read \in Nat /\ m.records \in History!Records
        /\ History!Has(m, f) /\ m.read = Len(events)
    BY <2>2, <2>3, HistoryMoreIs
  <2> HIDE DEF m, a
  <2>6. a = [sig |-> sig, open |-> v1[f].inode, read |-> Len(events), records |-> m.records]
    BY <2>2, <2>4, <2>5
  <2>7. a \in History!Loaders
    BY <2>5, <2>6, <1>2 DEF History!Loaders
  <2>8. History!Has(a, f)
    BY <2>5, <2>6 DEF History!Has
  <2>9. History!LoaderIsOfTheFile(a, f)
    BY <2>6, <2>8, <1>1, <1>2 DEF History!LoaderIsOfTheFile
  <2>10. ASSUME sig.inode = v1[f].inode, NEW i \in 1..sig.size
         PROVE  History!Covers(a.records, {events[i]})
    BY <2>6, <2>8, <2>10, <1>1, <1>2 DEF History!Has
  <2> QED
    BY <2>7, <2>8, <2>9, <2>10 DEF a, History!Has
<1>6. CASE ~History!Reopened(f, sig) /\ l.sig # sig
  <2> DEFINE m == History!More(l, f)
  <2>1. l.sig.inode = sig.inode
    BY <1>6 DEF History!Reopened
  <2>2. a = [m EXCEPT !.sig = sig]
    BY <1>6 DEF History!Advanced
  <2>3. /\ m = [sig |-> l.sig, open |-> l.open, read |-> m.read, records |-> m.records]
        /\ m.read \in Nat /\ m.records \in History!Records
        /\ l.open = v1[f].inode => History!Has(m, f) /\ m.read = Len(events)
        /\ l.open # v1[f].inode => m.records = l.records
    BY <1>1, <1>4, HistoryMoreIs
  <2> HIDE DEF m, a
  <2>4. a = [sig |-> sig, open |-> l.open, read |-> m.read, records |-> m.records]
    BY <2>2, <2>3
  <2>5. a \in History!Loaders
    BY <2>3, <2>4, <1>3 DEF History!Loaders
  <2>6. l.open = v1[f].inode => History!Has(a, f) /\ a.read = Len(events)
    BY <2>3, <2>4 DEF History!Has
  <2>7. sig.inode = v1[f].inode => l.open = v1[f].inode
    BY <2>1, <1>2, <1>3, <1>4
  <2>8. History!LoaderIsOfTheFile(a, f)
    BY <2>1, <2>4, <2>6, <2>7, <1>4 DEF History!LoaderIsOfTheFile
  <2>9. ASSUME sig.inode = v1[f].inode, NEW i \in 1..sig.size
        PROVE  History!Covers(a.records, {events[i]})
    BY <2>6, <2>7, <2>9, <1>1, <1>2 DEF History!Has
  <2>10. \/ History!Within(a.records, History!ToSet(events))
         \/ sig.inode = l.sig.inode /\ a.records = l.records
    BY <2>1, <2>3, <2>4, <2>6 DEF History!Has
  <2> QED
    BY <2>5, <2>8, <2>9, <2>10 DEF a
<1>7. CASE ~History!Reopened(f, sig) /\ l.sig = sig
  <2>1. a = l
    BY <1>7 DEF History!Advanced
  <2>2. ASSUME sig.inode = v1[f].inode, NEW i \in 1..sig.size
        PROVE  History!Covers(l.records, {events[i]})
    <3>1. History!Has(l, f) /\ i \in 1..l.read
      BY <2>2, <1>1, <1>2, <1>3, <1>4, <1>7
    <3> QED
      BY <3>1 DEF History!Has
  <2> QED
    BY <2>1, <2>2, <1>1, <1>7
<1> QED
  BY <1>5, <1>6, <1>7

LEMMA HistoryInitIInv == ASSUME History!Init PROVE History!IInv
<1>1. v1 = [f \in Files |-> [inode |-> f, events |-> <<>>]]
  BY DEF History!Init
<1>2. v6 = [f \in Files |-> History!Closed] /\ v8 = [c \in Callers |-> History!Idle]
  BY DEF History!Init
<1>3. /\ v2 = 1 /\ v3 = 0 /\ v4 = History!Cardinality(Files) /\ v5 = History!None
      /\ v7 = [key |-> History!NoKey, records |-> History!NoRecords]
  BY DEF History!Init
<1>4. History!Closed \in History!Loaders /\ History!Idle \in History!Calls
  BY HistoryRecordsAre DEF History!Closed, History!Loaders, History!Signs, History!None,
     History!Idle, History!Calls, History!Places, History!Keys
<1>5. History!Types
  BY <1>1, <1>2, <1>3, <1>4, HistoryFilesAre, HistoryRecordsAre DEF History!Types,
     History!Keys
<1>6. \A f \in Files : v1[f].inode = f /\ v1[f].events = <<>> /\ v6[f] = History!Closed
  BY <1>1, <1>2
<1>7. \A f \in Files : f > 0 /\ f <= v4
  BY <1>3, HistoryFilesAre, HistoryFileNumbers
<1>8. DOMAIN History!NoRecords = {} /\ History!ToSet(<<>>) = {} /\ DOMAIN <<>> = {}
  BY DEF History!NoRecords, History!ToSet
<1>9. History!InOrder
  BY <1>6, <1>7, <1>8 DEF History!InOrder, History!Closed
<1>10. \A f \in Files : History!LoaderIsOfTheFile(v6[f], f)
  <2> SUFFICES ASSUME NEW f \in Files PROVE History!LoaderIsOfTheFile(v6[f], f)
    OBVIOUS
  <2>1. /\ v6[f].sig.inode = -1 /\ v6[f].open = -1 /\ v6[f].sig.size = -1
        /\ v6[f].read = 0
    BY <1>6 DEF History!Closed, History!None
  <2>2. v1[f].inode \in Nat /\ v1[f].inode > 0
    BY <1>6, HistoryFilesAre
  <2> QED
    BY <2>1, <2>2 DEF History!LoaderIsOfTheFile
<1>11. \A c \in Callers : v8[c].at = "idle" /\ c # History!None
  BY <1>2, HistoryParameters DEF History!Idle, History!None
<1>12. \A c \in Callers : History!CallIsOfTheFiles(c) /\ History!HolderIsRight(c) /\ History!AnswerIsRight(c)
  BY <1>3, <1>11 DEF History!CallIsOfTheFiles, History!HolderIsRight, History!AnswerIsRight,
     History!Active
<1>13. History!NoKey # [f \in Files |-> History!Sig(f)]
  BY HistoryFilesAre DEF History!NoKey
<1>14. History!KeptIsRight
  BY <1>3, <1>11, <1>13 DEF History!KeptIsRight, History!IsNow, History!At
<1> QED
  BY <1>5, <1>9, <1>10, <1>12, <1>14 DEF History!IInv

-----------------------------------------------------------------------------
\* The steps of a request.

LEMMA HistoryPastStands ==
  ASSUME v1' = v1
  PROVE  /\ History!OnDisk' = History!OnDisk
         /\ \A d \in Callers : /\ History!IsPast(v8[d].key)' <=> History!IsPast(v8'[d].key)
                               /\ History!IsNow(v8[d].key)' <=> History!IsNow(v8'[d].key)
         /\ History!IsPast(v7.key)' <=> History!IsPast(v7'.key)
         /\ History!IsNow(v7.key)' <=> History!IsNow(v7'.key)
BY DEF History!OnDisk, History!IsPast, History!IsNow, History!Sig

LEMMA HistoryRequestsStand ==
  ASSUME History!IInv, v1' = v1, NEW c \in Callers,
         \A d \in Callers : d # c => v8'[d] = v8[d],
         v8'[c].at \in {"signed", "file", "read", "store"} =>
           /\ History!Active(c) /\ v8'[c].key = v8[c].key
           /\ v8'[c].due = v8[c].due /\ v8'[c].seen = v8[c].seen
  PROVE  \A d \in Callers : History!CallIsOfTheFiles(d)'
<1>1. \A d \in Callers : History!Active(d)' =>
        /\ History!Active(d) /\ v8'[d].key = v8[d].key
        /\ v8'[d].due = v8[d].due /\ v8'[d].seen = v8[d].seen
  BY DEF History!Active
<1>2. \A d \in Callers : History!CallIsOfTheFiles(d)
  BY DEF History!IInv
<1>3. History!OnDisk' = History!OnDisk
  BY HistoryPastStands
<1>4. \A d \in Callers : History!Active(d)' =>
        /\ History!IsPast(v8[d].key)' /\ (History!IsNow(v8[d].key)' => History!IsNow(v8[d].key))
  BY <1>1, <1>2, HistoryPastStands DEF History!CallIsOfTheFiles
<1>5. ASSUME NEW d \in Callers, History!Active(d)'
      PROVE  /\ v8'[d].due \subseteq History!OnDisk' /\ History!OnDisk' \subseteq v8'[d].seen
             /\ History!IsNow(v8[d].key)' => v8'[d].due = History!OnDisk' /\ v8'[d].seen = History!OnDisk'
  BY <1>4, <1>1, <1>2, <1>3, <1>4, <1>5 DEF History!CallIsOfTheFiles
<1>6. ASSUME NEW d \in Callers, NEW b \in Callers, History!Active(d)', History!Active(b)',
             v8'[d].key = v8'[b].key
      PROVE  v8'[d].due = v8'[b].due /\ v8'[d].seen = v8'[b].seen
  BY <1>1, <1>2, <1>6 DEF History!CallIsOfTheFiles
<1> QED
  BY <1>4, <1>5, <1>6 DEF History!CallIsOfTheFiles

\* A step that changes neither the files nor the loaders leaves the order and the loaders
\* right.
LEMMA HistoryFilesStand ==
  ASSUME History!IInv, UNCHANGED <<v1, v2, v3, v4, v6>>
  PROVE  History!InOrder' /\ \A f \in Files : History!LoaderIsOfTheFile(v6[f], f)'
<1>1. History!InOrder /\ \A f \in Files : History!LoaderIsOfTheFile(v6[f], f)
  BY DEF History!IInv
<1>2. History!InOrder'
  BY <1>1 DEF History!InOrder
<1> QED
  BY <1>1, <1>2 DEF History!LoaderIsOfTheFile, History!Has

LEMMA HistorySignKeeps == ASSUME History!IInv, NEW c \in Callers, History!Sign(c) PROVE History!IInv'
<1> DEFINE now == [f \in Files |-> History!Sig(f)]
<1> USE DEF History!IInv
<1>1. UNCHANGED <<v1, v2, v3, v4, v5, v6, v7>> /\ v8[c].at = "idle"
  BY DEF History!Sign, History!At
<1>2. now \in [Files -> History!Signs]
  <2>1. \A f \in Files : History!Sig(f) \in History!Signs
    BY HistoryDiskIs DEF History!Sig, History!Signs
  <2> QED
    BY <2>1
<1>3. History!OnDisk \subseteq History!Events
  BY HistoryDiskIs DEF History!OnDisk
<1> DEFINE r == [History!Idle EXCEPT !.at = "signed", !.key = now, !.due = History!OnDisk, !.seen = History!OnDisk]
<1>4. v8' = [v8 EXCEPT ![c] = r]
  BY DEF History!Sign
<1>5. History!Idle \in History!Calls
  BY HistoryRecordsAre DEF History!Closed, History!Signs, History!None, History!Idle,
     History!Calls, History!Places, History!Keys
<1> HIDE DEF now
<1>6. /\ r \in History!Calls
      /\ r.at = "signed" /\ r.key = now /\ r.due = History!OnDisk /\ r.seen = History!OnDisk
  <2>1. now \in History!Keys /\ "signed" \in History!Places /\ History!OnDisk \in SUBSET History!Events
    BY <1>2, <1>3 DEF History!Keys, History!Places
  <2> QED
    BY <1>5, <2>1 DEF History!Calls
<1>7. History!Types'
  BY <1>1, <1>4, <1>6 DEF History!Types
<1>8. v8'[c] = r /\ \A d \in Callers : d # c => v8'[d] = v8[d]
  BY <1>4, <1>6 DEF History!Types
<1>9. /\ v8'[c].at = "signed" /\ v8'[c].key = now /\ v8'[c].due = History!OnDisk
      /\ v8'[c].seen = History!OnDisk
  BY <1>6, <1>8
<1> HIDE DEF r
<1>10. History!OnDisk' = History!OnDisk
  BY <1>1, HistoryPastStands
<1>11. History!IsPast(now) /\ History!IsNow(now)
  <2>1. now # History!NoKey
    BY HistoryFilesAre DEF History!NoKey, now
  <2>2. \A f \in Files : now[f] = History!Sig(f)
    BY DEF now
  <2>3. \A f \in Files : /\ now[f].inode = v1[f].inode
                         /\ now[f].size = Len(v1[f].events) /\ now[f].size \in Nat
    <3> SUFFICES ASSUME NEW f \in Files
                 PROVE  /\ now[f].inode = v1[f].inode
                        /\ now[f].size = Len(v1[f].events) /\ now[f].size \in Nat
      OBVIOUS
    <3>1. Len(v1[f].events) \in Nat
      BY HistoryDiskIs
    <3>2. now[f] = [inode |-> v1[f].inode, size |-> Len(v1[f].events)]
      BY <2>2 DEF History!Sig
    <3> QED
      BY <3>1, <3>2
  <2>4. History!IsPast(now)
    BY <2>1, <2>3 DEF History!IsPast
  <2> QED
    BY <2>4 DEF History!IsNow, now
<1>12. \A key : History!IsNow(key) <=> key = now
  BY DEF History!IsNow, now
<1>13. \A d \in Callers : d # c => (History!Active(d)' <=> History!Active(d))
  BY <1>8 DEF History!Active
<1>14. \A d \in Callers : History!CallIsOfTheFiles(d)'
  <2>1. \A d \in Callers : History!CallIsOfTheFiles(d)
    OBVIOUS
  <2>2. \A d \in Callers : History!Active(d) /\ v8[d].key = now =>
          v8[d].due = History!OnDisk /\ v8[d].seen = History!OnDisk
    BY <2>1 DEF History!CallIsOfTheFiles, History!IsNow, now
  <2>3. ASSUME NEW d \in Callers, History!Active(d)'
        PROVE  /\ v8'[d].due \subseteq History!OnDisk' /\ History!OnDisk' \subseteq v8'[d].seen
               /\ History!IsPast(v8'[d].key)
               /\ v8'[d].key = now => v8'[d].due = History!OnDisk /\ v8'[d].seen = History!OnDisk
    <3>1. CASE d = c
      BY <3>1, <1>9, <1>10, <1>11, <1>12
    <3>2. CASE d # c
      BY <3>2, <2>1, <2>2, <2>3, <1>8, <1>10, <1>12, <1>13 DEF History!CallIsOfTheFiles
    <3> QED
      BY <3>1, <3>2
  <2>4. ASSUME NEW d \in Callers, NEW b \in Callers, History!Active(d)', History!Active(b)',
               v8'[d].key = v8'[b].key
        PROVE  v8'[d].due = v8'[b].due /\ v8'[d].seen = v8'[b].seen
    <3>1. CASE d = c \/ b = c
      BY <3>1, <2>3, <2>4, <1>9
    <3>2. CASE d # c /\ b # c
      BY <3>2, <2>1, <2>4, <1>8, <1>13 DEF History!CallIsOfTheFiles
    <3> QED
      BY <3>1, <3>2
  <2> QED
    BY <2>3, <2>4, <1>1, <1>10, <1>12, HistoryPastStands DEF History!CallIsOfTheFiles
<1>15. \A d \in Callers : History!HolderIsRight(d)' /\ History!AnswerIsRight(d)'
  <2>1. \A d \in Callers : History!HolderIsRight(d) /\ History!AnswerIsRight(d)
    OBVIOUS
  <2>2. \A d \in Callers : d # c => History!HolderIsRight(d)' /\ History!AnswerIsRight(d)'
    BY <2>1, <1>1, <1>8 DEF History!HolderIsRight, History!AnswerIsRight
  <2>3. History!HolderIsRight(c)' /\ History!AnswerIsRight(c)'
    BY <2>1, <1>1, <1>9 DEF History!HolderIsRight, History!AnswerIsRight
  <2> QED
    BY <2>2, <2>3
<1>16. History!KeptIsRight'
  <2>1. History!KeptIsRight
    OBVIOUS
  <2>2. v7.key = now => History!Covers(v7.records, History!OnDisk) /\ History!Within(v7.records, History!OnDisk)
    BY <2>1 DEF History!KeptIsRight, History!IsNow, now
  <2>3. ASSUME NEW d \in Callers, v8'[d].at = "signed", v8'[d].key = v7.key
        PROVE  History!Covers(v7.records, v8'[d].due) /\ History!Within(v7.records, v8'[d].seen)
    <3>1. CASE d = c
      BY <3>1, <2>2, <2>3, <1>9
    <3>2. CASE d # c
      BY <3>2, <2>1, <2>3, <1>8 DEF History!KeptIsRight, History!At
    <3> QED
      BY <3>1, <3>2
  <2> QED
    BY <2>1, <2>2, <2>3, <1>1, <1>10, <1>12, HistoryPastStands DEF History!KeptIsRight,
       History!At
<1> QED
  BY <1>1, <1>7, <1>14, <1>15, <1>16, HistoryFilesStand

\* A step of a request that writes nothing but its call, and goes on where it was active.
LEMMA HistoryCallSteps ==
  ASSUME History!IInv, NEW c \in Callers, NEW r \in History!Calls, v8' = [v8 EXCEPT ![c] = r], v1' = v1,
         r.at # "signed",
         r.at \in {"file", "read", "store"} =>
           History!Active(c) /\ r.key = v8[c].key /\ r.due = v8[c].due /\ r.seen = v8[c].seen
  PROVE  /\ \A d \in Callers : d # c => v8'[d] = v8[d]
         /\ v8'[c] = r
         /\ \A d \in Callers : History!CallIsOfTheFiles(d)'
         /\ \A d \in Callers : d # c => History!AnswerIsRight(d)'
         /\ v7' = v7 => History!KeptIsRight'
<1>1. v8'[c] = r /\ \A d \in Callers : d # c => v8'[d] = v8[d]
  BY DEF History!IInv, History!Types
<1>2. \A d \in Callers : History!CallIsOfTheFiles(d)'
  BY <1>1, HistoryRequestsStand
<1>3. \A d \in Callers : d # c => History!AnswerIsRight(d)'
  BY <1>1 DEF History!IInv, History!AnswerIsRight
<1>4. ASSUME v7' = v7 PROVE History!KeptIsRight'
  <2>1. \A d \in Callers : v8'[d].at = "signed" => d # c
    BY <1>1
  <2> QED
    BY <2>1, <1>1, <1>4, HistoryPastStands DEF History!IInv, History!KeptIsRight, History!At
<1> QED
  BY <1>1, <1>2, <1>3, <1>4

LEMMA HistoryAnswerKeeps == ASSUME History!IInv, NEW c \in Callers, History!Answer(c) PROVE History!IInv'
<1>1. /\ v8' = [v8 EXCEPT ![c] = History!Idle] /\ History!Idle.at = "idle"
      /\ UNCHANGED <<v1, v2, v3, v4, v5, v6, v7>> /\ v8[c].at = "done"
  BY DEF History!Answer, History!At, History!Idle
<1>2. History!Idle \in History!Calls
  BY HistoryRecordsAre DEF History!Closed, History!Signs, History!None, History!Idle,
     History!Calls, History!Places, History!Keys
<1>3. History!Types'
  BY <1>1, <1>2 DEF History!IInv, History!Types
<1>4. \A d \in Callers : History!HolderIsRight(d)'
  <2>1. v8'[c] = History!Idle /\ \A d \in Callers : d # c => v8'[d] = v8[d]
    BY <1>1, <1>2, HistoryCallSteps
  <2>2. \A d \in Callers : History!HolderIsRight(d)
    BY DEF History!IInv
  <2>3. v5 # c
    BY <2>2, <1>1 DEF History!HolderIsRight
  <2>4. History!HolderIsRight(c)'
    BY <2>1, <2>3, <1>1 DEF History!HolderIsRight
  <2>5. \A d \in Callers : d # c => History!HolderIsRight(d)'
    BY <2>1, <2>2, <1>1 DEF History!HolderIsRight
  <2> QED
    BY <2>4, <2>5
<1>5. History!AnswerIsRight(c)'
  BY <1>1, <1>2, HistoryCallSteps DEF History!AnswerIsRight
<1> QED
  BY <1>1, <1>2, <1>3, <1>4, <1>5, HistoryCallSteps, HistoryFilesStand DEF History!IInv

LEMMA HistoryLookUpKeeps == ASSUME History!IInv, NEW c \in Callers, History!LookUp(c) PROVE History!IInv'
<1> DEFINE hit == [v8[c] EXCEPT !.at = "done", !.records = v7.records]
           miss == [v8[c] EXCEPT !.at = "file", !.todo = History!Names]
<1>1. /\ UNCHANGED <<v1, v2, v3, v4, v6, v7>>
      /\ v8[c].at = "signed" /\ v5 = History!None
  BY DEF History!LookUp, History!At
<1>2. v8[c] \in History!Calls /\ v7.records \in History!Records /\ History!Names \in Seq(Files)
  BY HistoryCallIs, HistoryFilesAre DEF History!IInv, History!Types
<1>3. \A d \in Callers : History!HolderIsRight(d) /\ d # History!None
  BY HistoryParameters DEF History!IInv, History!None
<1>4. CASE v7.key = v8[c].key
  <2>1. v8' = [v8 EXCEPT ![c] = hit] /\ v5' = v5
    BY <1>4, Zenon DEF History!LookUp
  <2>2. /\ hit \in History!Calls /\ hit.at = "done" /\ hit.records = v7.records
        /\ hit.due = v8[c].due /\ hit.seen = v8[c].seen
    BY <1>2 DEF History!Calls, History!Places
  <2> HIDE DEF hit
  <2>3. v8'[c] = hit /\ \A d \in Callers : d # c => v8'[d] = v8[d]
    BY <1>1, <2>1, <2>2, HistoryCallSteps
  <2>4. History!Types'
    BY <1>1, <2>1, <2>2 DEF History!IInv, History!Types
  <2>5. History!AnswerIsRight(c)'
    BY <1>1, <1>4, <2>2, <2>3 DEF History!IInv, History!KeptIsRight, History!AnswerIsRight,
       History!At
  <2>6. \A d \in Callers : History!HolderIsRight(d)'
    <3>1. History!HolderIsRight(c)'
      BY <1>1, <1>3, <2>1, <2>2, <2>3 DEF History!HolderIsRight
    <3>2. \A d \in Callers : d # c => History!HolderIsRight(d)'
      BY <1>1, <1>3, <2>1, <2>3 DEF History!HolderIsRight
    <3> QED
      BY <3>1, <3>2
  <2> QED
    BY <1>1, <2>1, <2>2, <2>4, <2>5, <2>6, HistoryCallSteps,
       HistoryFilesStand DEF History!IInv
<1>5. CASE v7.key # v8[c].key
  <2>1. v8' = [v8 EXCEPT ![c] = miss] /\ v5' = c
    BY <1>5, Zenon DEF History!LookUp
  <2>2. /\ miss \in History!Calls /\ miss.at = "file" /\ miss.todo = History!Names /\ miss.key = v8[c].key
        /\ miss.due = v8[c].due /\ miss.seen = v8[c].seen
    BY <1>2 DEF History!Calls, History!Places
  <2> HIDE DEF miss
  <2>3. History!Active(c)
    BY <1>1 DEF History!Active
  <2>4. v8'[c] = miss /\ \A d \in Callers : d # c => v8'[d] = v8[d]
    BY <1>1, <2>1, <2>2, <2>3, HistoryCallSteps
  <2>5. History!Types'
    BY <1>1, <2>1, <2>2 DEF History!IInv, History!Types
  <2>6. History!AnswerIsRight(c)'
    BY <2>2, <2>4 DEF History!AnswerIsRight
  <2>7. \A d \in Callers : History!HolderIsRight(d)'
    <3>1. History!HolderIsRight(c)'
      BY <2>1, <2>2, <2>4, HistoryFilesAre DEF History!HolderIsRight
    <3>2. \A d \in Callers : d # c => History!HolderIsRight(d)'
      BY <1>1, <1>3, <2>1, <2>4 DEF History!HolderIsRight
    <3> QED
      BY <3>1, <3>2
  <2> QED
    BY <1>1, <2>1, <2>2, <2>3, <2>5, <2>6, <2>7, HistoryCallSteps,
       HistoryFilesStand DEF History!IInv
<1> QED
  BY <1>4, <1>5

\* The holder's list of files names files.
LEMMA HistoryTodoIs ==
  ASSUME History!IInv, NEW c \in Callers, v8[c].todo # <<>>
  PROVE  LET todo == v8[c].todo
         IN  /\ Head(todo) \in Files /\ Tail(todo) \in Seq(Files)
             /\ History!ToSet(todo) = History!ToSet(Tail(todo)) \cup {Head(todo)}
<1> DEFINE todo == v8[c].todo
<1>1. todo \in Seq(Files) /\ todo # <<>>
  BY HistoryCallIs DEF History!IInv
<1> HIDE DEF todo
<1>2. /\ Head(todo) \in Files /\ Tail(todo) \in Seq(Files) /\ Len(Tail(todo)) = Len(todo) - 1
      /\ \A i \in 1..Len(Tail(todo)) : Tail(todo)[i] = todo[i + 1]
  BY <1>1, HeadTailProperties
<1>3. Len(todo) \in Nat /\ Len(todo) > 0 /\ DOMAIN todo = 1..Len(todo) /\ Head(todo) = todo[1]
  BY <1>1
<1>4. DOMAIN Tail(todo) = 1..Len(todo) - 1
  BY <1>2, <1>3
<1>5. \A x \in History!ToSet(todo) : x \in History!ToSet(Tail(todo)) \cup {Head(todo)}
  <2> SUFFICES ASSUME NEW i \in 1..Len(todo)
               PROVE  todo[i] \in History!ToSet(Tail(todo)) \cup {Head(todo)}
    BY <1>3 DEF History!ToSet
  <2>1. CASE i = 1
    BY <2>1, <1>3
  <2>2. CASE i # 1
    <3>1. PICK j \in 1..Len(todo) - 1 : i = j + 1
      <4>1. i - 1 \in 1..Len(todo) - 1 /\ i = (i - 1) + 1
        BY <2>2, <1>3
      <4> QED
        BY <4>1
    <3>2. Tail(todo)[j] = todo[i]
      BY <3>1, <1>2
    <3> QED
      BY <3>2, <1>4 DEF History!ToSet
  <2> QED
    BY <2>1, <2>2
<1>6. \A x \in History!ToSet(Tail(todo)) : x \in History!ToSet(todo)
  <2> SUFFICES ASSUME NEW j \in 1..Len(todo) - 1 PROVE Tail(todo)[j] \in History!ToSet(todo)
    BY <1>4 DEF History!ToSet
  <2>1. Tail(todo)[j] = todo[j + 1] /\ j + 1 \in 1..Len(todo)
    BY <1>2, <1>3
  <2> QED
    BY <2>1, <1>3 DEF History!ToSet
<1>7. Head(todo) \in History!ToSet(todo)
  BY <1>3 DEF History!ToSet
<1> QED
  BY <1>2, <1>5, <1>6, <1>7 DEF todo

LEMMA HistoryStatFileKeeps == ASSUME History!IInv, NEW c \in Callers, History!StatFile(c) PROVE History!IInv'
<1> DEFINE f == Head(v8[c].todo)
           r == [v8[c] EXCEPT !.at = "read", !.sig = History!Sig(f)]
<1>1. /\ UNCHANGED <<v1, v2, v3, v4, v5, v6, v7>>
      /\ v8[c].at = "file" /\ v8[c].todo # <<>> /\ v8' = [v8 EXCEPT ![c] = r]
  BY Zenon DEF History!StatFile, History!At
<1>2. v8[c] \in History!Calls
  BY HistoryCallIs DEF History!IInv
<1>3. f \in Files
  BY <1>1, HistoryTodoIs
<1> HIDE DEF f
<1>4. /\ v1[f].inode \in Nat /\ Len(v1[f].events) \in Nat
      /\ DOMAIN v1[f].events = 1..Len(v1[f].events)
  BY <1>3, HistoryDiskIs DEF History!IInv
<1>5. /\ History!Sig(f) \in History!Signs /\ History!Sig(f).inode = v1[f].inode
      /\ History!Sig(f).size = Len(v1[f].events)
  BY <1>4 DEF History!Sig, History!Signs
<1>6. /\ r \in History!Calls /\ r.at = "read" /\ r.sig = History!Sig(f) /\ r.todo = v8[c].todo
      /\ r.key = v8[c].key /\ r.due = v8[c].due /\ r.seen = v8[c].seen
  BY <1>2, <1>5 DEF History!Calls, History!Places
<1> HIDE DEF r
<1>7. History!Active(c)
  BY <1>1 DEF History!Active
<1>8. v8'[c] = r /\ \A d \in Callers : d # c => v8'[d] = v8[d]
  BY <1>1, <1>6, <1>7, HistoryCallSteps
<1>9. History!Types'
  BY <1>1, <1>6 DEF History!IInv, History!Types
<1>10. History!AnswerIsRight(c)'
  BY <1>6, <1>8 DEF History!AnswerIsRight
<1>11. \A d \in Callers : History!HolderIsRight(d)
  BY DEF History!IInv
<1>12. History!HolderIsRight(c)'
  <2>1. History!OnDisk \subseteq v8[c].seen
    BY <1>7 DEF History!IInv, History!CallIsOfTheFiles
  <2>2. v6[f].sig.inode = v1[f].inode => History!Within(v6[f].records, v8[c].seen)
    <3> SUFFICES ASSUME v6[f].sig.inode = v1[f].inode
                 PROVE  History!Within(v6[f].records, v8[c].seen)
      OBVIOUS
    <3>1. v6[f].open \in Int
      BY <1>3, HistoryLoaderIs DEF History!IInv, History!Types
    <3>2. v6[f].open = v1[f].inode
      BY <1>3, <1>4, <3>1 DEF History!IInv, History!LoaderIsOfTheFile
    <3>3. History!Within(v6[f].records, History!ToSet(v1[f].events))
      BY <1>3, <3>2 DEF History!IInv, History!LoaderIsOfTheFile, History!Has
    <3>4. History!ToSet(v1[f].events) \subseteq v8[c].seen
      BY <1>3, <2>1 DEF History!OnDisk
    <3> QED
      BY <3>3, <3>4 DEF History!Within
  <2>3. v5 = c
    BY <1>1, <1>11 DEF History!HolderIsRight
  <2>4. \A g \in Files \ History!ToSet(v8[c].todo) :
          /\ History!Within(v6[g].records, v8[c].seen)
          /\ History!Covers(v6[g].records, v8[c].due \cap History!ToSet(v1[g].events))
    BY <2>3, <1>11 DEF History!HolderIsRight
  <2>5. f = Head(r.todo)
    BY <1>6 DEF f
  <2>6. \A g \in Files \ History!ToSet(r.todo) :
          /\ History!Within(v6[g].records, r.seen)
          /\ History!Covers(v6[g].records, r.due \cap History!ToSet(v1[g].events))
    BY <2>4, <1>6
  <2>7. /\ r.todo # <<>> /\ r.sig.inode <= v1[f].inode
        /\ r.sig.inode = v1[f].inode => r.sig.size <= Len(v1[f].events)
        /\ v6[f].sig.inode = r.sig.inode => History!Within(v6[f].records, r.seen)
        /\ \A i \in DOMAIN v1[f].events : v1[f].events[i] \in r.due =>
             r.sig.inode = v1[f].inode /\ i <= r.sig.size
    BY <1>1, <1>4, <1>5, <1>6, <2>2
  <2>8. r.at = "read" /\ v5' = c /\ v1' = v1 /\ v6' = v6 /\ v8'[c] = r
    BY <1>1, <1>6, <1>8, <2>3
  <2> QED
    BY <2>5, <2>6, <2>7, <2>8 DEF History!HolderIsRight
<1>13. \A d \in Callers : d # c => History!HolderIsRight(d)'
  BY <1>1, <1>8, <1>11 DEF History!HolderIsRight
<1> QED
  BY <1>1, <1>6, <1>7, <1>9, <1>10, <1>12, <1>13, HistoryCallSteps,
     HistoryFilesStand DEF History!IInv

\* Where the files have the records of a step, the last one has the latest.
LEMMA HistoryMergedIs ==
  ASSUME History!IInv, NEW c \in Callers, v5 = c, v8[c].todo = <<>>
  PROVE  /\ History!Merged \in History!Records
         /\ History!Covers(History!Merged, v8[c].due) /\ History!Within(History!Merged, v8[c].seen)
<1> DEFINE D == UNION {DOMAIN v6[f].records : f \in Files}
           Of(s) == {f \in Files : s \in DOMAIN v6[f].records}
<1>1. \A f \in Files : /\ History!Within(v6[f].records, v8[c].seen)
                       /\ History!Covers(v6[f].records, v8[c].due \cap History!ToSet(v1[f].events))
  <2>1. History!HolderIsRight(c)
    BY DEF History!IInv
  <2>2. History!ToSet(v8[c].todo) = {}
    BY DEF History!ToSet
  <2> QED
    BY <2>1, <2>2 DEF History!HolderIsRight
<1>2. \A f \in Files : v6[f].records \in History!Records
  BY HistoryLoaderIs DEF History!IInv, History!Types
<1>3. \A s \in D : History!Latest(s) \in Of(s) /\ \A f \in Of(s) : History!Latest(s) >= f
  <2> SUFFICES ASSUME NEW s \in D
               PROVE  History!Latest(s) \in Of(s) /\ \A f \in Of(s) : History!Latest(s) >= f
    OBVIOUS
  <2>1. Of(s) \subseteq Files /\ Of(s) # {} /\ History!Latest(s) = History!Max(Of(s))
    BY DEF History!Latest
  <2> HIDE DEF Of
  <2> QED
    BY <2>1, HistoryGreatestFile
<1>4. DOMAIN History!Merged = D /\ \A s \in D : History!Merged[s] = v6[History!Latest(s)].records[s]
  BY DEF History!Merged
<1>5. History!Merged = [s \in D |-> History!Merged[s]]
  BY Zenon DEF History!Merged
<1>6. \A s \in D : /\ History!Latest(s) \in Files /\ s \in DOMAIN v6[History!Latest(s)].records
                   /\ History!Merged[s] = v6[History!Latest(s)].records[s]
  BY <1>3, <1>4
<1>7. \A s \in D : s \in LogSteps /\ History!Merged[s] \in 1..MaxLogged
  BY <1>2, <1>6, HistoryRecordsAre
<1>8. History!Merged \in History!Records
  <2>1. D \in SUBSET LogSteps /\ History!Merged \in [D -> 1..MaxLogged]
    BY <1>5, <1>7
  <2> HIDE DEF D
  <2> QED
    BY <2>1, HistoryRecordsAre
<1>9. History!Within(History!Merged, v8[c].seen)
  BY <1>1, <1>4, <1>6 DEF History!Within
<1>10. History!Covers(History!Merged, v8[c].due)
  <2> SUFFICES ASSUME NEW e \in v8[c].due
               PROVE  e.step \in DOMAIN History!Merged /\ History!Merged[e.step] >= e.serial
    BY DEF History!Covers
  <2> DEFINE s == e.step
  <2>1. History!Active(c) /\ v8[c].due \subseteq History!OnDisk
    BY DEF History!IInv, History!HolderIsRight, History!CallIsOfTheFiles, History!Active
  <2>2. PICK f \in Files : e \in History!ToSet(v1[f].events)
    BY <2>1 DEF History!OnDisk
  <2>3. s \in DOMAIN v6[f].records /\ v6[f].records[s] >= e.serial
    BY <1>1, <2>2 DEF History!Covers
  <2>4. s \in D
    BY <2>3
  <2>5. History!Latest(s) >= f /\ History!Latest(s) \in Files
    BY <1>3, <2>3, <2>4
  <2>6. CASE History!Latest(s) = f
    BY <1>4, <2>3, <2>4, <2>6
  <2>7. CASE History!Latest(s) # f
    <3>1. f < History!Latest(s)
      <4>1. f \in Nat /\ History!Latest(s) \in Nat
        BY <2>5, HistoryFilesAre
      <4> QED
        BY <4>1, <2>5, <2>7
    <3>2. e.serial < History!Merged[s]
      BY <1>6, <2>2, <2>4, <2>5, <3>1 DEF History!IInv, History!InOrder
    <3>3. e.serial \in Nat /\ History!Merged[s] \in Nat
      <4>1. e \in History!Events
        BY <2>2, HistoryDiskIs DEF History!IInv
      <4> QED
        BY <4>1, <1>7, <2>4 DEF History!Events
    <3> QED
      BY <1>4, <2>4, <3>2, <3>3
  <2> QED
    BY <2>6, <2>7
<1> QED
  BY <1>8, <1>9, <1>10

LEMMA HistoryMergeKeeps == ASSUME History!IInv, NEW c \in Callers, History!Merge(c) PROVE History!IInv'
<1> DEFINE r == [v8[c] EXCEPT !.at = "store", !.records = History!Merged]
<1>1. /\ UNCHANGED <<v1, v2, v3, v4, v6, v7>> /\ v5' = History!None
      /\ v8[c].at = "file" /\ v8[c].todo = <<>> /\ v8' = [v8 EXCEPT ![c] = r]
  BY Zenon DEF History!Merge, History!At
<1>2. \A d \in Callers : History!HolderIsRight(d) /\ d # History!None
  BY HistoryParameters DEF History!IInv, History!None
<1>3. v5 = c
  BY <1>1, <1>2 DEF History!HolderIsRight
<1>4. v8[c] \in History!Calls /\ History!Merged \in History!Records
  BY <1>1, <1>3, HistoryCallIs, HistoryMergedIs DEF History!IInv
<1>5. /\ r \in History!Calls /\ r.at = "store" /\ r.records = History!Merged /\ r.key = v8[c].key
      /\ r.due = v8[c].due /\ r.seen = v8[c].seen
  BY <1>4 DEF History!Calls, History!Places
<1> HIDE DEF r
<1>6. History!Active(c)
  BY <1>1 DEF History!Active
<1>7. v8'[c] = r /\ \A d \in Callers : d # c => v8'[d] = v8[d]
  BY <1>1, <1>5, <1>6, HistoryCallSteps
<1>8. History!Types'
  BY <1>1, <1>5 DEF History!IInv, History!Types
<1>9. History!AnswerIsRight(c)'
  <2>1. History!Covers(r.records, r.due) /\ History!Within(r.records, r.seen)
    BY <1>1, <1>3, <1>5, HistoryMergedIs
  <2> QED
    BY <1>7, <2>1 DEF History!AnswerIsRight
<1>10. History!HolderIsRight(c)'
  BY <1>1, <1>2, <1>5, <1>7 DEF History!HolderIsRight
<1>11. \A d \in Callers : d # c => History!HolderIsRight(d)'
  BY <1>1, <1>2, <1>3, <1>7 DEF History!HolderIsRight
<1> QED
  BY <1>1, <1>5, <1>6, <1>8, <1>9, <1>10, <1>11, HistoryCallSteps,
     HistoryFilesStand DEF History!IInv

LEMMA HistoryStoreKeeps == ASSUME History!IInv, NEW c \in Callers, History!Store(c) PROVE History!IInv'
<1> DEFINE r == [v8[c] EXCEPT !.at = "done"]
<1>1. /\ UNCHANGED <<v1, v2, v3, v4, v5, v6>>
      /\ v7' = [key |-> v8[c].key, records |-> v8[c].records]
      /\ v8[c].at = "store" /\ v8' = [v8 EXCEPT ![c] = r]
  BY Zenon DEF History!Store, History!At, History!KeyOf
<1>2. /\ v8[c] \in History!Calls /\ v8[c].key \in History!Keys /\ v8[c].records \in History!Records
  BY HistoryCallIs DEF History!IInv
<1>3. /\ r \in History!Calls /\ r.at = "done" /\ r.records = v8[c].records
      /\ r.due = v8[c].due /\ r.seen = v8[c].seen
  BY <1>2 DEF History!Calls, History!Places
<1> HIDE DEF r
<1>4. v8'[c] = r /\ \A d \in Callers : d # c => v8'[d] = v8[d]
  BY <1>1, <1>3, HistoryCallSteps
<1>5. History!Types'
  BY <1>1, <1>2, <1>3 DEF History!IInv, History!Types
<1>6. History!Covers(v8[c].records, v8[c].due) /\ History!Within(v8[c].records, v8[c].seen)
  BY <1>1 DEF History!IInv, History!AnswerIsRight
<1>7. History!AnswerIsRight(c)'
  BY <1>3, <1>4, <1>6 DEF History!AnswerIsRight
<1>8. \A d \in Callers : History!HolderIsRight(d)'
  <2>1. \A d \in Callers : History!HolderIsRight(d)
    BY DEF History!IInv
  <2>2. History!HolderIsRight(c)'
    BY <1>1, <1>3, <1>4, <2>1 DEF History!HolderIsRight
  <2>3. \A d \in Callers : d # c => History!HolderIsRight(d)'
    BY <1>1, <1>4, <2>1 DEF History!HolderIsRight
  <2> QED
    BY <2>2, <2>3
<1>9. History!KeptIsRight'
  <2>1. History!Active(c) /\ History!CallIsOfTheFiles(c)
    BY <1>1 DEF History!Active, History!IInv
  <2>2. /\ History!IsPast(v8[c].key)
        /\ History!IsNow(v8[c].key) => v8[c].due = History!OnDisk /\ v8[c].seen = History!OnDisk
    BY <2>1 DEF History!CallIsOfTheFiles
  <2>3. v7'.key = v8[c].key /\ v7'.records = v8[c].records
    BY <1>1
  <2>4. History!IsPast(v7.key)'
    BY <1>1, <2>2, <2>3, HistoryPastStands
  <2>5. History!IsNow(v7.key)' => History!Covers(v7'.records, History!OnDisk') /\ History!Within(v7'.records, History!OnDisk')
    BY <1>1, <1>6, <2>2, <2>3, HistoryPastStands
  <2>6. ASSUME NEW d \in Callers, v8'[d].at = "signed", v8'[d].key = v8[c].key
        PROVE  History!Covers(v8[c].records, v8'[d].due) /\ History!Within(v8[c].records, v8'[d].seen)
    <3>1. d # c
      BY <2>6, <1>3, <1>4
    <3>2. v8'[d] = v8[d]
      BY <3>1, <1>4
    <3>3. History!Active(d)
      BY <2>6, <3>2 DEF History!Active
    <3>4. v8[d].due = v8[c].due /\ v8[d].seen = v8[c].seen
      BY <2>1, <2>6, <3>2, <3>3 DEF History!CallIsOfTheFiles
    <3> QED
      BY <3>2, <3>4, <1>6
  <2> QED
    BY <2>3, <2>4, <2>5, <2>6 DEF History!KeptIsRight, History!At
<1> QED
  BY <1>1, <1>3, <1>5, <1>7, <1>8, <1>9, HistoryCallSteps, HistoryFilesStand DEF History!IInv

LEMMA HistoryReadFileKeeps == ASSUME History!IInv, NEW c \in Callers, History!ReadFile(c) PROVE History!IInv'
<1> DEFINE f == Head(v8[c].todo)
           sig == v8[c].sig
           a == History!Advanced(f, sig)
           events == v1[f].events
           r == [v8[c] EXCEPT !.at = "file", !.todo = Tail(@)]
<1>1. /\ UNCHANGED <<v1, v2, v3, v4, v5, v7>>
      /\ v8[c].at = "read" /\ v8' = [v8 EXCEPT ![c] = r]
      /\ v6' = [v6 EXCEPT ![f] = a]
  BY Zenon DEF History!ReadFile, History!At
<1>2. \A d \in Callers : History!HolderIsRight(d)
  BY DEF History!IInv
<1>3. v5 = c /\ v8[c].todo # <<>>
  BY <1>1, <1>2 DEF History!HolderIsRight
<1>4. /\ f \in Files /\ Tail(v8[c].todo) \in Seq(Files)
      /\ History!ToSet(v8[c].todo) = History!ToSet(Tail(v8[c].todo)) \cup {f}
  BY <1>3, HistoryTodoIs
<1>5. /\ sig.inode <= v1[f].inode
      /\ sig.inode = v1[f].inode => sig.size <= Len(events)
      /\ v6[f].sig.inode = sig.inode => History!Within(v6[f].records, v8[c].seen)
      /\ \A i \in DOMAIN events : events[i] \in v8[c].due =>
           sig.inode = v1[f].inode /\ i <= sig.size
  BY <1>1, <1>2 DEF History!HolderIsRight
<1>6. v8[c] \in History!Calls /\ sig \in History!Signs
  BY HistoryCallIs DEF History!IInv
<1>7. /\ r \in History!Calls /\ r.at = "file" /\ r.todo = Tail(v8[c].todo) /\ r.key = v8[c].key
      /\ r.due = v8[c].due /\ r.seen = v8[c].seen
  BY <1>4, <1>6 DEF History!Calls, History!Places
<1> HIDE DEF r, f
<1>8. /\ a \in History!Loaders /\ History!LoaderIsOfTheFile(a, f)
      /\ \/ History!Within(a.records, History!ToSet(events))
         \/ sig.inode = v6[f].sig.inode /\ a.records = v6[f].records
      /\ sig.inode = v1[f].inode => \A i \in 1..sig.size : History!Covers(a.records, {events[i]})
  BY <1>4, <1>5, <1>6, HistoryAdvancedIs DEF History!IInv
<1> HIDE DEF a
<1>9. History!Active(c)
  BY <1>1 DEF History!Active
<1>10. v8'[c] = r /\ \A d \in Callers : d # c => v8'[d] = v8[d]
  BY <1>1, <1>7, <1>9, HistoryCallSteps
<1>11. v6'[f] = a /\ \A g \in Files : g # f => v6'[g] = v6[g]
  BY <1>1, <1>4 DEF History!IInv, History!Types
<1>12. History!Types'
  BY <1>1, <1>4, <1>7, <1>8 DEF History!IInv, History!Types
<1>13. History!InOrder'
  <2>1. History!InOrder
    BY DEF History!IInv
  <2>2. ASSUME NEW g \in Files, NEW h \in Files, g < h, NEW e \in History!ToSet(v1[g].events),
               NEW s \in DOMAIN v6'[h].records
        PROVE  e.serial < v6'[h].records[s]
    <3>1. CASE v6'[h].records = v6[h].records
      BY <3>1, <2>1, <2>2 DEF History!InOrder
    <3>2. CASE h = f /\ History!Within(a.records, History!ToSet(events))
      <4> DEFINE x == [step |-> s, serial |-> a.records[s]]
      <4>1. x \in History!ToSet(v1[h].events)
        BY <3>2, <2>2, <1>11 DEF History!Within
      <4>2. e.serial < x.serial
        BY <4>1, <2>1, <2>2 DEF History!InOrder
      <4> QED
        BY <4>2, <3>2, <1>11
    <3> QED
      BY <3>1, <3>2, <1>8, <1>11
  <2>3. ASSUME NEW g \in Files, g > v2
        PROVE  v1[g].events = <<>> /\ DOMAIN v6'[g].records = {}
    <3>1. v1[g].events = <<>> /\ DOMAIN v6[g].records = {}
      BY <2>1, <2>3 DEF History!InOrder
    <3>2. History!ToSet(v1[g].events) = {}
      BY <3>1 DEF History!ToSet
    <3>3. CASE v6'[g].records = v6[g].records
      BY <3>1, <3>3
    <3>4. CASE g = f /\ History!Within(a.records, History!ToSet(events))
      BY <3>1, <3>2, <3>4, <1>11 DEF History!Within
    <3> QED
      BY <3>3, <3>4, <1>8, <1>11
  <2> QED
    BY <2>1, <2>2, <2>3, <1>1 DEF History!InOrder
<1>14. \A g \in Files : History!LoaderIsOfTheFile(v6[g], g)'
  <2>1. \A g \in Files : History!LoaderIsOfTheFile(v6[g], g)
    BY DEF History!IInv
  <2>2. \A g \in Files : History!LoaderIsOfTheFile(v6'[g], g)
    BY <2>1, <1>8, <1>11
  <2> QED
    BY <2>2, <1>1 DEF History!LoaderIsOfTheFile, History!Has
<1>15. History!AnswerIsRight(c)'
  BY <1>7, <1>10 DEF History!AnswerIsRight
<1>16. History!HolderIsRight(c)'
  <2>1. ASSUME NEW g \in Files \ History!ToSet(r.todo)
        PROVE  /\ History!Within(v6'[g].records, r.seen)
               /\ History!Covers(v6'[g].records, r.due \cap History!ToSet(v1[g].events))
    <3>1. CASE g # f
      BY <3>1, <1>2, <1>3, <1>4, <1>7, <1>11 DEF History!HolderIsRight
    <3>2. CASE g = f
      <4>1. History!OnDisk \subseteq v8[c].seen
        BY <1>9 DEF History!IInv, History!CallIsOfTheFiles
      <4>2. History!ToSet(events) \subseteq v8[c].seen
        BY <4>1, <1>4 DEF History!OnDisk
      <4>3. History!Within(a.records, v8[c].seen)
        BY <1>5, <1>8, <4>2 DEF History!Within
      <4>4. ASSUME NEW e \in v8[c].due, e \in History!ToSet(events)
            PROVE  e.step \in DOMAIN a.records /\ a.records[e.step] >= e.serial
        <5>1. PICK i \in DOMAIN events : e = events[i]
          BY <4>4 DEF History!ToSet
        <5>2. sig.inode = v1[f].inode /\ i <= sig.size
          BY <5>1, <1>5
        <5>3. i \in Int /\ i >= 1 /\ sig.size \in Int
          BY <5>1, <1>4, <1>6, HistoryDiskIs DEF History!IInv, History!Signs
        <5>4. i \in 1..sig.size
          BY <5>2, <5>3
        <5> QED
          BY <5>1, <5>2, <5>4, <1>8 DEF History!Covers
      <4>5. History!Covers(a.records, v8[c].due \cap History!ToSet(events))
        BY <4>4 DEF History!Covers
      <4> QED
        BY <3>2, <4>3, <4>5, <1>7, <1>11
    <3> QED
      BY <3>1, <3>2
  <2>2. r.at = "file" /\ v5' = c /\ v1' = v1 /\ v8'[c] = r
    BY <1>1, <1>3, <1>7, <1>10
  <2> QED
    BY <2>1, <2>2 DEF History!HolderIsRight
<1>17. \A d \in Callers : d # c => History!HolderIsRight(d)'
  BY <1>1, <1>2, <1>3, <1>10 DEF History!HolderIsRight
<1> QED
  BY <1>1, <1>7, <1>9, <1>12, <1>13, <1>14, <1>15, <1>16, <1>17,
     HistoryCallSteps DEF History!IInv

-----------------------------------------------------------------------------
\* The trainer.

LEMMA HistoryNextFileKeeps == ASSUME History!IInv, History!NextFile PROVE History!IInv'
<1>1. /\ UNCHANGED <<v1, v3, v4, v5, v6, v7, v8>>
      /\ v2' = v2 + 1 /\ v2' \in Files
  BY DEF History!NextFile
<1>2. History!Types'
  BY <1>1 DEF History!IInv, History!Types
<1>3. History!InOrder'
  <2>1. ASSUME NEW g \in Files, g > v2' PROVE g > v2
    BY <2>1, <1>1, HistoryFilesAre DEF History!IInv, History!Types
  <2> QED
    BY <2>1, <1>1 DEF History!IInv, History!InOrder
<1>4. \A f \in Files : History!LoaderIsOfTheFile(v6[f], f)'
  BY <1>1 DEF History!IInv, History!LoaderIsOfTheFile, History!Has
<1>5. \A c \in Callers : History!CallIsOfTheFiles(c)'
  BY <1>1, HistoryPastStands DEF History!IInv, History!CallIsOfTheFiles, History!Active
<1>6. \A c \in Callers : History!HolderIsRight(c)' /\ History!AnswerIsRight(c)'
  BY <1>1 DEF History!IInv, History!HolderIsRight, History!AnswerIsRight
<1>7. History!KeptIsRight'
  BY <1>1, HistoryPastStands DEF History!IInv, History!KeptIsRight, History!At
<1> QED
  BY <1>2, <1>3, <1>4, <1>5, <1>6, <1>7 DEF History!IInv

\* What the current file gains.
LEMMA HistoryLogAdds ==
  ASSUME History!IInv, NEW s \in LogSteps, v3 < MaxLogged,
         v1' = [v1 EXCEPT ![v2].events =
                    Append(@, [step |-> s, serial |-> v3 + 1])]
  PROVE  LET event == [step |-> s, serial |-> v3 + 1]
         IN  /\ v2 \in Files /\ event \in History!Events
             /\ v1' \in [Files -> [inode : Nat, events : Seq(History!Events)]]
             /\ \A f \in Files : f # v2 => v1'[f] = v1[f]
             /\ v1'[v2].inode = v1[v2].inode
             /\ Len(v1'[v2].events) = Len(v1[v2].events) + 1
             /\ DOMAIN v1'[v2].events = 1..Len(v1[v2].events) + 1
             /\ v1'[v2].events[Len(v1[v2].events) + 1] = event
             /\ \A f \in Files : \A i \in DOMAIN v1[f].events :
                  i \in DOMAIN v1'[f].events /\ v1'[f].events[i] = v1[f].events[i]
             /\ History!ToSet(v1'[v2].events) = History!ToSet(v1[v2].events) \cup {event}
             /\ History!OnDisk' = History!OnDisk \cup {event}
             /\ (\A e \in History!OnDisk : e.serial \in Nat /\ e.serial <= v3) /\ event \notin History!OnDisk
<1> DEFINE event == [step |-> s, serial |-> v3 + 1]
           old == v1[v2].events
           new == v1'[v2].events
           n == Len(old)
<1>1. v2 \in Files /\ v3 \in Nat /\ History!Types
  BY DEF History!IInv, History!Types
<1>2. event \in History!Events
  BY <1>1, HistoryParameters DEF History!Events
<1>3. /\ v1[v2].inode \in Nat /\ old \in Seq(History!Events) /\ n \in Nat /\ DOMAIN old = 1..n
  BY <1>1, HistoryDiskIs
<1>4. \A f \in Files : f # v2 => v1'[f] = v1[f]
  BY <1>1 DEF History!Types
<1>5. /\ v1'[v2] = [v1[v2] EXCEPT !.events = Append(old, event)]
      /\ v1[v2] \in [inode : Nat, events : Seq(History!Events)]
  BY <1>1 DEF History!Types
<1> HIDE DEF event
<1>6. /\ Append(old, event) \in Seq(History!Events) /\ Len(Append(old, event)) = n + 1
      /\ \A i \in 1..n : Append(old, event)[i] = old[i]
      /\ Append(old, event)[n + 1] = event
  BY <1>2, <1>3, AppendProperties
<1>7. new = Append(old, event) /\ v1'[v2].inode = v1[v2].inode
  BY <1>5
<1>8. v1' \in [Files -> [inode : Nat, events : Seq(History!Events)]]
  <2>1. [v1[v2] EXCEPT !.events = Append(old, event)] \in [inode : Nat, events : Seq(History!Events)]
    BY <1>5, <1>6
  <2>2. v1' = [v1 EXCEPT ![v2] = [v1[v2] EXCEPT !.events = Append(old, event)]]
    BY DEF event
  <2> QED
    BY <1>1, <2>1, <2>2 DEF History!Types
<1> HIDE DEF new, old
<1>9. DOMAIN new = 1..n + 1
  BY <1>3, <1>6, <1>7
<1>10. \A i \in 1..n : i \in 1..n + 1
  BY <1>3
<1>11. \A f \in Files : \A i \in DOMAIN v1[f].events :
         i \in DOMAIN v1'[f].events /\ v1'[f].events[i] = v1[f].events[i]
  <2> SUFFICES ASSUME NEW f \in Files, NEW i \in DOMAIN v1[f].events
               PROVE  i \in DOMAIN v1'[f].events /\ v1'[f].events[i] = v1[f].events[i]
    OBVIOUS
  <2>1. CASE f = v2
    <3>1. i \in 1..n
      BY <2>1, <1>3 DEF old
    <3>2. i \in DOMAIN new /\ new[i] = old[i]
      BY <3>1, <1>6, <1>7, <1>9, <1>10
    <3> QED
      BY <3>2, <2>1 DEF new, old
  <2>2. CASE f # v2
    BY <2>2, <1>4
  <2> QED
    BY <2>1, <2>2
<1>12. History!ToSet(new) = History!ToSet(old) \cup {event}
  <2>1. History!ToSet(new) = {new[i] : i \in 1..n + 1} /\ History!ToSet(old) = {old[i] : i \in 1..n}
    BY <1>3, <1>9 DEF History!ToSet
  <2>2. \A i \in 1..n + 1 : i \in 1..n \/ i = n + 1
    BY <1>3
  <2>3. n + 1 \in 1..n + 1
    BY <1>3
  <2>4. \A i \in 1..n : new[i] = old[i]
    BY <1>6, <1>7
  <2>5. new[n + 1] = event
    BY <1>6, <1>7
  <2> QED
    BY <2>1, <2>2, <2>3, <2>4, <2>5, <1>10
<1>13. History!OnDisk' = History!OnDisk \cup {event}
  <2>1. \A f \in Files : f # v2 => History!ToSet(v1'[f].events) = History!ToSet(v1[f].events)
    BY <1>4
  <2>2. History!ToSet(v1'[v2].events) = History!ToSet(v1[v2].events) \cup {event}
    BY <1>12 DEF new, old
  <2>3. History!OnDisk' = UNION {History!ToSet(v1'[f].events) : f \in Files}
    BY DEF History!OnDisk
  <2> QED
    BY <2>1, <2>2, <2>3, <1>1 DEF History!OnDisk
<1>14. \A e \in History!OnDisk : e.serial \in Nat /\ e.serial <= v3
  <2> SUFFICES ASSUME NEW f \in Files, NEW i \in DOMAIN v1[f].events
               PROVE  v1[f].events[i].serial \in Nat /\ v1[f].events[i].serial <= v3
    BY DEF History!OnDisk, History!ToSet
  <2> QED
    BY <1>1, HistoryDiskIs DEF History!IInv, History!InOrder
<1>15. event \notin History!OnDisk
  BY <1>1, <1>14 DEF event
<1>16. Len(new) = n + 1 /\ new[n + 1] = event
  BY <1>6, <1>7
<1> QED
  BY <1>1, <1>2, <1>4, <1>7, <1>8, <1>9, <1>11, <1>12, <1>13, <1>14, <1>15, <1>16
  DEF event, new, old

\* What the calls in progress see of it.
LEMMA HistoryObserveIs ==
  ASSUME History!IInv, NEW event \in History!Events, History!Observe({event})
  PROVE  /\ v8' \in [Callers -> History!Calls]
         /\ \A c \in Callers :
              /\ v8'[c].at = v8[c].at /\ v8'[c].key = v8[c].key
              /\ v8'[c].todo = v8[c].todo /\ v8'[c].sig = v8[c].sig
              /\ v8'[c].records = v8[c].records /\ v8'[c].due = v8[c].due
              /\ v8[c].seen \subseteq v8'[c].seen
              /\ History!Active(c) => v8'[c].seen = v8[c].seen \cup {event}
<1>1. v8' = [c \in Callers |-> IF v8[c].at \in {"idle", "done"} THEN v8[c]
                                 ELSE [v8[c] EXCEPT !.seen = @ \cup {event}]]
  BY DEF History!Observe
<1>2. ASSUME NEW c \in Callers
      PROVE  /\ v8'[c] \in History!Calls
             /\ v8'[c].at = v8[c].at /\ v8'[c].key = v8[c].key
             /\ v8'[c].todo = v8[c].todo /\ v8'[c].sig = v8[c].sig
             /\ v8'[c].records = v8[c].records /\ v8'[c].due = v8[c].due
             /\ v8[c].seen \subseteq v8'[c].seen
             /\ History!Active(c) => v8'[c].seen = v8[c].seen \cup {event}
  <2>1. v8[c] \in History!Calls /\ v8[c].seen \subseteq History!Events
    BY HistoryCallIs DEF History!IInv
  <2>2. CASE v8[c].at \in {"idle", "done"}
    BY <2>1, <2>2, <1>1 DEF History!Active
  <2>3. CASE v8[c].at \notin {"idle", "done"}
    <3>1. v8'[c] = [v8[c] EXCEPT !.seen = v8[c].seen \cup {event}]
      BY <2>3, <1>1
    <3>2. v8[c].seen \cup {event} \in SUBSET History!Events
      BY <2>1
    <3> QED
      BY <2>1, <3>1, <3>2 DEF History!Calls
  <2> QED
    BY <2>2, <2>3
<1> QED
  BY <1>1, <1>2

\* What a file is later than, when the signatures advance.
LEMMA HistorySignaturesAdvance ==
  ASSUME History!Types, History!Types', NEW g \in Files, NEW key,
         \A f \in Files : \/ v1[f].inode < v1'[f].inode
                         \/ /\ v1'[f].inode = v1[f].inode
                            /\ Len(v1[f].events) <= Len(v1'[f].events),
         \/ v1[g].inode < v1'[g].inode
         \/ Len(v1[g].events) < Len(v1'[g].events),
         key \in History!Keys, History!IsPast(key)
  PROVE  /\ \A f \in Files :
              \/ key[f].inode < v1'[f].inode
              \/ key[f].inode = v1'[f].inode /\ key[f].size <= Len(v1'[f].events)
         /\ key # [f \in Files |-> History!Sig(f)']
<1>1. key \in [Files -> History!Signs]
  BY DEF History!Keys, History!IsPast
<1>2. \A f \in Files : key[f].inode \in Int /\ key[f].size \in Int
  BY <1>1 DEF History!Signs
<1>3. \A f \in Files : /\ v1[f].inode \in Nat /\ Len(v1[f].events) \in Nat
                       /\ v1'[f].inode \in Nat /\ Len(v1'[f].events) \in Nat
  <2>1. \A f \in Files : v1'[f].inode \in Nat /\ v1'[f].events \in Seq(History!Events)
    BY DEF History!Types
  <2> QED
    BY <2>1, HistoryDiskIs
<1>4. \A f \in Files : \/ key[f].inode < v1[f].inode
                       \/ key[f].inode = v1[f].inode /\ key[f].size <= Len(v1[f].events)
  BY DEF History!IsPast
<1>5. \A f \in Files :
         \/ key[f].inode < v1'[f].inode
         \/ key[f].inode = v1'[f].inode /\ key[f].size <= Len(v1'[f].events)
  BY <1>2, <1>3, <1>4
<1>6. key # [f \in Files |-> History!Sig(f)']
  <2> SUFFICES ASSUME key = [f \in Files |-> History!Sig(f)'] PROVE FALSE
    OBVIOUS
  <2>1. key[g] = History!Sig(g)'
    OBVIOUS
  <2>2. key[g].inode = v1'[g].inode /\ key[g].size = Len(v1'[g].events)
    BY <2>1 DEF History!Sig
  <2> QED
    BY <2>2, <1>2, <1>3, <1>4
<1> QED
  BY <1>5, <1>6

LEMMA HistoryLogKeeps == ASSUME History!IInv, History!Log PROVE History!IInv'
<1>1. /\ v3 < MaxLogged /\ v3' = v3 + 1
      /\ UNCHANGED <<v2, v4, v5, v6, v7>>
  BY DEF History!Log
<1>2. PICK s \in LogSteps :
        /\ v1' = [v1 EXCEPT ![v2].events =
                      Append(@, [step |-> s, serial |-> v3 + 1])]
        /\ History!Observe({[step |-> s, serial |-> v3 + 1]})
  BY DEF History!Log
<1> DEFINE event == [step |-> s, serial |-> v3 + 1]
           n == Len(v1[v2].events)
<1>3. /\ v2 \in Files /\ event \in History!Events
      /\ v1' \in [Files -> [inode : Nat, events : Seq(History!Events)]]
      /\ \A f \in Files : f # v2 => v1'[f] = v1[f]
      /\ v1'[v2].inode = v1[v2].inode
      /\ Len(v1'[v2].events) = n + 1 /\ DOMAIN v1'[v2].events = 1..n + 1
      /\ v1'[v2].events[n + 1] = event
      /\ \A f \in Files : \A i \in DOMAIN v1[f].events :
           i \in DOMAIN v1'[f].events /\ v1'[f].events[i] = v1[f].events[i]
      /\ History!ToSet(v1'[v2].events) = History!ToSet(v1[v2].events) \cup {event}
      /\ History!OnDisk' = History!OnDisk \cup {event}
      /\ (\A e \in History!OnDisk : e.serial \in Nat /\ e.serial <= v3) /\ event \notin History!OnDisk
  BY <1>1, <1>2, HistoryLogAdds
<1>4. /\ v8' \in [Callers -> History!Calls]
      /\ \A c \in Callers :
           /\ v8'[c].at = v8[c].at /\ v8'[c].key = v8[c].key
           /\ v8'[c].todo = v8[c].todo /\ v8'[c].sig = v8[c].sig
           /\ v8'[c].records = v8[c].records /\ v8'[c].due = v8[c].due
           /\ v8[c].seen \subseteq v8'[c].seen
           /\ History!Active(c) => v8'[c].seen = v8[c].seen \cup {event}
  BY <1>2, <1>3, HistoryObserveIs
<1>5. event.serial = v3 + 1 /\ v3 \in Nat
  BY DEF History!IInv, History!Types
<1> HIDE DEF event
<1>6. History!Types'
  BY <1>1, <1>3, <1>4, <1>5 DEF History!IInv, History!Types
<1>7. n \in Nat /\ DOMAIN v1[v2].events = 1..n
  BY <1>3, HistoryDiskIs DEF History!IInv
<1>8. \A f \in Files : /\ v1'[f].inode = v1[f].inode
                       /\ Len(v1[f].events) \in Nat
                       /\ Len(v1[f].events) <= Len(v1'[f].events)
  <2> SUFFICES ASSUME NEW f \in Files
               PROVE  /\ v1'[f].inode = v1[f].inode /\ Len(v1[f].events) \in Nat
                      /\ Len(v1[f].events) <= Len(v1'[f].events)
    OBVIOUS
  <2>1. Len(v1[f].events) \in Nat
    BY HistoryDiskIs DEF History!IInv
  <2>2. CASE f = v2
    BY <2>1, <2>2, <1>3
  <2>3. CASE f # v2
    BY <2>1, <2>3, <1>3
  <2> QED
    BY <2>2, <2>3
<1>9. \A f \in Files : /\ History!ToSet(v1[f].events) \subseteq History!ToSet(v1'[f].events)
                       /\ History!ToSet(v1[f].events) \subseteq History!OnDisk
                       /\ \A e \in History!ToSet(v1'[f].events) :
                            e \in History!ToSet(v1[f].events) \/ (e = event /\ f = v2)
  <2>1. ASSUME NEW f \in Files
        PROVE  History!ToSet(v1[f].events) \subseteq History!OnDisk
    BY DEF History!OnDisk
  <2>2. ASSUME NEW f \in Files
        PROVE  /\ History!ToSet(v1[f].events) \subseteq History!ToSet(v1'[f].events)
               /\ \A e \in History!ToSet(v1'[f].events) :
                    e \in History!ToSet(v1[f].events) \/ (e = event /\ f = v2)
    <3>1. CASE f = v2
      BY <3>1, <1>3
    <3>2. CASE f # v2
      BY <3>2, <1>3
    <3> QED
      BY <3>1, <3>2
  <2> QED
    BY <2>1, <2>2
<1>10. History!InOrder'
  <2>1. History!InOrder
    BY DEF History!IInv
  <2>2. \A f \in Files : v1'[f].inode > 0 /\ v1'[f].inode <= v4
    BY <2>1, <1>8 DEF History!InOrder
  <2>3. ASSUME NEW f \in Files, NEW i \in DOMAIN v1'[f].events
        PROVE  /\ v1'[f].events[i].serial <= v3 + 1
               /\ \A j \in DOMAIN v1'[f].events :
                    i < j => v1'[f].events[i].serial < v1'[f].events[j].serial
    <3>1. CASE f # v2
      <4>1. v1'[f] = v1[f]
        BY <3>1, <1>3
      <4>2. v1[f].events[i].serial \in Nat /\ v1[f].events[i].serial <= v3
        BY <4>1, <2>3, <2>1, HistoryDiskIs DEF History!InOrder, History!IInv
      <4> QED
        BY <4>1, <4>2, <2>1, <2>3, <1>5 DEF History!InOrder
    <3>2. CASE f = v2
      <4>1. \A k \in 1..n : /\ v1'[f].events[k] = v1[f].events[k]
                            /\ v1[f].events[k].serial \in Nat
                            /\ v1[f].events[k].serial <= v3
        BY <3>2, <2>1, <1>3, <1>7, HistoryDiskIs DEF History!InOrder, History!IInv
      <4>2. \A k, j \in 1..n : k < j => v1[f].events[k].serial < v1[f].events[j].serial
        BY <3>2, <2>1, <1>7 DEF History!InOrder
      <4>3. v1'[f].events[n + 1].serial = v3 + 1
        BY <3>2, <1>3, <1>5
      <4>4. \A k \in 1..n + 1 : k \in 1..n \/ k = n + 1
        BY <1>7
      <4>5. DOMAIN v1'[f].events = 1..n + 1
        BY <3>2, <1>3
      <4>6. v1'[f].events[i].serial <= v3 + 1
        <5>1. CASE i \in 1..n
          BY <5>1, <4>1, <1>5
        <5>2. CASE i = n + 1
          BY <5>2, <4>3, <1>5
        <5> QED
          BY <5>1, <5>2, <2>3, <4>4, <4>5
      <4>7. ASSUME NEW j \in DOMAIN v1'[f].events, i < j
            PROVE  v1'[f].events[i].serial < v1'[f].events[j].serial
        <5>1. i \in 1..n /\ (j \in 1..n \/ j = n + 1)
          BY <4>4, <4>5, <4>7, <2>3, <1>7
        <5>2. CASE j \in 1..n
          BY <5>1, <5>2, <4>1, <4>2, <4>7
        <5>3. CASE j = n + 1
          BY <5>1, <5>3, <4>1, <4>3, <1>5
        <5> QED
          BY <5>1, <5>2, <5>3
      <4> QED
        BY <4>6, <4>7
    <3> QED
      BY <3>1, <3>2
  <2>4. ASSUME NEW f \in Files, NEW g \in Files, f < g, NEW e \in History!ToSet(v1'[f].events)
        PROVE  /\ \A later \in History!ToSet(v1'[g].events) : e.serial < later.serial
               /\ \A s2 \in DOMAIN v6[g].records : e.serial < v6[g].records[s2]
    <3>1. CASE e \in History!ToSet(v1[f].events)
      <4>1. /\ \A later \in History!ToSet(v1[g].events) : e.serial < later.serial
            /\ \A s2 \in DOMAIN v6[g].records : e.serial < v6[g].records[s2]
        BY <3>1, <2>1, <2>4 DEF History!InOrder
      <4>2. e.serial < event.serial
        BY <3>1, <1>3, <1>5, <1>9
      <4> QED
        BY <4>1, <4>2, <1>9
    <3>2. CASE e = event /\ f = v2
      <4>1. v1[g].events = <<>> /\ DOMAIN v6[g].records = {}
        BY <3>2, <2>1, <2>4, HistoryFilesAre DEF History!InOrder
      <4>2. g # v2
        BY <3>2, <2>4, HistoryFilesAre
      <4>3. History!ToSet(v1'[g].events) = {}
        BY <4>1, <4>2, <1>3 DEF History!ToSet
      <4> QED
        BY <4>1, <4>3
    <3> QED
      BY <3>1, <3>2, <1>9, <2>4
  <2>5. \A g \in Files : g > v2 =>
          v1'[g].events = <<>> /\ DOMAIN v6[g].records = {}
    <3>1. \A g \in Files : g > v2 => g # v2
      BY HistoryFilesAre
    <3> QED
      BY <3>1, <2>1, <1>3 DEF History!InOrder
  <2> QED
    BY <2>2, <2>3, <2>4, <2>5, <1>1 DEF History!InOrder
<1>11. \A f \in Files : History!LoaderIsOfTheFile(v6[f], f)'
  <2> SUFFICES ASSUME NEW f \in Files PROVE History!LoaderIsOfTheFile(v6[f], f)'
    OBVIOUS
  <2> DEFINE l == v6[f]
  <2>1. History!LoaderIsOfTheFile(l, f) /\ l.read \in Nat
    BY HistoryLoaderIs DEF History!IInv, History!Types
  <2>2. ASSUME History!Has(l, f)
        PROVE  /\ l.read <= Len(v1'[f].events) /\ History!Within(l.records, History!ToSet(v1'[f].events))
               /\ \A i \in 1..l.read : History!Covers(l.records, {v1'[f].events[i]})
    <3>1. l.read <= Len(v1[f].events) /\ History!Within(l.records, History!ToSet(v1[f].events))
      BY <2>2 DEF History!Has
    <3>2. History!Within(l.records, History!ToSet(v1'[f].events))
      BY <3>1, <1>9 DEF History!Within
    <3>3. l.read <= Len(v1'[f].events)
      BY <3>1, <2>1, <1>8, <1>3, <1>7
    <3>4. ASSUME NEW i \in 1..l.read PROVE History!Covers(l.records, {v1'[f].events[i]})
      <4>1. i \in DOMAIN v1[f].events
        BY <3>1, <2>1, <1>8, HistoryDiskIs DEF History!IInv
      <4> QED
        BY <4>1, <2>2, <1>3 DEF History!Has
    <3> QED
      BY <3>2, <3>3, <3>4
  <2> QED
    BY <2>1, <2>2, <1>1, <1>8 DEF History!LoaderIsOfTheFile, History!Has
<1>12. ASSUME NEW key \in History!Keys, History!IsPast(key)
       PROVE  /\ \A f \in Files :
                   \/ key[f].inode < v1'[f].inode
                   \/ key[f].inode = v1'[f].inode /\ key[f].size <= Len(v1'[f].events)
              /\ key # [f \in Files |-> History!Sig(f)']
  BY <1>3, <1>6, <1>7, <1>8, <1>12, HistorySignaturesAdvance DEF History!IInv
<1>13. \A c \in Callers : History!Active(c)' <=> History!Active(c)
  BY <1>4 DEF History!Active
<1>14. \A c \in Callers : History!Active(c) =>
         /\ v8[c].key \in History!Keys /\ History!IsPast(v8[c].key) /\ event \notin v8[c].due
         /\ v8[c].due \subseteq History!OnDisk /\ History!OnDisk \subseteq v8[c].seen
  BY <1>3, HistoryCallIs DEF History!IInv, History!CallIsOfTheFiles
<1>15. \A c \in Callers : History!CallIsOfTheFiles(c)'
  <2>1. ASSUME NEW c \in Callers, History!Active(c)
        PROVE  History!IsPast(v8[c].key)' /\ ~ History!IsNow(v8[c].key)'
    BY <2>1, <1>4, <1>12, <1>14 DEF History!IsPast, History!IsNow
  <2>2. ASSUME NEW c \in Callers, History!Active(c)
        PROVE  v8'[c].due \subseteq History!OnDisk' /\ History!OnDisk' \subseteq v8'[c].seen
    BY <2>2, <1>3, <1>4, <1>14
  <2>3. ASSUME NEW c \in Callers, NEW d \in Callers, History!Active(c), History!Active(d),
               v8'[c].key = v8'[d].key
        PROVE  v8'[c].due = v8'[d].due /\ v8'[c].seen = v8'[d].seen
    <3>1. v8[c].key = v8[d].key
      BY <2>3, <1>4
    <3>2. v8[c].due = v8[d].due /\ v8[c].seen = v8[d].seen
      BY <2>3, <3>1 DEF History!IInv, History!CallIsOfTheFiles
    <3> QED
      BY <2>3, <3>2, <1>4
  <2> QED
    BY <2>1, <2>2, <2>3, <1>13 DEF History!CallIsOfTheFiles
<1>16. \A c \in Callers : History!HolderIsRight(c)'
  <2> SUFFICES ASSUME NEW c \in Callers PROVE History!HolderIsRight(c)'
    OBVIOUS
  <2>1. History!HolderIsRight(c)
    BY DEF History!IInv
  <2>2. v5' = c <=> v8'[c].at \in {"file", "read"}
    BY <2>1, <1>1, <1>4 DEF History!HolderIsRight
  <2>3. ASSUME v5 = c, NEW g \in Files \ History!ToSet(v8[c].todo)
        PROVE  /\ History!Within(v6[g].records, v8'[c].seen)
               /\ History!Covers(v6[g].records, v8'[c].due \cap History!ToSet(v1'[g].events))
    <3>1. /\ History!Within(v6[g].records, v8[c].seen)
          /\ History!Covers(v6[g].records, v8[c].due \cap History!ToSet(v1[g].events))
      BY <2>1, <2>3 DEF History!HolderIsRight
    <3>2. History!Active(c)
      BY <2>1, <2>3 DEF History!HolderIsRight, History!Active
    <3>3. \A e \in v8'[c].due \cap History!ToSet(v1'[g].events) :
            e \in v8[c].due \cap History!ToSet(v1[g].events)
      BY <3>2, <1>4, <1>9, <1>14
    <3>4. v8[c].seen \subseteq v8'[c].seen
      BY <1>4
    <3> QED
      BY <3>1, <3>3, <3>4 DEF History!Within, History!Covers
  <2>4. ASSUME v8[c].at = "read"
        PROVE  LET f == Head(v8[c].todo)
               IN  /\ v8[c].todo # <<>> /\ v8[c].sig.inode <= v1'[f].inode
                   /\ v8[c].sig.inode = v1'[f].inode =>
                        v8[c].sig.size <= Len(v1'[f].events)
                   /\ v6[f].sig.inode = v8[c].sig.inode =>
                        History!Within(v6[f].records, v8'[c].seen)
                   /\ \A i \in DOMAIN v1'[f].events : v1'[f].events[i] \in v8[c].due =>
                        v8[c].sig.inode = v1'[f].inode /\ i <= v8[c].sig.size
    <3> DEFINE f == Head(v8[c].todo)
               sig == v8[c].sig
    <3>1. /\ v8[c].todo # <<>> /\ sig.inode <= v1[f].inode
          /\ sig.inode = v1[f].inode => sig.size <= Len(v1[f].events)
          /\ v6[f].sig.inode = sig.inode => History!Within(v6[f].records, v8[c].seen)
          /\ \A i \in DOMAIN v1[f].events : v1[f].events[i] \in v8[c].due =>
               sig.inode = v1[f].inode /\ i <= sig.size
      BY <2>1, <2>4 DEF History!HolderIsRight
    <3>2. f \in Files
      BY <3>1, HistoryTodoIs
    <3>3. History!Active(c)
      BY <2>4 DEF History!Active
    <3> HIDE DEF f
    <3>4. sig.inode <= v1'[f].inode
      BY <3>1, <3>2, <1>8
    <3>5. sig.inode = v1'[f].inode => sig.size <= Len(v1'[f].events)
      <4>1. sig.size \in Int /\ Len(v1'[f].events) \in Int
        BY <3>2, <1>3, <1>7, <1>8, HistoryCallIs DEF History!IInv
      <4> QED
        BY <4>1, <3>1, <3>2, <1>8
    <3>6. v6[f].sig.inode = sig.inode => History!Within(v6[f].records, v8'[c].seen)
      BY <3>1, <1>4 DEF History!Within
    <3>7. ASSUME NEW i \in DOMAIN v1'[f].events, v1'[f].events[i] \in v8[c].due
          PROVE  sig.inode = v1'[f].inode /\ i <= sig.size
      <4>1. v1'[f].events[i] # event
        BY <3>3, <3>7, <1>14
      <4>2. i \in DOMAIN v1[f].events
        <5>1. CASE f = v2
          BY <5>1, <3>7, <4>1, <1>3, <1>7
        <5>2. CASE f # v2
          BY <5>2, <3>2, <3>7, <1>3
        <5> QED
          BY <5>1, <5>2
      <4> QED
        BY <4>2, <3>1, <3>2, <3>7, <1>3, <1>8
    <3> QED
      BY <3>1, <3>4, <3>5, <3>6, <3>7 DEF f
  <2>5. /\ v8'[c].at = v8[c].at /\ v8'[c].todo = v8[c].todo
        /\ v8'[c].sig = v8[c].sig /\ v8'[c].due = v8[c].due
        /\ v5' = v5 /\ v6' = v6
    BY <1>1, <1>4
  <2> QED
    BY <2>2, <2>3, <2>4, <2>5 DEF History!HolderIsRight
<1>17. \A c \in Callers : History!AnswerIsRight(c)'
  BY <1>4 DEF History!IInv, History!AnswerIsRight, History!Within
<1>18. History!KeptIsRight'
  <2>1. History!KeptIsRight /\ v7.key \in History!Keys
    BY DEF History!IInv, History!Types
  <2>2. v7.key = History!NoKey \/ (History!IsPast(v7.key)' /\ ~ History!IsNow(v7.key)')
    BY <2>1, <1>1, <1>12 DEF History!KeptIsRight, History!IsPast, History!IsNow
  <2>3. ~ History!IsNow(v7.key)'
    <3>1. CASE v7.key = History!NoKey
      BY <3>1, <1>1, HistoryFilesAre DEF History!IsNow, History!NoKey
    <3> QED
      BY <3>1, <2>2
  <2>4. ASSUME NEW c \in Callers, v8'[c].at = "signed", v8'[c].key = v7.key
        PROVE  History!Covers(v7.records, v8'[c].due) /\ History!Within(v7.records, v8'[c].seen)
    BY <2>1, <2>4, <1>4 DEF History!KeptIsRight, History!At, History!Within
  <2> QED
    BY <2>2, <2>3, <2>4, <1>1 DEF History!KeptIsRight, History!At
<1> QED
  BY <1>6, <1>10, <1>11, <1>15, <1>16, <1>17, <1>18 DEF History!IInv

LEMMA HistoryReplaceKeeps == ASSUME History!IInv, History!Replace PROVE History!IInv'
<1> DEFINE gone == History!ToSet(v1[v2].events)
           new == [inode |-> v4 + 1, events |-> <<>>]
<1>1. /\ v4' = v4 + 1 /\ UNCHANGED <<v2, v3, v5, v6, v7>>
      /\ v1' = [v1 EXCEPT ![v2] = new]
      /\ v8' = [c \in Callers |-> [v8[c] EXCEPT !.due = @ \ gone]]
  BY DEF History!Replace
<1>2. v2 \in Files /\ v4 \in Nat /\ v1[v2].inode \in Nat
  BY HistoryDiskIs DEF History!IInv, History!Types
<1>3. new \in [inode : Nat, events : Seq(History!Events)] /\ new.inode = v4 + 1 /\ new.events = <<>>
  BY <1>2
<1>4. v1'[v2] = new /\ \A f \in Files : f # v2 => v1'[f] = v1[f]
  BY <1>1, <1>2 DEF History!IInv, History!Types
<1>5. /\ v1'[v2].inode = v4 + 1 /\ v1'[v2].events = <<>>
      /\ History!ToSet(v1'[v2].events) = {} /\ DOMAIN v1'[v2].events = {}
      /\ Len(v1'[v2].events) = 0
  BY <1>3, <1>4 DEF History!ToSet
<1> HIDE DEF new, gone
<1>6. ASSUME NEW c \in Callers
      PROVE  /\ v8'[c] \in History!Calls
             /\ v8'[c].at = v8[c].at /\ v8'[c].key = v8[c].key
             /\ v8'[c].todo = v8[c].todo /\ v8'[c].sig = v8[c].sig
             /\ v8'[c].records = v8[c].records /\ v8'[c].seen = v8[c].seen
             /\ v8'[c].due = v8[c].due \ gone
  <2>1. v8[c] \in History!Calls /\ v8[c].due \subseteq History!Events
    BY HistoryCallIs DEF History!IInv
  <2>2. v8'[c] = [v8[c] EXCEPT !.due = v8[c].due \ gone]
    BY <1>1
  <2>3. v8[c].due \ gone \in SUBSET History!Events
    BY <2>1
  <2> QED
    BY <2>1, <2>2, <2>3 DEF History!Calls
<1>7. v8' \in [Callers -> History!Calls]
  BY <1>1, <1>6
<1>8. History!Types'
  BY <1>1, <1>2, <1>3, <1>7 DEF History!IInv, History!Types
<1>9. \A f \in Files : v1[f].inode <= v4 /\ v1[f].inode \in Nat
  BY HistoryDiskIs DEF History!IInv, History!InOrder
<1>10. \A f \in Files : \/ v1[f].inode < v1'[f].inode /\ f = v2
                        \/ v1'[f] = v1[f] /\ f # v2
  BY <1>2, <1>4, <1>5, <1>9
<1>11. \A f \in Files : /\ History!ToSet(v1'[f].events) \subseteq History!ToSet(v1[f].events)
                        /\ v1[f].inode <= v1'[f].inode
  <2> SUFFICES ASSUME NEW f \in Files
               PROVE  /\ History!ToSet(v1'[f].events) \subseteq History!ToSet(v1[f].events)
                      /\ v1[f].inode <= v1'[f].inode
    OBVIOUS
  <2>1. CASE f = v2
    BY <2>1, <1>2, <1>5, <1>9
  <2>2. CASE f # v2
    BY <2>2, <1>4, <1>9
  <2> QED
    BY <2>1, <2>2
<1>12. History!OnDisk' \subseteq History!OnDisk /\ History!OnDisk \ gone \subseteq History!OnDisk'
  <2>1. History!OnDisk' = UNION {History!ToSet(v1'[f].events) : f \in Files}
    BY DEF History!OnDisk
  <2>2. \A f \in Files : f # v2 => History!ToSet(v1'[f].events) = History!ToSet(v1[f].events)
    BY <1>4
  <2> QED
    BY <2>1, <2>2, <1>11 DEF History!OnDisk, gone
<1>13. History!InOrder'
  <2>1. History!InOrder
    BY DEF History!IInv
  <2>2. \A f \in Files : v1'[f].inode > 0 /\ v1'[f].inode <= v4 + 1
    <3> SUFFICES ASSUME NEW f \in Files
                 PROVE  v1'[f].inode > 0 /\ v1'[f].inode <= v4 + 1
      OBVIOUS
    <3>1. CASE f = v2
      BY <3>1, <1>2, <1>5
    <3>2. CASE f # v2
      BY <3>2, <2>1, <1>2, <1>4, <1>9 DEF History!InOrder
    <3> QED
      BY <3>1, <3>2
  <2>3. ASSUME NEW f \in Files, NEW i \in DOMAIN v1'[f].events
        PROVE  /\ v1'[f].events[i].serial <= v3
               /\ \A j \in DOMAIN v1'[f].events :
                    i < j => v1'[f].events[i].serial < v1'[f].events[j].serial
    BY <2>1, <2>3, <1>4, <1>5 DEF History!InOrder
  <2>4. ASSUME NEW f \in Files, NEW g \in Files, f < g, NEW e \in History!ToSet(v1'[f].events)
        PROVE  /\ \A later \in History!ToSet(v1'[g].events) : e.serial < later.serial
               /\ \A s \in DOMAIN v6[g].records : e.serial < v6[g].records[s]
    BY <2>1, <2>4, <1>11 DEF History!InOrder
  <2>5. \A g \in Files : g > v2 =>
          v1'[g].events = <<>> /\ DOMAIN v6[g].records = {}
    BY <2>1, <1>4, <1>5 DEF History!InOrder
  <2> QED
    BY <2>2, <2>3, <2>4, <2>5, <1>1 DEF History!InOrder
<1>14. \A f \in Files : History!LoaderIsOfTheFile(v6[f], f)'
  <2> SUFFICES ASSUME NEW f \in Files PROVE History!LoaderIsOfTheFile(v6[f], f)'
    OBVIOUS
  <2>1. /\ History!LoaderIsOfTheFile(v6[f], f)
        /\ v6[f].open \in Int /\ v6[f].sig.inode \in Int
    BY HistoryLoaderIs DEF History!IInv, History!Types
  <2>2. CASE f = v2
    <3>1. v6[f].sig.inode <= v6[f].open /\ v6[f].open <= v1[f].inode
      BY <2>1 DEF History!LoaderIsOfTheFile
    <3>2. v1'[f].inode = v4 + 1
      BY <2>2, <1>5
    <3>3. /\ v6[f].sig.inode <= v6[f].open /\ v6[f].open <= v1'[f].inode
          /\ v6[f].open # v1'[f].inode /\ v6[f].sig.inode # v1'[f].inode
      BY <2>1, <3>1, <3>2, <1>2, <1>9
    <3> QED
      BY <3>3, <1>1 DEF History!LoaderIsOfTheFile
  <2>3. CASE f # v2
    BY <2>1, <2>3, <1>1, <1>4 DEF History!LoaderIsOfTheFile, History!Has
  <2> QED
    BY <2>2, <2>3
<1>15. ASSUME NEW key \in History!Keys, History!IsPast(key)
       PROVE  /\ \A f \in Files :
                   \/ key[f].inode < v1'[f].inode
                   \/ key[f].inode = v1'[f].inode /\ key[f].size <= Len(v1'[f].events)
              /\ key # [f \in Files |-> History!Sig(f)']
  <2>1. \A f \in Files : \/ v1[f].inode < v1'[f].inode
                         \/ /\ v1'[f].inode = v1[f].inode
                            /\ Len(v1[f].events) <= Len(v1'[f].events)
    <3>1. \A f \in Files : Len(v1[f].events) \in Nat
      BY HistoryDiskIs DEF History!IInv
    <3> QED
      BY <3>1, <1>10
  <2>2. v1[v2].inode < v1'[v2].inode
    BY <1>2, <1>10
  <2> QED
    BY <1>2, <1>8, <1>15, <2>1, <2>2, HistorySignaturesAdvance DEF History!IInv
<1>16. \A c \in Callers : History!Active(c)' <=> History!Active(c)
  BY <1>6 DEF History!Active
<1>17. \A c \in Callers : History!Active(c) =>
         /\ v8[c].key \in History!Keys /\ History!IsPast(v8[c].key)
         /\ v8[c].due \subseteq History!OnDisk /\ History!OnDisk \subseteq v8[c].seen
  BY HistoryCallIs DEF History!IInv, History!CallIsOfTheFiles
<1>18. \A c \in Callers : History!CallIsOfTheFiles(c)'
  <2>1. ASSUME NEW c \in Callers, History!Active(c)
        PROVE  History!IsPast(v8[c].key)' /\ ~ History!IsNow(v8[c].key)'
    BY <2>1, <1>6, <1>15, <1>17 DEF History!IsPast, History!IsNow
  <2>2. ASSUME NEW c \in Callers, History!Active(c)
        PROVE  v8'[c].due \subseteq History!OnDisk' /\ History!OnDisk' \subseteq v8'[c].seen
    BY <2>2, <1>6, <1>12, <1>17
  <2>3. ASSUME NEW c \in Callers, NEW d \in Callers, History!Active(c), History!Active(d),
               v8'[c].key = v8'[d].key
        PROVE  v8'[c].due = v8'[d].due /\ v8'[c].seen = v8'[d].seen
    <3>1. v8[c].key = v8[d].key
      BY <2>3, <1>6
    <3>2. v8[c].due = v8[d].due /\ v8[c].seen = v8[d].seen
      BY <2>3, <3>1 DEF History!IInv, History!CallIsOfTheFiles
    <3> QED
      BY <3>2, <1>6
  <2> QED
    BY <2>1, <2>2, <2>3, <1>16 DEF History!CallIsOfTheFiles
<1>19. \A c \in Callers : History!HolderIsRight(c)'
  <2> SUFFICES ASSUME NEW c \in Callers PROVE History!HolderIsRight(c)'
    OBVIOUS
  <2>1. History!HolderIsRight(c)
    BY DEF History!IInv
  <2>2. v5' = c <=> v8'[c].at \in {"file", "read"}
    BY <2>1, <1>1, <1>6 DEF History!HolderIsRight
  <2>3. ASSUME v5 = c, NEW g \in Files \ History!ToSet(v8[c].todo)
        PROVE  /\ History!Within(v6[g].records, v8[c].seen)
               /\ History!Covers(v6[g].records, v8'[c].due \cap History!ToSet(v1'[g].events))
    <3>1. /\ History!Within(v6[g].records, v8[c].seen)
          /\ History!Covers(v6[g].records, v8[c].due \cap History!ToSet(v1[g].events))
      BY <2>1, <2>3 DEF History!HolderIsRight
    <3>2. \A e \in v8'[c].due \cap History!ToSet(v1'[g].events) :
            e \in v8[c].due \cap History!ToSet(v1[g].events)
      BY <1>6, <1>11
    <3> QED
      BY <3>1, <3>2 DEF History!Covers
  <2>4. ASSUME v8[c].at = "read"
        PROVE  LET f == Head(v8[c].todo)
               IN  /\ v8[c].todo # <<>> /\ v8[c].sig.inode <= v1'[f].inode
                   /\ v8[c].sig.inode = v1'[f].inode =>
                        v8[c].sig.size <= Len(v1'[f].events)
                   /\ v6[f].sig.inode = v8[c].sig.inode =>
                        History!Within(v6[f].records, v8[c].seen)
                   /\ \A i \in DOMAIN v1'[f].events : v1'[f].events[i] \in v8'[c].due =>
                        v8[c].sig.inode = v1'[f].inode /\ i <= v8[c].sig.size
    <3> DEFINE f == Head(v8[c].todo)
               sig == v8[c].sig
    <3>1. /\ v8[c].todo # <<>> /\ sig.inode <= v1[f].inode
          /\ sig.inode = v1[f].inode => sig.size <= Len(v1[f].events)
          /\ v6[f].sig.inode = sig.inode => History!Within(v6[f].records, v8[c].seen)
          /\ \A i \in DOMAIN v1[f].events : v1[f].events[i] \in v8[c].due =>
               sig.inode = v1[f].inode /\ i <= sig.size
      BY <2>1, <2>4 DEF History!HolderIsRight
    <3>2. f \in Files /\ sig.inode \in Int
      BY <3>1, HistoryTodoIs, HistoryCallIs DEF History!IInv
    <3> HIDE DEF f
    <3>3. CASE f = v2
      <4>1. v1'[f].inode = v4 + 1
        BY <3>3, <1>5
      <4>2. sig.inode < v1'[f].inode
        BY <4>1, <3>1, <3>2, <1>2, <1>9
      <4>3. DOMAIN v1'[f].events = {}
        BY <3>3, <1>5
      <4> QED
        BY <4>2, <4>3, <3>1, <3>2, <4>1, <1>2 DEF f
    <3>4. CASE f # v2
      <4>1. v1'[f] = v1[f]
        BY <3>2, <3>4, <1>4
      <4> QED
        BY <4>1, <3>1, <1>6 DEF f
    <3> QED
      BY <3>3, <3>4
  <2>5. /\ v8'[c].at = v8[c].at /\ v8'[c].todo = v8[c].todo
        /\ v8'[c].sig = v8[c].sig /\ v8'[c].seen = v8[c].seen
        /\ v5' = v5 /\ v6' = v6
    BY <1>1, <1>6
  <2> QED
    BY <2>2, <2>3, <2>4, <2>5 DEF History!HolderIsRight
<1>20. \A c \in Callers : History!AnswerIsRight(c)'
  BY <1>6 DEF History!IInv, History!AnswerIsRight, History!Covers
<1>21. History!KeptIsRight'
  <2>1. History!KeptIsRight /\ v7.key \in History!Keys
    BY DEF History!IInv, History!Types
  <2>2. v7.key = History!NoKey \/ (History!IsPast(v7.key)' /\ ~ History!IsNow(v7.key)')
    BY <2>1, <1>1, <1>15 DEF History!KeptIsRight, History!IsPast, History!IsNow
  <2>3. ~ History!IsNow(v7.key)'
    <3>1. CASE v7.key = History!NoKey
      BY <3>1, <1>1, HistoryFilesAre DEF History!IsNow, History!NoKey
    <3> QED
      BY <3>1, <2>2
  <2>4. ASSUME NEW c \in Callers, v8'[c].at = "signed", v8'[c].key = v7.key
        PROVE  History!Covers(v7.records, v8'[c].due) /\ History!Within(v7.records, v8'[c].seen)
    BY <2>1, <2>4, <1>6 DEF History!KeptIsRight, History!At, History!Covers
  <2> QED
    BY <2>2, <2>3, <2>4, <1>1 DEF History!KeptIsRight, History!At
<1> QED
  BY <1>8, <1>13, <1>14, <1>18, <1>19, <1>20, <1>21 DEF History!IInv

\* Every step keeps the invariant.
LEMMA HistoryStepPreserves == ASSUME History!IInv, [History!Next]_History!vars PROVE History!IInv'
<1>1. CASE UNCHANGED History!vars
  <2>1. UNCHANGED <<v1, v2, v3, v4, v5, v6, v7, v8>>
    BY <1>1 DEF History!vars
  <2>2. \A c \in Callers : History!CallIsOfTheFiles(c)'
    BY <2>1, HistoryPastStands DEF History!IInv, History!CallIsOfTheFiles, History!Active
  <2>3. \A c \in Callers : History!HolderIsRight(c)' /\ History!AnswerIsRight(c)'
    BY <2>1 DEF History!IInv, History!HolderIsRight, History!AnswerIsRight
  <2>4. History!KeptIsRight'
    BY <2>1, HistoryPastStands DEF History!IInv, History!KeptIsRight, History!At
  <2>5. History!Types'
    BY <2>1 DEF History!IInv, History!Types
  <2> QED
    BY <2>1, <2>2, <2>3, <2>4, <2>5, HistoryFilesStand DEF History!IInv
<1>2. CASE History!Next
  BY <1>2, HistoryLogKeeps, HistoryNextFileKeeps, HistoryReplaceKeeps, HistorySignKeeps,
     HistoryLookUpKeeps, HistoryStatFileKeeps,
     HistoryReadFileKeeps, HistoryMergeKeeps, HistoryStoreKeeps,
        HistoryAnswerKeeps DEF History!Next
<1> QED
  BY <1>1, <1>2

\* What the invariant promises of an answer.
LEMMA HistoryAnswersAreTheFiles == ASSUME History!IInv PROVE History!HistoryIsTheFiles
BY DEF History!IInv, History!AnswerIsRight, History!HistoryIsTheFiles, History!At

-----------------------------------------------------------------------------
\* Database (DashboardDatabase): a row and the event that explains it are one transaction.
\* Variables: v1 files, v2 row, v3 events, v4 checkpoint, v5 available, v6 thread,
\*   v7 synced.

LEMMA DatabaseInitIInv == Database!Init => Database!IInv
BY DEF Database!Init, Database!IInv, Database!RowTypes, Database!Carried,
   Database!EventsLeadToTheRow, Database!AtRest, Database!Nothing

\* The event of a commit is the last one, and says what the row becomes.
LEMMA DatabaseCommitKeepsTheFeed ==
  ASSUME Database!IInv, NEW t \in Database!Threads, Database!Commit(t)
  PROVE  Database!RowTypes' /\ Database!EventsLeadToTheRow'
<1> DEFINE old == v6[t].old
           new == v6[t].shows
           e == [from |-> old, to |-> new]
<1>1. old \in 0..3 /\ new \in 1..3
  BY DEF Database!Commit, Database!IInv, Database!Carried, Database!Nothing
<1>2. CASE t \notin Syncers
  BY <1>2 DEF Database!Commit, Database!IInv, Database!RowTypes, Database!EventsLeadToTheRow
<1>3. CASE t \in Syncers
  <2>1. /\ v2' = Database!Updated(old, new) /\ v3' = v3 \o Database!Noted(old, new)
        /\ v1' = v1 /\ ~(old = Database!Nothing /\ v2 # Database!Nothing)
    BY <1>3 DEF Database!Commit, Database!Conflict
  <2>2. v2' \in 0..3 /\ v2 \in 0..3 /\ v3 \in Seq([from : 1..3, to : 1..3])
    BY <2>1, <1>1 DEF Database!IInv, Database!RowTypes, Database!Updated
  <2>3. CASE old # Database!Nothing /\ old # new
    <3>1. Database!Noted(old, new) = <<e>> /\ v2' = new /\ e \in [from : 1..3, to : 1..3]
      BY <2>1, <2>3, <1>1 DEF Database!Noted, Database!Updated, Database!Nothing
    <3>2. v3' = Append(v3, e)
      BY <2>1, <2>2, <3>1
    <3>3. v3' \in Seq([from : 1..3, to : 1..3]) /\ v3' # <<>>
          /\ v3'[Len(v3')] = e
      BY <2>2, <3>1, <3>2, AppendProperties
    <3> QED
      BY <2>1, <2>2, <3>1, <3>3 DEF Database!IInv, Database!RowTypes,
         Database!EventsLeadToTheRow, Database!Last
  <2>4. CASE old = Database!Nothing \/ old = new
    <3>1. Database!Noted(old, new) = <<>>
      BY <2>4 DEF Database!Noted
    <3>2. v3' = v3
      BY <2>1, <2>2, <3>1, ConcatEmptySeq
    <3>3. ASSUME v3 # <<>> PROVE v2 = Database!Last(v3).to /\ v2 # Database!Nothing
      <4>1. Len(v3) \in 1..Len(v3)
        BY <2>2, <3>3, EmptySeq
      <4>2. v3[Len(v3)] \in [from : 1..3, to : 1..3]
        BY <2>2, <4>1, ElementOfSeq
      <4> QED
        BY <4>2, <3>3 DEF Database!IInv, Database!EventsLeadToTheRow, Database!Last,
           Database!Nothing
    <3>4. v3 # <<>> => v2' = v2
      BY <2>1, <2>4, <3>3 DEF Database!Updated
    <3> QED
      BY <2>1, <2>2, <3>2, <3>3, <3>4 DEF Database!IInv, Database!RowTypes,
         Database!EventsLeadToTheRow
  <2> QED
    BY <2>3, <2>4
<1> QED
  BY <1>2, <1>3

Works == [at : {"rest", "check", "open", "read", "failed"},
          shows : 0..3, old : 0..3, new : BOOLEAN]

\* One thread goes on.
LEMMA DatabaseGoesOn ==
  ASSUME Database!Carried, NEW t \in Database!Threads, NEW w \in Works,
         v6' = [v6 EXCEPT ![t] = w],
         w.at \in {"check", "open", "read"} => w.shows # Database!Nothing
  PROVE  Database!Carried'
BY DEF Database!Carried, Works

\* What is written of a thread's work when some fields of it change.
LEMMA DatabaseMoved ==
  ASSUME NEW r \in Works, NEW a
  PROVE  [r EXCEPT !.at = a] = [at |-> a, shows |-> r.shows, old |-> r.old, new |-> r.new]
BY DEF Works

LEMMA DatabaseMovedAndShown ==
  ASSUME NEW r \in Works, NEW a, NEW s
  PROVE  [r EXCEPT !.at = a, !.shows = s]
           = [at |-> a, shows |-> s, old |-> r.old, new |-> r.new]
<1> DEFINE q == [at |-> a, shows |-> r.shows, old |-> r.old, new |-> r.new]
<1>1. [r EXCEPT !.at = a] = q
  BY DatabaseMoved
<1>2. [q EXCEPT !.shows = s] = [at |-> a, shows |-> s, old |-> r.old, new |-> r.new]
  OBVIOUS
<1> HIDE DEF q
<1> QED
  BY <1>1, <1>2, Zenon

LEMMA DatabaseStepPreserves ==
  ASSUME Database!IInv, [Database!Next]_Database!vars
  PROVE  Database!IInv'
<1>1. /\ Database!AtRest \in Works /\ Database!AtRest.at = "rest" /\ Database!AtRest.shows = 0 /\ Database!AtRest.old = 0
      /\ Database!AtRest.new = FALSE
  BY DEF Works, Database!AtRest, Database!Nothing
<1>r. v6 \in [Database!Threads -> Works]
  BY DEF Database!IInv, Database!Carried, Works
<1> USE DEF Works
<1>2. CASE Database!Proceed
  BY <1>2 DEF Database!Proceed, Database!IInv, Database!RowTypes, Database!Carried,
     Database!EventsLeadToTheRow
<1>3. ASSUME NEW t \in Database!Threads, Database!Summarise(t) PROVE Database!IInv'
  <2> DEFINE w == [at |-> "check", shows |-> v1, old |-> 0, new |-> FALSE]
  <2>1. w \in Works /\ w.shows # Database!Nothing
    BY DEF Database!IInv, Database!RowTypes, Database!Nothing
  <2>2. v6' = [v6 EXCEPT ![t] = w] /\ UNCHANGED <<v1, v2, v3>>
    <3>1. [Database!AtRest EXCEPT !.at = "check", !.shows = v1] = w
      <4>1. [Database!AtRest EXCEPT !.at = "check", !.shows = v1]
              = [at |-> "check", shows |-> v1, old |-> Database!AtRest.old, new |-> Database!AtRest.new]
        BY <1>1, DatabaseMovedAndShown, Zenon
      <4> QED
        BY <4>1, <1>1
    <3>2. /\ v6' = [v6 EXCEPT ![t] = [Database!AtRest EXCEPT !.at = "check", !.shows = v1]]
          /\ UNCHANGED <<v1, v2, v3>>
      BY <1>3 DEF Database!Summarise
    <3> HIDE DEF w
    <3> QED
      BY <3>1, <3>2, Zenon
  <2>3. Database!Carried'
    BY <2>1, <2>2, DatabaseGoesOn DEF Database!IInv
  <2> QED
    BY <2>2, <2>3 DEF Database!IInv, Database!RowTypes, Database!EventsLeadToTheRow
<1>4. ASSUME NEW t \in Database!Threads, Database!Check(t) PROVE Database!IInv'
  <2> DEFINE w == IF v5
                  THEN [at |-> "open", shows |-> v6[t].shows, old |-> v6[t].old,
                        new |-> v6[t].new]
                  ELSE [at |-> "rest", shows |-> 0, old |-> 0, new |-> FALSE]
  <2>1. w \in Works /\ (w.at \in {"check", "open", "read"} => w.shows # Database!Nothing)
    BY <1>4 DEF Database!Check, Database!IInv, Database!Carried, Database!Nothing
  <2>2. v6[t] \in Works
    BY <1>r
  <2>3. v6' = [v6 EXCEPT ![t] = w] /\ UNCHANGED <<v1, v2, v3>>
    <3>1. [v6[t] EXCEPT !.at = "open"] = [at |-> "open", shows |-> v6[t].shows,
                                             old |-> v6[t].old, new |-> v6[t].new]
      BY <2>2, DatabaseMoved, Zenon
    <3>2. Database!AtRest = [at |-> "rest", shows |-> 0, old |-> 0, new |-> FALSE]
      BY DEF Database!AtRest, Database!Nothing
    <3>3. CASE v5
      BY <1>4, <3>1, <3>3, Zenon DEF Database!Check
    <3>4. CASE ~v5
      BY <1>4, <3>2, <3>4, Zenon DEF Database!Check
    <3> QED
      BY <3>3, <3>4
  <2>4. Database!Carried'
    BY <2>1, <2>3, DatabaseGoesOn DEF Database!IInv
  <2> QED
    BY <2>3, <2>4 DEF Database!IInv, Database!RowTypes, Database!EventsLeadToTheRow
<1>5. ASSUME NEW t \in Database!Threads, Database!OpenFails(t) PROVE Database!IInv'
  <2> DEFINE w == [at |-> "failed", shows |-> 0, old |-> 0, new |-> FALSE]
  <2>1. v6' = [v6 EXCEPT ![t] = w] /\ UNCHANGED <<v1, v2, v3>>
    <3>1. [Database!AtRest EXCEPT !.at = "failed"] = w
      <4>1. [Database!AtRest EXCEPT !.at = "failed"] = [at |-> "failed", shows |-> Database!AtRest.shows,
                                               old |-> Database!AtRest.old, new |-> Database!AtRest.new]
        BY <1>1, DatabaseMoved, Zenon
      <4> QED
        BY <4>1, <1>1
    <3> HIDE DEF w
    <3> QED
      BY <1>5, <3>1 DEF Database!OpenFails
  <2>2. Database!Carried'
    <3>1. w \in Works /\ w.at = "failed"
      OBVIOUS
    <3> HIDE DEF w
    <3> QED
      BY <2>1, <3>1, DatabaseGoesOn DEF Database!IInv
  <2> QED
    BY <2>1, <2>2 DEF Database!IInv, Database!RowTypes, Database!EventsLeadToTheRow
<1>6. ASSUME NEW t \in Database!Threads, Database!Read(t) PROVE Database!IInv'
  <2> DEFINE n == ~v4
             w == [at |-> "read", shows |-> v6[t].shows, old |-> v2, new |-> n]
  <2>1. n \in BOOLEAN
    OBVIOUS
  <2>2. w \in Works /\ w.shows # Database!Nothing
    BY <2>1, <1>6 DEF Database!Read, Database!IInv, Database!RowTypes, Database!Carried,
       Database!Nothing
  <2>3. v6[t] \in Works /\ v2 \in 0..3
    BY <1>r DEF Database!IInv, Database!RowTypes
  <2>4. v6' = [v6 EXCEPT ![t] = w] /\ UNCHANGED <<v1, v2, v3>>
    <3> HIDE DEF n
    <3>1. [v6[t] EXCEPT !.at = "read", !.old = v2, !.new = n] = w
      <4> DEFINE q == [at |-> "read", shows |-> v6[t].shows, old |-> v6[t].old,
                       new |-> v6[t].new]
                 p == [at |-> "read", shows |-> v6[t].shows, old |-> v2,
                       new |-> v6[t].new]
      <4>1. [v6[t] EXCEPT !.at = "read"] = q
        BY <2>3, DatabaseMoved, Zenon
      <4>2. [q EXCEPT !.old = v2] = p
        OBVIOUS
      <4>3. [p EXCEPT !.new = n] = w
        OBVIOUS
      <4> HIDE DEF q, p, w
      <4> QED
        BY <4>1, <4>2, <4>3, Zenon
    <3>2. v6' = [v6 EXCEPT ![t] = [v6[t] EXCEPT !.at = "read", !.old = v2,
                                                           !.new = n]]
      BY <1>6, <1>r DEF Database!Read, n
    <3>3. UNCHANGED <<v1, v2, v3>>
      BY <1>6 DEF Database!Read
    <3> HIDE DEF w
    <3> QED
      BY <3>1, <3>2, <3>3, Zenon
  <2>5. Database!Carried'
    BY <2>2, <2>4, DatabaseGoesOn DEF Database!IInv
  <2> QED
    BY <2>4, <2>5 DEF Database!IInv, Database!RowTypes, Database!EventsLeadToTheRow
<1>7. ASSUME NEW t \in Database!Threads, Database!Commit(t) PROVE Database!IInv'
  <2>1. Database!Carried'
    BY <1>7, <1>1, DatabaseGoesOn DEF Database!Commit, Database!IInv
  <2> QED
    BY <2>1, <1>7, DatabaseCommitKeepsTheFeed DEF Database!IInv
<1>8. ASSUME NEW t \in Database!Threads, Database!CommitFails(t) PROVE Database!IInv'
  <2>1. Database!Carried'
    BY <1>8, <1>1, DatabaseGoesOn DEF Database!CommitFails, Database!IInv
  <2> QED
    BY <2>1, <1>8 DEF Database!CommitFails, Database!IInv, Database!RowTypes,
       Database!EventsLeadToTheRow
<1>9. CASE UNCHANGED Database!vars
  BY <1>9 DEF Database!vars, Database!IInv, Database!RowTypes, Database!Carried,
     Database!EventsLeadToTheRow
<1> QED
  BY <1>2, <1>3, <1>4, <1>5, <1>6, <1>7, <1>8, <1>9 DEF Database!Next

-----------------------------------------------------------------------------
\* A behaviour is about one protocol, which begins and goes on as its module says.

LEMMA PartsBegin ==
  ASSUME Init
  PROVE  /\ part = "telemetry" => Telemetry!Init
         /\ part = "history" => History!Init
         /\ part = "database" => Database!Init
BY Zenon DEF Init,
   ReloadBegins, FrameBegins, CaptureBegins, RouteBegins, IpcBegins, InboxBegins,
   TelemetryBegins, HistoryBegins, HostBegins, DatabaseBegins, BundleBegins, AncestryBegins

LEMMA PartsGoOn ==
  ASSUME [Next]_vars
  PROVE  /\ part' = part
         /\ part = "telemetry" => [Telemetry!Next]_Telemetry!vars
         /\ part = "history" => [History!Next]_History!vars
         /\ part = "database" => [Database!Next]_Database!vars
<1>1. CASE Next
  <2>1. part' = part
    BY <1>1, Zenon DEF Next,
       ReloadStep, FrameStep, CaptureStep, RouteStep, IpcStep, InboxStep, TelemetryStep,
       HistoryStep, HostStep, DatabaseStep, BundleStep, AncestryStep
  <2>2. part = "telemetry" => Telemetry!Next
    BY <1>1, Zenon DEF Next,
       ReloadStep, FrameStep, CaptureStep, RouteStep, IpcStep, InboxStep, TelemetryStep,
       HistoryStep, HostStep, DatabaseStep, BundleStep, AncestryStep
  <2>3. part = "history" => History!Next
    BY <1>1, Zenon DEF Next,
       ReloadStep, FrameStep, CaptureStep, RouteStep, IpcStep, InboxStep, TelemetryStep,
       HistoryStep, HostStep, DatabaseStep, BundleStep, AncestryStep
  <2>4. part = "database" => Database!Next
    BY <1>1, Zenon DEF Next,
       ReloadStep, FrameStep, CaptureStep, RouteStep, IpcStep, InboxStep, TelemetryStep,
       HistoryStep, HostStep, DatabaseStep, BundleStep, AncestryStep
  <2> QED
    BY <2>1, <2>2, <2>3, <2>4
<1>2. CASE UNCHANGED vars
  <2>1. UNCHANGED <<part, v1, v2, v3, v4, v5, v6, v7, v8, v9, v10, v11, v12, v13, v14, v15, v16>>
    BY <1>2 DEF vars
  <2> QED
    BY <2>1 DEF Telemetry!vars, History!vars, Database!vars
<1> QED
  BY <1>1, <1>2

-----------------------------------------------------------------------------
(* The theorem.  The invariant of a part is its module's IInv, and says    *)
(* nothing of a behaviour that is about another part.                      *)

\* What the dashboard shows of the telemetry is what the files hold: the records of the
\* JSONL stream are the lines written, a history served is the one between two states of
\* its files, and the activity feed leads to the row of its run, through half written
\* lines, replaced and truncated files, shared caches and failing transactions.
\* (ascento_mjlab/monitor.py load_jsonl, load_tensorboard_records; dashboard/database.py)
THEOREM ViewsStayTheFiles == Spec => []ViewsAreTheFiles
<1> DEFINE I == /\ part = "telemetry" => Telemetry!IInv
                /\ part = "history" => History!IInv
                /\ part = "database" => Database!IInv
<1>1. Init => I
  BY PartsBegin, TelemetryInitIInv, HistoryInitIInv, DatabaseInitIInv
<1>2. I /\ [Next]_vars => I'
  BY PartsGoOn, TelemetryStepPreserves, HistoryStepPreserves, DatabaseStepPreserves
<1>3. I => ViewsAreTheFiles
  BY TelemetryRecordsAreLines, HistoryAnswersAreTheFiles
  DEF ViewsAreTheFiles, Database!IInv
<1> HIDE DEF I
<1> QED
  BY <1>1, <1>2, <1>3, PTL DEF Spec
=============================================================================
