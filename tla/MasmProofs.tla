------------------------------ MODULE MasmProofs ------------------------------
(***************************************************************************)
(* Proofs about Masm, for every text, program and processor and every      *)
(* length of a record.                                                     *)
(* What a call does from one state of the globals to another is stated by  *)
(* Does: the globals stay Good (their types, and the output in step with   *)
(* what was emitted), and the marks follow the symbols that are evaluated, *)
(* the same number of them in both passes.  It holds of every operator, is *)
(* transitive, and so holds of a line (LineDoes); Between is what follows  *)
(* between two lines, and is the inductive invariant.                      *)
(* A line is then compared with itself: when pass 2 starts it where pass 1 *)
(* did, finds a mark exactly where pass 1 left one and knows the symbols   *)
(* that pass 1 knew (Facing), both passes end it at the same place, or an  *)
(* error has left bytes out (LineLevel, from one such lemma of each        *)
(* operator). Phase1 and Phase2 say what this makes of the starts of the   *)
(* lines read so far; Phased, with Between, is inductive.                  *)
(***************************************************************************)
EXTENDS Masm, TLAPS, SequenceTheorems, WellFoundedInduction

LEMMA LeastOne ==
  ASSUME NEW T, T \subseteq Nat, T # {}
  PROVE  \E x \in T : \A y \in T : x <= y
<1>1. \E x \in T : \A y \in T : ~ (<<y, x>> \in OpToRel(<, Nat))
  BY WFMin, NatLessThanWellFounded, Zenon
<1>2. PICK x \in T : \A y \in T : ~ (<<y, x>> \in OpToRel(<, Nat))
  BY <1>1
<1>3. ASSUME NEW y \in T
      PROVE  x <= y
  <2>1. x \in Nat /\ y \in Nat
    OBVIOUS
  <2>2. ~ (y < x)
    BY <1>2, <2>1 DEF OpToRel
  <2> QED
    BY <2>1, <2>2
<1> QED
  BY <1>2, <1>3

(* What holds at 0 and goes on from one number to the next holds up to n.  *)
LEMMA Climb ==
  ASSUME NEW n \in Nat, NEW T, 0 \in T, \A i \in 1 .. n : i - 1 \in T => i \in T
  PROVE  \A i \in 0 .. n : i \in T
<1> SUFFICES ASSUME NEW i \in 0 .. n, i \notin T
             PROVE  FALSE
  OBVIOUS
<1> DEFINE D == {j \in 0 .. n : j \notin T}
<1>1. PICK d \in D : \A e \in D : d <= e
  <2>1. D \subseteq Nat /\ D # {}
    OBVIOUS
  <2> HIDE DEF D
  <2> QED
    BY <2>1, LeastOne
<1>2. d # 0
  OBVIOUS
<1>3. d \in 1 .. n /\ d - 1 \in 0 .. n /\ ~ (d <= d - 1)
  BY <1>2
<1>4. d - 1 \in T
  BY <1>1, <1>3
<1> QED
  BY <1>3, <1>4

LEMMA MaxIsGreatest ==
  ASSUME NEW m \in Nat, NEW T, T \subseteq 1 .. m, T # {}
  PROVE  Max(T) \in T /\ \A y \in T : y <= Max(T)
<1>0. \A x \in T : x \in Int /\ 1 <= x /\ x <= m
  OBVIOUS
<1>1. \E x \in T : \A y \in T : x >= y
  <2> DEFINE D == {m - x : x \in T}
  <2>1. D \subseteq Nat /\ D # {}
    <3>1. \A x \in T : m - x \in Nat
      BY <1>0
    <3> QED
      BY <3>1
  <2>2. PICK d \in D : \A e \in D : d <= e
    <3> HIDE DEF D
    <3> QED
      BY <2>1, LeastOne
  <2>3. PICK x \in T : d = m - x
    OBVIOUS
  <2>4. ASSUME NEW y \in T
        PROVE  x >= y
    <3>1. m - y \in D
      OBVIOUS
    <3>2. m - x <= m - y
      BY <2>2, <2>3, <3>1
    <3> QED
      BY <1>0, <3>2
  <2> QED
    BY <2>4
<1>2. Max(T) \in T /\ \A y \in T : Max(T) >= y
  BY <1>1, Zenon DEF Max
<1>3. Max(T) \in Int
  BY <1>0, <1>2
<1> QED
  BY <1>0, <1>2, <1>3

-----------------------------------------------------------------------------
(* The four folds of the model, and that each takes its sequence one by    *)
(* one.                                                                    *)

FoldTurn(k, a, x) ==
  CASE k = "Emit"     -> Emit(a, x)
    [] k = "GetTerm"  -> GetTerm(a, x)
    [] k = "EvalByte" -> EvalByte(a, x)
    [] k = "EvalWord" -> EvalWord(a, x)

FoldOf(f, k, a, seq, T) == IF T = {} THEN a ELSE FoldTurn(k, f[T \ {Max(T)}], seq[Max(T)])

IsFold(f, k, a, seq) == f = [T \in SUBSET DOMAIN seq |-> FoldOf(f, k, a, seq, T)]

Folded(k, a, seq) == (CHOOSE f : IsFold(f, k, a, seq))[DOMAIN seq]

LEMMA FoldExists ==
  ASSUME NEW k, NEW a, NEW n \in Nat, NEW seq, DOMAIN seq = 1 .. n
  PROVE  \E f : IsFold(f, k, a, seq)
<1> DEFINE Upto(m) == \E f : \A T \in SUBSET (1 .. n) : T \subseteq 1 .. m => f[T] = FoldOf(f, k, a, seq, T)
           Done == {m \in Nat : Upto(m)}
<1>1. 0 \in Done
  <2> DEFINE f == [T \in SUBSET (1 .. n) |-> a]
  <2>1. ASSUME NEW T \in SUBSET (1 .. n), T \subseteq 1 .. 0
        PROVE  f[T] = FoldOf(f, k, a, seq, T)
    <3>1. T = {}
      BY <2>1
    <3> QED
      BY <3>1 DEF FoldOf
  <2> HIDE DEF f
  <2> QED
    BY <2>1
<1>2. ASSUME NEW m \in 1 .. n, m - 1 \in Done
      PROVE  m \in Done
  <2>1. m \in Nat /\ Upto(m - 1)
    <3>1. m \in Nat
      OBVIOUS
    <3>2. m - 1 \in Done
      BY <1>2
    <3> QED
      BY <3>1, <3>2
  <2>2. PICK f : \A T \in SUBSET (1 .. n) : T \subseteq 1 .. m - 1 => f[T] = FoldOf(f, k, a, seq, T)
    BY <2>1
  <2> DEFINE g == [T \in SUBSET (1 .. n) |-> FoldOf(f, k, a, seq, T)]
  <2>3. ASSUME NEW T \in SUBSET (1 .. n), T \subseteq 1 .. m
        PROVE  g[T] = FoldOf(g, k, a, seq, T)
    <3>1. CASE T = {}
      BY <3>1 DEF FoldOf
    <3>2. CASE T # {}
      <4>1. Max(T) \in T /\ \A y \in T : y <= Max(T)
        BY <2>1, <2>3, <3>2, MaxIsGreatest
      <4>2. T \ {Max(T)} \subseteq 1 .. m - 1
        <5>1. \A y \in T : y \in Int /\ 1 <= y /\ y <= m
          BY <2>1, <2>3
        <5>2. PICK top \in T : top = Max(T)
          BY <4>1
        <5>3. \A y \in T : y <= top
          BY <4>1, <5>2
        <5>4. T \ {top} \subseteq 1 .. m - 1
          BY <2>1, <5>1, <5>3
        <5> QED
          BY <5>2, <5>4
      <4>3. f[T \ {Max(T)}] = g[T \ {Max(T)}]
        BY <2>2, <4>2
      <4>4. g[T] = FoldOf(f, k, a, seq, T)
        OBVIOUS
      <4> HIDE DEF g
      <4> QED
        BY <3>2, <4>3, <4>4, Zenon DEF FoldOf
    <3> QED
      BY <3>1, <3>2
  <2> HIDE DEF g
  <2> QED
    BY <2>1, <2>3
<1>3. n \in Done
  <2> HIDE DEF Done
  <2> QED
    BY <1>1, <1>2, Climb
<1>4. PICK f : \A T \in SUBSET (1 .. n) : f[T] = FoldOf(f, k, a, seq, T)
  BY <1>3
<1> DEFINE g == [T \in SUBSET (1 .. n) |-> FoldOf(f, k, a, seq, T)]
<1>5. ASSUME NEW T \in SUBSET (1 .. n)
      PROVE  FoldOf(f, k, a, seq, T) = FoldOf(g, k, a, seq, T)
  <2>1. f[T \ {Max(T)}] = g[T \ {Max(T)}]
    BY <1>4
  <2> HIDE DEF g
  <2> QED
    BY <2>1, Zenon DEF FoldOf
<1>6. g = [T \in SUBSET (1 .. n) |-> FoldOf(g, k, a, seq, T)]
  <2> SUFFICES ASSUME NEW h, h = g
               PROVE  g = [T \in SUBSET (1 .. n) |-> FoldOf(h, k, a, seq, T)]
    BY Zenon
  <2> QED
    BY <1>5
<1> QED
  BY <1>6 DEF IsFold

LEMMA MaxOfUpto ==
  ASSUME NEW i \in Nat, i > 0
  PROVE  Max(1 .. i) = i /\ (1 .. i) \ {Max(1 .. i)} = 1 .. i - 1
<1>1. Max(1 .. i) \in 1 .. i /\ \A y \in 1 .. i : y <= Max(1 .. i)
  <2>1. 1 .. i \subseteq 1 .. i /\ 1 .. i # {}
    OBVIOUS
  <2> QED
    BY <2>1, MaxIsGreatest
<1>2. PICK top \in 1 .. i : top = Max(1 .. i)
  BY <1>1
<1>3. i <= top
  BY <1>1, <1>2
<1>4. top = i
  BY <1>3
<1> QED
  BY <1>2, <1>4

Folds(run, k, a, seq, n) ==
  /\ run[0] = a
  /\ \A i \in 1 .. n : run[i] = FoldTurn(k, run[i - 1], seq[i])
  /\ Folded(k, a, seq) = run[n]

LEMMA FoldRuns ==
  ASSUME NEW k, NEW a, NEW n \in Nat, NEW seq, DOMAIN seq = 1 .. n
  PROVE  \E run : Folds(run, k, a, seq, n)
<1> DEFINE f == CHOOSE g : IsFold(g, k, a, seq)
           run == [i \in 0 .. n |-> f[1 .. i]]
<1>1. IsFold(f, k, a, seq)
  BY FoldExists
<1>2. Folded(k, a, seq) = f[1 .. n]
  BY DEF Folded
<1> HIDE DEF f
<1>3. \A T \in SUBSET (1 .. n) : f[T] = FoldOf(f, k, a, seq, T)
  BY <1>1 DEF IsFold
<1>4. run[0] = a
  <2>1. 1 .. 0 = {} /\ 1 .. 0 \in SUBSET (1 .. n)
    OBVIOUS
  <2>2. f[1 .. 0] = a
    BY <1>3, <2>1 DEF FoldOf
  <2> QED
    BY <2>2
<1>5. ASSUME NEW i \in 1 .. n
      PROVE  run[i] = FoldTurn(k, run[i - 1], seq[i])
  <2>1. 1 .. i \in SUBSET (1 .. n) /\ 1 .. i # {}
    OBVIOUS
  <2>2. Max(1 .. i) = i /\ (1 .. i) \ {Max(1 .. i)} = 1 .. i - 1
    BY MaxOfUpto
  <2>3. f[1 .. i] = FoldTurn(k, f[1 .. i - 1], seq[i])
    BY <1>3, <2>1, <2>2, Zenon DEF FoldOf
  <2>4. run[i] = f[1 .. i] /\ run[i - 1] = f[1 .. i - 1]
    OBVIOUS
  <2> QED
    BY <2>3, <2>4
<1>6. Folded(k, a, seq) = run[n]
  BY <1>2
<1> HIDE DEF run
<1>7. Folds(run, k, a, seq, n)
  BY <1>4, <1>5, <1>6 DEF Folds
<1> QED
  BY <1>7

LEMMA FoldAppend ==
  ASSUME NEW S, NEW seq \in Seq(S), NEW x \in S, NEW k, NEW a
  PROVE  Folded(k, a, Append(seq, x)) = FoldTurn(k, Folded(k, a, seq), x)
<1> DEFINE n == Len(seq)
           more == Append(seq, x)
<1>1. /\ n \in Nat /\ DOMAIN seq = 1 .. n /\ DOMAIN more = 1 .. n + 1
      /\ more[n + 1] = x /\ \A i \in 1 .. n : more[i] = seq[i]
  OBVIOUS
<1> HIDE DEF n, more
<1>2. PICK p : Folds(p, k, a, seq, n)
  BY <1>1, FoldRuns
<1>3. PICK q : Folds(q, k, a, more, n + 1)
  <2>1. n + 1 \in Nat
    BY <1>1
  <2> QED
    BY <1>1, <2>1, FoldRuns
<1>4. /\ p[0] = a
      /\ \A i \in 1 .. n : p[i] = FoldTurn(k, p[i - 1], seq[i])
      /\ Folded(k, a, seq) = p[n]
  BY <1>2 DEF Folds
<1>5. /\ q[0] = a
      /\ \A i \in 1 .. n + 1 : q[i] = FoldTurn(k, q[i - 1], more[i])
      /\ Folded(k, a, more) = q[n + 1]
  BY <1>3 DEF Folds
<1> DEFINE T == {i \in 0 .. n : p[i] = q[i]}
<1>6. 0 \in T
  BY <1>1, <1>4, <1>5
<1>7. ASSUME NEW i \in 1 .. n, i - 1 \in T
      PROVE  i \in T
  <2>1. p[i - 1] = q[i - 1] /\ i \in 1 .. n + 1 /\ more[i] = seq[i] /\ i \in 0 .. n
    BY <1>1, <1>7
  <2>2. p[i] = q[i]
    BY <1>4, <1>5, <2>1
  <2> QED
    BY <2>1, <2>2
<1>8. n \in T
  <2> HIDE DEF T
  <2>1. \A i \in 0 .. n : i \in T
    BY <1>1, <1>6, <1>7, Climb
  <2> QED
    BY <1>1, <2>1
<1>9. q[n + 1] = FoldTurn(k, q[n], x)
  <2>1. n + 1 \in 1 .. n + 1 /\ n + 1 - 1 = n
    BY <1>1
  <2> QED
    BY <1>1, <1>5, <2>1
<1> QED
  BY <1>4, <1>5, <1>8, <1>9 DEF more

LEMMA FoldNone ==
  ASSUME NEW k, NEW a
  PROVE  Folded(k, a, <<>>) = a
<1> DEFINE none == <<>>
           n == 0
<1>1. DOMAIN none = 1 .. n /\ n \in Nat
  OBVIOUS
<1>2. n = 0
  OBVIOUS
<1> HIDE DEF none, n
<1>3. PICK run : Folds(run, k, a, none, n)
  BY <1>1, FoldRuns
<1>4. Folded(k, a, none) = a
  BY <1>2, <1>3 DEF Folds
<1> QED
  BY <1>4 DEF none

LEMMA FoldsAre ==
  ASSUME NEW a, NEW seq
  PROVE  /\ EmitAll(a, seq) = Folded("Emit", a, seq)
         /\ FoldLeft(GetTerm, a, seq) = Folded("GetTerm", a, seq)
         /\ FoldLeft(EvalByte, a, seq) = Folded("EvalByte", a, seq)
         /\ FoldLeft(EvalWord, a, seq) = Folded("EvalWord", a, seq)
<1>1. EmitAll(a, seq) = Folded("Emit", a, seq)
  BY DEF EmitAll, FoldLeft, MapThenFoldSet, Folded, IsFold, FoldOf, FoldTurn
<1>2. FoldLeft(GetTerm, a, seq) = Folded("GetTerm", a, seq)
  BY DEF FoldLeft, MapThenFoldSet, Folded, IsFold, FoldOf, FoldTurn
<1>3. FoldLeft(EvalByte, a, seq) = Folded("EvalByte", a, seq)
  BY DEF FoldLeft, MapThenFoldSet, Folded, IsFold, FoldOf, FoldTurn
<1>4. FoldLeft(EvalWord, a, seq) = Folded("EvalWord", a, seq)
  BY DEF FoldLeft, MapThenFoldSet, Folded, IsFold, FoldOf, FoldTurn
<1> QED
  BY <1>1, <1>2, <1>3, <1>4

Fields == {"Pass", "Cfn", "Line_num", "Pc", "Old_pc", "Result", "Force_word", "Force_byte", "root", "Forward", "F_ref",
           "hold", "E_pc", "E_bytes", "obj", "errors", "ahead", "emitted"}

RootOK(root) == \A name \in DOMAIN root : name # "" /\ root[name] \in Nat

Records == {r \in [addr : Nat, bytes : Seq(Int)] : Len(r.bytes) \in 1 .. E_LIMIT}
Emissions == [line : Nat, addr : Nat, byte : Nat]
Written(obj) == FlattenSeq([k \in DOMAIN obj |-> Placed(obj[k].addr, obj[k].bytes)])
Sent(emitted) == [k \in DOMAIN emitted |-> <<Short(emitted[k].addr), emitted[k].byte>>]

Stored(e_pc, e_bytes, obj, emitted) ==
  /\ e_bytes \in Seq(Int) /\ obj \in Seq(Records) /\ emitted \in Seq(Emissions)
  /\ Written(obj) \o Placed(e_pc, e_bytes) = Sent(emitted)

(* What holds of the output at every call.                                 *)
Output(pass, pc, e_pc, e_bytes, obj, emitted) ==
  /\ Len(e_bytes) < E_LIMIT
  /\ Stored(e_pc, e_bytes, obj, emitted)
  /\ pass = 1 => e_pc = 0 /\ e_bytes = <<>> /\ obj = <<>> /\ emitted = <<>>
  /\ pass = 2 => pc = e_pc + Len(e_bytes)

OutputOf(a) == Output(a.Pass, a.Pc, a.E_pc, a.E_bytes, a.obj, a.emitted)

(* In pass 1 the lines that are marked are those of the marks.              *)
AheadOK(pass, ahead, forward) ==
  pass = 1 => \A j : j \in ahead <=> \E i \in 1 .. Len(forward) : forward[i][2] = j

Typed(a) ==
  /\ Fields \subseteq DOMAIN a
  /\ a.Pass \in {1, 2} /\ a.Cfn \in Nat /\ a.Line_num \in Nat
  /\ a.Pc \in Nat /\ a.Old_pc \in Nat /\ a.E_pc \in Nat /\ a.Result \in Int
  /\ RootOK(a.root)
  /\ a.Forward \in Seq(Nat \X Nat) /\ a.F_ref \in Nat \X Nat
  /\ AheadOK(a.Pass, a.ahead, a.Forward)

Good(a) == Typed(a) /\ OutputOf(a)

Soft == {"Phasing Error", "symbol Undefined on pass 2", "Illegal Register for Indexed", "Branch out of Range"}
Harmed(a) == \E e \in a.errors : e[2] \notin Soft

(* For every line, how many symbols it evaluates and its file.             *)
OfLine(W, m) == m[2] \in DOMAIN W /\ m[1] = W[m[2]].file

(* The marks of pass 1: in the order of the lines, at most c of the line   *)
(* that is read, and as W says of an earlier line.                         *)
Collected(W, a, c) ==
  \A i, k \in 1 .. Len(a.Forward) : i <= k =>
    /\ a.Forward[i][2] <= a.Forward[k][2] /\ a.Forward[k][2] <= a.Line_num
    /\ a.Forward[i][2] = a.Forward[k][2] =>
         /\ a.Forward[i] = a.Forward[k]
         /\ k - i < IF a.Forward[k][2] = a.Line_num THEN c ELSE W[a.Forward[k][2]].marks
    /\ a.Forward[k][2] = a.Line_num => a.Forward[k] = Here(a)
    /\ a.Forward[k][2] # a.Line_num => OfLine(W, a.Forward[k])

At(a, i) == IF i = 0 THEN a.F_ref ELSE a.Forward[i]

(* The marks that pass 2 has left.                                         *)
Pending(W, a, c) ==
  \/ Harmed(a)
  \/ a.F_ref = <<0, 0>> /\ a.Forward = <<>>
  \/ \A i, k \in 0 .. Len(a.Forward) : i <= k =>
       /\ a.Line_num <= At(a, i)[2] /\ At(a, i)[2] <= At(a, k)[2]
       /\ At(a, i)[2] = At(a, k)[2] => At(a, i) = At(a, k) /\ k - i < W[At(a, i)[2]].marks
       /\ At(a, k)[2] = a.Line_num => At(a, k) = Here(a) /\ k < c
       /\ At(a, k)[2] # a.Line_num => OfLine(W, At(a, k))

(* The symbols of root are in table, with the same values.                 *)
Holds(root, table) == \A n \in DOMAIN root : n \in DOMAIN table /\ table[n] = root[n]

Keeps(a, b) ==
  /\ b.Pass = a.Pass /\ b.Cfn = a.Cfn /\ b.Line_num = a.Line_num
  /\ a.errors \subseteq b.errors
  /\ \A e \in b.errors : e \in a.errors \/ e[1] = a.Line_num
  /\ a.Pass = 2 => b.ahead = a.ahead
  /\ a.ahead \subseteq b.ahead /\ \A j \in b.ahead : j \in a.ahead \/ j = a.Line_num
  /\ Holds(a.root, b.root)

(* n symbols are evaluated from a to b.                                    *)
Counts(a, b, n) ==
  /\ a.Pass = 1 => \A W : \A c \in Nat : Collected(W, a, c) => Collected(W, b, c + n)
  /\ a.Pass = 2 => \A W : \A c \in Nat : Pending(W, a, c + n) => Pending(W, b, c)

(* Whether a mark of line j has still to be read.                          *)
Awaits(a, j) == \E i \in 0 .. Len(a.Forward) : At(a, i)[2] = j

(* Without a symbol the marks stay; pass 2 reads those of its line.         *)
Reads(a, b, n) ==
  /\ n = 0 => b.Forward = a.Forward /\ b.F_ref = a.F_ref /\ b.ahead = a.ahead
  /\ a.Pass = 2 => \A j : /\ Awaits(b, j) => Awaits(a, j) \/ j = 0
                          /\ Awaits(a, j) => Awaits(b, j) \/ j = a.Line_num

Does(a, b, n) == Good(b) /\ Keeps(a, b) /\ n \in Nat /\ Counts(a, b, n) /\ Reads(a, b, n)

LEMMA Still ==
  ASSUME NEW a, Good(a)
  PROVE  Does(a, a, 0)
<1>1. Keeps(a, a) /\ Reads(a, a, 0)
  BY DEF Keeps, Holds, Reads
<1>2. Counts(a, a, 0)
  <2>1. \A c \in Nat : c + 0 = c
    OBVIOUS
  <2> QED
    BY <2>1 DEF Counts
<1> QED
  BY <1>1, <1>2 DEF Does

LEMMA Then ==
  ASSUME NEW a, NEW b, NEW c, NEW n, NEW m, Does(a, b, n), Does(b, c, m)
  PROVE  Does(a, c, n + m)
<1>0. n \in Nat /\ m \in Nat /\ n + m \in Nat /\ b.Pass = a.Pass
  BY DEF Does, Keeps
<1>1. Keeps(a, c)
  <2>1. Holds(a.root, c.root)
    BY DEF Does, Keeps, Holds
  <2> QED
    BY <2>1 DEF Does, Keeps
<1>3. Reads(a, c, n + m)
  <2>1. n + m = 0 => n = 0 /\ m = 0
    BY <1>0
  <2>2. b.Line_num = a.Line_num
    BY DEF Does, Keeps
  <2> QED
    BY <1>0, <2>1, <2>2 DEF Does, Reads
<1>2. Counts(a, c, n + m)
  <2>1. ASSUME a.Pass = 1, NEW W, NEW k \in Nat, Collected(W, a, k)
        PROVE  Collected(W, c, k + (n + m))
    <3>1. Collected(W, b, k + n)
      BY <2>1 DEF Does, Counts
    <3>2. k + n \in Nat /\ (k + n) + m = k + (n + m)
      BY <1>0
    <3>3. Collected(W, c, (k + n) + m)
      BY <1>0, <2>1, <3>1, <3>2 DEF Does, Counts
    <3> QED
      BY <3>2, <3>3
  <2>2. ASSUME a.Pass = 2, NEW W, NEW k \in Nat, Pending(W, a, k + (n + m))
        PROVE  Pending(W, c, k)
    <3>1. k + m \in Nat /\ (k + m) + n = k + (n + m)
      BY <1>0
    <3>2. Pending(W, a, (k + m) + n)
      BY <2>2, <3>1
    <3>3. Pending(W, b, k + m)
      BY <2>2, <3>1, <3>2 DEF Does, Counts
    <3> QED
      BY <1>0, <2>2, <3>3 DEF Does, Counts
  <2> QED
    BY <2>1, <2>2 DEF Counts
<1> QED
  BY <1>0, <1>1, <1>2, <1>3 DEF Does

(* What leaves the marks and the errors alone counts nothing.              *)
LEMMA SameMarks ==
  ASSUME NEW a, NEW b,
         b.Pass = a.Pass, b.Cfn = a.Cfn, b.Line_num = a.Line_num, a.errors \subseteq b.errors,
         b.Forward = a.Forward, b.F_ref = a.F_ref, b.ahead = a.ahead
  PROVE  Counts(a, b, 0) /\ Reads(a, b, 0)
<1>0. \A c \in Nat : c + 0 = c
  OBVIOUS
<1>1. ASSUME NEW W, NEW c \in Nat
      PROVE  /\ Collected(W, a, c) => Collected(W, b, c + 0)
             /\ Pending(W, a, c + 0) => Pending(W, b, c)
  <2>0. Here(b) = Here(a)
    BY DEF Here
  <2>1. Collected(W, a, c) => Collected(W, b, c + 0)
    <3>1. Collected(W, a, c) => Collected(W, b, c)
      BY <2>0 DEF Collected
    <3> QED
      BY <3>1, <1>0
  <2>2. Pending(W, a, c + 0) => Pending(W, b, c)
    <3>1. \A i : At(b, i) = At(a, i)
      BY Zenon DEF At
    <3>2. Harmed(a) => Harmed(b)
      BY DEF Harmed
    <3>3. Pending(W, a, c) => Pending(W, b, c)
      BY <2>0, <3>1, <3>2 DEF Pending
    <3> QED
      BY <1>0, <3>3
  <2> QED
    BY <2>1, <2>2
<1>2. Reads(a, b, 0)
  <2>1. \A i : At(b, i) = At(a, i)
    BY Zenon DEF At
  <2> QED
    BY <2>1 DEF Reads, Awaits
<1> QED
  BY <1>1, <1>2 DEF Counts

LEMMA ErrorDoes ==
  ASSUME NEW a, Good(a), NEW what
  PROVE  Does(a, Error(a, what), 0)
<1> DEFINE b == Error(a, what)
<1>1. /\ b.errors = a.errors \cup {<<a.Line_num, what>>} /\ DOMAIN b = DOMAIN a
      /\ \A f \in DOMAIN a \ {"errors"} : b[f] = a[f]
  BY DEF Error, Good, Typed, Fields
<1> HIDE DEF b
<1>2. \A f \in Fields \ {"errors"} : b[f] = a[f]
  BY <1>1 DEF Good, Typed
<1>3. Good(b)
  BY <1>1, <1>2 DEF Good, Typed, OutputOf, Fields
<1>4. Keeps(a, b)
  BY <1>1, <1>2 DEF Keeps, Fields, Holds
<1>5. Counts(a, b, 0) /\ Reads(a, b, 0)
  BY <1>1, <1>2, SameMarks DEF Fields
<1> QED
  BY <1>3, <1>4, <1>5 DEF Does, b

LEMMA CollectedMore ==
  ASSUME NEW W, NEW a, NEW c \in Nat, NEW n \in Nat, Collected(W, a, c)
  PROVE  Collected(W, a, c + n)
<1> SUFFICES ASSUME NEW i \in 1 .. Len(a.Forward), NEW k \in 1 .. Len(a.Forward), i <= k,
                    a.Forward[i][2] = a.Forward[k][2], a.Forward[k][2] = a.Line_num
             PROVE  k - i < c + n
  BY Zenon DEF Collected
<1>1. k - i < c
  BY DEF Collected
<1> QED
  BY <1>1

LEMMA HarmDoes ==
  ASSUME NEW a, Good(a), NEW what, what \notin Soft, NEW n \in Nat
  PROVE  Does(a, Error(a, what), n)
<1> DEFINE b == Error(a, what)
<1>1. Does(a, b, 0)
  BY ErrorDoes
<1>2. b.errors = a.errors \cup {<<a.Line_num, what>>}
  BY DEF Error, Good, Typed, Fields
<1> HIDE DEF b
<1>3. Harmed(b)
  <2>1. <<a.Line_num, what>> \in b.errors /\ <<a.Line_num, what>>[2] \notin Soft
    BY <1>2
  <2> QED
    BY <2>1, Zenon DEF Harmed
<1>4. ASSUME a.Pass = 1, NEW W, NEW c \in Nat, Collected(W, a, c)
      PROVE  Collected(W, b, c + n)
  <2>1. Collected(W, b, c + 0) /\ c + 0 = c
    BY <1>1, <1>4 DEF Does, Counts
  <2>2. Collected(W, b, c)
    BY <2>1
  <2> QED
    BY <2>2, CollectedMore
<1>5. Counts(a, b, n)
  BY <1>3, <1>4 DEF Counts, Pending
<1>6. Reads(a, b, n)
  BY <1>1 DEF Does, Reads
<1> QED
  BY <1>1, <1>5, <1>6 DEF Does, b

-----------------------------------------------------------------------------
(* FlattenSeq, one sequence after the other.                               *)

FlatTurn(f, seqs, i) == IF i = 1 THEN seqs[i] ELSE f[i - 1] \o seqs[i]
IsFlat(f, seqs) == f = [i \in 1 .. Len(seqs) |-> FlatTurn(f, seqs, i)]

LEMMA FlatTurnLater ==
  ASSUME NEW f, NEW seqs, NEW i, i # 1
  PROVE  FlatTurn(f, seqs, i) = f[i - 1] \o seqs[i]
BY Zenon DEF FlatTurn

LEMMA FlatRuns ==
  ASSUME NEW seqs, Len(seqs) \in Nat, Len(seqs) > 0
  PROVE  \E run : /\ \A i \in 1 .. Len(seqs) : run[i] = FlatTurn(run, seqs, i)
                  /\ FlattenSeq(seqs) = run[Len(seqs)]
<1> DEFINE n == Len(seqs)
           Upto(m) == \E f : \A i \in 1 .. m : f[i] = FlatTurn(f, seqs, i)
           Reached == {m \in Nat : Upto(m)}
<1>1. FlattenSeq(seqs) = (CHOOSE f : IsFlat(f, seqs))[n]
  BY DEF FlattenSeq, IsFlat, FlatTurn
<1>0. n \in Nat /\ n > 0
  OBVIOUS
<1>2. 0 \in Reached
  <2>1. \A i \in 1 .. 0 : FALSE
    OBVIOUS
  <2> QED
    BY <2>1
<1>3. ASSUME NEW m \in 1 .. n, m - 1 \in Reached
      PROVE  m \in Reached
  <2>1. PICK f : \A i \in 1 .. m - 1 : f[i] = FlatTurn(f, seqs, i)
    BY <1>3
  <2> DEFINE g == [i \in 1 .. m |-> FlatTurn(f, seqs, i)]
  <2>2. ASSUME NEW i \in 1 .. m
        PROVE  g[i] = FlatTurn(g, seqs, i)
    <3>1. CASE i = 1
      BY <3>1 DEF FlatTurn
    <3>2. CASE i # 1
      <4>1. i - 1 \in 1 .. m - 1 /\ i - 1 \in 1 .. m
        BY <3>2
      <4>2. g[i - 1] = f[i - 1]
        BY <2>1, <4>1
      <4>3. g[i] = FlatTurn(f, seqs, i)
        OBVIOUS
      <4> HIDE DEF g
      <4> QED
        BY <3>2, <4>2, <4>3, Zenon DEF FlatTurn
    <3> QED
      BY <3>1, <3>2
  <2>3. m \in Nat
    OBVIOUS
  <2> HIDE DEF g
  <2> QED
    BY <2>2, <2>3
<1>4. n \in Reached
  <2> HIDE DEF Reached, n
  <2>1. \A m \in 1 .. n : m - 1 \in Reached => m \in Reached
    BY <1>3
  <2>2. \A i \in 0 .. n : i \in Reached
    BY <1>0, <1>2, <2>1, Climb
  <2> QED
    BY <1>0, <2>2
<1>5. PICK f : \A i \in 1 .. n : f[i] = FlatTurn(f, seqs, i)
  BY <1>4
<1> DEFINE g == [i \in 1 .. n |-> FlatTurn(f, seqs, i)]
<1>6. \A i \in 1 .. n : g[i] = f[i]
  BY <1>5
<1>7. \A i \in 1 .. n : FlatTurn(f, seqs, i) = FlatTurn(g, seqs, i)
  <2> TAKE i \in 1 .. n
  <2>1. CASE i = 1
    BY <2>1, Zenon DEF FlatTurn
  <2>2. CASE i # 1
    <3>1. i - 1 \in 1 .. n
      BY <2>2
    <3>2. g[i - 1] = f[i - 1]
      BY <1>6, <3>1
    <3> HIDE DEF g
    <3> QED
      BY <3>2, Zenon DEF FlatTurn
  <2> QED
    BY <2>1, <2>2
<1>8. g = [i \in 1 .. n |-> FlatTurn(g, seqs, i)]
  <2> SUFFICES ASSUME NEW h, h = g
               PROVE  g = [i \in 1 .. n |-> FlatTurn(h, seqs, i)]
    BY Zenon
  <2> QED
    BY <1>7
<1>9. IsFlat(g, seqs)
  <2> HIDE DEF g
  <2> QED
    BY <1>8 DEF IsFlat
<1> DEFINE run == CHOOSE h : IsFlat(h, seqs)
<1>10. IsFlat(run, seqs)
  BY <1>9
<1> HIDE DEF run, g
<1>11. \A i \in 1 .. n : run[i] = FlatTurn(run, seqs, i)
  <2> SUFFICES ASSUME NEW h, h = run, NEW i \in 1 .. n
               PROVE  run[i] = FlatTurn(h, seqs, i)
    BY Zenon
  <2>1. run = [j \in 1 .. n |-> FlatTurn(h, seqs, j)]
    BY <1>10 DEF IsFlat
  <2> QED
    BY <2>1
<1> QED
  BY <1>1, <1>11 DEF run

LEMMA FlattenNone ==
  FlattenSeq(<<>>) = <<>>
BY DEF FlattenSeq

IsRun(f, seqs, n) == \A i \in 1 .. n : f[i] = FlatTurn(f, seqs, i)
Alike(f, g, n) == \A i \in 1 .. n : f[i] = g[i]

LEMMA RunsAlike ==
  ASSUME NEW n \in Nat, NEW p, NEW q, NEW seqs, NEW more,
         IsRun(p, seqs, n), IsRun(q, more, n), Alike(seqs, more, n)
  PROVE  Alike(p, q, n)
<1> DEFINE T == {i \in 0 .. n : i = 0 \/ p[i] = q[i]}
<1>1. 0 \in T
  OBVIOUS
<1>2. ASSUME NEW i \in 1 .. n, i - 1 \in T
      PROVE  i \in T
  <2>1. i \in 0 .. n /\ i # 0
    OBVIOUS
  <2>2. i = 1 \/ p[i - 1] = q[i - 1]
    BY <1>2
  <2>3. p[i] = q[i]
    <3>1. p[i] = FlatTurn(p, seqs, i) /\ q[i] = FlatTurn(q, more, i) /\ seqs[i] = more[i]
      BY DEF IsRun, Alike
    <3> QED
      BY <2>2, <3>1, Zenon DEF FlatTurn
  <2> QED
    BY <2>1, <2>3
<1>3. \A i \in 0 .. n : i \in T
  <2> HIDE DEF T
  <2> QED
    BY <1>1, <1>2, Climb
<1> QED
  BY <1>3 DEF Alike

LEMMA FlattenAppend ==
  ASSUME NEW S, NEW seqs \in Seq(Seq(S)), NEW x \in Seq(S)
  PROVE  FlattenSeq(Append(seqs, x)) = FlattenSeq(seqs) \o x
<1> SUFFICES ASSUME NEW n \in Nat, n = Len(seqs), NEW more, more = Append(seqs, x)
             PROVE  FlattenSeq(more) = FlattenSeq(seqs) \o x
  BY Zenon, LenProperties
<1>1. /\ n \in Nat /\ Len(more) = n + 1 /\ more[n + 1] = x
      /\ \A i \in 1 .. n : more[i] = seqs[i]
  OBVIOUS
<1>2. CASE n = 0
  <2>1. seqs = <<>>
    <3>1. Len(seqs) = 0
      BY <1>2
    <3> QED
      BY <3>1, EmptySeq
  <2>2. FlattenSeq(seqs) \o x = x
    BY <2>1, FlattenNone
  <2>3. Len(more) \in Nat /\ Len(more) > 0
    BY <1>1
  <2>4. PICK q : /\ \A i \in 1 .. Len(more) : q[i] = FlatTurn(q, more, i)
                 /\ FlattenSeq(more) = q[Len(more)]
    BY <2>3, FlatRuns
  <2>5. Len(more) = 1 /\ more[1] = x
    BY <1>1, <1>2
  <2>6. q[1] = x
    BY <2>4, <2>5 DEF FlatTurn
  <2> QED
    BY <2>2, <2>4, <2>5, <2>6
<1>3. CASE n > 0
  <2>1. PICK p : /\ \A i \in 1 .. n : p[i] = FlatTurn(p, seqs, i)
                 /\ FlattenSeq(seqs) = p[n]
    BY <1>1, <1>3, FlatRuns
  <2>2. PICK q : /\ \A i \in 1 .. Len(more) : q[i] = FlatTurn(q, more, i)
                 /\ FlattenSeq(more) = q[Len(more)]
    <3>1. Len(more) \in Nat /\ Len(more) > 0
      BY <1>1
    <3> QED
      BY <3>1, FlatRuns
  <2>3. \A i \in 1 .. n : i \in 1 .. Len(more)
    BY <1>1
  <2>4. \A i \in 1 .. n : p[i] = q[i]
    <3>1. IsRun(q, more, n)
      BY <2>2, <2>3 DEF IsRun
    <3>2. IsRun(p, seqs, n)
      BY <2>1 DEF IsRun
    <3>3. Alike(seqs, more, n)
      BY <1>1 DEF Alike
    <3>4. Alike(p, q, n)
      BY <3>1, <3>2, <3>3, RunsAlike, Zenon
    <3> QED
      BY <3>4 DEF Alike
  <2>5. n + 1 \in 1 .. Len(more) /\ n + 1 # 1 /\ n + 1 - 1 = n /\ n \in 1 .. n
    BY <1>1, <1>3
  <2>6. q[n + 1] = q[n] \o more[n + 1]
    <3>1. q[n + 1] = FlatTurn(q, more, n + 1)
      BY <2>2, <2>5
    <3>2. PICK k \in Nat : k = n + 1
      BY <1>1
    <3>3. k # 1 /\ k - 1 = n
      BY <1>3, <3>2
    <3>4. FlatTurn(q, more, k) = q[k - 1] \o more[k]
      BY <3>3, FlatTurnLater
    <3> QED
      BY <3>1, <3>2, <3>3, <3>4
  <2> QED
    BY <1>1, <2>1, <2>2, <2>4, <2>5, <2>6
<1> QED
  BY <1>1, <1>2, <1>3

LEMMA FlattenSeqs ==
  ASSUME NEW S, NEW seqs \in Seq(Seq(S))
  PROVE  FlattenSeq(seqs) \in Seq(S)
<1>1. CASE Len(seqs) = 0
  <2>1. seqs = <<>> /\ <<>> \in Seq(S)
    BY <1>1
  <2> QED
    BY <2>1, FlattenNone, Zenon
<1>2. CASE Len(seqs) > 0
  <2> DEFINE n == Len(seqs)
  <2>1. n \in Nat /\ n > 0 /\ \A i \in 1 .. n : seqs[i] \in Seq(S)
    BY <1>2
  <2>2. PICK p : /\ \A i \in 1 .. n : p[i] = FlatTurn(p, seqs, i)
                 /\ FlattenSeq(seqs) = p[n]
    BY <2>1, FlatRuns
  <2> HIDE DEF n
  <2> DEFINE T == {i \in 0 .. n : i = 0 \/ p[i] \in Seq(S)}
  <2>3. 0 \in T
    BY <2>1
  <2>4. ASSUME NEW i \in 1 .. n, i - 1 \in T
        PROVE  i \in T
    <3>1. i \in 0 .. n /\ seqs[i] \in Seq(S)
      BY <2>1
    <3>2. i = 1 \/ p[i - 1] \in Seq(S)
      BY <2>4
    <3>3. p[i] = seqs[i] \/ (p[i - 1] \in Seq(S) /\ p[i] = p[i - 1] \o seqs[i])
      BY <2>2, <3>2, Zenon DEF FlatTurn
    <3>4. p[i] \in Seq(S)
      BY <3>1, <3>3, ConcatProperties
    <3> QED
      BY <3>1, <3>4
  <2>5. n \in T
    <3> HIDE DEF T
    <3>1. \A i \in 1 .. n : i - 1 \in T => i \in T
      BY <2>4
    <3>2. \A i \in 0 .. n : i \in T
      BY <2>1, <2>3, <3>1, Climb
    <3> QED
      BY <2>1, <3>2
  <2> QED
    BY <2>1, <2>2, <2>5
<1> QED
  BY <1>1, <1>2

Pairs == Int \X Int

LEMMA ShortTyped ==
  \A n \in Int : Short(n) \in Nat
BY DEF Short

LEMMA PlacedTyped ==
  ASSUME NEW addr \in Nat, NEW bytes \in Seq(Int)
  PROVE  Placed(addr, bytes) \in Seq(Pairs) /\ Len(Placed(addr, bytes)) = Len(bytes)
<1>1. \A i \in DOMAIN bytes : <<Short(addr + i - 1), bytes[i]>> \in Pairs
  BY ShortTyped DEF Pairs
<1>2. DOMAIN bytes = 1 .. Len(bytes) /\ Len(bytes) \in Nat
  OBVIOUS
<1> QED
  BY <1>1, <1>2 DEF Placed

LEMMA PlacedAppend ==
  ASSUME NEW addr \in Nat, NEW bytes \in Seq(Int), NEW x \in Int
  PROVE  Placed(addr, Append(bytes, x)) = Append(Placed(addr, bytes), <<Short(addr + Len(bytes)), x>>)
<1> DEFINE more == Append(bytes, x)
           left == Placed(addr, more)
           old == Placed(addr, bytes)
           last == <<Short(addr + Len(bytes)), x>>
           right == Append(old, last)
<1>1. /\ more \in Seq(Int) /\ Len(more) = Len(bytes) + 1 /\ Len(bytes) \in Nat
      /\ more[Len(bytes) + 1] = x /\ \A i \in 1 .. Len(bytes) : more[i] = bytes[i]
  OBVIOUS
<1>2. left \in Seq(Pairs) /\ Len(left) = Len(bytes) + 1 /\ old \in Seq(Pairs) /\ Len(old) = Len(bytes)
  <2> HIDE DEF more
  <2> QED
    BY <1>1, PlacedTyped
<1>3. last \in Pairs
  BY <1>1, ShortTyped DEF Pairs
<1>4. /\ right \in Seq(Pairs) /\ Len(right) = Len(bytes) + 1 /\ right[Len(bytes) + 1] = last
      /\ \A i \in 1 .. Len(bytes) : right[i] = old[i]
  <2> HIDE DEF last, old
  <2> QED
    BY <1>2, <1>3
<1>5. ASSUME NEW i \in 1 .. Len(bytes) + 1
      PROVE  left[i] = right[i]
  <2>1. left[i] = <<Short(addr + i - 1), more[i]>>
    BY <1>1 DEF Placed
  <2>2. CASE i = Len(bytes) + 1
    <3>1. addr + i - 1 = addr + Len(bytes)
      BY <1>1, <2>2
    <3> QED
      BY <1>1, <1>4, <2>1, <2>2, <3>1
  <2>3. CASE i # Len(bytes) + 1
    <3>1. i \in 1 .. Len(bytes)
      BY <1>1, <2>3
    <3>2. old[i] = <<Short(addr + i - 1), bytes[i]>>
      BY <3>1 DEF Placed
    <3> HIDE DEF left, old, right
    <3> QED
      BY <1>1, <1>4, <2>1, <3>1, <3>2
  <2> HIDE DEF left, right
  <2> QED
    BY <2>2, <2>3
<1>6. left = right
  <2> HIDE DEF left, right
  <2> QED
    BY <1>2, <1>4, <1>5, SeqEqual
<1> QED
  BY <1>6

LEMMA PlacedWord ==
  ASSUME NEW addr \in Nat, NEW bytes \in Seq(Int)
  PROVE  Placed(Short(addr), bytes) = Placed(addr, bytes)
<1>1. \A i \in DOMAIN bytes : Short(Short(addr) + i - 1) = Short(addr + i - 1)
  <2> TAKE i \in DOMAIN bytes
  <2>1. i \in Nat /\ i >= 1
    OBVIOUS
  <2> DEFINE q == addr \div 65536
             r == Short(addr)
  <2>2. q \in Int /\ r \in Int /\ addr = (65536 * q) + r
    BY DEF Short
  <2>3. PICK x \in Int : x = r + i - 1
    BY <2>1, <2>2
  <2>4. addr + i - 1 = (65536 * q) + x
    BY <2>1, <2>2, <2>3
  <2> HIDE DEF q, r
  <2>5. ((65536 * q) + x) % 65536 = x % 65536
    BY <2>2
  <2> QED
    BY <2>3, <2>4, <2>5 DEF r, Short
<1> QED
  BY <1>1 DEF Placed

LEMMA SentTyped ==
  ASSUME NEW emitted \in Seq(Emissions)
  PROVE  Sent(emitted) \in Seq(Pairs) /\ Len(Sent(emitted)) = Len(emitted)
<1>1. \A i \in DOMAIN emitted : <<Short(emitted[i].addr), emitted[i].byte>> \in Pairs
  <2>1. \A i \in DOMAIN emitted : emitted[i] \in Emissions
    OBVIOUS
  <2>2. \A e \in Emissions : <<Short(e.addr), e.byte>> \in Pairs
    BY ShortTyped DEF Pairs, Emissions
  <2> QED
    BY <2>1, <2>2
<1>2. DOMAIN emitted = 1 .. Len(emitted) /\ Len(emitted) \in Nat
  OBVIOUS
<1> QED
  BY <1>1, <1>2 DEF Sent

LEMMA SentAppend ==
  ASSUME NEW emitted \in Seq(Emissions), NEW e \in Emissions
  PROVE  Sent(Append(emitted, e)) = Append(Sent(emitted), <<Short(e.addr), e.byte>>)
<1> DEFINE more == Append(emitted, e)
           left == Sent(more)
           old == Sent(emitted)
           last == <<Short(e.addr), e.byte>>
           right == Append(old, last)
<1>1. /\ more \in Seq(Emissions) /\ Len(more) = Len(emitted) + 1 /\ Len(emitted) \in Nat
      /\ more[Len(emitted) + 1] = e /\ \A i \in 1 .. Len(emitted) : more[i] = emitted[i]
      /\ DOMAIN more = 1 .. Len(emitted) + 1 /\ DOMAIN emitted = 1 .. Len(emitted)
  OBVIOUS
<1>2. left \in Seq(Pairs) /\ Len(left) = Len(emitted) + 1 /\ old \in Seq(Pairs) /\ Len(old) = Len(emitted)
  <2> HIDE DEF more
  <2> QED
    BY <1>1, SentTyped
<1>3. last \in Pairs
  BY ShortTyped DEF Pairs, Emissions
<1>4. /\ right \in Seq(Pairs) /\ Len(right) = Len(emitted) + 1 /\ right[Len(emitted) + 1] = last
      /\ \A i \in 1 .. Len(emitted) : right[i] = old[i]
  <2> HIDE DEF last, old
  <2> QED
    BY <1>1, <1>2, <1>3
<1>5. ASSUME NEW i \in 1 .. Len(emitted) + 1
      PROVE  left[i] = right[i]
  <2>1. left[i] = <<Short(more[i].addr), more[i].byte>>
    <3> HIDE DEF more
    <3> QED
      BY <1>1 DEF Sent
  <2>2. CASE i = Len(emitted) + 1
    <3> HIDE DEF left, right, more
    <3> QED
      BY <1>1, <1>4, <2>1, <2>2
  <2>3. CASE i # Len(emitted) + 1
    <3>1. i \in 1 .. Len(emitted)
      BY <1>1, <2>3
    <3>2. old[i] = <<Short(emitted[i].addr), emitted[i].byte>>
      BY <1>1, <3>1 DEF Sent
    <3> HIDE DEF left, old, right, more
    <3> QED
      BY <1>1, <1>4, <2>1, <3>1, <3>2
  <2> HIDE DEF left, right
  <2> QED
    BY <2>2, <2>3
<1>6. left = right
  <2> HIDE DEF left, right
  <2> QED
    BY <1>2, <1>4, <1>5, SeqEqual
<1> QED
  BY <1>6

PlacedAll(obj) == [k \in DOMAIN obj |-> Placed(obj[k].addr, obj[k].bytes)]

LEMMA WrittenAppend ==
  ASSUME NEW obj \in Seq(Records), NEW r \in Records
  PROVE  /\ Written(obj) \in Seq(Pairs)
         /\ Written(Append(obj, r)) = Written(obj) \o Placed(r.addr, r.bytes)
<1> DEFINE more == Append(obj, r)
           old == PlacedAll(obj)
           last == Placed(r.addr, r.bytes)
<1>1. /\ more \in Seq(Records) /\ Len(more) = Len(obj) + 1 /\ Len(obj) \in Nat
      /\ more[Len(obj) + 1] = r /\ \A i \in 1 .. Len(obj) : more[i] = obj[i]
      /\ DOMAIN more = 1 .. Len(obj) + 1 /\ DOMAIN obj = 1 .. Len(obj)
  OBVIOUS
<1>2. \A q \in Records : Placed(q.addr, q.bytes) \in Seq(Pairs)
  BY PlacedTyped DEF Records
<1>3. old \in Seq(Seq(Pairs)) /\ last \in Seq(Pairs) /\ Len(old) = Len(obj) /\ DOMAIN old = 1 .. Len(obj)
  <2>1. \A k \in DOMAIN obj : obj[k] \in Records
    OBVIOUS
  <2>2. \A k \in DOMAIN obj : Placed(obj[k].addr, obj[k].bytes) \in Seq(Pairs)
    BY <1>2, <2>1
  <2> QED
    BY <1>1, <1>2, <2>2 DEF PlacedAll
<1>4. PlacedAll(more) = Append(old, last)
  <2> DEFINE left == PlacedAll(more)
             right == Append(old, last)
  <2>1. DOMAIN left = 1 .. Len(obj) + 1 /\ \A i \in 1 .. Len(obj) + 1 : left[i] = Placed(more[i].addr, more[i].bytes)
    <3> HIDE DEF more
    <3> QED
      BY <1>1 DEF PlacedAll
  <2>2. /\ right \in Seq(Seq(Pairs)) /\ Len(right) = Len(obj) + 1 /\ right[Len(obj) + 1] = last
        /\ \A i \in 1 .. Len(obj) : right[i] = old[i]
    <3> HIDE DEF old, last
    <3> QED
      BY <1>1, <1>3, AppendProperties
  <2>3. \A i \in 1 .. Len(obj) : old[i] = Placed(obj[i].addr, obj[i].bytes)
    BY <1>1 DEF PlacedAll
  <2>4. ASSUME NEW i \in 1 .. Len(obj) + 1
        PROVE  left[i] = right[i]
    <3> HIDE DEF left, right, more, old
    <3>1. CASE i = Len(obj) + 1
      BY <1>1, <2>1, <2>2, <3>1
    <3>2. CASE i # Len(obj) + 1
      <4>1. i \in 1 .. Len(obj)
        BY <1>1, <3>2
      <4> QED
        BY <1>1, <2>1, <2>2, <2>3, <4>1
    <3> QED
      BY <3>1, <3>2
  <2>5. left \in Seq(Seq(Pairs)) /\ Len(left) = Len(obj) + 1
    <3>1. \A i \in 1 .. Len(obj) + 1 : left[i] \in Seq(Pairs)
      <4>1. \A i \in 1 .. Len(obj) + 1 : more[i] \in Records
        BY <1>1
      <4> HIDE DEF more
      <4> QED
        BY <1>2, <2>1, <4>1
    <3>2. left = [i \in 1 .. Len(obj) + 1 |-> left[i]]
      <4> HIDE DEF more
      <4> QED
        BY <1>1 DEF PlacedAll
    <3>3. Len(obj) + 1 \in Nat
      BY <1>1
    <3> HIDE DEF left
    <3> QED
      BY <3>1, <3>2, <3>3
  <2> HIDE DEF left, right
  <2>6. left = right
    BY <2>2, <2>4, <2>5, SeqEqual
  <2> QED
    BY <2>6 DEF left, right
<1>5. FlattenSeq(Append(old, last)) = FlattenSeq(old) \o last /\ FlattenSeq(old) \in Seq(Pairs)
  <2> HIDE DEF old, last
  <2> QED
    BY <1>3, FlattenAppend, FlattenSeqs
<1> QED
  BY <1>4, <1>5 DEF Written, PlacedAll

LEMMA StoreByte ==
  ASSUME NEW e_pc \in Nat, NEW e_bytes, NEW obj, NEW emitted, Stored(e_pc, e_bytes, obj, emitted),
         NEW x \in Nat, NEW n \in Nat, NEW pc \in Nat, pc = e_pc + Len(e_bytes)
  PROVE  Stored(e_pc, Append(e_bytes, x), obj, Append(emitted, [line |-> n, addr |-> pc, byte |-> x]))
<1> DEFINE e == [line |-> n, addr |-> pc, byte |-> x]
           last == <<Short(pc), x>>
           old == Placed(e_pc, e_bytes)
<1>1. e_bytes \in Seq(Int) /\ obj \in Seq(Records) /\ emitted \in Seq(Emissions) /\ x \in Int
  BY DEF Stored
<1>2. e \in Emissions /\ e.addr = pc /\ e.byte = x
  BY DEF Emissions
<1>3. Placed(e_pc, Append(e_bytes, x)) = Append(old, last) /\ old \in Seq(Pairs)
  <2>1. Placed(e_pc, Append(e_bytes, x)) = Append(Placed(e_pc, e_bytes), <<Short(e_pc + Len(e_bytes)), x>>)
    BY <1>1, PlacedAppend
  <2>2. Placed(e_pc, e_bytes) \in Seq(Pairs)
    BY <1>1, PlacedTyped
  <2>3. Short(pc) = Short(e_pc + Len(e_bytes))
    OBVIOUS
  <2> QED
    BY <2>1, <2>2, <2>3, Zenon
<1> HIDE DEF e
<1>4. Sent(Append(emitted, e)) = Append(Sent(emitted), last)
  BY <1>1, <1>2, SentAppend
<1>5. last \in Pairs
  BY ShortTyped DEF Pairs
<1>6. Written(obj) \in Seq(Pairs)
  <2>1. [addr |-> 0, bytes |-> <<0>>] \in Records
    <3>1. <<0>> \in Seq(Int) /\ Len(<<0>>) = 1 /\ 1 \in 1 .. E_LIMIT
      BY LimitAssumption
    <3> QED
      BY <3>1 DEF Records
  <2> QED
    BY <1>1, <2>1, WrittenAppend
<1>7. Written(obj) \o old = Sent(emitted)
  BY DEF Stored
<1> HIDE DEF last, old
<1>8. Written(obj) \o Append(old, last) = Append(Written(obj) \o old, last)
  BY <1>3, <1>5, <1>6
<1>9. Append(e_bytes, x) \in Seq(Int) /\ Append(emitted, e) \in Seq(Emissions)
  BY <1>1, <1>2
<1> QED
  BY <1>1, <1>3, <1>4, <1>7, <1>8, <1>9 DEF Stored, e

LEMMA StoreRecord ==
  ASSUME NEW e_pc \in Nat, NEW e_bytes, NEW obj, NEW emitted, Stored(e_pc, e_bytes, obj, emitted),
         Len(e_bytes) <= E_LIMIT, NEW pc \in Nat
  PROVE  Stored(pc, <<>>, IF e_bytes = <<>> THEN obj ELSE Append(obj, [addr |-> Short(e_pc), bytes |-> e_bytes]), emitted)
<1> DEFINE r == [addr |-> Short(e_pc), bytes |-> e_bytes]
           old == Placed(e_pc, e_bytes)
<1>1. e_bytes \in Seq(Int) /\ obj \in Seq(Records) /\ emitted \in Seq(Emissions) /\ Len(e_bytes) \in Nat
  BY DEF Stored
<1>2. Placed(pc, <<>>) = <<>>
  BY DEF Placed
<1>3. Written(obj) \o old = Sent(emitted)
  BY DEF Stored
<1>4. CASE e_bytes = <<>>
  <2>1. old = <<>>
    BY <1>4 DEF Placed
  <2> HIDE DEF old
  <2> QED
    BY <1>1, <1>2, <1>3, <1>4, <2>1 DEF Stored
<1>5. CASE e_bytes # <<>>
  <2>1. r \in Records /\ r.addr = Short(e_pc) /\ r.bytes = e_bytes
    <3>1. Len(e_bytes) \in 1 .. E_LIMIT
      BY <1>1, <1>5, LimitAssumption
    <3> QED
      BY <1>1, <3>1, ShortTyped DEF Records
  <2> HIDE DEF r
  <2>2. Written(obj) \in Seq(Pairs) /\ Written(Append(obj, r)) = Written(obj) \o Placed(r.addr, r.bytes)
    BY <1>1, <2>1, WrittenAppend, Zenon
  <2>3. Placed(r.addr, r.bytes) = old /\ old \in Seq(Pairs)
    <3>1. Placed(Short(e_pc), e_bytes) = old
      BY <1>1, PlacedWord
    <3>2. old \in Seq(Pairs)
      BY <1>1, PlacedTyped
    <3> HIDE DEF old
    <3> QED
      BY <2>1, <3>1, <3>2, Zenon
  <2> HIDE DEF old
  <2>4. Written(Append(obj, r)) = Sent(emitted)
    BY <1>3, <2>2, <2>3
  <2>5. Written(Append(obj, r)) \in Seq(Pairs)
    BY <1>1, <2>4, SentTyped
  <2>6. Written(Append(obj, r)) \o Placed(pc, <<>>) = Sent(emitted)
    BY <1>2, <2>4, <2>5
  <2>7. Append(obj, r) \in Seq(Records)
    BY <1>1, <2>1
  <2>8. <<>> \in Seq(Int)
    OBVIOUS
  <2>9. Stored(pc, <<>>, Append(obj, r), emitted)
    BY <1>1, <2>6, <2>7, <2>8 DEF Stored
  <2> QED
    BY <1>5, <2>9 DEF r
<1> QED
  BY <1>4, <1>5

(* The fields that output leaves alone.                                    *)
Kept(a, b) ==
  /\ b.Pass = a.Pass /\ b.Cfn = a.Cfn /\ b.Line_num = a.Line_num /\ b.Result = a.Result
  /\ b.Force_word = a.Force_word /\ b.Force_byte = a.Force_byte /\ b.root = a.root
  /\ b.Forward = a.Forward /\ b.F_ref = a.F_ref /\ b.hold = a.hold /\ b.errors = a.errors /\ b.ahead = a.ahead

(* What a change of the address keeps.                                     *)
Moved(a, b) ==
  /\ Kept(a, b) /\ Fields \subseteq DOMAIN b
  /\ b.Pc \in Nat /\ b.Old_pc \in Nat
  /\ b.E_pc = a.E_pc /\ b.E_bytes = a.E_bytes /\ b.obj = a.obj /\ b.emitted = a.emitted

Flushed(b, c) ==
  /\ Fields \subseteq DOMAIN c
  /\ c.Pc = b.Pc /\ c.Old_pc = b.Old_pc /\ c.E_pc = b.Pc /\ c.E_bytes = <<>> /\ c.emitted = b.emitted
  /\ c.obj = IF b.E_bytes = <<>> THEN b.obj ELSE Append(b.obj, [addr |-> Short(b.E_pc), bytes |-> b.E_bytes])

LEMMA FRecordFields ==
  ASSUME NEW b, Fields \subseteq DOMAIN b, b.Pass = 2
  PROVE  Kept(b, FRecord(b)) /\ Flushed(b, FRecord(b))
<1>1. Kept(b, FRecord(b))
  BY DEF FRecord, Fields, Kept
<1>2. Flushed(b, FRecord(b))
  BY DEF FRecord, Fields, Flushed
<1> QED
  BY <1>1, <1>2

LEMMA OutputDoes ==
  ASSUME NEW a, Good(a), NEW b, Kept(a, b), Fields \subseteq DOMAIN b,
         b.Pc \in Nat, b.Old_pc \in Nat, b.E_pc \in Nat, OutputOf(b)
  PROVE  Does(a, b, 0)
<1>1. Good(b)
  BY DEF Good, Typed, Kept
<1>2. Keeps(a, b)
  BY DEF Keeps, Kept, Holds
<1>3. Counts(a, b, 0) /\ Reads(a, b, 0)
  BY SameMarks DEF Kept
<1> QED
  BY <1>1, <1>2, <1>3 DEF Does

LEMMA FRecordDoes ==
  ASSUME NEW a, Good(a), NEW b, Moved(a, b)
  PROVE  Does(a, FRecord(b), 0)
<1> DEFINE c == FRecord(b)
<1>1. a.Pass \in {1, 2} /\ b.Pass = a.Pass /\ Fields \subseteq DOMAIN b /\ a.E_pc \in Nat
  BY DEF Good, Typed, Moved, Kept
<1>2. CASE a.Pass = 1
  <2>1. c = b
    BY <1>1, <1>2 DEF FRecord
  <2>2. Kept(a, b)
    BY DEF Moved
  <2>3. OutputOf(b)
    BY <1>1, <1>2 DEF Good, OutputOf, Output, Moved
  <2>4. b.Pc \in Nat /\ b.Old_pc \in Nat /\ b.E_pc \in Nat
    BY <1>1 DEF Moved
  <2> QED
    BY <1>1, <2>1, <2>2, <2>3, <2>4, OutputDoes
<1>3. CASE a.Pass = 2
  <2> HIDE DEF c
  <2>0. c = FRecord(b) /\ b.Pass = 2
    BY <1>1, <1>3 DEF c
  <2>1. Kept(a, c)
    BY <1>1, <2>0, FRecordFields DEF Kept, Moved
  <2>2. Fields \subseteq DOMAIN c
    BY <1>1, <2>0, FRecordFields DEF Flushed
  <2>3. c.Pc = b.Pc /\ c.Pc \in Nat /\ c.Old_pc \in Nat /\ c.E_pc = c.Pc /\ c.E_bytes = <<>>
    BY <1>1, <2>0, FRecordFields DEF Moved, Flushed
  <2>4. Stored(c.Pc, <<>>, c.obj, c.emitted)
    <3>1. Stored(a.E_pc, a.E_bytes, a.obj, a.emitted) /\ Len(a.E_bytes) <= E_LIMIT
      <4>1. Stored(a.E_pc, a.E_bytes, a.obj, a.emitted) /\ Len(a.E_bytes) < E_LIMIT
        BY DEF Good, OutputOf, Output
      <4>2. Len(a.E_bytes) \in Nat
        BY <4>1 DEF Stored
      <4> QED
        BY <4>1, <4>2, LimitAssumption
    <3>2. c.obj = IF a.E_bytes = <<>> THEN a.obj ELSE Append(a.obj, [addr |-> Short(a.E_pc), bytes |-> a.E_bytes])
      BY <1>1, <2>0, FRecordFields DEF Moved, Flushed
    <3>3. c.emitted = a.emitted
      BY <1>1, <2>0, FRecordFields DEF Moved, Flushed
    <3> QED
      BY <1>1, <2>3, <3>1, <3>2, <3>3, StoreRecord, Zenon
  <2>5. OutputOf(c)
    <3>1. Len(<<>>) < E_LIMIT /\ c.Pc = c.Pc + Len(<<>>)
      BY <2>3, LimitAssumption
    <3>2. c.Pass # 1
      BY <1>3, <2>1 DEF Kept
    <3> QED
      BY <2>3, <2>4, <3>1, <3>2 DEF OutputOf, Output
  <2>6. Does(a, c, 0)
    BY <2>1, <2>2, <2>3, <2>5, OutputDoes
  <2> QED
    BY <2>6 DEF c
<1> QED
  BY <1>1, <1>2, <1>3

LEMMA EmitDoes ==
  ASSUME NEW a, Good(a), NEW x \in Int
  PROVE  Does(a, Emit(a, x), 0)
<1>1. a.Pass \in {1, 2} /\ Fields \subseteq DOMAIN a /\ a.E_pc \in Nat /\ a.Pc \in Nat /\ a.Old_pc \in Nat /\ a.Line_num \in Nat
  BY DEF Good, Typed
<1>2. CASE a.Pass = 1
  <2> DEFINE c == [a EXCEPT !.Pc = @ + 1]
  <2>1. Emit(a, x) = c
    BY <1>2 DEF Emit
  <2>2. Kept(a, c) /\ Fields \subseteq DOMAIN c
    BY <1>1 DEF Kept, Fields
  <2>3. /\ c.Pc \in Nat /\ c.Old_pc \in Nat /\ c.E_pc \in Nat /\ c.Pass = a.Pass /\ c.E_pc = a.E_pc
        /\ c.E_bytes = a.E_bytes /\ c.obj = a.obj /\ c.emitted = a.emitted
    BY <1>1 DEF Fields
  <2> HIDE DEF c
  <2>4. OutputOf(c)
    BY <1>2, <2>3 DEF Good, OutputOf, Output
  <2> QED
    BY <2>1, <2>2, <2>3, <2>4, OutputDoes
<1>3. CASE a.Pass = 2
  <2> DEFINE y == x % 256
             e == [line |-> a.Line_num, addr |-> a.Pc, byte |-> y]
             b == [a EXCEPT !.Pc = @ + 1, !.E_bytes = Append(@, y), !.emitted = Append(@, e)]
  <2>0. y \in Nat
    OBVIOUS
  <2>1. Emit(a, x) = IF Len(b.E_bytes) = E_LIMIT THEN FRecord(b) ELSE b
    BY <1>3 DEF Emit
  <2> HIDE DEF y, e
  <2>2. Kept(a, b) /\ Fields \subseteq DOMAIN b
    BY <1>1 DEF Kept, Fields
  <2>3. /\ b.Pc = a.Pc + 1 /\ b.Old_pc = a.Old_pc /\ b.E_pc = a.E_pc /\ b.E_bytes = Append(a.E_bytes, y)
        /\ b.obj = a.obj /\ b.emitted = Append(a.emitted, e)
    BY <1>1 DEF Fields
  <2> HIDE DEF b
  <2>4. /\ Stored(a.E_pc, a.E_bytes, a.obj, a.emitted) /\ Len(a.E_bytes) < E_LIMIT
        /\ a.Pc = a.E_pc + Len(a.E_bytes)
    BY <1>3 DEF Good, OutputOf, Output
  <2>5. a.E_bytes \in Seq(Int) /\ Len(a.E_bytes) \in Nat
    BY <2>4 DEF Stored
  <2>6. Stored(b.E_pc, b.E_bytes, b.obj, b.emitted)
    <3>1. Stored(a.E_pc, Append(a.E_bytes, y), a.obj, Append(a.emitted, e))
      BY <1>1, <2>0, <2>4, StoreByte DEF e
    <3> QED
      BY <2>3, <3>1
  <2>7. Len(b.E_bytes) = Len(a.E_bytes) + 1 /\ b.E_bytes \in Seq(Int)
    BY <2>0, <2>3, <2>5
  <2>8. b.Pc \in Nat /\ b.Old_pc \in Nat /\ b.E_pc \in Nat /\ b.Pc = b.E_pc + Len(b.E_bytes)
    <3>1. b.Pc = a.Pc + 1 /\ b.E_pc = a.E_pc
      BY <2>3
    <3>2. PICK m \in Nat : m = Len(a.E_bytes)
      BY <2>5
    <3>3. Len(b.E_bytes) = m + 1 /\ a.Pc = a.E_pc + m
      BY <2>4, <2>7, <3>2
    <3>4. a.Pc \in Nat /\ a.Old_pc \in Nat /\ a.E_pc \in Nat /\ b.Old_pc = a.Old_pc
      BY <1>1, <2>3
    <3> HIDE DEF y, e
    <3> QED
      BY <3>1, <3>3, <3>4
  <2>9. Len(b.E_bytes) <= E_LIMIT /\ b.Pass = 2
    BY <1>3, <2>2, <2>4, <2>5, <2>7, LimitAssumption DEF Kept
  <2>10. CASE Len(b.E_bytes) # E_LIMIT
    <3>1. Emit(a, x) = b
      BY <2>1, <2>10
    <3>2. Len(b.E_bytes) < E_LIMIT
      BY <2>5, <2>7, <2>9, <2>10, LimitAssumption
    <3>3. OutputOf(b)
      BY <2>6, <2>8, <2>9, <3>2 DEF OutputOf, Output
    <3> QED
      BY <2>2, <2>8, <3>1, <3>3, OutputDoes
  <2>11. CASE Len(b.E_bytes) = E_LIMIT
    <3> DEFINE c == FRecord(b)
    <3>1. Emit(a, x) = c
      BY <2>1, <2>11
    <3>0. c = FRecord(b)
      OBVIOUS
    <3> HIDE DEF c
    <3>2. Kept(b, c) /\ Fields \subseteq DOMAIN c
      BY <2>2, <2>9, <3>0, FRecordFields DEF Flushed
    <3>3. Kept(a, c)
      BY <2>2, <3>2 DEF Kept
    <3>4. /\ c.Pc = b.Pc /\ c.Old_pc = b.Old_pc /\ c.E_pc = b.Pc /\ c.E_bytes = <<>> /\ c.emitted = b.emitted
          /\ c.obj = IF b.E_bytes = <<>> THEN b.obj ELSE Append(b.obj, [addr |-> Short(b.E_pc), bytes |-> b.E_bytes])
      BY <2>2, <2>9, <3>0, FRecordFields DEF Flushed
    <3>5. Stored(c.E_pc, c.E_bytes, c.obj, c.emitted)
      <4>1. Stored(b.Pc, <<>>, c.obj, b.emitted)
        BY <2>6, <2>8, <2>9, <3>4, StoreRecord, Zenon
      <4> QED
        BY <3>4, <4>1
    <3>6. Len(c.E_bytes) < E_LIMIT /\ c.Pc = c.E_pc + Len(c.E_bytes) /\ c.Pass = 2
      BY <2>8, <2>9, <3>2, <3>4, LimitAssumption DEF Kept
    <3>7. OutputOf(c)
      BY <3>5, <3>6 DEF OutputOf, Output
    <3>8. c.Pc \in Nat /\ c.Old_pc \in Nat /\ c.E_pc \in Nat
      BY <2>8, <3>4
    <3> QED
      BY <3>1, <3>2, <3>3, <3>7, <3>8, OutputDoes
  <2> QED
    BY <2>10, <2>11
<1> QED
  BY <1>1, <1>2, <1>3

(* The fields that evaluation leaves alone.                                *)
Quiet(a, b) ==
  /\ Fields \subseteq DOMAIN b
  /\ b.Pass = a.Pass /\ b.Cfn = a.Cfn /\ b.Line_num = a.Line_num /\ b.hold = a.hold
  /\ b.Pc = a.Pc /\ b.Old_pc = a.Old_pc /\ b.E_pc = a.E_pc
  /\ b.E_bytes = a.E_bytes /\ b.obj = a.obj /\ b.emitted = a.emitted

LEMMA QuietGood ==
  ASSUME NEW a, Good(a), NEW b, Quiet(a, b), b.Result \in Int, RootOK(b.root),
         b.Forward \in Seq(Nat \X Nat), b.F_ref \in Nat \X Nat, AheadOK(b.Pass, b.ahead, b.Forward)
  PROVE  Good(b)
BY DEF Good, Typed, Quiet, OutputOf

LEMMA QuietDoes ==
  ASSUME NEW a, Good(a), NEW b, Quiet(a, b), b.Result \in Int, RootOK(b.root),
         b.Forward = a.Forward, b.F_ref = a.F_ref, b.ahead = a.ahead, b.errors = a.errors, Holds(a.root, b.root)
  PROVE  Does(a, b, 0)
<1>1. Good(b)
  BY QuietGood DEF Good, Typed, Quiet
<1>2. Keeps(a, b)
  BY DEF Keeps, Quiet
<1>3. Counts(a, b, 0) /\ Reads(a, b, 0)
  BY SameMarks DEF Quiet
<1> QED
  BY <1>1, <1>2, <1>3 DEF Does

LEMMA LookupDoes ==
  ASSUME NEW a, Good(a), NEW name
  PROVE  Does(a, Lookup(a, name), 0)
<1>1. CASE a.Pass = 2 /\ name \notin DOMAIN a.root
  <2>1. Lookup(a, name) = Error(a, "symbol Undefined on pass 2")
    BY <1>1, Zenon DEF Lookup
  <2> QED
    BY <2>1, ErrorDoes
<1>2. CASE ~ (a.Pass = 2 /\ name \notin DOMAIN a.root)
  <2>1. Lookup(a, name) = a
    BY <1>2, Zenon DEF Lookup
  <2> QED
    BY <2>1, Still
<1> QED
  BY <1>1, <1>2

LEMMA LookupFields ==
  ASSUME NEW a, Good(a), NEW name, NEW b, b = Lookup(a, name)
  PROVE  /\ Quiet(a, b) /\ b.Result = a.Result /\ b.root = a.root /\ b.Force_word = a.Force_word /\ b.Force_byte = a.Force_byte
         /\ b.Forward = a.Forward /\ b.F_ref = a.F_ref /\ b.ahead = a.ahead
<1>1. CASE b = a
  BY <1>1 DEF Quiet, Good, Typed
<1>2. CASE b = Error(a, "symbol Undefined on pass 2")
  <2> DEFINE what == "symbol Undefined on pass 2"
             more == a.errors \cup {<<a.Line_num, what>>}
  <2>1. b = [a EXCEPT !.errors = more]
    BY <1>2 DEF Error
  <2> HIDE DEF more
  <2> QED
    BY <2>1 DEF Quiet, Good, Typed, Fields
<1> QED
  BY <1>1, <1>2 DEF Lookup

(* A mark that is added in pass 1.                                         *)
LEMMA MarkCounts ==
  ASSUME NEW a, Good(a), NEW b, Quiet(a, b), a.Pass = 1, b.Forward = Append(a.Forward, Here(a))
  PROVE  Counts(a, b, 1)
<1> SUFFICES ASSUME NEW W, NEW c \in Nat, Collected(W, a, c)
             PROVE  Collected(W, b, c + 1)
  BY DEF Counts
<1> DEFINE n == Len(a.Forward)
           h == Here(a)
<1>1. /\ n \in Nat /\ Len(b.Forward) = n + 1 /\ b.Forward[n + 1] = h /\ \A i \in 1 .. n : b.Forward[i] = a.Forward[i]
      /\ h[1] = a.Cfn /\ h[2] = a.Line_num /\ a.Line_num \in Nat
  BY DEF Good, Typed, Here
<1>2. b.Line_num = a.Line_num /\ Here(b) = h
  BY DEF Quiet, Here
<1>6. \A i \in 1 .. n : a.Forward[i][2] \in Nat
  <2>1. \A m \in Nat \X Nat : m[2] \in Nat
    OBVIOUS
  <2> QED
    BY <2>1 DEF Good, Typed
<1> HIDE DEF n, h
<1>3. ASSUME NEW i \in 1 .. n + 1, NEW k \in 1 .. n + 1, i <= k
      PROVE  /\ b.Forward[i][2] <= b.Forward[k][2] /\ b.Forward[k][2] <= b.Line_num
             /\ b.Forward[i][2] = b.Forward[k][2] =>
                  /\ b.Forward[i] = b.Forward[k]
                  /\ k - i < IF b.Forward[k][2] = b.Line_num THEN c + 1 ELSE W[b.Forward[k][2]].marks
             /\ b.Forward[k][2] = b.Line_num => b.Forward[k] = Here(b)
             /\ b.Forward[k][2] # b.Line_num => OfLine(W, b.Forward[k])
  <2>1. CASE k \in 1 .. n
    <3>1. i \in 1 .. n
      BY <1>1, <1>3, <2>1
    <3>2. b.Forward[i] = a.Forward[i] /\ b.Forward[k] = a.Forward[k]
      BY <1>1, <2>1, <3>1
    <3>3. /\ a.Forward[i][2] <= a.Forward[k][2] /\ a.Forward[k][2] <= a.Line_num
          /\ a.Forward[i][2] = a.Forward[k][2] =>
               /\ a.Forward[i] = a.Forward[k]
               /\ k - i < IF a.Forward[k][2] = a.Line_num THEN c ELSE W[a.Forward[k][2]].marks
          /\ a.Forward[k][2] = a.Line_num => a.Forward[k] = Here(a)
          /\ a.Forward[k][2] # a.Line_num => OfLine(W, a.Forward[k])
      BY <1>3, <2>1, <3>1 DEF Collected, n
    <3>4. (k - i < IF a.Forward[k][2] = a.Line_num THEN c ELSE W[a.Forward[k][2]].marks) =>
          (k - i < IF a.Forward[k][2] = a.Line_num THEN c + 1 ELSE W[a.Forward[k][2]].marks)
      BY <1>1
    <3> QED
      BY <1>2, <3>2, <3>3, <3>4 DEF h
  <2>2. CASE k = n + 1 /\ i = n + 1
    BY <1>1, <1>2, <2>2
  <2>3. CASE k = n + 1 /\ i \in 1 .. n
    <3>1. b.Forward[i] = a.Forward[i] /\ b.Forward[k] = h /\ n \in 1 .. n /\ i <= n
      BY <1>1, <2>3
    <3>2. /\ a.Forward[i][2] <= a.Forward[n][2] /\ a.Forward[n][2] <= a.Line_num
          /\ a.Forward[i][2] = a.Forward[n][2] =>
               /\ a.Forward[i] = a.Forward[n]
               /\ n - i < IF a.Forward[n][2] = a.Line_num THEN c ELSE W[a.Forward[n][2]].marks
      BY <2>3, <3>1 DEF Collected, n
    <3>3. /\ a.Forward[i][2] <= a.Forward[i][2] /\ a.Forward[i][2] <= a.Line_num
          /\ a.Forward[i][2] = a.Line_num => a.Forward[i] = Here(a)
      <4>1. i <= i
        OBVIOUS
      <4> QED
        BY <2>3, <4>1 DEF Collected, n
    <3>4. a.Forward[i][2] \in Nat /\ a.Forward[n][2] \in Nat
      BY <1>6, <2>3, <3>1
    <3>5. a.Forward[i][2] = a.Line_num => k - i < c + 1
      <4> SUFFICES ASSUME a.Forward[i][2] = a.Line_num
                   PROVE  k - i < c + 1
        OBVIOUS
      <4>1. a.Forward[n][2] = a.Line_num
        BY <1>1, <3>2, <3>4
      <4>2. n - i < c
        BY <3>2, <4>1
      <4> QED
        BY <1>1, <2>3, <4>2
    <3> QED
      BY <1>1, <1>2, <3>1, <3>3, <3>5 DEF h
  <2> QED
    BY <1>1, <2>1, <2>2, <2>3
<1> QED
  BY <1>1, <1>3 DEF Collected

(* A mark that pass 2 has read.                                            *)
LEMMA NextCounts ==
  ASSUME NEW a, Good(a), NEW b, Quiet(a, b), a.Pass = 2, a.F_ref = Here(a), a.errors \subseteq b.errors,
         b.F_ref = IF a.Forward = <<>> THEN <<0, 0>> ELSE Head(a.Forward),
         b.Forward = IF a.Forward = <<>> THEN <<>> ELSE Tail(a.Forward),
         NEW W, NEW c \in Nat, Pending(W, a, c + 1)
  PROVE  Pending(W, b, c)
<1>1. CASE Harmed(a)
  BY <1>1 DEF Harmed, Pending
<1>2. CASE a.Forward = <<>>
  BY <1>2 DEF Pending
<1>3. CASE a.Forward # <<>> /\ ~ Harmed(a)
  <2> DEFINE n == Len(a.Forward)
  <2>1. /\ n \in Nat /\ n > 0 /\ Len(b.Forward) = n - 1 /\ b.F_ref = a.Forward[1]
        /\ \A i \in 1 .. n - 1 : b.Forward[i] = a.Forward[i + 1]
    <3>1. a.Forward \in Seq(Nat \X Nat)
      BY DEF Good, Typed
    <3>2. b.F_ref = Head(a.Forward) /\ b.Forward = Tail(a.Forward)
      BY <1>3
    <3> QED
      BY <1>3, <3>1, <3>2
  <2> HIDE DEF n
  <2>2. \A i \in 0 .. n - 1 : At(b, i) = At(a, i + 1) /\ i + 1 \in 0 .. n
    <3> TAKE i \in 0 .. n - 1
    <3>1. CASE i = 0
      BY <2>1, <3>1 DEF At
    <3>2. CASE i # 0
      <4>1. i \in 1 .. n - 1 /\ i + 1 # 0 /\ i + 1 \in 0 .. n
        BY <2>1, <3>2
      <4>2. b.Forward[i] = a.Forward[i + 1]
        BY <2>1, <4>1
      <4> QED
        BY <3>2, <4>1, <4>2 DEF At
    <3> QED
      BY <3>1, <3>2
  <2>3. \A i, k \in 0 .. n : i <= k =>
         /\ a.Line_num <= At(a, i)[2] /\ At(a, i)[2] <= At(a, k)[2]
         /\ At(a, i)[2] = At(a, k)[2] => At(a, i) = At(a, k) /\ k - i < W[At(a, i)[2]].marks
         /\ At(a, k)[2] = a.Line_num => At(a, k) = Here(a) /\ k < c + 1
         /\ At(a, k)[2] # a.Line_num => OfLine(W, At(a, k))
    BY <1>3 DEF Pending, n
  <2>4. b.Line_num = a.Line_num /\ Here(b) = Here(a)
    BY DEF Quiet, Here
  <2>5. ASSUME NEW i \in 0 .. n - 1, NEW k \in 0 .. n - 1, i <= k
        PROVE  /\ b.Line_num <= At(b, i)[2] /\ At(b, i)[2] <= At(b, k)[2]
               /\ At(b, i)[2] = At(b, k)[2] => At(b, i) = At(b, k) /\ k - i < W[At(b, i)[2]].marks
               /\ At(b, k)[2] = b.Line_num => At(b, k) = Here(b) /\ k < c
               /\ At(b, k)[2] # b.Line_num => OfLine(W, At(b, k))
    <3>1. i + 1 \in 0 .. n /\ k + 1 \in 0 .. n /\ i + 1 <= k + 1 /\ (k + 1) - (i + 1) = k - i
      BY <2>1, <2>5
    <3>2. /\ a.Line_num <= At(a, i + 1)[2] /\ At(a, i + 1)[2] <= At(a, k + 1)[2]
          /\ At(a, i + 1)[2] = At(a, k + 1)[2] => At(a, i + 1) = At(a, k + 1) /\ k - i < W[At(a, i + 1)[2]].marks
          /\ At(a, k + 1)[2] = a.Line_num => At(a, k + 1) = Here(a) /\ k + 1 < c + 1
          /\ At(a, k + 1)[2] # a.Line_num => OfLine(W, At(a, k + 1))
      BY <2>3, <3>1
    <3>3. k + 1 < c + 1 => k < c
      OBVIOUS
    <3> QED
      BY <2>2, <2>4, <3>2, <3>3
  <2> QED
    BY <2>1, <2>5 DEF Pending
<1> QED
  BY <1>1, <1>2, <1>3

(* When the mark that is next is not of this line, there is none of it.    *)
LEMMA NoneCounts ==
  ASSUME NEW a, Good(a), a.F_ref # Here(a), NEW W, NEW c \in Nat, Pending(W, a, c + 1)
  PROVE  Pending(W, a, c)
<1>1. CASE Harmed(a) \/ (a.F_ref = <<0, 0>> /\ a.Forward = <<>>)
  BY <1>1 DEF Pending
<1>2. CASE \A i, k \in 0 .. Len(a.Forward) : i <= k =>
         /\ a.Line_num <= At(a, i)[2] /\ At(a, i)[2] <= At(a, k)[2]
         /\ At(a, i)[2] = At(a, k)[2] => At(a, i) = At(a, k) /\ k - i < W[At(a, i)[2]].marks
         /\ At(a, k)[2] = a.Line_num => At(a, k) = Here(a) /\ k < c + 1
         /\ At(a, k)[2] # a.Line_num => OfLine(W, At(a, k))
  <2>1. Len(a.Forward) \in Nat /\ a.Line_num \in Nat /\ At(a, 0) = a.F_ref /\ a.F_ref[2] \in Nat
    BY DEF Good, Typed, At
  <2>0. 0 \in 0 .. Len(a.Forward) /\ 0 <= 0
    BY <2>1
  <2>2. a.Line_num <= a.F_ref[2] /\ a.F_ref[2] # a.Line_num
    BY <1>2, <2>0, <2>1
  <2>3. ASSUME NEW k \in 0 .. Len(a.Forward)
        PROVE  At(a, k)[2] # a.Line_num
    <3>1. a.F_ref[2] <= At(a, k)[2]
      <4>1. 0 <= k
        BY <2>1
      <4> QED
        BY <1>2, <2>0, <2>1, <4>1
    <3>2. ASSUME At(a, k)[2] = a.Line_num
          PROVE  FALSE
      BY <2>1, <2>2, <3>1, <3>2
    <3> QED
      BY <3>2
  <2> QED
    BY <1>2, <2>3 DEF Pending
<1> QED
  BY <1>1, <1>2 DEF Pending

(* The marks that are left are those of before but one of this line.       *)
LEMMA NextReads ==
  ASSUME NEW a, Good(a), NEW b, a.Pass = 2, a.F_ref = Here(a),
         b.F_ref = IF a.Forward = <<>> THEN <<0, 0>> ELSE Head(a.Forward),
         b.Forward = IF a.Forward = <<>> THEN <<>> ELSE Tail(a.Forward)
  PROVE  Reads(a, b, 1)
<1>0. a.F_ref[2] = a.Line_num /\ a.Forward \in Seq(Nat \X Nat)
  BY DEF Here, Good, Typed
<1>1. CASE a.Forward = <<>>
  <2>1. At(b, 0) = <<0, 0>> /\ At(a, 0) = a.F_ref /\ Len(a.Forward) = 0 /\ Len(b.Forward) = 0
    BY <1>1 DEF At
  <2>2. \A i \in 0 .. 0 : i = 0
    OBVIOUS
  <2>3. \A j : (Awaits(b, j) <=> j = 0) /\ (Awaits(a, j) <=> a.F_ref[2] = j)
    BY <2>1, <2>2 DEF Awaits
  <2> QED
    BY <1>0, <2>3 DEF Reads
<1>2. CASE a.Forward # <<>>
  <2>1. PICK n \in Nat : n = Len(a.Forward)
    BY <1>0
  <2>2. n > 0 /\ Len(b.Forward) = n - 1 /\ b.F_ref = a.Forward[1] /\ \A i \in 1 .. n - 1 : b.Forward[i] = a.Forward[i + 1]
    BY <1>0, <1>2, <2>1
  <2>3. \A i \in 0 .. n - 1 : At(b, i) = At(a, i + 1)
    <3> TAKE i \in 0 .. n - 1
    <3>1. i + 1 # 0 /\ (i # 0 => i \in 1 .. n - 1)
      OBVIOUS
    <3> QED
      BY <2>2, <3>1 DEF At
  <2>4. \A i \in 0 .. n - 1 : i + 1 \in 0 .. n
    OBVIOUS
  <2>5. \A i \in 0 .. n : i = 0 \/ (i - 1 \in 0 .. n - 1 /\ (i - 1) + 1 = i)
    OBVIOUS
  <2>6. At(a, 0) = a.F_ref
    BY DEF At
  <2>7. ASSUME NEW j
        PROVE  /\ Awaits(b, j) => Awaits(a, j)
               /\ Awaits(a, j) => Awaits(b, j) \/ j = a.Line_num
    <3>1. ASSUME Awaits(b, j)
          PROVE  Awaits(a, j)
      <4>1. PICK i \in 0 .. n - 1 : At(b, i)[2] = j
        BY <2>2, <3>1 DEF Awaits
      <4>2. i + 1 \in 0 .. n /\ At(a, i + 1)[2] = j
        BY <2>3, <4>1
      <4> QED
        BY <2>1, <4>2 DEF Awaits
    <3>2. ASSUME Awaits(a, j), j # a.Line_num
          PROVE  Awaits(b, j)
      <4>1. PICK i \in 0 .. n : At(a, i)[2] = j
        BY <2>1, <3>2 DEF Awaits
      <4>2. i # 0
        BY <1>0, <2>6, <3>2, <4>1
      <4>3. PICK k \in 0 .. n - 1 : k + 1 = i
        BY <2>5, <4>2
      <4>4. At(b, k)[2] = j
        BY <2>3, <4>1, <4>3
      <4> QED
        BY <2>2, <4>3, <4>4 DEF Awaits
    <3> QED
      BY <3>1, <3>2
  <2> QED
    BY <2>7 DEF Reads
<1> QED
  BY <1>1, <1>2

FwdFields(a, b) ==
  /\ Quiet(a, b) /\ b.Result = a.Result /\ b.root = a.root /\ b.ahead = a.ahead /\ b.errors = a.errors
  /\ b.Force_word = a.Force_word /\ b.Force_byte = a.Force_byte
  /\ b.F_ref = IF a.Forward = <<>> THEN <<0, 0>> ELSE Head(a.Forward)
  /\ b.Forward = IF a.Forward = <<>> THEN <<>> ELSE Tail(a.Forward)

LEMMA FwdNextFields ==
  ASSUME NEW a, Fields \subseteq DOMAIN a
  PROVE  FwdFields(a, FwdNext(a))
<1> DEFINE ref == IF a.Forward = <<>> THEN <<0, 0>> ELSE Head(a.Forward)
           rest == IF a.Forward = <<>> THEN <<>> ELSE Tail(a.Forward)
<1>1. FwdNext(a) = [a EXCEPT !.F_ref = ref, !.Forward = rest]
  BY DEF FwdNext
<1>2. ref = (IF a.Forward = <<>> THEN <<0, 0>> ELSE Head(a.Forward)) /\ rest = (IF a.Forward = <<>> THEN <<>> ELSE Tail(a.Forward))
  OBVIOUS
<1> HIDE DEF ref, rest
<1>3. FwdNext(a).F_ref = ref /\ FwdNext(a).Forward = rest
  BY <1>1 DEF Fields
<1>4. /\ Quiet(a, FwdNext(a)) /\ FwdNext(a).Result = a.Result /\ FwdNext(a).root = a.root /\ FwdNext(a).ahead = a.ahead
      /\ FwdNext(a).errors = a.errors /\ FwdNext(a).Force_word = a.Force_word /\ FwdNext(a).Force_byte = a.Force_byte
  BY <1>1 DEF Fields, Quiet
<1> QED
  BY <1>2, <1>3, <1>4 DEF FwdFields

(* What a symbol changes: the marks, the errors, and Force_word.           *)
LEMMA SymbolDoes ==
  ASSUME NEW a, Good(a), NEW name
  PROVE  /\ Does(a, Symbol(a, name), 1)
         /\ Quiet(a, Symbol(a, name)) /\ Symbol(a, name).root = a.root /\ Symbol(a, name).Result = a.Result
<1> DEFINE b == Symbol(a, name)
           new == a.Pass = 1 /\ name \notin DOMAIN a.root
<1>0. Fields \subseteq DOMAIN a /\ a.Pass \in {1, 2} /\ a.Result \in Int /\ RootOK(a.root)
  BY DEF Good, Typed
<1>1. CASE new
  <2> DEFINE more == Append(a.Forward, Here(a))
             lines == a.ahead \cup {a.Line_num}
             force == a.Force_word \/ ~ a.Force_byte
  <2>1. b = [a EXCEPT !.Forward = more, !.ahead = lines, !.Force_word = force]
    BY <1>1 DEF Symbol, Marked
  <2>2. more \in Seq(Nat \X Nat) /\ AheadOK(1, lines, more)
    <3>1. Here(a) \in Nat \X Nat /\ Here(a)[2] = a.Line_num
      BY DEF Good, Typed, Here
    <3>2. a.Forward \in Seq(Nat \X Nat) /\ \A j : j \in a.ahead <=> \E i \in 1 .. Len(a.Forward) : a.Forward[i][2] = j
      BY <1>1 DEF Good, Typed, AheadOK
    <3> DEFINE n == Len(a.Forward)
    <3>3. /\ more \in Seq(Nat \X Nat) /\ n \in Nat /\ Len(more) = n + 1 /\ more[n + 1] = Here(a)
          /\ \A i \in 1 .. n : more[i] = a.Forward[i]
      BY <3>1, <3>2, AppendProperties
    <3> HIDE DEF n
    <3>4. ASSUME NEW j
          PROVE  j \in lines <=> \E i \in 1 .. n + 1 : more[i][2] = j
      <4>1. ASSUME j \in a.ahead
            PROVE  \E i \in 1 .. n + 1 : more[i][2] = j
        <5>1. PICK i \in 1 .. n : a.Forward[i][2] = j
          BY <3>2, <4>1 DEF n
        <5>2. i \in 1 .. n + 1 /\ more[i][2] = j
          BY <3>3, <5>1
        <5> QED
          BY <5>2
      <4>2. ASSUME j = a.Line_num
            PROVE  \E i \in 1 .. n + 1 : more[i][2] = j
        <5>1. n + 1 \in 1 .. n + 1 /\ more[n + 1][2] = j
          BY <3>1, <3>3, <4>2
        <5> QED
          BY <5>1
      <4>3. ASSUME NEW i \in 1 .. n + 1, more[i][2] = j
            PROVE  j \in lines
        <5>1. CASE i = n + 1
          BY <3>1, <3>3, <4>3, <5>1
        <5>2. CASE i # n + 1
          <6>1. i \in 1 .. n /\ a.Forward[i][2] = j
            BY <3>3, <4>3, <5>2
          <6>2. j \in a.ahead
            BY <3>2, <6>1 DEF n
          <6> QED
            BY <6>2
        <5> QED
          BY <5>1, <5>2
      <4> QED
        BY <4>1, <4>2, <4>3
    <3> HIDE DEF more, lines
    <3> QED
      BY <3>3, <3>4 DEF AheadOK
  <2> HIDE DEF more, lines, force
  <2>3. /\ Quiet(a, b) /\ b.root = a.root /\ b.Result = a.Result /\ b.F_ref = a.F_ref
        /\ b.errors = a.errors /\ b.Forward = more /\ b.ahead = lines
    BY <1>0, <2>1 DEF Quiet, Fields
  <2> HIDE DEF b
  <2>4. Good(b)
    <3>1. a.F_ref \in Nat \X Nat
      BY DEF Good, Typed
    <3>2. b.Pass = 1
      BY <1>1, <2>3 DEF Quiet
    <3> QED
      BY <1>0, <2>2, <2>3, <3>1, <3>2, QuietGood
  <2>5. Keeps(a, b)
    BY <1>1, <2>3 DEF Keeps, Quiet, Holds, lines
  <2>6. Counts(a, b, 1) /\ Reads(a, b, 1)
    BY <1>1, <2>3, MarkCounts DEF more, Reads
  <2> QED
    BY <2>3, <2>4, <2>5, <2>6 DEF Does, b
<1>2. CASE ~ new
  <2> DEFINE d == Lookup(a, name)
             force == d.Force_word \/ ~ a.Force_byte
             f == [d EXCEPT !.Force_word = force]
  <2>1. /\ Quiet(a, d) /\ d.Result = a.Result /\ d.root = a.root
        /\ d.Forward = a.Forward /\ d.F_ref = a.F_ref /\ d.ahead = a.ahead
    BY LookupFields
  <2>2. Does(a, d, 0)
    BY LookupDoes
  <2>3. b = IF Marked(a) THEN FwdNext(f) ELSE d
    BY <1>2, Zenon DEF Symbol
  <2> HIDE DEF d, b, force
  <2>4. CASE ~ Marked(a)
    <3>1. b = d
      BY <2>3, <2>4
    <3>2. Counts(a, d, 1)
      <4>1. ASSUME a.Pass = 1, NEW W, NEW c \in Nat, Collected(W, a, c)
            PROVE  Collected(W, d, c + 1)
        <5>1. Collected(W, d, c + 0) /\ c + 0 = c
          BY <2>2, <4>1 DEF Does, Counts
        <5>2. Collected(W, d, c)
          BY <5>1
        <5> QED
          BY <5>2, CollectedMore
      <4>2. ASSUME a.Pass = 2, NEW W, NEW c \in Nat, Pending(W, a, c + 1)
            PROVE  Pending(W, d, c)
        <5>1. a.F_ref # Here(a)
          BY <2>4, <4>2 DEF Marked
        <5>2. Pending(W, a, c)
          BY <4>2, <5>1, NoneCounts
        <5>3. c + 0 = c
          OBVIOUS
        <5> QED
          BY <2>2, <4>2, <5>2, <5>3 DEF Does, Counts
      <4> QED
        BY <4>1, <4>2 DEF Counts
    <3>3. Does(a, d, 1)
      BY <2>2, <3>2 DEF Does, Reads
    <3> QED
      BY <2>1, <3>1, <3>3 DEF b
  <2>5. CASE Marked(a)
    <3>1. b = FwdNext(f) /\ a.Pass = 2 /\ a.F_ref = Here(a)
      BY <2>3, <2>5 DEF Marked
    <3>2. Fields \subseteq DOMAIN d /\ Good(d) /\ d.Pass = 2 /\ Here(d) = Here(a)
      BY <2>1, <2>2, <3>1 DEF Quiet, Does, Here
    <3>3. /\ Fields \subseteq DOMAIN f /\ Quiet(d, f) /\ f.Result = d.Result /\ f.root = d.root
          /\ f.Forward = d.Forward /\ f.F_ref = d.F_ref /\ f.ahead = d.ahead /\ f.errors = d.errors
      BY <3>2 DEF Fields, Quiet
    <3> HIDE DEF f
    <3>4. FwdFields(f, b)
      BY <3>1, <3>3, FwdNextFields
    <3>5. /\ Quiet(d, b) /\ b.Result = a.Result /\ b.root = a.root /\ b.ahead = d.ahead /\ b.errors = d.errors
          /\ b.F_ref = IF d.Forward = <<>> THEN <<0, 0>> ELSE Head(d.Forward)
          /\ b.Forward = IF d.Forward = <<>> THEN <<>> ELSE Tail(d.Forward)
      BY <2>1, <3>3, <3>4 DEF FwdFields, Quiet
    <3>6. Quiet(a, b)
      BY <2>1, <3>5 DEF Quiet
    <3>7. b.F_ref \in Nat \X Nat /\ b.Forward \in Seq(Nat \X Nat)
      <4>1. d.Forward \in Seq(Nat \X Nat)
        BY <3>2 DEF Good, Typed
      <4> QED
        BY <3>5, <4>1
    <3>8. Good(b)
      <4>1. AheadOK(b.Pass, b.ahead, b.Forward)
        BY <3>1, <3>6 DEF AheadOK, Quiet
      <4> QED
        BY <1>0, <3>5, <3>6, <3>7, <4>1, QuietGood
    <3>9. Keeps(a, b)
      BY <2>1, <2>2, <3>5, <3>6 DEF Keeps, Quiet, Does, Holds
    <3>11. Reads(a, b, 1)
      <4>1. d.F_ref = Here(d) /\ d.Line_num = a.Line_num
        BY <2>1, <3>1, <3>2 DEF Quiet
      <4>2. Reads(d, b, 1)
        BY <3>2, <3>5, <4>1, NextReads
      <4>3. \A j : Awaits(d, j) <=> Awaits(a, j)
        <5>1. \A i : At(d, i) = At(a, i)
          BY <2>1, Zenon DEF At
        <5> QED
          BY <2>1, <5>1 DEF Awaits
      <4> QED
        BY <3>1, <3>2, <4>1, <4>2, <4>3 DEF Reads
    <3>10. Counts(a, b, 1)
      <4>1. ASSUME NEW W, NEW c \in Nat, Pending(W, a, c + 1)
            PROVE  Pending(W, b, c)
        <5>1. Pending(W, d, c + 1)
          <6>1. c + 1 \in Nat /\ (c + 1) + 0 = c + 1
            OBVIOUS
          <6> QED
            BY <2>2, <3>1, <4>1, <6>1 DEF Does, Counts
        <5>2. d.F_ref = Here(d) /\ d.errors \subseteq b.errors
          BY <2>1, <3>1, <3>2, <3>5
        <5> QED
          BY <3>2, <3>5, <5>1, <5>2, NextCounts
      <4> QED
        BY <3>1, <4>1 DEF Counts
    <3> QED
      BY <3>5, <3>6, <3>8, <3>9, <3>10, <3>11 DEF Does, b
  <2> QED
    BY <2>4, <2>5
<1> QED
  BY <1>1, <1>2

LEMMA ConnectTyped ==
  ASSUME NEW op \in Connectors, NEW x \in Int, NEW y \in Int, op \in {"/", "%"} => y # 0
  PROVE  Connect(op, x, y) \in Int /\ (op = "+" /\ x \in Nat /\ y \in Nat => Connect(op, x, y) \in Nat)
<1>1. ASSUME y # 0
      PROVE  Quotient(x, y) \in Int
  <2>1. Magnitude(x) \in Nat /\ Magnitude(y) \in Nat /\ Magnitude(y) # 0
    BY <1>1 DEF Magnitude
  <2>2. PICK q \in Int : q = Magnitude(x) \div Magnitude(y)
    BY <2>1
  <2>3. Quotient(x, y) = q \/ Quotient(x, y) = - q
    BY <2>2 DEF Quotient
  <2> QED
    BY <2>2, <2>3
<1>2. CASE op = "+"
  BY <1>2 DEF Connect
<1>3. CASE op = "-"
  BY <1>3 DEF Connect
<1>4. CASE op = "*"
  <2>1. x * y \in Int
    OBVIOUS
  <2>2. Connect(op, x, y) = x * y
    BY <1>4 DEF Connect
  <2> QED
    BY <1>4, <2>1, <2>2
<1>5. CASE op = "/"
  <2>1. Quotient(x, y) \in Int
    BY <1>1, <1>5
  <2>2. Connect(op, x, y) = Quotient(x, y)
    BY <1>5 DEF Connect
  <2> QED
    BY <1>5, <2>1, <2>2
<1>6. CASE op = "%"
  <2>1. PICK q \in Int : q = Quotient(x, y)
    BY <1>1, <1>6
  <2>2. Connect(op, x, y) = x - (y * q)
    BY <1>6, <2>1 DEF Connect
  <2>3. y * q \in Int
    OBVIOUS
  <2> QED
    BY <1>6, <2>2, <2>3
<1> QED
  BY <1>2, <1>3, <1>4, <1>5, <1>6 DEF Connectors

LEMMA TermTyped ==
  ASSUME NEW a, Good(a), NEW t \in Terms
  PROVE  /\ t.op \in Connectors /\ TermValue(a, t) \in Int
         /\ t.op \in {"/", "%"} => TermValue(a, t) # 0
         /\ t.num \in Nat => TermValue(a, t) \in Nat
<1>1. t.op \in Connectors /\ t.num \in Int /\ (t.op \in {"/", "%"} => t.sym = "" /\ t.num # 0)
  BY DEF Terms
<1>2. CASE t.sym = ""
  <2>1. TermValue(a, t) = t.num
    BY <1>2 DEF TermValue
  <2> QED
    BY <1>1, <2>1
<1>3. CASE t.sym = "*"
  <2>1. TermValue(a, t) = a.Old_pc
    BY <1>3 DEF TermValue
  <2>2. a.Old_pc \in Nat /\ a.Old_pc \in Int
    BY DEF Good, Typed
  <2> QED
    BY <1>1, <1>3, <2>1, <2>2
<1>4. CASE t.sym \notin {"", "*"}
  <2>1. TermValue(a, t) = IF t.sym \in DOMAIN a.root THEN a.root[t.sym] ELSE 0
    BY <1>4 DEF TermValue
  <2>2. t.sym \in DOMAIN a.root => a.root[t.sym] \in Nat
    BY DEF Good, Typed, RootOK
  <2>3. TermValue(a, t) \in Nat /\ TermValue(a, t) \in Int
    BY <2>1, <2>2
  <2> QED
    BY <1>1, <1>4, <2>3
<1> QED
  BY <1>2, <1>3, <1>4

TermMarks(t) == IF t.sym \in {"", "*"} THEN 0 ELSE 1

Adds(t) == t.op = "+" /\ t.num \in Nat

LEMMA GetTermDoes ==
  ASSUME NEW a, Good(a), NEW t \in Terms
  PROVE  /\ Does(a, GetTerm(a, t), TermMarks(t))
         /\ Quiet(a, GetTerm(a, t)) /\ GetTerm(a, t).root = a.root
         /\ Adds(t) /\ a.Result \in Nat => GetTerm(a, t).Result \in Nat
<1> DEFINE d == IF t.sym \in {"", "*"} THEN a ELSE Symbol(a, t.sym)
           v == Connect(t.op, d.Result, TermValue(a, t))
           b == [d EXCEPT !.Result = v]
<1>0. Fields \subseteq DOMAIN a /\ a.Result \in Int
  BY DEF Good, Typed
<1>1. Does(a, d, TermMarks(t)) /\ Quiet(a, d) /\ d.root = a.root /\ d.Result = a.Result
  <2>1. CASE t.sym \in {"", "*"}
    <3>1. d = a /\ TermMarks(t) = 0
      BY <2>1 DEF TermMarks
    <3>2. Quiet(a, a)
      BY <1>0 DEF Quiet
    <3> HIDE DEF d
    <3> QED
      BY <3>1, <3>2, Still
  <2>2. CASE t.sym \notin {"", "*"}
    <3>1. d = Symbol(a, t.sym) /\ TermMarks(t) = 1
      BY <2>2 DEF TermMarks
    <3> HIDE DEF d
    <3> QED
      BY <3>1, SymbolDoes
  <2> QED
    BY <2>1, <2>2
<1>2. GetTerm(a, t) = b
  BY DEF GetTerm
<1> HIDE DEF d
<1>3. v \in Int /\ (Adds(t) /\ a.Result \in Nat => v \in Nat)
  BY <1>0, <1>1, TermTyped, ConnectTyped DEF Adds
<1> HIDE DEF v
<1>4. Fields \subseteq DOMAIN d /\ Good(d)
  BY <1>1 DEF Quiet, Does
<1>5. /\ Quiet(d, b) /\ b.Result = v /\ b.root = d.root /\ b.Forward = d.Forward /\ b.F_ref = d.F_ref
      /\ b.ahead = d.ahead /\ b.errors = d.errors
  BY <1>4 DEF Quiet, Fields
<1> HIDE DEF b
<1>6. Does(d, b, 0)
  <2>1. RootOK(b.root)
    BY <1>4, <1>5 DEF Good, Typed
  <2>2. Holds(d.root, b.root)
    BY <1>5 DEF Holds
  <2> QED
    BY <1>3, <1>4, <1>5, <2>1, <2>2, QuietDoes
<1>7. Does(a, b, TermMarks(t))
  <2>1. Does(a, b, TermMarks(t) + 0)
    BY <1>1, <1>6, Then
  <2>2. TermMarks(t) + 0 = TermMarks(t)
    BY DEF TermMarks
  <2> QED
    BY <2>1, <2>2
<1>8. Quiet(a, b)
  BY <1>1, <1>5 DEF Quiet
<1> QED
  BY <1>1, <1>2, <1>3, <1>5, <1>7, <1>8

-----------------------------------------------------------------------------
(* What every turn of a fold does the fold does.                           *)

Turns(k, S, a, b, n) ==
  /\ Does(a, b, n)
  /\ k = "GetTerm" => /\ Quiet(a, b) /\ b.root = a.root
                      /\ (\A t \in S : Adds(t)) /\ a.Result \in Nat => b.Result \in Nat

TurnsBy(k, S, seq, n) == \A a : Good(a) => Turns(k, S, a, Folded(k, a, seq), n)

LEMMA FoldDoes ==
  ASSUME NEW k, NEW S, NEW seq \in Seq(S), NEW N, \A x \in S : N[x] \in Nat,
         \A x \in S : \A a : Good(a) => Turns(k, S, a, FoldTurn(k, a, x), N[x])
  PROVE  \E n \in Nat : TurnsBy(k, S, seq, n) /\ ((\A x \in S : N[x] = 0) => n = 0)
<1> DEFINE Upto(m) == \E n \in Nat : TurnsBy(k, S, SubSeq(seq, 1, m), n) /\ ((\A x \in S : N[x] = 0) => n = 0)
           Reached == {m \in Nat : Upto(m)}
<1>1. 0 \in Reached
  <2>1. SubSeq(seq, 1, 0) = <<>>
    OBVIOUS
  <2>2. ASSUME NEW a, Good(a)
        PROVE  Turns(k, S, a, Folded(k, a, <<>>), 0)
    <3>1. Folded(k, a, <<>>) = a
      BY FoldNone
    <3>2. Does(a, a, 0)
      BY <2>2, Still
    <3>3. Quiet(a, a)
      BY <2>2 DEF Quiet, Good, Typed
    <3> QED
      BY <3>1, <3>2, <3>3 DEF Turns
  <2>3. TurnsBy(k, S, SubSeq(seq, 1, 0), 0)
    BY <2>1, <2>2, Zenon DEF TurnsBy
  <2> QED
    BY <2>3
<1>2. ASSUME NEW m \in 1 .. Len(seq), m - 1 \in Reached
      PROVE  m \in Reached
  <2>1. PICK n \in Nat : TurnsBy(k, S, SubSeq(seq, 1, m - 1), n) /\ ((\A x \in S : N[x] = 0) => n = 0)
    BY <1>2
  <2> DEFINE x == seq[m]
             old == SubSeq(seq, 1, m - 1)
             new == SubSeq(seq, 1, m)
  <2>2. x \in S /\ old \in Seq(S) /\ new = Append(old, x)
    <3>1. m \in 1 .. Len(seq) /\ m - 1 \in 0 .. Len(seq) /\ Len(seq) \in Nat
      OBVIOUS
    <3>2. /\ old \in Seq(S) /\ Len(old) = m - 1 /\ \A i \in 1 .. m - 1 : old[i] = seq[i]
      BY <3>1
    <3>3. /\ new \in Seq(S) /\ Len(new) = m /\ \A i \in 1 .. m : new[i] = seq[i]
      BY <3>1
    <3>4. x \in S
      OBVIOUS
    <3> HIDE DEF old, new, x
    <3>5. /\ Append(old, x) \in Seq(S) /\ Len(Append(old, x)) = m /\ Append(old, x)[m] = x
          /\ \A i \in 1 .. m - 1 : Append(old, x)[i] = old[i]
      BY <3>1, <3>2, <3>4
    <3>6. \A i \in 1 .. m : new[i] = Append(old, x)[i]
      <4> TAKE i \in 1 .. m
      <4>1. CASE i = m
        BY <3>3, <3>5, <4>1 DEF x
      <4>2. CASE i # m
        <5>1. i \in 1 .. m - 1
          BY <3>1, <4>2
        <5> QED
          BY <3>2, <3>3, <3>5, <5>1
      <4> QED
        BY <4>1, <4>2
    <3>7. new = Append(old, x)
      BY <3>3, <3>5, <3>6, SeqEqual
    <3> QED
      BY <3>2, <3>4, <3>7
  <2> HIDE DEF x, old, new
  <2>3. N[x] \in Nat /\ n + N[x] \in Nat
    BY <2>2
  <2>4. ASSUME NEW a, Good(a)
        PROVE  Turns(k, S, a, Folded(k, a, new), n + N[x])
    <3> DEFINE b == Folded(k, a, old)
               c == FoldTurn(k, b, x)
    <3>1. Folded(k, a, new) = c
      BY <2>2, FoldAppend
    <3>2. Turns(k, S, a, b, n)
      BY <2>1, <2>4 DEF TurnsBy, old
    <3> HIDE DEF b
    <3>3. Good(b)
      BY <3>2 DEF Turns, Does
    <3>4. Turns(k, S, b, c, N[x])
      BY <2>2, <3>3
    <3> HIDE DEF c
    <3>5. Does(a, c, n + N[x])
      BY <3>2, <3>4, Then DEF Turns
    <3>6. k = "GetTerm" => Quiet(a, c) /\ c.root = a.root
      BY <3>2, <3>4 DEF Turns, Quiet
    <3>7. Turns(k, S, a, c, n + N[x])
      BY <3>2, <3>4, <3>5, <3>6 DEF Turns
    <3> QED
      BY <3>1, <3>7
  <2>5. (\A y \in S : N[y] = 0) => n + N[x] = 0
    BY <2>1, <2>2, <2>3
  <2>6. TurnsBy(k, S, new, n + N[x])
    BY <2>4 DEF TurnsBy
  <2> QED
    BY <2>3, <2>5, <2>6 DEF new
<1>3. Len(seq) \in Reached
  <2> HIDE DEF Reached
  <2>1. \A m \in 1 .. Len(seq) : m - 1 \in Reached => m \in Reached
    BY <1>2
  <2>2. Len(seq) \in Nat
    OBVIOUS
  <2>3. PICK len \in Nat : len = Len(seq)
    BY <2>2
  <2>4. \A i \in 0 .. len : i \in Reached
    BY <1>1, <2>1, <2>3, Climb
  <2> QED
    BY <2>3, <2>4
<1>4. SubSeq(seq, 1, Len(seq)) = seq
  OBVIOUS
<1> QED
  BY <1>3, <1>4

LEMMA ThenNothing ==
  ASSUME NEW a, NEW b, NEW c, NEW n, Does(a, b, n), Does(b, c, 0)
  PROVE  Does(a, c, n)
<1>1. Does(a, c, n + 0)
  BY Then
<1>2. n + 0 = n
  BY DEF Does
<1> QED
  BY <1>1, <1>2

LEMMA ThenEmit ==
  ASSUME NEW a, NEW b, NEW n, Does(a, b, n), NEW x \in Int
  PROVE  Does(a, Emit(b, x), n)
<1>1. Does(b, Emit(b, x), 0)
  BY EmitDoes DEF Does
<1> QED
  BY <1>1, ThenNothing

LEMMA ThenError ==
  ASSUME NEW a, NEW b, NEW n, Does(a, b, n), NEW what
  PROVE  Does(a, Error(b, what), n)
<1>1. Does(b, Error(b, what), 0)
  BY ErrorDoes DEF Does
<1> QED
  BY <1>1, ThenNothing

(* After an error that is harmful nothing has to be counted.               *)
LEMMA ThenHarm ==
  ASSUME NEW a, NEW b, NEW n, Does(a, b, n), NEW what, what \notin Soft, NEW m \in Nat
  PROVE  Does(a, Error(b, what), n + m)
<1>1. Does(b, Error(b, what), m)
  BY HarmDoes DEF Does
<1> QED
  BY <1>1, Then

LEMMA ThenEmitAll ==
  ASSUME NEW a, NEW b, NEW n, Does(a, b, n), NEW bytes \in Seq(Int)
  PROVE  Does(a, EmitAll(b, bytes), n)
<1> DEFINE none == [x \in Int |-> 0]
           k == "Emit"
<1>1. \A x \in Int : none[x] = 0 /\ none[x] \in Nat
  OBVIOUS
<1> HIDE DEF none
<1>2. ASSUME NEW x \in Int, NEW c, Good(c)
      PROVE  Turns(k, Int, c, FoldTurn(k, c, x), none[x])
  <2>1. FoldTurn(k, c, x) = Emit(c, x)
    BY DEF FoldTurn
  <2>2. Does(c, Emit(c, x), 0)
    BY <1>2, EmitDoes
  <2> QED
    BY <1>1, <2>1, <2>2 DEF Turns
<1>0. k # "GetTerm" /\ k = "Emit"
  OBVIOUS
<1> HIDE DEF k
<1>3. PICK m \in Nat : TurnsBy(k, Int, bytes, m) /\ ((\A x \in Int : none[x] = 0) => m = 0)
  BY <1>1, <1>2, FoldDoes
<1>4. m = 0
  BY <1>1, <1>3
<1>5. Does(b, Folded(k, b, bytes), 0)
  BY <1>3, <1>4 DEF TurnsBy, Turns, Does
<1>6. EmitAll(b, bytes) = Folded(k, b, bytes)
  BY <1>0, FoldsAre
<1> QED
  BY <1>5, <1>6, ThenNothing

LEMMA WordTyped ==
  ASSUME NEW n \in Int
  PROVE  Word(n) \in Seq(Int)
BY DEF Word

-----------------------------------------------------------------------------
(* Expressions: how many symbols they evaluate is the same in both passes. *)

Evals(a, b, n) == Does(a, b, n) /\ Quiet(a, b) /\ b.root = a.root

EvalsTo(e, n) ==
  \A a : Good(a) => /\ Evals(a, Eval(a, e), n)
                    /\ (\A t \in Range(e.terms) : Adds(t)) => Eval(a, e).Result \in Nat

LEMMA EvalDoes ==
  ASSUME NEW e \in Expressions
  PROVE  \E n \in Nat : EvalsTo(e, n)
<1> DEFINE S == Range(e.terms)
           marks == [t \in S |-> TermMarks(t)]
           k == "GetTerm"
<1>1. e.terms \in Seq(Terms)
  BY DEF Expressions
<1>2. e.terms \in Seq(S) /\ S \subseteq Terms
  BY <1>1 DEF Range
<1>3. \A t \in S : marks[t] = TermMarks(t) /\ marks[t] \in Nat
  BY DEF TermMarks
<1>0. k = "GetTerm"
  OBVIOUS
<1> HIDE DEF S, marks, k
<1>4. ASSUME NEW t \in S, NEW a, Good(a)
      PROVE  Turns(k, S, a, FoldTurn(k, a, t), marks[t])
  <2>1. FoldTurn(k, a, t) = GetTerm(a, t)
    BY <1>0 DEF FoldTurn
  <2>2. t \in Terms
    BY <1>2
  <2> QED
    BY <1>3, <1>4, <2>1, <2>2, GetTermDoes DEF Turns
<1>5. PICK n \in Nat : TurnsBy(k, S, e.terms, n)
  BY <1>2, <1>3, <1>4, FoldDoes
<1>6. ASSUME NEW a, Good(a)
      PROVE  /\ Evals(a, Eval(a, e), n)
             /\ (\A t \in S : Adds(t)) => Eval(a, e).Result \in Nat
  <2> DEFINE low == e.force = "<"
             high == e.force = ">"
             b == [a EXCEPT !.Result = 0, !.Force_byte = low, !.Force_word = high]
             c == Folded(k, b, e.terms)
  <2>1. Eval(a, e) = c
    <3>1. Eval(a, e) = FoldLeft(GetTerm, b, e.terms)
      BY DEF Eval
    <3> HIDE DEF b
    <3> QED
      BY <1>0, <3>1, FoldsAre
  <2> HIDE DEF low, high
  <2>2. Fields \subseteq DOMAIN a /\ RootOK(a.root)
    BY <1>6 DEF Good, Typed
  <2>3. /\ Quiet(a, b) /\ b.Result = 0 /\ b.root = a.root /\ b.Forward = a.Forward /\ b.F_ref = a.F_ref
        /\ b.ahead = a.ahead /\ b.errors = a.errors
    BY <2>2 DEF Quiet, Fields
  <2> HIDE DEF b
  <2>4. Does(a, b, 0)
    <3>1. Holds(a.root, b.root)
      BY <2>3 DEF Holds
    <3> QED
      BY <1>6, <2>2, <2>3, <3>1, QuietDoes
  <2>5. Turns(k, S, b, c, n)
    BY <1>5, <2>4 DEF TurnsBy, Does
  <2> HIDE DEF c
  <2>6. Does(a, c, n)
    <3>1. Does(a, c, 0 + n)
      BY <2>4, <2>5, Then DEF Turns
    <3> QED
      BY <3>1
  <2>7. Quiet(a, c) /\ c.root = a.root
    BY <1>0, <2>3, <2>5 DEF Turns, Quiet
  <2>8. (\A t \in S : Adds(t)) => c.Result \in Nat
    BY <1>0, <2>3, <2>5 DEF Turns
  <2> QED
    BY <2>1, <2>6, <2>7, <2>8 DEF Evals
<1> QED
  BY <1>6 DEF EvalsTo, S

Cost(e) == CHOOSE n \in Nat : EvalsTo(e, n)

LEMMA CostDoes ==
  ASSUME NEW e \in Expressions
  PROVE  Cost(e) \in Nat /\ EvalsTo(e, Cost(e))
BY EvalDoes DEF Cost

LEMMA EvalResult ==
  ASSUME NEW a, Good(a), NEW e \in Expressions
  PROVE  /\ Good(Eval(a, e)) /\ Eval(a, e).Result \in Int /\ Quiet(a, Eval(a, e)) /\ Eval(a, e).root = a.root
         /\ Eval(a, e).Pc \in Nat /\ Eval(a, e).Old_pc \in Nat
         /\ (\A t \in Range(e.terms) : Adds(t)) => Eval(a, e).Result \in Nat
<1> DEFINE b == Eval(a, e)
<1>1. /\ Good(b) /\ Quiet(a, b) /\ b.root = a.root
      /\ (\A t \in Range(e.terms) : Adds(t)) => b.Result \in Nat
  BY CostDoes DEF EvalsTo, Evals, Does
<1> HIDE DEF b
<1>2. b.Result \in Int /\ b.Pc \in Nat /\ b.Old_pc \in Nat
  BY <1>1 DEF Good, Typed
<1> QED
  BY <1>1, <1>2 DEF b

LEMMA ThenEval ==
  ASSUME NEW a, NEW b, NEW n, Does(a, b, n), NEW e \in Expressions
  PROVE  Does(a, Eval(b, e), n + Cost(e))
<1>1. Does(b, Eval(b, e), Cost(e))
  BY CostDoes DEF EvalsTo, Evals, Does
<1> QED
  BY <1>1, Then

LEMMA ThenEvalByte ==
  ASSUME NEW a, NEW b, NEW n, Does(a, b, n), NEW e \in Expressions
  PROVE  Does(a, EvalByte(b, e), n + Cost(e))
<1> DEFINE c == Eval(b, e)
<1>1. Does(a, c, n + Cost(e))
  BY ThenEval
<1>2. c.Result \in Int
  BY EvalResult DEF Does
<1>3. EvalByte(b, e) = Emit(c, c.Result)
  BY DEF EvalByte
<1> HIDE DEF c
<1> QED
  BY <1>1, <1>2, <1>3, ThenEmit

LEMMA ThenEvalWord ==
  ASSUME NEW a, NEW b, NEW n, Does(a, b, n), NEW e \in Expressions
  PROVE  Does(a, EvalWord(b, e), n + Cost(e))
<1> DEFINE c == Eval(b, e)
<1>1. Does(a, c, n + Cost(e))
  BY ThenEval
<1>2. Word(c.Result) \in Seq(Int)
  BY EvalResult, WordTyped DEF Does
<1>3. EvalWord(b, e) = EmitAll(c, Word(c.Result))
  BY DEF EvalWord
<1> HIDE DEF c
<1> QED
  BY <1>1, <1>2, <1>3, ThenEmitAll

LEMMA ThenAddress ==
  ASSUME NEW a, NEW b, NEW n, Does(a, b, n), NEW e \in Expressions, NEW x \in Int, NEW y \in Int
  PROVE  Does(a, Address(b, e, x, y), n + Cost(e))
<1> DEFINE c == Eval(b, e)
           bytes == IF Wide(c) THEN <<y>> \o Word(c.Result) ELSE <<x, c.Result>>
<1>1. Does(a, c, n + Cost(e))
  BY ThenEval
<1>2. c.Result \in Int
  BY EvalResult DEF Does
<1>3. Address(b, e, x, y) = EmitAll(c, bytes)
  BY DEF Address
<1> HIDE DEF c
<1>4. bytes \in Seq(Int)
  <2>1. Word(c.Result) \in Seq(Int) /\ <<y>> \in Seq(Int) /\ <<x, c.Result>> \in Seq(Int)
    BY <1>2, WordTyped
  <2>2. <<y>> \o Word(c.Result) \in Seq(Int)
    BY <2>1, ConcatProperties
  <2> QED
    BY <2>1, <2>2
<1> HIDE DEF bytes
<1> QED
  BY <1>1, <1>3, <1>4, ThenEmitAll

LEMMA ThenDisplacement ==
  ASSUME NEW a, NEW b, NEW n, Does(a, b, n), NEW e \in Expressions
  PROVE  Does(a, Displacement(b, e), n + Cost(e))
<1> DEFINE c == Eval(b, e)
           dist == c.Result - (c.Pc + 1)
           own == c.Old_pc - (c.Pc + 1)
<1>1. Does(a, c, n + Cost(e))
  BY ThenEval
<1>2. dist \in Int /\ own \in Int
  <2>1. c.Result \in Int /\ c.Pc \in Nat /\ c.Old_pc \in Nat
    BY EvalResult DEF Does
  <2> HIDE DEF c
  <2> QED
    BY <2>1
<1>3. Displacement(b, e) = Emit(c, dist) \/ Displacement(b, e) = Emit(Error(c, "Branch out of Range"), own)
  BY Zenon DEF Displacement
<1> HIDE DEF c, dist, own
<1> QED
  BY <1>1, <1>2, <1>3, ThenEmit, ThenError

(* A line with its operands, as a handler finds it.                        *)
Ready(l, k) == l.code \in Nat /\ \A i \in 1 .. k : l.args[i] \in Expressions

LEMMA LineReady ==
  ASSUME NEW cpu, NEW l, IsLine(cpu, l)
  PROVE  /\ Ready(l, 0)
         /\ \A k \in Nat : k <= Operands(l.op) => Ready(l, k)
<1>1. l.code \in Nat /\ l.args \in Seq(Expressions) /\ Operands(l.op) <= Len(l.args)
  BY DEF IsLine
<1>2. Operands(l.op) \in Nat
  BY DEF Operands
<1>3. ASSUME NEW k \in Nat, k <= Operands(l.op)
      PROVE  Ready(l, k)
  <2>1. \A i \in 1 .. k : i \in 1 .. Len(l.args)
    BY <1>1, <1>2, <1>3
  <2> QED
    BY <1>1, <2>1 DEF Ready
<1>4. Ready(l, 0)
  BY <1>1 DEF Ready
<1> QED
  BY <1>3, <1>4

LEMMA ReadyCost ==
  ASSUME NEW l, NEW k \in Nat, Ready(l, k)
  PROVE  /\ l.code \in Nat
         /\ \A i \in 1 .. k : l.args[i] \in Expressions /\ Cost(l.args[i]) \in Nat
BY CostDoes DEF Ready

-----------------------------------------------------------------------------
(* do0.c and do1.c                                                         *)

LEMMA Gen0Does ==
  ASSUME NEW a, NEW b, NEW n, Does(a, b, n), NEW l, Ready(l, 1), l.mode \in {"IMMED", "IND", "OTHER"}
  PROVE  Does(a, DoGen0(b, l), n + Cost(l.args[1]))
<1> DEFINE e == l.args[1]
<1>0. l.code \in Int /\ e \in Expressions /\ l.code + 16 \in Int /\ l.code + 32 \in Int /\ l.code + 48 \in Int
  BY DEF Ready
<1>1. CASE l.mode = "IMMED"
  <2>1. DoGen0(b, l) = EvalByte(Emit(b, l.code), e)
    BY <1>1 DEF DoGen0
  <2> QED
    BY <1>0, <2>1, ThenEmit, ThenEvalByte
<1>2. CASE l.mode = "IND"
  <2>1. DoGen0(b, l) = EvalByte(Emit(b, l.code + 32), e)
    BY <1>2 DEF DoGen0
  <2> QED
    BY <1>0, <2>1, ThenEmit, ThenEvalByte
<1>3. CASE l.mode = "OTHER"
  <2>1. DoGen0(b, l) = Address(b, e, l.code + 16, l.code + 48)
    BY <1>3 DEF DoGen0
  <2> QED
    BY <1>0, <2>1, ThenAddress
<1> QED
  BY <1>1, <1>2, <1>3

LEMMA DoOp0Does ==
  ASSUME NEW cpu, cpu \in {"0", "1"}, NEW l, IsLine(cpu, l), l.op \in Classes(cpu)
  PROVE  \E n \in Nat : \A a : Good(a) => Does(a, DoOp0(a, l), n)
<1>1. l.op \in {"INH", "GEN", "REL", "NOIMM", "LONGIMM", "GRP2"}
  BY DEF Classes
<1>2. l.mode \in {"IMMED", "IND", "OTHER"}
  BY DEF IsLine, Modes
<1>3. l.code \in Int /\ l.code + 16 \in Int
  BY LineReady DEF Ready
<1>4. CASE l.op = "INH"
  <2>1. ASSUME NEW a, Good(a)
        PROVE  Does(a, DoOp0(a, l), 0)
    <3>1. DoOp0(a, l) = Emit(a, l.code)
      BY <1>4 DEF DoOp0
    <3> QED
      BY <1>3, <2>1, <3>1, EmitDoes
  <2> QED
    BY <2>1
<1>5. CASE l.op # "INH"
  <2> DEFINE e == l.args[1]
             n == 0 + Cost(e)
  <2>1. Ready(l, 1) /\ e \in Expressions /\ n \in Nat
    <3>1. Operands(l.op) = 1
      BY <1>1, <1>5 DEF Operands
    <3>2. Ready(l, 1)
      BY <3>1, LineReady
    <3>3. e \in Expressions
      BY <3>2 DEF Ready
    <3> QED
      BY <3>2, <3>3, CostDoes
  <2>2. ASSUME NEW a, Good(a), ~ (l.op = "NOIMM" /\ l.mode = "IMMED")
        PROVE  Does(a, DoOp0(a, l), n)
    <3>1. Does(a, a, 0) /\ Does(a, Emit(a, l.code), 0) /\ Does(a, Emit(a, l.code + 16), 0)
      BY <1>3, <2>2, Still, EmitDoes
    <3>2. CASE DoOp0(a, l) = DoGen0(a, l)
      BY <1>2, <2>1, <3>1, <3>2, Gen0Does
    <3>3. CASE DoOp0(a, l) = Displacement(Emit(a, l.code), e)
      BY <2>1, <3>1, <3>3, ThenDisplacement
    <3>4. CASE DoOp0(a, l) = EvalWord(Emit(a, l.code), e)
      BY <2>1, <3>1, <3>4, ThenEvalWord
    <3>5. CASE DoOp0(a, l) = EvalByte(Emit(a, l.code), e)
      BY <2>1, <3>1, <3>5, ThenEvalByte
    <3>6. CASE DoOp0(a, l) = EvalWord(Emit(a, l.code + 16), e)
      BY <2>1, <3>1, <3>6, ThenEvalWord
    <3>7. \/ DoOp0(a, l) = DoGen0(a, l) \/ DoOp0(a, l) = Displacement(Emit(a, l.code), e)
          \/ DoOp0(a, l) = EvalWord(Emit(a, l.code), e) \/ DoOp0(a, l) = EvalByte(Emit(a, l.code), e)
          \/ DoOp0(a, l) = EvalWord(Emit(a, l.code + 16), e)
      BY <1>1, <1>5, <2>2 DEF DoOp0, Group0
    <3> QED
      BY <3>2, <3>3, <3>4, <3>5, <3>6, <3>7
  <2>3. ASSUME NEW a, Good(a), l.op = "NOIMM", l.mode = "IMMED"
        PROVE  Does(a, DoOp0(a, l), 0)
    <3>1. DoOp0(a, l) = Error(a, "Immediate Addressing Illegal")
      BY <2>3 DEF DoOp0, NoImmediate
    <3> QED
      BY <2>3, <3>1, ErrorDoes
  <2> HIDE DEF n
  <2> QED
    BY <2>1, <2>2, <2>3
<1> QED
  BY <1>4, <1>5

-----------------------------------------------------------------------------
(* do4.c                                                                   *)

LEMMA OrTyped ==
  ASSUME NEW x \in Nat, NEW y \in Nat
  PROVE  Or(x, y) \in Nat
<1>1. ASSUME NEW n \in Nat, NEW bit \in Nat
      PROVE  SetBit(n, y, bit) \in Nat
  <2>1. SetBit(n, y, bit) = n + bit \/ SetBit(n, y, bit) = n
    BY DEF SetBit
  <2> QED
    BY <2>1
<1>2. SetBit(x, y, 1) \in Nat
  BY <1>1
<1>3. SetBit(SetBit(x, y, 1), y, 2) \in Nat
  BY <1>1, <1>2
<1>4. SetBit(SetBit(SetBit(x, y, 1), y, 2), y, 4) \in Nat
  BY <1>1, <1>3
<1>5. SetBit(SetBit(SetBit(SetBit(x, y, 1), y, 2), y, 4), y, 8) \in Nat
  BY <1>1, <1>4
<1>6. SetBit(SetBit(SetBit(SetBit(SetBit(x, y, 1), y, 2), y, 4), y, 8), y, 16) \in Nat
  BY <1>1, <1>5
<1> QED
  BY <1>6 DEF Or

LEMMA LastDoes ==
  ASSUME NEW a, NEW b, NEW n, Does(a, b, n), NEW e \in Expressions
  PROVE  Does(a, LastDisplacement(b, e), n + Cost(e))
<1> DEFINE c == Eval(b, e)
           dist == c.Result - (c.Old_pc + 3)
<1>1. Does(a, c, n + Cost(e))
  BY ThenEval
<1>2. dist \in Int
  <2>1. c.Result \in Int /\ c.Old_pc \in Nat
    BY EvalResult DEF Does
  <2> HIDE DEF c
  <2> QED
    BY <2>1
<1>3. LastDisplacement(b, e) = Emit(c, dist) \/ LastDisplacement(b, e) = Error(c, "Branch out of Range")
  BY Zenon DEF LastDisplacement
<1> HIDE DEF c, dist
<1> QED
  BY <1>1, <1>2, <1>3, ThenEmit, ThenError

LEMMA BranchDoes ==
  ASSUME NEW a, Good(a), NEW l, Ready(l, 1)
  PROVE  Does(a, Branch(a, l), 0 + Cost(l.args[1]))
<1> DEFINE e == l.args[1]
           c == Eval(a, e)
           dist == c.Result - (c.Pc + 1)
<1>0. e \in Expressions /\ l.code \in Nat
  BY DEF Ready
<1>1. Does(a, c, 0 + Cost(e))
  BY <1>0, Still, ThenEval
<1>2. l.code + (dist % 32) \in Int /\ l.code + 31 \in Int
  <2>1. c.Result \in Int /\ c.Pc \in Nat
    BY <1>0, EvalResult
  <2>2. dist \in Int
    BY <2>1
  <2> HIDE DEF dist
  <2> QED
    BY <1>0, <2>2
<1>3. \/ Branch(a, l) = Emit(c, l.code + (dist % 32))
      \/ Branch(a, l) = Emit(Error(c, "Branch out of Range"), l.code + 31)
  BY DEF Branch
<1> HIDE DEF c, dist, e
<1> QED
  BY <1>1, <1>2, <1>3, ThenEmit, ThenError DEF e

BitMarks(l) == Cost(l.args[1]) + Cost(l.args[2]) + IF l.op = "BTB" THEN Cost(l.args[3]) ELSE 0

LEMMA BitMarksSum ==
  ASSUME NEW l, (l.op = "SETCLR" /\ Ready(l, 2)) \/ (l.op = "BTB" /\ Ready(l, 3))
  PROVE  /\ BitMarks(l) \in Nat
         /\ \E m \in Nat : BitMarks(l) = (0 + Cost(l.args[1])) + m
         /\ l.op = "SETCLR" => BitMarks(l) = (0 + Cost(l.args[1])) + Cost(l.args[2])
         /\ l.op = "BTB" => BitMarks(l) = ((0 + Cost(l.args[1])) + Cost(l.args[2])) + Cost(l.args[3])
<1>1. CASE l.op = "SETCLR" /\ Ready(l, 2)
  <2>1. Cost(l.args[1]) \in Nat /\ Cost(l.args[2]) \in Nat
    BY <1>1, ReadyCost
  <2>2. BitMarks(l) = Cost(l.args[1]) + Cost(l.args[2]) + 0 /\ l.op # "BTB"
    BY <1>1 DEF BitMarks
  <2>3. BitMarks(l) \in Nat /\ BitMarks(l) = (0 + Cost(l.args[1])) + Cost(l.args[2])
    BY <2>1, <2>2
  <2> QED
    BY <2>1, <2>2, <2>3
<1>2. CASE l.op = "BTB" /\ Ready(l, 3)
  <2>1. Cost(l.args[1]) \in Nat /\ Cost(l.args[2]) \in Nat /\ Cost(l.args[3]) \in Nat
    BY <1>2, ReadyCost
  <2>2. BitMarks(l) = Cost(l.args[1]) + Cost(l.args[2]) + Cost(l.args[3]) /\ l.op # "SETCLR"
    BY <1>2 DEF BitMarks
  <2>3. PICK m \in Nat : m = Cost(l.args[2]) + Cost(l.args[3])
    BY <2>1
  <2>4. /\ BitMarks(l) \in Nat /\ BitMarks(l) = (0 + Cost(l.args[1])) + m
        /\ BitMarks(l) = ((0 + Cost(l.args[1])) + Cost(l.args[2])) + Cost(l.args[3])
    BY <2>1, <2>2, <2>3
  <2> QED
    BY <2>2, <2>4
<1> QED
  BY <1>1, <1>2

LEMMA BitsReady ==
  ASSUME NEW cpu, NEW l, IsLine(cpu, l), l.op \in {"BTB", "SETCLR"}
  PROVE  (l.op = "SETCLR" /\ Ready(l, 2)) \/ (l.op = "BTB" /\ Ready(l, 3))
<1>1. CASE l.op = "SETCLR"
  <2>1. Operands(l.op) = 2
    BY <1>1 DEF Operands
  <2>2. Ready(l, 2)
    BY <2>1, LineReady
  <2> QED
    BY <1>1, <2>2
<1>2. CASE l.op = "BTB"
  <2>1. Operands(l.op) = 3
    BY <1>2 DEF Operands
  <2>2. Ready(l, 3)
    BY <2>1, LineReady
  <2> QED
    BY <1>2, <2>2
<1> QED
  BY <1>1, <1>2

LEMMA BitOp4Does ==
  ASSUME NEW a, Good(a), NEW l, (l.op = "SETCLR" /\ Ready(l, 2)) \/ (l.op = "BTB" /\ Ready(l, 3))
  PROVE  Does(a, BitOp4(a, l), BitMarks(l))
<1> DEFINE b == Eval(a, l.args[1])
           c == EvalByte(Emit(b, l.code + b.Result), l.args[2])
<1>0. l.code \in Nat /\ l.args[1] \in Expressions /\ l.args[2] \in Expressions
  BY DEF Ready
<1>1. Does(a, b, 0 + Cost(l.args[1]))
  BY <1>0, Still, ThenEval
<1>2. l.code + b.Result \in Int
  <2>1. b.Result \in Int
    BY <1>0, EvalResult
  <2> HIDE DEF b
  <2> QED
    BY <1>0, <2>1
<1>3. Does(a, c, (0 + Cost(l.args[1])) + Cost(l.args[2]))
  <2> HIDE DEF b
  <2> QED
    BY <1>0, <1>1, <1>2, ThenEmit, ThenEvalByte
<1>4. CASE b.Result \notin 0 .. 7
  <2>1. BitOp4(a, l) = Error(b, "Bit Number must be 0-7")
    BY <1>4 DEF BitOp4
  <2>2. PICK m \in Nat : BitMarks(l) = (0 + Cost(l.args[1])) + m
    BY BitMarksSum
  <2>3. "Bit Number must be 0-7" \notin Soft
    BY DEF Soft
  <2> QED
    BY <1>1, <2>1, <2>2, <2>3, ThenHarm
<1>5. CASE b.Result \in 0 .. 7 /\ l.op = "SETCLR"
  <2>1. BitOp4(a, l) = c
    BY <1>5 DEF BitOp4
  <2> QED
    BY <1>3, <1>5, <2>1, BitMarksSum
<1>6. CASE b.Result \in 0 .. 7 /\ l.op = "BTB"
  <2>1. BitOp4(a, l) = LastDisplacement(c, l.args[3])
    BY <1>6 DEF BitOp4
  <2>2. l.args[3] \in Expressions
    BY <1>6 DEF Ready
  <2> HIDE DEF c
  <2> QED
    BY <1>3, <1>6, <2>1, <2>2, LastDoes, BitMarksSum
<1> QED
  BY <1>4, <1>5, <1>6

LEMMA Gen4Does ==
  ASSUME NEW a, Good(a), NEW l, Ready(l, 1), l.mode \in {"IMMED", "IND", "OTHER"}
  PROVE  Does(a, DoGen4(a, l), 0 + Cost(l.args[1]))
<1> DEFINE b == Eval(a, l.args[1])
<1>0. l.code \in Nat /\ l.code \in Int /\ l.args[1] \in Expressions
  BY DEF Ready
<1>1. Does(a, b, 0 + Cost(l.args[1])) /\ b.Result \in Int
  BY <1>0, Still, ThenEval, EvalResult
<1>2. <<Or(l.code, 8), b.Result>> \in Seq(Int) /\ <<Or(l.code, 24), b.Result>> \in Seq(Int)
  <2>1. Or(l.code, 8) \in Int /\ Or(l.code, 24) \in Int
    <3>1. Or(l.code, 8) \in Nat /\ Or(l.code, 24) \in Nat
      BY <1>0, OrTyped
    <3> QED
      BY <3>1
  <2> HIDE DEF b
  <2> QED
    BY <1>1, <2>1
<1>3. CASE l.mode = "IMMED"
  <2>1. DoGen4(a, l) = EmitAll(b, <<Or(l.code, 8), b.Result>>)
    BY <1>3 DEF DoGen4
  <2> HIDE DEF b
  <2> QED
    BY <1>1, <1>2, <2>1, ThenEmitAll
<1>4. CASE l.mode = "IND"
  <2> DEFINE x == 16 * (b.Result % 2)
  <2>1. x \in Nat
    <3> HIDE DEF b
    <3> QED
      BY <1>1
  <2>2. \/ DoGen4(a, l) = Emit(b, Or(l.code, x))
        \/ DoGen4(a, l) = Emit(Error(b, "Operand must be $80 or $81"), l.code)
    BY <1>4 DEF DoGen4, Indirect
  <2> HIDE DEF b, x
  <2>3. Or(l.code, x) \in Int
    <3>1. Or(l.code, x) \in Nat
      BY <1>0, <2>1, OrTyped
    <3> QED
      BY <3>1
  <2> QED
    BY <1>0, <1>1, <2>2, <2>3, ThenEmit, ThenError
<1>5. CASE l.mode = "OTHER" /\ b.Result \in XREG .. SD2REG /\ l.code \in {224, 225, 230, 231}
  <2>1. DoGen4(a, l) = Emit(b, ShortDirect(l.code, b.Result))
    BY <1>5 DEF DoGen4
  <2>2. ShortDirect(l.code, b.Result) \in Int
    <3> HIDE DEF b
    <3> QED
      BY <1>1, <1>5 DEF ShortDirect, XREG
  <2> HIDE DEF b
  <2> QED
    BY <1>1, <2>1, <2>2, ThenEmit
<1>6. CASE l.mode = "OTHER" /\ ~ (b.Result \in XREG .. SD2REG /\ l.code \in {224, 225, 230, 231})
  <2>1. DoGen4(a, l) = EmitAll(b, <<Or(l.code, 24), b.Result>>)
    BY <1>6 DEF DoGen4
  <2> HIDE DEF b
  <2> QED
    BY <1>1, <1>2, <2>1, ThenEmitAll
<1> QED
  BY <1>3, <1>4, <1>5, <1>6

LEMMA MviDoes ==
  ASSUME NEW a, NEW b, NEW n, Does(a, b, n), NEW x \in Int, NEW y \in Int, NEW z \in Int
  PROVE  Does(a, Mvi(b, x, y, z), n)
<1>1. <<x, y, z>> \in Seq(Int)
  OBVIOUS
<1>2. Mvi(b, x, y, z) = EmitAll(b, <<x, y, z>>)
  BY DEF Mvi
<1> QED
  BY <1>1, <1>2, ThenEmitAll

LEMMA DoOp4Does ==
  ASSUME NEW l, IsLine("4", l), l.op \in Classes("4")
  PROVE  \E n \in Nat : \A a : Good(a) => Does(a, DoOp4(a, l), n)
<1>1. l.op \in {"INH", "GEN", "REL", "NOIMM", "APOST", "BPM", "CLRX", "CLRY", "LDX", "LDY", "MVI", "EXT", "BTB", "SETCLR"}
  BY DEF Classes
<1>2. l.mode \in {"IMMED", "IND", "OTHER"}
  BY DEF IsLine, Modes
<1>3. l.code \in Nat /\ l.code \in Int /\ XREG \in Int /\ YREG \in Int /\ ACCUM \in Int /\ 0 \in Int
  BY LineReady DEF Ready, XREG, YREG, ACCUM
<1>4. CASE l.op \in {"INH", "APOST", "CLRX", "CLRY"} \/ (l.op = "NOIMM" /\ l.mode = "IMMED")
  <2>1. ASSUME NEW a, Good(a)
        PROVE  Does(a, DoOp4(a, l), 0)
    <3>0. Does(a, a, 0) /\ <<l.code, ACCUM>> \in Seq(Int)
      BY <1>3, <2>1, Still
    <3>1. CASE DoOp4(a, l) = Emit(a, l.code)
      BY <1>3, <3>0, <3>1, ThenEmit
    <3>2. CASE DoOp4(a, l) = EmitAll(a, <<l.code, ACCUM>>)
      BY <3>0, <3>2, ThenEmitAll
    <3>3. CASE DoOp4(a, l) = Mvi(a, l.code, XREG, 0)
      BY <1>3, <3>0, <3>3, MviDoes
    <3>4. CASE DoOp4(a, l) = Mvi(a, l.code, YREG, 0)
      BY <1>3, <3>0, <3>4, MviDoes
    <3>5. CASE DoOp4(a, l) = Error(a, "Immediate Addressing Illegal")
      BY <3>0, <3>5, ThenError
    <3>6. \/ DoOp4(a, l) = Emit(a, l.code) \/ DoOp4(a, l) = EmitAll(a, <<l.code, ACCUM>>)
          \/ DoOp4(a, l) = Mvi(a, l.code, XREG, 0) \/ DoOp4(a, l) = Mvi(a, l.code, YREG, 0)
          \/ DoOp4(a, l) = Error(a, "Immediate Addressing Illegal")
      BY <1>4 DEF DoOp4, NoImmediate
    <3> QED
      BY <3>1, <3>2, <3>3, <3>4, <3>5, <3>6
  <2> QED
    BY <2>1
<1>5. CASE l.op \in {"BTB", "SETCLR"}
  <2>1. (l.op = "SETCLR" /\ Ready(l, 2)) \/ (l.op = "BTB" /\ Ready(l, 3))
    BY <1>5, BitsReady
  <2>2. ASSUME NEW a, Good(a)
        PROVE  Does(a, DoOp4(a, l), BitMarks(l))
    <3>1. DoOp4(a, l) = BitOp4(a, l)
      BY <1>5 DEF DoOp4
    <3> QED
      BY <2>1, <2>2, <3>1, BitOp4Does
  <2> QED
    BY <2>1, <2>2, BitMarksSum
<1>6. CASE l.op \in {"GEN", "REL", "NOIMM", "BPM", "LDX", "LDY", "EXT"} /\ ~ (l.op = "NOIMM" /\ l.mode = "IMMED")
  <2> DEFINE e == l.args[1]
             n == 0 + Cost(e)
  <2>1. Ready(l, 1) /\ e \in Expressions /\ n \in Nat
    <3>1. Operands(l.op) = 1
      BY <1>6 DEF Operands
    <3>2. Ready(l, 1)
      BY <3>1, LineReady
    <3>3. e \in Expressions
      BY <3>2 DEF Ready
    <3> QED
      BY <3>2, <3>3, CostDoes
  <2>2. ASSUME NEW a, Good(a)
        PROVE  Does(a, DoOp4(a, l), n)
    <3> DEFINE b == Eval(a, e)
               x == Or(l.code, Word(b.Result)[1] % 16)
    <3>0. Does(a, a, 0) /\ <<l.code, ACCUM>> \in Seq(Int)
      BY <1>3, <2>2, Still
    <3>1. Does(a, b, n) /\ b.Result \in Int
      BY <2>1, <2>2, <3>0, ThenEval, EvalResult
    <3>2. <<x, b.Result>> \in Seq(Int)
      <4>1. Word(b.Result)[1] % 16 \in Nat
        <5> HIDE DEF b
        <5>1. Word(b.Result)[1] = (b.Result \div 256) % 256
          BY DEF Word
        <5>2. (b.Result \div 256) % 256 \in Nat
          BY <3>1
        <5> QED
          BY <5>1, <5>2
      <4>2. x \in Nat
        BY <1>3, <4>1, OrTyped
      <4> HIDE DEF x, b
      <4> QED
        BY <3>1, <4>2
    <3>3. CASE DoOp4(a, l) = DoGen4(a, l)
      BY <1>2, <2>1, <2>2, <3>3, Gen4Does
    <3>4. CASE DoOp4(a, l) = Branch(a, l)
      BY <2>1, <2>2, <3>4, BranchDoes
    <3>5. CASE DoOp4(a, l) = LastDisplacement(EmitAll(a, <<l.code, ACCUM>>), e)
      BY <2>1, <3>0, <3>5, ThenEmitAll, LastDoes
    <3>6. CASE DoOp4(a, l) = Mvi(b, l.code, XREG, b.Result)
      <4> HIDE DEF b, n
      <4> QED
        BY <1>3, <3>1, <3>6, MviDoes
    <3>7. CASE DoOp4(a, l) = Mvi(b, l.code, YREG, b.Result)
      <4> HIDE DEF b, n
      <4> QED
        BY <1>3, <3>1, <3>7, MviDoes
    <3>8. CASE DoOp4(a, l) = EmitAll(b, <<x, b.Result>>)
      <4> HIDE DEF b, n, x
      <4> QED
        BY <3>1, <3>2, <3>8, ThenEmitAll
    <3>9. \/ DoOp4(a, l) = DoGen4(a, l) \/ DoOp4(a, l) = Branch(a, l)
          \/ DoOp4(a, l) = LastDisplacement(EmitAll(a, <<l.code, ACCUM>>), e)
          \/ DoOp4(a, l) = Mvi(b, l.code, XREG, b.Result) \/ DoOp4(a, l) = Mvi(b, l.code, YREG, b.Result)
          \/ DoOp4(a, l) = EmitAll(b, <<x, b.Result>>)
      BY <1>6 DEF DoOp4
    <3> HIDE DEF b, n, x
    <3> QED
      BY <3>3, <3>4, <3>5, <3>6, <3>7, <3>8, <3>9
  <2> HIDE DEF n
  <2> QED
    BY <2>1, <2>2
<1>7. CASE l.op = "MVI"
  <2> DEFINE n == (0 + Cost(l.args[1])) + Cost(l.args[2])
  <2>1. l.args[1] \in Expressions /\ l.args[2] \in Expressions /\ n \in Nat
    <3>1. Operands(l.op) = 2
      BY <1>7 DEF Operands
    <3>2. Ready(l, 2)
      BY <3>1, LineReady
    <3>3. Cost(l.args[1]) \in Nat /\ Cost(l.args[2]) \in Nat
      BY <3>2, ReadyCost
    <3>4. l.args[1] \in Expressions /\ l.args[2] \in Expressions
      BY <3>2 DEF Ready
    <3> QED
      BY <3>3, <3>4
  <2>2. ASSUME NEW a, Good(a)
        PROVE  Does(a, DoOp4(a, l), n)
    <3> DEFINE b == Eval(a, l.args[1])
               c == Eval(b, l.args[2])
    <3>1. Does(a, b, 0 + Cost(l.args[1])) /\ b.Result \in Int
      BY <2>1, <2>2, Still, ThenEval, EvalResult
    <3>2. DoOp4(a, l) = Mvi(c, l.code, b.Result, c.Result)
      BY <1>7 DEF DoOp4
    <3> HIDE DEF b
    <3>3. Does(a, c, n) /\ c.Result \in Int
      BY <2>1, <3>1, ThenEval, EvalResult DEF Does
    <3> HIDE DEF c, n
    <3> QED
      BY <1>3, <3>1, <3>2, <3>3, MviDoes
  <2> HIDE DEF n
  <2> QED
    BY <2>1, <2>2
<1> QED
  BY <1>1, <1>4, <1>5, <1>6, <1>7

-----------------------------------------------------------------------------
(* do5.c                                                                   *)

LEMMA Indexed5Does ==
  ASSUME NEW a, Good(a), NEW e \in Expressions, NEW op \in Int
  PROVE  Does(a, DoIndexed5(a, e, op), 0 + Cost(e))
<1> DEFINE b == Eval(a, e)
<1>1. Does(a, b, 0 + Cost(e)) /\ b.Result \in Int
  BY Still, ThenEval, EvalResult
<1>2. \/ DoIndexed5(a, e, op) = Emit(b, op + 32)
      \/ DoIndexed5(a, e, op) = EmitAll(b, <<op>> \o Word(b.Result))
      \/ DoIndexed5(a, e, op) = EmitAll(b, <<op + 16, b.Result>>)
  BY DEF DoIndexed5
<1> HIDE DEF b
<1>3. op + 32 \in Int /\ <<op>> \o Word(b.Result) \in Seq(Int) /\ <<op + 16, b.Result>> \in Seq(Int)
  <2>1. Word(b.Result) \in Seq(Int) /\ <<op>> \in Seq(Int)
    BY <1>1, WordTyped
  <2>2. op + 16 \in Int
    OBVIOUS
  <2>3. <<op>> \o Word(b.Result) \in Seq(Int)
    BY <2>1, ConcatProperties
  <2> QED
    BY <1>1, <2>2, <2>3
<1> QED
  BY <1>1, <1>2, <1>3, ThenEmit, ThenEmitAll

LEMMA Gen5Does ==
  ASSUME NEW a, Good(a), NEW l, Ready(l, 1), l.mode \in {"IMMED", "IND", "OTHER"}
  PROVE  Does(a, DoGen5(a, l), 0 + Cost(l.args[1]))
<1> DEFINE e == l.args[1]
<1>0. /\ l.code \in Int /\ e \in Expressions /\ l.code + 16 \in Int /\ l.code + 32 \in Int /\ l.code + 48 \in Int
      /\ Does(a, a, 0)
  BY Still DEF Ready
<1>1. CASE l.mode = "IMMED"
  <2>1. DoGen5(a, l) = EvalByte(Emit(a, l.code), e)
    BY <1>1 DEF DoGen5
  <2> QED
    BY <1>0, <2>1, ThenEmit, ThenEvalByte
<1>2. CASE l.mode = "IND"
  <2>1. DoGen5(a, l) = DoIndexed5(a, e, l.code + 48)
    BY <1>2 DEF DoGen5
  <2> QED
    BY <1>0, <2>1, Indexed5Does
<1>3. CASE l.mode = "OTHER"
  <2>1. DoGen5(a, l) = Address(a, e, l.code + 16, l.code + 32)
    BY <1>3 DEF DoGen5
  <2> QED
    BY <1>0, <2>1, ThenAddress
<1> QED
  BY <1>1, <1>2, <1>3

LEMMA Group5Does ==
  ASSUME NEW a, Good(a), NEW l, Ready(l, 1)
  PROVE  Does(a, Group5(a, l), 0 + Cost(l.args[1]))
<1> DEFINE e == l.args[1]
           b == Eval(a, e)
<1>0. l.code \in Int /\ e \in Expressions /\ l.code + 32 \in Int
  BY DEF Ready
<1>1. Does(a, b, 0 + Cost(e)) /\ b.Result \in Int
  BY <1>0, Still, ThenEval, EvalResult, Zenon
<1>2. \/ Group5(a, l) = DoIndexed5(a, e, l.code + 32)
      \/ Group5(a, l) = EmitAll(b, <<l.code, b.Result>>)
      \/ Group5(a, l) = Error(b, "Extended Addressing not allowed")
  BY Zenon DEF Group5
<1> HIDE DEF b
<1>3. <<l.code, b.Result>> \in Seq(Int)
  BY <1>0, <1>1
<1> QED
  BY <1>0, <1>1, <1>2, <1>3, Indexed5Does, ThenEmitAll, ThenError

LEMMA BitOp5Does ==
  ASSUME NEW a, Good(a), NEW l, (l.op = "SETCLR" /\ Ready(l, 2)) \/ (l.op = "BTB" /\ Ready(l, 3))
  PROVE  Does(a, BitOp5(a, l), BitMarks(l))
<1> DEFINE b == Eval(a, l.args[1])
           c == EvalByte(Emit(b, l.code + (2 * b.Result)), l.args[2])
<1>0. l.code \in Nat /\ l.args[1] \in Expressions /\ l.args[2] \in Expressions
  BY DEF Ready
<1>1. Does(a, b, 0 + Cost(l.args[1]))
  BY <1>0, Still, ThenEval
<1>2. l.code + (2 * b.Result) \in Int
  <2>1. b.Result \in Int
    BY <1>0, EvalResult
  <2> HIDE DEF b
  <2> QED
    BY <1>0, <2>1
<1>3. Does(a, c, (0 + Cost(l.args[1])) + Cost(l.args[2]))
  <2> HIDE DEF b
  <2> QED
    BY <1>0, <1>1, <1>2, ThenEmit, ThenEvalByte
<1>4. CASE b.Result \notin 0 .. 7
  <2>1. BitOp5(a, l) = Error(b, "Bit Number must be 0-7")
    BY <1>4 DEF BitOp5
  <2>2. PICK m \in Nat : BitMarks(l) = (0 + Cost(l.args[1])) + m
    BY BitMarksSum
  <2>3. "Bit Number must be 0-7" \notin Soft
    BY DEF Soft
  <2> QED
    BY <1>1, <2>1, <2>2, <2>3, ThenHarm
<1>5. CASE b.Result \in 0 .. 7 /\ l.op = "SETCLR"
  <2>1. BitOp5(a, l) = c
    BY <1>5 DEF BitOp5
  <2> QED
    BY <1>3, <1>5, <2>1, BitMarksSum
<1>6. CASE b.Result \in 0 .. 7 /\ l.op = "BTB"
  <2>1. BitOp5(a, l) = Displacement(c, l.args[3])
    BY <1>6 DEF BitOp5
  <2>2. l.args[3] \in Expressions
    BY <1>6 DEF Ready
  <2> HIDE DEF c
  <2> QED
    BY <1>3, <1>6, <2>1, <2>2, ThenDisplacement, BitMarksSum
<1> QED
  BY <1>4, <1>5, <1>6

LEMMA DoOp5Does ==
  ASSUME NEW l, IsLine("5", l), l.op \in Classes("5")
  PROVE  \E n \in Nat : \A a : Good(a) => Does(a, DoOp5(a, l), n)
<1>1. l.op \in {"INH", "GEN", "REL", "NOIMM", "GRP2", "BTB", "SETCLR"}
  BY DEF Classes
<1>2. l.mode \in {"IMMED", "IND", "OTHER"}
  BY DEF IsLine, Modes
<1>3. l.code \in Int
  BY LineReady DEF Ready
<1>4. CASE l.op = "INH" \/ (l.op = "NOIMM" /\ l.mode = "IMMED")
  <2>1. ASSUME NEW a, Good(a)
        PROVE  Does(a, DoOp5(a, l), 0)
    <3>1. DoOp5(a, l) = Emit(a, l.code) \/ DoOp5(a, l) = Error(a, "Immediate Addressing Illegal")
      BY <1>4 DEF DoOp5, NoImmediate
    <3> QED
      BY <1>3, <2>1, <3>1, EmitDoes, ErrorDoes
  <2> QED
    BY <2>1
<1>5. CASE l.op \in {"BTB", "SETCLR"}
  <2>1. (l.op = "SETCLR" /\ Ready(l, 2)) \/ (l.op = "BTB" /\ Ready(l, 3))
    BY <1>5, BitsReady
  <2>2. ASSUME NEW a, Good(a)
        PROVE  Does(a, DoOp5(a, l), BitMarks(l))
    <3>1. DoOp5(a, l) = BitOp5(a, l)
      BY <1>5 DEF DoOp5
    <3> QED
      BY <2>1, <2>2, <3>1, BitOp5Does
  <2> QED
    BY <2>1, <2>2, BitMarksSum
<1>6. CASE l.op \in {"GEN", "REL", "NOIMM", "GRP2"} /\ ~ (l.op = "NOIMM" /\ l.mode = "IMMED")
  <2> DEFINE e == l.args[1]
             n == 0 + Cost(e)
  <2>1. Ready(l, 1) /\ e \in Expressions /\ n \in Nat
    <3>1. Operands(l.op) = 1
      BY <1>6 DEF Operands
    <3>2. Ready(l, 1)
      BY <3>1, LineReady
    <3>3. e \in Expressions
      BY <3>2 DEF Ready
    <3> QED
      BY <3>2, <3>3, CostDoes
  <2>2. ASSUME NEW a, Good(a)
        PROVE  Does(a, DoOp5(a, l), n)
    <3>0. Does(a, a, 0)
      BY <2>2, Still
    <3>1. CASE DoOp5(a, l) = DoGen5(a, l)
      BY <1>2, <2>1, <2>2, <3>1, Gen5Does
    <3>2. CASE DoOp5(a, l) = Displacement(Emit(a, l.code), e)
      BY <1>3, <2>1, <3>0, <3>2, ThenEmit, ThenDisplacement
    <3>3. CASE DoOp5(a, l) = Group5(a, l)
      BY <2>1, <2>2, <3>3, Group5Does
    <3>4. \/ DoOp5(a, l) = DoGen5(a, l) \/ DoOp5(a, l) = Displacement(Emit(a, l.code), e)
          \/ DoOp5(a, l) = Group5(a, l)
      BY <1>6 DEF DoOp5
    <3> QED
      BY <3>1, <3>2, <3>3, <3>4
  <2> HIDE DEF n
  <2> QED
    BY <2>1, <2>2
<1> QED
  BY <1>1, <1>4, <1>5, <1>6

-----------------------------------------------------------------------------
(* do11.c                                                                  *)

LEMMA PagesTyped ==
  ASSUME NEW class \in General, NEW mode \in {"IMMED", "INDX", "INDY", "OTHER"}
  PROVE  Pages(class)[mode] \in Seq(Int)
<1> DEFINE Bytes == {<<>>, <<24>>, <<26>>, <<205>>}
<1>1. ASSUME NEW b \in Bytes
      PROVE  b \in Seq(Int)
  <2>1. <<>> \in Seq(Int)
    OBVIOUS
  <2>2. <<24>> \in Seq(Int)
    OBVIOUS
  <2>3. <<26>> \in Seq(Int)
    OBVIOUS
  <2>4. <<205>> \in Seq(Int)
    OBVIOUS
  <2> QED
    BY <2>1, <2>2, <2>3, <2>4
<1>2. Pages(class)[mode] \in Bytes
  <2>1. CASE class \in Page1Classes
    BY <2>1 DEF Pages
  <2>2. CASE class \notin Page1Classes /\ class = "CPD"
    BY <2>2 DEF Pages
  <2>3. CASE class \notin Page1Classes /\ class \in {"XLIMM", "XNOIMM"}
    BY <2>3 DEF Pages
  <2>4. CASE class \notin Page1Classes /\ class \in {"YLIMM", "YNOIMM"}
    BY <2>4 DEF Pages
  <2> QED
    BY <2>1, <2>2, <2>3, <2>4 DEF General
<1> QED
  BY <1>1, <1>2

LEMMA Gen11Does ==
  ASSUME NEW a, Good(a), NEW l, Ready(l, 1), l.op \in General, l.mode \in {"IMMED", "INDX", "INDY", "OTHER"}
  PROVE  Does(a, DoGen11(a, l), 0 + Cost(l.args[1]))
<1> DEFINE e == l.args[1]
           b == EmitAll(a, Pages(l.op)[l.mode])
<1>0. l.code \in Int /\ e \in Expressions /\ l.code + 16 \in Int /\ l.code + 32 \in Int /\ l.code + 48 \in Int
  BY DEF Ready
<1>1. Does(a, b, 0)
  BY PagesTyped, Still, ThenEmitAll
<1>2. \/ DoGen11(a, l) = EvalByte(Emit(b, l.code), e) \/ DoGen11(a, l) = EvalWord(Emit(b, l.code), e)
      \/ DoGen11(a, l) = EvalByte(Emit(b, l.code + 32), e) \/ DoGen11(a, l) = Address(b, e, l.code + 16, l.code + 48)
  BY DEF DoGen11
<1> HIDE DEF b
<1>3. Does(a, Emit(b, l.code), 0) /\ Does(a, Emit(b, l.code + 32), 0)
  BY <1>0, <1>1, ThenEmit
<1>4. CASE DoGen11(a, l) = EvalByte(Emit(b, l.code), e)
  BY <1>0, <1>3, <1>4, ThenEvalByte
<1>5. CASE DoGen11(a, l) = EvalWord(Emit(b, l.code), e)
  BY <1>0, <1>3, <1>5, ThenEvalWord
<1>6. CASE DoGen11(a, l) = EvalByte(Emit(b, l.code + 32), e)
  BY <1>0, <1>3, <1>6, ThenEvalByte
<1>7. CASE DoGen11(a, l) = Address(b, e, l.code + 16, l.code + 48)
  BY <1>0, <1>1, <1>7, ThenAddress
<1> QED
  BY <1>2, <1>4, <1>5, <1>6, <1>7

LEMMA BitOp11Does ==
  ASSUME NEW a, Good(a), NEW l, (l.op = "SETCLR" /\ Ready(l, 2)) \/ (l.op = "BTB" /\ Ready(l, 3))
  PROVE  Does(a, BitOp11(a, l), BitMarks(l))
<1> DEFINE b == CASE l.mode = "INDX" -> Emit(a, l.code)
                  [] l.mode = "INDY" -> EmitAll(a, <<24, l.code>>)
                  [] OTHER           -> Emit(a, l.code - IF l.op = "BTB" THEN 12 ELSE 8)
           c == EvalByte(EvalByte(b, l.args[1]), l.args[2])
<1>0. l.code \in Nat /\ l.args[1] \in Expressions /\ l.args[2] \in Expressions
  BY DEF Ready
<1>1. Does(a, b, 0)
  <2>0. Does(a, a, 0) /\ l.code \in Int /\ <<24, l.code>> \in Seq(Int) /\ l.code - 12 \in Int /\ l.code - 8 \in Int
    BY <1>0, Still
  <2>1. CASE b = Emit(a, l.code)
    BY <2>0, <2>1, ThenEmit
  <2>2. CASE b = EmitAll(a, <<24, l.code>>)
    BY <2>0, <2>2, ThenEmitAll
  <2>3. CASE b = Emit(a, l.code - 12) \/ b = Emit(a, l.code - 8)
    BY <2>0, <2>3, ThenEmit
  <2>4. b = Emit(a, l.code) \/ b = EmitAll(a, <<24, l.code>>) \/ b = Emit(a, l.code - 12) \/ b = Emit(a, l.code - 8)
    OBVIOUS
  <2> HIDE DEF b
  <2> QED
    BY <2>1, <2>2, <2>3, <2>4
<1>2. BitOp11(a, l) = IF l.op = "BTB" THEN Displacement(c, l.args[3]) ELSE c
  BY DEF BitOp11
<1> HIDE DEF b
<1>3. Does(a, c, (0 + Cost(l.args[1])) + Cost(l.args[2]))
  BY <1>0, <1>1, ThenEvalByte
<1> HIDE DEF c
<1>4. CASE l.op = "SETCLR"
  BY <1>2, <1>3, <1>4, BitMarksSum
<1>5. CASE l.op = "BTB"
  <2>1. l.args[3] \in Expressions
    BY <1>5 DEF Ready
  <2> QED
    BY <1>2, <1>3, <1>5, <2>1, ThenDisplacement, BitMarksSum
<1> QED
  BY <1>4, <1>5

LEMMA DoOp11Does ==
  ASSUME NEW l, IsLine("11", l), l.op \in Classes("11")
  PROVE  \E n \in Nat : \A a : Good(a) => Does(a, DoOp11(a, l), n)
<1>1. l.op \in {"INH", "P2INH", "REL", "GRP2", "BTB", "SETCLR"} \cup General
  BY DEF Classes, General, Page1Classes
<1>2. l.mode \in {"IMMED", "INDX", "INDY", "OTHER"}
  BY DEF IsLine, Modes
<1>3. l.code \in Int /\ l.code + 16 \in Int /\ <<24, l.code>> \in Seq(Int)
  BY LineReady DEF Ready
<1>4. CASE l.op \in {"INH", "P2INH"} \/ (l.op \in NotImmediate /\ l.mode = "IMMED")
  <2>1. ASSUME NEW a, Good(a)
        PROVE  Does(a, DoOp11(a, l), 0)
    <3>1. \/ DoOp11(a, l) = Emit(a, l.code) \/ DoOp11(a, l) = EmitAll(a, <<24, l.code>>)
          \/ DoOp11(a, l) = Error(a, "Immediate Addressing Illegal")
      BY <1>4 DEF DoOp11, NoImmediate, NotImmediate, General, Page1Classes
    <3> QED
      BY <1>3, <2>1, <3>1, Still, ThenEmit, ThenEmitAll, ThenError
  <2> QED
    BY <2>1
<1>5. CASE l.op \in {"BTB", "SETCLR"}
  <2>1. (l.op = "SETCLR" /\ Ready(l, 2)) \/ (l.op = "BTB" /\ Ready(l, 3))
    BY <1>5, BitsReady
  <2>2. ASSUME NEW a, Good(a)
        PROVE  Does(a, DoOp11(a, l), BitMarks(l))
    <3>1. DoOp11(a, l) = BitOp11(a, l)
      BY <1>5 DEF DoOp11, General, Page1Classes
    <3> QED
      BY <2>1, <2>2, <3>1, BitOp11Does
  <2> QED
    BY <2>1, <2>2, BitMarksSum
<1>6. CASE l.op \in {"REL", "GRP2"} \cup General /\ ~ (l.op \in NotImmediate /\ l.mode = "IMMED")
  <2> DEFINE e == l.args[1]
             n == 0 + Cost(e)
  <2>1. Ready(l, 1) /\ e \in Expressions /\ n \in Nat
    <3>1. Operands(l.op) = 1
      BY <1>6 DEF Operands, General, Page1Classes
    <3>2. Ready(l, 1)
      BY <3>1, LineReady
    <3>3. e \in Expressions
      BY <3>2 DEF Ready
    <3> QED
      BY <3>2, <3>3, CostDoes
  <2>2. ASSUME NEW a, Good(a)
        PROVE  Does(a, DoOp11(a, l), n)
    <3>0. /\ Does(a, Emit(a, l.code), 0) /\ Does(a, EmitAll(a, <<24, l.code>>), 0)
          /\ Does(a, Emit(a, l.code + 16), 0)
      BY <1>3, <2>2, Still, ThenEmit, ThenEmitAll
    <3>1. CASE l.op \in General
      <4>1. DoOp11(a, l) = DoGen11(a, l)
        BY <1>6, <3>1 DEF DoOp11, General, Page1Classes
      <4> QED
        BY <1>2, <2>1, <2>2, <3>1, <4>1, Gen11Does
    <3>2. CASE DoOp11(a, l) = Displacement(Emit(a, l.code), e)
      BY <2>1, <3>0, <3>2, ThenDisplacement
    <3>3. CASE DoOp11(a, l) = EvalByte(Emit(a, l.code), e)
      BY <2>1, <3>0, <3>3, ThenEvalByte
    <3>4. CASE DoOp11(a, l) = EvalByte(EmitAll(a, <<24, l.code>>), e)
      BY <2>1, <3>0, <3>4, ThenEvalByte
    <3>5. CASE DoOp11(a, l) = EvalWord(Emit(a, l.code + 16), e)
      BY <2>1, <3>0, <3>5, ThenEvalWord
    <3>6. ASSUME l.op \in {"REL", "GRP2"}
          PROVE  \/ DoOp11(a, l) = Displacement(Emit(a, l.code), e) \/ DoOp11(a, l) = EvalByte(Emit(a, l.code), e)
                 \/ DoOp11(a, l) = EvalByte(EmitAll(a, <<24, l.code>>), e)
                 \/ DoOp11(a, l) = EvalWord(Emit(a, l.code + 16), e)
      BY <3>6 DEF DoOp11, Group11, General, Page1Classes
    <3> QED
      BY <1>6, <3>1, <3>2, <3>3, <3>4, <3>5, <3>6
  <2> HIDE DEF n
  <2> QED
    BY <2>1, <2>2
<1> QED
  BY <1>1, <1>4, <1>5, <1>6

LEMMA PostbyteDoes ==
  ASSUME NEW a, NEW b, NEW n, Does(a, b, n), NEW reg, NEW p \in Int
  PROVE  Does(a, Postbyte(b, reg, p), n)
<1>1. CASE reg \in DOMAIN Rtype
  <2>1. Rtype[reg] \in Int
    BY <1>1 DEF Rtype
  <2>2. p + Rtype[reg] \in Int
    BY <2>1
  <2>3. Postbyte(b, reg, p) = Emit(b, p + Rtype[reg])
    BY <1>1 DEF Postbyte
  <2> QED
    BY <2>2, <2>3, ThenEmit
<1>2. CASE reg \notin DOMAIN Rtype
  <2>1. Postbyte(b, reg, p) = Emit(Error(b, "Illegal Register for Indexed"), p)
    BY <1>2 DEF Postbyte
  <2> QED
    BY <2>1, ThenError, ThenEmit
<1> QED
  BY <1>1, <1>2

LEMMA PcIndexedDoes ==
  ASSUME NEW a, NEW b, NEW n, Does(a, b, n), NEW p \in Int, NEW relative \in BOOLEAN
  PROVE  Does(a, PcIndexed(b, p, relative), n)
<1> DEFINE dist == b.Result - IF relative THEN b.Pc + 2 ELSE 0
           far == b.Result - IF relative THEN b.Pc + 3 ELSE 0
<1>1. b.Result \in Int /\ b.Pc \in Nat
  BY DEF Does, Good, Typed
<1>2. dist \in Int /\ far \in Int
  BY <1>1
<1>3. \/ PcIndexed(b, p, relative) = EmitAll(b, <<p + 13>> \o Word(far))
      \/ PcIndexed(b, p, relative) = EmitAll(b, <<p + 12, dist>>)
  BY DEF PcIndexed
<1> HIDE DEF dist, far
<1>4. <<p + 13>> \o Word(far) \in Seq(Int) /\ <<p + 12, dist>> \in Seq(Int)
  <2>1. Word(far) \in Seq(Int)
    BY <1>2, WordTyped
  <2>2. <<p + 13>> \in Seq(Int)
    OBVIOUS
  <2>3. <<p + 12, dist>> \in Seq(Int)
    BY <1>2
  <2> QED
    BY <2>1, <2>2, <2>3, ConcatProperties
<1> QED
  BY <1>3, <1>4, ThenEmitAll

LEMMA AutoIndexedDoes ==
  ASSUME NEW a, NEW b, NEW n, Does(a, b, n), NEW p \in Int, NEW i, i.dec \in Nat, i.inc \in Nat
  PROVE  Does(a, AutoIndexed(b, p, i), n)
<1> DEFINE by == IF i.dec > 0 THEN i.dec + 1 ELSE i.inc - 1
<1>1. p + by \in Int
  OBVIOUS
<1>2. AutoIndexed(b, p, i) = Postbyte(b, i.reg, p + by) \/ AutoIndexed(b, p, i) = Error(b, "Auto Inc/Dec")
  BY DEF AutoIndexed
<1> HIDE DEF by
<1> QED
  BY <1>1, <1>2, PostbyteDoes, ThenError

LEMMA OffsetIndexedDoes ==
  ASSUME NEW a, NEW b, NEW n, Does(a, b, n), NEW p \in Int, NEW i
  PROVE  Does(a, OffsetIndexed(b, p, i), n)
<1>1. b.Result \in Int
  BY DEF Does, Good, Typed
<1>2. p + 4 \in Int /\ p + 8 \in Int /\ p + 9 \in Int /\ b.Result % 32 \in Int /\ Word(b.Result) \in Seq(Int)
  <2>1. Word(b.Result) \in Seq(Int)
    BY <1>1, WordTyped
  <2>2. p + 4 \in Int /\ p + 8 \in Int /\ p + 9 \in Int
    OBVIOUS
  <2>3. b.Result % 32 \in Int
    BY <1>1
  <2> QED
    BY <2>1, <2>2, <2>3
<1>3. \/ OffsetIndexed(b, p, i) = Postbyte(b, i.reg, p + 4)
      \/ OffsetIndexed(b, p, i) = Postbyte(b, i.reg, b.Result % 32)
      \/ OffsetIndexed(b, p, i) = EmitAll(Postbyte(b, i.reg, p + 9), Word(b.Result))
      \/ OffsetIndexed(b, p, i) = Emit(Postbyte(b, i.reg, p + 8), b.Result)
  BY DEF OffsetIndexed
<1>4. CASE OffsetIndexed(b, p, i) = Postbyte(b, i.reg, p + 4)
  BY <1>2, <1>4, PostbyteDoes
<1>5. CASE OffsetIndexed(b, p, i) = Postbyte(b, i.reg, b.Result % 32)
  BY <1>2, <1>5, PostbyteDoes
<1>6. CASE OffsetIndexed(b, p, i) = EmitAll(Postbyte(b, i.reg, p + 9), Word(b.Result))
  BY <1>2, <1>6, PostbyteDoes, ThenEmitAll
<1>7. CASE OffsetIndexed(b, p, i) = Emit(Postbyte(b, i.reg, p + 8), b.Result)
  BY <1>1, <1>2, <1>7, PostbyteDoes, ThenEmit
<1> QED
  BY <1>3, <1>4, <1>5, <1>6, <1>7

(* The symbols of an indexed operand.                                      *)
IndexMarks(l) == IF l.index.acc = "" THEN Cost(l.args[1]) ELSE 0

IndexOK(l) == /\ Ready(l, 1) /\ l.mode \in {"IMMED", "IND", "INDIR", "OTHER"}
              /\ l.index.acc \in {"", "A", "B", "D"} /\ l.index.dec \in Nat /\ l.index.inc \in Nat

LEMMA IndexReady ==
  ASSUME NEW l, IndexOK(l)
  PROVE  /\ l.code \in Int /\ l.code + 16 \in Int /\ l.code + 32 \in Int /\ l.code + 48 \in Int
         /\ l.code + 96 \in Int /\ l.code + 112 \in Int /\ IPBYTE \in Int
         /\ l.args[1] \in Expressions /\ Cost(l.args[1]) \in Nat
<1>1. Ready(l, 1)
  BY DEF IndexOK
<1>2. l.code \in Nat /\ l.args[1] \in Expressions
  BY <1>1 DEF Ready
<1>3. IPBYTE \in Int
  BY DEF IPBYTE
<1> QED
  BY <1>2, <1>3, CostDoes

LEMMA IndexedDoes ==
  ASSUME NEW a, NEW b, NEW n, Does(a, b, n), NEW l, IndexOK(l), NEW op \in Int
  PROVE  Does(a, DoIndexed9(b, l, op), n + IndexMarks(l))
<1> DEFINE i == l.index
           p == IF i.indirect THEN 144 ELSE 128
           c == Emit(b, op)
           d == Eval(c, l.args[1])
<1>0. n \in Nat /\ p \in Int /\ l.args[1] \in Expressions
  BY IndexReady DEF Does
<1>1. Does(a, c, n) /\ p + 6 \in Int /\ p + 5 \in Int /\ p + 11 \in Int
  BY ThenEmit
<1>2. CASE i.acc # ""
  <2>1. IndexMarks(l) = 0
    BY <1>2 DEF IndexMarks
  <2>0. n + 0 = n
    BY <1>0
  <2>2. \/ DoIndexed9(b, l, op) = Postbyte(c, i.reg, p + 6) \/ DoIndexed9(b, l, op) = Postbyte(c, i.reg, p + 5)
        \/ DoIndexed9(b, l, op) = Postbyte(c, i.reg, p + 11)
    <3>1. i.acc \in {"A", "B", "D"}
      BY <1>2 DEF IndexOK
    <3> QED
      BY <3>1 DEF DoIndexed9
  <2> HIDE DEF c, p
  <2>3. Does(a, DoIndexed9(b, l, op), n)
    BY <1>1, <2>2, PostbyteDoes
  <2> QED
    BY <2>0, <2>1, <2>3
<1>3. CASE i.acc = ""
  <2>1. IndexMarks(l) = Cost(l.args[1]) /\ Does(a, d, n + Cost(l.args[1]))
    BY <1>0, <1>1, <1>3, ThenEval DEF IndexMarks
  <2>2. \/ DoIndexed9(b, l, op) = Error(d, "Auto Inc/Dec Illegal on PC")
        \/ DoIndexed9(b, l, op) = PcIndexed(d, p, i.reg = "PCR")
        \/ DoIndexed9(b, l, op) = AutoIndexed(d, p, i)
        \/ DoIndexed9(b, l, op) = OffsetIndexed(d, p, i)
    BY <1>3 DEF DoIndexed9
  <2>3. (i.reg = "PCR") \in BOOLEAN /\ i.dec \in Nat /\ i.inc \in Nat
    BY DEF IndexOK
  <2> HIDE DEF c, d, p
  <2>4. Does(a, DoIndexed9(b, l, op), n + Cost(l.args[1]))
    <3>1. CASE DoIndexed9(b, l, op) = Error(d, "Auto Inc/Dec Illegal on PC")
      BY <2>1, <3>1, ThenError
    <3>2. CASE DoIndexed9(b, l, op) = PcIndexed(d, p, i.reg = "PCR")
      <4> DEFINE relative == i.reg = "PCR"
      <4>1. relative \in BOOLEAN
        OBVIOUS
      <4> HIDE DEF relative
      <4>2. Does(a, PcIndexed(d, p, relative), n + Cost(l.args[1]))
        BY <1>0, <2>1, <4>1, PcIndexedDoes
      <4> QED
        BY <3>2, <4>2 DEF relative
    <3>3. CASE DoIndexed9(b, l, op) = AutoIndexed(d, p, i)
      BY <1>0, <2>1, <2>3, <3>3, AutoIndexedDoes
    <3>4. CASE DoIndexed9(b, l, op) = OffsetIndexed(d, p, i)
      BY <1>0, <2>1, <3>4, OffsetIndexedDoes
    <3> QED
      BY <2>2, <3>1, <3>2, <3>3, <3>4
  <2> QED
    BY <2>1, <2>4
<1> QED
  BY <1>2, <1>3

ModeMarks(l) == IF l.mode = "IND" THEN IndexMarks(l) ELSE Cost(l.args[1])

LEMMA ModeCost ==
  ASSUME NEW l, IndexOK(l)
  PROVE  Cost(l.args[1]) \in Nat /\ IndexMarks(l) \in Nat /\ ModeMarks(l) \in Nat
BY IndexReady DEF IndexMarks, ModeMarks

LEMMA Gen9Does ==
  ASSUME NEW a, NEW b, NEW n, Does(a, b, n), NEW l, IndexOK(l)
  PROVE  Does(a, DoGen9(b, l), n + ModeMarks(l))
<1> DEFINE e == l.args[1]
<1>0. /\ l.code \in Int /\ e \in Expressions /\ l.code + 16 \in Int /\ l.code + 32 \in Int /\ l.code + 48 \in Int
      /\ <<l.code + 32, IPBYTE>> \in Seq(Int)
  BY IndexReady
<1>1. CASE l.mode = "IMMED"
  <2>1. DoGen9(b, l) = EvalByte(Emit(b, l.code), e) /\ ModeMarks(l) = Cost(e)
    BY <1>1 DEF DoGen9, ModeMarks
  <2> QED
    BY <1>0, <2>1, ThenEmit, ThenEvalByte
<1>2. CASE l.mode = "IND"
  <2>1. DoGen9(b, l) = DoIndexed9(b, l, l.code + 32) /\ ModeMarks(l) = IndexMarks(l)
    BY <1>2 DEF DoGen9, ModeMarks
  <2> QED
    BY <1>0, <2>1, IndexedDoes
<1>3. CASE l.mode = "INDIR"
  <2>1. DoGen9(b, l) = EvalWord(EmitAll(b, <<l.code + 32, IPBYTE>>), e) /\ ModeMarks(l) = Cost(e)
    BY <1>3 DEF DoGen9, ModeMarks
  <2> QED
    BY <1>0, <2>1, ThenEmitAll, ThenEvalWord
<1>4. CASE l.mode = "OTHER"
  <2>1. DoGen9(b, l) = Address(b, e, l.code + 16, l.code + 48) /\ ModeMarks(l) = Cost(e)
    BY <1>4 DEF DoGen9, ModeMarks
  <2> QED
    BY <1>0, <2>1, ThenAddress
<1> QED
  BY <1>1, <1>2, <1>3, <1>4 DEF IndexOK

LEMMA Group9Does ==
  ASSUME NEW a, NEW b, NEW n, Does(a, b, n), NEW l, IndexOK(l)
  PROVE  Does(a, Group9(b, l), n + ModeMarks(l))
<1> DEFINE e == l.args[1]
<1>0. /\ l.code \in Int /\ e \in Expressions /\ l.code + 96 \in Int /\ l.code + 112 \in Int
      /\ <<l.code + 96, IPBYTE>> \in Seq(Int)
  BY IndexReady
<1>1. CASE l.mode = "IND"
  <2>1. Group9(b, l) = DoIndexed9(b, l, l.code + 96) /\ ModeMarks(l) = IndexMarks(l)
    BY <1>1 DEF Group9, ModeMarks
  <2> QED
    BY <1>0, <2>1, IndexedDoes
<1>2. CASE l.mode = "INDIR"
  <2>1. Group9(b, l) = EvalWord(EmitAll(b, <<l.code + 96, IPBYTE>>), e) /\ ModeMarks(l) = Cost(e)
    BY <1>2 DEF Group9, ModeMarks
  <2> QED
    BY <1>0, <2>1, ThenEmitAll, ThenEvalWord
<1>3. CASE l.mode \notin {"IND", "INDIR"}
  <2>1. Group9(b, l) = Address(b, e, l.code, l.code + 112) /\ ModeMarks(l) = Cost(e)
    BY <1>3 DEF Group9, ModeMarks
  <2> QED
    BY <1>0, <2>1, ThenAddress
<1> QED
  BY <1>1, <1>2, <1>3

LEMMA LongImmediateDoes ==
  ASSUME NEW a, NEW b, NEW n, Does(a, b, n), NEW l, IndexOK(l)
  PROVE  Does(a, LongImmediate(b, l), n + ModeMarks(l))
<1>1. CASE l.mode = "IMMED"
  <2>1. LongImmediate(b, l) = EvalWord(Emit(b, l.code), l.args[1]) /\ ModeMarks(l) = Cost(l.args[1])
    BY <1>1 DEF LongImmediate, ModeMarks
  <2>2. l.code \in Int /\ l.args[1] \in Expressions
    BY IndexReady
  <2> QED
    BY <2>1, <2>2, ThenEmit, ThenEvalWord
<1>2. CASE l.mode # "IMMED"
  BY <1>2, Gen9Does DEF LongImmediate
<1> QED
  BY <1>1, <1>2

LEMMA LongBranchDoes ==
  ASSUME NEW a, NEW b, NEW n, Does(a, b, n), NEW l, IndexOK(l), NEW opcode \in Seq(Int)
  PROVE  Does(a, LongBranch(b, l, opcode), n + Cost(l.args[1]))
<1> DEFINE c == EmitAll(Eval(b, l.args[1]), opcode)
           far == c.Result - (c.Pc + 2)
<1>1. Does(a, c, n + Cost(l.args[1]))
  <2>1. Does(a, Eval(b, l.args[1]), n + Cost(l.args[1]))
    BY ThenEval, IndexReady
  <2> QED
    BY <2>1, ThenEmitAll
<1>2. LongBranch(b, l, opcode) = EmitAll(c, Word(far))
  BY DEF LongBranch
<1> HIDE DEF c
<1>3. far \in Int
  <2>1. Good(c)
    BY <1>1 DEF Does
  <2>2. c.Result \in Int /\ c.Pc \in Nat
    BY <2>1 DEF Good, Typed
  <2> QED
    BY <2>2
<1> HIDE DEF far
<1> QED
  BY <1>1, <1>2, <1>3, WordTyped, ThenEmitAll

LEMMA RegisterPairDoes ==
  ASSUME NEW a, NEW b, NEW n, Does(a, b, n), NEW l, l.code \in Int
  PROVE  Does(a, RegisterPair(b, l), n)
<1> DEFINE src == l.regs[1]
           dst == l.regs[2]
           fault == CASE {src, dst} \ Registers # {} -> "Register Name Required"
                      [] {src, dst} \subseteq Registers /\ "PCR" \in {src, dst} -> "PCR illegal here"
                      [] OTHER -> IF (Regnum[src] < 8) = (Regnum[dst] < 8) THEN "" ELSE "Register Size Mismatch"
<1>1. RegisterPair(b, l) = IF fault # "" THEN EmitAll(Error(b, fault), <<l.code, 0>>)
                           ELSE EmitAll(b, <<l.code, (16 * Regnum[src]) + Regnum[dst]>>)
  BY DEF RegisterPair
<1>2. fault = "" => src \in DOMAIN Regnum /\ dst \in DOMAIN Regnum
  <2>1. CASE {src, dst} \ Registers # {}
    BY <2>1
  <2>2. CASE {src, dst} \subseteq Registers /\ "PCR" \in {src, dst}
    BY <2>2
  <2>3. CASE {src, dst} \subseteq Registers /\ "PCR" \notin {src, dst}
    BY <2>3 DEF Registers, Regnum
  <2> QED
    BY <2>1, <2>2, <2>3
<1> HIDE DEF fault
<1>3. CASE fault # ""
  <2>1. <<l.code, 0>> \in Seq(Int)
    OBVIOUS
  <2> QED
    BY <1>1, <1>3, <2>1, ThenError, ThenEmitAll
<1>4. CASE fault = ""
  <2>1. \A r \in DOMAIN Regnum : Regnum[r] \in Nat
    BY DEF Regnum
  <2>2. (16 * Regnum[src]) + Regnum[dst] \in Int
    <3>1. Regnum[src] \in Nat /\ Regnum[dst] \in Nat
      BY <1>2, <1>4, <2>1
    <3> HIDE DEF src, dst
    <3> QED
      BY <3>1
  <2> DEFINE both == (16 * Regnum[src]) + Regnum[dst]
  <2>3. RegisterPair(b, l) = EmitAll(b, <<l.code, both>>)
    BY <1>1, <1>4
  <2> HIDE DEF both
  <2>4. <<l.code, both>> \in Seq(Int)
    BY <2>2 DEF both
  <2> QED
    BY <2>3, <2>4, ThenEmitAll
<1> QED
  BY <1>3, <1>4

LEMMA ByteWithTyped ==
  ASSUME NEW bits
  PROVE  ByteWith(bits) \in Int
BY DEF ByteWith

LEMMA RegisterListDoes ==
  ASSUME NEW a, NEW b, NEW n, Does(a, b, n), NEW l, l.code \in Int
  PROVE  Does(a, RegisterList(b, l), n)
<1> DEFINE own    == IF l.code \in {52, 53} THEN "S" ELSE "U"
           wrong  == { r \in Range(l.regs) : r \notin DOMAIN Regs \/ r = own }
           bits   == UNION { Regs[r] : r \in Range(l.regs) \ wrong }
           c      == IF wrong = {} THEN b ELSE Error(b, "Illegal Register")
<1>1. RegisterList(b, l) = IF l.regs = <<>> THEN Error(b, "Register List Required")
                           ELSE EmitAll(c, <<l.code, ByteWith(bits)>>)
  BY DEF RegisterList
<1> HIDE DEF wrong, bits
<1>2. Does(a, c, n)
  BY ThenError
<1>3. <<l.code, ByteWith(bits)>> \in Seq(Int)
  BY ByteWithTyped
<1> HIDE DEF c
<1> QED
  BY <1>1, <1>2, <1>3, ThenError, ThenEmitAll

(* What the handlers of the 6809 do with a line, by the symbols they read. *)
LEMMA Plain9Does ==
  ASSUME NEW l, l.code \in Int,
         \/ l.op \in {"INH", "RTOR", "RLIST", "P2INH", "P3INH"}
         \/ l.op \in {"NOIMM", "P2NOIMM"} /\ l.mode = "IMMED"
         \/ l.op = "INDEXED" /\ l.mode \notin {"IND", "IMMED"}
         \/ l.op = "IMM" /\ l.mode # "IMMED",
         NEW a, Good(a)
  PROVE  Does(a, DoOp9(a, l), 0)
<1>0. Does(a, a, 0) /\ <<PAGE2, l.code>> \in Seq(Int) /\ <<PAGE3, l.code>> \in Seq(Int)
  BY Still DEF PAGE2, PAGE3
<1>1. CASE DoOp9(a, l) = Emit(a, l.code)
  BY <1>0, <1>1, ThenEmit
<1>2. CASE DoOp9(a, l) = RegisterPair(a, l)
  BY <1>0, <1>2, RegisterPairDoes
<1>3. CASE DoOp9(a, l) = RegisterList(a, l)
  BY <1>0, <1>3, RegisterListDoes
<1>4. CASE DoOp9(a, l) = EmitAll(a, <<PAGE2, l.code>>) \/ DoOp9(a, l) = EmitAll(a, <<PAGE3, l.code>>)
  BY <1>0, <1>4, ThenEmitAll
<1>5. CASE \E what : DoOp9(a, l) = Error(a, what)
  BY <1>0, <1>5, ThenError
<1>6. CASE l.op \in {"INH", "RTOR", "RLIST", "P2INH", "P3INH"}
  <2>1. \/ DoOp9(a, l) = Emit(a, l.code) \/ DoOp9(a, l) = RegisterPair(a, l) \/ DoOp9(a, l) = RegisterList(a, l)
        \/ DoOp9(a, l) = EmitAll(a, <<PAGE2, l.code>>) \/ DoOp9(a, l) = EmitAll(a, <<PAGE3, l.code>>)
    BY <1>6 DEF DoOp9
  <2> QED
    BY <1>1, <1>2, <1>3, <1>4, <2>1
<1>7. CASE l.op \notin {"INH", "RTOR", "RLIST", "P2INH", "P3INH"}
  <2>1. \/ DoOp9(a, l) = Error(a, "Immediate Addressing Illegal") \/ DoOp9(a, l) = Error(a, "Indexed Addressing Required")
        \/ DoOp9(a, l) = Error(a, "Immediate Operand Required")
    BY <1>7 DEF DoOp9, NoImmediate
  <2> QED
    BY <1>5, <2>1
<1> QED
  BY <1>6, <1>7

LEMMA Operand9Does ==
  ASSUME NEW l, IndexOK(l), l.op \in {"REL", "P2REL", "P1REL", "IMM", "SYS"}, l.op = "IMM" => l.mode = "IMMED",
         NEW a, Good(a)
  PROVE  Does(a, DoOp9(a, l), 0 + Cost(l.args[1]))
<1> DEFINE e == l.args[1]
<1>0. Does(a, a, 0) /\ l.code \in Int /\ e \in Expressions /\ SWI \in Int
  BY Still, IndexReady DEF SWI
<1>1. Does(a, Emit(a, l.code), 0) /\ Does(a, Emit(a, SWI), 0)
  BY <1>0, ThenEmit
<1>2. CASE DoOp9(a, l) = Displacement(Emit(a, l.code), e)
  BY <1>0, <1>1, <1>2, ThenDisplacement
<1>3. CASE DoOp9(a, l) = EvalByte(Emit(a, l.code), e) \/ DoOp9(a, l) = EvalByte(Emit(a, SWI), e)
  BY <1>0, <1>1, <1>3, ThenEvalByte
<1>4. <<PAGE2, l.code>> \in Seq(Int) /\ <<l.code>> \in Seq(Int)
  BY <1>0 DEF PAGE2
<1>5. CASE DoOp9(a, l) = LongBranch(a, l, <<PAGE2, l.code>>) \/ DoOp9(a, l) = LongBranch(a, l, <<l.code>>)
  BY <1>0, <1>4, <1>5, LongBranchDoes
<1>6. \/ DoOp9(a, l) = Displacement(Emit(a, l.code), e)
      \/ DoOp9(a, l) = EvalByte(Emit(a, l.code), e) \/ DoOp9(a, l) = EvalByte(Emit(a, SWI), e)
      \/ DoOp9(a, l) = LongBranch(a, l, <<PAGE2, l.code>>) \/ DoOp9(a, l) = LongBranch(a, l, <<l.code>>)
  BY DEF DoOp9
<1> QED
  BY <1>2, <1>3, <1>5, <1>6

LEMMA Mode9Does ==
  ASSUME NEW l, IndexOK(l), l.op \in {"GEN", "NOIMM", "P2GEN", "P3GEN", "LONGIMM", "P2NOIMM", "GRP2"},
         l.op \in {"NOIMM", "P2NOIMM"} => l.mode # "IMMED",
         NEW a, Good(a)
  PROVE  Does(a, DoOp9(a, l), 0 + ModeMarks(l))
<1>0. Does(a, a, 0) /\ PAGE2 \in Int /\ PAGE3 \in Int
  BY Still DEF PAGE2, PAGE3
<1>1. Does(a, Emit(a, PAGE2), 0) /\ Does(a, Emit(a, PAGE3), 0)
  BY <1>0, ThenEmit
<1>2. CASE DoOp9(a, l) = DoGen9(a, l) \/ DoOp9(a, l) = DoGen9(Emit(a, PAGE2), l)
  BY <1>0, <1>1, <1>2, Gen9Does
<1>3. CASE DoOp9(a, l) = LongImmediate(a, l) \/ DoOp9(a, l) = LongImmediate(Emit(a, PAGE2), l)
             \/ DoOp9(a, l) = LongImmediate(Emit(a, PAGE3), l)
  BY <1>0, <1>1, <1>3, LongImmediateDoes
<1>4. CASE DoOp9(a, l) = Group9(a, l)
  BY <1>0, <1>4, Group9Does
<1>5. \/ DoOp9(a, l) = DoGen9(a, l) \/ DoOp9(a, l) = DoGen9(Emit(a, PAGE2), l)
      \/ DoOp9(a, l) = LongImmediate(a, l) \/ DoOp9(a, l) = LongImmediate(Emit(a, PAGE2), l)
      \/ DoOp9(a, l) = LongImmediate(Emit(a, PAGE3), l) \/ DoOp9(a, l) = Group9(a, l)
  BY DEF DoOp9
<1> QED
  BY <1>2, <1>3, <1>4, <1>5

LEMMA DoOp9Does ==
  ASSUME NEW l, IsLine("9", l), l.op \in Classes("9")
  PROVE  \E n \in Nat : \A a : Good(a) => Does(a, DoOp9(a, l), n)
<1>1. l.op \in {"INH", "GEN", "IMM", "REL", "P2REL", "P1REL", "NOIMM", "P2GEN", "P3GEN", "RTOR", "INDEXED",
                "RLIST", "P2NOIMM", "P2INH", "P3INH", "GRP2", "LONGIMM", "SYS"}
  BY DEF Classes
<1>2. l.mode \in {"IMMED", "IND", "INDIR", "OTHER"}
  BY DEF IsLine, Modes
<1>3. l.index.acc \in {"", "A", "B", "D"} /\ l.index.dec \in Nat /\ l.index.inc \in Nat
  <2>1. l.index \in [acc : {"", "A", "B", "D"}, reg : STRING, dec : Nat, inc : Nat, indirect : BOOLEAN]
    BY DEF IsLine
  <2> QED
    BY <2>1
<1>4. l.code \in Int
  BY LineReady DEF Ready
<1>5. CASE \/ l.op \in {"INH", "RTOR", "RLIST", "P2INH", "P3INH"}
           \/ l.op \in {"NOIMM", "P2NOIMM"} /\ l.mode = "IMMED"
           \/ l.op = "INDEXED" /\ l.mode \notin {"IND", "IMMED"}
           \/ l.op = "IMM" /\ l.mode # "IMMED"
  <2>1. \A a : Good(a) => Does(a, DoOp9(a, l), 0)
    BY <1>4, <1>5, Plain9Does
  <2> QED
    BY <2>1
<1>6. CASE ~ \/ l.op \in {"INH", "RTOR", "RLIST", "P2INH", "P3INH"}
             \/ l.op \in {"NOIMM", "P2NOIMM"} /\ l.mode = "IMMED"
             \/ l.op = "INDEXED" /\ l.mode \notin {"IND", "IMMED"}
             \/ l.op = "IMM" /\ l.mode # "IMMED"
  <2>1. IndexOK(l)
    <3>1. Operands(l.op) = 1
      BY <1>1, <1>6 DEF Operands
    <3>2. Ready(l, 1)
      BY <3>1, LineReady
    <3> QED
      BY <1>2, <1>3, <3>2 DEF IndexOK
  <2>2. Cost(l.args[1]) \in Nat /\ IndexMarks(l) \in Nat /\ ModeMarks(l) \in Nat
    BY <2>1, ModeCost
  <2>3. 0 + Cost(l.args[1]) \in Nat /\ 0 + IndexMarks(l) \in Nat /\ 0 + ModeMarks(l) \in Nat
    BY <2>2
  <2>4. CASE l.op \in {"REL", "P2REL", "P1REL", "IMM", "SYS"}
    <3>1. \A a : Good(a) => Does(a, DoOp9(a, l), 0 + Cost(l.args[1]))
      BY <1>6, <2>1, <2>4, Operand9Does
    <3> QED
      BY <2>3, <3>1
  <2>5. CASE l.op \in {"GEN", "NOIMM", "P2GEN", "P3GEN", "LONGIMM", "P2NOIMM", "GRP2"}
    <3>1. \A a : Good(a) => Does(a, DoOp9(a, l), 0 + ModeMarks(l))
      BY <1>6, <2>1, <2>5, Mode9Does
    <3> QED
      BY <2>3, <3>1
  <2>6. CASE l.op = "INDEXED"
    <3>1. ASSUME NEW a, Good(a)
          PROVE  Does(a, DoOp9(a, l), 0 + IndexMarks(l))
      <4>1. DoOp9(a, l) = DoIndexed9(a, l, l.code)
        BY <1>6, <2>6 DEF DoOp9
      <4> QED
        BY <1>4, <2>1, <3>1, <4>1, Still, IndexedDoes
    <3> QED
      BY <2>3, <3>1
  <2> QED
    BY <1>1, <1>6, <2>4, <2>5, <2>6
<1> QED
  BY <1>5, <1>6

-----------------------------------------------------------------------------
(* pseudo.c and as.c                                                       *)

LEMMA InstallDoes ==
  ASSUME NEW a, NEW b, NEW n, Does(a, b, n), NEW name, name # "", NEW val \in Nat
  PROVE  Does(a, Install(b, name, val), n)
<1> DEFINE d == Lookup(b, name)
           root == Known(d.root, name, val)
           e == [d EXCEPT !.root = root]
<1>0. Good(b)
  BY DEF Does
<1>1. CASE name \notin DOMAIN b.root
  <2>1. Install(b, name, val) = e
    BY <1>1 DEF Install
  <2>2. Does(b, d, 0) /\ Quiet(b, d) /\ d.root = b.root
    BY <1>0, LookupDoes, LookupFields
  <2> HIDE DEF d
  <2>3. RootOK(d.root) /\ Good(d) /\ Fields \subseteq DOMAIN d
    BY <2>2 DEF Does, Good, Typed
  <2>4. RootOK(root) /\ Holds(d.root, root)
    BY <1>1, <2>2, <2>3 DEF RootOK, Known, Holds
  <2> HIDE DEF root
  <2>5. /\ Quiet(d, e) /\ e.root = root /\ e.Result = d.Result /\ e.Forward = d.Forward /\ e.F_ref = d.F_ref
        /\ e.ahead = d.ahead /\ e.errors = d.errors
    BY <2>3 DEF Quiet, Fields
  <2>6. d.Result \in Int
    BY <2>3 DEF Good, Typed
  <2> HIDE DEF e
  <2>7. Does(d, e, 0)
    BY <2>3, <2>4, <2>5, <2>6, QuietDoes
  <2> QED
    BY <2>1, <2>2, <2>7, ThenNothing
<1>2. CASE name \in DOMAIN b.root
  <2>1. \/ Install(b, name, val) = b \/ Install(b, name, val) = Error(b, "Symbol Redefined")
        \/ Install(b, name, val) = Error(b, "Phasing Error")
    BY <1>2 DEF Install
  <2> QED
    BY <2>1, ThenError
<1> QED
  BY <1>1, <1>2

(* The operands that count something.                                      *)
LEMMA CountResult ==
  ASSUME NEW cpu, NEW l, IsLine(cpu, l), l.op \in Counting, NEW i \in 1 .. Operands(l.op), NEW a, Good(a)
  PROVE  Eval(a, l.args[i]).Result \in Nat
<1>1. l.args \in Seq(Expressions) /\ Operands(l.op) <= Len(l.args) /\ Operands(l.op) \in Nat
  BY DEF IsLine, Operands
<1>2. i \in 1 .. Len(l.args)
  BY <1>1
<1>3. l.args[i] \in Expressions /\ l.args[i] \in Range(l.args)
  BY <1>1, <1>2 DEF Range
<1>4. \A t \in Range(l.args[i].terms) : Adds(t)
  BY <1>3 DEF IsLine, Adds
<1> QED
  BY <1>3, <1>4, EvalResult

(* A change of Pc, which ends the record.                                  *)
LEMMA MoveDoes ==
  ASSUME NEW a, NEW b, NEW n, Does(a, b, n), NEW pc \in Nat, NEW old \in Nat
  PROVE  Does(a, FRecord([b EXCEPT !.Pc = pc, !.Old_pc = old]), n)
<1> DEFINE c == [b EXCEPT !.Pc = pc, !.Old_pc = old]
<1>1. Good(b) /\ Fields \subseteq DOMAIN b
  BY DEF Does, Good, Typed
<1>2. Kept(b, c) /\ Fields \subseteq DOMAIN c
  BY <1>1 DEF Kept, Fields
<1>3. c.Pc = pc /\ c.Old_pc = old /\ c.E_pc = b.E_pc /\ c.E_bytes = b.E_bytes /\ c.obj = b.obj /\ c.emitted = b.emitted
  BY <1>1 DEF Fields
<1> HIDE DEF c
<1>4. Moved(b, c)
  BY <1>2, <1>3 DEF Moved
<1>5. Does(b, FRecord(c), 0)
  BY <1>1, <1>4, FRecordDoes
<1> QED
  BY <1>5, ThenNothing DEF c

LEMMA PcDoes ==
  ASSUME NEW b, Good(b), NEW pc \in Nat
  PROVE  Does(b, FRecord([b EXCEPT !.Pc = pc]), 0) /\ FRecord([b EXCEPT !.Pc = pc]).Pc = pc
<1> DEFINE c == [b EXCEPT !.Pc = pc]
<1>1. Fields \subseteq DOMAIN b /\ b.Old_pc \in Nat /\ b.Pass \in {1, 2}
  BY DEF Good, Typed
<1>2. Kept(b, c) /\ Fields \subseteq DOMAIN c
  BY <1>1 DEF Kept, Fields
<1>3. c.Pc = pc /\ c.Old_pc = b.Old_pc /\ c.E_pc = b.E_pc /\ c.E_bytes = b.E_bytes /\ c.obj = b.obj /\ c.emitted = b.emitted
  BY <1>1 DEF Fields
<1> HIDE DEF c
<1>4. Moved(b, c)
  BY <1>1, <1>2, <1>3 DEF Moved
<1>5. Does(b, FRecord(c), 0)
  BY <1>4, FRecordDoes
<1>6. FRecord(c).Pc = c.Pc
  <2>1. CASE c.Pass = 1
    BY <2>1 DEF FRecord
  <2>2. CASE c.Pass = 2
    BY <1>2, <2>2, FRecordFields DEF Flushed
  <2> QED
    BY <1>1, <1>2, <2>1, <2>2 DEF Kept
<1> QED
  BY <1>3, <1>5, <1>6 DEF c

(* A change of Old_pc.                                                     *)
LEMMA OldDoes ==
  ASSUME NEW a, NEW b, NEW n, Does(a, b, n), NEW old \in Nat
  PROVE  Does(a, [b EXCEPT !.Old_pc = old], n)
<1> DEFINE c == [b EXCEPT !.Old_pc = old]
<1>1. Good(b) /\ Fields \subseteq DOMAIN b /\ OutputOf(b) /\ b.Pc \in Nat /\ b.E_pc \in Nat
  BY DEF Does, Good, Typed
<1>2. Kept(b, c) /\ Fields \subseteq DOMAIN c
  BY <1>1 DEF Kept, Fields
<1>3. /\ c.Pc = b.Pc /\ c.Old_pc = old /\ c.E_pc = b.E_pc /\ c.E_bytes = b.E_bytes /\ c.obj = b.obj
      /\ c.emitted = b.emitted /\ c.Pass = b.Pass
  BY <1>1 DEF Fields
<1> HIDE DEF c
<1>4. OutputOf(c)
  BY <1>1, <1>3 DEF OutputOf
<1>5. Does(b, c, 0)
  BY <1>1, <1>2, <1>3, <1>4, OutputDoes
<1> QED
  BY <1>5, ThenNothing DEF c

LEMMA FillDoes ==
  ASSUME NEW a, NEW b, NEW n, Does(a, b, n), NEW byte \in Int, NEW e \in Expressions, Eval(b, e).Result \in Nat
  PROVE  Does(a, Fill(b, byte, e), n + Cost(e))
<1> DEFINE c == Eval(b, e)
           bytes == [i \in 1 .. c.Result |-> byte]
<1>1. Does(a, c, n + Cost(e))
  BY ThenEval
<1>2. Fill(b, byte, e) = EmitAll(c, bytes)
  BY DEF Fill
<1>3. bytes \in Seq(Int)
  <2> HIDE DEF c
  <2>1. c.Result \in Nat
    BY DEF c
  <2> QED
    BY <2>1
<1> HIDE DEF c, bytes
<1> QED
  BY <1>1, <1>2, <1>3, ThenEmitAll

LEMMA ListDoes ==
  ASSUME NEW seq \in Seq(Expressions)
  PROVE  /\ \E n \in Nat : \A a : Good(a) => Does(a, FoldLeft(EvalByte, a, seq), n)
         /\ \E n \in Nat : \A a : Good(a) => Does(a, FoldLeft(EvalWord, a, seq), n)
<1>1. ASSUME NEW k, k \in {"EvalByte", "EvalWord"}
      PROVE  \E n \in Nat : \A a : Good(a) => Does(a, Folded(k, a, seq), n)
  <2> DEFINE marks == [e \in Expressions |-> Cost(e)]
  <2>1. \A e \in Expressions : marks[e] = Cost(e) /\ marks[e] \in Nat
    BY CostDoes
  <2> HIDE DEF marks
  <2>2. ASSUME NEW e \in Expressions, NEW a, Good(a)
        PROVE  Turns(k, Expressions, a, FoldTurn(k, a, e), marks[e])
    <3>1. Does(a, a, 0) /\ 0 + Cost(e) = Cost(e)
      BY <2>2, Still, CostDoes
    <3>2. Does(a, EvalByte(a, e), Cost(e)) /\ Does(a, EvalWord(a, e), Cost(e))
      <4>1. Does(a, EvalByte(a, e), 0 + Cost(e)) /\ Does(a, EvalWord(a, e), 0 + Cost(e))
        BY <3>1, ThenEvalByte, ThenEvalWord
      <4> QED
        BY <3>1, <4>1
    <3>3. FoldTurn(k, a, e) = EvalByte(a, e) \/ FoldTurn(k, a, e) = EvalWord(a, e)
      BY <1>1 DEF FoldTurn
    <3> QED
      BY <1>1, <2>1, <3>2, <3>3 DEF Turns
  <2>3. PICK n \in Nat : TurnsBy(k, Expressions, seq, n)
    BY <2>1, <2>2, FoldDoes
  <2>4. \A a : Good(a) => Does(a, Folded(k, a, seq), n)
    BY <2>3 DEF TurnsBy, Turns
  <2> QED
    BY <2>4
<1>2. PICK n \in Nat : \A a : Good(a) => Does(a, Folded("EvalByte", a, seq), n)
  BY <1>1
<1>3. PICK m \in Nat : \A a : Good(a) => Does(a, Folded("EvalWord", a, seq), m)
  BY <1>1
<1>4. \A a : FoldLeft(EvalByte, a, seq) = Folded("EvalByte", a, seq) /\ FoldLeft(EvalWord, a, seq) = Folded("EvalWord", a, seq)
  BY FoldsAre
<1> QED
  BY <1>2, <1>3, <1>4

LEMMA PseudoDoes ==
  ASSUME NEW cpu, NEW l, IsLine(cpu, l), l.op \in Pseudos
  PROVE  \E n \in Nat : \A a, name : Good(a) => Does(a, DoPseudo(a, l, name), n)
<1>0. l.args \in Seq(Expressions)
  BY DEF IsLine
<1>1. CASE l.op \in {"OPT", "NULL_OP", "FCC"}
  <2>1. ASSUME NEW a, NEW name, Good(a)
        PROVE  Does(a, DoPseudo(a, l, name), 0)
    <3>0. Does(a, a, 0)
      BY <2>1, Still
    <3>1. CASE l.op = "FCC"
      <4> DEFINE b == EmitAll(a, l.text)
      <4>1. l.text \in Seq(Int)
        <5>1. l.text \in Seq(Nat)
          BY <3>1 DEF IsLine
        <5> QED
          BY <5>1
      <4>2. Does(a, b, 0)
        BY <3>0, <4>1, ThenEmitAll
      <4>3. DoPseudo(a, l, name) = b \/ DoPseudo(a, l, name) = Error(b, "Missing Delimiter")
        BY <3>1 DEF DoPseudo
      <4> HIDE DEF b
      <4> QED
        BY <4>2, <4>3, ThenError
    <3>2. CASE l.op # "FCC"
      <4>1. DoPseudo(a, l, name) = a
        BY <1>1, <3>2 DEF DoPseudo
      <4> QED
        BY <3>0, <4>1
    <3> QED
      BY <3>1, <3>2
  <2> QED
    BY <2>1
<1>2. CASE l.op \in {"FCB", "FDB"}
  <2>1. \/ \A a, name : DoPseudo(a, l, name) = FoldLeft(EvalByte, a, l.args)
        \/ \A a, name : DoPseudo(a, l, name) = FoldLeft(EvalWord, a, l.args)
    <3>1. CASE l.op = "FCB"
      BY <3>1 DEF DoPseudo
    <3>2. CASE l.op = "FDB"
      BY <3>2 DEF DoPseudo
    <3> QED
      BY <1>2, <3>1, <3>2
  <2> QED
    BY <1>0, <2>1, ListDoes
<1>3. CASE l.op \in {"RMB", "ZMB", "ORG", "EQU"}
  <2> DEFINE e == l.args[1]
             n == 0 + Cost(e)
  <2>1. e \in Expressions /\ Operands(l.op) = 1 /\ n \in Nat
    <3>1. Operands(l.op) = 1
      BY <1>3 DEF Operands
    <3>2. Ready(l, 1)
      BY <3>1, LineReady
    <3>3. e \in Expressions
      BY <3>2 DEF Ready
    <3> QED
      BY <3>1, <3>3, CostDoes
  <2>2. ASSUME NEW a, NEW name, Good(a)
        PROVE  Does(a, DoPseudo(a, l, name), n)
    <3> DEFINE b == Eval(a, e)
    <3>0. Does(a, a, 0)
      BY <2>2, Still
    <3>1. Does(a, b, n) /\ b.Result \in Nat
      <4>1. 1 \in 1 .. Operands(l.op) /\ l.op \in Counting
        BY <1>3, <2>1 DEF Counting
      <4> QED
        BY <2>1, <2>2, <3>0, <4>1, ThenEval, CountResult
    <3>2. CASE l.op = "RMB"
      <4> DEFINE pc == b.Pc + b.Result
                 c == [b EXCEPT !.Pc = pc]
      <4>1. DoPseudo(a, l, name) = FRecord(c)
        BY <3>2 DEF DoPseudo
      <4> HIDE DEF b
      <4>2. Good(b) /\ b.Pc \in Nat
        BY <3>1 DEF Does, Good, Typed
      <4>3. pc \in Nat
        BY <3>1, <4>2
      <4> HIDE DEF pc
      <4>4. Does(b, FRecord(c), 0)
        BY <4>2, <4>3, PcDoes
      <4> HIDE DEF c, n
      <4> QED
        BY <3>1, <4>1, <4>4, ThenNothing
    <3>3. CASE l.op = "ZMB"
      <4>1. DoPseudo(a, l, name) = Fill(a, 0, e)
        BY <3>3 DEF DoPseudo
      <4>2. 0 \in Int
        OBVIOUS
      <4> QED
        BY <2>1, <3>0, <3>1, <4>1, <4>2, FillDoes
    <3>4. CASE l.op = "ORG"
      <4>1. DoPseudo(a, l, name) = FRecord([b EXCEPT !.Pc = b.Result, !.Old_pc = b.Result])
        BY <3>4 DEF DoPseudo, Org
      <4> HIDE DEF b, n
      <4>2. PICK pc \in Nat : pc = b.Result
        BY <3>1
      <4>3. DoPseudo(a, l, name) = FRecord([b EXCEPT !.Pc = pc, !.Old_pc = pc])
        BY <4>1, <4>2, Zenon
      <4>4. Does(a, FRecord([b EXCEPT !.Pc = pc, !.Old_pc = pc]), n)
        BY <3>1, MoveDoes, Zenon
      <4> QED
        BY <4>3, <4>4, Zenon
    <3>5. CASE l.op = "EQU" /\ name = ""
      <4>1. DoPseudo(a, l, name) = Error(a, "EQU requires label")
        BY <3>5 DEF DoPseudo, Equ
      <4>2. "EQU requires label" \notin Soft
        BY DEF Soft
      <4> HIDE DEF n
      <4> QED
        BY <2>1, <2>2, <4>1, <4>2, HarmDoes
    <3>6. CASE l.op = "EQU" /\ name # ""
      <4> DEFINE c == Install(b, name, b.Result)
      <4>1. DoPseudo(a, l, name) = [c EXCEPT !.Old_pc = b.Result]
        BY <3>6 DEF DoPseudo, Equ
      <4> HIDE DEF b, n
      <4>2. Does(a, c, n)
        BY <3>1, <3>6, InstallDoes
      <4> HIDE DEF c
      <4> QED
        BY <3>1, <4>1, <4>2, OldDoes
    <3> QED
      BY <1>3, <3>2, <3>3, <3>4, <3>5, <3>6
  <2> HIDE DEF n
  <2> QED
    BY <2>1, <2>2
<1>4. CASE l.op = "FILL"
  <2> DEFINE e == l.args[1]
             f == l.args[2]
             n == (0 + Cost(e)) + Cost(f)
  <2>1. Operands(l.op) = 2 /\ l.op \in Counting
    BY <1>4 DEF Operands, Counting
  <2>2. e \in Expressions /\ f \in Expressions /\ n \in Nat
    <3>1. Ready(l, 2)
      BY <2>1, LineReady
    <3>2. e \in Expressions /\ f \in Expressions
      BY <3>1 DEF Ready
    <3>3. Cost(e) \in Nat /\ Cost(f) \in Nat
      BY <3>2, CostDoes
    <3> QED
      BY <3>2, <3>3
  <2>3. ASSUME NEW a, NEW name, Good(a)
        PROVE  Does(a, DoPseudo(a, l, name), n)
    <3> DEFINE b == Eval(a, e)
    <3>1. Does(a, b, 0 + Cost(e)) /\ b.Result \in Int
      BY <2>2, <2>3, Still, ThenEval, EvalResult
    <3>2. DoPseudo(a, l, name) = Fill(b, b.Result, f)
      BY <1>4 DEF DoPseudo
    <3> HIDE DEF b
    <3>3. Good(b) /\ 2 \in 1 .. Operands(l.op)
      BY <2>1, <3>1 DEF Does
    <3>4. Eval(b, f).Result \in Nat
      BY <2>1, <3>3, CountResult
    <3> QED
      BY <2>2, <3>1, <3>2, <3>4, FillDoes
  <2> HIDE DEF n
  <2> QED
    BY <2>2, <2>3
<1> QED
  BY <1>1, <1>2, <1>3, <1>4 DEF Pseudos, Counting

LEMMA OpDoes ==
  ASSUME NEW cpu, NEW l, IsLine(cpu, l), l.op \in Classes(cpu), cpu \in {"0", "1", "4", "5", "9", "11"}
  PROVE  \E n \in Nat : \A a : Good(a) => Does(a, DoOp(cpu, a, l), n)
<1>1. CASE cpu = "0"
  <2>1. \A a : DoOp(cpu, a, l) = DoOp0(a, l)
    BY <1>1 DEF DoOp
  <2> QED
    BY <1>1, <2>1, DoOp0Does
<1>2. CASE cpu = "1"
  <2>1. \A a : DoOp(cpu, a, l) = DoOp0(a, l)
    BY <1>2 DEF DoOp, DoOp1
  <2> QED
    BY <1>2, <2>1, DoOp0Does
<1>3. CASE cpu = "4"
  <2>1. \A a : DoOp(cpu, a, l) = DoOp4(a, l)
    BY <1>3 DEF DoOp
  <2> QED
    BY <1>3, <2>1, DoOp4Does
<1>4. CASE cpu = "5"
  <2>1. \A a : DoOp(cpu, a, l) = DoOp5(a, l)
    BY <1>4 DEF DoOp
  <2> QED
    BY <1>4, <2>1, DoOp5Does
<1>5. CASE cpu = "9"
  <2>1. \A a : DoOp(cpu, a, l) = DoOp9(a, l)
    BY <1>5 DEF DoOp
  <2> QED
    BY <1>5, <2>1, DoOp9Does
<1>6. CASE cpu = "11"
  <2>1. \A a : DoOp(cpu, a, l) = DoOp11(a, l)
    BY <1>6 DEF DoOp
  <2> QED
    BY <1>6, <2>1, DoOp11Does
<1> QED
  BY <1>1, <1>2, <1>3, <1>4, <1>5, <1>6

Processors == {"0", "1", "4", "5", "9", "11"}

LEMMA ZeroMore ==
  \A n \in Nat : 0 + n \in Nat
OBVIOUS

Start(a) == [a EXCEPT !.Old_pc = a.Pc]

(* What process does before it calls do_pseudo or do_op.                   *)
Labelled(a, l, name) ==
  IF name # "" /\ l.op \notin {"EQU", "?"} THEN Install(Start(a), name, Start(a).Pc) ELSE Start(a)

LEMMA ProcessIs ==
  ASSUME NEW cpu, NEW a, NEW l, NEW name
  PROVE  Process(cpu, a, l, name) =
           CASE l.op = ""           -> Labelled(a, l, name)
             [] l.op = "?"          -> Error(Labelled(a, l, name), "Unrecognized Mnemonic")
             [] l.op \in Pseudos    -> DoPseudo(Labelled(a, l, name), l, name)
             [] OTHER               -> DoOp(cpu, Labelled(a, l, name), l)
BY Zenon DEF Process, Labelled, Start

LEMMA LabelDoes ==
  ASSUME NEW a, NEW name, Good(a), NEW l
  PROVE  /\ Does(a, Start(a), 0) /\ Start(a).Pc = a.Pc /\ Start(a).Old_pc = a.Pc
         /\ Does(a, Labelled(a, l, name), 0)
<1>0. Does(a, a, 0) /\ a.Pc \in Nat /\ Fields \subseteq DOMAIN a
  BY Still DEF Good, Typed
<1>1. PICK pc \in Nat : pc = a.Pc
  BY <1>0
<1> DEFINE b == Start(a)
<1>2. Does(a, b, 0)
  <2>1. Does(a, [a EXCEPT !.Old_pc = pc], 0)
    BY <1>0, OldDoes, Zenon
  <2> QED
    BY <1>1, <2>1, Zenon DEF Start
<1>3. Labelled(a, l, name) = b \/ (name # "" /\ Labelled(a, l, name) = Install(b, name, b.Pc))
  BY Zenon DEF Labelled
<1>4. b.Pc = a.Pc /\ b.Old_pc = a.Pc
  BY <1>0, <1>1 DEF Start, Fields
<1> HIDE DEF b
<1>5. Does(a, Labelled(a, l, name), 0)
  BY <1>0, <1>2, <1>3, <1>4, InstallDoes
<1> QED
  BY <1>2, <1>4, <1>5 DEF b

LEMMA ProcessDoes ==
  ASSUME NEW cpu \in Processors, NEW l, IsLine(cpu, l), l.op \notin {"*", ";"}
  PROVE  \E n \in Nat : \A a, name : Good(a) => Does(a, Process(cpu, a, l, name), n)
<1>3. CASE l.op \in {"", "?"}
  <2>1. ASSUME NEW a, NEW name, Good(a)
        PROVE  Does(a, Process(cpu, a, l, name), 0)
    <3>1. \/ Process(cpu, a, l, name) = Labelled(a, l, name)
          \/ Process(cpu, a, l, name) = Error(Labelled(a, l, name), "Unrecognized Mnemonic")
      BY <1>3, ProcessIs DEF Pseudos, Counting
    <3> QED
      BY <2>1, <3>1, LabelDoes, ThenError
  <2> QED
    BY <2>1
<1>4. CASE l.op \in Pseudos
  <2>0. l.op \notin {"", "?"}
    BY <1>4 DEF Pseudos, Counting
  <2>1. PICK n \in Nat : \A a, name : Good(a) => Does(a, DoPseudo(a, l, name), n)
    BY <1>4, PseudoDoes
  <2>2. ASSUME NEW a, NEW name, Good(a)
        PROVE  Does(a, Process(cpu, a, l, name), 0 + n)
    <3>1. Process(cpu, a, l, name) = DoPseudo(Labelled(a, l, name), l, name)
      BY <1>4, <2>0, ProcessIs
    <3>2. Does(a, Labelled(a, l, name), 0)
      BY <2>2, LabelDoes
    <3>3. Does(Labelled(a, l, name), DoPseudo(Labelled(a, l, name), l, name), n)
      BY <2>1, <3>2 DEF Does
    <3> QED
      BY <3>1, <3>2, <3>3, Then
  <2>3. 0 + n \in Nat
    BY ZeroMore
  <2> QED
    BY <2>2, <2>3
<1>5. CASE l.op \notin {"", "?"} \cup Pseudos
  <2>0. l.op \in Classes(cpu)
    BY <1>5 DEF IsLine
  <2>1. PICK n \in Nat : \A a : Good(a) => Does(a, DoOp(cpu, a, l), n)
    BY <2>0, OpDoes DEF Processors
  <2>2. ASSUME NEW a, NEW name, Good(a)
        PROVE  Does(a, Process(cpu, a, l, name), 0 + n)
    <3>1. Process(cpu, a, l, name) = DoOp(cpu, Labelled(a, l, name), l)
      BY <1>5, ProcessIs
    <3>2. Does(a, Labelled(a, l, name), 0)
      BY <2>2, LabelDoes
    <3>3. Does(Labelled(a, l, name), DoOp(cpu, Labelled(a, l, name), l), n)
      BY <2>1, <3>2 DEF Does
    <3> QED
      BY <3>1, <3>2, <3>3, Then
  <2>3. 0 + n \in Nat
    BY ZeroMore
  <2> QED
    BY <2>2, <2>3
<1> QED
  BY <1>3, <1>4, <1>5

LEMMA HoldDoes ==
  ASSUME NEW a, Good(a), NEW h
  PROVE  Does(a, [a EXCEPT !.hold = h], 0)
<1> DEFINE b == [a EXCEPT !.hold = h]
<1>0. Fields \subseteq DOMAIN a
  BY DEF Good, Typed
<1>1. DOMAIN b = DOMAIN a /\ \A f \in Fields \ {"hold"} : b[f] = a[f]
  BY <1>0
<1> HIDE DEF b
<1>2. Good(b)
  BY <1>1 DEF Good, Typed, OutputOf, Fields
<1>3. Keeps(a, b)
  BY <1>1 DEF Keeps, Fields, Holds
<1>4. Counts(a, b, 0) /\ Reads(a, b, 0)
  BY <1>1, SameMarks DEF Fields
<1> QED
  BY <1>2, <1>3, <1>4 DEF Does, b

(* A line evaluates the same number of symbols in both passes.             *)
LEMMA LineDoes ==
  ASSUME NEW cpu \in Processors, NEW l, IsLine(cpu, l)
  PROVE  \E n \in Nat : \A a : Good(a) => Does(a, ParseLine(cpu, a, l), n)
<1> DEFINE Name(a) == IF a.hold # "" THEN a.hold ELSE l.label
<1>1. CASE l.op = "*"
  <2>1. \A a : ParseLine(cpu, a, l) = a
    BY <1>1 DEF ParseLine
  <2>2. \A a : Good(a) => Does(a, ParseLine(cpu, a, l), 0)
    BY <2>1, Still
  <2> QED
    BY <2>2
<1>2. CASE l.op = ";"
  <2>1. \A a : ParseLine(cpu, a, l) = [a EXCEPT !.hold = Name(a)]
    BY <1>2 DEF ParseLine
  <2> HIDE DEF Name
  <2>2. ASSUME NEW a, Good(a)
        PROVE  Does(a, ParseLine(cpu, a, l), 0)
    <3>1. Does(a, [a EXCEPT !.hold = Name(a)], 0)
      BY <2>2, HoldDoes, Zenon
    <3> QED
      BY <2>1, <3>1, Zenon
  <2> QED
    BY <2>2
<1>3. CASE l.op \notin {"*", ";"}
  <2>1. \A a : ParseLine(cpu, a, l) = Process(cpu, [a EXCEPT !.hold = ""], l, Name(a))
    BY <1>3 DEF ParseLine
  <2>2. PICK n \in Nat : \A a, name : Good(a) => Does(a, Process(cpu, a, l, name), n)
    BY <1>3, ProcessDoes
  <2>3. ASSUME NEW a, Good(a)
        PROVE  Does(a, ParseLine(cpu, a, l), 0 + n)
    <3> DEFINE b == [a EXCEPT !.hold = ""]
    <3>1. Does(a, b, 0)
      BY <2>3, HoldDoes
    <3>2. ParseLine(cpu, a, l) = Process(cpu, b, l, Name(a))
      BY <2>1
    <3> HIDE DEF b, Name
    <3>3. Does(b, Process(cpu, b, l, Name(a)), n)
      BY <2>2, <3>1 DEF Does
    <3> QED
      BY <3>1, <3>2, <3>3, Then
  <2>4. 0 + n \in Nat
    OBVIOUS
  <2> QED
    BY <2>3, <2>4
<1> QED
  BY <1>1, <1>2, <1>3

-----------------------------------------------------------------------------
(* The lines of a program, one file after the other.                       *)

RunOf(files) == CHOOSE run : IsRun(run, files, Len(files)) /\ FlattenSeq(files) = run[Len(files)]

(* How many lines the files before f have.                                 *)
Earlier(files, f) == IF f = 1 THEN 0 ELSE Len(RunOf(files)[f - 1])

LEMMA RunIs ==
  ASSUME NEW S, NEW files \in Seq(Seq(S)), files # <<>>
  PROVE  /\ Len(files) \in Nat /\ Len(files) > 0
         /\ FlattenSeq(files) = RunOf(files)[Len(files)]
         /\ RunOf(files)[1] = files[1]
         /\ \A f \in 2 .. Len(files) : RunOf(files)[f] = RunOf(files)[f - 1] \o files[f]
         /\ \A f \in 1 .. Len(files) : RunOf(files)[f] \in Seq(S) /\ files[f] \in Seq(S)
<1> DEFINE n == Len(files)
           run == RunOf(files)
<1>1. n \in Nat /\ n > 0 /\ \A i \in 1 .. n : files[i] \in Seq(S)
  BY EmptySeq
<1>2. \E r : IsRun(r, files, n) /\ FlattenSeq(files) = r[n]
  BY <1>1, FlatRuns DEF IsRun
<1>3. IsRun(run, files, n) /\ FlattenSeq(files) = run[n]
  BY <1>2 DEF RunOf
<1> HIDE DEF n, run
<1>4. run[1] = files[1]
  <2>1. 1 \in 1 .. n
    BY <1>1
  <2> QED
    BY <1>3, <2>1 DEF IsRun, FlatTurn
<1>5. \A f \in 2 .. n : run[f] = run[f - 1] \o files[f]
  <2> TAKE f \in 2 .. n
  <2>1. f \in 1 .. n /\ f # 1
    BY <1>1
  <2>2. run[f] = FlatTurn(run, files, f)
    BY <1>3, <2>1 DEF IsRun
  <2> QED
    BY <2>1, <2>2, FlatTurnLater
<1>6. \A f \in 1 .. n : run[f] \in Seq(S)
  <2> DEFINE T == {i \in 0 .. n : i = 0 \/ run[i] \in Seq(S)}
  <2>1. 0 \in T
    BY <1>1
  <2>2. ASSUME NEW i \in 1 .. n, i - 1 \in T
        PROVE  i \in T
    <3>1. i \in 0 .. n /\ files[i] \in Seq(S)
      BY <1>1
    <3>2. CASE i = 1
      BY <1>4, <3>1, <3>2
    <3>3. CASE i # 1
      <4>1. i \in 2 .. n /\ i - 1 # 0
        BY <1>1, <3>3
      <4>2. run[i] = run[i - 1] \o files[i] /\ run[i - 1] \in Seq(S)
        BY <1>5, <2>2, <4>1
      <4> QED
        BY <3>1, <4>2, ConcatProperties
    <3> QED
      BY <3>2, <3>3
  <2> HIDE DEF T
  <2>3. \A i \in 1 .. n : i - 1 \in T => i \in T
    BY <2>2
  <2>4. \A i \in 0 .. n : i \in T
    BY <1>1, <2>1, <2>3, Climb
  <2>5. \A i \in 1 .. n : i \in 0 .. n /\ i # 0
    BY <1>1
  <2> QED
    BY <2>4, <2>5 DEF T
<1> QED
  BY <1>1, <1>3, <1>4, <1>5, <1>6 DEF n, run

LEMMA EarlierIs ==
  ASSUME NEW S, NEW files \in Seq(Seq(S)), files # <<>>
  PROVE  /\ Earlier(files, 1) = 0
         /\ \A f \in 1 .. Len(files) : /\ Earlier(files, f) \in Nat
                                       /\ Earlier(files, f + 1) = Earlier(files, f) + Len(files[f])
         /\ Earlier(files, Len(files) + 1) = Len(FlattenSeq(files))
<1> DEFINE n == Len(files)
           run == RunOf(files)
<1>1. n \in Nat /\ n > 0 /\ FlattenSeq(files) = run[n]
  BY RunIs
<1>2. run[1] = files[1] /\ \A f \in 2 .. n : run[f] = run[f - 1] \o files[f]
  BY RunIs
<1>3. \A f \in 1 .. n : run[f] \in Seq(S) /\ files[f] \in Seq(S)
  BY RunIs
<1> HIDE DEF n, run
<1>4. \A f \in 1 .. n : Len(run[f]) \in Nat /\ Len(files[f]) \in Nat
  BY <1>3
<1>5. Earlier(files, 1) = 0
  BY DEF Earlier
<1>6. ASSUME NEW f \in 1 .. n
      PROVE  Earlier(files, f + 1) = Len(run[f])
  <2>1. f + 1 # 1 /\ (f + 1) - 1 = f
    BY <1>1
  <2>2. PICK g : g = f + 1
    OBVIOUS
  <2>3. Earlier(files, g) = Len(run[g - 1])
    BY <2>1, <2>2 DEF Earlier, run
  <2> QED
    BY <2>1, <2>2, <2>3
<1>7. ASSUME NEW f \in 1 .. n
      PROVE  /\ Earlier(files, f) \in Nat
             /\ Earlier(files, f + 1) = Earlier(files, f) + Len(files[f])
  <2>1. CASE f = 1
    <3>1. Earlier(files, f + 1) = Len(files[1])
      BY <1>2, <1>6, <2>1
    <3> QED
      BY <1>4, <1>5, <2>1, <3>1
  <2>2. CASE f # 1
    <3>1. f \in 2 .. n /\ f - 1 \in 1 .. n
      BY <1>1, <2>2
    <3>2. Earlier(files, f) = Len(run[f - 1])
      BY <2>2 DEF Earlier, run
    <3>3. Len(run[f]) = Len(run[f - 1]) + Len(files[f])
      <4>1. run[f] = run[f - 1] \o files[f]
        BY <1>2, <3>1
      <4>2. run[f - 1] \in Seq(S) /\ files[f] \in Seq(S)
        BY <1>3, <3>1
      <4> QED
        BY <4>1, <4>2, ConcatProperties
    <3> QED
      BY <1>4, <1>6, <3>1, <3>2, <3>3
  <2> QED
    BY <2>1, <2>2
<1>8. Earlier(files, n + 1) = Len(FlattenSeq(files))
  <2>1. n \in 1 .. n
    BY <1>1
  <2> QED
    BY <1>1, <1>6, <2>1
<1> QED
  BY <1>5, <1>7, <1>8 DEF n

Begins(x, y) == Len(x) <= Len(y) /\ \A i \in 1 .. Len(x) : y[i] = x[i]

LEMMA RunBegins ==
  ASSUME NEW S, NEW files \in Seq(Seq(S)), files # <<>>, NEW f \in 1 .. Len(files), NEW g \in f .. Len(files)
  PROVE  Begins(RunOf(files)[f], RunOf(files)[g])
<1> DEFINE n == Len(files)
           run == RunOf(files)
<1>1. n \in Nat /\ n > 0
  BY RunIs
<1>2. \A h \in 2 .. n : run[h] = run[h - 1] \o files[h]
  BY RunIs
<1>3. \A h \in 1 .. n : run[h] \in Seq(S) /\ files[h] \in Seq(S)
  BY RunIs
<1>4. f \in 1 .. n /\ g \in f .. n /\ f \in Nat /\ g \in Nat
  BY <1>1
<1> HIDE DEF n, run
<1> DEFINE T == {d \in 0 .. n - f : Begins(run[f], run[f + d])}
<1>5. n - f \in Nat /\ g - f \in 0 .. n - f /\ f + (g - f) = g
  BY <1>1, <1>4
<1>6. 0 \in T
  <2>1. 0 \in 0 .. n - f /\ f + 0 = f
    BY <1>4, <1>5
  <2>2. Begins(run[f], run[f])
    <3>1. Len(run[f]) \in Nat
      BY <1>3, <1>4
    <3> QED
      BY <3>1 DEF Begins
  <2> QED
    BY <2>1, <2>2
<1>7. ASSUME NEW d \in 1 .. n - f, d - 1 \in T
      PROVE  d \in T
  <2>1. PICK h \in Nat : h = f + d
    BY <1>4
  <2>2. h \in 2 .. n /\ h - 1 = f + (d - 1) /\ h - 1 \in 1 .. n /\ h \in 1 .. n /\ d \in 0 .. n - f
    BY <1>1, <1>4, <2>1
  <2>3. run[h] = run[h - 1] \o files[h]
    BY <1>2, <2>2
  <2>4. run[h - 1] \in Seq(S) /\ files[h] \in Seq(S) /\ run[f] \in Seq(S)
    BY <1>3, <1>4, <2>2
  <2>5. Begins(run[f], run[h - 1])
    BY <1>7, <2>2
  <2> DEFINE x == run[h - 1]
             y == files[h]
             z == run[h]
             w == run[f]
  <2>6. Len(x) \in Nat /\ Len(y) \in Nat /\ Len(z) = Len(x) + Len(y) /\ \A i \in 1 .. Len(x) : z[i] = x[i]
    <3> HIDE DEF x, y
    <3>1. z = x \o y /\ x \in Seq(S) /\ y \in Seq(S)
      BY <2>3, <2>4 DEF x, y
    <3> QED
      BY <3>1, ConcatProperties
  <2>7. Len(w) \in Nat /\ Len(w) <= Len(x) /\ \A i \in 1 .. Len(w) : x[i] = w[i]
    BY <2>4, <2>5 DEF Begins
  <2> HIDE DEF x, y, z, w
  <2>8. Begins(w, z)
    BY <2>6, <2>7 DEF Begins
  <2> QED
    BY <2>1, <2>2, <2>8 DEF w, z
<1> HIDE DEF T
<1>8. \A d \in 1 .. n - f : d - 1 \in T => d \in T
  BY <1>7
<1>9. PICK m \in Nat : m = n - f
  BY <1>5
<1>10. \A d \in 0 .. m : d \in T
  BY <1>6, <1>8, <1>9, Climb
<1>11. g - f \in T
  BY <1>5, <1>9, <1>10
<1> QED
  BY <1>5, <1>11 DEF T, run

(* Where line i of file f is among all the lines.                          *)
LEMMA LinePlace ==
  ASSUME NEW S, NEW files \in Seq(Seq(S)), files # <<>>, NEW f \in 1 .. Len(files), NEW i \in 1 .. Len(files[f])
  PROVE  /\ Earlier(files, f) + i \in 1 .. Len(FlattenSeq(files))
         /\ FlattenSeq(files)[Earlier(files, f) + i] = files[f][i]
<1> DEFINE n == Len(files)
           run == RunOf(files)
           flat == FlattenSeq(files)
           k == Earlier(files, f)
<1>1. n \in Nat /\ n > 0 /\ flat = run[n]
  BY RunIs
<1>2. run[1] = files[1] /\ \A h \in 2 .. n : run[h] = run[h - 1] \o files[h]
  BY RunIs
<1>3. \A h \in 1 .. n : run[h] \in Seq(S) /\ files[h] \in Seq(S)
  BY RunIs
<1>4. k \in Nat
  BY EarlierIs
<1>5. Begins(run[f], flat)
  <2>1. n \in f .. n
    BY <1>1
  <2> QED
    BY <1>1, <2>1, RunBegins
<1>6. f \in 1 .. n
  OBVIOUS
<1> HIDE DEF n, run, flat
<1>7. Len(run[f]) = k + Len(files[f]) /\ run[f][k + i] = files[f][i]
  <2>1. CASE f = 1
    <3>1. k = 0
      BY <2>1 DEF Earlier
    <3>2. run[f] = files[f] /\ files[f] \in Seq(S)
      BY <1>2, <1>3, <1>6, <2>1
    <3>3. Len(files[f]) \in Nat
      BY <3>2
    <3>4. k + i = i /\ k + Len(files[f]) = Len(files[f])
      BY <3>1, <3>3
    <3> QED
      BY <3>2, <3>4
  <2>2. CASE f # 1
    <3>1. f \in 2 .. n /\ f - 1 \in 1 .. n
      BY <1>1, <1>6, <2>2
    <3>2. k = Len(run[f - 1])
      BY <2>2 DEF Earlier, run
    <3> DEFINE x == run[f - 1]
               y == files[f]
    <3>3. run[f] = x \o y
      BY <1>2, <3>1
    <3>4. x \in Seq(S) /\ y \in Seq(S) /\ i \in 1 .. Len(y)
      BY <1>3, <3>1
    <3> HIDE DEF x, y, k
    <3>5. k = Len(x)
      BY <3>2 DEF x
    <3>6. Len(x \o y) = Len(x) + Len(y) /\ (x \o y)[Len(x) + i] = y[i]
      <4>1. Len(x) + i \in 1 .. Len(x) + Len(y) /\ Len(x) + i > Len(x) /\ (Len(x) + i) - Len(x) = i
        BY <3>4
      <4> QED
        BY <3>4, <4>1
    <3> QED
      BY <3>3, <3>5, <3>6 DEF y
  <2> QED
    BY <2>1, <2>2
<1>8. k + i \in 1 .. Len(run[f])
  <2>1. Len(files[f]) \in Nat
    BY <1>3, <1>6
  <2> HIDE DEF k
  <2> QED
    BY <1>4, <1>7, <2>1
<1>9. Len(flat) \in Nat
  <2>1. flat \in Seq(S)
    BY <1>1, <1>3
  <2> QED
    BY <2>1
<1> HIDE DEF k
<1>10. k + i \in 1 .. Len(flat) /\ flat[k + i] = run[f][k + i]
  BY <1>5, <1>8, <1>9 DEF Begins
<1> QED
  BY <1>7, <1>10 DEF k, flat

(* No line is of two files.                                                *)
LEMMA EarlierGrows ==
  ASSUME NEW S, NEW files \in Seq(Seq(S)), files # <<>>, NEW f \in 1 .. Len(files), NEW g \in 1 .. Len(files), f < g
  PROVE  Earlier(files, f) + Len(files[f]) <= Earlier(files, g)
<1> DEFINE run == RunOf(files)
<1>1. Len(files) \in Nat /\ f \in Nat /\ g \in Nat
  OBVIOUS
<1>2. g # 1 /\ g - 1 \in f .. Len(files) /\ g - 1 \in 1 .. Len(files)
  BY <1>1
<1>3. Earlier(files, g) = Len(run[g - 1])
  BY <1>2 DEF Earlier
<1>4. Begins(run[f], run[g - 1])
  BY <1>2, RunBegins
<1>5. Earlier(files, f + 1) = Earlier(files, f) + Len(files[f])
  BY EarlierIs
<1>6. Earlier(files, f + 1) = Len(run[f])
  <2>1. PICK h \in Nat : h = f + 1
    BY <1>1
  <2>2. h # 1 /\ h - 1 = f
    BY <1>1, <2>1
  <2>3. Earlier(files, h) = Len(run[h - 1])
    BY <2>2 DEF Earlier
  <2> QED
    BY <2>1, <2>2, <2>3
<1> QED
  BY <1>3, <1>4, <1>5, <1>6 DEF Begins

-----------------------------------------------------------------------------
(* The marks between two lines.                                            *)

(* Those that pass 1 has made.                                             *)
Settled(W, a) ==
  \A i, k \in 1 .. Len(a.Forward) : i <= k =>
    /\ a.Forward[i][2] <= a.Forward[k][2] /\ a.Forward[k][2] <= a.Line_num
    /\ a.Forward[i][2] = a.Forward[k][2] => a.Forward[i] = a.Forward[k] /\ k - i < W[a.Forward[k][2]].marks
    /\ OfLine(W, a.Forward[k])

(* Those that pass 2 has still to read.                                    *)
Left(W, a) ==
  \/ Harmed(a)
  \/ a.F_ref = <<0, 0>> /\ a.Forward = <<>>
  \/ \A i, k \in 0 .. Len(a.Forward) : i <= k =>
       /\ a.Line_num < At(a, i)[2] /\ At(a, i)[2] <= At(a, k)[2]
       /\ At(a, i)[2] = At(a, k)[2] => At(a, i) = At(a, k) /\ k - i < W[At(a, i)[2]].marks
       /\ OfLine(W, At(a, k))

LEMMA MarkTyped ==
  ASSUME NEW a, Good(a)
  PROVE  /\ Len(a.Forward) \in Nat /\ a.Line_num \in Nat
         /\ \A i \in 1 .. Len(a.Forward) : a.Forward[i] \in Nat \X Nat /\ a.Forward[i][2] \in Nat
         /\ \A i \in 0 .. Len(a.Forward) : At(a, i) \in Nat \X Nat /\ At(a, i)[2] \in Nat
<1>1. a.Forward \in Seq(Nat \X Nat) /\ a.F_ref \in Nat \X Nat /\ a.Line_num \in Nat
  BY DEF Good, Typed
<1>2. \A m \in Nat \X Nat : m[2] \in Nat
  OBVIOUS
<1>3. Len(a.Forward) \in Nat /\ \A i \in 1 .. Len(a.Forward) : a.Forward[i] \in Nat \X Nat
  BY <1>1
<1>4. \A i \in 0 .. Len(a.Forward) : At(a, i) \in Nat \X Nat
  BY <1>1, <1>3 DEF At
<1> QED
  BY <1>1, <1>2, <1>3, <1>4

LEMMA BeginCollected ==
  ASSUME NEW W, NEW a, Good(a), Settled(W, a), NEW b, b.Forward = a.Forward, b.Line_num = a.Line_num + 1
  PROVE  Collected(W, b, 0)
<1> SUFFICES ASSUME NEW i \in 1 .. Len(a.Forward), NEW k \in 1 .. Len(a.Forward), i <= k
             PROVE  /\ b.Forward[i][2] <= b.Forward[k][2] /\ b.Forward[k][2] <= b.Line_num
                    /\ b.Forward[i][2] = b.Forward[k][2] =>
                         /\ b.Forward[i] = b.Forward[k]
                         /\ k - i < IF b.Forward[k][2] = b.Line_num THEN 0 ELSE W[b.Forward[k][2]].marks
                    /\ b.Forward[k][2] = b.Line_num => b.Forward[k] = Here(b)
                    /\ b.Forward[k][2] # b.Line_num => OfLine(W, b.Forward[k])
  BY Zenon DEF Collected
<1>1. /\ a.Forward[i][2] <= a.Forward[k][2] /\ a.Forward[k][2] <= a.Line_num
      /\ a.Forward[i][2] = a.Forward[k][2] => a.Forward[i] = a.Forward[k] /\ k - i < W[a.Forward[k][2]].marks
      /\ OfLine(W, a.Forward[k])
  BY DEF Settled
<1>2. a.Line_num \in Nat /\ a.Forward[k][2] \in Nat
  BY MarkTyped
<1>3. a.Forward[k][2] # b.Line_num /\ a.Forward[k][2] <= b.Line_num
  BY <1>1, <1>2
<1> QED
  BY <1>1, <1>3

LEMMA EndSettled ==
  ASSUME NEW W, NEW b, Good(b), Collected(W, b, W[b.Line_num].marks), OfLine(W, Here(b))
  PROVE  Settled(W, b)
<1> SUFFICES ASSUME NEW i \in 1 .. Len(b.Forward), NEW k \in 1 .. Len(b.Forward), i <= k
             PROVE  /\ b.Forward[i][2] <= b.Forward[k][2] /\ b.Forward[k][2] <= b.Line_num
                    /\ b.Forward[i][2] = b.Forward[k][2] =>
                         b.Forward[i] = b.Forward[k] /\ k - i < W[b.Forward[k][2]].marks
                    /\ OfLine(W, b.Forward[k])
  BY Zenon DEF Settled
<1>1. /\ b.Forward[i][2] <= b.Forward[k][2] /\ b.Forward[k][2] <= b.Line_num
      /\ b.Forward[i][2] = b.Forward[k][2] =>
           /\ b.Forward[i] = b.Forward[k]
           /\ k - i < IF b.Forward[k][2] = b.Line_num THEN W[b.Line_num].marks ELSE W[b.Forward[k][2]].marks
      /\ b.Forward[k][2] = b.Line_num => b.Forward[k] = Here(b)
      /\ b.Forward[k][2] # b.Line_num => OfLine(W, b.Forward[k])
  BY DEF Collected
<1>2. OfLine(W, b.Forward[k])
  BY <1>1
<1>3. b.Forward[i][2] = b.Forward[k][2] => b.Forward[i] = b.Forward[k] /\ k - i < W[b.Forward[k][2]].marks
  BY <1>1, Zenon
<1> QED
  BY <1>1, <1>2, <1>3

LEMMA BeginPending ==
  ASSUME NEW W, NEW a, Good(a), Left(W, a), NEW b, b.Forward = a.Forward, b.F_ref = a.F_ref, b.errors = a.errors,
         b.Line_num = a.Line_num + 1, W[b.Line_num].file = b.Cfn
  PROVE  Pending(W, b, W[b.Line_num].marks)
<1>0. \A i : At(b, i) = At(a, i)
  BY Zenon DEF At
<1>1. CASE Harmed(a)
  BY <1>1 DEF Harmed, Pending
<1>2. CASE a.F_ref = <<0, 0>> /\ a.Forward = <<>>
  BY <1>2 DEF Pending
<1>3. CASE \A i, k \in 0 .. Len(a.Forward) : i <= k =>
       /\ a.Line_num < At(a, i)[2] /\ At(a, i)[2] <= At(a, k)[2]
       /\ At(a, i)[2] = At(a, k)[2] => At(a, i) = At(a, k) /\ k - i < W[At(a, i)[2]].marks
       /\ OfLine(W, At(a, k))
  <2> DEFINE n == Len(a.Forward)
  <2>1. n \in Nat /\ 0 \in 0 .. n /\ a.Line_num \in Nat
    BY MarkTyped
  <2>2. ASSUME NEW i \in 0 .. n, NEW k \in 0 .. n, i <= k
        PROVE  /\ b.Line_num <= At(b, i)[2] /\ At(b, i)[2] <= At(b, k)[2]
               /\ At(b, i)[2] = At(b, k)[2] => At(b, i) = At(b, k) /\ k - i < W[At(b, i)[2]].marks
               /\ At(b, k)[2] = b.Line_num => At(b, k) = Here(b) /\ k < W[b.Line_num].marks
               /\ At(b, k)[2] # b.Line_num => OfLine(W, At(b, k))
    <3> DEFINE x == At(a, i)
               y == At(a, k)
               z == At(a, 0)
    <3>1. /\ a.Line_num < x[2] /\ x[2] <= y[2]
          /\ x[2] = y[2] => x = y /\ k - i < W[x[2]].marks
          /\ OfLine(W, y)
      BY <1>3, <2>2
    <3>2. /\ a.Line_num < z[2] /\ z[2] <= y[2]
          /\ z[2] = y[2] => z = y /\ k - 0 < W[z[2]].marks
      <4>1. 0 <= k
        BY <2>1
      <4> QED
        BY <1>3, <2>1, <4>1
    <3>3. x[2] \in Nat /\ y \in Nat \X Nat /\ y[2] \in Nat /\ z[2] \in Nat /\ k - 0 = k
      BY <2>1, MarkTyped
    <3> HIDE DEF x, y, z
    <3>4. b.Line_num <= x[2]
      BY <2>1, <3>1, <3>3
    <3>5. ASSUME y[2] = b.Line_num
          PROVE  y = Here(b) /\ k < W[b.Line_num].marks
      <4>1. z[2] = y[2]
        BY <2>1, <3>2, <3>3, <3>5
      <4>2. k < W[b.Line_num].marks
        BY <3>2, <3>3, <3>5, <4>1
      <4>3. y[1] = b.Cfn
        BY <3>1, <3>5 DEF OfLine
      <4>4. y = <<y[1], y[2]>>
        BY <3>3
      <4> QED
        BY <3>5, <4>2, <4>3, <4>4 DEF Here
    <3> QED
      BY <1>0, <3>1, <3>4, <3>5 DEF x, y
  <2> QED
    BY <2>2 DEF Pending
<1> QED
  BY <1>1, <1>2, <1>3 DEF Left

LEMMA EndLeft ==
  ASSUME NEW W, NEW b, Good(b), Pending(W, b, 0)
  PROVE  Left(W, b)
<1>1. CASE Harmed(b) \/ (b.F_ref = <<0, 0>> /\ b.Forward = <<>>)
  BY <1>1 DEF Left
<1>2. CASE \A i, k \in 0 .. Len(b.Forward) : i <= k =>
       /\ b.Line_num <= At(b, i)[2] /\ At(b, i)[2] <= At(b, k)[2]
       /\ At(b, i)[2] = At(b, k)[2] => At(b, i) = At(b, k) /\ k - i < W[At(b, i)[2]].marks
       /\ At(b, k)[2] = b.Line_num => At(b, k) = Here(b) /\ k < 0
       /\ At(b, k)[2] # b.Line_num => OfLine(W, At(b, k))
  <2> DEFINE n == Len(b.Forward)
  <2>1. n \in Nat /\ b.Line_num \in Nat
    BY MarkTyped
  <2>2. ASSUME NEW k \in 0 .. n
        PROVE  b.Line_num < At(b, k)[2] /\ OfLine(W, At(b, k))
    <3>1. k <= k /\ ~ (k < 0)
      BY <2>1
    <3>2. b.Line_num <= At(b, k)[2] /\ At(b, k)[2] # b.Line_num /\ OfLine(W, At(b, k))
      BY <1>2, <3>1
    <3>3. At(b, k)[2] \in Nat
      BY MarkTyped
    <3> QED
      BY <2>1, <3>2, <3>3
  <2>3. ASSUME NEW i \in 0 .. n, NEW k \in 0 .. n, i <= k
        PROVE  /\ b.Line_num < At(b, i)[2] /\ At(b, i)[2] <= At(b, k)[2]
               /\ At(b, i)[2] = At(b, k)[2] => At(b, i) = At(b, k) /\ k - i < W[At(b, i)[2]].marks
               /\ OfLine(W, At(b, k))
    BY <1>2, <2>2, <2>3
  <2> QED
    BY <2>3 DEF Left
<1> QED
  BY <1>1, <1>2 DEF Pending

(* Pass 2 begins with all the marks.                                       *)
LEMMA Rewound ==
  ASSUME NEW W, NEW n \in Nat, DOMAIN W = 1 .. n, NEW a, Good(a), Settled(W, a), NEW b,
         b.F_ref = IF a.Forward = <<>> THEN <<0, 0>> ELSE Head(a.Forward),
         b.Forward = IF a.Forward = <<>> THEN <<>> ELSE Tail(a.Forward),
         b.Line_num = 0
  PROVE  Left(W, b)
<1>1. CASE a.Forward = <<>>
  BY <1>1 DEF Left
<1>2. CASE a.Forward # <<>>
  <2> DEFINE m == Len(a.Forward)
  <2>1. /\ m \in Nat /\ m > 0 /\ Len(b.Forward) = m - 1 /\ b.F_ref = a.Forward[1]
        /\ \A i \in 1 .. m - 1 : b.Forward[i] = a.Forward[i + 1]
    <3>1. a.Forward \in Seq(Nat \X Nat)
      BY DEF Good, Typed
    <3>2. b.F_ref = Head(a.Forward) /\ b.Forward = Tail(a.Forward)
      BY <1>2
    <3> QED
      BY <1>2, <3>1, <3>2
  <2> HIDE DEF m
  <2>2. \A i \in 0 .. m - 1 : At(b, i) = a.Forward[i + 1] /\ i + 1 \in 1 .. m
    <3> TAKE i \in 0 .. m - 1
    <3>1. CASE i = 0
      BY <2>1, <3>1 DEF At
    <3>2. CASE i # 0
      <4>1. i \in 1 .. m - 1 /\ i + 1 \in 1 .. m
        BY <2>1, <3>2
      <4> QED
        BY <2>1, <3>2, <4>1 DEF At
    <3> QED
      BY <3>1, <3>2
  <2>3. ASSUME NEW i \in 0 .. m - 1, NEW k \in 0 .. m - 1, i <= k
        PROVE  /\ b.Line_num < At(b, i)[2] /\ At(b, i)[2] <= At(b, k)[2]
               /\ At(b, i)[2] = At(b, k)[2] => At(b, i) = At(b, k) /\ k - i < W[At(b, i)[2]].marks
               /\ OfLine(W, At(b, k))
    <3>1. i + 1 \in 1 .. m /\ k + 1 \in 1 .. m /\ i + 1 <= k + 1 /\ (k + 1) - (i + 1) = k - i /\ i + 1 <= i + 1
      BY <2>1, <2>3
    <3>2. /\ a.Forward[i + 1][2] <= a.Forward[k + 1][2]
          /\ a.Forward[i + 1][2] = a.Forward[k + 1][2] =>
               a.Forward[i + 1] = a.Forward[k + 1] /\ (k + 1) - (i + 1) < W[a.Forward[k + 1][2]].marks
          /\ OfLine(W, a.Forward[k + 1]) /\ OfLine(W, a.Forward[i + 1])
      BY <3>1 DEF Settled, m
    <3>3. b.Line_num < a.Forward[i + 1][2]
      <4>1. a.Forward[i + 1][2] \in 1 .. n
        BY <3>2 DEF OfLine
      <4> QED
        BY <4>1
    <3> QED
      BY <2>2, <3>1, <3>2, <3>3
  <2> QED
    BY <2>1, <2>3 DEF Left
<1> QED
  BY <1>1, <1>2

-----------------------------------------------------------------------------
(* Where the assembler is in its files.                                    *)

(* Line i of file cfn is the next one, and num lines have been read.       *)
Placing(files, cfn, num, i) ==
  /\ cfn \in 1 .. Len(files) + 1 /\ num \in Nat /\ i \in Nat \ {0}
  /\ num + 1 = Earlier(files, cfn) + i
  /\ cfn <= Len(files) => i <= Len(files[cfn]) + 1
  /\ cfn = Len(files) + 1 => i = 1

LEMMA Onward ==
  \A num, e, i, w \in Nat : num + 1 = e + i /\ i <= w => (num + 1) + 1 = e + (i + 1) /\ i + 1 <= w + 1
OBVIOUS

LEMMA Within ==
  \A num, e, i, w, all \in Nat : num + 1 = e + i /\ e + w <= all /\ i <= w + 1 /\ i # 0 => num \in 0 .. all /\ i \in 1 .. all + 1
OBVIOUS

LEMMA PlaceStart ==
  ASSUME NEW S, NEW files \in Seq(Seq(S)), files # <<>>
  PROVE  Placing(files, 1, 0, 1)
<1>1. Len(files) \in Nat /\ Len(files) > 0 /\ files[1] \in Seq(S)
  BY EmptySeq
<1>2. Len(files[1]) \in Nat
  BY <1>1
<1>3. Earlier(files, 1) = 0
  BY EarlierIs
<1> QED
  BY <1>1, <1>2, <1>3 DEF Placing

LEMMA PlaceLine ==
  ASSUME NEW S, NEW files \in Seq(Seq(S)), files # <<>>, NEW cfn, NEW num, NEW i, Placing(files, cfn, num, i),
         cfn <= Len(files), i <= Len(files[cfn])
  PROVE  /\ Placing(files, cfn, num + 1, i + 1)
         /\ cfn \in 1 .. Len(files) /\ i \in 1 .. Len(files[cfn]) /\ num + 1 = Earlier(files, cfn) + i
<1>1. Len(files) \in Nat /\ cfn \in 1 .. Len(files) /\ files[cfn] \in Seq(S)
  BY DEF Placing
<1>2. Len(files[cfn]) \in Nat /\ i \in 1 .. Len(files[cfn]) /\ num \in Nat
  BY <1>1 DEF Placing
<1>3. Earlier(files, cfn) \in Nat
  BY <1>1, EarlierIs
<1>4. num + 1 = Earlier(files, cfn) + i
  BY DEF Placing
<1>5. cfn \in 1 .. Len(files) + 1 /\ cfn # Len(files) + 1
  BY <1>1
<1>6. PICK e \in Nat : e = Earlier(files, cfn)
  BY <1>3
<1>7. PICK w \in Nat : w = Len(files[cfn])
  BY <1>2
<1>8. (num + 1) + 1 = e + (i + 1) /\ i + 1 \in Nat \ {0} /\ i + 1 <= w + 1 /\ num + 1 \in Nat
  <2>1. num \in Nat /\ i \in Nat
    BY <1>2
  <2>2. num + 1 \in Nat /\ i + 1 \in Nat \ {0}
    BY <2>1
  <2>3. num + 1 = e + i /\ i <= w
    BY <1>4, <1>6, <1>7
  <2> QED
    BY <2>1, <2>2, <2>3, Onward
<1> QED
  BY <1>1, <1>2, <1>4, <1>5, <1>6, <1>7, <1>8 DEF Placing

LEMMA PlaceFile ==
  ASSUME NEW S, NEW files \in Seq(Seq(S)), files # <<>>, NEW cfn, NEW num, NEW i, Placing(files, cfn, num, i),
         cfn <= Len(files), i > Len(files[cfn])
  PROVE  Placing(files, cfn + 1, num, 1)
<1>1. Len(files) \in Nat /\ cfn \in 1 .. Len(files) /\ files[cfn] \in Seq(S)
  BY DEF Placing
<1>2. Len(files[cfn]) \in Nat /\ i = Len(files[cfn]) + 1 /\ num \in Nat /\ num + 1 = Earlier(files, cfn) + i
  <2>1. Len(files[cfn]) \in Nat
    BY <1>1
  <2>2. i \in Nat /\ i <= Len(files[cfn]) + 1 /\ num \in Nat /\ num + 1 = Earlier(files, cfn) + i
    BY <1>1 DEF Placing
  <2> QED
    BY <2>1, <2>2
<1>3. Earlier(files, cfn) \in Nat /\ Earlier(files, cfn + 1) = Earlier(files, cfn) + Len(files[cfn])
  BY <1>1, EarlierIs
<1>4. num + 1 = Earlier(files, cfn + 1) + 1
  BY <1>2, <1>3
<1>5. cfn + 1 \in 1 .. Len(files) + 1 /\ 1 \in Nat \ {0}
  BY <1>1
<1>6. cfn + 1 <= Len(files) => 1 <= Len(files[cfn + 1]) + 1
  <2>1. SUFFICES ASSUME cfn + 1 <= Len(files)
                 PROVE  Len(files[cfn + 1]) \in Nat
    OBVIOUS
  <2>2. cfn + 1 \in 1 .. Len(files)
    BY <1>1, <2>1
  <2>3. files[cfn + 1] \in Seq(S)
    BY <2>2
  <2> QED
    BY <2>3
<1> QED
  BY <1>2, <1>4, <1>5, <1>6 DEF Placing

LEMMA PlaceEnd ==
  ASSUME NEW S, NEW files \in Seq(Seq(S)), files # <<>>, NEW cfn, NEW num, NEW i, Placing(files, cfn, num, i),
         cfn > Len(files)
  PROVE  num = Len(FlattenSeq(files)) /\ i = 1
<1>1. Len(files) \in Nat /\ cfn = Len(files) + 1 /\ i = 1 /\ num \in Nat
  BY DEF Placing
<1>2. num + 1 = Earlier(files, Len(files) + 1) + 1
  BY <1>1 DEF Placing
<1>3. Earlier(files, Len(files) + 1) = Len(FlattenSeq(files))
  BY EarlierIs
<1>4. Len(FlattenSeq(files)) \in Nat
  BY FlattenSeqs
<1> QED
  BY <1>1, <1>2, <1>3, <1>4

LEMMA PlaceTyped ==
  ASSUME NEW S, NEW files \in Seq(Seq(S)), files # <<>>, NEW cfn, NEW num, NEW i, Placing(files, cfn, num, i)
  PROVE  num \in 0 .. Len(FlattenSeq(files)) /\ i \in 1 .. Len(FlattenSeq(files)) + 1
<1> DEFINE n == Len(files)
           all == Len(FlattenSeq(files))
<1>1. n \in Nat /\ n > 0 /\ cfn \in 1 .. n + 1 /\ num \in Nat /\ i \in Nat \ {0} /\ num + 1 = Earlier(files, cfn) + i
  BY EmptySeq DEF Placing
<1>2. all \in Nat
  BY FlattenSeqs
<1>3. CASE cfn > n
  <2>1. num = all /\ i = 1
    BY <1>3, PlaceEnd
  <2> QED
    BY <1>2, <2>1
<1>4. CASE cfn <= n
  <2>1. cfn \in 1 .. n
    BY <1>1, <1>4
  <2>2. /\ Earlier(files, cfn) \in Nat /\ Earlier(files, n) \in Nat
        /\ Earlier(files, n + 1) = Earlier(files, n) + Len(files[n]) /\ Earlier(files, n + 1) = all
    BY <1>1, <2>1, EarlierIs
  <2>3. Len(files[cfn]) \in Nat /\ Len(files[n]) \in Nat
    BY <1>1, <2>1
  <2>4. Earlier(files, cfn) + Len(files[cfn]) <= all
    <3>1. CASE cfn = n
      BY <1>2, <2>2, <3>1
    <3>2. CASE cfn # n
      <4>1. cfn < n /\ n \in 1 .. n
        BY <1>1, <2>1, <3>2
      <4>2. Earlier(files, cfn) + Len(files[cfn]) <= Earlier(files, n)
        BY <2>1, <4>1, EarlierGrows
      <4> QED
        BY <2>2, <2>3, <4>2
    <3> QED
      BY <3>1, <3>2
  <2>5. i <= Len(files[cfn]) + 1
    BY <1>4 DEF Placing
  <2>6. PICK e \in Nat : e = Earlier(files, cfn)
    BY <2>2
  <2>7. PICK w \in Nat : w = Len(files[cfn])
    BY <2>3
  <2>8. num + 1 = e + i /\ e + w <= all /\ i <= w + 1 /\ i \in Nat \ {0} /\ num \in Nat
    BY <1>1, <2>4, <2>5, <2>6, <2>7
  <2> QED
    BY <1>2, <2>8, Within
<1> QED
  BY <1>1, <1>3, <1>4

-----------------------------------------------------------------------------
(* The marks and the file of every line of a program.                      *)

LineMarks(cpu, l) == CHOOSE n \in Nat : \A a : Good(a) => Does(a, ParseLine(cpu, a, l), n)

FileOf(files, j) == CHOOSE f \in 1 .. Len(files) : j \in Earlier(files, f) + 1 .. Earlier(files, f) + Len(files[f])

Weights(p) ==
  [j \in 1 .. Len(FlattenSeq(p.files)) |->
     [marks |-> LineMarks(p.cpu, Text[FlattenSeq(p.files)[j]]), file |-> FileOf(p.files, j)]]

LEMMA ProgramIs ==
  ASSUME NEW p \in Programs
  PROVE  /\ p.cpu \in Processors /\ p.files \in Seq(Seq(DOMAIN Text)) /\ p.files # <<>>
         /\ \A f \in 1 .. Len(p.files) : \A i \in 1 .. Len(p.files[f]) : IsLine(p.cpu, Text[p.files[f][i]])
<1>1. /\ p.cpu \in Processors /\ p.files \in Seq(Seq(DOMAIN Text)) /\ p.files # <<>>
      /\ \A f \in Range(p.files) : \A i \in Range(f) : IsLine(p.cpu, Text[i])
  BY MasmAssumption DEF Processors
<1>2. ASSUME NEW f \in 1 .. Len(p.files), NEW i \in 1 .. Len(p.files[f])
      PROVE  IsLine(p.cpu, Text[p.files[f][i]])
  <2> DEFINE F == p.files[f]
             x == F[i]
  <2>1. f \in DOMAIN p.files /\ F \in Seq(DOMAIN Text)
    BY <1>1
  <2>2. i \in DOMAIN F
    BY <2>1
  <2>3. F \in Range(p.files)
    BY <2>1 DEF Range
  <2> HIDE DEF F
  <2>4. x \in Range(F)
    BY <2>2 DEF Range
  <2> QED
    BY <1>1, <2>3, <2>4 DEF F
<1> QED
  BY <1>1, <1>2

LEMMA FileIs ==
  ASSUME NEW S, NEW files \in Seq(Seq(S)), files # <<>>, NEW f \in 1 .. Len(files), NEW i \in 1 .. Len(files[f])
  PROVE  FileOf(files, Earlier(files, f) + i) = f
<1> DEFINE Span(g) == Earlier(files, g) + 1 .. Earlier(files, g) + Len(files[g])
           j == Earlier(files, f) + i
<1>1. \A g \in 1 .. Len(files) : Earlier(files, g) \in Nat /\ Len(files[g]) \in Nat
  <2>1. \A g \in 1 .. Len(files) : files[g] \in Seq(S)
    OBVIOUS
  <2> QED
    BY <2>1, EarlierIs
<1>2. j \in Span(f) /\ j \in Nat
  BY <1>1
<1>3. ASSUME NEW g \in 1 .. Len(files), j \in Span(g)
      PROVE  g = f
  <2>1. CASE g < f
    <3>1. Earlier(files, g) + Len(files[g]) <= Earlier(files, f)
      BY <2>1, EarlierGrows
    <3> QED
      BY <1>1, <1>2, <1>3, <3>1
  <2>2. CASE f < g
    <3>1. Earlier(files, f) + Len(files[f]) <= Earlier(files, g)
      BY <2>2, EarlierGrows
    <3> QED
      BY <1>1, <1>2, <1>3, <3>1
  <2>3. g = f \/ g < f \/ f < g
    OBVIOUS
  <2> QED
    BY <2>1, <2>2, <2>3
<1>4. FileOf(files, j) = CHOOSE g \in 1 .. Len(files) : j \in Span(g)
  BY DEF FileOf
<1> HIDE DEF Span, j
<1>5. (CHOOSE g \in 1 .. Len(files) : j \in Span(g)) = f
  BY <1>2, <1>3
<1> QED
  BY <1>4, <1>5 DEF j

LEMMA WeightsAre ==
  ASSUME NEW p \in Programs, NEW f \in 1 .. Len(p.files), NEW i \in 1 .. Len(p.files[f]), NEW j,
         j = Earlier(p.files, f) + i
  PROVE  /\ Weights(p)[j].file = f /\ Weights(p)[j].marks \in Nat /\ j \in DOMAIN Weights(p)
         /\ \A a : Good(a) => Does(a, ParseLine(p.cpu, a, Text[p.files[f][i]]), Weights(p)[j].marks)
<1> DEFINE l == Text[p.files[f][i]]
           n == LineMarks(p.cpu, l)
<1>1. p.cpu \in Processors /\ p.files \in Seq(Seq(DOMAIN Text)) /\ p.files # <<>> /\ IsLine(p.cpu, l)
  BY ProgramIs
<1>2. j \in 1 .. Len(FlattenSeq(p.files)) /\ FlattenSeq(p.files)[j] = p.files[f][i]
  BY <1>1, LinePlace
<1>3. FileOf(p.files, j) = f
  BY <1>1, FileIs
<1>4. Weights(p)[j] = [marks |-> n, file |-> f] /\ j \in DOMAIN Weights(p)
  BY <1>2, <1>3 DEF Weights
<1> HIDE DEF l
<1>5. \E m \in Nat : \A a : Good(a) => Does(a, ParseLine(p.cpu, a, l), m)
  BY <1>1, LineDoes
<1>6. n \in Nat /\ \A a : Good(a) => Does(a, ParseLine(p.cpu, a, l), n)
  BY <1>5 DEF LineMarks
<1> HIDE DEF n
<1> QED
  BY <1>4, <1>6 DEF l

-----------------------------------------------------------------------------
(* Every action.                                                           *)

LEMMA GlobalsGood ==
  ASSUME NEW symbols, RootOK(symbols)
  PROVE  Good(Globals(symbols)) /\ \A W : Settled(W, Globals(symbols))
<1> DEFINE a == Globals(symbols)
<1>1. /\ Fields \subseteq DOMAIN a
      /\ a.Pass = 1 /\ a.Cfn = 1 /\ a.Line_num = 0 /\ a.Pc = 0 /\ a.Old_pc = 0 /\ a.E_pc = 0 /\ a.Result = 0
      /\ a.root = symbols /\ a.Forward = <<>> /\ a.F_ref = <<0, 0>> /\ a.ahead = {}
      /\ a.E_bytes = <<>> /\ a.obj = <<>> /\ a.emitted = <<>>
  BY DEF Globals, Fields
<1> HIDE DEF a
<1>2. Typed(a)
  <2>1. AheadOK(a.Pass, a.ahead, a.Forward)
    BY <1>1 DEF AheadOK
  <2> QED
    BY <1>1, <2>1 DEF Typed
<1>3. OutputOf(a)
  <2>1. Stored(0, <<>>, <<>>, <<>>)
    <3>1. Written(<<>>) = <<>>
      BY FlattenNone DEF Written
    <3>2. Placed(0, <<>>) = <<>> /\ Sent(<<>>) = <<>>
      BY DEF Placed, Sent
    <3>3. <<>> \o <<>> = <<>> /\ <<>> \in Seq(Int) /\ <<>> \in Seq(Records) /\ <<>> \in Seq(Emissions)
      OBVIOUS
    <3> QED
      BY <3>1, <3>2, <3>3 DEF Stored
  <2>2. Len(<<>>) < E_LIMIT
    BY LimitAssumption
  <2> QED
    BY <1>1, <2>1, <2>2 DEF OutputOf, Output
<1>4. \A W : Settled(W, a)
  BY <1>1 DEF Settled
<1> QED
  BY <1>2, <1>3, <1>4 DEF Good, a

LEMMA LocalRoot ==
  \A cpu : RootOK(LocalInit(cpu))
<1>1. RootOK(<<>>)
  <2>1. DOMAIN <<>> = {}
    <3>1. <<>> \in Seq({}) /\ Len(<<>>) = 0
      OBVIOUS
    <3>2. DOMAIN <<>> = 1 .. 0
      BY <3>1, LenProperties
    <3> QED
      BY <3>2
  <2> QED
    BY <2>1, Zenon DEF RootOK
<1>2. /\ DOMAIN LocalInit4 = {"x", "X", "y", "Y", "a", "A"}
      /\ \A name \in {"x", "X", "y", "Y", "a", "A"} : LocalInit4[name] \in Nat
  BY DEF LocalInit4, XREG, YREG, ACCUM
<1>3. RootOK(LocalInit4)
  BY <1>2 DEF RootOK
<1> QED
  BY <1>1, <1>3 DEF LocalInit

(* make_pass reads a line: Line_num is the next.                           *)
LEMMA CountedGood ==
  ASSUME NEW a, Good(a), NEW b, b = [a EXCEPT !.Line_num = @ + 1]
  PROVE  /\ Good(b) /\ b.Line_num = a.Line_num + 1 /\ b.Pass = a.Pass /\ b.Cfn = a.Cfn /\ b.Forward = a.Forward
         /\ b.F_ref = a.F_ref /\ b.errors = a.errors /\ b.Pc = a.Pc /\ b.root = a.root /\ b.ahead = a.ahead
<1>1. Fields \subseteq DOMAIN a /\ a.Line_num \in Nat
  BY DEF Good, Typed
<1>2. PICK n \in Nat : n = a.Line_num + 1
  BY <1>1
<1>3. b = [a EXCEPT !.Line_num = n]
  BY <1>2
<1>4. DOMAIN b = DOMAIN a /\ b.Line_num = n /\ \A f \in Fields \ {"Line_num"} : b[f] = a[f]
  BY <1>1, <1>3 DEF Fields
<1>5. Good(b)
  BY <1>4 DEF Good, Typed, OutputOf, Fields
<1> QED
  BY <1>2, <1>4, <1>5 DEF Fields

LEMMA NextFileGood ==
  ASSUME NEW a, Good(a), NEW b, b = [FRecord(a) EXCEPT !.Cfn = @ + 1]
  PROVE  /\ Good(b) /\ b.Cfn = a.Cfn + 1 /\ b.Line_num = a.Line_num /\ b.Pass = a.Pass /\ b.Forward = a.Forward
         /\ b.F_ref = a.F_ref /\ b.errors = a.errors /\ b.Pc = a.Pc /\ b.root = a.root /\ b.ahead = a.ahead
<1> DEFINE c == FRecord(a)
<1>1. Fields \subseteq DOMAIN a /\ a.Cfn \in Nat /\ a.Pc \in Nat /\ a.Old_pc \in Nat /\ a.Pass \in {1, 2}
  BY DEF Good, Typed
<1>2. Moved(a, a)
  BY <1>1 DEF Moved, Kept
<1>3. Good(c)
  BY <1>2, FRecordDoes DEF Does
<1>4. Kept(a, c) /\ c.Pc = a.Pc
  <2>1. CASE a.Pass = 1
    <3>1. c = a
      BY <2>1 DEF FRecord
    <3> QED
      BY <3>1 DEF Kept
  <2>2. CASE a.Pass = 2
    BY <1>1, <2>2, FRecordFields DEF Flushed
  <2> QED
    BY <1>1, <2>1, <2>2
<1>5. b = [c EXCEPT !.Cfn = @ + 1]
  OBVIOUS
<1> HIDE DEF c
<1>6. Fields \subseteq DOMAIN c /\ c.Cfn = a.Cfn
  BY <1>3, <1>4 DEF Good, Typed, Kept
<1>7. PICK n \in Nat : n = a.Cfn + 1
  BY <1>1
<1>8. b = [c EXCEPT !.Cfn = n]
  BY <1>5, <1>6, <1>7
<1>9. DOMAIN b = DOMAIN c /\ b.Cfn = n /\ \A f \in Fields \ {"Cfn"} : b[f] = c[f]
  BY <1>6, <1>8 DEF Fields
<1>10. Good(b)
  BY <1>3, <1>9 DEF Good, Typed, OutputOf, Fields
<1> QED
  BY <1>4, <1>7, <1>9, <1>10 DEF Fields, Kept

(* re_init.                                                                *)
LEMMA RewoundGood ==
  ASSUME NEW a, Good(a), a.Pass = 1, NEW b,
         b = FwdNext([a EXCEPT !.Pass = 2, !.Cfn = 1, !.Line_num = 0, !.Pc = 0, !.E_bytes = <<>>])
  PROVE  /\ Good(b) /\ b.Pass = 2 /\ b.Cfn = 1 /\ b.Line_num = 0
         /\ b.F_ref = IF a.Forward = <<>> THEN <<0, 0>> ELSE Head(a.Forward)
         /\ b.Forward = IF a.Forward = <<>> THEN <<>> ELSE Tail(a.Forward)
         /\ b.Pc = 0 /\ b.root = a.root /\ b.ahead = a.ahead /\ b.errors = a.errors
<1> DEFINE c == [a EXCEPT !.Pass = 2, !.Cfn = 1, !.Line_num = 0, !.Pc = 0, !.E_bytes = <<>>]
<1>1. Fields \subseteq DOMAIN a
  BY DEF Good, Typed
<1>2. /\ DOMAIN c = DOMAIN a /\ c.Pass = 2 /\ c.Cfn = 1 /\ c.Line_num = 0 /\ c.Pc = 0 /\ c.E_bytes = <<>>
      /\ \A f \in Fields \ {"Pass", "Cfn", "Line_num", "Pc", "E_bytes"} : c[f] = a[f]
  BY <1>1 DEF Fields
<1> HIDE DEF c
<1>3. /\ c.E_pc = a.E_pc /\ c.obj = a.obj /\ c.emitted = a.emitted /\ c.Forward = a.Forward /\ c.F_ref = a.F_ref
      /\ c.Old_pc = a.Old_pc /\ c.Result = a.Result /\ c.root = a.root
  BY <1>2 DEF Fields
<1>4. a.E_pc = 0 /\ a.E_bytes = <<>> /\ Stored(a.E_pc, a.E_bytes, a.obj, a.emitted)
  BY DEF Good, OutputOf, Output
<1>5. OutputOf(c)
  <2>1. c.E_pc = 0 /\ c.E_bytes = <<>> /\ c.Pc = 0 /\ c.Pass = 2
    BY <1>2, <1>3, <1>4
  <2>2. Stored(c.E_pc, c.E_bytes, c.obj, c.emitted)
    BY <1>3, <1>4, <2>1
  <2>3. Len(c.E_bytes) = 0 /\ Len(c.E_bytes) < E_LIMIT
    BY <2>1, LimitAssumption
  <2>4. c.Pc = c.E_pc + Len(c.E_bytes)
    BY <2>1, <2>3
  <2> QED
    BY <2>1, <2>2, <2>3, <2>4 DEF OutputOf, Output
<1>6. Typed(c)
  <2>1. AheadOK(c.Pass, c.ahead, c.Forward)
    BY <1>2 DEF AheadOK
  <2> QED
    BY <1>1, <1>2, <1>3, <2>1 DEF Good, Typed
<1>7. Good(c)
  BY <1>5, <1>6 DEF Good
<1>8. FwdFields(c, b)
  BY <1>1, <1>2, FwdNextFields DEF c
<1>9. b.Forward \in Seq(Nat \X Nat) /\ b.F_ref \in Nat \X Nat
  <2>1. c.Forward \in Seq(Nat \X Nat)
    BY <1>6 DEF Typed
  <2>2. CASE c.Forward = <<>>
    <3>1. <<0, 0>> \in Nat \X Nat /\ <<>> \in Seq(Nat \X Nat)
      OBVIOUS
    <3>2. b.F_ref = <<0, 0>> /\ b.Forward = <<>>
      BY <1>8, <2>2 DEF FwdFields
    <3> QED
      BY <3>1, <3>2
  <2>3. CASE c.Forward # <<>>
    <3>1. Head(c.Forward) \in Nat \X Nat /\ Tail(c.Forward) \in Seq(Nat \X Nat)
      BY <2>1, <2>3
    <3> QED
      BY <1>8, <2>3, <3>1 DEF FwdFields
  <2> QED
    BY <2>2, <2>3
<1>10. Good(b)
  <2>1. Quiet(c, b) /\ b.Result \in Int /\ RootOK(b.root)
    BY <1>6, <1>8 DEF FwdFields, Typed
  <2>2. AheadOK(b.Pass, b.ahead, b.Forward)
    BY <1>2, <2>1 DEF AheadOK, Quiet
  <2> QED
    BY <1>7, <1>9, <2>1, <2>2, QuietGood
<1>11. b.Pass = 2 /\ b.Cfn = 1 /\ b.Line_num = 0
  BY <1>2, <1>8 DEF FwdFields, Quiet
<1>12. b.Pc = 0 /\ b.root = a.root /\ b.ahead = a.ahead /\ b.errors = a.errors
  <2>1. c.ahead = a.ahead /\ c.errors = a.errors
    BY <1>2 DEF Fields
  <2> QED
    BY <1>2, <1>3, <1>8, <2>1 DEF FwdFields, Quiet
<1> QED
  BY <1>3, <1>8, <1>10, <1>11, <1>12 DEF FwdFields

(* The marks at the place of the assembler.                                *)
MarksOK(W, a) == (a.Pass = 1 => Settled(W, a)) /\ (a.Pass = 2 => Left(W, a))

(* The inductive invariant: what holds between two lines.                  *)
Between ==
  /\ prog \in Programs
  /\ Good(s)
  /\ Placing(prog.files, s.Cfn, s.Line_num, line)
  /\ MarksOK(Weights(prog), s)
  /\ done \in BOOLEAN /\ (done => s.Cfn > Len(prog.files))

LEMMA BeginsBetween == Init => Between
<1> SUFFICES ASSUME Init
             PROVE  Between
  OBVIOUS
<1>1. prog \in Programs /\ line = 1 /\ done = FALSE /\ s = Globals(LocalInit(prog.cpu))
  BY DEF Init
<1>2. Good(s) /\ \A W : Settled(W, s)
  BY <1>1, GlobalsGood, LocalRoot
<1>3. s.Pass = 1 /\ s.Cfn = 1 /\ s.Line_num = 0
  BY <1>1 DEF Globals
<1>4. MarksOK(Weights(prog), s)
  BY <1>2, <1>3 DEF MarksOK
<1>5. Placing(prog.files, 1, 0, 1)
  BY <1>1, ProgramIs, PlaceStart
<1> QED
  BY <1>1, <1>2, <1>3, <1>4, <1>5 DEF Between

LineAt(p, j) == Text[FlattenSeq(p.files)[j]]

(* The line that ReadLine reads is the next one of all the lines.          *)
LEMMA LineIs ==
  ASSUME NEW p \in Programs, NEW a, Good(a), NEW i, Placing(p.files, a.Cfn, a.Line_num, i),
         a.Cfn <= Len(p.files), i <= Len(p.files[a.Cfn]), NEW j, j = a.Line_num + 1
  PROVE  /\ Placing(p.files, a.Cfn, j, i + 1) /\ j \in 1 .. Len(FlattenSeq(p.files))
         /\ Text[p.files[a.Cfn][i]] = LineAt(p, j) /\ IsLine(p.cpu, LineAt(p, j))
         /\ Weights(p)[j].file = a.Cfn /\ Weights(p)[j].marks \in Nat /\ j \in DOMAIN Weights(p)
         /\ \A x : Good(x) => Does(x, ParseLine(p.cpu, x, LineAt(p, j)), Weights(p)[j].marks)
<1>1. /\ Placing(p.files, a.Cfn, j, i + 1)
      /\ a.Cfn \in 1 .. Len(p.files) /\ i \in 1 .. Len(p.files[a.Cfn]) /\ j = Earlier(p.files, a.Cfn) + i
  <2>1. p.files \in Seq(Seq(DOMAIN Text)) /\ p.files # <<>>
    BY ProgramIs
  <2> DEFINE files == p.files
             cfn == a.Cfn
             num == a.Line_num
             S == DOMAIN Text
  <2>2. files \in Seq(Seq(S)) /\ files # <<>> /\ Placing(files, cfn, num, i) /\ cfn <= Len(files) /\ i <= Len(files[cfn])
    BY <2>1
  <2> HIDE DEF files, cfn, num, S
  <2>3. /\ Placing(files, cfn, num + 1, i + 1)
        /\ cfn \in 1 .. Len(files) /\ i \in 1 .. Len(files[cfn]) /\ num + 1 = Earlier(files, cfn) + i
    <3>1. Placing(files, cfn, num + 1, i + 1)
      BY <2>2, PlaceLine, Zenon
    <3>2. cfn \in 1 .. Len(files)
      BY <2>2, PlaceLine, Zenon
    <3>3. i \in 1 .. Len(files[cfn])
      BY <2>2, PlaceLine, Zenon
    <3>4. num + 1 = Earlier(files, cfn) + i
      BY <2>2 DEF Placing
    <3> QED
      BY <3>1, <3>2, <3>3, <3>4
  <2> QED
    BY <2>3 DEF files, cfn, num
<1> DEFINE l == Text[p.files[a.Cfn][i]]
<1>2. j \in 1 .. Len(FlattenSeq(p.files)) /\ l = LineAt(p, j) /\ IsLine(p.cpu, l)
  <2>1. /\ p.files \in Seq(Seq(DOMAIN Text)) /\ p.files # <<>>
        /\ \A f \in 1 .. Len(p.files) : \A h \in 1 .. Len(p.files[f]) : IsLine(p.cpu, Text[p.files[f][h]])
    BY ProgramIs
  <2>2. j \in 1 .. Len(FlattenSeq(p.files)) /\ FlattenSeq(p.files)[j] = p.files[a.Cfn][i]
    BY <1>1, <2>1, LinePlace
  <2> QED
    BY <1>1, <2>1, <2>2 DEF LineAt
<1>3. /\ Weights(p)[j].file = a.Cfn /\ Weights(p)[j].marks \in Nat /\ j \in DOMAIN Weights(p)
      /\ \A x : Good(x) => Does(x, ParseLine(p.cpu, x, l), Weights(p)[j].marks)
  BY <1>1, WeightsAre
<1> QED
  BY <1>1, <1>2, <1>3

LEMMA LineKeeps ==
  ASSUME NEW p \in Programs, NEW a, Good(a), NEW i, Placing(p.files, a.Cfn, a.Line_num, i), MarksOK(Weights(p), a),
         a.Cfn <= Len(p.files), i <= Len(p.files[a.Cfn]),
         NEW c, c = ParseLine(p.cpu, [a EXCEPT !.Line_num = @ + 1], Text[p.files[a.Cfn][i]])
  PROVE  Good(c) /\ c.Cfn = a.Cfn /\ c.Pass = a.Pass /\ Placing(p.files, c.Cfn, c.Line_num, i + 1) /\ MarksOK(Weights(p), c)
<1> DEFINE b == [a EXCEPT !.Line_num = @ + 1]
           W == Weights(p)
           l == Text[p.files[a.Cfn][i]]
<1>1. /\ Good(b) /\ b.Line_num = a.Line_num + 1 /\ b.Pass = a.Pass /\ b.Cfn = a.Cfn /\ b.Forward = a.Forward
      /\ b.F_ref = a.F_ref /\ b.errors = a.errors
  BY CountedGood
<1> HIDE DEF b
<1>2. PICK j : j = a.Line_num + 1
  OBVIOUS
<1>3. j = b.Line_num
  BY <1>1, <1>2
<1>4. /\ W[j].file = a.Cfn /\ W[j].marks \in Nat /\ j \in DOMAIN W /\ Placing(p.files, a.Cfn, j, i + 1)
      /\ \A x : Good(x) => Does(x, ParseLine(p.cpu, x, l), W[j].marks)
  <2>1. l = LineAt(p, j)
    BY <1>2, LineIs, Zenon
  <2>2. /\ W[j].file = a.Cfn /\ W[j].marks \in Nat /\ j \in DOMAIN W /\ Placing(p.files, a.Cfn, j, i + 1)
        /\ \A x : Good(x) => Does(x, ParseLine(p.cpu, x, LineAt(p, j)), W[j].marks)
    BY <1>2, LineIs
  <2> QED
    BY <2>1, <2>2
<1>5. c = ParseLine(p.cpu, b, l)
  BY DEF b
<1> HIDE DEF W, l
<1>6. Does(b, c, W[j].marks)
  BY <1>1, <1>4, <1>5, Zenon
<1>7. Good(c) /\ c.Pass = a.Pass /\ c.Cfn = a.Cfn /\ c.Line_num = b.Line_num
  BY <1>1, <1>6, Zenon DEF Does, Keeps
<1>8. Placing(p.files, c.Cfn, c.Line_num, i + 1)
  BY <1>3, <1>4, <1>7, Zenon
<1>9. ASSUME a.Pass = 1
      PROVE  Settled(W, c)
  <2>1. Settled(W, a)
    BY <1>9 DEF MarksOK, W
  <2>2. Collected(W, b, 0)
    BY <1>1, <2>1, BeginCollected
  <2>3. Collected(W, c, 0 + W[j].marks)
    BY <1>1, <1>6, <1>9, <2>2, Zenon DEF Does, Counts
  <2>4. 0 + W[j].marks = W[c.Line_num].marks
    <3>1. 0 + W[j].marks = W[j].marks
      BY <1>4
    <3>2. c.Line_num = j
      BY <1>3, <1>7
    <3> QED
      BY <3>1, <3>2
  <2>5. Here(c) = <<a.Cfn, j>>
    BY <1>3, <1>7 DEF Here
  <2>6. OfLine(W, Here(c))
    <3>1. <<a.Cfn, j>>[1] = a.Cfn /\ <<a.Cfn, j>>[2] = j
      OBVIOUS
    <3>2. OfLine(W, <<a.Cfn, j>>)
      BY <1>4, <3>1, Zenon DEF OfLine
    <3> QED
      BY <2>5, <3>2
  <2> QED
    BY <1>7, <2>3, <2>4, <2>6, EndSettled, Zenon
<1>10. ASSUME a.Pass = 2
       PROVE  Left(W, c)
  <2>1. Left(W, a)
    BY <1>10 DEF MarksOK, W
  <2>2. Pending(W, b, W[j].marks)
    BY <1>1, <1>3, <1>4, <2>1, BeginPending
  <2>3. W[j].marks = 0 + W[j].marks
    BY <1>4
  <2>4. Pending(W, c, 0)
    BY <1>1, <1>6, <1>10, <2>2, <2>3 DEF Does, Counts
  <2> QED
    BY <1>7, <2>4, EndLeft
<1> QED
  BY <1>7, <1>8, <1>9, <1>10, Zenon DEF MarksOK, W

LEMMA SameMarksOK ==
  ASSUME NEW W, NEW a, NEW b, MarksOK(W, a), b.Pass = a.Pass, b.Line_num = a.Line_num, b.Forward = a.Forward,
         b.F_ref = a.F_ref, b.errors = a.errors
  PROVE  MarksOK(W, b)
<1>1. \A i : At(b, i) = At(a, i)
  BY Zenon DEF At
<1>2. Settled(W, a) => Settled(W, b)
  BY DEF Settled
<1>3. Left(W, a) => Left(W, b)
  BY <1>1 DEF Left, Harmed
<1> QED
  BY <1>2, <1>3 DEF MarksOK

LEMMA StaysBetween == Between /\ [Next]_vars => Between'
<1> SUFFICES ASSUME Between, [Next]_vars
             PROVE  Between'
  OBVIOUS
<1>1. /\ prog \in Programs /\ Good(s) /\ Placing(prog.files, s.Cfn, s.Line_num, line) /\ MarksOK(Weights(prog), s)
      /\ done \in BOOLEAN /\ (done => s.Cfn > Len(prog.files))
  BY DEF Between
<1>2. prog.files \in Seq(Seq(DOMAIN Text)) /\ prog.files # <<>>
  BY <1>1, ProgramIs, Zenon
<1>3. CASE ReadLine
  <2>1. /\ prog' = prog /\ done' = done /\ ~ done /\ line' = line + 1
        /\ s.Cfn <= Len(prog.files) /\ line <= Len(prog.files[s.Cfn])
        /\ s' = ParseLine(prog.cpu, [s EXCEPT !.Line_num = @ + 1], Text[prog.files[s.Cfn][line]])
    BY <1>3 DEF ReadLine
  <2>2. Good(s') /\ Placing(prog.files, s'.Cfn, s'.Line_num, line + 1) /\ MarksOK(Weights(prog), s')
    BY <1>1, <2>1, LineKeeps
  <2> QED
    BY <1>1, <2>1, <2>2, Zenon DEF Between
<1>4. CASE EndOfFile
  <2>1. /\ prog' = prog /\ done' = done /\ ~ done /\ line' = 1
        /\ s.Cfn <= Len(prog.files) /\ line > Len(prog.files[s.Cfn])
        /\ s' = [FRecord(s) EXCEPT !.Cfn = @ + 1]
    BY <1>4 DEF EndOfFile
  <2>2. /\ Good(s') /\ s'.Cfn = s.Cfn + 1 /\ s'.Line_num = s.Line_num /\ s'.Pass = s.Pass /\ s'.Forward = s.Forward
        /\ s'.F_ref = s.F_ref /\ s'.errors = s.errors
    BY <1>1, <2>1, NextFileGood
  <2>3. Placing(prog.files, s.Cfn + 1, s.Line_num, 1)
    BY <1>1, <1>2, <2>1, PlaceFile
  <2>4. MarksOK(Weights(prog), s')
    BY <1>1, <2>2, SameMarksOK
  <2> QED
    BY <1>1, <2>1, <2>2, <2>3, <2>4 DEF Between
<1>5. CASE SecondPass
  <2>1. /\ prog' = prog /\ done' = done /\ ~ done /\ line' = line
        /\ s.Cfn > Len(prog.files) /\ s.Pass = 1
        /\ s' = FwdNext([s EXCEPT !.Pass = 2, !.Cfn = 1, !.Line_num = 0, !.Pc = 0, !.E_bytes = <<>>])
    BY <1>5 DEF SecondPass
  <2>2. /\ Good(s') /\ s'.Pass = 2 /\ s'.Cfn = 1 /\ s'.Line_num = 0
        /\ s'.F_ref = IF s.Forward = <<>> THEN <<0, 0>> ELSE Head(s.Forward)
        /\ s'.Forward = IF s.Forward = <<>> THEN <<>> ELSE Tail(s.Forward)
    BY <1>1, <2>1, RewoundGood
  <2>3. Placing(prog.files, 1, 0, line')
    <3>1. line = 1
      BY <1>1, <1>2, <2>1, PlaceEnd
    <3> QED
      BY <1>2, <2>1, <3>1, PlaceStart
  <2>4. Left(Weights(prog), s')
    <3> DEFINE W == Weights(prog)
               n == Len(FlattenSeq(prog.files))
    <3>1. n \in Nat /\ DOMAIN W = 1 .. n
      BY <1>2, FlattenSeqs DEF Weights
    <3>2. Settled(W, s)
      BY <1>1, <2>1 DEF MarksOK
    <3> HIDE DEF W, n
    <3>3. Left(W, s')
      BY <1>1, <2>2, <3>1, <3>2, Rewound
    <3> QED
      BY <3>3 DEF W
  <2>5. MarksOK(Weights(prog), s')
    BY <2>2, <2>4 DEF MarksOK
  <2> QED
    BY <1>1, <2>1, <2>2, <2>3, <2>5 DEF Between
<1>6. CASE Exit
  BY <1>1, <1>6 DEF Exit, Between
<1>7. CASE UNCHANGED vars
  BY <1>7 DEF vars, Between
<1> QED
  BY <1>3, <1>4, <1>5, <1>6, <1>7 DEF Next

(* Between two lines of masm the globals are Good, the assembler is where  *)
(* Line_num says, and the marks are those of the lines it has read in pass *)
(* 1, or still has to read in pass 2.                                      *)
THEOREM BetweenLines == Spec => []Between
<1> QED
  BY BeginsBetween, StaysBetween, PTL DEF Spec

-----------------------------------------------------------------------------

LEMMA LinesAre ==
  ASSUME Between
  PROVE  Len(Lines) = Len(FlattenSeq(prog.files)) /\ Len(Lines) \in Nat
<1> DEFINE places == FlattenSeq(prog.files)
<1>1. places \in Seq(DOMAIN Text)
  BY ProgramIs, FlattenSeqs DEF Between
<1>2. Lines = [i \in DOMAIN places |-> Text[places[i]]]
  BY DEF Lines
<1> HIDE DEF places
<1>3. DOMAIN places = 1 .. Len(places) /\ Len(places) \in Nat
  BY <1>1
<1>4. Len(Lines) = Len(places)
  BY <1>2, <1>3
<1> QED
  BY <1>3, <1>4 DEF places

(* The types; the record being collected is always shorter than E_LIMIT    *)
(* between two lines, and no record written is longer.                     *)
THEOREM TypeCorrect == Spec => []TypeOK
<1>1. ASSUME Between
      PROVE  TypeOK
  <2>1. Good(s) /\ Typed(s) /\ OutputOf(s)
    BY <1>1 DEF Between, Good
  <2>2. s.Line_num \in 0 .. Len(Lines) /\ line \in 1 .. Len(Lines) + 1
    <3>1. prog.files \in Seq(Seq(DOMAIN Text)) /\ prog.files # <<>> /\ Placing(prog.files, s.Cfn, s.Line_num, line)
      BY <1>1, ProgramIs DEF Between
    <3>2. s.Line_num \in 0 .. Len(FlattenSeq(prog.files)) /\ line \in 1 .. Len(FlattenSeq(prog.files)) + 1
      BY <3>1, PlaceTyped
    <3> QED
      BY <1>1, <3>2, LinesAre
  <2>3. s.Cfn \in 1 .. Len(prog.files) + 1
    BY <1>1 DEF Between, Placing
  <2>4. \A r \in Range(s.obj) : Len(r.bytes) \in 1 .. E_LIMIT
    <3>1. s.obj \in Seq(Records)
      BY <2>1 DEF OutputOf, Output, Stored
    <3>2. \A r \in Range(s.obj) : r \in Records
      BY <3>1 DEF Range
    <3> QED
      BY <3>2 DEF Records
  <2>5. s.Pass \in {1, 2} /\ {s.Pc, s.Old_pc, s.E_pc} \subseteq Nat /\ s.Result \in Int
    BY <2>1 DEF Typed
  <2>6. \A name \in DOMAIN s.root : name # "" /\ s.root[name] \in Nat
    BY <2>1 DEF Typed, RootOK
  <2>7. Len(s.E_bytes) < E_LIMIT
    BY <2>1 DEF OutputOf, Output
  <2> QED
    BY <2>2, <2>3, <2>4, <2>5, <2>6, <2>7 DEF TypeOK
<1> QED
  BY <1>1, BetweenLines, PTL

(* emit and f_record write every byte once, in order, and at the address   *)
(* that Pc had, modulo 65536, whatever the program and wherever the records*)
(* end.                                                                    *)
THEOREM RecordsAreTheBytes == Spec => []RecordsHoldTheBytes
<1>1. ASSUME Between
      PROVE  RecordsHoldTheBytes
  <2>1. Written(s.obj) \o Placed(s.E_pc, s.E_bytes) = Sent(s.emitted)
    BY <1>1 DEF Between, Good, OutputOf, Output, Stored
  <2> QED
    BY <2>1 DEF RecordsHoldTheBytes, Written, Sent
<1> QED
  BY <1>1, BetweenLines, PTL

(* As long as no error has left operands out, the mark that pass 2 holds in*)
(* F_ref and Ffn is never one of a line it has passed, and none is left at *)
(* the end: fwdmark and fwdnext agree on the lines of every program.       *)
THEOREM MarksFollowTheLines == Spec => []MarksInStep
<1>1. ASSUME Between
      PROVE  MarksInStep
  <2> SUFFICES ASSUME s.Pass = 2, \A e \in s.errors : e[2] \in Harmless
               PROVE  /\ \A m \in Range(s.Forward) \cup ({s.F_ref} \ {<<0, 0>>}) : m[2] > s.Line_num
                      /\ done => s.F_ref = <<0, 0>>
    BY DEF MarksInStep
  <2> DEFINE W == Weights(prog)
             n == Len(FlattenSeq(prog.files))
  <2>1. prog \in Programs /\ Good(s) /\ Left(W, s)
    BY <1>1 DEF Between, MarksOK
  <2>2. prog.files \in Seq(Seq(DOMAIN Text)) /\ prog.files # <<>> /\ DOMAIN W = 1 .. n /\ n \in Nat
    BY <2>1, ProgramIs, FlattenSeqs DEF Weights
  <2>3. done => s.Line_num = n
    BY <1>1, <2>2, PlaceEnd DEF Between
  <2> HIDE DEF W, n
  <2>4. ~ Harmed(s)
    BY DEF Harmed, Harmless, Soft
  <2>5. s.Forward \in Seq(Nat \X Nat) /\ s.Line_num \in Nat
    BY <2>1 DEF Good, Typed
  <2>6. CASE s.F_ref = <<0, 0>> /\ s.Forward = <<>>
    <3>1. Range(s.Forward) = {}
      BY <2>6 DEF Range
    <3> QED
      BY <2>6, <3>1
  <2>7. CASE \A i, k \in 0 .. Len(s.Forward) : i <= k =>
               /\ s.Line_num < At(s, i)[2] /\ At(s, i)[2] <= At(s, k)[2]
               /\ At(s, i)[2] = At(s, k)[2] => At(s, i) = At(s, k) /\ k - i < W[At(s, i)[2]].marks
               /\ OfLine(W, At(s, k))
    <3>1. \A k \in 0 .. Len(s.Forward) : s.Line_num < At(s, k)[2] /\ OfLine(W, At(s, k)) /\ At(s, k)[2] \in Nat
      <4> TAKE k \in 0 .. Len(s.Forward)
      <4>1. k <= k
        BY <2>5
      <4> QED
        BY <2>1, <2>7, <4>1, MarkTyped
    <3>2. 0 \in 0 .. Len(s.Forward) /\ At(s, 0) = s.F_ref
      BY <2>5 DEF At
    <3>3. s.F_ref[2] > s.Line_num /\ s.F_ref[2] \in 1 .. n
      BY <2>2, <2>5, <3>1, <3>2 DEF OfLine
    <3>4. \A m \in Range(s.Forward) : m[2] > s.Line_num
      <4> TAKE m \in Range(s.Forward)
      <4>1. PICK k \in DOMAIN s.Forward : m = s.Forward[k]
        BY DEF Range
      <4>2. k \in 0 .. Len(s.Forward) /\ k # 0
        BY <2>5, <4>1
      <4>3. At(s, k) = m
        BY <4>1, <4>2 DEF At
      <4> QED
        BY <2>5, <3>1, <4>2, <4>3
    <3>5. ~ done
      BY <2>2, <2>3, <3>3
    <3> QED
      BY <3>3, <3>4, <3>5
  <2> QED
    BY <2>1, <2>4, <2>6, <2>7 DEF Left
<1> QED
  BY <1>1, BetweenLines, PTL

-----------------------------------------------------------------------------
(* The two passes of a line, side by side: what an expression gives.       *)

Forced(a) == a.Force_word \/ ~ a.Force_byte

(* What a symbol does to the flags, the lines that are marked, and the mark*)
(* that is next.                                                           *)
Flags(a, b, named, unknown) ==
  /\ b.Force_byte = a.Force_byte
  /\ a.Pass = 1 /\ named /\ unknown => a.Line_num \in b.ahead /\ b.Force_word = Forced(a)
  /\ a.Pass = 1 /\ ~ (named /\ unknown) => b.ahead = a.ahead /\ b.Force_word = a.Force_word
  /\ a.Pass = 2 /\ named /\ Marked(a) => b.Force_word = Forced(a)
  /\ a.Pass = 2 /\ ~ (named /\ Marked(a)) => b.F_ref = a.F_ref /\ b.Force_word = a.Force_word

LEMMA SymbolFlags ==
  ASSUME NEW a, Good(a), NEW name
  PROVE  Flags(a, Symbol(a, name), TRUE, name \notin DOMAIN a.root)
<1> DEFINE b == Symbol(a, name)
           new == a.Pass = 1 /\ name \notin DOMAIN a.root
<1>0. Fields \subseteq DOMAIN a /\ a.Pass \in {1, 2}
  BY DEF Good, Typed
<1>1. CASE new
  <2> DEFINE more == Append(a.Forward, Here(a))
             lines == a.ahead \cup {a.Line_num}
             force == a.Force_word \/ ~ a.Force_byte
  <2>1. b = [a EXCEPT !.Forward = more, !.ahead = lines, !.Force_word = force]
    BY <1>1 DEF Symbol, Marked
  <2> HIDE DEF more, force
  <2>2. b.ahead = lines /\ b.Force_word = force /\ b.Force_byte = a.Force_byte
    BY <1>0, <2>1 DEF Fields
  <2> HIDE DEF b
  <2>3. force = Forced(a)
    BY DEF force, Forced
  <2> QED
    BY <1>1, <2>2, <2>3 DEF Flags, b
<1>2. CASE ~ new
  <2> DEFINE d == Lookup(a, name)
             force == d.Force_word \/ ~ a.Force_byte
             f == [d EXCEPT !.Force_word = force]
  <2>1. /\ Quiet(a, d) /\ d.F_ref = a.F_ref /\ d.ahead = a.ahead
        /\ d.Force_word = a.Force_word /\ d.Force_byte = a.Force_byte
    BY LookupFields
  <2>2. b = IF Marked(a) THEN FwdNext(f) ELSE d
    BY <1>2, Zenon DEF Symbol
  <2>3. force = Forced(a)
    BY <2>1 DEF Forced
  <2> HIDE DEF d, b, force
  <2>4. CASE ~ Marked(a)
    BY <1>0, <1>2, <2>1, <2>2, <2>4 DEF Flags, b
  <2>5. CASE Marked(a)
    <3>1. Fields \subseteq DOMAIN d
      BY <2>1 DEF Quiet
    <3>2. Fields \subseteq DOMAIN f /\ f.Force_word = force /\ f.Force_byte = d.Force_byte
      BY <3>1 DEF Fields
    <3> HIDE DEF f
    <3>3. FwdFields(f, b)
      BY <2>2, <2>5, <3>2, FwdNextFields
    <3>4. b.Force_word = Forced(a) /\ b.Force_byte = a.Force_byte
      BY <2>1, <2>3, <3>2, <3>3 DEF FwdFields
    <3>5. a.Pass = 2
      BY <2>5 DEF Marked
    <3> QED
      BY <2>5, <3>4, <3>5 DEF Flags, b
  <2> QED
    BY <2>4, <2>5
<1> QED
  BY <1>1, <1>2

Named(t) == t.sym \notin {"", "*"}

LEMMA GetTermFlags ==
  ASSUME NEW a, Good(a), NEW t \in Terms
  PROVE  /\ Flags(a, GetTerm(a, t), Named(t), t.sym \notin DOMAIN a.root)
         /\ GetTerm(a, t).Result = Connect(t.op, a.Result, TermValue(a, t))
<1> DEFINE d == IF t.sym \in {"", "*"} THEN a ELSE Symbol(a, t.sym)
           v == Connect(t.op, d.Result, TermValue(a, t))
           b == [d EXCEPT !.Result = v]
<1>1. GetTerm(a, t) = b
  BY DEF GetTerm
<1>2. Fields \subseteq DOMAIN d /\ d.Result = a.Result /\ Flags(a, d, Named(t), t.sym \notin DOMAIN a.root)
  <2>0. Fields \subseteq DOMAIN a
    BY DEF Good, Typed
  <2>1. CASE t.sym \in {"", "*"}
    <3>1. d = a /\ ~ Named(t)
      BY <2>1 DEF Named
    <3> QED
      BY <2>0, <3>1 DEF Flags
  <2>2. CASE t.sym \notin {"", "*"}
    <3>1. d = Symbol(a, t.sym) /\ Named(t)
      BY <2>2 DEF Named
    <3> HIDE DEF d
    <3>2. Fields \subseteq DOMAIN d /\ d.Result = a.Result
      BY <3>1, SymbolDoes DEF Quiet
    <3>3. Flags(a, d, TRUE, t.sym \notin DOMAIN a.root)
      BY <3>1, SymbolFlags
    <3> QED
      BY <3>1, <3>2, <3>3 DEF Flags
  <2> QED
    BY <2>1, <2>2
<1>3. v = Connect(t.op, a.Result, TermValue(a, t))
  BY <1>2
<1> HIDE DEF d, v
<1>4. /\ b.Result = v /\ b.Force_byte = d.Force_byte /\ b.Force_word = d.Force_word /\ b.ahead = d.ahead
      /\ b.F_ref = d.F_ref
  BY <1>2 DEF Fields
<1> HIDE DEF b
<1>5. Flags(a, b, Named(t), t.sym \notin DOMAIN a.root)
  BY <1>2, <1>4 DEF Flags
<1> QED
  BY <1>1, <1>3, <1>4, <1>5

(* An expression in the two passes: p and q are what has become of a in    *)
(* pass 1 and of b in pass 2.                                              *)
Beside(a, b, p, q) ==
  /\ Good(p) /\ Good(q)
  /\ Quiet(a, p) /\ Quiet(b, q) /\ p.root = a.root /\ q.root = b.root
  /\ p.Force_byte = a.Force_byte /\ q.Force_byte = a.Force_byte
  /\ a.Line_num \notin p.ahead => p.Result = q.Result /\ p.Force_word = a.Force_word
  /\ a.Line_num \in p.ahead => p.Force_word = Forced(a)
  /\ ~ Marked(b) => q.F_ref = b.F_ref /\ q.Force_word = a.Force_word
  /\ Marked(b) => \/ q.Force_word = Forced(a)
                  \/ q.F_ref = b.F_ref /\ q.Force_word = a.Force_word /\ a.Line_num \notin p.ahead

LEMMA BesideTerm ==
  ASSUME NEW a, NEW b, a.Pass = 1, b.Pass = 2, b.Old_pc = a.Old_pc, Holds(a.root, b.root),
         a.Force_word \in BOOLEAN, a.Force_byte \in BOOLEAN, NEW p, NEW q, Beside(a, b, p, q), NEW t \in Terms
  PROVE  Beside(a, b, GetTerm(p, t), GetTerm(q, t))
<1> DEFINE x == GetTerm(p, t)
           y == GetTerm(q, t)
<1>1. Good(p) /\ Good(q) /\ Quiet(a, p) /\ Quiet(b, q) /\ p.root = a.root /\ q.root = b.root
  BY DEF Beside
<1>2. Does(p, x, TermMarks(t)) /\ Quiet(p, x) /\ x.root = p.root /\ Does(q, y, TermMarks(t)) /\ Quiet(q, y) /\ y.root = q.root
  BY <1>1, GetTermDoes
<1>3. /\ Flags(p, x, Named(t), t.sym \notin DOMAIN p.root) /\ Flags(q, y, Named(t), t.sym \notin DOMAIN q.root)
      /\ x.Result = Connect(t.op, p.Result, TermValue(p, t)) /\ y.Result = Connect(t.op, q.Result, TermValue(q, t))
  BY <1>1, GetTermFlags
<1> HIDE DEF x, y
<1>4. Good(x) /\ Good(y) /\ Quiet(a, x) /\ Quiet(b, y) /\ x.root = a.root /\ y.root = b.root
  BY <1>1, <1>2 DEF Does, Quiet
<1>5. p.Pass = 1 /\ q.Pass = 2 /\ p.Line_num = a.Line_num /\ Here(q) = Here(b) /\ p.Old_pc = q.Old_pc
  BY <1>1 DEF Quiet, Here
<1>6. x.Force_byte = a.Force_byte /\ y.Force_byte = a.Force_byte
  BY <1>3 DEF Flags, Beside
<1>7. ASSUME a.Line_num \notin x.ahead
      PROVE  x.Result = y.Result /\ x.Force_word = a.Force_word
  <2>1. ~ (Named(t) /\ t.sym \notin DOMAIN a.root)
    BY <1>1, <1>3, <1>5, <1>7 DEF Flags
  <2>2. x.ahead = p.ahead /\ x.Force_word = p.Force_word
    BY <1>1, <1>3, <1>5, <2>1 DEF Flags
  <2>3. TermValue(p, t) = TermValue(q, t)
    BY <1>1, <1>5, <2>1 DEF TermValue, Named, Holds
  <2> QED
    BY <1>3, <1>7, <2>2, <2>3 DEF Beside
<1>8. ASSUME a.Line_num \in x.ahead
      PROVE  x.Force_word = Forced(a)
  <2>1. CASE Named(t) /\ t.sym \notin DOMAIN a.root
    <3>1. x.Force_word = Forced(p)
      BY <1>1, <1>3, <1>5, <2>1 DEF Flags
    <3> QED
      BY <3>1 DEF Beside, Forced
  <2>2. CASE ~ (Named(t) /\ t.sym \notin DOMAIN a.root)
    <3>1. x.ahead = p.ahead /\ x.Force_word = p.Force_word
      BY <1>1, <1>3, <1>5, <2>2 DEF Flags
    <3> QED
      BY <1>8, <3>1 DEF Beside
  <2> QED
    BY <2>1, <2>2
<1>9. ASSUME ~ Marked(b)
      PROVE  y.F_ref = b.F_ref /\ y.Force_word = a.Force_word
  <2>1. ~ Marked(q)
    BY <1>5, <1>9 DEF Beside, Marked
  <2> QED
    BY <1>3, <1>5, <1>9, <2>1 DEF Beside, Flags
<1>10. ASSUME Marked(b)
       PROVE  \/ y.Force_word = Forced(a)
              \/ y.F_ref = b.F_ref /\ y.Force_word = a.Force_word /\ a.Line_num \notin x.ahead
  <2>1. CASE q.Force_word = Forced(a)
    <3>1. y.Force_word = q.Force_word \/ y.Force_word = Forced(q)
      BY <1>3, <1>5 DEF Flags
    <3>2. Forced(q) = Forced(a)
      BY <2>1 DEF Beside, Forced
    <3> QED
      BY <2>1, <3>1, <3>2
  <2>2. CASE q.F_ref = b.F_ref /\ q.Force_word = a.Force_word /\ a.Line_num \notin p.ahead
    <3>1. Marked(q)
      BY <1>5, <1>10, <2>2 DEF Marked
    <3>2. CASE Named(t)
      <4>1. y.Force_word = Forced(q)
        BY <1>3, <1>5, <3>1, <3>2 DEF Flags
      <4> QED
        BY <2>2, <4>1 DEF Beside, Forced
    <3>3. CASE ~ Named(t)
      BY <1>3, <1>5, <2>2, <3>3 DEF Flags
    <3> QED
      BY <3>2, <3>3
  <2> QED
    BY <1>10, <2>1, <2>2 DEF Beside
<1> QED
  BY <1>4, <1>6, <1>7, <1>8, <1>9, <1>10 DEF Beside, x, y

(* The same place of the two passes, where the call that begins at a, in   *)
(* pass 1, ends at c: a line is marked in pass 1 when pass 2 finds a mark. *)
Paired(a, b, c) ==
  /\ Good(a) /\ Good(b) /\ a.Pass = 1 /\ b.Pass = 2
  /\ b.Line_num = a.Line_num /\ b.Pc = a.Pc /\ b.Old_pc = a.Old_pc
  /\ a.Line_num \notin a.ahead
  /\ a.Line_num \in c.ahead <=> Marked(b)
  /\ Holds(c.root, b.root)

(* The two passes size an operand the same way; when a symbol is not known *)
(* in pass 1 its value may differ, and then does not matter.               *)
Sized(x, y, ahead) ==
  /\ x.Force_word \in BOOLEAN /\ x.Force_byte \in BOOLEAN
  /\ y.Force_word = x.Force_word /\ y.Force_byte = x.Force_byte
  /\ y.Result = x.Result \/ (ahead /\ (x.Force_word \/ x.Force_byte))

LEMMA FoldBeside ==
  ASSUME NEW a, NEW b, a.Pass = 1, b.Pass = 2, b.Old_pc = a.Old_pc, Holds(a.root, b.root),
         a.Force_word \in BOOLEAN, a.Force_byte \in BOOLEAN, Beside(a, b, a, b), NEW terms \in Seq(Terms),
         NEW k, k = "GetTerm"
  PROVE  Beside(a, b, Folded(k, a, terms), Folded(k, b, terms))
<1>1. PICK n \in Nat : DOMAIN terms = 1 .. n /\ \A i \in 1 .. n : terms[i] \in Terms
  <2>1. DOMAIN terms = 1 .. Len(terms) /\ Len(terms) \in Nat /\ \A i \in 1 .. Len(terms) : terms[i] \in Terms
    OBVIOUS
  <2> QED
    BY <2>1
<1>2. PICK p : Folds(p, k, a, terms, n)
  BY <1>1, FoldRuns
<1>3. PICK q : Folds(q, k, b, terms, n)
  BY <1>1, FoldRuns
<1> DEFINE T == {i \in 0 .. n : Beside(a, b, p[i], q[i])}
<1>4. 0 \in T
  BY <1>2, <1>3 DEF Folds
<1>5. ASSUME NEW i \in 1 .. n, i - 1 \in T
      PROVE  i \in T
  <2>1. p[i] = GetTerm(p[i - 1], terms[i]) /\ q[i] = GetTerm(q[i - 1], terms[i])
    BY <1>2, <1>3 DEF Folds, FoldTurn
  <2>2. Beside(a, b, p[i - 1], q[i - 1]) /\ terms[i] \in Terms
    BY <1>1, <1>5
  <2>3. Beside(a, b, p[i], q[i])
    BY <2>1, <2>2, BesideTerm
  <2> QED
    BY <2>3
<1>6. n \in T
  <2> HIDE DEF T
  <2>1. \A i \in 0 .. n : i \in T
    BY <1>1, <1>4, <1>5, Climb
  <2> QED
    BY <2>1
<1> QED
  BY <1>2, <1>3, <1>6, Zenon DEF Folds

LEMMA EvalSized ==
  ASSUME NEW a, NEW b, NEW c, Paired(a, b, c), NEW e \in Expressions, Does(Eval(a, e), c, 0)
  PROVE  /\ Sized(Eval(a, e), Eval(b, e), a.Line_num \in c.ahead)
         /\ ~ Marked(b) => Eval(b, e).F_ref = b.F_ref
<1> DEFINE low == e.force = "<"
           high == e.force = ">"
           Begin(z) == [z EXCEPT !.Result = 0, !.Force_byte = low, !.Force_word = high]
           f == Begin(a)
           g == Begin(b)
           k == "GetTerm"
           x == Folded(k, f, e.terms)
           y == Folded(k, g, e.terms)
<1>1. Eval(a, e) = x /\ Eval(b, e) = y
  <2>1. Eval(a, e) = FoldLeft(GetTerm, f, e.terms) /\ Eval(b, e) = FoldLeft(GetTerm, g, e.terms)
    BY DEF Eval
  <2> HIDE DEF f, g
  <2> QED
    BY <2>1, FoldsAre
<1>2. low \in BOOLEAN /\ high \in BOOLEAN /\ ~ (low /\ high)
  OBVIOUS
<1>0. k = "GetTerm" /\ e.terms \in Seq(Terms)
  BY DEF Expressions
<1>3. Good(a) /\ Good(b) /\ a.Pass = 1 /\ b.Pass = 2 /\ b.Old_pc = a.Old_pc /\ b.Line_num = a.Line_num
  BY DEF Paired
<1>4. Holds(a.root, b.root) /\ x.ahead = c.ahead
  <2>1. Eval(a, e).root = a.root
    BY <1>3, EvalResult
  <2>2. Holds(Eval(a, e).root, c.root) /\ c.ahead = Eval(a, e).ahead
    BY DEF Does, Keeps, Reads
  <2> QED
    BY <1>1, <2>1, <2>2 DEF Paired, Holds
<1> HIDE DEF low, high, k
<1>5. ASSUME NEW z, Good(z)
      PROVE  /\ Good(Begin(z)) /\ Quiet(z, Begin(z)) /\ Begin(z).Result = 0 /\ Begin(z).Force_byte = low
             /\ Begin(z).Force_word = high /\ Begin(z).root = z.root /\ Begin(z).F_ref = z.F_ref
             /\ Begin(z).ahead = z.ahead
  <2> DEFINE d == Begin(z)
  <2>1. Fields \subseteq DOMAIN z /\ RootOK(z.root)
    BY <1>5 DEF Good, Typed
  <2>2. /\ Quiet(z, d) /\ d.Result = 0 /\ d.root = z.root /\ d.Forward = z.Forward /\ d.F_ref = z.F_ref
        /\ d.ahead = z.ahead /\ d.errors = z.errors /\ d.Force_byte = low /\ d.Force_word = high
    BY <2>1 DEF Quiet, Fields
  <2> HIDE DEF d
  <2>3. Holds(z.root, d.root)
    BY <2>2 DEF Holds
  <2>4. Does(z, d, 0)
    BY <1>5, <2>1, <2>2, <2>3, QuietDoes
  <2> QED
    BY <2>2, <2>4 DEF Does, d
<1>6. /\ Good(f) /\ Quiet(a, f) /\ f.Result = 0 /\ f.Force_byte = low /\ f.Force_word = high /\ f.root = a.root
      /\ f.F_ref = a.F_ref /\ f.ahead = a.ahead
  BY <1>3, <1>5
<1>7. /\ Good(g) /\ Quiet(b, g) /\ g.Result = 0 /\ g.Force_byte = low /\ g.Force_word = high /\ g.root = b.root
      /\ g.F_ref = b.F_ref
  BY <1>3, <1>5
<1> HIDE DEF f, g
<1>8. f.Pass = 1 /\ g.Pass = 2 /\ g.Old_pc = f.Old_pc /\ f.Line_num = a.Line_num /\ Here(g) = Here(b)
  BY <1>3, <1>6, <1>7 DEF Quiet, Here
<1>9. f.Line_num \notin f.ahead
  BY <1>6, <1>8 DEF Paired
<1>10. Beside(f, g, f, g)
  <2>1. Quiet(f, f) /\ Quiet(g, g)
    BY <1>6, <1>7 DEF Quiet, Good, Typed
  <2> QED
    BY <1>6, <1>7, <1>9, <2>1 DEF Beside
<1>11. Beside(f, g, x, y)
  BY <1>0, <1>2, <1>4, <1>6, <1>7, <1>8, <1>10, FoldBeside
<1> HIDE DEF x, y
<1>12. Marked(g) <=> f.Line_num \in x.ahead
  <2>1. Marked(g) <=> Marked(b)
    BY <1>3, <1>7, <1>8 DEF Marked
  <2> QED
    BY <1>4, <1>8, <2>1 DEF Paired
<1>13. x.Force_byte = low /\ y.Force_byte = low
  BY <1>6, <1>11 DEF Beside
<1>14. ASSUME f.Line_num \in x.ahead
       PROVE  Sized(Eval(a, e), Eval(b, e), a.Line_num \in c.ahead)
  <2>1. x.Force_word = Forced(f) /\ y.Force_word = Forced(f)
    BY <1>11, <1>12, <1>14 DEF Beside
  <2>2. Forced(f) \in BOOLEAN /\ (Forced(f) \/ low)
    BY <1>2, <1>6 DEF Forced
  <2> QED
    BY <1>1, <1>2, <1>4, <1>8, <1>13, <1>14, <2>1, <2>2 DEF Sized
<1>15. ASSUME f.Line_num \notin x.ahead
       PROVE  Sized(Eval(a, e), Eval(b, e), a.Line_num \in c.ahead)
  <2>1. x.Force_word = high /\ y.Force_word = high /\ x.Result = y.Result
    BY <1>6, <1>11, <1>12, <1>15 DEF Beside
  <2> QED
    BY <1>1, <1>2, <1>13, <2>1 DEF Sized
<1>16. ~ Marked(b) => y.F_ref = b.F_ref
  <2>1. Marked(g) <=> Marked(b)
    BY <1>3, <1>7, <1>8 DEF Marked
  <2> QED
    BY <1>7, <1>11, <2>1 DEF Beside
<1> QED
  BY <1>1, <1>14, <1>15, <1>16

-----------------------------------------------------------------------------
(* How far a call moves Pc, unless it gives an error of its line that is   *)
(* not in H.                                                               *)

Stopped(H, c) == \E e \in c.errors : e[1] = c.Line_num /\ e[2] \notin H

Rides(H, a, c, n) == Good(a) /\ Good(c) /\ n \in Nat /\ (Stopped(H, c) \/ c.Pc = a.Pc + n)

(* The two passes end at the same place.                                   *)
Level(H, c, d) == Stopped(H, c) \/ Stopped(H, d) \/ d.Pc = c.Pc

LEMMA StopsStay ==
  ASSUME NEW H, NEW a, NEW b, Keeps(a, b), Stopped(H, a)
  PROVE  Stopped(H, b)
BY DEF Keeps, Stopped

LEMMA RideStill ==
  ASSUME NEW H, NEW a, Good(a)
  PROVE  Rides(H, a, a, 0)
<1>1. a.Pc \in Nat
  BY DEF Good, Typed
<1>2. a.Pc = a.Pc + 0
  BY <1>1
<1> QED
  BY <1>2 DEF Rides

LEMMA RideOn ==
  ASSUME NEW H, NEW a, NEW b, NEW n, Rides(H, a, b, n), NEW c, NEW k, Does(b, c, k), NEW m \in Nat, c.Pc = b.Pc + m
  PROVE  Rides(H, a, c, n + m)
<1>1. Good(a) /\ Good(c) /\ Keeps(b, c) /\ n \in Nat /\ a.Pc \in Nat
  BY DEF Does, Rides, Good, Typed
<1>2. Stopped(H, b) => Stopped(H, c)
  BY <1>1, StopsStay
<1>3. b.Pc = a.Pc + n => c.Pc = a.Pc + (n + m)
  BY <1>1
<1> QED
  BY <1>1, <1>2, <1>3 DEF Rides

LEMMA RideLevel ==
  ASSUME NEW H, NEW a, NEW b, a.Pc = b.Pc, NEW c, NEW d, NEW n, Rides(H, a, c, n), Rides(H, b, d, n)
  PROVE  Level(H, c, d)
BY DEF Rides, Level

LEMMA EmitMoves ==
  ASSUME NEW a, Good(a), NEW x \in Int
  PROVE  Emit(a, x).Pc = a.Pc + 1 /\ Emit(a, x).Old_pc = a.Old_pc
<1> DEFINE y == x % 256
           e == [line |-> a.Line_num, addr |-> a.Pc, byte |-> y]
           b == [a EXCEPT !.Pc = @ + 1, !.E_bytes = Append(@, y), !.emitted = Append(@, e)]
           d == [a EXCEPT !.Pc = @ + 1]
<1>0. Fields \subseteq DOMAIN a /\ a.Pass \in {1, 2}
  BY DEF Good, Typed
<1>1. Emit(a, x) = d \/ (a.Pass = 2 /\ (Emit(a, x) = b \/ Emit(a, x) = FRecord(b)))
  BY <1>0 DEF Emit
<1> HIDE DEF y, e
<1>2. d.Pc = a.Pc + 1 /\ d.Old_pc = a.Old_pc
  BY <1>0 DEF Fields
<1>3. b.Pc = a.Pc + 1 /\ b.Old_pc = a.Old_pc /\ Fields \subseteq DOMAIN b /\ b.Pass = a.Pass
  BY <1>0 DEF Fields
<1> HIDE DEF b, d
<1>4. a.Pass = 2 => FRecord(b).Pc = b.Pc /\ FRecord(b).Old_pc = b.Old_pc
  BY <1>3, FRecordFields, Zenon DEF Flushed
<1> QED
  BY <1>1, <1>2, <1>3, <1>4

(* Every turn of a fold of emit, or of eval and emit, moves Pc by w.       *)
Paces(k, S, w) ==
  \A x \in S : \A z : Good(z) => LET y == FoldTurn(k, z, x) IN Good(y) /\ y.Pc = z.Pc + w /\ y.Old_pc = z.Old_pc

LEMMA FoldMoves ==
  ASSUME NEW k, NEW S, NEW w \in {1, 2}, NEW seq \in Seq(S), NEW a, Good(a), Paces(k, S, w)
  PROVE  /\ Folded(k, a, seq).Pc = a.Pc + (w * Len(seq)) /\ Folded(k, a, seq).Old_pc = a.Old_pc
         /\ Len(seq) \in Nat
<1>1. PICK n \in Nat : n = Len(seq) /\ DOMAIN seq = 1 .. n /\ \A i \in 1 .. n : seq[i] \in S
  <2>1. DOMAIN seq = 1 .. Len(seq) /\ Len(seq) \in Nat /\ \A i \in 1 .. Len(seq) : seq[i] \in S
    OBVIOUS
  <2> QED
    BY <2>1, Zenon
<1>2. PICK p : Folds(p, k, a, seq, n)
  BY <1>1, FoldRuns
<1> DEFINE T == {i \in 0 .. n : Good(p[i]) /\ p[i].Pc = a.Pc + (w * i) /\ p[i].Old_pc = a.Old_pc}
<1>3. a.Pc \in Nat
  BY DEF Good, Typed
<1>4. 0 \in T
  <2>1. a.Pc = a.Pc + (w * 0)
    BY <1>3
  <2> QED
    BY <1>2, <2>1 DEF Folds
<1>5. ASSUME NEW i \in 1 .. n, i - 1 \in T
      PROVE  i \in T
  <2>1. p[i] = FoldTurn(k, p[i - 1], seq[i]) /\ seq[i] \in S
    BY <1>1, <1>2 DEF Folds
  <2>2. Good(p[i - 1]) /\ p[i - 1].Pc = a.Pc + (w * (i - 1)) /\ p[i - 1].Old_pc = a.Old_pc
    BY <1>5
  <2>3. Good(p[i]) /\ p[i].Pc = p[i - 1].Pc + w /\ p[i].Old_pc = a.Old_pc
    BY <2>1, <2>2 DEF Paces
  <2>4. (a.Pc + (w * (i - 1))) + w = a.Pc + (w * i)
    <3>1. CASE w = 1
      BY <1>3, <3>1
    <3>2. CASE w = 2
      BY <1>3, <3>2
    <3> QED
      BY <3>1, <3>2
  <2> QED
    BY <2>2, <2>3, <2>4
<1>6. n \in T
  <2> HIDE DEF T
  <2>1. \A i \in 0 .. n : i \in T
    BY <1>1, <1>4, <1>5, Climb
  <2> QED
    BY <2>1
<1> QED
  BY <1>1, <1>2, <1>6 DEF Folds

LEMMA EmitAllMoves ==
  ASSUME NEW a, Good(a), NEW bytes \in Seq(Int)
  PROVE  /\ EmitAll(a, bytes).Pc = a.Pc + Len(bytes) /\ EmitAll(a, bytes).Old_pc = a.Old_pc
         /\ Does(a, EmitAll(a, bytes), 0) /\ Len(bytes) \in Nat
<1> DEFINE k == "Emit"
           w == 1
<1>1. ASSUME NEW x \in Int, NEW z, Good(z)
      PROVE  LET y == FoldTurn(k, z, x) IN Good(y) /\ y.Pc = z.Pc + w /\ y.Old_pc = z.Old_pc
  <2>1. FoldTurn(k, z, x) = Emit(z, x)
    BY DEF FoldTurn
  <2>2. Good(Emit(z, x))
    BY <1>1, EmitDoes DEF Does
  <2> QED
    BY <1>1, <2>1, <2>2, EmitMoves
<1>2. EmitAll(a, bytes) = Folded(k, a, bytes)
  BY FoldsAre
<1>3. w \in {1, 2}
  OBVIOUS
<1> HIDE DEF k
<1>4. /\ Folded(k, a, bytes).Pc = a.Pc + (w * Len(bytes)) /\ Folded(k, a, bytes).Old_pc = a.Old_pc
      /\ Len(bytes) \in Nat
  <2>1. Paces(k, Int, w)
    BY <1>1 DEF Paces
  <2> HIDE DEF w
  <2> QED
    BY <1>3, <2>1, FoldMoves
<1>5. Does(a, EmitAll(a, bytes), 0)
  BY Still, ThenEmitAll
<1> QED
  BY <1>2, <1>4, <1>5

LEMMA RideEmit ==
  ASSUME NEW H, NEW a, NEW b, NEW n, Rides(H, a, b, n), NEW x \in Int
  PROVE  Rides(H, a, Emit(b, x), n + 1)
<1>1. Good(b)
  BY DEF Rides
<1>2. Does(b, Emit(b, x), 0) /\ Emit(b, x).Pc = b.Pc + 1
  BY <1>1, EmitDoes, EmitMoves
<1> QED
  BY <1>2, RideOn

LEMMA RideEmitAll ==
  ASSUME NEW H, NEW a, NEW b, NEW n, Rides(H, a, b, n), NEW bytes \in Seq(Int)
  PROVE  Rides(H, a, EmitAll(b, bytes), n + Len(bytes))
<1>1. Good(b)
  BY DEF Rides
<1>2. Does(b, EmitAll(b, bytes), 0) /\ EmitAll(b, bytes).Pc = b.Pc + Len(bytes) /\ Len(bytes) \in Nat
  BY <1>1, EmitAllMoves
<1> QED
  BY <1>2, RideOn

LEMMA ErrorMoves ==
  ASSUME NEW a, Good(a), NEW what
  PROVE  /\ Error(a, what).Pc = a.Pc /\ Error(a, what).Old_pc = a.Old_pc /\ Error(a, what).Result = a.Result
         /\ Error(a, what).Line_num = a.Line_num /\ <<a.Line_num, what>> \in Error(a, what).errors
<1> DEFINE more == a.errors \cup {<<a.Line_num, what>>}
<1>1. Error(a, what) = [a EXCEPT !.errors = more]
  BY DEF Error
<1>2. <<a.Line_num, what>> \in more
  OBVIOUS
<1> HIDE DEF more
<1> QED
  BY <1>1, <1>2 DEF Good, Typed, Fields

LEMMA RideError ==
  ASSUME NEW H, NEW a, NEW b, NEW n, Rides(H, a, b, n), NEW what
  PROVE  Rides(H, a, Error(b, what), n)
<1>1. Good(b) /\ n \in Nat
  BY DEF Rides
<1>2. Does(b, Error(b, what), 0) /\ Error(b, what).Pc = b.Pc /\ b.Pc \in Nat
  BY <1>1, ErrorDoes, ErrorMoves DEF Good, Typed
<1>3. Error(b, what).Pc = b.Pc + 0 /\ n + 0 = n
  BY <1>1, <1>2
<1>4. Rides(H, a, Error(b, what), n + 0)
  BY <1>2, <1>3, RideOn
<1> QED
  BY <1>3, <1>4

(* After an error that stops, any number of bytes will do.                 *)
LEMMA RideStop ==
  ASSUME NEW H, NEW a, Good(a), NEW b, Good(b), NEW what, what \notin H, NEW n \in Nat
  PROVE  Rides(H, a, Error(b, what), n) /\ Stopped(H, Error(b, what))
<1> DEFINE e == <<b.Line_num, what>>
           c == Error(b, what)
<1>1. e \in c.errors /\ e[1] = c.Line_num /\ e[2] \notin H
  BY ErrorMoves
<1>2. Good(c)
  BY ErrorDoes DEF Does
<1> HIDE DEF c, e
<1>3. Stopped(H, c)
  BY <1>1 DEF Stopped
<1> QED
  BY <1>2, <1>3 DEF Rides, c

LEMMA RideEval ==
  ASSUME NEW H, NEW a, NEW b, NEW n, Rides(H, a, b, n), NEW e \in Expressions
  PROVE  Rides(H, a, Eval(b, e), n) /\ Eval(b, e).Result \in Int /\ Good(Eval(b, e))
<1>1. Good(b) /\ n \in Nat /\ b.Pc \in Nat
  BY DEF Rides, Good, Typed
<1>2. Does(b, Eval(b, e), Cost(e)) /\ Eval(b, e).Pc = b.Pc
  BY <1>1, CostDoes DEF EvalsTo, Evals, Quiet
<1>3. Eval(b, e).Pc = b.Pc + 0 /\ n + 0 = n
  BY <1>1, <1>2
<1>4. Rides(H, a, Eval(b, e), n + 0)
  BY <1>2, <1>3, RideOn
<1> QED
  BY <1>1, <1>3, <1>4, EvalResult

LEMMA RideEvalByte ==
  ASSUME NEW H, NEW a, NEW b, NEW n, Rides(H, a, b, n), NEW e \in Expressions
  PROVE  Rides(H, a, EvalByte(b, e), n + 1)
<1> DEFINE c == Eval(b, e)
<1>1. Rides(H, a, c, n) /\ c.Result \in Int
  BY RideEval
<1>2. EvalByte(b, e) = Emit(c, c.Result)
  BY DEF EvalByte
<1> HIDE DEF c
<1> QED
  BY <1>1, <1>2, RideEmit

LEMMA WordTakes ==
  ASSUME NEW n \in Int
  PROVE  Word(n) \in Seq(Int) /\ Len(Word(n)) = 2 /\ \A x \in Int : <<x>> \o Word(n) \in Seq(Int) /\ Len(<<x>> \o Word(n)) = 3
<1>1. Word(n) \in Seq(Int) /\ Len(Word(n)) = 2
  BY DEF Word
<1>2. ASSUME NEW x \in Int
      PROVE  <<x>> \o Word(n) \in Seq(Int) /\ Len(<<x>> \o Word(n)) = 3
  <2> DEFINE u == <<x>>
             v == Word(n)
  <2>1. u \in Seq(Int) /\ Len(u) = 1 /\ v \in Seq(Int) /\ Len(v) = 2
    BY <1>1
  <2> HIDE DEF u, v
  <2>2. u \o v \in Seq(Int) /\ Len(u \o v) = 3
    <3>1. u \o v \in Seq(Int) /\ Len(u \o v) = Len(u) + Len(v)
      BY <2>1, ConcatProperties, Zenon
    <3>2. Len(u) + Len(v) = 3
      BY <2>1
    <3> QED
      BY <3>1, <3>2, Zenon
  <2> QED
    BY <2>2 DEF u, v
<1> QED
  BY <1>1, <1>2

LEMMA RideEvalWord ==
  ASSUME NEW H, NEW a, NEW b, NEW n, Rides(H, a, b, n), NEW e \in Expressions
  PROVE  Rides(H, a, EvalWord(b, e), n + 2)
<1> DEFINE c == Eval(b, e)
<1>1. Rides(H, a, c, n) /\ c.Result \in Int
  BY RideEval
<1>2. EvalWord(b, e) = EmitAll(c, Word(c.Result))
  BY DEF EvalWord
<1> HIDE DEF c
<1>3. Word(c.Result) \in Seq(Int) /\ Len(Word(c.Result)) = 2
  BY <1>1, WordTakes
<1> QED
  BY <1>1, <1>2, <1>3, RideEmitAll

(* A branch takes a byte, and in reach or not.                             *)
LEMMA RideDisplacement ==
  ASSUME NEW H, NEW a, NEW b, NEW n, Rides(H, a, b, n), NEW e \in Expressions
  PROVE  Rides(H, a, Displacement(b, e), n + 1)
<1> DEFINE c == Eval(b, e)
           dist == c.Result - (c.Pc + 1)
           own == c.Old_pc - (c.Pc + 1)
<1>1. Rides(H, a, c, n) /\ c.Result \in Int /\ Good(c)
  BY RideEval
<1>2. Displacement(b, e) = Emit(c, dist) \/ Displacement(b, e) = Emit(Error(c, "Branch out of Range"), own)
  BY Zenon DEF Displacement
<1> HIDE DEF c
<1>3. c.Pc \in Nat /\ c.Old_pc \in Nat
  BY <1>1 DEF Good, Typed
<1>4. dist \in Int /\ own \in Int
  BY <1>1, <1>3
<1> HIDE DEF dist, own
<1>5. Rides(H, a, Error(c, "Branch out of Range"), n)
  BY <1>1, RideError
<1> QED
  BY <1>1, <1>2, <1>4, <1>5, RideEmit

-----------------------------------------------------------------------------
(* The two passes stay paired while bytes are emitted.                     *)

LEMMA PairedOn ==
  ASSUME NEW a, NEW b, NEW c, Paired(a, b, c), NEW x, NEW y, Does(a, x, 0), Does(b, y, 0),
         x.Pc = y.Pc, x.Old_pc = y.Old_pc
  PROVE  Paired(x, y, c)
<1>1. Good(x) /\ Good(y) /\ Keeps(a, x) /\ Keeps(b, y) /\ x.ahead = a.ahead /\ y.F_ref = b.F_ref
  BY DEF Does, Reads
<1>2. Here(y) = Here(b)
  BY <1>1 DEF Keeps, Here
<1>3. Holds(c.root, y.root)
  BY <1>1 DEF Paired, Keeps, Holds
<1> QED
  BY <1>1, <1>2, <1>3 DEF Paired, Keeps, Marked

LEMMA PairedEmit ==
  ASSUME NEW a, NEW b, NEW c, Paired(a, b, c), NEW x \in Int
  PROVE  Paired(Emit(a, x), Emit(b, x), c)
<1>1. Good(a) /\ Good(b) /\ a.Pc = b.Pc /\ a.Old_pc = b.Old_pc
  BY DEF Paired
<1>2. Emit(a, x).Pc = Emit(b, x).Pc /\ Emit(a, x).Old_pc = Emit(b, x).Old_pc
  BY <1>1, EmitMoves
<1> QED
  BY <1>1, <1>2, EmitDoes, PairedOn

LEMMA PairedEmitAll ==
  ASSUME NEW a, NEW b, NEW c, Paired(a, b, c), NEW bytes \in Seq(Int)
  PROVE  Paired(EmitAll(a, bytes), EmitAll(b, bytes), c)
<1>1. Good(a) /\ Good(b) /\ a.Pc = b.Pc /\ a.Old_pc = b.Old_pc
  BY DEF Paired
<1>2. /\ EmitAll(a, bytes).Pc = EmitAll(b, bytes).Pc /\ EmitAll(a, bytes).Old_pc = EmitAll(b, bytes).Old_pc
      /\ Does(a, EmitAll(a, bytes), 0) /\ Does(b, EmitAll(b, bytes), 0)
  BY <1>1, EmitAllMoves
<1> QED
  BY <1>1, <1>2, PairedOn

(* Bytes after an operand, as many in both passes.                         *)
LEMMA BytesLevel ==
  ASSUME NEW H, NEW x, NEW y, Good(x), Good(y), x.Pc = y.Pc, NEW u \in Seq(Int), NEW v \in Seq(Int), Len(u) = Len(v)
  PROVE  Level(H, EmitAll(x, u), EmitAll(y, v))
<1>1. EmitAll(x, u).Pc = x.Pc + Len(u) /\ EmitAll(y, v).Pc = y.Pc + Len(v)
  BY EmitAllMoves
<1> QED
  BY <1>1 DEF Level

LEMMA EvalPairs ==
  ASSUME NEW a, NEW b, NEW c, Paired(a, b, c), NEW e \in Expressions, Does(Eval(a, e), c, 0)
  PROVE  /\ Sized(Eval(a, e), Eval(b, e), a.Line_num \in c.ahead)
         /\ Good(Eval(a, e)) /\ Good(Eval(b, e)) /\ Eval(a, e).Pc = Eval(b, e).Pc /\ Eval(a, e).Pc = a.Pc
         /\ Eval(a, e).Result \in Int /\ Eval(b, e).Result \in Int
<1>1. Good(a) /\ Good(b) /\ a.Pc = b.Pc
  BY DEF Paired
<1>2. Good(Eval(a, e)) /\ Good(Eval(b, e)) /\ Quiet(a, Eval(a, e)) /\ Quiet(b, Eval(b, e))
  BY <1>1, EvalResult
<1>3. Eval(a, e).Pc = a.Pc /\ Eval(b, e).Pc = b.Pc
  BY <1>2 DEF Quiet
<1>4. Eval(a, e).Result \in Int /\ Eval(b, e).Result \in Int
  BY <1>1, EvalResult
<1> QED
  BY <1>1, <1>2, <1>3, <1>4, EvalSized

LEMMA SizedWide ==
  ASSUME NEW x, NEW y, NEW ahead, Sized(x, y, ahead)
  PROVE  Wide(y) <=> Wide(x)
BY DEF Sized, Wide

LEMMA AddressTyped ==
  ASSUME NEW x, Good(x), NEW p \in Int, NEW q \in Int, NEW bytes,
         bytes = IF Wide(x) THEN <<q>> \o Word(x.Result) ELSE <<p, x.Result>>
  PROVE  bytes \in Seq(Int) /\ Len(bytes) = (IF Wide(x) THEN 3 ELSE 2)
<1>1. x.Result \in Int
  BY DEF Good, Typed
<1>2. <<p, x.Result>> \in Seq(Int) /\ Len(<<p, x.Result>>) = 2
  BY <1>1
<1>3. <<q>> \o Word(x.Result) \in Seq(Int) /\ Len(<<q>> \o Word(x.Result)) = 3
  BY <1>1, WordTakes
<1> QED
  BY <1>2, <1>3

LEMMA AddressLevel ==
  ASSUME NEW H, NEW a, NEW b, NEW c, Paired(a, b, c), NEW e \in Expressions, NEW p \in Int, NEW q \in Int,
         c = Address(a, e, p, q)
  PROVE  Level(H, c, Address(b, e, p, q))
<1> DEFINE x == Eval(a, e)
           y == Eval(b, e)
           u == IF Wide(x) THEN <<q>> \o Word(x.Result) ELSE <<p, x.Result>>
           v == IF Wide(y) THEN <<q>> \o Word(y.Result) ELSE <<p, y.Result>>
<1>1. c = EmitAll(x, u) /\ Address(b, e, p, q) = EmitAll(y, v)
  BY DEF Address
<1>2. Good(x) /\ Good(y)
  BY EvalResult DEF Paired
<1>3. /\ u \in Seq(Int) /\ Len(u) = (IF Wide(x) THEN 3 ELSE 2)
      /\ v \in Seq(Int) /\ Len(v) = (IF Wide(y) THEN 3 ELSE 2)
  <2> HIDE DEF x, y
  <2> QED
    BY <1>2, AddressTyped
<1> HIDE DEF u, v
<1>4. Does(x, c, 0)
  BY <1>1, <1>2, <1>3, EmitAllMoves
<1>5. Sized(x, y, a.Line_num \in c.ahead) /\ x.Pc = y.Pc
  BY <1>4, EvalPairs
<1> HIDE DEF x, y
<1>6. Len(u) = Len(v)
  BY <1>3, <1>5, SizedWide
<1> QED
  BY <1>1, <1>2, <1>3, <1>5, <1>6, BytesLevel

-----------------------------------------------------------------------------
(* do0.c and do1.c                                                         *)

LEMMA Gen0Level ==
  ASSUME NEW H, NEW a, NEW b, NEW c, Paired(a, b, c), NEW l, Ready(l, 1), l.mode \in {"IMMED", "IND", "OTHER"},
         c = DoGen0(a, l)
  PROVE  Level(H, c, DoGen0(b, l))
<1> DEFINE e == l.args[1]
<1>0. l.code \in Int /\ e \in Expressions /\ l.code + 16 \in Int /\ l.code + 32 \in Int /\ l.code + 48 \in Int
  BY DEF Ready
<1>1. CASE l.mode # "OTHER"
  <2>1. ASSUME NEW z, Good(z)
        PROVE  Rides(H, z, DoGen0(z, l), 0 + 1 + 1)
    <3>1. DoGen0(z, l) = EvalByte(Emit(z, l.code), e) \/ DoGen0(z, l) = EvalByte(Emit(z, l.code + 32), e)
      BY <1>1 DEF DoGen0
    <3> QED
      BY <1>0, <2>1, <3>1, RideStill, RideEmit, RideEvalByte
  <2> QED
    BY <2>1, RideLevel DEF Paired
<1>2. CASE l.mode = "OTHER"
  <2>1. \A z : DoGen0(z, l) = Address(z, e, l.code + 16, l.code + 48)
    BY <1>2 DEF DoGen0
  <2> QED
    BY <1>0, <2>1, AddressLevel
<1> QED
  BY <1>1, <1>2

LEMMA StopLevel ==
  ASSUME NEW H, NEW a, Good(a), NEW what, what \notin H, NEW d
  PROVE  Level(H, Error(a, what), d) /\ Level(H, d, Error(a, what))
BY RideStop DEF Level

LEMMA DoOp0Level ==
  ASSUME NEW H, H \subseteq Soft, NEW a, NEW b, NEW c, Paired(a, b, c),
         NEW cpu, cpu \in {"0", "1"}, NEW l, IsLine(cpu, l), l.op \in Classes(cpu), c = DoOp0(a, l)
  PROVE  Level(H, c, DoOp0(b, l))
<1>1. l.op \in {"INH", "GEN", "REL", "NOIMM", "LONGIMM", "GRP2"}
  BY DEF Classes
<1>2. l.mode \in {"IMMED", "IND", "OTHER"}
  BY DEF IsLine, Modes
<1>3. l.code \in Int /\ l.code + 16 \in Int
  BY LineReady DEF Ready
<1>0. Good(a) /\ Good(b) /\ a.Pc = b.Pc
  BY DEF Paired
<1>4. CASE l.op = "INH"
  <2>1. ASSUME NEW z, Good(z)
        PROVE  Rides(H, z, DoOp0(z, l), 0 + 1)
    <3>1. DoOp0(z, l) = Emit(z, l.code)
      BY <1>4 DEF DoOp0
    <3> QED
      BY <1>3, <2>1, <3>1, RideStill, RideEmit
  <2> QED
    BY <1>0, <2>1, RideLevel
<1>5. CASE l.op # "INH"
  <2> DEFINE e == l.args[1]
  <2>1. Ready(l, 1) /\ e \in Expressions
    <3>1. Operands(l.op) = 1
      BY <1>1, <1>5 DEF Operands
    <3>2. Ready(l, 1)
      BY <3>1, LineReady
    <3> QED
      BY <3>2 DEF Ready
  <2>2. CASE l.op = "NOIMM" /\ l.mode = "IMMED"
    <3>1. c = Error(a, "Immediate Addressing Illegal") /\ "Immediate Addressing Illegal" \notin H
      BY <2>2 DEF DoOp0, NoImmediate, Soft
    <3> QED
      BY <1>0, <3>1, StopLevel
  <2>3. CASE l.op \in {"GEN", "NOIMM"} \/ (l.op = "LONGIMM" /\ l.mode # "IMMED")
    <3>1. CASE l.op = "NOIMM" /\ l.mode = "IMMED"
      BY <2>2, <3>1
    <3>2. CASE ~ (l.op = "NOIMM" /\ l.mode = "IMMED")
      <4>1. \A z : DoOp0(z, l) = DoGen0(z, l)
        BY <2>3, <3>2 DEF DoOp0
      <4> QED
        BY <1>2, <2>1, <4>1, Gen0Level
    <3> QED
      BY <3>1, <3>2
  <2>4. CASE l.op = "REL" \/ (l.op = "GRP2" /\ l.mode = "IND")
    <3>1. ASSUME NEW z, Good(z)
          PROVE  Rides(H, z, DoOp0(z, l), 0 + 1 + 1)
      <4>1. DoOp0(z, l) = Displacement(Emit(z, l.code), e) \/ DoOp0(z, l) = EvalByte(Emit(z, l.code), e)
        BY <2>4 DEF DoOp0, Group0
      <4> QED
        BY <1>3, <2>1, <3>1, <4>1, RideStill, RideEmit, RideDisplacement, RideEvalByte
    <3> QED
      BY <1>0, <3>1, RideLevel
  <2>5. CASE (l.op = "LONGIMM" /\ l.mode = "IMMED") \/ (l.op = "GRP2" /\ l.mode # "IND")
    <3>1. ASSUME NEW z, Good(z)
          PROVE  Rides(H, z, DoOp0(z, l), 0 + 1 + 2)
      <4>1. DoOp0(z, l) = EvalWord(Emit(z, l.code), e) \/ DoOp0(z, l) = EvalWord(Emit(z, l.code + 16), e)
        BY <2>5 DEF DoOp0, Group0
      <4> QED
        BY <1>3, <2>1, <3>1, <4>1, RideStill, RideEmit, RideEvalWord
    <3> QED
      BY <1>0, <3>1, RideLevel
  <2> QED
    BY <1>1, <1>5, <2>2, <2>3, <2>4, <2>5
<1> QED
  BY <1>4, <1>5

-----------------------------------------------------------------------------
(* do4.c                                                                   *)

LEMMA RideTwo ==
  ASSUME NEW H, NEW a, NEW b, NEW n, Rides(H, a, b, n), NEW x \in Int, NEW y \in Int
  PROVE  Rides(H, a, EmitAll(b, <<x, y>>), n + 2)
<1> DEFINE bytes == <<x, y>>
<1>1. bytes \in Seq(Int) /\ Len(bytes) = 2
  OBVIOUS
<1> HIDE DEF bytes
<1>2. Rides(H, a, EmitAll(b, bytes), n + Len(bytes))
  BY <1>1, RideEmitAll
<1> QED
  BY <1>1, <1>2 DEF bytes

LEMMA RideMvi ==
  ASSUME NEW H, NEW a, NEW b, NEW n, Rides(H, a, b, n), NEW x \in Int, NEW y \in Int, NEW z \in Int
  PROVE  Rides(H, a, Mvi(b, x, y, z), n + 3)
<1> DEFINE bytes == <<x, y, z>>
<1>1. bytes \in Seq(Int) /\ Len(bytes) = 3 /\ Mvi(b, x, y, z) = EmitAll(b, bytes)
  BY DEF Mvi
<1> HIDE DEF bytes
<1>2. Rides(H, a, EmitAll(b, bytes), n + Len(bytes))
  BY <1>1, RideEmitAll
<1> QED
  BY <1>1, <1>2

FarStops(H) == "Branch out of Range" \notin H

LEMMA RideLast ==
  ASSUME NEW H, FarStops(H), NEW a, NEW b, NEW n, Rides(H, a, b, n), NEW e \in Expressions
  PROVE  Rides(H, a, LastDisplacement(b, e), n + 1)
<1> DEFINE c == Eval(b, e)
           dist == c.Result - (c.Old_pc + 3)
<1>1. Rides(H, a, c, n) /\ c.Result \in Int /\ Good(c) /\ Good(a) /\ n + 1 \in Nat
  <2>1. Rides(H, a, c, n) /\ c.Result \in Int /\ Good(c)
    BY RideEval
  <2>2. Good(a) /\ n + 1 \in Nat
    BY DEF Rides
  <2> QED
    BY <2>1, <2>2
<1>2. LastDisplacement(b, e) = Emit(c, dist) \/ LastDisplacement(b, e) = Error(c, "Branch out of Range")
  BY Zenon DEF LastDisplacement
<1> HIDE DEF c
<1>3. c.Old_pc \in Nat
  BY <1>1 DEF Good, Typed
<1>4. dist \in Int
  BY <1>1, <1>3
<1> HIDE DEF dist
<1>5. Rides(H, a, Error(c, "Branch out of Range"), n + 1)
  BY <1>1, RideStop DEF FarStops
<1> QED
  BY <1>1, <1>2, <1>4, <1>5, RideEmit

LEMMA RideBranch ==
  ASSUME NEW H, NEW a, Good(a), NEW l, Ready(l, 1)
  PROVE  Rides(H, a, Branch(a, l), 0 + 1)
<1> DEFINE e == l.args[1]
           c == Eval(a, e)
           dist == c.Result - (c.Pc + 1)
<1>0. e \in Expressions /\ l.code \in Nat
  BY DEF Ready
<1>1. Rides(H, a, c, 0) /\ c.Result \in Int /\ Good(c)
  BY <1>0, RideStill, RideEval
<1>3. \/ Branch(a, l) = Emit(c, l.code + (dist % 32))
      \/ Branch(a, l) = Emit(Error(c, "Branch out of Range"), l.code + 31)
  BY DEF Branch
<1> HIDE DEF c, e
<1>2. l.code + (dist % 32) \in Int /\ l.code + 31 \in Int
  <2>1. c.Pc \in Nat
    BY <1>1 DEF Good, Typed
  <2>2. dist \in Int
    BY <1>1, <2>1
  <2> HIDE DEF dist
  <2> QED
    BY <1>0, <2>2
<1> HIDE DEF dist
<1>4. Rides(H, a, Error(c, "Branch out of Range"), 0)
  BY <1>1, RideError
<1> QED
  BY <1>1, <1>2, <1>3, <1>4, RideEmit DEF e

LEMMA RideBitOp4 ==
  ASSUME NEW H, H \subseteq Soft, FarStops(H), NEW a, Good(a), NEW l,
         (l.op = "SETCLR" /\ Ready(l, 2)) \/ (l.op = "BTB" /\ Ready(l, 3))
  PROVE  Rides(H, a, BitOp4(a, l), 0 + 1 + 1 + (IF l.op = "BTB" THEN 1 ELSE 0))
<1> DEFINE b == Eval(a, l.args[1])
           c == EvalByte(Emit(b, l.code + b.Result), l.args[2])
<1>0. l.code \in Nat /\ l.args[1] \in Expressions /\ l.args[2] \in Expressions
  BY DEF Ready
<1>1. Rides(H, a, b, 0) /\ b.Result \in Int /\ Good(b)
  BY <1>0, RideStill, RideEval
<1>3. Rides(H, a, c, 0 + 1 + 1)
  <2> HIDE DEF b
  <2>1. l.code + b.Result \in Int
    BY <1>0, <1>1
  <2> QED
    BY <1>0, <1>1, <2>1, RideEmit, RideEvalByte
<1>4. CASE b.Result \notin 0 .. 7
  <2>1. BitOp4(a, l) = Error(b, "Bit Number must be 0-7")
    BY <1>4 DEF BitOp4
  <2>2. "Bit Number must be 0-7" \notin H
    BY DEF Soft
  <2>3. 0 + 1 + 1 + (IF l.op = "BTB" THEN 1 ELSE 0) \in Nat
    OBVIOUS
  <2> QED
    BY <1>1, <2>1, <2>2, <2>3, RideStop
<1>5. CASE b.Result \in 0 .. 7 /\ l.op = "SETCLR"
  <2>1. BitOp4(a, l) = c /\ l.op # "BTB"
    BY <1>5 DEF BitOp4
  <2>2. 0 + 1 + 1 + (IF l.op = "BTB" THEN 1 ELSE 0) = 0 + 1 + 1
    BY <2>1
  <2> HIDE DEF c
  <2> QED
    BY <1>3, <2>1, <2>2
<1>6. CASE b.Result \in 0 .. 7 /\ l.op = "BTB"
  <2>1. BitOp4(a, l) = LastDisplacement(c, l.args[3])
    BY <1>6 DEF BitOp4
  <2>2. l.args[3] \in Expressions
    BY <1>6 DEF Ready
  <2> HIDE DEF c
  <2>3. Rides(H, a, BitOp4(a, l), 0 + 1 + 1 + 1)
    BY <1>3, <2>1, <2>2, RideLast
  <2> QED
    BY <1>6, <2>3
<1> QED
  BY <1>4, <1>5, <1>6

(* An operand of l that is known moves Pc by its value.                    *)
Moving(cpu, l) ==
  \/ l.op \in Counting \ {"EQU"}
  \/ cpu = "4" /\ l.mode = "OTHER" /\ l.code \in {224, 225, 230, 231}

LEMMA Gen4Level ==
  ASSUME NEW H, NEW a, NEW b, NEW c, Paired(a, b, c), NEW l, Ready(l, 1), l.mode \in {"IMMED", "IND", "OTHER"},
         c = DoGen4(a, l), a.Line_num \in c.ahead => ~ Moving("4", l)
  PROVE  Level(H, c, DoGen4(b, l))
<1> DEFINE e == l.args[1]
<1>0. l.code \in Nat /\ l.code \in Int /\ e \in Expressions /\ Good(a) /\ Good(b) /\ a.Pc = b.Pc
  BY DEF Ready, Paired
<1>1. \A y \in Nat : Or(l.code, y) \in Int
  <2>1. \A y \in Nat : Or(l.code, y) \in Nat
    BY <1>0, OrTyped
  <2> QED
    BY <2>1
<1>3. CASE l.mode = "IMMED" \/ (l.mode = "OTHER" /\ l.code \notin {224, 225, 230, 231})
  <2>1. ASSUME NEW z, Good(z)
        PROVE  Rides(H, z, DoGen4(z, l), 0 + 2)
    <3> DEFINE x == Eval(z, e)
    <3>1. Rides(H, z, x, 0) /\ x.Result \in Int
      BY <1>0, <2>1, RideStill, RideEval
    <3>2. DoGen4(z, l) = EmitAll(x, <<Or(l.code, 8), x.Result>>) \/ DoGen4(z, l) = EmitAll(x, <<Or(l.code, 24), x.Result>>)
      BY <1>3 DEF DoGen4
    <3>3. Or(l.code, 8) \in Int /\ Or(l.code, 24) \in Int
      BY <1>1
    <3> HIDE DEF x
    <3> QED
      BY <3>1, <3>2, <3>3, RideTwo
  <2> QED
    BY <1>0, <2>1, RideLevel
<1>4. CASE l.mode = "IND"
  <2>1. ASSUME NEW z, Good(z)
        PROVE  Rides(H, z, DoGen4(z, l), 0 + 1)
    <3> DEFINE x == Eval(z, e)
               y == 16 * (x.Result % 2)
    <3>1. Rides(H, z, x, 0) /\ x.Result \in Int
      BY <1>0, <2>1, RideStill, RideEval
    <3>2. \/ DoGen4(z, l) = Emit(x, Or(l.code, y))
          \/ DoGen4(z, l) = Emit(Error(x, "Operand must be $80 or $81"), l.code)
      BY <1>4 DEF DoGen4, Indirect
    <3>3. y \in Nat
      <4> HIDE DEF x
      <4> QED
        BY <3>1
    <3> HIDE DEF x, y
    <3>4. Or(l.code, y) \in Int /\ Rides(H, z, Error(x, "Operand must be $80 or $81"), 0)
      BY <1>1, <3>1, <3>3, RideError
    <3> QED
      BY <1>0, <3>1, <3>2, <3>4, RideEmit
  <2> QED
    BY <1>0, <2>1, RideLevel
<1>5. CASE l.mode = "OTHER" /\ l.code \in {224, 225, 230, 231}
  <2> DEFINE x == Eval(a, e)
             y == Eval(b, e)
             Short1(z) == z.Result \in XREG .. SD2REG
             Out(z) == IF Short1(z) THEN <<ShortDirect(l.code, z.Result)>> ELSE <<Or(l.code, 24), z.Result>>
  <2>1. ASSUME NEW z, Good(z)
        PROVE  LET w == Eval(z, e) IN
               /\ Short1(w) => Rides(H, z, DoGen4(z, l), 0 + 1) /\ Does(w, DoGen4(z, l), 0)
               /\ ~ Short1(w) => Rides(H, z, DoGen4(z, l), 0 + 2) /\ Does(w, DoGen4(z, l), 0)
    <3> DEFINE w == Eval(z, e)
    <3>1. Rides(H, z, w, 0) /\ w.Result \in Int /\ Good(w)
      BY <1>0, <2>1, RideStill, RideEval
    <3>2. /\ Short1(w) => DoGen4(z, l) = Emit(w, ShortDirect(l.code, w.Result))
          /\ ~ Short1(w) => DoGen4(z, l) = EmitAll(w, <<Or(l.code, 24), w.Result>>)
      BY <1>5 DEF DoGen4
    <3> HIDE DEF w
    <3>3. ShortDirect(l.code, w.Result) \in Int
      BY <1>5, <3>1 DEF ShortDirect, XREG
    <3>4. Or(l.code, 24) \in Int
      BY <1>1
    <3>5. <<Or(l.code, 24), w.Result>> \in Seq(Int)
      BY <3>1, <3>4
    <3> HIDE DEF Short1
    <3>6. Short1(w) => Rides(H, z, DoGen4(z, l), 0 + 1) /\ Does(w, DoGen4(z, l), 0)
      BY <3>1, <3>2, <3>3, RideEmit, EmitDoes
    <3>7. ~ Short1(w) => Rides(H, z, DoGen4(z, l), 0 + 2)
      BY <3>1, <3>2, <3>4, RideTwo
    <3>8. ~ Short1(w) => Does(w, DoGen4(z, l), 0)
      <4> DEFINE bytes == <<Or(l.code, 24), w.Result>>
      <4>1. bytes \in Seq(Int) /\ (~ Short1(w) => DoGen4(z, l) = EmitAll(w, bytes))
        BY <3>2, <3>5
      <4> HIDE DEF bytes
      <4> QED
        BY <3>1, <4>1, EmitAllMoves
    <3> QED
      BY <3>6, <3>7, <3>8 DEF w
  <2>2. Does(x, c, 0)
    BY <1>0, <2>1
  <2>3. x.Result = y.Result
    <3>1. Sized(x, y, a.Line_num \in c.ahead)
      BY <1>0, <2>2, EvalPairs
    <3>2. a.Line_num \notin c.ahead
      BY <1>5 DEF Moving
    <3> HIDE DEF x, y
    <3> QED
      BY <3>1, <3>2 DEF Sized
  <2>4. Short1(x) <=> Short1(y)
    BY <2>3
  <2>5. Short1(x) \/ ~ Short1(x)
    OBVIOUS
  <2>6. ASSUME Short1(x)
        PROVE  Rides(H, a, c, 0 + 1) /\ Rides(H, b, DoGen4(b, l), 0 + 1)
    BY <1>0, <2>1, <2>4, <2>6
  <2>7. ASSUME ~ Short1(x)
        PROVE  Rides(H, a, c, 0 + 2) /\ Rides(H, b, DoGen4(b, l), 0 + 2)
    BY <1>0, <2>1, <2>4, <2>7
  <2> HIDE DEF Short1, x
  <2> QED
    BY <1>0, <2>5, <2>6, <2>7, RideLevel
<1> QED
  BY <1>3, <1>4, <1>5

LEMMA DoOp4Level ==
  ASSUME NEW H, H \subseteq Soft, FarStops(H), NEW a, NEW b, NEW c, Paired(a, b, c),
         NEW l, IsLine("4", l), l.op \in Classes("4"), c = DoOp4(a, l),
         a.Line_num \in c.ahead => ~ Moving("4", l)
  PROVE  Level(H, c, DoOp4(b, l))
<1>1. l.op \in {"INH", "GEN", "REL", "NOIMM", "APOST", "BPM", "CLRX", "CLRY", "LDX", "LDY", "MVI", "EXT", "BTB", "SETCLR"}
  BY DEF Classes
<1>2. l.mode \in {"IMMED", "IND", "OTHER"}
  BY DEF IsLine, Modes
<1>3. l.code \in Nat /\ l.code \in Int /\ XREG \in Int /\ YREG \in Int /\ ACCUM \in Int /\ 0 \in Int
  BY LineReady DEF Ready, XREG, YREG, ACCUM
<1>0. Good(a) /\ Good(b) /\ a.Pc = b.Pc
  BY DEF Paired
<1>4. CASE l.op \in {"INH", "APOST", "CLRX", "CLRY"}
  <2>1. ASSUME NEW z, Good(z)
        PROVE  /\ l.op = "INH" => Rides(H, z, DoOp4(z, l), 0 + 1)
               /\ l.op = "APOST" => Rides(H, z, DoOp4(z, l), 0 + 2)
               /\ l.op \in {"CLRX", "CLRY"} => Rides(H, z, DoOp4(z, l), 0 + 3)
    <3>1. /\ Rides(H, z, Emit(z, l.code), 0 + 1) /\ Rides(H, z, EmitAll(z, <<l.code, ACCUM>>), 0 + 2)
          /\ Rides(H, z, Mvi(z, l.code, XREG, 0), 0 + 3) /\ Rides(H, z, Mvi(z, l.code, YREG, 0), 0 + 3)
      BY <1>3, <2>1, RideStill, RideEmit, RideTwo, RideMvi, Zenon
    <3>2. /\ l.op = "INH" => DoOp4(z, l) = Emit(z, l.code)
          /\ l.op = "APOST" => DoOp4(z, l) = EmitAll(z, <<l.code, ACCUM>>)
          /\ l.op = "CLRX" => DoOp4(z, l) = Mvi(z, l.code, XREG, 0)
          /\ l.op = "CLRY" => DoOp4(z, l) = Mvi(z, l.code, YREG, 0)
      BY Zenon DEF DoOp4
    <3> QED
      BY <3>1, <3>2
  <2> QED
    BY <1>0, <1>4, <2>1, RideLevel
<1>5. CASE l.op \in {"BTB", "SETCLR"}
  <2>1. (l.op = "SETCLR" /\ Ready(l, 2)) \/ (l.op = "BTB" /\ Ready(l, 3))
    BY <1>5, BitsReady
  <2>2. ASSUME NEW z, Good(z)
        PROVE  Rides(H, z, DoOp4(z, l), 0 + 1 + 1 + (IF l.op = "BTB" THEN 1 ELSE 0))
    <3>1. DoOp4(z, l) = BitOp4(z, l)
      BY <1>5 DEF DoOp4
    <3> QED
      BY <2>1, <2>2, <3>1, RideBitOp4, Zenon
  <2> QED
    BY <1>0, <2>2, RideLevel
<1>6. CASE l.op = "NOIMM" /\ l.mode = "IMMED"
  <2>1. c = Error(a, "Immediate Addressing Illegal") /\ "Immediate Addressing Illegal" \notin H
    BY <1>6 DEF DoOp4, NoImmediate, Soft
  <2> QED
    BY <1>0, <2>1, StopLevel
<1>7. CASE l.op = "MVI"
  <2>1. l.args[1] \in Expressions /\ l.args[2] \in Expressions
    <3>1. Operands(l.op) = 2
      BY <1>7 DEF Operands
    <3>2. Ready(l, 2)
      BY <3>1, LineReady
    <3> QED
      BY <3>2 DEF Ready
  <2>2. ASSUME NEW z, Good(z)
        PROVE  Rides(H, z, DoOp4(z, l), 0 + 3)
    <3> DEFINE x == Eval(z, l.args[1])
               y == Eval(x, l.args[2])
    <3>1. Rides(H, z, x, 0) /\ x.Result \in Int
      BY <2>1, <2>2, RideStill, RideEval
    <3>2. DoOp4(z, l) = Mvi(y, l.code, x.Result, y.Result)
      BY <1>7 DEF DoOp4
    <3> HIDE DEF x
    <3>3. Rides(H, z, y, 0) /\ y.Result \in Int
      BY <2>1, <3>1, RideEval
    <3> HIDE DEF y
    <3> QED
      BY <1>3, <3>1, <3>2, <3>3, RideMvi
  <2> QED
    BY <1>0, <2>2, RideLevel
<1>8. CASE l.op \in {"GEN", "REL", "NOIMM", "BPM", "LDX", "LDY", "EXT"} /\ ~ (l.op = "NOIMM" /\ l.mode = "IMMED")
  <2> DEFINE e == l.args[1]
  <2>1. Ready(l, 1) /\ e \in Expressions
    <3>1. Operands(l.op) = 1
      BY <1>8 DEF Operands
    <3>2. Ready(l, 1)
      BY <3>1, LineReady
    <3> QED
      BY <3>2 DEF Ready
  <2>2. CASE l.op \in {"GEN", "NOIMM"}
    <3>1. \A z : DoOp4(z, l) = DoGen4(z, l)
      BY <1>8, <2>2 DEF DoOp4
    <3> QED
      BY <1>2, <2>1, <3>1, Gen4Level, Zenon
  <2>3. ASSUME NEW z, Good(z)
        PROVE  /\ l.op = "REL" => Rides(H, z, DoOp4(z, l), 0 + 1)
               /\ l.op = "BPM" => Rides(H, z, DoOp4(z, l), 0 + 2 + 1)
               /\ l.op \in {"LDX", "LDY"} => Rides(H, z, DoOp4(z, l), 0 + 3)
               /\ l.op = "EXT" => Rides(H, z, DoOp4(z, l), 0 + 2)
    <3> DEFINE x == Eval(z, e)
               y == Or(l.code, Word(x.Result)[1] % 16)
               f == EmitAll(z, <<l.code, ACCUM>>)
    <3>1. Rides(H, z, x, 0) /\ x.Result \in Int
      BY <2>1, <2>3, RideStill, RideEval
    <3>2. y \in Int
      <4> HIDE DEF x
      <4>1. Word(x.Result)[1] = (x.Result \div 256) % 256
        BY DEF Word
      <4>2. (x.Result \div 256) % 256 \in Nat
        BY <3>1
      <4>3. Word(x.Result)[1] % 16 \in Nat
        BY <4>1, <4>2
      <4>4. y \in Nat
        BY <1>3, <4>3, OrTyped
      <4> HIDE DEF y
      <4> QED
        BY <4>4
    <3>3. Rides(H, z, f, 0 + 2)
      BY <1>3, <2>3, RideStill, RideTwo
    <3>4. /\ l.op = "REL" => DoOp4(z, l) = Branch(z, l)
          /\ l.op = "BPM" => DoOp4(z, l) = LastDisplacement(f, e)
          /\ l.op = "LDX" => DoOp4(z, l) = Mvi(x, l.code, XREG, x.Result)
          /\ l.op = "LDY" => DoOp4(z, l) = Mvi(x, l.code, YREG, x.Result)
          /\ l.op = "EXT" => DoOp4(z, l) = EmitAll(x, <<y, x.Result>>)
      BY Zenon DEF DoOp4
    <3> HIDE DEF x, y, f
    <3>5. Rides(H, z, Mvi(x, l.code, XREG, x.Result), 0 + 3) /\ Rides(H, z, Mvi(x, l.code, YREG, x.Result), 0 + 3)
      BY <1>3, <3>1, RideMvi
    <3>6. Rides(H, z, EmitAll(x, <<y, x.Result>>), 0 + 2)
      BY <3>1, <3>2, RideTwo
    <3>7. Rides(H, z, LastDisplacement(f, e), 0 + 2 + 1) /\ Rides(H, z, Branch(z, l), 0 + 1)
      BY <2>1, <2>3, <3>3, RideLast, RideBranch
    <3> QED
      BY <3>4, <3>5, <3>6, <3>7
  <2>4. CASE l.op \in {"REL", "BPM", "LDX", "LDY", "EXT"}
    <3> HIDE DEF e
    <3> QED
      BY <1>0, <2>3, <2>4, RideLevel
  <2> QED
    BY <1>8, <2>2, <2>4
<1> QED
  BY <1>1, <1>4, <1>5, <1>6, <1>7, <1>8

-----------------------------------------------------------------------------
(* do5.c                                                                   *)

LEMMA Indexed5Level ==
  ASSUME NEW H, NEW a, NEW b, NEW c, Paired(a, b, c), NEW e \in Expressions, NEW op \in Int, c = DoIndexed5(a, e, op)
  PROVE  Level(H, c, DoIndexed5(b, e, op))
<1> DEFINE None(z) == z.Result = 0 /\ ~ z.Force_word /\ ~ z.Force_byte
           Long(z) == op >= 128 /\ Wide(z)
           Out(z) == IF Long(z) THEN <<op>> \o Word(z.Result) ELSE <<op + 16, z.Result>>
           x == Eval(a, e)
           y == Eval(b, e)
<1>0. Good(a) /\ Good(b) /\ a.Pc = b.Pc
  BY DEF Paired
<1>1. ASSUME NEW z, Good(z), NEW w, w = Eval(z, e), NEW f, f = DoIndexed5(z, e, op)
      PROVE  /\ Does(w, f, 0)
             /\ None(w) => f = Emit(w, op + 32)
             /\ ~ None(w) => f = EmitAll(w, Out(w)) /\ Out(w) \in Seq(Int) /\ Len(Out(w)) = IF Long(w) THEN 3 ELSE 2
  <2>1. Good(w) /\ w.Result \in Int
    BY <1>1, EvalResult
  <2>2. /\ None(w) => f = Emit(w, op + 32)
        /\ ~ None(w) => f = EmitAll(w, Out(w))
    BY <1>1 DEF DoIndexed5
  <2>3. <<op + 16, w.Result>> \in Seq(Int) /\ Len(<<op + 16, w.Result>>) = 2
    BY <2>1
  <2>4. <<op>> \o Word(w.Result) \in Seq(Int) /\ Len(<<op>> \o Word(w.Result)) = 3
    BY <2>1, WordTakes
  <2> HIDE DEF Long, None
  <2>5. Out(w) \in Seq(Int) /\ Len(Out(w)) = IF Long(w) THEN 3 ELSE 2
    BY <2>3, <2>4
  <2> HIDE DEF Out
  <2>6. op + 32 \in Int
    OBVIOUS
  <2>7. Does(w, f, 0)
    BY <2>1, <2>2, <2>5, <2>6, EmitDoes, EmitAllMoves
  <2> QED
    BY <2>2, <2>5, <2>7
<1>2. Does(x, c, 0)
  BY <1>0, <1>1
<1>3. /\ Sized(x, y, a.Line_num \in c.ahead) /\ Good(x) /\ Good(y) /\ x.Pc = y.Pc
  BY <1>2, EvalPairs
<1>4. /\ None(x) => c = Emit(x, op + 32)
      /\ ~ None(x) => c = EmitAll(x, Out(x)) /\ Out(x) \in Seq(Int) /\ Len(Out(x)) = IF Long(x) THEN 3 ELSE 2
  BY <1>0, <1>1
<1> DEFINE d == DoIndexed5(b, e, op)
<1>5. /\ None(y) => d = Emit(y, op + 32)
      /\ ~ None(y) => d = EmitAll(y, Out(y)) /\ Out(y) \in Seq(Int) /\ Len(Out(y)) = IF Long(y) THEN 3 ELSE 2
  BY <1>0, <1>1
<1> HIDE DEF x, y, d, Out
<1>6. None(x) <=> None(y)
  BY <1>3 DEF Sized
<1>7. Long(x) <=> Long(y)
  BY <1>3, SizedWide
<1> HIDE DEF Long, None
<1>8. CASE None(x)
  <2>1. Emit(x, op + 32).Pc = x.Pc + 1 /\ Emit(y, op + 32).Pc = y.Pc + 1
    BY <1>3, EmitMoves
  <2>2. c.Pc = d.Pc
    BY <1>3, <1>4, <1>5, <1>6, <1>8, <2>1
  <2> QED
    BY <2>2 DEF Level, d
<1>9. CASE ~ None(x)
  <2>1. Level(H, EmitAll(x, Out(x)), EmitAll(y, Out(y)))
    BY <1>3, <1>4, <1>5, <1>6, <1>7, <1>9, BytesLevel
  <2> QED
    BY <1>4, <1>5, <1>6, <1>9, <2>1 DEF d
<1> QED
  BY <1>8, <1>9

LEMMA Gen5Level ==
  ASSUME NEW H, NEW a, NEW b, NEW c, Paired(a, b, c), NEW l, Ready(l, 1), l.mode \in {"IMMED", "IND", "OTHER"},
         c = DoGen5(a, l)
  PROVE  Level(H, c, DoGen5(b, l))
<1> DEFINE e == l.args[1]
<1>0. l.code \in Int /\ e \in Expressions /\ l.code + 16 \in Int /\ l.code + 32 \in Int /\ l.code + 48 \in Int
  BY DEF Ready
<1>1. CASE l.mode = "IMMED"
  <2>1. ASSUME NEW z, Good(z)
        PROVE  Rides(H, z, DoGen5(z, l), 0 + 1 + 1)
    <3>1. DoGen5(z, l) = EvalByte(Emit(z, l.code), e)
      BY <1>1 DEF DoGen5
    <3> QED
      BY <1>0, <2>1, <3>1, RideStill, RideEmit, RideEvalByte
  <2> QED
    BY <2>1, RideLevel DEF Paired
<1>2. CASE l.mode = "OTHER"
  <2>1. \A z : DoGen5(z, l) = Address(z, e, l.code + 16, l.code + 32)
    BY <1>2 DEF DoGen5
  <2> QED
    BY <1>0, <2>1, AddressLevel
<1>3. CASE l.mode = "IND"
  <2>1. \A z : DoGen5(z, l) = DoIndexed5(z, e, l.code + 48)
    BY <1>3 DEF DoGen5
  <2> QED
    BY <1>0, <2>1, Indexed5Level
<1> QED
  BY <1>1, <1>2, <1>3

LEMMA Group5Level ==
  ASSUME NEW H, H \subseteq Soft, NEW a, NEW b, NEW c, Paired(a, b, c), NEW l, Ready(l, 1), c = Group5(a, l)
  PROVE  Level(H, c, Group5(b, l))
<1> DEFINE e == l.args[1]
<1>0. l.code \in Int /\ e \in Expressions /\ l.code + 32 \in Int
  BY DEF Ready
<1>1. CASE l.mode = "IND"
  <2>1. \A z : Group5(z, l) = DoIndexed5(z, e, l.code + 32)
    BY <1>1 DEF Group5
  <2> QED
    BY <1>0, <2>1, Indexed5Level
<1>2. CASE l.mode # "IND"
  <2>1. ASSUME NEW z, Good(z)
        PROVE  Rides(H, z, Group5(z, l), 0 + 2)
    <3> DEFINE x == Eval(z, e)
    <3>1. Rides(H, z, x, 0) /\ x.Result \in Int /\ Good(x)
      BY <1>0, <2>1, RideStill, RideEval, Zenon
    <3>2. Group5(z, l) = EmitAll(x, <<l.code, x.Result>>) \/ Group5(z, l) = Error(x, "Extended Addressing not allowed")
      BY <1>2, Zenon DEF Group5
    <3> HIDE DEF x
    <3>3. "Extended Addressing not allowed" \notin H
      BY DEF Soft
    <3>4. 0 + 2 \in Nat
      OBVIOUS
    <3>5. Rides(H, z, Error(x, "Extended Addressing not allowed"), 0 + 2)
      BY <2>1, <3>1, <3>3, <3>4, RideStop
    <3> QED
      BY <1>0, <3>1, <3>2, <3>5, RideTwo
  <2> QED
    BY <2>1, RideLevel DEF Paired
<1> QED
  BY <1>1, <1>2

LEMMA RideBitOp5 ==
  ASSUME NEW H, H \subseteq Soft, NEW a, Good(a), NEW l, (l.op = "SETCLR" /\ Ready(l, 2)) \/ (l.op = "BTB" /\ Ready(l, 3))
  PROVE  Rides(H, a, BitOp5(a, l), 0 + 1 + 1 + (IF l.op = "BTB" THEN 1 ELSE 0))
<1> DEFINE b == Eval(a, l.args[1])
           c == EvalByte(Emit(b, l.code + (2 * b.Result)), l.args[2])
<1>0. l.code \in Nat /\ l.args[1] \in Expressions /\ l.args[2] \in Expressions
  BY DEF Ready
<1>1. Rides(H, a, b, 0) /\ b.Result \in Int /\ Good(b)
  BY <1>0, RideStill, RideEval
<1>3. Rides(H, a, c, 0 + 1 + 1)
  <2> HIDE DEF b
  <2>1. l.code + (2 * b.Result) \in Int
    BY <1>0, <1>1
  <2> QED
    BY <1>0, <1>1, <2>1, RideEmit, RideEvalByte
<1>4. CASE b.Result \notin 0 .. 7
  <2>1. BitOp5(a, l) = Error(b, "Bit Number must be 0-7")
    BY <1>4 DEF BitOp5
  <2>2. "Bit Number must be 0-7" \notin H
    BY DEF Soft
  <2>3. 0 + 1 + 1 + (IF l.op = "BTB" THEN 1 ELSE 0) \in Nat
    OBVIOUS
  <2> QED
    BY <1>1, <2>1, <2>2, <2>3, RideStop
<1>5. CASE b.Result \in 0 .. 7 /\ l.op = "SETCLR"
  <2>1. BitOp5(a, l) = c /\ l.op # "BTB"
    BY <1>5 DEF BitOp5
  <2>2. 0 + 1 + 1 + (IF l.op = "BTB" THEN 1 ELSE 0) = 0 + 1 + 1
    BY <2>1
  <2> HIDE DEF c
  <2> QED
    BY <1>3, <2>1, <2>2
<1>6. CASE b.Result \in 0 .. 7 /\ l.op = "BTB"
  <2>1. BitOp5(a, l) = Displacement(c, l.args[3])
    BY <1>6 DEF BitOp5
  <2>2. l.args[3] \in Expressions
    BY <1>6 DEF Ready
  <2> HIDE DEF c
  <2>3. Rides(H, a, BitOp5(a, l), 0 + 1 + 1 + 1)
    BY <1>3, <2>1, <2>2, RideDisplacement
  <2> QED
    BY <1>6, <2>3
<1> QED
  BY <1>4, <1>5, <1>6

LEMMA DoOp5Level ==
  ASSUME NEW H, H \subseteq Soft, NEW a, NEW b, NEW c, Paired(a, b, c),
         NEW l, IsLine("5", l), l.op \in Classes("5"), c = DoOp5(a, l)
  PROVE  Level(H, c, DoOp5(b, l))
<1>1. l.op \in {"INH", "GEN", "REL", "NOIMM", "GRP2", "BTB", "SETCLR"}
  BY DEF Classes
<1>2. l.mode \in {"IMMED", "IND", "OTHER"}
  BY DEF IsLine, Modes
<1>3. l.code \in Int
  BY LineReady DEF Ready
<1>0. Good(a) /\ Good(b) /\ a.Pc = b.Pc
  BY DEF Paired
<1>4. CASE l.op = "INH"
  <2>1. ASSUME NEW z, Good(z)
        PROVE  Rides(H, z, DoOp5(z, l), 0 + 1)
    <3>1. DoOp5(z, l) = Emit(z, l.code)
      BY <1>4 DEF DoOp5
    <3> QED
      BY <1>3, <2>1, <3>1, RideStill, RideEmit
  <2> QED
    BY <1>0, <2>1, RideLevel
<1>5. CASE l.op \in {"BTB", "SETCLR"}
  <2>1. (l.op = "SETCLR" /\ Ready(l, 2)) \/ (l.op = "BTB" /\ Ready(l, 3))
    BY <1>5, BitsReady
  <2>2. ASSUME NEW z, Good(z)
        PROVE  Rides(H, z, DoOp5(z, l), 0 + 1 + 1 + (IF l.op = "BTB" THEN 1 ELSE 0))
    <3>1. DoOp5(z, l) = BitOp5(z, l)
      BY <1>5 DEF DoOp5
    <3> QED
      BY <2>1, <2>2, <3>1, RideBitOp5
  <2> QED
    BY <1>0, <2>2, RideLevel
<1>6. CASE l.op = "NOIMM" /\ l.mode = "IMMED"
  <2>1. c = Error(a, "Immediate Addressing Illegal") /\ "Immediate Addressing Illegal" \notin H
    BY <1>6 DEF DoOp5, NoImmediate, Soft
  <2> QED
    BY <1>0, <2>1, StopLevel
<1>7. CASE l.op \in {"GEN", "REL", "NOIMM", "GRP2"} /\ ~ (l.op = "NOIMM" /\ l.mode = "IMMED")
  <2> DEFINE e == l.args[1]
  <2>1. Ready(l, 1) /\ e \in Expressions
    <3>1. Operands(l.op) = 1
      BY <1>7 DEF Operands
    <3>2. Ready(l, 1)
      BY <3>1, LineReady
    <3> QED
      BY <3>2 DEF Ready
  <2>2. CASE l.op \in {"GEN", "NOIMM"}
    <3>1. \A z : DoOp5(z, l) = DoGen5(z, l)
      BY <1>7, <2>2 DEF DoOp5
    <3> QED
      BY <1>2, <2>1, <3>1, Gen5Level
  <2>3. CASE l.op = "GRP2"
    <3>1. \A z : DoOp5(z, l) = Group5(z, l)
      BY <2>3 DEF DoOp5
    <3> QED
      BY <2>1, <3>1, Group5Level
  <2>4. CASE l.op = "REL"
    <3>1. ASSUME NEW z, Good(z)
          PROVE  Rides(H, z, DoOp5(z, l), 0 + 1 + 1)
      <4>1. DoOp5(z, l) = Displacement(Emit(z, l.code), e)
        BY <2>4 DEF DoOp5
      <4> QED
        BY <1>3, <2>1, <3>1, <4>1, RideStill, RideEmit, RideDisplacement
    <3> QED
      BY <1>0, <3>1, RideLevel
  <2> QED
    BY <1>7, <2>2, <2>3, <2>4
<1> QED
  BY <1>1, <1>4, <1>5, <1>6, <1>7

-----------------------------------------------------------------------------
(* do11.c                                                                  *)

LEMMA Gen11Level ==
  ASSUME NEW H, NEW a, NEW b, NEW c, Paired(a, b, c), NEW l, Ready(l, 1), l.op \in General,
         l.mode \in {"IMMED", "INDX", "INDY", "OTHER"}, c = DoGen11(a, l)
  PROVE  Level(H, c, DoGen11(b, l))
<1> DEFINE e == l.args[1]
           bytes == Pages(l.op)[l.mode]
<1>0. l.code \in Int /\ e \in Expressions /\ l.code + 16 \in Int /\ l.code + 32 \in Int /\ l.code + 48 \in Int
  BY DEF Ready
<1>1. bytes \in Seq(Int)
  BY PagesTyped
<1>2. /\ l.mode = "IMMED" /\ l.op = "GEN" => \A z : DoGen11(z, l) = EvalByte(Emit(EmitAll(z, bytes), l.code), e)
      /\ l.mode = "IMMED" /\ l.op # "GEN" => \A z : DoGen11(z, l) = EvalWord(Emit(EmitAll(z, bytes), l.code), e)
      /\ l.mode \in {"INDX", "INDY"} => \A z : DoGen11(z, l) = EvalByte(Emit(EmitAll(z, bytes), l.code + 32), e)
      /\ l.mode = "OTHER" => \A z : DoGen11(z, l) = Address(EmitAll(z, bytes), e, l.code + 16, l.code + 48)
  BY DEF DoGen11
<1> HIDE DEF bytes
<1>3. CASE l.mode # "OTHER"
  <2>1. ASSUME NEW z, Good(z)
        PROVE  /\ l.mode = "IMMED" /\ l.op # "GEN" => Rides(H, z, DoGen11(z, l), 0 + Len(bytes) + 1 + 2)
               /\ ~ (l.mode = "IMMED" /\ l.op # "GEN") => Rides(H, z, DoGen11(z, l), 0 + Len(bytes) + 1 + 1)
    <3>1. Rides(H, z, EmitAll(z, bytes), 0 + Len(bytes))
      BY <1>1, <2>1, RideStill, RideEmitAll
    <3>2. /\ Rides(H, z, Emit(EmitAll(z, bytes), l.code), 0 + Len(bytes) + 1)
          /\ Rides(H, z, Emit(EmitAll(z, bytes), l.code + 32), 0 + Len(bytes) + 1)
      BY <1>0, <3>1, RideEmit
    <3>3. /\ Rides(H, z, EvalWord(Emit(EmitAll(z, bytes), l.code), e), 0 + Len(bytes) + 1 + 2)
          /\ Rides(H, z, EvalByte(Emit(EmitAll(z, bytes), l.code), e), 0 + Len(bytes) + 1 + 1)
          /\ Rides(H, z, EvalByte(Emit(EmitAll(z, bytes), l.code + 32), e), 0 + Len(bytes) + 1 + 1)
      BY <1>0, <3>2, RideEvalByte, RideEvalWord
    <3> QED
      BY <1>2, <1>3, <3>3
  <2> QED
    BY <2>1, RideLevel DEF Paired
<1>4. CASE l.mode = "OTHER"
  <2>1. Paired(EmitAll(a, bytes), EmitAll(b, bytes), c)
    BY <1>1, PairedEmitAll
  <2> QED
    BY <1>0, <1>2, <1>4, <2>1, AddressLevel
<1> QED
  BY <1>3, <1>4

LEMMA RideBitOp11 ==
  ASSUME NEW H, NEW a, Good(a), NEW l, (l.op = "SETCLR" /\ Ready(l, 2)) \/ (l.op = "BTB" /\ Ready(l, 3))
  PROVE  Rides(H, a, BitOp11(a, l), 0 + (IF l.mode = "INDY" THEN 2 ELSE 1) + 1 + 1 + (IF l.op = "BTB" THEN 1 ELSE 0))
<1> DEFINE b == CASE l.mode = "INDX" -> Emit(a, l.code)
                  [] l.mode = "INDY" -> EmitAll(a, <<24, l.code>>)
                  [] OTHER           -> Emit(a, l.code - IF l.op = "BTB" THEN 12 ELSE 8)
           c == EvalByte(EvalByte(b, l.args[1]), l.args[2])
           n == 0 + (IF l.mode = "INDY" THEN 2 ELSE 1)
<1>0. l.code \in Nat /\ l.args[1] \in Expressions /\ l.args[2] \in Expressions
  BY DEF Ready
<1>1. Rides(H, a, b, n)
  <2>0. l.code \in Int /\ 24 \in Int /\ l.code - 12 \in Int /\ l.code - 8 \in Int
    BY <1>0
  <2>1. /\ l.mode = "INDY" => b = EmitAll(a, <<24, l.code>>)
        /\ l.mode # "INDY" => b = Emit(a, l.code) \/ b = Emit(a, l.code - 12) \/ b = Emit(a, l.code - 8)
    OBVIOUS
  <2> HIDE DEF b
  <2>2. CASE l.mode = "INDY"
    <3>1. Rides(H, a, b, 0 + 2)
      BY <2>0, <2>1, <2>2, RideStill, RideTwo
    <3> QED
      BY <2>2, <3>1
  <2>3. CASE l.mode # "INDY"
    <3>1. Rides(H, a, b, 0 + 1)
      BY <2>0, <2>1, <2>3, RideStill, RideEmit
    <3> QED
      BY <2>3, <3>1
  <2> QED
    BY <2>2, <2>3
<1>2. BitOp11(a, l) = IF l.op = "BTB" THEN Displacement(c, l.args[3]) ELSE c
  BY DEF BitOp11
<1> HIDE DEF b, n
<1>3. Rides(H, a, c, n + 1 + 1)
  BY <1>0, <1>1, RideEvalByte
<1> HIDE DEF c
<1>4. CASE l.op = "SETCLR"
  <2>1. n + 1 + 1 \in Nat
    BY <1>3 DEF Rides
  <2>2. n + 1 + 1 + (IF l.op = "BTB" THEN 1 ELSE 0) = n + 1 + 1
    <3>1. (IF l.op = "BTB" THEN 1 ELSE 0) = 0
      BY <1>4
    <3> QED
      BY <2>1, <3>1
  <2> QED
    BY <1>2, <1>3, <1>4, <2>2 DEF n
<1>5. CASE l.op = "BTB"
  <2>1. l.args[3] \in Expressions
    BY <1>5 DEF Ready
  <2>2. Rides(H, a, BitOp11(a, l), n + 1 + 1 + 1)
    BY <1>2, <1>3, <1>5, <2>1, RideDisplacement
  <2>3. (IF l.op = "BTB" THEN 1 ELSE 0) = 1
    BY <1>5
  <2> QED
    BY <2>2, <2>3 DEF n
<1> QED
  BY <1>4, <1>5

LEMMA DoOp11Level ==
  ASSUME NEW H, H \subseteq Soft, NEW a, NEW b, NEW c, Paired(a, b, c),
         NEW l, IsLine("11", l), l.op \in Classes("11"), c = DoOp11(a, l)
  PROVE  Level(H, c, DoOp11(b, l))
<1>1. l.op \in {"INH", "P2INH", "REL", "GRP2", "BTB", "SETCLR"} \cup General
  BY DEF Classes, General, Page1Classes
<1>2. l.mode \in {"IMMED", "INDX", "INDY", "OTHER"}
  BY DEF IsLine, Modes
<1>3. l.code \in Int /\ l.code + 16 \in Int /\ 24 \in Int
  BY LineReady DEF Ready
<1>0. Good(a) /\ Good(b) /\ a.Pc = b.Pc
  BY DEF Paired
<1>4. CASE l.op \in {"INH", "P2INH"}
  <2>1. ASSUME NEW z, Good(z)
        PROVE  /\ l.op = "INH" => Rides(H, z, DoOp11(z, l), 0 + 1)
               /\ l.op = "P2INH" => Rides(H, z, DoOp11(z, l), 0 + 2)
    <3>1. /\ l.op = "INH" => DoOp11(z, l) = Emit(z, l.code)
          /\ l.op = "P2INH" => DoOp11(z, l) = EmitAll(z, <<24, l.code>>)
      BY DEF DoOp11, General, Page1Classes
    <3> QED
      BY <1>3, <2>1, <3>1, RideStill, RideEmit, RideTwo
  <2> QED
    BY <1>0, <1>4, <2>1, RideLevel
<1>5. CASE l.op \in {"BTB", "SETCLR"}
  <2>1. (l.op = "SETCLR" /\ Ready(l, 2)) \/ (l.op = "BTB" /\ Ready(l, 3))
    BY <1>5, BitsReady
  <2>2. ASSUME NEW z, Good(z)
        PROVE  Rides(H, z, DoOp11(z, l), 0 + (IF l.mode = "INDY" THEN 2 ELSE 1) + 1 + 1 + (IF l.op = "BTB" THEN 1 ELSE 0))
    <3>1. DoOp11(z, l) = BitOp11(z, l)
      BY <1>5 DEF DoOp11, General, Page1Classes
    <3> QED
      BY <2>1, <2>2, <3>1, RideBitOp11
  <2> QED
    BY <1>0, <2>2, RideLevel
<1>6. CASE l.op \in NotImmediate /\ l.mode = "IMMED"
  <2>1. c = Error(a, "Immediate Addressing Illegal") /\ "Immediate Addressing Illegal" \notin H
    BY <1>6 DEF DoOp11, NoImmediate, NotImmediate, General, Page1Classes, Soft
  <2> QED
    BY <1>0, <2>1, StopLevel
<1>7. CASE l.op \in {"REL", "GRP2"} \cup General /\ ~ (l.op \in NotImmediate /\ l.mode = "IMMED")
  <2> DEFINE e == l.args[1]
  <2>1. Ready(l, 1) /\ e \in Expressions
    <3>1. Operands(l.op) = 1
      BY <1>7 DEF Operands, General, Page1Classes
    <3>2. Ready(l, 1)
      BY <3>1, LineReady
    <3> QED
      BY <3>2 DEF Ready
  <2>2. CASE l.op \in General
    <3>1. \A z : DoOp11(z, l) = DoGen11(z, l)
      BY <1>7, <2>2 DEF DoOp11, General, Page1Classes
    <3> QED
      BY <1>2, <2>1, <2>2, <3>1, Gen11Level
  <2>3. CASE l.op \in {"REL", "GRP2"}
    <3> DEFINE Two == l.op = "REL" \/ l.mode = "INDX"
    <3>1. ASSUME NEW z, Good(z)
          PROVE  /\ Two => Rides(H, z, DoOp11(z, l), 0 + 1 + 1)
                 /\ ~ Two /\ l.mode = "INDY" => Rides(H, z, DoOp11(z, l), 0 + 2 + 1)
                 /\ ~ Two /\ l.mode # "INDY" => Rides(H, z, DoOp11(z, l), 0 + 1 + 2)
      <4>0. /\ Rides(H, z, Emit(z, l.code), 0 + 1) /\ Rides(H, z, EmitAll(z, <<24, l.code>>), 0 + 2)
            /\ Rides(H, z, Emit(z, l.code + 16), 0 + 1)
        BY <1>3, <3>1, RideStill, RideEmit, RideTwo
      <4>1. /\ Two => DoOp11(z, l) = Displacement(Emit(z, l.code), e) \/ DoOp11(z, l) = EvalByte(Emit(z, l.code), e)
            /\ ~ Two /\ l.mode = "INDY" => DoOp11(z, l) = EvalByte(EmitAll(z, <<24, l.code>>), e)
            /\ ~ Two /\ l.mode # "INDY" => DoOp11(z, l) = EvalWord(Emit(z, l.code + 16), e)
        BY <2>3 DEF DoOp11, Group11, General, Page1Classes
      <4> HIDE DEF Two
      <4>2. /\ Rides(H, z, Displacement(Emit(z, l.code), e), 0 + 1 + 1)
            /\ Rides(H, z, EvalByte(Emit(z, l.code), e), 0 + 1 + 1)
            /\ Rides(H, z, EvalByte(EmitAll(z, <<24, l.code>>), e), 0 + 2 + 1)
            /\ Rides(H, z, EvalWord(Emit(z, l.code + 16), e), 0 + 1 + 2)
        BY <2>1, <4>0, RideDisplacement, RideEvalByte, RideEvalWord
      <4> QED
        BY <4>1, <4>2
    <3> HIDE DEF Two
    <3> QED
      BY <1>0, <3>1, RideLevel
  <2> QED
    BY <1>7, <2>2, <2>3
<1> QED
  BY <1>1, <1>4, <1>5, <1>6, <1>7

-----------------------------------------------------------------------------
(* do9.c                                                                   *)

LEMMA RidePostbyte ==
  ASSUME NEW H, NEW a, NEW b, NEW n, Rides(H, a, b, n), NEW reg, NEW p \in Int
  PROVE  Rides(H, a, Postbyte(b, reg, p), n + 1)
<1>1. CASE reg \in DOMAIN Rtype
  <2>1. Rtype[reg] \in Int
    BY <1>1 DEF Rtype
  <2>2. p + Rtype[reg] \in Int
    BY <2>1
  <2>3. Postbyte(b, reg, p) = Emit(b, p + Rtype[reg])
    BY <1>1 DEF Postbyte
  <2> QED
    BY <2>2, <2>3, RideEmit
<1>2. CASE reg \notin DOMAIN Rtype
  <2>1. Postbyte(b, reg, p) = Emit(Error(b, "Illegal Register for Indexed"), p)
    BY <1>2 DEF Postbyte
  <2> QED
    BY <2>1, RideError, RideEmit
<1> QED
  BY <1>1, <1>2

LEMMA PcIndexedLevel ==
  ASSUME NEW H, NEW x, NEW y, Good(x), Good(y), x.Pc = y.Pc, NEW ahead, Sized(x, y, ahead),
         NEW p \in Int, NEW relative \in BOOLEAN
  PROVE  Level(H, PcIndexed(x, p, relative), PcIndexed(y, p, relative))
<1> DEFINE Dist(z) == z.Result - IF relative THEN z.Pc + 2 ELSE 0
           Far(z) == z.Result - IF relative THEN z.Pc + 3 ELSE 0
           Long(z) == z.Force_word \/ (~ z.Force_byte /\ ~ InByte(Dist(z)))
           Out(z) == IF Long(z) THEN <<p + 13>> \o Word(Far(z)) ELSE <<p + 12, Dist(z)>>
<1>1. \A z : PcIndexed(z, p, relative) = EmitAll(z, Out(z))
  BY DEF PcIndexed
<1>2. ASSUME NEW z, Good(z)
      PROVE  Out(z) \in Seq(Int) /\ Len(Out(z)) = IF Long(z) THEN 3 ELSE 2
  <2>1. z.Result \in Int /\ z.Pc \in Nat
    BY <1>2 DEF Good, Typed
  <2>2. Dist(z) \in Int /\ Far(z) \in Int
    BY <2>1
  <2> HIDE DEF Dist, Far
  <2>3. <<p + 12, Dist(z)>> \in Seq(Int) /\ Len(<<p + 12, Dist(z)>>) = 2
    BY <2>2
  <2>4. p + 13 \in Int
    OBVIOUS
  <2>5. <<p + 13>> \o Word(Far(z)) \in Seq(Int) /\ Len(<<p + 13>> \o Word(Far(z))) = 3
    BY <2>2, <2>4, WordTakes
  <2> HIDE DEF Long
  <2> QED
    BY <2>3, <2>5
<1> HIDE DEF Out
<1>3. Long(x) <=> Long(y)
  <2>1. x.Result = y.Result => Dist(x) = Dist(y)
    OBVIOUS
  <2> HIDE DEF Dist
  <2> QED
    BY <2>1 DEF Sized
<1> HIDE DEF Long
<1>4. Len(Out(x)) = Len(Out(y)) /\ Out(x) \in Seq(Int) /\ Out(y) \in Seq(Int)
  BY <1>2, <1>3
<1> QED
  BY <1>1, <1>4, BytesLevel

LEMMA RideAutoIndexed ==
  ASSUME NEW H, H \subseteq Soft, NEW a, Good(a), NEW p \in Int, NEW i, i.dec \in Nat, i.inc \in Nat
  PROVE  Rides(H, a, AutoIndexed(a, p, i), 0 + 1)
<1> DEFINE by == IF i.dec > 0 THEN i.dec + 1 ELSE i.inc - 1
<1>1. p + by \in Int
  OBVIOUS
<1>2. AutoIndexed(a, p, i) = Postbyte(a, i.reg, p + by) \/ AutoIndexed(a, p, i) = Error(a, "Auto Inc/Dec")
  BY DEF AutoIndexed
<1> HIDE DEF by
<1>3. "Auto Inc/Dec" \notin H
  BY DEF Soft
<1>4. Rides(H, a, Postbyte(a, i.reg, p + by), 0 + 1)
  BY <1>1, RideStill, RidePostbyte
<1>5. 0 + 1 \in Nat
  OBVIOUS
<1>6. Rides(H, a, Error(a, "Auto Inc/Dec"), 0 + 1)
  BY <1>3, <1>5, RideStop
<1> QED
  BY <1>2, <1>4, <1>6

LEMMA OffsetIndexedLevel ==
  ASSUME NEW H, NEW x, NEW y, Good(x), Good(y), x.Pc = y.Pc, NEW ahead, Sized(x, y, ahead),
         NEW p \in Int, NEW i
  PROVE  Level(H, OffsetIndexed(x, p, i), OffsetIndexed(y, p, i))
<1> DEFINE Free(z) == ~ z.Force_word /\ ~ z.Force_byte
           Five(z) == Free(z) /\ z.Result \in -16 .. 15 /\ ~ i.indirect
           Long(z) == z.Force_word \/ (Free(z) /\ ~ InByte(z.Result))
           Short1(z) == (Free(z) /\ z.Result = 0) \/ (Five(z) /\ z.Result # 0)
<1>1. ASSUME NEW z, Good(z)
      PROVE  /\ Short1(z) => Rides(H, z, OffsetIndexed(z, p, i), 0 + 1)
             /\ ~ Short1(z) /\ Long(z) => Rides(H, z, OffsetIndexed(z, p, i), 0 + 1 + Len(Word(z.Result)))
             /\ ~ Short1(z) /\ ~ Long(z) => Rides(H, z, OffsetIndexed(z, p, i), 0 + 1 + 1)
             /\ Len(Word(z.Result)) = 2
  <2>1. z.Result \in Int
    BY <1>1 DEF Good, Typed
  <2>2. p + 4 \in Int /\ p + 8 \in Int /\ p + 9 \in Int
    OBVIOUS
  <2>3. z.Result % 32 \in Int
    BY <2>1
  <2>4. Word(z.Result) \in Seq(Int) /\ Len(Word(z.Result)) = 2
    BY <2>1, WordTakes
  <2>5. /\ Short1(z) => \/ OffsetIndexed(z, p, i) = Postbyte(z, i.reg, p + 4)
                        \/ OffsetIndexed(z, p, i) = Postbyte(z, i.reg, z.Result % 32)
        /\ ~ Short1(z) /\ Long(z) => OffsetIndexed(z, p, i) = EmitAll(Postbyte(z, i.reg, p + 9), Word(z.Result))
        /\ ~ Short1(z) /\ ~ Long(z) => OffsetIndexed(z, p, i) = Emit(Postbyte(z, i.reg, p + 8), z.Result)
    <3>1. ASSUME Short1(z)
          PROVE  \/ OffsetIndexed(z, p, i) = Postbyte(z, i.reg, p + 4)
                 \/ OffsetIndexed(z, p, i) = Postbyte(z, i.reg, z.Result % 32)
      <4>1. CASE Free(z) /\ z.Result = 0
        BY <4>1 DEF OffsetIndexed, InByte
      <4>2. CASE Five(z) /\ z.Result # 0
        BY <4>2 DEF OffsetIndexed, InByte
      <4> QED
        BY <3>1, <4>1, <4>2
    <3>2. ASSUME ~ Short1(z), Long(z)
          PROVE  OffsetIndexed(z, p, i) = EmitAll(Postbyte(z, i.reg, p + 9), Word(z.Result))
      BY <3>2 DEF OffsetIndexed
    <3>3. ASSUME ~ Short1(z), ~ Long(z)
          PROVE  OffsetIndexed(z, p, i) = Emit(Postbyte(z, i.reg, p + 8), z.Result)
      BY <3>3 DEF OffsetIndexed
    <3> QED
      BY <3>1, <3>2, <3>3
  <2> HIDE DEF Short1, Long
  <2>6. /\ Rides(H, z, Postbyte(z, i.reg, p + 4), 0 + 1) /\ Rides(H, z, Postbyte(z, i.reg, z.Result % 32), 0 + 1)
        /\ Rides(H, z, Postbyte(z, i.reg, p + 9), 0 + 1) /\ Rides(H, z, Postbyte(z, i.reg, p + 8), 0 + 1)
    BY <1>1, <2>2, <2>3, RideStill, RidePostbyte
  <2>7. /\ Rides(H, z, EmitAll(Postbyte(z, i.reg, p + 9), Word(z.Result)), 0 + 1 + Len(Word(z.Result)))
        /\ Rides(H, z, Emit(Postbyte(z, i.reg, p + 8), z.Result), 0 + 1 + 1)
    BY <2>1, <2>4, <2>6, RideEmit, RideEmitAll
  <2> QED
    BY <2>4, <2>5, <2>6, <2>7
<1>2. (Short1(x) <=> Short1(y)) /\ (Long(x) <=> Long(y))
  BY DEF Sized
<1> HIDE DEF Short1, Long
<1> QED
  BY <1>1, <1>2, RideLevel

LEMMA Indexed9Level ==
  ASSUME NEW H, H \subseteq Soft, NEW a, NEW b, NEW c, Paired(a, b, c), NEW l, IndexOK(l), NEW op \in Int,
         c = DoIndexed9(a, l, op)
  PROVE  Level(H, c, DoIndexed9(b, l, op))
<1> DEFINE i == l.index
           p == IF i.indirect THEN 144 ELSE 128
           e == l.args[1]
           auto == i.dec > 0 \/ i.inc > 0
<1>0. p \in Int /\ e \in Expressions /\ Good(a) /\ Good(b) /\ a.Pc = b.Pc /\ i.dec \in Nat /\ i.inc \in Nat
  <2>1. p \in Int
    OBVIOUS
  <2>2. e \in Expressions
    BY IndexReady
  <2>3. Good(a) /\ Good(b) /\ a.Pc = b.Pc
    BY DEF Paired
  <2>4. i.dec \in Nat /\ i.inc \in Nat
    BY DEF IndexOK
  <2> QED
    BY <2>1, <2>2, <2>3, <2>4
<1>1. CASE i.acc # ""
  <2>1. ASSUME NEW z, Good(z)
        PROVE  Rides(H, z, DoIndexed9(z, l, op), 0 + 1 + 1)
    <3>1. i.acc \in {"A", "B", "D"}
      BY <1>1 DEF IndexOK
    <3>2. \/ DoIndexed9(z, l, op) = Postbyte(Emit(z, op), i.reg, p + 6)
          \/ DoIndexed9(z, l, op) = Postbyte(Emit(z, op), i.reg, p + 5)
          \/ DoIndexed9(z, l, op) = Postbyte(Emit(z, op), i.reg, p + 11)
      BY <3>1 DEF DoIndexed9
    <3>3. p + 6 \in Int /\ p + 5 \in Int /\ p + 11 \in Int
      BY <1>0
    <3> HIDE DEF p, i
    <3> QED
      BY <2>1, <3>2, <3>3, RideStill, RideEmit, RidePostbyte
  <2> QED
    BY <1>0, <2>1, RideLevel
<1>2. CASE i.acc = ""
  <2> DEFINE f == Emit(a, op)
             g == Emit(b, op)
             x == Eval(f, e)
             y == Eval(g, e)
             After(z) ==
               IF i.reg \in {"PC", "PCR"}
               THEN IF auto THEN Error(z, "Auto Inc/Dec Illegal on PC") ELSE PcIndexed(z, p, i.reg = "PCR")
               ELSE IF auto THEN AutoIndexed(z, p, i) ELSE OffsetIndexed(z, p, i)
  <2>1. c = After(x) /\ DoIndexed9(b, l, op) = After(y)
    BY <1>2 DEF DoIndexed9
  <2>2. (i.reg = "PCR") \in BOOLEAN
    OBVIOUS
  <2> HIDE DEF p, i, auto
  <2>3. Paired(f, g, c)
    BY PairedEmit
  <2>4. Good(x) /\ Good(y)
    BY <1>0, <2>3, EvalResult DEF Paired
  <2> HIDE DEF f, g
  <2>5. Does(x, After(x), 0)
    <3> HIDE DEF x
    <3>1. Does(x, x, 0)
      BY <2>4, Still
    <3> DEFINE relative == i.reg = "PCR"
    <3>3. relative \in BOOLEAN
      OBVIOUS
    <3> HIDE DEF relative
    <3>2. /\ Does(x, Error(x, "Auto Inc/Dec Illegal on PC"), 0)
          /\ Does(x, PcIndexed(x, p, relative), 0)
          /\ Does(x, AutoIndexed(x, p, i), 0) /\ Does(x, OffsetIndexed(x, p, i), 0)
      BY <1>0, <3>3, <3>1, ThenError, PcIndexedDoes, AutoIndexedDoes, OffsetIndexedDoes
    <3> QED
      BY <3>2 DEF relative
  <2>6. Sized(x, y, f.Line_num \in c.ahead) /\ x.Pc = y.Pc
    <3>1. Does(x, c, 0)
      BY <2>1, <2>5
    <3> HIDE DEF After, e
    <3> QED
      BY <1>0, <2>3, <3>1, EvalPairs
  <2> DEFINE ahead == f.Line_num \in c.ahead
  <2> HIDE DEF x, y, ahead
  <2>7. CASE i.reg \in {"PC", "PCR"} /\ auto
    <3>1. c = Error(x, "Auto Inc/Dec Illegal on PC") /\ "Auto Inc/Dec Illegal on PC" \notin H
      BY <2>1, <2>7 DEF Soft
    <3> QED
      BY <2>4, <3>1, StopLevel
  <2>8. CASE i.reg \in {"PC", "PCR"} /\ ~ auto
    <3> DEFINE relative == i.reg = "PCR"
    <3>1. c = PcIndexed(x, p, relative) /\ DoIndexed9(b, l, op) = PcIndexed(y, p, relative) /\ relative \in BOOLEAN
      BY <2>1, <2>8
    <3> HIDE DEF relative
    <3>2. Sized(x, y, ahead)
      BY <2>6 DEF ahead
    <3> QED
      BY <1>0, <2>4, <2>6, <3>1, <3>2, PcIndexedLevel
  <2>9. CASE i.reg \notin {"PC", "PCR"} /\ auto
    <3>1. c = AutoIndexed(x, p, i) /\ DoIndexed9(b, l, op) = AutoIndexed(y, p, i)
      BY <2>1, <2>9
    <3>2. Rides(H, x, AutoIndexed(x, p, i), 0 + 1) /\ Rides(H, y, AutoIndexed(y, p, i), 0 + 1)
      BY <1>0, <2>4, RideAutoIndexed
    <3> QED
      BY <2>6, <3>1, <3>2, RideLevel
  <2>10. CASE i.reg \notin {"PC", "PCR"} /\ ~ auto
    <3>1. c = OffsetIndexed(x, p, i) /\ DoIndexed9(b, l, op) = OffsetIndexed(y, p, i)
      BY <2>1, <2>10
    <3>2. Sized(x, y, ahead)
      BY <2>6 DEF ahead
    <3> QED
      BY <1>0, <2>4, <2>6, <3>1, <3>2, OffsetIndexedLevel
  <2> HIDE DEF After
  <2> QED
    BY <2>7, <2>8, <2>9, <2>10
<1> QED
  BY <1>1, <1>2

LEMMA Gen9Level ==
  ASSUME NEW H, H \subseteq Soft, NEW a, NEW b, NEW c, Paired(a, b, c), NEW l, IndexOK(l), c = DoGen9(a, l)
  PROVE  Level(H, c, DoGen9(b, l))
<1> DEFINE e == l.args[1]
<1>0. /\ l.code \in Int /\ e \in Expressions /\ l.code + 16 \in Int /\ l.code + 32 \in Int /\ l.code + 48 \in Int
      /\ IPBYTE \in Int
  BY IndexReady
<1>1. CASE l.mode \in {"IMMED", "INDIR"}
  <2>1. ASSUME NEW z, Good(z)
        PROVE  /\ l.mode = "IMMED" => Rides(H, z, DoGen9(z, l), 0 + 1 + 1)
               /\ l.mode = "INDIR" => Rides(H, z, DoGen9(z, l), 0 + 2 + 2)
    <3>1. /\ l.mode = "IMMED" => DoGen9(z, l) = EvalByte(Emit(z, l.code), e)
          /\ l.mode = "INDIR" => DoGen9(z, l) = EvalWord(EmitAll(z, <<l.code + 32, IPBYTE>>), e)
      BY DEF DoGen9
    <3>2. Rides(H, z, Emit(z, l.code), 0 + 1) /\ Rides(H, z, EmitAll(z, <<l.code + 32, IPBYTE>>), 0 + 2)
      BY <1>0, <2>1, RideStill, RideEmit, RideTwo
    <3> QED
      BY <1>0, <3>1, <3>2, RideEvalByte, RideEvalWord
  <2> QED
    BY <1>1, <2>1, RideLevel DEF Paired
<1>2. CASE l.mode = "IND"
  <2>1. \A z : DoGen9(z, l) = DoIndexed9(z, l, l.code + 32)
    BY <1>2 DEF DoGen9
  <2> QED
    BY <1>0, <2>1, Indexed9Level
<1>3. CASE l.mode = "OTHER"
  <2>1. \A z : DoGen9(z, l) = Address(z, e, l.code + 16, l.code + 48)
    BY <1>3 DEF DoGen9
  <2> QED
    BY <1>0, <2>1, AddressLevel
<1> QED
  BY <1>1, <1>2, <1>3 DEF IndexOK

LEMMA Group9Level ==
  ASSUME NEW H, H \subseteq Soft, NEW a, NEW b, NEW c, Paired(a, b, c), NEW l, IndexOK(l), c = Group9(a, l)
  PROVE  Level(H, c, Group9(b, l))
<1> DEFINE e == l.args[1]
<1>0. l.code \in Int /\ e \in Expressions /\ l.code + 96 \in Int /\ l.code + 112 \in Int /\ IPBYTE \in Int
  BY IndexReady
<1>1. CASE l.mode = "INDIR"
  <2>1. ASSUME NEW z, Good(z)
        PROVE  Rides(H, z, Group9(z, l), 0 + 2 + 2)
    <3>1. Group9(z, l) = EvalWord(EmitAll(z, <<l.code + 96, IPBYTE>>), e)
      BY <1>1 DEF Group9
    <3> QED
      BY <1>0, <2>1, <3>1, RideStill, RideTwo, RideEvalWord
  <2> QED
    BY <2>1, RideLevel DEF Paired
<1>2. CASE l.mode = "IND"
  <2>1. \A z : Group9(z, l) = DoIndexed9(z, l, l.code + 96)
    BY <1>2 DEF Group9
  <2> QED
    BY <1>0, <2>1, Indexed9Level
<1>3. CASE l.mode \notin {"IND", "INDIR"}
  <2>1. \A z : Group9(z, l) = Address(z, e, l.code, l.code + 112)
    BY <1>3 DEF Group9
  <2> QED
    BY <1>0, <2>1, AddressLevel
<1> QED
  BY <1>1, <1>2, <1>3

LEMMA LongImmediateLevel ==
  ASSUME NEW H, H \subseteq Soft, NEW a, NEW b, NEW c, Paired(a, b, c), NEW l, IndexOK(l), c = LongImmediate(a, l)
  PROVE  Level(H, c, LongImmediate(b, l))
<1>0. l.code \in Int /\ l.args[1] \in Expressions
  BY IndexReady
<1>1. CASE l.mode = "IMMED"
  <2>1. ASSUME NEW z, Good(z)
        PROVE  Rides(H, z, LongImmediate(z, l), 0 + 1 + 2)
    <3>1. LongImmediate(z, l) = EvalWord(Emit(z, l.code), l.args[1])
      BY <1>1 DEF LongImmediate
    <3> QED
      BY <1>0, <2>1, <3>1, RideStill, RideEmit, RideEvalWord
  <2> QED
    BY <2>1, RideLevel DEF Paired
<1>2. CASE l.mode # "IMMED"
  <2>1. \A z : LongImmediate(z, l) = DoGen9(z, l)
    BY <1>2 DEF LongImmediate
  <2> QED
    BY <2>1, Gen9Level
<1> QED
  BY <1>1, <1>2

LEMMA RideLongBranch ==
  ASSUME NEW H, NEW a, Good(a), NEW l, IndexOK(l), NEW opcode \in Seq(Int)
  PROVE  Rides(H, a, LongBranch(a, l, opcode), 0 + Len(opcode) + 2)
<1> DEFINE b == Eval(a, l.args[1])
           c == EmitAll(b, opcode)
           far == c.Result - (c.Pc + 2)
<1>1. Rides(H, a, b, 0)
  BY RideStill, RideEval, IndexReady
<1>2. LongBranch(a, l, opcode) = EmitAll(c, Word(far))
  BY DEF LongBranch
<1> HIDE DEF b
<1>3. Rides(H, a, c, 0 + Len(opcode))
  BY <1>1, RideEmitAll
<1> HIDE DEF c
<1>4. far \in Int
  <2>1. c.Result \in Int /\ c.Pc \in Nat
    BY <1>3 DEF Rides, Good, Typed
  <2> QED
    BY <2>1
<1> HIDE DEF far
<1>5. Word(far) \in Seq(Int) /\ Len(Word(far)) = 2
  BY <1>4, WordTakes
<1> QED
  BY <1>2, <1>3, <1>5, RideEmitAll

LEMMA RideRegisterPair ==
  ASSUME NEW H, NEW a, Good(a), NEW l, l.code \in Int
  PROVE  Rides(H, a, RegisterPair(a, l), 0 + 2)
<1> DEFINE src == l.regs[1]
           dst == l.regs[2]
           fault == CASE {src, dst} \ Registers # {} -> "Register Name Required"
                      [] {src, dst} \subseteq Registers /\ "PCR" \in {src, dst} -> "PCR illegal here"
                      [] OTHER -> IF (Regnum[src] < 8) = (Regnum[dst] < 8) THEN "" ELSE "Register Size Mismatch"
<1>1. RegisterPair(a, l) = IF fault # "" THEN EmitAll(Error(a, fault), <<l.code, 0>>)
                           ELSE EmitAll(a, <<l.code, (16 * Regnum[src]) + Regnum[dst]>>)
  BY DEF RegisterPair
<1>2. fault = "" => src \in DOMAIN Regnum /\ dst \in DOMAIN Regnum
  <2>1. CASE {src, dst} \ Registers # {}
    BY <2>1
  <2>2. CASE {src, dst} \subseteq Registers /\ "PCR" \in {src, dst}
    BY <2>2
  <2>3. CASE {src, dst} \subseteq Registers /\ "PCR" \notin {src, dst}
    BY <2>3 DEF Registers, Regnum
  <2> QED
    BY <2>1, <2>2, <2>3
<1> HIDE DEF fault
<1>0. Rides(H, a, a, 0) /\ Rides(H, a, Error(a, fault), 0) /\ 0 \in Int
  BY RideStill, RideError
<1>3. CASE fault # ""
  BY <1>0, <1>1, <1>3, RideTwo
<1>4. CASE fault = ""
  <2> DEFINE both == (16 * Regnum[src]) + Regnum[dst]
  <2>1. \A r \in DOMAIN Regnum : Regnum[r] \in Nat
    BY DEF Regnum
  <2>2. both \in Int
    <3>1. Regnum[src] \in Nat /\ Regnum[dst] \in Nat
      BY <1>2, <1>4, <2>1
    <3> HIDE DEF src, dst
    <3> QED
      BY <3>1
  <2>3. RegisterPair(a, l) = EmitAll(a, <<l.code, both>>)
    BY <1>1, <1>4
  <2> HIDE DEF both
  <2> QED
    BY <1>0, <2>2, <2>3, RideTwo
<1> QED
  BY <1>3, <1>4

LEMMA RideRegisterList ==
  ASSUME NEW H, H \subseteq Soft, NEW a, Good(a), NEW l, l.code \in Int
  PROVE  Rides(H, a, RegisterList(a, l), 0 + 2)
<1> DEFINE own    == IF l.code \in {52, 53} THEN "S" ELSE "U"
           wrong  == { r \in Range(l.regs) : r \notin DOMAIN Regs \/ r = own }
           bits   == UNION { Regs[r] : r \in Range(l.regs) \ wrong }
           c      == IF wrong = {} THEN a ELSE Error(a, "Illegal Register")
<1>1. RegisterList(a, l) = IF l.regs = <<>> THEN Error(a, "Register List Required")
                           ELSE EmitAll(c, <<l.code, ByteWith(bits)>>)
  BY DEF RegisterList
<1> HIDE DEF wrong, bits
<1>2. Rides(H, a, c, 0)
  BY RideStill, RideError
<1>3. ByteWith(bits) \in Int
  BY ByteWithTyped
<1> HIDE DEF c
<1>4. "Register List Required" \notin H
  BY DEF Soft
<1>5. 0 + 2 \in Nat
  OBVIOUS
<1>6. Rides(H, a, Error(a, "Register List Required"), 0 + 2)
  BY <1>4, <1>5, RideStop
<1> QED
  BY <1>1, <1>2, <1>3, <1>6, RideTwo

LEMMA RideOp9 ==
  ASSUME NEW H, H \subseteq Soft, NEW l, l.code \in Int, l.op \in {"INH", "RTOR", "RLIST", "P2INH", "P3INH"},
         NEW a, Good(a)
  PROVE  Rides(H, a, DoOp9(a, l), IF l.op = "INH" THEN 0 + 1 ELSE 0 + 2)
<1>0. PAGE2 \in Int /\ PAGE3 \in Int
  BY DEF PAGE2, PAGE3
<1>1. CASE l.op = "INH"
  <2>1. DoOp9(a, l) = Emit(a, l.code)
    BY <1>1 DEF DoOp9
  <2>2. Rides(H, a, DoOp9(a, l), 0 + 1)
    BY <2>1, RideStill, RideEmit
  <2> QED
    BY <1>1, <2>2
<1>2. CASE l.op # "INH"
  <2>1. \/ DoOp9(a, l) = RegisterPair(a, l) \/ DoOp9(a, l) = RegisterList(a, l)
        \/ DoOp9(a, l) = EmitAll(a, <<PAGE2, l.code>>) \/ DoOp9(a, l) = EmitAll(a, <<PAGE3, l.code>>)
    BY <1>2 DEF DoOp9
  <2>2. Rides(H, a, EmitAll(a, <<PAGE2, l.code>>), 0 + 2) /\ Rides(H, a, EmitAll(a, <<PAGE3, l.code>>), 0 + 2)
    BY <1>0, RideStill, RideTwo
  <2>3. Rides(H, a, DoOp9(a, l), 0 + 2)
    BY <2>1, <2>2, RideRegisterPair, RideRegisterList
  <2> QED
    BY <1>2, <2>3
<1> QED
  BY <1>1, <1>2

LEMMA RideBranch9 ==
  ASSUME NEW H, NEW l, IndexOK(l), l.op \in {"REL", "P2REL", "P1REL", "IMM", "SYS"}, l.op = "IMM" => l.mode = "IMMED",
         NEW a, Good(a)
  PROVE  Rides(H, a, DoOp9(a, l), CASE l.op = "P2REL" -> 0 + 2 + 2 [] l.op = "P1REL" -> 0 + 1 + 2 [] OTHER -> 0 + 1 + 1)
<1> DEFINE e == l.args[1]
<1>0. l.code \in Int /\ e \in Expressions /\ SWI \in Int /\ PAGE2 \in Int
  BY IndexReady DEF SWI, PAGE2
<1>1. CASE l.op \notin {"P2REL", "P1REL"}
  <2>1. Rides(H, a, Emit(a, l.code), 0 + 1) /\ Rides(H, a, Emit(a, SWI), 0 + 1)
    BY <1>0, RideStill, RideEmit
  <2>2. \/ DoOp9(a, l) = Displacement(Emit(a, l.code), e)
        \/ DoOp9(a, l) = EvalByte(Emit(a, l.code), e) \/ DoOp9(a, l) = EvalByte(Emit(a, SWI), e)
    BY <1>1 DEF DoOp9
  <2>3. Rides(H, a, DoOp9(a, l), 0 + 1 + 1)
    BY <1>0, <2>1, <2>2, RideDisplacement, RideEvalByte
  <2> QED
    BY <1>1, <2>3
<1>2. CASE l.op = "P2REL"
  <2> DEFINE code == <<PAGE2, l.code>>
  <2>1. code \in Seq(Int) /\ Len(code) = 2 /\ DoOp9(a, l) = LongBranch(a, l, code)
    BY <1>0, <1>2 DEF DoOp9
  <2> HIDE DEF code
  <2>2. Rides(H, a, DoOp9(a, l), 0 + Len(code) + 2)
    BY <2>1, RideLongBranch
  <2> QED
    BY <1>2, <2>1, <2>2
<1>3. CASE l.op = "P1REL"
  <2> DEFINE code == <<l.code>>
  <2>1. code \in Seq(Int) /\ Len(code) = 1 /\ DoOp9(a, l) = LongBranch(a, l, code)
    BY <1>0, <1>3 DEF DoOp9
  <2> HIDE DEF code
  <2>2. Rides(H, a, DoOp9(a, l), 0 + Len(code) + 2)
    BY <2>1, RideLongBranch
  <2> QED
    BY <1>3, <2>1, <2>2
<1> QED
  BY <1>1, <1>2, <1>3

LEMMA Mode9Level ==
  ASSUME NEW H, H \subseteq Soft, NEW a, NEW b, NEW c, Paired(a, b, c), NEW l, IndexOK(l),
         l.op \in {"GEN", "NOIMM", "P2GEN", "P3GEN", "LONGIMM", "P2NOIMM", "GRP2"},
         l.op \in {"NOIMM", "P2NOIMM"} => l.mode # "IMMED", c = DoOp9(a, l)
  PROVE  Level(H, c, DoOp9(b, l))
<1>0. PAGE2 \in Int /\ PAGE3 \in Int
  BY DEF PAGE2, PAGE3
<1>1. Paired(Emit(a, PAGE2), Emit(b, PAGE2), c) /\ Paired(Emit(a, PAGE3), Emit(b, PAGE3), c)
  BY <1>0, PairedEmit
<1>2. CASE l.op \in {"GEN", "NOIMM"}
  <2>1. \A z : DoOp9(z, l) = DoGen9(z, l)
    BY <1>2 DEF DoOp9
  <2> QED
    BY <2>1, Gen9Level
<1>3. CASE l.op = "P2NOIMM"
  <2>1. \A z : DoOp9(z, l) = DoGen9(Emit(z, PAGE2), l)
    BY <1>3 DEF DoOp9
  <2> QED
    BY <1>1, <2>1, Gen9Level
<1>4. CASE l.op \in {"P2GEN", "P3GEN", "LONGIMM"}
  <2>1. \/ \A z : DoOp9(z, l) = LongImmediate(Emit(z, PAGE2), l)
        \/ \A z : DoOp9(z, l) = LongImmediate(Emit(z, PAGE3), l)
        \/ \A z : DoOp9(z, l) = LongImmediate(z, l)
    <3>1. CASE l.op = "P2GEN"
      BY <3>1 DEF DoOp9
    <3>2. CASE l.op = "P3GEN"
      BY <3>2 DEF DoOp9
    <3>3. CASE l.op = "LONGIMM"
      BY <3>3 DEF DoOp9
    <3> QED
      BY <1>4, <3>1, <3>2, <3>3
  <2> QED
    BY <1>1, <2>1, LongImmediateLevel
<1>5. CASE l.op = "GRP2"
  <2>1. \A z : DoOp9(z, l) = Group9(z, l)
    BY <1>5 DEF DoOp9
  <2> QED
    BY <2>1, Group9Level
<1> QED
  BY <1>2, <1>3, <1>4, <1>5

LEMMA DoOp9Level ==
  ASSUME NEW H, H \subseteq Soft, NEW a, NEW b, NEW c, Paired(a, b, c),
         NEW l, IsLine("9", l), l.op \in Classes("9"), c = DoOp9(a, l)
  PROVE  Level(H, c, DoOp9(b, l))
<1>0. Good(a) /\ Good(b) /\ a.Pc = b.Pc
  BY DEF Paired
<1>1. l.op \in {"INH", "GEN", "IMM", "REL", "P2REL", "P1REL", "NOIMM", "P2GEN", "P3GEN", "RTOR", "INDEXED",
                "RLIST", "P2NOIMM", "P2INH", "P3INH", "GRP2", "LONGIMM", "SYS"}
  BY DEF Classes
<1>2. l.mode \in {"IMMED", "IND", "INDIR", "OTHER"}
  BY DEF IsLine, Modes
<1>3. l.index.acc \in {"", "A", "B", "D"} /\ l.index.dec \in Nat /\ l.index.inc \in Nat
  <2>1. l.index \in [acc : {"", "A", "B", "D"}, reg : STRING, dec : Nat, inc : Nat, indirect : BOOLEAN]
    BY DEF IsLine
  <2> QED
    BY <2>1
<1>4. l.code \in Int
  BY LineReady DEF Ready
<1>5. CASE l.op \in {"INH", "RTOR", "RLIST", "P2INH", "P3INH"}
  <2>1. \A z : Good(z) => Rides(H, z, DoOp9(z, l), IF l.op = "INH" THEN 0 + 1 ELSE 0 + 2)
    BY <1>4, <1>5, RideOp9
  <2> DEFINE n == IF l.op = "INH" THEN 0 + 1 ELSE 0 + 2
  <2> HIDE DEF n
  <2>2. \A z : Good(z) => Rides(H, z, DoOp9(z, l), n)
    BY <2>1 DEF n
  <2> QED
    BY <1>0, <2>2, RideLevel
<1>6. CASE \/ l.op \in {"NOIMM", "P2NOIMM"} /\ l.mode = "IMMED"
           \/ l.op = "INDEXED" /\ l.mode \notin {"IND", "IMMED"}
           \/ l.op = "IMM" /\ l.mode # "IMMED"
  <2>1. \/ c = Error(a, "Immediate Addressing Illegal") \/ c = Error(a, "Indexed Addressing Required")
        \/ c = Error(a, "Immediate Operand Required")
    BY <1>6 DEF DoOp9, NoImmediate
  <2>2. /\ "Immediate Addressing Illegal" \notin H /\ "Indexed Addressing Required" \notin H
        /\ "Immediate Operand Required" \notin H
    BY DEF Soft
  <2> QED
    BY <1>0, <2>1, <2>2, StopLevel
<1>7. CASE /\ l.op \notin {"INH", "RTOR", "RLIST", "P2INH", "P3INH"}
           /\ ~ \/ l.op \in {"NOIMM", "P2NOIMM"} /\ l.mode = "IMMED"
                \/ l.op = "INDEXED" /\ l.mode \notin {"IND", "IMMED"}
                \/ l.op = "IMM" /\ l.mode # "IMMED"
  <2>1. IndexOK(l)
    <3>1. Operands(l.op) = 1
      BY <1>1, <1>7 DEF Operands
    <3>2. Ready(l, 1)
      BY <3>1, LineReady
    <3> QED
      BY <1>2, <1>3, <3>2 DEF IndexOK
  <2>2. CASE l.op \in {"REL", "P2REL", "P1REL", "IMM", "SYS"}
    <3> DEFINE n == CASE l.op = "P2REL" -> 0 + 2 + 2 [] l.op = "P1REL" -> 0 + 1 + 2 [] OTHER -> 0 + 1 + 1
    <3>1. \A z : Good(z) => Rides(H, z, DoOp9(z, l), n)
      BY <1>7, <2>1, <2>2, RideBranch9
    <3> HIDE DEF n
    <3> QED
      BY <1>0, <3>1, RideLevel
  <2>3. CASE l.op \in {"GEN", "NOIMM", "P2GEN", "P3GEN", "LONGIMM", "P2NOIMM", "GRP2"}
    BY <1>7, <2>1, <2>3, Mode9Level
  <2>4. CASE l.op = "INDEXED"
    <3>1. \A z : DoOp9(z, l) = DoIndexed9(z, l, l.code)
      BY <1>7, <2>4 DEF DoOp9
    <3> QED
      BY <1>4, <2>1, <3>1, Indexed9Level
  <2> QED
    BY <1>1, <1>7, <2>2, <2>3, <2>4
<1> QED
  BY <1>5, <1>6, <1>7

(* The errors that leave no byte out, for a processor.                     *)
Mild(cpu) ==
  {"Phasing Error", "symbol Undefined on pass 2", "Illegal Register for Indexed"}
  \cup IF cpu = "4" THEN {} ELSE {"Branch out of Range"}

LEMMA OpLevel ==
  ASSUME NEW cpu, cpu \in {"0", "1", "4", "5", "9", "11"}, NEW a, NEW b, NEW c, Paired(a, b, c),
         NEW l, IsLine(cpu, l), l.op \in Classes(cpu), c = DoOp(cpu, a, l),
         a.Line_num \in c.ahead => ~ Moving(cpu, l)
  PROVE  Level(Mild(cpu), c, DoOp(cpu, b, l))
<1> DEFINE H == Mild(cpu)
<1>0. H \subseteq Soft
  BY DEF Mild, Soft
<1>1. cpu = "4" => FarStops(H)
  BY DEF Mild, FarStops
<1> HIDE DEF H
<1>2. CASE cpu \in {"0", "1"}
  <2>1. \A z : DoOp(cpu, z, l) = DoOp0(z, l)
    BY <1>2 DEF DoOp, DoOp1
  <2> QED
    BY <1>0, <1>2, <2>1, DoOp0Level DEF H
<1>3. CASE cpu = "4"
  <2>1. \A z : DoOp(cpu, z, l) = DoOp4(z, l)
    BY <1>3 DEF DoOp
  <2> QED
    BY <1>0, <1>1, <1>3, <2>1, DoOp4Level DEF H
<1>4. CASE cpu = "5"
  <2>1. \A z : DoOp(cpu, z, l) = DoOp5(z, l)
    BY <1>4 DEF DoOp
  <2> QED
    BY <1>0, <1>4, <2>1, DoOp5Level DEF H
<1>5. CASE cpu = "9"
  <2>1. \A z : DoOp(cpu, z, l) = DoOp9(z, l)
    BY <1>5 DEF DoOp
  <2> QED
    BY <1>0, <1>5, <2>1, DoOp9Level DEF H
<1>6. CASE cpu = "11"
  <2>1. \A z : DoOp(cpu, z, l) = DoOp11(z, l)
    BY <1>6 DEF DoOp
  <2> QED
    BY <1>0, <1>6, <2>1, DoOp11Level DEF H
<1> QED
  BY <1>2, <1>3, <1>4, <1>5, <1>6

-----------------------------------------------------------------------------
(* pseudo.c                                                                *)

LEMMA InstallMoves ==
  ASSUME NEW b, Good(b), NEW name, NEW val
  PROVE  Install(b, name, val).Pc = b.Pc /\ Install(b, name, val).Old_pc = b.Old_pc
<1> DEFINE d == Lookup(b, name)
           root == Known(d.root, name, val)
           e == [d EXCEPT !.root = root]
<1>1. CASE name \notin DOMAIN b.root
  <2>1. Install(b, name, val) = e
    BY <1>1 DEF Install
  <2>2. Quiet(b, d)
    BY LookupFields
  <2> HIDE DEF d, root
  <2> QED
    BY <2>1, <2>2 DEF Quiet, Fields
<1>2. CASE name \in DOMAIN b.root
  <2>1. \/ Install(b, name, val) = b \/ Install(b, name, val) = Error(b, "Symbol Redefined")
        \/ Install(b, name, val) = Error(b, "Phasing Error")
    BY <1>2 DEF Install
  <2> QED
    BY <2>1, ErrorMoves
<1> QED
  BY <1>1, <1>2

(* What counts is the same in both passes when nothing in it is unknown.   *)
LEMMA CountsAlike ==
  ASSUME NEW a, NEW b, NEW c, Paired(a, b, c), NEW cpu, NEW l, IsLine(cpu, l), l.op \in Counting,
         NEW i \in 1 .. Operands(l.op), NEW e \in Expressions, e = l.args[i], Does(Eval(a, e), c, 0),
         a.Line_num \notin c.ahead
  PROVE  /\ Eval(a, e).Result \in Nat /\ Eval(b, e).Result = Eval(a, e).Result
         /\ Good(Eval(a, e)) /\ Good(Eval(b, e))
         /\ Eval(a, e).Pc \in Nat /\ Eval(b, e).Pc = Eval(a, e).Pc
<1>1. Good(a) /\ Good(b)
  BY DEF Paired
<1>2. Eval(a, e).Result \in Nat
  BY <1>1, CountResult
<1>3. Eval(b, e).Result = Eval(a, e).Result
  <2>1. Sized(Eval(a, e), Eval(b, e), a.Line_num \in c.ahead)
    BY EvalPairs
  <2> QED
    BY <2>1 DEF Sized
<1>4. Good(Eval(a, e)) /\ Good(Eval(b, e)) /\ Eval(b, e).Pc = Eval(a, e).Pc
  BY EvalPairs
<1>5. Eval(a, e).Pc \in Nat
  BY <1>4 DEF Good, Typed
<1> QED
  BY <1>2, <1>3, <1>4, <1>5

LEMMA FillAlike ==
  ASSUME NEW H, NEW a, NEW b, NEW c, Paired(a, b, c), NEW cpu, NEW l, IsLine(cpu, l), l.op \in Counting,
         NEW i \in 1 .. Operands(l.op), NEW e \in Expressions, e = l.args[i], NEW p \in Int, NEW q \in Int,
         c = Fill(a, p, e), a.Line_num \notin c.ahead
  PROVE  Level(H, c, Fill(b, q, e))
<1> DEFINE x == Eval(a, e)
           y == Eval(b, e)
           u == [k \in 1 .. x.Result |-> p]
           v == [k \in 1 .. y.Result |-> q]
<1>1. c = EmitAll(x, u) /\ Fill(b, q, e) = EmitAll(y, v)
  BY DEF Fill
<1>2. Good(x) /\ x.Result \in Nat
  BY EvalResult, CountResult DEF Paired
<1>3. u \in Seq(Int) /\ Len(u) = x.Result
  <2> HIDE DEF x
  <2> QED
    BY <1>2
<1>4. Does(x, c, 0)
  <2> HIDE DEF x, u
  <2> QED
    BY <1>1, <1>2, <1>3, EmitAllMoves
<1>5. y.Result = x.Result /\ Good(y) /\ y.Pc = x.Pc
  BY <1>4, CountsAlike
<1>6. v \in Seq(Int) /\ Len(v) = x.Result
  <2> HIDE DEF x, y
  <2> QED
    BY <1>2, <1>5
<1> HIDE DEF x, y, u, v
<1> QED
  BY <1>1, <1>2, <1>3, <1>5, <1>6, BytesLevel

(* A mark that is not read in the first operand is not one of the line.    *)
LEMMA PairedFirst ==
  ASSUME NEW a, NEW b, NEW c, Paired(a, b, c), a.Line_num \notin c.ahead, NEW e \in Expressions,
         NEW n, Does(Eval(a, e), c, n)
  PROVE  Paired(Eval(a, e), Eval(b, e), c)
<1> DEFINE x == Eval(a, e)
           y == Eval(b, e)
<1>0. Good(a) /\ Good(b) /\ Good(x) /\ Good(y) /\ Quiet(a, x) /\ Quiet(b, y) /\ x.root = a.root /\ y.root = b.root
  BY EvalResult DEF Paired
<1>1. Does(x, x, 0)
  BY <1>0, Still
<1> HIDE DEF x, y
<1>2. x.Line_num = a.Line_num /\ Keeps(x, c)
  BY <1>0 DEF Quiet, Does, x
<1>3. a.Line_num \notin x.ahead
  BY <1>2 DEF Keeps
<1>4. Holds(x.root, b.root)
  BY <1>2 DEF Paired, Keeps, Holds
<1>5. Paired(a, b, x)
  BY <1>3, <1>4 DEF Paired
<1>6. y.F_ref = b.F_ref
  <2>1. ~ Marked(b)
    BY DEF Paired
  <2>2. Does(Eval(a, e), x, 0)
    BY <1>1 DEF x
  <2> QED
    BY <1>5, <2>1, <2>2, EvalSized DEF y
<1>7. Here(y) = Here(b) /\ y.Pass = b.Pass /\ x.Pass = a.Pass /\ y.Line_num = b.Line_num
  BY <1>0 DEF Quiet, Here
<1>8. x.Pc = a.Pc /\ x.Old_pc = a.Old_pc /\ y.Pc = b.Pc /\ y.Old_pc = b.Old_pc
  BY <1>0 DEF Quiet
<1>9. Paired(x, y, c)
  BY <1>0, <1>2, <1>3, <1>6, <1>7, <1>8 DEF Paired, Marked
<1> QED
  BY <1>9 DEF x, y

LEMMA ListMoves ==
  ASSUME NEW a, Good(a), NEW seq \in Seq(Expressions)
  PROVE  /\ FoldLeft(EvalByte, a, seq).Pc = a.Pc + Len(seq)
         /\ FoldLeft(EvalWord, a, seq).Pc = a.Pc + (2 * Len(seq))
<1>1. ASSUME NEW z, Good(z), NEW e \in Expressions
      PROVE  LET x == Eval(z, e)
             IN  Good(x) /\ x.Result \in Int /\ x.Pc = z.Pc /\ x.Old_pc = z.Old_pc
  BY <1>1, EvalResult DEF Quiet
<1>2. ASSUME NEW e \in Expressions, NEW z, Good(z)
      PROVE  LET y == FoldTurn("EvalByte", z, e) IN Good(y) /\ y.Pc = z.Pc + 1 /\ y.Old_pc = z.Old_pc
  <2> DEFINE x == Eval(z, e)
  <2>1. FoldTurn("EvalByte", z, e) = Emit(x, x.Result)
    BY DEF FoldTurn, EvalByte
  <2>2. Good(x) /\ x.Result \in Int /\ x.Pc = z.Pc /\ x.Old_pc = z.Old_pc
    BY <1>1, <1>2
  <2> HIDE DEF x
  <2>3. Good(Emit(x, x.Result))
    BY <2>2, EmitDoes DEF Does
  <2> QED
    BY <2>1, <2>2, <2>3, EmitMoves
<1>3. ASSUME NEW e \in Expressions, NEW z, Good(z)
      PROVE  LET y == FoldTurn("EvalWord", z, e) IN Good(y) /\ y.Pc = z.Pc + 2 /\ y.Old_pc = z.Old_pc
  <2> DEFINE x == Eval(z, e)
             bytes == Word(x.Result)
  <2>1. FoldTurn("EvalWord", z, e) = EmitAll(x, bytes)
    BY DEF FoldTurn, EvalWord
  <2>2. Good(x) /\ x.Result \in Int /\ x.Pc = z.Pc /\ x.Old_pc = z.Old_pc
    BY <1>1, <1>3
  <2> HIDE DEF x
  <2>3. bytes \in Seq(Int) /\ Len(bytes) = 2
    BY <2>2, WordTakes
  <2> HIDE DEF bytes
  <2>4. Good(EmitAll(x, bytes)) /\ EmitAll(x, bytes).Pc = x.Pc + 2 /\ EmitAll(x, bytes).Old_pc = x.Old_pc
    BY <2>2, <2>3, EmitAllMoves DEF Does
  <2> QED
    BY <2>1, <2>2, <2>4
<1>4. FoldLeft(EvalByte, a, seq) = Folded("EvalByte", a, seq) /\ FoldLeft(EvalWord, a, seq) = Folded("EvalWord", a, seq)
  BY FoldsAre
<1> DEFINE k == "EvalByte"
           m == "EvalWord"
           v == 1
           w == 2
<1>5. v \in {1, 2} /\ w \in {1, 2}
  OBVIOUS
<1>6. Paces(k, Expressions, v) /\ Paces(m, Expressions, w)
  BY <1>2, <1>3 DEF Paces
<1> HIDE DEF k, m, v, w
<1>7. Folded(k, a, seq).Pc = a.Pc + (v * Len(seq)) /\ Folded(m, a, seq).Pc = a.Pc + (w * Len(seq))
  <2>1. Folded(k, a, seq).Pc = a.Pc + (v * Len(seq))
    BY <1>5, <1>6, FoldMoves
  <2>2. Folded(m, a, seq).Pc = a.Pc + (w * Len(seq))
    BY <1>5, <1>6, FoldMoves
  <2> QED
    BY <2>1, <2>2
<1>8. v * Len(seq) = Len(seq)
  BY DEF v
<1> QED
  BY <1>4, <1>7, <1>8 DEF k, m, w

LEMMA PseudoLevel ==
  ASSUME NEW H, H \subseteq Soft, NEW a, NEW b, NEW c, Paired(a, b, c), NEW cpu, NEW l, IsLine(cpu, l),
         l.op \in Pseudos, NEW f, NEW g, c = DoPseudo(a, l, f), a.Line_num \in c.ahead => ~ Moving(cpu, l)
  PROVE  Level(H, c, DoPseudo(b, l, g))
<1> DEFINE d == DoPseudo(b, l, g)
<1>0. Good(a) /\ Good(b) /\ b.Pc = a.Pc /\ a.Pc \in Nat /\ l.args \in Seq(Expressions)
  BY DEF Paired, Good, Typed, IsLine
<1>1. CASE l.op \in {"OPT", "NULL_OP"}
  <2>1. c = a /\ d = b
    BY <1>1 DEF DoPseudo
  <2> QED
    BY <1>0, <2>1 DEF Level
<1>2. CASE l.op = "FCC"
  <2>1. l.text \in Seq(Int)
    <3>1. l.text \in Seq(Nat)
      BY <1>2 DEF IsLine
    <3> QED
      BY <3>1
  <2>2. ASSUME NEW z, Good(z), NEW name
        PROVE  DoPseudo(z, l, name).Pc = z.Pc + Len(l.text)
    <3> DEFINE y == EmitAll(z, l.text)
    <3>1. DoPseudo(z, l, name) = y \/ DoPseudo(z, l, name) = Error(y, "Missing Delimiter")
      BY <1>2 DEF DoPseudo
    <3>2. y.Pc = z.Pc + Len(l.text) /\ Good(y)
      BY <2>1, <2>2, EmitAllMoves DEF Does
    <3> HIDE DEF y
    <3> QED
      BY <3>1, <3>2, ErrorMoves
  <2> QED
    BY <1>0, <2>2 DEF Level
<1>3. CASE l.op = "FCB"
  <2>1. \A z, name : DoPseudo(z, l, name) = FoldLeft(EvalByte, z, l.args)
    BY <1>3 DEF DoPseudo
  <2> QED
    BY <1>0, <2>1, ListMoves DEF Level
<1>4. CASE l.op = "FDB"
  <2>1. \A z, name : DoPseudo(z, l, name) = FoldLeft(EvalWord, z, l.args)
    BY <1>4 DEF DoPseudo
  <2> QED
    BY <1>0, <2>1, ListMoves DEF Level
<1>5. CASE l.op \in {"RMB", "ZMB", "ORG"}
  <2> DEFINE e == l.args[1]
             x == Eval(a, e)
             y == Eval(b, e)
  <2>1. a.Line_num \notin c.ahead /\ l.op \in Counting
    BY <1>5 DEF Moving, Counting
  <2>2. 1 \in 1 .. Operands(l.op) /\ e \in Expressions
    <3>1. Operands(l.op) = 1
      BY <1>5 DEF Operands
    <3>2. Ready(l, 1)
      BY <3>1, LineReady
    <3> QED
      BY <3>1, <3>2 DEF Ready
  <2>3. Good(x) /\ x.Result \in Nat /\ x.Pc \in Nat
    BY <1>0, <2>1, <2>2, EvalResult, CountResult
  <2>4. CASE l.op = "ZMB"
    <3>1. c = Fill(a, 0, e) /\ d = Fill(b, 0, e) /\ 0 \in Int
      BY <2>4 DEF DoPseudo
    <3> QED
      BY <2>1, <2>2, <3>1, FillAlike
  <2>5. CASE l.op = "RMB"
    <3> DEFINE p == x.Pc + x.Result
               q == y.Pc + y.Result
    <3>1. c = FRecord([x EXCEPT !.Pc = p]) /\ d = FRecord([y EXCEPT !.Pc = q])
      BY <2>5 DEF DoPseudo
    <3>2. Does(x, c, 0) /\ c.Pc = p /\ p \in Nat
      <4> HIDE DEF x
      <4>1. p \in Nat
        BY <2>3
      <4> HIDE DEF p
      <4> QED
        BY <2>3, <3>1, <4>1, PcDoes
    <3>3. Good(y) /\ y.Result = x.Result /\ y.Pc = x.Pc
      BY <2>1, <2>2, <3>2, CountsAlike
    <3>4. p = q
      BY <3>3
    <3> HIDE DEF x, y, p, q
    <3>5. d.Pc = p
      BY <3>1, <3>2, <3>3, <3>4, PcDoes
    <3> QED
      BY <3>2, <3>5 DEF Level
  <2>6. CASE l.op = "ORG"
    <3> DEFINE To2(z) == [z EXCEPT !.Pc = z.Result, !.Old_pc = z.Result]
    <3>1. c = FRecord(To2(x)) /\ d = FRecord(To2(y))
      BY <2>6 DEF DoPseudo, Org
    <3>2. ASSUME NEW z, Good(z), z.Result \in Nat
          PROVE  Does(z, FRecord(To2(z)), 0) /\ FRecord(To2(z)).Pc = z.Result
      <4>1. PICK n \in Nat : n = z.Result
        BY <3>2
      <4> DEFINE t == [z EXCEPT !.Pc = n, !.Old_pc = n]
      <4>2. To2(z) = t
        BY <4>1
      <4>3. Does(z, FRecord(t), 0)
        BY <3>2, Still, MoveDoes
      <4>4. Fields \subseteq DOMAIN z /\ z.Pass \in {1, 2}
        BY <3>2 DEF Good, Typed
      <4>5. Fields \subseteq DOMAIN t /\ t.Pc = n /\ t.Pass = z.Pass
        BY <4>4 DEF Fields
      <4> HIDE DEF t, To2
      <4>6. FRecord(t).Pc = n
        <5>1. CASE t.Pass = 1
          BY <4>5, <5>1 DEF FRecord
        <5>2. CASE t.Pass = 2
          BY <4>5, <5>2, FRecordFields DEF Flushed
        <5> QED
          BY <4>4, <4>5, <5>1, <5>2
      <4> QED
        BY <4>1, <4>2, <4>3, <4>6
    <3>3. Does(x, c, 0) /\ c.Pc = x.Result
      BY <2>3, <3>1, <3>2
    <3>4. Good(y) /\ y.Result = x.Result
      BY <2>1, <2>2, <3>3, CountsAlike
    <3>5. d.Pc = y.Result
      BY <2>3, <3>1, <3>2, <3>4
    <3> QED
      BY <3>3, <3>4, <3>5 DEF Level
  <2> QED
    BY <1>5, <2>4, <2>5, <2>6
<1>6. CASE l.op = "FILL"
  <2> DEFINE e == l.args[1]
             h == l.args[2]
             x == Eval(a, e)
             y == Eval(b, e)
  <2>1. a.Line_num \notin c.ahead /\ l.op \in Counting /\ Operands(l.op) = 2
    BY <1>6 DEF Moving, Counting, Operands
  <2>2. 2 \in 1 .. Operands(l.op) /\ e \in Expressions /\ h \in Expressions
    <3>1. Ready(l, 2)
      BY <2>1, LineReady
    <3> QED
      BY <2>1, <3>1 DEF Ready
  <2>3. c = Fill(x, x.Result, h) /\ d = Fill(y, y.Result, h)
    BY <1>6 DEF DoPseudo
  <2>4. Good(x) /\ x.Result \in Int /\ y.Result \in Int /\ x.Line_num = a.Line_num
    BY <1>0, <2>2, EvalResult DEF Quiet
  <2>5. Does(x, c, 0 + Cost(h))
    <3> HIDE DEF x
    <3>1. Eval(x, h).Result \in Nat
      BY <2>1, <2>2, <2>4, CountResult
    <3> QED
      BY <2>2, <2>3, <2>4, <3>1, Still, FillDoes
  <2>6. Paired(x, y, c)
    BY <2>1, <2>2, <2>5, PairedFirst
  <2> HIDE DEF x, y
  <2> QED
    BY <2>1, <2>2, <2>3, <2>4, <2>6, FillAlike
<1>7. CASE l.op = "EQU"
  <2> DEFINE e == l.args[1]
  <2>1. e \in Expressions
    <3>1. Operands(l.op) = 1
      BY <1>7 DEF Operands
    <3>2. Ready(l, 1)
      BY <3>1, LineReady
    <3> QED
      BY <3>2 DEF Ready
  <2>2. ASSUME NEW z, Good(z), NEW name, name # ""
        PROVE  DoPseudo(z, l, name).Pc = z.Pc
    <3> DEFINE y == Eval(z, e)
               i == Install(y, name, y.Result)
    <3>1. DoPseudo(z, l, name) = [i EXCEPT !.Old_pc = y.Result]
      BY <1>7, <2>2 DEF DoPseudo, Equ
    <3>2. Good(y) /\ y.Pc = z.Pc /\ y.Result \in Nat
      <4>1. 1 \in 1 .. Operands(l.op) /\ l.op \in Counting
        BY <1>7 DEF Operands, Counting
      <4> QED
        BY <2>1, <2>2, <4>1, EvalResult, CountResult DEF Quiet
    <3> HIDE DEF y
    <3>3. i.Pc = z.Pc
      BY <3>2, InstallMoves
    <3>4. Fields \subseteq DOMAIN i
      BY <2>2, <3>2, Still, InstallDoes DEF Does, Good, Typed
    <3> HIDE DEF i
    <3>5. [i EXCEPT !.Old_pc = y.Result].Pc = i.Pc
      BY <3>4 DEF Fields
    <3> QED
      BY <3>1, <3>3, <3>5
  <2>3. ASSUME NEW z, Good(z)
        PROVE  DoPseudo(z, l, "") = Error(z, "EQU requires label") /\ "EQU requires label" \notin H
    BY <1>7 DEF DoPseudo, Equ, Soft
  <2>4. CASE f = "" \/ g = ""
    <3>1. c = Error(a, "EQU requires label") \/ d = Error(b, "EQU requires label")
      BY <1>0, <2>3, <2>4
    <3>2. "EQU requires label" \notin H
      BY <1>0, <2>3
    <3> HIDE DEF d
    <3> QED
      BY <1>0, <3>1, <3>2, StopLevel DEF d
  <2>5. CASE f # "" /\ g # ""
    BY <1>0, <2>2, <2>5 DEF Level
  <2> QED
    BY <2>4, <2>5
<1> QED
  BY <1>1, <1>2, <1>3, <1>4, <1>5, <1>6, <1>7 DEF Pseudos, Counting

-----------------------------------------------------------------------------
(* as.c: a line that starts at the same place in both passes.              *)

Facing(a, b, c) ==
  /\ Good(a) /\ Good(b) /\ a.Pass = 1 /\ b.Pass = 2
  /\ b.Line_num = a.Line_num /\ b.Pc = a.Pc
  /\ a.Line_num \notin a.ahead
  /\ a.Line_num \in c.ahead <=> Marked(b)
  /\ Holds(c.root, b.root)

LEMMA FacingOn ==
  ASSUME NEW a, NEW b, NEW c, Facing(a, b, c), NEW x, NEW y, Does(a, x, 0), Does(b, y, 0), x.Pc = y.Pc
  PROVE  /\ Facing(x, y, c) /\ x.Line_num = a.Line_num
         /\ x.Old_pc = y.Old_pc => Paired(x, y, c)
<1>1. Good(x) /\ Good(y) /\ Keeps(a, x) /\ Keeps(b, y) /\ x.ahead = a.ahead /\ y.F_ref = b.F_ref
  BY DEF Does, Reads
<1>2. Here(y) = Here(b)
  BY <1>1 DEF Keeps, Here
<1>3. Holds(c.root, y.root)
  BY <1>1 DEF Facing, Keeps, Holds
<1>4. Facing(x, y, c)
  BY <1>1, <1>2, <1>3 DEF Facing, Keeps, Marked
<1> QED
  BY <1>1, <1>4 DEF Facing, Paired, Keeps

LEMMA LabelMoves ==
  ASSUME NEW a, NEW name, Good(a), NEW l
  PROVE  /\ Does(a, Labelled(a, l, name), 0) /\ Good(Labelled(a, l, name))
         /\ Labelled(a, l, name).Pc = a.Pc /\ Labelled(a, l, name).Old_pc = a.Pc
<1> DEFINE b == Start(a)
<1>1. Does(a, b, 0) /\ b.Pc = a.Pc /\ b.Old_pc = a.Pc /\ Does(a, Labelled(a, l, name), 0)
  BY LabelDoes
<1>2. Labelled(a, l, name) = b \/ Labelled(a, l, name) = Install(b, name, b.Pc)
  BY Zenon DEF Labelled
<1> HIDE DEF b
<1>3. Good(b) /\ Good(Labelled(a, l, name))
  BY <1>1 DEF Does
<1> QED
  BY <1>1, <1>2, <1>3, InstallMoves

LEMMA ProcessLevel ==
  ASSUME NEW cpu \in Processors, NEW a, NEW b, NEW c, Facing(a, b, c), NEW l, IsLine(cpu, l), l.op \notin {"*", ";"},
         NEW f, NEW g, c = Process(cpu, a, l, f), a.Line_num \in c.ahead => ~ Moving(cpu, l)
  PROVE  Level(Mild(cpu), c, Process(cpu, b, l, g))
<1> DEFINE x == Labelled(a, l, f)
           y == Labelled(b, l, g)
           d == Process(cpu, b, l, g)
<1>0. Good(a) /\ Good(b) /\ a.Pc = b.Pc
  BY DEF Facing
<1>1. /\ Does(a, x, 0) /\ Good(x) /\ x.Pc = a.Pc /\ x.Old_pc = a.Pc
      /\ Does(b, y, 0) /\ Good(y) /\ y.Pc = b.Pc /\ y.Old_pc = b.Pc
  BY <1>0, LabelMoves
<1>2. /\ c = CASE l.op = ""           -> x
               [] l.op = "?"          -> Error(x, "Unrecognized Mnemonic")
               [] l.op \in Pseudos    -> DoPseudo(x, l, f)
               [] OTHER               -> DoOp(cpu, x, l)
      /\ d = CASE l.op = ""           -> y
               [] l.op = "?"          -> Error(y, "Unrecognized Mnemonic")
               [] l.op \in Pseudos    -> DoPseudo(y, l, g)
               [] OTHER               -> DoOp(cpu, y, l)
  BY ProcessIs
<1> HIDE DEF x, y, d
<1>3. Paired(x, y, c) /\ x.Line_num = a.Line_num
  <2>1. x.Pc = y.Pc /\ x.Old_pc = y.Old_pc
    BY <1>0, <1>1
  <2> QED
    BY <1>1, <2>1, FacingOn
<1>4. CASE l.op = ""
  <2>1. c = x /\ d = y
    BY <1>2, <1>4 DEF Pseudos, Counting
  <2> QED
    BY <1>0, <1>1, <2>1 DEF Level, d
<1>5. CASE l.op = "?"
  <2>1. c = Error(x, "Unrecognized Mnemonic") /\ d = Error(y, "Unrecognized Mnemonic")
    BY <1>2, <1>5 DEF Pseudos, Counting
  <2>2. c.Pc = x.Pc /\ d.Pc = y.Pc
    <3>1. Error(x, "Unrecognized Mnemonic").Pc = x.Pc
      BY <1>1, ErrorMoves
    <3>2. Error(y, "Unrecognized Mnemonic").Pc = y.Pc
      BY <1>1, ErrorMoves
    <3> QED
      BY <2>1, <3>1, <3>2
  <2> QED
    BY <1>0, <1>1, <2>2 DEF Level, d
<1>6. CASE l.op \in Pseudos
  <2>1. l.op \notin {"", "?"}
    BY <1>6 DEF Pseudos, Counting
  <2>2. c = DoPseudo(x, l, f) /\ d = DoPseudo(y, l, g)
    BY <1>2, <1>6, <2>1
  <2>3. Mild(cpu) \subseteq Soft
    BY DEF Mild, Soft
  <2> QED
    BY <1>3, <1>6, <2>2, <2>3, PseudoLevel DEF d
<1>7. CASE l.op \notin {"", "?"} \cup Pseudos
  <2>1. l.op \in Classes(cpu)
    BY <1>7 DEF IsLine
  <2>2. c = DoOp(cpu, x, l) /\ d = DoOp(cpu, y, l)
    BY <1>2, <1>7
  <2> QED
    BY <1>3, <2>1, <2>2, OpLevel DEF d, Processors
<1> QED
  BY <1>4, <1>5, <1>6, <1>7

LEMMA LineLevel ==
  ASSUME NEW cpu \in Processors, NEW a, NEW b, NEW c, Facing(a, b, c), NEW l, IsLine(cpu, l),
         c = ParseLine(cpu, a, l), a.Line_num \in c.ahead => ~ Moving(cpu, l)
  PROVE  Level(Mild(cpu), c, ParseLine(cpu, b, l))
<1> DEFINE Name(z) == IF z.hold # "" THEN z.hold ELSE l.label
           With(z, h) == [z EXCEPT !.hold = h]
           d == ParseLine(cpu, b, l)
<1>0. Good(a) /\ Good(b) /\ a.Pc = b.Pc
  BY DEF Facing
<1>1. ASSUME NEW z, Good(z), NEW h
      PROVE  Does(z, With(z, h), 0) /\ With(z, h).Pc = z.Pc
  <2>1. Fields \subseteq DOMAIN z
    BY <1>1 DEF Good, Typed
  <2>2. With(z, h).Pc = z.Pc
    BY <2>1 DEF Fields
  <2> QED
    BY <1>1, <2>2, HoldDoes
<1>2. CASE l.op = "*"
  <2>1. c = a /\ d = b
    BY <1>2 DEF ParseLine
  <2> QED
    BY <1>0, <2>1 DEF Level
<1>3. CASE l.op = ";"
  <2>1. c = With(a, Name(a)) /\ d = With(b, Name(b))
    BY <1>3 DEF ParseLine
  <2> HIDE DEF With, Name, d
  <2>2. c.Pc = a.Pc /\ d.Pc = b.Pc
    BY <1>0, <1>1, <2>1
  <2> QED
    BY <1>0, <2>2 DEF Level, d
<1>4. CASE l.op \notin {"*", ";"}
  <2> DEFINE x == With(a, "")
             y == With(b, "")
  <2>1. c = Process(cpu, x, l, Name(a)) /\ d = Process(cpu, y, l, Name(b))
    BY <1>4 DEF ParseLine
  <2>2. Does(a, x, 0) /\ Does(b, y, 0) /\ x.Pc = a.Pc /\ y.Pc = b.Pc
    BY <1>0, <1>1
  <2> HIDE DEF With, Name, d, x, y
  <2>3. Facing(x, y, c) /\ x.Line_num = a.Line_num
    BY <1>0, <2>2, FacingOn
  <2> QED
    BY <1>4, <2>1, <2>3, ProcessLevel DEF d
<1> QED
  BY <1>2, <1>3, <1>4

-----------------------------------------------------------------------------
(* The starts of the lines.                                                *)

(* Line i of pass 1, from where it starts to where it ends: table and ahead*)
(* are those of later.                                                     *)
Begun(p, i, from, to, table, ahead) ==
  \E a : /\ Good(a) /\ a.Pass = 1 /\ a.Line_num = i /\ a.Pc = from /\ i \notin a.ahead
         /\ LET c == ParseLine(p.cpu, a, LineAt(p, i))
            IN  c.errors = {} /\ c.Pc = to /\ Holds(c.root, table) /\ (i \in c.ahead <=> i \in ahead)

(* The first n lines, each of which starts where the one before it ends.   *)
Traced(p, T, n, table, ahead) ==
  T[1] = 0 /\ \A i \in 1 .. n : Begun(p, i, T[i], T[i + 1], table, ahead)

(* No operand that moves the code is a forward reference.                  *)
Steady(p, ahead) == \A i \in ahead : i \in 1 .. Len(FlattenSeq(p.files)) => ~ Moving(p.cpu, LineAt(p, i))

(* The lines of pass 2 that start where those of pass 1 did.               *)
Aligned(p, a, T, U) ==
  Steady(p, a.ahead) =>
    \A i \in 1 .. a.Line_num + 1 : (\A e \in a.errors : e[1] < i => e[2] \in Mild(p.cpu)) => U[i] = T[i]

Phase1(p, a, first) ==
  Len(first) = a.Line_num /\ (a.errors = {} => Traced(p, Append(first, a.Pc), a.Line_num, a.root, a.ahead))

Phase2(p, a, first, second) ==
  /\ Len(second) = a.Line_num
  /\ \A e \in a.errors : e[1] \in 0 .. a.Line_num
  /\ \A j \in Nat : j > a.Line_num => (Awaits(a, j) <=> j \in a.ahead)
  /\ \E T : /\ Traced(p, T, Len(FlattenSeq(p.files)), a.root, a.ahead)
            /\ \A i \in 1 .. Len(FlattenSeq(p.files)) : first[i] = T[i]
            /\ Aligned(p, a, T, Append(second, a.Pc))

LEMMA Appends ==
  ASSUME NEW seq \in Seq(Nat), NEW x \in Nat, NEW n \in Nat, Len(seq) = n
  PROVE  /\ Append(seq, x) \in Seq(Nat) /\ Len(Append(seq, x)) = n + 1 /\ Append(seq, x)[n + 1] = x
         /\ \A i \in 1 .. n : Append(seq, x)[i] = seq[i]
OBVIOUS

LEMMA BegunOn ==
  ASSUME NEW p, NEW i, NEW from, NEW to, NEW table, NEW ahead, Begun(p, i, from, to, table, ahead),
         NEW more, NEW later, Holds(table, more), i \in ahead <=> i \in later
  PROVE  Begun(p, i, from, to, more, later)
<1>1. \A root : Holds(root, table) => Holds(root, more)
  BY DEF Holds
<1> QED
  BY <1>1 DEF Begun

LEMMA TracedOn ==
  ASSUME NEW p, NEW T, NEW n \in Nat, NEW table, NEW ahead, Traced(p, T, n, table, ahead),
         NEW U, NEW more, NEW later, Holds(table, more), \A i \in 1 .. n : i \in ahead <=> i \in later,
         \A i \in 1 .. n + 1 : U[i] = T[i]
  PROVE  Traced(p, U, n, more, later)
<1>1. 1 \in 1 .. n + 1 /\ \A i \in 1 .. n : i \in 1 .. n + 1 /\ i + 1 \in 1 .. n + 1
  OBVIOUS
<1>2. U[1] = 0
  BY <1>1 DEF Traced
<1>3. ASSUME NEW i \in 1 .. n
      PROVE  Begun(p, i, U[i], U[i + 1], more, later)
  <2>1. Begun(p, i, T[i], T[i + 1], table, ahead) /\ U[i] = T[i] /\ U[i + 1] = T[i + 1] /\ (i \in ahead <=> i \in later)
    BY <1>1 DEF Traced
  <2>2. Begun(p, i, T[i], T[i + 1], more, later)
    BY <2>1, BegunOn, Zenon
  <2> QED
    BY <2>1, <2>2
<1> QED
  BY <1>2, <1>3 DEF Traced

(* Counting the lines.                                                     *)
LEMMA NextOne ==
  ASSUME NEW n \in Nat, NEW j, j = n + 1
  PROVE  /\ j \in Nat /\ j # 0 /\ j \in 1 .. j /\ j \in 0 .. j
         /\ \A k \in 1 .. n : k # j /\ k \in 1 .. j
         /\ \A k \in 0 .. n : k \in 0 .. j
         /\ \A k \in 0 .. j : k < j + 1
         /\ \A k \in 1 .. j : k \in 1 .. n \/ k = j
         /\ \A k \in 1 .. j + 1 : k \in 1 .. j \/ k = j + 1
         /\ \A k \in Nat : k > j => k > n /\ k # 0 /\ k # j
OBVIOUS

(* No mark of pass 1 is ahead of the assembler.                            *)
LEMMA NotMarkedYet ==
  ASSUME NEW W, NEW a, Good(a), a.Pass = 1, Settled(W, a), NEW j, j = a.Line_num + 1
  PROVE  j \notin a.ahead
<1>1. a.Line_num \in Nat /\ AheadOK(a.Pass, a.ahead, a.Forward)
  BY DEF Good, Typed
<1>2. Len(a.Forward) \in Nat /\ \A k \in 1 .. Len(a.Forward) : a.Forward[k][2] \in Nat
  BY MarkTyped
<1>3. \A k \in 1 .. Len(a.Forward) : a.Forward[k][2] <= a.Line_num
  <2> TAKE k \in 1 .. Len(a.Forward)
  <2>1. k <= k
    BY <1>2
  <2> QED
    BY <2>1 DEF Settled
<1>4. \A k \in 1 .. Len(a.Forward) : a.Forward[k][2] # j
  BY <1>1, <1>2, <1>3
<1>5. j \in a.ahead <=> \E k \in 1 .. Len(a.Forward) : a.Forward[k][2] = j
  BY <1>1 DEF AheadOK
<1> QED
  BY <1>4, <1>5

(* A line that pass 1 reads.                                               *)
LEMMA FirstGoes ==
  ASSUME NEW p, NEW a, NEW b, Good(b), b.Pass = 1, b.errors = a.errors, b.Pc = a.Pc, b.root = a.root,
         b.ahead = a.ahead, NEW n \in Nat, n = a.Line_num, NEW j, j = n + 1, b.Line_num = j, j \notin a.ahead,
         NEW c, c = ParseLine(p.cpu, b, LineAt(p, j)), Good(c), Keeps(b, c),
         NEW first \in Seq(Nat), Phase1(p, a, first)
  PROVE  Phase1(p, c, Append(first, a.Pc))
<1> DEFINE T == Append(first, a.Pc)
           U == Append(T, c.Pc)
<1>1. /\ b.Pc \in Nat /\ c.Pc \in Nat /\ c.Line_num = j /\ b.errors \subseteq c.errors /\ Holds(b.root, c.root)
      /\ \A k : k # j => (k \in b.ahead <=> k \in c.ahead)
  BY DEF Good, Typed, Keeps
<1>2. Len(first) = n /\ (a.errors = {} => Traced(p, T, n, a.root, a.ahead))
  BY DEF Phase1
<1>3. j \in Nat /\ j \in 1 .. j /\ a.Pc \in Nat
  BY <1>1, NextOne
<1>4. T \in Seq(Nat) /\ Len(T) = j /\ T[j] = a.Pc
  BY <1>2, <1>3, Appends
<1> HIDE DEF T
<1>5. U[j + 1] = c.Pc /\ \A k \in 1 .. j : U[k] = T[k]
  <2>1. c.Pc \in Nat /\ j \in Nat
    BY <1>1, <1>3
  <2> QED
    BY <2>1, <1>4, Appends
<1> HIDE DEF U
<1>6. ASSUME c.errors = {}
      PROVE  Traced(p, U, j, c.root, c.ahead)
  <2>1. a.errors = {} /\ Traced(p, T, n, a.root, a.ahead)
    BY <1>1, <1>2, <1>6
  <2>2. Traced(p, U, n, c.root, c.ahead)
    <3>1. Holds(a.root, c.root) /\ \A k \in 1 .. n : k \in a.ahead <=> k \in c.ahead
      <4>1. \A k \in 1 .. n : k # j
        BY NextOne, Zenon
      <4>2. \A k \in 1 .. n : k \in a.ahead <=> k \in c.ahead
        BY <1>1, <4>1, Zenon
      <4> QED
        BY <1>1, <4>2, Zenon
    <3>2. \A k \in 1 .. n + 1 : U[k] = T[k]
      BY <1>5
    <3> QED
      BY <2>1, <3>1, <3>2, TracedOn
  <2>3. Begun(p, j, U[j], U[j + 1], c.root, c.ahead)
    <3>1. Holds(c.root, c.root)
      BY DEF Holds
    <3>2. U[j] = b.Pc
      BY <1>3, <1>4, <1>5
    <3> QED
      BY <1>5, <1>6, <3>1, <3>2, Zenon DEF Begun
  <2>4. ASSUME NEW k \in 1 .. j
        PROVE  Begun(p, k, U[k], U[k + 1], c.root, c.ahead)
    <3>1. CASE k \in 1 .. n
      BY <2>2, <3>1, Zenon DEF Traced
    <3>2. CASE k = j
      BY <2>3, <3>2, Zenon
    <3> QED
      BY <2>4, <3>1, <3>2, NextOne, Zenon
  <2> QED
    BY <2>2, <2>4, Zenon DEF Traced
<1> QED
  BY <1>1, <1>4, <1>6, Zenon DEF Phase1, U, T

LEMMA FirstReads ==
  ASSUME NEW p \in Programs, NEW a, Good(a), a.Pass = 1, NEW i, Placing(p.files, a.Cfn, a.Line_num, i),
         MarksOK(Weights(p), a), a.Cfn <= Len(p.files), i <= Len(p.files[a.Cfn]),
         NEW c, c = ParseLine(p.cpu, [a EXCEPT !.Line_num = @ + 1], Text[p.files[a.Cfn][i]]),
         NEW first \in Seq(Nat), Phase1(p, a, first)
  PROVE  Phase1(p, c, Append(first, a.Pc))
<1> DEFINE b == [a EXCEPT !.Line_num = @ + 1]
           n == a.Line_num
           j == n + 1
<1>1. /\ Good(b) /\ b.Line_num = j /\ b.Pass = 1 /\ b.errors = a.errors /\ b.Pc = a.Pc /\ b.root = a.root
      /\ b.ahead = a.ahead
  BY CountedGood
<1>2. Text[p.files[a.Cfn][i]] = LineAt(p, j)
  BY LineIs, Zenon
<1>3. \A x : Good(x) => Does(x, ParseLine(p.cpu, x, LineAt(p, j)), Weights(p)[j].marks)
  BY LineIs, Zenon
<1>4. c = ParseLine(p.cpu, b, LineAt(p, j))
  BY <1>2
<1>5. j \notin a.ahead
  <2>1. Settled(Weights(p), a)
    BY Zenon DEF MarksOK
  <2> QED
    BY <2>1, NotMarkedYet, Zenon
<1>6. n \in Nat
  BY Zenon DEF Good, Typed
<1> HIDE DEF b, n
<1>7. Good(c) /\ Keeps(b, c)
  BY <1>1, <1>3, <1>4, Zenon DEF Does
<1>8. n = a.Line_num
  BY Zenon DEF n
<1> HIDE DEF j
<1>9. j = n + 1
  BY Zenon DEF j
<1> QED
  BY <1>1, <1>4, <1>5, <1>6, <1>7, <1>8, <1>9, FirstGoes, Zenon

(* Before the second pass: the marks are those of the lines ahead.         *)
LEMMA RewoundAwaits ==
  ASSUME NEW a, Good(a), a.Pass = 1, NEW b, b.ahead = a.ahead,
         b.F_ref = IF a.Forward = <<>> THEN <<0, 0>> ELSE Head(a.Forward),
         b.Forward = IF a.Forward = <<>> THEN <<>> ELSE Tail(a.Forward),
         NEW j \in Nat, j > 0
  PROVE  Awaits(b, j) <=> j \in b.ahead
<1>1. a.Forward \in Seq(Nat \X Nat)
  BY DEF Good, Typed
<1>2. j \in b.ahead <=> \E k \in 1 .. Len(a.Forward) : a.Forward[k][2] = j
  BY DEF Good, Typed, AheadOK
<1>3. CASE a.Forward = <<>>
  <2>1. b.F_ref = <<0, 0>> /\ b.Forward = <<>> /\ Len(b.Forward) = 0 /\ Len(a.Forward) = 0
    BY <1>3
  <2>2. \A k \in 0 .. Len(b.Forward) : k = 0
    BY <2>1
  <2>3. \A k \in 0 .. Len(b.Forward) : At(b, k) = <<0, 0>>
    BY <2>1, <2>2 DEF At
  <2>4. ~ Awaits(b, j)
    BY <2>3 DEF Awaits
  <2>5. j \notin b.ahead
    BY <1>2, <2>1
  <2> QED
    BY <2>4, <2>5
<1>4. CASE a.Forward # <<>>
  <2> DEFINE m == Len(a.Forward)
  <2>1. /\ m \in Nat /\ m > 0 /\ Len(b.Forward) = m - 1 /\ b.F_ref = a.Forward[1]
        /\ \A k \in 1 .. m - 1 : b.Forward[k] = a.Forward[k + 1]
    <3>1. b.F_ref = Head(a.Forward) /\ b.Forward = Tail(a.Forward)
      BY <1>4
    <3> QED
      BY <1>1, <1>4, <3>1
  <2> HIDE DEF m
  <2>2. \A k \in 0 .. m - 1 : At(b, k) = a.Forward[k + 1] /\ k + 1 \in 1 .. m
    <3> TAKE k \in 0 .. m - 1
    <3>1. CASE k = 0
      BY <2>1, <3>1 DEF At
    <3>2. CASE k # 0
      <4>1. k \in 1 .. m - 1 /\ k + 1 \in 1 .. m
        BY <2>1, <3>2
      <4> QED
        BY <2>1, <3>2, <4>1 DEF At
    <3> QED
      BY <3>1, <3>2
  <2>3. \A k \in 1 .. m : k - 1 \in 0 .. m - 1 /\ At(b, k - 1) = a.Forward[k]
    <3> TAKE k \in 1 .. m
    <3>1. k - 1 \in 0 .. m - 1 /\ (k - 1) + 1 = k
      BY <2>1
    <3> QED
      BY <2>2, <3>1
  <2>4. Awaits(b, j) <=> \E k \in 1 .. m : a.Forward[k][2] = j
    <3>1. Awaits(b, j) <=> \E k \in 0 .. m - 1 : At(b, k)[2] = j
      BY <2>1, Zenon DEF Awaits
    <3>2. (\E k \in 0 .. m - 1 : At(b, k)[2] = j) => \E k \in 1 .. m : a.Forward[k][2] = j
      BY <2>2, Zenon
    <3>3. (\E k \in 1 .. m : a.Forward[k][2] = j) => \E k \in 0 .. m - 1 : At(b, k)[2] = j
      BY <2>3, Zenon
    <3> QED
      BY <3>1, <3>2, <3>3
  <2> QED
    BY <1>2, <2>4 DEF m
<1> QED
  BY <1>3, <1>4

LEMMA SecondBegins ==
  ASSUME NEW p, NEW a, Good(a), a.Pass = 1, a.errors = {}, NEW first \in Seq(Nat), Phase1(p, a, first),
         a.Line_num = Len(FlattenSeq(p.files)),
         NEW b, b = FwdNext([a EXCEPT !.Pass = 2, !.Cfn = 1, !.Line_num = 0, !.Pc = 0, !.E_bytes = <<>>])
  PROVE  Phase2(p, b, first, <<>>)
<1> DEFINE n == Len(FlattenSeq(p.files))
           T == Append(first, a.Pc)
<1>1. /\ b.Line_num = 0
      /\ b.F_ref = IF a.Forward = <<>> THEN <<0, 0>> ELSE Head(a.Forward)
      /\ b.Forward = IF a.Forward = <<>> THEN <<>> ELSE Tail(a.Forward)
      /\ b.Pc = 0 /\ b.root = a.root /\ b.ahead = a.ahead /\ b.errors = a.errors
  BY RewoundGood
<1>2. Len(first) = n /\ n \in Nat /\ a.Pc \in Nat /\ Traced(p, T, n, b.root, b.ahead)
  BY <1>1 DEF Phase1, Good, Typed
<1>3. \A j \in Nat : j > b.Line_num => (Awaits(b, j) <=> j \in b.ahead)
  BY <1>1, RewoundAwaits
<1>4. \A i \in 1 .. n : first[i] = T[i]
  <2> HIDE DEF n
  <2> QED
    BY <1>2, Appends
<1>5. Aligned(p, b, T, Append(<<>>, b.Pc))
  <2>1. T[1] = 0 /\ Append(<<>>, b.Pc)[1] = 0 /\ \A i \in 1 .. b.Line_num + 1 : i = 1
    BY <1>1, <1>2 DEF Traced
  <2> HIDE DEF T
  <2> QED
    BY <2>1 DEF Aligned
<1>6. Len(<<>>) = b.Line_num /\ \A e \in b.errors : e[1] \in 0 .. b.Line_num
  BY <1>1
<1> HIDE DEF T
<1> QED
  BY <1>2, <1>3, <1>4, <1>5, <1>6 DEF Phase2

(* A mark of the next line is the one in F_ref and Ffn.                    *)
LEMMA NextIsMarked ==
  ASSUME NEW W, NEW a, Good(a), Left(W, a), ~ Harmed(a), NEW j, j = a.Line_num + 1, W[j].file = a.Cfn,
         NEW b, b.Pass = 2, b.F_ref = a.F_ref, b.Cfn = a.Cfn, b.Line_num = j
  PROVE  Marked(b) <=> Awaits(a, j)
<1>1. Len(a.Forward) \in Nat /\ a.Line_num \in Nat /\ 0 \in 0 .. Len(a.Forward) /\ At(a, 0) = a.F_ref
  BY MarkTyped DEF At
<1>2. Here(b) = <<a.Cfn, j>>
  BY DEF Here
<1>3. ASSUME Marked(b)
      PROVE  Awaits(a, j)
  <2>1. At(a, 0)[2] = j
    BY <1>1, <1>2, <1>3 DEF Marked
  <2> QED
    BY <1>1, <2>1 DEF Awaits
<1>4. ASSUME Awaits(a, j)
      PROVE  Marked(b)
  <2>1. PICK k \in 0 .. Len(a.Forward) : At(a, k)[2] = j
    BY <1>4 DEF Awaits
  <2>2. CASE a.F_ref = <<0, 0>> /\ a.Forward = <<>>
    <3>1. k = 0
      BY <2>1, <2>2
    <3>2. At(a, k) = <<0, 0>>
      BY <1>1, <2>2, <3>1
    <3> QED
      BY <1>1, <2>1, <3>2
  <2>3. CASE \A i, h \in 0 .. Len(a.Forward) : i <= h =>
               /\ a.Line_num < At(a, i)[2] /\ At(a, i)[2] <= At(a, h)[2]
               /\ At(a, i)[2] = At(a, h)[2] => At(a, i) = At(a, h) /\ h - i < W[At(a, i)[2]].marks
               /\ OfLine(W, At(a, h))
    <3>1. 0 <= k /\ 0 <= 0
      OBVIOUS
    <3>2. a.Line_num < At(a, 0)[2] /\ At(a, 0)[2] <= At(a, k)[2] /\ OfLine(W, At(a, 0))
      BY <1>1, <2>1, <2>3, <3>1
    <3>3. At(a, 0) \in Nat \X Nat /\ At(a, 0)[2] \in Nat
      BY <1>1, MarkTyped
    <3>4. At(a, 0)[2] = j
      BY <1>1, <2>1, <3>2, <3>3
    <3>5. At(a, 0)[1] = a.Cfn
      BY <3>2, <3>4 DEF OfLine
    <3>6. At(a, 0) = <<a.Cfn, j>>
      BY <3>3, <3>4, <3>5
    <3> QED
      BY <1>1, <1>2, <3>6 DEF Marked
  <2> QED
    BY <2>2, <2>3 DEF Left
<1> QED
  BY <1>3, <1>4

(* The next line of pass 2 ends where it did in pass 1.                    *)
LEMMA SecondAligns ==
  ASSUME NEW p, p.cpu \in Processors, NEW j, NEW l, l = LineAt(p, j), IsLine(p.cpu, l), NEW from, NEW to,
         NEW table, NEW ahead, Begun(p, j, from, to, table, ahead), j \in ahead => ~ Moving(p.cpu, l),
         NEW b, Good(b), b.Pass = 2, b.Line_num = j, b.Pc = from, b.root = table, Marked(b) <=> j \in ahead,
         NEW c, c = ParseLine(p.cpu, b, l), \A e \in c.errors : e[2] \in Mild(p.cpu)
  PROVE  c.Pc = to
<1>1. PICK a : /\ Good(a) /\ a.Pass = 1 /\ a.Line_num = j /\ a.Pc = from /\ j \notin a.ahead
               /\ LET d == ParseLine(p.cpu, a, l)
                  IN  d.errors = {} /\ d.Pc = to /\ Holds(d.root, table) /\ (j \in d.ahead <=> j \in ahead)
  BY DEF Begun
<1> DEFINE d == ParseLine(p.cpu, a, l)
<1>2. d.errors = {} /\ d.Pc = to /\ Holds(d.root, table) /\ (j \in d.ahead <=> j \in ahead)
  BY <1>1
<1>3. d = ParseLine(p.cpu, a, l)
  OBVIOUS
<1> HIDE DEF d
<1>4. Facing(a, b, d)
  BY <1>1, <1>2 DEF Facing
<1>5. a.Line_num \in d.ahead => ~ Moving(p.cpu, l)
  BY <1>1, <1>2
<1>6. Level(Mild(p.cpu), d, c)
  BY <1>3, <1>4, <1>5, LineLevel
<1>7. ~ Stopped(Mild(p.cpu), d) /\ ~ Stopped(Mild(p.cpu), c)
  BY <1>2 DEF Stopped
<1> QED
  BY <1>2, <1>6, <1>7 DEF Level

LEMMA ReadsLater ==
  ASSUME NEW b, NEW c, NEW n, Reads(b, c, n), b.Pass = 2, NEW k, k # 0, k # b.Line_num
  PROVE  Awaits(c, k) <=> Awaits(b, k)
BY Zenon DEF Reads

LEMMA SameAwaits ==
  ASSUME NEW a, NEW b, b.F_ref = a.F_ref, b.Forward = a.Forward
  PROVE  \A k : Awaits(b, k) <=> Awaits(a, k)
<1>1. \A k : At(b, k) = At(a, k)
  BY Zenon DEF At
<1> QED
  BY <1>1 DEF Awaits

(* A line that pass 2 reads.                                               *)
LEMMA SecondGoes ==
  ASSUME NEW p, p.cpu \in Processors, NEW a, Good(a), NEW W, Left(W, a), NEW n, n = Len(FlattenSeq(p.files)),
         NEW j, j = a.Line_num + 1, j \in 1 .. n, W[j].file = a.Cfn, NEW l, l = LineAt(p, j), IsLine(p.cpu, l),
         NEW b, Good(b), b.Line_num = j, b.Pass = 2, b.Cfn = a.Cfn, b.errors = a.errors, b.Pc = a.Pc,
         b.root = a.root, b.ahead = a.ahead, b.F_ref = a.F_ref, b.Forward = a.Forward,
         NEW c, c = ParseLine(p.cpu, b, l), Does(b, c, W[j].marks), n \in Nat,
         NEW first, NEW second \in Seq(Nat), Phase2(p, a, first, second)
  PROVE  Phase2(p, c, first, Append(second, a.Pc))
<1> DEFINE U == Append(second, a.Pc)
           V == Append(U, c.Pc)
           m == a.Line_num
<1>1. Good(c) /\ Keeps(b, c) /\ Reads(b, c, W[j].marks)
  BY DEF Does
<1>2. m \in Nat /\ a.Pc \in Nat /\ c.Pc \in Nat /\ Len(second) = m
  BY <1>1, Zenon DEF Good, Typed, Phase2
<1>3. j = m + 1
  OBVIOUS
<1> HIDE DEF m
<1>4. j \in Nat /\ j \in 1 .. j /\ j # 0
  BY <1>2, <1>3, NextOne, Zenon
<1>5. /\ c.Line_num = j /\ c.ahead = a.ahead /\ a.errors \subseteq c.errors /\ Holds(a.root, c.root)
      /\ \A e \in c.errors : e \in a.errors \/ e[1] = j
  BY <1>1, Zenon DEF Keeps
<1>6. /\ \A e \in a.errors : e[1] \in 0 .. m
      /\ \A k \in Nat : k > m => (Awaits(a, k) <=> k \in a.ahead)
  BY Zenon DEF Phase2, m
<1>7. PICK T : /\ Traced(p, T, n, a.root, a.ahead) /\ \A k \in 1 .. n : first[k] = T[k]
               /\ Aligned(p, a, T, U)
  BY Zenon DEF Phase2
<1>8. U \in Seq(Nat) /\ Len(U) = j /\ U[j] = a.Pc
  BY <1>2, <1>3, Appends
<1> HIDE DEF U
<1>9. V[j + 1] = c.Pc /\ \A k \in 1 .. j : V[k] = U[k]
  BY <1>2, <1>4, <1>8, Appends
<1> HIDE DEF V
<1>10. \A e \in c.errors : e[1] \in 0 .. j
  <2> TAKE e \in c.errors
  <2>1. CASE e \in a.errors
    <3>1. e[1] \in 0 .. m
      BY <1>6, <2>1, Zenon
    <3>2. \A k \in 0 .. m : k \in 0 .. j
      BY <1>2, <1>3, NextOne, Zenon
    <3> QED
      BY <3>1, <3>2, Zenon
  <2>2. CASE e[1] = j
    BY <1>2, <1>3, <2>2, NextOne, Zenon
  <2> QED
    BY <1>5, <2>1, <2>2, Zenon
<1>11. \A k : Awaits(b, k) <=> Awaits(a, k)
  BY SameAwaits, Zenon
<1>12. \A k \in Nat : k > j => (Awaits(c, k) <=> k \in c.ahead)
  <2> TAKE k \in Nat
  <2>1. SUFFICES ASSUME k > j
                 PROVE  Awaits(c, k) <=> k \in c.ahead
    OBVIOUS
  <2>2. k > m /\ k # 0 /\ k # j
    BY <1>2, <1>3, <2>1, NextOne, Zenon
  <2>3. Awaits(c, k) <=> Awaits(b, k)
    <3>1. Reads(b, c, W[j].marks) /\ k # b.Line_num
      BY <1>1, <2>2, Zenon
    <3> QED
      BY <2>2, <3>1, ReadsLater
  <2> QED
    BY <1>5, <1>6, <1>11, <2>2, <2>3, Zenon
<1>13. Traced(p, T, n, c.root, c.ahead)
  BY <1>5, <1>7, TracedOn, Zenon
<1>14. ASSUME Steady(p, c.ahead), NEW k \in 1 .. j + 1,
              \A e \in c.errors : e[1] < k => e[2] \in Mild(p.cpu)
       PROVE  V[k] = T[k]
  <2>1. \A h \in 1 .. j : (\A e \in a.errors : e[1] < h => e[2] \in Mild(p.cpu)) => U[h] = T[h]
    BY <1>3, <1>5, <1>7, <1>14, Zenon DEF Aligned, m
  <2>2. CASE k \in 1 .. j
    <3>1. \A e \in a.errors : e[1] < k => e[2] \in Mild(p.cpu)
      BY <1>5, <1>14, Zenon
    <3> QED
      BY <1>9, <2>1, <2>2, <3>1, Zenon
  <2>3. CASE k = j + 1
    <3>1. \A e \in c.errors : e[2] \in Mild(p.cpu)
      BY <1>2, <1>3, <1>10, <1>14, <2>3, NextOne, Zenon
    <3>2. U[j] = T[j]
      BY <1>4, <1>5, <2>1, <3>1, Zenon
    <3>3. ~ Harmed(a)
      BY <1>5, <3>1, Zenon DEF Harmed, Mild, Soft
    <3>4. Begun(p, j, T[j], T[j + 1], a.root, a.ahead)
      BY <1>7, Zenon DEF Traced
    <3>5. Marked(b) <=> j \in a.ahead
      <4>1. Marked(b) <=> Awaits(a, j)
        BY <3>3, NextIsMarked, Zenon
      <4>2. j > m
        BY <1>2, <1>3
      <4> QED
        BY <1>4, <1>6, <4>1, <4>2, Zenon
    <3>6. j \in a.ahead => ~ Moving(p.cpu, l)
      BY <1>5, <1>14, Zenon DEF Steady
    <3>7. b.Pc = T[j]
      BY <1>8, <3>2, Zenon
    <3>8. c.Pc = T[j + 1]
      BY <3>1, <3>4, <3>5, <3>6, <3>7, SecondAligns
    <3> QED
      BY <1>9, <2>3, <3>8, Zenon
  <2> QED
    BY <1>2, <1>3, <1>14, <2>2, <2>3, NextOne, Zenon
<1>15. Aligned(p, c, T, V)
  BY <1>5, <1>14, Zenon DEF Aligned
<1> QED
  BY <1>5, <1>7, <1>8, <1>10, <1>12, <1>13, <1>15, Zenon DEF Phase2, V, U

LEMMA SecondReads ==
  ASSUME NEW p \in Programs, NEW a, Good(a), a.Pass = 2, NEW i, Placing(p.files, a.Cfn, a.Line_num, i),
         MarksOK(Weights(p), a), a.Cfn <= Len(p.files), i <= Len(p.files[a.Cfn]),
         NEW c, c = ParseLine(p.cpu, [a EXCEPT !.Line_num = @ + 1], Text[p.files[a.Cfn][i]]),
         NEW first, NEW second \in Seq(Nat), Phase2(p, a, first, second)
  PROVE  Phase2(p, c, first, Append(second, a.Pc))
<1> DEFINE b == [a EXCEPT !.Line_num = @ + 1]
           j == a.Line_num + 1
           l == LineAt(p, j)
           n == Len(FlattenSeq(p.files))
           W == Weights(p)
<1>1. /\ Good(b) /\ b.Line_num = j /\ b.Pass = 2 /\ b.Cfn = a.Cfn /\ b.errors = a.errors /\ b.Pc = a.Pc
      /\ b.root = a.root /\ b.ahead = a.ahead /\ b.F_ref = a.F_ref /\ b.Forward = a.Forward
  BY CountedGood
<1>2. Text[p.files[a.Cfn][i]] = l
  BY LineIs, Zenon
<1>3. W[j].file = a.Cfn /\ j \in 1 .. n /\ IsLine(p.cpu, l)
  BY LineIs, Zenon
<1>4. \A x : Good(x) => Does(x, ParseLine(p.cpu, x, l), W[j].marks)
  BY LineIs, Zenon
<1>5. c = ParseLine(p.cpu, b, l)
  BY <1>2
<1>6. p.cpu \in Processors /\ n \in Nat
  <2>1. p.cpu \in Processors /\ p.files \in Seq(Seq(DOMAIN Text))
    BY ProgramIs, Zenon
  <2>2. FlattenSeq(p.files) \in Seq(DOMAIN Text)
    BY <2>1, FlattenSeqs, Zenon
  <2> QED
    BY <2>1, <2>2, LenProperties, Zenon
<1>7. Left(W, a)
  BY Zenon DEF MarksOK
<1>8. j = a.Line_num + 1 /\ l = LineAt(p, j) /\ n = Len(FlattenSeq(p.files))
  OBVIOUS
<1> HIDE DEF b, j, l, n, W
<1>9. Does(b, c, W[j].marks)
  BY <1>1, <1>4, <1>5, Zenon
<1> QED
  BY <1>1, <1>3, <1>5, <1>6, <1>7, <1>8, <1>9, SecondGoes, Zenon

LEMMA SamePhase ==
  ASSUME NEW p, NEW a, NEW b, b.Line_num = a.Line_num, b.Forward = a.Forward, b.F_ref = a.F_ref, b.errors = a.errors,
         b.Pc = a.Pc, b.root = a.root, b.ahead = a.ahead, NEW first, NEW second
  PROVE  /\ Phase1(p, a, first) => Phase1(p, b, first)
         /\ Phase2(p, a, first, second) => Phase2(p, b, first, second)
<1>1. Phase1(p, a, first) => Phase1(p, b, first)
  BY DEF Phase1
<1>2. ASSUME Phase2(p, a, first, second)
      PROVE  Phase2(p, b, first, second)
  <2>1. PICK T : /\ Traced(p, T, Len(FlattenSeq(p.files)), a.root, a.ahead)
                 /\ \A i \in 1 .. Len(FlattenSeq(p.files)) : first[i] = T[i]
                 /\ Aligned(p, a, T, Append(second, a.Pc))
    BY <1>2 DEF Phase2
  <2>2. /\ Traced(p, T, Len(FlattenSeq(p.files)), b.root, b.ahead)
        /\ \A i \in 1 .. Len(FlattenSeq(p.files)) : first[i] = T[i]
    BY <2>1
  <2>3. Aligned(p, b, T, Append(second, b.Pc))
    BY <2>1 DEF Aligned
  <2>4. Len(second) = b.Line_num /\ \A e \in b.errors : e[1] \in 0 .. b.Line_num
    BY <1>2 DEF Phase2
  <2>5. \A j \in Nat : j > b.Line_num => (Awaits(b, j) <=> j \in b.ahead)
    <3>1. \A j \in Nat : j > a.Line_num => (Awaits(a, j) <=> j \in a.ahead)
      BY <1>2 DEF Phase2
    <3>2. \A k : Awaits(b, k) <=> Awaits(a, k)
      BY SameAwaits
    <3> QED
      BY <3>1, <3>2
  <2> QED
    BY <2>2, <2>3, <2>4, <2>5 DEF Phase2
<1> QED
  BY <1>1, <1>2

(* The starts of the lines that were read.                                 *)
Phased(p, a, begins) ==
  /\ begins = <<begins[1], begins[2]>> /\ begins[1] \in Seq(Nat) /\ begins[2] \in Seq(Nat)
  /\ a.Pass = 1 => Phase1(p, a, begins[1]) /\ begins[2] = <<>>
  /\ a.Pass = 2 => Phase2(p, a, begins[1], begins[2])

LEMMA BeginsPhased == Init => Phased(prog, s, starts)
<1> SUFFICES ASSUME Init
             PROVE  Phased(prog, s, starts)
  OBVIOUS
<1>1. s = Globals(LocalInit(prog.cpu)) /\ starts = << <<>>, <<>> >>
  BY DEF Init
<1>2. s.Pass = 1 /\ s.Line_num = 0 /\ s.Pc = 0
  BY <1>1 DEF Globals
<1>3. Traced(prog, Append(<<>>, s.Pc), s.Line_num, s.root, s.ahead)
  <2>1. Append(<<>>, s.Pc)[1] = 0 /\ 1 .. s.Line_num = {}
    BY <1>2
  <2> QED
    BY <2>1 DEF Traced
<1>4. Phase1(prog, s, <<>>)
  <2>1. Len(<<>>) = s.Line_num
    BY <1>2
  <2> QED
    BY <1>3, <2>1 DEF Phase1
<1>5. <<>> \in Seq(Nat) /\ starts[1] = <<>> /\ starts[2] = <<>>
  BY <1>1
<1> QED
  BY <1>1, <1>2, <1>4, <1>5 DEF Phased

LEMMA Longer ==
  ASSUME NEW begins, begins = <<begins[1], begins[2]>>, begins[1] \in Seq(Nat), begins[2] \in Seq(Nat), NEW x \in Nat
  PROVE  /\ [begins EXCEPT ![1] = Append(@, x)] = <<Append(begins[1], x), begins[2]>>
         /\ [begins EXCEPT ![2] = Append(@, x)] = <<begins[1], Append(begins[2], x)>>
         /\ Append(begins[1], x) \in Seq(Nat) /\ Append(begins[2], x) \in Seq(Nat)
<1>1. PICK u \in Seq(Nat) : u = begins[1]
  OBVIOUS
<1>2. PICK v \in Seq(Nat) : v = begins[2]
  OBVIOUS
<1>3. begins = <<u, v>>
  BY <1>1, <1>2
<1>4. [<<u, v>> EXCEPT ![1] = Append(u, x)] = <<Append(u, x), v>>
  OBVIOUS
<1>5. [<<u, v>> EXCEPT ![2] = Append(v, x)] = <<u, Append(v, x)>>
  OBVIOUS
<1>6. [begins EXCEPT ![1] = Append(@, x)] = [<<u, v>> EXCEPT ![1] = Append(u, x)]
  BY <1>1, <1>3
<1>7. [begins EXCEPT ![2] = Append(@, x)] = [<<u, v>> EXCEPT ![2] = Append(v, x)]
  BY <1>2, <1>3
<1>8. Append(u, x) \in Seq(Nat) /\ Append(v, x) \in Seq(Nat)
  OBVIOUS
<1> QED
  BY <1>1, <1>2, <1>4, <1>5, <1>6, <1>7, <1>8

LEMMA LinePhased ==
  ASSUME Between, Phased(prog, s, starts), ReadLine
  PROVE  Phased(prog', s', starts')
<1>1. prog \in Programs /\ Good(s) /\ Placing(prog.files, s.Cfn, s.Line_num, line) /\ MarksOK(Weights(prog), s)
  BY DEF Between
<1>2. /\ prog' = prog /\ s.Cfn <= Len(prog.files) /\ line <= Len(prog.files[s.Cfn])
      /\ s' = ParseLine(prog.cpu, [s EXCEPT !.Line_num = @ + 1], Text[prog.files[s.Cfn][line]])
      /\ starts' = [starts EXCEPT ![s.Pass] = Append(@, s.Pc)]
  BY DEF ReadLine
<1>3. /\ starts = <<starts[1], starts[2]>> /\ starts[1] \in Seq(Nat) /\ starts[2] \in Seq(Nat)
      /\ s.Pass = 1 => Phase1(prog, s, starts[1]) /\ starts[2] = <<>>
      /\ s.Pass = 2 => Phase2(prog, s, starts[1], starts[2])
  BY DEF Phased
<1>4. s.Pass \in {1, 2} /\ s.Pc \in Nat
  BY <1>1 DEF Good, Typed
<1>5. s'.Pass = s.Pass
  BY <1>1, <1>2, LineKeeps
<1>6. CASE s.Pass = 1
  <2>1. starts' = <<Append(starts[1], s.Pc), starts[2]>>
    BY <1>2, <1>3, <1>4, <1>6, Longer
  <2>2. starts'[1] = Append(starts[1], s.Pc) /\ starts'[2] = starts[2] /\ Append(starts[1], s.Pc) \in Seq(Nat)
    BY <1>3, <1>4, <2>1
  <2>3. Phase1(prog, s', Append(starts[1], s.Pc))
    BY <1>1, <1>2, <1>3, <1>6, FirstReads
  <2>4. starts' = <<starts'[1], starts'[2]>> /\ starts'[1] \in Seq(Nat) /\ starts'[2] \in Seq(Nat)
    BY <1>3, <2>1, <2>2
  <2>5. s'.Pass = 1 /\ Phase1(prog', s', starts'[1]) /\ starts'[2] = <<>>
    BY <1>2, <1>3, <1>5, <1>6, <2>2, <2>3
  <2> QED
    BY <2>4, <2>5 DEF Phased
<1>7. CASE s.Pass = 2
  <2>1. starts' = <<starts[1], Append(starts[2], s.Pc)>>
    BY <1>2, <1>3, <1>4, <1>7, Longer
  <2>2. starts'[2] = Append(starts[2], s.Pc) /\ starts'[1] = starts[1] /\ Append(starts[2], s.Pc) \in Seq(Nat)
    BY <1>3, <1>4, <2>1
  <2>3. Phase2(prog, s', starts[1], Append(starts[2], s.Pc))
    BY <1>1, <1>2, <1>3, <1>7, SecondReads
  <2>4. starts' = <<starts'[1], starts'[2]>> /\ starts'[1] \in Seq(Nat) /\ starts'[2] \in Seq(Nat)
    BY <1>3, <2>1, <2>2
  <2>5. s'.Pass = 2 /\ Phase2(prog', s', starts'[1], starts'[2])
    BY <1>2, <1>5, <1>7, <2>2, <2>3
  <2> QED
    BY <2>4, <2>5 DEF Phased
<1> QED
  BY <1>4, <1>6, <1>7

LEMMA StaysPhased == Between /\ Phased(prog, s, starts) /\ [Next]_vars => Phased(prog', s', starts')
<1> SUFFICES ASSUME Between, Phased(prog, s, starts), [Next]_vars
             PROVE  Phased(prog', s', starts')
  OBVIOUS
<1>1. prog \in Programs /\ Good(s) /\ Placing(prog.files, s.Cfn, s.Line_num, line)
  BY DEF Between
<1>2. CASE ReadLine
  BY <1>2, LinePhased
<1>3. CASE EndOfFile
  <2>1. prog' = prog /\ starts' = starts /\ s' = [FRecord(s) EXCEPT !.Cfn = @ + 1]
    BY <1>3 DEF EndOfFile
  <2>2. /\ s'.Line_num = s.Line_num /\ s'.Pass = s.Pass /\ s'.Forward = s.Forward /\ s'.F_ref = s.F_ref
        /\ s'.errors = s.errors /\ s'.Pc = s.Pc /\ s'.root = s.root /\ s'.ahead = s.ahead
    BY <1>1, <2>1, NextFileGood
  <2>3. /\ Phase1(prog, s, starts[1]) => Phase1(prog, s', starts[1])
        /\ Phase2(prog, s, starts[1], starts[2]) => Phase2(prog, s', starts[1], starts[2])
    BY <2>2, SamePhase
  <2> QED
    BY <2>1, <2>2, <2>3 DEF Phased
<1>4. CASE SecondPass
  <2>1. /\ prog' = prog /\ starts' = starts /\ s.Cfn > Len(prog.files) /\ s.Pass = 1 /\ s.errors = {}
        /\ s' = FwdNext([s EXCEPT !.Pass = 2, !.Cfn = 1, !.Line_num = 0, !.Pc = 0, !.E_bytes = <<>>])
    BY <1>4 DEF SecondPass
  <2>2. s.Line_num = Len(FlattenSeq(prog.files))
    BY <1>1, <2>1, ProgramIs, PlaceEnd
  <2>3. s'.Pass = 2
    BY <1>1, <2>1, RewoundGood
  <2>4. /\ starts = <<starts[1], starts[2]>> /\ starts[1] \in Seq(Nat) /\ starts[2] \in Seq(Nat)
        /\ Phase1(prog, s, starts[1]) /\ starts[2] = <<>>
    BY <2>1 DEF Phased
  <2>5. Phase2(prog, s', starts[1], <<>>)
    BY <1>1, <2>1, <2>2, <2>4, SecondBegins
  <2> QED
    BY <2>1, <2>3, <2>4, <2>5 DEF Phased
<1>5. CASE Exit
  BY <1>5 DEF Exit
<1>6. CASE UNCHANGED vars
  BY <1>6 DEF vars
<1> QED
  BY <1>2, <1>3, <1>4, <1>5, <1>6 DEF Next

LEMMA PhasedInPhase ==
  ASSUME Between, Phased(prog, s, starts)
  PROVE  InPhase
<1> DEFINE n == Len(FlattenSeq(prog.files))
<1>1. prog \in Programs /\ Good(s) /\ Placing(prog.files, s.Cfn, s.Line_num, line)
  BY DEF Between
<1>2. prog.files \in Seq(Seq(DOMAIN Text)) /\ prog.files # <<>>
  BY <1>1, ProgramIs
<1>3. s.Pass \in {1, 2} /\ s.Line_num \in 0 .. n /\ s.Pc \in Nat /\ n \in Nat
  BY <1>1, <1>2, PlaceTyped, FlattenSeqs DEF Good, Typed
<1>4. \A l : SizedByValue(l) <=> Moving(prog.cpu, l)
  BY DEF SizedByValue, Moving
<1>5. Harmless = Mild(prog.cpu)
  BY DEF Harmless, Mild
<1>6. \A i \in 1 .. n : Lines[i] = LineAt(prog, i)
  <2>1. FlattenSeq(prog.files) \in Seq(DOMAIN Text)
    BY <1>2, FlattenSeqs
  <2>2. DOMAIN FlattenSeq(prog.files) = 1 .. n
    BY <2>1
  <2> QED
    BY <2>2 DEF Lines, LineAt
<1> SUFFICES ASSUME \A i \in s.ahead : ~ SizedByValue(Lines[i]), NEW i \in DOMAIN starts[2],
                    \A e \in s.errors : e[1] < i => e[2] \in Harmless
             PROVE  starts[2][i] = starts[1][i]
  BY DEF InPhase
<1>7. Steady(prog, s.ahead)
  BY <1>4, <1>6 DEF Steady
<1>8. s.Pass = 2
  <2>1. CASE s.Pass = 1
    <3>1. starts[2] = <<>>
      BY <2>1 DEF Phased
    <3>2. DOMAIN starts[2] = {}
      BY <3>1
    <3> QED
      BY <3>2
  <2> QED
    BY <1>3, <2>1
<1>9. Phase2(prog, s, starts[1], starts[2]) /\ starts[2] \in Seq(Nat)
  BY <1>8 DEF Phased
<1>10. PICK T : (\A k \in 1 .. n : starts[1][k] = T[k]) /\ Aligned(prog, s, T, Append(starts[2], s.Pc))
  BY <1>9 DEF Phase2
<1>11. Len(starts[2]) = s.Line_num
  BY <1>9 DEF Phase2
<1> DEFINE U == Append(starts[2], s.Pc)
<1>12. i \in 1 .. s.Line_num /\ i \in 1 .. s.Line_num + 1 /\ i \in 1 .. n
  BY <1>3, <1>9, <1>11
<1>13. U[i] = starts[2][i]
  BY <1>3, <1>9, <1>11, <1>12, Appends
<1> HIDE DEF U
<1>14. U[i] = T[i]
  BY <1>5, <1>7, <1>10, <1>12 DEF Aligned, U
<1> QED
  BY <1>10, <1>12, <1>13, <1>14

(* When no operand that moves the code is a forward reference, a line of   *)
(* pass 2 starts where it did in pass 1, up to an error that leaves bytes  *)
(* out: every operand takes as many bytes in both passes, because a mark   *)
(* makes the expression that was not known as wide as it was then.         *)
THEOREM LinesKeepTheirPlaces == Spec => []InPhase
<1>1. ASSUME Between, Phased(prog, s, starts)
      PROVE  InPhase
  BY <1>1, PhasedInPhase
<1> DEFINE Inv == Between /\ Phased(prog, s, starts)
<1>2. Init => Inv
  BY BeginsBetween, BeginsPhased
<1>3. Inv /\ [Next]_vars => Inv'
  BY StaysBetween, StaysPhased
<1>4. Inv => InPhase
  BY <1>1
<1> HIDE DEF Inv
<1> QED
  BY <1>2, <1>3, <1>4, PTL DEF Spec
=============================================================================
