---------------------------- MODULE ManagerChoices ----------------------------
(***************************************************************************)
(* The choices of the user are kept, for every value of the constants: a   *)
(* list that was saved, copied or renamed keeps its order, what is enabled *)
(* and the options, while the card fails no call and the power never goes. *)
(*                                                                         *)
(* A call is a run of file system calls, and the invariant speaks of the   *)
(* card at its end: what is there then, with what the interface has yet to *)
(* do, keeps every choice (Good).  A call that may end before, because the *)
(* card refuses one of its file system calls, leaves the profiles as they  *)
(* are (Early), and every other call of the interface can be made to its   *)
(* end.                                                                    *)
(***************************************************************************)
EXTENDS ManagerProofs

-----------------------------------------------------------------------------
(* A call as a whole.                                                      *)

\* The card after each file system call of a call, one that cannot be made left out,
Done(op, c) == IF op[1] = "fail" THEN c ELSE Do(op, c)
Run(ops, c) ==
  LET run[i \in 0..Len(ops)] == IF i = 0 THEN c ELSE Done(ops[i], run[i - 1])
  IN run
\* and after all.
After(ops, c) == Run(ops, c)[Len(ops)]
\* None of them after the first m fails by itself.
SureFrom(ops, c, m) == \A i \in 1..Len(ops) : i > m => CanDo(ops[i], Run(ops, c)[i - 1])

LEMMA RunIs ==
  ASSUME NEW ops, NEW c, Len(ops) \in Nat
  PROVE  /\ Run(ops, c)[0] = c
         /\ \A n \in 1..Len(ops) : Run(ops, c)[n] = Done(ops[n], Run(ops, c)[n - 1])
<1> DEFINE Runs(f, n) == f = [i \in 0..n |-> IF i = 0 THEN c ELSE Done(ops[i], f[i - 1])]
           T == {n \in Nat : \E f : Runs(f, n)}
<1>1. \E f : Runs(f, 0)
  <2>1. Runs([i \in 0..0 |-> c], 0)
    OBVIOUS
  <2> HIDE DEF Runs
  <2> QED
    BY <2>1
<1>2. ASSUME NEW n \in Nat, NEW f, Runs(f, n) PROVE \E g : Runs(g, n + 1)
  <2> DEFINE g == [i \in 0..(n + 1) |-> IF i = n + 1 THEN Done(ops[n + 1], f[n]) ELSE f[i]]
  <2>1. ASSUME NEW i \in 0..(n + 1) PROVE g[i] = IF i = 0 THEN c ELSE Done(ops[i], g[i - 1])
    <3>1. CASE i = n + 1
      <4>1. i - 1 \in 0..(n + 1) /\ i - 1 # n + 1 /\ i - 1 = n /\ i # 0
        BY <3>1
      <4>2. g[i] = Done(ops[n + 1], f[n]) /\ g[i - 1] = f[i - 1]
        BY <3>1, <4>1
      <4> QED
        BY <4>1, <4>2, <3>1
    <3>2. CASE i # n + 1
      <4>1. i \in 0..n
        BY <3>2
      <4>2. f[i] = IF i = 0 THEN c ELSE Done(ops[i], f[i - 1])
        BY <1>2, <4>1
      <4>3. g[i] = f[i] /\ (i # 0 => g[i - 1] = f[i - 1])
        BY <3>2
      <4> QED
        BY <4>2, <4>3
    <3> QED
      BY <3>1, <3>2
  <2>2. DOMAIN g = 0..(n + 1) /\ g = [i \in 0..(n + 1) |-> g[i]]
    OBVIOUS
  <2> HIDE DEF g
  <2>3. Runs(g, n + 1)
    BY <2>1, <2>2
  <2> HIDE DEF Runs
  <2> QED
    BY <2>3
<1> DEFINE F == CHOOSE f : Runs(f, Len(ops))
<1>3. Run(ops, c) = F
  BY DEF Run
<1> HIDE DEF Runs
<1>4. 0 \in T /\ \A n \in Nat : n \in T => n + 1 \in T
  BY <1>1, <1>2
<1> HIDE DEF T
<1>5. Len(ops) \in T
  BY <1>4, StepByStep
<1>6. Runs(F, Len(ops))
  BY <1>5 DEF T
<1> HIDE DEF F
<1>7. ASSUME NEW i \in 0..Len(ops) PROVE F[i] = IF i = 0 THEN c ELSE Done(ops[i], F[i - 1])
  BY <1>6 DEF Runs
<1>8. 0 \in 0..Len(ops) /\ \A n \in 1..Len(ops) : n \in 0..Len(ops) /\ n # 0
  OBVIOUS
<1>9. F[0] = c /\ \A n \in 1..Len(ops) : F[n] = Done(ops[n], F[n - 1])
  BY <1>7, <1>8
<1> QED
  BY <1>3, <1>9

\* And nothing else does.
LEMMA RunOnly ==
  ASSUME NEW ops, NEW c, Len(ops) \in Nat, NEW m \in 0..Len(ops), NEW f, f[0] = c,
         \A n \in 1..m : f[n] = Done(ops[n], f[n - 1])
  PROVE  \A n \in 0..m : Run(ops, c)[n] = f[n]
<1> DEFINE R == Run(ops, c)
           T == {n \in Nat : n <= m => R[n] = f[n]}
<1>1. R[0] = c /\ \A n \in 1..Len(ops) : R[n] = Done(ops[n], R[n - 1])
  BY RunIs
<1> HIDE DEF R
<1>2. 0 \in T
  BY <1>1
<1>3. ASSUME NEW n \in Nat, n \in T PROVE n + 1 \in T
  <2> SUFFICES ASSUME n + 1 <= m PROVE R[n + 1] = f[n + 1]
    OBVIOUS
  <2>1. R[n] = f[n] /\ n + 1 \in 1..Len(ops) /\ n + 1 \in 1..m /\ (n + 1) - 1 = n
    BY <1>3
  <2>2. R[n + 1] = Done(ops[n + 1], R[n]) /\ f[n + 1] = Done(ops[n + 1], f[n])
    BY <1>1, <2>1
  <2> QED
    BY <2>1, <2>2
<1> HIDE DEF T
<1>4. \A n \in Nat : n \in T
  BY <1>2, <1>3, StepByStep
<1>5. \A n \in 0..m : R[n] = f[n]
  BY <1>4 DEF T
<1> QED
  BY <1>5 DEF R

\* One call made, the others are left.
LEMMA RunTail ==
  ASSUME NEW S, NEW ops \in Seq(S), ops # <<>>, NEW c, NEW d, d = Done(Head(ops), c)
  PROVE  /\ Tail(ops) \in Seq(S) /\ Len(Tail(ops)) \in Nat /\ Len(ops) = Len(Tail(ops)) + 1 /\ Len(ops) \in Nat
         /\ \A i \in 1..Len(Tail(ops)) : Tail(ops)[i] = ops[i + 1]
         /\ \A n \in 0..Len(Tail(ops)) : Run(Tail(ops), d)[n] = Run(ops, c)[n + 1]
         /\ After(Tail(ops), d) = After(ops, c)
         /\ Run(ops, c)[1] = d
<1> DEFINE rest == Tail(ops)
           R == Run(ops, c)
           f == [n \in 0..Len(rest) |-> R[n + 1]]
<1>1. /\ rest \in Seq(S) /\ Len(rest) \in Nat /\ Len(ops) = Len(rest) + 1 /\ Len(ops) \in Nat
      /\ \A i \in 1..Len(rest) : rest[i] = ops[i + 1]
      /\ ops[1] = Head(ops)
  OBVIOUS
<1>2. R[0] = c /\ \A n \in 1..Len(ops) : R[n] = Done(ops[n], R[n - 1])
  BY <1>1, RunIs
<1> HIDE DEF R, rest
<1>3. R[1] = d
  <2>1. 1 \in 1..Len(ops) /\ 1 - 1 = 0
    BY <1>1
  <2> QED
    BY <1>1, <1>2, <2>1
<1>4. f[0] = d
  BY <1>1, <1>3
<1>5. ASSUME NEW n \in 1..Len(rest) PROVE f[n] = Done(rest[n], f[n - 1])
  <2>1. n + 1 \in 1..Len(ops) /\ (n + 1) - 1 = n /\ n - 1 \in 0..Len(rest) /\ (n - 1) + 1 = n /\ n \in 0..Len(rest)
    BY <1>1
  <2>2. R[n + 1] = Done(ops[n + 1], R[n])
    BY <1>2, <2>1
  <2>3. f[n] = R[n + 1] /\ f[n - 1] = R[n]
    BY <2>1
  <2> QED
    BY <1>1, <2>2, <2>3
<1>6. \A n \in 0..Len(rest) : f[n] = R[n + 1]
  OBVIOUS
<1> HIDE DEF f
<1>7. Len(rest) \in 0..Len(rest)
  BY <1>1
<1>8. \A n \in 0..Len(rest) : Run(rest, d)[n] = f[n]
  BY <1>1, <1>4, <1>5, <1>7, RunOnly
<1>9. \A n \in 0..Len(rest) : Run(rest, d)[n] = R[n + 1]
  BY <1>6, <1>8
<1>10. After(rest, d) = After(ops, c)
  BY <1>1, <1>7, <1>9 DEF After, R
<1> QED
  BY <1>1, <1>3, <1>9, <1>10 DEF rest, R

\* What is made one after the other.
LEMMA RunJoined ==
  ASSUME NEW S, NEW a \in Seq(S), NEW b \in Seq(S), NEW c, NEW d, d = After(a, c)
  PROVE  /\ a \o b \in Seq(S) /\ Len(a) \in Nat /\ Len(b) \in Nat /\ Len(a \o b) = Len(a) + Len(b)
         /\ \A n \in 0..Len(a) : Run(a \o b, c)[n] = Run(a, c)[n]
         /\ \A n \in 0..Len(b) : Run(a \o b, c)[Len(a) + n] = Run(b, d)[n]
         /\ After(a \o b, c) = After(b, d)
<1> DEFINE ab == a \o b
           A == Run(a, c)
           B == Run(b, d)
           f == [n \in 0..Len(ab) |-> IF n <= Len(a) THEN A[n] ELSE B[n - Len(a)]]
<1>1. /\ ab \in Seq(S) /\ Len(a) \in Nat /\ Len(b) \in Nat /\ Len(ab) = Len(a) + Len(b) /\ Len(ab) \in Nat
      /\ \A i \in 1..Len(a) : ab[i] = a[i]
      /\ \A i \in (Len(a) + 1)..Len(ab) : ab[i] = b[i - Len(a)]
  OBVIOUS
<1> HIDE DEF ab
<1>2. A[0] = c /\ \A n \in 1..Len(a) : A[n] = Done(a[n], A[n - 1])
  BY <1>1, RunIs
<1>3. B[0] = d /\ \A n \in 1..Len(b) : B[n] = Done(b[n], B[n - 1])
  BY <1>1, RunIs
<1>4. A[Len(a)] = d
  BY DEF After
<1> HIDE DEF A, B
<1>5. f[0] = c
  BY <1>1, <1>2
<1>6. ASSUME NEW n \in 1..Len(ab) PROVE f[n] = Done(ab[n], f[n - 1])
  <2>1. n \in 0..Len(ab) /\ n - 1 \in 0..Len(ab)
    BY <1>1
  <2>2. CASE n <= Len(a)
    <3>1. n \in 1..Len(a) /\ n - 1 <= Len(a)
      BY <1>1, <2>2
    <3>2. f[n] = A[n] /\ f[n - 1] = A[n - 1]
      BY <2>1, <2>2, <3>1
    <3> QED
      BY <1>1, <1>2, <3>1, <3>2
  <2>3. CASE n = Len(a) + 1
    <3>1. ~(n <= Len(a)) /\ n - 1 = Len(a) /\ n - Len(a) = 1 /\ 1 - 1 = 0 /\ 1 \in 1..Len(b) /\ n \in (Len(a) + 1)..Len(ab)
      BY <1>1, <2>3
    <3>2. f[n] = B[1] /\ f[n - 1] = A[Len(a)]
      BY <2>1, <3>1
    <3>3. B[1] = Done(b[1], B[0]) /\ ab[n] = b[1]
      BY <1>1, <1>3, <3>1
    <3> QED
      BY <1>3, <1>4, <3>2, <3>3
  <2>4. CASE n > Len(a) + 1
    <3> DEFINE k == n - Len(a)
    <3>1. ~(n <= Len(a)) /\ ~(n - 1 <= Len(a)) /\ k \in 1..Len(b) /\ k - 1 = (n - 1) - Len(a) /\ n \in (Len(a) + 1)..Len(ab)
      BY <1>1, <2>4
    <3>2. f[n] = B[k] /\ f[n - 1] = B[k - 1]
      BY <2>1, <3>1
    <3> QED
      BY <1>1, <1>3, <3>1, <3>2
  <2>5. n <= Len(a) \/ n = Len(a) + 1 \/ n > Len(a) + 1
    BY <1>1
  <2> QED
    BY <2>2, <2>3, <2>4, <2>5
<1>7. /\ \A n \in 0..Len(a) : f[n] = A[n]
      /\ \A n \in 0..Len(b) : f[Len(a) + n] = B[n]
  <2>1. ASSUME NEW n \in 0..Len(a) PROVE f[n] = A[n]
    BY <1>1
  <2>2. ASSUME NEW n \in 0..Len(b) PROVE f[Len(a) + n] = B[n]
    <3>1. CASE n = 0
      BY <1>1, <1>3, <1>4, <3>1
    <3>2. CASE n # 0
      <4>1. Len(a) + n \in 0..Len(ab) /\ ~(Len(a) + n <= Len(a)) /\ (Len(a) + n) - Len(a) = n
        BY <1>1, <3>2
      <4> QED
        BY <4>1
    <3> QED
      BY <3>1, <3>2
  <2> QED
    BY <2>1, <2>2
<1> HIDE DEF f
<1>8. Len(ab) \in 0..Len(ab) /\ Len(b) \in 0..Len(b)
  BY <1>1
<1>9. \A n \in 0..Len(ab) : Run(ab, c)[n] = f[n]
  <2>1. Len(ab) \in Nat
    BY <1>1
  <2> QED
    BY <2>1, <1>5, <1>6, <1>8, RunOnly
<1>10. /\ \A n \in 0..Len(a) : n \in 0..Len(ab)
       /\ \A n \in 0..Len(b) : Len(a) + n \in 0..Len(ab)
  BY <1>1
<1>11. /\ \A n \in 0..Len(a) : Run(ab, c)[n] = A[n]
       /\ \A n \in 0..Len(b) : Run(ab, c)[Len(a) + n] = B[n]
  BY <1>7, <1>9, <1>10
<1>12. After(ab, c) = After(b, d)
  BY <1>1, <1>8, <1>11 DEF After, B
<1> QED
  BY <1>1, <1>11, <1>12 DEF ab, A, B

LEMMA SureJoined ==
  ASSUME NEW S, NEW a \in Seq(S), NEW b \in Seq(S), NEW c, NEW d, d = After(a, c), SureFrom(b, d, 0)
  PROVE  /\ SureFrom(a \o b, c, Len(a))
         /\ SureFrom(a, c, 0) => SureFrom(a \o b, c, 0)
<1> DEFINE ab == a \o b
           R == Run(ab, c)
<1>1. /\ ab \in Seq(S) /\ Len(a) \in Nat /\ Len(b) \in Nat /\ Len(ab) = Len(a) + Len(b) /\ Len(ab) \in Nat
      /\ \A i \in 1..Len(a) : ab[i] = a[i]
      /\ \A i \in (Len(a) + 1)..Len(ab) : ab[i] = b[i - Len(a)]
  OBVIOUS
<1>2. /\ \A n \in 0..Len(a) : R[n] = Run(a, c)[n]
      /\ \A n \in 0..Len(b) : R[Len(a) + n] = Run(b, d)[n]
  BY RunJoined
<1> HIDE DEF ab, R
<1>3. ASSUME NEW i \in 1..Len(ab), i > Len(a) PROVE CanDo(ab[i], R[i - 1])
  <2> DEFINE k == i - Len(a)
  <2>1. k \in 1..Len(b) /\ k - 1 \in 0..Len(b) /\ Len(a) + (k - 1) = i - 1 /\ i \in (Len(a) + 1)..Len(ab) /\ k > 0
    BY <1>1, <1>3
  <2>2. ab[i] = b[k] /\ R[i - 1] = Run(b, d)[k - 1]
    BY <1>1, <1>2, <2>1
  <2> QED
    BY <2>1, <2>2 DEF SureFrom
<1>4. ASSUME SureFrom(a, c, 0), NEW i \in 1..Len(ab), ~(i > Len(a)) PROVE CanDo(ab[i], R[i - 1])
  <2>1. i \in 1..Len(a) /\ i - 1 \in 0..Len(a) /\ i > 0
    BY <1>1, <1>4
  <2>2. ab[i] = a[i] /\ R[i - 1] = Run(a, c)[i - 1]
    BY <1>1, <1>2, <2>1
  <2> QED
    BY <1>4, <2>1, <2>2 DEF SureFrom
<1> QED
  BY <1>3, <1>4 DEF SureFrom, ab, R

LEMMA RunOfOne ==
  ASSUME NEW op, NEW c
  PROVE  /\ After(<<op>>, c) = Done(op, c) /\ After(<<>>, c) = c
         /\ Run(<<op>>, c)[0] = c /\ Run(<<op>>, c)[1] = Done(op, c) /\ Run(<<>>, c)[0] = c
         /\ SureFrom(<<>>, c, 0) /\ (CanDo(op, c) => SureFrom(<<op>>, c, 0))
<1>1. Len(<<op>>) = 1 /\ Len(<<>>) = 0 /\ <<op>>[1] = op /\ 1 - 1 = 0 /\ 1 \in 1..1 /\ 1..0 = {} /\ \A i \in 1..1 : i = 1
  OBVIOUS
<1>2. Run(<<op>>, c)[0] = c /\ Run(<<op>>, c)[1] = Done(op, c)
  <2>1. Len(<<op>>) \in Nat
    OBVIOUS
  <2> QED
    BY <1>1, <2>1, RunIs
<1>3. Run(<<>>, c)[0] = c
  <2>1. Len(<<>>) \in Nat
    OBVIOUS
  <2> QED
    BY <2>1, RunIs
<1> QED
  BY <1>1, <1>2, <1>3 DEF After, SureFrom

-----------------------------------------------------------------------------
(* What is kept of a list.                                                 *)

LEMMA AmongSame ==
  ASSUME NEW seq, Len(seq) \in Nat, NEW S, NEW T, \A i \in 1..Len(seq) : seq[i] \in S <=> seq[i] \in T
  PROVE  Among(seq, S) = Among(seq, T)
<1>1. PICK f : /\ Among(seq, S) = f[Len(seq)] /\ f[0] = <<>>
               /\ \A n \in 1..Len(seq) : f[n] = (IF seq[n] \in S THEN Append(f[n - 1], seq[n]) ELSE f[n - 1])
  BY AmongIs
<1>2. PICK g : /\ Among(seq, T) = g[Len(seq)] /\ g[0] = <<>>
               /\ \A n \in 1..Len(seq) : g[n] = (IF seq[n] \in T THEN Append(g[n - 1], seq[n]) ELSE g[n - 1])
  BY AmongIs
<1> DEFINE E == {n \in Nat : n <= Len(seq) => f[n] = g[n]}
<1>3. 0 \in E
  BY <1>1, <1>2
<1>4. ASSUME NEW n \in Nat, n \in E PROVE n + 1 \in E
  <2> SUFFICES ASSUME n + 1 <= Len(seq) PROVE f[n + 1] = g[n + 1]
    OBVIOUS
  <2>1. f[n] = g[n] /\ n + 1 \in 1..Len(seq) /\ (n + 1) - 1 = n
    BY <1>4
  <2>2. f[n + 1] = (IF seq[n + 1] \in S THEN Append(f[n], seq[n + 1]) ELSE f[n])
    BY <1>1, <2>1
  <2>3. g[n + 1] = (IF seq[n + 1] \in T THEN Append(g[n], seq[n + 1]) ELSE g[n])
    BY <1>2, <2>1
  <2> QED
    BY <2>1, <2>2, <2>3
<1> HIDE DEF E
<1>5. Len(seq) \in E
  BY <1>3, <1>4, StepByStep
<1> QED
  BY <1>1, <1>2, <1>5 DEF E

LEMMA AmongAll ==
  ASSUME NEW X, NEW seq \in Seq(X), NEW S, \A i \in 1..Len(seq) : seq[i] \in S
  PROVE  Among(seq, S) = seq
<1>1. Len(seq) \in Nat
  OBVIOUS
<1>2. PICK f : /\ Among(seq, S) = f[Len(seq)] /\ f[0] = <<>>
               /\ \A n \in 1..Len(seq) : f[n] = (IF seq[n] \in S THEN Append(f[n - 1], seq[n]) ELSE f[n - 1])
  BY <1>1, AmongIs
<1> DEFINE E == {n \in Nat : n <= Len(seq) => f[n] = SubSeq(seq, 1, n)}
<1>3. 0 \in E
  <2>1. SubSeq(seq, 1, 0) = <<>>
    OBVIOUS
  <2> QED
    BY <1>2, <2>1
<1>4. ASSUME NEW n \in Nat, n \in E PROVE n + 1 \in E
  <2> SUFFICES ASSUME n + 1 <= Len(seq) PROVE f[n + 1] = SubSeq(seq, 1, n + 1)
    OBVIOUS
  <2>1. f[n] = SubSeq(seq, 1, n) /\ n + 1 \in 1..Len(seq) /\ (n + 1) - 1 = n
    BY <1>1, <1>4
  <2>2. f[n + 1] = Append(f[n], seq[n + 1])
    BY <1>2, <2>1
  <2>3. Append(SubSeq(seq, 1, n), seq[n + 1]) = SubSeq(seq, 1, n + 1)
    BY <2>1
  <2> QED
    BY <2>1, <2>2, <2>3
<1> HIDE DEF E
<1>5. Len(seq) \in E
  BY <1>1, <1>3, <1>4, StepByStep
<1>6. SubSeq(seq, 1, Len(seq)) = seq
  OBVIOUS
<1> QED
  BY <1>1, <1>2, <1>5, <1>6 DEF E

LEMMA AmongNone ==
  ASSUME NEW seq, Len(seq) \in Nat, NEW S, \A i \in 1..Len(seq) : seq[i] \notin S
  PROVE  Among(seq, S) = <<>>
<1>1. PICK f : /\ Among(seq, S) = f[Len(seq)] /\ f[0] = <<>>
               /\ \A n \in 1..Len(seq) : f[n] = (IF seq[n] \in S THEN Append(f[n - 1], seq[n]) ELSE f[n - 1])
  BY AmongIs
<1> DEFINE E == {n \in Nat : n <= Len(seq) => f[n] = <<>>}
<1>2. 0 \in E
  BY <1>1
<1>3. ASSUME NEW n \in Nat, n \in E PROVE n + 1 \in E
  <2> SUFFICES ASSUME n + 1 <= Len(seq) PROVE f[n + 1] = <<>>
    OBVIOUS
  <2>1. f[n] = <<>> /\ n + 1 \in 1..Len(seq) /\ (n + 1) - 1 = n
    BY <1>3
  <2> QED
    BY <1>1, <2>1
<1> HIDE DEF E
<1>4. Len(seq) \in E
  BY <1>2, <1>3, StepByStep
<1> QED
  BY <1>1, <1>4 DEF E

LEMMA AmongAppend ==
  ASSUME NEW X, NEW seq \in Seq(X), NEW x \in X, NEW S
  PROVE  Among(Append(seq, x), S) = IF x \in S THEN Append(Among(seq, S), x) ELSE Among(seq, S)
<1> DEFINE more == Append(seq, x)
<1>1. /\ Len(seq) \in Nat /\ Len(more) = Len(seq) + 1 /\ more[Len(seq) + 1] = x
      /\ \A i \in 1..Len(seq) : more[i] = seq[i]
  OBVIOUS
<1> HIDE DEF more
<1>2. PICK f : /\ Among(seq, S) = f[Len(seq)] /\ f[0] = <<>>
               /\ \A n \in 1..Len(seq) : f[n] = (IF seq[n] \in S THEN Append(f[n - 1], seq[n]) ELSE f[n - 1])
  BY <1>1, AmongIs
<1>3. PICK g : /\ Among(more, S) = g[Len(more)] /\ g[0] = <<>>
               /\ \A n \in 1..Len(more) : g[n] = (IF more[n] \in S THEN Append(g[n - 1], more[n]) ELSE g[n - 1])
  <2>1. Len(more) \in Nat
    BY <1>1
  <2> QED
    BY <2>1, AmongIs
<1> DEFINE E == {n \in Nat : n <= Len(seq) => f[n] = g[n]}
<1>4. 0 \in E
  BY <1>2, <1>3
<1>5. ASSUME NEW n \in Nat, n \in E PROVE n + 1 \in E
  <2> SUFFICES ASSUME n + 1 <= Len(seq) PROVE f[n + 1] = g[n + 1]
    OBVIOUS
  <2>1. f[n] = g[n] /\ n + 1 \in 1..Len(seq) /\ n + 1 \in 1..Len(more) /\ (n + 1) - 1 = n
    BY <1>1, <1>5
  <2>2. f[n + 1] = (IF seq[n + 1] \in S THEN Append(f[n], seq[n + 1]) ELSE f[n])
    BY <1>2, <2>1
  <2>3. g[n + 1] = (IF more[n + 1] \in S THEN Append(g[n], more[n + 1]) ELSE g[n])
    BY <1>3, <2>1
  <2> QED
    BY <1>1, <2>1, <2>2, <2>3
<1> HIDE DEF E
<1>6. Len(seq) \in E
  BY <1>1, <1>4, <1>5, StepByStep
<1>7. f[Len(seq)] = g[Len(seq)]
  BY <1>1, <1>6 DEF E
<1>8. Len(more) \in 1..Len(more) /\ Len(more) - 1 = Len(seq) /\ more[Len(more)] = x
  BY <1>1
<1>9. g[Len(more)] = (IF x \in S THEN Append(g[Len(seq)], x) ELSE g[Len(seq)])
  BY <1>3, <1>8
<1> QED
  BY <1>2, <1>3, <1>7, <1>9 DEF more

\* By the length of a beginning of a sequence.
LEMMA Beginnings ==
  ASSUME NEW X, NEW seq \in Seq(X)
  PROVE  /\ Len(seq) \in Nat /\ SubSeq(seq, 1, 0) = <<>> /\ SubSeq(seq, 1, Len(seq)) = seq
         /\ \A n \in 1..Len(seq) : /\ SubSeq(seq, 1, n - 1) \in Seq(X) /\ seq[n] \in X
                                   /\ SubSeq(seq, 1, n) = Append(SubSeq(seq, 1, n - 1), seq[n])
OBVIOUS

LEMMA AmongJoined ==
  ASSUME NEW X, NEW a \in Seq(X), NEW b \in Seq(X), NEW S
  PROVE  Among(a \o b, S) = Among(a, S) \o Among(b, S)
<1> DEFINE Cat(u, v) == u \o v
<1>1. ASSUME NEW u \in Seq(X), NEW v \in Seq(X), NEW y \in X
      PROVE  Append(Cat(u, v), y) = Cat(u, Append(v, y)) /\ Cat(u, v) \in Seq(X)
  <2>1. <<y>> \in Seq(X)
    OBVIOUS
  <2>2. (u \o v) \o <<y>> = u \o (v \o <<y>>)
    BY <2>1, ConcatAssociative
  <2>3. u \o v \in Seq(X)
    OBVIOUS
  <2>4. Append(u \o v, y) = (u \o v) \o <<y>> /\ Append(v, y) = v \o <<y>>
    BY <2>3, AppendIsConcat
  <2> QED
    BY <2>2, <2>3, <2>4
<1>2. ASSUME NEW u \in Seq(X) PROVE Cat(u, <<>>) = u
  OBVIOUS
<1> HIDE DEF Cat
<1> DEFINE part(n) == SubSeq(b, 1, n)
           E == {n \in Nat : n <= Len(b) => Among(Cat(a, part(n)), S) = Cat(Among(a, S), Among(part(n), S))}
<1>3. Len(b) \in Nat /\ part(0) = <<>> /\ part(Len(b)) = b
  BY Beginnings
<1>4. \A n \in 1..Len(b) : part(n - 1) \in Seq(X) /\ b[n] \in X /\ part(n) = Append(part(n - 1), b[n])
  BY Beginnings
<1> HIDE DEF part
<1>5. Among(a, S) \in Seq(X)
  BY AmongPlaces
<1>6. 0 \in E
  <2>1. Among(<<>>, S) = <<>>
    <3>1. Len(<<>>) \in Nat /\ \A i \in 1..Len(<<>>) : <<>>[i] \notin S
      OBVIOUS
    <3> QED
      BY <3>1, AmongNone
  <2> QED
    BY <1>2, <1>3, <1>5, <2>1
<1>7. ASSUME NEW n \in Nat, n \in E PROVE n + 1 \in E
  <2> SUFFICES ASSUME n + 1 <= Len(b)
               PROVE Among(Cat(a, part(n + 1)), S) = Cat(Among(a, S), Among(part(n + 1), S))
    OBVIOUS
  <2>1. /\ Among(Cat(a, part(n)), S) = Cat(Among(a, S), Among(part(n), S))
        /\ part(n) \in Seq(X) /\ b[n + 1] \in X /\ part(n + 1) = Append(part(n), b[n + 1])
    <3>1. n + 1 \in 1..Len(b) /\ (n + 1) - 1 = n
      BY <1>3
    <3> QED
      BY <1>3, <1>4, <1>7, <3>1
  <2>2. ASSUME NEW p \in Seq(X), NEW x \in X, NEW q, q = Append(p, x), Among(Cat(a, p), S) = Cat(Among(a, S), Among(p, S))
        PROVE  Among(Cat(a, q), S) = Cat(Among(a, S), Among(q, S))
    <3> DEFINE ap == Cat(a, p)
    <3>1. ap \in Seq(X) /\ Cat(a, q) = Append(ap, x)
      BY <1>1, <2>2, Zenon
    <3>2. Among(Append(ap, x), S) = IF x \in S THEN Append(Among(ap, S), x) ELSE Among(ap, S)
      <4> HIDE DEF ap
      <4> QED
        BY <3>1, AmongAppend
    <3>3. Among(q, S) = IF x \in S THEN Append(Among(p, S), x) ELSE Among(p, S)
      BY <2>2, AmongAppend
    <3>4. Among(p, S) \in Seq(X)
      BY AmongPlaces
    <3>5. Append(Cat(Among(a, S), Among(p, S)), x) = Cat(Among(a, S), Append(Among(p, S), x))
      BY <1>1, <1>5, <3>4, Zenon
    <3> QED
      BY <2>2, <3>1, <3>2, <3>3, <3>5
  <2> QED
    BY <2>1, <2>2
<1> HIDE DEF E
<1>8. Len(b) \in E
  BY <1>3, <1>6, <1>7, StepByStep
<1>9. Among(Cat(a, b), S) = Cat(Among(a, S), Among(b, S))
  BY <1>3, <1>8 DEF E
<1> QED
  BY <1>9 DEF Cat

LEMMA AmongTwice ==
  ASSUME NEW X, NEW seq \in Seq(X), NEW S, NEW T
  PROVE  Among(Among(seq, S), T) = Among(seq, S \cap T)
<1> DEFINE part(n) == SubSeq(seq, 1, n)
           E == {n \in Nat : n <= Len(seq) => Among(Among(part(n), S), T) = Among(part(n), S \cap T)}
<1>1. Len(seq) \in Nat /\ part(0) = <<>> /\ part(Len(seq)) = seq
  BY Beginnings
<1>2. \A n \in 1..Len(seq) : part(n - 1) \in Seq(X) /\ seq[n] \in X /\ part(n) = Append(part(n - 1), seq[n])
  BY Beginnings
<1> HIDE DEF part
<1>3. 0 \in E
  <2>1. \A U : Among(<<>>, U) = <<>>
    <3>1. Len(<<>>) \in Nat /\ \A U : \A i \in 1..Len(<<>>) : <<>>[i] \notin U
      OBVIOUS
    <3> QED
      BY <3>1, AmongNone
  <2> QED
    BY <1>1, <2>1
<1>4. ASSUME NEW n \in Nat, n \in E PROVE n + 1 \in E
  <2> SUFFICES ASSUME n + 1 <= Len(seq) PROVE Among(Among(part(n + 1), S), T) = Among(part(n + 1), S \cap T)
    OBVIOUS
  <2> DEFINE p == part(n)
             q == part(n + 1)
             x == seq[n + 1]
             U == S \cap T
  <2>1. Among(Among(p, S), T) = Among(p, U)
    BY <1>1, <1>4
  <2>2. p \in Seq(X) /\ x \in X /\ q = Append(p, x)
    <3>1. n + 1 \in 1..Len(seq) /\ (n + 1) - 1 = n
      BY <1>1
    <3> QED
      BY <1>2, <3>1
  <2>3. x \in U <=> x \in S /\ x \in T
    OBVIOUS
  <2> HIDE DEF p, q, x, U
  <2>4. Among(q, S) = IF x \in S THEN Append(Among(p, S), x) ELSE Among(p, S)
    BY <2>2, AmongAppend
  <2>5. Among(q, U) = IF x \in U THEN Append(Among(p, U), x) ELSE Among(p, U)
    BY <2>2, AmongAppend
  <2>6. Among(p, S) \in Seq(X)
    BY <2>2, AmongPlaces
  <2> DEFINE ps == Among(p, S)
  <2>7. Among(Append(ps, x), T) = IF x \in T THEN Append(Among(ps, T), x) ELSE Among(ps, T)
    <3> HIDE DEF ps
    <3>1. ps \in Seq(X)
      BY <2>6 DEF ps
    <3> QED
      BY <2>2, <3>1, AmongAppend
  <2>8. Among(Among(q, S), T) = Among(q, U)
    BY <2>1, <2>3, <2>4, <2>5, <2>7
  <2> QED
    BY <2>8 DEF q, U
<1> HIDE DEF E
<1>5. Len(seq) \in E
  BY <1>1, <1>3, <1>4, StepByStep
<1> QED
  BY <1>1, <1>5 DEF E

\* The entries of some folders, and of the others.
OfThem(folders) == {e \in Entry : e.folder \in folders}
OfOthers(folders) == {e \in Entry : e.folder \notin folders}

LEMMA PartsOfAList ==
  ASSUME NEW list \in Seq(Entry), NEW folders
  PROVE  /\ OfFolders(list, folders) = Among(list, OfThem(folders))
         /\ Without(list, folders) = Among(list, OfOthers(folders))
<1>1. Len(list) \in Nat /\ \A i \in 1..Len(list) : list[i] \in Entry /\ list[i] \in ToSet(list)
  BY DEF ToSet
<1>2. \A i \in 1..Len(list) : list[i] \in {e \in ToSet(list) : e.folder \in folders} <=> list[i] \in OfThem(folders)
  BY <1>1 DEF OfThem
<1>3. \A i \in 1..Len(list) : list[i] \in {e \in ToSet(list) : e.folder \notin folders} <=> list[i] \in OfOthers(folders)
  BY <1>1 DEF OfOthers
<1> QED
  BY <1>1, <1>2, <1>3, AmongSame DEF OfFolders, Without

\* A list keeps itself.
LEMMA KeepsItself ==
  ASSUME NEW list, IsModList(list)
  PROVE  Keeps(list, list)
<1>1. list \in Seq(Entry) /\ \A i \in 1..Len(list) : list[i] \in Entry
  BY DEF IsModList
<1>2. \A i \in 1..Len(list) : list[i] \in OfThem(FoldersIn(list))
  BY <1>1 DEF OfThem, FoldersIn
<1>3. Among(list, OfThem(FoldersIn(list))) = list
  BY <1>1, <1>2, AmongAll
<1> QED
  BY <1>1, <1>3, PartsOfAList DEF Keeps

\* What a list keeps has no folder the list has not.
LEMMA KeptIsThere ==
  ASSUME NEW list, IsModList(list), NEW kept, Keeps(list, kept)
  PROVE  IsModList(kept) /\ FoldersIn(kept) \subseteq FoldersIn(list)
<1>1. list \in Seq(Entry) /\ kept = Among(list, OfThem(FoldersIn(kept)))
  BY PartsOfAList DEF IsModList, Keeps
<1> DEFINE set == OfThem(FoldersIn(kept))
<1> HIDE DEF set
<1>2. kept = Among(list, set)
  BY <1>1 DEF set
<1>3. PICK h : Places(Among(list, set), list, set, h, Len(list))
  BY <1>1, AmongPlaces
<1>4. \A i \in 1..Len(kept) : kept[i] = list[h[i]] /\ h[i] \in 1..Len(list)
  BY <1>2, <1>3 DEF Places
<1>5. FoldersIn(kept) \subseteq FoldersIn(list)
  BY <1>4 DEF FoldersIn
<1>6. IsModList(kept)
  BY <1>2, PartOfModList
<1> QED
  BY <1>5, <1>6

\* Mods are added to a list.
LEMMA KeepsAdded ==
  ASSUME NEW list, IsModList(list), NEW kept, Keeps(list, kept), NEW new, IsModList(new),
         \A i \in 1..Len(new) : new[i].folder \notin FoldersIn(list)
  PROVE  Keeps(new \o list, kept)
<1> DEFINE set == OfThem(FoldersIn(kept))
           both == new \o list
<1>1. list \in Seq(Entry) /\ new \in Seq(Entry) /\ both \in Seq(Entry) /\ Len(new) \in Nat
  BY DEF IsModList
<1>2. Among(list, set) = kept
  BY <1>1, PartsOfAList DEF Keeps
<1>3. Among(new, set) = <<>>
  <2>1. \A i \in 1..Len(new) : new[i] \notin set
    BY KeptIsThere DEF OfThem
  <2> QED
    BY <1>1, <2>1, AmongNone
<1> HIDE DEF set
<1>4. Among(both, set) = Among(new, set) \o Among(list, set)
  BY <1>1, AmongJoined
<1>5. kept \in Seq(Entry)
  BY KeptIsThere DEF IsModList
<1>6. Among(both, set) = kept
  BY <1>2, <1>3, <1>4, <1>5
<1> HIDE DEF both
<1>7. OfFolders(both, FoldersIn(kept)) = kept
  BY <1>1, <1>6, PartsOfAList DEF set
<1> QED
  BY <1>7 DEF Keeps, both

\* A mod leaves what is to be kept.
LEMMA KeepsLess ==
  ASSUME NEW list, IsModList(list), NEW kept, Keeps(list, kept), NEW folder
  PROVE  Keeps(list, Without(kept, {folder})) /\ folder \notin FoldersIn(Without(kept, {folder}))
<1> DEFINE S == OfThem(FoldersIn(kept))
           U == OfOthers({folder})
           less == Without(kept, {folder})
           T == OfThem(FoldersIn(less))
<1>1. list \in Seq(Entry) /\ Among(list, S) = kept /\ IsModList(kept) /\ kept \in Seq(Entry)
  BY PartsOfAList, KeptIsThere DEF IsModList, Keeps
<1>2. less = Among(kept, U)
  BY <1>1, PartsOfAList
<1>3. /\ \A i \in 1..Len(less) : less[i].folder \notin {folder}
      /\ \A i \in 1..Len(kept) : kept[i].folder # folder => \E j \in 1..Len(less) : less[j] = kept[i]
      /\ \A j \in 1..Len(less) : \E i \in 1..Len(kept) : less[j] = kept[i]
  <2>1. \A i \in 1..Len(less) : less[i].folder \notin {folder}
    BY <1>1, OfAndWithout
  <2>2. PICK h : Places(Among(kept, U), kept, U, h, Len(kept))
    BY <1>1, AmongPlaces
  <2> HIDE DEF less
  <2>3. Places(less, kept, U, h, Len(kept))
    BY <1>2, <2>2
  <2>4. \A i \in 1..Len(kept) : kept[i].folder # folder => kept[i] \in U
    BY <1>1 DEF OfOthers
  <2> QED
    BY <2>1, <2>3, <2>4 DEF Places
<1>4. FoldersIn(less) = FoldersIn(kept) \ {folder}
  <2> HIDE DEF less
  <2>1. ASSUME NEW f \in FoldersIn(less) PROVE f \in FoldersIn(kept) /\ f # folder
    <3>1. PICK j \in 1..Len(less) : f = less[j].folder
      BY <2>1 DEF FoldersIn
    <3>2. PICK i \in 1..Len(kept) : less[j] = kept[i]
      BY <1>3
    <3> QED
      BY <1>3, <3>1, <3>2 DEF FoldersIn
  <2>2. ASSUME NEW f \in FoldersIn(kept), f # folder PROVE f \in FoldersIn(less)
    <3>1. PICK i \in 1..Len(kept) : f = kept[i].folder
      BY <2>2 DEF FoldersIn
    <3>2. PICK j \in 1..Len(less) : less[j] = kept[i]
      BY <1>3, <2>2, <3>1
    <3> QED
      BY <3>1, <3>2 DEF FoldersIn
  <2> QED
    BY <2>1, <2>2
<1>5. T = S \cap U
  BY <1>4 DEF OfThem, OfOthers
<1> HIDE DEF S, U, T, less
<1>6. Among(list, T) = less
  BY <1>1, <1>2, <1>5, AmongTwice
<1>7. OfFolders(list, FoldersIn(less)) = less
  BY <1>1, <1>6, PartsOfAList DEF T
<1> QED
  BY <1>4, <1>7 DEF Keeps, less

\* A mod that is not to be kept leaves a list.
LEMMA KeepsOthers ==
  ASSUME NEW list, IsModList(list), NEW kept, Keeps(list, kept), NEW folder, folder \notin FoldersIn(kept)
  PROVE  Keeps(Without(list, {folder}), kept)
<1> DEFINE S == OfThem(FoldersIn(kept))
           U == OfOthers({folder})
           less == Without(list, {folder})
<1>1. list \in Seq(Entry) /\ Among(list, S) = kept
  BY PartsOfAList DEF IsModList, Keeps
<1>2. less = Among(list, U) /\ IsModList(less) /\ less \in Seq(Entry)
  BY <1>1, PartsOfAList, OfAndWithout DEF IsModList
<1>3. U \cap S = S
  BY DEF OfThem, OfOthers
<1> HIDE DEF S, U, less
<1>4. Among(less, S) = kept
  BY <1>1, <1>2, <1>3, AmongTwice
<1>5. OfFolders(less, FoldersIn(kept)) = kept
  BY <1>2, <1>4, PartsOfAList DEF S
<1> QED
  BY <1>5 DEF Keeps, less

-----------------------------------------------------------------------------
(* What a call does to the profiles and to which one is active.            *)

IsCard(c) == c = [tree |-> c.tree, texts |-> c.texts]
SameProfile(c, d, name) ==
  /\ HasProfile(d, name) <=> HasProfile(c, name)
  /\ HasProfile(c, name) => LoadProfile(d, name) = LoadProfile(c, name)
Steady(c, d) == Active(d) = Active(c) /\ \A name : SameProfile(c, d, name)
Whole(c) == \A name : HasProfile(c, name) => IsModList(LoadProfile(c, name))

\* A path among the mods or the downloads, and a call to the file system that
\* has to do with no other.
Away(path) == IsASequence(path) /\ path # <<>> /\ path[1] \in {"mods", "downloads"}
Plain(op) ==
  \/ op[1] \in {"mkdir", "fail"}
  \/ op[1] \in {"rmtree", "write"} /\ Away(op[2])
  \/ op[1] = "rename" /\ Away(op[2]) /\ Away(op[3])

\* The text of a path is the same.
SameText(c, d, p) == (p \in DOMAIN d.texts <=> p \in DOMAIN c.texts) /\ (p \in DOMAIN c.texts => d.texts[p] = c.texts[p])
IsOurs(p) == p = ConfigFile \/ \E name : p = ProfileFile(name)

LEMMA SameTextsAreSteady ==
  ASSUME NEW c, NEW d, \A p : IsOurs(p) => SameText(c, d, p)
  PROVE  Steady(c, d)
<1>1. SameText(c, d, ConfigFile) /\ \A name : SameText(c, d, ProfileFile(name))
  BY DEF IsOurs
<1>2. Active(d) = Active(c)
  BY <1>1 DEF SameText, Active
<1>3. \A name : SameProfile(c, d, name)
  BY <1>1 DEF SameText, SameProfile, HasProfile, LoadProfile
<1> QED
  BY <1>2, <1>3 DEF Steady

LEMMA SteadyTwice ==
  ASSUME NEW c, NEW d, NEW e, Steady(c, d), Steady(d, e)
  PROVE  Steady(c, e)
BY DEF Steady, SameProfile

LEMMA AwayIsNotOurs ==
  ASSUME NEW path, Away(path), NEW p, IsOurs(p)
  PROVE  path # p /\ ~IsPrefix(path, p)
<1>1. /\ IsASequence(path) /\ path \in Seq(ToSet(path)) /\ Len(path) >= 1 /\ Len(path) \in Nat
      /\ path[1] \notin {"profiles", "config"}
  BY DEF Away, IsASequence
<1>2. /\ p[1] \in {"profiles", "config"} /\ p \in Seq(ToSet(p)) /\ Len(p) \in Nat
  <2>1. CASE p = ConfigFile
    <3>1. p \in Seq({"config"}) /\ p[1] = "config"
      BY <2>1 DEF ConfigFile
    <3> QED
      BY <3>1, SequenceOf DEF IsASequence
  <2>2. ASSUME NEW name, p = ProfileFile(name) PROVE p[1] = "profiles" /\ p \in Seq({"profiles", name, "ini"})
    BY <2>2 DEF ProfileFile
  <2>3. CASE \E name : p = ProfileFile(name)
    <3>1. PICK name : p = ProfileFile(name)
      BY <2>3
    <3>2. p[1] = "profiles" /\ p \in Seq({"profiles", name, "ini"})
      BY <2>2, <3>1
    <3> QED
      BY <3>2, SequenceOf DEF IsASequence
  <2> QED
    BY <2>1, <2>3 DEF IsOurs
<1>3. ASSUME IsPrefix(path, p) PROVE FALSE
  <2> DEFINE n == Len(path)
  <2>1. n <= Len(p) /\ SubSeq(path, 1, n) = SubSeq(p, 1, n)
    BY <1>3, <1>1, <1>2 DEF IsPrefix
  <2>2. SubSeq(path, 1, n)[1] = path[1] /\ SubSeq(p, 1, n)[1] = p[1]
    BY <1>1, <1>2, <2>1
  <2> QED
    BY <1>1, <1>2, <2>1, <2>2
<1> QED
  BY <1>1, <1>2, <1>3

LEMMA PlainIsSteady ==
  ASSUME NEW c, IsCard(c), NEW op, Plain(op), NEW d, d = Done(op, c)
  PROVE  IsCard(d) /\ Steady(c, d)
<1>1. c = [tree |-> c.tree, texts |-> c.texts]
  BY DEF IsCard
<1>2. CASE op[1] = "fail"
  BY <1>2 DEF Done, IsCard, Steady, SameProfile
<1>3. CASE op[1] = "mkdir"
  <2>1. d = [c EXCEPT !.tree = MadeDir(c.tree, op[2])]
    BY <1>3 DEF Done, Do
  <2>2. IsCard(d) /\ d.texts = c.texts
    BY <1>1, <2>1 DEF IsCard
  <2> QED
    BY <2>2, SameTextsAreSteady DEF SameText
<1>4. CASE op[1] = "rmtree" /\ Away(op[2])
  <2>1. d = [tree |-> Less(c.tree, op[2]), texts |-> Less(c.texts, op[2])]
    BY <1>4 DEF Done, Do
  <2>2. IsCard(d) /\ d.texts = Less(c.texts, op[2])
    BY <2>1 DEF IsCard
  <2>3. ASSUME NEW p, IsOurs(p) PROVE SameText(c, d, p)
    <3>1. ~IsPrefix(op[2], p)
      BY <1>4, <2>3, AwayIsNotOurs
    <3> QED
      BY <2>2, <3>1 DEF Less, SameText
  <2> QED
    BY <2>2, <2>3, SameTextsAreSteady
<1>5. CASE op[1] = "write" /\ Away(op[2])
  <2>1. d = [c EXCEPT !.texts = With(c.texts, op[2], op[3])]
    BY <1>5 DEF Done, Do
  <2>2. IsCard(d) /\ d.texts = With(c.texts, op[2], op[3])
    BY <1>1, <2>1 DEF IsCard
  <2>3. ASSUME NEW p, IsOurs(p) PROVE SameText(c, d, p)
    <3>1. op[2] # p
      BY <1>5, <2>3, AwayIsNotOurs
    <3> QED
      BY <2>2, <3>1 DEF With, SameText
  <2> QED
    BY <2>2, <2>3, SameTextsAreSteady
<1>6. CASE op[1] = "rename" /\ Away(op[2]) /\ Away(op[3])
  <2>1. CASE op[2] \notin DOMAIN c.texts
    <3>1. d = [c EXCEPT !.tree = Moved(c.tree, op[2], op[3])]
      BY <1>6, <2>1 DEF Done, Do
    <3>2. IsCard(d) /\ d.texts = c.texts
      BY <1>1, <3>1 DEF IsCard
    <3> QED
      BY <3>2, SameTextsAreSteady DEF SameText
  <2>2. CASE op[2] \in DOMAIN c.texts
    <3>1. d = [c EXCEPT !.texts = Renamed(c.texts, op[2], op[3])]
      BY <1>6, <2>2 DEF Done, Do
    <3>2. IsCard(d) /\ d.texts = Renamed(c.texts, op[2], op[3])
      BY <1>1, <3>1 DEF IsCard
    <3>3. ASSUME NEW p, IsOurs(p) PROVE SameText(c, d, p)
      <4>1. op[2] # p /\ op[3] # p
        BY <1>6, <3>3, AwayIsNotOurs
      <4> QED
        BY <3>2, <4>1 DEF Renamed, With, Unlinked, SameText
    <3> QED
      BY <3>2, <3>3, SameTextsAreSteady
  <2> QED
    BY <2>1, <2>2
<1> QED
  BY <1>2, <1>3, <1>4, <1>5, <1>6 DEF Plain

PlainOps(ops) == IsASequence(ops) /\ \A i \in 1..Len(ops) : Plain(ops[i])

LEMMA PlainRun ==
  ASSUME NEW c, IsCard(c), NEW ops, PlainOps(ops)
  PROVE  /\ \A n \in 0..Len(ops) : IsCard(Run(ops, c)[n]) /\ Steady(c, Run(ops, c)[n])
         /\ IsCard(After(ops, c)) /\ Steady(c, After(ops, c))
<1> DEFINE R == Run(ops, c)
           T == {n \in Nat : n <= Len(ops) => IsCard(R[n]) /\ Steady(c, R[n])}
<1>1. Len(ops) \in Nat /\ \A i \in 1..Len(ops) : Plain(ops[i])
  BY DEF PlainOps, IsASequence
<1>2. R[0] = c /\ \A n \in 1..Len(ops) : R[n] = Done(ops[n], R[n - 1])
  BY <1>1, RunIs
<1> HIDE DEF R
<1>3. 0 \in T
  <2>1. Steady(c, c)
    BY DEF Steady, SameProfile
  <2> QED
    BY <1>2, <2>1
<1>4. ASSUME NEW n \in Nat, n \in T PROVE n + 1 \in T
  <2> SUFFICES ASSUME n + 1 <= Len(ops) PROVE IsCard(R[n + 1]) /\ Steady(c, R[n + 1])
    OBVIOUS
  <2> DEFINE d == R[n]
             e == R[n + 1]
             op == ops[n + 1]
  <2>1. n + 1 \in 1..Len(ops) /\ (n + 1) - 1 = n /\ n <= Len(ops)
    BY <1>1
  <2>2. e = Done(op, d) /\ Plain(op) /\ IsCard(d) /\ Steady(c, d)
    BY <1>1, <1>2, <1>4, <2>1
  <2> HIDE DEF d, e, op
  <2>3. IsCard(e) /\ Steady(c, e)
    BY <2>2, PlainIsSteady, SteadyTwice
  <2> QED
    BY <2>3 DEF e
<1> HIDE DEF T
<1>5. \A n \in Nat : n \in T
  BY <1>3, <1>4, StepByStep
<1>6. \A n \in 0..Len(ops) : IsCard(R[n]) /\ Steady(c, R[n])
  BY <1>1, <1>5 DEF T
<1> QED
  BY <1>1, <1>6 DEF R, After

LEMMA SameItems ==
  ASSUME NEW S, NEW s \in Seq(S), NEW t \in Seq(S), Len(s) = Len(t), \A i \in 1..Len(s) : s[i] = t[i]
  PROVE  s = t
<1>1. s = [i \in 1..Len(s) |-> s[i]] /\ t = [i \in 1..Len(t) |-> t[i]]
  OBVIOUS
<1> QED
  BY <1>1
LEMMA Joining == \A x, y, z : <<x>> \o <<y>> = <<x, y>> /\ <<x>> \o (<<y>> \o <<z>>) = <<x, y, z>>
<1>1. ASSUME NEW x, NEW y PROVE <<x>> \o <<y>> = <<x, y>>
  <2> DEFINE S == {x, y}
             s == <<x>> \o <<y>>
             t == <<x, y>>
  <2>1. x \in S /\ y \in S
    OBVIOUS
  <2> HIDE DEF S
  <2>2. s \in Seq(S) /\ t \in Seq(S) /\ Len(s) = 2 /\ Len(t) = 2 /\ s[1] = x /\ s[2] = y /\ t[1] = x /\ t[2] = y
    BY <2>1
  <2> HIDE DEF s, t
  <2>3. \A i \in 1..Len(s) : s[i] = t[i]
    BY <2>2
  <2> QED
    BY <2>2, <2>3, SameItems DEF s, t
<1>2. ASSUME NEW x, NEW y, NEW z PROVE <<x>> \o <<y, z>> = <<x, y, z>>
  <2> DEFINE S == {x, y, z}
             s == <<x>> \o <<y, z>>
             t == <<x, y, z>>
  <2>1. x \in S /\ y \in S /\ z \in S
    OBVIOUS
  <2> HIDE DEF S
  <2>2. /\ s \in Seq(S) /\ t \in Seq(S) /\ Len(s) = 3 /\ Len(t) = 3
        /\ s[1] = x /\ s[2] = y /\ s[3] = z /\ t[1] = x /\ t[2] = y /\ t[3] = z
    BY <2>1
  <2> HIDE DEF s, t
  <2>3. \A i \in 1..Len(s) : s[i] = t[i]
    BY <2>2
  <2> QED
    BY <2>2, <2>3, SameItems DEF s, t
<1> QED
  BY <1>1, <1>2

\* Two calls to the file system that can be made, and three.
LEMMA TwoCalls ==
  ASSUME NEW a, NEW b, NEW c, NEW d, NEW e, CanDo(a, c), d = Do(a, c), CanDo(b, d), e = Do(b, d)
  PROVE  SureFrom(<<a, b>>, c, 0) /\ After(<<a, b>>, c) = e
<1> DEFINE ops == <<a, b>>
           R == Run(ops, c)
<1>1. Len(ops) = 2 /\ Len(ops) \in Nat /\ ops[1] = a /\ ops[2] = b
  OBVIOUS
<1>2. R[0] = c /\ R[1] = Done(ops[1], R[0]) /\ R[2] = Done(ops[2], R[1])
  <2>1. 1 \in 1..Len(ops) /\ 2 \in 1..Len(ops) /\ 1 - 1 = 0 /\ 2 - 1 = 1
    BY <1>1
  <2> HIDE DEF ops
  <2>2. Len(ops) \in Nat
    BY <1>1
  <2>3. R[0] = c /\ \A n \in 1..Len(ops) : R[n] = Done(ops[n], R[n - 1])
    BY <2>2, RunIs
  <2> HIDE DEF R
  <2> QED
    BY <2>1, <2>3
<1>3. Done(a, c) = d /\ Done(b, d) = e
  BY DEF Done, CanDo
<1>4. R[1] = d /\ R[2] = e
  BY <1>1, <1>2, <1>3
<1>5. \A i \in 1..2 : (i = 1 /\ i - 1 = 0) \/ (i = 2 /\ i - 1 = 1)
  OBVIOUS
<1> HIDE DEF ops, R
<1>6. After(ops, c) = e
  BY <1>1, <1>4 DEF After, R
<1>7. SureFrom(ops, c, 0)
  BY <1>1, <1>2, <1>4, <1>5 DEF SureFrom, R
<1> QED
  BY <1>6, <1>7 DEF ops

LEMMA ThreeCalls ==
  ASSUME NEW a, NEW b, NEW g, NEW c, NEW d, NEW e, NEW f,
         CanDo(a, c), d = Do(a, c), CanDo(b, d), e = Do(b, d), CanDo(g, e), f = Do(g, e)
  PROVE  SureFrom(<<a, b, g>>, c, 0) /\ After(<<a, b, g>>, c) = f
<1> DEFINE ops == <<a, b, g>>
           R == Run(ops, c)
<1>1. Len(ops) = 3 /\ Len(ops) \in Nat /\ ops[1] = a /\ ops[2] = b /\ ops[3] = g
  OBVIOUS
<1>2. R[0] = c /\ R[1] = Done(ops[1], R[0]) /\ R[2] = Done(ops[2], R[1]) /\ R[3] = Done(ops[3], R[2])
  <2>1. 1 \in 1..Len(ops) /\ 2 \in 1..Len(ops) /\ 3 \in 1..Len(ops) /\ 1 - 1 = 0 /\ 2 - 1 = 1 /\ 3 - 1 = 2
    BY <1>1
  <2> HIDE DEF ops
  <2>2. Len(ops) \in Nat
    BY <1>1
  <2>3. R[0] = c /\ \A n \in 1..Len(ops) : R[n] = Done(ops[n], R[n - 1])
    BY <2>2, RunIs
  <2> HIDE DEF R
  <2> QED
    BY <2>1, <2>3
<1>3. Done(a, c) = d /\ Done(b, d) = e /\ Done(g, e) = f
  BY DEF Done, CanDo
<1>4. R[1] = d /\ R[2] = e /\ R[3] = f
  BY <1>1, <1>2, <1>3
<1>5. \A i \in 1..3 : (i = 1 /\ i - 1 = 0) \/ (i = 2 /\ i - 1 = 1) \/ (i = 3 /\ i - 1 = 2)
  OBVIOUS
<1> HIDE DEF ops, R
<1>6. After(ops, c) = f
  BY <1>1, <1>4 DEF After, R
<1>7. SureFrom(ops, c, 0)
  BY <1>1, <1>2, <1>4, <1>5 DEF SureFrom, R
<1> QED
  BY <1>6, <1>7 DEF ops

\* What the texts of a card are after one call.
LEMMA TextsAfter ==
  ASSUME NEW c, IsCard(c), NEW texts, NEW d, d = [c EXCEPT !.texts = texts]
  PROVE  IsCard(d) /\ d.tree = c.tree /\ d.texts = texts
BY DEF IsCard

\* A profile that is saved, on a card that may have changed since the call was made up.
LEMMA SavingDoes ==
  ASSUME NEW c, NEW d, IsCard(d), NEW name, HasProfile(d, name) <=> HasProfile(c, name),
         NEW list, IsModList(list), NEW ops, ops = SaveProfile(c, name, list), NEW e, e = After(ops, d)
  PROVE  /\ IsCard(e) /\ SavedOnly(d, e, name) /\ Lists(e, name, list)
         /\ IsASequence(ops) /\ SureFrom(ops, d, 0)
<1> DEFINE temporary == Temporary(name)
           file == ProfileFile(name)
           W == Writes(temporary, ToIni(list))
           U == <<"unlink", file>>
           R == <<"rename", temporary, file>>
           S == {W, U, R}
           text == ToIni(list)
<1>1. ParseProfile(text) = list
  BY ProfilesReadAsWritten
<1>2. temporary # file
  BY FilesApart
<1>3. /\ W[1] = "write" /\ W[2] = temporary /\ W[3] = text
      /\ U[1] = "unlink" /\ U[2] = file
      /\ R[1] = "rename" /\ R[2] = temporary /\ R[3] = file
  BY DEF Writes
<1>4. ops = <<W>> \o (IF HasProfile(c, name) THEN <<U>> ELSE <<>>) \o <<R>>
  BY DEF SaveProfile
<1>5. HasProfile(d, name) <=> file \in DOMAIN d.texts
  BY DEF HasProfile
<1> HIDE DEF W, U, R, temporary, file, text
<1>6. W \in S /\ U \in S /\ R \in S
  OBVIOUS
<1> HIDE DEF S
<1>7. /\ <<R>> \in Seq(S) /\ <<U>> \o <<R>> \in Seq(S)
      /\ (<<W>> \o <<U>>) \o <<R>> = <<W>> \o (<<U>> \o <<R>>) /\ (<<W>> \o <<>>) \o <<R>> = <<W>> \o <<R>>
      /\ <<W>> \o (<<U>> \o <<R>>) \in Seq(S) /\ <<W>> \o <<R>> \in Seq(S)
  BY <1>6
<1>0. PICK d1 : d1 = Do(W, d)
  OBVIOUS
<1>8. CanDo(W, d) /\ IsCard(d1) /\ d1.tree = d.tree /\ d1.texts = With(d.texts, temporary, text)
  <2>1. d1 = [d EXCEPT !.texts = With(d.texts, temporary, text)] /\ CanDo(W, d)
    BY <1>0, <1>3 DEF Do, CanDo
  <2> QED
    BY <2>1, TextsAfter
<1>9. /\ temporary \in DOMAIN d1.texts /\ d1.texts[temporary] = text
      /\ \A p : p # temporary
           => (p \in DOMAIN d1.texts <=> p \in DOMAIN d.texts) /\ (p \in DOMAIN d.texts => d1.texts[p] = d.texts[p])
  BY <1>8 DEF With
\* The last call, on a card with the temporary file and no profile.
<1>10. ASSUME NEW b, IsCard(b), b.tree = d.tree,
              temporary \in DOMAIN b.texts, b.texts[temporary] = text, file \notin DOMAIN b.texts,
              \A p : p \notin {temporary, file}
                => (p \in DOMAIN b.texts <=> p \in DOMAIN d.texts) /\ (p \in DOMAIN d.texts => b.texts[p] = d.texts[p]),
              NEW f, f = Do(R, b)
       PROVE  IsCard(f) /\ SavedOnly(d, f, name) /\ Lists(f, name, list) /\ CanDo(R, b)
  <2>1. CanDo(R, b)
    BY <1>3, <1>10 DEF CanDo
  <2>3. f = [b EXCEPT !.texts = Renamed(b.texts, temporary, file)]
    BY <1>3, <1>10 DEF Do
  <2>4. IsCard(f) /\ f.tree = b.tree /\ f.texts = Renamed(b.texts, temporary, file)
    BY <1>10, <2>3, TextsAfter
  <2>5. file \in DOMAIN f.texts /\ f.texts[file] = text
    BY <1>10, <2>4 DEF Renamed, With
  <2>6. \A p : p \notin {temporary, file}
          => (p \in DOMAIN f.texts <=> p \in DOMAIN b.texts) /\ (p \in DOMAIN b.texts => f.texts[p] = b.texts[p])
    BY <2>4 DEF Renamed, With, Unlinked
  <2>7. SavedOnly(d, f, name)
    BY <1>10, <2>4, <2>6 DEF SavedOnly, temporary, file
  <2>8. Lists(f, name, list)
    BY <1>1, <2>5 DEF Lists, HasProfile, LoadProfile, file
  <2> QED
    BY <2>1, <2>4, <2>7, <2>8
<1>11. CASE ~HasProfile(c, name)
  <2>1. ops = <<W>> \o <<R>>
    BY <1>4, <1>7, <1>11
  <2>2. file \notin DOMAIN d1.texts
    BY <1>2, <1>5, <1>9, <1>11
  <2>22. PICK f : f = Do(R, d1)
    OBVIOUS
  <2>3. IsCard(f) /\ SavedOnly(d, f, name) /\ Lists(f, name, list) /\ CanDo(R, d1)
    BY <1>8, <1>9, <1>10, <2>2, <2>22
  <2>44. ops = <<W, R>>
    BY <2>1, Joining
  <2>4. SureFrom(ops, d, 0) /\ e = f
    BY <1>0, <1>8, <2>22, <2>3, <2>44, TwoCalls
  <2>5. IsASequence(ops)
    BY <1>7, <2>1, SequenceOf
  <2> QED
    BY <2>3, <2>4, <2>5
<1>12. CASE HasProfile(c, name)
  <2>1. ops = <<W>> \o (<<U>> \o <<R>>)
    BY <1>4, <1>7, <1>12
  <2>2. file \in DOMAIN d1.texts
    BY <1>2, <1>5, <1>9, <1>12
  <2>22. PICK d2 : d2 = Do(U, d1)
    OBVIOUS
  <2>3. CanDo(U, d1) /\ IsCard(d2) /\ d2.tree = d1.tree /\ d2.texts = Unlinked(d1.texts, file)
    <3>1. d2 = [d1 EXCEPT !.texts = Unlinked(d1.texts, file)] /\ CanDo(U, d1)
      BY <1>3, <2>22, <2>2 DEF Do, CanDo
    <3> QED
      BY <1>8, <3>1, TextsAfter
  <2>4. /\ temporary \in DOMAIN d2.texts /\ d2.texts[temporary] = text /\ file \notin DOMAIN d2.texts
        /\ \A p : p \notin {temporary, file}
             => (p \in DOMAIN d2.texts <=> p \in DOMAIN d.texts) /\ (p \in DOMAIN d.texts => d2.texts[p] = d.texts[p])
    BY <1>2, <1>9, <2>3 DEF Unlinked
  <2>23. PICK f : f = Do(R, d2)
    OBVIOUS
  <2>5. IsCard(f) /\ SavedOnly(d, f, name) /\ Lists(f, name, list) /\ CanDo(R, d2)
    BY <1>8, <1>10, <2>3, <2>4, <2>23
  <2>7. ops = <<W, U, R>>
    BY <2>1, Joining
  <2>8. SureFrom(ops, d, 0) /\ e = f
    BY <1>0, <1>8, <2>22, <2>23, <2>3, <2>5, <2>7, ThreeCalls
  <2>9. IsASequence(ops)
    BY <1>7, <2>1, SequenceOf
  <2> QED
    BY <2>5, <2>8, <2>9
<1> QED
  BY <1>11, <1>12

\* The other profiles stay as they are.
LEMMA OthersStay ==
  ASSUME NEW c, NEW d, NEW name, SavedOnly(c, d, name)
  PROVE  Active(d) = Active(c) /\ \A other : other # name => SameProfile(c, d, other)
<1>1. \A other : other # name => ProfileFile(other) \notin {Temporary(name), ProfileFile(name)}
  <2>1. ASSUME NEW other, ProfileFile(other) = ProfileFile(name) PROVE other = name
    <3>1. ProfileFile(other)[2] = other /\ ProfileFile(name)[2] = name
      BY DEF ProfileFile
    <3> QED
      BY <2>1, <3>1
  <2>2. ASSUME NEW other, ProfileFile(other) = Temporary(name) PROVE FALSE
    <3>1. ProfileFile(other)[3] = "ini" /\ Temporary(name)[3] = "tmp"
      BY DEF ProfileFile, Temporary
    <3> QED
      BY <2>2, <3>1
  <2> QED
    BY <2>1, <2>2
<1>2. \A other : other # name => SameProfile(c, d, other)
  BY <1>1 DEF SavedOnly, SameProfile, HasProfile, LoadProfile
<1> QED
  BY <1>2, SavedOnlyKeeps

\* The active profile is set.
LEMMA ActivatingDoes ==
  ASSUME NEW c, CardIsWhole(c), NEW d, IsCard(d), NEW name, NEW ops, ops = ActivateProfile(c, name), NEW e, e = After(ops, d)
  PROVE  /\ IsCard(e) /\ Active(e) = name /\ \A p : SameProfile(d, e, p)
         /\ IsASequence(ops) /\ SureFrom(ops, d, 0)
<1> DEFINE old == IF ConfigFile \in DOMAIN c.texts THEN c.texts[ConfigFile] ELSE <<>>
           new == SetValue(old, "profile", name)
           op == <<"write", ConfigFile, new>>
<1>1. ops = <<op>>
  BY DEF ActivateProfile, SetConfig, Writes
<1>2. IsSetOnce(old, "profile")
  BY NothingSet DEF CardIsWhole
<1>3. ActiveProfile(new) = name
  BY <1>2, ActivatingActivates
<1> HIDE DEF old, new
<1>4. op[1] = "write" /\ op[2] = ConfigFile /\ op[3] = new
  OBVIOUS
<1> HIDE DEF op
<1>5. IsASequence(ops)
  <2>1. <<op>> \in Seq({op})
    OBVIOUS
  <2> QED
    BY <1>1, <2>1, SequenceOf
<1>6. CanDo(op, d) /\ Done(op, d) = [d EXCEPT !.texts = With(d.texts, ConfigFile, new)]
  BY <1>4 DEF CanDo, Done, Do
<1>7. e = [d EXCEPT !.texts = With(d.texts, ConfigFile, new)] /\ SureFrom(ops, d, 0)
  BY <1>1, <1>6, RunOfOne
<1>8. IsCard(e) /\ e.texts = With(d.texts, ConfigFile, new)
  BY <1>7, TextsAfter
<1>9. Active(e) = name
  BY <1>3, <1>8 DEF Active, With
<1>10. \A p : SameProfile(d, e, p)
  BY <1>8, FilesApart DEF With, SameProfile, HasProfile, LoadProfile
<1> QED
  BY <1>5, <1>7, <1>8, <1>9, <1>10

\* A profile is deleted.
LEMMA DeletingDoes ==
  ASSUME NEW c, NEW d, IsCard(d), NEW name, HasProfile(d, name), NEW ops, ops = DeleteProfile(c, name), NEW e, e = After(ops, d)
  PROVE  /\ IsCard(e) /\ Active(e) = Active(d) /\ ~HasProfile(e, name) /\ \A p : p # name => SameProfile(d, e, p)
         /\ IsASequence(ops) /\ SureFrom(ops, d, 0)
<1> DEFINE op == <<"unlink", ProfileFile(name)>>
<1>1. ops = <<op>> /\ op[1] = "unlink" /\ op[2] = ProfileFile(name)
  BY DEF DeleteProfile
<1> HIDE DEF op
<1>2. IsASequence(ops)
  <2>1. <<op>> \in Seq({op})
    OBVIOUS
  <2> QED
    BY <1>1, <2>1, SequenceOf
<1>3. CanDo(op, d) /\ Done(op, d) = [d EXCEPT !.texts = Unlinked(d.texts, ProfileFile(name))]
  BY <1>1 DEF CanDo, Done, Do, HasProfile
<1>4. e = [d EXCEPT !.texts = Unlinked(d.texts, ProfileFile(name))] /\ SureFrom(ops, d, 0)
  BY <1>1, <1>3, RunOfOne
<1>5. IsCard(e) /\ e.texts = Unlinked(d.texts, ProfileFile(name))
  BY <1>4, TextsAfter
<1>6. Active(e) = Active(d)
  BY <1>5, FilesApart DEF Active, Unlinked
<1>7. \A p : p # name => ProfileFile(p) # ProfileFile(name)
  <2>1. \A p : ProfileFile(p)[2] = p
    BY DEF ProfileFile
  <2> QED
    BY <2>1
<1>8. ~HasProfile(e, name) /\ \A p : p # name => SameProfile(d, e, p)
  BY <1>5, <1>7 DEF Unlinked, SameProfile, HasProfile, LoadProfile
<1> QED
  BY <1>2, <1>4, <1>5, <1>6, <1>8

-----------------------------------------------------------------------------
(* Calls that leave the profiles alone.                                    *)

LEMMA AwayMore ==
  ASSUME NEW path, Away(path), NEW name
  PROVE  Away(path \o <<name>>)
<1> DEFINE S == ToSet(path) \cup {name}
           more == path \o <<name>>
<1>1. path \in Seq(S) /\ path # <<>> /\ path[1] \in {"mods", "downloads"}
  BY DEF Away, IsASequence
<1>2. name \in S
  OBVIOUS
<1> HIDE DEF S
<1>3. more \in Seq(S) /\ more # <<>> /\ more[1] = path[1]
  BY <1>1, <1>2
<1> HIDE DEF more
<1>4. Away(more)
  BY <1>1, <1>3, SequenceOf DEF Away
<1> QED
  BY <1>4 DEF more

LEMMA AwayPaths ==
  ASSUME NEW folder
  PROVE  Away(ModPath(folder)) /\ Away(IniOf(folder)) /\ Away(ModsDir) /\ Away(DownloadDir)
<1>1. ModPath(folder) \in Seq({"mods", folder}) /\ ModPath(folder) # <<>> /\ ModPath(folder)[1] = "mods"
  BY DEF ModPath
<1>2. IniOf(folder) \in Seq({"mods", folder, "mod.ini"}) /\ IniOf(folder) # <<>> /\ IniOf(folder)[1] = "mods"
  BY DEF IniOf
<1>3. ModsDir \in Seq({"mods"}) /\ ModsDir # <<>> /\ ModsDir[1] = "mods"
  BY DEF ModsDir
<1>4. DownloadDir \in Seq({"downloads"}) /\ DownloadDir # <<>> /\ DownloadDir[1] = "downloads"
  BY DEF DownloadDir
<1> QED
  BY <1>1, <1>2, <1>3, <1>4, SequenceOf DEF Away

LEMMA NoPlainOps == PlainOps(<<>>)
<1>1. IsASequence(<<>>) /\ Len(<<>>) = 0
  BY DEF IsASequence
<1> QED
  BY <1>1 DEF PlainOps

LEMMA PlainOne ==
  ASSUME NEW op, Plain(op)
  PROVE  PlainOps(<<op>>)
<1>1. <<op>> \in Seq({op}) /\ \A i \in 1..Len(<<op>>) : <<op>>[i] = op
  OBVIOUS
<1> QED
  BY <1>1, SequenceOf DEF PlainOps

LEMMA PlainEach ==
  ASSUME NEW n \in Nat, NEW ops, ops = [i \in 1..n |-> ops[i]], \A i \in 1..n : Plain(ops[i])
  PROVE  PlainOps(ops)
<1>1. ops \in Seq({ops[i] : i \in 1..n}) /\ Len(ops) = n
  OBVIOUS
<1> QED
  BY <1>1, SequenceOf DEF PlainOps

LEMMA PlainJoined ==
  ASSUME NEW a, NEW b, PlainOps(a), PlainOps(b)
  PROVE  PlainOps(a \o b)
<1> DEFINE c == a \o b
           S == ToSet(a) \cup ToSet(b)
<1>1. a \in Seq(S) /\ b \in Seq(S)
  BY DEF PlainOps, IsASequence
<1>2. c \in Seq(S) /\ Len(c) = Len(a) + Len(b) /\ Len(a) \in Nat /\ Len(b) \in Nat
  BY <1>1
<1>3. \A i \in 1..Len(c) : c[i] = IF i <= Len(a) THEN a[i] ELSE b[i - Len(a)]
  BY <1>1
<1> HIDE DEF c, S
<1>4. ASSUME NEW i \in 1..Len(c) PROVE Plain(c[i])
  <2>1. CASE i <= Len(a)
    <3>1. i \in 1..Len(a) /\ c[i] = a[i]
      BY <1>2, <1>3, <2>1
    <3> QED
      BY <3>1 DEF PlainOps
  <2>2. CASE i > Len(a)
    <3> DEFINE k == i - Len(a)
    <3>1. k \in 1..Len(b) /\ c[i] = b[k]
      BY <1>2, <1>3, <2>2
    <3> HIDE DEF k
    <3> QED
      BY <3>1 DEF PlainOps
  <2> QED
    BY <1>2, <2>1, <2>2
<1>5. IsASequence(c)
  BY <1>2, SequenceOf
<1> QED
  BY <1>4, <1>5 DEF PlainOps, c

\* A call with such an operation alone.
LEMMA PlainCalls ==
  /\ \A path : PlainOps(<<<<"mkdir", path>>>>)
  /\ PlainOps(<<Fails>>)
  /\ \A path : Away(path) => PlainOps(<<<<"rmtree", path>>>>)
  /\ \A path, text : Away(path) => PlainOps(<<Writes(path, text)>>)
  /\ \A from, to : Away(from) /\ Away(to) => Plain(<<"rename", from, to>>) /\ PlainOps(<<<<"rename", from, to>>>>)
<1>1. ASSUME NEW path PROVE PlainOps(<<<<"mkdir", path>>>>)
  <2> DEFINE op == <<"mkdir", path>>
  <2>1. op[1] = "mkdir"
    OBVIOUS
  <2> HIDE DEF op
  <2>2. PlainOps(<<op>>)
    BY <2>1, PlainOne DEF Plain
  <2> QED
    BY <2>2 DEF op
<1>2. PlainOps(<<Fails>>)
  <2>1. Fails[1] = "fail"
    BY DEF Fails
  <2> QED
    BY <2>1, PlainOne DEF Plain
<1>3. ASSUME NEW path, Away(path) PROVE PlainOps(<<<<"rmtree", path>>>>)
  <2> DEFINE op == <<"rmtree", path>>
  <2>1. op[1] = "rmtree" /\ op[2] = path
    OBVIOUS
  <2> HIDE DEF op
  <2>2. PlainOps(<<op>>)
    BY <1>3, <2>1, PlainOne DEF Plain
  <2> QED
    BY <2>2 DEF op
<1>4. ASSUME NEW path, NEW text, Away(path) PROVE PlainOps(<<Writes(path, text)>>)
  <2> DEFINE op == Writes(path, text)
  <2>1. op[1] = "write" /\ op[2] = path
    BY DEF Writes
  <2> HIDE DEF op
  <2>2. PlainOps(<<op>>)
    BY <1>4, <2>1, PlainOne DEF Plain
  <2> QED
    BY <2>2 DEF op
<1>5. ASSUME NEW from, NEW to, Away(from), Away(to) PROVE Plain(<<"rename", from, to>>) /\ PlainOps(<<<<"rename", from, to>>>>)
  <2> DEFINE op == <<"rename", from, to>>
  <2>1. op[1] = "rename" /\ op[2] = from /\ op[3] = to
    OBVIOUS
  <2> HIDE DEF op
  <2>2. Plain(op) /\ PlainOps(<<op>>)
    BY <1>5, <2>1, PlainOne DEF Plain
  <2> QED
    BY <2>2 DEF op
<1> QED
  BY <1>1, <1>2, <1>3, <1>4, <1>5

LEMMA PlainPlugins ==
  ASSUME NEW c, NEW folder, NEW loaded
  PROVE  PlainOps(SetPlugins(c, folder, loaded))
         /\ \A i \in 1..Len(SetPlugins(c, folder, loaded)) : SetPlugins(c, folder, loaded)[i][1] = "write"
<1> DEFINE op == Writes(IniOf(folder), InfoToIni([InfoAt(c, IniOf(folder)) EXCEPT !.plugins = loaded]))
<1>1. SetPlugins(c, folder, loaded) = <<op>>
  BY DEF SetPlugins
<1>2. op[1] = "write"
  BY DEF Writes
<1>3. PlainOps(<<op>>)
  BY AwayPaths, PlainCalls
<1> HIDE DEF op
<1>4. \A i \in 1..Len(<<op>>) : <<op>>[i] = op
  OBVIOUS
<1> QED
  BY <1>1, <1>2, <1>3, <1>4

LEMMA PlainPackage ==
  ASSUME NEW c, NEW package
  PROVE  PlainOps(Migrate(c, package))
<1> DEFINE target == ModPath(FolderOf[package])
           mkdir == <<"mkdir", target>>
           move == <<"rename", ModsDir \o <<package>>, target \o <<package>>>>
           made == <<mkdir>>
           moved == <<move>>
           ini == IF IniOf(package) \in DOMAIN c.texts THEN <<<<"rename", IniOf(package), target \o <<"mod.ini">>>>>> ELSE <<>>
<1>1. Migrate(c, package) = (made \o moved) \o ini
  <2>1. Migrate(c, package) = <<mkdir, move>> \o ini
    BY DEF Migrate
  <2> HIDE DEF mkdir, move, ini
  <2> QED
    BY <2>1, Short
<1>2. PlainOps(made)
  BY PlainCalls
<1>3. PlainOps(moved)
  BY AwayPaths, AwayMore, PlainCalls
<1>4. PlainOps(ini)
  <2>1. Away(IniOf(package)) /\ Away(target \o <<"mod.ini">>)
    BY AwayPaths, AwayMore
  <2> QED
    BY <2>1, NoPlainOps, PlainCalls
<1> HIDE DEF made, moved, ini
<1> QED
  BY <1>1, <1>2, <1>3, <1>4, PlainJoined

LEMMA PlainRenames ==
  ASSUME NEW names, NEW from, NEW to, Away(from), Away(to)
  PROVE  PlainOps(RenameEach(names, from, to))
<1> DEFINE ordered == InOrder(names)
           ops == [i \in 1..Len(ordered) |-> <<"rename", from \o <<ordered[i]>>, to \o <<ordered[i]>>>>]
<1>1. RenameEach(names, from, to) = IF names = {} THEN <<Fails>> ELSE ops
  BY DEF RenameEach, ForEach
<1>2. PlainOps(ops)
  <2>1. Len(ordered) \in Nat
    BY NumberOfNames
  <2> HIDE DEF ordered
  <2>2. \A i \in 1..Len(ordered) : ops[i] = <<"rename", from \o <<ordered[i]>>, to \o <<ordered[i]>>>>
    OBVIOUS
  <2>3. ops = [i \in 1..Len(ordered) |-> ops[i]]
    OBVIOUS
  <2> HIDE DEF ops
  <2>4. \A name : Plain(<<"rename", from \o <<name>>, to \o <<name>>>>)
    BY AwayMore, PlainCalls
  <2>5. \A i \in 1..Len(ordered) : Plain(ops[i])
    BY <2>2, <2>4
  <2> QED
    BY <2>1, <2>3, <2>5, PlainEach
<1> HIDE DEF ops
<1> QED
  BY <1>1, <1>2, PlainCalls

LEMMA PlainContent ==
  ASSUME NEW tree, NEW candidate, Away(candidate.path), NEW folder
  PROVE  PlainOps(MoveContent(tree, candidate, ModPath(folder)))
<1> DEFINE target == ModPath(folder)
           from == candidate.path
           exefs == target \o <<"exefs">>
           patches == RenameEach(Files(tree, from) \cap PatchFiles, from, exefs)
           each == RenameEach((Dirs(tree, from) \cap {"romfs", "exefs", "plugins"}) \cup (Files(tree, from) \cap PluginFiles),
                              from, target)
<1>0. Away(target) /\ Away(exefs) /\ Away(from) /\ \A name : Away(target \o <<name>>)
  BY AwayPaths, AwayMore
<1>1. PlainOps(<<<<"mkdir", exefs>>>> \o patches)
  <2>1. PlainOps(patches)
    BY <1>0, PlainRenames
  <2> HIDE DEF patches, exefs
  <2> QED
    BY <2>1, PlainCalls, PlainJoined
<1>2. PlainOps(<<<<"rename", from, target \o <<Last(from)>>>>>>)
  BY <1>0, PlainCalls
<1>3. PlainOps(<<<<"rename", from, target \o <<"romfs">>>>>>)
  BY <1>0, PlainCalls
<1>4. PlainOps(each)
  BY <1>0, PlainRenames
<1>5. MoveContent(tree, candidate, target)
        = CASE candidate.kind = "patches" -> <<<<"mkdir", exefs>>>> \o patches
            [] candidate.kind = "package" -> <<<<"rename", from, target \o <<Last(from)>>>>>>
            [] candidate.kind = "romfs" -> <<<<"rename", from, target \o <<"romfs">>>>>>
            [] OTHER -> each
  BY DEF MoveContent
<1> HIDE DEF target, exefs, patches, each, from
<1>6. PlainOps(MoveContent(tree, candidate, target))
  BY <1>1, <1>2, <1>3, <1>4, <1>5
<1> QED
  BY <1>6 DEF target

-----------------------------------------------------------------------------
(* What the calls that change profiles do to the card.                     *)

JoinOf(ops, a, b) == ops = a \o b

LEMMA Joins ==
  ASSUME NEW a, NEW b, IsASequence(a), IsASequence(b), NEW c, NEW d, d = After(a, c),
         SureFrom(a, c, 0), SureFrom(b, d, 0), NEW ops, JoinOf(ops, a, b)
  PROVE  IsASequence(ops) /\ SureFrom(ops, c, 0) /\ After(ops, c) = After(b, d)
<1> DEFINE S == ToSet(a) \cup ToSet(b)
<1>1. a \in Seq(S) /\ b \in Seq(S)
  BY DEF IsASequence
<1> HIDE DEF S
<1>2. ops \in Seq(S)
  BY <1>1 DEF JoinOf
<1>3. SureFrom(a \o b, c, 0)
  BY <1>1, SureJoined
<1>5. ops = a \o b
  BY DEF JoinOf
<1>4. After(a \o b, c) = After(b, d)
  BY <1>1, RunJoined
<1> QED
  BY <1>2, <1>3, <1>4, <1>5, SequenceOf

LEMMA NothingJoins ==
  ASSUME NEW c
  PROVE  IsASequence(<<>>) /\ SureFrom(<<>>, c, 0) /\ After(<<>>, c) = c
<1>1. IsASequence(<<>>)
  BY DEF IsASequence
<1> QED
  BY <1>1, RunOfOne

\* A profile has another name.
RenamedAs(c, d, from, to) ==
  /\ (Active(c) = from => Active(d) = to) /\ (Active(c) # from => Active(d) = Active(c))
  /\ ~HasProfile(d, from) /\ Lists(d, to, LoadProfile(c, from))
  /\ \A p : p \notin {from, to} => SameProfile(c, d, p)

LEMMA RenamingDoes ==
  ASSUME NEW c, CardIsWhole(c), NEW from, NEW to, HasProfile(c, from), ~HasProfile(c, to),
         NEW ops, ops = RenameProfile(c, from, to), NEW e, e = After(ops, c)
  PROVE  RenamedAs(c, e, from, to) /\ SureFrom(ops, c, 0)
<1> DEFINE list == LoadProfile(c, from)
           saved == SaveProfile(c, to, list)
           deleted == DeleteProfile(c, from)
           activated == IF Active(c) = from THEN ActivateProfile(c, to) ELSE <<>>
<1>1. from # to /\ ops = (saved \o deleted) \o activated
  BY DEF RenameProfile
<1>2. IsModList(list) /\ IsCard(c)
  BY LoadedIsAList DEF CardIsWhole, IsCard
<1> HIDE DEF list
<1>31. PICK d : d = After(saved, c)
  OBVIOUS
<1>3. IsCard(d) /\ SavedOnly(c, d, to) /\ Lists(d, to, list) /\ IsASequence(saved) /\ SureFrom(saved, c, 0)
  BY <1>2, <1>31, SavingDoes
<1> HIDE DEF saved
<1>4. Active(d) = Active(c) /\ \A p : p # to => SameProfile(c, d, p)
  BY <1>3, OthersStay
<1>5. HasProfile(d, from)
  BY <1>1, <1>4 DEF SameProfile
<1>61. PICK f : f = After(deleted, d)
  OBVIOUS
<1>6. /\ IsCard(f) /\ Active(f) = Active(d) /\ ~HasProfile(f, from) /\ \A p : p # from => SameProfile(d, f, p)
      /\ IsASequence(deleted) /\ SureFrom(deleted, d, 0)
  BY <1>3, <1>5, <1>61, DeletingDoes
<1> HIDE DEF deleted
<1>71. PICK g : g = After(activated, f)
  OBVIOUS
<1>7. /\ IsCard(g) /\ Active(g) = (IF Active(c) = from THEN to ELSE Active(c)) /\ \A p : SameProfile(f, g, p)
      /\ IsASequence(activated) /\ SureFrom(activated, f, 0)
  <2>1. CASE Active(c) = from
    BY <1>6, <1>71, <2>1, ActivatingDoes
  <2>2. CASE Active(c) # from
    <3>1. activated = <<>> /\ g = f
      BY <1>71, <2>2, NothingJoins
    <3> QED
      BY <1>4, <1>6, <2>2, <3>1, NothingJoins DEF SameProfile
  <2> QED
    BY <2>1, <2>2
<1> HIDE DEF activated
<1> DEFINE both == saved \o deleted
<1>81. JoinOf(both, saved, deleted)
  BY DEF JoinOf
<1>9. JoinOf(ops, both, activated)
  BY <1>1 DEF JoinOf
<1> HIDE DEF both
<1>8. IsASequence(both) /\ SureFrom(both, c, 0) /\ After(both, c) = f
  BY <1>3, <1>31, <1>6, <1>61, <1>81, Joins
<1>10. SureFrom(ops, c, 0) /\ e = g
  BY <1>7, <1>71, <1>8, <1>9, Joins
<1>11. \A p : p \notin {from, to} => SameProfile(c, e, p)
  BY <1>4, <1>6, <1>7, <1>10 DEF SameProfile
<1>12. ~HasProfile(e, from) /\ Lists(e, to, list)
  BY <1>1, <1>3, <1>6, <1>7, <1>10 DEF SameProfile, Lists
<1> QED
  BY <1>7, <1>10, <1>11, <1>12 DEF list, RenamedAs

\* The profiles, with or without the entry of a mod.
LeftBy(c, d, folder) ==
  /\ IsCard(d) /\ Active(d) = Active(c)
  /\ \A name : HasProfile(d, name) <=> HasProfile(c, name)
  /\ \A name : HasProfile(c, name) => LoadProfile(d, name) \in {LoadProfile(c, name), Without(LoadProfile(c, name), {folder})}

LEMMA LeavingDoes ==
  ASSUME NEW c, CardIsWhole(c), NEW folder, NEW d, LeftBy(c, d, folder), NEW name, HasProfile(c, name),
         NEW ops, ops = Leaves(c, folder, name), NEW e, e = After(ops, d)
  PROVE  LeftBy(c, e, folder) /\ IsASequence(ops) /\ SureFrom(ops, d, 0)
<1> DEFINE list == LoadProfile(c, name)
           less == Without(list, {folder})
<1>1. CASE FindEntry(list, folder) = {}
  <2>1. ops = <<>>
    BY <1>1 DEF Leaves
  <2> QED
    BY <2>1, NothingJoins
<1>2. CASE FindEntry(list, folder) # {}
  <2>1. ops = SaveProfile(c, name, less)
    BY <1>2 DEF Leaves
  <2>2. IsModList(less)
    BY LoadedIsAList, OfAndWithout
  <2>3. IsCard(d) /\ (HasProfile(d, name) <=> HasProfile(c, name))
    BY DEF LeftBy
  <2> HIDE DEF less
  <2>4. IsCard(e) /\ SavedOnly(d, e, name) /\ Lists(e, name, less) /\ IsASequence(ops) /\ SureFrom(ops, d, 0)
    BY <2>1, <2>2, <2>3, SavingDoes
  <2>5. Active(e) = Active(d) /\ \A other : other # name => SameProfile(d, e, other)
    BY <2>4, OthersStay
  <2>6. LeftBy(c, e, folder)
    BY <2>4, <2>5 DEF LeftBy, SameProfile, Lists, less
  <2> QED
    BY <2>4, <2>6
<1> QED
  BY <1>1, <1>2

LEMMA UninstallingDoes ==
  ASSUME NEW c, CardIsWhole(c), NEW folder, NEW ops, ops = Uninstall(c, folder), NEW e, e = After(ops, c)
  PROVE  LeftBy(c, e, folder) /\ SureFrom(ops, c, 0)
<1> DEFINE names == InOrder(Profiles(c))
           erased == IF IsDir(c.tree, ModPath(folder)) THEN <<<<"rmtree", ModPath(folder)>>>> ELSE <<>>
           each == [i \in 1..Len(names) |-> Leaves(c, folder, names[i])]
           all == FlattenSeq(each)
<1>1. JoinOf(ops, erased, all)
  BY DEF Uninstall, JoinOf
<1>21. PICK d : d = After(erased, c)
  OBVIOUS
<1>2. LeftBy(c, d, folder) /\ IsASequence(erased) /\ SureFrom(erased, c, 0)
  <2>0. IsCard(c)
    BY DEF CardIsWhole, IsCard
  <2>1. CASE ~IsDir(c.tree, ModPath(folder))
    <3>1. erased = <<>> /\ d = c
      BY <1>21, <2>1, NothingJoins
    <3> QED
      BY <2>0, <3>1, NothingJoins DEF LeftBy
  <2>2. CASE IsDir(c.tree, ModPath(folder))
    <3> DEFINE op == <<"rmtree", ModPath(folder)>>
    <3>1. op[1] = "rmtree" /\ erased = <<op>>
      BY <2>2
    <3>2. PlainOps(erased)
      BY <3>1, AwayPaths, PlainCalls
    <3> HIDE DEF op
    <3>3. SureFrom(<<op>>, c, 0)
      BY <3>1, RunOfOne DEF CanDo
    <3> HIDE DEF erased
    <3>4. IsCard(d) /\ Steady(c, d)
      BY <1>21, <2>0, <3>2, PlainRun
    <3> QED
      BY <3>1, <3>2, <3>3, <3>4 DEF LeftBy, Steady, SameProfile, PlainOps
  <2> QED
    BY <2>1, <2>2
<1>3. Len(names) \in Nat /\ \A i \in 1..Len(names) : HasProfile(c, names[i])
  <2>1. \A i \in 1..Len(names) : names[i] \in Profiles(c)
    BY NamesInOrder
  <2>2. \A name \in Profiles(c) : HasProfile(c, name)
    BY DEF Profiles, HasProfile, IsProfile
  <2> HIDE DEF names
  <2>3. Len(names) \in Nat
    BY NumberOfNames DEF names
  <2> QED
    BY <2>1, <2>2, <2>3
<1> HIDE DEF names, erased
<1>4. Len(each) = Len(names) /\ \A i \in 1..Len(names) : each[i] = Leaves(c, folder, names[i])
  BY <1>3
<1> HIDE DEF each
<1>5. IsASequence(all) /\ SureFrom(all, d, 0) /\ LeftBy(c, After(all, d), folder)
  <2>1. CASE Len(names) = 0
    <3>1. each = <<>>
      BY <2>1 DEF each
    <3>2. FlattenSeq(<<>>) = <<>>
      BY DEF FlattenSeq
    <3> QED
      BY <1>2, <3>1, <3>2, NothingJoins
  <2>2. CASE Len(names) # 0
    <3>1. PICK f : /\ FlattenSeq(each) = f[Len(each)] /\ f[1] = each[1]
                   /\ \A n \in 2..Len(each) : f[n] = f[n - 1] \o each[n]
      BY <1>3, <1>4, <2>2, FlattenIs
    <3> DEFINE Fine(a) == IsASequence(a) /\ SureFrom(a, d, 0) /\ LeftBy(c, After(a, d), folder)
               T == {n \in Nat : n + 1 <= Len(names) => Fine(f[n + 1])}
    <3>2. 0 \in T
      <4>1. 1 \in 1..Len(names)
        BY <1>3, <2>2
      <4>2. HasProfile(c, names[1]) /\ f[1] = Leaves(c, folder, names[1])
        BY <1>3, <1>4, <3>1, <4>1
      <4> DEFINE a == f[1]
                 g == After(a, d)
                 name == names[1]
      <4>3. HasProfile(c, name) /\ a = Leaves(c, folder, name)
        BY <4>2
      <4> HIDE DEF a, name
      <4>4. LeftBy(c, g, folder) /\ IsASequence(a) /\ SureFrom(a, d, 0)
        BY <1>2, <4>3, LeavingDoes
      <4>5. Fine(a)
        BY <4>4
      <4> HIDE DEF Fine
      <4> QED
        BY <4>5 DEF a
    <3>3. ASSUME NEW n \in Nat, n \in T PROVE n + 1 \in T
      <4> SUFFICES ASSUME (n + 1) + 1 <= Len(names) PROVE Fine(f[(n + 1) + 1])
        OBVIOUS
      <4> DEFINE m == n + 1
                 a == f[m]
                 b == each[m + 1]
                 ab == f[m + 1]
                 name == names[m + 1]
      <4>1. m + 1 \in 2..Len(names) /\ m + 1 \in 1..Len(names) /\ (m + 1) - 1 = m /\ m <= Len(names)
        BY <1>3
      <4>2. IsASequence(a) /\ SureFrom(a, d, 0) /\ LeftBy(c, After(a, d), folder)
        BY <3>3, <4>1
      <4> HIDE DEF m
      <4>3. JoinOf(ab, a, b) /\ b = Leaves(c, folder, name) /\ HasProfile(c, name)
        BY <1>3, <1>4, <3>1, <4>1 DEF JoinOf
      <4> HIDE DEF a, b, ab, name
      <4>6. PICK g : g = After(a, d)
        OBVIOUS
      <4>8. PICK h : h = After(b, g)
        OBVIOUS
      <4>4. LeftBy(c, h, folder) /\ IsASequence(b) /\ SureFrom(b, g, 0)
        BY <4>2, <4>3, <4>6, <4>8, LeavingDoes
      <4>5. IsASequence(ab) /\ SureFrom(ab, d, 0) /\ After(ab, d) = h
        BY <4>2, <4>3, <4>4, <4>6, <4>8, Joins
      <4>7. Fine(ab)
        BY <4>4, <4>5
      <4> HIDE DEF Fine
      <4> QED
        BY <4>7 DEF ab, m
    <3> HIDE DEF T
    <3>4. Len(names) - 1 \in T
      BY <1>3, <2>2, <3>2, <3>3, StepByStep
    <3>5. (Len(names) - 1) + 1 = Len(names)
      BY <1>3
    <3>6. Fine(f[Len(names)])
      <4> HIDE DEF Fine
      <4> QED
        BY <1>3, <3>4, <3>5 DEF T
    <3> QED
      BY <1>4, <3>1, <3>6
  <2> QED
    BY <2>1, <2>2
<1> HIDE DEF all
<1>6. SureFrom(ops, c, 0) /\ e = After(all, d)
  BY <1>1, <1>2, <1>21, <1>5, Joins
<1> QED
  BY <1>5, <1>6

-----------------------------------------------------------------------------
(* What a card keeps of the lists that were chosen.                        *)

KeepsIn(d, name, kept) == HasProfile(d, name) /\ Keeps(LoadProfile(d, name), kept)
Lives(d) == Active(d) # "" /\ HasProfile(d, Active(d))

\* Mods were added to profiles, and the active profile made if there was none.
Grows(c, d) ==
  /\ Active(d) = Active(c) /\ Whole(d)
  /\ \A name : HasProfile(c, name) => HasProfile(d, name)
  /\ \A name : HasProfile(d, name) => HasProfile(c, name) \/ (name = Active(c) /\ name # "")
  /\ \A name, kept : KeepsIn(c, name, kept) => KeepsIn(d, name, kept)

\* Where a call may end early, the profiles are what they were.
Early(ops, c) == \A i \in 1..Len(ops) : CanDo(ops[i], Run(ops, c)[i - 1]) \/ Steady(c, Run(ops, c)[i - 1])

LEMMA SteadyGrows ==
  ASSUME NEW c, NEW d, Whole(c), Steady(c, d)
  PROVE  Grows(c, d)
BY DEF Steady, SameProfile, Grows, Whole, KeepsIn

LEMMA WholeCard ==
  ASSUME NEW c, CardIsWhole(c)
  PROVE  Whole(c) /\ IsCard(c)
BY LoadedIsAList DEF Whole, CardIsWhole, IsCard

LEMMA PlainDoes ==
  ASSUME NEW c, IsCard(c), NEW ops, PlainOps(ops), NEW e, e = After(ops, c)
  PROVE  IsASequence(ops) /\ Steady(c, e) /\ Early(ops, c)
<1>1. IsASequence(ops) /\ Len(ops) \in Nat
  BY DEF PlainOps, IsASequence
<1>2. \A i \in 1..Len(ops) : i - 1 \in 0..Len(ops)
  BY <1>1
<1>3. (\A n \in 0..Len(ops) : Steady(c, Run(ops, c)[n])) /\ Steady(c, After(ops, c))
  BY PlainRun
<1> QED
  BY <1>1, <1>2, <1>3 DEF Early

LEMMA PlainThenSure ==
  ASSUME NEW c, IsCard(c), NEW a, PlainOps(a), NEW d, d = After(a, c), NEW b, IsASequence(b), SureFrom(b, d, 0),
         NEW ops, JoinOf(ops, a, b)
  PROVE  /\ IsCard(d) /\ Steady(c, d)
         /\ IsASequence(ops) /\ After(ops, c) = After(b, d) /\ Early(ops, c)
<1> DEFINE S == ToSet(a) \cup ToSet(b)
           R == Run(ops, c)
<1>1. a \in Seq(S) /\ b \in Seq(S)
  BY DEF PlainOps, IsASequence
<1> HIDE DEF S
<1>2. ops = a \o b
  BY DEF JoinOf
<1>3. SureFrom(a \o b, c, Len(a))
  BY <1>1, SureJoined
<1>4. /\ a \o b \in Seq(S) /\ Len(a) \in Nat /\ Len(b) \in Nat /\ Len(a \o b) = Len(a) + Len(b)
      /\ \A n \in 0..Len(a) : Run(a \o b, c)[n] = Run(a, c)[n]
      /\ After(a \o b, c) = After(b, d)
  BY <1>1, RunJoined
<1>5. /\ SureFrom(ops, c, Len(a))
      /\ ops \in Seq(S) /\ Len(a) \in Nat /\ Len(ops) \in Nat /\ \A n \in 0..Len(a) : R[n] = Run(a, c)[n]
      /\ After(ops, c) = After(b, d)
  BY <1>2, <1>3, <1>4
<1>6. IsCard(d) /\ Steady(c, d) /\ \A n \in 0..Len(a) : Steady(c, Run(a, c)[n])
  BY PlainRun
<1>7. ASSUME NEW i \in 1..Len(ops) PROVE CanDo(ops[i], R[i - 1]) \/ Steady(c, R[i - 1])
  <2>1. CASE i > Len(a)
    BY <1>5, <2>1 DEF SureFrom
  <2>2. CASE ~(i > Len(a))
    <3>1. i - 1 \in 0..Len(a)
      BY <1>5, <2>2
    <3> HIDE DEF R
    <3> QED
      BY <1>5, <1>6, <3>1
  <2> QED
    BY <2>1, <2>2
<1> QED
  BY <1>5, <1>6, <1>7, SequenceOf DEF Early

LEMMA InstallingDoes ==
  ASSUME NEW c, CardIsWhole(c), NEW candidate, Away(candidate.path), NEW folder \in Names, NEW info,
         NEW ops, ops = Install(c, candidate, folder, info), NEW e, e = After(ops, c)
  PROVE  Grows(c, e) /\ IsASequence(ops) /\ Early(ops, c)
<1> DEFINE target == ModPath(folder)
           name == Active(c)
           ordered == InOrder(OldContent(c.tree, target))
           active == IF HasProfile(c, name) THEN LoadProfile(c, name) ELSE <<>>
           made == IF IsDir(c.tree, target) THEN <<>> ELSE <<<<"mkdir", target>>>>
           erased == [i \in 1..Len(ordered) |-> <<"rmtree", target \o <<ordered[i]>>>>]
           emptied == IF Inspect(c.tree, target) = NotAMod THEN <<>> ELSE erased
           moved == MoveContent(c.tree, candidate, target)
           described == <<Writes(IniOf(folder), InfoToIni(KeptSettings(c, folder, info)))>>
           x == Listed(folder, TRUE, <<>>)
           top == <<x>>
           list == top \o active
           listed == IF name = "" \/ FindEntry(active, folder) # {} THEN <<>> ELSE SaveProfile(c, name, list)
           a == ((made \o emptied) \o moved) \o described
<1>1. JoinOf(ops, a, listed)
  BY DEF Install, ForEach, JoinOf
<1>2. PlainOps(made)
  BY NoPlainOps, PlainCalls
<1>3. PlainOps(erased)
  <2>1. Len(ordered) \in Nat
    BY NumberOfNames
  <2>0. \A n : Away(target \o <<n>>)
    BY AwayPaths, AwayMore
  <2> HIDE DEF ordered, target
  <2>2. \A i \in 1..Len(ordered) : erased[i] = <<"rmtree", target \o <<ordered[i]>>>>
    OBVIOUS
  <2>3. erased = [i \in 1..Len(ordered) |-> erased[i]]
    OBVIOUS
  <2> HIDE DEF erased
  <2>4. \A i \in 1..Len(ordered) : Plain(erased[i])
    <3>1. ASSUME NEW p, Away(p) PROVE Plain(<<"rmtree", p>>)
      <4> DEFINE op == <<"rmtree", p>>
      <4>1. op[1] = "rmtree" /\ op[2] = p
        OBVIOUS
      <4> HIDE DEF op
      <4>2. Plain(op)
        BY <3>1, <4>1 DEF Plain
      <4> QED
        BY <4>2 DEF op
    <3>2. \A n : Plain(<<"rmtree", target \o <<n>>>>)
      BY <2>0, <3>1
    <3> QED
      BY <2>2, <3>2
  <2> QED
    BY <2>1, <2>3, <2>4, PlainEach
<1>4. PlainOps(emptied)
  <2> HIDE DEF erased
  <2> QED
    BY <1>3, NoPlainOps
<1>5. PlainOps(moved)
  BY PlainContent
<1>6. PlainOps(described)
  BY AwayPaths, PlainCalls
<1>7. PlainOps(a)
  <2> HIDE DEF made, emptied, moved, described
  <2>1. PlainOps(made \o emptied)
    BY <1>2, <1>4, PlainJoined
  <2>2. PlainOps((made \o emptied) \o moved)
    BY <1>5, <2>1, PlainJoined
  <2> QED
    BY <1>6, <2>2, PlainJoined
<1>8. IsCard(c) /\ Whole(c)
  BY WholeCard
<1> HIDE DEF a
<1>9. PICK d : d = After(a, c)
  OBVIOUS
<1>10. IsCard(d) /\ Steady(c, d)
  BY <1>7, <1>8, <1>9, PlainRun
<1>11. Grows(c, d)
  BY <1>8, <1>10, SteadyGrows
<1>12. CASE name = "" \/ FindEntry(active, folder) # {}
  <2>1. listed = <<>>
    BY <1>12
  <2>2. SureFrom(listed, d, 0) /\ IsASequence(listed) /\ After(listed, d) = d
    BY <2>1, NothingJoins
  <2> HIDE DEF listed
  <2>3. IsASequence(ops) /\ e = d /\ Early(ops, c)
    BY <1>1, <1>7, <1>8, <1>9, <2>2, PlainThenSure
  <2> QED
    BY <1>11, <2>3
<1>13. CASE ~(name = "" \/ FindEntry(active, folder) # {})
  <2>1. listed = SaveProfile(c, name, list)
    BY <1>13
  <2>2. IsModList(active) /\ \A j \in 1..Len(active) : active[j].folder # folder
    BY <1>13, LoadedIsAList, EmptyList DEF FindEntry
  <2>7. HasProfile(c, name) => active = LoadProfile(c, name)
    OBVIOUS
  <2> HIDE DEF active, name
  <2>3. x \in Entry /\ x.folder = folder
    BY DEF Listed, Entry
  <2> HIDE DEF x
  <2>4. top \in Seq(Entry) /\ Len(top) = 1 /\ top[1] = x
    BY <2>3
  <2> HIDE DEF top
  <2>5. IsModList(top) /\ \A i \in 1..Len(top) : top[i].folder = folder
    <3>1. \A i \in 1..Len(top) : i = 1
      BY <2>4
    <3> QED
      BY <2>3, <2>4, <3>1 DEF IsModList, OnceEach
  <2>6. /\ \A i \in 1..Len(top), j \in 1..Len(active) : top[i].folder # active[j].folder
        /\ \A i \in 1..Len(top) : top[i].folder \notin FoldersIn(active)
    BY <2>2, <2>5 DEF FoldersIn
  <2>8. IsModList(list)
    BY <2>2, <2>5, <2>6, Joined
  <2>9. \A kept : Keeps(active, kept) => Keeps(list, kept)
    BY <2>2, <2>5, <2>6, KeepsAdded
  <2> HIDE DEF list
  <2>10. HasProfile(d, name) <=> HasProfile(c, name)
    BY <1>10 DEF Steady, SameProfile
  <2> HIDE DEF listed
  <2>11. PICK f : f = After(listed, d)
    OBVIOUS
  <2>12. IsCard(f) /\ SavedOnly(d, f, name) /\ Lists(f, name, list) /\ IsASequence(listed) /\ SureFrom(listed, d, 0)
    BY <1>10, <2>1, <2>8, <2>10, <2>11, SavingDoes
  <2>13. Active(f) = Active(d) /\ \A other : other # name => SameProfile(d, f, other)
    BY <2>12, OthersStay
  <2>14. IsASequence(ops) /\ e = f /\ Early(ops, c)
    BY <1>1, <1>7, <1>8, <1>9, <2>11, <2>12, PlainThenSure
  <2>15. name = Active(c) /\ name # ""
    BY <1>13 DEF name
  <2>16. Active(f) = Active(c)
    BY <1>11, <2>13 DEF Grows
  <2>17. /\ \A p : HasProfile(c, p) => HasProfile(f, p)
         /\ \A p : HasProfile(f, p) => HasProfile(c, p) \/ p = name
    BY <1>10, <2>12, <2>13 DEF Steady, SameProfile, Lists
  <2>18. Whole(f)
    BY <1>11, <2>8, <2>12, <2>13 DEF Whole, Grows, SameProfile, Lists
  <2>19. ASSUME NEW p, NEW kept, KeepsIn(c, p, kept) PROVE KeepsIn(f, p, kept)
    <3>1. CASE p = name
      BY <2>7, <2>9, <2>12, <2>19, <3>1 DEF KeepsIn, Lists
    <3>2. CASE p # name
      BY <1>10, <2>13, <2>19, <3>2 DEF KeepsIn, Steady, SameProfile
    <3> QED
      BY <3>1, <3>2
  <2>20. Grows(c, f)
    BY <2>15, <2>16, <2>17, <2>18, <2>19 DEF Grows
  <2> QED
    BY <2>14, <2>20
<1> QED
  BY <1>12, <1>13

-----------------------------------------------------------------------------
(* What holds of the choices when the call that is being made is over: d   *)
(* is the card then, steps is what the interface has yet to do, s the      *)
(* screen, ch what was chosen.                                             *)

\* The screen shows the profiles of the card, and which one is active.
Seen(d, s) ==
  /\ s.profile = Active(d) /\ IsASequence(s.profiles) /\ ToSet(s.profiles) \subseteq Names
  /\ \A name \in Names : name \in ToSet(s.profiles) <=> HasProfile(d, name)
\* It shows the list of that one, or one mods were added to since.
SawKept(d, s, ch) ==
  /\ s.exists <=> s.profile # "" /\ HasProfile(d, s.profile)
  /\ s.exists /\ s.profile \in DOMAIN ch => Keeps(s.entries, ch[s.profile][2])
KeepsSaved(step, ch) == step[2] \in DOMAIN ch => Keeps(step[3], ch[step[2]][2])

\* Loose packages are moved, and the card is read again.
Packages(steps) == Reloads(steps) /\ \A i \in 1..Len(steps) : steps[i][1] \in {"package", "reload", "normalize"}

\* A step of the interface with the lock free, and the steps after it.
Normalizing == <<<<"normalize">>>>
Fit(step, rest, d, s, ch, busy) ==
  \/ /\ step[1] = "save" /\ rest = <<>> /\ KeepsSaved(step, ch)
     /\ Lives(d) /\ Seen(d, s) /\ step[2] = s.profile
  \/ /\ step[1] = "save" /\ rest = <<<<"activate", step[2]>>>> \o Reload /\ KeepsSaved(step, ch)
     /\ step[2] # "" /\ (busy => Lives(d))
  \/ /\ step[1] = "activate" /\ rest = Reload
     /\ step[2] # "" /\ HasProfile(d, step[2]) /\ (busy => Lives(d))
  \/ /\ step[1] = "rename" /\ rest = Reload
     /\ step[3] # "" /\ HasProfile(d, step[2]) /\ ~HasProfile(d, step[3]) /\ step[2] \notin DOMAIN ch /\ (busy => Lives(d))
  \/ /\ step[1] = "delete" /\ rest = Reload
     /\ HasProfile(d, step[2]) /\ step[2] # Active(d) /\ step[2] \notin DOMAIN ch /\ (busy => Lives(d))
  \/ /\ step[1] = "uninstall" /\ rest = Reload
     /\ (\A name \in DOMAIN ch : step[2] \notin FoldersIn(ch[name][2])) /\ (busy => Lives(d))
  \/ /\ step[1] = "plugins" /\ rest = Reload /\ (busy => Lives(d))
  \/ step[1] = "migrate" /\ rest = Reload /\ ~busy
  \/ step[1] = "package" /\ Packages(rest) /\ ~busy
  \/ step[1] = "reload" /\ rest = Normalizing /\ (busy => Lives(d))
  \/ /\ step[1] = "normalize" /\ rest = <<>>
     /\ Seen(d, s) /\ SawKept(d, s, ch) /\ (busy => Lives(d))

\* One of normalizeProfile, which keeps the lock.
ThenComplete == <<<<"complete">>>>
FitHeld(step, rest, d, s, ch) ==
  \/ step[1] = "activate" /\ rest = ThenCompleted /\ step[2] # ""
  \/ step[1] = "read" /\ rest = ThenComplete /\ Active(d) # ""
  \/ step[1] = "complete" /\ rest = <<>> /\ Active(d) # "" /\ Seen(d, s) /\ SawKept(d, s, ch)
  \/ /\ step[1] = "add" /\ rest = <<<<"activate", step[2]>>, <<"read">>>> /\ step[2] # "" /\ KeepsSaved(step, ch)
  \/ step[1] = "activate" /\ rest = ThenRead /\ step[2] # "" /\ HasProfile(d, step[2])
  \/ step[1] = "add" /\ rest = ThenRead /\ step[2] # "" /\ step[2] = Active(d) /\ KeepsSaved(step, ch)
  \/ step[1] = "read" /\ rest = <<>> /\ Lives(d)

\* A list that was chosen is kept, or the interface is about to save it or to rename it.
Promised(d, steps, ch, name) ==
  \/ KeepsIn(d, name, ch[name][2])
  \/ steps # <<>> /\ Head(steps)[1] = "save" /\ Head(steps)[2] = name
  \/ steps # <<>> /\ Head(steps)[1] = "rename" /\ Head(steps)[3] = name /\ KeepsIn(d, Head(steps)[2], ch[name][2])

Good(d, steps, s, ch, open, locked, busy) ==
  /\ Whole(d)
  /\ \A name \in DOMAIN ch : Promised(d, steps, ch, name)
  /\ ~open => steps = <<>>
  /\ open /\ steps = <<>> => Lives(d) /\ Seen(d, s)
  /\ open /\ steps # <<>> => \/ Fit(Head(steps), Tail(steps), d, s, ch, busy)
                             \/ locked /\ FitHeld(Head(steps), Tail(steps), d, s, ch)

\* A call that may end early, and leave no trouble.
Soft(c) == c.who = "worker" \/ c.step[1] = "package"
ChoicesInv ==
  Undisturbed =>
    /\ Good(After(call.ops, card), todo, screen, chosen, on, held, job # NoJob)
    /\ \A i \in 1..Len(call.ops) :
         \/ CanDo(call.ops[i], Run(call.ops, card)[i - 1])
         \/ Soft(call) /\ Good(Run(call.ops, card)[i - 1], todo, screen, chosen, on, held, job # NoJob)
\* What is installed is in the folder of downloads.
PlaceInv == job.stage = "install" => Away(job.candidate.path)
CountInv ==
  /\ DOMAIN count = DOMAIN MaxOf /\ count = [kind \in DOMAIN count |-> count[kind]]
  /\ count.faults \in Nat /\ count.cuts \in Nat
KeptInv == ChoicesInv /\ PlaceInv /\ CountInv

LEMMA FitStays ==
  ASSUME NEW c, NEW d, Active(d) = Active(c), \A name : HasProfile(d, name) <=> HasProfile(c, name),
         NEW step, NEW rest, NEW s, NEW ch, NEW busy
  PROVE  /\ Lives(d) <=> Lives(c)
         /\ Seen(c, s) => Seen(d, s)
         /\ Fit(step, rest, c, s, ch, busy) => Fit(step, rest, d, s, ch, busy)
         /\ FitHeld(step, rest, c, s, ch) => FitHeld(step, rest, d, s, ch)
<1>1. Lives(d) <=> Lives(c)
  BY DEF Lives
<1>2. Seen(c, s) => Seen(d, s)
  BY DEF Seen
<1>3. SawKept(c, s, ch) => SawKept(d, s, ch)
  BY DEF SawKept
<1>4. Fit(step, rest, c, s, ch, busy) => Fit(step, rest, d, s, ch, busy)
  BY <1>1, <1>2, <1>3 DEF Fit
<1>5. FitHeld(step, rest, c, s, ch) => FitHeld(step, rest, d, s, ch)
  BY <1>1, <1>2, <1>3 DEF FitHeld
<1> QED
  BY <1>1, <1>2, <1>4, <1>5

\* With an installation under way, the active profile has its file.
LEMMA BusyLives ==
  ASSUME NEW d, NEW step, NEW rest, NEW s, NEW ch, Fit(step, rest, d, s, ch, TRUE)
  PROVE  Lives(d)
BY DEF Fit

LEMMA GrowsKeepsGood ==
  ASSUME NEW c, NEW d, NEW steps, NEW s, NEW ch, NEW open, NEW locked, NEW busy, busy \in BOOLEAN,
         Good(c, steps, s, ch, open, locked, busy), Grows(c, d),
         (\A name : HasProfile(d, name) => HasProfile(c, name)) \/ (busy /\ ~locked)
  PROVE  Good(d, steps, s, ch, open, locked, busy)
<1>1. /\ Active(d) = Active(c) /\ Whole(d)
      /\ \A name : HasProfile(c, name) => HasProfile(d, name)
      /\ \A name : HasProfile(d, name) => HasProfile(c, name) \/ (name = Active(c) /\ name # "")
      /\ \A name, kept : KeepsIn(c, name, kept) => KeepsIn(d, name, kept)
  BY DEF Grows
<1>2. ASSUME open PROVE \A name : HasProfile(d, name) <=> HasProfile(c, name)
  <2>1. CASE \A name : HasProfile(d, name) => HasProfile(c, name)
    BY <1>1, <2>1
  <2>2. CASE busy /\ ~locked
    <3>1. Lives(c)
      BY <1>2, <2>2, BusyLives DEF Good
    <3> QED
      BY <1>1, <3>1 DEF Lives
  <2> QED
    BY <2>1, <2>2
<1>3. \A name \in DOMAIN ch : Promised(d, steps, ch, name)
  BY <1>1 DEF Good, Promised
<1>4. ASSUME open, steps = <<>> PROVE Lives(d) /\ Seen(d, s)
  BY <1>1, <1>2, <1>4, FitStays DEF Good
<1>5. ASSUME open, steps # <<>> PROVE \/ Fit(Head(steps), Tail(steps), d, s, ch, busy)
                                      \/ locked /\ FitHeld(Head(steps), Tail(steps), d, s, ch)
  <2> DEFINE step == Head(steps)
             rest == Tail(steps)
  <2>1. Fit(step, rest, c, s, ch, busy) \/ (locked /\ FitHeld(step, rest, c, s, ch))
    BY <1>5 DEF Good
  <2> HIDE DEF step, rest
  <2>2. Fit(step, rest, d, s, ch, busy) \/ (locked /\ FitHeld(step, rest, d, s, ch))
    BY <1>1, <1>2, <1>5, <2>1, FitStays
  <2> QED
    BY <2>2 DEF step, rest
<1> QED
  BY <1>1, <1>3, <1>4, <1>5 DEF Good

\* A card on which the profiles are the same.
LEMMA SteadyKeepsGood ==
  ASSUME NEW c, NEW d, NEW steps, NEW s, NEW ch, NEW open, NEW locked, NEW busy, busy \in BOOLEAN,
         Good(c, steps, s, ch, open, locked, busy), Steady(c, d)
  PROVE  Good(d, steps, s, ch, open, locked, busy)
<1>1. Whole(c)
  BY DEF Good
<1>2. Grows(c, d) /\ \A name : HasProfile(d, name) => HasProfile(c, name)
  BY <1>1, SteadyGrows DEF Steady, SameProfile
<1> QED
  BY <1>2, GrowsKeepsGood

-----------------------------------------------------------------------------
(* Steps, and how many things have happened.                               *)

LEMMA Fronts ==
  ASSUME NEW t, IsASequence(t), NEW a, NEW b
  PROVE  /\ <<a>> \o t # <<>> /\ Head(<<a>> \o t) = a /\ Tail(<<a>> \o t) = t
         /\ <<a, b>> \o t # <<>> /\ Head(<<a, b>> \o t) = a /\ Tail(<<a, b>> \o t) = <<b>> \o t
<1> DEFINE S == ToSet(t) \cup {a, b}
<1>1. t \in Seq(S) /\ a \in S /\ b \in S
  BY DEF IsASequence
<1> HIDE DEF S
<1>2. <<a>> \o t # <<>> /\ Head(<<a>> \o t) = a
  BY <1>1
<1>3. <<a, b>> \o t # <<>> /\ Head(<<a, b>> \o t) = a
  BY <1>1
<1>4. Tail(<<a>> \o t) = t
  <2> DEFINE u == Tail(<<a>> \o t)
  <2>1. u \in Seq(S) /\ Len(u) = Len(t) /\ \A i \in 1..Len(u) : u[i] = t[i]
    BY <1>1
  <2> HIDE DEF u
  <2> QED
    BY <1>1, <2>1, SameItems DEF u
<1>5. Tail(<<a, b>> \o t) = <<b>> \o t
  <2> DEFINE u == Tail(<<a, b>> \o t)
             v == <<b>> \o t
  <2>1. u \in Seq(S) /\ v \in Seq(S) /\ Len(u) = Len(v) /\ \A i \in 1..Len(u) : u[i] = v[i]
    BY <1>1
  <2> HIDE DEF u, v
  <2>2. u = v
    BY <2>1, SameItems
  <2> QED
    BY <2>2 DEF u, v
<1> QED
  BY <1>2, <1>3, <1>4, <1>5

LEMMA Counting ==
  ASSUME CountInv, NEW kind, Counted(kind)
  PROVE  /\ CountInv'
         /\ Undisturbed' => Undisturbed
         /\ kind \in {"faults", "cuts"} => ~Undisturbed'
<1>1. count' = [count EXCEPT ![kind] = @ + 1]
  BY DEF Counted
<1>2. /\ DOMAIN count = DOMAIN MaxOf /\ count = [k \in DOMAIN count |-> count[k]]
      /\ count.faults \in Nat /\ count.cuts \in Nat /\ "faults" \in DOMAIN count /\ "cuts" \in DOMAIN count
  BY CardsAssumption DEF CountInv
<1>3. /\ DOMAIN count' = DOMAIN count /\ count' = [k \in DOMAIN count' |-> count'[k]]
      /\ count'.faults = IF kind = "faults" THEN count.faults + 1 ELSE count.faults
      /\ count'.cuts = IF kind = "cuts" THEN count.cuts + 1 ELSE count.cuts
  BY <1>1, <1>2
<1>4. \A n \in Nat : n + 1 \in Nat /\ n + 1 # 0
  OBVIOUS
<1>5. CountInv'
  BY <1>2, <1>3, <1>4 DEF CountInv
<1> QED
  BY <1>2, <1>3, <1>4, <1>5 DEF Undisturbed

LEMMA SameCount ==
  ASSUME CountInv, count' = count
  PROVE  CountInv' /\ (Undisturbed' <=> Undisturbed)
BY DEF CountInv, Undisturbed

\* What a step does not touch of the card and of the call.
LEMMA CallStays ==
  ASSUME ChoicesInv, card' = card, call' = call, Undisturbed' => Undisturbed,
         \A d : Good(d, todo, screen, chosen, on, held, job # NoJob)
                  => Good(d, todo', screen', chosen', on', held', job' # NoJob)
  PROVE  ChoicesInv'
<1> SUFFICES ASSUME Undisturbed'
             PROVE  /\ Good(After(call'.ops, card'), todo', screen', chosen', on', held', job' # NoJob)
                    /\ \A i \in 1..Len(call'.ops) :
                         \/ CanDo(call'.ops[i], Run(call'.ops, card')[i - 1])
                         \/ Soft(call') /\ Good(Run(call'.ops, card')[i - 1], todo', screen', chosen', on', held', job' # NoJob)
  BY DEF ChoicesInv
<1>1. Undisturbed
  OBVIOUS
<1> QED
  BY <1>1 DEF ChoicesInv

\* No call is being made.
LEMMA NoCallGood ==
  ASSUME ChoicesInv, Undisturbed, Free
  PROVE  Good(card, todo, screen, chosen, on, held, job # NoJob)
<1>1. call.ops = <<>> /\ After(<<>>, card) = card
  BY NothingJoins DEF Free, NoCall
<1> QED
  BY <1>1 DEF ChoicesInv

LEMMA NoCallChoices ==
  ASSUME call' = NoCall, Undisturbed' => Good(card', todo', screen', chosen', on', held', job' # NoJob)
  PROVE  ChoicesInv'
<1>1. call'.ops = <<>> /\ After(<<>>, card') = card' /\ Len(<<>>) = 0
  BY NothingJoins DEF NoCall
<1>2. \A i \in 1..Len(call'.ops) : FALSE
  BY <1>1
<1> QED
  BY <1>1, <1>2 DEF ChoicesInv

-----------------------------------------------------------------------------
(* What the user does.                                                     *)

\* With nothing to do, every choice is on the card.
Idles(d, s, ch) ==
  /\ Whole(d) /\ Lives(d) /\ Seen(d, s)
  /\ \A name \in DOMAIN ch : KeepsIn(d, name, ch[name][2])

LEMMA ActKept ==
  ASSUME KeptInv, NEW steps, steps # <<>>, Acts(steps),
         \A d : Idles(d, screen, chosen) => /\ \A busy : Fit(Head(steps), Tail(steps), d, screen', chosen', busy)
                                            /\ \A name \in DOMAIN chosen' : Promised(d, steps, chosen', name)
  PROVE  KeptInv'
<1>1. on /\ todo = <<>> /\ Counted("acts") /\ todo' = steps /\ card' = card /\ call' = call /\ held' = held /\ job' = job /\ on' = on
  BY DEF Acts, Idle
<1>2. CountInv' /\ (Undisturbed' => Undisturbed)
  BY <1>1, Counting DEF KeptInv
<1>3. ASSUME NEW d, Good(d, todo, screen, chosen, on, held, job # NoJob)
      PROVE  Good(d, todo', screen', chosen', on', held', job' # NoJob)
  <2>1. Idles(d, screen, chosen)
    BY <1>1, <1>3 DEF Good, Promised, Idles
  <2>2. Fit(Head(steps), Tail(steps), d, screen', chosen', job # NoJob)
        /\ \A name \in DOMAIN chosen' : Promised(d, steps, chosen', name)
    BY <2>1
  <2> QED
    BY <1>1, <2>1, <2>2 DEF Good, Idles
<1>4. ChoicesInv'
  BY <1>1, <1>2, <1>3, CallStays DEF KeptInv
<1>5. PlaceInv'
  BY <1>1 DEF KeptInv, PlaceInv
<1> QED
  BY <1>2, <1>4, <1>5 DEF KeptInv

LEMMA Choosing ==
  ASSUME NEW name, NEW list, IsModList(list), Chose(name, list), NEW step, step = <<"save", name, list>>
  PROVE  /\ KeepsSaved(step, chosen')
         /\ \A d, rest : (\A p \in DOMAIN chosen : KeepsIn(d, p, chosen[p][2]))
              => \A steps : steps # <<>> /\ Head(steps) = step => \A p \in DOMAIN chosen' : Promised(d, steps, chosen', p)
<1>1. /\ DOMAIN chosen' = DOMAIN chosen \cup {name} /\ chosen'[name] = <<Before(name), list>>
      /\ \A p \in DOMAIN chosen : p # name => chosen'[p] = chosen[p]
  BY DEF Chose, With
<1>2. chosen'[name][2] = list
  BY <1>1
<1>3. step[1] = "save" /\ step[2] = name /\ step[3] = list
  OBVIOUS
<1> QED
  BY <1>1, <1>2, <1>3, KeepsItself DEF KeepsSaved, Promised

LEMMA SavesKept ==
  ASSUME ManagerInv, KeptInv, NEW entries, IsModList(entries), Saves(entries)
  PROVE  KeptInv'
<1> DEFINE step == <<"save", screen.profile, entries>>
<1>1. /\ Acts(<<step>>) /\ Chose(screen.profile, entries)
      /\ screen' = [screen EXCEPT !.entries = entries]
  BY DEF Saves
<1>2. screen'.profile = screen.profile /\ screen'.profiles = screen.profiles
  BY <1>1 DEF ManagerInv, ScreenInv
<1>3. step[1] = "save" /\ step[2] = screen.profile /\ step = <<"save", screen.profile, entries>>
  OBVIOUS
<1> HIDE DEF step
<1>4. KeepsSaved(step, chosen') /\ Head(<<step>>) = step /\ Tail(<<step>>) = <<>> /\ <<step>> # <<>>
  BY <1>1, <1>3, Choosing, HeadsAndTails
<1>5. ASSUME NEW d, Idles(d, screen, chosen)
      PROVE  /\ \A busy : Fit(Head(<<step>>), Tail(<<step>>), d, screen', chosen', busy)
             /\ \A name \in DOMAIN chosen' : Promised(d, <<step>>, chosen', name)
  <2>1. Seen(d, screen')
    BY <1>2, <1>5 DEF Idles, Seen
  <2>2. \A busy : Fit(step, <<>>, d, screen', chosen', busy)
    BY <1>2, <1>3, <1>4, <1>5, <2>1 DEF Fit, Idles
  <2>3. \A p \in DOMAIN chosen : KeepsIn(d, p, chosen[p][2])
    BY <1>5 DEF Idles
  <2>4. \A steps : steps # <<>> /\ Head(steps) = step => \A p \in DOMAIN chosen' : Promised(d, steps, chosen', p)
    BY <1>1, <1>3, <2>3, Choosing
  <2> QED
    BY <1>4, <2>2, <2>4
<1> QED
  BY <1>1, <1>4, <1>5, ActKept

\* What is saved is a list.
LEMMA SavedIsAList ==
  ASSUME TodoInv', NEW name, NEW entries, NEW rest, todo' = <<<<"save", name, entries>>>> \o rest, IsASequence(rest)
  PROVE  IsModList(entries)
<1> DEFINE step == <<"save", name, entries>>
<1>1. step[1] = "save" /\ step[3] = entries
  OBVIOUS
<1>2. todo' = <<step>> \o rest
  OBVIOUS
<1> HIDE DEF step
<1>3. PICK S : rest \in Seq(S)
  BY DEF IsASequence
<1>4. 1 \in 1..Len(todo') /\ todo'[1] = step
  BY <1>2, <1>3
<1> QED
  BY <1>1, <1>4 DEF TodoInv, GoodSteps, GoodStep

LEMMA SavesAList ==
  ASSUME ManagerInv', NEW entries, Saves(entries)
  PROVE  IsModList(entries)
<1>1. todo' = <<<<"save", screen.profile, entries>>>>
  BY DEF Saves, Acts
<1> DEFINE step == <<"save", screen.profile, entries>>
<1>2. step[1] = "save" /\ step[3] = entries /\ todo' = <<step>>
  BY <1>1
<1> HIDE DEF step
<1>3. 1 \in 1..Len(todo') /\ todo'[1] = step
  BY <1>2
<1> QED
  BY <1>2, <1>3 DEF ManagerInv, TodoInv, GoodSteps, GoodStep

LEMMA ToggleKept ==
  ASSUME ManagerInv, KeptInv, NEW folder, Toggle(folder)
  PROVE  KeptInv'
<1>1. PICK entries : Saves(entries)
  BY DEF Toggle
<1> QED
  BY <1>1, ToggleKeeps, SavesAList, SavesKept

LEMMA SelectKept ==
  ASSUME ManagerInv, KeptInv, NEW folder, NEW option \in OptionNames, Select(folder, option)
  PROVE  KeptInv'
<1>1. PICK entries : Saves(entries)
  BY DEF Select
<1> QED
  BY <1>1, SelectKeeps, SavesAList, SavesKept

LEMMA MoveKept ==
  ASSUME ManagerInv, KeptInv, NEW folder, NEW position \in Nat, Move(folder, position)
  PROVE  KeptInv'
<1>1. PICK entries : Saves(entries)
  BY DEF Move
<1> QED
  BY <1>1, MoveKeeps, SavesAList, SavesKept

\* A call, and the card is read again.
LEMMA OneActKept ==
  ASSUME KeptInv, NEW step, Acts(<<step>> \o Reload),
         \A d : Idles(d, screen, chosen) =>
           /\ \A busy : Fit(step, Reload, d, screen', chosen', busy)
           /\ \A name \in DOMAIN chosen' : \/ KeepsIn(d, name, chosen'[name][2])
                                           \/ step[1] = "rename" /\ step[3] = name /\ KeepsIn(d, step[2], chosen'[name][2])
  PROVE  KeptInv'
<1>1. PICK steps : steps = <<step>> \o Reload
  OBVIOUS
<1>2. steps # <<>> /\ Head(steps) = step /\ Tail(steps) = Reload
  BY <1>1, Fronts, ReloadIsOne
<1>3. Acts(steps)
  BY <1>1
<1>4. \A d : Idles(d, screen, chosen) => \A name \in DOMAIN chosen' : Promised(d, steps, chosen', name)
  BY <1>2 DEF Promised
<1> QED
  BY <1>2, <1>3, <1>4, ActKept

LEMMA CreateKept ==
  ASSUME ManagerInv, KeptInv, NEW name \in NewNames, NEW copy, Create(name, copy)
  PROVE  KeptInv'
<1> DEFINE made == IF copy THEN screen.entries ELSE [i \in 1..Len(screen.mods) |-> Listed(screen.mods[i].folder, FALSE, <<>>)]
<1>1. PICK entries : entries = made
  OBVIOUS
<1> DEFINE step == <<"save", name, entries>>
           next == <<"activate", name>>
<1>2. Acts(<<step, next>> \o Reload) /\ Chose(name, entries) /\ screen' = screen
  BY <1>1 DEF Create
<1>3. /\ step[1] = "save" /\ step[2] = name /\ step[3] = entries /\ step = <<"save", name, entries>>
      /\ <<next>> = <<<<"activate", step[2]>>>>
  OBVIOUS
<1> HIDE DEF step, next
<1>4. PICK steps : steps = <<step, next>> \o Reload
  OBVIOUS
<1>5. steps # <<>> /\ Head(steps) = step /\ Tail(steps) = <<next>> \o Reload
  BY <1>4, Fronts, ReloadIsOne
<1>6. Acts(steps) /\ todo' = steps
  BY <1>2, <1>4 DEF Acts
<1>7. IsModList(entries)
  <2>1. PICK S : Reload \in Seq(S)
    BY ReloadIsOne DEF IsASequence
  <2>2. 1 \in 1..Len(todo') /\ todo'[1] = step
    BY <1>4, <1>6, <2>1
  <2>3. TodoInv'
    BY CreateKeeps DEF ManagerInv
  <2> QED
    BY <1>3, <2>2, <2>3 DEF TodoInv, GoodSteps, GoodStep
<1>8. KeepsSaved(step, chosen')
  BY <1>2, <1>3, <1>7, Choosing
<1>9. name # ""
  BY CardsAssumption, NamesAssumption
<1>10. ASSUME NEW d, Idles(d, screen, chosen)
       PROVE  /\ \A busy : Fit(Head(steps), Tail(steps), d, screen', chosen', busy)
              /\ \A p \in DOMAIN chosen' : Promised(d, steps, chosen', p)
  <2>1. \A busy : Fit(step, <<next>> \o Reload, d, screen', chosen', busy)
    BY <1>3, <1>8, <1>9, <1>10 DEF Fit, Idles
  <2>2. \A p \in DOMAIN chosen : KeepsIn(d, p, chosen[p][2])
    BY <1>10 DEF Idles
  <2>3. \A p \in DOMAIN chosen' : Promised(d, steps, chosen', p)
    BY <1>2, <1>3, <1>5, <1>7, <2>2, Choosing
  <2> QED
    BY <1>5, <2>1, <2>3
<1> QED
  BY <1>5, <1>6, <1>10, ActKept

LEMMA ActivateKept ==
  ASSUME KeptInv, NEW name, Activate(name)
  PROVE  KeptInv'
<1> DEFINE step == <<"activate", name>>
<1>1. Acts(<<step>> \o Reload) /\ chosen' = chosen /\ screen' = screen /\ name \in ToSet(screen.profiles)
  BY DEF Activate
<1>2. step[1] = "activate" /\ step[2] = name
  OBVIOUS
<1> HIDE DEF step
<1>3. ASSUME NEW d, Idles(d, screen, chosen)
      PROVE  /\ \A busy : Fit(step, Reload, d, screen', chosen', busy)
             /\ \A p \in DOMAIN chosen' : KeepsIn(d, p, chosen'[p][2])
  <2>1. name # "" /\ HasProfile(d, name)
    BY <1>1, <1>3, NamesAssumption DEF Idles, Seen
  <2> QED
    BY <1>1, <1>2, <1>3, <2>1 DEF Fit, Idles
<1> QED
  BY <1>1, <1>3, OneActKept

LEMMA RenameKept ==
  ASSUME KeptInv, NEW name, NEW to \in NewNames, Rename(name, to)
  PROVE  KeptInv'
<1> DEFINE step == <<"rename", name, to>>
<1>1. /\ Acts(<<step>> \o Reload) /\ screen' = screen /\ name \in ToSet(screen.profiles) /\ to \notin ToSet(screen.profiles)
      /\ chosen' = (IF name \notin DOMAIN chosen THEN chosen
                    ELSE [p \in (DOMAIN chosen \ {name}) \cup {to} |-> IF p = to THEN chosen[name] ELSE chosen[p]])
  BY DEF Rename
<1>2. step[1] = "rename" /\ step[2] = name /\ step[3] = to
  OBVIOUS
<1> HIDE DEF step
<1>3. to \in Names /\ to # "" /\ name # to
  BY <1>1, CardsAssumption, NamesAssumption
<1>4. /\ name \notin DOMAIN chosen'
      /\ \A p \in DOMAIN chosen' : \/ p \in DOMAIN chosen /\ chosen'[p] = chosen[p]
                                   \/ p = to /\ name \in DOMAIN chosen /\ chosen'[p] = chosen[name]
  BY <1>1, <1>3
<1>5. ASSUME NEW d, Idles(d, screen, chosen)
      PROVE  /\ \A busy : Fit(step, Reload, d, screen', chosen', busy)
             /\ \A p \in DOMAIN chosen' : \/ KeepsIn(d, p, chosen'[p][2])
                                          \/ step[1] = "rename" /\ step[3] = p /\ KeepsIn(d, step[2], chosen'[p][2])
  <2>1. HasProfile(d, name) /\ ~HasProfile(d, to)
    BY <1>1, <1>3, <1>5 DEF Idles, Seen
  <2>2. \A busy : Fit(step, Reload, d, screen', chosen', busy)
    BY <1>2, <1>3, <1>4, <1>5, <2>1 DEF Fit, Idles
  <2> QED
    BY <1>2, <1>4, <1>5, <2>2 DEF Idles
<1> QED
  BY <1>1, <1>5, OneActKept

LEMMA DeleteKept ==
  ASSUME KeptInv, NEW name, Delete(name)
  PROVE  KeptInv'
<1> DEFINE step == <<"delete", name>>
<1>1. /\ Acts(<<step>> \o Reload) /\ screen' = screen /\ name \in ToSet(screen.profiles) /\ name # screen.profile
      /\ chosen' = [p \in DOMAIN chosen \ {name} |-> chosen[p]]
  BY DEF Delete
<1>2. step[1] = "delete" /\ step[2] = name
  OBVIOUS
<1> HIDE DEF step
<1>3. ASSUME NEW d, Idles(d, screen, chosen)
      PROVE  /\ \A busy : Fit(step, Reload, d, screen', chosen', busy)
             /\ \A p \in DOMAIN chosen' : KeepsIn(d, p, chosen'[p][2])
  <2>1. HasProfile(d, name) /\ name # Active(d) /\ Lives(d) /\ name \notin DOMAIN chosen'
    BY <1>1, <1>3 DEF Idles, Seen
  <2> QED
    BY <1>1, <1>2, <1>3, <2>1 DEF Fit, Idles
<1> QED
  BY <1>1, <1>3, OneActKept

LEMMA UninstallModKept ==
  ASSUME KeptInv, NEW folder, UninstallMod(folder)
  PROVE  KeptInv'
<1> DEFINE step == <<"uninstall", folder>>
<1>1. /\ Acts(<<step>> \o Reload) /\ screen' = screen
      /\ chosen' = [p \in DOMAIN chosen |-> <<Without(chosen[p][1], {folder}), Without(chosen[p][2], {folder})>>]
  BY DEF UninstallMod
<1>2. step[1] = "uninstall" /\ step[2] = folder
  OBVIOUS
<1> HIDE DEF step
<1>3. DOMAIN chosen' = DOMAIN chosen /\ \A p \in DOMAIN chosen : chosen'[p][2] = Without(chosen[p][2], {folder})
  BY <1>1
<1>4. ASSUME NEW d, Idles(d, screen, chosen)
      PROVE  /\ \A busy : Fit(step, Reload, d, screen', chosen', busy)
             /\ \A p \in DOMAIN chosen' : KeepsIn(d, p, chosen'[p][2])
  <2>1. ASSUME NEW p \in DOMAIN chosen'
        PROVE  KeepsIn(d, p, chosen'[p][2]) /\ folder \notin FoldersIn(chosen'[p][2])
    <3>1. PICK list, kept : list = LoadProfile(d, p) /\ kept = chosen[p][2]
      OBVIOUS
    <3>2. HasProfile(d, p) /\ IsModList(list) /\ Keeps(list, kept)
      BY <1>3, <1>4, <3>1 DEF Idles, KeepsIn, Whole
    <3>3. Keeps(list, Without(kept, {folder})) /\ folder \notin FoldersIn(Without(kept, {folder}))
      BY <3>2, KeepsLess
    <3> QED
      BY <1>3, <3>1, <3>2, <3>3 DEF KeepsIn
  <2> QED
    BY <1>2, <1>4, <2>1 DEF Fit, Idles
<1> QED
  BY <1>1, <1>4, OneActKept

LEMMA LoadPluginsKept ==
  ASSUME KeptInv, NEW folder, LoadPlugins(folder)
  PROVE  KeptInv'
<1>1. PICK loaded : Acts(<<<<"plugins", folder, loaded>>>> \o Reload)
  BY DEF LoadPlugins
<1>2. screen' = screen /\ chosen' = chosen
  BY DEF LoadPlugins
<1> DEFINE step == <<"plugins", folder, loaded>>
<1>3. Acts(<<step>> \o Reload) /\ step[1] = "plugins"
  BY <1>1
<1> HIDE DEF step
<1>4. ASSUME NEW d, Idles(d, screen, chosen)
      PROVE  /\ \A busy : Fit(step, Reload, d, screen', chosen', busy)
             /\ \A p \in DOMAIN chosen' : KeepsIn(d, p, chosen'[p][2])
  BY <1>2, <1>3, <1>4 DEF Fit, Idles
<1> QED
  BY <1>3, <1>4, OneActKept

-----------------------------------------------------------------------------
(* Installations, and opening and closing.                                 *)

LEMMA FoundAway ==
  ASSUME NEW tree, NEW candidate, candidate \in Candidates(tree, DownloadDir),
         \A p \in DOMAIN tree : IsPrefix(DownloadDir, p) => Away(p)
  PROVE  Away(candidate.path)
<1>1. PICK dir \in Walked(tree, DownloadDir) : candidate \in FoundIn(tree, dir)
  BY DEF Candidates
<1>2. Away(dir)
  BY DEF Walked, Inside
<1>3. \/ \E f : candidate = Candidate("package", dir \o <<f>>)
      \/ \E p : candidate = Candidate("patches", (dir \o <<"exefs_patches">>) \o <<p>>)
      \/ \E kind : candidate = Candidate(kind, dir)
  BY <1>1 DEF FoundIn
<1>4. \A kind, path : Candidate(kind, path).path = path
  BY DEF Candidate
<1>5. CASE \E f : candidate = Candidate("package", dir \o <<f>>)
  <2>1. PICK f : candidate = Candidate("package", dir \o <<f>>)
    BY <1>5
  <2>2. Away(dir \o <<f>>)
    BY <1>2, AwayMore
  <2> QED
    BY <1>4, <2>1, <2>2
<1>6. CASE \E p : candidate = Candidate("patches", (dir \o <<"exefs_patches">>) \o <<p>>)
  <2>1. PICK p, base : base = dir \o <<"exefs_patches">> /\ candidate = Candidate("patches", base \o <<p>>)
    BY <1>6
  <2>2. Away(base)
    BY <1>2, <2>1, AwayMore
  <2>3. Away(base \o <<p>>)
    BY <2>2, AwayMore
  <2> QED
    BY <1>4, <2>1, <2>3
<1> QED
  BY <1>2, <1>3, <1>4, <1>5, <1>6

\* Only the tree changes.
LEMMA TreeIsSteady ==
  ASSUME NEW c, IsCard(c), NEW tree, NEW d, d = [c EXCEPT !.tree = tree]
  PROVE  d.texts = c.texts /\ d.tree = tree /\ Steady(c, d)
<1>1. d.texts = c.texts /\ d.tree = tree
  BY DEF IsCard
<1>2. Steady(c, d)
  BY <1>1, SameTextsAreSteady DEF SameText
<1> QED
  BY <1>1, <1>2

LEMMA DownloadKept ==
  ASSUME ManagerInv, KeptInv, NEW name \in DOMAIN Archives, Download(name)
  PROVE  KeptInv'
<1> DEFINE paths == {DownloadDir \o q : q \in DOMAIN Archives[name].tree}
           unpacked == [p \in paths |-> Archives[name].tree[SubSeq(p, 2, Len(p))]]
<1>1. /\ on /\ todo = <<>> /\ Free /\ Counted("installs")
      /\ card' = [card EXCEPT !.tree = Over(unpacked, Less(@, DownloadDir))]
      /\ \E candidate \in Candidates(card'.tree, DownloadDir) :
           job' = [stage |-> "install", archive |-> name, candidate |-> candidate]
      /\ call' = call /\ held' = held /\ todo' = todo /\ screen' = screen /\ on' = on /\ chosen' = chosen
  BY DEF Download, Idle
<1>2. CountInv' /\ (Undisturbed' => Undisturbed)
  BY <1>1, Counting DEF KeptInv
<1>3. PICK tree : tree = Over(unpacked, Less(card.tree, DownloadDir)) /\ card' = [card EXCEPT !.tree = tree]
  BY <1>1 DEF ManagerInv, CardInv, CardIsWhole
<1>4. IsCard(card)
  BY WholeCard DEF ManagerInv, CardInv
<1>5. card'.tree = tree /\ Steady(card, card')
  <2>1. card' = [card EXCEPT !.tree = tree]
    BY <1>3
  <2> QED
    BY <1>4, <2>1, TreeIsSteady
<1>6. ASSUME NEW p \in DOMAIN tree, IsPrefix(DownloadDir, p) PROVE Away(p)
  <2>1. DOMAIN tree = paths \cup {q \in DOMAIN card.tree : ~IsPrefix(DownloadDir, q)}
    BY <1>3 DEF Over, Less
  <2>2. PICK q \in DOMAIN Archives[name].tree : p = DownloadDir \o q
    BY <1>6, <2>1
  <2> DEFINE S == STRING \cup {"downloads"}
  <2>7. q \in Seq(STRING)
    BY CardsAssumption
  <2>3. q \in Seq(S) /\ "downloads" \in S /\ p = <<"downloads">> \o q
    BY <2>2, <2>7 DEF DownloadDir
  <2> HIDE DEF S
  <2>4. p \in Seq(S) /\ Len(p) = 1 + Len(q) /\ Len(q) \in Nat /\ p[1] = "downloads"
    BY <2>3
  <2>5. IsASequence(p)
    BY <2>4, SequenceOf
  <2> QED
    BY <2>4, <2>5 DEF Away
<1>7. PICK candidate : job' = [stage |-> "install", archive |-> name, candidate |-> candidate] /\ Away(candidate.path)
  BY <1>1, <1>5, <1>6, FoundAway
<1>8. PlaceInv'
  BY <1>7 DEF PlaceInv
<1>9. ASSUME Undisturbed' PROVE Good(card', todo', screen', chosen', on', held', job' # NoJob)
  <2>1. Good(card, todo, screen, chosen, on, held, job # NoJob)
    BY <1>1, <1>2, <1>9, NoCallGood DEF KeptInv
  <2>2. Good(card', todo, screen, chosen, on, held, job # NoJob)
    BY <1>5, <2>1, SteadyKeepsGood
  <2> QED
    BY <1>1, <2>2 DEF Good, Promised
<1>10. ChoicesInv'
  BY <1>1, <1>9, NoCallChoices DEF Free
<1> QED
  BY <1>2, <1>8, <1>10 DEF KeptInv

LEMMA JobDoneKept == KeptInv /\ JobDone => KeptInv'
<1> SUFFICES ASSUME KeptInv, JobDone PROVE KeptInv'
  OBVIOUS
<1>1. /\ on /\ todo = <<>> /\ job' = NoJob /\ todo' = Reload
      /\ card' = card /\ call' = call /\ held' = held /\ screen' = screen /\ on' = on /\ count' = count /\ chosen' = chosen
  BY DEF JobDone, Idle
<1>2. CountInv' /\ (Undisturbed' => Undisturbed)
  BY <1>1, SameCount DEF KeptInv
<1>3. NoJob.stage # "install"
  BY DEF NoJob
<1>4. PICK step : step = <<"reload">>
  OBVIOUS
<1>5. step[1] = "reload" /\ Reload # <<>> /\ Head(Reload) = step /\ Tail(Reload) = Normalizing
  BY <1>4, HeadsAndTails DEF Reload, Normalizing
<1>6. ASSUME NEW d, Good(d, todo, screen, chosen, on, held, job # NoJob)
      PROVE  Good(d, todo', screen', chosen', on', held', job' # NoJob)
  <2>1. Lives(d) /\ Whole(d) /\ \A name \in DOMAIN chosen : KeepsIn(d, name, chosen[name][2])
    BY <1>1, <1>6 DEF Good, Promised
  <2>2. Fit(step, Normalizing, d, screen, chosen, job' # NoJob)
    BY <1>5, <2>1 DEF Fit
  <2> QED
    BY <1>1, <1>5, <2>1, <2>2 DEF Good, Promised
<1>7. ChoicesInv'
  BY <1>1, <1>2, <1>6, CallStays DEF KeptInv
<1> QED
  BY <1>1, <1>2, <1>3, <1>7 DEF KeptInv, PlaceInv

LEMMA QuitKept == KeptInv /\ Quit => KeptInv'
<1> SUFFICES ASSUME KeptInv, Quit PROVE KeptInv'
  OBVIOUS
<1>1. /\ on /\ todo = <<>> /\ on' = FALSE
      /\ card' = card /\ call' = call /\ held' = held /\ todo' = todo /\ screen' = screen /\ job' = job /\ count' = count
      /\ chosen' = chosen
  BY DEF Quit, Idle
<1>2. CountInv' /\ (Undisturbed' => Undisturbed)
  BY <1>1, SameCount DEF KeptInv
<1>3. ASSUME NEW d, Good(d, todo, screen, chosen, on, held, job # NoJob)
      PROVE  Good(d, todo', screen', chosen', on', held', job' # NoJob)
  BY <1>1, <1>3 DEF Good
<1>4. ChoicesInv'
  BY <1>1, <1>2, <1>3, CallStays DEF KeptInv
<1> QED
  BY <1>1, <1>2, <1>4 DEF KeptInv, PlaceInv

LEMMA Starting ==
  ASSUME NEW c, NEW d, Whole(d), NEW s, NEW ch, \A name \in DOMAIN ch : KeepsIn(d, name, ch[name][2]), NEW locked
  PROVE  Good(d, Start(c), s, ch, TRUE, locked, FALSE)
<1>1. PICK step, next : step = <<"migrate">> /\ next = <<"reload">>
  OBVIOUS
<1>2. Start(c) = <<step, next, <<"normalize">>>> /\ Reload = <<next, <<"normalize">>>> /\ step[1] = "migrate"
  BY <1>1 DEF Start, Reload
<1>3. \A a, b, e : <<a, b, e>> # <<>> /\ Head(<<a, b, e>>) = a /\ Tail(<<a, b, e>>) = <<b, e>>
  OBVIOUS
<1>4. Start(c) # <<>> /\ Head(Start(c)) = step /\ Tail(Start(c)) = Reload
  BY <1>2, <1>3
<1>5. Fit(step, Reload, d, s, ch, FALSE)
  BY <1>2 DEF Fit
<1> QED
  BY <1>4, <1>5 DEF Good, Promised

LEMMA OpenKept == KeptInv /\ Open => KeptInv'
<1> SUFFICES ASSUME KeptInv, Open PROVE KeptInv'
  OBVIOUS
<1>1. /\ ~on /\ Free /\ on' = TRUE /\ job' = NoJob /\ todo' = Start(card)
      /\ card' = card /\ call' = call /\ held' = held /\ screen' = screen /\ count' = count /\ chosen' = chosen
  BY DEF Open
<1>2. CountInv' /\ (Undisturbed' => Undisturbed)
  BY <1>1, SameCount DEF KeptInv
<1>3. NoJob.stage # "install"
  BY DEF NoJob
<1>4. ASSUME NEW d, Good(d, todo, screen, chosen, on, held, job # NoJob)
      PROVE  Good(d, todo', screen', chosen', on', held', job' # NoJob)
  <2>1. Whole(d) /\ \A name \in DOMAIN chosen : KeepsIn(d, name, chosen[name][2])
    BY <1>1, <1>4 DEF Good, Promised
  <2>2. Good(d, Start(card), screen, chosen, TRUE, held, FALSE)
    BY <2>1, Starting
  <2> QED
    BY <1>1, <2>2
<1>5. ChoicesInv'
  BY <1>1, <1>2, <1>4, CallStays DEF KeptInv
<1> QED
  BY <1>1, <1>2, <1>3, <1>5 DEF KeptInv, PlaceInv

LEMMA PowerCutKept == KeptInv /\ PowerCut => KeptInv'
<1> SUFFICES ASSUME KeptInv, PowerCut PROVE KeptInv'
  OBVIOUS
<1>1. Counted("cuts") /\ job' = NoJob
  BY DEF PowerCut
<1>2. CountInv' /\ ~Undisturbed'
  BY <1>1, Counting DEF KeptInv
<1>3. NoJob.stage # "install"
  BY DEF NoJob
<1> QED
  BY <1>1, <1>2, <1>3 DEF KeptInv, PlaceInv, ChoicesInv

LEMMA ByHandKept == ManagerInv /\ KeptInv /\ ByHand => KeptInv'
<1> SUFFICES ASSUME ManagerInv, KeptInv, ByHand PROVE KeptInv'
  OBVIOUS
<1>1. /\ ~on /\ Free /\ Counted("hand")
      /\ call' = call /\ held' = held /\ todo' = todo /\ screen' = screen /\ job' = job /\ on' = on
      /\ \/ chosen' = chosen /\ \E tree : card' = [card EXCEPT !.tree = tree]
         \/ chosen' = chosen /\ \E folder : card' = Do(<<"rmtree", ModPath(folder)>>, card)
         \/ \E name \in Profiles(card) :
              /\ card' = Do(<<"unlink", ProfileFile(name)>>, card)
              /\ chosen' = [p \in DOMAIN chosen \ {name} |-> chosen[p]]
  <2> DEFINE made(folder) == Over([p \in {ModPath(folder) \o q : q \in DOMAIN HandMods[folder]} |->
                                     HandMods[folder][SubSeq(p, 3, Len(p))]], card.tree)
  <2>1. IsCard(card)
    BY WholeCard DEF ManagerInv, CardInv
  <2>2. \A folder : [card EXCEPT !.tree = Over([p \in {ModPath(folder) \o q : q \in DOMAIN HandMods[folder]} |->
                                                  HandMods[folder][SubSeq(p, 3, Len(p))]], @)] = [card EXCEPT !.tree = made(folder)]
    OBVIOUS
  <2> HIDE DEF made
  <2> QED
    BY <2>2 DEF ByHand
<1>2. CountInv' /\ (Undisturbed' => Undisturbed)
  BY <1>1, Counting DEF KeptInv
<1>3. IsCard(card)
  BY WholeCard DEF ManagerInv, CardInv
<1>4. ASSUME Undisturbed' PROVE Good(card', todo', screen', chosen', on', held', job' # NoJob)
  <2>1. Good(card, todo, screen, chosen, on, held, job # NoJob)
    BY <1>1, <1>2, <1>4, NoCallGood DEF KeptInv
  <2>2. ASSUME Steady(card, card'), chosen' = chosen
        PROVE  Good(card', todo', screen', chosen', on', held', job' # NoJob)
    <3>1. Good(card', todo, screen, chosen, on, held, job # NoJob)
      BY <2>1, <2>2, SteadyKeepsGood
    <3> QED
      BY <1>1, <2>2, <3>1
  <2>3. CASE chosen' = chosen /\ \E tree : card' = [card EXCEPT !.tree = tree]
    <3>1. PICK tree : card' = [card EXCEPT !.tree = tree]
      BY <2>3
    <3>2. Steady(card, card')
      BY <1>3, <3>1, TreeIsSteady
    <3> QED
      BY <2>2, <2>3, <3>2
  <2>4. CASE chosen' = chosen /\ \E folder : card' = Do(<<"rmtree", ModPath(folder)>>, card)
    <3>1. PICK folder, op : op = <<"rmtree", ModPath(folder)>> /\ card' = Do(op, card)
      BY <2>4
    <3>2. op[1] = "rmtree" /\ op[2] = ModPath(folder)
      BY <3>1
    <3>3. Plain(op) /\ card' = Done(op, card)
      BY <3>1, <3>2, AwayPaths DEF Plain, Done
    <3>4. Steady(card, card')
      BY <1>3, <3>3, PlainIsSteady
    <3> QED
      BY <2>2, <2>4, <3>4
  <2>5. CASE \E name \in Profiles(card) : /\ card' = Do(<<"unlink", ProfileFile(name)>>, card)
                                          /\ chosen' = [p \in DOMAIN chosen \ {name} |-> chosen[p]]
    <3>1. PICK name \in Profiles(card) : /\ card' = Do(<<"unlink", ProfileFile(name)>>, card)
                                         /\ chosen' = [p \in DOMAIN chosen \ {name} |-> chosen[p]]
      BY <2>5
    <3>2. PICK op : op = <<"unlink", ProfileFile(name)>>
      OBVIOUS
    <3>3. HasProfile(card, name)
      BY DEF Profiles, IsProfile, HasProfile
    <3>4. op[1] = "unlink" /\ card' = Done(op, card)
      BY <3>1, <3>2 DEF Done
    <3>5. PICK ops : ops = DeleteProfile(card, name)
      OBVIOUS
    <3>6. card' = After(ops, card)
      BY <3>2, <3>4, <3>5, RunOfOne DEF DeleteProfile
    <3>7. ~HasProfile(card', name) /\ \A p : p # name => SameProfile(card, card', p)
      BY <1>3, <3>3, <3>5, <3>6, DeletingDoes
    <3>8. Whole(card')
      BY <2>1, <3>7 DEF Good, Whole, SameProfile
    <3>9. todo = <<>> /\ \A p \in DOMAIN chosen : KeepsIn(card, p, chosen[p][2])
      BY <1>1, <2>1 DEF Good, Promised
    <3>10. \A p \in DOMAIN chosen' : KeepsIn(card', p, chosen'[p][2])
      BY <3>1, <3>7, <3>9 DEF KeepsIn, SameProfile
    <3> QED
      BY <1>1, <3>8, <3>9, <3>10 DEF Good, Promised
  <2> QED
    BY <1>1, <2>2, <2>3, <2>4, <2>5
<1>5. ChoicesInv'
  BY <1>1, <1>4, NoCallChoices DEF Free
<1>6. PlaceInv'
  BY <1>1 DEF KeptInv, PlaceInv
<1> QED
  BY <1>2, <1>5, <1>6 DEF KeptInv

LEMMA WorkerCallsKept == ManagerInv /\ KeptInv /\ WorkerCalls => KeptInv'
<1> SUFFICES ASSUME ManagerInv, KeptInv, WorkerCalls PROVE KeptInv'
  OBVIOUS
<1>1. PICK step : /\ step = IF job.stage = "clean" THEN <<"clean">>
                            ELSE <<"install", Inspect(card.tree, ModPath(Archives[job.archive].folder)) = NotAMod>>
                  /\ call' = [who |-> "worker", step |-> step, ops |-> Calls(step)]
  BY DEF WorkerCalls
<1>2. /\ job.stage \in {"install", "clean"} /\ Free /\ ~held
      /\ card' = card /\ held' = held /\ todo' = todo /\ screen' = screen /\ job' = job /\ on' = on /\ count' = count
      /\ chosen' = chosen
  BY DEF WorkerCalls
<1>3. CountInv' /\ (Undisturbed' => Undisturbed)
  BY <1>2, SameCount DEF KeptInv
<1>4. CardIsWhole(card) /\ IsCard(card)
  BY WholeCard DEF ManagerInv, CardInv
<1>5. job # NoJob
  <2>1. NoJob.stage = "none"
    BY DEF NoJob
  <2> QED
    BY <1>2, <2>1
<1>6. PICK ops, e : ops = Calls(step) /\ e = After(ops, card)
  OBVIOUS
<1>7. ASSUME Whole(card)
      PROVE  Grows(card, e) /\ Early(ops, card)
  <2>1. CASE job.stage = "clean"
    <3>1. step[1] = "clean"
      BY <1>1, <2>1
    <3>2. ops = <<<<"rmtree", DownloadDir>>>>
      BY <1>6, <3>1 DEF Calls
    <3>3. PlainOps(ops)
      BY <3>2, PlainCalls, AwayPaths
    <3>4. Steady(card, e) /\ Early(ops, card)
      BY <1>4, <1>6, <3>3, PlainDoes
    <3> QED
      BY <1>7, <3>4, SteadyGrows
  <2>2. CASE job.stage = "install"
    <3>1. step[1] = "install"
      BY <1>1, <2>2
    <3>2. PICK candidate, folder, info : candidate = job.candidate /\ folder = Archives[job.archive].folder /\ info = Archives[job.archive].info
      OBVIOUS
    <3>3. folder \in Names
      BY <2>2, <3>2, CardsAssumption DEF ManagerInv, JobInv
    <3>4. Away(candidate.path)
      BY <2>2, <3>2 DEF KeptInv, PlaceInv
    <3>5. ops = Install(card, candidate, folder, info)
      BY <1>6, <3>1, <3>2 DEF Calls
    <3> QED
      BY <1>4, <1>6, <3>3, <3>4, <3>5, InstallingDoes
  <2> QED
    BY <1>2, <2>1, <2>2
<1>8. ChoicesInv'
  <2> SUFFICES ASSUME Undisturbed'
               PROVE  /\ Good(After(call'.ops, card'), todo', screen', chosen', on', held', job' # NoJob)
                      /\ \A i \in 1..Len(call'.ops) :
                           \/ CanDo(call'.ops[i], Run(call'.ops, card')[i - 1])
                           \/ Soft(call') /\ Good(Run(call'.ops, card')[i - 1], todo', screen', chosen', on', held', job' # NoJob)
    BY DEF ChoicesInv
  <2>1. Good(card, todo, screen, chosen, on, held, job # NoJob)
    BY <1>2, <1>3, NoCallGood DEF KeptInv
  <2>2. Grows(card, e) /\ Early(ops, card)
    BY <1>7, <2>1 DEF Good
  <2>3. Good(e, todo, screen, chosen, on, held, job # NoJob)
    BY <1>2, <1>5, <2>1, <2>2, GrowsKeepsGood
  <2>4. call'.ops = ops /\ call'.who = "worker"
    BY <1>1, <1>6
  <2>5. ASSUME NEW i \in 1..Len(ops)
        PROVE  CanDo(ops[i], Run(ops, card)[i - 1]) \/ Good(Run(ops, card)[i - 1], todo, screen, chosen, on, held, job # NoJob)
    <3>1. PICK d : d = Run(ops, card)[i - 1]
      OBVIOUS
    <3>2. CanDo(ops[i], d) \/ Steady(card, d)
      BY <2>2, <3>1 DEF Early
    <3> QED
      BY <2>1, <3>1, <3>2, SteadyKeepsGood
  <2> QED
    BY <1>2, <1>6, <2>3, <2>4, <2>5 DEF Soft
<1>9. PlaceInv'
  BY <1>2 DEF KeptInv, PlaceInv
<1> QED
  BY <1>3, <1>8, <1>9 DEF KeptInv

-----------------------------------------------------------------------------
(* The card is read, and the list is made complete.                        *)

LEMMA StateIsSeen ==
  ASSUME NEW c, NEW s, s = StateOf(c)
  PROVE  /\ Seen(c, s)
         /\ \A ch : (\A name \in DOMAIN ch : KeepsIn(c, name, ch[name][2])) => SawKept(c, s, ch)
<1>1. s.profile = Active(c) /\ s.profiles = InOrder(Profiles(c))
  BY DEF StateOf
<1>2. \A name : name \in Profiles(c) <=> HasProfile(c, name)
  BY DEF Profiles, HasProfile, IsProfile, ProfileFile
<1>3. PICK names, order : names = Profiles(c) /\ order = InOrder(names)
  OBVIOUS
<1>4. /\ order \in Seq(Names) /\ IsASequence(order)
      /\ \A i \in 1..Len(order) : order[i] \in names
  BY <1>3, NamesInOrder, SequenceOf
<1>5. ASSUME NEW name \in Names PROVE name \in ToSet(order) <=> name \in names
  <2>1. ASSUME name \in names PROVE name \in ToSet(order)
    <3>1. Has(NameOrder, name) /\ NameOrder \in Seq(Names)
      <4>3. NameOrder \in Seq(Names)
        BY NamesAssumption
      <4>1. NameOrder \in Seq(Names) /\ DOMAIN NameOrder = 1..Len(NameOrder)
        BY <4>3
      <4>2. \E i \in DOMAIN NameOrder : NameOrder[i] = name
        BY DEF Names, ToSet
      <4> QED
        BY <4>1, <4>2 DEF Has
    <3>2. Has(order, name)
      BY <1>3, <2>1, <3>1, AmongHas DEF InOrder
    <3> QED
      BY <1>4, <3>2 DEF Has, ToSet
  <2> QED
    BY <1>4, <2>1 DEF ToSet
<1>6. ToSet(order) \subseteq Names
  BY <1>4 DEF ToSet
<1>7. Seen(c, s)
  BY <1>1, <1>2, <1>3, <1>4, <1>5, <1>6 DEF Seen
<1>8. ASSUME NEW ch, \A name \in DOMAIN ch : KeepsIn(c, name, ch[name][2])
      PROVE  SawKept(c, s, ch)
  BY <1>8, StateOfIs DEF SawKept, KeepsIn
<1> QED
  BY <1>7, <1>8

LEMMA ReadsKept == ManagerInv /\ KeptInv /\ Reads => KeptInv'
<1> SUFFICES ASSUME ManagerInv, KeptInv, Reads PROVE KeptInv'
  OBVIOUS
<1>1. /\ on /\ Free /\ todo # <<>> /\ Head(todo)[1] \in {"reload", "read"}
      /\ screen' = StateOf(card) /\ todo' = Tail(todo) /\ held' = (held /\ todo' # <<>>)
      /\ card' = card /\ call' = call /\ job' = job /\ on' = on /\ count' = count /\ chosen' = chosen
  BY DEF Reads
<1>2. CountInv' /\ (Undisturbed' => Undisturbed)
  BY <1>1, SameCount DEF KeptInv
<1>3. PICK step, rest : step = Head(todo) /\ rest = Tail(todo)
  OBVIOUS
<1>4. ASSUME Undisturbed' PROVE Good(card', todo', screen', chosen', on', held', job' # NoJob)
  <2>1. Good(card, todo, screen, chosen, on, held, job # NoJob)
    BY <1>1, <1>2, <1>4, NoCallGood DEF KeptInv
  <2>2. Whole(card) /\ \A name \in DOMAIN chosen : KeepsIn(card, name, chosen[name][2])
    BY <1>1, <2>1 DEF Good, Promised
  <2>3. Seen(card, screen') /\ SawKept(card, screen', chosen)
    BY <1>1, <2>2, StateIsSeen
  <2>4. Fit(step, rest, card, screen, chosen, job # NoJob) \/ (held /\ FitHeld(step, rest, card, screen, chosen))
    BY <1>1, <1>3, <2>1 DEF Good
  <2>5. \/ rest = Normalizing /\ (job # NoJob => Lives(card))
        \/ held /\ rest = ThenComplete /\ Active(card) # ""
        \/ rest = <<>> /\ Lives(card)
    BY <1>1, <1>3, <2>4 DEF Fit, FitHeld
  <2>6. \A name \in DOMAIN chosen' : Promised(card', todo', chosen', name)
    BY <1>1, <2>2 DEF Promised
  <2>7. CASE rest = Normalizing /\ (job # NoJob => Lives(card))
    <3>1. PICK next : next = <<"normalize">>
      OBVIOUS
    <3>2. todo' # <<>> /\ Head(todo') = next /\ Tail(todo') = <<>> /\ next[1] = "normalize"
      BY <1>1, <1>3, <2>7, <3>1, HeadsAndTails DEF Normalizing
    <3>3. Fit(next, <<>>, card, screen', chosen, job # NoJob)
      BY <2>3, <2>7, <3>2 DEF Fit
    <3> QED
      BY <1>1, <2>2, <2>6, <3>2, <3>3 DEF Good
  <2>8. CASE held /\ rest = ThenComplete /\ Active(card) # ""
    <3>1. PICK next : next = <<"complete">>
      OBVIOUS
    <3>2. todo' # <<>> /\ Head(todo') = next /\ Tail(todo') = <<>> /\ next[1] = "complete"
      BY <1>1, <1>3, <2>8, <3>1, HeadsAndTails DEF ThenComplete
    <3>3. FitHeld(next, <<>>, card, screen', chosen) /\ held'
      BY <1>1, <2>3, <2>8, <3>2 DEF FitHeld
    <3> QED
      BY <1>1, <2>2, <2>6, <3>2, <3>3 DEF Good
  <2>9. CASE rest = <<>> /\ Lives(card)
    BY <1>1, <1>3, <2>2, <2>3, <2>6, <2>9 DEF Good
  <2> QED
    BY <2>5, <2>7, <2>8, <2>9
<1>5. ChoicesInv'
  BY <1>1, <1>4, NoCallChoices DEF Free
<1>6. PlaceInv'
  BY <1>1 DEF KeptInv, PlaceInv
<1> QED
  BY <1>2, <1>5, <1>6 DEF KeptInv

LEMMA OfThree == \A a, b, c : <<a, b, c>> # <<>> /\ Head(<<a, b, c>>) = a /\ Tail(<<a, b, c>>) = <<b, c>>
OBVIOUS

LEMMA AddedIsNew ==
  ASSUME NEW s, GoodMods(s.mods)
  PROVE  \A i \in 1..Len(Added(s)) : Added(s)[i].folder \notin FoldersIn(s.entries)
<1> DEFINE mods == Without(s.mods, FoldersIn(s.entries))
           new == Added(s)
<1>1. GoodMods(mods) /\ \A i \in 1..Len(mods) : mods[i].folder \notin FoldersIn(s.entries)
  BY PartOfMods DEF Without
<1>2. Len(mods) \in Nat
  BY <1>1 DEF GoodMods, IsASequence
<1>3. new = [i \in 1..Len(mods) |-> Listed(mods[i].folder, TRUE, <<>>)]
  BY DEF Added
<1> HIDE DEF mods, new
<1>4. Len(new) = Len(mods) /\ \A i \in 1..Len(new) : new[i].folder = mods[i].folder
  BY <1>2, <1>3 DEF Listed
<1>5. \A i \in 1..Len(new) : new[i].folder \notin FoldersIn(s.entries)
  BY <1>1, <1>4
<1> QED
  BY <1>5 DEF new

LEMMA CompletingFits ==
  ASSUME NEW d, NEW s, NEW ch, Whole(d), \A p \in DOMAIN ch : KeepsIn(d, p, ch[p][2]), Seen(d, s), SawKept(d, s, ch),
         GoodMods(s.mods), IsModList(s.entries), s.profile = "" => s.profiles = <<>>,
         NEW steps, steps = Complete(s), NEW locked, steps # <<>> => locked, NEW busy
  PROVE  Good(d, steps, s, ch, TRUE, locked, busy)
<1> DEFINE name == IF s.profile = "" THEN DefaultProfile ELSE s.profile
<1>1. name # ""
  BY CardsAssumption, NamesAssumption
<1>2. \A p \in DOMAIN ch : Promised(d, steps, ch, p)
  BY DEF Promised
<1>3. CASE s.profile = "" \/ ~s.exists
  <2> DEFINE step == <<"add", name, ByModIni(s.mods)>>
             rest == <<<<"activate", name>>, <<"read">>>>
  <2>1. steps = <<step, <<"activate", name>>, <<"read">>>>
    BY <1>3 DEF Complete
  <2>2. step[1] = "add" /\ step[2] = name /\ step[3] = ByModIni(s.mods)
    OBVIOUS
  <2>3. steps # <<>> /\ Head(steps) = step /\ Tail(steps) = rest
    <3> HIDE DEF name, step
    <3> QED
      <4>1. PICK second, third : second = <<"activate", name>> /\ third = <<"read">>
        OBVIOUS
      <4>2. steps = <<step, second, third>> /\ rest = <<second, third>>
        BY <2>1, <4>1
      <4> HIDE DEF rest
      <4> QED
        BY <4>2, OfThree
  <2>4. name \notin DOMAIN ch
    <3>1. CASE s.profile = ""
      <4>1. DefaultProfile \in Names /\ name = DefaultProfile
        BY <3>1, CardsAssumption
      <4>2. DefaultProfile \notin ToSet(s.profiles)
        <5>1. s.profiles = <<>>
          BY <3>1
        <5> QED
          BY <5>1 DEF ToSet
      <4>3. ~HasProfile(d, name)
        BY <4>1, <4>2 DEF Seen
      <4> QED
        BY <4>3 DEF KeepsIn
    <3>2. CASE s.profile # ""
      <4>1. name = s.profile /\ ~HasProfile(d, name)
        BY <1>3, <3>2 DEF SawKept
      <4> QED
        BY <4>1 DEF KeepsIn
    <3> QED
      BY <3>1, <3>2
  <2> HIDE DEF name, step
  <2>5. rest = <<<<"activate", step[2]>>, <<"read">>>>
    BY <2>2
  <2> HIDE DEF rest
  <2>6. FitHeld(step, rest, d, s, ch)
    BY <1>1, <2>2, <2>4, <2>5 DEF FitHeld, KeepsSaved
  <2> QED
    BY <1>2, <2>3, <2>6 DEF Good
<1>4. CASE ~(s.profile = "" \/ ~s.exists) /\ Added(s) # <<>>
  <2> DEFINE list == Added(s) \o s.entries
             step == <<"add", s.profile, list>>
  <2>1. steps = <<step, <<"read">>>>
    BY <1>4 DEF Complete
  <2>2. step[1] = "add" /\ step[2] = s.profile /\ step[3] = list
    OBVIOUS
  <2> HIDE DEF step
  <2>3. steps # <<>> /\ Head(steps) = step /\ Tail(steps) = ThenRead
    BY <2>1, HeadsAndTails DEF ThenRead
  <2>4. ASSUME s.profile \in DOMAIN ch PROVE Keeps(list, ch[s.profile][2])
    <3>1. PICK new, entries, kept : new = Added(s) /\ entries = s.entries /\ kept = ch[s.profile][2]
      OBVIOUS
    <3>2. Keeps(entries, kept) /\ IsModList(entries) /\ IsModList(new)
      BY <1>4, <2>4, <3>1, AddedIsAList DEF SawKept
    <3>3. \A i \in 1..Len(new) : new[i].folder \notin FoldersIn(entries)
      BY <3>1, AddedIsNew
    <3>4. Keeps(new \o entries, kept)
      BY <3>2, <3>3, KeepsAdded
    <3> QED
      BY <3>1, <3>4
  <2> HIDE DEF list
  <2>5. s.profile # "" /\ s.profile = Active(d)
    BY <1>4 DEF Seen
  <2>6. FitHeld(step, ThenRead, d, s, ch)
    BY <2>2, <2>4, <2>5 DEF FitHeld, KeepsSaved
  <2> QED
    BY <1>2, <2>3, <2>6 DEF Good
<1>5. CASE ~(s.profile = "" \/ ~s.exists) /\ Added(s) = <<>>
  <2>1. steps = <<>>
    BY <1>5 DEF Complete
  <2>2. Lives(d)
    BY <1>5 DEF Lives, Seen, SawKept
  <2> QED
    BY <1>2, <2>1, <2>2 DEF Good
<1> QED
  BY <1>3, <1>4, <1>5

LEMMA NormalizingFits ==
  ASSUME NEW d, NEW s, NEW ch, Whole(d), \A p \in DOMAIN ch : KeepsIn(d, p, ch[p][2]), Seen(d, s), SawKept(d, s, ch),
         GoodMods(s.mods), IsModList(s.entries),
         NEW steps, steps = Normalize(s), NEW locked, steps # <<>> => locked, NEW busy
  PROVE  Good(d, steps, s, ch, TRUE, locked, busy)
<1>1. CASE s.profile = "" /\ s.profiles # <<>>
  <2> DEFINE step == <<"activate", s.profiles[1]>>
  <2>1. steps = <<step, <<"read">>, <<"complete">>>>
    BY <1>1 DEF Normalize
  <2>2. step[1] = "activate" /\ step[2] = s.profiles[1]
    OBVIOUS
  <2> HIDE DEF step
  <2>3. steps # <<>> /\ Head(steps) = step /\ Tail(steps) = ThenCompleted
    BY <2>1 DEF ThenCompleted
  <2>4. step[2] # ""
    <3>1. PICK profiles, T : profiles = s.profiles /\ T = ToSet(profiles)
      OBVIOUS
    <3>2. profiles \in Seq(T) /\ T \subseteq Names /\ profiles # <<>>
      BY <1>1, <3>1 DEF Seen, IsASequence
    <3>3. profiles[1] \in T
      BY <3>2
    <3> QED
      BY <2>2, <3>1, <3>2, <3>3, NamesAssumption
  <2>5. FitHeld(step, ThenCompleted, d, s, ch)
    BY <2>2, <2>4 DEF FitHeld
  <2>6. \A p \in DOMAIN ch : Promised(d, steps, ch, p)
    BY DEF Promised
  <2> QED
    BY <2>3, <2>5, <2>6 DEF Good
<1>2. CASE ~(s.profile = "" /\ s.profiles # <<>>)
  <2>1. steps = Complete(s)
    BY <1>2 DEF Normalize
  <2> QED
    BY <1>2, <2>1, CompletingFits
<1> QED
  BY <1>1, <1>2

LEMMA NormalizesKept == ManagerInv /\ KeptInv /\ Normalizes => KeptInv'
<1> SUFFICES ASSUME ManagerInv, KeptInv, Normalizes PROVE KeptInv'
  OBVIOUS
<1>1. /\ on /\ Free /\ todo # <<>> /\ Head(todo)[1] \in {"normalize", "complete"}
      /\ todo' = (IF Head(todo)[1] = "normalize" THEN Normalize(screen) ELSE Complete(screen)) /\ held' = (todo' # <<>>)
      /\ card' = card /\ call' = call /\ screen' = screen /\ job' = job /\ on' = on /\ count' = count /\ chosen' = chosen
  BY DEF Normalizes
<1>2. CountInv' /\ (Undisturbed' => Undisturbed)
  BY <1>1, SameCount DEF KeptInv
<1>3. PICK step, rest : step = Head(todo) /\ rest = Tail(todo)
  OBVIOUS
<1>4. GoodMods(screen.mods) /\ IsModList(screen.entries)
  BY DEF ManagerInv, ScreenInv
<1>5. ASSUME Undisturbed' PROVE Good(card', todo', screen', chosen', on', held', job' # NoJob)
  <2>1. Good(card, todo, screen, chosen, on, held, job # NoJob)
    BY <1>1, <1>2, <1>5, NoCallGood DEF KeptInv
  <2>2. Whole(card) /\ \A p \in DOMAIN chosen : KeepsIn(card, p, chosen[p][2])
    BY <1>1, <2>1 DEF Good, Promised
  <2>3. Fit(step, rest, card, screen, chosen, job # NoJob) \/ (held /\ FitHeld(step, rest, card, screen, chosen))
    BY <1>1, <1>3, <2>1 DEF Good
  <2>4. /\ Seen(card, screen) /\ SawKept(card, screen, chosen)
        /\ step[1] = "complete" => Active(card) # ""
    BY <1>1, <1>3, <2>3 DEF Fit, FitHeld
  <2>5. PICK steps, locked : steps = todo' /\ locked = held'
    OBVIOUS
  <2>6. steps # <<>> => locked
    BY <1>1, <2>5
  <2>7. CASE step[1] = "normalize"
    <3>1. steps = Normalize(screen)
      BY <1>1, <1>3, <2>5, <2>7
    <3>2. Good(card, steps, screen, chosen, TRUE, locked, job # NoJob)
      BY <1>4, <2>2, <2>4, <2>6, <3>1, NormalizingFits
    <3> QED
      BY <1>1, <2>5, <3>2
  <2>8. CASE step[1] = "complete"
    <3>1. steps = Complete(screen) /\ screen.profile # ""
      BY <1>1, <1>3, <2>4, <2>5, <2>8 DEF Seen
    <3>2. Good(card, steps, screen, chosen, TRUE, locked, job # NoJob)
      BY <1>4, <2>2, <2>4, <2>6, <3>1, CompletingFits
    <3> QED
      BY <1>1, <2>5, <3>2
  <2> QED
    BY <1>1, <1>3, <2>7, <2>8
<1>6. ChoicesInv'
  BY <1>1, <1>5, NoCallChoices DEF Free
<1>7. PlaceInv'
  BY <1>1 DEF KeptInv, PlaceInv
<1> QED
  BY <1>2, <1>6, <1>7 DEF KeptInv

LEMMA PackagesFit ==
  ASSUME NEW S, NEW steps \in Seq(S), Packages(steps), NEW d, NEW s, NEW ch
  PROVE  steps # <<>> /\ Fit(Head(steps), Tail(steps), d, s, ch, FALSE) /\ Head(steps)[1] \notin {"save", "rename"}
<1>1. steps # <<>> /\ Reloads(steps)
  BY ReloadsTail DEF Packages
<1>2. PICK step, rest : step = Head(steps) /\ rest = Tail(steps)
  OBVIOUS
<1>3. /\ step = steps[1] /\ rest \in Seq(S) /\ 1 \in 1..Len(steps)
      /\ \A i \in 1..Len(rest) : rest[i] = steps[i + 1] /\ i + 1 \in 1..Len(steps)
  BY <1>1, <1>2
<1>4. step[1] \in {"package", "reload", "normalize"}
  BY <1>3 DEF Packages
<1>5. CASE step[1] = "package"
  <2>1. Reloads(rest)
    BY <1>1, <1>2, <1>5, ReloadsTail
  <2>2. Packages(rest)
    BY <1>3, <2>1 DEF Packages
  <2>3. Fit(step, rest, d, s, ch, FALSE)
    BY <1>5, <2>2 DEF Fit
  <2> QED
    BY <1>1, <1>2, <1>5, <2>3
<1>6. CASE step[1] \in {"reload", "normalize"}
  <2>1. step = <<"reload">> /\ rest = Normalizing
    BY <1>1, <1>2, <1>6, ReloadsTail DEF Normalizing
  <2>2. step[1] = "reload"
    BY <2>1
  <2>3. Fit(step, rest, d, s, ch, FALSE)
    BY <2>1, <2>2 DEF Fit
  <2> QED
    BY <1>1, <1>2, <2>2, <2>3
<1> QED
  BY <1>4, <1>5, <1>6

LEMMA MigratesKept == ManagerInv /\ KeptInv /\ Migrates => KeptInv'
<1> SUFFICES ASSUME ManagerInv, KeptInv, Migrates PROVE KeptInv'
  OBVIOUS
<1> DEFINE packages == InOrder(Migratable(card))
           steps == [i \in 1..Len(packages) |-> <<"package", packages[i]>>]
<1>1. /\ on /\ Free /\ todo # <<>> /\ Head(todo)[1] = "migrate" /\ todo' = steps \o Tail(todo)
      /\ card' = card /\ call' = call /\ held' = held /\ screen' = screen /\ job' = job /\ on' = on /\ count' = count
      /\ chosen' = chosen
  BY DEF Migrates
<1>2. CountInv' /\ (Undisturbed' => Undisturbed)
  BY <1>1, SameCount DEF KeptInv
<1>3. PICK S : /\ Reload \in Seq(S) /\ steps \in Seq(S)
               /\ \A i \in 1..Len(steps) : steps[i][1] = "package"
  <2>1. Len(packages) \in Nat
    BY NumberOfNames
  <2> DEFINE S == ToSet(Reload) \cup {<<"package", packages[i]>> : i \in 1..Len(packages)}
  <2> HIDE DEF packages
  <2>2. \A i \in 1..Len(packages) : steps[i] = <<"package", packages[i]>> /\ steps[i] \in S
    OBVIOUS
  <2>3. \A x : <<"package", x>>[1] = "package"
    OBVIOUS
  <2>4. Reload \in Seq(S)
    BY ReloadIsOne DEF IsASequence
  <2> HIDE DEF S
  <2>5. steps \in Seq(S) /\ Len(steps) = Len(packages)
    BY <2>1, <2>2
  <2> HIDE DEF steps
  <2> QED
    BY <2>2, <2>3, <2>4, <2>5
<1> HIDE DEF packages, steps
<1>4. Packages(steps \o Reload)
  <2>1. \A i \in 1..Len(steps) : steps[i][1] \notin Rereads
    BY <1>3 DEF Rereads
  <2>2. Reloads(steps \o Reload)
    BY <1>3, <2>1, ReloadsLater, ReloadIsOne
  <2>3. /\ Len(Reload) = 2 /\ \A i \in 1..2 : Reload[i][1] \in {"reload", "normalize"}
    <3>1. Len(Reload) = 2 /\ Reload[1] = <<"reload">> /\ Reload[2] = <<"normalize">>
      BY DEF Reload
    <3>2. <<"reload">>[1] = "reload" /\ <<"normalize">>[1] = "normalize" /\ 1..2 = {1, 2}
      OBVIOUS
    <3> QED
      BY <3>1, <3>2
  <2>4. ASSUME NEW i \in 1..Len(steps \o Reload) PROVE (steps \o Reload)[i][1] \in {"package", "reload", "normalize"}
    <3>1. CASE i <= Len(steps)
      <4>1. i \in 1..Len(steps) /\ (steps \o Reload)[i] = steps[i]
        BY <1>3, <2>4, <3>1
      <4> QED
        BY <1>3, <4>1
    <3>2. CASE i > Len(steps)
      <4>2. PICK n \in Nat, k \in Int : n = Len(steps) /\ k = i - n
        BY <1>3
      <4>3. k \in 1..2
        <5>2. steps \in Seq(S) /\ Reload \in Seq(S)
          BY <1>3
        <5>3. Len(steps \o Reload) = Len(steps) + Len(Reload)
          BY <5>2
        <5>1. Len(steps \o Reload) = n + 2
          BY <2>3, <4>2, <5>3
        <5> QED
          BY <2>4, <3>2, <4>2, <5>1
      <4>1. i - Len(steps) \in 1..2 /\ (steps \o Reload)[i] = Reload[i - Len(steps)]
        BY <1>3, <2>3, <2>4, <3>2, <4>2, <4>3
      <4> QED
        BY <2>3, <4>1
    <3> QED
      BY <1>3, <2>4, <3>1, <3>2
  <2> QED
    BY <2>2, <2>4 DEF Packages
<1>5. steps \o Reload \in Seq(S)
  BY <1>3
<1>6. ASSUME Undisturbed' PROVE Good(card', todo', screen', chosen', on', held', job' # NoJob)
  <2>1. Good(card, todo, screen, chosen, on, held, job # NoJob)
    BY <1>1, <1>2, <1>6, NoCallGood DEF KeptInv
  <2>2. Whole(card) /\ \A p \in DOMAIN chosen : KeepsIn(card, p, chosen[p][2])
    BY <1>1, <2>1 DEF Good, Promised
  <2>3. PICK step, rest : step = Head(todo) /\ rest = Tail(todo)
    OBVIOUS
  <2>4. Fit(step, rest, card, screen, chosen, job # NoJob) \/ (held /\ FitHeld(step, rest, card, screen, chosen))
    BY <1>1, <2>1, <2>3 DEF Good
  <2>5. rest = Reload /\ (job # NoJob) = FALSE
    BY <1>1, <2>3, <2>4 DEF Fit, FitHeld
  <2>6. PICK after : after = steps \o Reload
    OBVIOUS
  <2>7. todo' = after /\ after \in Seq(S) /\ Packages(after)
    BY <1>1, <1>4, <1>5, <2>3, <2>5, <2>6
  <2>8. /\ after # <<>> /\ Fit(Head(after), Tail(after), card, screen, chosen, FALSE)
        /\ Head(after)[1] \notin {"save", "rename"}
    BY <2>7, PackagesFit
  <2>9. \A p \in DOMAIN chosen : Promised(card, after, chosen, p)
    BY <2>2 DEF Promised
  <2>10. Good(card, after, screen, chosen, TRUE, held, FALSE)
    BY <2>2, <2>8, <2>9 DEF Good
  <2> QED
    BY <1>1, <2>5, <2>7, <2>10
<1>7. ChoicesInv'
  BY <1>1, <1>6, NoCallChoices DEF Free
<1>8. PlaceInv'
  BY <1>1 DEF KeptInv, PlaceInv
<1> QED
  BY <1>2, <1>7, <1>8 DEF KeptInv

-----------------------------------------------------------------------------
(* What a call of the interface leaves.                                    *)

LEMMA ThenReloads ==
  ASSUME NEW d, NEW s, NEW ch, Whole(d), \A p \in DOMAIN ch : KeepsIn(d, p, ch[p][2]),
         NEW locked, NEW busy, busy => Lives(d)
  PROVE  Good(d, Reload, s, ch, TRUE, locked, busy)
<1>1. PICK step : step = <<"reload">>
  OBVIOUS
<1>2. step[1] = "reload" /\ Reload # <<>> /\ Head(Reload) = step /\ Tail(Reload) = Normalizing
  BY <1>1, HeadsAndTails DEF Reload, Normalizing
<1>3. Fit(step, Normalizing, d, s, ch, busy)
  BY <1>2 DEF Fit
<1> QED
  BY <1>2, <1>3 DEF Good, Promised

LEMMA ThenReads ==
  ASSUME NEW d, NEW s, NEW ch, Whole(d), \A p \in DOMAIN ch : KeepsIn(d, p, ch[p][2]),
         NEW locked, locked, NEW busy
  PROVE  /\ Lives(d) => Good(d, ThenRead, s, ch, TRUE, locked, busy)
         /\ Active(d) # "" => Good(d, ThenCompleted, s, ch, TRUE, locked, busy)
<1>1. PICK step : step = <<"read">>
  OBVIOUS
<1>2. /\ step[1] = "read" /\ ThenRead # <<>> /\ Head(ThenRead) = step /\ Tail(ThenRead) = <<>>
      /\ ThenCompleted # <<>> /\ Head(ThenCompleted) = step /\ Tail(ThenCompleted) = ThenComplete
  BY <1>1, HeadsAndTails DEF ThenRead, ThenCompleted, ThenComplete
<1>3. Lives(d) => FitHeld(step, <<>>, d, s, ch)
  BY <1>2 DEF FitHeld
<1>4. Active(d) # "" => FitHeld(step, ThenComplete, d, s, ch)
  BY <1>2 DEF FitHeld
<1> QED
  BY <1>2, <1>3, <1>4 DEF Good, Promised

\* The calls of a step, all of which can be made.
Sure(ops, c) == \A i \in 1..Len(ops) : CanDo(ops[i], Run(ops, c)[i - 1])
LEMMA SureIs ==
  ASSUME NEW ops, IsASequence(ops), NEW c, SureFrom(ops, c, 0)
  PROVE  Sure(ops, c)
<1>1. Len(ops) \in Nat
  BY DEF IsASequence
<1>2. \A i \in 1..Len(ops) : i > 0
  BY <1>1
<1> QED
  BY <1>2 DEF SureFrom, Sure

\* The first step is `step`, the others are `rest`.
About(c, steps, step, rest, ch) ==
  /\ Whole(c) /\ steps # <<>> /\ step = Head(steps) /\ rest = Tail(steps)
  /\ \A name \in DOMAIN ch : Promised(c, steps, ch, name)

LEMMA NotPromised ==
  ASSUME NEW c, NEW steps, NEW step, NEW rest, NEW ch, About(c, steps, step, rest, ch), step[1] \notin {"save", "rename"}
  PROVE  \A p \in DOMAIN ch : KeepsIn(c, p, ch[p][2])
BY DEF About, Promised

LEMMA SaveLeaves ==
  ASSUME NEW c, CardIsWhole(c), NEW steps, NEW step, NEW rest, NEW ch, About(c, steps, step, rest, ch),
         step[1] \in {"save", "add"}, IsModList(step[3]), KeepsSaved(step, ch),
         NEW ops, ops = SaveProfile(c, step[2], step[3]), NEW e, e = After(ops, c)
  PROVE  /\ Whole(e) /\ Active(e) = Active(c) /\ HasProfile(e, step[2]) /\ Sure(ops, c)
         /\ \A p : p # step[2] => (HasProfile(e, p) <=> HasProfile(c, p))
         /\ \A p \in DOMAIN ch : KeepsIn(e, p, ch[p][2])
<1>1. PICK name, list : name = step[2] /\ list = step[3]
  OBVIOUS
<1>2. IsCard(c)
  BY WholeCard
<1>3. SavedOnly(c, e, name) /\ Lists(e, name, list) /\ IsASequence(ops) /\ SureFrom(ops, c, 0)
  BY <1>1, <1>2, SavingDoes
<1>4. Active(e) = Active(c) /\ \A other : other # name => SameProfile(c, e, other)
  BY <1>3, OthersStay
<1>5. HasProfile(e, name) /\ LoadProfile(e, name) = list
  BY <1>3 DEF Lists
<1>6. Whole(e)
  BY <1>1, <1>4, <1>5 DEF Whole, SameProfile, About
<1>7. ASSUME NEW p \in DOMAIN ch PROVE KeepsIn(e, p, ch[p][2])
  <2>1. CASE p = name
    BY <1>1, <1>5, <1>7, <2>1 DEF KeepsSaved, KeepsIn
  <2>2. CASE p # name
    <3>1. KeepsIn(c, p, ch[p][2])
      BY <1>1, <1>7, <2>2 DEF About, Promised
    <3> QED
      BY <1>4, <2>2, <3>1 DEF KeepsIn, SameProfile
  <2> QED
    BY <2>1, <2>2
<1> QED
  BY <1>1, <1>3, <1>4, <1>5, <1>6, <1>7, SureIs DEF SameProfile

LEMMA ActivateLeaves ==
  ASSUME NEW c, CardIsWhole(c), NEW steps, NEW step, NEW rest, NEW ch, About(c, steps, step, rest, ch),
         step[1] = "activate", NEW ops, ops = ActivateProfile(c, step[2]), NEW e, e = After(ops, c)
  PROVE  /\ Whole(e) /\ Active(e) = step[2] /\ Sure(ops, c)
         /\ \A p : HasProfile(e, p) <=> HasProfile(c, p)
         /\ \A p \in DOMAIN ch : KeepsIn(e, p, ch[p][2])
<1>1. PICK name : name = step[2]
  OBVIOUS
<1>2. IsCard(c)
  BY WholeCard
<1>3. Active(e) = name /\ (\A p : SameProfile(c, e, p)) /\ IsASequence(ops) /\ SureFrom(ops, c, 0)
  BY <1>1, <1>2, ActivatingDoes
<1>4. \A p \in DOMAIN ch : KeepsIn(c, p, ch[p][2])
  BY NotPromised
<1> QED
  BY <1>1, <1>3, <1>4, SureIs DEF Whole, SameProfile, About, KeepsIn

LEMMA RenameLeaves ==
  ASSUME NEW c, CardIsWhole(c), NEW steps, NEW step, NEW rest, NEW ch, About(c, steps, step, rest, ch),
         step[1] = "rename", HasProfile(c, step[2]), ~HasProfile(c, step[3]), step[2] \notin DOMAIN ch, step[3] # "",
         NEW ops, ops = RenameProfile(c, step[2], step[3]), NEW e, e = After(ops, c), IsASequence(ops)
  PROVE  /\ Whole(e) /\ Sure(ops, c) /\ (Lives(c) => Lives(e))
         /\ \A p \in DOMAIN ch : KeepsIn(e, p, ch[p][2])
<1>1. PICK from, to : from = step[2] /\ to = step[3]
  OBVIOUS
<1>2. /\ (Active(c) = from => Active(e) = to) /\ (Active(c) # from => Active(e) = Active(c))
      /\ ~HasProfile(e, from) /\ Lists(e, to, LoadProfile(c, from))
      /\ \A p : p \notin {from, to} => SameProfile(c, e, p)
      /\ SureFrom(ops, c, 0)
  <2>1. HasProfile(c, from) /\ ~HasProfile(c, to) /\ ops = RenameProfile(c, from, to)
    BY <1>1
  <2>2. RenamedAs(c, e, from, to) /\ SureFrom(ops, c, 0)
    BY <2>1, RenamingDoes
  <2> QED
    BY <2>2 DEF RenamedAs
<1>3. Whole(c)
  BY DEF About
<1>4. HasProfile(e, to) /\ LoadProfile(e, to) = LoadProfile(c, from)
  BY <1>2 DEF Lists
<1>5. Whole(e)
  BY <1>1, <1>2, <1>3, <1>4 DEF Whole, SameProfile
<1>6. ASSUME NEW p \in DOMAIN ch PROVE KeepsIn(e, p, ch[p][2])
  <2>1. CASE p = to
    <3>1. KeepsIn(c, from, ch[p][2])
      BY <1>1, <1>6, <2>1 DEF About, Promised, KeepsIn
    <3> QED
      BY <1>4, <2>1, <3>1 DEF KeepsIn
  <2>2. CASE p # to
    <3>1. p # from /\ KeepsIn(c, p, ch[p][2])
      BY <1>1, <1>6, <2>2 DEF About, Promised
    <3> QED
      BY <1>2, <2>2, <3>1 DEF KeepsIn, SameProfile
  <2> QED
    BY <2>1, <2>2
<1>7. Lives(c) => Lives(e)
  BY <1>1, <1>2, <1>4 DEF Lives, SameProfile
<1> QED
  BY <1>2, <1>5, <1>6, <1>7, SureIs

LEMMA DeleteLeaves ==
  ASSUME NEW c, CardIsWhole(c), NEW steps, NEW step, NEW rest, NEW ch, About(c, steps, step, rest, ch),
         step[1] = "delete", HasProfile(c, step[2]), step[2] # Active(c), step[2] \notin DOMAIN ch,
         NEW ops, ops = DeleteProfile(c, step[2]), NEW e, e = After(ops, c)
  PROVE  /\ Whole(e) /\ Sure(ops, c) /\ (Lives(c) => Lives(e))
         /\ \A p \in DOMAIN ch : KeepsIn(e, p, ch[p][2])
<1>1. PICK name : name = step[2]
  OBVIOUS
<1>2. IsCard(c)
  BY WholeCard
<1>3. /\ Active(e) = Active(c) /\ ~HasProfile(e, name) /\ \A p : p # name => SameProfile(c, e, p)
      /\ IsASequence(ops) /\ SureFrom(ops, c, 0)
  BY <1>1, <1>2, DeletingDoes
<1>4. \A p \in DOMAIN ch : KeepsIn(c, p, ch[p][2])
  BY NotPromised
<1>5. Whole(e)
  BY <1>3 DEF Whole, SameProfile, About
<1>6. \A p \in DOMAIN ch : KeepsIn(e, p, ch[p][2])
  BY <1>1, <1>3, <1>4 DEF KeepsIn, SameProfile
<1>7. Lives(c) => Lives(e)
  BY <1>1, <1>3 DEF Lives, SameProfile
<1> QED
  BY <1>3, <1>5, <1>6, <1>7, SureIs

LEMMA UninstallLeaves ==
  ASSUME NEW c, CardIsWhole(c), NEW steps, NEW step, NEW rest, NEW ch, About(c, steps, step, rest, ch),
         step[1] = "uninstall", \A p \in DOMAIN ch : step[2] \notin FoldersIn(ch[p][2]),
         NEW ops, ops = Uninstall(c, step[2]), NEW e, e = After(ops, c), IsASequence(ops)
  PROVE  /\ Whole(e) /\ Sure(ops, c) /\ (Lives(c) => Lives(e))
         /\ \A p \in DOMAIN ch : KeepsIn(e, p, ch[p][2])
<1>1. PICK folder : folder = step[2]
  OBVIOUS
<1>2. LeftBy(c, e, folder) /\ SureFrom(ops, c, 0)
  BY <1>1, UninstallingDoes
<1>3. /\ Active(e) = Active(c) /\ \A p : HasProfile(e, p) <=> HasProfile(c, p)
      /\ \A p : HasProfile(c, p) => LoadProfile(e, p) \in {LoadProfile(c, p), Without(LoadProfile(c, p), {folder})}
  BY <1>2 DEF LeftBy
<1>4. Whole(c) /\ \A p \in DOMAIN ch : KeepsIn(c, p, ch[p][2])
  BY NotPromised DEF About
<1>5. Whole(e)
  <2> SUFFICES ASSUME NEW p, HasProfile(e, p) PROVE IsModList(LoadProfile(e, p))
    BY DEF Whole
  <2>1. PICK list : list = LoadProfile(c, p)
    OBVIOUS
  <2>2. IsModList(list) /\ LoadProfile(e, p) \in {list, Without(list, {folder})}
    BY <1>3, <1>4, <2>1 DEF Whole
  <2> QED
    BY <2>2, OfAndWithout
<1>6. ASSUME NEW p \in DOMAIN ch PROVE KeepsIn(e, p, ch[p][2])
  <2>1. PICK list, kept : list = LoadProfile(c, p) /\ kept = ch[p][2]
    OBVIOUS
  <2>2. /\ HasProfile(c, p) /\ IsModList(list) /\ Keeps(list, kept) /\ folder \notin FoldersIn(kept)
        /\ LoadProfile(e, p) \in {list, Without(list, {folder})}
    BY <1>1, <1>3, <1>4, <2>1 DEF Whole, KeepsIn
  <2>3. Keeps(Without(list, {folder}), kept)
    BY <2>2, KeepsOthers
  <2> QED
    BY <1>3, <2>1, <2>2, <2>3 DEF KeepsIn
<1>7. Lives(c) => Lives(e)
  BY <1>3 DEF Lives
<1> QED
  BY <1>2, <1>5, <1>6, <1>7, SureIs

LEMMA PluginsLeave ==
  ASSUME NEW c, CardIsWhole(c), NEW steps, NEW step, NEW rest, NEW ch, About(c, steps, step, rest, ch),
         step[1] = "plugins", NEW ops, ops = SetPlugins(c, step[2], step[3]), NEW e, e = After(ops, c)
  PROVE  /\ Whole(e) /\ Sure(ops, c) /\ (Lives(c) => Lives(e))
         /\ \A p \in DOMAIN ch : KeepsIn(e, p, ch[p][2])
<1>1. PICK folder, loaded : folder = step[2] /\ loaded = step[3]
  OBVIOUS
<1>2. IsCard(c)
  BY WholeCard
<1>3. PlainOps(ops) /\ \A i \in 1..Len(ops) : ops[i][1] = "write"
  BY <1>1, PlainPlugins
<1>4. Steady(c, e)
  BY <1>2, <1>3, PlainDoes
<1>5. Sure(ops, c)
  BY <1>3 DEF Sure, CanDo
<1>6. Grows(c, e)
  BY <1>4, SteadyGrows DEF About
<1>7. \A p \in DOMAIN ch : KeepsIn(c, p, ch[p][2])
  BY NotPromised
<1> QED
  BY <1>5, <1>6, <1>7 DEF Grows, Lives

LEMMA SavedThenGood ==
  ASSUME NEW c, CardIsWhole(c), NEW steps, NEW step, NEW rest, NEW s, NEW ch, NEW locked, NEW busy,
         About(c, steps, step, rest, ch), step[1] \in {"save", "add"}, IsModList(step[3]),
         Fit(step, rest, c, s, ch, busy) \/ (locked /\ FitHeld(step, rest, c, s, ch)),
         NEW ops, ops = SaveProfile(c, step[2], step[3]), NEW e, e = After(ops, c)
  PROVE  Good(e, rest, s, ch, TRUE, locked, busy) /\ Sure(ops, c)
<1>1. KeepsSaved(step, ch)
  BY DEF Fit, FitHeld
<1>2. /\ Whole(e) /\ Active(e) = Active(c) /\ HasProfile(e, step[2]) /\ Sure(ops, c)
      /\ \A p : p # step[2] => (HasProfile(e, p) <=> HasProfile(c, p))
      /\ \A p \in DOMAIN ch : KeepsIn(e, p, ch[p][2])
  BY <1>1, SaveLeaves
<1>3. \/ rest = <<>> /\ Lives(c) /\ Seen(c, s) /\ step[2] = s.profile
      \/ rest = <<<<"activate", step[2]>>>> \o Reload /\ step[2] # "" /\ (busy => Lives(c))
      \/ locked /\ rest = <<<<"activate", step[2]>>, <<"read">>>> /\ step[2] # ""
      \/ locked /\ rest = ThenRead /\ step[2] # "" /\ step[2] = Active(c)
  BY DEF Fit, FitHeld
<1>4. Lives(c) => Lives(e)
  BY <1>2 DEF Lives
<1>5. CASE rest = <<>> /\ Lives(c) /\ Seen(c, s) /\ step[2] = s.profile
  <2>1. \A p : HasProfile(e, p) <=> HasProfile(c, p)
    BY <1>2, <1>5 DEF Lives, Seen
  <2>2. Lives(e) /\ Seen(e, s)
    BY <1>2, <1>4, <1>5, <2>1 DEF Seen
  <2> QED
    BY <1>2, <1>5, <2>2 DEF Good, Promised
<1>6. CASE rest = <<<<"activate", step[2]>>>> \o Reload /\ step[2] # "" /\ (busy => Lives(c))
  <2>1. PICK next : next = <<"activate", step[2]>>
    OBVIOUS
  <2>2. next[1] = "activate" /\ next[2] = step[2] /\ rest = <<next>> \o Reload
    BY <1>6, <2>1
  <2>3. rest # <<>> /\ Head(rest) = next /\ Tail(rest) = Reload
    BY <2>2, Fronts, ReloadIsOne
  <2>4. Fit(next, Reload, e, s, ch, busy)
    BY <1>2, <1>4, <1>6, <2>2 DEF Fit
  <2> QED
    BY <1>2, <2>3, <2>4 DEF Good, Promised
<1>7. CASE locked /\ rest = <<<<"activate", step[2]>>, <<"read">>>> /\ step[2] # ""
  <2>1. PICK next : next = <<"activate", step[2]>>
    OBVIOUS
  <2>2. next[1] = "activate" /\ next[2] = step[2] /\ rest = <<next, <<"read">>>>
    BY <1>7, <2>1
  <2>3. rest # <<>> /\ Head(rest) = next /\ Tail(rest) = ThenRead
    BY <2>2, HeadsAndTails DEF ThenRead
  <2>4. FitHeld(next, ThenRead, e, s, ch)
    BY <1>2, <1>7, <2>2 DEF FitHeld
  <2> QED
    BY <1>2, <1>7, <2>3, <2>4 DEF Good, Promised
<1>8. CASE locked /\ rest = ThenRead /\ step[2] # "" /\ step[2] = Active(c)
  <2>1. Lives(e)
    BY <1>2, <1>8 DEF Lives
  <2> QED
    BY <1>2, <1>8, <2>1, ThenReads
<1> QED
  BY <1>2, <1>3, <1>5, <1>6, <1>7, <1>8

LEMMA CallsAreGood ==
  ASSUME ManagerInv, NEW step, NEW rest, todo # <<>>, step = Head(todo), rest = Tail(todo),
         step[1] \notin {"reload", "read", "normalize", "complete", "migrate"},
         NEW s, NEW ch, NEW locked, NEW busy, busy \in BOOLEAN, Good(card, todo, s, ch, TRUE, locked, busy),
         NEW ops, ops = Calls(step), NEW e, e = After(ops, card)
  PROVE  /\ Good(e, rest, s, ch, TRUE, locked, busy)
         /\ \A i \in 1..Len(ops) :
              \/ CanDo(ops[i], Run(ops, card)[i - 1])
              \/ step[1] = "package" /\ Good(Run(ops, card)[i - 1], rest, s, ch, TRUE, locked, busy)
<1>1. CardIsWhole(card) /\ CardInv /\ IsCard(card)
  BY WholeCard DEF ManagerInv, CardInv
<1>2. PICK S : todo \in Seq(S)
  BY DEF ManagerInv, TodoInv, GoodSteps, IsASequence
<1>3. GoodStep(step) /\ rest \in Seq(S)
  <2>1. step = todo[1] /\ 1 \in 1..Len(todo) /\ rest \in Seq(S)
    BY <1>2
  <2> QED
    BY <2>1 DEF ManagerInv, TodoInv, GoodSteps
<1>4. IsASequence(ops)
  <2>1. SafeOps(ops)
    BY <1>1, <1>3, CallsAreSafe
  <2> QED
    BY <2>1 DEF SafeOps, GoodOps
<1>5. About(card, todo, step, rest, ch)
  BY DEF Good, About
<1>6. Fit(step, rest, card, s, ch, busy) \/ (locked /\ FitHeld(step, rest, card, s, ch))
  BY DEF Good
<1>7. CASE step[1] \in {"save", "add"}
  <2>1. IsModList(step[3]) /\ ops = SaveProfile(card, step[2], step[3])
    BY <1>3, <1>7 DEF GoodStep, Calls
  <2>2. Good(e, rest, s, ch, TRUE, locked, busy) /\ Sure(ops, card)
    BY <1>1, <1>5, <1>6, <1>7, <2>1, SavedThenGood
  <2> QED
    BY <2>2 DEF Sure
<1>8. CASE step[1] = "activate"
  <2>1. ops = ActivateProfile(card, step[2])
    BY <1>8 DEF Calls
  <2>2. /\ Whole(e) /\ Active(e) = step[2] /\ Sure(ops, card)
        /\ \A p : HasProfile(e, p) <=> HasProfile(card, p)
        /\ \A p \in DOMAIN ch : KeepsIn(e, p, ch[p][2])
    BY <1>1, <1>5, <1>8, <2>1, ActivateLeaves
  <2>3. \/ rest = Reload /\ step[2] # "" /\ HasProfile(card, step[2])
        \/ locked /\ rest = ThenCompleted /\ step[2] # ""
        \/ locked /\ rest = ThenRead /\ step[2] # "" /\ HasProfile(card, step[2])
    BY <1>6, <1>8 DEF Fit, FitHeld
  <2>4. HasProfile(card, step[2]) /\ step[2] # "" => Lives(e)
    BY <2>2 DEF Lives
  <2>5. Good(e, rest, s, ch, TRUE, locked, busy)
    <3>1. CASE rest = Reload /\ Lives(e)
      BY <2>2, <3>1, ThenReloads
    <3>2. CASE locked /\ rest = ThenRead /\ Lives(e)
      BY <2>2, <3>2, ThenReads
    <3>3. CASE locked /\ rest = ThenCompleted /\ Active(e) # ""
      BY <2>2, <3>3, ThenReads
    <3> QED
      BY <2>2, <2>3, <2>4, <3>1, <3>2, <3>3
  <2> QED
    BY <2>2, <2>5 DEF Sure
<1>9. CASE step[1] \in {"rename", "delete", "uninstall", "plugins"}
  <2>1. rest = Reload /\ (busy => Lives(card)) /\ Fit(step, rest, card, s, ch, busy)
    BY <1>6, <1>9 DEF Fit, FitHeld
  <2>2. /\ Whole(e) /\ Sure(ops, card) /\ (Lives(card) => Lives(e))
        /\ \A p \in DOMAIN ch : KeepsIn(e, p, ch[p][2])
    <3>1. CASE step[1] = "rename"
      <4>1. ops = RenameProfile(card, step[2], step[3])
        BY <3>1 DEF Calls
      <4>2. step[3] # "" /\ HasProfile(card, step[2]) /\ ~HasProfile(card, step[3]) /\ step[2] \notin DOMAIN ch
        BY <2>1, <3>1 DEF Fit
      <4> QED
        BY <1>1, <1>4, <1>5, <3>1, <4>1, <4>2, RenameLeaves
    <3>2. CASE step[1] = "delete"
      <4>1. ops = DeleteProfile(card, step[2])
        BY <3>2 DEF Calls
      <4>2. HasProfile(card, step[2]) /\ step[2] # Active(card) /\ step[2] \notin DOMAIN ch
        BY <2>1, <3>2 DEF Fit
      <4> QED
        BY <1>1, <1>5, <3>2, <4>1, <4>2, DeleteLeaves
    <3>3. CASE step[1] = "uninstall"
      <4>1. ops = Uninstall(card, step[2])
        BY <3>3 DEF Calls
      <4>2. \A p \in DOMAIN ch : step[2] \notin FoldersIn(ch[p][2])
        BY <2>1, <3>3 DEF Fit
      <4> QED
        BY <1>1, <1>4, <1>5, <3>3, <4>1, <4>2, UninstallLeaves
    <3>4. CASE step[1] = "plugins"
      <4>1. ops = SetPlugins(card, step[2], step[3])
        BY <3>4 DEF Calls
      <4> QED
        BY <1>1, <1>5, <3>4, <4>1, PluginsLeave
    <3> QED
      BY <1>9, <3>1, <3>2, <3>3, <3>4
  <2>3. Good(e, rest, s, ch, TRUE, locked, busy)
    BY <2>1, <2>2, ThenReloads
  <2> QED
    BY <2>2, <2>3 DEF Sure
<1>10. CASE step[1] = "package"
  <2>1. PICK package : package = step[2]
    OBVIOUS
  <2>2. ops = Migrate(card, package)
    BY <1>10, <2>1 DEF Calls
  <2>3. Packages(rest) /\ busy = FALSE
    BY <1>6, <1>10 DEF Fit, FitHeld
  <2>4. PlainOps(ops)
    BY <2>2, PlainPackage
  <2>5. Steady(card, e) /\ Early(ops, card)
    BY <1>1, <2>4, PlainDoes
  <2>6. Good(card, rest, s, ch, TRUE, locked, busy)
    <3>1. \A p \in DOMAIN ch : KeepsIn(card, p, ch[p][2])
      BY <1>5, <1>10, NotPromised
    <3>2. rest # <<>> /\ Fit(Head(rest), Tail(rest), card, s, ch, FALSE)
      BY <1>3, <2>3, PackagesFit
    <3> QED
      BY <1>5, <2>3, <3>1, <3>2 DEF Good, Promised, About
  <2>7. \A d : Steady(card, d) => Good(d, rest, s, ch, TRUE, locked, busy)
    BY <2>6, SteadyKeepsGood
  <2> QED
    BY <1>10, <2>5, <2>7 DEF Early
<1> QED
  BY <1>3, <1>7, <1>8, <1>9, <1>10 DEF GoodStep, StepKinds

LEMMA CallsCoreKept == ManagerInv /\ KeptInv /\ CallsCore => KeptInv'
<1> SUFFICES ASSUME ManagerInv, KeptInv, CallsCore PROVE KeptInv'
  OBVIOUS
<1>1. PICK step, rest, ops : step = Head(todo) /\ rest = Tail(todo) /\ ops = Calls(step)
  OBVIOUS
<1>2. /\ on /\ Free /\ todo # <<>> /\ step[1] \notin {"reload", "read", "normalize", "complete", "migrate"}
      /\ call' = (IF ops = <<>> THEN NoCall ELSE [who |-> "interface", step |-> step, ops |-> ops])
      /\ todo' = rest /\ held' = held
      /\ card' = card /\ screen' = screen /\ job' = job /\ on' = on /\ count' = count /\ chosen' = chosen
  BY <1>1 DEF CallsCore
<1>3. CountInv' /\ (Undisturbed' => Undisturbed)
  BY <1>2, SameCount DEF KeptInv
<1>4. PICK e : e = After(ops, card)
  OBVIOUS
<1>5. ASSUME Undisturbed'
      PROVE  /\ Good(e, rest, screen, chosen, TRUE, held, job # NoJob)
             /\ \A i \in 1..Len(ops) :
                  \/ CanDo(ops[i], Run(ops, card)[i - 1])
                  \/ step[1] = "package" /\ Good(Run(ops, card)[i - 1], rest, screen, chosen, TRUE, held, job # NoJob)
  <2>1. PICK busy \in BOOLEAN : busy = (job # NoJob)
    OBVIOUS
  <2>2. Good(card, todo, screen, chosen, on, held, busy)
    BY <1>2, <1>3, <1>5, <2>1, NoCallGood DEF KeptInv
  <2>3. Good(card, todo, screen, chosen, TRUE, held, busy)
    BY <1>2, <2>2 DEF Good
  <2>4. /\ Good(e, rest, screen, chosen, TRUE, held, busy)
        /\ \A i \in 1..Len(ops) :
             \/ CanDo(ops[i], Run(ops, card)[i - 1])
             \/ step[1] = "package" /\ Good(Run(ops, card)[i - 1], rest, screen, chosen, TRUE, held, busy)
    BY <1>1, <1>2, <1>4, <2>3, CallsAreGood
  <2> QED
    BY <2>1, <2>4
<1>6. \A d : Good(d, rest, screen, chosen, TRUE, held, job # NoJob)
             => Good(d, todo', screen', chosen', on', held', job' # NoJob)
  BY <1>2 DEF Good
<1>7. ChoicesInv'
  <2>1. CASE ops = <<>>
    <3>1. call' = NoCall /\ e = card'
      BY <1>2, <1>4, <2>1, NothingJoins
    <3> QED
      BY <1>5, <1>6, <3>1, NoCallChoices
  <2>2. CASE ops # <<>>
    <3>1. call'.ops = ops /\ call'.step = step
      BY <1>2, <2>2
    <3> QED
      BY <1>2, <1>4, <1>5, <1>6, <3>1 DEF ChoicesInv, Soft
  <2> QED
    BY <2>1, <2>2
<1>8. PlaceInv'
  BY <1>2 DEF KeptInv, PlaceInv
<1> QED
  BY <1>3, <1>7, <1>8 DEF KeptInv

-----------------------------------------------------------------------------
(* The calls of the file system, one by one, and those that fail.          *)

LEMMA EndedGood ==
  ASSUME NEW d, NEW steps, NEW s, NEW ch, NEW open, NEW locked, NEW busy, Good(d, steps, s, ch, open, locked, busy),
         NEW after, after <=> (locked /\ steps # <<>>)
  PROVE  Good(d, steps, s, ch, open, after, busy)
BY DEF Good

\* A call ends, and what was to be done stays.
LEMMA EndsKept ==
  ASSUME ManagerInv, ScreenIsCardInv, PlaceInv, call.ops # <<>>, Ends(todo)
  PROVE  /\ call' = NoCall /\ todo' = todo /\ (held' <=> (held /\ todo # <<>>)) /\ ((job' # NoJob) <=> (job # NoJob))
         /\ PlaceInv'
<1>1. CallerInv /\ call.who \in {"interface", "worker"}
  BY CallersAre DEF ScreenIsCardInv
<1>2. /\ call' = NoCall /\ todo' = todo /\ (call.who = "interface" => job' = job)
      /\ call.who = "worker" => job # NoJob /\ job' # NoJob
  BY <1>1, EndsCall
<1>3. held' <=> (held /\ todo # <<>>)
  BY <1>2 DEF Ends
<1>4. PlaceInv'
  <2>1. CASE call.who = "interface"
    BY <1>2, <2>1 DEF PlaceInv
  <2>2. CASE call.who = "worker"
    <3>1. job' = [job EXCEPT !.stage = AfterJob]
      BY <2>2 DEF Ends
    <3>2. job'.stage = AfterJob
      BY <3>1 DEF ManagerInv, JobInv
    <3>3. AfterJob # "install"
      BY DEF AfterJob
    <3> QED
      BY <3>2, <3>3 DEF PlaceInv
  <2> QED
    BY <1>1, <2>1, <2>2
<1> QED
  BY <1>1, <1>2, <1>3, <1>4

LEMMA WorksKept == ManagerInv /\ ScreenIsCardInv /\ KeptInv /\ Works => KeptInv'
<1> SUFFICES ASSUME ManagerInv, ScreenIsCardInv, KeptInv, Works PROVE KeptInv'
  OBVIOUS
<1>1. PICK ops, op, left : ops = call.ops /\ op = Head(ops) /\ left = Tail(ops)
  OBVIOUS
<1>2. /\ ops # <<>> /\ CanDo(op, card) /\ card' = Do(op, card)
      /\ screen' = screen /\ on' = on /\ count' = count /\ chosen' = chosen
      /\ IF left = <<>> THEN Ends(todo)
         ELSE call' = [call EXCEPT !.ops = left] /\ todo' = todo /\ held' = held /\ job' = job
  BY <1>1 DEF Works
<1>3. CountInv' /\ (Undisturbed' => Undisturbed)
  BY <1>2, SameCount DEF KeptInv
<1>4. card' = Done(op, card)
  BY <1>2 DEF CanDo, Done
<1>5. PICK S : ops \in Seq(S)
  BY <1>1 DEF ManagerInv, CallInv, GoodOps, IsASequence
<1>6. /\ Len(left) \in Nat /\ Len(ops) = Len(left) + 1
      /\ \A i \in 1..Len(left) : left[i] = ops[i + 1]
      /\ \A n \in 0..Len(left) : Run(left, card')[n] = Run(ops, card)[n + 1]
      /\ After(left, card') = After(ops, card)
  BY <1>1, <1>2, <1>4, <1>5, RunTail
<1>7. ASSUME Undisturbed'
      PROVE  /\ Good(After(left, card'), todo, screen, chosen, on, held, job # NoJob)
             /\ \A i \in 1..Len(left) :
                  \/ CanDo(left[i], Run(left, card')[i - 1])
                  \/ Soft(call) /\ Good(Run(left, card')[i - 1], todo, screen, chosen, on, held, job # NoJob)
  <2>1. /\ Good(After(ops, card), todo, screen, chosen, on, held, job # NoJob)
        /\ \A i \in 1..Len(ops) :
             \/ CanDo(ops[i], Run(ops, card)[i - 1])
             \/ Soft(call) /\ Good(Run(ops, card)[i - 1], todo, screen, chosen, on, held, job # NoJob)
    BY <1>1, <1>3, <1>7 DEF KeptInv, ChoicesInv
  <2>2. ASSUME NEW i \in 1..Len(left)
        PROVE  \/ CanDo(left[i], Run(left, card')[i - 1])
               \/ Soft(call) /\ Good(Run(left, card')[i - 1], todo, screen, chosen, on, held, job # NoJob)
    <3>1. i + 1 \in 1..Len(ops) /\ i - 1 \in 0..Len(left) /\ (i + 1) - 1 = i /\ (i - 1) + 1 = i
      BY <1>6
    <3>2. left[i] = ops[i + 1] /\ Run(left, card')[i - 1] = Run(ops, card)[i]
      BY <1>6, <3>1
    <3>3. \/ CanDo(ops[i + 1], Run(ops, card)[i])
          \/ Soft(call) /\ Good(Run(ops, card)[i], todo, screen, chosen, on, held, job # NoJob)
      BY <2>1, <3>1
    <3> QED
      BY <3>2, <3>3
  <2> QED
    BY <1>6, <2>1, <2>2
<1>8. CASE left = <<>>
  <2>1. Ends(todo) /\ call.ops # <<>> /\ PlaceInv
    BY <1>1, <1>2, <1>8 DEF KeptInv
  <2>2. /\ call' = NoCall /\ todo' = todo /\ (held' <=> (held /\ todo # <<>>)) /\ ((job' # NoJob) <=> (job # NoJob))
        /\ PlaceInv'
    BY <2>1, EndsKept
  <2>3. After(left, card') = card'
    BY <1>8, NothingJoins
  <2>4. ASSUME Undisturbed' PROVE Good(card', todo', screen', chosen', on', held', job' # NoJob)
    <3>1. PICK after : after = held'
      OBVIOUS
    <3>2. Good(card', todo, screen, chosen, on, held, job # NoJob)
      BY <1>7, <2>3, <2>4
    <3>3. Good(card', todo, screen, chosen, on, after, job # NoJob)
      BY <2>2, <3>1, <3>2, EndedGood
    <3>4. (job' # NoJob) = (job # NoJob)
      BY <2>2
    <3> QED
      BY <1>2, <2>2, <3>1, <3>3, <3>4
  <2>5. ChoicesInv'
    BY <2>2, <2>4, NoCallChoices
  <2> QED
    BY <1>3, <2>2, <2>5 DEF KeptInv
<1>9. CASE left # <<>>
  <2>1. call = [who |-> call.who, step |-> call.step, ops |-> call.ops]
    BY DEF ManagerInv, CallInv
  <2>2. /\ call'.ops = left /\ call'.who = call.who /\ call'.step = call.step
        /\ todo' = todo /\ held' = held /\ job' = job
    BY <1>2, <1>9, <2>1
  <2>3. Soft(call') <=> Soft(call)
    BY <2>2 DEF Soft
  <2>4. ChoicesInv'
    BY <1>2, <1>7, <2>2, <2>3 DEF ChoicesInv
  <2>5. PlaceInv'
    BY <2>2 DEF KeptInv, PlaceInv
  <2> QED
    BY <1>3, <2>4, <2>5 DEF KeptInv
<1> QED
  BY <1>8, <1>9

LEMMA FailsNowKept == ManagerInv /\ ScreenIsCardInv /\ KeptInv /\ FailsNow => KeptInv'
<1> SUFFICES ASSUME ManagerInv, ScreenIsCardInv, KeptInv, FailsNow PROVE KeptInv'
  OBVIOUS
<1>1. PICK ops, op : ops = call.ops /\ op = Head(ops)
  OBVIOUS
<1>2. /\ ops # <<>> /\ Ends(AfterFailure(call.step))
      /\ screen' = screen /\ on' = on /\ chosen' = chosen
      /\ \/ ~CanDo(op, card) /\ card' = card /\ count' = count
         \/ Counted("faults")
  BY <1>1 DEF FailsNow
<1>3. CallerInv /\ call.who \in {"interface", "worker"}
  BY <1>1, <1>2, CallersAre DEF ScreenIsCardInv
<1>4. job' = [job EXCEPT !.stage = IF call.who = "worker" THEN AfterJob ELSE @]
  BY <1>2 DEF Ends
<1>5. PlaceInv'
  <2>1. AfterJob # "install"
    BY DEF AfterJob
  <2>2. job' = job \/ job'.stage = AfterJob
    BY <1>4 DEF ManagerInv, JobInv
  <2> QED
    BY <2>1, <2>2 DEF KeptInv, PlaceInv
<1>6. CASE Counted("faults")
  <2>1. CountInv' /\ ~Undisturbed'
    BY <1>6, Counting DEF KeptInv
  <2> QED
    BY <1>5, <2>1 DEF KeptInv, ChoicesInv
<1>7. CASE ~CanDo(op, card) /\ card' = card /\ count' = count
  <2>1. CountInv' /\ (Undisturbed' => Undisturbed)
    BY <1>7, SameCount DEF KeptInv
  <2>2. PICK S : ops \in Seq(S)
    BY <1>1 DEF ManagerInv, CallInv, GoodOps, IsASequence
  <2>3. Len(ops) \in Nat /\ 1 \in 1..Len(ops) /\ op = ops[1] /\ 1 - 1 = 0
    BY <1>1, <1>2, <2>2
  <2>4. Run(ops, card)[0] = card
    BY <2>3, RunIs
  <2>5. ASSUME Undisturbed'
        PROVE  Soft(call) /\ Good(card, todo, screen, chosen, on, held, job # NoJob)
    <3>1. \A i \in 1..Len(ops) :
            \/ CanDo(ops[i], Run(ops, card)[i - 1])
            \/ Soft(call) /\ Good(Run(ops, card)[i - 1], todo, screen, chosen, on, held, job # NoJob)
      BY <1>1, <2>1, <2>5 DEF KeptInv, ChoicesInv
    <3>2. \/ CanDo(ops[1], Run(ops, card)[1 - 1])
          \/ Soft(call) /\ Good(Run(ops, card)[1 - 1], todo, screen, chosen, on, held, job # NoJob)
      BY <2>3, <3>1
    <3>3. Run(ops, card)[1 - 1] = card
      BY <2>3, <2>4
    <3> QED
      BY <1>7, <2>3, <3>2, <3>3
  <2>6. call' = NoCall
    BY <1>2 DEF Ends
  <2>7. ASSUME Undisturbed' PROVE Good(card', todo', screen', chosen', on', held', job' # NoJob)
    <3>1. Ends(todo)
      <4>1. CASE call.who = "worker"
        BY <1>2, <4>1 DEF Ends
      <4>2. CASE call.step[1] = "package"
        <5>1. AfterFailure(call.step) = todo
          BY <4>2 DEF AfterFailure
        <5> QED
          BY <1>2, <5>1
      <4> QED
        BY <2>5, <2>7, <4>1, <4>2 DEF Soft
    <3>2. call.ops # <<>> /\ PlaceInv
      BY <1>1, <1>2 DEF KeptInv
    <3>3. todo' = todo /\ (held' <=> (held /\ todo # <<>>)) /\ ((job' # NoJob) <=> (job # NoJob))
      BY <3>1, <3>2, EndsKept
    <3>4. PICK after : after = held'
      OBVIOUS
    <3>5. Good(card, todo, screen, chosen, on, held, job # NoJob)
      BY <2>5, <2>7
    <3>6. Good(card, todo, screen, chosen, on, after, job # NoJob)
      BY <3>3, <3>4, <3>5, EndedGood
    <3>7. (job' # NoJob) = (job # NoJob)
      BY <3>3
    <3> QED
      BY <1>2, <1>7, <3>3, <3>4, <3>6, <3>7
  <2>8. ChoicesInv'
    BY <2>6, <2>7, NoCallChoices
  <2> QED
    BY <1>5, <2>1, <2>8 DEF KeptInv
<1> QED
  BY <1>2, <1>6, <1>7

-----------------------------------------------------------------------------
(* The choices are kept.                                                   *)

LEMMA InitKept == Init => KeptInv
<1> SUFFICES ASSUME Init PROVE KeptInv
  OBVIOUS
<1>1. /\ card \in Cards /\ call = NoCall /\ job = NoJob /\ on = TRUE /\ held = FALSE /\ todo = Start(card)
      /\ count = [kind \in DOMAIN MaxOf |-> 0] /\ chosen = <<>>
  BY DEF Init
<1>2. Whole(card)
  BY InitIsGood, WholeCard DEF ManagerInv, CardInv
<1>3. PICK ch : ch = chosen
  OBVIOUS
<1>4. \A name \in DOMAIN ch : KeepsIn(card, name, ch[name][2])
  BY <1>1, <1>3
<1>5. Good(card, Start(card), screen, ch, TRUE, held, FALSE)
  BY <1>2, <1>4, Starting
<1>6. (job # NoJob) = FALSE
  BY <1>1
<1>7. Good(card, todo, screen, chosen, on, held, job # NoJob)
  BY <1>1, <1>3, <1>5, <1>6
<1>8. ChoicesInv
  <2>1. call.ops = <<>> /\ After(<<>>, card) = card
    BY <1>1, NothingJoins DEF NoCall
  <2>2. \A i \in 1..Len(call.ops) : FALSE
    BY <2>1
  <2> QED
    BY <1>7, <2>1, <2>2 DEF ChoicesInv
<1>9. PlaceInv
  <2>1. NoJob.stage # "install"
    BY DEF NoJob
  <2> QED
    BY <1>1, <2>1 DEF PlaceInv
<1>10. CountInv
  <2>1. "faults" \in DOMAIN MaxOf /\ "cuts" \in DOMAIN MaxOf
    BY CardsAssumption
  <2> QED
    BY <1>1, <2>1 DEF CountInv
<1> QED
  BY <1>8, <1>9, <1>10 DEF KeptInv

LEMMA NextKept == ManagerInv /\ ScreenIsCardInv /\ KeptInv /\ [Next]_vars => KeptInv'
<1> SUFFICES ASSUME ManagerInv, ScreenIsCardInv, KeptInv, [Next]_vars PROVE KeptInv'
  OBVIOUS
<1>1. CASE UNCHANGED vars
  BY <1>1 DEF KeptInv, ChoicesInv, PlaceInv, CountInv, Undisturbed, vars
<1>2. CASE Works \/ FailsNow \/ Reads \/ Normalizes \/ Migrates \/ CallsCore
  BY <1>2, WorksKept, FailsNowKept, ReadsKept, NormalizesKept, MigratesKept, CallsCoreKept
<1>3. CASE \E folder \in Folders : Toggle(folder) \/ UninstallMod(folder) \/ LoadPlugins(folder)
  BY <1>3, ToggleKept, UninstallModKept, LoadPluginsKept
<1>4. CASE \E folder \in Folders, option \in OptionNames : Select(folder, option)
  BY <1>4, SelectKept
<1>5. CASE \E folder \in Folders, position \in 0..(Len(screen.mods) - 1) : Move(folder, position)
  <2>1. \A position \in 0..(Len(screen.mods) - 1) : position \in Nat
    OBVIOUS
  <2> QED
    BY <1>5, <2>1, MoveKept
<1>6. CASE \/ \E name \in NewNames, copy \in BOOLEAN : Create(name, copy)
           \/ \E name \in ToSet(screen.profiles) : Activate(name) \/ Delete(name)
           \/ \E name \in ToSet(screen.profiles), to \in NewNames : Rename(name, to)
  BY <1>6, CreateKept, ActivateKept, DeleteKept, RenameKept
<1>7. CASE \E name \in DOMAIN Archives : Download(name)
  BY <1>7, DownloadKept
<1>8. CASE WorkerCalls \/ JobDone \/ Quit \/ Open \/ PowerCut \/ ByHand
  BY <1>8, WorkerCallsKept, JobDoneKept, QuitKept, OpenKept, PowerCutKept, ByHandKept
<1> QED
  BY <1>1, <1>2, <1>3, <1>4, <1>5, <1>6, <1>7, <1>8 DEF Next

\* The list a user chose for a profile keeps its order, what is enabled and the
\* options: while the card fails no call it could do and the power never goes, a
\* list that was saved, copied or renamed is still in its profile when nothing is
\* under way, through installations, updates, removals, migrations, starts and
\* completions of the list, which only add to it (app.cpp, install.rs, profile.rs).
THEOREM ChoicesStayKept == Spec => []ChoicesAreKept
<1>1. Init => ManagerInv /\ ScreenIsCardInv /\ KeptInv
  BY InitIsGood, InitShows, InitKept
<1>2. ManagerInv /\ ScreenIsCardInv /\ KeptInv /\ [Next]_vars => (ManagerInv /\ ScreenIsCardInv /\ KeptInv)'
  BY NextKeeps, NextShows, NextKept
<1>3. KeptInv => ChoicesAreKept
  <2> SUFFICES ASSUME KeptInv, AtRest, Undisturbed, NEW name \in DOMAIN chosen
               PROVE  HasProfile(card, name) /\ Keeps(LoadProfile(card, name), chosen[name][2])
    BY DEF ChoicesAreKept
  <2>1. Free /\ todo = <<>>
    BY DEF AtRest, Idle
  <2>2. Good(card, todo, screen, chosen, on, held, job # NoJob)
    BY <2>1, NoCallGood DEF KeptInv
  <2> QED
    BY <2>1, <2>2 DEF Good, Promised, KeepsIn
<1> QED
  BY <1>1, <1>2, <1>3, PTL DEF Spec
=============================================================================
