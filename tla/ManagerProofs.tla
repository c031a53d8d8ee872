----------------------------- MODULE ManagerProofs -----------------------------
(***************************************************************************)
(* Proofs about the manager and its settings files (Ini, ModFolders,       *)
(* Manager): a profile that is written is read back as it was, no profile  *)
(* under its own name is ever a list cut short, and what the list on the   *)
(* screen shows is what the game merges.                                   *)
(***************************************************************************)
EXTENDS Manager, TLAPS, FiniteSetTheorems, NaturalsInduction, SequenceTheorems, WellFoundedInduction

-----------------------------------------------------------------------------
(* Recursion over the numbers and over sequences.                          *)

\* The numbers are well-ordered, and what holds step by step holds of all.
LEMMA StepByStep ==
  ASSUME NEW T, 0 \in T, \A n \in Nat : n \in T => n + 1 \in T
  PROVE  \A n \in Nat : n \in T
<1> DEFINE Out == {n \in Nat : n \notin T}
<1> SUFFICES ASSUME Out # {} PROVE FALSE
  OBVIOUS
<1>1. IsWellFoundedOn(OpToRel(<, Nat), Nat)
  BY NatLessThanWellFounded
<1>2. PICK x \in Out : \A y \in Out : ~(<<y, x>> \in OpToRel(<, Nat))
  BY <1>1, WFMin, Zenon
<1>3. x \in Nat /\ x # 0 /\ x \notin T
  OBVIOUS
<1>4. x - 1 \in Nat /\ x - 1 < x /\ (x - 1) + 1 = x
  BY <1>3
<1>5. x - 1 \notin T
  BY <1>3, <1>4
<1>6. <<x - 1, x>> \in OpToRel(<, Nat)
  BY <1>3, <1>4 DEF OpToRel
<1> QED
  BY <1>2, <1>4, <1>5, <1>6

\* What FlattenSeq computes.
LEMMA FlattenIs ==
  ASSUME NEW seqs, Len(seqs) \in Nat, Len(seqs) # 0
  PROVE  \E f : /\ FlattenSeq(seqs) = f[Len(seqs)] /\ f[1] = seqs[1]
                /\ \A n \in 2..Len(seqs) : f[n] = f[n - 1] \o seqs[n]
<1> DEFINE Flat(f, n) == f = [i \in 1..n |-> IF i = 1 THEN seqs[i] ELSE f[i - 1] \o seqs[i]]
           T == {n \in Nat : \E f : Flat(f, n + 1)}
<1>1. \E f : Flat(f, 1)
  <2>1. Flat([i \in 1..1 |-> seqs[1]], 1)
    OBVIOUS
  <2> HIDE DEF Flat
  <2> QED
    BY <2>1
<1>2. ASSUME NEW n \in Nat, NEW f, Flat(f, n + 1) PROVE \E g : Flat(g, n + 2)
  <2> DEFINE g == [i \in 1..(n + 2) |-> IF i = n + 2 THEN f[n + 1] \o seqs[n + 2] ELSE f[i]]
  <2>1. ASSUME NEW i \in 1..(n + 2) PROVE g[i] = IF i = 1 THEN seqs[i] ELSE g[i - 1] \o seqs[i]
    <3>1. CASE i = n + 2
      <4>1. i - 1 \in 1..(n + 2) /\ i - 1 # n + 2 /\ i - 1 = n + 1 /\ i # 1
        BY <3>1
      <4>2. g[i] = f[n + 1] \o seqs[n + 2] /\ g[i - 1] = f[i - 1]
        BY <3>1, <4>1
      <4> QED
        BY <4>1, <4>2, <3>1
    <3>2. CASE i # n + 2
      <4>1. i \in 1..(n + 1)
        BY <3>2
      <4>2. f[i] = IF i = 1 THEN seqs[i] ELSE f[i - 1] \o seqs[i]
        BY <1>2, <4>1
      <4>3. g[i] = f[i] /\ (i # 1 => g[i - 1] = f[i - 1])
        BY <3>2
      <4> QED
        BY <4>2, <4>3
    <3> QED
      BY <3>1, <3>2
  <2>2. DOMAIN g = 1..(n + 2) /\ g = [i \in 1..(n + 2) |-> g[i]]
    OBVIOUS
  <2> HIDE DEF g
  <2>3. Flat(g, n + 2)
    BY <2>1, <2>2
  <2> HIDE DEF Flat
  <2> QED
    BY <2>3
<1> DEFINE F == CHOOSE f : Flat(f, Len(seqs))
<1>3. FlattenSeq(seqs) = F[Len(seqs)]
  BY DEF FlattenSeq
<1> HIDE DEF Flat
<1>4. 0 \in T /\ \A n \in Nat : n \in T => n + 1 \in T
  <2>1. 0 \in T
    BY <1>1
  <2>2. ASSUME NEW n \in Nat, n \in T PROVE n + 1 \in T
    <3>1. PICK f : Flat(f, n + 1)
      BY <2>2
    <3>2. \E g : Flat(g, n + 2)
      BY <3>1, <1>2
    <3>3. (n + 1) + 1 = n + 2 /\ n + 1 \in Nat
      OBVIOUS
    <3> QED
      BY <3>2, <3>3
  <2> QED
    BY <2>1, <2>2
<1> HIDE DEF T
<1>5. Len(seqs) - 1 \in T
  BY <1>4, StepByStep
<1>6. \E f : Flat(f, Len(seqs))
  <2>1. (Len(seqs) - 1) + 1 = Len(seqs)
    OBVIOUS
  <2> QED
    BY <1>5, <2>1 DEF T
<1>7. Flat(F, Len(seqs))
  BY <1>6
<1> HIDE DEF F
<1>8. F[1] = seqs[1] /\ \A n \in 2..Len(seqs) : F[n] = F[n - 1] \o seqs[n]
  <2>1. ASSUME NEW i \in 1..Len(seqs) PROVE F[i] = IF i = 1 THEN seqs[i] ELSE F[i - 1] \o seqs[i]
    BY <1>7 DEF Flat
  <2>2. F[1] = seqs[1]
    <3>1. 1 \in 1..Len(seqs)
      OBVIOUS
    <3> QED
      BY <2>1, <3>1
  <2>3. ASSUME NEW n \in 2..Len(seqs) PROVE F[n] = F[n - 1] \o seqs[n]
    <3>1. n \in 1..Len(seqs) /\ n # 1
      OBVIOUS
    <3> QED
      BY <2>1, <3>1
  <2> QED
    BY <2>2, <2>3
<1> QED
  BY <1>3, <1>8

\* What Parse computes.
LEMMA ParseIs ==
  ASSUME NEW lines, Len(lines) \in Nat
  PROVE  \E f : /\ Parse(lines) = f[Len(lines)] /\ f[0] = <<Unnamed>>
                /\ \A n \in 1..Len(lines) : f[n] = ReadLine(f[n - 1], lines[n])
<1> DEFINE Run(f, n) == f = [i \in 0..n |-> IF i = 0 THEN <<Unnamed>> ELSE ReadLine(f[i - 1], lines[i])]
           T == {n \in Nat : \E f : Run(f, n)}
<1>1. \E f : Run(f, 0)
  <2>1. Run([i \in 0..0 |-> <<Unnamed>>], 0)
    OBVIOUS
  <2> HIDE DEF Run
  <2> QED
    BY <2>1
<1>2. ASSUME NEW n \in Nat, NEW f, Run(f, n) PROVE \E g : Run(g, n + 1)
  <2> DEFINE g == [i \in 0..(n + 1) |-> IF i = n + 1 THEN ReadLine(f[n], lines[n + 1]) ELSE f[i]]
  <2>1. ASSUME NEW i \in 0..(n + 1) PROVE g[i] = IF i = 0 THEN <<Unnamed>> ELSE ReadLine(g[i - 1], lines[i])
    <3>1. CASE i = n + 1
      <4>1. i - 1 \in 0..(n + 1) /\ i - 1 # n + 1 /\ i - 1 = n /\ i # 0
        BY <3>1
      <4>2. g[i] = ReadLine(f[n], lines[n + 1]) /\ g[i - 1] = f[i - 1]
        BY <3>1, <4>1
      <4> QED
        BY <4>1, <4>2, <3>1
    <3>2. CASE i # n + 1
      <4>1. i \in 0..n
        BY <3>2
      <4>2. f[i] = IF i = 0 THEN <<Unnamed>> ELSE ReadLine(f[i - 1], lines[i])
        BY <1>2, <4>1
      <4>3. g[i] = f[i] /\ (i # 0 => g[i - 1] = f[i - 1])
        BY <3>2
      <4> QED
        BY <4>2, <4>3
    <3> QED
      BY <3>1, <3>2
  <2>2. DOMAIN g = 0..(n + 1) /\ g = [i \in 0..(n + 1) |-> g[i]]
    OBVIOUS
  <2> HIDE DEF g
  <2>3. Run(g, n + 1)
    BY <2>1, <2>2
  <2> HIDE DEF Run
  <2> QED
    BY <2>3
<1> DEFINE F == CHOOSE f : Run(f, Len(lines))
<1>3. Parse(lines) = F[Len(lines)]
  BY DEF Parse
<1> HIDE DEF Run
<1>4. 0 \in T /\ \A n \in Nat : n \in T => n + 1 \in T
  BY <1>1, <1>2
<1> HIDE DEF T
<1>5. Len(lines) \in T
  BY <1>4, StepByStep
<1>6. \E f : Run(f, Len(lines))
  BY <1>5 DEF T
<1>7. Run(F, Len(lines))
  BY <1>6
<1> HIDE DEF F
<1>8. F[0] = <<Unnamed>> /\ \A n \in 1..Len(lines) : F[n] = ReadLine(F[n - 1], lines[n])
  <2>1. ASSUME NEW i \in 0..Len(lines) PROVE F[i] = IF i = 0 THEN <<Unnamed>> ELSE ReadLine(F[i - 1], lines[i])
    BY <1>7 DEF Run
  <2>2. F[0] = <<Unnamed>>
    <3>1. 0 \in 0..Len(lines)
      OBVIOUS
    <3> QED
      BY <2>1, <3>1
  <2>3. ASSUME NEW n \in 1..Len(lines) PROVE F[n] = ReadLine(F[n - 1], lines[n])
    <3>1. n \in 0..Len(lines) /\ n # 0
      OBVIOUS
    <3> QED
      BY <2>1, <3>1
  <2> QED
    BY <2>2, <2>3
<1> QED
  BY <1>3, <1>8

\* What ListIn computes.
LEMMA ListInIs ==
  ASSUME NEW sections, Len(sections) \in Nat
  PROVE  \E f : /\ ListIn(sections) = f[Len(sections)] /\ f[0] = <<>>
                /\ \A n \in 1..Len(sections) : f[n] = ReadSection(f[n - 1], sections[n])
<1> DEFINE Run(f, n) == f = [i \in 0..n |-> IF i = 0 THEN <<>> ELSE ReadSection(f[i - 1], sections[i])]
           T == {n \in Nat : \E f : Run(f, n)}
<1>1. \E f : Run(f, 0)
  <2>1. Run([i \in 0..0 |-> <<>>], 0)
    OBVIOUS
  <2> HIDE DEF Run
  <2> QED
    BY <2>1
<1>2. ASSUME NEW n \in Nat, NEW f, Run(f, n) PROVE \E g : Run(g, n + 1)
  <2> DEFINE g == [i \in 0..(n + 1) |-> IF i = n + 1 THEN ReadSection(f[n], sections[n + 1]) ELSE f[i]]
  <2>1. ASSUME NEW i \in 0..(n + 1) PROVE g[i] = IF i = 0 THEN <<>> ELSE ReadSection(g[i - 1], sections[i])
    <3>1. CASE i = n + 1
      <4>1. i - 1 \in 0..(n + 1) /\ i - 1 # n + 1 /\ i - 1 = n /\ i # 0
        BY <3>1
      <4>2. g[i] = ReadSection(f[n], sections[n + 1]) /\ g[i - 1] = f[i - 1]
        BY <3>1, <4>1
      <4> QED
        BY <4>1, <4>2, <3>1
    <3>2. CASE i # n + 1
      <4>1. i \in 0..n
        BY <3>2
      <4>2. f[i] = IF i = 0 THEN <<>> ELSE ReadSection(f[i - 1], sections[i])
        BY <1>2, <4>1
      <4>3. g[i] = f[i] /\ (i # 0 => g[i - 1] = f[i - 1])
        BY <3>2
      <4> QED
        BY <4>2, <4>3
    <3> QED
      BY <3>1, <3>2
  <2>2. DOMAIN g = 0..(n + 1) /\ g = [i \in 0..(n + 1) |-> g[i]]
    OBVIOUS
  <2> HIDE DEF g
  <2>3. Run(g, n + 1)
    BY <2>1, <2>2
  <2> HIDE DEF Run
  <2> QED
    BY <2>3
<1> DEFINE F == CHOOSE f : Run(f, Len(sections))
<1>3. ListIn(sections) = F[Len(sections)]
  BY DEF ListIn
<1> HIDE DEF Run
<1>4. 0 \in T /\ \A n \in Nat : n \in T => n + 1 \in T
  BY <1>1, <1>2
<1> HIDE DEF T
<1>5. Len(sections) \in T
  BY <1>4, StepByStep
<1>6. \E f : Run(f, Len(sections))
  BY <1>5 DEF T
<1>7. Run(F, Len(sections))
  BY <1>6
<1> HIDE DEF F
<1>8. F[0] = <<>> /\ \A n \in 1..Len(sections) : F[n] = ReadSection(F[n - 1], sections[n])
  <2>1. ASSUME NEW i \in 0..Len(sections) PROVE F[i] = IF i = 0 THEN <<>> ELSE ReadSection(F[i - 1], sections[i])
    BY <1>7 DEF Run
  <2>2. F[0] = <<>>
    <3>1. 0 \in 0..Len(sections)
      OBVIOUS
    <3> QED
      BY <2>1, <3>1
  <2>3. ASSUME NEW n \in 1..Len(sections) PROVE F[n] = ReadSection(F[n - 1], sections[n])
    <3>1. n \in 0..Len(sections) /\ n # 0
      OBVIOUS
    <3> QED
      BY <2>1, <3>1
  <2> QED
    BY <2>2, <2>3
<1> QED
  BY <1>3, <1>8

\* What Among computes.
LEMMA AmongIs ==
  ASSUME NEW seq, NEW set, Len(seq) \in Nat
  PROVE  \E f : /\ Among(seq, set) = f[Len(seq)] /\ f[0] = <<>>
                /\ \A n \in 1..Len(seq) : f[n] = (IF seq[n] \in set THEN Append(f[n - 1], seq[n]) ELSE f[n - 1])
<1> DEFINE Run(f, n) == f = [i \in 0..n |-> IF i = 0 THEN <<>> ELSE (IF seq[i] \in set THEN Append(f[i - 1], seq[i]) ELSE f[i - 1])]
           T == {n \in Nat : \E f : Run(f, n)}
<1>1. \E f : Run(f, 0)
  <2>1. Run([i \in 0..0 |-> <<>>], 0)
    OBVIOUS
  <2> HIDE DEF Run
  <2> QED
    BY <2>1
<1>2. ASSUME NEW n \in Nat, NEW f, Run(f, n) PROVE \E g : Run(g, n + 1)
  <2> DEFINE g == [i \in 0..(n + 1) |-> IF i = n + 1 THEN (IF seq[n + 1] \in set THEN Append(f[n], seq[n + 1]) ELSE f[n]) ELSE f[i]]
  <2>1. ASSUME NEW i \in 0..(n + 1) PROVE g[i] = IF i = 0 THEN <<>> ELSE (IF seq[i] \in set THEN Append(g[i - 1], seq[i]) ELSE g[i - 1])
    <3>1. CASE i = n + 1
      <4>1. i - 1 \in 0..(n + 1) /\ i - 1 # n + 1 /\ i - 1 = n /\ i # 0
        BY <3>1
      <4>2. g[i] = (IF seq[n + 1] \in set THEN Append(f[n], seq[n + 1]) ELSE f[n]) /\ g[i - 1] = f[i - 1]
        BY <3>1, <4>1
      <4> QED
        BY <4>1, <4>2, <3>1
    <3>2. CASE i # n + 1
      <4>1. i \in 0..n
        BY <3>2
      <4>2. f[i] = IF i = 0 THEN <<>> ELSE (IF seq[i] \in set THEN Append(f[i - 1], seq[i]) ELSE f[i - 1])
        BY <1>2, <4>1
      <4>3. g[i] = f[i] /\ (i # 0 => g[i - 1] = f[i - 1])
        BY <3>2
      <4> QED
        BY <4>2, <4>3
    <3> QED
      BY <3>1, <3>2
  <2>2. DOMAIN g = 0..(n + 1) /\ g = [i \in 0..(n + 1) |-> g[i]]
    OBVIOUS
  <2> HIDE DEF g
  <2>3. Run(g, n + 1)
    BY <2>1, <2>2
  <2> HIDE DEF Run
  <2> QED
    BY <2>3
<1> DEFINE F == CHOOSE f : Run(f, Len(seq))
<1>3. Among(seq, set) = F[Len(seq)]
  BY DEF Among
<1> HIDE DEF Run
<1>4. 0 \in T /\ \A n \in Nat : n \in T => n + 1 \in T
  BY <1>1, <1>2
<1> HIDE DEF T
<1>5. Len(seq) \in T
  BY <1>4, StepByStep
<1>6. \E f : Run(f, Len(seq))
  BY <1>5 DEF T
<1>7. Run(F, Len(seq))
  BY <1>6
<1> HIDE DEF F
<1>8. F[0] = <<>> /\ \A n \in 1..Len(seq) : F[n] = (IF seq[n] \in set THEN Append(F[n - 1], seq[n]) ELSE F[n - 1])
  <2>1. ASSUME NEW i \in 0..Len(seq) PROVE F[i] = IF i = 0 THEN <<>> ELSE (IF seq[i] \in set THEN Append(F[i - 1], seq[i]) ELSE F[i - 1])
    BY <1>7 DEF Run
  <2>2. F[0] = <<>>
    <3>1. 0 \in 0..Len(seq)
      OBVIOUS
    <3> QED
      BY <2>1, <3>1
  <2>3. ASSUME NEW n \in 1..Len(seq) PROVE F[n] = (IF seq[n] \in set THEN Append(F[n - 1], seq[n]) ELSE F[n - 1])
    <3>1. n \in 0..Len(seq) /\ n # 0
      OBVIOUS
    <3> QED
      BY <2>1, <3>1
  <2> QED
    BY <2>2, <2>3
<1> QED
  BY <1>3, <1>8

-----------------------------------------------------------------------------
(* A profile that is written is read back as it was.                       *)

\* A line more is read after the lines before it.
LEMMA ParseAppend ==
  ASSUME NEW S, NEW s \in Seq(S), NEW x \in S
  PROVE  Parse(Append(s, x)) = ReadLine(Parse(s), x)
<1> DEFINE t == Append(s, x)
<1>1. Len(s) \in Nat /\ Len(t) \in Nat /\ Len(t) = Len(s) + 1 /\ t[Len(t)] = x
  OBVIOUS
<1>2. \A n \in 1..Len(s) : t[n] = s[n]
  OBVIOUS
<1> HIDE DEF t
<1>3. PICK f : /\ Parse(s) = f[Len(s)]
               /\ \A n \in 1..Len(s) : f[n] = ReadLine(f[n - 1], s[n])
               /\ f[0] = <<Unnamed>>
  BY <1>1, ParseIs
<1>4. PICK g : /\ Parse(t) = g[Len(t)]
               /\ \A n \in 1..Len(t) : g[n] = ReadLine(g[n - 1], t[n])
               /\ g[0] = <<Unnamed>>
  BY <1>1, ParseIs
<1> DEFINE T == {n \in Nat : n <= Len(s) => f[n] = g[n]}
<1>5. 0 \in T
  BY <1>3, <1>4
<1>6. ASSUME NEW n \in Nat, n \in T PROVE n + 1 \in T
  <2> SUFFICES ASSUME n + 1 <= Len(s) PROVE f[n + 1] = g[n + 1]
    OBVIOUS
  <2>1. n + 1 \in 1..Len(s) /\ n + 1 \in 1..Len(t) /\ (n + 1) - 1 = n /\ n <= Len(s)
    BY <1>1
  <2>2. f[n + 1] = ReadLine(f[n], s[n + 1]) /\ g[n + 1] = ReadLine(g[n], t[n + 1])
    BY <2>1, <1>3, <1>4
  <2> QED
    BY <2>1, <2>2, <1>2, <1>6
<1> HIDE DEF T
<1>7. Len(s) \in T
  BY <1>1, <1>5, <1>6, StepByStep
<1>8. f[Len(s)] = g[Len(s)]
  BY <1>1, <1>7 DEF T
<1>9. Len(t) \in 1..Len(t) /\ Len(t) - 1 = Len(s)
  BY <1>1
<1> QED
  BY <1>1, <1>3, <1>4, <1>8, <1>9 DEF t

\* And so is a section more.
LEMMA ListInAppend ==
  ASSUME NEW S, NEW s \in Seq(S), NEW x \in S
  PROVE  ListIn(Append(s, x)) = ReadSection(ListIn(s), x)
<1> DEFINE t == Append(s, x)
<1>1. Len(s) \in Nat /\ Len(t) \in Nat /\ Len(t) = Len(s) + 1 /\ t[Len(t)] = x
  OBVIOUS
<1>2. \A n \in 1..Len(s) : t[n] = s[n]
  OBVIOUS
<1> HIDE DEF t
<1>3. PICK f : /\ ListIn(s) = f[Len(s)]
               /\ \A n \in 1..Len(s) : f[n] = ReadSection(f[n - 1], s[n])
               /\ f[0] = <<>>
  BY <1>1, ListInIs
<1>4. PICK g : /\ ListIn(t) = g[Len(t)]
               /\ \A n \in 1..Len(t) : g[n] = ReadSection(g[n - 1], t[n])
               /\ g[0] = <<>>
  BY <1>1, ListInIs
<1> DEFINE T == {n \in Nat : n <= Len(s) => f[n] = g[n]}
<1>5. 0 \in T
  BY <1>3, <1>4
<1>6. ASSUME NEW n \in Nat, n \in T PROVE n + 1 \in T
  <2> SUFFICES ASSUME n + 1 <= Len(s) PROVE f[n + 1] = g[n + 1]
    OBVIOUS
  <2>1. n + 1 \in 1..Len(s) /\ n + 1 \in 1..Len(t) /\ (n + 1) - 1 = n /\ n <= Len(s)
    BY <1>1
  <2>2. f[n + 1] = ReadSection(f[n], s[n + 1]) /\ g[n + 1] = ReadSection(g[n], t[n + 1])
    BY <2>1, <1>3, <1>4
  <2> QED
    BY <2>1, <2>2, <1>2, <1>6
<1> HIDE DEF T
<1>7. Len(s) \in T
  BY <1>1, <1>5, <1>6, StepByStep
<1>8. f[Len(s)] = g[Len(s)]
  BY <1>1, <1>7 DEF T
<1>9. Len(t) \in 1..Len(t) /\ Len(t) - 1 = Len(s)
  BY <1>1
<1> QED
  BY <1>1, <1>3, <1>4, <1>8, <1>9 DEF t

\* The lines of a profile, and the section that is made of one mod's.
ListLine ==
  {Comment, Section("mod")} \cup {Value("folder", name) : name \in Names} \cup {Value("enabled", flag) : flag \in {"0", "1"}}
  \cup {Value(OptionKey, option) : option \in OptionNames}
SectionOf(entry) ==
  [name |-> "mod",
   entries |-> <<<<"folder", entry.folder>>, <<"enabled", IF entry.enabled THEN "1" ELSE "0">>>>
               \o IF OptionGroup \in DOMAIN entry.options THEN <<<<OptionKey, entry.options[OptionGroup]>>>> ELSE <<>>]

\* Short sequences.
LEMMA Short ==
  /\ \A a : Append(<<>>, a) = <<a>>
  /\ \A a, b : Append(<<a>>, b) = <<a, b>>
  /\ \A a, b, c : Append(<<a, b>>, c) = <<a, b, c>>
  /\ \A a, b : <<a, b>> \o <<>> = <<a, b>>
  /\ \A a, b : <<a>> \o <<b>> = <<a, b>>
  /\ \A a, b, c : <<a, b>> \o <<c>> = <<a, b, c>>
  /\ \A a, b, c : <<a, b, c>> \o <<>> = <<a, b, c>>
  /\ \A a, b, c, d : <<a, b, c>> \o <<d>> = <<a, b, c, d>>
<1>1. ASSUME NEW a PROVE Append(<<>>, a) = <<a>>
  <2> DEFINE S == {a}
  <2>1. <<a>> \in Seq(S) /\ Len(<<a>>) = 1
    OBVIOUS
  <2>2. Append(<<>>, a) \in Seq(S) /\ Len(Append(<<>>, a)) = 1
    OBVIOUS
  <2>3. \A i \in 1..1 : (Append(<<>>, a))[i] = <<a>>[i]
    OBVIOUS
  <2> QED
    BY <2>1, <2>2, <2>3, SeqEqual
<1>2. ASSUME NEW a, NEW b PROVE Append(<<a>>, b) = <<a, b>>
  <2> DEFINE S == {a, b}
  <2>1. <<a, b>> \in Seq(S) /\ Len(<<a, b>>) = 2
    OBVIOUS
  <2>2. Append(<<a>>, b) \in Seq(S) /\ Len(Append(<<a>>, b)) = 2
    OBVIOUS
  <2>3. \A i \in 1..2 : (Append(<<a>>, b))[i] = <<a, b>>[i]
    OBVIOUS
  <2> QED
    BY <2>1, <2>2, <2>3, SeqEqual
<1>3. ASSUME NEW a, NEW b, NEW c PROVE Append(<<a, b>>, c) = <<a, b, c>>
  <2> DEFINE S == {a, b, c}
  <2>1. <<a, b, c>> \in Seq(S) /\ Len(<<a, b, c>>) = 3
    OBVIOUS
  <2>2. Append(<<a, b>>, c) \in Seq(S) /\ Len(Append(<<a, b>>, c)) = 3
    OBVIOUS
  <2>3. \A i \in 1..3 : (Append(<<a, b>>, c))[i] = <<a, b, c>>[i]
    OBVIOUS
  <2> QED
    BY <2>1, <2>2, <2>3, SeqEqual
<1>4. ASSUME NEW a, NEW b PROVE <<a, b>> \o <<>> = <<a, b>>
  OBVIOUS
<1>5. ASSUME NEW a, NEW b, NEW c PROVE <<a, b, c>> \o <<>> = <<a, b, c>>
  OBVIOUS
<1>6. ASSUME NEW a, NEW b, NEW c PROVE <<a, b>> \o <<c>> = <<a, b, c>>
  <2> DEFINE S == {a, b, c}
  <2>1. <<a, b, c>> \in Seq(S) /\ Len(<<a, b, c>>) = 3
    OBVIOUS
  <2>2. <<a, b>> \o <<c>> \in Seq(S) /\ Len(<<a, b>> \o <<c>>) = 3
    OBVIOUS
  <2>3. \A i \in 1..3 : (<<a, b>> \o <<c>>)[i] = <<a, b, c>>[i]
    OBVIOUS
  <2> QED
    BY <2>1, <2>2, <2>3, SeqEqual
<1>7. ASSUME NEW a, NEW b, NEW c, NEW d PROVE <<a, b, c>> \o <<d>> = <<a, b, c, d>>
  <2> DEFINE S == {a, b, c, d}
  <2>1. <<a, b, c, d>> \in Seq(S) /\ Len(<<a, b, c, d>>) = 4
    OBVIOUS
  <2>2. <<a, b, c>> \o <<d>> \in Seq(S) /\ Len(<<a, b, c>> \o <<d>>) = 4
    OBVIOUS
  <2>3. \A i \in 1..4 : (<<a, b, c>> \o <<d>>)[i] = <<a, b, c, d>>[i]
    OBVIOUS
  <2> QED
    BY <2>1, <2>2, <2>3, SeqEqual
<1>8. ASSUME NEW a, NEW b PROVE <<a>> \o <<b>> = <<a, b>>
  <2> DEFINE S == {a, b}
  <2>1. <<a, b>> \in Seq(S) /\ Len(<<a, b>>) = 2
    OBVIOUS
  <2>2. <<a>> \o <<b>> \in Seq(S) /\ Len(<<a>> \o <<b>>) = 2
    OBVIOUS
  <2>3. \A i \in 1..2 : (<<a>> \o <<b>>)[i] = <<a, b>>[i]
    OBVIOUS
  <2> QED
    BY <2>1, <2>2, <2>3, SeqEqual
<1> QED
  BY <1>1, <1>2, <1>3, <1>4, <1>5, <1>6, <1>7, <1>8, Zenon

\* The value of a key that has one line.
OnlyLine(entries, key, n) ==
  n \in 1..Len(entries) /\ entries[n][1] = key /\ \A i \in 1..Len(entries) : entries[i][1] = key => i = n
LEMMA LookupOne ==
  ASSUME NEW entries, NEW key, NEW fallback, NEW n \in Nat, OnlyLine(entries, key, n)
  PROVE  Lookup(entries, key, fallback, FALSE) = entries[n][2] /\ Lookup(entries, key, fallback, TRUE) = entries[n][2]
<1>1. Max({n}) = n /\ Min({n}) = n
  BY DEF Max, Min
<1>2. {i \in 1..Len(entries) : entries[i][1] = key} = {n}
  BY DEF OnlyLine
<1> QED
  BY <1>1, <1>2 DEF Lookup

\* A line with a value ends up in the last section.
LEMMA LastSection ==
  ASSUME NEW X, NEW s \in Seq(X), NEW name, NEW entries, NEW key, NEW value
  PROVE  ReadLine(Append(s, [name |-> name, entries |-> entries]), Value(key, value))
           = Append(s, [name |-> name, entries |-> Append(entries, <<key, value>>)])
<1> DEFINE u == [name |-> name, entries |-> entries]
           v == [name |-> name, entries |-> Append(entries, <<key, value>>)]
           a == Append(s, u)
           b == Append(s, v)
<1>1. a \in Seq(X \cup {u}) /\ b \in Seq(X \cup {v}) /\ Len(a) = Len(s) + 1 /\ Len(b) = Len(s) + 1
  OBVIOUS
<1>2. /\ \A i \in 1..Len(s) : a[i] = b[i]
      /\ a[Len(s) + 1] = u /\ b[Len(s) + 1] = v
  OBVIOUS
<1> DEFINE c == [a EXCEPT ![Len(a)] = [name |-> @.name, entries |-> Append(@.entries, <<key, value>>)]]
<1>3. ReadLine(a, Value(key, value)) = c
  BY DEF ReadLine, Value
<1>4. a[Len(a)] = u
  BY <1>1, <1>2
<1>5. u.name = name /\ u.entries = entries
  OBVIOUS
<1>6. c = [a EXCEPT ![Len(a)] = v]
  <2> HIDE DEF u, a
  <2> QED
    BY <1>4, <1>5
<1> HIDE DEF u, v, a, b, c
<1>7. Len(s) \in Nat
  OBVIOUS
<1>8. DOMAIN a = 1..Len(a) /\ DOMAIN b = 1..Len(b) /\ a = [i \in 1..Len(a) |-> a[i]] /\ b = [i \in 1..Len(b) |-> b[i]]
  BY <1>1
<1>9. [a EXCEPT ![Len(a)] = v] = b
  BY <1>1, <1>2, <1>7, <1>8
<1> QED
  BY <1>3, <1>6, <1>9 DEF a, b, u, v

\* The lines of a mod are read as its section.
LEMMA ReadsEntry ==
  ASSUME NEW X, NEW sections \in Seq(X), NEW text \in Seq(ListLine), NEW entry \in Entry, Parse(text) = sections
  PROVE  /\ EntryToIni(entry) \in Seq(ListLine) /\ text \o EntryToIni(entry) \in Seq(ListLine)
         /\ Parse(text \o EntryToIni(entry)) = Append(sections, SectionOf(entry))
<1> DEFINE flag == IF entry.enabled THEN "1" ELSE "0"
           o == entry.options[OptionGroup]
           l1 == Section("mod")
           l2 == Value("folder", entry.folder)
           l3 == Value("enabled", flag)
           l4 == Value(OptionKey, o)
           p2 == <<"folder", entry.folder>>
           p3 == <<"enabled", flag>>
           p4 == <<OptionKey, o>>
           Mod(entries) == [name |-> "mod", entries |-> entries]
           t1 == Append(text, l1)
           t2 == Append(t1, l2)
           t3 == Append(t2, l3)
           t4 == Append(t3, l4)
<1>1. l1 \in ListLine /\ l2 \in ListLine /\ l3 \in ListLine
  <2>1. entry.folder \in Names
    BY DEF Entry
  <2> QED
    BY <2>1 DEF ListLine
<1>2. /\ \A line \in ListLine, t \in Seq(ListLine) : Append(t, line) \in Seq(ListLine)
      /\ \A line \in ListLine, t \in Seq(ListLine) : Parse(Append(t, line)) = ReadLine(Parse(t), line)
  <2>1. \A line \in ListLine, t \in Seq(ListLine) : Append(t, line) \in Seq(ListLine)
    OBVIOUS
  <2>2. ASSUME NEW line \in ListLine, NEW t \in Seq(ListLine) PROVE Parse(Append(t, line)) = ReadLine(Parse(t), line)
    BY ParseAppend
  <2> QED
    BY <2>1, <2>2
<1>3. ASSUME NEW es, NEW key, NEW value
      PROVE  ReadLine(Append(sections, Mod(es)), Value(key, value)) = Append(sections, Mod(Append(es, <<key, value>>)))
  BY LastSection
<1>4. /\ ReadLine(sections, l1) = Append(sections, Mod(<<>>))
      /\ \A es : ReadLine(Append(sections, Mod(es)), l2) = Append(sections, Mod(Append(es, p2)))
      /\ \A es : ReadLine(Append(sections, Mod(es)), l3) = Append(sections, Mod(Append(es, p3)))
      /\ \A es : ReadLine(Append(sections, Mod(es)), l4) = Append(sections, Mod(Append(es, p4)))
  <2>1. ReadLine(sections, l1) = Append(sections, Mod(<<>>))
    BY DEF ReadLine, Section, Titled
  <2>2. \A es : ReadLine(Append(sections, Mod(es)), l2) = Append(sections, Mod(Append(es, p2)))
    <3> HIDE DEF Mod
    <3> QED
      BY <1>3
  <2>3. \A es : ReadLine(Append(sections, Mod(es)), l3) = Append(sections, Mod(Append(es, p3)))
    <3> HIDE DEF Mod, flag
    <3> QED
      BY <1>3
  <2>4. \A es : ReadLine(Append(sections, Mod(es)), l4) = Append(sections, Mod(Append(es, p4)))
    <3> HIDE DEF Mod, o
    <3> QED
      BY <1>3
  <2> QED
    BY <2>1, <2>2, <2>3, <2>4
<1>5. /\ OptionGroup \notin DOMAIN entry.options => EntryToIni(entry) = <<l1, l2, l3>> /\ SectionOf(entry) = Mod(<<p2, p3>>)
      /\ OptionGroup \in DOMAIN entry.options => /\ EntryToIni(entry) = <<l1, l2, l3, l4>>
                                                 /\ SectionOf(entry) = Mod(<<p2, p3, p4>>)
  <2>1. /\ EntryToIni(entry) = <<l1, l2, l3>> \o IF OptionGroup \in DOMAIN entry.options THEN <<l4>> ELSE <<>>
        /\ SectionOf(entry) = Mod(<<p2, p3>> \o IF OptionGroup \in DOMAIN entry.options THEN <<p4>> ELSE <<>>)
    BY DEF EntryToIni, SectionOf
  <2> HIDE DEF l1, l2, l3, l4, p2, p3, p4, Mod
  <2>2. /\ <<l1, l2, l3>> \o <<>> = <<l1, l2, l3>> /\ <<l1, l2, l3>> \o <<l4>> = <<l1, l2, l3, l4>>
        /\ <<p2, p3>> \o <<>> = <<p2, p3>> /\ <<p2, p3>> \o <<p4>> = <<p2, p3, p4>>
    BY Short
  <2> QED
    BY <2>1, <2>2
<1>6. OptionGroup \in DOMAIN entry.options => l4 \in ListLine
  <2> SUFFICES ASSUME OptionGroup \in DOMAIN entry.options PROVE l4 \in ListLine
    OBVIOUS
  <2>1. entry.options = <<>> \/ \E option \in OptionNames : entry.options = Selected(option)
    BY DEF Entry
  <2>2. entry.options # <<>>
    <3>1. DOMAIN <<>> = {}
      OBVIOUS
    <3> QED
      BY <3>1
  <2>3. o \in OptionNames
    BY <2>1, <2>2 DEF Selected
  <2> QED
    BY <2>3 DEF ListLine
<1> HIDE DEF l1, l2, l3, l4, p2, p3, p4, Mod
<1>7. t1 \in Seq(ListLine) /\ t2 \in Seq(ListLine) /\ t3 \in Seq(ListLine) /\ t3 = text \o <<l1, l2, l3>>
  BY <1>1
<1>8. Parse(t3) = Append(sections, Mod(<<p2, p3>>))
  <2>1. Parse(t1) = Append(sections, Mod(<<>>))
    BY <1>1, <1>2, <1>4
  <2>2. Append(<<>>, p2) = <<p2>> /\ Append(<<p2>>, p3) = <<p2, p3>>
    BY Short
  <2>3. Parse(t2) = ReadLine(Parse(t1), l2) /\ Parse(t3) = ReadLine(Parse(t2), l3)
    BY <1>1, <1>2, <1>7
  <2>4. Parse(t2) = Append(sections, Mod(<<p2>>))
    BY <2>1, <2>2, <2>3, <1>4, Zenon
  <2> QED
    BY <2>2, <2>3, <2>4, <1>4, Zenon
<1>9. CASE OptionGroup \notin DOMAIN entry.options
  <2>1. <<l1, l2, l3>> \in Seq(ListLine)
    BY <1>1
  <2> QED
    BY <1>9, <1>5, <1>7, <1>8, <2>1
<1>10. CASE OptionGroup \in DOMAIN entry.options
  <2>1. t4 \in Seq(ListLine) /\ t4 = text \o <<l1, l2, l3, l4>>
    BY <1>10, <1>1, <1>6, <1>7
  <2>2. Parse(t4) = Append(sections, Mod(<<p2, p3, p4>>))
    <3>1. Parse(t4) = ReadLine(Parse(t3), l4)
      BY <1>10, <1>2, <1>6, <1>7
    <3>2. Append(<<p2, p3>>, p4) = <<p2, p3, p4>>
      BY Short
    <3> QED
      BY <3>1, <3>2, <1>4, <1>8, Zenon
  <2>3. <<l1, l2, l3, l4>> \in Seq(ListLine)
    BY <1>10, <1>1, <1>6
  <2> QED
    BY <1>10, <1>5, <2>1, <2>2, <2>3
<1> QED
  BY <1>9, <1>10

\* The section of a mod is read as the mod.
LEMMA ReadsBack ==
  ASSUME NEW list, NEW entry \in Entry, FindEntry(list, entry.folder) = {}
  PROVE  ReadSection(list, SectionOf(entry)) = Append(list, entry)
<1> DEFINE flag == IF entry.enabled THEN "1" ELSE "0"
           section == SectionOf(entry)
           given == section.entries
<1>1. /\ entry.folder \in Names /\ entry.folder # "" /\ entry.enabled \in BOOLEAN
      /\ entry = Listed(entry.folder, entry.enabled, entry.options)
  BY NamesAssumption DEF Entry, Listed
<1>2. entry.options = <<>> \/ \E option \in OptionNames : entry.options = Selected(option)
  BY DEF Entry
<1>3. section.name = "mod"
  BY DEF SectionOf
<1> DEFINE p2 == <<"folder", entry.folder>>
           p3 == <<"enabled", flag>>
           p4 == <<OptionKey, entry.options[OptionGroup]>>
<1>4. given = <<p2, p3>> \o IF OptionGroup \in DOMAIN entry.options THEN <<p4>> ELSE <<>>
  BY DEF SectionOf
<1>5. ASSUME entry.options = <<>>
      PROVE  /\ Lookup(given, "folder", "", FALSE) = entry.folder /\ Lookup(given, "enabled", "1", FALSE) = flag
             /\ OptionsIn(given, OptionKey) = entry.options
  <2>1. OptionGroup \notin DOMAIN entry.options
    <3>1. DOMAIN <<>> = {}
      OBVIOUS
    <3> QED
      BY <1>5, <3>1
  <2>2. given = <<p2, p3>>
    <3> HIDE DEF p2, p3, p4, given
    <3> QED
      BY <1>4, <2>1, Short
  <2> HIDE DEF given
  <2>3. Len(given) = 2 /\ given[1] = p2 /\ given[2] = p3
    BY <2>2
  <2>4. /\ OnlyLine(given, "folder", 1) /\ OnlyLine(given, "enabled", 2)
        /\ ~\E i \in 1..Len(given) : given[i][1] = OptionKey
    BY <2>3 DEF OptionKey, OnlyLine
  <2>5. Lookup(given, "folder", "", FALSE) = given[1][2] /\ Lookup(given, "enabled", "1", FALSE) = given[2][2]
    <3>1. Lookup(given, "folder", "", FALSE) = given[1][2]
      BY <2>4, LookupOne
    <3>2. Lookup(given, "enabled", "1", FALSE) = given[2][2]
      BY <2>4, LookupOne
    <3> QED
      BY <3>1, <3>2
  <2>6. OptionsIn(given, OptionKey) = <<>>
    BY <2>4 DEF OptionsIn
  <2>7. given[1][2] = entry.folder /\ given[2][2] = flag
    BY <2>3
  <2> HIDE DEF flag, p2, p3, p4
  <2> QED
    BY <1>5, <2>5, <2>6, <2>7, Zenon
<1>6. ASSUME \E option \in OptionNames : entry.options = Selected(option)
      PROVE  /\ Lookup(given, "folder", "", FALSE) = entry.folder /\ Lookup(given, "enabled", "1", FALSE) = flag
             /\ OptionsIn(given, OptionKey) = entry.options
  <2>1. OptionGroup \in DOMAIN entry.options /\ entry.options = Selected(entry.options[OptionGroup])
    BY <1>6 DEF Selected
  <2>2. given = <<p2, p3, p4>>
    <3> HIDE DEF p2, p3, p4, given
    <3> QED
      BY <1>4, <2>1, Short
  <2> HIDE DEF given
  <2>3. Len(given) = 3 /\ given[1] = p2 /\ given[2] = p3 /\ given[3] = p4
    BY <2>2
  <2>4. OnlyLine(given, "folder", 1) /\ OnlyLine(given, "enabled", 2) /\ OnlyLine(given, OptionKey, 3)
    BY <2>3 DEF OptionKey, OnlyLine
  <2>5. /\ Lookup(given, "folder", "", FALSE) = given[1][2] /\ Lookup(given, "enabled", "1", FALSE) = given[2][2]
        /\ Lookup(given, OptionKey, "", TRUE) = given[3][2]
    <3>1. Lookup(given, "folder", "", FALSE) = given[1][2]
      BY <2>4, LookupOne
    <3>2. Lookup(given, "enabled", "1", FALSE) = given[2][2]
      BY <2>4, LookupOne
    <3>3. Lookup(given, OptionKey, "", TRUE) = given[3][2]
      BY <2>4, LookupOne
    <3> QED
      BY <3>1, <3>2, <3>3
  <2>6. \E i \in 1..Len(given) : given[i][1] = OptionKey
    BY <2>4 DEF OnlyLine
  <2>7. OptionsIn(given, OptionKey) = entry.options
    <3>1. given[3][2] = entry.options[OptionGroup]
      BY <2>3
    <3> QED
      BY <2>1, <2>5, <2>6, <3>1 DEF OptionsIn
  <2>8. given[1][2] = entry.folder /\ given[2][2] = flag
    BY <2>3
  <2> HIDE DEF flag, p2, p3, p4
  <2> QED
    BY <2>5, <2>7, <2>8, Zenon
<1>7. /\ Lookup(given, "folder", "", FALSE) = entry.folder /\ Lookup(given, "enabled", "1", FALSE) = flag
      /\ OptionsIn(given, OptionKey) = entry.options
  BY <1>2, <1>5, <1>6
<1>8. Flag(flag, TRUE) = entry.enabled
  BY <1>1 DEF Flag
<1>9. /\ Get(section, "folder", "") = entry.folder /\ Get(section, "enabled", "1") = flag
      /\ OptionsIn(section.entries, OptionKey) = entry.options
  BY <1>7 DEF Get
<1> HIDE DEF flag, section
<1> QED
  BY <1>1, <1>3, <1>8, <1>9 DEF ReadSection, section

\* What is read of a file that holds the first mods of a list.
HasRead(text, list) ==
  /\ text \in Seq(ListLine)
  /\ \E X : Parse(text) \in Seq(X)
  /\ ListIn(Parse(text)) = list

LEMMA ReadsNone == HasRead(<<Comment>>, <<>>)
<1>1. <<>> \in Seq(ListLine) /\ Comment \in ListLine /\ Append(<<>>, Comment) = <<Comment>>
  BY Short DEF ListLine
<1>2. Len(<<>>) = 0
  OBVIOUS
<1>3. Parse(<<>>) = <<Unnamed>>
  BY <1>2, ParseIs
<1>4. ReadLine(<<Unnamed>>, Comment) = <<Unnamed>>
  BY DEF ReadLine, Comment
<1>5. Parse(<<Comment>>) = <<Unnamed>>
  BY <1>1, <1>3, <1>4, ParseAppend, Zenon
<1>6. ListIn(<<>>) = <<>>
  BY <1>2, ListInIs
<1>7. Append(<<>>, Unnamed) = <<Unnamed>> /\ Unnamed \in {Unnamed} /\ <<>> \in Seq({Unnamed}) /\ <<Unnamed>> \in Seq({Unnamed})
  BY Short
<1>8. ListIn(<<Unnamed>>) = ReadSection(<<>>, Unnamed)
  BY <1>6, <1>7, ListInAppend, Zenon
<1>9. ReadSection(<<>>, Unnamed) = <<>>
  BY DEF ReadSection, Unnamed, Titled
<1>10. <<Comment>> \in Seq(ListLine)
  BY <1>1
<1> QED
  BY <1>5, <1>7, <1>8, <1>9, <1>10 DEF HasRead

LEMMA ReadsOneMore ==
  ASSUME NEW text, NEW list, NEW entry \in Entry, HasRead(text, list), FindEntry(list, entry.folder) = {}
  PROVE  HasRead(text \o EntryToIni(entry), Append(list, entry))
<1>1. PICK X : Parse(text) \in Seq(X)
  BY DEF HasRead
<1>2. text \in Seq(ListLine) /\ ListIn(Parse(text)) = list
  BY DEF HasRead
<1> DEFINE sections == Parse(text)
           more == Append(sections, SectionOf(entry))
           Y == X \cup {SectionOf(entry)}
<1>3. text \o EntryToIni(entry) \in Seq(ListLine) /\ Parse(text \o EntryToIni(entry)) = more
  BY <1>1, <1>2, ReadsEntry
<1>4. sections \in Seq(Y) /\ SectionOf(entry) \in Y /\ more \in Seq(Y)
  BY <1>1
<1> HIDE DEF Y, sections
<1>5. ListIn(more) = ReadSection(ListIn(sections), SectionOf(entry))
  BY <1>4, ListInAppend
<1>6. ReadSection(list, SectionOf(entry)) = Append(list, entry)
  BY ReadsBack
<1> QED
  BY <1>2, <1>3, <1>4, <1>5, <1>6 DEF HasRead, sections

\* A list that is written to a profile (to_ini) is the list that is read from
\* it (Profile::parse), whatever mods it has, in whichever order.
THEOREM ProfilesReadAsWritten ==
  ASSUME NEW list, IsModList(list)
  PROVE  ParseProfile(ToIni(list)) = list
<1>1. list \in Seq(Entry) /\ Len(list) \in Nat /\ \A i \in 1..Len(list) : list[i] \in Entry
  BY DEF IsModList
<1>2. SUFFICES HasRead(ToIni(list), list)
  BY DEF HasRead, ParseProfile
<1> DEFINE texts == [i \in 1..Len(list) |-> EntryToIni(list[i])]
           First(n) == SubSeq(list, 1, n)
<1>3. ToIni(list) = <<Comment>> \o FlattenSeq(texts) /\ Len(texts) = Len(list)
  BY <1>1 DEF ToIni
<1>4. CASE Len(list) = 0
  <2>1. list = <<>>
    BY <1>1, <1>4
  <2>2. texts = <<>>
    BY <1>4
  <2>3. FlattenSeq(<<>>) = <<>>
    BY DEF FlattenSeq
  <2>4. <<Comment>> \o <<>> = <<Comment>>
    OBVIOUS
  <2> QED
    BY <1>3, <2>1, <2>2, <2>3, <2>4, ReadsNone
<1>5. CASE Len(list) # 0
  <2>1. PICK f : /\ FlattenSeq(texts) = f[Len(texts)] /\ f[1] = texts[1]
                 /\ \A n \in 2..Len(texts) : f[n] = f[n - 1] \o texts[n]
    BY <1>1, <1>3, <1>5, FlattenIs
  <2>2. \A i \in 1..Len(list) : texts[i] = EntryToIni(list[i]) /\ EntryToIni(list[i]) \in Seq(ListLine)
    <3>1. <<>> \in Seq(ListLine) /\ <<Comment>> \in Seq(ListLine) /\ \E X : Parse(<<Comment>>) \in Seq(X)
      BY ReadsNone DEF HasRead
    <3> QED
      BY <1>1, <3>1, ReadsEntry
  <2>3. \A n \in 0..(Len(list) - 1) :
          /\ First(n + 1) = Append(First(n), list[n + 1])
          /\ FindEntry(First(n), list[n + 1].folder) = {}
    <3> SUFFICES ASSUME NEW n \in 0..(Len(list) - 1)
                 PROVE  /\ First(n + 1) = Append(First(n), list[n + 1])
                        /\ FindEntry(First(n), list[n + 1].folder) = {}
      OBVIOUS
    <3>1. First(n + 1) = Append(First(n), list[n + 1])
      BY <1>1
    <3>2. Len(First(n)) = n /\ \A i \in 1..n : First(n)[i] = list[i]
      BY <1>1
    <3>3. \A i \in 1..n : list[i].folder # list[n + 1].folder
      BY <1>1 DEF IsModList, OnceEach
    <3> QED
      BY <3>1, <3>2, <3>3 DEF FindEntry
  <2> DEFINE T == {n \in Nat : n + 1 <= Len(list) => f[n + 1] \in Seq(ListLine) /\ HasRead(<<Comment>> \o f[n + 1], First(n + 1))}
  <2>4. 0 \in T
    <3>1. f[1] = EntryToIni(list[1]) /\ f[1] \in Seq(ListLine) /\ list[1] \in Entry
      BY <1>1, <1>5, <2>1, <2>2
    <3>2. First(0) = <<>>
      BY <1>1
    <3>3. First(1) = Append(<<>>, list[1]) /\ FindEntry(<<>>, list[1].folder) = {}
      <4>1. 0 \in 0..(Len(list) - 1) /\ 0 + 1 = 1
        BY <1>1, <1>5
      <4> HIDE DEF First
      <4> QED
        BY <2>3, <3>2, <4>1
    <3> HIDE DEF First
    <3>4. HasRead(<<Comment>> \o f[1], First(1))
      BY <3>1, <3>3, ReadsNone, ReadsOneMore
    <3> QED
      BY <3>1, <3>4
  <2>5. ASSUME NEW n \in Nat, n \in T PROVE n + 1 \in T
    <3> SUFFICES ASSUME (n + 1) + 1 <= Len(list)
                 PROVE  f[(n + 1) + 1] \in Seq(ListLine) /\ HasRead(<<Comment>> \o f[(n + 1) + 1], First((n + 1) + 1))
      OBVIOUS
    <3> DEFINE m == n + 1
    <3>1. m \in Nat /\ m \in 0..(Len(list) - 1) /\ m + 1 \in 2..Len(list) /\ (m + 1) - 1 = m /\ m <= Len(list)
      BY <1>1
    <3>2. f[m] \in Seq(ListLine) /\ HasRead(<<Comment>> \o f[m], First(m))
      BY <2>5, <3>1
    <3> HIDE DEF m, First
    <3>3. f[m + 1] = f[m] \o EntryToIni(list[m + 1]) /\ EntryToIni(list[m + 1]) \in Seq(ListLine) /\ list[m + 1] \in Entry
      <4>1. m + 1 \in 1..Len(list) /\ m + 1 \in 2..Len(texts)
        BY <1>3, <3>1
      <4>2. texts[m + 1] = EntryToIni(list[m + 1]) /\ EntryToIni(list[m + 1]) \in Seq(ListLine) /\ list[m + 1] \in Entry
        BY <1>1, <2>2, <4>1
      <4> HIDE DEF texts
      <4>3. f[m + 1] = f[(m + 1) - 1] \o texts[m + 1]
        BY <2>1, <4>1
      <4> QED
        BY <3>1, <4>2, <4>3
    <3>4. First(m + 1) = Append(First(m), list[m + 1]) /\ FindEntry(First(m), list[m + 1].folder) = {}
      BY <2>3, <3>1
    <3>5. HasRead((<<Comment>> \o f[m]) \o EntryToIni(list[m + 1]), First(m + 1))
      BY <3>2, <3>3, <3>4, ReadsOneMore
    <3>6. /\ (<<Comment>> \o f[m]) \o EntryToIni(list[m + 1]) = <<Comment>> \o f[m + 1]
          /\ f[m + 1] \in Seq(ListLine)
      <4>1. <<Comment>> \in Seq(ListLine)
        BY DEF ListLine
      <4>2. f[m] \o EntryToIni(list[m + 1]) \in Seq(ListLine)
        BY <3>2, <3>3
      <4>3. (<<Comment>> \o f[m]) \o EntryToIni(list[m + 1]) = <<Comment>> \o (f[m] \o EntryToIni(list[m + 1]))
        <5> DEFINE a == <<Comment>>
                   b == f[m]
                   e == EntryToIni(list[m + 1])
        <5>1. a \in Seq(ListLine) /\ b \in Seq(ListLine) /\ e \in Seq(ListLine)
          BY <3>2, <3>3, <4>1
        <5> HIDE DEF a, b, e
        <5>2. (a \o b) \o e = a \o (b \o e)
          BY <5>1, ConcatAssociative
        <5> QED
          BY <5>2 DEF a, b, e
      <4> QED
        BY <3>3, <4>2, <4>3, Zenon
    <3> QED
      BY <3>5, <3>6 DEF m
  <2> HIDE DEF T
  <2>6. Len(list) - 1 \in T
    BY <1>1, <1>5, <2>4, <2>5, StepByStep
  <2>7. HasRead(<<Comment>> \o f[Len(list)], First(Len(list)))
    BY <1>1, <1>5, <2>6 DEF T
  <2>8. First(Len(list)) = list
    BY <1>1, SubSeqFull
  <2> HIDE DEF First
  <2> QED
    BY <1>3, <2>1, <2>7, <2>8
<1> QED
  BY <1>1, <1>4, <1>5

\* So a file that is written is a whole one.
LEMMA WrittenIsWhole ==
  ASSUME NEW list, IsModList(list)
  PROVE  IsWhole(ToIni(list))
BY ProfilesReadAsWritten DEF IsWhole

-----------------------------------------------------------------------------
(* What a sequence has of a set.                                           *)

\* Which places of a sequence of m elements the elements of another come from, in order.
Places(part, seq, set, h, m) ==
  /\ Len(part) \in Nat
  /\ h \in [1..Len(part) -> 1..m]
  /\ \A i \in 1..Len(part) : part[i] = seq[h[i]] /\ part[i] \in set
  /\ \A i, j \in 1..Len(part) : i < j => h[i] < h[j]
  /\ \A k \in 1..m : seq[k] \in set => \E i \in 1..Len(part) : h[i] = k

LEMMA AmongPlaces ==
  ASSUME NEW S, NEW seq \in Seq(S), NEW set
  PROVE  Among(seq, set) \in Seq(S) /\ \E h : Places(Among(seq, set), seq, set, h, Len(seq))
<1>1. Len(seq) \in Nat /\ \A n \in 1..Len(seq) : seq[n] \in S
  OBVIOUS
<1>2. PICK f : /\ Among(seq, set) = f[Len(seq)] /\ f[0] = <<>>
               /\ \A n \in 1..Len(seq) : f[n] = (IF seq[n] \in set THEN Append(f[n - 1], seq[n]) ELSE f[n - 1])
  BY <1>1, AmongIs
<1> DEFINE Good(n) == f[n] \in Seq(S) /\ \E h : Places(f[n], seq, set, h, n)
           T == {n \in Nat : n <= Len(seq) => Good(n)}
<1>3. 0 \in T
  <2>1. Places(<<>>, seq, set, [i \in 1..0 |-> i], 0)
    BY DEF Places
  <2>2. <<>> \in Seq(S) /\ \E h : Places(<<>>, seq, set, h, 0)
    BY <2>1
  <2>3. Good(0)
    BY <1>2, <2>2, Zenon
  <2> HIDE DEF Good
  <2> QED
    BY <2>3
<1>4. ASSUME NEW n \in Nat, n \in T PROVE n + 1 \in T
  <2> SUFFICES ASSUME n + 1 <= Len(seq) PROVE Good(n + 1)
    OBVIOUS
  <2>1. n + 1 \in 1..Len(seq) /\ (n + 1) - 1 = n /\ n <= Len(seq)
    BY <1>1
  <2>2. f[n] \in Seq(S) /\ \E h : Places(f[n], seq, set, h, n)
    BY <1>4, <2>1
  <2>3. PICK h : Places(f[n], seq, set, h, n)
    BY <2>2
  <2>4. f[n + 1] = IF seq[n + 1] \in set THEN Append(f[n], seq[n + 1]) ELSE f[n]
    BY <1>2, <2>1
  <2> DEFINE part == f[n]
             x == seq[n + 1]
  <2>5. x \in S
    BY <1>1, <2>1
  <2> HIDE DEF part, x
  <2>6. CASE x \notin set
    <3>1. f[n + 1] = part
      BY <2>4, <2>6 DEF part, x
    <3>2. h \in [1..Len(part) -> 1..(n + 1)]
      BY <2>3, <2>1 DEF Places, part
    <3>3. \A k \in 1..(n + 1) : seq[k] \in set => \E i \in 1..Len(part) : h[i] = k
      <4> SUFFICES ASSUME NEW k \in 1..(n + 1), seq[k] \in set PROVE \E i \in 1..Len(part) : h[i] = k
        OBVIOUS
      <4>1. k # n + 1
        BY <2>6 DEF x
      <4>2. k \in 1..n
        BY <4>1
      <4> QED
        BY <2>3, <4>2 DEF Places, part
    <3>4. Places(part, seq, set, h, n + 1)
      BY <2>3, <3>2, <3>3 DEF Places, part
    <3> QED
      BY <2>2, <3>1, <3>4 DEF part
  <2>7. CASE x \in set
    <3> DEFINE more == Append(part, x)
               g == [i \in 1..(Len(part) + 1) |-> IF i = Len(part) + 1 THEN n + 1 ELSE h[i]]
    <3>1. f[n + 1] = more
      BY <2>4, <2>7 DEF part, x
    <3>2. part \in Seq(S) /\ more \in Seq(S) /\ Len(more) = Len(part) + 1 /\ Len(part) \in Nat
      BY <2>2, <2>5 DEF part
    <3>3. more[Len(part) + 1] = x /\ \A i \in 1..Len(part) : more[i] = part[i]
      BY <3>2
    <3> HIDE DEF more
    <3>4. /\ g \in [1..Len(more) -> 1..(n + 1)]
          /\ g[Len(part) + 1] = n + 1 /\ \A i \in 1..Len(part) : g[i] = h[i]
      BY <2>3, <3>2 DEF Places, part
    <3> HIDE DEF g
    <3>5. \A i \in 1..Len(more) : more[i] = seq[g[i]] /\ more[i] \in set
      <4> SUFFICES ASSUME NEW i \in 1..Len(more) PROVE more[i] = seq[g[i]] /\ more[i] \in set
        OBVIOUS
      <4>1. CASE i = Len(part) + 1
        BY <2>7, <3>3, <3>4, <4>1 DEF x
      <4>2. CASE i # Len(part) + 1
        <5>1. i \in 1..Len(part)
          BY <3>2, <4>2
        <5>2. part[i] = seq[h[i]] /\ part[i] \in set
          BY <2>3, <5>1 DEF Places, part
        <5>3. more[i] = part[i] /\ g[i] = h[i]
          BY <3>3, <3>4, <5>1
        <5> QED
          BY <5>2, <5>3
      <4> QED
        BY <4>1, <4>2
    <3>6. \A i, j \in 1..Len(more) : i < j => g[i] < g[j]
      <4> SUFFICES ASSUME NEW i \in 1..Len(more), NEW j \in 1..Len(more), i < j PROVE g[i] < g[j]
        OBVIOUS
      <4>1. i \in 1..Len(part) /\ (j \in 1..Len(part) \/ j = Len(part) + 1)
        BY <3>2
      <4>2. h[i] \in 1..n /\ g[i] = h[i]
        BY <2>3, <3>4, <4>1 DEF Places, part
      <4>3. CASE j = Len(part) + 1
        BY <3>4, <4>2, <4>3
      <4>4. CASE j \in 1..Len(part)
        <5>1. h[i] < h[j]
          BY <2>3, <4>1, <4>4 DEF Places, part
        <5> QED
          BY <3>4, <4>2, <4>4, <5>1
      <4> QED
        BY <4>1, <4>3, <4>4
    <3>7. \A k \in 1..(n + 1) : seq[k] \in set => \E i \in 1..Len(more) : g[i] = k
      <4> SUFFICES ASSUME NEW k \in 1..(n + 1), seq[k] \in set PROVE \E i \in 1..Len(more) : g[i] = k
        OBVIOUS
      <4>1. CASE k = n + 1
        BY <3>2, <3>4, <4>1
      <4>2. CASE k # n + 1
        <5>1. k \in 1..n
          BY <4>2
        <5>2. PICK i \in 1..Len(part) : h[i] = k
          BY <2>3, <5>1 DEF Places, part
        <5> QED
          BY <3>2, <3>4, <5>2
      <4> QED
        BY <4>1, <4>2
    <3>8. Places(more, seq, set, g, n + 1)
      BY <3>2, <3>4, <3>5, <3>6, <3>7 DEF Places
    <3> QED
      BY <3>1, <3>2, <3>8
  <2> QED
    BY <2>6, <2>7
<1> HIDE DEF T
<1>5. Len(seq) \in T
  BY <1>1, <1>3, <1>4, StepByStep
<1> QED
  BY <1>1, <1>2, <1>5 DEF T

-----------------------------------------------------------------------------
(* Lists of mods.                                                          *)

IsASequence(s) == s \in Seq(ToSet(s))

\* What is installed, as it is on the screen.
GoodMods(mods) ==
  /\ IsASequence(mods) /\ OnceEach(mods)
  /\ \A i \in 1..Len(mods) : mods[i].folder \in Names /\ mods[i].info.enabled \in BOOLEAN

LEMMA SequenceOf ==
  ASSUME NEW S, NEW s \in Seq(S)
  PROVE  IsASequence(s)
<1>1. \A i \in 1..Len(s) : s[i] \in ToSet(s)
  BY DEF ToSet
<1> QED
  BY <1>1 DEF IsASequence

LEMMA PartOnceEach ==
  ASSUME NEW S, NEW list \in Seq(S), NEW set, OnceEach(list)
  PROVE  OnceEach(Among(list, set))
<1>1. PICK h : Places(Among(list, set), list, set, h, Len(list))
  BY AmongPlaces
<1> DEFINE part == Among(list, set)
<1> HIDE DEF part
<1>2. SUFFICES ASSUME NEW i \in 1..Len(part), NEW j \in 1..Len(part), part[i].folder = part[j].folder, i # j
               PROVE  FALSE
  BY DEF OnceEach, part
<1>3. /\ part[i] = list[h[i]] /\ part[j] = list[h[j]] /\ h[i] \in 1..Len(list) /\ h[j] \in 1..Len(list)
      /\ Len(part) \in Nat /\ (i < j => h[i] < h[j]) /\ (j < i => h[j] < h[i])
  BY <1>1 DEF Places, part
<1>4. h[i] # h[j]
  BY <1>2, <1>3
<1> QED
  BY <1>2, <1>3, <1>4 DEF OnceEach

LEMMA PartOfModList ==
  ASSUME NEW list, IsModList(list), NEW set
  PROVE  /\ IsModList(Among(list, set))
         /\ \A i \in 1..Len(Among(list, set)) : Among(list, set)[i] \in set
<1>1. list \in Seq(Entry) /\ OnceEach(list)
  BY DEF IsModList
<1>2. Among(list, set) \in Seq(Entry) /\ \E h : Places(Among(list, set), list, set, h, Len(list))
  BY <1>1, AmongPlaces
<1>3. OnceEach(Among(list, set))
  BY <1>1, PartOnceEach
<1> QED
  BY <1>2, <1>3 DEF IsModList, Places

LEMMA PartOfMods ==
  ASSUME NEW mods, GoodMods(mods), NEW set
  PROVE  /\ GoodMods(Among(mods, set))
         /\ \A i \in 1..Len(Among(mods, set)) : Among(mods, set)[i] \in set
<1>1. mods \in Seq(ToSet(mods)) /\ OnceEach(mods)
  BY DEF GoodMods, IsASequence
<1>2. PICK h : Places(Among(mods, set), mods, set, h, Len(mods))
  BY <1>1, AmongPlaces
<1>3. OnceEach(Among(mods, set)) /\ IsASequence(Among(mods, set))
  <2>1. Among(mods, set) \in Seq(ToSet(mods))
    BY <1>1, AmongPlaces
  <2> QED
    BY <1>1, <2>1, PartOnceEach, SequenceOf
<1>4. \A i \in 1..Len(Among(mods, set)) :
        /\ Among(mods, set)[i] \in set
        /\ Among(mods, set)[i].folder \in Names /\ Among(mods, set)[i].info.enabled \in BOOLEAN
  BY <1>2 DEF GoodMods, Places
<1> QED
  BY <1>3, <1>4 DEF GoodMods

\* What is left of a list, and what is taken of it, have no folder in common.
LEMMA OfAndWithout ==
  ASSUME NEW list, IsModList(list), NEW folders
  PROVE  /\ IsModList(OfFolders(list, folders)) /\ IsModList(Without(list, folders))
         /\ \A i \in 1..Len(OfFolders(list, folders)) : OfFolders(list, folders)[i].folder \in folders
         /\ \A i \in 1..Len(Without(list, folders)) : Without(list, folders)[i].folder \notin folders
BY PartOfModList DEF OfFolders, Without

LEMMA JoinedOnceEach ==
  ASSUME NEW S, NEW a \in Seq(S), NEW b \in Seq(S), OnceEach(a), OnceEach(b),
         \A i \in 1..Len(a), j \in 1..Len(b) : a[i].folder # b[j].folder
  PROVE  OnceEach(a \o b)
<1>1. OnceEach(a) /\ OnceEach(b)
  OBVIOUS
<1> DEFINE c == a \o b
<1>2. Len(c) = Len(a) + Len(b) /\ Len(a) \in Nat /\ Len(b) \in Nat
  BY <1>1
<1>3. \A i \in 1..Len(c) : c[i] = IF i <= Len(a) THEN a[i] ELSE b[i - Len(a)]
  BY <1>1
<1> HIDE DEF c
<1>4. ASSUME NEW i \in 1..Len(c), NEW j \in 1..Len(c), c[i].folder = c[j].folder PROVE i = j
  <2>1. CASE i <= Len(a) /\ j <= Len(a)
    BY <1>1, <1>2, <1>3, <1>4, <2>1 DEF OnceEach
  <2>2. CASE i > Len(a) /\ j > Len(a)
    <3>1. i - Len(a) \in 1..Len(b) /\ j - Len(a) \in 1..Len(b) /\ c[i] = b[i - Len(a)] /\ c[j] = b[j - Len(a)]
      BY <1>2, <1>3, <2>2
    <3>2. i - Len(a) = j - Len(a)
      BY <1>1, <1>4, <3>1 DEF OnceEach
    <3> QED
      BY <1>2, <3>2
  <2>3. CASE i <= Len(a) /\ j > Len(a)
    <3>1. i \in 1..Len(a) /\ j - Len(a) \in 1..Len(b) /\ c[i] = a[i] /\ c[j] = b[j - Len(a)]
      BY <1>2, <1>3, <2>3
    <3> QED
      BY <1>4, <3>1
  <2>4. CASE i > Len(a) /\ j <= Len(a)
    <3>1. j \in 1..Len(a) /\ i - Len(a) \in 1..Len(b) /\ c[j] = a[j] /\ c[i] = b[i - Len(a)]
      BY <1>2, <1>3, <2>4
    <3> QED
      BY <1>4, <3>1
  <2> QED
    BY <1>2, <2>1, <2>2, <2>3, <2>4
<1> QED
  BY <1>4 DEF OnceEach, c

LEMMA Joined ==
  ASSUME NEW a, NEW b, IsModList(a), IsModList(b),
         \A i \in 1..Len(a), j \in 1..Len(b) : a[i].folder # b[j].folder
  PROVE  IsModList(a \o b)
<1>1. a \in Seq(Entry) /\ b \in Seq(Entry) /\ OnceEach(a) /\ OnceEach(b)
  BY DEF IsModList
<1>2. a \o b \in Seq(Entry)
  BY <1>1
<1>3. OnceEach(a \o b)
  BY <1>1, JoinedOnceEach
<1> QED
  BY <1>2, <1>3 DEF IsModList

\* A part of a list in one piece.
LEMMA Piece ==
  ASSUME NEW list, IsModList(list), NEW m \in Nat, NEW n \in Nat, m >= 1, n <= Len(list)
  PROVE  /\ IsModList(SubSeq(list, m, n))
         /\ \A i \in 1..Len(SubSeq(list, m, n)) : i + m - 1 \in m..n /\ SubSeq(list, m, n)[i] = list[i + m - 1]
<1>1. list \in Seq(Entry) /\ OnceEach(list)
  BY DEF IsModList
<1> DEFINE part == SubSeq(list, m, n)
<1>2. part \in Seq(Entry) /\ \A i \in 1..Len(part) : i + m - 1 \in m..n /\ part[i] = list[i + m - 1]
  BY <1>1
<1> HIDE DEF part
<1>3. ASSUME NEW i \in 1..Len(part), NEW j \in 1..Len(part), part[i].folder = part[j].folder PROVE i = j
  <2>1. /\ i + m - 1 \in 1..Len(list) /\ j + m - 1 \in 1..Len(list)
        /\ part[i] = list[i + m - 1] /\ part[j] = list[j + m - 1]
    BY <1>1, <1>2
  <2>2. i + m - 1 = j + m - 1
    BY <1>1, <1>3, <2>1 DEF OnceEach
  <2> QED
    BY <1>1, <1>2, <2>2
<1> QED
  BY <1>2, <1>3 DEF IsModList, OnceEach, part

\* A list made of what is installed.
LEMMA ListOfMods ==
  ASSUME NEW mods, GoodMods(mods), NEW enabled, \A i \in 1..Len(mods) : enabled[i] \in BOOLEAN,
         NEW list, list = [i \in 1..Len(mods) |-> Listed(mods[i].folder, enabled[i], <<>>)]
  PROVE  IsModList(list)
<1>1. Len(mods) \in Nat
  BY DEF GoodMods, IsASequence
<1>2. Len(list) = Len(mods) /\ \A i \in 1..Len(mods) : list[i] = Listed(mods[i].folder, enabled[i], <<>>)
  BY <1>1
<1>3. \A i \in 1..Len(mods) : list[i] \in Entry /\ list[i].folder = mods[i].folder
  BY <1>2 DEF GoodMods, Entry, Listed
<1>4. list \in Seq(Entry)
  BY <1>1, <1>3
<1> QED
  BY <1>2, <1>3, <1>4 DEF IsModList, OnceEach, GoodMods

LEMMA EmptyList == IsModList(<<>>)
BY DEF IsModList, OnceEach

\* One entry of a list changes, but not its folder.
LEMMA Changed ==
  ASSUME NEW list, IsModList(list), NEW n \in 1..Len(list), NEW e \in Entry, e.folder = list[n].folder
  PROVE  IsModList([list EXCEPT ![n] = e])
<1>1. list \in Seq(Entry) /\ OnceEach(list)
  BY DEF IsModList
<1> DEFINE new == [list EXCEPT ![n] = e]
<1>2. new \in Seq(Entry) /\ Len(new) = Len(list) /\ \A i \in 1..Len(list) : new[i].folder = list[i].folder
  BY <1>1
<1> HIDE DEF new
<1> QED
  BY <1>1, <1>2 DEF IsModList, OnceEach, new

-----------------------------------------------------------------------------
(* The lists the manager makes.                                            *)

LEMMA NamesInOrder ==
  ASSUME NEW names
  PROVE  /\ InOrder(names) \in Seq(Names)
         /\ \A i \in 1..Len(InOrder(names)) : InOrder(names)[i] \in names
         /\ \A i, j \in 1..Len(InOrder(names)) : InOrder(names)[i] = InOrder(names)[j] => i = j
<1>1. NameOrder \in Seq(Names)
  BY NamesAssumption
<1> DEFINE part == Among(NameOrder, names)
<1>2. part \in Seq(Names) /\ \E h : Places(part, NameOrder, names, h, Len(NameOrder))
  BY <1>1, AmongPlaces
<1>3. PICK h : Places(part, NameOrder, names, h, Len(NameOrder))
  BY <1>2
<1> HIDE DEF part
<1>4. ASSUME NEW i \in 1..Len(part), NEW j \in 1..Len(part), part[i] = part[j], i # j PROVE FALSE
  <2>1. /\ part[i] = NameOrder[h[i]] /\ part[j] = NameOrder[h[j]] /\ h[i] \in 1..Len(NameOrder) /\ h[j] \in 1..Len(NameOrder)
        /\ (i < j => h[i] < h[j]) /\ (j < i => h[j] < h[i])
    BY <1>3 DEF Places
  <2>2. h[i] # h[j]
    BY <1>2, <1>4, <2>1
  <2> QED
    BY <1>4, <2>1, <2>2, NamesAssumption
<1>5. \A i \in 1..Len(part) : part[i] \in names
  BY <1>3 DEF Places
<1> QED
  BY <1>2, <1>4, <1>5 DEF InOrder, part

LEMMA InfoIsEnabledOrNot ==
  ASSUME NEW c, NEW path
  PROVE  InfoAt(c, path).enabled \in BOOLEAN
<1>1. \A value : Flag(value, TRUE) \in BOOLEAN
  BY DEF Flag
<1>2. \A lines : ParseInfo(lines).enabled \in BOOLEAN
  BY <1>1 DEF ParseInfo
<1>3. DefaultInfo.enabled \in BOOLEAN
  BY DEF DefaultInfo
<1> QED
  BY <1>2, <1>3 DEF InfoAt

LEMMA ScanIsGood ==
  ASSUME NEW c
  PROVE  GoodMods(Scan(c))
<1> DEFINE folders == InOrder(ModsOn(c))
           mods == Scan(c)
<1>1. folders \in Seq(Names) /\ \A i, j \in 1..Len(folders) : folders[i] = folders[j] => i = j
  BY NamesInOrder
<1>2. Len(folders) \in Nat /\ \A i \in 1..Len(folders) : folders[i] \in Names
  BY <1>1
<1>3. mods = [i \in 1..Len(folders) |-> Installed(c, folders[i])]
  BY DEF Scan, InstalledIn
<1> HIDE DEF folders, mods
<1>4. Len(mods) = Len(folders) /\ IsASequence(mods)
  <2>1. mods \in Seq({Installed(c, folders[i]) : i \in 1..Len(folders)}) /\ Len(mods) = Len(folders)
    BY <1>2, <1>3
  <2> QED
    BY <2>1, SequenceOf
<1>5. \A folder : Installed(c, folder).folder = folder /\ Installed(c, folder).info = InfoAt(c, IniOf(folder))
  BY DEF Installed, InstalledAs
<1>6. \A i \in 1..Len(mods) : mods[i].folder = folders[i] /\ mods[i].info.enabled \in BOOLEAN
  BY <1>3, <1>4, <1>5, InfoIsEnabledOrNot
<1>7. GoodMods(mods)
  BY <1>1, <1>2, <1>4, <1>6 DEF GoodMods, OnceEach
<1> QED
  BY <1>7 DEF mods

LEMMA AddedIsAList ==
  ASSUME NEW s, GoodMods(s.mods), IsModList(s.entries)
  PROVE  IsModList(Added(s)) /\ IsModList(Added(s) \o s.entries)
<1> DEFINE new == Without(s.mods, FoldersIn(s.entries))
           added == Added(s)
<1>1. GoodMods(new) /\ \A i \in 1..Len(new) : new[i].folder \notin FoldersIn(s.entries)
  BY PartOfMods DEF Without
<1>2. Len(new) \in Nat
  BY <1>1 DEF GoodMods, IsASequence
<1>3. added = [i \in 1..Len(new) |-> Listed(new[i].folder, TRUE, <<>>)]
  BY DEF Added
<1> HIDE DEF new, added
<1>4. Len(added) = Len(new) /\ \A i \in 1..Len(added) : added[i].folder = new[i].folder
  BY <1>2, <1>3 DEF Listed
<1>5. IsModList(added)
  <2> DEFINE enabled == [i \in 1..Len(new) |-> TRUE]
  <2>1. \A i \in 1..Len(new) : enabled[i] \in BOOLEAN
    OBVIOUS
  <2>2. added = [i \in 1..Len(new) |-> Listed(new[i].folder, enabled[i], <<>>)]
    BY <1>3
  <2> HIDE DEF enabled
  <2> QED
    BY <1>1, <2>1, <2>2, ListOfMods
<1>6. \A i \in 1..Len(added), j \in 1..Len(s.entries) : added[i].folder # s.entries[j].folder
  BY <1>1, <1>4 DEF FoldersIn
<1>7. IsModList(added \o s.entries)
  BY <1>5, <1>6, Joined
<1> QED
  BY <1>5, <1>7 DEF added

\* A mod per folder, and mods put in buckets by a key.
OnePerFolder(S) == \A x, y \in S : x.folder = y.folder => x = y
InBuckets(buckets, S, key) ==
  \A i \in 1..Len(buckets) : /\ buckets[i] \in Seq(S) /\ OnceEach(buckets[i])
                            /\ \A j \in 1..Len(buckets[i]) : key[buckets[i][j]] = i

\* Lists whose members have different keys, one after the other, have each mod once.
LEMMA FlattenOnceEach ==
  ASSUME NEW S, NEW buckets, NEW key, Len(buckets) \in Nat, Len(buckets) >= 1,
         InBuckets(buckets, S, key), OnePerFolder(S)
  PROVE  FlattenSeq(buckets) \in Seq(S) /\ OnceEach(FlattenSeq(buckets))
<1> DEFINE N == Len(buckets)
           order == FlattenSeq(buckets)
           Good(n, s) == /\ s \in Seq(S) /\ OnceEach(s)
                         /\ \A i \in 1..Len(s) : key[s[i]] \in 1..n
<1>5. PICK f : /\ order = f[N] /\ f[1] = buckets[1]
               /\ \A n \in 2..N : f[n] = f[n - 1] \o buckets[n]
  <2>1. Len(buckets) # 0
    OBVIOUS
  <2> QED
    BY <2>1, FlattenIs
<1>6. /\ N \in Nat /\ N >= 1
      /\ \A i \in 1..N : /\ buckets[i] \in Seq(S) /\ OnceEach(buckets[i])
                        /\ \A j \in 1..Len(buckets[i]) : key[buckets[i][j]] = i
  BY DEF InBuckets
<1> HIDE DEF order, N
<1> DEFINE T == {n \in Nat : n + 1 <= N => Good(n + 1, f[n + 1])}
<1>7. 0 \in T
  <2>1. 1 \in 1..N /\ 1 \in 1..1
    BY <1>6
  <2>2. Good(1, f[1])
    BY <1>5, <1>6, <2>1
  <2> HIDE DEF Good
  <2> QED
    BY <2>2
<1>8. ASSUME NEW n \in Nat, n \in T PROVE n + 1 \in T
  <2> SUFFICES ASSUME (n + 1) + 1 <= N PROVE Good((n + 1) + 1, f[(n + 1) + 1])
    OBVIOUS
  <2> DEFINE m == n + 1
             a == f[m]
             b == buckets[m + 1]
  <2>1. m \in Nat /\ m >= 1 /\ m + 1 \in 1..N /\ m + 1 \in 2..N /\ (m + 1) - 1 = m
    BY <1>6
  <2>2. Good(m, a)
    BY <1>6, <1>8, <2>1
  <2>3. f[m + 1] = a \o b
    <3> HIDE DEF m
    <3> QED
      BY <1>5, <2>1
  <2>4. /\ a \in Seq(S) /\ OnceEach(a) /\ b \in Seq(S) /\ OnceEach(b)
        /\ \A i \in 1..Len(a) : key[a[i]] \in 1..m
        /\ \A i \in 1..Len(b) : key[b[i]] = m + 1
    <3> HIDE DEF m
    <3> QED
      BY <1>6, <2>1, <2>2
  <2> HIDE DEF m, a, b
  <2>5. \A i \in 1..Len(a), j \in 1..Len(b) : a[i].folder # b[j].folder
    <3> SUFFICES ASSUME NEW i \in 1..Len(a), NEW j \in 1..Len(b), a[i].folder = b[j].folder PROVE FALSE
      OBVIOUS
    <3>1. a[i] = b[j]
      BY <2>4 DEF OnePerFolder
    <3>2. key[a[i]] \in 1..m /\ key[b[j]] = m + 1
      BY <2>4
    <3>3. m + 1 \in 1..m
      BY <3>1, <3>2
    <3> QED
      BY <2>1, <3>3
  <2>6. OnceEach(a \o b)
    BY <2>4, <2>5, JoinedOnceEach
  <2>7. ASSUME NEW i \in 1..Len(a \o b)
        PROVE  key[(a \o b)[i]] \in 1..(m + 1)
    <3>1. (\E j \in 1..Len(a) : (a \o b)[i] = a[j]) \/ (\E j \in 1..Len(b) : (a \o b)[i] = b[j])
      BY <2>4
    <3>2. 1..m \subseteq 1..(m + 1) /\ m + 1 \in 1..(m + 1)
      BY <2>1
    <3> QED
      BY <2>4, <3>1, <3>2
  <2>8. a \o b \in Seq(S)
    BY <2>4
  <2>9. Good(m + 1, f[m + 1])
    BY <2>3, <2>6, <2>7, <2>8
  <2> HIDE DEF Good
  <2> QED
    BY <2>9 DEF m
<1> HIDE DEF T
<1>9. N - 1 \in T
  <2>1. N - 1 \in Nat
    BY <1>6
  <2> QED
    BY <1>7, <1>8, <2>1, StepByStep
<1>10. (N - 1) + 1 <= N /\ (N - 1) + 1 = N
  BY <1>6
<1> QED
  BY <1>5, <1>9, <1>10 DEF T, order

LEMMA NamesCount == Len(NameOrder) \in Nat
<1>1. NameOrder \in Seq(Names)
  BY NamesAssumption
<1> QED
  BY <1>1

LEMMA NameRankIs ==
  ASSUME NEW mod
  PROVE  NameRank(mod) \in 1..(Len(NameOrder) + 1)
<1>1. Len(NameOrder) \in Nat
  BY NamesCount
<1>2. CASE ShownName(mod) \in Names
  <2>0. DOMAIN NameOrder = 1..Len(NameOrder)
    <3>1. NameOrder \in Seq(Names)
      BY NamesAssumption
    <3> QED
      BY <3>1
  <2>1. \E i \in 1..Len(NameOrder) : NameOrder[i] = ShownName(mod)
    BY <1>2, <2>0 DEF Names, ToSet
  <2>2. Rank(ShownName(mod)) \in 1..Len(NameOrder)
    BY <2>1 DEF Rank
  <2> QED
    BY <1>1, <1>2, <2>2 DEF NameRank
<1> QED
  BY <1>1, <1>2 DEF NameRank

\* Sorted by name, a list has the mods it had, each once.
LEMMA ByNameIsAList ==
  ASSUME NEW S, NEW list \in Seq(S), OnceEach(list), OnePerFolder(S)
  PROVE  ByName(list) \in Seq(S) /\ OnceEach(ByName(list))
<1> DEFINE N == Len(NameOrder) + 1
           buckets == [i \in 1..N |-> Among(list, {m \in ToSet(list) : NameRank(m) = i})]
           key == [m \in S |-> NameRank(m)]
<1>1. N \in Nat /\ N >= 1
  BY NamesCount
<1>2. ByName(list) = FlattenSeq(buckets)
  BY DEF ByName
<1> HIDE DEF N
<1>3. Len(buckets) = N /\ \A i \in 1..N : buckets[i] = Among(list, {m \in ToSet(list) : NameRank(m) = i})
  BY <1>1
<1> HIDE DEF buckets
<1>4. ASSUME NEW i \in 1..N
      PROVE  /\ buckets[i] \in Seq(S) /\ OnceEach(buckets[i])
             /\ \A j \in 1..Len(buckets[i]) : key[buckets[i][j]] = i
  <2> DEFINE set == {m \in ToSet(list) : NameRank(m) = i}
  <2>1. buckets[i] \in Seq(S) /\ OnceEach(buckets[i])
    <3> HIDE DEF set
    <3>1. Among(list, set) \in Seq(S) /\ OnceEach(Among(list, set))
      BY AmongPlaces, PartOnceEach
    <3> QED
      BY <1>3, <3>1 DEF set
  <2>2. \A m \in set : NameRank(m) = i
    OBVIOUS
  <2> HIDE DEF set
  <2>3. \A j \in 1..Len(Among(list, set)) : Among(list, set)[j] \in set
    BY AmongPlaces DEF Places
  <2>4. \A j \in 1..Len(buckets[i]) : buckets[i][j] \in S /\ NameRank(buckets[i][j]) = i
    <3>1. buckets[i] = Among(list, set)
      BY <1>3 DEF set
    <3> QED
      BY <2>1, <2>2, <2>3, <3>1
  <2> QED
    BY <2>1, <2>4
<1> HIDE DEF key
<1>5. InBuckets(buckets, S, key)
  BY <1>3, <1>4 DEF InBuckets
<1> QED
  BY <1>1, <1>2, <1>3, <1>5, FlattenOnceEach

LEMMA OfPriorityIsAList ==
  ASSUME NEW mods, GoodMods(mods), NEW priority
  PROVE  /\ OfPriority(mods, priority) \in Seq(ToSet(mods)) /\ OnceEach(OfPriority(mods, priority))
         /\ \A i \in 1..Len(OfPriority(mods, priority)) : OfPriority(mods, priority)[i].info.priority = priority
<1> DEFINE S == {m \in ToSet(mods) : m.info.priority = priority}
           part == Among(mods, S)
<1>1. mods \in Seq(ToSet(mods)) /\ OnceEach(mods)
  BY DEF GoodMods, IsASequence
<1>2. OnePerFolder(ToSet(mods))
  BY <1>1 DEF ToSet, OnceEach, OnePerFolder
<1>3. S \subseteq ToSet(mods) /\ \A m \in S : m.info.priority = priority
  OBVIOUS
<1>4. OfPriority(mods, priority) = ByName(part)
  BY DEF OfPriority
<1> HIDE DEF S
<1>5. part \in Seq(ToSet(mods)) /\ OnceEach(part) /\ \A i \in 1..Len(part) : part[i] \in S
  BY <1>1, AmongPlaces, PartOnceEach, PartOfMods
<1> HIDE DEF part
<1>6. part \in Seq(S)
  BY <1>5
<1>7. ByName(part) \in Seq(S) /\ OnceEach(ByName(part))
  <2>1. OnePerFolder(S)
    BY <1>2, <1>3 DEF OnePerFolder
  <2> QED
    BY <1>5, <1>6, <2>1, ByNameIsAList
<1> DEFINE list == ByName(part)
<1> HIDE DEF list
<1>8. list \in Seq(S) /\ OnceEach(list)
  BY <1>7 DEF list
<1>9. \A i \in 1..Len(list) : list[i] \in S
  BY <1>8
<1>10. list \in Seq(ToSet(mods))
  BY <1>3, <1>8
<1> QED
  BY <1>3, <1>4, <1>8, <1>9, <1>10 DEF list

LEMMA ByModIniIsAList ==
  ASSUME NEW mods, GoodMods(mods)
  PROVE  IsModList(ByModIni(mods))
<1> DEFINE S == ToSet(mods)
           N == MaxPriority + 1
           buckets == [i \in 1..N |-> OfPriority(mods, N - i)]
           key == [m \in S |-> N - m.info.priority]
           order == HighestFirst(mods)
<1>1. N \in Nat /\ N >= 1
  BY DEF MaxPriority
<1>2. order = FlattenSeq(buckets)
  BY DEF HighestFirst
<1> HIDE DEF N
<1>3. Len(buckets) = N /\ \A i \in 1..N : buckets[i] = OfPriority(mods, N - i)
  BY <1>1
<1>4. OnePerFolder(S)
  <2>1. mods \in Seq(S) /\ OnceEach(mods)
    BY DEF GoodMods, IsASequence
  <2> QED
    BY <2>1 DEF ToSet, OnceEach, OnePerFolder
<1> HIDE DEF buckets, order
<1>5. ASSUME NEW i \in 1..N
      PROVE  /\ buckets[i] \in Seq(S) /\ OnceEach(buckets[i])
             /\ \A j \in 1..Len(buckets[i]) : key[buckets[i][j]] = i
  <2>1. /\ buckets[i] \in Seq(S) /\ OnceEach(buckets[i])
        /\ \A j \in 1..Len(buckets[i]) : buckets[i][j].info.priority = N - i
    BY <1>3, OfPriorityIsAList
  <2>2. \A j \in 1..Len(buckets[i]) : buckets[i][j] \in S
    BY <2>1
  <2>3. \A j \in 1..Len(buckets[i]) : key[buckets[i][j]] = N - (N - i)
    BY <2>1, <2>2
  <2>4. N - (N - i) = i
    BY <1>1
  <2> QED
    BY <2>1, <2>3, <2>4
<1> HIDE DEF S, key
<1>10. order \in Seq(S) /\ OnceEach(order)
  <2>1. InBuckets(buckets, S, key)
    BY <1>3, <1>5 DEF InBuckets
  <2> QED
    BY <1>1, <1>2, <1>3, <1>4, <2>1, FlattenOnceEach
<1>11. GoodMods(order)
  <2>1. \A x \in S : x.folder \in Names /\ x.info.enabled \in BOOLEAN
    BY DEF GoodMods, S, ToSet
  <2>2. \A i \in 1..Len(order) : order[i] \in S
    <3> HIDE DEF order
    <3> QED
      BY <1>10
  <2> HIDE DEF order
  <2> QED
    BY <1>10, <2>1, <2>2, SequenceOf DEF GoodMods
<1> DEFINE enabled == [i \in 1..Len(order) |-> order[i].info.enabled]
<1>12. ByModIni(mods) = [i \in 1..Len(order) |-> Listed(order[i].folder, order[i].info.enabled, <<>>)]
  BY DEF ByModIni, order
<1> HIDE DEF order
<1>13. /\ \A i \in 1..Len(order) : enabled[i] \in BOOLEAN
       /\ ByModIni(mods) = [i \in 1..Len(order) |-> Listed(order[i].folder, enabled[i], <<>>)]
  BY <1>11, <1>12 DEF GoodMods
<1> HIDE DEF enabled
<1> QED
  BY <1>11, <1>13, ListOfMods

LEMMA MovesIsAList ==
  ASSUME NEW entries, IsModList(entries), NEW folder, InstalledOn(screen, folder), NEW position \in Nat
  PROVE  IsModList(Moves(entries, folder, position))
<1> DEFINE installed == FoldersIn(screen.mods)
           others == OfFolders(entries, installed \ {folder})
           moved == OfFolders(entries, {folder})
           absent == Without(entries, installed)
           place == IF position < Len(others) THEN position ELSE Len(others)
           before == SubSeq(others, 1, place)
           after == SubSeq(others, place + 1, Len(others))
<1>1. folder \in installed
  BY DEF InstalledOn
<1>2. /\ IsModList(others) /\ IsModList(moved) /\ IsModList(absent)
      /\ \A i \in 1..Len(others) : others[i].folder \in installed \ {folder}
      /\ \A i \in 1..Len(moved) : moved[i].folder \in {folder}
      /\ \A i \in 1..Len(absent) : absent[i].folder \notin installed
  BY OfAndWithout
<1>3. Moves(entries, folder, position) = before \o moved \o after \o absent
  BY DEF Moves
<1> HIDE DEF others, moved, absent, installed
<1>4. Len(others) \in Nat /\ place \in Nat /\ place <= Len(others)
  BY <1>2 DEF IsModList
<1> HIDE DEF place
<1>5. /\ IsModList(before) /\ IsModList(after)
      /\ \A i \in 1..Len(before) : i \in 1..place /\ before[i] = others[i]
      /\ \A i \in 1..Len(after) : i + place \in (place + 1)..Len(others) /\ after[i] = others[i + place]
  <2>1. IsModList(before) /\ \A i \in 1..Len(before) : i + 1 - 1 \in 1..place /\ before[i] = others[i + 1 - 1]
    BY <1>2, <1>4, Piece
  <2>2. /\ IsModList(after)
        /\ \A i \in 1..Len(after) : i + (place + 1) - 1 \in (place + 1)..Len(others) /\ after[i] = others[i + (place + 1) - 1]
    BY <1>2, <1>4, Piece
  <2>3. Len(before) \in Nat /\ Len(after) \in Nat
    BY <2>1, <2>2 DEF IsModList
  <2> HIDE DEF before, after
  <2>4. \A i \in Nat : i + 1 - 1 = i /\ i + (place + 1) - 1 = i + place
    BY <1>4
  <2> QED
    BY <2>1, <2>2, <2>3, <2>4
<1> HIDE DEF before, after
<1>6. /\ \A i \in 1..Len(before) : before[i].folder \in installed \ {folder}
      /\ \A i \in 1..Len(after) : after[i].folder \in installed \ {folder}
  <2>1. ASSUME NEW i \in 1..Len(before) PROVE before[i].folder \in installed \ {folder}
    <3>1. i \in 1..Len(others) /\ before[i] = others[i]
      BY <1>4, <1>5
    <3> QED
      BY <1>2, <3>1
  <2>2. ASSUME NEW i \in 1..Len(after) PROVE after[i].folder \in installed \ {folder}
    <3>1. i + place \in 1..Len(others) /\ after[i] = others[i + place]
      BY <1>4, <1>5
    <3> QED
      BY <1>2, <3>1
  <2> QED
    BY <2>1, <2>2
<1>7. \A i \in 1..Len(before), j \in 1..Len(after) : before[i].folder # after[j].folder
  <2> SUFFICES ASSUME NEW i \in 1..Len(before), NEW j \in 1..Len(after), before[i].folder = after[j].folder PROVE FALSE
    OBVIOUS
  <2>1. /\ i \in 1..Len(others) /\ j + place \in 1..Len(others) /\ i <= place /\ j + place > place
        /\ others[i].folder = others[j + place].folder
    BY <1>4, <1>5
  <2>2. i = j + place
    BY <1>2, <2>1 DEF IsModList, OnceEach
  <2> QED
    BY <1>4, <2>1, <2>2
<1> DEFINE one == before \o moved
           two == one \o after
<1>8. /\ IsModList(one)
      /\ \A i \in 1..Len(one) : \/ \E j \in 1..Len(before) : one[i] = before[j]
                                \/ \E j \in 1..Len(moved) : one[i] = moved[j]
  <2>1. before \in Seq(Entry) /\ moved \in Seq(Entry)
    BY <1>2, <1>5 DEF IsModList
  <2>2. \A i \in 1..Len(one) : \/ \E j \in 1..Len(before) : one[i] = before[j]
                               \/ \E j \in 1..Len(moved) : one[i] = moved[j]
    BY <2>1
  <2>3. IsModList(one)
    BY <1>2, <1>5, <1>6, Joined
  <2> QED
    BY <2>2, <2>3
<1> HIDE DEF one
<1>9. /\ IsModList(two)
      /\ \A i \in 1..Len(two) : \/ \E j \in 1..Len(one) : two[i] = one[j]
                                \/ \E j \in 1..Len(after) : two[i] = after[j]
  <2>1. one \in Seq(Entry) /\ after \in Seq(Entry)
    BY <1>8, <1>5 DEF IsModList
  <2>2. \A i \in 1..Len(two) : \/ \E j \in 1..Len(one) : two[i] = one[j]
                               \/ \E j \in 1..Len(after) : two[i] = after[j]
    BY <2>1
  <2>3. \A i \in 1..Len(one), j \in 1..Len(after) : one[i].folder # after[j].folder
    BY <1>2, <1>6, <1>7, <1>8
  <2>4. IsModList(two)
    BY <1>5, <1>8, <2>3, Joined
  <2> QED
    BY <2>2, <2>4
<1> HIDE DEF two
<1>10. \A i \in 1..Len(two) : two[i].folder \in installed
  <2>1. \A i \in 1..Len(one) : one[i].folder \in installed
    BY <1>1, <1>2, <1>6, <1>8
  <2> QED
    BY <1>6, <1>9, <2>1
<1>11. IsModList(two \o absent)
  BY <1>2, <1>9, <1>10, Joined
<1> QED
  BY <1>3, <1>11 DEF two, one

-----------------------------------------------------------------------------
(* The settings file: what is set is what is read.                         *)

LEMMA LeastIs ==
  ASSUME NEW S, S \subseteq Nat, S # {}
  PROVE  Min(S) \in S /\ \A x \in S : Min(S) <= x
<1>1. IsWellFoundedOn(OpToRel(<, Nat), Nat)
  BY NatLessThanWellFounded
<1>2. PICK x \in S : \A y \in S : ~(<<y, x>> \in OpToRel(<, Nat))
  BY <1>1, WFMin, Zenon
<1>3. ASSUME NEW y \in S PROVE x <= y
  <2> SUFFICES ASSUME y < x PROVE FALSE
    OBVIOUS
  <2>1. y \in Nat /\ x \in Nat
    OBVIOUS
  <2>2. <<y, x>> \in OpToRel(<, Nat)
    BY <2>1 DEF OpToRel
  <2> QED
    BY <1>2, <2>2
<1> QED
  BY <1>3 DEF Min

LEMMA GreatestIs ==
  ASSUME NEW n \in Nat, NEW S, S \subseteq 1..n, S # {}
  PROVE  Max(S) \in S
<1> DEFINE Above == {m \in Nat : \A x \in S : x <= m}
           least == Min(Above)
<1>1. n \in Above /\ Above \subseteq Nat
  OBVIOUS
<1> HIDE DEF Above
<1>2. least \in Above /\ \A m \in Above : least <= m
  BY <1>1, LeastIs
<1> HIDE DEF least
<1>3. least \in Nat /\ \A x \in S : x <= least
  BY <1>2 DEF Above
<1>4. least \in S
  <2> SUFFICES ASSUME least \notin S PROVE FALSE
    OBVIOUS
  <2>1. PICK x \in S : TRUE
    OBVIOUS
  <2>2. least >= 1 /\ \A y \in S : y <= least - 1
    BY <1>3, <2>1
  <2>3. least - 1 \in Above
    BY <1>3, <2>2 DEF Above
  <2> QED
    BY <1>2, <1>3, <2>3
<1>5. \A x \in S : least >= x
  BY <1>3
<1>6. \E x \in S : \A y \in S : x >= y
  BY <1>4, <1>5
<1> QED
  BY <1>6 DEF Max

\* What has been read of the first section after n lines.
FirstRead(s, lines, key, n) ==
  \E X, Y :
    /\ s \in Seq(X) /\ Len(s) >= 1
    /\ s[1] = [name |-> s[1].name, entries |-> s[1].entries] /\ s[1].entries \in Seq(Y)
    /\ Len(s) = 1 <=> \A j \in Headers(lines) : j > n
    /\ \A k \in 1..Len(s[1].entries) :
         s[1].entries[k][1] = key => \E i \in LinesOf(lines, key) : i <= n /\ s[1].entries[k][2] = lines[i].value
    /\ \A i \in LinesOf(lines, key) : i <= n => \E k \in 1..Len(s[1].entries) : s[1].entries[k][1] = key

LEMMA ReadsFirst ==
  ASSUME NEW lines, Len(lines) \in Nat, NEW key
  PROVE  FirstRead(Parse(lines), lines, key, Len(lines))
<1>1. PICK f : /\ Parse(lines) = f[Len(lines)] /\ f[0] = <<Unnamed>>
               /\ \A n \in 1..Len(lines) : f[n] = ReadLine(f[n - 1], lines[n])
  BY ParseIs
<1>2. /\ Headers(lines) \subseteq 1..Len(lines) /\ LinesOf(lines, key) \subseteq 1..Len(lines)
      /\ \A j \in 1..Len(lines) : j \in Headers(lines) <=> lines[j].kind = "section"
      /\ \A i \in 1..Len(lines) : i \in LinesOf(lines, key)
                                    <=> lines[i].kind = "value" /\ lines[i].key = key /\ \A j \in Headers(lines) : i < j
  BY DEF Headers, LinesOf
<1> DEFINE T == {n \in Nat : n <= Len(lines) => FirstRead(f[n], lines, key, n)}
<1>3. 0 \in T
  <2> DEFINE s == <<Unnamed>>
  <2>1. s \in Seq({Unnamed}) /\ Len(s) = 1 /\ s[1] = Unnamed
    OBVIOUS
  <2>2. Unnamed = [name |-> Unnamed.name, entries |-> Unnamed.entries] /\ Unnamed.entries = <<>> /\ <<>> \in Seq({}) /\ Len(<<>>) = 0
    BY DEF Unnamed, Titled
  <2> HIDE DEF s
  <2>3. \A j \in Headers(lines) : j > 0
    BY <1>2
  <2>4. \A i \in LinesOf(lines, key) : ~(i <= 0)
    BY <1>2
  <2>5. FirstRead(s, lines, key, 0)
    BY <2>1, <2>2, <2>3, <2>4 DEF FirstRead
  <2> QED
    BY <1>1, <2>5 DEF s
<1>4. ASSUME NEW n \in Nat, n \in T PROVE n + 1 \in T
  <2> SUFFICES ASSUME n + 1 <= Len(lines) PROVE FirstRead(f[n + 1], lines, key, n + 1)
    OBVIOUS
  <2> DEFINE s == f[n]
             m == n + 1
             line == lines[m]
             next == f[m]
  <2>1. m \in 1..Len(lines) /\ m - 1 = n /\ m \in Nat /\ \A i \in Nat : i <= m <=> (i <= n \/ i = m)
    OBVIOUS
  <2>2. PICK X, Y :
          /\ s \in Seq(X) /\ Len(s) >= 1
          /\ s[1] = [name |-> s[1].name, entries |-> s[1].entries] /\ s[1].entries \in Seq(Y)
          /\ Len(s) = 1 <=> \A j \in Headers(lines) : j > n
          /\ \A k \in 1..Len(s[1].entries) :
               s[1].entries[k][1] = key => \E i \in LinesOf(lines, key) : i <= n /\ s[1].entries[k][2] = lines[i].value
          /\ \A i \in LinesOf(lines, key) : i <= n => \E k \in 1..Len(s[1].entries) : s[1].entries[k][1] = key
    BY <1>4 DEF FirstRead
  <2>3. next = ReadLine(s, line)
    BY <1>1, <2>1
  <2> HIDE DEF s, m, next
  <2>4. CASE line.kind = "section"
    <3>1. next = Append(s, Titled(line.key))
      BY <2>3, <2>4 DEF ReadLine
    <3>2. next \in Seq(X \cup {Titled(line.key)}) /\ Len(next) = Len(s) + 1 /\ next[1] = s[1]
      BY <2>2, <3>1
    <3>3. m \in Headers(lines) /\ m \notin LinesOf(lines, key)
      BY <1>2, <2>1, <2>4
    <3>4. ~(\A j \in Headers(lines) : j > m) /\ Len(next) # 1
      BY <2>1, <2>2, <3>2, <3>3
    <3>5. \A i \in LinesOf(lines, key) : i <= m <=> i <= n
      BY <1>2, <2>1, <3>3
    <3>6. FirstRead(next, lines, key, m)
      BY <2>2, <3>2, <3>4, <3>5 DEF FirstRead
    <3> QED
      BY <3>6 DEF next, m
  <2>5. CASE line.kind = "value"
    <3> DEFINE pair == <<line.key, line.value>>
               l == Len(s)
               last == [name |-> s[l].name, entries |-> Append(s[l].entries, pair)]
    <3>1. next = [s EXCEPT ![l] = last]
      BY <2>3, <2>5 DEF ReadLine
    <3>2. pair[1] = line.key /\ pair[2] = line.value /\ l \in 1..Len(s) /\ Len(s) \in Nat
      BY <2>2
    <3> HIDE DEF pair
    <3>3. next \in Seq(X \cup {last}) /\ Len(next) = Len(s) /\ next[l] = last /\ (l # 1 => next[1] = s[1])
      <4> HIDE DEF last
      <4> QED
        BY <2>2, <3>1, <3>2
    <3>4. m \notin Headers(lines) /\ \A j \in Headers(lines) : j > m <=> j > n
      <4>1. m \notin Headers(lines)
        BY <1>2, <2>1, <2>5
      <4> QED
        BY <1>2, <2>1, <4>1
    <3>5. CASE l # 1
      <4>1. m \notin LinesOf(lines, key)
        BY <1>2, <2>1, <2>2, <3>4, <3>5
      <4>2. \A i \in LinesOf(lines, key) : i <= m <=> i <= n
        BY <1>2, <2>1, <4>1
      <4> HIDE DEF last
      <4>3. FirstRead(next, lines, key, m)
        BY <2>2, <3>3, <3>4, <3>5, <4>2 DEF FirstRead
      <4> QED
        BY <4>3 DEF next, m
    <3>6. CASE l = 1
      <4> DEFINE es == s[1].entries
                 new == Append(es, pair)
      <4>1. es \in Seq(Y) /\ new \in Seq(Y \cup {pair}) /\ Len(new) = Len(es) + 1 /\ Len(es) \in Nat
            /\ new[Len(new)] = pair /\ \A k \in 1..Len(es) : new[k] = es[k]
        BY <2>2
      <4> HIDE DEF new
      <4>2. next[1] = [name |-> next[1].name, entries |-> next[1].entries] /\ next[1].entries = new
        BY <3>3, <3>6 DEF new
      <4>3. \A j \in Headers(lines) : m < j
        BY <1>2, <2>1, <2>2, <3>4, <3>6
      <4>4. m \in LinesOf(lines, key) <=> line.key = key
        BY <1>2, <2>1, <2>5, <4>3
      <4>5. ASSUME NEW k \in 1..Len(new), new[k][1] = key
            PROVE  \E i \in LinesOf(lines, key) : i <= m /\ new[k][2] = lines[i].value
        <5>1. CASE k \in 1..Len(es)
          <6>1. es[k] = new[k] /\ es[k][1] = key
            BY <4>1, <4>5, <5>1
          <6>2. PICK i \in LinesOf(lines, key) : i <= n /\ es[k][2] = lines[i].value
            BY <2>2, <5>1, <6>1
          <6> QED
            BY <1>2, <2>1, <6>1, <6>2
        <5>2. CASE k = Len(new)
          <6>1. new[k] = pair
            BY <4>1, <5>2
          <6>2. line.key = key
            BY <3>2, <4>5, <6>1
          <6>3. m \in LinesOf(lines, key) /\ m <= m
            BY <2>1, <4>4, <6>2
          <6>4. new[k][2] = lines[m].value
            BY <2>1, <3>2, <6>1
          <6> QED
            BY <6>3, <6>4
        <5> QED
          BY <4>1, <5>1, <5>2
      <4>6. ASSUME NEW i \in LinesOf(lines, key), i <= m PROVE \E k \in 1..Len(new) : new[k][1] = key
        <5>1. CASE i <= n
          <6>1. PICK k \in 1..Len(es) : es[k][1] = key
            BY <2>2, <5>1
          <6>2. k \in 1..Len(new) /\ new[k] = es[k]
            BY <4>1
          <6> QED
            BY <6>1, <6>2
        <5>2. CASE i = m
          BY <3>2, <4>1, <4>4, <5>2
        <5> QED
          BY <1>2, <2>1, <4>6, <5>1, <5>2
      <4> HIDE DEF last, es
      <4>7. FirstRead(next, lines, key, m)
        BY <2>2, <3>3, <3>4, <4>1, <4>2, <4>5, <4>6 DEF FirstRead
      <4> QED
        BY <4>7 DEF next, m
    <3> QED
      BY <3>5, <3>6
  <2>6. CASE line.kind \notin {"section", "value"}
    <3>1. next = s
      BY <2>3, <2>6 DEF ReadLine
    <3>2. m \notin Headers(lines) /\ m \notin LinesOf(lines, key)
      BY <1>2, <2>1, <2>6
    <3>3. /\ \A j \in Headers(lines) : j > m <=> j > n
          /\ \A i \in LinesOf(lines, key) : i <= m <=> i <= n
      BY <1>2, <2>1, <3>2
    <3>4. FirstRead(next, lines, key, m)
      BY <2>2, <3>1, <3>3 DEF FirstRead
    <3> QED
      BY <3>4 DEF next, m
  <2> QED
    BY <2>4, <2>5, <2>6
<1> HIDE DEF T
<1>5. Len(lines) \in T
  BY <1>3, <1>4, StepByStep
<1> QED
  BY <1>1, <1>5 DEF T

\* A key that is set once is read as it is set.
LEMMA ReadsSetOnce ==
  ASSUME NEW lines, NEW key, IsSetOnce(lines, key), NEW i \in LinesOf(lines, key), NEW fallback
  PROVE  Lookup(Parse(lines)[1].entries, key, fallback, TRUE) = lines[i].value
<1> DEFINE entries == Parse(lines)[1].entries
           found == {k \in 1..Len(entries) : entries[k][1] = key}
<1>1. Len(lines) \in Nat /\ i \in 1..Len(lines) /\ LinesOf(lines, key) \subseteq 1..Len(lines)
  BY DEF IsSetOnce, LinesOf
<1>2. FirstRead(Parse(lines), lines, key, Len(lines))
  BY <1>1, ReadsFirst
<1>3. /\ Len(entries) \in Nat
      /\ \A k \in 1..Len(entries) : entries[k][1] = key => \E j \in LinesOf(lines, key) : entries[k][2] = lines[j].value
      /\ \E k \in 1..Len(entries) : entries[k][1] = key
  BY <1>1, <1>2 DEF FirstRead
<1> HIDE DEF entries
<1>4. found # {} /\ found \subseteq 1..Len(entries)
  BY <1>3
<1>5. Max(found) \in found
  BY <1>3, <1>4, GreatestIs
<1>6. Lookup(entries, key, fallback, TRUE) = entries[Max(found)][2]
  BY <1>4 DEF Lookup
<1>7. entries[Max(found)][2] = lines[i].value
  BY <1>3, <1>5 DEF IsSetOnce
<1> QED
  BY <1>6, <1>7 DEF entries

\* Setting it leaves it set once, to what it is set to.
LEMMA SettingSets ==
  ASSUME NEW lines, NEW key, IsSetOnce(lines, key), NEW value, NEW new, new = SetValue(lines, key, value)
  PROVE  IsSetOnce(new, key) /\ \E i \in LinesOf(new, key) : new[i].value = value
<1> DEFINE v == Value(key, value)
           X == ToSet(lines) \cup {v}
           headers == Headers(lines)
           there == LinesOf(lines, key)
           end == IF headers = {} THEN Len(lines) ELSE Min(headers) - 1
<1>1. /\ lines \in Seq(ToSet(lines)) /\ lines \in Seq(X) /\ Len(lines) \in Nat
      /\ \A i, j \in there : i = j
  BY DEF IsSetOnce
<1>2. /\ headers \subseteq 1..Len(lines) /\ there \subseteq 1..Len(lines)
      /\ \A j \in 1..Len(lines) : j \in headers <=> lines[j].kind = "section"
      /\ \A i \in 1..Len(lines) : i \in there <=> lines[i].kind = "value" /\ lines[i].key = key /\ \A j \in headers : i < j
  BY DEF Headers, LinesOf
<1>3. v.kind = "value" /\ v.key = key /\ v.value = value
  BY DEF Value
<1>4. new = IF there # {} THEN [lines EXCEPT ![Min(there)] = v]
            ELSE SubSeq(lines, 1, end) \o <<v>> \o SubSeq(lines, end + 1, Len(lines))
  BY DEF SetValue
<1> HIDE DEF v, X, headers, there, end
<1>5. CASE there # {}
  <2> DEFINE m == Min(there)
  <2>1. m \in there /\ m \in 1..Len(lines)
    <3>1. there \subseteq Nat
      BY <1>2
    <3>2. Min(there) \in there
      BY <1>5, <3>1, LeastIs
    <3> QED
      BY <1>2, <3>2
  <2> HIDE DEF m
  <2>2. new \in Seq(X) /\ Len(new) = Len(lines) /\ new[m] = v /\ \A i \in 1..Len(lines) : i # m => new[i] = lines[i]
    <3>1. new = [lines EXCEPT ![m] = v] /\ v \in X
      BY <1>4, <1>5 DEF m, X
    <3> QED
      BY <1>1, <2>1, <3>1
  <2>3. Headers(new) = headers
    <3>1. \A i \in 1..Len(lines) : new[i].kind = lines[i].kind /\ new[i].key = lines[i].key
      BY <1>2, <1>3, <2>1, <2>2
    <3>2. \A i : i \in Headers(new) <=> i \in 1..Len(lines) /\ lines[i].kind = "section"
      BY <2>2, <3>1 DEF Headers
    <3>3. \A i : i \in headers <=> i \in 1..Len(lines) /\ lines[i].kind = "section"
      BY <1>2
    <3> QED
      BY <3>2, <3>3
  <2>4. LinesOf(new, key) = there
    <3>1. \A i \in 1..Len(lines) : new[i].kind = lines[i].kind /\ new[i].key = lines[i].key
      BY <1>2, <1>3, <2>1, <2>2
    <3>2. \A i : i \in LinesOf(new, key)
                 <=> i \in 1..Len(lines) /\ lines[i].kind = "value" /\ lines[i].key = key /\ \A j \in headers : i < j
      BY <2>2, <2>3, <3>1 DEF LinesOf
    <3>3. \A i : i \in there
                 <=> i \in 1..Len(lines) /\ lines[i].kind = "value" /\ lines[i].key = key /\ \A j \in headers : i < j
      BY <1>2
    <3> QED
      BY <3>2, <3>3
  <2> QED
    BY <1>1, <1>3, <2>1, <2>2, <2>4, SequenceOf DEF IsSetOnce, IsASequence
<1>6. CASE there = {}
  <2>1. end \in 0..Len(lines) /\ (\A j \in headers : j > end) /\ (end # Len(lines) => end + 1 \in headers)
    <3>1. CASE headers = {}
      BY <1>1, <3>1 DEF end
    <3>2. CASE headers # {}
      <4>1. headers \subseteq Nat
        BY <1>2
      <4> DEFINE m == Min(headers)
      <4>2. m \in headers /\ \A j \in headers : m <= j
        BY <3>2, <4>1, LeastIs
      <4>3. end = m - 1
        BY <3>2 DEF end
      <4> HIDE DEF m
      <4>4. m \in 1..Len(lines) /\ end + 1 = m
        BY <1>2, <4>2, <4>3
      <4> QED
        BY <1>1, <1>2, <4>1, <4>2, <4>3, <4>4
    <3> QED
      BY <3>1, <3>2
  <2> DEFINE first == SubSeq(lines, 1, end)
             last == SubSeq(lines, end + 1, Len(lines))
  <2>2. /\ first \in Seq(X) /\ Len(first) = end /\ \A i \in 1..end : first[i] = lines[i]
        /\ last \in Seq(X) /\ Len(last) = Len(lines) - end /\ \A i \in 1..Len(last) : last[i] = lines[end + i]
    BY <1>1, <2>1
  <2>3. new = first \o <<v>> \o last /\ <<v>> \in Seq(X) /\ Len(<<v>>) = 1 /\ <<v>>[1] = v
    <3>1. v \in X
      BY DEF X
    <3> HIDE DEF first, last
    <3> QED
      BY <1>4, <1>6, <3>1 DEF first, last
  <2> HIDE DEF first, last
  <2>4. /\ new \in Seq(X) /\ Len(new) = Len(lines) + 1
        /\ \A i \in 1..end : new[i] = lines[i]
        /\ new[end + 1] = v
        /\ \A i \in (end + 2)..Len(new) : new[i] = lines[i - 1]
    <3> DEFINE a == first \o <<v>>
    <3>1. /\ a \in Seq(X) /\ Len(a) = end + 1 /\ a[end + 1] = v /\ \A i \in 1..end : a[i] = lines[i]
      <4> DEFINE one == <<v>>
      <4>1. one \in Seq(X) /\ Len(one) = 1 /\ one[1] = v
        BY <2>3
      <4>2. end \in Nat
        BY <2>1
      <4> HIDE DEF one
      <4>3. a = first \o one
        BY DEF one
      <4> QED
        BY <2>2, <4>1, <4>2, <4>3
    <3>2. new = a \o last
      BY <2>3
    <3> HIDE DEF a
    <3>3. /\ new \in Seq(X) /\ Len(new) = Len(lines) + 1
          /\ \A i \in 1..Len(new) : new[i] = IF i <= end + 1 THEN a[i] ELSE last[i - (end + 1)]
      BY <1>1, <2>1, <2>2, <3>1, <3>2
    <3>4. ASSUME NEW i \in (end + 2)..Len(new) PROVE new[i] = lines[i - 1]
      <4>1. i \in 1..Len(new) /\ ~(i <= end + 1) /\ i - (end + 1) \in 1..Len(last) /\ end + (i - (end + 1)) = i - 1
        BY <1>1, <2>1, <2>2, <3>3, <3>4
      <4> QED
        BY <2>2, <3>3, <4>1
    <3> QED
      BY <1>1, <2>1, <3>1, <3>3, <3>4
  <2>5. \A j \in Headers(new) : j > end + 1
    <3> SUFFICES ASSUME NEW j \in 1..Len(new), new[j].kind = "section", j <= end + 1 PROVE FALSE
      BY <1>1, <2>1, <2>4 DEF Headers
    <3>1. CASE j = end + 1
      BY <1>3, <2>4, <3>1
    <3>2. CASE j # end + 1
      <4>1. j \in 1..end /\ j \in 1..Len(lines)
        BY <1>1, <2>1, <3>2
      <4> QED
        BY <1>2, <2>1, <2>4, <4>1
    <3> QED
      BY <3>1, <3>2
  <2>6. end + 1 \in LinesOf(new, key)
    BY <1>1, <1>3, <2>1, <2>4, <2>5 DEF LinesOf
  <2>7. ASSUME NEW i \in LinesOf(new, key) PROVE i = end + 1
    <3>1. /\ i \in 1..Len(new) /\ new[i].kind = "value" /\ new[i].key = key /\ \A j \in Headers(new) : i < j
      BY DEF LinesOf
    <3>2. CASE i <= end
      <4>1. i \in 1..end /\ i \in 1..Len(lines) /\ \A j \in headers : i < j
        BY <1>1, <1>2, <2>1, <3>1, <3>2
      <4>2. i \in there
        BY <1>2, <2>4, <3>1, <4>1
      <4> QED
        BY <1>6, <4>2
    <3>3. CASE i > end + 1
      <4>1. end + 1 \in headers /\ end + 1 \in 1..Len(lines) /\ end + 2 \in (end + 2)..Len(new) /\ (end + 2) - 1 = end + 1
        BY <1>1, <2>1, <2>4, <3>1, <3>3
      <4>2. new[end + 2] = lines[end + 1] /\ end + 2 \in 1..Len(new)
        BY <2>1, <2>4, <4>1
      <4>3. end + 2 \in Headers(new)
        BY <1>2, <4>1, <4>2 DEF Headers
      <4>4. i < end + 2
        BY <3>1, <4>3
      <4> QED
        BY <1>1, <2>1, <3>1, <3>3, <4>4
    <3> QED
      BY <1>1, <2>1, <3>1, <3>2, <3>3
  <2> QED
    BY <1>3, <2>4, <2>6, <2>7, SequenceOf DEF IsSetOnce, IsASequence
<1> QED
  BY <1>5, <1>6

LEMMA ActivatingActivates ==
  ASSUME NEW lines, IsSetOnce(lines, "profile"), NEW name
  PROVE  ActiveProfile(SetValue(lines, "profile", name)) = name
<1> DEFINE new == SetValue(lines, "profile", name)
<1>1. IsSetOnce(new, "profile") /\ \E i \in LinesOf(new, "profile") : new[i].value = name
  BY SettingSets
<1> HIDE DEF new
<1>2. ActiveProfile(new) = name
  BY <1>1, ReadsSetOnce DEF ActiveProfile
<1> QED
  BY <1>2 DEF new

LEMMA NothingSet == \A key : IsSetOnce(<<>>, key)
BY DEF IsSetOnce, LinesOf

\* A file cut short.
LEMMA CutIsSetOnce ==
  ASSUME NEW lines, NEW key, IsSetOnce(lines, key), NEW n \in {0, Len(lines) - 1}
  PROVE  IsSetOnce(SubSeq(lines, 1, n), key)
<1> DEFINE cut == SubSeq(lines, 1, n)
<1>1. lines \in Seq(ToSet(lines)) /\ Len(lines) \in Nat
  BY DEF IsSetOnce
<1>2. cut \in Seq(ToSet(lines)) /\ Len(cut) \in Nat /\ Len(cut) <= Len(lines) /\ \A i \in 1..Len(cut) : cut[i] = lines[i]
  BY <1>1
<1> HIDE DEF cut
<1>3. ASSUME NEW i \in LinesOf(cut, key) PROVE i \in LinesOf(lines, key)
  <2>1. i \in 1..Len(cut) /\ i \in 1..Len(lines) /\ cut[i] = lines[i]
    BY <1>1, <1>2 DEF LinesOf
  <2>2. ASSUME NEW j \in Headers(lines) PROVE i < j
    <3>1. CASE j \in 1..Len(cut)
      <4>1. j \in Headers(cut)
        BY <1>2, <2>2, <3>1 DEF Headers
      <4> QED
        BY <4>1 DEF LinesOf
    <3>2. CASE j \notin 1..Len(cut)
      BY <1>1, <1>2, <2>1, <3>2 DEF Headers
    <3> QED
      BY <3>1, <3>2
  <2> QED
    BY <2>1, <2>2 DEF LinesOf
<1> QED
  BY <1>2, <1>3, SequenceOf DEF IsSetOnce, IsASequence, cut

-----------------------------------------------------------------------------
(* The calls of the core, one by one.                                     *)

IsTemporary(path) == path[1] = "profiles" /\ path = Temporary(path[2])

\* No call writes to a profile: it writes a whole list to its temporary file, and renames that.
OpKinds == {"mkdir", "unlink", "rmtree", "rename", "write", "fail"}
GoodOp(op) ==
  /\ op[1] \in OpKinds
  /\ op[1] = "write" => /\ ~IsProfile(op[2]) /\ (IsTemporary(op[2]) => IsWhole(op[3]))
                        /\ op[2] = ConfigFile => IsSetOnce(op[3], "profile")
  /\ op[1] = "rename" => /\ ~IsTemporary(op[3]) /\ (IsProfile(op[3]) => op[2] = Temporary(op[3][2]))
                         /\ op[3] # ConfigFile
GoodOps(ops) == IsASequence(ops) /\ \A i \in 1..Len(ops) : GoodOp(ops[i])

IsSaving(op) == op[1] = "rename" /\ IsProfile(op[3])
WrittenBefore(ops, i) == \E j \in 1..(i - 1) : ops[j][1] = "write" /\ ops[j][2] = ops[i][2]
\* A call that writes each temporary file before it renames it.
SafeOps(ops) == GoodOps(ops) /\ \A i \in 1..Len(ops) : IsSaving(ops[i]) => WrittenBefore(ops, i)

StepKinds == {"migrate", "reload", "read", "normalize", "complete", "save", "add", "activate", "delete", "rename",
              "uninstall", "plugins", "package"}
GoodStep(step) == step[1] \in StepKinds /\ (step[1] \in {"save", "add"} => IsModList(step[3]))
GoodSteps(steps) == IsASequence(steps) /\ \A i \in 1..Len(steps) : GoodStep(steps[i])

CardIsWhole(c) ==
  /\ c = [tree |-> c.tree, texts |-> c.texts]
  /\ \A path \in DOMAIN c.texts : IsProfile(path) => IsWhole(c.texts[path])
  /\ ConfigFile \in DOMAIN c.texts => IsSetOnce(c.texts[ConfigFile], "profile")

Ready(c, path) == path \in DOMAIN c.texts => IsWhole(c.texts[path])

LEMMA NoOps == SafeOps(<<>>)
<1>1. IsASequence(<<>>) /\ Len(<<>>) = 0
  BY DEF IsASequence
<1> QED
  BY <1>1 DEF SafeOps, GoodOps

LEMMA OpsOneByOne ==
  ASSUME NEW S, NEW ops \in Seq(S), \A i \in 1..Len(ops) : GoodOp(ops[i]) /\ ~IsSaving(ops[i])
  PROVE  SafeOps(ops)
BY SequenceOf DEF SafeOps, GoodOps

LEMMA OneOp ==
  ASSUME NEW op, GoodOp(op), ~IsSaving(op)
  PROVE  SafeOps(<<op>>)
<1>1. <<op>> \in Seq({op}) /\ \A i \in 1..Len(<<op>>) : <<op>>[i] = op
  OBVIOUS
<1> QED
  BY <1>1, OpsOneByOne

LEMMA OpsJoined ==
  ASSUME NEW a, NEW b, SafeOps(a), GoodOps(b),
         \A i \in 1..Len(b) : IsSaving(b[i]) => \/ WrittenBefore(b, i)
                                                \/ \E j \in 1..Len(a) : a[j][1] = "write" /\ a[j][2] = b[i][2]
  PROVE  SafeOps(a \o b)
<1> DEFINE c == a \o b
           S == ToSet(a) \cup ToSet(b)
<1>1. a \in Seq(S) /\ b \in Seq(S)
  BY DEF SafeOps, GoodOps, IsASequence
<1>2. c \in Seq(S) /\ Len(c) = Len(a) + Len(b) /\ Len(a) \in Nat /\ Len(b) \in Nat
  BY <1>1
<1>3. \A i \in 1..Len(c) : c[i] = IF i <= Len(a) THEN a[i] ELSE b[i - Len(a)]
  BY <1>1
<1> HIDE DEF c, S
<1>4. ASSUME NEW i \in 1..Len(c) PROVE GoodOp(c[i]) /\ (IsSaving(c[i]) => WrittenBefore(c, i))
  <2>1. CASE i <= Len(a)
    <3>1. i \in 1..Len(a) /\ c[i] = a[i]
      BY <1>2, <1>3, <2>1
    <3>2. GoodOp(a[i]) /\ (IsSaving(a[i]) => WrittenBefore(a, i))
      BY <3>1 DEF SafeOps, GoodOps
    <3>3. \A j \in 1..(i - 1) : c[j] = a[j]
      BY <1>2, <1>3, <2>1
    <3> QED
      BY <3>1, <3>2, <3>3 DEF WrittenBefore
  <2>2. CASE i > Len(a)
    <3> DEFINE k == i - Len(a)
    <3>1. k \in 1..Len(b) /\ c[i] = b[k] /\ i = k + Len(a)
      BY <1>2, <1>3, <2>2
    <3> HIDE DEF k
    <3>2. GoodOp(b[k])
      BY <3>1 DEF GoodOps
    <3>3. ASSUME IsSaving(b[k]) PROVE WrittenBefore(c, i)
      <4>1. CASE WrittenBefore(b, k)
        <5>1. PICK j \in 1..(k - 1) : b[j][1] = "write" /\ b[j][2] = b[k][2]
          BY <4>1 DEF WrittenBefore
        <5>2. j + Len(a) \in 1..(i - 1) /\ c[j + Len(a)] = b[j]
          <6>1. /\ j + Len(a) \in 1..(i - 1) /\ j + Len(a) \in 1..Len(c)
                /\ ~(j + Len(a) <= Len(a)) /\ (j + Len(a)) - Len(a) = j
            BY <1>2, <3>1
          <6> QED
            BY <1>3, <6>1
        <5> QED
          BY <3>1, <5>1, <5>2 DEF WrittenBefore
      <4>2. CASE \E j \in 1..Len(a) : a[j][1] = "write" /\ a[j][2] = b[k][2]
        <5>1. PICK j \in 1..Len(a) : a[j][1] = "write" /\ a[j][2] = b[k][2]
          BY <4>2
        <5>2. j \in 1..(i - 1) /\ c[j] = a[j]
          BY <1>2, <1>3, <3>1
        <5> QED
          BY <3>1, <5>1, <5>2 DEF WrittenBefore
      <4> QED
        BY <3>1, <3>3, <4>1, <4>2
    <3> QED
      BY <3>1, <3>2, <3>3
  <2> QED
    BY <1>2, <2>1, <2>2
<1>5. IsASequence(c)
  BY <1>2, SequenceOf
<1> QED
  BY <1>4, <1>5 DEF SafeOps, GoodOps, c

LEMMA SafeJoined ==
  ASSUME NEW a, NEW b, SafeOps(a), SafeOps(b)
  PROVE  SafeOps(a \o b)
BY OpsJoined DEF SafeOps

\* Every call under mods/ leaves the profiles alone.
LEMMA PlainOp ==
  ASSUME NEW op, op[1] \in {"mkdir", "unlink", "rmtree", "fail"}
  PROVE  GoodOp(op) /\ ~IsSaving(op)
BY DEF GoodOp, IsSaving, OpKinds

LEMMA RenameToMods ==
  ASSUME NEW from, NEW to, to[1] = "mods"
  PROVE  GoodOp(<<"rename", from, to>>) /\ ~IsSaving(<<"rename", from, to>>)
<1>1. ~IsProfile(to) /\ ~IsTemporary(to) /\ to # ConfigFile
  BY DEF IsProfile, IsTemporary, ConfigFile
<1> QED
  BY <1>1 DEF GoodOp, IsSaving, OpKinds

LEMMA WriteElsewhere ==
  ASSUME NEW path, NEW lines, path[1] = "mods" \/ (path = ConfigFile /\ IsSetOnce(lines, "profile"))
  PROVE  SafeOps(<<Writes(path, lines)>>)
<1> DEFINE op == Writes(path, lines)
<1>1. op[1] = "write" /\ op[2] = path /\ op[3] = lines
  BY DEF Writes
<1>2. ~IsProfile(path) /\ ~IsTemporary(path) /\ (path = ConfigFile => IsSetOnce(lines, "profile"))
  BY DEF IsProfile, IsTemporary, ConfigFile
<1> HIDE DEF op
<1>3. GoodOp(op) /\ ~IsSaving(op)
  BY <1>1, <1>2 DEF GoodOp, IsSaving, OpKinds
<1>4. SafeOps(<<op>>)
  BY <1>3, OneOp
<1> QED
  BY <1>4 DEF op

LEMMA SavingIsSafe ==
  ASSUME NEW c, NEW name, NEW list, IsModList(list)
  PROVE  SafeOps(SaveProfile(c, name, list))
<1> DEFINE w == Writes(Temporary(name), ToIni(list))
           u == <<"unlink", ProfileFile(name)>>
           r == <<"rename", Temporary(name), ProfileFile(name)>>
           middle == IF HasProfile(c, name) THEN <<u>> ELSE <<>>
<1>1. SaveProfile(c, name, list) = (<<w>> \o middle) \o <<r>>
  BY DEF SaveProfile
<1>2. /\ ~IsProfile(Temporary(name)) /\ ~IsTemporary(ProfileFile(name)) /\ IsProfile(ProfileFile(name))
      /\ ProfileFile(name)[2] = name /\ Temporary(name) # ConfigFile /\ ProfileFile(name) # ConfigFile
  BY DEF IsProfile, IsTemporary, ProfileFile, Temporary, ConfigFile
<1>3. w[1] = "write" /\ w[2] = Temporary(name) /\ w[3] = ToIni(list)
  BY DEF Writes
<1>4. r[1] = "rename" /\ r[2] = Temporary(name) /\ r[3] = ProfileFile(name)
  OBVIOUS
<1>5. SafeOps(middle)
  <2>1. SafeOps(<<u>>)
    <3>1. u[1] = "unlink"
      OBVIOUS
    <3> HIDE DEF u
    <3> QED
      BY <3>1, PlainOp, OneOp
  <2> HIDE DEF u
  <2> QED
    BY <2>1, NoOps
<1> HIDE DEF w, u, r, middle
<1>6. GoodOp(w) /\ ~IsSaving(w) /\ GoodOp(r)
  BY <1>2, <1>3, <1>4, WrittenIsWhole DEF GoodOp, IsSaving, OpKinds
<1>7. SafeOps(<<w>> \o middle)
  BY <1>5, <1>6, OneOp, SafeJoined
<1>8. GoodOps(<<r>>)
  <2>1. <<r>> \in Seq({r}) /\ \A i \in 1..Len(<<r>>) : <<r>>[i] = r
    OBVIOUS
  <2> QED
    BY <1>6, <2>1, SequenceOf DEF GoodOps
<1>9. \A i \in 1..Len(<<r>>) : \E j \in 1..Len(<<w>> \o middle) :
        (<<w>> \o middle)[j][1] = "write" /\ (<<w>> \o middle)[j][2] = <<r>>[i][2]
  <2>1. middle \in Seq(ToSet(middle))
    BY <1>5 DEF SafeOps, GoodOps, IsASequence
  <2>2. 1 \in 1..Len(<<w>> \o middle) /\ (<<w>> \o middle)[1] = w
    BY <2>1
  <2>3. \A i \in 1..Len(<<r>>) : <<r>>[i] = r
    OBVIOUS
  <2> QED
    BY <1>3, <1>4, <2>2, <2>3
<1>10. SafeOps((<<w>> \o middle) \o <<r>>)
  BY <1>7, <1>8, <1>9, OpsJoined
<1> QED
  BY <1>1, <1>10

-----------------------------------------------------------------------------
(* So are the calls of the core.                                           *)

LEMMA EachOnce ==
  ASSUME NEW n \in Nat, NEW ops, ops = [i \in 1..n |-> ops[i]],
         \A i \in 1..n : GoodOp(ops[i]) /\ ~IsSaving(ops[i])
  PROVE  SafeOps(ops)
<1>1. ops \in Seq({ops[i] : i \in 1..n}) /\ Len(ops) = n
  OBVIOUS
<1> QED
  BY <1>1, OpsOneByOne

LEMMA NumberOfNames ==
  ASSUME NEW names
  PROVE  Len(InOrder(names)) \in Nat
BY NamesInOrder

LEMMA OneUnlink == \A path : SafeOps(<<<<"unlink", path>>>>)
BY PlainOp, OneOp

LEMMA OneErase == \A path : SafeOps(<<<<"rmtree", path>>>>)
BY PlainOp, OneOp

LEMMA OneFolder == \A path : SafeOps(<<<<"mkdir", path>>>>)
BY PlainOp, OneOp

LEMMA OneFailure == SafeOps(<<Fails>>)
<1>1. Fails[1] = "fail"
  BY DEF Fails
<1> QED
  BY <1>1, PlainOp, OneOp

LEMMA OneRename ==
  ASSUME NEW from, NEW to, to[1] = "mods"
  PROVE  SafeOps(<<<<"rename", from, to>>>>)
BY RenameToMods, OneOp

LEMMA UnderMods ==
  ASSUME NEW folder
  PROVE  /\ ModPath(folder)[1] = "mods" /\ IniOf(folder)[1] = "mods"
         /\ \A name : (ModPath(folder) \o <<name>>)[1] = "mods"
         /\ \A name, inner : ((ModPath(folder) \o <<name>>) \o <<inner>>)[1] = "mods"
BY DEF ModPath, IniOf

LEMMA LoadedIsAList ==
  ASSUME NEW c, CardIsWhole(c), NEW name, HasProfile(c, name)
  PROVE  IsModList(LoadProfile(c, name))
<1>1. ProfileFile(name) \in DOMAIN c.texts /\ IsProfile(ProfileFile(name))
  BY DEF HasProfile, IsProfile, ProfileFile
<1> QED
  BY <1>1 DEF CardIsWhole, IsWhole, LoadProfile

LEMMA ActivatingIsSafe ==
  ASSUME NEW c, CardIsWhole(c), NEW name
  PROVE  SafeOps(ActivateProfile(c, name))
<1> DEFINE before == IF ConfigFile \in DOMAIN c.texts THEN c.texts[ConfigFile] ELSE <<>>
<1>1. IsSetOnce(before, "profile")
  BY NothingSet DEF CardIsWhole
<1>2. IsSetOnce(SetValue(before, "profile", name), "profile")
  BY <1>1, SettingSets
<1>3. ActivateProfile(c, name) = <<Writes(ConfigFile, SetValue(before, "profile", name))>>
  BY DEF ActivateProfile, SetConfig
<1> QED
  BY <1>2, <1>3, WriteElsewhere

LEMMA DeletingIsSafe ==
  ASSUME NEW c, NEW name
  PROVE  SafeOps(DeleteProfile(c, name))
BY OneUnlink DEF DeleteProfile

LEMMA RenamingIsSafe ==
  ASSUME NEW c, CardIsWhole(c), NEW from, NEW to
  PROVE  SafeOps(RenameProfile(c, from, to))
<1>1. CASE ~HasProfile(c, from) \/ (from # to /\ HasProfile(c, to))
  BY <1>1, OneFailure DEF RenameProfile
<1>2. CASE ~(~HasProfile(c, from) \/ (from # to /\ HasProfile(c, to)))
  <2> DEFINE saved == SaveProfile(c, to, LoadProfile(c, from))
             deleted == IF from # to THEN DeleteProfile(c, from) ELSE <<>>
             activated == IF Active(c) = from THEN ActivateProfile(c, to) ELSE <<>>
  <2>1. RenameProfile(c, from, to) = (saved \o deleted) \o activated
    BY <1>2 DEF RenameProfile
  <2>2. SafeOps(saved)
    BY <1>2, LoadedIsAList, SavingIsSafe
  <2>3. SafeOps(deleted) /\ SafeOps(activated)
    BY NoOps, DeletingIsSafe, ActivatingIsSafe
  <2> HIDE DEF saved, deleted, activated
  <2> QED
    BY <2>1, <2>2, <2>3, SafeJoined
<1> QED
  BY <1>1, <1>2

LEMMA SettingPluginsIsSafe ==
  ASSUME NEW c, NEW folder, NEW loaded
  PROVE  SafeOps(SetPlugins(c, folder, loaded))
BY UnderMods, WriteElsewhere DEF SetPlugins

LEMMA MigratingIsSafe ==
  ASSUME NEW c, NEW package
  PROVE  SafeOps(Migrate(c, package))
<1> DEFINE target == ModPath(FolderOf[package])
           mkdir == <<"mkdir", target>>
           move == <<"rename", ModsDir \o <<package>>, target \o <<package>>>>
           made == <<mkdir>>
           moved == <<move>>
           ini == IF IniOf(package) \in DOMAIN c.texts THEN <<<<"rename", IniOf(package), target \o <<"mod.ini">>>>>> ELSE <<>>
<1>1. Migrate(c, package) = (made \o moved) \o ini
  <2>1. Migrate(c, package) = <<mkdir, move>> \o ini
    BY DEF Migrate
  <2> HIDE DEF mkdir, move, ini
  <2> QED
    BY <2>1, Short
<1>2. SafeOps(made)
  BY OneFolder
<1>3. SafeOps(moved)
  BY UnderMods, OneRename
<1>4. SafeOps(ini)
  BY NoOps, UnderMods, OneRename
<1> HIDE DEF made, moved, ini
<1> QED
  BY <1>1, <1>2, <1>3, <1>4, SafeJoined

LEMMA LeavingIsSafe ==
  ASSUME NEW c, CardIsWhole(c), NEW folder, NEW name, HasProfile(c, name)
  PROVE  SafeOps(Leaves(c, folder, name))
<1>1. IsModList(Without(LoadProfile(c, name), {folder}))
  BY LoadedIsAList, OfAndWithout
<1> QED
  BY <1>1, NoOps, SavingIsSafe DEF Leaves

LEMMA UninstallingIsSafe ==
  ASSUME NEW c, CardIsWhole(c), NEW folder
  PROVE  SafeOps(Uninstall(c, folder))
<1> DEFINE names == InOrder(Profiles(c))
           erased == IF IsDir(c.tree, ModPath(folder)) THEN <<<<"rmtree", ModPath(folder)>>>> ELSE <<>>
           each == [i \in 1..Len(names) |-> Leaves(c, folder, names[i])]
<1>1. Uninstall(c, folder) = erased \o FlattenSeq(each)
  BY DEF Uninstall
<1>2. SafeOps(erased)
  BY NoOps, OneErase
<1>3. Len(names) \in Nat /\ \A i \in 1..Len(names) : HasProfile(c, names[i])
  <2>1. \A i \in 1..Len(names) : names[i] \in Profiles(c)
    BY NamesInOrder
  <2>2. \A name \in Profiles(c) : HasProfile(c, name)
    BY DEF Profiles, HasProfile, IsProfile
  <2> HIDE DEF names
  <2>3. Len(names) \in Nat
    BY NumberOfNames DEF names
  <2> QED
    BY <2>1, <2>2, <2>3
<1> HIDE DEF names, erased
<1>4. Len(each) = Len(names) /\ \A i \in 1..Len(names) : SafeOps(each[i])
  BY <1>3, LeavingIsSafe
<1> HIDE DEF each
<1>5. SafeOps(FlattenSeq(each))
  <2>1. CASE Len(names) = 0
    <3>1. each = <<>>
      BY <2>1 DEF each
    <3>2. FlattenSeq(<<>>) = <<>>
      BY DEF FlattenSeq
    <3> QED
      BY <3>1, <3>2, NoOps
  <2>2. CASE Len(names) # 0
    <3>1. PICK f : /\ FlattenSeq(each) = f[Len(each)] /\ f[1] = each[1]
                   /\ \A n \in 2..Len(each) : f[n] = f[n - 1] \o each[n]
      BY <1>3, <1>4, <2>2, FlattenIs
    <3> DEFINE T == {n \in Nat : n + 1 <= Len(names) => SafeOps(f[n + 1])}
    <3>2. 0 \in T
      BY <1>3, <1>4, <2>2, <3>1
    <3>3. ASSUME NEW n \in Nat, n \in T PROVE n + 1 \in T
      <4> SUFFICES ASSUME (n + 1) + 1 <= Len(names) PROVE SafeOps(f[(n + 1) + 1])
        OBVIOUS
      <4> DEFINE m == n + 1
      <4>1. m + 1 \in 2..Len(names) /\ m + 1 \in 1..Len(names) /\ (m + 1) - 1 = m /\ m <= Len(names)
        BY <1>3
      <4>2. SafeOps(f[m])
        BY <3>3, <4>1
      <4> HIDE DEF m
      <4>3. f[m + 1] = f[m] \o each[m + 1] /\ SafeOps(each[m + 1])
        BY <1>4, <3>1, <4>1
      <4>4. SafeOps(f[m + 1])
        BY <4>2, <4>3, SafeJoined
      <4> QED
        BY <4>4 DEF m
    <3> HIDE DEF T
    <3>4. Len(names) - 1 \in T
      BY <1>3, <2>2, <3>2, <3>3, StepByStep
    <3>5. (Len(names) - 1) + 1 = Len(names)
      BY <1>3
    <3> QED
      BY <1>3, <1>4, <3>1, <3>4, <3>5 DEF T
  <2> QED
    BY <2>1, <2>2
<1> QED
  BY <1>1, <1>2, <1>5, SafeJoined

LEMMA RenamingEachIsSafe ==
  ASSUME NEW names, NEW from, NEW to, \A name : (to \o <<name>>)[1] = "mods"
  PROVE  SafeOps(RenameEach(names, from, to))
<1> DEFINE ordered == InOrder(names)
           ops == [i \in 1..Len(ordered) |-> <<"rename", from \o <<ordered[i]>>, to \o <<ordered[i]>>>>]
<1>1. RenameEach(names, from, to) = IF names = {} THEN <<Fails>> ELSE ops
  BY DEF RenameEach, ForEach
<1>2. SafeOps(ops)
  <2>1. Len(ordered) \in Nat
    BY NumberOfNames
  <2> HIDE DEF ordered
  <2>2. \A i \in 1..Len(ordered) : ops[i] = <<"rename", from \o <<ordered[i]>>, to \o <<ordered[i]>>>>
    OBVIOUS
  <2>3. ops = [i \in 1..Len(ordered) |-> ops[i]]
    OBVIOUS
  <2> HIDE DEF ops
  <2>4. \A i \in 1..Len(ordered) : GoodOp(ops[i]) /\ ~IsSaving(ops[i])
    BY <2>2, RenameToMods
  <2> QED
    BY <2>1, <2>3, <2>4, EachOnce
<1> HIDE DEF ops
<1> QED
  BY <1>1, <1>2, OneFailure

LEMMA MovingContentIsSafe ==
  ASSUME NEW tree, NEW candidate, NEW folder
  PROVE  SafeOps(MoveContent(tree, candidate, ModPath(folder)))
<1> DEFINE target == ModPath(folder)
           exefs == target \o <<"exefs">>
           patches == RenameEach(Files(tree, candidate.path) \cap PatchFiles, candidate.path, exefs)
           each == RenameEach((Dirs(tree, candidate.path) \cap {"romfs", "exefs", "plugins"}) \cup (Files(tree, candidate.path) \cap PluginFiles),
                              candidate.path, target)
<1>1. SafeOps(<<<<"mkdir", exefs>>>> \o patches)
  <2>1. SafeOps(patches)
    BY UnderMods, RenamingEachIsSafe
  <2> HIDE DEF patches, exefs
  <2> QED
    BY <2>1, OneFolder, SafeJoined
<1>2. SafeOps(<<<<"rename", candidate.path, target \o <<Last(candidate.path)>>>>>>)
  BY UnderMods, OneRename
<1>3. SafeOps(<<<<"rename", candidate.path, target \o <<"romfs">>>>>>)
  BY UnderMods, OneRename
<1>4. SafeOps(each)
  BY UnderMods, RenamingEachIsSafe
<1>5. MoveContent(tree, candidate, target)
        = CASE candidate.kind = "patches" -> <<<<"mkdir", exefs>>>> \o patches
            [] candidate.kind = "package" -> <<<<"rename", candidate.path, target \o <<Last(candidate.path)>>>>>>
            [] candidate.kind = "romfs" -> <<<<"rename", candidate.path, target \o <<"romfs">>>>>>
            [] OTHER -> each
  BY DEF MoveContent
<1> HIDE DEF target, exefs, patches, each
<1>6. SafeOps(MoveContent(tree, candidate, target))
  BY <1>1, <1>2, <1>3, <1>4, <1>5
<1> QED
  BY <1>6 DEF target

LEMMA InstallingIsSafe ==
  ASSUME NEW c, CardIsWhole(c), NEW candidate, NEW folder \in Names, NEW info
  PROVE  SafeOps(Install(c, candidate, folder, info))
<1> DEFINE target == ModPath(folder)
           ordered == InOrder(OldContent(c.tree, target))
           active == IF HasProfile(c, Active(c)) THEN LoadProfile(c, Active(c)) ELSE <<>>
           made == IF IsDir(c.tree, target) THEN <<>> ELSE <<<<"mkdir", target>>>>
           erased == [i \in 1..Len(ordered) |-> <<"rmtree", target \o <<ordered[i]>>>>]
           emptied == IF Inspect(c.tree, target) = NotAMod THEN <<>> ELSE erased
           moved == MoveContent(c.tree, candidate, target)
           described == <<Writes(IniOf(folder), InfoToIni(KeptSettings(c, folder, info)))>>
           list == <<Listed(folder, TRUE, <<>>)>> \o active
           listed == IF Active(c) = "" \/ FindEntry(active, folder) # {} THEN <<>> ELSE SaveProfile(c, Active(c), list)
<1>1. Install(c, candidate, folder, info) = (((made \o emptied) \o moved) \o described) \o listed
  BY DEF Install, ForEach
<1>2. SafeOps(made)
  BY NoOps, OneFolder
<1>3. SafeOps(erased)
  <2>1. Len(ordered) \in Nat
    BY NumberOfNames
  <2> HIDE DEF ordered, target
  <2>2. \A i \in 1..Len(ordered) : erased[i] = <<"rmtree", target \o <<ordered[i]>>>>
    OBVIOUS
  <2>3. erased = [i \in 1..Len(ordered) |-> erased[i]]
    OBVIOUS
  <2> HIDE DEF erased
  <2>4. \A i \in 1..Len(ordered) : GoodOp(erased[i]) /\ ~IsSaving(erased[i])
    <3>1. \A x : <<"rmtree", x>>[1] = "rmtree"
      OBVIOUS
    <3>2. \A i \in 1..Len(ordered) : erased[i][1] = "rmtree"
      BY <2>2, <3>1, Zenon
    <3> QED
      BY <3>2, PlainOp
  <2> QED
    BY <2>1, <2>3, <2>4, EachOnce
<1>4. SafeOps(emptied)
  <2> HIDE DEF erased
  <2> QED
    BY <1>3, NoOps
<1>5. SafeOps(moved)
  BY MovingContentIsSafe
<1>6. SafeOps(described)
  BY UnderMods, WriteElsewhere
<1>7. SafeOps(listed)
  <2> SUFFICES ASSUME FindEntry(active, folder) = {} PROVE SafeOps(SaveProfile(c, Active(c), list))
    <3> HIDE DEF list, active
    <3> QED
      BY NoOps
  <2>1. IsModList(active)
    BY LoadedIsAList, EmptyList
  <2> HIDE DEF active
  <2> DEFINE x == Listed(folder, TRUE, <<>>)
             top == <<x>>
  <2>2. x \in Entry /\ x.folder = folder
    BY DEF Listed, Entry
  <2> HIDE DEF x
  <2>3. IsModList(top)
    <3>1. top \in Seq(Entry) /\ Len(top) = 1
      BY <2>2
    <3>2. top \in Seq(Entry)
      BY <3>1
    <3> HIDE DEF top
    <3>3. \A i \in 1..Len(top) : i = 1
      BY <3>1
    <3> QED
      BY <3>2, <3>3 DEF IsModList, OnceEach
  <2>4. \A i \in 1..Len(top), j \in 1..Len(active) : top[i].folder # active[j].folder
    <3>1. \A i \in 1..Len(top) : top[i].folder = folder
      BY <2>2
    <3> HIDE DEF top
    <3>2. \A j \in 1..Len(active) : active[j].folder # folder
      BY DEF FindEntry
    <3> QED
      BY <3>1, <3>2
  <2>5. IsModList(list)
    <3> HIDE DEF top
    <3>1. IsModList(top \o active)
      BY <2>1, <2>3, <2>4, Joined
    <3> QED
      BY <3>1 DEF top, x
  <2> HIDE DEF list
  <2> QED
    BY <2>5, SavingIsSafe
<1> HIDE DEF made, emptied, moved, described, listed
<1>8. SafeOps(made \o emptied)
  BY <1>2, <1>4, SafeJoined
<1>9. SafeOps((made \o emptied) \o moved)
  BY <1>5, <1>8, SafeJoined
<1>10. SafeOps(((made \o emptied) \o moved) \o described)
  BY <1>6, <1>9, SafeJoined
<1>11. SafeOps((((made \o emptied) \o moved) \o described) \o listed)
  BY <1>7, <1>10, SafeJoined
<1> QED
  BY <1>1, <1>11

-----------------------------------------------------------------------------
(* The invariant.                                                          *)

CardInv == CardIsWhole(card)
CallInv ==
  /\ call = [who |-> call.who, step |-> call.step, ops |-> call.ops]
  /\ GoodOps(call.ops)
  /\ \A i \in 1..Len(call.ops) : IsSaving(call.ops[i]) => WrittenBefore(call.ops, i) \/ Ready(card, call.ops[i][2])
TodoInv == GoodSteps(todo)
ScreenInv ==
  /\ screen = [profile |-> screen.profile, exists |-> screen.exists, profiles |-> screen.profiles,
               entries |-> screen.entries, mods |-> screen.mods]
  /\ IsModList(screen.entries) /\ GoodMods(screen.mods)
JobInv ==
  /\ job = [stage |-> job.stage, archive |-> job.archive, candidate |-> job.candidate]
  /\ job.stage = "install" => job.archive \in DOMAIN Archives

ManagerInv == CardInv /\ CallInv /\ TodoInv /\ ScreenInv /\ JobInv

-----------------------------------------------------------------------------
(* What a call to the file system does to the profiles.                    *)

LEMMA DoKeepsProfiles ==
  ASSUME NEW c, CardIsWhole(c), NEW op, GoodOp(op), op[1] # "fail", IsSaving(op) => Ready(c, op[2])
  PROVE  /\ CardIsWhole(Do(op, c))
         /\ \A path : IsTemporary(path) /\ Ready(c, path) => Ready(Do(op, c), path)
         /\ op[1] = "write" /\ IsTemporary(op[2]) => Ready(Do(op, c), op[2])
<1> DEFINE d == Do(op, c)
<1>1. c = [tree |-> c.tree, texts |-> c.texts]
  BY DEF CardIsWhole
<1>2. CASE op[1] = "mkdir"
  <2>1. d = [c EXCEPT !.tree = MadeDir(c.tree, op[2])]
    BY <1>2 DEF Do
  <2>2. d = [tree |-> d.tree, texts |-> d.texts] /\ d.texts = c.texts
    BY <1>1, <2>1
  <2> HIDE DEF d
  <2> QED
    BY <1>2, <2>2 DEF CardIsWhole, Ready, d
<1>3. CASE op[1] \in {"unlink", "rmtree"}
  <2>1. d = [tree |-> d.tree, texts |-> d.texts] /\ d.texts \in {Unlinked(c.texts, op[2]), Less(c.texts, op[2])}
    <3>1. \/ d = [c EXCEPT !.texts = Unlinked(c.texts, op[2])]
          \/ d = [tree |-> Less(c.tree, op[2]), texts |-> Less(c.texts, op[2])]
      BY <1>3 DEF Do
    <3> HIDE DEF d
    <3> QED
      BY <1>1, <3>1
  <2> HIDE DEF d
  <2>2. \A p \in DOMAIN d.texts : p \in DOMAIN c.texts /\ d.texts[p] = c.texts[p]
    BY <2>1 DEF Less, Unlinked
  <2> QED
    BY <1>3, <2>1, <2>2 DEF CardIsWhole, Ready, d
<1>4. CASE op[1] = "rename"
  <2>1. /\ d = [tree |-> d.tree, texts |-> d.texts]
        /\ d.texts = IF op[2] \in DOMAIN c.texts THEN Renamed(c.texts, op[2], op[3]) ELSE c.texts
    <3>1. d = IF op[2] \in DOMAIN c.texts THEN [c EXCEPT !.texts = Renamed(c.texts, op[2], op[3])]
              ELSE [c EXCEPT !.tree = Moved(c.tree, op[2], op[3])]
      BY <1>4 DEF Do
    <3> HIDE DEF d
    <3> QED
      BY <1>1, <3>1
  <2> HIDE DEF d
  <2>2. CASE op[2] \notin DOMAIN c.texts
    BY <1>4, <2>1, <2>2 DEF CardIsWhole, Ready, d
  <2>3. CASE op[2] \in DOMAIN c.texts
    <3>1. /\ \A p \in DOMAIN d.texts : p # op[3] => p \in DOMAIN c.texts /\ d.texts[p] = c.texts[p]
          /\ d.texts[op[3]] = c.texts[op[2]]
      BY <2>1, <2>3 DEF Renamed, With, Unlinked
    <3>2. ~IsTemporary(op[3]) /\ op[3] # ConfigFile
      BY <1>4 DEF GoodOp
    <3>3. ASSUME NEW p \in DOMAIN d.texts, IsProfile(p) PROVE IsWhole(d.texts[p])
      <4>1. CASE p # op[3]
        BY <3>1, <3>3, <4>1 DEF CardIsWhole
      <4>2. CASE p = op[3]
        BY <1>4, <2>3, <3>1, <3>3, <4>2 DEF IsSaving, Ready
      <4> QED
        BY <4>1, <4>2
    <3>4. ASSUME NEW path, IsTemporary(path), Ready(c, path) PROVE Ready(d, path)
      <4>1. path # op[3]
        BY <3>2, <3>4
      <4> QED
        BY <3>1, <3>4, <4>1 DEF Ready
    <3>5. ConfigFile \in DOMAIN d.texts => IsSetOnce(d.texts[ConfigFile], "profile")
      BY <3>1, <3>2 DEF CardIsWhole
    <3> QED
      BY <1>4, <2>1, <3>3, <3>4, <3>5 DEF CardIsWhole, d
  <2> QED
    BY <2>2, <2>3
<1>5. CASE op[1] = "write"
  <2>1. d = [c EXCEPT !.texts = With(c.texts, op[2], op[3])]
    BY <1>5 DEF Do
  <2>2. d = [tree |-> d.tree, texts |-> d.texts] /\ d.texts = With(c.texts, op[2], op[3])
    BY <1>1, <2>1
  <2> HIDE DEF d
  <2>3. /\ DOMAIN d.texts = DOMAIN c.texts \cup {op[2]} /\ d.texts[op[2]] = op[3]
        /\ \A p \in DOMAIN c.texts : p # op[2] => d.texts[p] = c.texts[p]
    BY <2>2 DEF With
  <2>4. /\ ~IsProfile(op[2]) /\ (IsTemporary(op[2]) => IsWhole(op[3]))
        /\ op[2] = ConfigFile => IsSetOnce(op[3], "profile")
    BY <1>5 DEF GoodOp
  <2>5. \A p \in DOMAIN d.texts : IsProfile(p) => IsWhole(d.texts[p])
    BY <2>3, <2>4 DEF CardIsWhole
  <2>6. \A path : IsTemporary(path) /\ Ready(c, path) => Ready(d, path)
    BY <2>3, <2>4 DEF Ready
  <2>7. IsTemporary(op[2]) => Ready(d, op[2])
    BY <2>3, <2>4 DEF Ready
  <2>8. ConfigFile \in DOMAIN d.texts => IsSetOnce(d.texts[ConfigFile], "profile")
    BY <2>3, <2>4 DEF CardIsWhole
  <2> QED
    BY <2>2, <2>5, <2>6, <2>7, <2>8 DEF CardIsWhole, d
<1> QED
  BY <1>2, <1>3, <1>4, <1>5 DEF GoodOp, OpKinds

LEMMA PartsKeepProfiles ==
  ASSUME NEW c, CardIsWhole(c), NEW op, GoodOp(op), NEW d \in Parts(op, c)
  PROVE  CardIsWhole(d)
<1>1. c = [tree |-> c.tree, texts |-> c.texts]
  BY DEF CardIsWhole
<1>2. CASE op[1] = "write"
  <2>1. PICK n \in {0, Len(op[3]) - 1} : d = [c EXCEPT !.texts = With(c.texts, op[2], SubSeq(op[3], 1, n))]
    BY <1>2 DEF Parts
  <2>2. d = [tree |-> d.tree, texts |-> d.texts] /\ d.texts = With(c.texts, op[2], SubSeq(op[3], 1, n))
    BY <1>1, <2>1
  <2>3. /\ DOMAIN d.texts = DOMAIN c.texts \cup {op[2]} /\ d.texts[op[2]] = SubSeq(op[3], 1, n)
        /\ \A p \in DOMAIN c.texts : p # op[2] => d.texts[p] = c.texts[p]
    BY <2>2 DEF With
  <2>4. ~IsProfile(op[2]) /\ (op[2] = ConfigFile => IsSetOnce(SubSeq(op[3], 1, n), "profile"))
    BY <1>2, CutIsSetOnce DEF GoodOp
  <2> QED
    BY <2>2, <2>3, <2>4 DEF CardIsWhole
<1>3. CASE op[1] = "rmtree"
  <2>1. PICK t : d = [c EXCEPT !.tree = t]
    BY <1>3 DEF Parts
  <2>2. d = [tree |-> d.tree, texts |-> d.texts] /\ d.texts = c.texts
    BY <1>1, <2>1
  <2> QED
    BY <2>2 DEF CardIsWhole
<1>4. CASE op[1] \notin {"write", "rmtree"}
  BY <1>4 DEF Parts
<1> QED
  BY <1>2, <1>3, <1>4

LEMMA CallsAreSafe ==
  ASSUME CardInv, NEW step,
         \/ GoodStep(step) /\ step[1] \notin {"migrate", "reload", "read", "normalize", "complete"}
         \/ step[1] = "clean"
         \/ step[1] = "install" /\ job.archive \in DOMAIN Archives
  PROVE  SafeOps(Calls(step))
<1>1. CardIsWhole(card)
  BY DEF CardInv
<1>2. CASE step[1] \in {"save", "add"}
  BY <1>2, SavingIsSafe DEF Calls, GoodStep
<1>3. CASE step[1] = "activate"
  BY <1>1, <1>3, ActivatingIsSafe DEF Calls
<1>4. CASE step[1] = "delete"
  BY <1>4, DeletingIsSafe DEF Calls
<1>5. CASE step[1] = "rename"
  BY <1>1, <1>5, RenamingIsSafe DEF Calls
<1>6. CASE step[1] = "uninstall"
  BY <1>1, <1>6, UninstallingIsSafe DEF Calls
<1>7. CASE step[1] = "plugins"
  BY <1>7, SettingPluginsIsSafe DEF Calls
<1>8. CASE step[1] = "package"
  BY <1>8, MigratingIsSafe DEF Calls
<1>9. CASE step[1] = "install"
  <2>1. Archives[job.archive].folder \in Names
    BY <1>9, CardsAssumption DEF GoodStep, StepKinds
  <2>2. Calls(step) = Install(card, job.candidate, Archives[job.archive].folder, Archives[job.archive].info)
    BY <1>9 DEF Calls
  <2> QED
    BY <1>1, <2>1, <2>2, InstallingIsSafe
<1>10. CASE step[1] = "clean"
  BY <1>10, OneErase DEF Calls
<1> QED
  BY <1>2, <1>3, <1>4, <1>5, <1>6, <1>7, <1>8, <1>9, <1>10 DEF GoodStep, StepKinds

-----------------------------------------------------------------------------
(* Lists of things to do.                                                  *)

LEMMA NothingToDo == GoodSteps(<<>>)
BY DEF GoodSteps, IsASequence

LEMMA StepsOneByOne ==
  ASSUME NEW S, NEW steps \in Seq(S), \A i \in 1..Len(steps) : GoodStep(steps[i])
  PROVE  GoodSteps(steps)
BY SequenceOf DEF GoodSteps

LEMMA OneStep ==
  ASSUME NEW step, GoodStep(step)
  PROVE  GoodSteps(<<step>>)
<1>1. <<step>> \in Seq({step}) /\ \A i \in 1..Len(<<step>>) : <<step>>[i] = step
  OBVIOUS
<1> QED
  BY <1>1, StepsOneByOne

LEMMA StepsJoined ==
  ASSUME NEW a, NEW b, GoodSteps(a), GoodSteps(b)
  PROVE  GoodSteps(a \o b)
<1> DEFINE S == ToSet(a) \cup ToSet(b)
<1>1. a \in Seq(S) /\ b \in Seq(S)
  BY DEF GoodSteps, IsASequence
<1>2. /\ a \o b \in Seq(S)
      /\ \A i \in 1..Len(a \o b) : \/ \E j \in 1..Len(a) : (a \o b)[i] = a[j]
                                   \/ \E j \in 1..Len(b) : (a \o b)[i] = b[j]
  <2> HIDE DEF S
  <2> QED
    BY <1>1
<1>3. \A i \in 1..Len(a \o b) : GoodStep((a \o b)[i])
  BY <1>2 DEF GoodSteps
<1> QED
  BY <1>2, <1>3, StepsOneByOne

LEMMA StepsAfter ==
  ASSUME NEW steps, GoodSteps(steps), steps # <<>>
  PROVE  GoodStep(Head(steps)) /\ GoodSteps(Tail(steps))
<1>1. steps \in Seq(ToSet(steps)) /\ \A i \in 1..Len(steps) : GoodStep(steps[i])
  BY DEF GoodSteps, IsASequence
<1>2. Tail(steps) \in Seq(ToSet(steps)) /\ \A i \in 1..Len(Tail(steps)) : Tail(steps)[i] = steps[i + 1] /\ i + 1 \in 1..Len(steps)
  BY <1>1
<1>3. 1 \in 1..Len(steps) /\ Head(steps) = steps[1]
  BY <1>1
<1>4. \A i \in 1..Len(Tail(steps)) : GoodStep(Tail(steps)[i])
  BY <1>1, <1>2
<1> QED
  BY <1>1, <1>2, <1>3, <1>4, StepsOneByOne

LEMMA StepsFrom ==
  ASSUME NEW steps, GoodSteps(steps), NEW m \in 1..Len(steps)
  PROVE  GoodSteps(SubSeq(steps, m, Len(steps)))
<1> DEFINE rest == SubSeq(steps, m, Len(steps))
<1>1. steps \in Seq(ToSet(steps)) /\ \A i \in 1..Len(steps) : GoodStep(steps[i])
  BY DEF GoodSteps, IsASequence
<1>2. rest \in Seq(ToSet(steps)) /\ \A i \in 1..Len(rest) : i + m - 1 \in 1..Len(steps) /\ rest[i] = steps[i + m - 1]
  BY <1>1
<1> HIDE DEF rest
<1>3. GoodSteps(rest)
  BY <1>1, <1>2, StepsOneByOne
<1> QED
  BY <1>3 DEF rest

LEMMA PlainStep ==
  ASSUME NEW step, step[1] \in StepKinds \ {"save", "add"}
  PROVE  GoodStep(step)
BY DEF GoodStep

LEMMA SavingStep ==
  ASSUME NEW step, step[1] \in {"save", "add"}, IsModList(step[3])
  PROVE  GoodStep(step)
BY DEF GoodStep, StepKinds

LEMMA ReloadIsGood == GoodSteps(Reload) /\ \A c : GoodSteps(Start(c))
<1>1. GoodStep(<<"migrate">>) /\ GoodStep(<<"reload">>) /\ GoodStep(<<"normalize">>)
  BY PlainStep DEF StepKinds
<1>2. <<<<"reload">>, <<"normalize">>>> = <<<<"reload">>>> \o <<<<"normalize">>>>
  BY Short
<1>3. GoodSteps(Reload)
  BY <1>1, <1>2, OneStep, StepsJoined DEF Reload
<1>4. <<<<"migrate">>, <<"reload">>, <<"normalize">>>> = <<<<"migrate">>, <<"reload">>>> \o <<<<"normalize">>>>
  BY Short
<1>5. <<<<"migrate">>, <<"reload">>>> = <<<<"migrate">>>> \o <<<<"reload">>>>
  BY Short
<1>6. \A c : GoodSteps(Start(c))
  BY <1>1, <1>4, <1>5, OneStep, StepsJoined DEF Start
<1> QED
  BY <1>3, <1>6

LEMMA ThenReload ==
  ASSUME NEW step, GoodStep(step)
  PROVE  GoodSteps(<<step>> \o Reload)
BY OneStep, ReloadIsGood, StepsJoined

LEMMA TwoSteps ==
  ASSUME NEW a, NEW b, GoodStep(a), GoodStep(b)
  PROVE  GoodSteps(<<a, b>>)
<1>1. <<a, b>> = <<a>> \o <<b>>
  BY Short
<1>2. GoodSteps(<<a>>) /\ GoodSteps(<<b>>)
  BY OneStep
<1> QED
  BY <1>1, <1>2, StepsJoined

LEMMA ThreeSteps ==
  ASSUME NEW a, NEW b, NEW c, GoodStep(a), GoodStep(b), GoodStep(c)
  PROVE  GoodSteps(<<a, b, c>>)
<1>1. <<a, b, c>> = <<a, b>> \o <<c>>
  BY Short
<1>2. GoodSteps(<<a, b>>) /\ GoodSteps(<<c>>)
  BY OneStep, TwoSteps
<1> QED
  BY <1>1, <1>2, StepsJoined

LEMMA NormalizingIsGood ==
  ASSUME NEW s, GoodMods(s.mods), IsModList(s.entries)
  PROVE  GoodSteps(Normalize(s)) /\ GoodSteps(Complete(s))
<1> DEFINE name == IF s.profile = "" THEN DefaultProfile ELSE s.profile
           all == <<"add", name, ByModIni(s.mods)>>
           new == <<"add", name, Added(s) \o s.entries>>
           activate == <<"activate", name>>
           first == <<"activate", s.profiles[1]>>
           read == <<"read">>
           complete == <<"complete">>
<1>1. GoodStep(all) /\ GoodStep(new)
  <2>1. IsModList(all[3]) /\ all[1] = "add"
    BY ByModIniIsAList
  <2>2. IsModList(new[3]) /\ new[1] = "add"
    BY AddedIsAList
  <2> HIDE DEF all, new
  <2> QED
    BY <2>1, <2>2, SavingStep
<1>2. GoodStep(activate) /\ GoodStep(first) /\ GoodStep(read) /\ GoodStep(complete)
  BY PlainStep DEF StepKinds
<1>3. Complete(s) = IF s.profile = "" \/ ~s.exists THEN <<all, activate, read>>
                    ELSE IF Added(s) # <<>> THEN <<new, read>> ELSE <<>>
  BY DEF Complete
<1>4. Normalize(s) = IF s.profile = "" /\ s.profiles # <<>> THEN <<first, read, complete>> ELSE Complete(s)
  BY DEF Normalize
<1> HIDE DEF all, new, activate, first, read, complete
<1>5. GoodSteps(<<all, activate, read>>) /\ GoodSteps(<<new, read>>) /\ GoodSteps(<<first, read, complete>>)
  BY <1>1, <1>2, TwoSteps, ThreeSteps
<1>6. GoodSteps(Complete(s))
  BY <1>3, <1>5, NothingToDo
<1> QED
  BY <1>4, <1>5, <1>6

-----------------------------------------------------------------------------
(* The invariant holds at first and is kept by every step.                 *)

LEMMA StateIsGood ==
  ASSUME NEW c, CardIsWhole(c), NEW s, s = StateOf(c)
  PROVE  /\ s = [profile |-> s.profile, exists |-> s.exists, profiles |-> s.profiles, entries |-> s.entries, mods |-> s.mods]
         /\ IsModList(s.entries) /\ GoodMods(s.mods)
<1> DEFINE name == Active(c)
           there == name # "" /\ HasProfile(c, name)
           list == IF there THEN LoadProfile(c, name) ELSE <<>>
<1>1. s = [profile |-> name, exists |-> there, profiles |-> InOrder(Profiles(c)), entries |-> list, mods |-> Scan(c)]
  BY DEF StateOf
<1>2. IsModList(list)
  BY LoadedIsAList, EmptyList
<1>3. GoodMods(Scan(c))
  BY ScanIsGood
<1> HIDE DEF name, there, list
<1> QED
  BY <1>1, <1>2, <1>3

LEMMA NoCallIsGood ==
  ASSUME NEW c, c = NoCall
  PROVE  c = [who |-> c.who, step |-> c.step, ops |-> c.ops] /\ GoodOps(c.ops) /\ Len(c.ops) = 0
<1>1. c.ops = <<>> /\ c = [who |-> c.who, step |-> c.step, ops |-> c.ops]
  BY DEF NoCall
<1> QED
  BY <1>1, NoOps DEF SafeOps

LEMMA InitIsGood == Init => ManagerInv
<1> SUFFICES ASSUME Init PROVE ManagerInv
  OBVIOUS
<1>1. CardInv
  BY CardsAssumption DEF Init, CardInv, CardIsWhole
<1>2. CallInv
  BY NoCallIsGood DEF Init, CallInv
<1>3. TodoInv
  BY ReloadIsGood DEF Init, TodoInv
<1>4. ScreenInv
  BY <1>1, StateIsGood DEF Init, ScreenInv, CardInv
<1>5. JobInv
  BY DEF Init, JobInv, NoJob
<1> QED
  BY <1>1, <1>2, <1>3, <1>4, <1>5 DEF ManagerInv

\* What a step leaves alone stays good.
LEMMA Unchanged ==
  ASSUME ManagerInv
  PROVE  /\ UNCHANGED card => CardInv'
         /\ UNCHANGED <<card, call>> => CallInv'
         /\ UNCHANGED todo => TodoInv'
         /\ UNCHANGED screen => ScreenInv'
         /\ UNCHANGED job => JobInv'
BY DEF ManagerInv, CardInv, CallInv, TodoInv, ScreenInv, JobInv, Ready

LEMMA EndsKeeps ==
  ASSUME ManagerInv, NEW left, GoodSteps(left), Ends(left)
  PROVE  CallInv' /\ TodoInv' /\ JobInv'
<1>1. CallInv'
  BY NoCallIsGood DEF Ends, CallInv
<1>2. TodoInv'
  BY DEF Ends, ManagerInv, TodoInv
<1>3. JobInv'
  <2> DEFINE stage == IF call.who = "worker" THEN AfterJob ELSE job.stage
  <2>1. job = [stage |-> job.stage, archive |-> job.archive, candidate |-> job.candidate]
    BY DEF ManagerInv, JobInv
  <2>2. job' = [job EXCEPT !.stage = stage]
    BY DEF Ends
  <2>3. stage = "install" => job.stage = "install"
    BY DEF AfterJob
  <2> HIDE DEF stage
  <2>4. job' = [stage |-> stage, archive |-> job.archive, candidate |-> job.candidate]
    BY <2>1, <2>2
  <2> QED
    BY <2>3, <2>4 DEF ManagerInv, JobInv
<1> QED
  BY <1>1, <1>2, <1>3

LEMMA AfterFailureIsGood ==
  ASSUME TodoInv, NEW step
  PROVE  GoodSteps(AfterFailure(step))
<1> DEFINE reload == {i \in 1..Len(todo) : todo[i][1] = "reload"}
           next == CHOOSE i \in reload : TRUE
<1>1. AfterFailure(step) \in {<<>>, todo} \/ (reload # {} /\ AfterFailure(step) = SubSeq(todo, next, Len(todo)))
  BY DEF AfterFailure
<1>2. reload # {} => next \in 1..Len(todo)
  OBVIOUS
<1> HIDE DEF next, reload
<1> QED
  BY <1>1, <1>2, NothingToDo, StepsFrom DEF TodoInv

LEMMA WorksKeeps == ManagerInv /\ Works => ManagerInv'
<1> SUFFICES ASSUME ManagerInv, Works PROVE ManagerInv'
  OBVIOUS
<1> DEFINE op == Head(call.ops)
           ops == call.ops
<1>1. /\ CardIsWhole(card) /\ GoodOps(ops) /\ TodoInv
      /\ \A i \in 1..Len(ops) : IsSaving(ops[i]) => WrittenBefore(ops, i) \/ Ready(card, ops[i][2])
      /\ call = [who |-> call.who, step |-> call.step, ops |-> call.ops]
  BY DEF ManagerInv, CardInv, CallInv
<1>2. /\ ops # <<>> /\ CanDo(op, card) /\ card' = Do(op, card) /\ UNCHANGED screen
      /\ \/ Ends(todo)
         \/ call' = [call EXCEPT !.ops = Tail(call.ops)] /\ UNCHANGED <<todo, held, job>>
  BY DEF Works
<1> HIDE DEF ops
<1>3. ops \in Seq(ToSet(ops)) /\ \A i \in 1..Len(ops) : GoodOp(ops[i])
  BY <1>1 DEF GoodOps, IsASequence
<1>4. op = ops[1] /\ 1 \in 1..Len(ops)
  BY <1>2, <1>3 DEF ops
<1> HIDE DEF op
<1>5. GoodOp(op) /\ op[1] # "fail" /\ (IsSaving(op) => Ready(card, op[2]))
  <2>1. ~WrittenBefore(ops, 1)
    BY DEF WrittenBefore
  <2>2. op[1] # "fail"
    BY <1>2 DEF CanDo
  <2> QED
    BY <1>1, <1>3, <1>4, <2>1, <2>2
<1>6. /\ CardIsWhole(card')
      /\ \A path : IsTemporary(path) /\ Ready(card, path) => Ready(card', path)
      /\ op[1] = "write" /\ IsTemporary(op[2]) => Ready(card', op[2])
  BY <1>1, <1>2, <1>5, DoKeepsProfiles
<1>7. CASE Ends(todo)
  <2>1. CallInv' /\ TodoInv' /\ JobInv'
    BY <1>1, <1>7, EndsKeeps DEF TodoInv
  <2> QED
    BY <1>2, <1>6, <2>1, Unchanged DEF ManagerInv, CardInv
<1>8. CASE call' = [call EXCEPT !.ops = Tail(call.ops)] /\ UNCHANGED <<todo, held, job>>
  <2> DEFINE rest == Tail(ops)
  <2>1. call' = [who |-> call.who, step |-> call.step, ops |-> rest]
    BY <1>1, <1>8 DEF ops
  <2>2. call' = [who |-> call'.who, step |-> call'.step, ops |-> call'.ops] /\ call'.ops = rest
    BY <2>1
  <2>3. rest \in Seq(ToSet(ops)) /\ \A i \in 1..Len(rest) : i + 1 \in 1..Len(ops) /\ rest[i] = ops[i + 1]
    <3>1. ops # <<>> /\ Len(ops) \in Nat
      BY <1>2, <1>3
    <3>2. /\ rest \in Seq(ToSet(ops)) /\ Len(rest) = Len(ops) - 1
          /\ \A i \in 1..Len(rest) : rest[i] = ops[i + 1]
      BY <1>3, <3>1, HeadTailProperties
    <3> HIDE DEF rest
    <3> QED
      BY <3>1, <3>2
  <2> HIDE DEF rest
  <2>4. GoodOps(rest)
    BY <1>3, <2>3, SequenceOf DEF GoodOps
  <2>5. ASSUME NEW i \in 1..Len(rest), IsSaving(rest[i]) PROVE WrittenBefore(rest, i) \/ Ready(card', rest[i][2])
    <3>1. i \in Nat /\ i + 1 \in 1..Len(ops) /\ rest[i] = ops[i + 1] /\ IsTemporary(rest[i][2])
      <4>1. i \in Nat /\ i + 1 \in 1..Len(ops) /\ rest[i] = ops[i + 1]
        BY <2>3
      <4>2. rest[i][2] = Temporary(rest[i][3][2])
        BY <1>3, <2>5, <4>1 DEF GoodOp, IsSaving
      <4>3. IsTemporary(rest[i][2])
        BY <4>2 DEF IsTemporary, Temporary
      <4> QED
        BY <4>1, <4>3
    <3>2. CASE Ready(card, rest[i][2])
      BY <1>6, <3>1, <3>2
    <3>3. CASE WrittenBefore(ops, i + 1)
      <4>1. PICK j \in 1..((i + 1) - 1) : ops[j][1] = "write" /\ ops[j][2] = ops[i + 1][2]
        BY <3>3 DEF WrittenBefore
      <4>2. CASE j = 1
        BY <1>4, <1>6, <3>1, <4>1, <4>2
      <4>3. CASE j # 1
        <5>1. j - 1 \in 1..(i - 1) /\ j - 1 \in 1..Len(rest) /\ (j - 1) + 1 = j
          BY <3>1, <4>3, <2>3
        <5>2. rest[j - 1] = ops[j]
          BY <2>3, <5>1
        <5> QED
          BY <3>1, <4>1, <5>1, <5>2 DEF WrittenBefore
      <4> QED
        BY <4>2, <4>3
    <3> QED
      BY <1>1, <2>5, <3>1, <3>2, <3>3
  <2>6. CallInv'
    BY <2>2, <2>4, <2>5 DEF CallInv
  <2> QED
    BY <1>2, <1>6, <1>8, <2>6, Unchanged DEF ManagerInv, CardInv
<1> QED
  BY <1>2, <1>7, <1>8

LEMMA FailsNowKeeps == ManagerInv /\ FailsNow => ManagerInv'
<1> SUFFICES ASSUME ManagerInv, FailsNow PROVE ManagerInv'
  OBVIOUS
<1> DEFINE op == Head(call.ops)
<1>1. /\ call.ops # <<>> /\ card' \in {card} \cup Parts(op, card) /\ Ends(AfterFailure(call.step)) /\ UNCHANGED screen
  BY DEF FailsNow
<1>2. CardIsWhole(card) /\ GoodOps(call.ops) /\ TodoInv
  BY DEF ManagerInv, CardInv, CallInv
<1>3. GoodOp(op)
  <2>1. call.ops \in Seq(ToSet(call.ops)) /\ \A i \in 1..Len(call.ops) : GoodOp(call.ops[i])
    BY <1>2 DEF GoodOps, IsASequence
  <2>2. 1 \in 1..Len(call.ops) /\ op = call.ops[1]
    BY <1>1, <2>1
  <2> QED
    BY <2>1, <2>2
<1> HIDE DEF op
<1>4. CardIsWhole(card')
  BY <1>1, <1>2, <1>3, PartsKeepProfiles
<1>5. CallInv' /\ TodoInv' /\ JobInv'
  BY <1>1, <1>2, AfterFailureIsGood, EndsKeeps
<1> QED
  BY <1>1, <1>4, <1>5, Unchanged DEF ManagerInv, CardInv

LEMMA ReadsKeeps == ManagerInv /\ Reads => ManagerInv'
<1> SUFFICES ASSUME ManagerInv, Reads PROVE ManagerInv'
  OBVIOUS
<1>1. /\ todo # <<>> /\ screen' = StateOf(card) /\ todo' = Tail(todo) /\ UNCHANGED <<card, call, job>>
  BY DEF Reads
<1>2. CardIsWhole(card) /\ GoodSteps(todo)
  BY DEF ManagerInv, CardInv, TodoInv
<1>3. ScreenInv'
  BY <1>1, <1>2, StateIsGood DEF ScreenInv
<1>4. TodoInv'
  BY <1>1, <1>2, StepsAfter DEF TodoInv
<1> QED
  BY <1>1, <1>3, <1>4, Unchanged DEF ManagerInv

LEMMA NormalizesKeeps == ManagerInv /\ Normalizes => ManagerInv'
<1> SUFFICES ASSUME ManagerInv, Normalizes PROVE ManagerInv'
  OBVIOUS
<1>1. todo' \in {Normalize(screen), Complete(screen)} /\ UNCHANGED <<card, call, screen, job>>
  BY DEF Normalizes
<1>2. GoodMods(screen.mods) /\ IsModList(screen.entries)
  BY DEF ManagerInv, ScreenInv
<1>3. TodoInv'
  BY <1>1, <1>2, NormalizingIsGood DEF TodoInv
<1> QED
  BY <1>1, <1>3, Unchanged DEF ManagerInv

LEMMA MigratesKeeps == ManagerInv /\ Migrates => ManagerInv'
<1> SUFFICES ASSUME ManagerInv, Migrates PROVE ManagerInv'
  OBVIOUS
<1> DEFINE packages == InOrder(Migratable(card))
           each == [i \in 1..Len(packages) |-> <<"package", packages[i]>>]
<1>1. todo # <<>> /\ todo' = each \o Tail(todo) /\ UNCHANGED <<card, call, screen, job>>
  BY DEF Migrates
<1>2. GoodSteps(todo)
  BY DEF ManagerInv, TodoInv
<1>3. GoodSteps(each)
  <2>1. Len(packages) \in Nat
    BY NumberOfNames
  <2> HIDE DEF packages
  <2>2. /\ each \in Seq({each[i] : i \in 1..Len(packages)}) /\ Len(each) = Len(packages)
        /\ \A i \in 1..Len(packages) : each[i] = <<"package", packages[i]>>
    BY <2>1
  <2> HIDE DEF each
  <2>3. \A i \in 1..Len(each) : each[i][1] = "package"
    BY <2>2
  <2>4. \A i \in 1..Len(each) : GoodStep(each[i])
    BY <2>3, PlainStep DEF StepKinds
  <2> QED
    BY <2>2, <2>4, StepsOneByOne
<1> HIDE DEF each
<1>4. TodoInv'
  BY <1>1, <1>2, <1>3, StepsAfter, StepsJoined DEF TodoInv
<1> QED
  BY <1>1, <1>4, Unchanged DEF ManagerInv

\* A call that begins is a safe one.
LEMMA CallBegins ==
  ASSUME NEW c, NEW who, NEW step, NEW ops, SafeOps(ops), c = [who |-> who, step |-> step, ops |-> ops]
  PROVE  /\ c = [who |-> c.who, step |-> c.step, ops |-> c.ops]
         /\ GoodOps(c.ops)
         /\ \A i \in 1..Len(c.ops) : IsSaving(c.ops[i]) => WrittenBefore(c.ops, i)
<1>1. c = [who |-> c.who, step |-> c.step, ops |-> c.ops] /\ c.ops = ops
  OBVIOUS
<1> QED
  BY <1>1 DEF SafeOps

LEMMA CallsCoreKeeps == ManagerInv /\ CallsCore => ManagerInv'
<1> SUFFICES ASSUME ManagerInv, CallsCore PROVE ManagerInv'
  OBVIOUS
<1> DEFINE ops == Calls(Head(todo))
<1>1. /\ todo # <<>> /\ Head(todo)[1] \notin {"reload", "read", "normalize", "complete", "migrate"}
      /\ call' = NoCall \/ call' = [who |-> "interface", step |-> Head(todo), ops |-> ops]
      /\ todo' = Tail(todo) /\ UNCHANGED <<card, screen, job>>
  BY DEF CallsCore
<1>2. GoodSteps(todo) /\ CardInv
  BY DEF ManagerInv, TodoInv
<1>3. GoodStep(Head(todo)) /\ TodoInv'
  BY <1>1, <1>2, StepsAfter DEF TodoInv
<1>4. SafeOps(ops)
  BY <1>1, <1>2, <1>3, CallsAreSafe
<1> HIDE DEF ops
<1>5. CallInv'
  <2>1. CASE call' = NoCall
    BY <2>1, NoCallIsGood DEF CallInv
  <2>2. CASE call' = [who |-> "interface", step |-> Head(todo), ops |-> ops]
    <3>1. /\ call' = [who |-> call'.who, step |-> call'.step, ops |-> call'.ops] /\ GoodOps(call'.ops)
          /\ \A i \in 1..Len(call'.ops) : IsSaving(call'.ops[i]) => WrittenBefore(call'.ops, i)
      BY <1>4, <2>2, CallBegins
    <3> QED
      BY <3>1 DEF CallInv
  <2> QED
    BY <1>1, <2>1, <2>2
<1> QED
  BY <1>1, <1>3, <1>5, Unchanged DEF ManagerInv

LEMMA WorkerCallsKeeps == ManagerInv /\ WorkerCalls => ManagerInv'
<1> SUFFICES ASSUME ManagerInv, WorkerCalls PROVE ManagerInv'
  OBVIOUS
<1> DEFINE step == IF job.stage = "clean" THEN <<"clean">>
                   ELSE <<"install", Inspect(card.tree, ModPath(Archives[job.archive].folder)) = NotAMod>>
           ops == Calls(step)
<1>1. /\ job.stage \in {"install", "clean"} /\ call' = [who |-> "worker", step |-> step, ops |-> ops]
      /\ UNCHANGED <<card, todo, screen, job>>
  BY DEF WorkerCalls
<1>2. CardInv /\ (job.stage = "install" => job.archive \in DOMAIN Archives)
  BY DEF ManagerInv, JobInv
<1>3. step[1] = "clean" \/ (step[1] = "install" /\ job.archive \in DOMAIN Archives)
  BY <1>1, <1>2
<1> HIDE DEF step
<1>4. SafeOps(ops)
  BY <1>2, <1>3, CallsAreSafe
<1> HIDE DEF ops
<1>5. /\ call' = [who |-> call'.who, step |-> call'.step, ops |-> call'.ops] /\ GoodOps(call'.ops)
      /\ \A i \in 1..Len(call'.ops) : IsSaving(call'.ops[i]) => WrittenBefore(call'.ops, i)
  BY <1>1, <1>4, CallBegins
<1>6. CallInv'
  BY <1>5 DEF CallInv
<1> QED
  BY <1>1, <1>6, Unchanged DEF ManagerInv

\* What the user does, apart from the list.
LEMMA ActsKeeps ==
  ASSUME ManagerInv, NEW steps, GoodSteps(steps), Acts(steps), UNCHANGED screen
  PROVE  ManagerInv'
<1>1. todo' = steps /\ UNCHANGED <<card, call, job>>
  BY DEF Acts
<1>2. TodoInv'
  BY <1>1 DEF TodoInv
<1> QED
  BY <1>1, <1>2, Unchanged DEF ManagerInv

LEMMA SavesKeeps ==
  ASSUME ManagerInv, NEW entries, IsModList(entries), Saves(entries)
  PROVE  ManagerInv'
<1> DEFINE step == <<"save", screen.profile, entries>>
<1>1. Acts(<<step>>) /\ screen' = [screen EXCEPT !.entries = entries]
  BY DEF Saves
<1>2. step[1] = "save" /\ step[3] = entries
  OBVIOUS
<1> HIDE DEF step
<1>3. todo' = <<step>> /\ UNCHANGED <<card, call, job>>
  BY <1>1 DEF Acts
<1>4. TodoInv'
  BY <1>2, <1>3, SavingStep, OneStep DEF TodoInv
<1>5. ScreenInv'
  <2>1. screen = [profile |-> screen.profile, exists |-> screen.exists, profiles |-> screen.profiles,
                  entries |-> screen.entries, mods |-> screen.mods] /\ GoodMods(screen.mods)
    BY DEF ManagerInv, ScreenInv
  <2>2. screen' = [profile |-> screen.profile, exists |-> screen.exists, profiles |-> screen.profiles,
                   entries |-> entries, mods |-> screen.mods]
    BY <1>1, <2>1
  <2> QED
    BY <2>1, <2>2 DEF ScreenInv
<1> QED
  BY <1>3, <1>4, <1>5, Unchanged DEF ManagerInv

LEMMA ToggleKeeps ==
  ASSUME ManagerInv, NEW folder, Toggle(folder)
  PROVE  ManagerInv'
<1> DEFINE list == screen.entries
<1>1. PICK n \in FindEntry(list, folder) : Saves([screen.entries EXCEPT ![n].enabled = ~@])
  BY DEF Toggle
<1>2. IsModList(list)
  BY DEF ManagerInv, ScreenInv
<1>3. n \in 1..Len(list) /\ list[n] \in Entry /\ list \in Seq(Entry)
  BY <1>2 DEF FindEntry, IsModList
<1> DEFINE e == [list[n] EXCEPT !.enabled = ~list[n].enabled]
<1>4. e \in Entry /\ e.folder = list[n].folder
  BY <1>3 DEF Entry
<1>5. [screen.entries EXCEPT ![n].enabled = ~@] = [list EXCEPT ![n] = e]
  BY <1>3
<1> HIDE DEF e
<1>6. IsModList([list EXCEPT ![n] = e])
  BY <1>2, <1>3, <1>4, Changed
<1>7. Saves([list EXCEPT ![n] = e])
  BY <1>1, <1>5, Zenon
<1> HIDE DEF list
<1> QED
  BY <1>6, <1>7, SavesKeeps

LEMMA SelectKeeps ==
  ASSUME ManagerInv, NEW folder, NEW option \in OptionNames, Select(folder, option)
  PROVE  ManagerInv'
<1> DEFINE list == screen.entries
<1>1. PICK n \in FindEntry(list, folder) : Saves([screen.entries EXCEPT ![n].options = Selected(option)])
  BY DEF Select
<1>2. IsModList(list)
  BY DEF ManagerInv, ScreenInv
<1>3. n \in 1..Len(list) /\ list[n] \in Entry /\ list \in Seq(Entry)
  BY <1>2 DEF FindEntry, IsModList
<1> DEFINE e == [list[n] EXCEPT !.options = Selected(option)]
<1>4. e \in Entry /\ e.folder = list[n].folder
  BY <1>3 DEF Entry
<1>5. [screen.entries EXCEPT ![n].options = Selected(option)] = [list EXCEPT ![n] = e]
  BY <1>3
<1> HIDE DEF e
<1>6. IsModList([list EXCEPT ![n] = e])
  BY <1>2, <1>3, <1>4, Changed
<1>7. Saves([list EXCEPT ![n] = e])
  BY <1>1, <1>5, Zenon
<1> HIDE DEF list
<1> QED
  BY <1>6, <1>7, SavesKeeps

LEMMA MoveKeeps ==
  ASSUME ManagerInv, NEW folder, NEW position \in Nat, Move(folder, position)
  PROVE  ManagerInv'
<1>1. IsModList(screen.entries)
  BY DEF ManagerInv, ScreenInv
<1>2. InstalledOn(screen, folder) /\ Saves(Moves(screen.entries, folder, position))
  BY DEF Move
<1>3. IsModList(Moves(screen.entries, folder, position))
  BY <1>1, <1>2, MovesIsAList
<1> QED
  BY <1>2, <1>3, SavesKeeps

LEMMA CreateKeeps ==
  ASSUME ManagerInv, NEW name, NEW copy, Create(name, copy)
  PROVE  ManagerInv'
<1> DEFINE mods == [i \in 1..Len(screen.mods) |-> Listed(screen.mods[i].folder, FALSE, <<>>)]
           entries == IF copy THEN screen.entries ELSE mods
           save == <<"save", name, entries>>
           activate == <<"activate", name>>
<1>1. Acts(<<save, activate>> \o Reload) /\ UNCHANGED screen
  BY DEF Create
<1>2. IsModList(screen.entries) /\ GoodMods(screen.mods)
  BY DEF ManagerInv, ScreenInv
<1>3. IsModList(mods)
  <2> DEFINE enabled == [i \in 1..Len(screen.mods) |-> FALSE]
  <2>1. \A i \in 1..Len(screen.mods) : enabled[i] = FALSE
    OBVIOUS
  <2>2. mods = [i \in 1..Len(screen.mods) |-> Listed(screen.mods[i].folder, enabled[i], <<>>)]
    BY <2>1
  <2>3. \A i \in 1..Len(screen.mods) : enabled[i] \in BOOLEAN
    BY <2>1
  <2> HIDE DEF enabled, mods
  <2> QED
    BY <1>2, <2>2, <2>3, ListOfMods
<1> HIDE DEF mods
<1>4. IsModList(entries)
  BY <1>2, <1>3
<1> HIDE DEF entries
<1>5. save[1] = "save" /\ save[3] = entries /\ activate[1] = "activate"
  OBVIOUS
<1> HIDE DEF save, activate
<1>6. GoodStep(save) /\ GoodStep(activate)
  BY <1>4, <1>5, SavingStep, PlainStep DEF StepKinds
<1>7. GoodSteps(<<save, activate>> \o Reload)
  BY <1>6, TwoSteps, ReloadIsGood, StepsJoined
<1> QED
  BY <1>1, <1>7, ActsKeeps

LEMMA ActivateKeeps ==
  ASSUME ManagerInv, NEW name, Activate(name)
  PROVE  ManagerInv'
<1> DEFINE step == <<"activate", name>>
<1>1. Acts(<<step>> \o Reload) /\ UNCHANGED screen
  BY DEF Activate
<1>2. step[1] = "activate"
  OBVIOUS
<1> HIDE DEF step
<1>3. GoodSteps(<<step>> \o Reload)
  BY <1>2, PlainStep, ThenReload DEF StepKinds
<1> QED
  BY <1>1, <1>3, ActsKeeps

LEMMA RenameKeeps ==
  ASSUME ManagerInv, NEW name, NEW to, Rename(name, to)
  PROVE  ManagerInv'
<1> DEFINE step == <<"rename", name, to>>
<1>1. Acts(<<step>> \o Reload) /\ UNCHANGED screen
  BY DEF Rename
<1>2. step[1] = "rename"
  OBVIOUS
<1> HIDE DEF step
<1>3. GoodSteps(<<step>> \o Reload)
  BY <1>2, PlainStep, ThenReload DEF StepKinds
<1> QED
  BY <1>1, <1>3, ActsKeeps

LEMMA DeleteKeeps ==
  ASSUME ManagerInv, NEW name, Delete(name)
  PROVE  ManagerInv'
<1> DEFINE step == <<"delete", name>>
<1>1. Acts(<<step>> \o Reload) /\ UNCHANGED screen
  BY DEF Delete
<1>2. step[1] = "delete"
  OBVIOUS
<1> HIDE DEF step
<1>3. GoodSteps(<<step>> \o Reload)
  BY <1>2, PlainStep, ThenReload DEF StepKinds
<1> QED
  BY <1>1, <1>3, ActsKeeps

LEMMA UninstallModKeeps ==
  ASSUME ManagerInv, NEW folder, UninstallMod(folder)
  PROVE  ManagerInv'
<1> DEFINE step == <<"uninstall", folder>>
<1>1. Acts(<<step>> \o Reload) /\ UNCHANGED screen
  BY DEF UninstallMod
<1>2. step[1] = "uninstall"
  OBVIOUS
<1> HIDE DEF step
<1>3. GoodSteps(<<step>> \o Reload)
  BY <1>2, PlainStep, ThenReload DEF StepKinds
<1> QED
  BY <1>1, <1>3, ActsKeeps

LEMMA LoadPluginsKeeps ==
  ASSUME ManagerInv, NEW folder, LoadPlugins(folder)
  PROVE  ManagerInv'
<1>1. PICK i \in 1..Len(screen.mods) : Acts(<<<<"plugins", folder, ~screen.mods[i].info.plugins>>>> \o Reload)
  BY DEF LoadPlugins
<1> DEFINE step == <<"plugins", folder, ~screen.mods[i].info.plugins>>
<1>2. Acts(<<step>> \o Reload) /\ UNCHANGED screen
  BY <1>1 DEF LoadPlugins
<1>3. step[1] = "plugins"
  OBVIOUS
<1> HIDE DEF step
<1>4. GoodSteps(<<step>> \o Reload)
  BY <1>3, PlainStep, ThenReload DEF StepKinds
<1> QED
  BY <1>2, <1>4, ActsKeeps

\* The card when no call is made and no INI file changes.
LEMMA SameTexts ==
  ASSUME NEW c, CardIsWhole(c), NEW tree, NEW d, d = [c EXCEPT !.tree = tree]
  PROVE  CardIsWhole(d) /\ \A path : Ready(c, path) => Ready(d, path)
<1>1. c = [tree |-> c.tree, texts |-> c.texts]
  BY DEF CardIsWhole
<1>2. d = [tree |-> d.tree, texts |-> d.texts] /\ d.texts = c.texts
  BY <1>1
<1> QED
  BY <1>2 DEF CardIsWhole, Ready

LEMMA DownloadKeeps ==
  ASSUME ManagerInv, NEW name \in DOMAIN Archives, Download(name)
  PROVE  ManagerInv'
<1> DEFINE archive == Archives[name]
           tree == [p \in {DownloadDir \o q : q \in DOMAIN archive.tree} |-> archive.tree[SubSeq(p, 2, Len(p))]]
           under == Over(tree, Less(card.tree, DownloadDir))
<1>1. /\ card' = [card EXCEPT !.tree = under] /\ UNCHANGED <<call, todo, screen>>
      /\ \E candidate \in Candidates(card'.tree, DownloadDir) :
           job' = [stage |-> "install", archive |-> name, candidate |-> candidate]
  BY DEF Download
<1>2. CardIsWhole(card) /\ CallInv
  BY DEF ManagerInv, CardInv
<1> HIDE DEF under
<1>3. CardIsWhole(card') /\ \A path : Ready(card, path) => Ready(card', path)
  BY <1>1, <1>2, SameTexts
<1>4. CallInv'
  BY <1>1, <1>2, <1>3 DEF CallInv
<1>5. JobInv'
  BY <1>1 DEF JobInv
<1> QED
  BY <1>1, <1>3, <1>4, <1>5, Unchanged DEF ManagerInv, CardInv

LEMMA JobDoneKeeps == ManagerInv /\ JobDone => ManagerInv'
<1> SUFFICES ASSUME ManagerInv, JobDone PROVE ManagerInv'
  OBVIOUS
<1>1. job' = NoJob /\ todo' = Reload /\ UNCHANGED <<card, call, screen>>
  BY DEF JobDone
<1>2. TodoInv' /\ JobInv'
  BY <1>1, ReloadIsGood DEF TodoInv, JobInv, NoJob
<1> QED
  BY <1>1, <1>2, Unchanged DEF ManagerInv

LEMMA QuitKeeps == ManagerInv /\ Quit => ManagerInv'
BY Unchanged DEF Quit, ManagerInv

LEMMA OpenKeeps == ManagerInv /\ Open => ManagerInv'
<1> SUFFICES ASSUME ManagerInv, Open PROVE ManagerInv'
  OBVIOUS
<1>1. job' = NoJob /\ todo' = Start(card) /\ UNCHANGED <<card, call, screen>>
  BY DEF Open
<1>2. TodoInv' /\ JobInv'
  BY <1>1, ReloadIsGood DEF TodoInv, JobInv, NoJob
<1> QED
  BY <1>1, <1>2, Unchanged DEF ManagerInv

LEMMA PowerCutKeeps == ManagerInv /\ PowerCut => ManagerInv'
<1> SUFFICES ASSUME ManagerInv, PowerCut PROVE ManagerInv'
  OBVIOUS
<1> DEFINE op == Head(call.ops)
<1>1. /\ call' = NoCall /\ todo' = <<>> /\ job' = NoJob /\ UNCHANGED screen
      /\ card' = card \/ (call.ops # <<>> /\ card' \in Parts(op, card))
  BY DEF PowerCut
<1>2. CardIsWhole(card) /\ GoodOps(call.ops)
  BY DEF ManagerInv, CardInv, CallInv
<1>3. CardIsWhole(card')
  <2>1. CASE card' = card
    BY <1>2, <2>1
  <2>2. CASE call.ops # <<>> /\ card' \in Parts(op, card)
    <3>1. call.ops \in Seq(ToSet(call.ops)) /\ \A i \in 1..Len(call.ops) : GoodOp(call.ops[i])
      BY <1>2 DEF GoodOps, IsASequence
    <3>2. 1 \in 1..Len(call.ops) /\ op = call.ops[1]
      BY <2>2, <3>1
    <3>3. GoodOp(op)
      BY <3>1, <3>2
    <3> HIDE DEF op
    <3> QED
      BY <1>2, <2>2, <3>3, PartsKeepProfiles
  <2> QED
    BY <1>1, <2>1, <2>2
<1>4. CallInv' /\ TodoInv' /\ JobInv'
  <2>1. CallInv'
    BY <1>1, NoCallIsGood DEF CallInv
  <2>2. TodoInv'
    BY <1>1, NothingToDo DEF TodoInv
  <2>3. JobInv'
    BY <1>1 DEF JobInv, NoJob
  <2> QED
    BY <2>1, <2>2, <2>3
<1> QED
  BY <1>1, <1>3, <1>4, Unchanged DEF ManagerInv, CardInv

LEMMA ByHandKeeps == ManagerInv /\ ByHand => ManagerInv'
<1> SUFFICES ASSUME ManagerInv, ByHand PROVE ManagerInv'
  OBVIOUS
<1>1. call = NoCall /\ UNCHANGED <<call, todo, screen, job>>
  BY DEF ByHand, Free
<1>2. CardIsWhole(card)
  BY DEF ManagerInv, CardInv
<1>3. \/ \E tree : card' = [card EXCEPT !.tree = tree]
      \/ \E folder : card' = Do(<<"rmtree", ModPath(folder)>>, card)
      \/ \E name : card' = Do(<<"unlink", ProfileFile(name)>>, card)
  BY DEF ByHand
<1>4. CardIsWhole(card')
  <2>1. CASE \E tree : card' = [card EXCEPT !.tree = tree]
    BY <1>2, <2>1, SameTexts
  <2>2. ASSUME NEW kind \in {"rmtree", "unlink"}, NEW path PROVE CardIsWhole(Do(<<kind, path>>, card))
    <3> DEFINE op == <<kind, path>>
    <3>1. op[1] \in {"mkdir", "unlink", "rmtree", "fail"} /\ op[1] # "fail"
      OBVIOUS
    <3> HIDE DEF op
    <3>2. GoodOp(op) /\ ~IsSaving(op)
      BY <3>1, PlainOp
    <3>3. CardIsWhole(Do(op, card))
      BY <1>2, <3>1, <3>2, DoKeepsProfiles
    <3> QED
      BY <3>3 DEF op
  <2> QED
    BY <1>3, <2>1, <2>2
<1>5. CallInv'
  BY <1>1, NoCallIsGood DEF CallInv
<1> QED
  BY <1>1, <1>4, <1>5, Unchanged DEF ManagerInv, CardInv

LEMMA NextKeeps == ManagerInv /\ [Next]_vars => ManagerInv'
<1> SUFFICES ASSUME ManagerInv, [Next]_vars PROVE ManagerInv'
  OBVIOUS
<1>1. CASE UNCHANGED vars
  BY <1>1, Unchanged DEF vars, ManagerInv
<1>2. CASE Works
  BY <1>2, WorksKeeps
<1>3. CASE FailsNow
  BY <1>3, FailsNowKeeps
<1>4. CASE Reads
  BY <1>4, ReadsKeeps
<1>5. CASE Normalizes
  BY <1>5, NormalizesKeeps
<1>6. CASE Migrates
  BY <1>6, MigratesKeeps
<1>7. CASE CallsCore
  BY <1>7, CallsCoreKeeps
<1>8. ASSUME NEW folder, Toggle(folder) PROVE ManagerInv'
  BY <1>8, ToggleKeeps
<1>9. ASSUME NEW folder, UninstallMod(folder) PROVE ManagerInv'
  BY <1>9, UninstallModKeeps
<1>10. ASSUME NEW folder, LoadPlugins(folder) PROVE ManagerInv'
  BY <1>10, LoadPluginsKeeps
<1>11. ASSUME NEW folder, NEW option \in OptionNames, Select(folder, option) PROVE ManagerInv'
  BY <1>11, SelectKeeps
<1>12. ASSUME NEW folder, NEW position \in 0..(Len(screen.mods) - 1), Move(folder, position) PROVE ManagerInv'
  <2>1. Len(screen.mods) \in Nat
    BY DEF ManagerInv, ScreenInv, GoodMods, IsASequence
  <2>2. position \in Nat
    BY <2>1
  <2> QED
    BY <1>12, <2>2, MoveKeeps
<1>13. ASSUME NEW name, NEW copy, Create(name, copy) PROVE ManagerInv'
  BY <1>13, CreateKeeps
<1>14. ASSUME NEW name, Activate(name) PROVE ManagerInv'
  BY <1>14, ActivateKeeps
<1>15. ASSUME NEW name, Delete(name) PROVE ManagerInv'
  BY <1>15, DeleteKeeps
<1>16. ASSUME NEW name, NEW to, Rename(name, to) PROVE ManagerInv'
  BY <1>16, RenameKeeps
<1>17. ASSUME NEW name \in DOMAIN Archives, Download(name) PROVE ManagerInv'
  BY <1>17, DownloadKeeps
<1>18. CASE WorkerCalls
  BY <1>18, WorkerCallsKeeps
<1>19. CASE JobDone
  BY <1>19, JobDoneKeeps
<1>20. CASE Quit
  BY <1>20, QuitKeeps
<1>21. CASE Open
  BY <1>21, OpenKeeps
<1>22. CASE PowerCut
  BY <1>22, PowerCutKeeps
<1>23. CASE ByHand
  BY <1>23, ByHandKeeps
<1> QED
  BY <1>1, <1>2, <1>3, <1>4, <1>5, <1>6, <1>7, <1>8, <1>9, <1>10, <1>11, <1>12, <1>13, <1>14, <1>15, <1>16, <1>17,
     <1>18, <1>19, <1>20, <1>21, <1>22, <1>23 DEF Next

\* Whatever fails, whenever the power goes, and whoever writes to the card in
\* between: what is on the screen, every list that is yet to be saved and
\* every profile is a list of mods, each mod once, and a temporary file that
\* is about to become a profile holds all of one (profile.rs, install.rs).
THEOREM ManagerIsSound == Spec => []ManagerInv
<1>1. Init => ManagerInv
  BY InitIsGood
<1>2. ManagerInv /\ [Next]_vars => ManagerInv'
  BY NextKeeps
<1> QED
  BY <1>1, <1>2, PTL DEF Spec

\* A profile under its own name is never a list cut short (Profile::save).
THEOREM ProfilesStayWhole == Spec => []ProfilesAreWhole
<1>1. ManagerInv => ProfilesAreWhole
  <2> SUFFICES ASSUME ManagerInv, NEW name \in Profiles(card)
               PROVE  card.texts[ProfileFile(name)] = ToIni(LoadProfile(card, name))
    BY DEF ProfilesAreWhole
  <2>1. ProfileFile(name) \in DOMAIN card.texts /\ IsProfile(ProfileFile(name))
    BY DEF Profiles, IsProfile, ProfileFile
  <2>2. IsWhole(card.texts[ProfileFile(name)])
    BY <2>1 DEF ManagerInv, CardInv, CardIsWhole
  <2> QED
    BY <2>2 DEF IsWhole, LoadProfile
<1>2. Spec => []ManagerInv
  BY ManagerIsSound
<1> QED
  BY <1>1, <1>2, PTL

-----------------------------------------------------------------------------
(* What is shown is what the card has: an invariant of every chain of      *)
(* steps that leads to rest.                                               *)

Lists(c, name, list) == HasProfile(c, name) /\ LoadProfile(c, name) = list
Covers(list, mods) == FoldersIn(mods) \subseteq FoldersIn(list)
Agrees(c, s) == Active(c) = s.profile /\ Scan(c) = s.mods

\* What is left of a save, made on a card that may have had part of it.
SavesTo(ops, c, name, list) ==
  /\ IsModList(list)
  /\ \/ ops = SaveProfile(c, name, list)
     \/ /\ Temporary(name) \in DOMAIN c.texts /\ c.texts[Temporary(name)] = ToIni(list)
        /\ \/ ops = <<<<"unlink", ProfileFile(name)>>, <<"rename", Temporary(name), ProfileFile(name)>>>>
           \/ ops = <<<<"rename", Temporary(name), ProfileFile(name)>>>>

\* What the interface calls for a step that writes to the card.
Begins(step, c) == IF step[1] = "activate" THEN ActivateProfile(c, step[2]) ELSE SaveProfile(c, step[2], step[3])

\* What may come after such a step, other than a reload,
ThenRead == <<<<"read">>>>
ThenCompleted == <<<<"read">>, <<"complete">>>>
Sequel(step, rest) ==
  \/ step[1] = "activate" /\ rest \in {ThenCompleted, ThenRead}
  \/ step[1] = "add" /\ (rest = <<<<"activate", step[2]>>, <<"read">>>> \/ rest = ThenRead)
  \/ step[1] = "save" /\ rest = <<>>
\* and what the card and the screen are then, with `left` of its file system calls to make.
Under(step, left, rest, c, s) ==
  /\ step[1] \in {"save", "add"} => SavesTo(left, c, step[2], step[3]) /\ Covers(step[3], Scan(c)) /\ step[2] # ""
  /\ step[1] = "save" => Agrees(c, s) /\ step[2] = s.profile /\ step[3] = s.entries
  /\ rest = ThenRead /\ step[1] = "add" => step[2] = Active(c)
  /\ rest = ThenRead /\ step[1] = "activate" =>
       left = ActivateProfile(c, step[2]) /\ step[2] # "" /\ HasProfile(c, step[2]) /\ Covers(LoadProfile(c, step[2]), Scan(c))

\* The same of a step that reads the card, or looks at what was read.
Look(step, rest) ==
  \/ step = <<"read">> /\ rest \in {<<<<"complete">>>>, <<>>}
  \/ step \in {<<"normalize">>, <<"complete">>} /\ rest = <<>>
Sees(step, rest, c, s) ==
  /\ step \in {<<"normalize">>, <<"complete">>} => s = StateOf(c)
  /\ step = <<"read">> /\ rest = <<>> =>
       Active(c) # "" /\ HasProfile(c, Active(c)) /\ Covers(LoadProfile(c, Active(c)), Scan(c))

Settled(c, s) ==
  /\ Agrees(c, s) /\ s.profile # ""
  /\ Lists(c, s.profile, s.entries) /\ Covers(s.entries, s.mods)

\* What is left to do when no call is being made, and what holds then.
Awaits(steps) == steps = <<>> \/ Sequel(Head(steps), Tail(steps)) \/ Look(Head(steps), Tail(steps))
Owes(steps, c, s) ==
  /\ steps = <<>> => Settled(c, s)
  /\ steps # <<>> /\ Sequel(Head(steps), Tail(steps)) => Under(Head(steps), Begins(Head(steps), c), Tail(steps), c, s)
  /\ steps # <<>> /\ Look(Head(steps), Tail(steps)) => Sees(Head(steps), Tail(steps), c, s)

\* Or the card is to be read and completed again.
Rereads == {"reload", "read", "normalize", "complete"}
Reloads(steps) ==
  /\ Len(steps) >= 2
  /\ steps[Len(steps) - 1] = <<"reload">> /\ steps[Len(steps)] = <<"normalize">>
  /\ \A i \in 1..(Len(steps) - 2) : steps[i][1] \notin Rereads

\* No installation is under way, and no call failed since the card was read.
Clean == job = NoJob /\ ~unsaved

CallerInv ==
  /\ call.who \in {"none", "interface", "worker"}
  /\ call.who = "none" => call = NoCall
  /\ call.who = "worker" => job.stage \in {"install", "clean"}

\* What is on the screen is what is on the card when nothing is left to do.
ShownInv ==
  \/ Reloads(todo)
  \/ call.who = "interface" /\ Sequel(call.step, todo) /\ (Clean => Under(call.step, call.ops, todo, card, screen))
  \/ call.who # "interface" /\ Awaits(todo) /\ (Clean => Owes(todo, card, screen))

ScreenIsCardInv == CallerInv /\ (on => ShownInv)

-----------------------------------------------------------------------------
(* What saving and activating a profile do to the card.                    *)

\* The files of the manager are no mod's.
LEMMA FilesApart ==
  /\ \A name : Temporary(name) # ProfileFile(name) /\ Temporary(name) # ConfigFile /\ ProfileFile(name) # ConfigFile
  /\ \A name, folder : Temporary(name) # IniOf(folder) /\ ProfileFile(name) # IniOf(folder)
  /\ \A folder : ConfigFile # IniOf(folder)
<1>1. /\ \A name : Temporary(name)[1] = "profiles" /\ Temporary(name)[3] = "tmp"
      /\ \A name : ProfileFile(name)[1] = "profiles" /\ ProfileFile(name)[3] = "ini"
      /\ \A folder : IniOf(folder)[1] = "mods"
      /\ ConfigFile[1] = "config"
  BY DEF Temporary, ProfileFile, IniOf, ConfigFile
<1>2. "tmp" # "ini" /\ "profiles" # "mods" /\ "profiles" # "config" /\ "mods" # "config"
  OBVIOUS
<1> QED
  BY <1>1, <1>2, Zenon

\* What is installed is told by the tree and the mod.ini files.
LEMMA SameMods ==
  ASSUME NEW c, NEW d, d.tree = c.tree, \A folder : InfoAt(d, IniOf(folder)) = InfoAt(c, IniOf(folder))
  PROVE  Scan(d) = Scan(c)
<1>1. ModsOn(d) = ModsOn(c)
  BY DEF ModsOn
<1>2. \A folder : Installed(d, folder) = Installed(c, folder)
  BY DEF Installed, InstalledAs
<1> QED
  BY <1>1, <1>2 DEF Scan, InstalledIn

\* No file but a profile and its temporary one is another.
SavedOnly(c, d, name) ==
  /\ d.tree = c.tree
  /\ \A p : p \notin {Temporary(name), ProfileFile(name)} =>
       (p \in DOMAIN d.texts <=> p \in DOMAIN c.texts) /\ (p \in DOMAIN c.texts => d.texts[p] = c.texts[p])

LEMMA SavedOnlyKeeps ==
  ASSUME NEW c, NEW d, NEW name, SavedOnly(c, d, name)
  PROVE  Active(d) = Active(c) /\ Scan(d) = Scan(c)
<1>1. \A folder : InfoAt(d, IniOf(folder)) = InfoAt(c, IniOf(folder))
  BY FilesApart DEF SavedOnly, InfoAt
<1>2. Active(d) = Active(c)
  BY FilesApart DEF SavedOnly, Active
<1> QED
  BY <1>1, <1>2, SameMods DEF SavedOnly

LEMMA SaveStep ==
  ASSUME NEW c, CardIsWhole(c), NEW name, NEW list, NEW ops, SavesTo(ops, c, name, list),
         NEW d, d = Do(Head(ops), c)
  PROVE  /\ SavedOnly(c, d, name)
         /\ IF Tail(ops) = <<>> THEN Lists(d, name, list) ELSE SavesTo(Tail(ops), d, name, list)
<1> DEFINE temporary == Temporary(name)
           file == ProfileFile(name)
           W == Writes(temporary, ToIni(list))
           U == <<"unlink", file>>
           R == <<"rename", temporary, file>>
<1>1. c = [tree |-> c.tree, texts |-> c.texts]
  BY DEF CardIsWhole
<1>2. IsModList(list) /\ ParseProfile(ToIni(list)) = list
  BY ProfilesReadAsWritten DEF SavesTo
<1>3. temporary # file
  BY FilesApart
<1>4. CASE ops = SaveProfile(c, name, list)
  <2>1. ops = IF HasProfile(c, name) THEN <<W, U, R>> ELSE <<W, R>>
    <3>1. ops = <<W>> \o (IF HasProfile(c, name) THEN <<U>> ELSE <<>>) \o <<R>>
      BY <1>4 DEF SaveProfile
    <3> HIDE DEF W, U, R
    <3>2. CASE HasProfile(c, name)
      <4>1. ops = (<<W>> \o <<U>>) \o <<R>>
        BY <3>1, <3>2
      <4>2. <<W>> \o <<U>> = <<W, U>> /\ <<W, U>> \o <<R>> = <<W, U, R>>
        BY Short
      <4> QED
        BY <3>2, <4>1, <4>2
    <3>3. CASE ~HasProfile(c, name)
      <4>1. \A a : <<a>> \o <<>> = <<a>>
        OBVIOUS
      <4> QED
        BY <3>1, <3>3, <4>1, Short
    <3> QED
      BY <3>2, <3>3
  <2>2. Head(ops) = W /\ (Tail(ops) = <<U, R>> \/ Tail(ops) = <<R>>)
    BY <2>1
  <2>3. d = [c EXCEPT !.texts = With(c.texts, temporary, ToIni(list))]
    BY <2>2 DEF Do, Writes
  <2>4. d.tree = c.tree /\ d.texts = With(c.texts, temporary, ToIni(list))
    BY <1>1, <2>3
  <2>5. temporary \in DOMAIN d.texts /\ d.texts[temporary] = ToIni(list)
    BY <2>4 DEF With
  <2>6. SavedOnly(c, d, name)
    BY <2>4 DEF With, SavedOnly
  <2>7. SavesTo(Tail(ops), d, name, list)
    BY <1>2, <2>2, <2>5 DEF SavesTo
  <2>8. Tail(ops) # <<>>
    <3> HIDE DEF W, U, R
    <3>1. \A a, b : <<a>> # <<>> /\ <<a, b>> # <<>>
      OBVIOUS
    <3> QED
      BY <2>2, <3>1
  <2> QED
    BY <2>6, <2>7, <2>8
<1>5. CASE temporary \in DOMAIN c.texts /\ c.texts[temporary] = ToIni(list) /\ ops = <<U, R>>
  <2>1. Head(ops) = U /\ Tail(ops) = <<R>>
    BY <1>5
  <2>2. d = [c EXCEPT !.texts = Unlinked(c.texts, file)]
    BY <2>1 DEF Do
  <2>3. d.tree = c.tree /\ d.texts = Unlinked(c.texts, file)
    BY <1>1, <2>2
  <2>4. temporary \in DOMAIN d.texts /\ d.texts[temporary] = ToIni(list)
    BY <1>3, <1>5, <2>3 DEF Unlinked
  <2>5. SavedOnly(c, d, name)
    BY <2>3 DEF Unlinked, SavedOnly
  <2>6. SavesTo(Tail(ops), d, name, list)
    BY <1>2, <2>1, <2>4 DEF SavesTo
  <2>7. Tail(ops) # <<>>
    <3> HIDE DEF R
    <3> QED
      BY <2>1
  <2> QED
    BY <2>5, <2>6, <2>7
<1>6. CASE temporary \in DOMAIN c.texts /\ c.texts[temporary] = ToIni(list) /\ ops = <<R>>
  <2>1. Head(ops) = R /\ Tail(ops) = <<>>
    BY <1>6
  <2>2. d = [c EXCEPT !.texts = Renamed(c.texts, temporary, file)]
    BY <1>6, <2>1 DEF Do
  <2>3. d.tree = c.tree /\ d.texts = Renamed(c.texts, temporary, file)
    BY <1>1, <2>2
  <2>4. file \in DOMAIN d.texts /\ d.texts[file] = ToIni(list)
    BY <1>6, <2>3 DEF Renamed, With
  <2>5. SavedOnly(c, d, name)
    BY <2>3 DEF Renamed, With, Unlinked, SavedOnly
  <2>6. Lists(d, name, list)
    BY <1>2, <2>4 DEF Lists, HasProfile, LoadProfile
  <2> QED
    BY <2>1, <2>5, <2>6
<1> QED
  BY <1>4, <1>5, <1>6 DEF SavesTo

\* The active profile is the one that is set, and nothing else is set.
LEMMA ActivateStep ==
  ASSUME NEW c, CardIsWhole(c), NEW name, NEW ops, ops = ActivateProfile(c, name), NEW d, d = Do(Head(ops), c),
         NEW p, HasProfile(c, p)
  PROVE  /\ Tail(ops) = <<>> /\ Active(d) = name /\ Scan(d) = Scan(c)
         /\ HasProfile(d, p) /\ LoadProfile(d, p) = LoadProfile(c, p)
<1> DEFINE old == IF ConfigFile \in DOMAIN c.texts THEN c.texts[ConfigFile] ELSE <<>>
           new == SetValue(old, "profile", name)
<1>1. c = [tree |-> c.tree, texts |-> c.texts]
  BY DEF CardIsWhole
<1>2. ops = <<Writes(ConfigFile, new)>>
  BY DEF ActivateProfile, SetConfig
<1>3. IsSetOnce(old, "profile")
  BY NothingSet DEF CardIsWhole
<1>4. ActiveProfile(new) = name
  BY <1>3, ActivatingActivates
<1> HIDE DEF old, new
<1>5. Head(ops) = <<"write", ConfigFile, new>> /\ Tail(ops) = <<>>
  BY <1>2 DEF Writes
<1>6. d = [c EXCEPT !.texts = With(c.texts, ConfigFile, new)]
  BY <1>5 DEF Do
<1>7. d.tree = c.tree /\ d.texts = With(c.texts, ConfigFile, new)
  BY <1>1, <1>6
<1>8. ConfigFile \in DOMAIN d.texts /\ d.texts[ConfigFile] = new
  BY <1>7 DEF With
<1>9. Active(d) = name
  BY <1>4, <1>8 DEF Active
<1>10. \A q : q # ConfigFile => (q \in DOMAIN d.texts <=> q \in DOMAIN c.texts) /\ (q \in DOMAIN c.texts => d.texts[q] = c.texts[q])
  BY <1>7 DEF With
<1>11. \A folder : InfoAt(d, IniOf(folder)) = InfoAt(c, IniOf(folder))
  BY <1>10, FilesApart DEF InfoAt
<1>12. Scan(d) = Scan(c)
  BY <1>7, <1>11, SameMods
<1>13. ProfileFile(p) # ConfigFile
  BY FilesApart
<1> QED
  BY <1>5, <1>9, <1>10, <1>12, <1>13 DEF HasProfile, LoadProfile

-----------------------------------------------------------------------------
(* The lists the manager makes have every mod that is installed.           *)

Has(s, x) == \E k \in 1..Len(s) : s[k] = x

LEMMA JoinedHas ==
  ASSUME NEW S, NEW a \in Seq(S), NEW b \in Seq(S), NEW x, Has(a, x) \/ Has(b, x)
  PROVE  Has(a \o b, x)
<1>1. CASE Has(a, x)
  <2>1. PICK k \in 1..Len(a) : a[k] = x
    BY <1>1 DEF Has
  <2>2. k \in 1..Len(a \o b) /\ (a \o b)[k] = x
    BY <2>1
  <2> QED
    BY <2>2 DEF Has
<1>2. CASE Has(b, x)
  <2>1. PICK k \in 1..Len(b) : b[k] = x
    BY <1>2 DEF Has
  <2>2. Len(a) + k \in 1..Len(a \o b) /\ (a \o b)[Len(a) + k] = x
    BY <2>1
  <2> QED
    BY <2>2 DEF Has
<1> QED
  BY <1>1, <1>2

LEMMA FlattenHas ==
  ASSUME NEW S, NEW seqs, Len(seqs) \in Nat, Len(seqs) # 0, \A i \in 1..Len(seqs) : seqs[i] \in Seq(S)
  PROVE  \A i \in 1..Len(seqs) : \A x : Has(seqs[i], x) => Has(FlattenSeq(seqs), x)
<1> DEFINE N == Len(seqs)
<1>1. PICK f : /\ FlattenSeq(seqs) = f[N] /\ f[1] = seqs[1]
               /\ \A n \in 2..N : f[n] = f[n - 1] \o seqs[n]
  BY FlattenIs
<1> DEFINE All(n) == f[n] \in Seq(S) /\ \A i \in 1..n : \A x : Has(seqs[i], x) => Has(f[n], x)
           T == {n \in Nat : n + 1 <= N => All(n + 1)}
<1>2. 0 \in T
  <2>1. f[1] \in Seq(S)
    BY <1>1
  <2>2. \A i \in 1..1 : f[1] = seqs[i]
    BY <1>1
  <2>3. All(1)
    BY <2>1, <2>2
  <2> HIDE DEF All
  <2> QED
    BY <2>3
<1>3. ASSUME NEW n \in Nat, n \in T PROVE n + 1 \in T
  <2> SUFFICES ASSUME (n + 1) + 1 <= N PROVE All((n + 1) + 1)
    OBVIOUS
  <2> DEFINE m == n + 1
  <2>1. m \in Nat /\ m >= 1 /\ m + 1 \in 2..N /\ m + 1 \in 1..N /\ (m + 1) - 1 = m
    OBVIOUS
  <2>2. All(m)
    BY <1>3
  <2> HIDE DEF m
  <2>3. f[m + 1] = f[m] \o seqs[m + 1]
    BY <1>1, <2>1
  <2>4. f[m] \in Seq(S) /\ seqs[m + 1] \in Seq(S)
    BY <2>1, <2>2
  <2>5. ASSUME NEW i \in 1..(m + 1), NEW x, Has(seqs[i], x) PROVE Has(f[m + 1], x)
    <3>1. Has(f[m], x) \/ Has(seqs[m + 1], x)
      BY <2>1, <2>2, <2>5
    <3> QED
      BY <2>3, <2>4, <3>1, JoinedHas
  <2>6. All(m + 1)
    BY <2>3, <2>4, <2>5
  <2> HIDE DEF All
  <2> QED
    BY <2>6 DEF m
<1> HIDE DEF T
<1>4. N - 1 \in T
  BY <1>2, <1>3, StepByStep
<1>5. All(N)
  <2>1. (N - 1) + 1 = N
    OBVIOUS
  <2> HIDE DEF All, N
  <2> QED
    BY <1>4, <2>1 DEF T
<1> QED
  BY <1>1, <1>5

\* What a sequence has of a set has every element of it.
LEMMA AmongHas ==
  ASSUME NEW S, NEW seq \in Seq(S), NEW set, NEW x \in set, Has(seq, x)
  PROVE  Has(Among(seq, set), x)
<1> DEFINE part == Among(seq, set)
<1>1. PICK h : Places(part, seq, set, h, Len(seq))
  BY AmongPlaces
<1>2. PICK k \in 1..Len(seq) : seq[k] = x
  BY DEF Has
<1> HIDE DEF part
<1>3. PICK i \in 1..Len(part) : h[i] = k
  BY <1>1, <1>2 DEF Places
<1>4. part[i] = x
  BY <1>1, <1>2, <1>3 DEF Places
<1> QED
  BY <1>3, <1>4 DEF Has, part

LEMMA CoversHas ==
  ASSUME NEW list, NEW mods
  PROVE  /\ Covers(list, mods) <=> \A i \in 1..Len(mods) : \E k \in 1..Len(list) : list[k].folder = mods[i].folder
BY DEF Covers, FoldersIn

LEMMA AddedCovers ==
  ASSUME NEW s, GoodMods(s.mods), IsModList(s.entries)
  PROVE  /\ Covers(Added(s) \o s.entries, s.mods)
         /\ Added(s) = <<>> => Covers(s.entries, s.mods)
<1> DEFINE new == Without(s.mods, FoldersIn(s.entries))
           added == Added(s)
<1>1. s.mods \in Seq(ToSet(s.mods)) /\ s.entries \in Seq(Entry)
  BY DEF GoodMods, IsASequence, IsModList
<1>2. GoodMods(new)
  BY PartOfMods DEF Without
<1>3. Len(new) \in Nat
  BY <1>2 DEF GoodMods, IsASequence
<1>4. added = [i \in 1..Len(new) |-> Listed(new[i].folder, TRUE, <<>>)]
  BY DEF Added
<1>5. ASSUME NEW i \in 1..Len(s.mods), s.mods[i].folder \notin FoldersIn(s.entries)
      PROVE  \E k \in 1..Len(new) : new[k].folder = s.mods[i].folder
  <2>1. s.mods[i] \in ToSet(s.mods)
    BY <1>1
  <2>2. s.mods[i] \in {e \in ToSet(s.mods) : e.folder \notin FoldersIn(s.entries)}
    BY <1>5, <2>1
  <2>3. Has(s.mods, s.mods[i])
    BY DEF Has
  <2>4. Has(new, s.mods[i])
    BY <1>1, <2>2, <2>3, AmongHas DEF Without
  <2> QED
    BY <2>4 DEF Has
<1> HIDE DEF new, added
<1>6. IsModList(added)
  BY AddedIsAList DEF added
<1>7. Len(added) = Len(new) /\ \A i \in 1..Len(added) : added[i].folder = new[i].folder
  BY <1>3, <1>4 DEF Listed
<1>8. Covers(added \o s.entries, s.mods)
  <2> SUFFICES ASSUME NEW i \in 1..Len(s.mods)
               PROVE  \E k \in 1..Len(added \o s.entries) : (added \o s.entries)[k].folder = s.mods[i].folder
    BY CoversHas
  <2>1. added \in Seq(Entry)
    BY <1>6 DEF IsModList
  <2>2. CASE s.mods[i].folder \in FoldersIn(s.entries)
    <3>1. PICK k \in 1..Len(s.entries) : s.entries[k].folder = s.mods[i].folder
      BY <2>2 DEF FoldersIn
    <3>2. Len(added) + k \in 1..Len(added \o s.entries) /\ (added \o s.entries)[Len(added) + k] = s.entries[k]
      BY <1>1, <2>1
    <3> QED
      BY <3>1, <3>2
  <2>3. CASE s.mods[i].folder \notin FoldersIn(s.entries)
    <3>1. PICK k \in 1..Len(new) : new[k].folder = s.mods[i].folder
      BY <1>5, <2>3
    <3>2. k \in 1..Len(added \o s.entries) /\ (added \o s.entries)[k] = added[k]
      BY <1>1, <1>7, <2>1
    <3> QED
      BY <1>7, <3>1, <3>2
  <2> QED
    BY <2>2, <2>3
<1>9. added = <<>> => Covers(s.entries, s.mods)
  <2> SUFFICES ASSUME added = <<>>, NEW i \in 1..Len(s.mods)
               PROVE  \E k \in 1..Len(s.entries) : s.entries[k].folder = s.mods[i].folder
    BY CoversHas
  <2>1. Len(new) = 0
    BY <1>7
  <2>2. s.mods[i].folder \in FoldersIn(s.entries)
    BY <1>5, <2>1
  <2> QED
    BY <2>2 DEF FoldersIn
<1> QED
  BY <1>8, <1>9 DEF added

\* A mod's priority is one of the numbers there are.
LEMMA PriorityIsOne ==
  ASSUME NEW c, NEW path
  PROVE  InfoAt(c, path).priority \in Priorities
<1>1. 100 \in Priorities
  BY DEF Priorities, MaxPriority
<1>2. \A number : (IF number \cap Priorities = {} THEN 100 ELSE CHOOSE n \in number \cap Priorities : TRUE) \in Priorities
  BY <1>1
<1>3. ASSUME NEW lines PROVE ParseInfo(lines).priority \in Priorities
  <2> DEFINE number == {n \in Priorities : ToString(n) = Lookup(Parse(lines)[1].entries, "priority", "", TRUE)}
  <2>1. ParseInfo(lines).priority = IF number = {} THEN 100 ELSE CHOOSE n \in number : TRUE
    BY DEF ParseInfo
  <2>2. number \subseteq Priorities
    OBVIOUS
  <2> HIDE DEF number
  <2> QED
    BY <1>1, <2>1, <2>2
<1>4. DefaultInfo.priority \in Priorities
  BY <1>1 DEF DefaultInfo
<1> QED
  BY <1>3, <1>4 DEF InfoAt

LEMMA ScanPriorities ==
  ASSUME NEW c, NEW i \in 1..Len(Scan(c))
  PROVE  Scan(c)[i].info.priority \in Priorities
<1> DEFINE folders == InOrder(ModsOn(c))
           mods == Scan(c)
<1>1. folders \in Seq(Names)
  BY NamesInOrder
<1>2. mods = [k \in 1..Len(folders) |-> Installed(c, folders[k])]
  BY DEF Scan, InstalledIn
<1>3. \A folder : Installed(c, folder).info = InfoAt(c, IniOf(folder))
  BY DEF Installed, InstalledAs
<1> HIDE DEF folders, mods
<1>4. Len(folders) \in Nat
  BY <1>1
<1>5. Len(mods) = Len(folders)
  BY <1>2, <1>4
<1>6. mods[i] = Installed(c, folders[i])
  BY <1>2, <1>5 DEF mods
<1> QED
  BY <1>3, <1>6, PriorityIsOne DEF mods

\* Sorting by name loses no mod.
LEMMA ByNameHas ==
  ASSUME NEW S, NEW list \in Seq(S), NEW x, Has(list, x)
  PROVE  Has(ByName(list), x)
<1> DEFINE N == Len(NameOrder) + 1
           buckets == [i \in 1..N |-> Among(list, {m \in ToSet(list) : NameRank(m) = i})]
           n == NameRank(x)
<1>1. N \in Nat /\ N >= 1 /\ n \in 1..N
  <2>1. N \in Nat /\ N >= 1
    BY NamesCount
  <2>2. n \in 1..N
    BY NameRankIs
  <2> QED
    BY <2>1, <2>2
<1>2. ByName(list) = FlattenSeq(buckets)
  BY DEF ByName
<1> HIDE DEF N
<1>3. Len(buckets) = N /\ \A i \in 1..N : buckets[i] = Among(list, {m \in ToSet(list) : NameRank(m) = i})
  BY <1>1
<1> HIDE DEF buckets
<1>4. ASSUME NEW i \in 1..Len(buckets) PROVE buckets[i] \in Seq(S)
  <2> DEFINE set == {m \in ToSet(list) : NameRank(m) = i}
  <2>1. buckets[i] = Among(list, set)
    BY <1>3
  <2> HIDE DEF set
  <2> QED
    BY <2>1, AmongPlaces
<1>5. x \in {m \in ToSet(list) : NameRank(m) = n}
  <2>1. \E k \in 1..Len(list) : list[k] = x
    BY DEF Has
  <2> QED
    BY <2>1 DEF ToSet
<1> HIDE DEF n
<1>6. Has(buckets[n], x)
  <2> DEFINE set == {m \in ToSet(list) : NameRank(m) = n}
  <2>1. buckets[n] = Among(list, set)
    BY <1>1, <1>3
  <2>2. x \in set
    BY <1>5
  <2> HIDE DEF set
  <2> QED
    BY <2>1, <2>2, AmongHas
<1>7. Len(buckets) \in Nat /\ Len(buckets) # 0 /\ n \in 1..Len(buckets)
  BY <1>1, <1>3
<1>8. Has(FlattenSeq(buckets), x)
  BY <1>4, <1>6, <1>7, FlattenHas
<1> QED
  BY <1>2, <1>8

LEMMA ByModIniCovers ==
  ASSUME NEW mods, GoodMods(mods), \A i \in 1..Len(mods) : mods[i].info.priority \in Priorities
  PROVE  Covers(ByModIni(mods), mods)
<1> DEFINE S == ToSet(mods)
           N == MaxPriority + 1
           buckets == [i \in 1..N |-> OfPriority(mods, N - i)]
           order == HighestFirst(mods)
<1>1. N \in Nat /\ N >= 1 /\ Priorities = 0..(N - 1)
  BY DEF MaxPriority, Priorities
<1> HIDE DEF N
<1>2. mods \in Seq(S)
  BY DEF GoodMods, IsASequence
<1>3. Len(buckets) = N /\ \A i \in 1..N : buckets[i] = OfPriority(mods, N - i)
  BY <1>1
<1>4. \A priority : OfPriority(mods, priority) \in Seq(S)
  BY OfPriorityIsAList
<1>5. order = FlattenSeq(buckets)
  BY DEF HighestFirst, N
<1> HIDE DEF buckets, order
<1>6. \A i \in 1..Len(buckets) : buckets[i] \in Seq(S)
  BY <1>3, <1>4
<1>7. \A i \in 1..Len(buckets) : \A x : Has(buckets[i], x) => Has(order, x)
  <2>1. Len(buckets) \in Nat /\ Len(buckets) # 0
    BY <1>1, <1>3
  <2>2. \A i \in 1..Len(buckets) : \A x : Has(buckets[i], x) => Has(FlattenSeq(buckets), x)
    BY <1>6, <2>1, FlattenHas
  <2> QED
    BY <1>5, <2>2
<1>8. ASSUME NEW i \in 1..Len(mods) PROVE Has(order, mods[i])
  <2> DEFINE n == N - mods[i].info.priority
  <2>1. n \in 1..N /\ N - n = mods[i].info.priority
    BY <1>1
  <2>2. mods[i] \in {m \in S : m.info.priority = mods[i].info.priority}
    BY <1>2
  <2>3. Has(mods, mods[i])
    BY DEF Has
  <2>4. Has(OfPriority(mods, mods[i].info.priority), mods[i])
    <3> DEFINE part == Among(mods, {m \in S : m.info.priority = mods[i].info.priority})
    <3>1. part \in Seq(S) /\ Has(part, mods[i])
      BY <1>2, <2>2, <2>3, AmongPlaces, AmongHas
    <3>2. OfPriority(mods, mods[i].info.priority) = ByName(part)
      BY DEF OfPriority
    <3> HIDE DEF part
    <3> QED
      BY <3>1, <3>2, ByNameHas
  <2> HIDE DEF n
  <2>5. Has(buckets[n], mods[i])
    BY <1>3, <2>1, <2>4
  <2> QED
    BY <1>3, <1>7, <2>1, <2>5
<1>9. ByModIni(mods) = [i \in 1..Len(order) |-> Listed(order[i].folder, order[i].info.enabled, <<>>)]
  BY DEF ByModIni, order
<1>10. IsModList(ByModIni(mods))
  BY ByModIniIsAList
<1>11. ASSUME NEW i \in 1..Len(mods)
       PROVE  \E k \in 1..Len(ByModIni(mods)) : ByModIni(mods)[k].folder = mods[i].folder
  <2>1. PICK k \in 1..Len(order) : order[k] = mods[i]
    BY <1>8 DEF Has
  <2>2. Len(ByModIni(mods)) = Len(order)
    BY <1>9, <1>10 DEF IsModList
  <2>3. ByModIni(mods)[k].folder = mods[i].folder
    BY <1>9, <2>1 DEF Listed
  <2> QED
    BY <2>1, <2>2, <2>3
<1> QED
  BY <1>11, CoversHas

\* A list cut in two has what it had.
LEMMA CutHas ==
  ASSUME NEW S, NEW s \in Seq(S), NEW n \in Nat, n <= Len(s), NEW x, Has(s, x)
  PROVE  Has(SubSeq(s, 1, n), x) \/ Has(SubSeq(s, n + 1, Len(s)), x)
<1>1. PICK k \in 1..Len(s) : s[k] = x
  BY DEF Has
<1>2. CASE k <= n
  <2>1. k \in 1..Len(SubSeq(s, 1, n)) /\ SubSeq(s, 1, n)[k] = x
    BY <1>1, <1>2
  <2> QED
    BY <2>1 DEF Has
<1>3. CASE k > n
  <2>1. k - n \in 1..Len(SubSeq(s, n + 1, Len(s))) /\ SubSeq(s, n + 1, Len(s))[k - n] = x
    BY <1>1, <1>3
  <2> QED
    BY <2>1 DEF Has
<1> QED
  BY <1>2, <1>3

LEMMA MovesCovers ==
  ASSUME NEW entries, IsModList(entries), NEW mods, Covers(entries, mods),
         NEW folder, InstalledOn(screen, folder), NEW position \in Nat
  PROVE  Covers(Moves(entries, folder, position), mods)
<1> DEFINE installed == FoldersIn(screen.mods)
           others == OfFolders(entries, installed \ {folder})
           moved == OfFolders(entries, {folder})
           absent == Without(entries, installed)
           place == IF position < Len(others) THEN position ELSE Len(others)
           before == SubSeq(others, 1, place)
           after == SubSeq(others, place + 1, Len(others))
<1>1. folder \in installed /\ entries \in Seq(Entry)
  BY DEF InstalledOn, IsModList
<1>2. others \in Seq(Entry) /\ moved \in Seq(Entry) /\ absent \in Seq(Entry)
  BY OfAndWithout DEF IsModList
<1>3. Moves(entries, folder, position) = before \o moved \o after \o absent
  BY DEF Moves
<1>4. ASSUME NEW i \in 1..Len(entries)
      PROVE  Has(others, entries[i]) \/ Has(moved, entries[i]) \/ Has(absent, entries[i])
  <2>1. entries[i] \in ToSet(entries)
    BY <1>1 DEF ToSet
  <2>2. Has(entries, entries[i])
    BY DEF Has
  <2>3. CASE entries[i].folder \in installed \ {folder}
    <3>1. entries[i] \in {e \in ToSet(entries) : e.folder \in installed \ {folder}}
      BY <2>1, <2>3
    <3> QED
      BY <1>1, <2>2, <3>1, AmongHas DEF OfFolders
  <2>4. CASE entries[i].folder \in {folder}
    <3>1. entries[i] \in {e \in ToSet(entries) : e.folder \in {folder}}
      BY <2>1, <2>4
    <3> QED
      BY <1>1, <2>2, <3>1, AmongHas DEF OfFolders
  <2>5. CASE entries[i].folder \notin installed
    <3>1. entries[i] \in {e \in ToSet(entries) : e.folder \notin installed}
      BY <2>1, <2>5
    <3> QED
      BY <1>1, <2>2, <3>1, AmongHas DEF Without
  <2> QED
    BY <2>3, <2>4, <2>5
<1> HIDE DEF others, moved, absent, installed
<1>5. place \in Nat /\ place <= Len(others)
  BY <1>2
<1> HIDE DEF place
<1>6. before \in Seq(Entry) /\ after \in Seq(Entry)
  BY <1>2, <1>5
<1>7. \A x : Has(others, x) => Has(before, x) \/ Has(after, x)
  BY <1>2, <1>5, CutHas
<1> HIDE DEF before, after
<1> DEFINE one == before \o moved
           two == one \o after
           three == two \o absent
<1>8. one \in Seq(Entry) /\ two \in Seq(Entry)
  BY <1>2, <1>6
<1>9. \A x : Has(before, x) \/ Has(moved, x) => Has(one, x)
  BY <1>2, <1>6, JoinedHas
<1> HIDE DEF one
<1>10. \A x : Has(one, x) \/ Has(after, x) => Has(two, x)
  BY <1>6, <1>8, JoinedHas
<1> HIDE DEF two
<1>11. \A x : Has(two, x) \/ Has(absent, x) => Has(three, x)
  BY <1>2, <1>8, JoinedHas
<1> HIDE DEF three
<1>12. \A i \in 1..Len(entries) : Has(three, entries[i])
  BY <1>4, <1>7, <1>9, <1>10, <1>11
<1>13. ASSUME NEW i \in 1..Len(mods) PROVE \E k \in 1..Len(three) : three[k].folder = mods[i].folder
  <2>1. PICK j \in 1..Len(entries) : entries[j].folder = mods[i].folder
    BY CoversHas
  <2> QED
    BY <1>12, <2>1 DEF Has
<1>14. Covers(three, mods)
  BY <1>13, CoversHas
<1> QED
  BY <1>3, <1>14 DEF three, two, one

\* One entry of a list changes, but not its folder.
LEMMA ChangedCovers ==
  ASSUME NEW list, IsModList(list), NEW mods, Covers(list, mods), NEW n \in 1..Len(list), NEW e, e.folder = list[n].folder
  PROVE  Covers([list EXCEPT ![n] = e], mods)
<1> DEFINE new == [list EXCEPT ![n] = e]
<1>1. list \in Seq(Entry)
  BY DEF IsModList
<1>2. Len(new) = Len(list) /\ \A i \in 1..Len(list) : new[i].folder = list[i].folder
  BY <1>1
<1> HIDE DEF new
<1>3. \A i \in 1..Len(mods) : \E k \in 1..Len(new) : new[k].folder = mods[i].folder
  BY <1>2, CoversHas
<1> QED
  BY <1>3, CoversHas DEF new

-----------------------------------------------------------------------------
(* A card that is as the list shows is merged as the list shows.           *)

LEMMA SpecsOfChosen ==
  ASSUME NEW mods, NEW list, IsModList(list)
  PROVE  /\ Specs(mods, list) \in Seq(ToSet(Specs(mods, list))) /\ Len(Specs(mods, list)) = Len(Chosen(list, mods))
         /\ Len(Chosen(list, mods)) \in Nat
         /\ \A i \in 1..Len(Chosen(list, mods)) : Specs(mods, list)[i].folder = Chosen(list, mods)[i].folder
<1> DEFINE chosen1 == Chosen(list, mods)
           specs == Specs(mods, list)
           set == {e \in ToSet(list) : e.enabled /\ e.folder \in FoldersIn(mods)}
<1>1. IsModList(chosen1) /\ \A i \in 1..Len(chosen1) : chosen1[i] \in set
  BY PartOfModList DEF Chosen
<1>2. Len(chosen1) \in Nat
  BY <1>1 DEF IsModList
<1>3. specs = [i \in 1..Len(chosen1) |-> SpecOf(mods, chosen1[i])]
  BY DEF Specs
<1> HIDE DEF chosen1, specs
<1>4. Len(specs) = Len(chosen1) /\ IsASequence(specs)
  <2>1. specs \in Seq({SpecOf(mods, chosen1[i]) : i \in 1..Len(chosen1)}) /\ Len(specs) = Len(chosen1)
    BY <1>2, <1>3
  <2> QED
    BY <2>1, SequenceOf
<1>5. ASSUME NEW i \in 1..Len(chosen1) PROVE specs[i].folder = chosen1[i].folder
  <2>1. \E k \in 1..Len(mods) : mods[k].folder = chosen1[i].folder
    BY <1>1 DEF FoldersIn
  <2>2. specs[i] = SpecOf(mods, chosen1[i])
    BY <1>3
  <2> DEFINE k == CHOOSE j \in 1..Len(mods) : mods[j].folder = chosen1[i].folder
  <2>3. mods[k].folder = chosen1[i].folder
    BY <2>1
  <2>4. SpecOf(mods, chosen1[i]).folder = mods[k].folder
    BY DEF SpecOf, SpecFor
  <2> QED
    BY <2>2, <2>3, <2>4
<1> QED
  BY <1>2, <1>4, <1>5 DEF chosen1, specs, IsASequence

LEMMA EachFolderOnce ==
  ASSUME NEW list, IsModList(list), NEW mods, Covers(list, mods), NEW i \in 1..Len(mods)
  PROVE  Cardinality(FindEntry(list, mods[i].folder)) = 1
<1>1. PICK k \in 1..Len(list) : list[k].folder = mods[i].folder
  BY CoversHas
<1>2. FindEntry(list, mods[i].folder) = {k}
  <2>1. \A j \in 1..Len(list) : list[j].folder = mods[i].folder <=> j = k
    BY <1>1 DEF IsModList, OnceEach
  <2> QED
    BY <2>1 DEF FindEntry
<1> QED
  BY <1>2, FS_Singleton

LEMMA SettledIsMerged ==
  ASSUME ManagerInv, Settled(card, screen)
  PROVE  /\ LET merged == SubSeq(Discover(card), Len(RomfsLite) + 1, Len(Discover(card)))
            IN /\ Discover(card) = RomfsLite \o merged
               /\ FoldersOf(merged) = Reverse(FoldersOf(Chosen(screen.entries, screen.mods)))
         /\ \A mod \in ToSet(Scan(card)) : Cardinality(FindEntry(screen.entries, mod.folder)) = 1
<1> DEFINE list == screen.entries
           mods == screen.mods
           specs == Specs(mods, list)
           shown == Chosen(list, mods)
           X == Reverse(specs)
           n == Len(shown)
           R == RomfsLite
<1>1. IsModList(list) /\ GoodMods(mods)
  BY DEF ManagerInv, ScreenInv
<1>2. /\ Active(card) = screen.profile /\ screen.profile # "" /\ Scan(card) = mods
      /\ HasProfile(card, screen.profile) /\ LoadProfile(card, screen.profile) = list /\ Covers(list, mods)
  BY DEF Settled, Agrees, Lists
<1>3. Discover(card) = R \o X
  BY <1>2 DEF Discover, OfProfile
<1>4. /\ specs \in Seq(ToSet(specs)) /\ Len(specs) = n /\ n \in Nat
      /\ \A i \in 1..n : specs[i].folder = shown[i].folder
  BY <1>1, SpecsOfChosen
<1>5. \A mod \in ToSet(Scan(card)) : Cardinality(FindEntry(list, mod.folder)) = 1
  <2> SUFFICES ASSUME NEW mod \in ToSet(mods) PROVE Cardinality(FindEntry(list, mod.folder)) = 1
    BY <1>2
  <2>1. PICK i \in 1..Len(mods) : mod = mods[i]
    BY <1>1 DEF GoodMods, IsASequence, ToSet
  <2> QED
    BY <1>1, <1>2, <2>1, EachFolderOnce
<1> HIDE DEF specs, shown, list, mods, n
<1>6. Len(X) = n /\ X = [i \in 1..n |-> specs[(n - i) + 1]]
  BY <1>4 DEF Reverse
<1>7. FoldersOf(X) = Reverse(FoldersOf(shown))
  <2>1. FoldersOf(shown) = [i \in 1..n |-> shown[i].folder]
    BY DEF FoldersOf, n
  <2>2. Len(FoldersOf(shown)) = n
    BY <1>4, <2>1
  <2>3. Reverse(FoldersOf(shown)) = [i \in 1..n |-> shown[(n - i) + 1].folder]
    BY <1>4, <2>1, <2>2 DEF Reverse
  <2>4. FoldersOf(X) = [i \in 1..n |-> specs[(n - i) + 1].folder]
    BY <1>4, <1>6 DEF FoldersOf
  <2>5. \A i \in 1..n : specs[(n - i) + 1].folder = shown[(n - i) + 1].folder
    BY <1>4
  <2> QED
    BY <2>3, <2>4, <2>5
<1>8. \E S : R \in Seq(S) /\ X \in Seq(S)
  <2>1. \E S : R \in Seq(S)
    <3>1. R = <<>> \/ \E r : R = <<r>>
      BY DEF RomfsLite, ExportAs
    <3>2. <<>> \in Seq({})
      OBVIOUS
    <3>3. \A r : <<r>> \in Seq({r})
      OBVIOUS
    <3> HIDE DEF R
    <3> QED
      BY <3>1, <3>2, <3>3
  <2>2. X \in Seq(ToSet(specs))
    BY <1>4, <1>6
  <2>3. PICK S : R \in Seq(S)
    BY <2>1
  <2> HIDE DEF X, R
  <2>4. R \in Seq(S \cup ToSet(specs)) /\ X \in Seq(S \cup ToSet(specs))
    BY <2>2, <2>3
  <2> QED
    BY <2>4
<1>9. SubSeq(R \o X, Len(R) + 1, Len(R \o X)) = X
  <2>1. PICK S : R \in Seq(S) /\ X \in Seq(S)
    BY <1>8
  <2> HIDE DEF X, R
  <2> QED
    BY <2>1
<1> QED
  BY <1>3, <1>5, <1>7, <1>9 DEF list, mods, shown

-----------------------------------------------------------------------------
(* One step of what is left to do.                                         *)

\* Lists of one step and of two.
LEMMA HeadsAndTails ==
  /\ \A a : <<a>> # <<>> /\ Head(<<a>>) = a /\ Tail(<<a>>) = <<>> /\ Len(<<a>>) = 1
  /\ \A a, b : <<a, b>> # <<>> /\ Head(<<a, b>>) = a /\ Tail(<<a, b>>) = <<b>> /\ Len(<<a, b>>) = 2
OBVIOUS

LEMMA SequelAwaits ==
  ASSUME NEW step, NEW rest, Sequel(step, rest)
  PROVE  Awaits(rest)
<1>1. CASE rest = ThenCompleted
  <2>1. Head(rest) = <<"read">> /\ Tail(rest) = <<<<"complete">>>>
    BY <1>1, HeadsAndTails DEF ThenCompleted
  <2> QED
    BY <2>1 DEF Awaits, Look
<1>2. CASE rest = ThenRead
  <2>1. Head(rest) = <<"read">> /\ Tail(rest) = <<>>
    BY <1>2, HeadsAndTails DEF ThenRead
  <2> QED
    BY <2>1 DEF Awaits, Look
<1>3. CASE rest = <<<<"activate", step[2]>>, <<"read">>>>
  <2>1. Head(rest) = <<"activate", step[2]>> /\ Tail(rest) = ThenRead
    BY <1>3, HeadsAndTails DEF ThenRead
  <2>2. Head(rest)[1] = "activate"
    BY <2>1
  <2> QED
    BY <2>1, <2>2 DEF Awaits, Sequel
<1>4. CASE rest = <<>>
  BY <1>4 DEF Awaits
<1> QED
  BY <1>1, <1>2, <1>3, <1>4 DEF Sequel

\* The kinds of steps there are.
LEMMA Kinds ==
  ASSUME NEW step, NEW rest
  PROVE  /\ Sequel(step, rest) => step[1] \in {"activate", "add", "save"}
         /\ Look(step, rest) => step[1] \in {"read", "normalize", "complete"}
         /\ Sequel(step, rest) => ~Look(step, rest)
<1>1. <<"read">>[1] = "read" /\ <<"normalize">>[1] = "normalize" /\ <<"complete">>[1] = "complete"
  OBVIOUS
<1>2. Sequel(step, rest) => step[1] \in {"activate", "add", "save"}
  BY DEF Sequel
<1>3. Look(step, rest) => step[1] \in {"read", "normalize", "complete"}
  BY <1>1 DEF Look
<1> QED
  BY <1>2, <1>3

\* A file system call of a step works.
LEMMA UnderGoesOn ==
  ASSUME NEW step, NEW rest, NEW ops, NEW c, NEW s, CardIsWhole(c), Sequel(step, rest), Under(step, ops, rest, c, s),
         NEW d, d = Do(Head(ops), c)
  PROVE  IF Tail(ops) = <<>> THEN Owes(rest, d, s) ELSE Under(step, Tail(ops), rest, d, s)
<1>1. CASE step[1] = "save"
  <2>1. rest = <<>> /\ rest # ThenRead
    BY <1>1, HeadsAndTails DEF Sequel, ThenRead
  <2>2. /\ SavesTo(ops, c, step[2], step[3]) /\ Covers(step[3], Scan(c)) /\ step[2] # ""
        /\ Agrees(c, s) /\ step[2] = s.profile /\ step[3] = s.entries
    BY <1>1 DEF Under
  <2>3. /\ SavedOnly(c, d, step[2])
        /\ IF Tail(ops) = <<>> THEN Lists(d, step[2], step[3]) ELSE SavesTo(Tail(ops), d, step[2], step[3])
    BY <2>2, SaveStep
  <2>4. Active(d) = Active(c) /\ Scan(d) = Scan(c)
    BY <2>3, SavedOnlyKeeps
  <2>5. CASE Tail(ops) = <<>>
    BY <2>1, <2>2, <2>3, <2>4, <2>5 DEF Owes, Settled, Agrees
  <2>6. CASE Tail(ops) # <<>>
    BY <1>1, <2>1, <2>2, <2>3, <2>4, <2>6 DEF Under, Agrees
  <2> QED
    BY <2>5, <2>6
<1>2. CASE step[1] = "add"
  <2>1. SavesTo(ops, c, step[2], step[3]) /\ Covers(step[3], Scan(c)) /\ step[2] # ""
    BY <1>2 DEF Under
  <2>2. /\ SavedOnly(c, d, step[2])
        /\ IF Tail(ops) = <<>> THEN Lists(d, step[2], step[3]) ELSE SavesTo(Tail(ops), d, step[2], step[3])
    BY <2>1, SaveStep
  <2>3. Active(d) = Active(c) /\ Scan(d) = Scan(c)
    BY <2>2, SavedOnlyKeeps
  <2>4. CASE Tail(ops) # <<>>
    BY <1>2, <2>1, <2>2, <2>3, <2>4 DEF Under
  <2>5. CASE Tail(ops) = <<>> /\ rest = ThenRead
    <3>1. rest # <<>> /\ Head(rest) = <<"read">> /\ Tail(rest) = <<>>
      BY <2>5, HeadsAndTails DEF ThenRead
    <3>2. step[2] = Active(c)
      BY <1>2, <2>5 DEF Under
    <3>3. Look(<<"read">>, <<>>) /\ ~Sequel(<<"read">>, <<>>)
      BY Kinds DEF Look
    <3>4. Sees(<<"read">>, <<>>, d, s)
      <4>1. <<"read">> \notin {<<"normalize">>, <<"complete">>}
        OBVIOUS
      <4> QED
        BY <2>1, <2>2, <2>3, <2>5, <3>2, <4>1 DEF Sees, Lists
    <3> QED
      BY <2>5, <3>1, <3>3, <3>4 DEF Owes
  <2>6. CASE Tail(ops) = <<>> /\ rest = <<<<"activate", step[2]>>, <<"read">>>>
    <3> DEFINE next == <<"activate", step[2]>>
    <3>1. rest # <<>> /\ Head(rest) = next /\ Tail(rest) = ThenRead /\ next[1] = "activate" /\ next[2] = step[2]
      BY <2>6, HeadsAndTails DEF ThenRead
    <3> HIDE DEF next
    <3>2. Sequel(next, ThenRead) /\ ~Look(next, ThenRead)
      BY <3>1, Kinds DEF Sequel
    <3>3. Under(next, Begins(next, d), ThenRead, d, s)
      BY <2>1, <2>2, <2>3, <2>6, <3>1 DEF Under, Begins, Lists
    <3> QED
      BY <2>6, <3>1, <3>2, <3>3 DEF Owes
  <2> QED
    BY <1>2, <2>4, <2>5, <2>6 DEF Sequel
<1>3. CASE step[1] = "activate" /\ rest = ThenCompleted
  <2>1. rest # <<>> /\ Head(rest) = <<"read">> /\ Tail(rest) = <<<<"complete">>>> /\ Tail(rest) # <<>> /\ rest # ThenRead
    BY <1>3, HeadsAndTails DEF ThenCompleted, ThenRead
  <2>2. ~Sequel(Head(rest), Tail(rest)) /\ <<"read">> \notin {<<"normalize">>, <<"complete">>}
    <3>1. Look(Head(rest), Tail(rest))
      BY <2>1 DEF Look
    <3> QED
      BY <3>1, Kinds
  <2> QED
    BY <1>3, <2>1, <2>2 DEF Owes, Under, Sees
<1>4. CASE step[1] = "activate" /\ rest = ThenRead
  <2>1. /\ ops = ActivateProfile(c, step[2]) /\ step[2] # "" /\ HasProfile(c, step[2])
        /\ Covers(LoadProfile(c, step[2]), Scan(c))
    BY <1>4 DEF Under
  <2>2. /\ Tail(ops) = <<>> /\ Active(d) = step[2] /\ Scan(d) = Scan(c)
        /\ HasProfile(d, step[2]) /\ LoadProfile(d, step[2]) = LoadProfile(c, step[2])
    <3> DEFINE name == step[2]
    <3>1. ops = ActivateProfile(c, name) /\ HasProfile(c, name)
      BY <2>1
    <3> HIDE DEF name
    <3>2. /\ Tail(ops) = <<>> /\ Active(d) = name /\ Scan(d) = Scan(c)
          /\ HasProfile(d, name) /\ LoadProfile(d, name) = LoadProfile(c, name)
      BY <3>1, ActivateStep
    <3> QED
      BY <3>2 DEF name
  <2>3. rest # <<>> /\ Head(rest) = <<"read">> /\ Tail(rest) = <<>>
    BY <1>4, HeadsAndTails DEF ThenRead
  <2>4. Look(<<"read">>, <<>>) /\ ~Sequel(<<"read">>, <<>>)
    BY Kinds DEF Look
  <2>5. Sees(<<"read">>, <<>>, d, s)
    <3>1. <<"read">> \notin {<<"normalize">>, <<"complete">>}
      OBVIOUS
    <3> QED
      BY <2>1, <2>2, <3>1 DEF Sees
  <2> QED
    BY <2>2, <2>3, <2>4, <2>5 DEF Owes
<1> QED
  BY <1>1, <1>2, <1>3, <1>4 DEF Sequel

LEMMA BeginsCalls ==
  ASSUME NEW step, step[1] \in {"activate", "add", "save"}
  PROVE  /\ Calls(step) = Begins(step, card)
         /\ \A c : Begins(step, c) # <<>>
<1>1. Calls(step) = Begins(step, card)
  BY DEF Calls, Begins
<1>2. \A c, name : ActivateProfile(c, name) # <<>>
  BY HeadsAndTails DEF ActivateProfile, SetConfig
<1>3. ASSUME NEW c, NEW name, NEW list PROVE SaveProfile(c, name, list) # <<>>
  <2> DEFINE W == Writes(Temporary(name), ToIni(list))
             U == <<"unlink", ProfileFile(name)>>
             R == <<"rename", Temporary(name), ProfileFile(name)>>
  <2>1. SaveProfile(c, name, list) = <<W>> \o (IF HasProfile(c, name) THEN <<U>> ELSE <<>>) \o <<R>>
    BY DEF SaveProfile
  <2> HIDE DEF W, U, R
  <2>2. \A a, b, r : <<a>> \o <<b>> \o <<r>> # <<>> /\ <<a>> \o <<>> \o <<r>> # <<>>
    OBVIOUS
  <2> QED
    BY <2>1, <2>2
<1> QED
  BY <1>1, <1>2, <1>3 DEF Begins

LEMMA StateOfIs ==
  ASSUME NEW c, NEW s, s = StateOf(c)
  PROVE  /\ s.profile = Active(c) /\ s.mods = Scan(c)
         /\ s.exists <=> Active(c) # "" /\ HasProfile(c, Active(c))
         /\ Active(c) # "" /\ HasProfile(c, Active(c)) => s.entries = LoadProfile(c, Active(c))
BY DEF StateOf

\* What the card holds is read.
LEMMA ReadingSees ==
  ASSUME NEW rest, NEW c, NEW s, s = StateOf(c), Look(<<"read">>, rest)
  PROVE  /\ Awaits(rest)
         /\ \A old : Sees(<<"read">>, rest, c, old) => Owes(rest, c, s)
<1>1. <<"read">>[1] = "read" /\ <<"normalize">>[1] = "normalize" /\ <<"complete">>[1] = "complete"
  OBVIOUS
<1>2. CASE rest = <<<<"complete">>>>
  <2>1. rest # <<>> /\ Head(rest) = <<"complete">> /\ Tail(rest) = <<>>
    BY <1>2, HeadsAndTails
  <2>2. Look(<<"complete">>, <<>>) /\ ~Sequel(<<"complete">>, <<>>)
    BY Kinds DEF Look
  <2>3. Sees(<<"complete">>, <<>>, c, s)
    BY <1>1 DEF Sees
  <2> QED
    BY <2>1, <2>2, <2>3 DEF Awaits, Owes
<1>3. CASE rest = <<>>
  <2>1. ASSUME NEW old, Sees(<<"read">>, <<>>, c, old)
        PROVE  Settled(c, s)
    <3>1. Active(c) # "" /\ HasProfile(c, Active(c)) /\ Covers(LoadProfile(c, Active(c)), Scan(c))
      BY <2>1 DEF Sees
    <3> QED
      BY <3>1, StateOfIs DEF Settled, Agrees, Lists
  <2> QED
    BY <1>3, <2>1 DEF Awaits, Owes
<1> QED
  BY <1>1, <1>2, <1>3 DEF Look

\* What was read is looked at.
LEMMA CompletingAwaits ==
  ASSUME NEW c, NEW s, GoodMods(s.mods), IsModList(s.entries), NEW steps, steps = Complete(s)
  PROVE  /\ Awaits(steps)
         /\ s = StateOf(c) => Owes(steps, c, s)
<1> DEFINE name == IF s.profile = "" THEN DefaultProfile ELSE s.profile
<1>1. name # ""
  BY CardsAssumption, NamesAssumption
<1>3. CASE s.profile = "" \/ ~s.exists
  <2> DEFINE step == <<"add", name, ByModIni(s.mods)>>
             rest == <<<<"activate", name>>, <<"read">>>>
  <2>1. steps = <<step, <<"activate", name>>, <<"read">>>>
    BY <1>3 DEF Complete
  <2>2. step[1] = "add" /\ step[2] = name /\ step[3] = ByModIni(s.mods)
    OBVIOUS
  <2>3. steps # <<>> /\ Head(steps) = step /\ Tail(steps) = rest
    <3> HIDE DEF name, step
    <3> QED
      BY <2>1
  <2> HIDE DEF name, step
  <2>4. Sequel(step, rest) /\ ~Look(step, rest)
    BY <2>2, Kinds DEF Sequel
  <2>5. rest # ThenRead
    BY HeadsAndTails DEF ThenRead
  <2>6. ASSUME s = StateOf(c) PROVE Under(step, Begins(step, c), rest, c, s)
    <3>1. s.mods = Scan(c)
      BY <2>6, StateOfIs
    <3>2. Covers(ByModIni(s.mods), Scan(c))
      BY <3>1, ByModIniCovers, ScanPriorities
    <3>3. IsModList(ByModIni(s.mods))
      BY ByModIniIsAList
    <3>4. SavesTo(Begins(step, c), c, name, ByModIni(s.mods))
      BY <2>2, <3>3 DEF SavesTo, Begins
    <3> QED
      BY <1>1, <2>2, <2>5, <3>2, <3>4 DEF Under
  <2> HIDE DEF rest
  <2> QED
    BY <2>3, <2>4, <2>6 DEF Awaits, Owes
<1>4. CASE ~(s.profile = "" \/ ~s.exists) /\ Added(s) # <<>>
  <2> DEFINE list == Added(s) \o s.entries
             step == <<"add", s.profile, list>>
  <2>1. steps = <<step, <<"read">>>>
    BY <1>4 DEF Complete
  <2>2. step[1] = "add" /\ step[2] = s.profile /\ step[3] = list
    OBVIOUS
  <2> HIDE DEF step
  <2>3. steps # <<>> /\ Head(steps) = step /\ Tail(steps) = ThenRead
    BY <2>1, HeadsAndTails DEF ThenRead
  <2>4. Sequel(step, ThenRead) /\ ~Look(step, ThenRead)
    BY <2>2, Kinds DEF Sequel
  <2>5. ASSUME s = StateOf(c) PROVE Under(step, Begins(step, c), ThenRead, c, s)
    <3>1. s.mods = Scan(c) /\ s.profile = Active(c) /\ s.profile # ""
      BY <1>4, <2>5, StateOfIs
    <3>2. Covers(list, Scan(c)) /\ IsModList(list)
      BY <3>1, AddedCovers, AddedIsAList
    <3> HIDE DEF list
    <3>3. SavesTo(Begins(step, c), c, step[2], list)
      BY <2>2, <3>2 DEF SavesTo, Begins
    <3> QED
      BY <2>2, <3>1, <3>2, <3>3 DEF Under
  <2> QED
    BY <2>3, <2>4, <2>5 DEF Awaits, Owes
<1>5. CASE ~(s.profile = "" \/ ~s.exists) /\ Added(s) = <<>>
  <2>1. steps = <<>>
    BY <1>5 DEF Complete
  <2>2. ASSUME s = StateOf(c) PROVE Settled(c, s)
    <3>1. Active(c) # "" /\ HasProfile(c, Active(c)) /\ s.profile = Active(c) /\ s.mods = Scan(c)
      BY <1>5, <2>2, StateOfIs
    <3>2. s.entries = LoadProfile(c, Active(c))
      BY <2>2, <3>1, StateOfIs
    <3>3. Covers(s.entries, s.mods)
      BY <1>5, AddedCovers
    <3> QED
      BY <3>1, <3>2, <3>3 DEF Settled, Agrees, Lists
  <2> QED
    BY <2>1, <2>2 DEF Awaits, Owes
<1> QED
  BY <1>3, <1>4, <1>5

LEMMA NormalizingAwaits ==
  ASSUME NEW c, NEW s, GoodMods(s.mods), IsModList(s.entries), NEW steps, steps = Normalize(s)
  PROVE  /\ Awaits(steps)
         /\ s = StateOf(c) => Owes(steps, c, s)
<1>1. CASE s.profile = "" /\ s.profiles # <<>>
  <2> DEFINE step == <<"activate", s.profiles[1]>>
  <2>1. steps = <<step, <<"read">>, <<"complete">>>>
    BY <1>1 DEF Normalize
  <2>2. step[1] = "activate"
    OBVIOUS
  <2> HIDE DEF step
  <2>3. steps # <<>> /\ Head(steps) = step /\ Tail(steps) = ThenCompleted
    BY <2>1 DEF ThenCompleted
  <2>4. Sequel(step, ThenCompleted) /\ ~Look(step, ThenCompleted)
    BY <2>2, Kinds DEF Sequel
  <2>5. ThenCompleted # ThenRead
    BY HeadsAndTails DEF ThenCompleted, ThenRead
  <2>6. Under(step, Begins(step, c), ThenCompleted, c, s)
    BY <2>2, <2>5 DEF Under
  <2> QED
    BY <2>3, <2>4, <2>6 DEF Awaits, Owes
<1>2. CASE ~(s.profile = "" /\ s.profiles # <<>>)
  BY <1>2, CompletingAwaits DEF Normalize
<1> QED
  BY <1>1, <1>2

-----------------------------------------------------------------------------
(* Steps that end with a reload.                                           *)

LEMMA ReloadIsOne ==
  /\ Reloads(Reload) /\ \A c : Reloads(Start(c))
  /\ IsASequence(Reload)
<1>1. Reloads(Reload)
  <2>1. Len(Reload) = 2 /\ Reload[1] = <<"reload">> /\ Reload[2] = <<"normalize">>
    BY DEF Reload
  <2>2. 2 - 1 = 1 /\ 2 - 2 = 0 /\ 1..0 = {} /\ 2 >= 2
    OBVIOUS
  <2> QED
    BY <2>1, <2>2 DEF Reloads
<1>2. ASSUME NEW c PROVE Reloads(Start(c))
  <2>1. Len(Start(c)) = 3 /\ Start(c)[1] = <<"migrate">> /\ Start(c)[2] = <<"reload">> /\ Start(c)[3] = <<"normalize">>
    BY DEF Start
  <2>2. 3 - 1 = 2 /\ 3 - 2 = 1 /\ 1..1 = {1} /\ 3 >= 2
    OBVIOUS
  <2>3. <<"migrate">>[1] \notin Rereads
    BY DEF Rereads
  <2> QED
    BY <2>1, <2>2, <2>3 DEF Reloads
<1>3. IsASequence(Reload)
  BY ReloadIsGood DEF GoodSteps
<1> QED
  BY <1>1, <1>2, <1>3

LEMMA ReloadsLater ==
  ASSUME NEW S, NEW a \in Seq(S), NEW b \in Seq(S), Reloads(b), \A i \in 1..Len(a) : a[i][1] \notin Rereads
  PROVE  Reloads(a \o b)
<1> DEFINE s == a \o b
           n == Len(a)
           m == Len(b)
<1>1. n \in Nat /\ m \in Nat /\ m >= 2 /\ Len(s) = n + m
  BY DEF Reloads
<1>2. /\ \A i \in 1..n : s[i] = a[i]
      /\ \A i \in 1..m : s[n + i] = b[i]
  OBVIOUS
<1>3. /\ b[m - 1] = <<"reload">> /\ b[m] = <<"normalize">>
      /\ \A i \in 1..(m - 2) : b[i][1] \notin Rereads
  BY DEF Reloads
<1>4. \A i \in 1..n : a[i][1] \notin Rereads
  OBVIOUS
<1> HIDE DEF s, n, m
<1>5. m - 1 \in 1..m /\ m \in 1..m /\ n + (m - 1) = (n + m) - 1
  BY <1>1
<1>6. s[(n + m) - 1] = <<"reload">> /\ s[n + m] = <<"normalize">>
  BY <1>2, <1>3, <1>5
<1>7. ASSUME NEW i \in 1..((n + m) - 2) PROVE s[i][1] \notin Rereads
  <2>1. CASE i <= n
    BY <1>1, <1>2, <1>4, <2>1
  <2>2. CASE i > n
    <3>1. i - n \in 1..(m - 2) /\ i - n \in 1..m /\ n + (i - n) = i
      BY <1>1, <2>2
    <3> DEFINE k == i - n
    <3> HIDE DEF k
    <3>2. s[n + k] = b[k] /\ b[k][1] \notin Rereads /\ n + k = i
      BY <1>2, <1>3, <3>1 DEF k
    <3> QED
      BY <3>2
  <2> QED
    BY <1>1, <2>1, <2>2
<1>8. n + m >= 2
  BY <1>1
<1> QED
  BY <1>1, <1>6, <1>7, <1>8 DEF Reloads, s

LEMMA ReloadsTail ==
  ASSUME NEW S, NEW steps \in Seq(S), Reloads(steps)
  PROVE  /\ steps # <<>>
         /\ Head(steps)[1] \notin {"reload", "read", "normalize", "complete"} => Reloads(Tail(steps))
         /\ Head(steps)[1] \in {"reload", "read", "normalize", "complete"} =>
              Head(steps) = <<"reload">> /\ Tail(steps) = <<<<"normalize">>>>
<1> DEFINE n == Len(steps)
           t == Tail(steps)
<1>1. /\ n \in Nat /\ n >= 2 /\ steps[n - 1] = <<"reload">> /\ steps[n] = <<"normalize">>
      /\ \A i \in 1..(n - 2) : steps[i][1] \notin Rereads
  BY DEF Reloads
<1>2. steps # <<>> /\ Head(steps) = steps[1]
  BY <1>1
<1>3. t \in Seq(S) /\ Len(t) = n - 1 /\ \A i \in 1..(n - 1) : t[i] = steps[i + 1]
  BY <1>2
<1>4. CASE n = 2
  <2>1. Head(steps) = <<"reload">>
    BY <1>1, <1>2, <1>4
  <2>2. Len(t) = 1 /\ t[1] = <<"normalize">>
    BY <1>1, <1>3, <1>4
  <2>3. t = <<<<"normalize">>>>
    <3> HIDE DEF t
    <3> QED
      BY <1>3, <2>2
  <2>4. <<"reload">>[1] = "reload"
    OBVIOUS
  <2> QED
    BY <1>2, <2>1, <2>3, <2>4
<1>5. CASE n > 2
  <2>1. steps[1][1] \notin Rereads
    BY <1>1, <1>5
  <2> HIDE DEF n, t
  <2>2. /\ (n - 1) - 1 \in 1..(n - 1) /\ ((n - 1) - 1) + 1 = n - 1 /\ n - 1 \in 1..(n - 1) /\ (n - 1) + 1 = n
        /\ n - 1 >= 2
    BY <1>1, <1>5
  <2>3. t[(n - 1) - 1] = <<"reload">> /\ t[n - 1] = <<"normalize">>
    BY <1>1, <1>3, <2>2
  <2>4. ASSUME NEW i \in 1..((n - 1) - 2) PROVE t[i][1] \notin Rereads
    <3>1. i \in 1..(n - 1) /\ i + 1 \in 1..(n - 2)
      BY <1>1, <1>5
    <3> QED
      BY <1>1, <1>3, <3>1
  <2>5. Reloads(t)
    BY <1>3, <2>2, <2>3, <2>4 DEF Reloads
  <2> QED
    BY <1>2, <2>1, <2>5 DEF t, Rereads
<1>6. n = 2 \/ n > 2
  <2>1. n \in Nat /\ n >= 2
    BY <1>1
  <2> HIDE DEF n
  <2> QED
    BY <2>1
<1> QED
  BY <1>4, <1>5, <1>6, Zenon

\* What is left to do after a call that failed.
LEMMA FailureReloads ==
  ASSUME TodoInv, Reloads(todo), NEW step
  PROVE  AfterFailure(step) = <<>> \/ Reloads(AfterFailure(step))
<1> DEFINE n == Len(todo)
           reload == {i \in 1..n : todo[i][1] = "reload"}
           rest == SubSeq(todo, n - 1, n)
<1>1. /\ n \in Nat /\ n >= 2 /\ todo[n - 1] = <<"reload">> /\ todo[n] = <<"normalize">>
      /\ \A i \in 1..(n - 2) : todo[i][1] \notin Rereads
      /\ todo \in Seq(ToSet(todo))
  BY DEF Reloads, TodoInv, GoodSteps, IsASequence
<1> HIDE DEF n
<1>2. \A i \in 1..n : todo[i][1] = "reload" <=> i = n - 1
  <2> SUFFICES ASSUME NEW i \in 1..n PROVE todo[i][1] = "reload" <=> i = n - 1
    OBVIOUS
  <2>1. CASE i \in 1..(n - 2)
    BY <1>1, <2>1 DEF Rereads
  <2>2. CASE i = n - 1
    BY <1>1, <2>2
  <2>3. CASE i = n
    BY <1>1, <2>3
  <2> QED
    BY <1>1, <2>1, <2>2, <2>3
<1>3. reload = {n - 1}
  BY <1>1, <1>2
<1>4. (CHOOSE i \in reload : TRUE) = n - 1
  BY <1>3
<1>5. Reloads(rest)
  <2>1. Len(rest) = 2 /\ rest[1] = todo[n - 1] /\ rest[2] = todo[n]
    BY <1>1 DEF n
  <2>2. 2 - 1 = 1 /\ 2 - 2 = 0 /\ 1..0 = {} /\ 2 >= 2
    OBVIOUS
  <2> HIDE DEF rest
  <2> QED
    BY <1>1, <2>1, <2>2 DEF Reloads
<1>6. AfterFailure(step) \in {<<>>, rest, todo}
  BY <1>3, <1>4 DEF AfterFailure, n
<1> QED
  BY <1>5, <1>6

LEMMA FailureAwaits ==
  ASSUME NEW step, Sequel(step, todo)
  PROVE  Awaits(AfterFailure(step))
<1>1. CASE step[1] = "activate"
  BY <1>1, SequelAwaits DEF AfterFailure
<1>2. CASE step[1] \in {"save", "add"}
  <2> DEFINE reload == {i \in 1..Len(todo) : todo[i][1] = "reload"}
  <2>1. todo \in {<<>>, ThenRead, <<<<"activate", step[2]>>, <<"read">>>>}
    BY <1>2 DEF Sequel
  <2>2. \A i \in 1..Len(todo) : todo[i][1] # "reload"
    <3>1. CASE todo = <<>>
      BY <3>1
    <3>2. CASE todo = ThenRead
      BY <3>2 DEF ThenRead
    <3>3. CASE todo = <<<<"activate", step[2]>>, <<"read">>>>
      <4>1. Len(todo) = 2 /\ todo[1][1] = "activate" /\ todo[2][1] = "read"
        BY <3>3
      <4> QED
        BY <4>1
    <3> QED
      BY <2>1, <3>1, <3>2, <3>3
  <2>3. reload = {}
    BY <2>2
  <2>4. AfterFailure(step) = <<>>
    BY <1>2, <2>3 DEF AfterFailure
  <2> QED
    BY <2>4 DEF Awaits
<1> QED
  BY <1>1, <1>2 DEF Sequel

-----------------------------------------------------------------------------
(* What is shown stays what the card has: the calls of the core.           *)

LEMMA CallersAre ==
  ASSUME ManagerInv, CallerInv
  PROVE  /\ NoCall.who = "none" /\ NoJob.stage = "none" /\ NoCall.ops = <<>>
         /\ call.ops # <<>> => call.who \in {"interface", "worker"}
         /\ call.who = "worker" => job # NoJob
<1>1. NoCall.who = "none" /\ NoJob.stage = "none" /\ NoCall.ops = <<>>
  BY DEF NoCall, NoJob
<1> QED
  BY <1>1 DEF CallerInv

LEMMA EndsCall ==
  ASSUME ManagerInv, CallerInv, NEW left, Ends(left)
  PROVE  /\ call' = NoCall /\ CallerInv' /\ call'.who # "interface"
         /\ todo' = (IF call.who = "interface" THEN left ELSE todo)
         /\ call.who = "interface" => job' = job
         /\ call.who = "worker" => job # NoJob /\ job' # NoJob
<1>1. call' = NoCall /\ todo' = (IF call.who = "interface" THEN left ELSE todo)
  BY DEF Ends
<1>2. call'.who = "none"
  BY <1>1, CallersAre
<1>3. job = [stage |-> job.stage, archive |-> job.archive, candidate |-> job.candidate]
  BY DEF ManagerInv, JobInv
<1>4. job' = [job EXCEPT !.stage = IF call.who = "worker" THEN AfterJob ELSE job.stage]
  BY DEF Ends
<1>5. call.who = "interface" => job' = job
  BY <1>3, <1>4
<1>6. ASSUME call.who = "worker" PROVE job # NoJob /\ job' # NoJob
  <2>1. AfterJob # "none"
    BY <1>6 DEF CallerInv, AfterJob
  <2>2. job'.stage = AfterJob
    BY <1>3, <1>4, <1>6
  <2> QED
    BY <1>6, <2>1, <2>2, CallersAre
<1>7. CallerInv'
  BY <1>1, <1>2 DEF CallerInv
<1> QED
  BY <1>1, <1>2, <1>5, <1>6, <1>7

LEMMA WorksShows == ManagerInv /\ ScreenIsCardInv /\ Works => ScreenIsCardInv'
<1> SUFFICES ASSUME ManagerInv, ScreenIsCardInv, Works PROVE ScreenIsCardInv'
  OBVIOUS
<1> DEFINE done == Tail(call.ops) = <<>>
<1>1. /\ call.ops # <<>> /\ card' = Do(Head(call.ops), card)
      /\ on' = on /\ screen' = screen /\ unsaved' = unsaved
      /\ IF done THEN Ends(todo) ELSE call' = [call EXCEPT !.ops = Tail(@)] /\ UNCHANGED <<todo, held, job>>
  BY DEF Works
<1>2. CallerInv /\ (on => ShownInv) /\ CardIsWhole(card)
  BY DEF ScreenIsCardInv, ManagerInv, CardInv
<1>3. call = [who |-> call.who, step |-> call.step, ops |-> call.ops]
  BY DEF ManagerInv, CallInv
<1>4. call.who \in {"interface", "worker"}
  BY <1>1, <1>2, CallersAre
<1>5. CASE done
  <2>1. /\ call' = NoCall /\ CallerInv' /\ call'.who # "interface" /\ todo' = todo
        /\ call.who = "interface" => job' = job
        /\ call.who = "worker" => job # NoJob /\ job' # NoJob
    BY <1>1, <1>2, <1>5, EndsCall
  <2> SUFFICES ASSUME on PROVE ShownInv'
    BY <1>1, <2>1 DEF ScreenIsCardInv
  <2>2. CASE Reloads(todo)
    BY <2>1, <2>2 DEF ShownInv
  <2>3. CASE call.who = "interface" /\ Sequel(call.step, todo) /\ (Clean => Under(call.step, call.ops, todo, card, screen))
    <3>1. Awaits(todo)
      BY <2>3, SequelAwaits
    <3>2. Clean' <=> Clean
      BY <1>1, <2>1, <2>3 DEF Clean
    <3>3. Clean => Owes(todo, card', screen)
      BY <1>1, <1>2, <1>5, <2>3, UnderGoesOn
    <3> QED
      BY <1>1, <2>1, <3>1, <3>2, <3>3 DEF ShownInv
  <2>4. CASE call.who # "interface" /\ Awaits(todo)
    <3>1. ~Clean'
      BY <1>4, <2>1, <2>4 DEF Clean
    <3> QED
      BY <2>1, <2>4, <3>1 DEF ShownInv
  <2> QED
    BY <1>2, <2>2, <2>3, <2>4 DEF ShownInv
<1>6. CASE ~done
  <2>1. /\ call'.who = call.who /\ call'.step = call.step /\ call'.ops = Tail(call.ops)
        /\ todo' = todo /\ job' = job
    BY <1>1, <1>3, <1>6
  <2>2. CallerInv'
    BY <1>2, <1>4, <2>1 DEF CallerInv
  <2> SUFFICES ASSUME on PROVE ShownInv'
    BY <1>1, <2>2 DEF ScreenIsCardInv
  <2>3. Clean' <=> Clean
    BY <1>1, <2>1 DEF Clean
  <2>4. CASE Reloads(todo)
    BY <2>1, <2>4 DEF ShownInv
  <2>5. CASE call.who = "interface" /\ Sequel(call.step, todo) /\ (Clean => Under(call.step, call.ops, todo, card, screen))
    <3>1. Clean => Under(call.step, Tail(call.ops), todo, card', screen)
      BY <1>1, <1>2, <1>6, <2>5, UnderGoesOn
    <3> QED
      BY <1>1, <2>1, <2>3, <2>5, <3>1 DEF ShownInv
  <2>6. CASE call.who # "interface" /\ Awaits(todo)
    <3>1. ~Clean
      BY <1>2, <1>4, <2>6, CallersAre DEF Clean
    <3> QED
      BY <2>1, <2>3, <2>6, <3>1 DEF ShownInv
  <2> QED
    BY <1>2, <2>4, <2>5, <2>6 DEF ShownInv
<1> QED
  BY <1>5, <1>6

LEMMA FailsNowShows == ManagerInv /\ ScreenIsCardInv /\ FailsNow => ScreenIsCardInv'
<1> SUFFICES ASSUME ManagerInv, ScreenIsCardInv, FailsNow PROVE ScreenIsCardInv'
  OBVIOUS
<1>1. call.ops # <<>> /\ Ends(AfterFailure(call.step)) /\ unsaved' = TRUE /\ on' = on
  BY DEF FailsNow
<1>2. CallerInv /\ (on => ShownInv)
  BY DEF ScreenIsCardInv
<1>3. /\ CallerInv' /\ call'.who # "interface"
      /\ todo' = (IF call.who = "interface" THEN AfterFailure(call.step) ELSE todo)
  BY <1>1, <1>2, EndsCall
<1> SUFFICES ASSUME on PROVE ShownInv'
  BY <1>1, <1>3 DEF ScreenIsCardInv
<1>4. ~Clean'
  BY <1>1 DEF Clean
<1>5. Awaits(todo') \/ Reloads(todo')
  <2>1. CASE Reloads(todo)
    <3>1. AfterFailure(call.step) = <<>> \/ Reloads(AfterFailure(call.step))
      BY <2>1, FailureReloads DEF ManagerInv
    <3>2. Awaits(<<>>)
      BY DEF Awaits
    <3> QED
      BY <1>3, <2>1, <3>1, <3>2
  <2>2. CASE call.who = "interface" /\ Sequel(call.step, todo)
    BY <1>3, <2>2, FailureAwaits
  <2>3. CASE call.who # "interface" /\ Awaits(todo)
    BY <1>3, <2>3
  <2> QED
    BY <1>2, <2>1, <2>2, <2>3 DEF ShownInv
<1> QED
  BY <1>3, <1>4, <1>5 DEF ShownInv

-----------------------------------------------------------------------------
(* The interface.                                                          *)

\* What the interface is about to do, when it does something.
LEMMA NextStep ==
  ASSUME ManagerInv, ScreenIsCardInv, on, Free, todo # <<>>
  PROVE  /\ CallerInv /\ call.who # "interface"
         /\ \/ Reloads(todo)
            \/ Awaits(todo) /\ (Clean => Owes(todo, card, screen))
<1>1. call.who = "none"
  BY CallersAre DEF Free, NoCall
<1>2. ShownInv /\ CallerInv
  BY DEF ScreenIsCardInv
<1>3. Reloads(todo) \/ (Awaits(todo) /\ (Clean => Owes(todo, card, screen)))
  BY <1>1, <1>2 DEF ShownInv
<1> QED
  BY <1>1, <1>2, <1>3

LEMMA ReadsShows == ManagerInv /\ ScreenIsCardInv /\ Reads => ScreenIsCardInv'
<1> SUFFICES ASSUME ManagerInv, ScreenIsCardInv, Reads PROVE ScreenIsCardInv'
  OBVIOUS
<1>1. /\ on /\ Free /\ todo # <<>> /\ Head(todo)[1] \in {"reload", "read"}
      /\ screen' = StateOf(card) /\ todo' = Tail(todo) /\ unsaved' = (unsaved /\ Head(todo)[1] = "read")
      /\ card' = card /\ call' = call /\ job' = job /\ on' = on
  BY DEF Reads
<1>2. /\ CallerInv /\ call.who # "interface"
      /\ Reloads(todo) \/ (Awaits(todo) /\ (Clean => Owes(todo, card, screen)))
  BY <1>1, NextStep
<1>3. CallerInv'
  BY <1>1, <1>2 DEF CallerInv
<1> DEFINE looked == <<"normalize">>
<1>4. CASE Reloads(todo)
  <2>1. todo' = <<looked>>
    BY <1>1, <1>4, ReloadsTail DEF ManagerInv, TodoInv, GoodSteps, IsASequence
  <2>2. todo' # <<>> /\ Head(todo') = looked /\ Tail(todo') = <<>>
    BY <2>1, HeadsAndTails
  <2>3. Look(looked, <<>>) /\ ~Sequel(looked, <<>>)
    BY Kinds DEF Look
  <2>4. Sees(looked, <<>>, card', screen')
    <3>1. looked # <<"read">>
      OBVIOUS
    <3> QED
      BY <1>1, <3>1 DEF Sees
  <2> HIDE DEF looked
  <2>5. Awaits(todo') /\ Owes(todo', card', screen')
    BY <2>2, <2>3, <2>4 DEF Awaits, Owes
  <2> QED
    BY <1>1, <1>2, <1>3, <2>5 DEF ScreenIsCardInv, ShownInv
<1>5. CASE Awaits(todo) /\ (Clean => Owes(todo, card, screen))
  <2>1. Look(Head(todo), Tail(todo)) /\ Head(todo) = <<"read">>
    <3>1. Look(Head(todo), Tail(todo))
      BY <1>1, <1>5, Kinds DEF Awaits
    <3>2. <<"normalize">>[1] = "normalize" /\ <<"complete">>[1] = "complete"
      OBVIOUS
    <3> QED
      BY <1>1, <3>1, <3>2 DEF Look
  <2>2. Clean' <=> Clean
    <3>1. Head(todo)[1] = "read"
      BY <2>1
    <3> QED
      BY <1>1, <3>1 DEF Clean
  <2>3. Awaits(todo')
    BY <1>1, <2>1, ReadingSees
  <2>4. ASSUME Clean PROVE Owes(todo', card', screen')
    <3>1. Sees(<<"read">>, Tail(todo), card, screen)
      BY <1>1, <1>5, <2>1, <2>4 DEF Owes
    <3> QED
      BY <1>1, <2>1, <3>1, ReadingSees
  <2> QED
    BY <1>1, <1>2, <1>3, <2>2, <2>3, <2>4 DEF ScreenIsCardInv, ShownInv
<1> QED
  BY <1>2, <1>4, <1>5

LEMMA NormalizesShows == ManagerInv /\ ScreenIsCardInv /\ Normalizes => ScreenIsCardInv'
<1> SUFFICES ASSUME ManagerInv, ScreenIsCardInv, Normalizes PROVE ScreenIsCardInv'
  OBVIOUS
<1>1. /\ on /\ Free /\ todo # <<>> /\ Head(todo)[1] \in {"normalize", "complete"}
      /\ todo' = IF Head(todo)[1] = "normalize" THEN Normalize(screen) ELSE Complete(screen)
      /\ card' = card /\ call' = call /\ screen' = screen /\ job' = job /\ on' = on /\ unsaved' = unsaved
  BY DEF Normalizes
<1>2. /\ CallerInv /\ call.who # "interface"
      /\ Reloads(todo) \/ (Awaits(todo) /\ (Clean => Owes(todo, card, screen)))
  BY <1>1, NextStep
<1>3. CallerInv' /\ (Clean' <=> Clean)
  BY <1>1, <1>2 DEF CallerInv, Clean
<1>4. ~Reloads(todo)
  <2>1. ASSUME Reloads(todo) PROVE Head(todo) = <<"reload">>
    BY <1>1, <2>1, ReloadsTail DEF ManagerInv, TodoInv, GoodSteps, IsASequence
  <2> QED
    BY <1>1, <2>1
<1>5. Look(Head(todo), Tail(todo)) /\ Head(todo) \in {<<"normalize">>, <<"complete">>}
  <2>1. Look(Head(todo), Tail(todo))
    BY <1>1, <1>2, <1>4, Kinds DEF Awaits
  <2>2. <<"read">>[1] = "read"
    OBVIOUS
  <2> QED
    BY <1>1, <2>1, <2>2 DEF Look
<1>6. Clean => screen = StateOf(card)
  BY <1>1, <1>2, <1>4, <1>5 DEF Owes, Sees
<1>7. Awaits(todo') /\ (screen = StateOf(card) => Owes(todo', card, screen))
  <2>1. GoodMods(screen.mods) /\ IsModList(screen.entries)
    BY DEF ManagerInv, ScreenInv
  <2> QED
    BY <1>1, <2>1, NormalizingAwaits, CompletingAwaits
<1> QED
  BY <1>1, <1>2, <1>3, <1>6, <1>7 DEF ScreenIsCardInv, ShownInv

LEMMA MigratesShows == ManagerInv /\ ScreenIsCardInv /\ Migrates => ScreenIsCardInv'
<1> SUFFICES ASSUME ManagerInv, ScreenIsCardInv, Migrates PROVE ScreenIsCardInv'
  OBVIOUS
<1> DEFINE packages == InOrder(Migratable(card))
           steps == [i \in 1..Len(packages) |-> <<"package", packages[i]>>]
           rest == Tail(todo)
<1>1. /\ on /\ Free /\ todo # <<>> /\ Head(todo)[1] = "migrate" /\ todo' = steps \o rest
      /\ call' = call /\ job' = job /\ on' = on
  BY DEF Migrates
<1>2. /\ CallerInv /\ call.who # "interface"
      /\ Reloads(todo) \/ Awaits(todo)
  BY <1>1, NextStep
<1>3. CallerInv'
  BY <1>1, <1>2 DEF CallerInv
<1>4. Reloads(todo)
  BY <1>1, <1>2, Kinds DEF Awaits
<1>5. todo \in Seq(ToSet(todo))
  BY DEF ManagerInv, TodoInv, GoodSteps, IsASequence
<1>6. Reloads(rest)
  BY <1>1, <1>4, <1>5, ReloadsTail
<1>7. Len(packages) \in Nat
  BY NumberOfNames
<1> HIDE DEF packages
<1>8. steps \in Seq({<<"package", packages[i]>> : i \in 1..Len(packages)}) /\ Len(steps) = Len(packages)
  BY <1>7
<1>9. \A i \in 1..Len(steps) : steps[i][1] \notin Rereads
  <2>1. \A i \in 1..Len(packages) : steps[i] = <<"package", packages[i]>>
    OBVIOUS
  <2>2. \A x : <<"package", x>>[1] = "package"
    OBVIOUS
  <2>3. "package" \notin Rereads
    BY DEF Rereads
  <2> HIDE DEF steps
  <2> QED
    BY <1>8, <2>1, <2>2, <2>3
<1> HIDE DEF steps
<1>10. rest \in Seq(ToSet(todo))
  BY <1>1, <1>5
<1> HIDE DEF rest
<1>11. Reloads(steps \o rest)
  <2> DEFINE S == {<<"package", packages[i]>> : i \in 1..Len(packages)}
  <2> HIDE DEF S
  <2>1. steps \in Seq(S \cup ToSet(todo)) /\ rest \in Seq(S \cup ToSet(todo))
    BY <1>8, <1>10 DEF S
  <2> QED
    BY <1>6, <1>9, <2>1, ReloadsLater
<1> QED
  BY <1>1, <1>3, <1>11 DEF ScreenIsCardInv, ShownInv

LEMMA CallsCoreShows == ManagerInv /\ ScreenIsCardInv /\ CallsCore => ScreenIsCardInv'
<1> SUFFICES ASSUME ManagerInv, ScreenIsCardInv, CallsCore PROVE ScreenIsCardInv'
  OBVIOUS
<1> DEFINE step == Head(todo)
           ops == Calls(step)
<1>1. /\ on /\ Free /\ todo # <<>> /\ step[1] \notin {"reload", "read", "normalize", "complete", "migrate"}
      /\ call' = (IF ops = <<>> THEN NoCall ELSE [who |-> "interface", step |-> step, ops |-> ops])
      /\ todo' = Tail(todo)
      /\ card' = card /\ screen' = screen /\ job' = job /\ on' = on /\ unsaved' = unsaved
  BY DEF CallsCore
<1>2. /\ CallerInv /\ call.who # "interface"
      /\ Reloads(todo) \/ (Awaits(todo) /\ (Clean => Owes(todo, card, screen)))
  BY <1>1, NextStep
<1>3. CallerInv'
  <2>1. call'.who \in {"none", "interface"} /\ (call'.who = "none" => call' = NoCall)
    BY <1>1, CallersAre, <1>2
  <2> QED
    BY <2>1 DEF CallerInv
<1>4. Clean' <=> Clean
  BY <1>1 DEF Clean
<1>5. CASE Reloads(todo)
  <2>1. Reloads(Tail(todo))
    BY <1>1, <1>5, ReloadsTail DEF ManagerInv, TodoInv, GoodSteps, IsASequence
  <2> QED
    BY <1>1, <1>3, <2>1 DEF ScreenIsCardInv, ShownInv
<1>6. CASE Awaits(todo) /\ (Clean => Owes(todo, card, screen))
  <2>1. Sequel(step, Tail(todo))
    BY <1>1, <1>6, Kinds DEF Awaits
  <2>2. step[1] \in {"activate", "add", "save"}
    BY <2>1, Kinds
  <2>3. ops = Begins(step, card) /\ ops # <<>>
    BY <2>2, BeginsCalls
  <2>4. call'.who = "interface" /\ call'.step = step /\ call'.ops = ops
    BY <1>1, <2>3
  <2>5. Clean => Under(step, Begins(step, card), Tail(todo), card, screen)
    BY <1>1, <1>6, <2>1 DEF Owes
  <2> HIDE DEF ops, step
  <2>6. Sequel(call'.step, todo')
    BY <1>1, <2>1, <2>4 DEF step
  <2>7. Clean' => Under(call'.step, call'.ops, todo', card', screen')
    BY <1>1, <1>4, <2>3, <2>4, <2>5
  <2> QED
    BY <1>1, <1>3, <2>4, <2>6, <2>7 DEF ScreenIsCardInv, ShownInv
<1> QED
  BY <1>2, <1>5, <1>6

-----------------------------------------------------------------------------
(* The user, the installation, and the card in a computer.                 *)

LEMMA IdleIs ==
  ASSUME ManagerInv, ScreenIsCardInv, Idle
  PROVE  CallerInv /\ on /\ todo = <<>> /\ (Clean => Settled(card, screen))
<1>1. CallerInv /\ on /\ todo = <<>> /\ call.who # "interface" /\ ShownInv
  BY DEF ScreenIsCardInv, Idle
<1>2. ~Reloads(<<>>)
  BY DEF Reloads
<1> QED
  BY <1>1, <1>2 DEF ShownInv, Owes

\* What leaves the calls alone, and ends with a reload.
LEMMA ReloadingShows ==
  ASSUME ScreenIsCardInv, call' = call, job' = job, Reloads(todo')
  PROVE  ScreenIsCardInv'
BY DEF ScreenIsCardInv, CallerInv, ShownInv

LEMMA StepAndReload ==
  ASSUME NEW step, step[1] \notin Rereads
  PROVE  Reloads(<<step>> \o Reload)
<1> DEFINE S == ToSet(Reload) \cup {step}
<1>1. Reload \in Seq(S) /\ <<step>> \in Seq(S)
  BY ReloadIsOne DEF IsASequence
<1>2. \A i \in 1..Len(<<step>>) : <<step>>[i][1] \notin Rereads
  OBVIOUS
<1> HIDE DEF S
<1> QED
  BY <1>1, <1>2, ReloadIsOne, ReloadsLater

LEMMA TwoStepsAndReload ==
  ASSUME NEW a, NEW b, a[1] \notin Rereads, b[1] \notin Rereads
  PROVE  Reloads(<<a, b>> \o Reload)
<1> DEFINE S == ToSet(Reload) \cup {a, b}
<1>1. Reload \in Seq(S) /\ <<a, b>> \in Seq(S)
  BY ReloadIsOne DEF IsASequence
<1>2. \A i \in 1..Len(<<a, b>>) : <<a, b>>[i][1] \notin Rereads
  OBVIOUS
<1> HIDE DEF S
<1> QED
  BY <1>1, <1>2, ReloadIsOne, ReloadsLater

\* The acts that are followed by a reload.
LEMMA ActsShow ==
  ASSUME ScreenIsCardInv, NEW steps, Acts(steps), Reloads(steps)
  PROVE  ScreenIsCardInv'
BY ReloadingShows DEF Acts

LEMMA OtherActsShow ==
  ASSUME ScreenIsCardInv, NEW name, NEW to, NEW copy,
         Create(name, copy) \/ Activate(name) \/ Rename(name, to) \/ Delete(name) \/ UninstallMod(name) \/ LoadPlugins(name)
  PROVE  ScreenIsCardInv'
<1>0. {"save", "activate", "rename", "delete", "uninstall", "plugins"} \cap Rereads = {}
  BY DEF Rereads
<1>1. CASE Create(name, copy)
  <2>1. PICK list : Acts(<<<<"save", name, list>>, <<"activate", name>>>> \o Reload)
    BY <1>1 DEF Create
  <2>2. <<"save", name, list>>[1] \notin Rereads /\ <<"activate", name>>[1] \notin Rereads
    BY <1>0
  <2>3. Reloads(<<<<"save", name, list>>, <<"activate", name>>>> \o Reload)
    BY <2>2, TwoStepsAndReload
  <2> QED
    BY <2>1, <2>3, ActsShow
<1>2. ASSUME NEW step, step[1] \in {"activate", "rename", "delete", "uninstall", "plugins"}, Acts(<<step>> \o Reload)
      PROVE  ScreenIsCardInv'
  BY <1>0, <1>2, StepAndReload, ActsShow
<1>3. CASE Activate(name)
  <2>1. Acts(<<<<"activate", name>>>> \o Reload) /\ <<"activate", name>>[1] = "activate"
    BY <1>3 DEF Activate
  <2> QED
    BY <1>2, <2>1
<1>4. CASE Rename(name, to)
  <2>1. Acts(<<<<"rename", name, to>>>> \o Reload) /\ <<"rename", name, to>>[1] = "rename"
    BY <1>4 DEF Rename
  <2> QED
    BY <1>2, <2>1
<1>5. CASE Delete(name)
  <2>1. Acts(<<<<"delete", name>>>> \o Reload) /\ <<"delete", name>>[1] = "delete"
    BY <1>5 DEF Delete
  <2> QED
    BY <1>2, <2>1
<1>6. CASE UninstallMod(name)
  <2>1. Acts(<<<<"uninstall", name>>>> \o Reload) /\ <<"uninstall", name>>[1] = "uninstall"
    BY <1>6 DEF UninstallMod
  <2> QED
    BY <1>2, <2>1
<1>7. CASE LoadPlugins(name)
  <2>1. PICK loaded : Acts(<<<<"plugins", name, loaded>>>> \o Reload)
    BY <1>7 DEF LoadPlugins
  <2>2. <<"plugins", name, loaded>>[1] = "plugins"
    OBVIOUS
  <2> QED
    BY <1>2, <2>1, <2>2
<1> QED
  BY <1>1, <1>3, <1>4, <1>5, <1>6, <1>7

\* The list on the screen changes and is saved.
LEMMA SavesShow ==
  ASSUME ManagerInv, ScreenIsCardInv, NEW entries, IsModList(entries), Saves(entries),
         Covers(screen.entries, screen.mods) => Covers(entries, screen.mods)
  PROVE  ScreenIsCardInv'
<1> DEFINE step == <<"save", screen.profile, entries>>
<1>1. /\ Idle /\ todo' = <<step>> /\ screen' = [screen EXCEPT !.entries = entries]
      /\ card' = card /\ call' = call /\ job' = job /\ on' = on /\ unsaved' = unsaved
  BY DEF Saves, Acts
<1>2. /\ CallerInv /\ on /\ (Clean => Settled(card, screen)) /\ call.who # "interface"
  BY <1>1, IdleIs DEF Idle
<1>3. CallerInv' /\ (Clean' <=> Clean) /\ call'.who # "interface"
  BY <1>1, <1>2 DEF CallerInv, Clean
<1>4. screen'.profile = screen.profile /\ screen'.mods = screen.mods /\ screen'.entries = entries
  <2>1. screen = [profile |-> screen.profile, exists |-> screen.exists, profiles |-> screen.profiles,
                  entries |-> screen.entries, mods |-> screen.mods]
    BY DEF ManagerInv, ScreenInv
  <2> QED
    BY <1>1, <2>1
<1>5. step[1] = "save" /\ step[2] = screen.profile /\ step[3] = entries
  OBVIOUS
<1> HIDE DEF step
<1>6. todo' # <<>> /\ Head(todo') = step /\ Tail(todo') = <<>>
  BY <1>1, HeadsAndTails
<1>7. Sequel(step, <<>>) /\ ~Look(step, <<>>) /\ <<>> # ThenRead
  BY <1>5, Kinds, HeadsAndTails DEF Sequel, ThenRead
<1>8. ASSUME Clean PROVE Under(step, Begins(step, card), <<>>, card, screen')
  <2>1. Settled(card, screen)
    BY <1>2, <1>8
  <2>2. Agrees(card, screen') /\ Covers(entries, Scan(card)) /\ screen.profile # ""
    BY <1>4, <2>1 DEF Settled, Agrees
  <2>3. SavesTo(Begins(step, card), card, step[2], step[3])
    BY <1>5 DEF Begins, SavesTo
  <2> QED
    BY <1>4, <1>5, <1>7, <2>2, <2>3 DEF Under
<1>9. Awaits(todo')
  BY <1>6, <1>7 DEF Awaits
<1>10. Clean' => Owes(todo', card', screen')
  BY <1>1, <1>3, <1>6, <1>7, <1>8 DEF Owes
<1> QED
  BY <1>3, <1>9, <1>10 DEF ScreenIsCardInv, ShownInv

LEMMA ToggleShows ==
  ASSUME ManagerInv, ScreenIsCardInv, NEW folder, Toggle(folder)
  PROVE  ScreenIsCardInv'
<1> DEFINE list == screen.entries
<1>1. PICK i \in FindEntry(list, folder) : Saves([list EXCEPT ![i].enabled = ~list[i].enabled])
  BY DEF Toggle
<1>2. IsModList(list)
  BY DEF ManagerInv, ScreenInv
<1>3. i \in 1..Len(list) /\ list \in Seq(Entry)
  BY <1>2 DEF FindEntry, IsModList
<1> DEFINE e == [list[i] EXCEPT !.enabled = ~list[i].enabled]
<1>4. list[i] \in Entry
  BY <1>3
<1>5. e \in Entry /\ e.folder = list[i].folder
  BY <1>4 DEF Entry
<1>6. [list EXCEPT ![i].enabled = ~list[i].enabled] = [list EXCEPT ![i] = e]
  BY <1>3
<1> HIDE DEF e, list
<1>7. IsModList([list EXCEPT ![i] = e])
  BY <1>2, <1>3, <1>5, Changed
<1>8. Covers(list, screen.mods) => Covers([list EXCEPT ![i] = e], screen.mods)
  BY <1>2, <1>3, <1>5, ChangedCovers
<1> QED
  BY <1>1, <1>6, <1>7, <1>8, SavesShow DEF list

LEMMA SelectShows ==
  ASSUME ManagerInv, ScreenIsCardInv, NEW folder, NEW option \in OptionNames, Select(folder, option)
  PROVE  ScreenIsCardInv'
<1> DEFINE list == screen.entries
<1>1. PICK i \in FindEntry(list, folder) : Saves([list EXCEPT ![i].options = Selected(option)])
  BY DEF Select
<1>2. IsModList(list)
  BY DEF ManagerInv, ScreenInv
<1>3. i \in 1..Len(list) /\ list \in Seq(Entry)
  BY <1>2 DEF FindEntry, IsModList
<1> DEFINE e == [list[i] EXCEPT !.options = Selected(option)]
<1>4. list[i] \in Entry
  BY <1>3
<1>5. e \in Entry /\ e.folder = list[i].folder
  BY <1>4 DEF Entry
<1>6. [list EXCEPT ![i].options = Selected(option)] = [list EXCEPT ![i] = e]
  BY <1>3
<1> HIDE DEF e, list
<1>7. IsModList([list EXCEPT ![i] = e])
  BY <1>2, <1>3, <1>5, Changed
<1>8. Covers(list, screen.mods) => Covers([list EXCEPT ![i] = e], screen.mods)
  BY <1>2, <1>3, <1>5, ChangedCovers
<1> QED
  BY <1>1, <1>6, <1>7, <1>8, SavesShow DEF list

LEMMA MoveShows ==
  ASSUME ManagerInv, ScreenIsCardInv, NEW folder, NEW position \in Nat, Move(folder, position)
  PROVE  ScreenIsCardInv'
<1>1. InstalledOn(screen, folder) /\ Saves(Moves(screen.entries, folder, position))
  BY DEF Move
<1>2. IsModList(screen.entries)
  BY DEF ManagerInv, ScreenInv
<1>3. IsModList(Moves(screen.entries, folder, position))
  BY <1>1, <1>2, MovesIsAList
<1>4. Covers(screen.entries, screen.mods) => Covers(Moves(screen.entries, folder, position), screen.mods)
  BY <1>1, <1>2, MovesCovers
<1> QED
  BY <1>1, <1>3, <1>4, SavesShow

LEMMA DownloadShows ==
  ASSUME ManagerInv, ScreenIsCardInv, NEW name, Download(name)
  PROVE  ScreenIsCardInv'
<1>1. /\ Idle /\ Free /\ job'.stage = "install"
      /\ call' = call /\ todo' = todo /\ on' = on
  BY DEF Download
<1>2. CallerInv /\ todo = <<>> /\ call.who # "interface"
  BY <1>1, IdleIs DEF Idle
<1>3. call.who = "none" /\ CallerInv'
  BY <1>1, <1>2, CallersAre DEF Free, CallerInv, NoCall
<1>4. ~Clean'
  BY <1>1, CallersAre, <1>2 DEF Clean
<1> QED
  BY <1>1, <1>2, <1>3, <1>4 DEF ScreenIsCardInv, ShownInv, Awaits

LEMMA WorkerCallsShows == ManagerInv /\ ScreenIsCardInv /\ WorkerCalls => ScreenIsCardInv'
<1> SUFFICES ASSUME ManagerInv, ScreenIsCardInv, WorkerCalls PROVE ScreenIsCardInv'
  OBVIOUS
<1>1. /\ job.stage \in {"install", "clean"} /\ Free /\ call'.who = "worker"
      /\ card' = card /\ todo' = todo /\ screen' = screen /\ job' = job /\ on' = on /\ unsaved' = unsaved
  BY DEF WorkerCalls
<1>2. CallerInv /\ call.who # "interface" /\ job # NoJob
  BY <1>1, CallersAre DEF ScreenIsCardInv, Free, NoCall
<1>3. CallerInv' /\ call'.who # "interface"
  BY <1>1 DEF CallerInv
<1>4. ~Clean'
  BY <1>1, <1>2 DEF Clean
<1> QED
  BY <1>1, <1>2, <1>3, <1>4 DEF ScreenIsCardInv, ShownInv

LEMMA JobDoneShows == ManagerInv /\ ScreenIsCardInv /\ JobDone => ScreenIsCardInv'
<1> SUFFICES ASSUME ManagerInv, ScreenIsCardInv, JobDone PROVE ScreenIsCardInv'
  OBVIOUS
<1>1. /\ Idle /\ job.stage = "posted" /\ todo' = Reload /\ call' = call /\ on' = on
  BY DEF JobDone
<1>2. CallerInv /\ call.who \notin {"interface", "worker"}
  BY <1>1, IdleIs DEF Idle, CallerInv
<1>3. CallerInv'
  BY <1>1, <1>2 DEF CallerInv
<1> QED
  BY <1>1, <1>3, ReloadIsOne DEF ScreenIsCardInv, ShownInv

LEMMA OpenShows == ManagerInv /\ ScreenIsCardInv /\ Open => ScreenIsCardInv'
<1> SUFFICES ASSUME ManagerInv, ScreenIsCardInv, Open PROVE ScreenIsCardInv'
  OBVIOUS
<1>1. Free /\ todo' = Start(card) /\ call' = call
  BY DEF Open
<1>2. CallerInv'
  BY <1>1, CallersAre DEF ScreenIsCardInv, CallerInv, Free, NoCall
<1>3. Reloads(todo')
  BY <1>1, ReloadIsOne
<1> QED
  BY <1>2, <1>3 DEF ScreenIsCardInv, ShownInv

\* The manager is closed.
LEMMA ClosedShows == ScreenIsCardInv /\ (Quit \/ PowerCut \/ ByHand) => ScreenIsCardInv'
<1> SUFFICES ASSUME ScreenIsCardInv, Quit \/ PowerCut \/ ByHand PROVE ScreenIsCardInv'
  OBVIOUS
<1>1. ~on'
  BY DEF Quit, PowerCut, ByHand
<1>2. (call' = call /\ job' = job) \/ call' = NoCall
  BY DEF Quit, PowerCut, ByHand
<1>3. NoCall.who = "none"
  BY DEF NoCall
<1>4. CallerInv'
  BY <1>2, <1>3 DEF ScreenIsCardInv, CallerInv
<1> QED
  BY <1>1, <1>4 DEF ScreenIsCardInv

LEMMA NextShows == ManagerInv /\ ScreenIsCardInv /\ [Next]_vars => ScreenIsCardInv'
<1> SUFFICES ASSUME ManagerInv, ScreenIsCardInv, [Next]_vars PROVE ScreenIsCardInv'
  OBVIOUS
<1>1. CASE UNCHANGED vars
  BY <1>1 DEF ScreenIsCardInv, CallerInv, ShownInv, Clean, vars
<1>2. CASE Works \/ FailsNow \/ Reads \/ Normalizes \/ Migrates \/ CallsCore
  BY <1>2, WorksShows, FailsNowShows, ReadsShows, NormalizesShows, MigratesShows, CallsCoreShows
<1>3. CASE \E folder \in Folders : Toggle(folder) \/ UninstallMod(folder) \/ LoadPlugins(folder)
  BY <1>3, ToggleShows, OtherActsShow
<1>4. CASE \E folder \in Folders, option \in OptionNames : Select(folder, option)
  BY <1>4, SelectShows
<1>5. CASE \E folder \in Folders, position \in 0..(Len(screen.mods) - 1) : Move(folder, position)
  <2>1. \A position \in 0..(Len(screen.mods) - 1) : position \in Nat
    OBVIOUS
  <2> QED
    BY <1>5, <2>1, MoveShows
<1>6. CASE \/ \E name \in NewNames, copy \in BOOLEAN : Create(name, copy)
           \/ \E name \in ToSet(screen.profiles) : Activate(name) \/ Delete(name)
           \/ \E name \in ToSet(screen.profiles), to \in NewNames : Rename(name, to)
  BY <1>6, OtherActsShow
<1>7. CASE \E name \in DOMAIN Archives : Download(name)
  BY <1>7, DownloadShows
<1>8. CASE WorkerCalls \/ JobDone \/ Quit \/ Open \/ PowerCut \/ ByHand
  BY <1>8, WorkerCallsShows, JobDoneShows, OpenShows, ClosedShows
<1> QED
  BY <1>1, <1>2, <1>3, <1>4, <1>5, <1>6, <1>7, <1>8 DEF Next

LEMMA InitShows == Init => ScreenIsCardInv
<1> SUFFICES ASSUME Init PROVE ScreenIsCardInv
  OBVIOUS
<1>1. call = NoCall /\ todo = Start(card) /\ NoCall.who = "none"
  BY DEF Init, NoCall
<1>2. Reloads(todo)
  BY <1>1, ReloadIsOne
<1> QED
  BY <1>1, <1>2 DEF ScreenIsCardInv, CallerInv, ShownInv

\* What the list shows is what the game merges, whatever was installed, copied,
\* renamed, removed, moved or switched before, and whatever failed since: when
\* the interface has nothing left to do and no call failed since it last read
\* the card, discover merges the enabled mods of the list that are installed,
\* each once, in the order of the list, the winner last (app.cpp, mods.rs).
THEOREM ShownIsMerged == Spec => []WhatIsShownIsMerged
<1>1. Init => ManagerInv /\ ScreenIsCardInv
  BY InitIsGood, InitShows
<1>2. ManagerInv /\ ScreenIsCardInv /\ [Next]_vars => (ManagerInv /\ ScreenIsCardInv)'
  BY NextKeeps, NextShows
<1>3. ManagerInv /\ ScreenIsCardInv => WhatIsShownIsMerged
  <2> SUFFICES ASSUME ManagerInv, ScreenIsCardInv, AtRest
               PROVE  /\ LET merged == SubSeq(Discover(card), Len(RomfsLite) + 1, Len(Discover(card)))
                         IN /\ Discover(card) = RomfsLite \o merged
                            /\ FoldersOf(merged) = Reverse(FoldersOf(Chosen(screen.entries, screen.mods)))
                      /\ \A mod \in ToSet(Scan(card)) : Cardinality(FindEntry(screen.entries, mod.folder)) = 1
    BY DEF WhatIsShownIsMerged
  <2>1. Settled(card, screen)
    BY IdleIs DEF AtRest, Clean
  <2> QED
    BY <2>1, SettledIsMerged
<1> QED
  BY <1>1, <1>2, <1>3, PTL DEF Spec
=============================================================================
