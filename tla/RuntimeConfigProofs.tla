------------------------ MODULE RuntimeConfigProofs ------------------------
(***************************************************************************)
(* Proofs about RuntimeConfig, for names of any number: what Distinct      *)
(* returns, and that normalizing and validating leave a snapshot as its    *)
(* readers expect it.  Distinct is a recursive function; the induction it  *)
(* needs is stated for sets of numbers and rests on the least element that *)
(* the order of the naturals gives every set.                              *)
(***************************************************************************)
EXTENDS RuntimeConfig, WellFoundedInduction, TLAPS

-----------------------------------------------------------------------------
(* Induction.                                                               *)

\* Every set of numbers that is not empty has a least one.
LEMMA LeastNumber ==
  ASSUME NEW S \in SUBSET Nat, S # {}
  PROVE  \E m \in S : \A k \in S : m <= k
<1>1. PICK m \in S : \A k \in S : ~(<<k, m>> \in OpToRel(<, Nat))
  BY WFMin, NatLessThanWellFounded
<1>2. \A k \in S : k < m => <<k, m>> \in OpToRel(<, Nat)
  BY DEF OpToRel
<1>3. \A k \in S : ~(k < m)
  BY <1>1, <1>2, Zenon
<1>4. \A k \in S : m <= k
  BY <1>3
<1> QED
  BY <1>4

\* A set of numbers that has 0, and the next of each it has, has them all.
LEMMA Induction ==
  ASSUME NEW S \in SUBSET Nat, 0 \in S, \A n \in S : n + 1 \in S
  PROVE  S = Nat
<1> SUFFICES ASSUME Nat \ S # {} PROVE FALSE
  OBVIOUS
<1>1. PICK m \in Nat \ S : \A k \in Nat \ S : m <= k
  <2> DEFINE R == Nat \ S
  <2>1. R \in SUBSET Nat /\ R # {}
    OBVIOUS
  <2> HIDE DEF R
  <2>2. \E m \in R : \A k \in R : m <= k
    BY <2>1, LeastNumber
  <2> QED
    BY <2>2 DEF R
<1>2. m # 0 /\ m - 1 \in Nat
  BY <1>1
<1>3. m - 1 \in S
  BY <1>1, <1>2
<1>4. (m - 1) + 1 \in S
  BY <1>3
<1> QED
  BY <1>1, <1>2, <1>4

-----------------------------------------------------------------------------
(* Distinct.                                                                *)

\* What Distinct has kept after name k, given what it kept before.
Keep(names, kept, k) ==
  IF k = 0 THEN << >>
  ELSE IF names[k] \in Names(kept[k - 1]) THEN kept[k - 1]
  ELSE Append(kept[k - 1], names[k])

\* g lists what is kept after each of the first n names.
Keeps(names, n, g) == g = [k \in 0..n |-> Keep(names, g, k)]

\* There is such a list, for any number of names.
LEMMA KeepsExists ==
  ASSUME NEW names, NEW n \in Nat
  PROVE  \E g : Keeps(names, n, g)
<1> DEFINE S == {k \in Nat : \E g : Keeps(names, k, g)}
<1>1. 0 \in S
  <2>1. Keeps(names, 0, [k \in 0..0 |-> << >>])
    BY DEF Keeps, Keep
  <2> QED
    BY <2>1
<1>2. ASSUME NEW m \in S PROVE m + 1 \in S
  <2>1. PICK g : Keeps(names, m, g)
    OBVIOUS
  <2> DEFINE h == [k \in 0..m+1 |-> IF k <= m THEN g[k] ELSE Keep(names, g, k)]
  <2>2. \A k \in 0..m : h[k] = g[k] /\ g[k] = Keep(names, g, k)
    BY <2>1, SMTT(30) DEF Keeps
  <2>3. \A k \in 0..m+1 : k # 0 => k - 1 \in 0..m
    OBVIOUS
  <2>4. \A k \in 0..m+1 : Keep(names, h, k) = Keep(names, g, k)
    BY <2>2, <2>3 DEF Keep
  <2>5. \A k \in 0..m+1 : h[k] = Keep(names, h, k)
    BY <2>2, <2>4
  <2>6. Keeps(names, m + 1, h)
    BY <2>5 DEF Keeps
  <2> QED
    BY <2>6
<1> HIDE DEF S
<1>3. S = Nat
  BY <1>1, <1>2, Induction DEF S
<1> QED
  BY <1>3 DEF S

\* So Distinct returns the last of such a list.
LEMMA DistinctKeeps ==
  ASSUME NEW names, Len(names) \in Nat
  PROVE  \E g : Keeps(names, Len(names), g) /\ Distinct(names) = g[Len(names)]
<1> DEFINE g == CHOOSE f : Keeps(names, Len(names), f)
<1>1. Keeps(names, Len(names), g)
  BY KeepsExists
<1>2. Distinct(names) = g[Len(names)]
  BY DEF Distinct, Keeps, Keep
<1> QED
  BY <1>1, <1>2

\* No name is there twice.
NoneTwice(s) == \A i, j \in DOMAIN s : s[i] = s[j] => i = j

\* A name appended is one more name, twice only if it was there.
LEMMA AppendedName ==
  ASSUME NEW S, NEW s \in Seq(S), NEW x \in S
  PROVE  /\ Append(s, x) \in Seq(S)
         /\ Names(Append(s, x)) = Names(s) \cup {x}
         /\ NoneTwice(s) /\ x \notin Names(s) => NoneTwice(Append(s, x))
<1>1. /\ Append(s, x) \in Seq(S) /\ DOMAIN Append(s, x) = 1..(Len(s) + 1)
      /\ Append(s, x)[Len(s) + 1] = x
      /\ \A i \in 1..Len(s) : Append(s, x)[i] = s[i]
      /\ DOMAIN s = 1..Len(s) /\ Len(s) \in Nat
  OBVIOUS
<1>2. 1..(Len(s) + 1) = 1..Len(s) \cup {Len(s) + 1}
  BY <1>1
<1> DEFINE a == Append(s, x)
<1> HIDE DEF a
<1>3. Names(a) = Names(s) \cup {x}
  BY <1>1, <1>2 DEF Names, a
<1>4. ASSUME NoneTwice(s), x \notin Names(s) PROVE NoneTwice(a)
  BY <1>1, <1>2, <1>4 DEF NoneTwice, Names, a
<1> QED
  BY <1>1, <1>3, <1>4 DEF a

\* Distinct keeps the names there are, and none of them twice.
LEMMA DistinctNames ==
  ASSUME NEW S, NEW names \in Seq(S)
  PROVE  /\ Distinct(names) \in Seq(S)
         /\ Names(Distinct(names)) = Names(names)
         /\ NoneTwice(Distinct(names))
<1>1. Len(names) \in Nat /\ DOMAIN names = 1..Len(names)
      /\ \A i \in 1..Len(names) : names[i] \in S
  OBVIOUS
<1>2. PICK g : Keeps(names, Len(names), g) /\ Distinct(names) = g[Len(names)]
  BY <1>1, DistinctKeeps
<1> DEFINE Good(k) == /\ g[k] \in Seq(S)
                      /\ Names(g[k]) = {names[i] : i \in 1..k}
                      /\ NoneTwice(g[k])
           R == {k \in Nat : k <= Len(names) => Good(k)}
<1>3. \A k \in 0..Len(names) : g[k] = Keep(names, g, k)
  BY <1>2 DEF Keeps
<1>4. 0 \in R
  <2>1. g[0] = << >>
    BY <1>1, <1>3 DEF Keep
  <2>2. << >> \in Seq(S) /\ Names(<< >>) = {} /\ NoneTwice(<< >>)
    BY DEF Names, NoneTwice
  <2>3. {names[i] : i \in 1..0} = {}
    OBVIOUS
  <2> QED
    BY <2>1, <2>2, <2>3
<1>5. ASSUME NEW k \in R PROVE k + 1 \in R
  <2> SUFFICES ASSUME k + 1 <= Len(names) PROVE Good(k + 1)
    OBVIOUS
  <2>1. Good(k) /\ k \in Nat
    BY <1>1
  <2>2. names[k + 1] \in S /\ k + 1 \in 0..Len(names) /\ k + 1 # 0 /\ (k + 1) - 1 = k
    BY <1>1, <2>1
  <2>3. {names[i] : i \in 1..k+1} = {names[i] : i \in 1..k} \cup {names[k + 1]}
    <3>1. 1..k+1 = 1..k \cup {k + 1}
      BY <2>1
    <3> QED
      BY <3>1
  <2>4. g[k + 1] = IF names[k + 1] \in Names(g[k]) THEN g[k] ELSE Append(g[k], names[k + 1])
    <3>1. g[k + 1] = Keep(names, g, k + 1)
      BY <1>3, <2>2
    <3> QED
      BY <2>2, <3>1 DEF Keep
  <2>5. CASE names[k + 1] \in Names(g[k])
    BY <2>1, <2>3, <2>4, <2>5
  <2>6. CASE names[k + 1] \notin Names(g[k])
    <3>1. /\ Append(g[k], names[k + 1]) \in Seq(S)
          /\ Names(Append(g[k], names[k + 1])) = Names(g[k]) \cup {names[k + 1]}
          /\ NoneTwice(Append(g[k], names[k + 1]))
      BY <2>1, <2>2, <2>6, AppendedName
    <3> QED
      BY <2>1, <2>3, <2>4, <2>6, <3>1
  <2> QED
    BY <2>5, <2>6
<1> HIDE DEF R
<1>6. R = Nat
  BY <1>4, <1>5, Induction DEF R
<1>7. Good(Len(names))
  <2>1. Len(names) \in R
    BY <1>1, <1>6
  <2>2. Len(names) <= Len(names)
    BY <1>1
  <2> QED
    BY <2>1, <2>2 DEF R
<1> QED
  BY <1>1, <1>2, <1>7 DEF Names

-----------------------------------------------------------------------------
(* Snapshots.                                                               *)

\* Normalizing a valid snapshot gives what a reader may expect to find.
ReadyToRead(c) ==
  /\ c \in Snapshot
  /\ \A x \in NamesIn(c) : x # Blank /\ Strip[x] = x
  /\ c.third \in Levels /\ c.size > 0
  /\ NoneTwice(c.quiet)

THEOREM NormalizedIsReady ==
  ASSUME NEW c \in Snapshot, Valid(c)
  PROVE  ReadyToRead(Normalize(c))
<1> DEFINE stripped == [i \in DOMAIN c.quiet |-> Strip[c.quiet[i]]]
           quiet == Distinct(stripped)
           n == Normalize(c)
<1>1. c.quiet \in Seq(Texts) /\ DOMAIN c.quiet = 1..Len(c.quiet) /\ Len(c.quiet) \in Nat
      /\ \A i \in DOMAIN c.quiet : c.quiet[i] \in Texts
  BY DEF Snapshot
<1>2. stripped \in Seq(Texts)
  BY <1>1, ConfigAssumption
<1>3. Names(stripped) = {Strip[x] : x \in Names(c.quiet)}
  BY DEF Names
<1> HIDE DEF stripped
<1>4. quiet \in Seq(Texts) /\ Names(quiet) = Names(stripped) /\ NoneTwice(quiet)
  BY <1>2, DistinctNames
<1>0. NormalizeNames(c.quiet) = quiet
  BY DEF NormalizeNames, stripped
<1> HIDE DEF quiet
<1>5. n = [third |-> c.third, exact |-> c.exact, quiet |-> quiet, env |-> Strip[c.env],
           size |-> c.size, scheduled |-> Strip[c.scheduled],
           exhausted |-> Strip[c.exhausted]]
  <2>1. n = [c EXCEPT !.quiet = quiet, !.env = Strip[c.env],
                      !.scheduled = Strip[c.scheduled], !.exhausted = Strip[c.exhausted]]
    BY <1>0, Zenon DEF Normalize
  <2> HIDE DEF n
  <2> QED
    BY <2>1 DEF Snapshot
<1> HIDE DEF n
<1>6. n \in Snapshot
  <2>1. /\ Strip[c.env] \in Texts /\ Strip[c.scheduled] \in Texts
        /\ Strip[c.exhausted] \in Texts
        /\ c.third \in Levels \cup {Unknown} /\ c.exact \in BOOLEAN /\ c.size \in Int
    BY ConfigAssumption DEF Snapshot
  <2> QED
    BY <1>4, <1>5, <2>1 DEF Snapshot
<1>7. NamesIn(n) = {Strip[x] : x \in NamesIn(c)}
  BY <1>3, <1>4, <1>5 DEF NamesIn
<1>8. NamesIn(c) \subseteq Texts
  BY <1>1 DEF NamesIn, Names, Snapshot
<1>9. \A x \in NamesIn(n) : x # Blank /\ Strip[x] = x
  BY <1>7, <1>8, ConfigAssumption DEF Valid
<1> QED
  BY <1>4, <1>5, <1>6, <1>9 DEF ReadyToRead, Valid, n

\* The configuration of the library itself is ready.
LEMMA DefaultIsReady == ReadyToRead(Default)
BY NormalizedIsReady, ConfigAssumption

\* What is installed is ready to read, from the start and after every attempt
\* to install another.
LEMMA ReadyIsOK == ConfigOK <=> ReadyToRead(installed)
BY DEF ConfigOK, ReadyToRead, NoneTwice

LEMMA ConfigOKInit == ConfigInit => ConfigOK
BY DefaultIsReady, ReadyIsOK DEF ConfigInit

LEMMA ConfigOKStep ==
  ASSUME ConfigOK,
         \/ UNCHANGED installed
         \/ \E c \in Candidates : Install(c) \/ Refuse(c)
  PROVE  ConfigOK'
<1>1. CASE UNCHANGED installed
  BY <1>1 DEF ConfigOK, NamesIn, Names
<1>2. ASSUME NEW c \in Candidates, Refuse(c) PROVE ConfigOK'
  BY <1>1, <1>2 DEF Refuse
<1>3. ASSUME NEW c \in Candidates, Install(c) PROVE ConfigOK'
  <2>1. ReadyToRead(installed')
    BY <1>3, NormalizedIsReady, ConfigAssumption DEF Install
  <2> QED
    BY <2>1 DEF ConfigOK, ReadyToRead, NoneTwice
<1> QED
  BY <1>1, <1>2, <1>3
=============================================================================
