------------------------- MODULE NetworkTest_proofs -------------------------
(***************************************************************************)
(* Proofs about NetworkTest.                                               *)
(*                                                                         *)
(* The recursive functions of the model (the groups of a round, the filter *)
(* of hosts, the lists put one after the other) are reasoned about by      *)
(* induction over the set of the indices where a claim holds: a set of     *)
(* natural numbers has a least member (Least), so a claim that goes from   *)
(* i - 1 to i holds everywhere (UpTo), and a function that is described    *)
(* step by step exists (Steps).                                            *)
(*                                                                         *)
(* The invariant has two layers.  Inv is about the pool of one round: who  *)
(* waits, runs and has answered, and what an answer tells of the devices.  *)
(* CountInv and HistoryInv are about the report: every round of it has one *)
(* result for each of the tests that the hosts and the rounds before call  *)
(* for.  Only both together say that the one broken device is found.       *)
(***************************************************************************)
EXTENDS NetworkTest, TLAPS, NaturalsInduction, WellFoundedInduction,
        FiniteSetTheorems, SequenceTheorems

(* The order of the natural numbers as a relation.                         *)
Less == {ss \in Nat \X Nat : ss[1] < ss[2]}

(* A set of natural numbers that is not empty has a least member.          *)
LEMMA Least ==
  ASSUME NEW S \in SUBSET Nat, S # {}
  PROVE  \E m \in S : \A k \in S : m <= k
<1>1. IsWellFoundedOn(Less, Nat)
  BY NatLessThanWellFounded DEF OpToRel, Less
<1>2. \E m \in S : \A y \in S : ~ (<<y, m>> \in Less)
  <2>1. S \subseteq Nat
    OBVIOUS
  <2>2. QED BY <2>1, <1>1, WFMin, Zenon
<1>3. PICK m \in S : \A y \in S : ~ (<<y, m>> \in Less)
  BY <1>2
<1>4. ASSUME NEW k \in S PROVE m <= k
  <2>1. m \in Nat /\ k \in Nat
    OBVIOUS
  <2>2. ~ (<<k, m>> \in Less)
    BY <1>3
  <2>3. QED BY <2>1, <2>2 DEF Less
<1>5. QED BY <1>4

(* Induction from 0 to n, over the set where the claim holds.              *)
LEMMA UpTo ==
  ASSUME NEW n \in Nat, NEW S, 0 \in S, \A i \in 1 .. n : i - 1 \in S => i \in S
  PROVE  \A i \in 0 .. n : i \in S
<1>1. SUFFICES ASSUME (0 .. n) \ S # {} PROVE FALSE
  OBVIOUS
<1>2. PICK m \in (0 .. n) \ S : \A k \in (0 .. n) \ S : m <= k
  <2>1. (0 .. n) \ S \in SUBSET Nat
    OBVIOUS
  <2>2. QED BY <2>1, <1>1, Least
<1>3. m # 0 /\ m - 1 \in 0 .. n /\ ~ (m <= m - 1)
  OBVIOUS
<1>4. m - 1 \in S
  BY <1>2, <1>3
<1>5. QED BY <1>2, <1>3, <1>4

(* Functions that give the next value from the last one and the index.     *)
StepFunctions(A, n) == [A \X (1 .. n) -> A]

(* There is a function that follows the steps.                             *)
WalkExists(n, A, base, step) ==
  \E f \in [0 .. n -> A] :
    f[0] = base /\ \A i \in 1 .. n : f[i] = step[<<f[i - 1], i>>]

(* A function that begins with base and goes on with step exists.          *)
LEMMA Steps ==
  ASSUME NEW n \in Nat, NEW A, NEW base \in A,
         NEW step \in StepFunctions(A, n)
  PROVE  WalkExists(n, A, base, step)
<1>0. step \in [A \X (1 .. n) -> A]
  BY DEF StepFunctions
<1> DEFINE S == {m \in 0 .. n : \E f \in [0 .. m -> A] :
             f[0] = base /\ \A i \in 1 .. m : f[i] = step[<<f[i - 1], i>>]}
<1>1. 0 \in S
  <2> DEFINE g == [i \in 0 .. 0 |-> base]
  <2>1. g \in [0 .. 0 -> A] /\ g[0] = base
    OBVIOUS
  <2>2. \A i \in 1 .. 0 : g[i] = step[<<g[i - 1], i>>]
    OBVIOUS
  <2> HIDE DEF g
  <2>3. \E f \in [0 .. 0 -> A] :
          f[0] = base /\ \A i \in 1 .. 0 : f[i] = step[<<f[i - 1], i>>]
    BY <2>1, <2>2
  <2>4. QED BY <2>3
<1>2. ASSUME NEW m \in 1 .. n, m - 1 \in S PROVE m \in S
  <2>1. PICK f \in [0 .. m - 1 -> A] :
          f[0] = base /\ \A i \in 1 .. m - 1 : f[i] = step[<<f[i - 1], i>>]
    BY <1>2
  <2> DEFINE g == [i \in 0 .. m |-> IF i = m THEN step[<<f[m - 1], m>>] ELSE f[i]]
  <2>2. g \in [0 .. m -> A]
    <3>1. m - 1 \in 0 .. m - 1 /\ m \in 1 .. n
      OBVIOUS
    <3>2. f[m - 1] \in A
      BY <3>1, <2>1
    <3>3. step[<<f[m - 1], m>>] \in A
      BY <3>1, <3>2, <1>0
    <3>4. ASSUME NEW i \in 0 .. m, i # m PROVE f[i] \in A
      <4>1. i \in 0 .. m - 1
        BY <3>4
      <4>2. QED BY <4>1, <2>1
    <3>5. QED BY <3>3, <3>4
  <2>3. g[0] = base
    BY <2>1
  <2>4. ASSUME NEW i \in 1 .. m PROVE g[i] = step[<<g[i - 1], i>>]
    <3>1. g[i - 1] = f[i - 1]
      OBVIOUS
    <3>2. CASE i = m
      <4>1. g[m] = step[<<f[m - 1], m>>]
        OBVIOUS
      <4>2. <<f[m - 1], m>> = <<g[i - 1], i>>
        BY <3>1, <3>2
      <4> HIDE DEF g
      <4>3. QED BY <4>1, <4>2, <3>2
    <3>3. CASE i # m
      <4>1. i \in 1 .. m - 1
        BY <3>3
      <4>2. QED BY <4>1, <3>1, <2>1
    <3>4. QED BY <3>2, <3>3
  <2> HIDE DEF g
  <2>5. \E ff \in [0 .. m -> A] :
          ff[0] = base /\ \A i \in 1 .. m : ff[i] = step[<<ff[i - 1], i>>]
    BY <2>2, <2>3, <2>4
  <2>6. QED BY <2>5
<1>3. n \in S
  <2> HIDE DEF S
  <2>1. \A i \in 0 .. n : i \in S
    BY <1>1, <1>2, UpTo
  <2>2. QED BY <2>1
<1>4. QED BY <1>3 DEF WalkExists

(* The function inside GroupNonOverlapping.                                *)
Grouping(tests) ==
  CHOOSE f : f = [i \in 0 .. Len(tests) |->
                    IF i = 0 THEN <<>> ELSE Grouped(f[i - 1], tests[i])]

(* The groups of a round are the last value of the function that puts the  *)
(* tests into groups one by one.                                           *)
LEMMA GroupingLast ==
  ASSUME NEW tests
  PROVE  GroupNonOverlapping(tests) = Grouping(tests)[Len(tests)]
BY Zenon DEF GroupNonOverlapping, Grouping

(* No host of a group occurs twice in it.                                  *)
Disjoint(g) ==
  \A i, j \in 1 .. Len(g) :
    i # j => {g[i].server, g[i].client} \cap {g[j].server, g[j].client} = {}

Group(T) == {g \in Seq(T) : g # <<>> /\ Disjoint(g)}

(* The hosts of a group of one test.                                       *)
LEMMA OneHostsOf ==
  ASSUME NEW p PROVE HostsOf(<<p>>) = {p.server, p.client}
BY DEF HostsOf

(* A test that is put to the first group that has none of its hosts leaves *)
(* all groups without a host that occurs twice.                            *)
LEMMA GroupedType ==
  ASSUME NEW T, NEW gs \in Seq(Group(T)), NEW p \in T
  PROVE  Grouped(gs, p) \in Seq(Group(T))
<1> DEFINE fits == {g \in 1 .. Len(gs) : HostsOf(gs[g]) \cap HostsOf(<<p>>) = {}}
<1>1. CASE fits = {}
  <2>1. Grouped(gs, p) = Append(gs, <<p>>)
    BY <1>1 DEF Grouped
  <2>2. <<p>> \in Seq(T) /\ <<p>> # <<>> /\ Len(<<p>>) = 1
    OBVIOUS
  <2>3. <<p>> \in Group(T)
    BY <2>2 DEF Group, Disjoint
  <2>4. QED BY <2>1, <2>3
<1>2. CASE fits # {}
  <2> DEFINE first == CHOOSE g \in fits : \A g1 \in fits : g <= g1
             longer == Append(gs[first], p)
  <2>1. first \in fits
    <3>1. fits \in SUBSET Nat
      OBVIOUS
    <3>2. \E g \in fits : \A g1 \in fits : g <= g1
      BY <3>1, <1>2, Least
    <3>3. QED BY <3>2, Zenon
  <2>2. Grouped(gs, p) = [gs EXCEPT ![first] = Append(@, p)]
    BY <1>2, Zenon DEF Grouped
  <2> HIDE DEF first
  <2>3. first \in 1 .. Len(gs) /\ HostsOf(gs[first]) \cap {p.server, p.client} = {}
    BY <2>1, OneHostsOf
  <2>4. gs[first] \in Group(T)
    BY <2>3
  <2>5. longer \in Seq(T) /\ longer # <<>>
    BY <2>4 DEF Group
  <2>6. Disjoint(longer)
    <3>1. SUFFICES ASSUME NEW i \in 1 .. Len(longer), NEW j \in 1 .. Len(longer), i # j
                   PROVE {longer[i].server, longer[i].client}
                            \cap {longer[j].server, longer[j].client} = {}
      BY DEF Disjoint
    <3>2. gs[first] \in Seq(T) /\ Disjoint(gs[first])
      BY <2>4 DEF Group
    <3>3. /\ Len(longer) = Len(gs[first]) + 1
          /\ longer[Len(longer)] = p
          /\ \A k \in 1 .. Len(gs[first]) : longer[k] = gs[first][k]
      BY <3>2
    <3>4. \A k \in 1 .. Len(gs[first]) :
            {gs[first][k].server, gs[first][k].client} \cap {p.server, p.client} = {}
      BY <2>3 DEF HostsOf
    <3> HIDE DEF longer
    <3>5. CASE i = Len(longer)
      BY <3>1, <3>2, <3>3, <3>4, <3>5
    <3>6. CASE j = Len(longer)
      BY <3>1, <3>2, <3>3, <3>4, <3>6
    <3>7. CASE i # Len(longer) /\ j # Len(longer)
      BY <3>1, <3>2, <3>3, <3>7 DEF Disjoint
    <3>8. QED BY <3>5, <3>6, <3>7
  <2>7. longer \in Group(T)
    BY <2>5, <2>6 DEF Group
  <2>8. QED BY <2>2, <2>3, <2>7
<1>3. QED BY <1>1, <1>2

(* The function of GroupNonOverlapping does what its definition says.      *)
LEMMA GroupingDef ==
  ASSUME NEW T, NEW tests \in Seq(T)
  PROVE  Grouping(tests) = [i \in 0 .. Len(tests) |->
           IF i = 0 THEN <<>> ELSE Grouped(Grouping(tests)[i - 1], tests[i])]
<1> DEFINE n == Len(tests)
           A == Seq(Group(T))
           empty == <<>>
           step == [x \in A \X (1 .. n) |-> Grouped(x[1], tests[x[2]])]
<1>1. n \in Nat /\ empty \in A
  OBVIOUS
<1>2. step \in StepFunctions(A, n)
  <2>1. ASSUME NEW x \in A \X (1 .. n) PROVE Grouped(x[1], tests[x[2]]) \in A
    <3>1. x[1] \in A /\ tests[x[2]] \in T
      OBVIOUS
    <3>2. QED BY <3>1, GroupedType
  <2> HIDE DEF A, n
  <2>2. QED BY <2>1 DEF StepFunctions
<1>3. PICK f \in [0 .. n -> A] :
        f[0] = empty /\ \A i \in 1 .. n : f[i] = step[<<f[i - 1], i>>]
  <2> HIDE DEF step, n, A, empty
  <2>1. WalkExists(n, A, empty, step)
    BY <1>1, <1>2, Steps
  <2>2. QED BY <2>1 DEF WalkExists
<1>4. ASSUME NEW i \in 1 .. n PROVE f[i] = Grouped(f[i - 1], tests[i])
  <2>1. f[i - 1] \in A
    BY <1>1
  <2>2. step[<<f[i - 1], i>>] = Grouped(f[i - 1], tests[i])
    BY <2>1
  <2> HIDE DEF step
  <2>3. QED BY <1>3, <2>2
<1>5. f = [i \in 0 .. n |-> IF i = 0 THEN <<>> ELSE Grouped(f[i - 1], tests[i])]
  BY <1>1, <1>3, <1>4
<1>6. \E g : g = [i \in 0 .. Len(tests) |->
                    IF i = 0 THEN <<>> ELSE Grouped(g[i - 1], tests[i])]
  BY <1>5
<1>7. QED BY <1>6, Zenon DEF Grouping

(* The groups of any list of tests are groups in which no host occurs      *)
(* twice, and none is empty.                                               *)
LEMMA GroupsType ==
  ASSUME NEW T, NEW tests \in Seq(T)
  PROVE  GroupNonOverlapping(tests) \in Seq(Group(T))
<1> DEFINE f == Grouping(tests)
           S == {i \in 0 .. Len(tests) : f[i] \in Seq(Group(T))}
<1>1. f = [i \in 0 .. Len(tests) |->
             IF i = 0 THEN <<>> ELSE Grouped(f[i - 1], tests[i])]
  BY GroupingDef
<1> HIDE DEF f
<1>2. 0 \in S
  BY <1>1
<1>3. ASSUME NEW i \in 1 .. Len(tests), i - 1 \in S PROVE i \in S
  <2>1. f[i] = Grouped(f[i - 1], tests[i])
    BY <1>1
  <2>2. f[i] \in Seq(Group(T))
    BY <2>1, <1>3, GroupedType
  <2>3. QED BY <2>2
<1>4. Len(tests) \in S
  <2>1. Len(tests) \in Nat /\ Len(tests) \in 0 .. Len(tests)
    OBVIOUS
  <2> HIDE DEF S
  <2>2. \A i \in 0 .. Len(tests) : i \in S
    BY <2>1, <1>2, <1>3, UpTo
  <2>3. QED BY <2>1, <2>2
<1>5. QED BY <1>4, GroupingLast DEF f

(* The function inside Those.                                              *)
Kept(list, some) ==
  CHOOSE f : f = [i \in 0 .. Len(list) |->
                    IF i = 0 THEN <<>>
                    ELSE IF list[i] \in some THEN Append(f[i - 1], list[i]) ELSE f[i - 1]]

(* The function of Those does what its definition says.                    *)
LEMMA KeptDef ==
  ASSUME NEW A, NEW list \in Seq(A), NEW some
  PROVE  Kept(list, some) = [i \in 0 .. Len(list) |->
           IF i = 0 THEN <<>>
           ELSE IF list[i] \in some THEN Append(Kept(list, some)[i - 1], list[i])
                ELSE Kept(list, some)[i - 1]]
<1> DEFINE n == Len(list)
           B == Seq(A)
           empty == <<>>
           step == [x \in B \X (1 .. n) |->
                      IF list[x[2]] \in some THEN Append(x[1], list[x[2]]) ELSE x[1]]
<1>1. n \in Nat /\ empty \in B
  OBVIOUS
<1>2. step \in StepFunctions(B, n)
  BY DEF StepFunctions
<1>3. PICK f \in [0 .. n -> B] :
        f[0] = empty /\ \A i \in 1 .. n : f[i] = step[<<f[i - 1], i>>]
  <2> HIDE DEF step, n, B, empty
  <2>1. WalkExists(n, B, empty, step)
    BY <1>1, <1>2, Steps
  <2>2. QED BY <2>1 DEF WalkExists
<1>4. ASSUME NEW i \in 1 .. n
      PROVE  f[i] = IF list[i] \in some THEN Append(f[i - 1], list[i]) ELSE f[i - 1]
  <2>1. f[i - 1] \in B
    BY <1>1
  <2>2. step[<<f[i - 1], i>>]
          = IF list[i] \in some THEN Append(f[i - 1], list[i]) ELSE f[i - 1]
    BY <2>1
  <2> HIDE DEF step
  <2>3. QED BY <1>3, <2>2
<1>5. f = [i \in 0 .. n |->
             IF i = 0 THEN <<>>
             ELSE IF list[i] \in some THEN Append(f[i - 1], list[i]) ELSE f[i - 1]]
  <2> HIDE DEF step
  <2>1. f[0] = <<>> /\ f = [i \in 0 .. n |-> f[i]]
    BY <1>3
  <2>2. \A i \in 0 .. n : i # 0 => i \in 1 .. n
    BY <1>1
  <2>3. QED BY <2>1, <2>2, <1>4
<1>6. \E g : g = [i \in 0 .. Len(list) |->
                    IF i = 0 THEN <<>>
                    ELSE IF list[i] \in some THEN Append(g[i - 1], list[i]) ELSE g[i - 1]]
  BY <1>5
<1>7. QED BY <1>6, Zenon DEF Kept

(* The members of a list with one more at its end, and that they stay      *)
(* different.                                                              *)
LEMMA AppendFacts ==
  ASSUME NEW A, NEW s \in Seq(A), NEW a \in A
  PROVE  /\ Append(s, a) \in Seq(A)
         /\ Range(Append(s, a)) = Range(s) \cup {a}
         /\ IsInjective(s) /\ a \notin Range(s) => IsInjective(Append(s, a))
<1>1. /\ Append(s, a) \in Seq(A)
      /\ Len(Append(s, a)) = Len(s) + 1
      /\ \A i \in 1 .. Len(s) : Append(s, a)[i] = s[i]
      /\ Append(s, a)[Len(s) + 1] = a
      /\ DOMAIN Append(s, a) = 1 .. Len(s) + 1
      /\ DOMAIN s = 1 .. Len(s)
      /\ Len(s) \in Nat
  OBVIOUS
<1> DEFINE t == Append(s, a)
<1> HIDE DEF t
<1>2. Range(t) = Range(s) \cup {a}
  BY <1>1 DEF Range, t
<1>3. IsInjective(s) /\ a \notin Range(s) => IsInjective(t)
  BY <1>1 DEF Range, t, IsInjective
<1>4. QED BY <1>1, <1>2, <1>3 DEF t

(* A filter keeps exactly the members that are asked for, and keeps them   *)
(* different.                                                              *)
LEMMA ThoseFacts ==
  ASSUME NEW A, NEW list \in Seq(A), NEW some
  PROVE  /\ Those(list, some) \in Seq(A)
         /\ Range(Those(list, some)) = Range(list) \cap some
         /\ IsInjective(list) => IsInjective(Those(list, some))
<1> DEFINE f == Kept(list, some)
           seen(i) == {list[j] : j \in 1 .. i}
           claim(i) == /\ f[i] \in Seq(A)
                       /\ Range(f[i]) = seen(i) \cap some
                       /\ IsInjective(list) => IsInjective(f[i])
           S == {i \in 0 .. Len(list) : claim(i)}
<1>0. f = [i \in 0 .. Len(list) |->
             IF i = 0 THEN <<>>
             ELSE IF list[i] \in some THEN Append(f[i - 1], list[i]) ELSE f[i - 1]]
  BY KeptDef
<1>2. Those(list, some) = f[Len(list)]
  BY Zenon DEF Those, Kept
<1>3. Len(list) \in Nat
  OBVIOUS
<1> HIDE DEF f
<1>1. \A i \in 0 .. Len(list) :
        f[i] = IF i = 0 THEN <<>>
               ELSE IF list[i] \in some THEN Append(f[i - 1], list[i]) ELSE f[i - 1]
  BY <1>0
<1>4. claim(0)
  <2>1. f[0] = <<>> /\ seen(0) = {}
    BY <1>1, <1>3
  <2>2. <<>> \in Seq(A) /\ Range(<<>>) = {} /\ IsInjective(<<>>)
    BY DEF Range, IsInjective
  <2> HIDE DEF seen
  <2>3. QED BY <2>1, <2>2
<1>5. ASSUME NEW i \in 1 .. Len(list), claim(i - 1) PROVE claim(i)
  <2>1. f[i] = IF list[i] \in some THEN Append(f[i - 1], list[i]) ELSE f[i - 1]
    <3>1. i \in 0 .. Len(list) /\ i # 0
      OBVIOUS
    <3>2. QED BY <1>1, <3>1
  <2>2. seen(i) = seen(i - 1) \cup {list[i]}
    OBVIOUS
  <2>3. list[i] \in A
    OBVIOUS
  <2>4. IsInjective(list) => list[i] \notin seen(i - 1)
    BY DEF IsInjective
  <2> HIDE DEF seen
  <2>5. CASE list[i] \in some
    <3>1. f[i] = Append(f[i - 1], list[i])
      BY <2>1, <2>5
    <3>2. f[i] \in Seq(A) /\ Range(f[i]) = Range(f[i - 1]) \cup {list[i]}
      BY <3>1, <2>3, <1>5, AppendFacts
    <3>3. IsInjective(list) => IsInjective(f[i])
      BY <3>1, <2>3, <2>4, <1>5, AppendFacts
    <3>4. QED BY <3>2, <3>3, <2>2, <2>5, <1>5
  <2>6. CASE list[i] \notin some
    BY <2>1, <2>2, <2>6, <1>5
  <2>7. QED BY <2>5, <2>6
<1> HIDE DEF claim
<1>6. 0 \in S /\ \A i \in 1 .. Len(list) : i - 1 \in S => i \in S
  BY <1>3, <1>4, <1>5
<1>7. claim(Len(list))
  <2> HIDE DEF S
  <2>1. \A i \in 0 .. Len(list) : i \in S
    BY <1>3, <1>6, UpTo
  <2>2. Len(list) \in S
    BY <1>3, <2>1
  <2>3. QED BY <2>2 DEF S
<1>8. seen(Len(list)) = Range(list)
  BY DEF Range
<1> HIDE DEF seen
<1>9. QED BY <1>2, <1>7, <1>8 DEF claim

(* The function inside FlattenSeq.                                         *)
Flattened(seqs) ==
  CHOOSE f : f = [i \in 1 .. Len(seqs) |->
                    IF i = 1 THEN seqs[i] ELSE f[i - 1] \o seqs[i]]

(* FlattenSeq is the last value of the function that puts the lists one    *)
(* after the other.                                                        *)
LEMMA FlattenedLast ==
  ASSUME NEW seqs, Len(seqs) # 0
  PROVE  FlattenSeq(seqs) = Flattened(seqs)[Len(seqs)]
BY Zenon DEF FlattenSeq, Flattened

(* The members of two lists one after the other.                           *)
LEMMA ConcatFacts ==
  ASSUME NEW A, NEW s \in Seq(A), NEW t \in Seq(A)
  PROVE  s \o t \in Seq(A) /\ Range(s \o t) = Range(s) \cup Range(t)
<1>1. /\ s \o t \in Seq(A)
      /\ Len(s \o t) = Len(s) + Len(t)
      /\ \A i \in 1 .. Len(s) : (s \o t)[i] = s[i]
      /\ \A i \in 1 .. Len(t) : (s \o t)[Len(s) + i] = t[i]
      /\ DOMAIN (s \o t) = 1 .. Len(s) + Len(t)
      /\ DOMAIN s = 1 .. Len(s) /\ DOMAIN t = 1 .. Len(t)
      /\ Len(s) \in Nat /\ Len(t) \in Nat
  OBVIOUS
<1> DEFINE u == s \o t
<1> HIDE DEF u
<1>2. Range(u) \subseteq Range(s) \cup Range(t)
  <2>1. SUFFICES ASSUME NEW i \in 1 .. Len(s) + Len(t)
                 PROVE u[i] \in Range(s) \cup Range(t)
    BY <1>1 DEF Range, u
  <2>2. CASE i <= Len(s)
    BY <1>1, <2>2 DEF Range, u
  <2>3. CASE ~ (i <= Len(s))
    <3>1. i - Len(s) \in 1 .. Len(t) /\ i = Len(s) + (i - Len(s))
      BY <1>1, <2>3
    <3>2. u[i] = t[i - Len(s)]
      BY <1>1, <3>1 DEF u
    <3>3. QED BY <1>1, <3>1, <3>2 DEF Range
  <2>4. QED BY <2>2, <2>3
<1>3. Range(s) \subseteq Range(u)
  <2>1. \A i \in 1 .. Len(s) : i \in 1 .. Len(s) + Len(t) /\ u[i] = s[i]
    BY <1>1 DEF u
  <2>2. DOMAIN u = 1 .. Len(s) + Len(t)
    BY <1>1 DEF u
  <2>3. QED BY <1>1, <2>1, <2>2 DEF Range
<1>4. Range(t) \subseteq Range(u)
  <2>1. \A i \in 1 .. Len(t) : Len(s) + i \in 1 .. Len(s) + Len(t) /\ u[Len(s) + i] = t[i]
    BY <1>1 DEF u
  <2>2. DOMAIN u = 1 .. Len(s) + Len(t)
    BY <1>1 DEF u
  <2>3. QED BY <1>1, <2>1, <2>2 DEF Range
<1>5. QED BY <1>1, <1>2, <1>3, <1>4 DEF u

(* The function of FlattenSeq does what its definition says.               *)
LEMMA FlattenedDef ==
  ASSUME NEW A, NEW seqs \in Seq(Seq(A)), Len(seqs) # 0
  PROVE  Flattened(seqs) = [i \in 1 .. Len(seqs) |->
           IF i = 1 THEN seqs[i] ELSE Flattened(seqs)[i - 1] \o seqs[i]]
<1> DEFINE n == Len(seqs)
           B == Seq(A)
           empty == <<>>
           step == [x \in B \X (1 .. n) |->
                      IF x[2] = 1 THEN seqs[1] ELSE x[1] \o seqs[x[2]]]
<1>1. n \in Nat /\ empty \in B
  OBVIOUS
<1>2. step \in StepFunctions(B, n)
  <2>1. ASSUME NEW x \in B \X (1 .. n)
        PROVE  (IF x[2] = 1 THEN seqs[1] ELSE x[1] \o seqs[x[2]]) \in B
    <3>1. x[1] \in B /\ seqs[x[2]] \in B
      OBVIOUS
    <3>2. QED BY <3>1
  <2> HIDE DEF n, B
  <2>2. QED BY <2>1 DEF StepFunctions
<1>3. PICK f \in [0 .. n -> B] :
        f[0] = empty /\ \A i \in 1 .. n : f[i] = step[<<f[i - 1], i>>]
  <2> HIDE DEF step, n, B, empty
  <2>1. WalkExists(n, B, empty, step)
    BY <1>1, <1>2, Steps
  <2>2. QED BY <2>1 DEF WalkExists
<1> DEFINE h == [i \in 1 .. n |-> f[i]]
<1>4. ASSUME NEW i \in 1 .. n
      PROVE  h[i] = IF i = 1 THEN seqs[i] ELSE h[i - 1] \o seqs[i]
  <2>1. f[i - 1] \in B /\ <<f[i - 1], i>> \in B \X (1 .. n)
    <3> HIDE DEF step
    <3>1. i - 1 \in 0 .. n
      BY <1>1
    <3>2. QED BY <1>3, <3>1
  <2>2. step[<<f[i - 1], i>>] = IF i = 1 THEN seqs[i] ELSE f[i - 1] \o seqs[i]
    BY <2>1
  <2>3. f[i] = IF i = 1 THEN seqs[i] ELSE f[i - 1] \o seqs[i]
    <3> HIDE DEF step
    <3>1. QED BY <1>3, <2>2
  <2>4. i # 1 => f[i - 1] = h[i - 1]
    BY <1>1
  <2>5. h[i] = f[i]
    BY <1>1
  <2> HIDE DEF h
  <2>6. QED BY <2>3, <2>4, <2>5
<1>5. h = [i \in 1 .. n |-> IF i = 1 THEN seqs[i] ELSE h[i - 1] \o seqs[i]]
  <2>1. h = [i \in 1 .. n |-> h[i]]
    BY Zenon
  <2> HIDE DEF h
  <2>2. QED BY <1>4, <2>1
<1> HIDE DEF h
<1>6. \E g : g = [i \in 1 .. Len(seqs) |->
                    IF i = 1 THEN seqs[i] ELSE g[i - 1] \o seqs[i]]
  BY <1>5
<1>7. QED BY <1>6, Zenon DEF Flattened

(* The members of a list of lists put one after the other are those of the *)
(* lists.                                                                  *)
LEMMA FlattenFacts ==
  ASSUME NEW A, NEW seqs \in Seq(Seq(A))
  PROVE  /\ FlattenSeq(seqs) \in Seq(A)
         /\ Range(FlattenSeq(seqs)) = UNION {Range(seqs[i]) : i \in 1 .. Len(seqs)}
<1>1. CASE Len(seqs) = 0
  <2>1. FlattenSeq(seqs) = <<>>
    BY <1>1 DEF FlattenSeq
  <2>2. Range(<<>>) = {} /\ <<>> \in Seq(A)
    BY DEF Range
  <2>3. QED BY <1>1, <2>1, <2>2
<1>2. CASE Len(seqs) # 0
  <2> DEFINE f == Flattened(seqs)
             all(i) == UNION {Range(seqs[j]) : j \in 1 .. i}
             claim(i) == f[i] \in Seq(A) /\ Range(f[i]) = all(i)
             S == {i \in 0 .. Len(seqs) : i # 0 => claim(i)}
  <2>0. f = [i \in 1 .. Len(seqs) |-> IF i = 1 THEN seqs[i] ELSE f[i - 1] \o seqs[i]]
    BY <1>2, FlattenedDef
  <2> HIDE DEF f
  <2>1. \A i \in 1 .. Len(seqs) : f[i] = IF i = 1 THEN seqs[i] ELSE f[i - 1] \o seqs[i]
    BY <2>0
  <2>2. ASSUME NEW i \in 1 .. Len(seqs), i # 1 => claim(i - 1) PROVE claim(i)
    <3>1. seqs[i] \in Seq(A)
      OBVIOUS
    <3>2. CASE i = 1
      <4>1. f[1] = seqs[1]
        BY <2>1, <3>2
      <4>2. all(1) = Range(seqs[1])
        OBVIOUS
      <4> HIDE DEF all
      <4>3. QED BY <4>1, <4>2, <3>1, <3>2
    <3>3. CASE i # 1
      <4>1. f[i] = f[i - 1] \o seqs[i]
        BY <2>1, <3>3
      <4>2. f[i - 1] \in Seq(A) /\ Range(f[i - 1]) = all(i - 1)
        BY <2>2, <3>3
      <4>3. all(i) = all(i - 1) \cup Range(seqs[i])
        <5>1. 1 .. i = (1 .. i - 1) \cup {i}
          OBVIOUS
        <5>2. QED BY <5>1, Zenon
      <4> HIDE DEF all
      <4>4. f[i - 1] \o seqs[i] \in Seq(A)
        BY <4>2, <3>1
      <4>5. Range(f[i - 1] \o seqs[i]) = Range(f[i - 1]) \cup Range(seqs[i])
        BY <4>2, <3>1, ConcatFacts
      <4>6. QED BY <4>1, <4>2, <4>3, <4>4, <4>5
    <3>4. QED BY <3>2, <3>3
  <2> HIDE DEF claim
  <2>3. 0 \in S /\ \A i \in 1 .. Len(seqs) : i - 1 \in S => i \in S
    BY <2>2
  <2>4. claim(Len(seqs))
    <3>1. Len(seqs) \in Nat /\ Len(seqs) \in 0 .. Len(seqs)
      OBVIOUS
    <3> HIDE DEF S
    <3>2. \A i \in 0 .. Len(seqs) : i \in S
      BY <3>1, <2>3, UpTo
    <3>3. Len(seqs) \in S
      BY <3>1, <3>2
    <3>4. QED BY <3>3, <1>2 DEF S
  <2>5. FlattenSeq(seqs) = f[Len(seqs)]
    BY <1>2, FlattenedLast DEF f
  <2>6. QED BY <1>2, <2>4, <2>5 DEF claim
<1>3. QED BY <1>1, <1>2

(* The types of a test, of an answer, of an entry and of a device.         *)
Pair == [server : Names(cluster), client : Names(cluster),
         sdev : DOMAIN Number, cdev : DOMAIN Number]
Answer == [of : Pair, success : BOOLEAN]
Entry == [pair : Pair, result : Answer]
Device == Names(cluster) \X DOMAIN Number

(* The types of the variables.                                             *)
TypeInv ==
  /\ cluster \in Clusters
  /\ at \in {"start", "tests", "analysis", "returned"}
  /\ info \in Seq(Names(cluster)) /\ IsInjective(info)
  /\ pairs \in Seq(Pair) /\ queue \in Seq(Pair) /\ active \in SUBSET Pair
  /\ groups \in Seq(Group(Pair))
  /\ DOMAIN answers \subseteq Pair /\ answers \in [DOMAIN answers -> Answer]
  /\ results \in Seq(Answer)
  /\ rounds \in Seq(Seq(Entry))
  /\ starting \in SUBSET Device /\ listening \in SUBSET Device
  /\ outcome \in {"none", "success", "failed"}
  /\ lost \in 0 .. MaxLost /\ crossed \in BOOLEAN

(* How far the rounds are.                                                 *)
ControlInv ==
  /\ at = "start" => rounds = <<>>
  /\ at = "tests" => Len(info) >= 2 /\ Len(rounds) <= 2
  /\ Len(rounds) <= 3

(* The tests of the group that runs are waiting, running or answered.      *)
Begun == Len(Head(groups)) - Len(queue)

PoolInv ==
  /\ groups = <<>> => queue = <<>> /\ active = {} /\ DOMAIN answers = {}
  /\ groups # <<>> =>
       /\ Begun \in Nat
       /\ \A i \in 1 .. Len(queue) : queue[i] = Head(groups)[Begun + i]
       /\ active \cup DOMAIN answers = {Head(groups)[i] : i \in 1 .. Begun}
  /\ active \cap DOMAIN answers = {}
  /\ IsFiniteSet(active) /\ Cardinality(active) <= MaxWorkers

Sound(p) == Ends(p) \cap cluster.broken = {}

(* What a result says of the test that it is the result of.                *)
Told(a) ==
  /\ a.success /\ ~ crossed => Sound(a.of)
  /\ ~ a.success /\ ~ crossed /\ lost = 0 => ~ Sound(a.of)

(* Every result tells of the test that it is the result of.                *)
AnswerInv ==
  /\ \A p \in DOMAIN answers : answers[p].of = p /\ Told(answers[p])
  /\ \A i \in 1 .. Len(results) : Told(results[i])
  /\ \A r \in 1 .. Len(rounds) : \A i \in 1 .. Len(rounds[r]) : Told(rounds[r][i].result)

(* How many devices two hosts can be compared in.                          *)
Shorter(g, h) ==
  IF Len(cluster.devices[g]) < Len(cluster.devices[h])
  THEN Len(cluster.devices[g]) ELSE Len(cluster.devices[h])

(* The test of the i-th devices of two hosts.                              *)
Between(g, h, i) == [server |-> g, client |-> h,
                     sdev |-> cluster.devices[g][i], cdev |-> cluster.devices[h][i]]

(* The tests between two hosts: device by device, as far as both have one. *)
LEMMA ZippedFacts ==
  ASSUME cluster \in Clusters, NEW g \in Names(cluster), NEW h \in Names(cluster)
  PROVE  /\ Zipped(g, h) \in Seq(Pair)
         /\ Range(Zipped(g, h)) = {Between(g, h, i) : i \in 1 .. Shorter(g, h)}
<1> DEFINE d1 == cluster.devices[g]
           d2 == cluster.devices[h]
           n == Shorter(g, h)
           z == [i \in 1 .. n |-> Between(g, h, i)]
<1>1. d1 \in Seq(DOMAIN Number) /\ d2 \in Seq(DOMAIN Number)
  BY NetworkTestAssumption
<1>2. n \in Nat /\ n <= Len(d1) /\ n <= Len(d2)
  <2> HIDE DEF d1, d2
  <2>1. Len(d1) \in Nat /\ Len(d2) \in Nat
    BY <1>1
  <2>2. n = IF Len(d1) < Len(d2) THEN Len(d1) ELSE Len(d2)
    BY DEF Shorter, d1, d2
  <2> HIDE DEF n
  <2>3. QED BY <2>1, <2>2
<1>3. Zipped(g, h) = z
  BY Zenon DEF Zipped, Shorter, Between
<1>4. ASSUME NEW i \in 1 .. n PROVE Between(g, h, i) \in Pair
  <2> HIDE DEF d1, d2, n
  <2>1. i \in 1 .. Len(d1) /\ i \in 1 .. Len(d2)
    BY <1>1, <1>2
  <2>2. d1[i] \in DOMAIN Number /\ d2[i] \in DOMAIN Number
    BY <2>1, <1>1
  <2>3. QED BY <2>2 DEF Between, Pair, d1, d2
<1> HIDE DEF n
<1>5. z \in Seq(Pair)
  BY <1>2, <1>4
<1>6. Range(z) = {Between(g, h, i) : i \in 1 .. n}
  BY DEF Range
<1>7. QED BY <1>3, <1>5, <1>6 DEF n

(* The numbers of the couples of neighbours.                               *)
Couples(hosts, start) == 1 .. (Len(hosts) - start) \div 2

(* The tests between neighbours are those between the two hosts of each    *)
(* couple.                                                                 *)
LEMMA NeighbouringFacts ==
  ASSUME cluster \in Clusters, NEW hosts \in Seq(Names(cluster)),
         NEW start \in {0, 1}, start <= Len(hosts)
  PROVE  /\ Neighbouring(hosts, start) \in Seq(Pair)
         /\ Range(Neighbouring(hosts, start))
              = UNION {Range(Zipped(hosts[start + 2 * k - 1], hosts[start + 2 * k])) :
                         k \in Couples(hosts, start)}
<1> DEFINE m == (Len(hosts) - start) \div 2
           seqs == [k \in 1 .. m |-> Zipped(hosts[start + 2 * k - 1], hosts[start + 2 * k])]
<1>1. m \in Nat /\ \A k \in 1 .. m : /\ start + 2 * k - 1 \in 1 .. Len(hosts)
                                     /\ start + 2 * k \in 1 .. Len(hosts)
  OBVIOUS
<1> HIDE DEF m
<1>2. ASSUME NEW k \in 1 .. m
      PROVE  Zipped(hosts[start + 2 * k - 1], hosts[start + 2 * k]) \in Seq(Pair)
  <2>1. /\ hosts[start + 2 * k - 1] \in Names(cluster)
        /\ hosts[start + 2 * k] \in Names(cluster)
    BY <1>1
  <2>2. QED BY <2>1, ZippedFacts
<1>3. seqs \in Seq(Seq(Pair)) /\ Len(seqs) = m
  BY <1>1, <1>2
<1>4. \A k \in 1 .. m : seqs[k] = Zipped(hosts[start + 2 * k - 1], hosts[start + 2 * k])
  OBVIOUS
<1>5. Neighbouring(hosts, start) = FlattenSeq(seqs)
  BY Zenon DEF Neighbouring, m
<1> HIDE DEF seqs
<1>6. Neighbouring(hosts, start) \in Seq(Pair)
  BY <1>3, <1>5, FlattenFacts
<1>7. Range(FlattenSeq(seqs)) = UNION {Range(seqs[i]) : i \in 1 .. Len(seqs)}
  BY <1>3, FlattenFacts
<1>8. QED BY <1>3, <1>4, <1>5, <1>6, <1>7 DEF Couples, m

(* The tests of the last host with the first.                              *)
Wrapped(hosts) ==
  IF Len(hosts) > 2 /\ Len(hosts) % 2 = 0
  THEN Zipped(hosts[Len(hosts)], hosts[1]) ELSE <<>>

(* The second round tests the neighbours one further on and, for an even   *)
(* number of hosts, the last one with the first.                           *)
LEMMA Round2Facts ==
  ASSUME cluster \in Clusters, NEW hosts \in Seq(Names(cluster)), Len(hosts) >= 2
  PROVE  /\ Round2Pairs(hosts) \in Seq(Pair)
         /\ Range(Round2Pairs(hosts))
              = Range(Neighbouring(hosts, IF Len(hosts) >= 3 THEN 1 ELSE 0))
                  \cup Range(Wrapped(hosts))
<1> DEFINE start == IF Len(hosts) >= 3 THEN 1 ELSE 0
<1>1. start \in {0, 1} /\ start <= Len(hosts) /\ Len(hosts) \in Nat
  OBVIOUS
<1>2. Head(hosts) = hosts[1] /\ Last(hosts) = hosts[Len(hosts)]
  BY DEF Last
<1>3. Wrapped(hosts) \in Seq(Pair)
  <2>1. hosts[1] \in Names(cluster) /\ hosts[Len(hosts)] \in Names(cluster)
    OBVIOUS
  <2>2. Zipped(hosts[Len(hosts)], hosts[1]) \in Seq(Pair)
    BY <2>1, ZippedFacts
  <2>3. QED BY <2>2 DEF Wrapped
<1>4. Round2Pairs(hosts) = Neighbouring(hosts, start) \o Wrapped(hosts)
  BY <1>2, Zenon DEF Round2Pairs, Wrapped
<1> HIDE DEF start
<1>5. Neighbouring(hosts, start) \in Seq(Pair)
  BY <1>1, NeighbouringFacts
<1>6. QED BY <1>3, <1>4, <1>5, ConcatFacts DEF start

(* The third round tests one host with each of the suspects.               *)
LEMMA Round3Facts ==
  ASSUME cluster \in Clusters, NEW normal \in Names(cluster),
         NEW suspected \in Seq(Names(cluster))
  PROVE  /\ Round3Pairs(normal, suspected) \in Seq(Pair)
         /\ Range(Round3Pairs(normal, suspected))
              = UNION {Range(Zipped(normal, h)) : h \in Range(suspected)}
<1> DEFINE seqs == [i \in 1 .. Len(suspected) |-> Zipped(normal, suspected[i])]
<1>1. \A i \in 1 .. Len(suspected) : Zipped(normal, suspected[i]) \in Seq(Pair)
  BY ZippedFacts
<1>2. seqs \in Seq(Seq(Pair)) /\ Len(seqs) = Len(suspected)
  BY <1>1
<1>3. \A i \in 1 .. Len(suspected) : seqs[i] = Zipped(normal, suspected[i])
  OBVIOUS
<1>4. Round3Pairs(normal, suspected) = FlattenSeq(seqs)
  BY Zenon DEF Round3Pairs
<1> HIDE DEF seqs
<1>5. Range(FlattenSeq(seqs)) = UNION {Range(seqs[i]) : i \in 1 .. Len(seqs)}
  BY <1>2, FlattenFacts
<1>6. UNION {Range(seqs[i]) : i \in 1 .. Len(seqs)}
        = UNION {Range(Zipped(normal, h)) : h \in Range(suspected)}
  <2>1. Range(suspected) = {suspected[i] : i \in 1 .. Len(suspected)}
    BY DEF Range
  <2>2. QED BY <1>2, <1>3, <2>1
<1>7. QED BY <1>2, <1>4, <1>5, <1>6, FlattenFacts

(* A round begins with groups in which no host occurs twice, and with the  *)
(* first of them waiting.                                                  *)
LEMMA TestFacts ==
  ASSUME NEW tests \in Seq(Pair), Test(tests)
  PROVE  /\ pairs' = tests /\ groups' = GroupNonOverlapping(tests)
         /\ groups' \in Seq(Group(Pair))
         /\ groups' = <<>> => queue' = <<>>
         /\ groups' # <<>> => queue' = Head(groups') /\ queue' \in Group(Pair)
         /\ queue' \in Seq(Pair)
         /\ active' = {} /\ answers' = <<>> /\ results' = <<>>
<1>1. groups' \in Seq(Group(Pair))
  BY GroupsType DEF Test
<1>2. groups' # <<>> => Head(groups') \in Group(Pair)
  BY <1>1
<1>3. QED BY <1>1, <1>2 DEF Test, Group

(* What every step keeps of the pool of a round.                           *)
Inv == TypeInv /\ ControlInv /\ PoolInv /\ AnswerInv

(* The invariant of the pool holds at first.                               *)
LEMMA InitInv == Init => Inv
<1>1. SUFFICES ASSUME Init PROVE Inv
  OBVIOUS
<1>2. IsInjective(<<>>)
  BY DEF IsInjective
<1>3. TypeInv
  <2>1. /\ DOMAIN answers \subseteq Pair /\ answers \in [DOMAIN answers -> Answer]
        /\ info \in Seq(Names(cluster)) /\ IsInjective(info)
    <3>1. answers = <<>> /\ info = <<>>
      BY <1>1 DEF Init, Idle
    <3>2. QED BY <3>1, <1>2
  <2>2. lost \in 0 .. MaxLost /\ crossed \in BOOLEAN
    <3>1. MaxLost \in Nat
      BY NetworkTestAssumption
    <3>2. lost = 0 /\ crossed = FALSE
      BY <1>1 DEF Init, Idle
    <3>3. lost \in 0 .. MaxLost
      BY <3>1, <3>2
    <3>4. crossed \in BOOLEAN
      BY <3>2, Zenon
    <3>5. QED BY <3>3, <3>4
  <2>3. QED BY <1>1, <2>1, <2>2 DEF Init, Idle, TypeInv
<1>4. ControlInv
  BY <1>1 DEF Init, Idle, ControlInv
<1>5. PoolInv
  BY <1>1, FS_EmptySet, NetworkTestAssumption DEF Init, Idle, PoolInv
<1>6. AnswerInv
  BY <1>1 DEF Init, Idle, AnswerInv
<1>7. QED BY <1>3, <1>4, <1>5, <1>6 DEF Inv

(* What is said of a cluster that stays the same stays the same.           *)
LEMMA SameCluster ==
  ASSUME [Next]_vars
  PROVE  /\ cluster' = cluster /\ Names(cluster)' = Names(cluster)
         /\ Pair' = Pair /\ Answer' = Answer /\ Entry' = Entry /\ Device' = Device
<1>1. cluster' = cluster
  BY DEF Next, vars, CollectHostsInfo, BeginTest, RunServer, RunClient,
     EndGroup,
         EndRound, Analyse, Again
<1>2. QED BY <1>1 DEF Names, Pair, Answer, Entry, Device

(* The end of a list of different members.                                 *)
LEMMA SubInjective ==
  ASSUME cluster \in Clusters, NEW some
  PROVE  /\ Those(cluster.hosts, some) \in Seq(Names(cluster))
         /\ IsInjective(Those(cluster.hosts, some))
<1>1. cluster.hosts \in Seq(Names(cluster)) /\ IsInjective(cluster.hosts)
  BY NetworkTestAssumption
<1>2. QED BY <1>1, ThoseFacts

(* What CollectHostsInfo finds, and what it goes on with.                  *)
LEMMA CollectFacts ==
  ASSUME TypeInv, CollectHostsInfo
  PROVE  /\ info' \in Seq(Names(cluster)) /\ IsInjective(info')
         /\ \/ /\ Len(info') < 2 /\ at' = "returned"
               /\ outcome' \in {"success", "failed"}
               /\ UNCHANGED poolVars
            \/ /\ Len(info') >= 2 /\ at' = "tests"
               /\ Test(Round1Pairs(info')) /\ Round1Pairs(info') \in Seq(Pair)
               /\ UNCHANGED outcome
<1>1. PICK some :
        /\ info' = Those(cluster.hosts, some)
        /\ \/ info' = <<>> /\ Return("failed") /\ UNCHANGED poolVars
           \/ Len(info') = 1 /\ Return("success") /\ UNCHANGED poolVars
           \/ /\ Len(info') >= 2 /\ at' = "tests"
              /\ Test(Round1Pairs(info')) /\ UNCHANGED outcome
  BY Zenon DEF CollectHostsInfo
<1>2. cluster \in Clusters
  BY DEF TypeInv
<1>3. info' \in Seq(Names(cluster)) /\ IsInjective(info')
  BY <1>1, <1>2, SubInjective
<1>4. Len(info') >= 2 => Round1Pairs(info') \in Seq(Pair)
  <2>1. SUFFICES ASSUME Len(info') >= 2 PROVE Round1Pairs(info') \in Seq(Pair)
    OBVIOUS
  <2>2. 0 <= Len(info') /\ 0 \in {0, 1}
    BY <1>3
  <2> DEFINE hosts == info'
  <2> HIDE DEF hosts
  <2>3. Neighbouring(hosts, 0) \in Seq(Pair)
    BY <1>2, <1>3, <2>2, NeighbouringFacts DEF hosts
  <2>4. QED BY <2>3 DEF Round1Pairs, hosts
<1>5. CASE /\ Len(info') >= 2 /\ at' = "tests"
           /\ Test(Round1Pairs(info')) /\ UNCHANGED outcome
  BY <1>3, <1>4, <1>5
<1>6. CASE Return("failed") /\ info' = <<>> /\ UNCHANGED poolVars
  <2>1. Len(info') < 2
    BY <1>6
  <2>2. QED BY <1>3, <1>6, <2>1 DEF Return
<1>7. CASE Return("success") /\ Len(info') = 1 /\ UNCHANGED poolVars
  <2>1. Len(info') < 2
    BY <1>7
  <2>2. QED BY <1>3, <1>7, <2>1 DEF Return
<1>8. QED BY <1>1, <1>5, <1>6, <1>7, Zenon

(* The answer of a client has the type of an answer, names its own test,   *)
(* and nothing else changes among the answers.                             *)
LEMMA RunClientFacts ==
  ASSUME TypeInv, NEW p \in active, RunClient(p)
  PROVE  /\ p \in Pair /\ active' = active \ {p}
         /\ DOMAIN answers' = DOMAIN answers \cup {p}
         /\ answers' \in [DOMAIN answers' -> Answer]
         /\ answers'[p].of = p
         /\ \A q \in DOMAIN answers \ {p} : answers'[q] = answers[q]
         /\ listening' \subseteq listening
         /\ lost' \in Nat /\ lost <= lost' /\ lost' <= MaxLost
         /\ crossed' \in BOOLEAN /\ (crossed => crossed')
         /\ answers'[p].success /\ ~ crossed' => Sound(p)
         /\ ~ answers'[p].success /\ ~ crossed' /\ lost' = 0 => ~ Sound(p)
<1> DEFINE own == <<p.server, p.sdev>>
           met == Holding(own)
           used == IF met = {} THEN Ends(p) ELSE met \cup {<<p.client, p.cdev>>}
           sound == used \cap cluster.broken = {}
<1>1. PICK success \in BOOLEAN :
        /\ success => met # {} /\ sound
        /\ ~ success /\ sound => lost < MaxLost
        /\ lost' = IF ~ success /\ sound THEN lost + 1 ELSE lost
        /\ answers' = [q \in DOMAIN answers \cup {p} |->
                         IF q = p THEN [of |-> p, success |-> success] ELSE answers[q]]
        /\ listening' \in IF success THEN {listening \ met}
                          ELSE {listening \ met, listening}
        /\ crossed' = (crossed \/ met \ {own} # {})
  BY Zenon DEF RunClient
<1>2. Ends(p) = {own, <<p.client, p.cdev>>}
  BY DEF Ends
<1> HIDE DEF met, own
<1>3. p \in Pair /\ active' = active \ {p}
  BY DEF RunClient, TypeInv
<1>4. DOMAIN answers' = DOMAIN answers \cup {p}
  BY <1>1
<1>5. answers'[p] = [of |-> p, success |-> success]
  BY <1>1
<1>6. \A q \in DOMAIN answers \ {p} : answers'[q] = answers[q]
  BY <1>1
<1>7. answers' \in [DOMAIN answers' -> Answer]
  <2>1. \A q \in DOMAIN answers : answers[q] \in Answer
    BY DEF TypeInv
  <2>2. [of |-> p, success |-> success] \in Answer
    BY <1>3 DEF Answer
  <2>3. \A q \in DOMAIN answers' : answers'[q] \in Answer
    BY <1>4, <1>5, <1>6, <2>1, <2>2
  <2>4. answers' = [q \in DOMAIN answers' |-> answers'[q]]
    <3>1. \A q \in DOMAIN answers \cup {p} :
            answers'[q] = IF q = p THEN [of |-> p, success |-> success] ELSE answers[q]
      BY <1>1
    <3>2. QED BY <1>1, <1>4, <3>1, Zenon
  <2>5. QED BY <2>3, <2>4
<1>8. listening' \subseteq listening
  BY <1>1
<1>9. lost' \in Nat /\ lost <= lost' /\ lost' <= MaxLost
  <2>1. lost \in 0 .. MaxLost /\ MaxLost \in Nat
    BY NetworkTestAssumption DEF TypeInv
  <2>2. lost' = lost \/ (lost' = lost + 1 /\ lost < MaxLost)
    BY <1>1
  <2>3. QED BY <2>1, <2>2
<1>10. crossed' \in BOOLEAN /\ (crossed => crossed')
  BY <1>1 DEF TypeInv
<1>11. ASSUME ~ crossed', met # {} PROVE used = Ends(p)
  <2>1. met \ {own} = {}
    BY <1>1, <1>11
  <2>2. met = {own}
    BY <2>1, <1>11
  <2>3. QED BY <2>2, <1>2
<1>12. ~ crossed' => used = Ends(p)
  BY <1>11
<1>13. answers'[p].success = success /\ answers'[p].of = p
  BY <1>5
<1>14. ~ crossed' => (sound <=> Sound(p))
  BY <1>12 DEF Sound
<1>15. ~ success /\ sound => lost' # 0
  <2>1. lost \in Nat
    BY NetworkTestAssumption DEF TypeInv
  <2>2. ~ success /\ sound => lost' = lost + 1
    BY <1>1
  <2> HIDE DEF sound
  <2>3. QED BY <2>1, <2>2
<1> HIDE DEF sound
<1>16. success => sound
  <2> USE DEF sound
  <2>1. QED BY <1>1
<1>17. /\ answers'[p].success /\ ~ crossed' => Sound(p)
       /\ ~ answers'[p].success /\ ~ crossed' /\ lost' = 0 => ~ Sound(p)
  BY <1>13, <1>14, <1>15, <1>16
<1>18. QED BY <1>3, <1>4, <1>7, <1>6, <1>8, <1>9, <1>10, <1>13, <1>17

(* The results of a group have a result for each of its tests, and all of  *)
(* them come from the answers.                                             *)
LEMMA EndGroupFacts ==
  ASSUME TypeInv, PoolInv, EndGroup
  PROVE  /\ Len(groups) >= 1 /\ Head(groups) \in Group(Pair)
         /\ \A i \in 1 .. Len(Head(groups)) : Head(groups)[i] \in DOMAIN answers
         /\ results' = results \o [i \in 1 .. Len(Head(groups)) |-> answers[Head(groups)[i]]]
         /\ [i \in 1 .. Len(Head(groups)) |-> answers[Head(groups)[i]]] \in Seq(Answer)
         /\ Len([i \in 1 .. Len(Head(groups)) |-> answers[Head(groups)[i]]])
              = Len(Head(groups))
         /\ results' \in Seq(Answer)
         /\ groups' = Tail(groups) /\ groups' \in Seq(Group(Pair))
         /\ groups' = <<>> => queue' = <<>>
         /\ groups' # <<>> => queue' = Head(groups') /\ queue' \in Group(Pair)
         /\ queue' \in Seq(Pair)
         /\ active = {} /\ active' = {} /\ answers' = <<>>
<1> DEFINE g == Head(groups)
<1>1. groups \in Seq(Group(Pair)) /\ groups # <<>> /\ queue = <<>> /\ active = {}
  BY DEF EndGroup, TypeInv
<1>2. g \in Group(Pair) /\ groups' = Tail(groups) /\ groups' \in Seq(Group(Pair))
      /\ Len(groups) >= 1
  BY <1>1 DEF EndGroup
<1>3. g \in Seq(Pair) /\ Len(g) \in Nat
  BY <1>2 DEF Group
<1>4. DOMAIN answers = {g[i] : i \in 1 .. Len(g)}
  <2>1. active \cup DOMAIN answers = {g[i] : i \in 1 .. Begun}
    BY <1>1 DEF PoolInv
  <2>2. Begun = Len(g)
    BY <1>1, <1>3 DEF Begun
  <2>3. QED BY <1>1, <2>1, <2>2
<1>5. \A q \in DOMAIN answers : answers[q] \in Answer
  BY DEF TypeInv
<1>6. groups' # <<>> => Head(groups') \in Group(Pair)
  BY <1>2
<1>7. /\ groups' = <<>> => queue' = <<>>
      /\ groups' # <<>> => queue' = Head(groups') /\ queue' \in Group(Pair)
      /\ queue' \in Seq(Pair)
  BY <1>6 DEF EndGroup, Group
<1>8. results' = results \o [i \in 1 .. Len(g) |-> answers[g[i]]]
  BY DEF EndGroup
<1> HIDE DEF g
<1>9. /\ [i \in 1 .. Len(g) |-> answers[g[i]]] \in Seq(Answer)
      /\ Len([i \in 1 .. Len(g) |-> answers[g[i]]]) = Len(g)
  BY <1>3, <1>4, <1>5
<1>10. results' \in Seq(Answer)
  BY <1>8, <1>9 DEF TypeInv
<1>11. active' = {} /\ answers' = <<>>
  BY <1>1 DEF EndGroup
<1>12. QED BY <1>1, <1>2, <1>4, <1>7, <1>8, <1>9, <1>10, <1>11 DEF g

(* The round that is stored has an entry for every pair that there is a    *)
(* result for.                                                             *)
LEMMA StoredFacts ==
  ASSUME TypeInv
  PROVE  /\ Stored \in Seq(Entry)
         /\ Len(Stored) <= Len(pairs) /\ Len(Stored) <= Len(results)
         /\ Len(pairs) = Len(results) => Len(Stored) = Len(pairs)
         /\ \A i \in 1 .. Len(Stored) :
              Stored[i].pair = pairs[i] /\ Stored[i].result = results[i]
<1> DEFINE n == IF Len(pairs) < Len(results) THEN Len(pairs) ELSE Len(results)
           stored == [i \in 1 .. n |-> [pair |-> pairs[i], result |-> results[i]]]
<1>1. pairs \in Seq(Pair) /\ results \in Seq(Answer)
  BY DEF TypeInv
<1>2. /\ n \in Nat /\ n <= Len(pairs) /\ n <= Len(results)
      /\ Len(pairs) = Len(results) => n = Len(pairs)
  BY <1>1
<1>3. Stored = stored
  BY Zenon DEF Stored
<1> HIDE DEF n
<1>4. \A i \in 1 .. n : [pair |-> pairs[i], result |-> results[i]] \in Entry
  BY <1>1, <1>2 DEF Entry
<1>5. stored \in Seq(Entry) /\ Len(stored) = n
  BY <1>2, <1>4
<1>6. \A i \in 1 .. n : stored[i].pair = pairs[i] /\ stored[i].result = results[i]
  OBVIOUS
<1> HIDE DEF stored
<1>7. QED BY <1>2, <1>3, <1>5, <1>6

(* The hosts that are left when some of a list are taken out.              *)
LEMMA SplitFacts ==
  ASSUME TypeInv, NEW some
  PROVE  /\ Those(info, some) \in Seq(Names(cluster))
         /\ Range(Those(info, some)) = Range(info) \cap some
         /\ Those(info, some) # <<>> =>
              /\ Head(Those(info, some)) \in Range(info) \cap some
              /\ Head(Those(info, some)) \in Names(cluster)
<1> DEFINE t == Those(info, some)
<1>1. t \in Seq(Names(cluster)) /\ Range(t) = Range(info) \cap some
  BY ThoseFacts DEF TypeInv
<1> HIDE DEF t
<1>2. t # <<>> => Head(t) \in Range(t) /\ Head(t) \in Names(cluster)
  BY <1>1 DEF Range
<1>3. QED BY <1>1, <1>2 DEF t

(* After a round either the analysis begins or a round with well-formed    *)
(* pairs.                                                                  *)
LEMMA EndRoundFacts ==
  ASSUME TypeInv, ControlInv, EndRound
  PROVE  /\ at = "tests" /\ groups = <<>>
         /\ rounds' = Append(rounds, Stored) /\ rounds' \in Seq(Seq(Entry))
         /\ Len(rounds') = Len(rounds) + 1 /\ Len(rounds') <= 3
         /\ \/ at' = "analysis" /\ UNCHANGED poolVars
            \/ /\ at' = "tests" /\ Len(rounds') <= 2
               /\ \E tests \in Seq(Pair) : Test(tests)
<1>1. at = "tests" /\ groups = <<>> /\ rounds' = Append(rounds, Stored)
  BY DEF EndRound
<1>2. rounds \in Seq(Seq(Entry)) /\ Len(rounds) <= 2
  BY <1>1 DEF TypeInv, ControlInv
<1>3. /\ rounds' \in Seq(Seq(Entry))
      /\ Len(rounds') = Len(rounds) + 1 /\ Len(rounds') <= 3
  BY <1>1, <1>2, StoredFacts
<1>4. cluster \in Clusters /\ info \in Seq(Names(cluster)) /\ Len(info) >= 2
  BY <1>1 DEF TypeInv, ControlInv
<1>5. CASE at' = "analysis" /\ UNCHANGED poolVars
  BY <1>1, <1>3, <1>5
<1>6. CASE Len(rounds) = 0 /\ Test(Round2Pairs(info)) /\ UNCHANGED at
  <2>1. Round2Pairs(info) \in Seq(Pair)
    BY <1>4, Round2Facts
  <2>2. Len(rounds') <= 2 /\ at' = "tests"
    BY <1>1, <1>3, <1>6
  <2>3. QED BY <1>1, <1>3, <1>6, <2>1, <2>2
<1>7. CASE /\ Len(rounds) = 1 /\ UNCHANGED at
           /\ \E normal, suspected :
                /\ normal = Those(info, Range(info) \ Suspects) /\ normal # <<>>
                /\ suspected = Those(info, Suspects)
                /\ Test(Round3Pairs(Head(normal), suspected))
  <2>1. PICK normal, suspected :
          /\ normal = Those(info, Range(info) \ Suspects) /\ normal # <<>>
          /\ suspected = Those(info, Suspects)
          /\ Test(Round3Pairs(Head(normal), suspected))
    BY <1>7
  <2>2. Head(normal) \in Names(cluster) /\ suspected \in Seq(Names(cluster))
    BY <2>1, SplitFacts
  <2>3. Round3Pairs(Head(normal), suspected) \in Seq(Pair)
    BY <1>4, <2>2, Round3Facts
  <2>4. Len(rounds') <= 2 /\ at' = "tests"
    BY <1>1, <1>3, <1>7
  <2>5. QED BY <1>1, <1>3, <2>1, <2>3, <2>4
<1>8. QED BY <1>5, <1>6, <1>7, Zenon DEF EndRound

(* The server of a test that waits is a device of the cluster.             *)
LEMMA StartingFacts ==
  ASSUME TypeInv, BeginTest
  PROVE  /\ Head(queue) \in Pair /\ Tail(queue) \in Seq(Pair)
         /\ Len(queue) >= 1 /\ Len(Tail(queue)) = Len(queue) - 1
         /\ Head(queue) = queue[1]
         /\ \A i \in 1 .. Len(Tail(queue)) : Tail(queue)[i] = queue[i + 1]
         /\ <<Head(queue).server, Head(queue).sdev>> \in Device
<1>1. queue \in Seq(Pair) /\ queue # <<>>
  BY DEF TypeInv, BeginTest
<1>2. Head(queue) \in Pair
  BY <1>1
<1>3. <<Head(queue).server, Head(queue).sdev>> \in Device
  BY <1>2 DEF Pair, Device
<1>4. QED BY <1>1, <1>2, <1>3

(* Every step keeps the types.                                             *)
LEMMA TypeStep ==
  ASSUME Inv, [Next]_vars
  PROVE  TypeInv'
<1>1. TypeInv /\ ControlInv /\ PoolInv
  BY DEF Inv
<1>2. /\ cluster' = cluster /\ Names(cluster)' = Names(cluster)
      /\ Pair' = Pair /\ Answer' = Answer /\ Entry' = Entry /\ Device' = Device
  BY SameCluster
<1>3. Group(Pair)' = Group(Pair)
  BY <1>2 DEF Group, Disjoint
<1> USE <1>1, <1>2, <1>3
<1>4. CASE CollectHostsInfo
  <2>1. /\ info' \in Seq(Names(cluster)) /\ IsInjective(info')
        /\ at' \in {"returned", "tests"} /\ outcome' \in {"none", "success", "failed"}
        /\ \/ UNCHANGED poolVars
           \/ Test(Round1Pairs(info')) /\ Round1Pairs(info') \in Seq(Pair)
    BY <1>4, CollectFacts DEF TypeInv
  <2>2. CASE UNCHANGED poolVars
    BY <1>4, <2>1, <2>2 DEF TypeInv, CollectHostsInfo, poolVars
  <2>3. CASE Test(Round1Pairs(info')) /\ Round1Pairs(info') \in Seq(Pair)
    <3>1. /\ pairs' \in Seq(Pair) /\ groups' \in Seq(Group(Pair)) /\ queue' \in Seq(Pair)
          /\ active' = {} /\ answers' = <<>> /\ results' = <<>>
      BY <2>3, TestFacts
    <3>2. DOMAIN answers' \subseteq Pair /\ answers' \in [DOMAIN answers' -> Answer]
      BY <3>1
    <3>3. QED BY <1>4, <2>1, <3>1, <3>2 DEF TypeInv, CollectHostsInfo
  <2>4. QED BY <2>1, <2>2, <2>3
<1>5. CASE BeginTest
  <2>1. /\ queue' \in Seq(Pair) /\ active' \in SUBSET Pair
        /\ starting' \in SUBSET Device
    BY <1>5, StartingFacts DEF TypeInv, BeginTest
  <2>2. QED BY <1>5, <2>1 DEF TypeInv, BeginTest
<1>6. ASSUME NEW s \in starting, RunServer(s) PROVE TypeInv'
  <2>1. starting' \in SUBSET Device /\ listening' \in SUBSET Device
    BY <1>6 DEF TypeInv, RunServer
  <2>2. QED BY <1>6, <2>1 DEF TypeInv, RunServer, poolVars
<1>7. ASSUME NEW p \in active, RunClient(p) PROVE TypeInv'
  <2>1. /\ active' \in SUBSET Pair
        /\ DOMAIN answers' \subseteq Pair /\ answers' \in [DOMAIN answers' -> Answer]
        /\ listening' \in SUBSET Device
        /\ lost' \in 0 .. MaxLost /\ crossed' \in BOOLEAN
    <3>1. MaxLost \in Nat
      BY NetworkTestAssumption
    <3>2. /\ p \in Pair /\ active' = active \ {p}
          /\ DOMAIN answers' = DOMAIN answers \cup {p}
          /\ answers' \in [DOMAIN answers' -> Answer]
          /\ listening' \subseteq listening
          /\ lost' \in Nat /\ lost' <= MaxLost /\ crossed' \in BOOLEAN
      BY <1>7, RunClientFacts
    <3>3. active' \in SUBSET Pair /\ DOMAIN answers' \subseteq Pair
      BY <3>2 DEF TypeInv
    <3>4. listening' \in SUBSET Device
      BY <3>2 DEF TypeInv
    <3>5. lost' \in 0 .. MaxLost
      BY <3>1, <3>2
    <3>6. QED BY <3>2, <3>3, <3>4, <3>5
  <2>2. QED BY <1>7, <2>1 DEF TypeInv, RunClient
<1>8. CASE EndGroup
  <2>1. /\ groups' \in Seq(Group(Pair)) /\ queue' \in Seq(Pair) /\ results' \in Seq(Answer)
        /\ answers' = <<>>
    BY <1>8, EndGroupFacts
  <2>2. DOMAIN answers' \subseteq Pair /\ answers' \in [DOMAIN answers' -> Answer]
    BY <2>1
  <2>3. QED BY <1>8, <2>1, <2>2 DEF TypeInv, EndGroup
<1>9. CASE EndRound
  <2>1. /\ rounds' \in Seq(Seq(Entry)) /\ at' \in {"analysis", "tests"}
        /\ UNCHANGED poolVars \/ \E tests \in Seq(Pair) : Test(tests)
    BY <1>9, EndRoundFacts
  <2>2. CASE UNCHANGED poolVars
    BY <1>9, <2>1, <2>2 DEF TypeInv, EndRound, poolVars
  <2>3. CASE \E tests \in Seq(Pair) : Test(tests)
    <3>1. /\ pairs' \in Seq(Pair) /\ groups' \in Seq(Group(Pair)) /\ queue' \in Seq(Pair)
          /\ active' = {} /\ answers' = <<>> /\ results' = <<>>
      BY <2>3, TestFacts
    <3>2. DOMAIN answers' \subseteq Pair /\ answers' \in [DOMAIN answers' -> Answer]
      BY <3>1
    <3>3. QED BY <1>9, <2>1, <3>1, <3>2 DEF TypeInv, EndRound
  <2>4. QED BY <2>1, <2>2, <2>3
<1>10. CASE Analyse
  <2>1. at' = "returned" /\ outcome' \in {"success", "failed"}
    BY <1>10 DEF Analyse, Return
  <2>2. QED BY <1>10, <2>1 DEF TypeInv, Analyse, poolVars
<1>11. CASE Again
  <2>1. /\ info' \in Seq(Names(cluster)) /\ IsInjective(info')
        /\ DOMAIN answers' \subseteq Pair /\ answers' \in [DOMAIN answers' -> Answer]
    <3>1. info' = <<>> /\ answers' = <<>>
      BY <1>11 DEF Again
    <3>2. QED BY <3>1 DEF IsInjective
  <2>2. lost' \in 0 .. MaxLost /\ crossed' \in BOOLEAN
    <3>1. MaxLost \in Nat
      BY NetworkTestAssumption
    <3>2. lost' = 0 /\ crossed' = FALSE
      BY <1>11 DEF Again
    <3>3. lost' \in 0 .. MaxLost
      BY <3>1, <3>2
    <3>4. crossed' \in BOOLEAN
      BY <3>2, Zenon
    <3>5. QED BY <3>3, <3>4
  <2>3. QED BY <1>11, <2>1, <2>2 DEF TypeInv, Again
<1>12. CASE UNCHANGED vars
  BY <1>12 DEF TypeInv, vars, poolVars
<1>13. QED BY <1>4, <1>5, <1>6, <1>7, <1>8, <1>9, <1>10, <1>11, <1>12 DEF Next

(* Every step keeps the number of rounds in its bounds.                    *)
LEMMA ControlStep ==
  ASSUME Inv, [Next]_vars
  PROVE  ControlInv'
<1>1. TypeInv /\ ControlInv /\ PoolInv
  BY DEF Inv
<1> USE <1>1
<1>2. CASE CollectHostsInfo
  <2>1. at = "start" /\ rounds' = rounds
    BY <1>2 DEF CollectHostsInfo
  <2>2. rounds = <<>>
    BY <2>1 DEF ControlInv
  <2>3. at' = "returned" \/ (at' = "tests" /\ Len(info') >= 2)
    BY <1>2, CollectFacts
  <2>4. QED BY <2>1, <2>2, <2>3 DEF ControlInv
<1>3. CASE BeginTest
  BY <1>3 DEF ControlInv, BeginTest
<1>4. ASSUME NEW s \in starting, RunServer(s) PROVE ControlInv'
  BY <1>4 DEF ControlInv, RunServer
<1>5. ASSUME NEW p \in active, RunClient(p) PROVE ControlInv'
  BY <1>5 DEF ControlInv, RunClient
<1>6. CASE EndGroup
  BY <1>6 DEF ControlInv, EndGroup
<1>7. CASE EndRound
  <2>1. info' = info
    BY <1>7 DEF EndRound
  <2>2. QED BY <1>7, <2>1, EndRoundFacts DEF ControlInv
<1>8. CASE Analyse
  BY <1>8 DEF ControlInv, Analyse, Return
<1>9. CASE Again
  BY <1>9 DEF ControlInv, Again
<1>10. CASE UNCHANGED vars
  BY <1>10 DEF ControlInv, vars
<1>11. QED BY <1>2, <1>3, <1>4, <1>5, <1>6, <1>7, <1>8, <1>9, <1>10 DEF Next

(* A group that has just become the first one: none of its tests has begun.*)
LEMMA FreshGroup ==
  ASSUME Pair' = Pair, groups' \in Seq(Group(Pair)),
         groups' = <<>> => queue' = <<>>,
         groups' # <<>> => queue' = Head(groups') /\ queue' \in Group(Pair),
         active' = {}, answers' = <<>>
  PROVE  PoolInv'
<1>1. DOMAIN answers' = {}
  OBVIOUS
<1>2. IsFiniteSet(active') /\ Cardinality(active') <= MaxWorkers
  <2>1. IsFiniteSet({}) /\ Cardinality({}) = 0
    BY FS_EmptySet
  <2>2. MaxWorkers \in Nat
    BY NetworkTestAssumption
  <2>3. QED BY <2>1, <2>2
<1>3. ASSUME groups' # <<>>
      PROVE  /\ Begun' = 0
             /\ \A i \in 1 .. Len(queue') : queue'[i] = Head(groups')[Begun' + i]
             /\ {Head(groups')[i] : i \in 1 .. Begun'} = {}
  <2>1. queue' = Head(groups') /\ Len(queue') \in Nat
    BY <1>3 DEF Group
  <2>2. Begun' = 0
    BY <2>1 DEF Begun
  <2>3. QED BY <2>1, <2>2
<1>4. QED BY <1>1, <1>2, <1>3 DEF PoolInv

(* The pool of a group is not disturbed by a step that leaves it alone.    *)
LEMMA SamePool ==
  ASSUME PoolInv, UNCHANGED <<groups, queue, active, answers>>
  PROVE  PoolInv'
BY DEF PoolInv, Begun

(* Every step keeps the tests of the running group divided into those that *)
(* wait, run, and have answered.                                           *)
LEMMA PoolStep ==
  ASSUME Inv, [Next]_vars
  PROVE  PoolInv'
<1>1. TypeInv /\ ControlInv /\ PoolInv
  BY DEF Inv
<1>2. Pair' = Pair
  BY SameCluster
<1> USE <1>1, <1>2
<1>3. CASE CollectHostsInfo
  <2>1. \/ UNCHANGED poolVars
        \/ Test(Round1Pairs(info')) /\ Round1Pairs(info') \in Seq(Pair)
    BY <1>3, CollectFacts
  <2>2. CASE UNCHANGED poolVars
    BY <2>2, SamePool DEF poolVars
  <2>3. CASE Test(Round1Pairs(info')) /\ Round1Pairs(info') \in Seq(Pair)
    BY <2>3, TestFacts, FreshGroup
  <2>4. QED BY <2>1, <2>2, <2>3
<1>4. CASE BeginTest
  <2> DEFINE g == Head(groups)
             p == Head(queue)
  <2>1. /\ queue # <<>> /\ queue' = Tail(queue) /\ active' = active \cup {p}
        /\ groups' = groups /\ answers' = answers /\ Cardinality(active) < MaxWorkers
    BY <1>4 DEF BeginTest
  <2>2. groups # <<>> /\ g \in Group(Pair) /\ queue \in Seq(Pair)
    BY <2>1 DEF PoolInv, TypeInv
  <2>3. /\ g \in Seq(Pair) /\ Len(g) \in Nat /\ Len(queue) \in Nat /\ Len(queue) >= 1
        /\ Disjoint(g)
    BY <2>1, <2>2 DEF Group
  <2>4. /\ Begun \in Nat
        /\ \A i \in 1 .. Len(queue) : queue[i] = g[Begun + i]
        /\ active \cup DOMAIN answers = {g[i] : i \in 1 .. Begun}
        /\ active \cap DOMAIN answers = {}
        /\ IsFiniteSet(active)
    BY <2>2 DEF PoolInv
  <2>5. Begun = Len(g) - Len(queue)
    BY DEF Begun
  <2>6. /\ p = queue[1] /\ Len(queue') = Len(queue) - 1
        /\ \A i \in 1 .. Len(queue') : queue'[i] = queue[i + 1]
    BY <1>4, <2>1, StartingFacts
  <2>7. Begun' = Begun + 1
    BY <2>1, <2>3, <2>5, <2>6 DEF Begun
  <2>8. p = g[Begun + 1] /\ Begun + 1 \in 1 .. Len(g)
    BY <2>3, <2>4, <2>5, <2>6
  <2> HIDE DEF g, p
  <2>9. ASSUME NEW i \in 1 .. Begun PROVE g[i] # p
    <3>1. /\ i \in 1 .. Len(g) /\ i # Begun + 1
      BY <2>3, <2>4, <2>5
    <3>2. {g[i].server, g[i].client} \cap {p.server, p.client} = {}
      BY <2>3, <2>8, <3>1 DEF Disjoint
    <3>3. QED BY <3>2
  <2>10. p \notin active /\ p \notin DOMAIN answers
    BY <2>4, <2>9
  <2>11. active' \cup DOMAIN answers' = {g[i] : i \in 1 .. Begun'}
    <3>1. 1 .. Begun + 1 = (1 .. Begun) \cup {Begun + 1}
      BY <2>4
    <3>2. {g[i] : i \in 1 .. Begun + 1} = {g[i] : i \in 1 .. Begun} \cup {g[Begun + 1]}
      BY <3>1, Zenon
    <3>3. QED BY <2>1, <2>4, <2>7, <2>8, <3>2
  <2>12. \A i \in 1 .. Len(queue') : queue'[i] = g[Begun' + i]
    <3>1. ASSUME NEW i \in 1 .. Len(queue') PROVE queue'[i] = g[Begun' + i]
      <4>1. i + 1 \in 1 .. Len(queue) /\ Begun' + i = Begun + (i + 1)
        BY <2>3, <2>4, <2>6, <2>7
      <4>2. QED BY <2>4, <2>6, <4>1
    <3>2. QED BY <3>1
  <2>13. active' \cap DOMAIN answers' = {}
    BY <2>1, <2>4, <2>10
  <2>14. IsFiniteSet(active') /\ Cardinality(active') <= MaxWorkers
    <3>1. /\ IsFiniteSet(active') /\ Cardinality(active') = Cardinality(active) + 1
          /\ Cardinality(active) \in Nat
      BY <2>1, <2>4, <2>10, FS_AddElement, FS_CardinalityType
    <3>2. MaxWorkers \in Nat
      BY NetworkTestAssumption
    <3>3. QED BY <2>1, <3>1, <3>2
  <2>15. Begun' \in Nat
    BY <2>4, <2>7
  <2>16. Head(groups') = g /\ groups' # <<>>
    BY <2>1, <2>2 DEF g
  <2>17. QED BY <2>11, <2>12, <2>13, <2>14, <2>15, <2>16 DEF PoolInv
<1>5. ASSUME NEW s \in starting, RunServer(s) PROVE PoolInv'
  BY <1>5, SamePool DEF RunServer, poolVars
<1>6. ASSUME NEW p \in active, RunClient(p) PROVE PoolInv'
  <2>1. groups' = groups /\ queue' = queue
    BY <1>6 DEF RunClient
  <2>2. active' = active \ {p} /\ DOMAIN answers' = DOMAIN answers \cup {p}
    BY <1>6, RunClientFacts
  <2>3. Begun' = Begun
    BY <2>1 DEF Begun
  <2>4. groups # <<>>
    BY <1>6 DEF PoolInv
  <2>5. active' \cup DOMAIN answers' = active \cup DOMAIN answers
        /\ active' \cap DOMAIN answers' = {}
    BY <2>2, <1>6 DEF PoolInv
  <2>6. IsFiniteSet(active') /\ Cardinality(active') <= MaxWorkers
    <3>1. IsFiniteSet(active) /\ Cardinality(active) <= MaxWorkers
      BY DEF PoolInv
    <3>2. /\ IsFiniteSet(active') /\ Cardinality(active') = Cardinality(active) - 1
          /\ Cardinality(active) \in Nat
      BY <1>6, <2>2, <3>1, FS_RemoveElement, FS_CardinalityType
    <3>3. MaxWorkers \in Nat
      BY NetworkTestAssumption
    <3>4. QED BY <3>1, <3>2, <3>3
  <2>7. QED BY <2>1, <2>3, <2>4, <2>5, <2>6 DEF PoolInv
<1>7. CASE EndGroup
  BY <1>7, EndGroupFacts, FreshGroup
<1>8. CASE EndRound
  <2>1. UNCHANGED poolVars \/ \E tests \in Seq(Pair) : Test(tests)
    BY <1>8, EndRoundFacts
  <2>2. CASE UNCHANGED poolVars
    BY <2>2, SamePool DEF poolVars
  <2>3. CASE \E tests \in Seq(Pair) : Test(tests)
    BY <2>3, TestFacts, FreshGroup
  <2>4. QED BY <2>1, <2>2, <2>3
<1>9. CASE Analyse
  BY <1>9, SamePool DEF Analyse, poolVars
<1>10. CASE Again
  <2>1. groups' \in Seq(Group(Pair))
    BY <1>10 DEF Again
  <2>2. QED BY <1>10, <2>1, FreshGroup DEF Again
<1>11. CASE UNCHANGED vars
  BY <1>11, SamePool DEF vars, poolVars
<1>12. QED BY <1>3, <1>4, <1>5, <1>6, <1>7, <1>8, <1>9, <1>10, <1>11 DEF Next

(* Told of a result in the next state.                                     *)
ToldNext(a) ==
  /\ a.success /\ ~ crossed' => Sound(a.of)
  /\ ~ a.success /\ ~ crossed' /\ lost' = 0 => ~ Sound(a.of)

(* A result that tells something goes on telling it as tests are lost or   *)
(* crossed: it is held to less.                                            *)
LEMMA ToldStays ==
  ASSUME crossed => crossed', lost \in Nat, lost' \in Nat, lost <= lost'
  PROVE  \A a : Told(a) => ToldNext(a)
<1>1. lost' = 0 => lost = 0
  OBVIOUS
<1>2. QED BY <1>1 DEF Told, ToldNext

(* AnswerInv of the next state, from what its results tell there.          *)
LEMMA AnswerNext ==
  ASSUME cluster' = cluster,
         \A p \in DOMAIN answers' : answers'[p].of = p /\ ToldNext(answers'[p]),
         \A i \in 1 .. Len(results') : ToldNext(results'[i]),
         \A r \in 1 .. Len(rounds') : \A i \in 1 .. Len(rounds'[r]) :
           ToldNext(rounds'[r][i].result)
  PROVE  AnswerInv'
<1>1. ASSUME NEW p \in DOMAIN answers' PROVE Sound(answers[p].of)' = Sound(answers'[p].of)
  BY DEF Sound, Ends
<1>2. \A p \in DOMAIN answers' : answers'[p].of = p /\ Told(answers[p])'
  BY <1>1 DEF ToldNext, Told
<1>3. \A i \in 1 .. Len(results') : Sound(results[i].of)' = Sound(results'[i].of)
  BY DEF Sound, Ends
<1>4. \A i \in 1 .. Len(results') : Told(results[i])'
  BY <1>3 DEF ToldNext, Told
<1>5. \A r \in 1 .. Len(rounds') : \A i \in 1 .. Len(rounds'[r]) :
        Sound(rounds[r][i].result.of)' = Sound(rounds'[r][i].result.of)
  BY DEF Sound, Ends
<1>6. \A r \in 1 .. Len(rounds') : \A i \in 1 .. Len(rounds'[r]) :
        Told(rounds[r][i].result)'
  BY <1>5 DEF ToldNext, Told
<1>7. QED BY <1>2, <1>4, <1>6 DEF AnswerInv

(* Results that stay, or are cleared, go on telling what they told.        *)
LEMMA SameAnswers ==
  ASSUME AnswerInv, UNCHANGED <<cluster, lost, crossed, rounds>>,
         UNCHANGED <<answers, results>> \/ (answers' = <<>> /\ results' = <<>>)
  PROVE  AnswerInv'
<1>1. \A a : Told(a) => ToldNext(a)
  BY DEF Told, ToldNext
<1>2. \A p \in DOMAIN answers' : answers'[p].of = p /\ ToldNext(answers'[p])
  BY <1>1 DEF AnswerInv
<1>3. \A i \in 1 .. Len(results') : ToldNext(results'[i])
  BY <1>1 DEF AnswerInv
<1>4. \A r \in 1 .. Len(rounds') : \A i \in 1 .. Len(rounds'[r]) :
        ToldNext(rounds'[r][i].result)
  BY <1>1 DEF AnswerInv
<1>5. QED BY <1>2, <1>3, <1>4, AnswerNext

(* Every step keeps the results telling of the test that they are the      *)
(* result of; the client's is the one that adds a result.                  *)
LEMMA AnswerStep ==
  ASSUME Inv, [Next]_vars
  PROVE  AnswerInv'
<1>1. TypeInv /\ ControlInv /\ PoolInv /\ AnswerInv
  BY DEF Inv
<1>2. cluster' = cluster
  BY SameCluster
<1>3. lost \in Nat
  BY <1>1, NetworkTestAssumption DEF TypeInv
<1> USE <1>1, <1>2, <1>3
<1>4. UNCHANGED <<lost, crossed>> => \A a : Told(a) => ToldNext(a)
  BY DEF Told, ToldNext
<1>5. CASE CollectHostsInfo
  <2>1. rounds' = rounds /\ UNCHANGED <<lost, crossed>>
    BY <1>5 DEF CollectHostsInfo
  <2>2. UNCHANGED <<answers, results>> \/ (answers' = <<>> /\ results' = <<>>)
    <3>1. \/ UNCHANGED poolVars
          \/ Test(Round1Pairs(info')) /\ Round1Pairs(info') \in Seq(Pair)
      BY <1>5, CollectFacts
    <3>2. QED BY <3>1 DEF Test, poolVars
  <2>3. QED BY <2>1, <2>2, SameAnswers
<1>6. CASE BeginTest
  BY <1>6, SameAnswers DEF BeginTest
<1>7. ASSUME NEW s \in starting, RunServer(s) PROVE AnswerInv'
  BY <1>7, SameAnswers DEF RunServer, poolVars
<1>8. ASSUME NEW p \in active, RunClient(p) PROVE AnswerInv'
  <2>1. /\ DOMAIN answers' = DOMAIN answers \cup {p}
        /\ answers'[p].of = p
        /\ \A q \in DOMAIN answers \ {p} : answers'[q] = answers[q]
        /\ lost' \in Nat /\ lost <= lost'
        /\ crossed => crossed'
        /\ answers'[p].success /\ ~ crossed' => Sound(p)
        /\ ~ answers'[p].success /\ ~ crossed' /\ lost' = 0 => ~ Sound(p)
    BY <1>8, RunClientFacts
  <2>2. results' = results /\ rounds' = rounds
    BY <1>8 DEF RunClient
  <2>3. \A a : Told(a) => ToldNext(a)
    BY <2>1, ToldStays
  <2>4. ToldNext(answers'[p])
    BY <2>1 DEF ToldNext
  <2>5. \A q \in DOMAIN answers' : answers'[q].of = q /\ ToldNext(answers'[q])
    BY <2>1, <2>3, <2>4 DEF AnswerInv
  <2>6. QED BY <2>2, <2>3, <2>5, AnswerNext DEF AnswerInv
<1>9. CASE EndGroup
  <2> DEFINE g == Head(groups)
             told == [i \in 1 .. Len(g) |-> answers[g[i]]]
  <2>1. /\ \A i \in 1 .. Len(g) : g[i] \in DOMAIN answers
        /\ results' = results \o told
        /\ told \in Seq(Answer) /\ Len(told) = Len(g)
        /\ answers' = <<>>
    BY <1>9, EndGroupFacts
  <2>2. rounds' = rounds /\ UNCHANGED <<lost, crossed>>
    BY <1>9 DEF EndGroup
  <2>3. ASSUME NEW i \in 1 .. Len(results') PROVE Told(results'[i])
    <3>1. results \in Seq(Answer)
      BY DEF TypeInv
    <3>2. \A j \in 1 .. Len(g) : Told(told[j])
      BY <2>1 DEF AnswerInv
    <3> HIDE DEF told, g
    <3>3. CASE i <= Len(results)
      <4>1. i \in 1 .. Len(results) /\ results'[i] = results[i]
        BY <2>1, <3>1, <3>3
      <4>2. QED BY <4>1 DEF AnswerInv
    <3>4. CASE ~ (i <= Len(results))
      <4>1. /\ i - Len(results) \in 1 .. Len(g)
            /\ results'[i] = told[i - Len(results)]
        BY <2>1, <3>1, <3>4
      <4>2. QED BY <3>2, <4>1
    <3>5. QED BY <3>3, <3>4
  <2> HIDE DEF told, g
  <2>4. \A i \in 1 .. Len(results') : ToldNext(results'[i])
    <3>1. \A a : Told(a) => ToldNext(a)
      BY <1>4, <2>2
    <3>2. QED BY <2>3, <3>1
  <2>5. DOMAIN answers' = {}
    BY <2>1
  <2>6. QED BY <1>4, <2>2, <2>4, <2>5, AnswerNext DEF AnswerInv
<1>10. CASE EndRound
  <2>1. rounds' = Append(rounds, Stored) /\ UNCHANGED <<lost, crossed>>
    BY <1>10 DEF EndRound
  <2>2. UNCHANGED <<answers, results>> \/ (answers' = <<>> /\ results' = <<>>)
    <3>1. UNCHANGED poolVars \/ \E tests \in Seq(Pair) : Test(tests)
      BY <1>10, EndRoundFacts
    <3>2. QED BY <3>1 DEF Test, poolVars
  <2>3. \A i \in 1 .. Len(Stored) : Told(Stored[i].result)
    <3>1. ASSUME NEW i \in 1 .. Len(Stored) PROVE Told(Stored[i].result)
      <4>1. i \in 1 .. Len(results) /\ Stored[i].result = results[i]
        BY StoredFacts DEF TypeInv
      <4>2. QED BY <4>1 DEF AnswerInv
    <3>2. QED BY <3>1
  <2>4. ASSUME NEW r \in 1 .. Len(rounds'), NEW i \in 1 .. Len(rounds'[r])
        PROVE  Told(rounds'[r][i].result)
    <3>1. rounds \in Seq(Seq(Entry)) /\ Stored \in Seq(Entry)
      BY StoredFacts DEF TypeInv
    <3>2. CASE r = Len(rounds) + 1
      <4>1. rounds'[r] = Stored
        BY <2>1, <3>1, <3>2
      <4>2. QED BY <2>3, <4>1
    <3>3. CASE r # Len(rounds) + 1
      <4>1. r \in 1 .. Len(rounds) /\ rounds'[r] = rounds[r]
        BY <2>1, <3>1, <3>3
      <4>2. QED BY <4>1 DEF AnswerInv
    <3>4. QED BY <3>2, <3>3
  <2>5. \A a : Told(a) => ToldNext(a)
    BY <1>4, <2>1
  <2>6. \A r \in 1 .. Len(rounds') : \A i \in 1 .. Len(rounds'[r]) :
          ToldNext(rounds'[r][i].result)
    BY <2>4, <2>5
  <2>7. QED BY <2>2, <2>5, <2>6, AnswerNext DEF AnswerInv
<1>11. CASE Analyse
  BY <1>11, SameAnswers DEF Analyse, poolVars
<1>12. CASE Again
  BY <1>12 DEF AnswerInv, Again
<1>13. CASE UNCHANGED vars
  BY <1>13, SameAnswers DEF vars, poolVars
<1>14. QED BY <1>5, <1>6, <1>7, <1>8, <1>9, <1>10, <1>11, <1>12, <1>13 DEF Next

(* The invariant of the pool holds in every state.                         *)
LEMMA AlwaysInv == Spec => []Inv
<1>1. Init => Inv
  BY InitInv
<1>2. Inv /\ [Next]_vars => Inv'
  <2>1. SUFFICES ASSUME Inv, [Next]_vars PROVE Inv'
    OBVIOUS
  <2>2. QED
    BY <2>1, TypeStep, ControlStep, PoolStep, AnswerStep DEF Inv
<1>3. QED BY <1>1, <1>2, PTL DEF Spec

(* Every variable has its type, no more tests run than the pool has        *)
(* threads, and those that run or have answered belong to the running      *)
(* group (test_concurrent).                                                *)
THEOREM TypeCorrect == Spec => []TypeOK
<1>1. Inv => TypeOK
  <2>1. SUFFICES ASSUME Inv PROVE TypeOK
    OBVIOUS
  <2>2. TypeInv /\ ControlInv /\ PoolInv
    BY <2>1 DEF Inv
  <2>3. ASSUME NEW p \in active \cup DOMAIN answers
        PROVE  groups # <<>> /\ p \in Range(Head(groups))
    <3>1. groups # <<>>
      BY <2>2 DEF PoolInv
    <3> DEFINE g == Head(groups)
    <3>2. g \in Group(Pair) /\ Len(queue) \in Nat
      BY <2>2, <3>1 DEF TypeInv
    <3>3. g \in Seq(Pair) /\ Len(g) \in Nat
      BY <3>2 DEF Group
    <3>4. PICK i \in 1 .. Begun : p = g[i]
      BY <2>2, <3>1 DEF PoolInv
    <3>5. i \in 1 .. Len(g)
      BY <2>2, <3>1, <3>2, <3>3 DEF PoolInv, Begun
    <3> HIDE DEF g
    <3>6. p \in Range(g)
      BY <3>3, <3>4, <3>5 DEF Range
    <3>7. QED BY <3>1, <3>6 DEF g
  <2>4. /\ active \cap DOMAIN answers = {} /\ Cardinality(active) <= MaxWorkers
        /\ Len(rounds) <= 3
    BY <2>2 DEF PoolInv, ControlInv
  <2>5. starting \cup listening \subseteq Names(cluster) \X DOMAIN Number
    BY <2>2 DEF TypeInv, Device
  <2>6. QED BY <2>2, <2>3, <2>4, <2>5 DEF TypeOK, TypeInv
<1>2. QED BY <1>1, AlwaysInv, PTL

(* A broken device that took part in a test is never found normal,         *)
(* whatever else is broken or gets lost (_analyze_results): a test with it *)
(* cannot have succeeded, so it failed in at least one round. Given that   *)
(* the results stand with their pairs and that no client met a foreign     *)
(* server.                                                                 *)
THEOREM BrokenIsNoticed == Spec => []BrokenNeverNormal
<1>1. Inv => BrokenNeverNormal
  <2>1. SUFFICES ASSUME Inv, InOrder, ~ crossed, NEW d \in Tested \cap cluster.broken
                 PROVE  FinalStatus(d) # "normal"
    BY DEF BrokenNeverNormal
  <2>2. TypeInv /\ AnswerInv
    BY <2>1 DEF Inv
  <2>3. PICK r \in 1 .. Len(rounds) : \E i \in 1 .. Len(rounds[r]) :
          d \in Ends(rounds[r][i].pair)
    BY DEF Tested
  <2>4. PICK i \in 1 .. Len(rounds[r]) : d \in Ends(rounds[r][i].pair)
    BY <2>3
  <2>5. Told(rounds[r][i].result) /\ rounds[r][i].result.of = rounds[r][i].pair
    BY <2>1, <2>2 DEF AnswerInv, InOrder
  <2>6. ~ Sound(rounds[r][i].pair)
    BY <2>4 DEF Sound
  <2>7. ~ rounds[r][i].result.success
    BY <2>1, <2>5, <2>6 DEF Told
  <2>8. d \in AbnormalDevices(rounds[r])
    BY <2>4, <2>7 DEF AbnormalDevices
  <2> DEFINE fails == {q \in 1 .. Len(rounds) : d \in AbnormalDevices(rounds[q])}
  <2>9. Cardinality(fails) # 0
    <3>1. r \in fails
      BY <2>8
    <3>2. Len(rounds) \in Nat
      BY <2>2 DEF TypeInv
    <3>3. IsFiniteSet(1 .. Len(rounds))
      BY <3>2, FS_Interval
    <3>4. IsFiniteSet(fails)
      BY <3>3, FS_Subset
    <3> HIDE DEF fails
    <3>5. QED BY <3>1, <3>4, FS_EmptySet
  <2>10. FinalStatus(d) = CASE Cardinality(fails) = 0 -> "normal"
                            [] Cardinality(fails) # 0
                                 /\ (Cardinality(fails) >= Len(rounds)
                                       \/ Cardinality(fails) >= 2) -> "abnormal"
                            [] OTHER -> "suspected"
    BY Zenon DEF FinalStatus
  <2> HIDE DEF fails
  <2>11. QED BY <2>9, <2>10
<1>2. QED BY <1>1, AlwaysInv, PTL

(* The running tests share no host.                                        *)
HostsApart ==
  \A p, q \in active :
    p # q => {p.server, p.client} \cap {q.server, q.client} = {}

(* Two tests that run at the same time share no host, neither as server    *)
(* nor as client: what _group_non_overlapping_pairs is for.                *)
THEOREM TestsApart == Spec => []HostsApart
<1>1. Inv => HostsApart
  <2>1. SUFFICES ASSUME Inv, NEW p \in active, NEW q \in active, p # q
                 PROVE  {p.server, p.client} \cap {q.server, q.client} = {}
    BY DEF HostsApart
  <2>2. TypeInv /\ PoolInv
    BY <2>1 DEF Inv
  <2> DEFINE g == Head(groups)
  <2>3. groups # <<>>
    BY <2>2 DEF PoolInv
  <2>4. g \in Group(Pair) /\ Len(queue) \in Nat
    BY <2>2, <2>3 DEF TypeInv
  <2>5. Disjoint(g) /\ Len(g) \in Nat
    BY <2>4 DEF Group
  <2>6. Begun \in Nat /\ active \subseteq {g[i] : i \in 1 .. Begun}
    BY <2>2, <2>3 DEF PoolInv
  <2>7. Begun = Len(g) - Len(queue)
    BY DEF Begun
  <2> HIDE DEF g
  <2>8. PICK i \in 1 .. Begun : p = g[i]
    BY <2>6
  <2>9. PICK j \in 1 .. Begun : q = g[j]
    BY <2>6
  <2>10. i \in 1 .. Len(g) /\ j \in 1 .. Len(g) /\ i # j
    BY <2>1, <2>4, <2>5, <2>6, <2>7, <2>8, <2>9
  <2>11. QED BY <2>5, <2>8, <2>9, <2>10 DEF Disjoint
<1>2. QED BY <1>1, AlwaysInv, PTL

(* How many tests the first groups have.                                   *)
Totals(gs) ==
  CHOOSE f : f = [i \in 0 .. Len(gs) |-> IF i = 0 THEN 0 ELSE f[i - 1] + Len(gs[i])]

(* How many tests the groups have.                                         *)
Total(gs) == Totals(gs)[Len(gs)]

(* The sums of the lengths of the groups, step by step.                    *)
LEMMA TotalsFacts ==
  ASSUME NEW A, NEW gs \in Seq(Seq(A))
  PROVE  /\ Totals(gs) \in [0 .. Len(gs) -> Nat]
         /\ Totals(gs)[0] = 0
         /\ \A i \in 1 .. Len(gs) : Totals(gs)[i] = Totals(gs)[i - 1] + Len(gs[i])
<1> DEFINE n == Len(gs)
           none == 0
           step == [x \in Nat \X (1 .. n) |-> x[1] + Len(gs[x[2]])]
<1>1. n \in Nat /\ none \in Nat
  OBVIOUS
<1>2. step \in StepFunctions(Nat, n)
  <2>1. ASSUME NEW x \in Nat \X (1 .. n) PROVE x[1] + Len(gs[x[2]]) \in Nat
    <3>1. x[1] \in Nat /\ gs[x[2]] \in Seq(A)
      OBVIOUS
    <3>2. QED BY <3>1
  <2> HIDE DEF n
  <2>2. QED BY <2>1 DEF StepFunctions
<1>3. PICK f \in [0 .. n -> Nat] :
        f[0] = none /\ \A i \in 1 .. n : f[i] = step[<<f[i - 1], i>>]
  <2> HIDE DEF step, n, none
  <2>1. WalkExists(n, Nat, none, step)
    BY <1>1, <1>2, Steps
  <2>2. QED BY <2>1 DEF WalkExists
<1>4. ASSUME NEW i \in 1 .. n PROVE f[i] = f[i - 1] + Len(gs[i])
  <2>1. f[i - 1] \in Nat
    <3> HIDE DEF step
    <3>1. i - 1 \in 0 .. n
      BY <1>1
    <3>2. QED BY <1>3, <3>1
  <2>2. step[<<f[i - 1], i>>] = f[i - 1] + Len(gs[i])
    BY <2>1
  <2> HIDE DEF step
  <2>3. QED BY <1>3, <2>2
<1>5. f = [i \in 0 .. n |-> IF i = 0 THEN 0 ELSE f[i - 1] + Len(gs[i])]
  <2> HIDE DEF step
  <2>1. f[0] = 0 /\ f = [i \in 0 .. n |-> f[i]]
    BY <1>3
  <2>2. \A i \in 0 .. n : i # 0 => i \in 1 .. n
    BY <1>1
  <2>3. QED BY <2>1, <2>2, <1>4
<1>6. \E g : g = [i \in 0 .. Len(gs) |-> IF i = 0 THEN 0 ELSE g[i - 1] + Len(gs[i])]
  BY <1>5
<1> DEFINE t == Totals(gs)
<1>7. t = [i \in 0 .. n |-> IF i = 0 THEN 0 ELSE t[i - 1] + Len(gs[i])]
  BY <1>6, Zenon DEF Totals
<1> HIDE DEF t
<1>8. /\ t[0] = 0 /\ \A i \in 1 .. n : t[i] = t[i - 1] + Len(gs[i])
      /\ DOMAIN t = 0 .. n
  <2> HIDE DEF n, step, none
  <2>1. n \in Nat
    BY <1>1
  <2>2. 0 \in 0 .. n /\ \A i \in 1 .. n : i \in 0 .. n /\ i # 0
    BY <2>1
  <2>3. QED BY ONLY <2>2, <1>7
<1>9. \A i \in 0 .. n : t[i] \in Nat
  <2> DEFINE S == {i \in 0 .. n : t[i] \in Nat}
  <2>1. 0 \in S
    BY <1>1, <1>8
  <2>2. ASSUME NEW i \in 1 .. n, i - 1 \in S PROVE i \in S
    <3>1. t[i] = t[i - 1] + Len(gs[i]) /\ t[i - 1] \in Nat
      BY <1>8, <2>2
    <3>2. Len(gs[i]) \in Nat /\ i \in 0 .. n
      OBVIOUS
    <3>3. QED BY <3>1, <3>2
  <2>3. n \in Nat
    BY <1>1
  <2> HIDE DEF S, n
  <2>4. \A i \in 0 .. n : i \in S
    BY <2>1, <2>2, <2>3, UpTo
  <2>5. QED BY <2>4 DEF S
<1>10. t \in [0 .. n -> Nat]
  <2>1. t = [i \in 0 .. n |-> t[i]]
    BY <1>7, <1>8
  <2>2. QED BY <1>9, <2>1
<1>11. QED BY <1>8, <1>10 DEF t

(* One group more at the end counts for its length.                        *)
LEMMA TotalAppend ==
  ASSUME NEW A, NEW gs \in Seq(Seq(A)), NEW g \in Seq(A)
  PROVE  Total(Append(gs, g)) = Total(gs) + Len(g)
<1> DEFINE hs == Append(gs, g)
           n == Len(gs)
           t == Totals(gs)
           u == Totals(hs)
           claim(i) == u[i] = t[i]
           S == {i \in 0 .. n : claim(i)}
<1>1. /\ hs \in Seq(Seq(A)) /\ Len(hs) = n + 1 /\ hs[n + 1] = g /\ n \in Nat
      /\ \A i \in 1 .. n : hs[i] = gs[i]
  OBVIOUS
<1> HIDE DEF hs
<1>2. /\ t \in [0 .. n -> Nat] /\ t[0] = 0
      /\ \A i \in 1 .. n : t[i] = t[i - 1] + Len(gs[i])
  BY TotalsFacts
<1>3. /\ u[0] = 0
      /\ \A i \in 1 .. n + 1 : u[i] = u[i - 1] + Len(hs[i])
  BY <1>1, TotalsFacts
<1> HIDE DEF t, u, n
<1>4. 0 \in S
  BY <1>1, <1>2, <1>3
<1>5. ASSUME NEW i \in 1 .. n, claim(i - 1) PROVE claim(i)
  <2>1. hs[i] = gs[i] /\ i \in 1 .. n + 1
    BY <1>1
  <2>2. u[i] = u[i - 1] + Len(hs[i])
    BY <1>3, <2>1
  <2>3. t[i] = t[i - 1] + Len(gs[i])
    BY <1>2
  <2>4. QED BY <2>1, <2>2, <2>3, <1>5
<1>6. u[n] = t[n]
  <2> HIDE DEF claim
  <2>1. \A i \in 1 .. n : i - 1 \in S => i \in S
    BY <1>1, <1>5
  <2> HIDE DEF S
  <2>2. \A i \in 0 .. n : i \in S
    BY <1>1, <1>4, <2>1, UpTo
  <2>3. n \in S
    BY <1>1, <2>2
  <2>4. QED BY <2>3 DEF S, claim
<1>7. u[n + 1] = t[n] + Len(g)
  BY <1>1, <1>3, <1>6
<1>8. QED BY <1>1, <1>7 DEF Total, t, u, n, hs

(* A group that grows by one test adds one to the total.                   *)
LEMMA TotalGrows ==
  ASSUME NEW A, NEW gs \in Seq(Seq(A)), NEW k \in 1 .. Len(gs),
         NEW hs \in Seq(Seq(A)), Len(hs) = Len(gs),
         Len(hs[k]) = Len(gs[k]) + 1,
         \A i \in 1 .. Len(gs) : i # k => hs[i] = gs[i]
  PROVE  Total(hs) = Total(gs) + 1
<1> DEFINE n == Len(gs)
           t == Totals(gs)
           u == Totals(hs)
           claim(i) == u[i] = IF i < k THEN t[i] ELSE t[i] + 1
           S == {i \in 0 .. n : claim(i)}
<1>1. /\ hs \in Seq(Seq(A)) /\ Len(hs) = n /\ n \in Nat
      /\ \A i \in 1 .. n : i # k => hs[i] = gs[i]
      /\ gs[k] \in Seq(A)
  OBVIOUS
<1>2. Len(hs[k]) = Len(gs[k]) + 1 /\ Len(gs[k]) \in Nat
  BY <1>1
<1>3. /\ t \in [0 .. n -> Nat] /\ t[0] = 0
      /\ \A i \in 1 .. n : t[i] = t[i - 1] + Len(gs[i])
  BY TotalsFacts
<1>4. /\ u \in [0 .. n -> Nat] /\ u[0] = 0
      /\ \A i \in 1 .. n : u[i] = u[i - 1] + Len(hs[i])
  BY <1>1, TotalsFacts
<1>5. k \in 1 .. n
  OBVIOUS
<1>6. \A i \in 1 .. n : Len(gs[i]) \in Nat
  OBVIOUS
<1> HIDE DEF t, u, n
<1>7. 0 \in S
  BY <1>1, <1>3, <1>4, <1>5
<1>8. ASSUME NEW i \in 1 .. n, claim(i - 1) PROVE claim(i)
  <2>1. /\ t[i - 1] \in Nat /\ t[i] = t[i - 1] + Len(gs[i]) /\ Len(gs[i]) \in Nat
        /\ u[i] = u[i - 1] + Len(hs[i])
    <3>1. i - 1 \in 0 .. n
      BY <1>1
    <3>2. QED BY <1>3, <1>4, <1>6, <3>1
  <2>2. u[i - 1] = IF i - 1 < k THEN t[i - 1] ELSE t[i - 1] + 1
    BY <1>8
  <2>3. CASE i = k
    <3>1. u[i - 1] = t[i - 1] /\ Len(hs[i]) = Len(gs[i]) + 1
      BY <1>2, <1>5, <2>2, <2>3
    <3>2. u[i] = t[i - 1] + (Len(gs[i]) + 1)
      BY <2>1, <3>1
    <3>3. u[i] = t[i] + 1
      <4>1. \A a, b \in Nat : a + (b + 1) = (a + b) + 1
        OBVIOUS
      <4>2. t[i - 1] + (Len(gs[i]) + 1) = (t[i - 1] + Len(gs[i])) + 1
        BY <2>1, <4>1
      <4>3. QED BY <2>1, <3>2, <4>2, Zenon
    <3>4. ~ (i < k)
      BY <1>5, <2>3
    <3>5. QED BY <3>3, <3>4
  <2>4. CASE i # k
    <3>1. hs[i] = gs[i]
      BY <1>1, <2>4
    <3>2. i - 1 < k <=> i < k
      BY <1>1, <1>5, <2>4
    <3>3. CASE i < k
      BY <2>1, <2>2, <3>1, <3>2, <3>3
    <3>4. CASE ~ (i < k)
      <4>1. u[i - 1] = t[i - 1] + 1
        BY <2>2, <3>2, <3>4
      <4>2. u[i] = (t[i - 1] + 1) + Len(gs[i])
        BY <2>1, <3>1, <4>1
      <4>3. u[i] = t[i] + 1
        <5>1. \A a, b \in Nat : (a + 1) + b = (a + b) + 1
          OBVIOUS
        <5>2. (t[i - 1] + 1) + Len(gs[i]) = (t[i - 1] + Len(gs[i])) + 1
          BY <2>1, <5>1
        <5>3. QED BY <2>1, <4>2, <5>2, Zenon
      <4>4. QED BY <3>4, <4>3
    <3>5. QED BY <3>3, <3>4
  <2>5. QED BY <2>3, <2>4
<1>9. claim(n)
  <2> HIDE DEF claim
  <2>1. \A i \in 1 .. n : i - 1 \in S => i \in S
    BY <1>1, <1>8
  <2> HIDE DEF S
  <2>2. \A i \in 0 .. n : i \in S
    BY <1>1, <1>7, <2>1, UpTo
  <2>3. n \in S
    BY <1>1, <2>2
  <2>4. QED BY <2>3 DEF S
<1>10. u[n] = t[n] + 1
  <2>1. ~ (n < k)
    BY <1>1, <1>5
  <2>2. QED BY <1>9, <2>1
<1>11. QED BY <1>1, <1>10 DEF Total, t, u, n

(* Without the first group, the total is less by its length.               *)
LEMMA TotalTail ==
  ASSUME NEW A, NEW gs \in Seq(Seq(A)), gs # <<>>
  PROVE  Total(gs) = Len(Head(gs)) + Total(Tail(gs))
<1> DEFINE hs == Tail(gs)
           n == Len(hs)
           t == Totals(gs)
           u == Totals(hs)
           claim(i) == t[i + 1] = Len(Head(gs)) + u[i]
           S == {i \in 0 .. n : claim(i)}
<1>1. /\ hs \in Seq(Seq(A)) /\ Len(gs) = n + 1 /\ n \in Nat
      /\ \A i \in 1 .. n : hs[i] = gs[i + 1]
      /\ Head(gs) = gs[1] /\ Len(Head(gs)) \in Nat
  OBVIOUS
<1>2. \A i \in 1 .. n : Len(hs[i]) \in Nat
  BY <1>1
<1> HIDE DEF hs
<1>3. /\ t[0] = 0
      /\ \A i \in 1 .. n + 1 : t[i] = t[i - 1] + Len(gs[i])
  BY <1>1, TotalsFacts
<1>4. /\ u \in [0 .. n -> Nat] /\ u[0] = 0
      /\ \A i \in 1 .. n : u[i] = u[i - 1] + Len(hs[i])
  BY <1>1, TotalsFacts
<1> HIDE DEF t, u, n
<1>5. 0 \in S
  <2>1. t[1] = t[0] + Len(gs[1])
    BY <1>1, <1>3
  <2>2. t[0 + 1] = Len(Head(gs)) + u[0]
    BY <1>1, <1>3, <1>4, <2>1
  <2>3. QED BY <1>1, <2>2
<1>6. ASSUME NEW i \in 1 .. n, claim(i - 1) PROVE claim(i)
  <2>1. (i - 1) + 1 = i /\ i - 1 \in 0 .. n
    BY <1>1
  <2>2. /\ t[i] = Len(Head(gs)) + u[i - 1] /\ u[i - 1] \in Nat
        /\ u[i] = u[i - 1] + Len(hs[i])
    BY <1>4, <1>6, <2>1
  <2>3. t[i + 1] = t[i] + Len(gs[i + 1]) /\ gs[i + 1] = hs[i]
    <3>1. i + 1 \in 1 .. n + 1 /\ (i + 1) - 1 = i
      BY <1>1
    <3>2. QED BY <1>1, <1>3, <3>1
  <2>4. t[i + 1] = Len(Head(gs)) + u[i]
    BY <1>1, <1>2, <2>2, <2>3
  <2>5. QED BY <2>4
<1>7. claim(n)
  <2> HIDE DEF claim
  <2>1. \A i \in 1 .. n : i - 1 \in S => i \in S
    BY <1>1, <1>6
  <2> HIDE DEF S
  <2>2. \A i \in 0 .. n : i \in S
    BY <1>1, <1>5, <2>1, UpTo
  <2>3. n \in S
    BY <1>1, <2>2
  <2>4. QED BY <2>3 DEF S
<1>8. QED BY <1>1, <1>7 DEF Total, t, u, n, hs

(* Putting a test into the groups adds one to the total: none is put       *)
(* twice, and none is left out.                                            *)
LEMMA GroupedTotal ==
  ASSUME NEW T, NEW gs \in Seq(Group(T)), NEW p \in T
  PROVE  Total(Grouped(gs, p)) = Total(gs) + 1
<1> DEFINE fits == {g \in 1 .. Len(gs) : HostsOf(gs[g]) \cap HostsOf(<<p>>) = {}}
<1>1. gs \in Seq(Seq(T))
  BY DEF Group
<1>2. CASE fits = {}
  <2>1. Grouped(gs, p) = Append(gs, <<p>>)
    BY <1>2 DEF Grouped
  <2>2. <<p>> \in Seq(T) /\ Len(<<p>>) = 1
    OBVIOUS
  <2>3. QED BY <1>1, <2>1, <2>2, TotalAppend
<1>3. CASE fits # {}
  <2> DEFINE first == CHOOSE g \in fits : \A g1 \in fits : g <= g1
  <2>1. first \in fits
    <3>1. fits \in SUBSET Nat
      OBVIOUS
    <3>2. \E g \in fits : \A g1 \in fits : g <= g1
      BY <3>1, <1>3, Least
    <3>3. QED BY <3>2, Zenon
  <2>2. Grouped(gs, p) = [gs EXCEPT ![first] = Append(@, p)]
    BY <1>3, Zenon DEF Grouped
  <2> HIDE DEF first
  <2>3. first \in 1 .. Len(gs)
    BY <2>1
  <2> DEFINE hs == Grouped(gs, p)
  <2>4. hs = [gs EXCEPT ![first] = Append(@, p)]
    BY <2>2
  <2> HIDE DEF hs
  <2>5. /\ hs \in Seq(Seq(T)) /\ Len(hs) = Len(gs)
        /\ Len(hs[first]) = Len(gs[first]) + 1
        /\ \A i \in 1 .. Len(gs) : i # first => hs[i] = gs[i]
    BY <1>1, <2>3, <2>4
  <2>6. Total(hs) = Total(gs) + 1
    BY <1>1, <2>3, <2>5, TotalGrows
  <2>7. QED BY <2>6 DEF hs
<1>4. QED BY <1>2, <1>3

(* Every test goes to a group.                                             *)
LEMMA GroupsTotal ==
  ASSUME NEW T, NEW tests \in Seq(T)
  PROVE  Total(GroupNonOverlapping(tests)) = Len(tests)
<1> DEFINE f == Grouping(tests)
           claim(i) == f[i] \in Seq(Group(T)) /\ Total(f[i]) = i
           S == {i \in 0 .. Len(tests) : claim(i)}
<1>1. f = [i \in 0 .. Len(tests) |->
             IF i = 0 THEN <<>> ELSE Grouped(f[i - 1], tests[i])]
  BY GroupingDef
<1> HIDE DEF f
<1>2. Len(tests) \in Nat
  OBVIOUS
<1>3. claim(0)
  <2>1. f[0] = <<>> /\ <<>> \in Seq(Seq(T)) /\ Len(<<>>) = 0
    BY <1>1, <1>2
  <2>2. Total(<<>>) = 0
    BY <2>1, TotalsFacts DEF Total
  <2>3. QED BY <2>1, <2>2
<1>4. ASSUME NEW i \in 1 .. Len(tests), claim(i - 1) PROVE claim(i)
  <2>1. f[i] = Grouped(f[i - 1], tests[i]) /\ tests[i] \in T
    BY <1>1
  <2>2. f[i] \in Seq(Group(T))
    BY <2>1, <1>4, GroupedType
  <2>3. Total(f[i]) = Total(f[i - 1]) + 1
    BY <2>1, <1>4, GroupedTotal
  <2>4. (i - 1) + 1 = i
    OBVIOUS
  <2>5. QED BY <1>4, <2>2, <2>3, <2>4
<1>5. claim(Len(tests))
  <2> HIDE DEF claim
  <2>1. 0 \in S /\ \A i \in 1 .. Len(tests) : i - 1 \in S => i \in S
    BY <1>2, <1>3, <1>4
  <2> HIDE DEF S
  <2>2. \A i \in 0 .. Len(tests) : i \in S
    BY <1>2, <2>1, UpTo
  <2>3. Len(tests) \in S
    BY <1>2, <2>2
  <2>4. QED BY <2>3 DEF S
<1>6. QED BY <1>5, GroupingLast DEF f

(* Every test of the round has a result, or a group in which it waits.     *)
CountInv == at = "tests" => Len(results) + Total(groups) = Len(pairs)

(* Every step keeps the results and the tests that wait adding up to the   *)
(* pairs of the round.                                                     *)
LEMMA CountStep ==
  ASSUME Inv, CountInv, [Next]_vars
  PROVE  CountInv'
<1>1. TypeInv /\ ControlInv /\ PoolInv
  BY DEF Inv
<1> USE <1>1
<1>2. ASSUME NEW tests \in Seq(Pair), Test(tests) PROVE CountInv'
  <2>1. pairs' = tests /\ groups' = GroupNonOverlapping(tests) /\ results' = <<>>
    BY <1>2, TestFacts
  <2>2. Total(groups') = Len(tests) /\ Len(tests) \in Nat /\ Len(results') = 0
    BY <2>1, GroupsTotal
  <2>3. Len(results') + Total(groups') = Len(pairs')
    BY <2>1, <2>2
  <2>4. Total(groups)' = Total(groups')
    BY DEF Total, Totals
  <2>5. QED BY <2>3, <2>4 DEF CountInv
<1>3. UNCHANGED <<at, pairs, groups, results>> => CountInv'
  BY DEF CountInv, Total, Totals
<1>4. at' # "tests" => CountInv'
  BY DEF CountInv
<1>5. CASE CollectHostsInfo
  BY <1>2, <1>4, <1>5, CollectFacts
<1>6. CASE BeginTest
  BY <1>3, <1>6 DEF BeginTest
<1>7. ASSUME NEW s \in starting, RunServer(s) PROVE CountInv'
  BY <1>3, <1>7 DEF RunServer, poolVars
<1>8. ASSUME NEW p \in active, RunClient(p) PROVE CountInv'
  BY <1>3, <1>8 DEF RunClient
<1>9. CASE EndGroup
  <2> DEFINE told == [i \in 1 .. Len(Head(groups)) |-> answers[Head(groups)[i]]]
  <2>1. /\ results' = results \o told /\ told \in Seq(Answer)
        /\ Len(told) = Len(Head(groups)) /\ groups' = Tail(groups)
    BY <1>9, EndGroupFacts
  <2> HIDE DEF told
  <2>2. groups \in Seq(Seq(Pair)) /\ groups # <<>> /\ results \in Seq(Answer)
    BY <1>9 DEF EndGroup, TypeInv, Group
  <2>3. Len(results') = Len(results) + Len(Head(groups)) /\ Len(results) \in Nat
        /\ Len(Head(groups)) \in Nat
    BY <2>1, <2>2
  <2>4. Total(groups) = Len(Head(groups)) + Total(groups')
    BY <2>1, <2>2, TotalTail
  <2>5. Total(groups') \in Nat
    <3>1. groups' \in Seq(Seq(Pair)) /\ Len(groups') \in 0 .. Len(groups')
      BY <2>1, <2>2
    <3>2. QED BY <3>1, TotalsFacts DEF Total
  <2>6. at = "tests" /\ pairs' = pairs /\ at' = at
    BY <1>9 DEF EndGroup
  <2>7. Len(results) + Total(groups) = Len(pairs)
    BY <2>6 DEF CountInv
  <2>8. Len(results') + Total(groups') = Len(pairs')
    BY <2>3, <2>4, <2>5, <2>6, <2>7
  <2>9. Total(groups)' = Total(groups')
    BY DEF Total, Totals
  <2>10. QED BY <2>8, <2>9 DEF CountInv
<1>10. CASE EndRound
  <2>1. at' = "analysis" \/ \E tests \in Seq(Pair) : Test(tests)
    BY <1>10, EndRoundFacts
  <2>2. QED BY <1>2, <1>4, <2>1
<1>11. CASE Analyse \/ Again
  BY <1>4, <1>11 DEF Analyse, Return, Again
<1>12. CASE UNCHANGED vars
  BY <1>3, <1>12 DEF vars, poolVars
<1>13. QED BY <1>5, <1>6, <1>7, <1>8, <1>9, <1>10, <1>11, <1>12 DEF Next

(* These entries of the report are the results of these tests.             *)
Reports(round, tests) ==
  Len(round) = Len(tests) /\ \A i \in 1 .. Len(tests) : round[i].pair = tests[i]

(* When a round ends, there is a result for every one of its pairs.        *)
LEMMA RoundReported ==
  ASSUME Inv, CountInv, EndRound
  PROVE  Reports(Stored, pairs)
<1>1. TypeInv
  BY DEF Inv
<1>2. at = "tests" /\ groups = <<>>
  BY DEF EndRound
<1>3. Total(<<>>) = 0
  <2>1. <<>> \in Seq(Seq(Pair)) /\ Len(<<>>) = 0
    OBVIOUS
  <2>2. QED BY <2>1, TotalsFacts DEF Total
<1>4. Len(results) = Len(pairs)
  <2>1. Len(results) \in Nat
    BY <1>1 DEF TypeInv
  <2>2. QED BY <1>2, <1>3, <2>1 DEF CountInv
<1>5. QED BY <1>1, <1>4, StoredFacts DEF Reports

(* The hosts with a failed test in the first two rounds.                   *)
FirstSuspects == AbnormalHosts(rounds[1]) \cup AbnormalHosts(rounds[2])

ThirdPairs ==
  Round3Pairs(Head(Those(info, Range(info) \ FirstSuspects)), Those(info, FirstSuspects))

(* The report has the rounds that the hosts call for, and no others.       *)
HistoryInv ==
  /\ at = "tests" /\ Len(rounds) = 0 => pairs = Round1Pairs(info)
  /\ at = "tests" /\ Len(rounds) = 1 => pairs = Round2Pairs(info)
  /\ at = "tests" /\ Len(rounds) = 2 => pairs = ThirdPairs
  /\ Len(rounds) >= 1 => Reports(rounds[1], Round1Pairs(info))
  /\ Len(rounds) >= 2 => Reports(rounds[2], Round2Pairs(info))
  /\ Len(rounds) = 3 => Reports(rounds[3], ThirdPairs)
  /\ Len(info) >= 2 /\ at \in {"analysis", "returned"} =>
       /\ Len(rounds) >= 1
       /\ Len(rounds) = 1 => AbnormalHosts(rounds[1]) = {} /\ Len(info) % 2 = 0
       /\ Len(rounds) = 2 =>
            Range(info) \subseteq FirstSuspects \/ Range(info) \cap FirstSuspects = {}
  /\ Len(rounds) = 3 => Those(info, Range(info) \ FirstSuspects) # <<>>
  /\ at = "tests" /\ Len(rounds) = 2 => Those(info, Range(info) \ FirstSuspects) # <<>>
  /\ at = "returned" /\ Len(info) >= 2 =>
       (outcome = "failed" <=> \E d \in Devices(info) : FinalStatus(d) = "abnormal")

(* The tests between hosts depend on the cluster alone.                    *)
LEMMA SamePairs ==
  ASSUME cluster' = cluster, NEW hosts, NEW normal
  PROVE  /\ Round1Pairs(hosts)' = Round1Pairs(hosts)
         /\ Round2Pairs(hosts)' = Round2Pairs(hosts)
         /\ Round3Pairs(normal, hosts)' = Round3Pairs(normal, hosts)
         /\ Devices(hosts)' = Devices(hosts)
<1>1. \A g, h : Zipped(g, h)' = Zipped(g, h)
  BY DEF Zipped
<1>2. \A start : Neighbouring(hosts, start)' = Neighbouring(hosts, start)
  BY <1>1 DEF Neighbouring
<1>3. QED BY <1>1, <1>2 DEF Round1Pairs, Round2Pairs, Round3Pairs, Devices

(* A step that leaves the rounds alone leaves what is said of them.        *)
LEMMA SameHistory ==
  ASSUME HistoryInv, UNCHANGED <<cluster, at, info, pairs, rounds, outcome>>
  PROVE  HistoryInv'
<1>1. /\ Round1Pairs(info)' = Round1Pairs(info) /\ Round2Pairs(info)' = Round2Pairs(info)
      /\ Devices(info)' = Devices(info)
  BY SamePairs
<1>2. FirstSuspects' = FirstSuspects
  BY DEF FirstSuspects
<1>3. ThirdPairs' = ThirdPairs
  BY <1>2, SamePairs DEF ThirdPairs
<1>4. (\E d \in Devices(info) : FinalStatus(d) = "abnormal")'
        <=> \E d \in Devices(info) : FinalStatus(d) = "abnormal"
  BY <1>1 DEF FinalStatus
<1>5. QED BY <1>1, <1>2, <1>3, <1>4 DEF HistoryInv

(* The suspects after the first and after the second round.                *)
LEMMA SuspectsFacts ==
  ASSUME NEW rs, Len(rs) \in {1, 2}
  PROVE  UNION {AbnormalHosts(rs[r]) : r \in 1 .. Len(rs)}
           = IF Len(rs) = 1 THEN AbnormalHosts(rs[1])
             ELSE AbnormalHosts(rs[1]) \cup AbnormalHosts(rs[2])
<1>1. CASE Len(rs) = 1
  BY <1>1
<1>2. CASE Len(rs) = 2
  <2>1. 1 .. Len(rs) = {1, 2}
    BY <1>2
  <2>2. QED BY <1>2, <2>1
<1>3. QED BY <1>1, <1>2

(* A filtered list is empty when it has nothing to keep.                   *)
LEMMA ThoseEmpty ==
  ASSUME TypeInv, NEW some, Those(info, some) = <<>>
  PROVE  Range(info) \cap some = {}
<1>1. Range(Those(info, some)) = Range(info) \cap some
  BY SplitFacts
<1>2. Range(<<>>) = {}
  BY DEF Range
<1>3. QED BY <1>1, <1>2

(* The end of a round keeps the report as planned, and plans the next.     *)
LEMMA EndRoundHistory ==
  ASSUME Inv, CountInv, HistoryInv, EndRound
  PROVE  HistoryInv'
<1>1. TypeInv /\ ControlInv
  BY DEF Inv
<1>2. /\ at = "tests" /\ rounds' = Append(rounds, Stored) /\ rounds \in Seq(Seq(Entry))
      /\ Len(rounds') = Len(rounds) + 1 /\ Len(rounds) \in {0, 1, 2}
      /\ cluster' = cluster /\ info' = info /\ Len(info) >= 2
  <2>1. at = "tests" /\ rounds' = Append(rounds, Stored)
        /\ cluster' = cluster /\ info' = info
    BY DEF EndRound
  <2>2. rounds \in Seq(Seq(Entry)) /\ Len(rounds) <= 2 /\ Len(info) >= 2
    BY <1>1, <2>1 DEF TypeInv, ControlInv
  <2>3. Stored \in Seq(Entry)
    BY <1>1, StoredFacts
  <2>4. Len(rounds) \in {0, 1, 2}
    <3>1. Len(rounds) \in Nat
      BY <2>2
    <3>2. \A x \in Nat : x <= 2 => x \in {0, 1, 2}
      OBVIOUS
    <3>3. QED BY <2>2, <3>1, <3>2, Zenon
  <2>5. Len(rounds') = Len(rounds) + 1
    BY <2>1, <2>2, <2>3
  <2>6. QED BY <2>1, <2>2, <2>4, <2>5
<1>3. /\ rounds'[Len(rounds) + 1] = Stored
      /\ \A r \in 1 .. Len(rounds) : rounds'[r] = rounds[r]
  BY <1>2
<1>4. Reports(Stored, pairs)
  BY RoundReported
<1>5. /\ Round1Pairs(info)' = Round1Pairs(info) /\ Round2Pairs(info)' = Round2Pairs(info)
  BY <1>2, SamePairs
<1>6. CASE Len(rounds) = 0
  <2>1. rounds'[1] = Stored /\ Len(rounds') = 1 /\ Reports(rounds'[1], Round1Pairs(info))
    BY <1>2, <1>3, <1>4, <1>6 DEF HistoryInv
  <2>2. Suspects = AbnormalHosts(rounds'[1])
    BY <2>1, SuspectsFacts DEF Suspects
  <2>3. \/ at' = "analysis" /\ Suspects = {} /\ Len(info) % 2 = 0
        \/ at' = "tests" /\ Test(Round2Pairs(info))
    BY <1>2, <1>6 DEF EndRound
  <2>4. at' = "tests" => pairs' = Round2Pairs(info)
    BY <2>3 DEF Test
  <2>5. QED BY <1>2, <1>5, <2>1, <2>2, <2>3, <2>4 DEF HistoryInv
<1>7. CASE Len(rounds) = 1
  <2>1. /\ rounds'[1] = rounds[1] /\ rounds'[2] = Stored /\ Len(rounds') = 2
        /\ Reports(rounds'[1], Round1Pairs(info)) /\ Reports(rounds'[2], Round2Pairs(info))
    BY <1>2, <1>3, <1>4, <1>7 DEF HistoryInv
  <2>2. Suspects = FirstSuspects'
    BY <2>1, SuspectsFacts DEF Suspects, FirstSuspects
  <2> DEFINE normal == Those(info, Range(info) \ Suspects)
             suspected == Those(info, Suspects)
  <2>3. \/ /\ at' = "analysis" /\ (normal = <<>> \/ suspected = <<>>)
        \/ /\ at' = "tests" /\ normal # <<>>
           /\ Test(Round3Pairs(Head(normal), suspected))
    BY <1>2, <1>7 DEF EndRound
  <2>4. normal = Those(info, Range(info) \ FirstSuspects)'
    BY <1>2, <2>2
  <2>5. ThirdPairs' = Round3Pairs(Head(normal), suspected)
    BY <1>2, <2>2, SamePairs DEF ThirdPairs
  <2>6. at' = "tests" => pairs' = ThirdPairs' /\ normal # <<>>
    BY <2>3, <2>5 DEF Test
  <2>7. at' = "analysis" =>
          Range(info) \subseteq Suspects \/ Range(info) \cap Suspects = {}
    <3>1. normal = <<>> => Range(info) \cap (Range(info) \ Suspects) = {}
      BY <1>1, ThoseEmpty
    <3>2. suspected = <<>> => Range(info) \cap Suspects = {}
      BY <1>1, ThoseEmpty
    <3>3. QED BY <2>3, <3>1, <3>2
  <2> HIDE DEF normal, suspected
  <2>8. QED BY <1>2, <1>5, <2>1, <2>2, <2>3, <2>4, <2>6, <2>7 DEF HistoryInv
<1>8. CASE Len(rounds) = 2
  <2>1. /\ rounds'[1] = rounds[1] /\ rounds'[2] = rounds[2] /\ rounds'[3] = Stored
        /\ Len(rounds') = 3
    BY <1>2, <1>3, <1>8
  <2>2. FirstSuspects' = FirstSuspects
    BY <2>1 DEF FirstSuspects
  <2>3. ThirdPairs' = ThirdPairs
    BY <1>2, <2>2, SamePairs DEF ThirdPairs
  <2>4. Those(info, Range(info) \ FirstSuspects)' = Those(info, Range(info) \ FirstSuspects)
    BY <1>2, <2>2
  <2>5. /\ Reports(rounds'[1], Round1Pairs(info)) /\ Reports(rounds'[2], Round2Pairs(info))
        /\ Reports(rounds'[3], ThirdPairs)
        /\ Those(info, Range(info) \ FirstSuspects) # <<>>
    BY <1>2, <1>4, <1>8, <2>1 DEF HistoryInv
  <2>6. at' = "analysis"
    BY <1>8 DEF EndRound
  <2>7. QED BY <1>2, <1>5, <2>1, <2>3, <2>4, <2>5, <2>6 DEF HistoryInv
<1>9. QED BY <1>2, <1>6, <1>7, <1>8

(* Every step keeps the report as planned.                                 *)
LEMMA HistoryStep ==
  ASSUME Inv, CountInv, HistoryInv, [Next]_vars
  PROVE  HistoryInv'
<1>1. TypeInv /\ ControlInv
  BY DEF Inv
<1>2. CASE CollectHostsInfo
  <2>1. at = "start" /\ rounds' = rounds /\ cluster' = cluster
    BY <1>2 DEF CollectHostsInfo
  <2>2. rounds' = <<>> /\ Len(rounds') = 0
    BY <1>1, <2>1 DEF ControlInv
  <2>3. \/ Len(info') < 2 /\ at' = "returned"
        \/ at' = "tests" /\ pairs' = Round1Pairs(info')
    BY <1>1, <1>2, CollectFacts DEF Test
  <2>4. Round1Pairs(info)' = Round1Pairs(info')
    BY <2>1, SamePairs
  <2>5. Len(info') \in Nat
    BY <1>1, <1>2, CollectFacts
  <2>6. QED BY <2>2, <2>3, <2>4, <2>5 DEF HistoryInv
<1>3. CASE BeginTest
  BY <1>3, SameHistory DEF BeginTest
<1>4. ASSUME NEW s \in starting, RunServer(s) PROVE HistoryInv'
  BY <1>4, SameHistory DEF RunServer, poolVars
<1>5. ASSUME NEW p \in active, RunClient(p) PROVE HistoryInv'
  BY <1>5, SameHistory DEF RunClient
<1>6. CASE EndGroup
  BY <1>6, SameHistory DEF EndGroup
<1>7. CASE EndRound
  BY <1>7, EndRoundHistory
<1>8. CASE Analyse
  <2>1. /\ UNCHANGED <<cluster, info, pairs, rounds>>
        /\ at = "analysis" /\ at' = "returned"
        /\ outcome' = IF \E d \in Devices(info) : FinalStatus(d) = "abnormal"
                      THEN "failed" ELSE "success"
    BY <1>8 DEF Analyse, Return, poolVars
  <2>2. /\ Round1Pairs(info)' = Round1Pairs(info) /\ Round2Pairs(info)' = Round2Pairs(info)
        /\ Devices(info)' = Devices(info)
    BY <2>1, SamePairs
  <2>3. FirstSuspects' = FirstSuspects
    BY <2>1 DEF FirstSuspects
  <2>4. ThirdPairs' = ThirdPairs
    BY <2>1, <2>3, SamePairs DEF ThirdPairs
  <2>5. (\E d \in Devices(info) : FinalStatus(d) = "abnormal")'
          <=> \E d \in Devices(info) : FinalStatus(d) = "abnormal"
    BY <2>1, <2>2 DEF FinalStatus
  <2>6. outcome' = "failed" <=> (\E d \in Devices(info) : FinalStatus(d) = "abnormal")'
    BY <2>1, <2>5
  <2>7. QED BY <2>1, <2>2, <2>3, <2>4, <2>6 DEF HistoryInv
<1>9. CASE Again
  <2>1. at' = "start" /\ rounds' = <<>> /\ Len(rounds') = 0
    BY <1>9 DEF Again
  <2>2. QED BY <2>1 DEF HistoryInv
<1>10. CASE UNCHANGED vars
  BY <1>10, SameHistory DEF vars, poolVars
<1>11. QED BY <1>2, <1>3, <1>4, <1>5, <1>6, <1>7, <1>8, <1>9, <1>10 DEF Next

(* The invariant of the report holds in every state.                       *)
LEMMA AlwaysHistory == Spec => [](Inv /\ CountInv /\ HistoryInv)
<1>1. Init => Inv /\ CountInv /\ HistoryInv
  <2>1. Init => CountInv /\ HistoryInv
    BY DEF Init, Idle, CountInv, HistoryInv
  <2>2. QED BY <2>1, InitInv
<1>2. Inv /\ CountInv /\ HistoryInv /\ [Next]_vars => (Inv /\ CountInv /\ HistoryInv)'
  <2>1. SUFFICES ASSUME Inv, CountInv, HistoryInv, [Next]_vars
                 PROVE  Inv' /\ CountInv' /\ HistoryInv'
    OBVIOUS
  <2>2. Inv'
    BY <2>1, TypeStep, ControlStep, PoolStep, AnswerStep DEF Inv
  <2>3. QED BY <2>1, <2>2, CountStep, HistoryStep
<1>3. QED BY <1>1, <1>2, PTL DEF Spec

(* The report has the rounds that the hosts and the rounds before call     *)
(* for, each with one entry per planned test in the order of the plan; a   *)
(* step that ends after one round had an even number of hosts and no       *)
(* failure, one that ends after two had no host to compare the suspects    *)
(* with, or no suspects; and the step fails exactly if a device is         *)
(* abnormal (run_three_phase_test, execute).                               *)
THEOREM RoundsAsPlanned == Spec => []HistoryInv
BY AlwaysHistory, PTL

-----------------------------------------------------------------------------
(* Where the tests of the first two rounds lead.  The hosts are numbered   *)
(* as in info.                                                             *)

First(i, j) == i % 2 = 1 /\ j = i + 1
Second(i, j) == \/ i % 2 = 0 /\ j = i + 1
                \/ Len(info) % 2 = 0 /\ i = Len(info) /\ j = 1

(* Every host is in a test of the first round or of the second, and with   *)
(* one neighbour in each.                                                  *)
LEMMA Neighbours ==
  ASSUME NEW n \in Nat, n >= 3, Len(info) = n, NEW k \in 1 .. n
  PROVE  /\ \/ \E j \in 1 .. n : First(k, j) \/ First(j, k)
            \/ \E j \in 1 .. n : Second(k, j) \/ Second(j, k)
         /\ n % 2 = 0 => \E j \in 1 .. n : First(k, j) \/ First(j, k)
         /\ \A i, j \in 1 .. n :
              (First(k, i) \/ First(i, k)) /\ (First(k, j) \/ First(j, k)) => i = j
         /\ \A i, j \in 1 .. n :
              (Second(k, i) \/ Second(i, k)) /\ (Second(k, j) \/ Second(j, k)) => i = j
         /\ \A i, j \in 1 .. n :
              (First(k, i) \/ First(i, k)) /\ (Second(k, j) \/ Second(j, k)) => i # j
<1>1. ASSUME k % 2 = 1, k < n
      PROVE  k + 1 \in 1 .. n /\ First(k, k + 1)
  BY <1>1 DEF First
<1>2. ASSUME k % 2 = 0
      PROVE  k - 1 \in 1 .. n /\ First(k - 1, k)
  BY <1>2 DEF First
<1>3. ASSUME k % 2 = 1, k = n
      PROVE  k - 1 \in 1 .. n /\ Second(k - 1, k)
  BY <1>3 DEF Second
<1>4. k % 2 = 0 \/ k % 2 = 1
  OBVIOUS
<1>5. \/ \E j \in 1 .. n : First(k, j) \/ First(j, k)
      \/ \E j \in 1 .. n : Second(k, j) \/ Second(j, k)
  <2>1. k < n \/ k = n
    OBVIOUS
  <2>2. QED BY <1>1, <1>2, <1>3, <1>4, <2>1
<1>6. n % 2 = 0 => \E j \in 1 .. n : First(k, j) \/ First(j, k)
  <2>1. n % 2 = 0 /\ k % 2 = 1 => k < n
    OBVIOUS
  <2>2. QED BY <1>1, <1>2, <1>4, <2>1
<1>7. ASSUME NEW i \in 1 .. n, First(k, i) \/ First(i, k)
      PROVE  i = IF k % 2 = 1 THEN k + 1 ELSE k - 1
  BY <1>7 DEF First
<1>8. ASSUME NEW i \in 1 .. n, Second(k, i) \/ Second(i, k)
      PROVE  i = IF k % 2 = 0 THEN (IF k = n THEN 1 ELSE k + 1)
                 ELSE IF k = 1 THEN n ELSE k - 1
  BY <1>8 DEF Second
<1>9. \A i \in 1 .. n :
        i = (IF k % 2 = 1 THEN k + 1 ELSE k - 1)
          => i # IF k % 2 = 0 THEN (IF k = n THEN 1 ELSE k + 1)
                 ELSE IF k = 1 THEN n ELSE k - 1
  OBVIOUS
<1>10. QED BY <1>5, <1>6, <1>7, <1>8, <1>9

(* The first round tests the hosts along the first links.                  *)
LEMMA FirstRange ==
  ASSUME cluster \in Clusters, info \in Seq(Names(cluster)),
         NEW n \in Nat, n >= 3, Len(info) = n
  PROVE  /\ Round1Pairs(info) \in Seq(Pair)
         /\ Range(Round1Pairs(info))
              = UNION {Range(Zipped(info[ij[1]], info[ij[2]])) :
                         ij \in {x \in (1 .. n) \X (1 .. n) : First(x[1], x[2])}}
<1>1. 0 \in {0, 1} /\ 0 <= Len(info)
  OBVIOUS
<1>2. /\ Round1Pairs(info) \in Seq(Pair)
      /\ Range(Round1Pairs(info))
           = UNION {Range(Zipped(info[0 + 2 * k - 1], info[0 + 2 * k])) :
                      k \in Couples(info, 0)}
  BY <1>1, NeighbouringFacts DEF Round1Pairs
<1>3. ASSUME NEW k \in Couples(info, 0)
      PROVE  \E ij \in {x \in (1 .. n) \X (1 .. n) : First(x[1], x[2])} :
               0 + 2 * k - 1 = ij[1] /\ 0 + 2 * k = ij[2]
  <2>1. /\ 0 + 2 * k - 1 \in 1 .. n /\ 0 + 2 * k \in 1 .. n
        /\ First(0 + 2 * k - 1, 0 + 2 * k)
    BY DEF Couples, First
  <2>2. <<0 + 2 * k - 1, 0 + 2 * k>> \in {x \in (1 .. n) \X (1 .. n) : First(x[1], x[2])}
    BY <2>1
  <2>3. QED BY <2>2
<1>4. ASSUME NEW ij \in {x \in (1 .. n) \X (1 .. n) : First(x[1], x[2])}
      PROVE  \E k \in Couples(info, 0) : 0 + 2 * k - 1 = ij[1] /\ 0 + 2 * k = ij[2]
  <2> DEFINE i == ij[1]
             j == ij[2]
  <2>1. i \in 1 .. n /\ j \in 1 .. n /\ i % 2 = 1 /\ j = i + 1
    BY DEF First
  <2> HIDE DEF i, j
  <2>2. /\ (i + 1) \div 2 \in 1 .. (n - 0) \div 2
        /\ 0 + 2 * ((i + 1) \div 2) - 1 = i /\ 0 + 2 * ((i + 1) \div 2) = j
    BY <2>1
  <2>3. QED BY <2>2 DEF Couples, i, j
<1>5. QED BY <1>2, <1>3, <1>4

(* The second round tests the hosts along the second links.                *)
LEMMA SecondRange ==
  ASSUME cluster \in Clusters, info \in Seq(Names(cluster)),
         NEW n \in Nat, n >= 3, Len(info) = n
  PROVE  /\ Round2Pairs(info) \in Seq(Pair)
         /\ Range(Round2Pairs(info))
              = UNION {Range(Zipped(info[ij[1]], info[ij[2]])) :
                         ij \in {x \in (1 .. n) \X (1 .. n) : Second(x[1], x[2])}}
<1> DEFINE links == {x \in (1 .. n) \X (1 .. n) : Second(x[1], x[2])}
           zip(ij) == Range(Zipped(info[ij[1]], info[ij[2]]))
           couple(k) == Range(Zipped(info[1 + 2 * k - 1], info[1 + 2 * k]))
<1>1. 1 \in {0, 1} /\ 1 <= Len(info)
  OBVIOUS
<1>2. /\ Round2Pairs(info) \in Seq(Pair)
      /\ Range(Round2Pairs(info))
           = Range(Neighbouring(info, 1)) \cup Range(Wrapped(info))
  BY Round2Facts
<1>3. Range(Neighbouring(info, 1))
        = UNION {Range(Zipped(info[1 + 2 * k - 1], info[1 + 2 * k])) :
                   k \in Couples(info, 1)}
  BY <1>1, NeighbouringFacts
<1>4. Range(Wrapped(info)) = IF n % 2 = 0 THEN zip(<<n, 1>>) ELSE {}
  <2>1. Range(<<>>) = {}
    BY DEF Range
  <2>2. n > 2
    OBVIOUS
  <2>3. Wrapped(info) = IF n % 2 = 0 THEN Zipped(info[n], info[1]) ELSE <<>>
    BY <2>2, Zenon DEF Wrapped
  <2>4. <<n, 1>>[1] = n /\ <<n, 1>>[2] = 1
    OBVIOUS
  <2>5. zip(<<n, 1>>) = Range(Zipped(info[n], info[1]))
    BY <2>4, Zenon
  <2> HIDE DEF zip
  <2>6. CASE n % 2 = 0
    BY <2>3, <2>5, <2>6, Zenon
  <2>7. CASE ~ (n % 2 = 0)
    BY <2>1, <2>3, <2>7, Zenon
  <2>8. QED BY <2>6, <2>7, Zenon
<1>5. ASSUME NEW k \in Couples(info, 1)
      PROVE  \E ij \in links : 1 + 2 * k - 1 = ij[1] /\ 1 + 2 * k = ij[2]
  <2>1. /\ 1 + 2 * k - 1 \in 1 .. n /\ 1 + 2 * k \in 1 .. n
        /\ Second(1 + 2 * k - 1, 1 + 2 * k)
    BY DEF Couples, Second
  <2>2. <<1 + 2 * k - 1, 1 + 2 * k>> \in links
    BY <2>1
  <2>3. QED BY <2>2
<1>6. n % 2 = 0 => <<n, 1>> \in links
  BY DEF Second
<1>7. ASSUME NEW ij \in links
      PROVE  \/ \E k \in Couples(info, 1) : 1 + 2 * k - 1 = ij[1] /\ 1 + 2 * k = ij[2]
             \/ n % 2 = 0 /\ ij = <<n, 1>>
  <2> DEFINE i == ij[1]
             j == ij[2]
  <2>1. /\ i \in 1 .. n /\ j \in 1 .. n /\ ij = <<i, j>>
        /\ (i % 2 = 0 /\ j = i + 1) \/ (n % 2 = 0 /\ i = n /\ j = 1)
    BY DEF Second
  <2> HIDE DEF i, j
  <2>2. CASE n % 2 = 0 /\ i = n /\ j = 1
    BY <2>1, <2>2
  <2>3. CASE i % 2 = 0 /\ j = i + 1
    <3>1. /\ i \div 2 \in 1 .. (n - 1) \div 2
          /\ 1 + 2 * (i \div 2) - 1 = i /\ 1 + 2 * (i \div 2) = j
      BY <2>1, <2>3
    <3>2. QED BY <3>1 DEF Couples, i, j
  <2>4. QED BY <2>1, <2>2, <2>3
<1>8. UNION {zip(ij) : ij \in links}
        = (UNION {couple(k) : k \in Couples(info, 1)})
            \cup (IF n % 2 = 0 THEN zip(<<n, 1>>) ELSE {})
  <2>1. \A ij \in links : \/ \E k \in Couples(info, 1) : zip(ij) = couple(k)
                          \/ n % 2 = 0 /\ zip(ij) = zip(<<n, 1>>)
    <3>1. SUFFICES ASSUME NEW ij \in links
                   PROVE  \/ \E k \in Couples(info, 1) : zip(ij) = couple(k)
                          \/ n % 2 = 0 /\ zip(ij) = zip(<<n, 1>>)
      OBVIOUS
    <3>2. CASE n % 2 = 0 /\ ij = <<n, 1>>
      BY <3>2, Zenon
    <3>3. CASE \E k \in Couples(info, 1) : 1 + 2 * k - 1 = ij[1] /\ 1 + 2 * k = ij[2]
      BY <3>3, Zenon
    <3>4. QED BY <1>7, <3>2, <3>3, Zenon
  <2>2. \A k \in Couples(info, 1) : \E ij \in links : zip(ij) = couple(k)
    BY <1>5, Zenon
  <2> HIDE DEF links, zip, couple
  <2> DEFINE couples == Couples(info, 1)
  <2> HIDE DEF couples
  <2>3. CASE n % 2 = 0
    <3>1. <<n, 1>> \in links
      BY <1>6, <2>3, Zenon
    <3> DEFINE wrap == <<n, 1>>
    <3>2. wrap \in links /\ \A ij \in links : zip(ij) = zip(wrap)
            \/ \E k \in couples : zip(ij) = couple(k)
      BY <2>1, <3>1, Zenon DEF couples
    <3> HIDE DEF wrap
    <3>3. UNION {zip(ij) : ij \in links} = (UNION {couple(k) : k \in couples}) \cup zip(wrap)
      <4>1. ASSUME NEW ij \in links, NEW x \in zip(ij)
            PROVE  x \in zip(wrap) \/ \E k \in couples : x \in couple(k)
        BY <3>2, <4>1, Zenon
      <4>2. ASSUME NEW k \in couples, NEW x \in couple(k)
            PROVE  \E ij \in links : x \in zip(ij)
        BY <2>2, <4>2, Zenon DEF couples
      <4>3. wrap \in links
        BY <3>2
      <4>4. QED BY <4>1, <4>2, <4>3
    <3>4. QED BY <2>3, <3>3, Zenon DEF couples, wrap
  <2>4. CASE ~ (n % 2 = 0)
    <3>1. UNION {zip(ij) : ij \in links} = UNION {couple(k) : k \in couples}
      <4>1. \A ij \in links : \E k \in couples : zip(ij) = couple(k)
        BY <2>1, <2>4, Zenon DEF couples
      <4>2. QED BY <2>2, <4>1 DEF couples
    <3>2. QED BY <2>4, <3>1 DEF couples
  <2>5. QED BY <2>3, <2>4, Zenon
<1>9. Range(Neighbouring(info, 1)) = UNION {couple(k) : k \in Couples(info, 1)}
  BY <1>3
<1> HIDE DEF zip, links, couple
<1>10. Range(Round2Pairs(info)) = UNION {zip(ij) : ij \in links}
  <2>1. Range(Round2Pairs(info)) = Range(Neighbouring(info, 1)) \cup Range(Wrapped(info))
    BY <1>2
  <2>2. Range(Round2Pairs(info)) = (UNION {couple(k) : k \in Couples(info, 1)})
          \cup (IF n % 2 = 0 THEN zip(<<n, 1>>) ELSE {})
    BY <2>1, <1>4, <1>9
  <2>3. QED BY <2>2, <1>8
<1>11. QED BY <1>2, <1>10 DEF zip, links

(* The devices that tests with this one tell of.                           *)
Touched(tests, d) == UNION {Ends(p) : p \in {q \in Range(tests) : d \in Ends(q)}}

(* Without lost answers the tests that fail are those with the broken one. *)
LEMMA FailuresExplained ==
  ASSUME TypeInv, AnswerInv, InOrder, ~ crossed, lost = 0,
         NEW d, cluster.broken = {d},
         NEW r \in 1 .. Len(rounds), NEW tests \in Seq(Pair), Reports(rounds[r], tests)
  PROVE  AbnormalDevices(rounds[r]) = Touched(tests, d)
<1> DEFINE round == rounds[r]
<1>1. Len(round) = Len(tests) /\ \A i \in 1 .. Len(tests) : round[i].pair = tests[i]
  BY DEF Reports
<1>2. round \in Seq(Entry)
  BY DEF TypeInv
<1>3. \A i \in 1 .. Len(round) :
        Told(round[i].result) /\ round[i].result.of = round[i].pair
  BY DEF AnswerInv, InOrder
<1> HIDE DEF round
<1>4. ASSUME NEW i \in 1 .. Len(round)
      PROVE  ~ round[i].result.success <=> d \in Ends(tests[i])
  <2>1. Told(round[i].result) /\ round[i].result.of = tests[i]
    BY <1>1, <1>3
  <2>2. Sound(tests[i]) <=> d \notin Ends(tests[i])
    BY DEF Sound
  <2>3. QED BY <2>1, <2>2 DEF Told
<1>5. Range(tests) = {tests[i] : i \in 1 .. Len(tests)}
  BY DEF Range
<1>6. AbnormalDevices(round)
        = UNION {Ends(tests[i]) : i \in {j \in 1 .. Len(tests) : d \in Ends(tests[j])}}
  <2>1. {j \in 1 .. Len(round) : ~ round[j].result.success}
          = {j \in 1 .. Len(tests) : d \in Ends(tests[j])}
    BY <1>1, <1>4
  <2>2. \A i \in {j \in 1 .. Len(tests) : d \in Ends(tests[j])} :
          round[i].pair = tests[i]
    BY <1>1
  <2>3. QED BY <2>1, <2>2 DEF AbnormalDevices
<1>7. QED BY <1>5, <1>6 DEF Touched, round

(* The tests of a round, by the links between its hosts.                   *)
Tests(links) == UNION {Range(Zipped(info[x[1]], info[x[2]])) : x \in links}

Linked(links, i, j) == <<i, j>> \in links \/ <<j, i>> \in links

(* The c-th device of the k-th host.                                       *)
DeviceAt(k, c) == <<info[k], cluster.devices[info[k]][c]>>

EqualCounts ==
  \A g, h \in Range(info) : Len(cluster.devices[g]) = Len(cluster.devices[h])

(* Who is told of by the tests of a broken device of the k-th host.        *)
AlongLinks(links, k, d, found) ==
  /\ \A e \in found :
       /\ d \in found
       /\ e = d \/ \E j \in 1 .. Len(info) : Linked(links, k, j) /\ e[1] = info[j]
  /\ (\E j \in 1 .. Len(info) : Linked(links, k, j)) => d \in found

(* The tests along some links that a device takes part in tell of it and   *)
(* of one device of each host that is linked to its host, and there are    *)
(* such tests if there is a link.                                          *)
LEMMA TouchedFacts ==
  ASSUME cluster \in Clusters, info \in Seq(Names(cluster)), IsInjective(info), EqualCounts,
         NEW links \in SUBSET ((1 .. Len(info)) \X (1 .. Len(info))),
         NEW tests, Range(tests) = Tests(links),
         NEW k \in 1 .. Len(info), NEW c \in 1 .. Len(cluster.devices[info[k]])
  PROVE  AlongLinks(links, k, DeviceAt(k, c), Touched(tests, DeviceAt(k, c)))
<1> DEFINE d == DeviceAt(k, c)
<1>0. d = <<info[k], cluster.devices[info[k]][c]>>
  BY DEF DeviceAt
<1> HIDE DEF d
<1> DEFINE n == Len(info)
<1>1. \A i, j \in 1 .. n : info[i] = info[j] => i = j
  BY DEF IsInjective
<1>2. \A i \in 1 .. n : info[i] \in Names(cluster) /\ info[i] \in Range(info)
  BY DEF Range
<1>3. \A i \in 1 .. n : Len(cluster.devices[info[i]]) \in Nat
  <2>1. \A h \in Names(cluster) : cluster.devices[h] \in Seq(DOMAIN Number)
    BY NetworkTestAssumption
  <2>2. \A h \in Names(cluster) : Len(cluster.devices[h]) \in Nat
    BY <2>1
  <2>3. QED BY <1>2, <2>2
<1>4. \A i, j \in 1 .. n : /\ Shorter(info[i], info[j]) \in Nat
                           /\ Shorter(info[i], info[j]) = Len(cluster.devices[info[k]])
  <2>1. \A i, j \in 1 .. n : Len(cluster.devices[info[i]]) = Len(cluster.devices[info[j]])
    BY <1>2 DEF EqualCounts
  <2>2. QED BY <1>3, <2>1 DEF Shorter
<1>5. \A i, j \in 1 .. n :
        Range(Zipped(info[i], info[j]))
          = {Between(info[i], info[j], a) : a \in 1 .. Shorter(info[i], info[j])}
  BY <1>2, ZippedFacts
<1> HIDE DEF n
<1>6. ASSUME NEW e \in Touched(tests, d)
      PROVE  /\ d \in Touched(tests, d)
             /\ e = d \/ \E j \in 1 .. n : Linked(links, k, j) /\ e[1] = info[j]
  <2>1. PICK p \in Range(tests) : d \in Ends(p) /\ e \in Ends(p)
    BY DEF Touched
  <2>2. d \in Touched(tests, d)
    BY <2>1 DEF Touched
  <2>3. PICK x \in links : p \in Range(Zipped(info[x[1]], info[x[2]]))
    BY <2>1 DEF Tests
  <2> DEFINE i == x[1]
             j == x[2]
  <2>4. i \in 1 .. n /\ j \in 1 .. n /\ x = <<i, j>>
    BY DEF n
  <2>5. p \in Range(Zipped(info[i], info[j]))
    BY <2>3
  <2> HIDE DEF i, j
  <2>6. PICK a \in 1 .. Shorter(info[i], info[j]) : p = Between(info[i], info[j], a)
    <3>1. p \in {Between(info[i], info[j], a) : a \in 1 .. Shorter(info[i], info[j])}
      BY <1>5, <2>4, <2>5, Zenon
    <3>2. QED BY <3>1
  <2>7. Ends(p) = {<<info[i], p.sdev>>, <<info[j], p.cdev>>}
    BY <2>6 DEF Ends, Between
  <2>8. <<i, j>> \in links
    BY <2>4
  <2>9. CASE d = <<info[i], p.sdev>>
    <3>1. info[k] = info[i]
      BY <1>0, <2>9
    <3>2. k = i
      BY <1>1, <2>4, <3>1 DEF n
    <3>3. Linked(links, k, j)
      BY <2>8, <3>2 DEF Linked
    <3>4. e = d \/ e[1] = info[j]
      BY <2>1, <2>7, <2>9
    <3>5. QED BY <2>2, <2>4, <3>3, <3>4
  <2>10. CASE d = <<info[j], p.cdev>>
    <3>1. info[k] = info[j]
      BY <1>0, <2>10
    <3>2. k = j
      BY <1>1, <2>4, <3>1 DEF n
    <3>3. Linked(links, k, i)
      BY <2>8, <3>2 DEF Linked
    <3>4. e = d \/ e[1] = info[i]
      BY <2>1, <2>7, <2>10
    <3>5. QED BY <2>2, <2>4, <3>3, <3>4
  <2>11. QED BY <2>1, <2>7, <2>9, <2>10
<1>7. ASSUME NEW j \in 1 .. n, Linked(links, k, j)
      PROVE  d \in Touched(tests, d)
  <2> DEFINE there == Between(info[k], info[j], c)
             back == Between(info[j], info[k], c)
  <2>1. /\ there \in Range(Zipped(info[k], info[j]))
        /\ back \in Range(Zipped(info[j], info[k]))
    <3>1. /\ c \in 1 .. Shorter(info[k], info[j])
          /\ c \in 1 .. Shorter(info[j], info[k])
      BY <1>4 DEF n
    <3>2. k \in 1 .. n
      BY DEF n
    <3>3. /\ there \in {Between(info[k], info[j], a) : a \in 1 .. Shorter(info[k], info[j])}
          /\ back \in {Between(info[j], info[k], a) : a \in 1 .. Shorter(info[j], info[k])}
      BY <3>1
    <3>4. QED BY <1>5, <3>2, <3>3, Zenon
  <2>2. /\ d \in Ends(there) /\ d \in Ends(back)
    BY <1>0 DEF Ends, Between
  <2> HIDE DEF there, back
  <2>3. CASE <<k, j>> \in links
    <3>1. there \in Tests(links)
      <4>1. <<k, j>>[1] = k /\ <<k, j>>[2] = j
        OBVIOUS
      <4>2. QED BY <2>1, <2>3, <4>1 DEF Tests
    <3>2. QED BY <2>2, <3>1 DEF Touched
  <2>4. CASE <<j, k>> \in links
    <3>1. back \in Tests(links)
      <4>1. <<j, k>>[1] = j /\ <<j, k>>[2] = k
        OBVIOUS
      <4>2. QED BY <2>1, <2>4, <4>1 DEF Tests
    <3>2. QED BY <2>2, <3>1 DEF Touched
  <2>5. QED BY <1>7, <2>3, <2>4 DEF Linked
<1>8. QED BY <1>6, <1>7 DEF n, d, AlongLinks

(* The links of the three rounds as sets of pairs of numbers.              *)
FirstLinks == {x \in (1 .. Len(info)) \X (1 .. Len(info)) : First(x[1], x[2])}
SecondLinks == {x \in (1 .. Len(info)) \X (1 .. Len(info)) : Second(x[1], x[2])}
ThirdLinks(m, suspects) ==
  {x \in (1 .. Len(info)) \X (1 .. Len(info)) : x[1] = m /\ info[x[2]] \in suspects}

(* The third round tests the suspects with a host that is none.            *)
LEMMA ThirdRange ==
  ASSUME cluster \in Clusters, info \in Seq(Names(cluster)), NEW suspects,
         Those(info, Range(info) \ suspects) # <<>>
  PROVE  LET tests == Round3Pairs(Head(Those(info, Range(info) \ suspects)),
                                  Those(info, suspects))
         IN  /\ tests \in Seq(Pair)
             /\ \E m \in 1 .. Len(info) : /\ info[m] \notin suspects
                                          /\ Range(tests) = Tests(ThirdLinks(m, suspects))
<1> DEFINE others == Those(info, Range(info) \ suspects)
           suspected == Those(info, suspects)
           normal == Head(others)
           tests == Round3Pairs(normal, suspected)
<1>1. /\ others \in Seq(Names(cluster))
      /\ Range(others) = Range(info) \cap (Range(info) \ suspects)
  BY ThoseFacts
<1>2. suspected \in Seq(Names(cluster)) /\ Range(suspected) = Range(info) \cap suspects
  BY ThoseFacts
<1>3. others # <<>>
  OBVIOUS
<1> HIDE DEF others, suspected
<1>4. normal \in Range(others) /\ normal \in Names(cluster)
  BY <1>1, <1>3 DEF Range
<1>5. normal \in Range(info) /\ normal \notin suspects
  BY <1>1, <1>4
<1>6. PICK m \in 1 .. Len(info) : info[m] = normal
  BY <1>5 DEF Range
<1>7. /\ tests \in Seq(Pair)
      /\ Range(tests) = UNION {Range(Zipped(normal, h)) : h \in Range(suspected)}
  BY <1>2, <1>4, Round3Facts
<1> HIDE DEF normal, tests
<1> DEFINE links == ThirdLinks(m, suspects)
           zip(x) == Range(Zipped(info[x[1]], info[x[2]]))
<1>8. ASSUME NEW h \in Range(suspected)
      PROVE  \E x \in links : zip(x) = Range(Zipped(normal, h))
  <2>1. h \in Range(info) /\ h \in suspects
    BY <1>2
  <2>2. PICK j \in 1 .. Len(info) : info[j] = h
    BY <2>1 DEF Range
  <2>3. <<m, j>> \in links
    BY <2>1, <2>2 DEF ThirdLinks
  <2>4. <<m, j>>[1] = m /\ <<m, j>>[2] = j
    OBVIOUS
  <2>5. zip(<<m, j>>) = Range(Zipped(normal, h))
    BY <1>6, <2>2, <2>4, Zenon
  <2>6. QED BY <2>3, <2>5, Zenon
<1>9. ASSUME NEW x \in links
      PROVE  \E h \in Range(suspected) : zip(x) = Range(Zipped(normal, h))
  <2>1. /\ x[1] = m /\ info[x[2]] \in suspects /\ x[2] \in 1 .. Len(info)
    BY DEF ThirdLinks
  <2>2. info[x[2]] \in Range(suspected)
    BY <1>2, <2>1 DEF Range
  <2>3. zip(x) = Range(Zipped(normal, info[x[2]]))
    BY <1>6, <2>1, Zenon
  <2>4. QED BY <2>2, <2>3, Zenon
<1> HIDE DEF links
<1>10. Range(tests) = UNION {zip(x) : x \in links}
  <2> HIDE DEF zip
  <2>1. QED BY <1>7, <1>8, <1>9
<1>11. Range(tests) = Tests(ThirdLinks(m, suspects))
  BY <1>10, Zenon DEF Tests, links
<1>12. QED BY <1>5, <1>6, <1>7, <1>11 DEF tests, normal, others, suspected

(* Counting the rounds that a device failed in.                            *)
LEMMA StatusFacts ==
  ASSUME rounds \in Seq(Seq(Entry)), NEW e
  PROVE  /\ \A r, s \in 1 .. Len(rounds) :
              /\ r # s /\ e \in AbnormalDevices(rounds[r]) /\ e \in AbnormalDevices(rounds[s])
              => FinalStatus(e) = "abnormal"
         /\ /\ Len(rounds) >= 2
            /\ \A r, s \in 1 .. Len(rounds) :
                 e \in AbnormalDevices(rounds[r]) /\ e \in AbnormalDevices(rounds[s]) => r = s
            => FinalStatus(e) # "abnormal"
<1> DEFINE fails == {q \in 1 .. Len(rounds) : e \in AbnormalDevices(rounds[q])}
<1>1. Len(rounds) \in Nat
  OBVIOUS
<1>2. IsFiniteSet(fails) /\ Cardinality(fails) \in Nat
  <2>1. IsFiniteSet(1 .. Len(rounds))
    BY <1>1, FS_Interval
  <2>2. QED BY <2>1, FS_Subset, FS_CardinalityType
<1>3. FinalStatus(e) = CASE Cardinality(fails) = 0 -> "normal"
                         [] Cardinality(fails) # 0
                              /\ (Cardinality(fails) >= Len(rounds)
                                    \/ Cardinality(fails) >= 2) -> "abnormal"
                         [] OTHER -> "suspected"
  BY Zenon DEF FinalStatus
<1>4. ASSUME NEW r \in fails, NEW s \in fails, r # s
      PROVE  FinalStatus(e) = "abnormal"
  <2> HIDE DEF fails
  <2>1. {r, s} \subseteq fails
    OBVIOUS
  <2>2. Cardinality({r, s}) = 2
    <3>1. Cardinality({r}) = 1 /\ IsFiniteSet({r})
      BY FS_Singleton
    <3>2. Cardinality({r} \cup {s}) = Cardinality({r}) + 1
      <4>1. s \notin {r}
        BY <1>4
      <4>2. Cardinality({r} \cup {s})
              = IF s \in {r} THEN Cardinality({r}) ELSE Cardinality({r}) + 1
        BY <3>1, FS_AddElement, Zenon
      <4>3. QED BY <4>1, <4>2, Zenon
    <3>3. {r} \cup {s} = {r, s}
      OBVIOUS
    <3>4. 1 + 1 = 2
      OBVIOUS
    <3>5. QED BY <3>1, <3>2, <3>3, <3>4, Zenon
  <2>3. Cardinality({r, s}) <= Cardinality(fails)
    BY <1>2, <2>1, FS_Subset
  <2>4. Cardinality(fails) >= 2
    BY <1>2, <2>2, <2>3
  <2>5. QED BY <1>2, <1>3, <2>4
<1>5. ASSUME Len(rounds) >= 2, \A r, s \in fails : r = s
      PROVE  FinalStatus(e) # "abnormal"
  <2> HIDE DEF fails
  <2>1. Cardinality(fails) <= 1
    <3>1. CASE fails = {}
      <4>1. Cardinality(fails) = 0
        BY <1>2, <3>1, FS_EmptySet
      <4>2. QED BY <4>1
    <3>2. CASE fails # {}
      <4>1. PICK r : r \in fails
        BY <3>2
      <4>2. fails = {r}
        BY <1>5, <4>1
      <4>3. Cardinality(fails) = 1
        BY <4>2, FS_Singleton
      <4>4. QED BY <4>3
    <3>3. QED BY <3>1, <3>2
  <2>2. QED BY <1>1, <1>2, <1>3, <1>5, <2>1
<1>6. QED BY <1>4, <1>5

(* The case that SingleFaultLocated is about, for the broken device d.     *)
SingleFault(d) ==
  /\ InOrder /\ ~ crossed /\ lost = 0
  /\ Len(info) >= 3
  /\ EqualCounts
  /\ d \in Devices(info) /\ cluster.broken = {d}

(* A device is one of a numbered host, at some place of its list.          *)
LEMMA DeviceIndex ==
  ASSUME TypeInv, NEW d \in Devices(info)
  PROVE  \E k \in 1 .. Len(info) : \E c \in 1 .. Len(cluster.devices[info[k]]) :
           d = DeviceAt(k, c)
<1>1. PICK h \in Range(info) : d \in {h} \X Range(cluster.devices[h])
  BY DEF Devices
<1>2. PICK k \in 1 .. Len(info) : info[k] = h
  <2>1. info \in Seq(Names(cluster))
    BY DEF TypeInv
  <2>2. QED BY <2>1, <1>1 DEF Range
<1>3. cluster.devices[info[k]] \in Seq(DOMAIN Number)
  <2>1. cluster \in Clusters /\ info \in Seq(Names(cluster))
    BY DEF TypeInv
  <2>2. info[k] \in Names(cluster)
    BY <2>1
  <2>3. QED BY <2>1, <2>2, NetworkTestAssumption, Zenon
<1>4. d = <<h, d[2]>> /\ d[2] \in Range(cluster.devices[info[k]])
  BY <1>1, <1>2
<1>5. PICK c \in 1 .. Len(cluster.devices[info[k]]) : d[2] = cluster.devices[info[k]][c]
  BY <1>3, <1>4 DEF Range
<1>6. QED BY <1>2, <1>4, <1>5 DEF DeviceAt

(* What a round tells of the hosts around the broken device.               *)
LEMMA RoundTouched ==
  ASSUME TypeInv, AnswerInv, NEW d, SingleFault(d),
         NEW r \in 1 .. Len(rounds), NEW tests \in Seq(Pair), Reports(rounds[r], tests),
         NEW links \in SUBSET ((1 .. Len(info)) \X (1 .. Len(info))),
         Range(tests) = Tests(links),
         NEW k \in 1 .. Len(info), NEW c \in 1 .. Len(cluster.devices[info[k]]),
         d = DeviceAt(k, c)
  PROVE  AlongLinks(links, k, d, AbnormalDevices(rounds[r]))
<1>1. AbnormalDevices(rounds[r]) = Touched(tests, d)
  BY FailuresExplained DEF SingleFault
<1>2. /\ cluster \in Clusters /\ info \in Seq(Names(cluster)) /\ IsInjective(info)
      /\ EqualCounts
  BY DEF TypeInv, SingleFault
<1>3. AlongLinks(links, k, DeviceAt(k, c), Touched(tests, DeviceAt(k, c)))
  BY <1>2, TouchedFacts
<1>4. QED BY <1>1, <1>3, Zenon

(* The rounds around the broken device, host by host.                      *)
Near(k, j) == First(k, j) \/ First(j, k)
Far(k, j) == Second(k, j) \/ Second(j, k)

(* The links of the first two rounds: every host has one or two, to        *)
(* different hosts.                                                        *)
LEMMA LinkFacts ==
  ASSUME NEW n \in Nat, n >= 3, Len(info) = n, NEW k \in 1 .. n
  PROVE  /\ FirstLinks \in SUBSET ((1 .. n) \X (1 .. n))
         /\ SecondLinks \in SUBSET ((1 .. n) \X (1 .. n))
         /\ \A j \in 1 .. n : /\ Linked(FirstLinks, k, j) <=> Near(k, j)
                              /\ Linked(SecondLinks, k, j) <=> Far(k, j)
         /\ (\E j \in 1 .. n : Near(k, j)) \/ (\E j \in 1 .. n : Far(k, j))
         /\ n % 2 = 0 => \E j \in 1 .. n : Near(k, j)
         /\ \A i, j \in 1 .. n : Near(k, i) /\ Near(k, j) => i = j
         /\ \A i, j \in 1 .. n : Far(k, i) /\ Far(k, j) => i = j
         /\ \A i, j \in 1 .. n : Near(k, i) /\ Far(k, j) => i # j
<1>1. /\ FirstLinks \in SUBSET ((1 .. n) \X (1 .. n))
      /\ SecondLinks \in SUBSET ((1 .. n) \X (1 .. n))
  BY DEF FirstLinks, SecondLinks
<1>2. ASSUME NEW i \in 1 .. n, NEW j \in 1 .. n
      PROVE  /\ <<i, j>> \in FirstLinks <=> First(i, j)
             /\ <<i, j>> \in SecondLinks <=> Second(i, j)
  BY DEF FirstLinks, SecondLinks
<1>3. \A j \in 1 .. n : /\ Linked(FirstLinks, k, j) <=> Near(k, j)
                        /\ Linked(SecondLinks, k, j) <=> Far(k, j)
  BY <1>2, Zenon DEF Linked, Near, Far
<1>4. QED BY <1>1, <1>3, Neighbours DEF Near, Far

(* What HistoryInv and the links say of the end of the step.               *)
LEMMA Located ==
  ASSUME TypeInv, ControlInv, AnswerInv, HistoryInv, at = "returned", NEW d, SingleFault(d)
  PROVE  /\ Len(rounds) >= 2
         /\ \E r, s \in 1 .. Len(rounds) :
              r # s /\ d \in AbnormalDevices(rounds[r]) /\ d \in AbnormalDevices(rounds[s])
         /\ \A e : e # d =>
              \A r, s \in 1 .. Len(rounds) :
                e \in AbnormalDevices(rounds[r]) /\ e \in AbnormalDevices(rounds[s]) => r = s
<1> DEFINE n == Len(info)
           A1 == AbnormalDevices(rounds[1])
           A2 == AbnormalDevices(rounds[2])
           A3 == AbnormalDevices(rounds[3])
<1>1. /\ cluster \in Clusters /\ info \in Seq(Names(cluster)) /\ IsInjective(info)
      /\ rounds \in Seq(Seq(Entry))
  BY DEF TypeInv
<1>2. n \in Nat /\ n >= 3 /\ n >= 2
  BY <1>1 DEF SingleFault
<1>3. d \in Devices(info)
  BY DEF SingleFault
<1>0. PICK k \in 1 .. n : \E c \in 1 .. Len(cluster.devices[info[k]]) : d = DeviceAt(k, c)
  BY <1>3, DeviceIndex
<1>4. PICK c \in 1 .. Len(cluster.devices[info[k]]) : d = DeviceAt(k, c)
  BY <1>0
<1>5. d[1] = info[k]
  BY <1>4 DEF DeviceAt
<1>6. \A i, j \in 1 .. n : info[i] = info[j] => i = j
  BY <1>1 DEF IsInjective
<1>7. /\ FirstLinks \in SUBSET ((1 .. n) \X (1 .. n))
      /\ SecondLinks \in SUBSET ((1 .. n) \X (1 .. n))
      /\ \A j \in 1 .. n : /\ Linked(FirstLinks, k, j) <=> Near(k, j)
                           /\ Linked(SecondLinks, k, j) <=> Far(k, j)
      /\ (\E j \in 1 .. n : Near(k, j)) \/ (\E j \in 1 .. n : Far(k, j))
      /\ n % 2 = 0 => \E j \in 1 .. n : Near(k, j)
      /\ \A i, j \in 1 .. n : Near(k, i) /\ Near(k, j) => i = j
      /\ \A i, j \in 1 .. n : Far(k, i) /\ Far(k, j) => i = j
      /\ \A i, j \in 1 .. n : Near(k, i) /\ Far(k, j) => i # j
  BY <1>2, LinkFacts, Zenon
<1>8. /\ Len(rounds) >= 1 /\ Reports(rounds[1], Round1Pairs(info))
      /\ Len(rounds) >= 2 => Reports(rounds[2], Round2Pairs(info))
      /\ Len(rounds) = 3 => Reports(rounds[3], ThirdPairs)
      /\ Len(rounds) = 1 => AbnormalHosts(rounds[1]) = {} /\ n % 2 = 0
      /\ Len(rounds) = 2 =>
           Range(info) \subseteq FirstSuspects \/ Range(info) \cap FirstSuspects = {}
      /\ Len(rounds) = 3 => Those(info, Range(info) \ FirstSuspects) # <<>>
  BY <1>2 DEF HistoryInv
<1>9. Len(rounds) \in Nat
  BY <1>1
<1>10. /\ \A e \in A1 : /\ d \in A1
                        /\ e = d \/ \E j \in 1 .. n : Near(k, j) /\ e[1] = info[j]
       /\ (\E j \in 1 .. n : Near(k, j)) => d \in A1
  <2>1. Round1Pairs(info) \in Seq(Pair) /\ Range(Round1Pairs(info)) = Tests(FirstLinks)
    BY <1>1, <1>2, FirstRange, Zenon DEF Tests, FirstLinks
  <2>2. 1 \in 1 .. Len(rounds)
    BY <1>8, <1>9
  <2>3. AlongLinks(FirstLinks, k, d, A1)
    BY <1>4, <1>7, <1>8, <2>1, <2>2, RoundTouched
  <2>4. QED BY <1>7, <2>3, Zenon DEF AlongLinks
<1>11. Len(rounds) >= 2
         => /\ \A e \in A2 : /\ d \in A2
                             /\ e = d \/ \E j \in 1 .. n : Far(k, j) /\ e[1] = info[j]
            /\ (\E j \in 1 .. n : Far(k, j)) => d \in A2
  <2>1. Round2Pairs(info) \in Seq(Pair) /\ Range(Round2Pairs(info)) = Tests(SecondLinks)
    BY <1>1, <1>2, SecondRange, Zenon DEF Tests, SecondLinks
  <2>2. SUFFICES ASSUME Len(rounds) >= 2
                 PROVE  /\ \A e \in A2 : /\ d \in A2
                                         /\ \/ e = d
                                            \/ \E j \in 1 .. n : Far(k, j) /\ e[1] = info[j]
                        /\ (\E j \in 1 .. n : Far(k, j)) => d \in A2
    OBVIOUS
  <2>3. 2 \in 1 .. Len(rounds)
    BY <2>2, <1>9
  <2>4. AlongLinks(SecondLinks, k, d, A2)
    BY <1>4, <1>7, <1>8, <2>1, <2>2, <2>3, RoundTouched
  <2>5. QED BY <1>7, <2>4, Zenon DEF AlongLinks
<1>12. Len(rounds) >= 2
  <2>1. CASE Len(rounds) = 1
    <3>1. d \in A1
      BY <1>7, <1>8, <1>10, <2>1
    <3>2. info[k] \in AbnormalHosts(rounds[1])
      BY <1>5, <3>1 DEF AbnormalHosts
    <3>3. QED BY <1>8, <2>1, <3>2
  <2>2. \A l \in Nat : l >= 1 => l = 1 \/ l >= 2
    OBVIOUS
  <2>3. QED BY <1>8, <1>9, <2>1, <2>2, Zenon
<1>13. d \in A1 \/ d \in A2
  BY <1>7, <1>10, <1>11, <1>12
<1>14. /\ \A e \in A1 \cup A2 : e[1] \in FirstSuspects
       /\ \A h \in FirstSuspects : \E e \in A1 \cup A2 : h = e[1]
  BY DEF FirstSuspects, AbnormalHosts
<1>15. info[k] \in FirstSuspects
  BY <1>5, <1>13, <1>14
<1>16. \A e : e \in A1 /\ e \in A2 => e = d
  <2>1. SUFFICES ASSUME NEW e \in A1, e \in A2, e # d PROVE FALSE
    OBVIOUS
  <2>2. PICK i \in 1 .. n : Near(k, i) /\ e[1] = info[i]
    BY <1>10, <2>1
  <2>3. PICK j \in 1 .. n : Far(k, j) /\ e[1] = info[j]
    BY <1>11, <1>12, <2>1
  <2>4. i # j
    BY <1>7, <2>2, <2>3
  <2>5. QED BY <1>6, <2>2, <2>3, <2>4
<1>17. ASSUME Len(rounds) = 3
       PROVE  /\ d \in A3
              /\ \A e \in A3 : e = d \/ e[1] \notin FirstSuspects
  <2>1. Those(info, Range(info) \ FirstSuspects) # <<>>
    BY <1>8, <1>17
  <2>2. /\ ThirdPairs \in Seq(Pair)
        /\ \E m \in 1 .. n : /\ info[m] \notin FirstSuspects
                             /\ Range(ThirdPairs) = Tests(ThirdLinks(m, FirstSuspects))
    BY <1>1, <2>1, ThirdRange, Zenon DEF ThirdPairs
  <2>3. PICK m \in 1 .. n : /\ info[m] \notin FirstSuspects
                            /\ Range(ThirdPairs) = Tests(ThirdLinks(m, FirstSuspects))
    BY <2>2
  <2>4. ThirdLinks(m, FirstSuspects) \in SUBSET ((1 .. n) \X (1 .. n))
    BY DEF ThirdLinks
  <2>5. 3 \in 1 .. Len(rounds)
    BY <1>17
  <2>6. AlongLinks(ThirdLinks(m, FirstSuspects), k, d, A3)
    BY <1>4, <1>8, <1>17, <2>2, <2>3, <2>4, <2>5, RoundTouched
  <2>7. <<m, k>> \in ThirdLinks(m, FirstSuspects)
    BY <1>15 DEF ThirdLinks
  <2>8. d \in A3
    BY <2>6, <2>7 DEF AlongLinks, Linked
  <2>9. ASSUME NEW e \in A3, e # d PROVE e[1] \notin FirstSuspects
    <3>1. PICK j \in 1 .. n : Linked(ThirdLinks(m, FirstSuspects), k, j) /\ e[1] = info[j]
      BY <2>6, <2>9 DEF AlongLinks
    <3>2. <<k, j>> \notin ThirdLinks(m, FirstSuspects)
      <4>1. <<k, j>> \in ThirdLinks(m, FirstSuspects) => k = m
        BY DEF ThirdLinks
      <4>2. QED BY <4>1, <1>15, <2>3
    <3>3. <<j, k>> \in ThirdLinks(m, FirstSuspects)
      BY <3>1, <3>2 DEF Linked
    <3>4. j = m
      BY <3>3 DEF ThirdLinks
    <3>5. QED BY <2>3, <3>1, <3>4
  <2>10. QED BY <2>8, <2>9
<1>18. ASSUME Len(rounds) = 2
       PROVE  d \in A1 /\ d \in A2
  <2>1. Range(info) \subseteq FirstSuspects
    <3>1. info[k] \in Range(info)
      BY DEF Range
    <3>2. QED BY <1>8, <1>15, <1>18, <3>1
  <2>2. ASSUME NEW j \in 1 .. n, \A h \in FirstSuspects : h = info[k] \/ h = info[j]
        PROVE  FALSE
    <3>1. PICK l \in 1 .. n : l # k /\ l # j
      <4>1. \A a, b \in 1 .. n : \E l \in 1 .. n : l # a /\ l # b
        <5>1. 1 \in 1 .. n /\ 2 \in 1 .. n /\ 3 \in 1 .. n
          BY <1>2
        <5> HIDE DEF n
        <5>2. QED BY <5>1
      <4>2. QED BY <4>1
    <3>2. info[l] \in Range(info)
      BY DEF Range
    <3>3. QED BY <1>6, <2>1, <2>2, <3>1, <3>2
  <2>3. CASE d \notin A2
    <3>1. A2 = {}
      BY <1>11, <1>12, <2>3
    <3>2. PICK j \in 1 .. n : Near(k, j)
      BY <1>7, <1>11, <1>12, <2>3
    <3>3. \A e \in A1 : e[1] = info[k] \/ e[1] = info[j]
      BY <1>5, <1>7, <1>10, <3>2
    <3>4. QED BY <1>14, <2>2, <3>1, <3>3
  <2>4. CASE d \notin A1
    <3>1. A1 = {}
      BY <1>10, <2>4
    <3>2. PICK j \in 1 .. n : Far(k, j)
      BY <1>7, <1>10, <2>4
    <3>3. \A e \in A2 : e[1] = info[k] \/ e[1] = info[j]
      BY <1>5, <1>7, <1>11, <1>12, <3>2
    <3>4. QED BY <1>14, <2>2, <3>1, <3>3
  <2>5. QED BY <2>3, <2>4
<1>19. Len(rounds) = 2 \/ Len(rounds) = 3
  <2>1. Len(rounds) <= 3
    BY DEF ControlInv
  <2>2. \A l \in Nat : l >= 2 /\ l <= 3 => l = 2 \/ l = 3
    OBVIOUS
  <2>3. QED BY <1>9, <1>12, <2>1, <2>2, Zenon
<1> HIDE DEF A1, A2, A3, n
<1>20. CASE Len(rounds) = 2
  <2>1. 1 .. Len(rounds) = {1, 2}
    BY <1>20
  <2>2. QED BY <1>12, <1>16, <1>18, <1>20, <2>1 DEF A1, A2
<1>21. CASE Len(rounds) = 3
  <2>1. 1 .. Len(rounds) = {1, 2, 3}
    BY <1>21
  <2>2. \A e : e # d => /\ ~ (e \in A1 /\ e \in A2)
                        /\ ~ (e \in A1 /\ e \in A3)
                        /\ ~ (e \in A2 /\ e \in A3)
    BY <1>14, <1>16, <1>17, <1>21
  <2>3. QED BY <1>12, <1>13, <1>17, <1>21, <2>1, <2>2 DEF A1, A2, A3
<1>22. QED BY <1>19, <1>20, <1>21

(* The only broken device of three or more hosts with as many devices each *)
(* is found abnormal, no other one is, and the step fails                  *)
(* (run_three_phase_test, _analyze_results). It is touched in two rounds,  *)
(* by every route that the rounds can take; another device shares a test   *)
(* with it in one round at most, since its neighbours in the first two     *)
(* rounds are different hosts, and the host of the third round is none of  *)
(* them.                                                                   *)
THEOREM FaultIsLocated == Spec => []SingleFaultLocated
<1>1. Inv /\ HistoryInv => SingleFaultLocated
  <2>1. SUFFICES ASSUME Inv, HistoryInv, at = "returned", NEW d, SingleFault(d)
                 PROVE  /\ outcome = "failed"
                        /\ \A e \in Devices(info) : FinalStatus(e) = "abnormal" <=> e = d
    BY Zenon DEF SingleFaultLocated, SingleFault, EqualCounts
  <2>2. /\ TypeInv /\ ControlInv /\ AnswerInv
        /\ rounds \in Seq(Seq(Entry)) /\ info \in Seq(Names(cluster))
    BY <2>1 DEF Inv, TypeInv
  <2>3. /\ Len(rounds) >= 2
        /\ \E r, s \in 1 .. Len(rounds) :
             r # s /\ d \in AbnormalDevices(rounds[r]) /\ d \in AbnormalDevices(rounds[s])
        /\ \A e : e # d =>
             \A r, s \in 1 .. Len(rounds) :
               e \in AbnormalDevices(rounds[r]) /\ e \in AbnormalDevices(rounds[s]) => r = s
    BY <2>1, <2>2, Located
  <2>4. FinalStatus(d) = "abnormal"
    BY <2>2, <2>3, StatusFacts
  <2>5. ASSUME NEW e \in Devices(info), e # d PROVE FinalStatus(e) # "abnormal"
    BY <2>2, <2>3, <2>5, StatusFacts
  <2>6. outcome = "failed"
    <3>1. d \in Devices(info) /\ Len(info) >= 3
      BY <2>1 DEF SingleFault
    <3>2. Len(info) >= 2
      BY <2>2, <3>1
    <3>3. QED BY <2>1, <2>4, <3>1, <3>2 DEF HistoryInv
  <2>7. QED BY <2>4, <2>5, <2>6
<1>2. QED BY <1>1, AlwaysHistory, PTL

=============================================================================
