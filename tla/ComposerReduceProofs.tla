------------------------- MODULE ComposerReduceProofs --------------------------
(***************************************************************************)
(* The safety of a composition in batches, for any number of molecules, any  *)
(* sizes and any limits: ReduceInv is inductive, and with it every batch is  *)
(* accounted for exactly once and in order, whichever levels the merges      *)
(* took.                                                                    *)
(*                                                                          *)
(* The heart of it is Tiled: the parts of the nodes of a level, in order,    *)
(* are runs a+1 .. b of the batches that cut the whole run 1 .. n, and the   *)
(* nodes made so far of the next level cut what they replace.  What a        *)
(* recursive function of the model computes (Packed, FlattenSeq) is reached  *)
(* by induction over a set of naturals, from the minimum of its complement.  *)
(***************************************************************************)
EXTENDS ComposerReduce, SequenceTheorems, WellFoundedInduction, TLAPS

--------------------------------------------------------------------------------
(* Induction over sets of naturals, and the greedy packing. *)

LEMMA NatSetInduction ==
    ASSUME NEW S, 0 \in S, \A n \in Nat : n \in S => n + 1 \in S
    PROVE  Nat \subseteq S
<1> DEFINE T == Nat \ S
           R == {ss \in Nat \X Nat : ss[1] < ss[2]}
<1>1. IsWellFoundedOn(R, Nat)
  BY NatLessThanWellFounded DEF OpToRel
<1>2. SUFFICES ASSUME T # {} PROVE FALSE
  OBVIOUS
<1>3. PICK x \in T : \A y \in T : ~(<<y, x>> \in R)
  <2> HIDE DEF R
  <2> QED BY <1>1, <1>2, WFMin
<1>4. \A y \in T : ~(y < x)
  <2> TAKE y \in T
  <2>1. <<y, x>> \in Nat \X Nat /\ ~(<<y, x>> \in R)
    BY <1>3
  <2> QED
    BY <2>1
<1>5. x # 0 /\ x - 1 \in Nat /\ x - 1 < x
  BY <1>3
<1>6. x - 1 \in S
  <2> HIDE DEF R
  <2> QED BY <1>4, <1>5
<1>7. QED
  BY <1>3, <1>5, <1>6

LEMMA RulesFacts ==
    /\ Len(Rules) \in Nat \ {0} /\ Molecules = 1..Len(Rules)
    /\ \A m \in Molecules : Rules[m] \subseteq Fragments
BY RulesAssumption, EmptySeq DEF Molecules, Fragments

\* A packing of the first m molecules.
Packs(done, m) ==
    /\ done \in Seq(SUBSET Nat) /\ Len(done) <= m
    /\ \A x : (\E i \in 1..Len(done) : x \in done[i]) <=> x \in 1..m

LEMMA PackGrows ==
    ASSUME NEW entries, NEW n \in Nat, NEW done, Packs(done, n)
    PROVE  Packs(Pack(done, n + 1, entries), n + 1)
<1> DEFINE m == n + 1
           L == Len(done)
<1>0. /\ L \in Nat /\ L <= n /\ DOMAIN done = 1..L /\ done \in Seq(SUBSET Nat)
      /\ \A i \in 1..L : done[i] \in SUBSET Nat
      /\ \A x : (\E i \in 1..L : x \in done[i]) <=> x \in 1..n
  BY ElementOfSeq, LenProperties DEF Packs
<1>1. m \in Nat /\ L + 1 <= m /\ \A x : x \in 1..m <=> x \in 1..n \/ x = m
  BY <1>0
<1>2. CASE L > 0 /\ FitsBatch(done[L] \cup {m}, entries)
  <2>1. PICK next : next = [done EXCEPT ![L] = done[L] \cup {m}]
    OBVIOUS
  <2>2. Pack(done, m, entries) = next
    BY <1>2, <2>1 DEF Pack
  <2>3. L \in 1..Len(done) /\ done[L] \cup {m} \in SUBSET Nat
    BY <1>0, <1>1, <1>2
  <2>4. /\ next \in Seq(SUBSET Nat) /\ Len(next) = L
        /\ \A i \in 1..L : next[i] = IF i = L THEN done[L] \cup {m} ELSE done[i]
    BY <1>0, <2>1, <2>3, ExceptSeq
  <2> HIDE DEF L, m
  <2>5. \A x : (\E i \in 1..L : x \in next[i]) <=> (\E i \in 1..L : x \in done[i]) \/ x = m
    BY <2>3, <2>4 DEF L
  <2>6. Packs(next, m)
    BY <1>0, <1>1, <2>4, <2>5 DEF Packs
  <2> QED
    BY <2>2, <2>6 DEF m
<1>3. CASE ~(L > 0 /\ FitsBatch(done[L] \cup {m}, entries))
  <2>1. PICK next : next = Append(done, {m})
    OBVIOUS
  <2>2. Pack(done, m, entries) = next
    BY <1>3, <2>1 DEF Pack
  <2>3. /\ next \in Seq(SUBSET Nat) /\ Len(next) = L + 1 /\ next[L + 1] = {m}
        /\ \A i \in 1..L : next[i] = done[i]
    BY <1>0, <1>1, <2>1, {m} \in SUBSET Nat, AppendProperties
  <2> HIDE DEF L, m
  <2>4. \A i : i \in 1..(L + 1) <=> i \in 1..L \/ i = L + 1
    BY <1>0
  <2>5. \A x : (\E i \in 1..(L + 1) : x \in next[i]) <=> (\E i \in 1..L : x \in done[i]) \/ x = m
    BY <2>3, <2>4
  <2>6. Packs(next, m)
    BY <1>0, <1>1, <2>3, <2>5 DEF Packs
  <2> QED
    BY <2>2, <2>6 DEF m
<1> QED
  BY <1>2, <1>3

LEMMA PackedAll ==
    ASSUME NEW entries
    PROVE  Packs(Packed(entries), Len(Rules))
<1> DEFINE Built(f, n) ==
             f = [m \in 0..n |-> IF m = 0 THEN <<>> ELSE Pack(f[m - 1], m, entries)]
           packed[m \in 0..Len(Rules)] ==
             IF m = 0 THEN <<>> ELSE Pack(packed[m - 1], m, entries)
           S == {n \in Nat : \E f : Built(f, n)}
           P == {m \in Nat : m <= Len(Rules) => Packs(packed[m], m)}
<1>0. Len(Rules) \in Nat \ {0} /\ Molecules = 1..Len(Rules)
  BY RulesFacts
<1>1. Nat \subseteq S
  <2>1. 0 \in S
    <3> DEFINE f == [m \in 0..0 |-> <<>>]
    <3>1. Built(f, 0)
      OBVIOUS
    <3> QED
      BY <3>1
  <2>2. ASSUME NEW n \in Nat, n \in S PROVE n + 1 \in S
    <3>1. PICK f : Built(f, n)
      BY <2>2
    <3> DEFINE g == [m \in 0..(n + 1) |-> IF m = n + 1 THEN Pack(f[n], m, entries) ELSE f[m]]
    <3>2. ASSUME NEW m \in 0..(n + 1)
          PROVE  g[m] = IF m = 0 THEN <<>> ELSE Pack(g[m - 1], m, entries)
      <4>1. CASE m = n + 1
        BY <4>1
      <4>2. CASE m \in 0..n
        <5>1. f[m] = IF m = 0 THEN <<>> ELSE Pack(f[m - 1], m, entries)
          BY <3>1, <4>2
        <5>2. g[m] = f[m] /\ (m # 0 => g[m - 1] = f[m - 1])
          BY <4>2
        <5> QED
          BY <5>1, <5>2
      <4> QED
        BY <4>1, <4>2
    <3>3. Built(g, n + 1)
      BY <3>2
    <3> HIDE DEF g
    <3> QED
      BY <3>3
  <2> HIDE DEF S
  <2> QED
    BY <2>1, <2>2, NatSetInduction
<1>2. Built(packed, Len(Rules))
  <2>1. \E f : Built(f, Len(Rules))
    BY <1>0, <1>1
  <2> QED
    BY <2>1
<1>3. Packed(entries) = packed[Len(Rules)]
  BY DEF Packed
<1> HIDE DEF packed
<1>4. packed[0] = <<>> /\ \A m \in 1..Len(Rules) : packed[m] = Pack(packed[m - 1], m, entries)
  BY <1>0, <1>2
<1>5. Nat \subseteq P
  <2>1. Packs(<<>>, 0)
    BY EmptySeq DEF Packs
  <2>2. 0 \in P
    BY <1>4, <2>1
  <2>3. ASSUME NEW n \in Nat, n \in P PROVE n + 1 \in P
    <3>1. SUFFICES ASSUME n + 1 <= Len(Rules)
                   PROVE  Packs(packed[n + 1], n + 1)
      OBVIOUS
    <3>2. packed[n + 1] = Pack(packed[n], n + 1, entries)
      BY <1>0, <1>4, <3>1
    <3>3. Packs(packed[n], n)
      BY <1>0, <2>3, <3>1
    <3> QED
      BY <3>2, <3>3, PackGrows
  <2> HIDE DEF P
  <2> QED
    BY <2>2, <2>3, NatSetInduction
<1> QED
  BY <1>0, <1>3, <1>5

--------------------------------------------------------------------------------
(* Runs of batches. *)

\* The batches after the a-th, up to the b-th.
Run(a, b) == [i \in 1..(b - a) |-> a + i]

LEMMA RunFacts ==
    ASSUME NEW a \in Nat, NEW b \in Nat, a <= b
    PROVE  /\ Run(a, b) \in Seq(Nat) /\ Len(Run(a, b)) = b - a
           /\ DOMAIN Run(a, b) = 1..(b - a) /\ \A i \in 1..(b - a) : Run(a, b)[i] = a + i
<1>1. b - a \in Nat /\ \A i \in 1..(b - a) : a + i \in Nat
  OBVIOUS
<1>2. PICK n \in Nat : n = b - a
  BY <1>1
<1>3. /\ DOMAIN Run(a, b) = 1..n /\ Run(a, b) \in [1..n -> Nat]
      /\ \A i \in 1..n : Run(a, b)[i] = a + i
  BY <1>1, <1>2 DEF Run
<1> QED
  BY <1>2, <1>3

LEMMA RunConcat ==
    ASSUME NEW a \in Nat, NEW b \in Nat, NEW c \in Nat, a <= b, b <= c
    PROVE  Run(a, b) \o Run(b, c) = Run(a, c)
<1> DEFINE s == Run(a, b)
           t == Run(b, c)
<1>0. PICK u : u = s \o t
  OBVIOUS
<1>1. /\ s \in Seq(Nat) /\ Len(s) = b - a /\ \A i \in 1..(b - a) : s[i] = a + i
      /\ t \in Seq(Nat) /\ Len(t) = c - b /\ \A i \in 1..(c - b) : t[i] = b + i
      /\ Run(a, c) \in Seq(Nat) /\ Len(Run(a, c)) = c - a
      /\ \A i \in 1..(c - a) : Run(a, c)[i] = a + i
  <2>1. /\ s \in Seq(Nat) /\ Len(s) = b - a /\ \A i \in 1..(b - a) : s[i] = a + i
    BY RunFacts
  <2>2. /\ t \in Seq(Nat) /\ Len(t) = c - b /\ \A i \in 1..(c - b) : t[i] = b + i
    BY RunFacts
  <2>3. a <= c
    OBVIOUS
  <2>4. /\ Run(a, c) \in Seq(Nat) /\ Len(Run(a, c)) = c - a
        /\ \A i \in 1..(c - a) : Run(a, c)[i] = a + i
    BY <2>3, RunFacts
  <2> HIDE DEF s, t
  <2> QED
    BY <2>1, <2>2, <2>4
<1> HIDE DEF s, t
<1>2. u \in Seq(Nat) /\ Len(u) = Len(s) + Len(t)
      /\ \A i \in 1..(Len(s) + Len(t)) : u[i] = IF i <= Len(s) THEN s[i] ELSE t[i - Len(s)]
  BY <1>0, <1>1, ConcatProperties
<1>3. Len(u) = c - a /\ \A i \in 1..(c - a) : u[i] = a + i
  <2>1. \A i \in 1..(c - a) : (i <= b - a => i \in 1..(b - a))
                              /\ (~(i <= b - a) => i - (b - a) \in 1..(c - b))
    OBVIOUS
  <2>2. Len(u) = c - a
    BY <1>1, <1>2
  <2>3. ASSUME NEW i \in 1..(c - a) PROVE u[i] = a + i
    <3>1. CASE i <= b - a
      BY <1>1, <1>2, <2>1, <3>1
    <3>2. CASE ~(i <= b - a)
      <4>1. u[i] = t[i - (b - a)]
        BY <1>1, <1>2, <3>2
      <4>2. t[i - (b - a)] = b + (i - (b - a))
        BY <1>1, <2>1, <3>2
      <4> QED
        BY <4>1, <4>2
    <3> QED
      BY <3>1, <3>2
  <2> QED
    BY <2>2, <2>3
<1>4. u = Run(a, c)
  BY <1>1, <1>2, <1>3, SeqEqual
<1> QED
  BY <1>0, <1>4 DEF s, t

LEMMA FlattenRuns ==
    ASSUME NEW n \in Nat \ {0}, NEW cut \in [0..n -> Nat], \A i \in 1..n : cut[i - 1] <= cut[i],
           NEW s, s = [i \in 1..n |-> Run(cut[i - 1], cut[i])]
    PROVE  cut[0] <= cut[n] /\ FlattenSeq(s) = Run(cut[0], cut[n])
<1> DEFINE flatten[i \in 1..Len(s)] == IF i = 1 THEN s[i] ELSE flatten[i - 1] \o s[i]
           Built(f) == f = [i \in 1..Len(s) |-> IF i = 1 THEN s[i] ELSE f[i - 1] \o s[i]]
           P == {i \in Nat : i <= n => cut[0] <= cut[i]}
           Q == {j \in Nat : j + 1 <= n => flatten[j + 1] = Run(cut[0], cut[j + 1])}
           g == [i \in 1..n |-> Run(cut[0], cut[i])]
<1>1. Len(s) = n /\ \A i \in 1..n : s[i] = Run(cut[i - 1], cut[i])
  OBVIOUS
<1>2. Nat \subseteq P
  <2>1. 0 \in P
    OBVIOUS
  <2>2. ASSUME NEW i \in Nat, i \in P PROVE i + 1 \in P
    <3>1. SUFFICES ASSUME i + 1 <= n PROVE cut[0] <= cut[i + 1]
      OBVIOUS
    <3>2. cut[0] <= cut[i] /\ i + 1 \in 1..n /\ (i + 1) - 1 = i /\ i \in 0..n
      BY <2>2, <3>1
    <3>3. cut[i] <= cut[i + 1]
      BY <3>2
    <3> QED
      BY <3>2, <3>3
  <2> HIDE DEF P
  <2> QED
    BY <2>1, <2>2, NatSetInduction
<1>3. \A i \in 1..n : cut[0] <= cut[i] /\ cut[0] \in Nat /\ cut[i] \in Nat
  BY <1>2
<1>4. \A i \in 2..n : Run(cut[0], cut[i - 1]) \o s[i] = Run(cut[0], cut[i])
  <2> TAKE i \in 2..n
  <2>1. i \in 1..n /\ i - 1 \in 1..n
    OBVIOUS
  <2>2. cut[0] <= cut[i - 1] /\ cut[i - 1] <= cut[i] /\ cut[0] \in Nat /\ cut[i - 1] \in Nat /\ cut[i] \in Nat
    BY <1>3, <2>1
  <2> QED
    BY <1>1, <2>1, <2>2, RunConcat
<1>5. Built(flatten)
  <2>1. ASSUME NEW i \in 1..n
        PROVE  g[i] = IF i = 1 THEN s[i] ELSE g[i - 1] \o s[i]
    <3>1. CASE i = 1
      BY <1>1, <3>1
    <3>2. CASE i # 1
      <4>1. i \in 2..n /\ i - 1 \in 1..n
        BY <3>2
      <4>2. g[i] = Run(cut[0], cut[i]) /\ g[i - 1] = Run(cut[0], cut[i - 1])
        BY <4>1
      <4> QED
        BY <1>4, <3>2, <4>1, <4>2
    <3> QED
      BY <3>1, <3>2
  <2>2. Built(g)
    BY <1>1, <2>1
  <2> HIDE DEF g, Built
  <2>3. \E f : Built(f)
    BY <2>2
  <2> QED
    BY <2>3 DEF Built
<1>6. FlattenSeq(s) = flatten[n]
  BY <1>1 DEF FlattenSeq
<1> HIDE DEF flatten
<1>7. flatten[1] = s[1] /\ \A i \in 2..n : flatten[i] = flatten[i - 1] \o s[i]
  <2>1. flatten = [i \in 1..n |-> IF i = 1 THEN s[i] ELSE flatten[i - 1] \o s[i]]
    BY <1>1, <1>5
  <2>2. 1 \in 1..n /\ \A i \in 2..n : i \in 1..n /\ i # 1
    OBVIOUS
  <2> HIDE DEF flatten
  <2> QED
    BY <2>1, <2>2
<1>8. Nat \subseteq Q
  <2>1. 0 \in Q
    BY <1>1, <1>7
  <2>2. ASSUME NEW j \in Nat, j \in Q PROVE j + 1 \in Q
    <3>1. SUFFICES ASSUME (j + 1) + 1 <= n
                   PROVE  flatten[(j + 1) + 1] = Run(cut[0], cut[(j + 1) + 1])
      OBVIOUS
    <3>2. PICK k : k = (j + 1) + 1
      OBVIOUS
    <3>3. k \in 2..n /\ k - 1 = j + 1 /\ j + 1 <= n
      BY <3>1, <3>2
    <3>4. flatten[k - 1] = Run(cut[0], cut[k - 1])
      BY <2>2, <3>3
    <3>5. flatten[k] = flatten[k - 1] \o s[k]
      BY <1>7, <3>3
    <3>6. Run(cut[0], cut[k - 1]) \o s[k] = Run(cut[0], cut[k])
      BY <1>4, <3>3
    <3> QED
      BY <3>2, <3>4, <3>5, <3>6
  <2> HIDE DEF Q
  <2> QED
    BY <2>1, <2>2, NatSetInduction
<1>9. n - 1 \in Nat /\ (n - 1) + 1 = n
  OBVIOUS
<1>10. flatten[n] = Run(cut[0], cut[n])
  <2>1. n - 1 \in Q
    BY <1>8, <1>9
  <2> QED
    BY <1>9, <2>1
<1> QED
  BY <1>3, <1>6, <1>10

--------------------------------------------------------------------------------
(* The inductive invariant. *)

\* Where the nodes of a sequence end: together they stand for one run of batches.
Tile(s, cut) ==
    \A i \in 1..Len(s) : cut[i - 1] <= cut[i] /\ s[i].parts = Run(cut[i - 1], cut[i])

Cuts(s) == [0..Len(s) -> 0..Len(plan.batches)]

Failed(i) == replies[i].kind \in Errors

\* The merge calls of a step from k on, of this level, and of every later one.
Fresh(k) == \A l \in 1..Len(Rules), j \in 0..Len(Rules) :
               l > level \/ (l = level /\ j >= k) => calls[<<l, j>>] = 0

Unstarted ==
    /\ plan.batches = <<>> /\ plan.cross = {}
    /\ pc = "partition" \/ (pc = "done" /\ outcome # "composed")

Planned ==
    /\ Len(plan.batches) \in 2..Len(Rules)
    /\ \A f \in Fragments : \E i \in Batches : f \in plan.batches[i].fragments
    /\ \A i \in Batches : \A e \in plan.batches[i].told :
          e.cites \subseteq plan.batches[i].fragments
    /\ pc # "partition"

PlanInv == Unstarted \/ Planned

StartInv ==
    pc = "partition" =>
        /\ replies = [i \in Molecules |-> Reply("none")] /\ calls = [s \in Steps |-> 0]
        /\ cur = 1 /\ firstError = None /\ nodes = <<>> /\ merged = <<>> /\ level = 1

StoreInv ==
    /\ \A e \in store : e.cites \subseteq Fragments
    /\ pc \notin {"ask", "retry", "done"} => hash = store

OutcomeInv == pc # "done" => outcome = "none"

FirstError(n) ==
    \/ firstError = None /\ \A i \in 1..n : ~Failed(i)
    \/ \E i \in 1..n : /\ Failed(i) /\ firstError = replies[i].kind
                       /\ \A j \in 1..(i - 1) : ~Failed(j)

CollectInv ==
    pc = "collect" =>
        /\ cur \in Batches /\ nodes = <<>> /\ merged = <<>> /\ level = 1
        /\ \A i \in Batches : calls[<<0, i>>] = IF replies[i].kind = "none" THEN 0 ELSE 1
        /\ \A l \in 1..Len(Rules), k \in 0..Len(Rules) : calls[<<l, k>>] = 0
        /\ \A i \in 1..(cur - 1) : Finished(i)
        /\ FirstError(cur - 1)
        /\ \A e \in store : \/ e \in plan.cross
                            \/ \E i \in Batches : e \in plan.batches[i].told

CollectedInv ==
    pc \notin {"partition", "collect"} =>
        /\ \A i \in Batches : Finished(i)
        /\ pc # "done" => \A i \in Batches : ~Failed(i)

InFold == pc \in {"fold", "verify"} \/ (pc \in {"ask", "retry"} /\ job.step[1] = 0)

FoldInv ==
    InFold =>
        /\ cur \in Batches /\ Len(nodes) = cur - 1 /\ merged = <<>> /\ level = 1
        /\ \A i \in 1..(cur - 1) : nodes[i].parts = <<i>>
        /\ pc # "fold" => job.parts = <<cur>> /\ job.step = <<0, cur>>
        /\ \A i \in Batches : i > cur => calls[<<0, i>>] <= 1
        /\ pc # "verify" => calls[<<0, cur>>] <= 1
        /\ \A l \in 1..Len(Rules), k \in 0..Len(Rules) : calls[<<l, k>>] = 0
        /\ pc = "verify" => job.size \in Bytes

\* An answer was told to a call, or will be.
FoldHeard(e) ==
    \/ e \in plan.cross
    \/ \E i \in 1..(cur - 1) : e \in nodes[i].told
    \/ \E i \in Batches : i > cur /\ e \in plan.batches[i].told
    \/ pc = "fold" /\ e \in plan.batches[cur].told
    \/ pc \in {"ask", "retry"} /\ e.cites \subseteq plan.batches[cur].fragments
    \/ pc = "verify" /\ e \in job.told

FoldTold == InFold => \A e \in store : FoldHeard(e)

InMergeCall == pc \in {"call", "place"} \/ (pc \in {"ask", "retry"} /\ job.step[1] # 0)
InMerge == pc \in {"level", "pair", "final"} \/ InMergeCall

Rooted(n) == store \subseteq n.told /\ n.hash = store

Tiling(c, d) ==
    /\ Tile(nodes, c) /\ c[0] = 0 /\ c[Len(nodes)] = Len(plan.batches)
    /\ Tile(merged, d) /\ d[0] = 0 /\ d[Len(merged)] = c[cur - 1]
    /\ InMergeCall => job.parts = IF job.step[2] = 0 THEN Run(0, Len(plan.batches))
                                  ELSE Run(c[cur - 1], c[cur + 1])

Tiled == \E c \in Cuts(nodes), d \in Cuts(merged) : Tiling(c, d)

Paired == cur = 2 * Len(merged) + 1 \/ (cur = 2 * Len(merged) /\ cur = Len(nodes) + 1)

LevelInv ==
    pc \in {"level", "final"} =>
        /\ cur = 1 /\ merged = <<>>
        /\ Len(nodes) = 1 => Rooted(nodes[1])
        /\ pc = "final" => Len(nodes) = 1
        /\ pc = "level" /\ Len(nodes) > 1 => Fresh(0)

PairInv ==
    pc = "pair" =>
        /\ Paired /\ Len(nodes) > 1 /\ Fresh(Len(merged) + 1)
        /\ Len(merged) = 1 /\ cur > Len(nodes) => Rooted(merged[1])

MergeInv ==
    InMerge => /\ Len(nodes) >= 1 /\ level + Len(nodes) <= Len(plan.batches) + 1
               /\ cur \in 1..(Len(nodes) + 1)

TileInv == InMerge => Tiled

MergeHeard(e) ==
    \/ e \in plan.cross
    \/ \E i \in 1..Len(nodes) : i >= cur /\ e \in nodes[i].told
    \/ \E i \in 1..Len(merged) : e \in merged[i].told
    \/ pc \in {"ask", "retry"} /\ e.cites \subseteq ScopeOf(job.parts)
    \/ pc = "place" /\ e \in job.told

MergeTold == InMerge => \A e \in store : MergeHeard(e)

FlatJob == job.step = <<level, 0>> /\ cur = 1 /\ merged = <<>>
           /\ \A i \in 1..Len(nodes) : nodes[i].told \subseteq job.inherits

PairJob == /\ job.step = <<level, Len(merged) + 1>> /\ cur = 2 * Len(merged) + 1
           /\ cur < Len(nodes) /\ Fresh(Len(merged) + 2)
           /\ nodes[cur].told \cup nodes[cur + 1].told \subseteq job.inherits

JobInv ==
    InMergeCall =>
        /\ Len(nodes) > 1
        /\ FlatJob \/ PairJob
        /\ pc = "call" => calls[job.step] = 0
        /\ pc \in {"ask", "retry"} => calls[job.step] <= 1
        /\ pc \in {"call", "place"} => \A e \in store \cap plan.cross :
              e.cites \subseteq ScopeOf(job.parts) => e \in job.told
        /\ pc = "place" => job.size \in Bytes

Calling == StartInv /\ CollectInv /\ CollectedInv /\ FirstErrorIsReported
FoldOK == FoldInv /\ FoldTold
MergeOK == MergeInv /\ TileInv /\ LevelInv /\ PairInv /\ MergeTold /\ JobInv
ReduceInv == TypeOK /\ PlanInv /\ StoreInv /\ OutcomeInv /\ Calling /\ FoldOK /\ MergeOK /\ RootSpeaksForAll

--------------------------------------------------------------------------------
(* The operators of the model. *)

Answers == Composed \cup Asking \cup Failing

LEMMA AnswerFacts ==
    ASSUME NEW reply \in Answers
    PROVE  /\ reply \in Replies
           /\ reply.kind \in {"composed", "questions", "timeout", "invalid-output"}
           /\ reply.size \in Bytes \cup {0} /\ reply.asks \in SUBSET Citable
           /\ reply.kind = "composed" => reply.size \in Bytes
           /\ reply.kind \in Errors <=> reply.kind \notin {"composed", "questions"}
<1>0. reply.kind \in Errors <=> reply.kind \in {"timeout", "quota", "runtime-error", "invalid-output"}
  BY DEF Errors
<1>1. CASE reply \in Composed
  BY <1>0, <1>1 DEF Composed, Replies
<1>2. CASE reply \in Asking
  <2>1. reply.kind = "questions" /\ reply.size = 0 /\ reply.asks \in Questions
    BY <1>2 DEF Asking
  <2>2. reply.asks \in SUBSET Citable
    BY <2>1 DEF Citable
  <2> QED
    BY <1>0, <1>2, <2>1, <2>2 DEF Replies
<1>3. CASE reply \in Failing
  <2>1. reply.kind \in {"timeout", "invalid-output"} /\ reply.size = 0 /\ reply.asks = {}
    BY <1>3 DEF Failing
  <2> QED
    BY <1>0, <1>3, <2>1 DEF Replies
<1> QED
  BY <1>1, <1>2, <1>3 DEF Answers

LEMMA PendingFacts ==
    /\ Reply("none") \in Replies /\ Reply("running") \in Replies
    /\ Reply("none").kind = "none" /\ Reply("running").kind = "running"
    /\ \A kind \in {"none", "running"} : kind \notin Errors
    /\ \A reply \in Replies : reply.kind \notin {"none", "running"} => reply \in Answers
BY DEF Replies, Reply, Errors, Answers

LEMMA AssignFacts ==
    ASSUME NEW entries \in SUBSET Entries, NEW a, a = Assign(Packed(entries), entries)
    PROVE  /\ a.batches \in Seq([fragments : SUBSET Fragments, told : SUBSET Entries])
           /\ Len(a.batches) = Len(Packed(entries)) /\ Len(a.batches) <= Len(Rules)
           /\ a.cross \in SUBSET Entries
           /\ \A f \in Fragments : \E i \in DOMAIN a.batches : f \in a.batches[i].fragments
           /\ \A i \in DOMAIN a.batches : \A e \in a.batches[i].told :
                 e.cites \subseteq a.batches[i].fragments
           /\ \A e \in entries : \/ e \in a.cross
                                 \/ \E i \in DOMAIN a.batches : e \in a.batches[i].told
<1> DEFINE p == Packed(entries)
           L == Len(p)
           own(i) == {e \in Relevant(entries, FragmentsOf(p[i])) : e.cites # {}}
           bs == [i \in 1..L |-> [fragments |-> FragmentsOf(p[i]), told |-> own(i)]]
<1>1. Packs(p, Len(Rules))
  BY PackedAll
<1>2. /\ L \in Nat /\ DOMAIN p = 1..L /\ L <= Len(Rules)
      /\ \A x : (\E i \in 1..L : x \in p[i]) <=> x \in 1..Len(Rules)
  BY <1>1, LenProperties DEF Packs
<1>3. a.batches = bs /\ a.cross = entries \ UNION {own(i) : i \in 1..L}
  BY <1>2 DEF Assign
<1> HIDE DEF p
<1>4. \A i \in 1..L : FragmentsOf(p[i]) \subseteq Fragments
  <2> TAKE i \in 1..L
  <2>1. \A m \in p[i] : m \in Molecules
    BY <1>2, RulesFacts
  <2> QED
    BY <2>1, RulesFacts DEF FragmentsOf
<1>5. \A i \in 1..L : /\ own(i) \subseteq entries
                      /\ \A e \in own(i) : e.cites \subseteq FragmentsOf(p[i])
  BY DEF Relevant
<1>6. \A f \in Fragments : \E i \in 1..L : f \in FragmentsOf(p[i])
  <2> TAKE f \in Fragments
  <2>1. PICK m \in 1..Len(Rules) : f \in Rules[m]
    BY RulesFacts DEF Fragments
  <2>2. PICK i \in 1..L : m \in p[i]
    BY <1>2
  <2> QED
    BY <2>1, <2>2 DEF FragmentsOf
<1> HIDE DEF own, L
<1>7. /\ DOMAIN bs = 1..L /\ Len(bs) = L
      /\ \A i \in 1..L : bs[i].fragments = FragmentsOf(p[i]) /\ bs[i].told = own(i)
  BY <1>2
<1>8. bs \in Seq([fragments : SUBSET Fragments, told : SUBSET Entries])
  <2>1. \A i \in 1..L : [fragments |-> FragmentsOf(p[i]), told |-> own(i)]
                          \in [fragments : SUBSET Fragments, told : SUBSET Entries]
    BY <1>4, <1>5
  <2> DEFINE record(i) == [fragments |-> FragmentsOf(p[i]), told |-> own(i)]
  <2> HIDE DEF record
  <2>2. [i \in 1..L |-> record(i)] \in [1..L -> [fragments : SUBSET Fragments, told : SUBSET Entries]]
    BY <2>1 DEF record
  <2>3. bs = [i \in 1..L |-> record(i)]
    BY DEF record
  <2> HIDE DEF bs
  <2> QED
    BY <1>2, <2>2, <2>3
<1> HIDE DEF bs
<1>9. a.cross \in SUBSET Entries
      /\ \A e \in entries : e \in a.cross \/ \E i \in 1..L : e \in own(i)
  BY <1>3
<1> QED
  BY <1>2, <1>3, <1>5, <1>6, <1>7, <1>8, <1>9 DEF L, p

LEMMA MergeJobFacts ==
    ASSUME NEW group, NEW step, NEW r, r = MergeJob(group, step)
    PROVE  /\ r.step = step /\ r.parts = PartsOf(group) /\ r.told = ToldTo(group)
           /\ r.inherits = UNION {group[i].told : i \in DOMAIN group}
           /\ step \in Steps /\ r.parts \in Seq(1..Len(Rules)) /\ r.told \in SUBSET Entries
              /\ r.inherits \in SUBSET Entries => r \in Jobs
<1> DEFINE parts == PartsOf(group)
           told == ToldTo(group)
           inherits == UNION {group[i].told : i \in DOMAIN group}
<1>1. r = [NoJob EXCEPT !.step = step, !.parts = parts, !.told = told, !.inherits = inherits]
  BY DEF MergeJob
<1> HIDE DEF parts, told, inherits
<1>2. /\ r.step = step /\ r.parts = parts /\ r.told = told /\ r.inherits = inherits
      /\ step \in Steps /\ parts \in Seq(1..Len(Rules)) /\ told \in SUBSET Entries
              /\ inherits \in SUBSET Entries => r \in Jobs
  BY <1>1 DEF NoJob, Jobs
<1> QED
  BY <1>2 DEF parts, told, inherits

\* The nodes of a group that tiles a run of batches stand for that run.
LEMMA PartsOfTile ==
    ASSUME NEW group \in Seq(Nodes), Len(group) # 0, NEW c \in [0..Len(group) -> Nat],
           Tile(group, c)
    PROVE  c[0] <= c[Len(group)] /\ PartsOf(group) = Run(c[0], c[Len(group)])
<1> DEFINE n == Len(group)
           s == [i \in DOMAIN group |-> group[i].parts]
<1>1. n \in Nat \ {0} /\ DOMAIN group = 1..n
  BY LenProperties
<1>2. s = [i \in 1..n |-> Run(c[i - 1], c[i])] /\ \A i \in 1..n : c[i - 1] <= c[i]
  BY <1>1 DEF Tile
<1> HIDE DEF s, n
<1>3. c \in [0..n -> Nat]
  BY DEF n
<1>4. c[0] <= c[n] /\ FlattenSeq(s) = Run(c[0], c[n])
  BY <1>1, <1>2, <1>3, FlattenRuns
<1> QED
  BY <1>4 DEF PartsOf, s, n

LEMMA RunInBatches ==
    ASSUME NEW a \in 0..Len(Rules), NEW b \in 0..Len(Rules), a <= b
    PROVE  Run(a, b) \in Seq(1..Len(Rules))
<1>1. Len(Rules) \in Nat
  BY RulesFacts
<1>2. PICK n \in Nat : n = b - a
  BY <1>1
<1>3. \A i \in 1..n : a + i \in 1..Len(Rules)
  BY <1>1, <1>2
<1>4. Run(a, b) \in [1..n -> 1..Len(Rules)]
  BY <1>2, <1>3 DEF Run
<1> QED
  BY <1>2, <1>4

LEMMA PutFacts ==
    ASSUME NEW entries \in SUBSET Entries, NEW cites \in Citable, NEW step \in Steps
    PROVE  /\ Put(entries, cites, step) \in SUBSET Entries
           /\ \A e \in Put(entries, cites, step) : e \in entries \/ e.cites = cites
BY DEF Put, Entries

--------------------------------------------------------------------------------
(* Init, the ends, and partition. *)

LEMMA BatchFacts ==
    ASSUME TypeOK
    PROVE  /\ Len(plan.batches) \in Nat /\ Batches = 1..Len(plan.batches)
           /\ Unstarted => Len(plan.batches) = 0
           /\ PlanInv => Len(plan.batches) <= Len(Rules) /\ Batches \subseteq Molecules
           /\ pc # "partition" /\ (pc # "done" \/ outcome = "composed") /\ PlanInv => Planned
<1>1. Len(plan.batches) \in Nat /\ Batches = 1..Len(plan.batches)
  BY LenProperties DEF TypeOK, Batches
<1>2. Unstarted => Len(plan.batches) = 0
  BY EmptySeq DEF Unstarted
<1> QED
  BY <1>1, <1>2, RulesFacts DEF PlanInv, Planned, Unstarted

LEMMA InitCase == Init => ReduceInv
<1> SUFFICES ASSUME Init PROVE ReduceInv
  OBVIOUS
<1>0. Len(Rules) \in Nat \ {0} /\ Molecules = 1..Len(Rules)
  BY RulesFacts
<1>1. Before \in Steps
  BY <1>0 DEF Before, Steps
<1>2. PICK keys \in Known : store = {[cites |-> k, by |-> Before] : k \in keys}
  BY DEF Init
<1>3. store \in SUBSET Entries /\ \A e \in store : e.cites \subseteq Fragments
  <2>1. \A k \in keys : k \in UNION Known
    OBVIOUS
  <2>2. \A k \in keys : k \in Citable /\ k \subseteq Fragments
    <3> TAKE k \in keys
    <3>1. k \in Citable
      <4>1. k \in UNION Known
        BY <2>1
      <4>2. \A x \in UNION Known : x \in (UNION Questions) \cup (UNION Known)
        OBVIOUS
      <4> QED
        BY <4>1, <4>2 DEF Citable
    <3>2. k \subseteq UNION (UNION Known)
      BY <2>1
    <3> QED
      BY <3>1, <3>2, KnownAssumption
  <2>3. \A e \in store : \E k \in keys : e = [cites |-> k, by |-> Before]
    BY <1>2
  <2>4. \A e \in store : e \in Entries /\ e.cites \subseteq Fragments
    BY <1>1, <2>2, <2>3 DEF Entries
  <2> QED
    BY <2>4
<1>4. NoJob \in Jobs
  BY <1>1, EmptySeq DEF NoJob, Jobs
<1>5. plan.batches = <<>> /\ plan.cross = {} /\ nodes = <<>> /\ merged = <<>> /\ hash = store
  BY DEF Init
<1>6. TypeOK
  <2>1. replies \in [Molecules -> Replies]
    BY PendingFacts DEF Init
  <2>2. /\ plan.batches \in Seq([fragments : SUBSET Fragments, told : SUBSET Entries])
        /\ nodes \in Seq(Nodes) /\ merged \in Seq(Nodes)
    BY <1>5, EmptySeq
  <2>3. calls \in [Steps -> 0..2] /\ cur \in 1..Len(Rules) + 1 /\ level \in 1..Len(Rules)
    BY <1>0 DEF Init
  <2>4. asked \in 0..MaxQuestions /\ faults \in 0..MaxFaults
    BY BoundsAssumption DEF Init
  <2>5. bytes \in [Molecules -> Bytes] /\ defers \in BOOLEAN /\ pc = "partition"
        /\ firstError \in Errors \cup {None} /\ outcome \in Outcomes
    BY DEF Init, Outcomes
  <2>6. job \in Jobs
    BY <1>4 DEF Init
  <2> QED
    BY <1>3, <1>5, <2>1, <2>2, <2>3, <2>4, <2>5, <2>6 DEF TypeOK
<1>7. pc = "partition" /\ outcome = "none"
  BY DEF Init
<1>8. PlanInv /\ StartInv /\ StoreInv
  BY <1>3, <1>5, <1>7 DEF Init, PlanInv, Unstarted, StartInv, StoreInv
<1>11. OutcomeInv
  BY <1>7 DEF OutcomeInv
<1>9. Calling
  BY <1>7, <1>8 DEF Calling, CollectInv, CollectedInv, FirstErrorIsReported
<1>10. FoldOK /\ MergeOK
  BY <1>7 DEF FoldOK, FoldInv, FoldTold, InFold, MergeOK, MergeInv, TileInv, LevelInv, PairInv,
              MergeTold, JobInv, InMerge, InMergeCall
<1> QED
  BY <1>6, <1>7, <1>8, <1>9, <1>10, <1>11 DEF ReduceInv, RootSpeaksForAll

\* A composition that gives up after its batches, or before them.
LEMMA Stops ==
    ASSUME ReduceInv, TypeOK', pc \notin {"collect", "done"}, pc' = "done",
           outcome' = "composed" => Planned /\ RootSpeaksForAll',
           UNCHANGED <<store, plan, replies>>
    PROVE  ReduceInv'
<1>1. (StartInv /\ CollectInv /\ FoldOK /\ MergeOK)'
  BY DEF StartInv, CollectInv, FoldOK, FoldInv, FoldTold, InFold, MergeOK, MergeInv, TileInv,
         LevelInv, PairInv, MergeTold, JobInv, InMerge, InMergeCall
<1>2. Batches' = Batches /\ \A i : Failed(i)' <=> Failed(i)
  BY DEF Batches, Failed
<1>3. PlanInv' /\ (Unstarted \/ (pc # "partition" /\ Planned))
  BY DEF ReduceInv, PlanInv, Unstarted, Planned, Batches
<1>4. Batches = 1..Len(plan.batches) /\ (Unstarted => Len(plan.batches) = 0)
  BY BatchFacts DEF ReduceInv
<1>5. \A i \in Batches : Finished(i) /\ ~Failed(i)
  BY <1>3, <1>4 DEF ReduceInv, Calling, CollectedInv
<1>6. CollectedInv' /\ FailedBatches' = {}
  BY <1>2, <1>5 DEF CollectedInv, Finished, FailedBatches, Failed
<1>7. StoreInv' /\ OutcomeInv' /\ Calling' /\ RootSpeaksForAll'
  BY <1>1, <1>6 DEF ReduceInv, StoreInv, OutcomeInv, Calling, FirstErrorIsReported,
                    RootSpeaksForAll
<1> QED
  BY <1>1, <1>3, <1>7 DEF ReduceInv

LEMMA PartitionCase ==
    ASSUME ReduceInv, Partition
    PROVE  ReduceInv'
<1>0. /\ pc = "partition" /\ TypeOK /\ StartInv /\ StoreInv
      /\ UNCHANGED <<bytes, defers, store, hash, replies, calls, cur, firstError, job, nodes,
                     merged, level, asked, faults>>
  BY DEF ReduceInv, Calling, Partition, input, folding, counters
<1>1. CASE pc' = "done"
  <2>1. outcome' \in {"too-large", "single"} /\ plan' = plan
    BY <1>1 DEF Partition, End, Go
  <2>2. TypeOK'
    BY <1>0, <1>1, <2>1 DEF TypeOK, Outcomes
  <2> QED
    BY <1>0, <1>1, <2>1, <2>2, Stops
<1>2. CASE pc' # "done"
  <2>1. pc' = "collect" /\ outcome' = outcome /\ plan' = Assign(Packed(store), store)
        /\ ~(Len(Packed(store)) <= 1)
    BY <1>2 DEF Partition, End, Go
  <2> DEFINE B == Len(plan'.batches)
  <2>2. /\ plan'.batches \in Seq([fragments : SUBSET Fragments, told : SUBSET Entries])
        /\ B = Len(Packed(store)) /\ B <= Len(Rules)
        /\ plan'.cross \in SUBSET Entries
        /\ \A f \in Fragments : \E i \in Batches' : f \in plan'.batches[i].fragments
        /\ \A i \in Batches' : \A e \in plan'.batches[i].told :
              e.cites \subseteq plan'.batches[i].fragments
        /\ \A e \in store : \/ e \in plan'.cross
                            \/ \E i \in Batches' : e \in plan'.batches[i].told
    <3>1. store \in SUBSET Entries
      BY <1>0 DEF TypeOK
    <3> QED
      BY <2>1, <3>1, AssignFacts DEF Batches
  <2>3. B \in 2..Len(Rules) /\ Batches' = 1..B
    <3>1. B \in Nat /\ DOMAIN plan'.batches = 1..B
      BY <2>2, LenProperties
    <3> QED
      BY <2>1, <2>2, <3>1, RulesFacts DEF Batches
  <2>4. TypeOK'
    BY <1>0, <2>1, <2>2 DEF TypeOK
  <2>5. PlanInv' /\ StoreInv' /\ OutcomeInv'
    BY <1>0, <2>1, <2>2, <2>3 DEF ReduceInv, PlanInv, Planned, StoreInv, OutcomeInv
  <2>6. Calling'
    <3>1. cur' = 1 /\ firstError' = None /\ nodes' = <<>> /\ merged' = <<>> /\ level' = 1
      BY <1>0 DEF StartInv
    <3>2. \A i \in Batches' : calls'[<<0, i>>] = 0 /\ replies'[i].kind = "none"
      <4>1. \A i \in Batches' : i \in Molecules /\ <<0, i>> \in Steps
        BY <2>3, RulesFacts DEF Steps
      <4> QED
        BY <1>0, <4>1, PendingFacts DEF StartInv
    <3>3. \A l \in 1..Len(Rules), k \in 0..Len(Rules) : calls'[<<l, k>>] = 0
      <4>1. \A l \in 1..Len(Rules), k \in 0..Len(Rules) : <<l, k>> \in Steps
        BY RulesFacts DEF Steps
      <4> QED
        BY <1>0, <4>1 DEF StartInv
    <3>4. 1..(cur' - 1) = {} /\ cur' \in Batches'
      BY <2>3, <3>1
    <3>5. CollectInv'
      BY <1>0, <2>2, <3>1, <3>2, <3>3, <3>4 DEF CollectInv, FirstError
    <3> QED
      BY <2>1, <3>5 DEF Calling, StartInv, CollectedInv, FirstErrorIsReported
  <2>7. FoldOK' /\ MergeOK' /\ RootSpeaksForAll'
    <3>1. outcome' # "composed"
      BY <2>1, <2>5 DEF OutcomeInv
    <3> QED
      BY <2>1, <3>1 DEF FoldOK, FoldInv, FoldTold, InFold, MergeOK, MergeInv, TileInv, LevelInv,
           PairInv, MergeTold, JobInv, InMerge, InMergeCall, RootSpeaksForAll
  <2> QED
    BY <2>4, <2>5, <2>6, <2>7 DEF ReduceInv
<1> QED
  BY <1>1, <1>2

--------------------------------------------------------------------------------
(* The batches: they are started, come back and are collected. *)

LEMMA NoRuntimeCase ==
    ASSUME ReduceInv, NoRuntime
    PROVE  ReduceInv'
<1>1. /\ pc = "partition" /\ pc' = "done" /\ outcome' = "no-runtime"
      /\ UNCHANGED <<bytes, defers, store, hash, plan, replies, calls, cur, firstError, job,
                     nodes, merged, level, asked, faults>>
  BY DEF NoRuntime, End, input, folding, counters
<1>2. TypeOK'
  BY <1>1 DEF ReduceInv, TypeOK, Outcomes
<1> QED
  BY <1>1, <1>2, Stops

\* One batch that was not collected yet moves on.
LEMMA BatchMoves ==
    ASSUME ReduceInv, pc = "collect", NEW i \in Batches, ~Finished(i), NEW reply \in Replies,
           reply.kind # "none", replies' = [replies EXCEPT ![i] = reply], TypeOK',
           calls' = [calls EXCEPT ![<<0, i>>] = 1],
           UNCHANGED <<store, hash, plan, pc, cur, firstError, nodes, merged, level, outcome>>
    PROVE  ReduceInv'
<1>1. /\ TypeOK /\ CollectInv /\ Planned /\ i \in Molecules /\ Batches \subseteq Molecules
      /\ Batches' = Batches /\ Len(Rules) \in Nat
  BY BatchFacts, RulesFacts DEF ReduceInv, Calling, Batches
<1>2. replies'[i] = reply /\ \A j \in Batches : j # i => replies'[j] = replies[j]
  BY <1>1 DEF TypeOK
<1>3. \A j \in Batches : calls'[<<0, j>>] = IF j = i THEN 1 ELSE calls[<<0, j>>]
  <2> TAKE j \in Batches
  <2>1. <<0, j>> \in Steps /\ (<<0, j>> = <<0, i>> <=> j = i)
    BY <1>1, RulesFacts DEF Steps
  <2> QED
    BY <1>1, <2>1 DEF TypeOK
<1>4. \A l \in 1..Len(Rules), k \in 0..Len(Rules) : calls'[<<l, k>>] = calls[<<l, k>>]
  <2> TAKE l \in 1..Len(Rules), k \in 0..Len(Rules)
  <2>1. <<l, k>> \in Steps /\ <<l, k>> # <<0, i>>
    BY <1>1 DEF Steps
  <2> QED
    BY <1>1, <2>1 DEF TypeOK
<1>5. \A j \in 1..(cur - 1) : j # i /\ j \in Batches
  <2>1. Batches = 1..Len(plan.batches) /\ Len(plan.batches) \in Nat
    BY <1>1, BatchFacts
  <2> QED
    BY <1>1, <2>1 DEF CollectInv
<1>6. \A j \in 1..(cur - 1) : replies'[j] = replies[j] /\ cur' = cur
  BY <1>2, <1>5
<1>7. FirstError(cur - 1)'
  <2>1. FirstError(cur - 1)
    BY <1>1 DEF CollectInv
  <2>2. \A j \in 1..(cur - 1) : Failed(j)' <=> Failed(j)
    BY <1>6 DEF Failed
  <2>3. CASE firstError = None /\ \A j \in 1..(cur - 1) : ~Failed(j)
    BY <2>2, <2>3 DEF FirstError
  <2>4. CASE \E k \in 1..(cur - 1) : /\ Failed(k) /\ firstError = replies[k].kind
                                     /\ \A j \in 1..(k - 1) : ~Failed(j)
    <3>1. PICK k \in 1..(cur - 1) : /\ Failed(k) /\ firstError = replies[k].kind
                                    /\ \A j \in 1..(k - 1) : ~Failed(j)
      BY <2>4
    <3>2. \A j \in 1..(k - 1) : j \in 1..(cur - 1)
      BY <1>1, <3>1 DEF TypeOK
    <3>3. Failed(k)' /\ firstError' = replies'[k].kind /\ \A j \in 1..(k - 1) : ~Failed(j)'
      BY <1>6, <2>2, <3>1, <3>2
    <3> QED
      BY <1>6, <3>1, <3>3 DEF FirstError
  <2> QED
    BY <2>1, <2>3, <2>4 DEF FirstError
<1>8. CollectInv'
  <2>1. \A j \in 1..(cur - 1) : Finished(j)'
    BY <1>1, <1>6 DEF CollectInv, Finished
  <2>2. \A j \in Batches : calls'[<<0, j>>] = IF replies'[j].kind = "none" THEN 0 ELSE 1
    BY <1>1, <1>2, <1>3 DEF CollectInv
  <2> QED
    BY <1>1, <1>4, <1>7, <2>1, <2>2 DEF CollectInv
<1>9. PlanInv' /\ StoreInv' /\ OutcomeInv'
  BY <1>1 DEF ReduceInv, PlanInv, Planned, StoreInv, OutcomeInv
<1>10. Calling' /\ RootSpeaksForAll'
  BY <1>8, <1>9 DEF Calling, StartInv, CollectedInv, FirstErrorIsReported, OutcomeInv,
                    RootSpeaksForAll
<1>11. FoldOK' /\ MergeOK'
  BY DEF FoldOK, FoldInv, FoldTold, InFold, MergeOK, MergeInv, TileInv, LevelInv,
         PairInv, MergeTold, JobInv, InMerge, InMergeCall
<1> QED
  BY <1>9, <1>10, <1>11 DEF ReduceInv

LEMMA StartBatchCase ==
    ASSUME ReduceInv, NEW i \in Molecules, StartBatch(i)
    PROVE  ReduceInv'
<1>1. /\ pc = "collect" /\ i \in Batches /\ replies[i].kind = "none"
      /\ replies' = [replies EXCEPT ![i] = Reply("running")]
      /\ calls' = [calls EXCEPT ![<<0, i>>] = calls[<<0, i>>] + 1]
      /\ UNCHANGED <<bytes, defers, store, hash, plan, pc, cur, firstError, job, nodes, merged,
                     level, outcome, asked, faults>>
  BY DEF StartBatch, Invoked, input, folding, counters
<1>2. TypeOK /\ calls[<<0, i>>] = 0 /\ <<0, i>> \in Steps /\ ~Finished(i)
  BY <1>1, RulesFacts DEF ReduceInv, Calling, CollectInv, Finished, Steps
<1>3. calls' = [calls EXCEPT ![<<0, i>>] = 1]
  BY <1>1, <1>2
<1>4. Reply("running") \in Replies /\ Reply("running").kind # "none"
  BY PendingFacts
<1>5. TypeOK'
  <2>1. replies' \in [Molecules -> Replies] /\ calls' \in [Steps -> 0..2]
    BY <1>1, <1>2, <1>3, <1>4 DEF TypeOK
  <2> QED
    BY <1>1, <1>2, <2>1 DEF TypeOK
<1> QED
  BY <1>1, <1>2, <1>3, <1>4, <1>5, BatchMoves

\* What a call consumes of the bounds.
LEMMA AnsweredFacts ==
    ASSUME TypeOK, NEW reply \in Answers, Answered(reply)
    PROVE  asked' \in 0..MaxQuestions /\ faults' \in 0..MaxFaults
BY BoundsAssumption DEF TypeOK, Answered, counters

LEMMA EndBatchCase ==
    ASSUME ReduceInv, NEW i \in Molecules, EndBatch(i)
    PROVE  ReduceInv'
<1>1. /\ i \in Batches /\ replies[i].kind = "running"
      /\ UNCHANGED <<bytes, defers, store, hash, plan, calls, pc, cur, firstError, job, nodes,
                     merged, level, outcome>>
  BY DEF EndBatch, input, folding
<1>2. PICK reply \in Answers : Answered(reply) /\ replies' = [replies EXCEPT ![i] = reply]
  BY DEF EndBatch, Answers
<1>3. TypeOK /\ <<0, i>> \in Steps /\ ~Finished(i)
  BY <1>1, RulesFacts DEF ReduceInv, Finished, Steps
<1>4. pc = "collect"
  <2>1. pc # "partition"
    BY <1>1, PendingFacts DEF ReduceInv, Calling, StartInv
  <2> QED
    BY <1>1, <1>3, <2>1 DEF ReduceInv, Calling, CollectedInv
<1>5. calls[<<0, i>>] = 1
  BY <1>1, <1>4 DEF ReduceInv, Calling, CollectInv
<1>6. calls' = [calls EXCEPT ![<<0, i>>] = 1]
  BY <1>1, <1>3, <1>5 DEF TypeOK
<1>7. reply \in Replies /\ reply.kind # "none"
  BY AnswerFacts
<1>8. TypeOK'
  <2>1. replies' \in [Molecules -> Replies]
    BY <1>2, <1>3, <1>7 DEF TypeOK
  <2>2. asked' \in 0..MaxQuestions /\ faults' \in 0..MaxFaults
    BY <1>2, <1>3, AnsweredFacts
  <2> QED
    BY <1>1, <1>3, <2>1, <2>2 DEF TypeOK
<1> QED
  BY <1>1, <1>2, <1>3, <1>4, <1>6, <1>7, <1>8, BatchMoves

LEMMA CollectCase ==
    ASSUME ReduceInv, Collect
    PROVE  ReduceInv'
<1> DEFINE B == Len(plan.batches)
<1>1. /\ pc = "collect" /\ cur \in Batches /\ Finished(cur)
      /\ firstError' = IF Failed(cur) /\ firstError = None THEN replies[cur].kind ELSE firstError
      /\ UNCHANGED <<bytes, defers, store, hash, plan, replies, calls, job, nodes, merged, level,
                     asked, faults>>
  BY DEF Collect, Failed, input, folding, counters
<1>2. /\ TypeOK /\ CollectInv /\ Planned /\ Batches \subseteq Molecules /\ Batches = 1..B
      /\ B \in 2..Len(Rules) /\ Len(Rules) \in Nat /\ Batches' = Batches
  BY <1>1, BatchFacts, RulesFacts DEF ReduceInv, Calling, Batches, Planned
<1>3. /\ \A j \in 1..cur : Finished(j) /\ j \in Batches
      /\ \A j : (Finished(j)' <=> Finished(j)) /\ (Failed(j)' <=> Failed(j))
      /\ cur \in 1..B
  BY <1>1, <1>2 DEF CollectInv, Finished, Failed
<1>4. /\ \/ firstError' = None /\ \A j \in 1..cur : ~Failed(j)
         \/ \E k \in 1..cur : /\ Failed(k) /\ firstError' = replies[k].kind
                              /\ \A j \in 1..(k - 1) : ~Failed(j)
      /\ firstError' \in Errors \cup {None}
  <2>0. firstError' \in Errors \cup {None} /\ None \notin Errors
    BY <1>1, <1>2, NoneAssumption DEF TypeOK, Failed
  <2>1. CASE firstError = None /\ \A j \in 1..(cur - 1) : ~Failed(j)
    <3>1. CASE Failed(cur)
      BY <1>1, <1>3, <2>0, <2>1, <3>1
    <3>2. CASE ~Failed(cur)
      <4>1. \A j \in 1..cur : j \in 1..(cur - 1) \/ j = cur
        BY <1>3
      <4> QED
        BY <1>1, <2>0, <2>1, <3>2, <4>1
    <3> QED
      BY <3>1, <3>2
  <2>2. CASE \E k \in 1..(cur - 1) : /\ Failed(k) /\ firstError = replies[k].kind
                                     /\ \A j \in 1..(k - 1) : ~Failed(j)
    <3>1. PICK k \in 1..(cur - 1) : /\ Failed(k) /\ firstError = replies[k].kind
                                    /\ \A j \in 1..(k - 1) : ~Failed(j)
      BY <2>2
    <3>2. k \in 1..cur /\ firstError # None
      BY <1>3, <2>0, <3>1 DEF Failed
    <3> QED
      BY <1>1, <2>0, <3>1, <3>2
  <2> QED
    BY <1>1, <1>2, <2>1, <2>2 DEF CollectInv, FirstError
<1>5. PlanInv' /\ StoreInv'
  <2>1. pc' \in {"collect", "done", "fold"}
    BY <1>1 DEF Collect, Go, End
  <2> QED
    BY <1>1, <1>2, <2>1 DEF ReduceInv, PlanInv, Planned, StoreInv
<1>6. CASE cur < B
  <2>1. cur' = cur + 1 /\ pc' = "collect" /\ outcome' = outcome
    BY <1>6 DEF Collect, Go
  <2>2. TypeOK'
    BY <1>1, <1>2, <1>4, <1>6, <2>1 DEF TypeOK
  <2>3. cur' \in Batches' /\ cur' - 1 = cur
    BY <1>2, <1>3, <1>6, <2>1
  <2>4. FirstError(cur - 1)'
    BY <1>1, <1>3, <1>4, <2>3 DEF FirstError
  <2>5. CollectInv'
    BY <1>1, <1>2, <1>3, <2>3, <2>4 DEF CollectInv
  <2>6. OutcomeInv' /\ Calling' /\ RootSpeaksForAll'
    BY <1>1, <2>1, <2>5 DEF ReduceInv, OutcomeInv, Calling, StartInv, CollectedInv,
         FirstErrorIsReported, RootSpeaksForAll
  <2>7. FoldOK' /\ MergeOK'
    BY <2>1 DEF FoldOK, FoldInv, FoldTold, InFold, MergeOK, MergeInv, TileInv, LevelInv,
         PairInv, MergeTold, JobInv, InMerge, InMergeCall
  <2> QED
    BY <1>5, <2>2, <2>6, <2>7 DEF ReduceInv
<1>7. CASE cur = B /\ firstError' # None
  <2>1. cur' = cur /\ pc' = "done" /\ outcome' = firstError'
    BY <1>7 DEF Collect, End
  <2>2. PICK k \in Batches : /\ Failed(k) /\ firstError' = replies[k].kind
                             /\ \A j \in 1..(k - 1) : ~Failed(j)
    BY <1>2, <1>4, <1>7
  <2>3. TypeOK' /\ outcome' \in Errors
    <3>1. outcome' \in Errors /\ outcome' \in Outcomes
      BY <1>4, <1>7, <2>1 DEF Outcomes
    <3> QED
      BY <1>1, <1>2, <1>4, <2>1, <3>1 DEF TypeOK
  <2>4. Min(FailedBatches') = k
    <3>1. k \in FailedBatches' /\ \A j \in FailedBatches' : j \in 1..B /\ Failed(j)
      BY <1>1, <1>2, <2>2 DEF FailedBatches, Failed
    <3>2. \A j \in FailedBatches' : k <= j
      BY <1>2, <2>2, <3>1
    <3>3. \A m \in FailedBatches' : (\A j \in FailedBatches' : m <= j) => m = k
      BY <1>2, <3>1, <3>2
    <3> QED
      BY <3>1, <3>2, <3>3 DEF Min
  <2>5. \A j \in Batches : calls[<<0, j>>] = 1 /\ Finished(j)
    BY <1>1, <1>2, <1>3, <1>7 DEF CollectInv, Finished
  <2>6. FirstErrorIsReported'
    BY <1>1, <1>2, <1>3, <2>1, <2>2, <2>4, <2>5 DEF FirstErrorIsReported
  <2>7. Calling'
    BY <1>2, <1>3, <2>1, <2>5, <2>6 DEF Calling, StartInv, CollectInv, CollectedInv
  <2>8. OutcomeInv' /\ RootSpeaksForAll'
    BY <2>1, <2>3 DEF OutcomeInv, RootSpeaksForAll, Errors
  <2>9. FoldOK' /\ MergeOK'
    BY <2>1 DEF FoldOK, FoldInv, FoldTold, InFold, MergeOK, MergeInv, TileInv, LevelInv,
         PairInv, MergeTold, JobInv, InMerge, InMergeCall
  <2> QED
    BY <1>5, <2>3, <2>7, <2>8, <2>9 DEF ReduceInv
<1>8. CASE cur = B /\ firstError' = None
  <2>1. cur' = 1 /\ pc' = "fold" /\ outcome' = outcome
    BY <1>8 DEF Collect, Go
  <2>2. TypeOK'
    BY <1>1, <1>2, <1>4, <2>1 DEF TypeOK
  <2>3. \A j \in Batches : Finished(j) /\ ~Failed(j)
    BY <1>2, <1>3, <1>4, <1>8, NoneAssumption DEF Failed
  <2>4. OutcomeInv' /\ Calling' /\ RootSpeaksForAll'
    BY <1>1, <1>2, <1>3, <2>1, <2>3 DEF ReduceInv, OutcomeInv, Calling, StartInv, CollectInv,
         CollectedInv, FirstErrorIsReported, RootSpeaksForAll
  <2>5. \A j \in Batches : calls[<<0, j>>] <= 1
    <3>1. \A j \in Batches : calls[<<0, j>>] = 1
      BY <1>1, <1>2, <2>3 DEF CollectInv, Finished
    <3>2. \A n : n = 1 => n <= 1
      OBVIOUS
    <3> QED
      BY <3>1, <3>2
  <2>6. FoldInv'
    <3>1. Len(nodes') = 0 /\ 1 \in Batches'
      BY <1>1, <1>2, EmptySeq DEF CollectInv
    <3>2. Len(nodes') = cur' - 1 /\ 1..(cur' - 1) = {}
      BY <2>1, <3>1
    <3> QED
      BY <1>1, <1>2, <2>1, <2>5, <3>1, <3>2 DEF FoldInv, CollectInv
  <2>7. FoldTold'
    <3>1. ASSUME NEW e \in store PROVE FoldHeard(e)'
      <4>1. e \in plan.cross \/ \E j \in Batches : e \in plan.batches[j].told
        BY <1>1, <1>2 DEF CollectInv
      <4>2. CASE \E j \in Batches : e \in plan.batches[j].told
        <5>1. PICK j \in Batches : e \in plan.batches[j].told
          BY <4>2
        <5>2. j = 1 \/ j > 1
          BY <1>2
        <5> QED
          BY <1>1, <1>2, <2>1, <5>1, <5>2 DEF FoldHeard
      <4> QED
        BY <1>1, <4>1, <4>2 DEF FoldHeard
    <3> QED
      BY <1>1, <3>1 DEF FoldTold
  <2>8. MergeOK'
    BY <2>1 DEF MergeOK, MergeInv, TileInv, LevelInv, PairInv, MergeTold, JobInv, InMerge,
         InMergeCall
  <2> QED
    BY <1>5, <2>2, <2>4, <2>6, <2>7, <2>8 DEF ReduceInv, FoldOK
<1>9. cur < B \/ cur = B
  BY <1>2, <1>3
<1> QED
  BY <1>6, <1>7, <1>8, <1>9

--------------------------------------------------------------------------------
(* The fold over the batches. *)

\* After the batches are collected: what does not change any more.
LEMMA Collected ==
    ASSUME ReduceInv, pc \notin {"partition", "collect", "done"}
    PROVE  /\ TypeOK /\ Planned /\ Len(plan.batches) \in 2..Len(Rules) /\ Len(Rules) \in Nat
           /\ Batches = 1..Len(plan.batches) /\ Batches \subseteq Molecules
           /\ \A i \in Batches : /\ plan.batches[i].fragments \in SUBSET Fragments
                                 /\ plan.batches[i].told \in SUBSET Entries
           /\ outcome = "none"
<1>1. TypeOK /\ Planned /\ outcome = "none"
  BY BatchFacts DEF ReduceInv, OutcomeInv
<1>2. plan.batches \in Seq([fragments : SUBSET Fragments, told : SUBSET Entries])
  BY <1>1 DEF TypeOK
<1>3. \A i \in 1..Len(plan.batches) :
         plan.batches[i] \in [fragments : SUBSET Fragments, told : SUBSET Entries]
  BY <1>2, ElementOfSeq
<1>4. Batches = 1..Len(plan.batches) /\ Batches \subseteq Molecules
  BY <1>1, BatchFacts DEF ReduceInv
<1> QED
  BY <1>1, <1>3, <1>4, RulesFacts DEF Planned

LEMMA Onward ==
    ASSUME ReduceInv, pc \notin {"partition", "collect", "done"},
           pc' \notin {"partition", "collect", "done"}, UNCHANGED <<plan, replies, outcome>>
    PROVE  PlanInv' /\ OutcomeInv' /\ Calling' /\ RootSpeaksForAll' /\ Batches' = Batches
<1>1. Planned /\ Batches' = Batches /\ outcome = "none" /\ CollectedInv
  BY Collected DEF Batches, ReduceInv, Calling
<1>2. PlanInv' /\ OutcomeInv' /\ RootSpeaksForAll'
  BY <1>1 DEF PlanInv, Planned, OutcomeInv, RootSpeaksForAll
<1>3. Calling'
  BY <1>1 DEF Calling, StartInv, CollectInv, CollectedInv, FirstErrorIsReported, Finished, Failed
<1> QED
  BY <1>1, <1>2, <1>3

LEMMA ScopeOfOne ==
    ASSUME NEW i
    PROVE  ScopeOf(<<i>>) = plan.batches[i].fragments
<1>1. DOMAIN <<i>> = {1} /\ <<i>>[1] = i
  OBVIOUS
<1> QED
  BY <1>1 DEF ScopeOf

LEMMA RunOfOne ==
    ASSUME NEW i \in Nat \ {0}
    PROVE  Run(i - 1, i) = <<i>>
<1>1. i - (i - 1) = 1 /\ 1..1 = {1} /\ (i - 1) + 1 = i
  OBVIOUS
<1>2. Run(i - 1, i) = [j \in {1} |-> i]
  BY <1>1 DEF Run
<1> QED
  BY <1>2

LEMMA FoldBatchCase ==
    ASSUME ReduceInv, FoldBatch
    PROVE  ReduceInv'
<1>1. /\ pc = "fold" /\ cur \in Batches
      /\ UNCHANGED <<bytes, defers, store, hash, plan, replies, calls, cur, firstError, nodes,
                     merged, level, asked, faults>>
  BY DEF FoldBatch, input, folding, counters
<1>2. /\ job' = [NoJob EXCEPT !.step = <<0, cur>>, !.parts = <<cur>>,
                              !.told = plan.batches[cur].told,
                              !.size = replies[cur].size, !.pending = replies[cur].asks]
      /\ \/ pc' = "verify" /\ outcome' = outcome /\ replies[cur].kind = "composed"
         \/ pc' = "done" /\ outcome' = "questions"
         \/ pc' = "ask" /\ outcome' = outcome
  BY DEF FoldBatch, Go, End
<1>3. /\ TypeOK /\ Planned /\ Len(plan.batches) \in 2..Len(Rules) /\ Len(Rules) \in Nat
      /\ Batches = 1..Len(plan.batches) /\ Batches \subseteq Molecules
      /\ plan.batches[cur].told \in SUBSET Entries
  BY <1>1, Collected
<1>4. replies[cur] \in Answers
  <2>1. Finished(cur) /\ replies[cur] \in Replies
    BY <1>1, <1>3 DEF ReduceInv, Calling, CollectedInv, TypeOK
  <2> QED
    BY <2>1, PendingFacts DEF Finished
<1>5. /\ job'.step = <<0, cur>> /\ job'.step[1] = 0 /\ job'.parts = <<cur>>
      /\ job'.told = plan.batches[cur].told /\ job'.size = replies[cur].size
  BY <1>2 DEF NoJob
<1>6. TypeOK'
  <2>1. <<0, cur>> \in Steps /\ cur \in 1..Len(Rules)
    BY <1>1, <1>3 DEF Steps
  <2>2. <<cur>> \in Seq(1..Len(Rules)) /\ replies[cur].size \in Bytes \cup {0}
        /\ replies[cur].asks \in SUBSET Citable
    BY <1>4, <2>1, AnswerFacts
  <2>3. job' \in Jobs
    BY <1>2, <1>3, <2>1, <2>2 DEF NoJob, Jobs
  <2> QED
    BY <1>1, <1>2, <1>3, <2>3 DEF TypeOK, Outcomes
<1>7. CASE pc' = "done"
  BY <1>1, <1>2, <1>6, <1>7, Stops
<1>8. CASE pc' \in {"verify", "ask"}
  <2>1. PlanInv' /\ OutcomeInv' /\ Calling' /\ RootSpeaksForAll' /\ Batches' = Batches
    BY <1>1, <1>2, <1>8, Onward
  <2>2. StoreInv'
    BY <1>1 DEF ReduceInv, StoreInv
  <2>3. FoldInv /\ FoldTold /\ InFold
    BY <1>1 DEF ReduceInv, FoldOK, InFold
  <2>4. pc' = "verify" => job'.size \in Bytes
    BY <1>2, <1>4, <1>5, AnswerFacts
  <2>5. FoldInv'
    BY <1>1, <1>5, <1>8, <2>1, <2>3, <2>4 DEF FoldInv
  <2>6. FoldTold'
    <3>1. ASSUME NEW e \in store PROVE FoldHeard(e)'
      <4>1. FoldHeard(e)
        BY <2>3 DEF FoldTold
      <4>2. CASE e \in plan.batches[cur].told
        BY <1>1, <1>3, <1>5, <1>8, <4>2 DEF FoldHeard, Planned
      <4>3. CASE e \notin plan.batches[cur].told
        BY <1>1, <2>1, <4>1, <4>3 DEF FoldHeard
      <4> QED
        BY <4>2, <4>3
    <3> QED
      BY <1>1, <3>1 DEF FoldTold
  <2>7. MergeOK'
    BY <1>5, <1>8 DEF MergeOK, MergeInv, TileInv, LevelInv, PairInv, MergeTold, JobInv, InMerge,
         InMergeCall
  <2> QED
    BY <1>6, <2>1, <2>2, <2>5, <2>6, <2>7 DEF ReduceInv, FoldOK
<1> QED
  BY <1>2, <1>7, <1>8

LEMMA NodeFacts ==
    ASSUME TypeOK, job.size \in Bytes
    PROVE  /\ Node \in Nodes /\ Node.parts = job.parts /\ Node.hash = hash
           /\ Node.told = job.told \cup job.inherits
BY DEF TypeOK, Node, Nodes, Jobs

LEMMA NoJobFacts == NoJob \in Jobs
BY RulesFacts, EmptySeq DEF NoJob, Jobs, Before, Steps

LEMMA VerifyBatchCase ==
    ASSUME ReduceInv, VerifyBatch
    PROVE  ReduceInv'
<1> DEFINE B == Len(plan.batches)
<1>1. /\ pc = "verify" /\ nodes' = Append(nodes, Node) /\ job' = NoJob
      /\ UNCHANGED <<bytes, defers, store, hash, plan, replies, calls, firstError, merged, level,
                     outcome, asked, faults>>
      /\ \/ cur = B /\ cur' = 1 /\ pc' = "level"
         \/ cur # B /\ cur' = cur + 1 /\ pc' = "fold"
  BY DEF VerifyBatch, Go, input, counters
<1>2. /\ TypeOK /\ Planned /\ B \in 2..Len(Rules) /\ Len(Rules) \in Nat
      /\ Batches = 1..B /\ Batches \subseteq Molecules
  BY <1>1, Collected
<1>3. FoldInv /\ FoldTold /\ InFold /\ StoreInv
  BY <1>1 DEF ReduceInv, FoldOK, InFold
<1>4. /\ cur \in 1..B /\ Len(nodes) = cur - 1 /\ merged = <<>> /\ level = 1
      /\ \A i \in 1..(cur - 1) : nodes[i].parts = <<i>>
      /\ job.parts = <<cur>> /\ job.size \in Bytes
  BY <1>1, <1>2, <1>3 DEF FoldInv
<1>5. /\ Node \in Nodes /\ Node.parts = <<cur>> /\ job.told \subseteq Node.told
  BY <1>2, <1>4, NodeFacts
<1>6. /\ nodes' \in Seq(Nodes) /\ Len(nodes') = cur /\ nodes'[cur] = Node
      /\ \A i \in 1..(cur - 1) : nodes'[i] = nodes[i]
  <2>1. nodes \in Seq(Nodes)
    BY <1>2 DEF TypeOK
  <2>2. /\ nodes' \in Seq(Nodes) /\ Len(nodes') = Len(nodes) + 1
        /\ \A i \in 1..Len(nodes) : nodes'[i] = nodes[i]
        /\ nodes'[Len(nodes) + 1] = Node
    BY <1>1, <1>5, <2>1, AppendProperties
  <2> QED
    BY <1>4, <2>2
<1>7. TypeOK'
  <2>1. cur' \in 1..Len(Rules) + 1
    BY <1>1, <1>2, <1>4
  <2> QED
    BY <1>1, <1>2, <1>6, <2>1, NoJobFacts DEF TypeOK
<1>8. PlanInv' /\ OutcomeInv' /\ Calling' /\ RootSpeaksForAll' /\ Batches' = Batches
  BY <1>1, Onward
<1>9. StoreInv'
  BY <1>1, <1>3 DEF StoreInv
<1>10. \A i \in 1..cur : nodes'[i].parts = <<i>>
  <2>1. \A i \in 1..cur : i \in 1..(cur - 1) \/ i = cur
    BY <1>4
  <2> QED
    BY <1>4, <1>5, <1>6, <2>1
<1>11. \A l \in 1..Len(Rules), k \in 0..Len(Rules) : calls'[<<l, k>>] = 0
  BY <1>1, <1>3 DEF FoldInv
<1>12. CASE pc' = "fold"
  <2>1. cur' = cur + 1 /\ cur' \in 1..B /\ cur' - 1 = cur
    <3>1. cur # B /\ cur' = cur + 1
      BY <1>1, <1>12
    <3> QED
      BY <1>2, <1>4, <3>1
  <2>2. FoldInv'
    <3>1. \A i \in Batches : i > cur => calls[<<0, i>>] <= 1
      BY <1>3 DEF FoldInv
    <3>2. \A i \in Batches : i > cur' => i > cur
      BY <1>2, <1>4, <2>1
    <3>3. cur' \in Batches /\ cur' > cur
      BY <1>2, <1>4, <2>1
    <3> QED
      BY <1>1, <1>2, <1>4, <1>6, <1>8, <1>10, <1>11, <1>12, <2>1, <3>1, <3>2, <3>3 DEF FoldInv
  <2>3. FoldTold'
    <3>1. ASSUME NEW e \in store PROVE FoldHeard(e)'
      <4>1. FoldHeard(e)
        BY <1>3 DEF FoldTold
      <4>2. CASE e \in plan.cross
        BY <1>1, <4>2 DEF FoldHeard
      <4>3. CASE \E i \in 1..(cur - 1) : e \in nodes[i].told
        <5>1. PICK i \in 1..(cur - 1) : e \in nodes[i].told
          BY <4>3
        <5>2. i \in 1..cur /\ e \in nodes'[i].told
          BY <1>4, <1>6, <5>1
        <5> QED
          BY <2>1, <5>2 DEF FoldHeard
      <4>4. CASE \E i \in Batches : i > cur /\ e \in plan.batches[i].told
        <5>1. PICK i \in Batches : i > cur /\ e \in plan.batches[i].told
          BY <4>4
        <5>2. i = cur' \/ i > cur'
          BY <1>2, <1>4, <2>1, <5>1
        <5> QED
          BY <1>1, <1>8, <1>12, <5>1, <5>2 DEF FoldHeard
      <4>5. CASE e \in job.told
        <5>1. cur \in 1..cur /\ e \in nodes'[cur].told
          BY <1>4, <1>5, <1>6, <4>5
        <5> QED
          BY <2>1, <5>1 DEF FoldHeard
      <4> QED
        BY <1>1, <4>1, <4>2, <4>3, <4>4, <4>5 DEF FoldHeard
    <3> QED
      BY <1>1, <3>1 DEF FoldTold
  <2>4. MergeOK'
    BY <1>12 DEF MergeOK, MergeInv, TileInv, LevelInv, PairInv, MergeTold, JobInv, InMerge,
         InMergeCall
  <2> QED
    BY <1>7, <1>8, <1>9, <2>2, <2>3, <2>4 DEF ReduceInv, FoldOK
<1>13. CASE pc' = "level"
  <2>1. cur = B /\ cur' = 1 /\ Len(nodes') = B /\ merged' = <<>> /\ level' = 1
    BY <1>1, <1>4, <1>6, <1>13
  <2>2. FoldOK'
    BY <1>13 DEF FoldOK, FoldInv, FoldTold, InFold
  <2>3. MergeInv'
    BY <1>1, <1>2, <2>1 DEF MergeInv
  <2>4. Tiled'
    <3>0. PICK c, d : c = [i \in 0..B |-> i] /\ d = [i \in 0..0 |-> 0]
      OBVIOUS
    <3>1. /\ c \in Cuts(nodes)' /\ \A i \in 1..B : c[i - 1] = i - 1 /\ c[i] = i
          /\ c[0] = 0 /\ c[B] = B
      BY <1>1, <1>2, <2>1, <3>0 DEF Cuts
    <3>2. Tile(nodes', c)
      <4>1. ASSUME NEW i \in 1..B
            PROVE  c[i - 1] <= c[i] /\ nodes'[i].parts = Run(c[i - 1], c[i])
        <5>1. i \in Nat \ {0} /\ i \in 1..cur
          BY <1>2, <2>1
        <5>2. nodes'[i].parts = Run(i - 1, i)
          BY <1>10, <5>1, RunOfOne
        <5> QED
          BY <3>1, <5>1, <5>2
      <4> QED
        BY <2>1, <4>1 DEF Tile
    <3>3. d \in Cuts(merged)' /\ Tile(merged', d) /\ d[0] = 0 /\ d[Len(merged')] = 0
      <4>1. Len(merged') = 0 /\ 1..0 = {} /\ 0..0 = {0} /\ 0 \in 0..B
        BY <1>2, <2>1, EmptySeq
      <4>2. d \in [0..0 -> 0..B] /\ d[0] = 0
        BY <3>0, <4>1
      <4>3. Cuts(merged)' = [0..0 -> 0..B]
        BY <1>1, <4>1 DEF Cuts
      <4>4. Tile(merged', d)
        BY <4>1 DEF Tile
      <4> QED
        BY <4>1, <4>2, <4>3, <4>4
    <3>4. cur' - 1 = 0 /\ ~InMergeCall'
      BY <1>13, <2>1 DEF InMergeCall
    <3>5. Tiling(c, d)'
      BY <1>1, <2>1, <3>1, <3>2, <3>3, <3>4 DEF Tiling
    <3> QED
      BY <3>1, <3>3, <3>5 DEF Tiled
  <2>5. LevelInv'
    <3>1. Fresh(0)'
      BY <1>11 DEF Fresh
    <3>2. Len(nodes') > 1 /\ Len(nodes') # 1
      <4>1. \A n \in 2..Len(Rules) : n > 1 /\ n # 1
        BY <1>2
      <4> QED
        BY <1>2, <2>1, <4>1
    <3> QED
      BY <1>13, <2>1, <3>1, <3>2 DEF LevelInv
  <2>6. MergeTold'
    <3>1. ASSUME NEW e \in store PROVE MergeHeard(e)'
      <4>1. FoldHeard(e)
        BY <1>3 DEF FoldTold
      <4>2. CASE e \in plan.cross
        BY <1>1, <4>2 DEF MergeHeard
      <4>3. CASE \E i \in 1..(cur - 1) : e \in nodes[i].told
        <5>1. PICK i \in 1..(cur - 1) : e \in nodes[i].told
          BY <4>3
        <5>2. i \in 1..B /\ i >= cur' /\ e \in nodes'[i].told
          BY <1>4, <1>6, <2>1, <5>1
        <5> QED
          BY <2>1, <5>2 DEF MergeHeard
      <4>4. CASE \E i \in Batches : i > cur /\ e \in plan.batches[i].told
        BY <1>2, <2>1, <4>4
      <4>5. CASE e \in job.told
        <5>1. cur \in 1..B /\ cur >= cur' /\ e \in nodes'[cur].told
          BY <1>2, <1>4, <1>5, <1>6, <2>1, <4>5
        <5> QED
          BY <2>1, <5>1 DEF MergeHeard
      <4> QED
        BY <1>1, <4>1, <4>2, <4>3, <4>4, <4>5 DEF FoldHeard
    <3> QED
      BY <1>1, <3>1 DEF MergeTold
  <2>7. PairInv' /\ JobInv'
    BY <1>13 DEF PairInv, JobInv, InMergeCall
  <2> QED
    BY <1>7, <1>8, <1>9, <2>2, <2>3, <2>4, <2>5, <2>6, <2>7 DEF ReduceInv, MergeOK, TileInv
<1> QED
  BY <1>1, <1>12, <1>13

LEMMA BatchIncompleteCase ==
    ASSUME ReduceInv, BatchIncomplete
    PROVE  ReduceInv'
<1>1. /\ pc = "verify" /\ pc' = "done" /\ outcome' = "invalid-output"
      /\ UNCHANGED <<bytes, defers, store, hash, plan, replies, calls, cur, firstError, job,
                     nodes, merged, level, asked, faults>>
  BY DEF BatchIncomplete, End, input, folding, counters
<1>2. TypeOK'
  BY <1>1 DEF ReduceInv, TypeOK, Outcomes, Errors
<1> QED
  BY <1>1, <1>2, Stops

LEMMA DeclineCase ==
    ASSUME ReduceInv, Decline
    PROVE  ReduceInv'
<1>1. /\ pc = "ask" /\ pc' = "done" /\ outcome' = "declined"
      /\ UNCHANGED <<bytes, defers, store, hash, plan, replies, calls, cur, firstError, job,
                     nodes, merged, level, asked, faults>>
  BY DEF Decline, End, input, folding, counters
<1>2. TypeOK'
  BY <1>1 DEF ReduceInv, TypeOK, Outcomes
<1> QED
  BY <1>1, <1>2, Stops

--------------------------------------------------------------------------------
(* Scopes, cuts, and a merge call that moves on. *)

LEMMA RunScope ==
    ASSUME ReduceInv, pc \notin {"partition", "collect", "done"},
           NEW a \in 0..Len(plan.batches), NEW b \in 0..Len(plan.batches)
    PROVE  /\ ScopeOf(Run(a, b)) \subseteq Fragments
           /\ ScopeOf(Run(0, Len(plan.batches))) = Fragments
<1>1. /\ Batches = 1..Len(plan.batches) /\ Len(plan.batches) \in Nat
      /\ \A i \in Batches : plan.batches[i].fragments \subseteq Fragments
      /\ \A f \in Fragments : \E i \in Batches : f \in plan.batches[i].fragments
  BY Collected DEF Planned
<1>2. \A p, q \in 0..Len(plan.batches) : ScopeOf(Run(p, q)) \subseteq Fragments
  <2> TAKE p, q \in 0..Len(plan.batches)
  <2>1. \A i \in DOMAIN Run(p, q) : Run(p, q)[i] \in Batches
    BY <1>1 DEF Run
  <2> QED
    BY <1>1, <2>1 DEF ScopeOf
<1>3. \A f \in Fragments : f \in ScopeOf(Run(0, Len(plan.batches)))
  <2> TAKE f \in Fragments
  <2>1. PICK i \in 1..Len(plan.batches) : f \in plan.batches[i].fragments
    BY <1>1
  <2>2. PICK all : all = Run(0, Len(plan.batches))
    OBVIOUS
  <2>3. i \in DOMAIN all /\ all[i] = i
    BY <1>1, <2>1, <2>2 DEF Run
  <2>4. f \in ScopeOf(all)
    BY <2>1, <2>3 DEF ScopeOf
  <2> QED
    BY <2>2, <2>4
<1>4. 0 \in 0..Len(plan.batches) /\ Len(plan.batches) \in 0..Len(plan.batches)
  BY <1>1
<1> QED
  BY <1>2, <1>3, <1>4

LEMMA CutFacts ==
    ASSUME ReduceInv, InMerge
    PROVE  /\ pc \notin {"partition", "collect", "done"} /\ TypeOK
           /\ Len(nodes) \in Nat \ {0} /\ Len(merged) \in Nat /\ cur \in 1..(Len(nodes) + 1)
           /\ \E c \in Cuts(nodes), d \in Cuts(merged) : Tiling(c, d)
           /\ \A c \in Cuts(nodes) : \A i \in 0..Len(nodes) : c[i] \in 0..Len(plan.batches)
           /\ \A d \in Cuts(merged) : \A i \in 0..Len(merged) : d[i] \in 0..Len(plan.batches)
<1>1. pc \notin {"partition", "collect", "done"} /\ TypeOK /\ MergeInv /\ TileInv
  BY DEF ReduceInv, MergeOK, InMerge, InMergeCall
<1>2. Len(nodes) \in Nat /\ Len(merged) \in Nat
  BY <1>1, LenProperties DEF TypeOK
<1>3. Len(nodes) \in Nat \ {0} /\ cur \in 1..(Len(nodes) + 1)
  BY <1>1, <1>2 DEF MergeInv
<1>4. \E c \in Cuts(nodes), d \in Cuts(merged) : Tiling(c, d)
  BY <1>1 DEF TileInv, Tiled
<1>5. /\ \A c \in Cuts(nodes) : \A i \in 0..Len(nodes) : c[i] \in 0..Len(plan.batches)
      /\ \A d \in Cuts(merged) : \A i \in 0..Len(merged) : d[i] \in 0..Len(plan.batches)
  BY DEF Cuts
<1> QED
  BY <1>1, <1>2, <1>3, <1>4, <1>5

\* A call never reaches outside of the project.
LEMMA JobScope ==
    ASSUME ReduceInv, pc \in {"ask", "retry", "call", "place"}
    PROVE  ScopeOf(job.parts) \subseteq Fragments
<1>0. pc \notin {"partition", "collect", "done"}
  OBVIOUS
<1>1. CASE InFold
  <2>1. cur \in Batches /\ job.parts = <<cur>>
    BY <1>1 DEF ReduceInv, FoldOK, FoldInv
  <2> QED
    BY <1>0, <2>1, Collected, ScopeOfOne
<1>2. CASE ~InFold
  <2>1. InMergeCall /\ InMerge
    BY <1>2 DEF InFold, InMergeCall, InMerge
  <2>2. PICK c \in Cuts(nodes), d \in Cuts(merged) : Tiling(c, d)
    BY <2>1, CutFacts
  <2>3. CASE job.step[2] = 0
    <3>1. job.parts = Run(0, Len(plan.batches))
      BY <2>1, <2>2, <2>3 DEF Tiling
    <3> QED
      BY <1>0, <3>1, RunScope, Collected
  <2>4. CASE job.step[2] # 0
    <3>1. job.parts = Run(c[cur - 1], c[cur + 1])
      BY <2>1, <2>2, <2>4 DEF Tiling
    <3>2. PairJob
      BY <2>1, <2>4 DEF ReduceInv, MergeOK, JobInv, FlatJob
    <3>3. cur - 1 \in 0..Len(nodes) /\ cur + 1 \in 0..Len(nodes)
      BY <2>1, <3>2, CutFacts DEF PairJob
    <3>4. c[cur - 1] \in 0..Len(plan.batches) /\ c[cur + 1] \in 0..Len(plan.batches)
      BY <2>1, <2>2, <3>3, CutFacts
    <3> QED
      BY <1>0, <3>1, <3>4, RunScope
  <2> QED
    BY <2>3, <2>4
<1> QED
  BY <1>1, <1>2

\* What no step of a merge call changes.
LEMMA MergeCallMoves ==
    ASSUME ReduceInv, InMergeCall, InMergeCall', UNCHANGED <<nodes, merged, cur, level, plan>>,
           job'.step = job.step, job'.parts = job.parts, job'.inherits = job.inherits,
           \/ calls' = calls
           \/ calls' = [calls EXCEPT ![job.step] = calls[job.step] + 1]
    PROVE  /\ MergeInv' /\ TileInv' /\ LevelInv' /\ PairInv' /\ FoldOK'
           /\ Len(nodes') > 1 /\ (FlatJob \/ PairJob)'
           /\ job.step[1] # 0 /\ job.step \in Steps
           /\ pc \in {"call", "ask", "retry"} => calls[job.step] \in 0..1
<1>1. InMerge /\ InMerge' /\ TypeOK /\ MergeInv /\ TileInv /\ JobInv
  BY DEF ReduceInv, MergeOK, InMerge
<1>2. Len(nodes) > 1 /\ (FlatJob \/ PairJob) /\ level \in 1..Len(Rules)
  BY <1>1 DEF JobInv, TypeOK
<1>3. job.step[1] = level /\ job.step[1] # 0 /\ job.step \in Steps
  BY <1>1, <1>2, RulesFacts DEF FlatJob, PairJob, TypeOK, Jobs
<1>4. MergeInv' /\ LevelInv' /\ PairInv'
  BY <1>1 DEF MergeInv, LevelInv, PairInv, InMergeCall
<1>5. TileInv'
  <2>1. PICK c \in Cuts(nodes), d \in Cuts(merged) : Tiling(c, d)
    BY <1>1 DEF TileInv, Tiled
  <2>2. Tiling(c, d)' /\ c \in Cuts(nodes)' /\ d \in Cuts(merged)'
    BY <2>1 DEF Tiling, Cuts
  <2> QED
    BY <2>2 DEF TileInv, Tiled
<1>6. FoldOK'
  BY <1>3 DEF FoldOK, FoldInv, FoldTold, InFold, InMergeCall
<1>7. (FlatJob \/ PairJob)'
  <2>1. CASE FlatJob
    BY <2>1 DEF FlatJob
  <2>2. CASE PairJob
    <3>1. Len(merged) \in Nat
      BY <1>1, LenProperties DEF TypeOK
    <3>2. Fresh(Len(merged) + 2)'
      <4>1. ASSUME NEW l \in 1..Len(Rules), NEW j \in 0..Len(Rules),
                   l > level \/ (l = level /\ j >= Len(merged) + 2)
            PROVE  calls'[<<l, j>>] = 0
        <5>1. <<l, j>> \in Steps /\ calls[<<l, j>>] = 0
          BY <2>2, <4>1, RulesFacts DEF PairJob, Fresh, Steps
        <5>2. <<l, j>> # <<level, Len(merged) + 1>>
          BY <1>2, <3>1, <4>1, RulesFacts
        <5> QED
          BY <1>1, <2>2, <5>1, <5>2 DEF PairJob, TypeOK
      <4> QED
        BY <4>1 DEF Fresh
    <3> QED
      BY <2>2, <3>2 DEF PairJob
  <2> QED
    BY <1>2, <2>1, <2>2
<1>8. pc \in {"call", "ask", "retry"} => calls[job.step] \in 0..1
  BY <1>1, <1>3 DEF JobInv, TypeOK
<1> QED
  BY <1>2, <1>3, <1>4, <1>5, <1>6, <1>7, <1>8

LEMMA AskCase ==
    ASSUME ReduceInv, Ask
    PROVE  ReduceInv'
<1>1. /\ pc = "ask"
      /\ UNCHANGED <<bytes, defers, hash, plan, replies, calls, cur, firstError, nodes, merged,
                     level, asked, faults>>
  BY DEF Ask, input, folding, counters
<1>2. PICK cites \in job.pending :
         \/ /\ cites \subseteq ScopeOf(job.parts)
            /\ store' = Put(store, cites, job.step)
            /\ job' = [job EXCEPT !.pending = job.pending \ {cites}]
            /\ pc' \in {"retry", "ask"} /\ outcome' = outcome
         \/ pc' = "done" /\ outcome' = "invalid-output" /\ UNCHANGED <<store, job>>
  BY DEF Ask, Go, End
<1>3. TypeOK /\ job \in Jobs /\ cites \in Citable
  BY <1>2 DEF ReduceInv, TypeOK, Jobs
<1>4. CASE pc' = "done"
  <2>1. TypeOK'
    BY <1>1, <1>2, <1>3, <1>4 DEF TypeOK, Outcomes, Errors
  <2> QED
    BY <1>1, <1>2, <1>4, <2>1, Stops
<1>5. CASE pc' # "done"
  <2>1. /\ cites \subseteq ScopeOf(job.parts) /\ store' = Put(store, cites, job.step)
        /\ job' = [job EXCEPT !.pending = job.pending \ {cites}]
        /\ pc' \in {"retry", "ask"} /\ outcome' = outcome
    BY <1>2, <1>5
  <2>2. /\ job'.step = job.step /\ job'.parts = job.parts /\ job'.inherits = job.inherits
        /\ job' \in Jobs
    BY <1>3, <2>1 DEF Jobs
  <2>3. /\ store' \in SUBSET Entries
        /\ \A e \in store' : e \in store \/ e.cites = cites
    BY <1>3, <2>1, PutFacts DEF TypeOK, Jobs
  <2>4. TypeOK'
    BY <1>1, <1>3, <2>1, <2>2, <2>3 DEF TypeOK
  <2>5. PlanInv' /\ OutcomeInv' /\ Calling' /\ RootSpeaksForAll' /\ Batches' = Batches
    BY <1>1, <2>1, Onward
  <2>6. cites \subseteq Fragments
    BY <1>1, <2>1, JobScope
  <2>7. StoreInv'
    BY <2>1, <2>3, <2>6 DEF ReduceInv, StoreInv
  <2>8. CASE job.step[1] = 0
    <3>1. InFold /\ InFold' /\ FoldInv /\ FoldTold
      BY <1>1, <2>1, <2>2, <2>8 DEF InFold, ReduceInv, FoldOK
    <3>2. FoldInv'
      BY <1>1, <2>1, <2>2, <2>5, <3>1 DEF FoldInv
    <3>3. FoldTold'
      <4>1. ASSUME NEW e \in store' PROVE FoldHeard(e)'
        <5>1. CASE e \in store
          <6>1. FoldHeard(e)
            BY <3>1, <5>1 DEF FoldTold
          <6> QED
            BY <1>1, <2>1, <2>5, <6>1 DEF FoldHeard
        <5>2. CASE e.cites = cites
          <6>1. job.parts = <<cur>>
            BY <1>1, <3>1 DEF FoldInv
          <6> QED
            BY <1>1, <2>1, <5>2, <6>1, ScopeOfOne DEF FoldHeard
        <5> QED
          BY <2>3, <5>1, <5>2
      <4> QED
        BY <4>1 DEF FoldTold
    <3>4. MergeOK'
      BY <2>1, <2>2, <2>8 DEF MergeOK, MergeInv, TileInv, LevelInv, PairInv, MergeTold, JobInv,
           InMerge, InMergeCall
    <3> QED
      BY <2>4, <2>5, <2>7, <3>2, <3>3, <3>4 DEF ReduceInv, FoldOK
  <2>9. CASE job.step[1] # 0
    <3>1. InMergeCall /\ InMergeCall' /\ InMerge /\ MergeTold /\ JobInv
      BY <1>1, <2>1, <2>2, <2>9 DEF InMergeCall, InMerge, ReduceInv, MergeOK
    <3>2. /\ MergeInv' /\ TileInv' /\ LevelInv' /\ PairInv' /\ FoldOK'
          /\ Len(nodes') > 1 /\ (FlatJob \/ PairJob)'
      BY <1>1, <2>2, <3>1, MergeCallMoves
    <3>3. JobInv'
      BY <1>1, <2>1, <2>2, <3>1, <3>2 DEF JobInv
    <3>4. MergeTold'
      <4>1. ASSUME NEW e \in store' PROVE MergeHeard(e)'
        <5>1. CASE e \in store
          <6>1. MergeHeard(e)
            BY <3>1, <5>1 DEF MergeTold
          <6> QED
            BY <1>1, <2>1, <2>2, <6>1 DEF MergeHeard, ScopeOf
        <5>2. CASE e.cites = cites
          BY <1>1, <2>1, <2>2, <5>2 DEF MergeHeard, ScopeOf
        <5> QED
          BY <2>3, <5>1, <5>2
      <4> QED
        BY <4>1 DEF MergeTold
    <3> QED
      BY <2>4, <2>5, <2>7, <3>2, <3>3, <3>4 DEF ReduceInv, MergeOK
  <2> QED
    BY <2>8, <2>9
<1> QED
  BY <1>4, <1>5

--------------------------------------------------------------------------------
(* The retry, and the call of a merge. *)

LEMMA RetryCase ==
    ASSUME ReduceInv, Retry
    PROVE  ReduceInv'
<1>1. /\ pc = "retry" /\ hash' = store
      /\ calls' = [calls EXCEPT ![job.step] = calls[job.step] + 1]
      /\ UNCHANGED <<bytes, defers, store, plan, replies, cur, firstError, nodes, merged, level>>
  BY DEF Retry, Invoked, input, folding
<1>2. PICK reply \in Answers :
         /\ Answered(reply)
         /\ job' = [job EXCEPT !.told = Relevant(store, ScopeOf(job.parts)),
                               !.size = reply.size]
         /\ \/ /\ reply.kind = "composed" /\ outcome' = outcome
               /\ pc' = IF job.step[1] = 0 THEN "verify" ELSE "place"
            \/ /\ pc' = "done" /\ reply.kind # "composed"
               /\ outcome' = IF reply.kind = "questions" THEN "invalid-output" ELSE reply.kind
  BY DEF Retry, Answers, Go, End
<1>3. TypeOK /\ job \in Jobs
  BY DEF ReduceInv, TypeOK
<1>4. /\ job'.step = job.step /\ job'.parts = job.parts /\ job'.inherits = job.inherits
      /\ job'.told = Relevant(store, ScopeOf(job.parts)) /\ job'.size = reply.size
  BY <1>2, <1>3 DEF Jobs
<1>5. /\ reply.size \in Bytes \cup {0} /\ (reply.kind = "composed" => reply.size \in Bytes)
      /\ reply.kind \in {"composed", "questions", "timeout", "invalid-output"}
  BY AnswerFacts
<1>6. \A e : e \in job'.told <=> e \in store /\ e.cites \subseteq ScopeOf(job.parts)
  BY <1>4 DEF Relevant
<1>7. calls[job.step] \in 0..1 /\ job.step \in Steps
  <2>0. job.step \in Steps /\ calls[job.step] \in 0..2
    BY <1>3 DEF TypeOK, Jobs
  <2>1. CASE job.step[1] = 0
    <3>1. FoldInv /\ InFold
      BY <1>1, <2>1 DEF ReduceInv, FoldOK, InFold
    <3>2. calls[<<0, cur>>] <= 1 /\ job.step = <<0, cur>>
      BY <1>1, <3>1 DEF FoldInv
    <3> QED
      BY <2>0, <3>2
  <2>2. CASE job.step[1] # 0
    <3>1. JobInv /\ InMergeCall
      BY <1>1, <2>2 DEF ReduceInv, MergeOK, InMergeCall
    <3>2. calls[job.step] <= 1
      BY <1>1, <3>1 DEF JobInv
    <3> QED
      BY <2>0, <3>2
  <2> QED
    BY <2>1, <2>2
<1>8. /\ calls' \in [Steps -> 0..2] /\ job' \in Jobs
      /\ asked' \in 0..MaxQuestions /\ faults' \in 0..MaxFaults
  <2>1. calls' \in [Steps -> 0..2]
    BY <1>1, <1>3, <1>7 DEF TypeOK
  <2>2. job'.told \in SUBSET Entries
    BY <1>3, <1>6 DEF TypeOK
  <2>3. job' \in Jobs
    BY <1>2, <1>3, <1>4, <1>5, <2>2 DEF Jobs
  <2> QED
    BY <1>2, <1>3, <2>1, <2>3, AnsweredFacts
<1>9. TypeOK'
  BY <1>1, <1>2, <1>3, <1>5, <1>8 DEF TypeOK, Outcomes, Errors
<1>10. CASE pc' = "done"
  BY <1>1, <1>2, <1>5, <1>9, <1>10, Stops
<1>11. CASE pc' # "done"
  <2>1. /\ reply.kind = "composed" /\ outcome' = outcome
        /\ pc' = IF job.step[1] = 0 THEN "verify" ELSE "place"
    BY <1>2, <1>11
  <2>2. PlanInv' /\ OutcomeInv' /\ Calling' /\ RootSpeaksForAll' /\ Batches' = Batches
    BY <1>1, <2>1, Onward
  <2>3. StoreInv'
    BY <1>1 DEF ReduceInv, StoreInv
  <2>4. CASE job.step[1] = 0
    <3>1. InFold /\ FoldInv /\ FoldTold /\ pc' = "verify"
      BY <1>1, <2>1, <2>4 DEF InFold, ReduceInv, FoldOK
    <3>2. job.parts = <<cur>> /\ job.step = <<0, cur>> /\ cur \in Batches
      BY <1>1, <3>1 DEF FoldInv
    <3>3. /\ Batches \subseteq Molecules /\ Len(Rules) \in Nat /\ Molecules = 1..Len(Rules)
          /\ Batches \subseteq Nat
      BY <1>1, Collected, RulesFacts
    <3>4. \A i \in Batches : i > cur => calls'[<<0, i>>] <= 1
      <4>1. ASSUME NEW i \in Batches, i > cur PROVE calls'[<<0, i>>] <= 1
        <5>1. <<0, i>> \in Steps /\ <<0, i>> # <<0, cur>>
          BY <3>2, <3>3, <4>1 DEF Steps
        <5>2. calls'[<<0, i>>] = calls[<<0, i>>] /\ calls[<<0, i>>] <= 1
          BY <1>1, <1>3, <3>1, <3>2, <4>1, <5>1 DEF TypeOK, FoldInv
        <5> QED
          BY <5>2
      <4> QED
        BY <4>1
    <3>5. \A l \in 1..Len(Rules), k \in 0..Len(Rules) : calls'[<<l, k>>] = 0
      <4> TAKE l \in 1..Len(Rules), k \in 0..Len(Rules)
      <4>1. <<l, k>> \in Steps /\ <<l, k>> # <<0, cur>>
        BY <3>3 DEF Steps
      <4> QED
        BY <1>1, <1>3, <3>1, <3>2, <4>1 DEF TypeOK, FoldInv
    <3>6. FoldInv'
      BY <1>1, <1>4, <1>5, <2>1, <2>2, <3>1, <3>2, <3>4, <3>5 DEF FoldInv
    <3>7. FoldTold'
      <4>1. ASSUME NEW e \in store PROVE FoldHeard(e)'
        <5>1. FoldHeard(e)
          BY <3>1 DEF FoldTold
        <5>2. CASE e.cites \subseteq plan.batches[cur].fragments
          BY <1>6, <3>1, <3>2, <5>2, ScopeOfOne DEF FoldHeard
        <5>3. CASE ~(e.cites \subseteq plan.batches[cur].fragments)
          BY <1>1, <2>2, <5>1, <5>3 DEF FoldHeard
        <5> QED
          BY <5>2, <5>3
      <4> QED
        BY <1>1, <4>1 DEF FoldTold
    <3>8. MergeOK'
      BY <3>1 DEF MergeOK, MergeInv, TileInv, LevelInv, PairInv, MergeTold, JobInv, InMerge,
           InMergeCall
    <3> QED
      BY <1>9, <2>2, <2>3, <3>6, <3>7, <3>8 DEF ReduceInv, FoldOK
  <2>5. CASE job.step[1] # 0
    <3>1. InMergeCall /\ InMergeCall' /\ InMerge /\ MergeTold /\ pc' = "place"
      BY <1>1, <2>1, <2>5 DEF InMergeCall, InMerge, ReduceInv, MergeOK
    <3>2. /\ MergeInv' /\ TileInv' /\ LevelInv' /\ PairInv' /\ FoldOK'
          /\ Len(nodes') > 1 /\ (FlatJob \/ PairJob)'
      BY <1>1, <1>4, <3>1, MergeCallMoves
    <3>3. ScopeOf(job.parts)' = ScopeOf(job.parts)
      BY <1>1, <1>4 DEF ScopeOf
    <3>4. JobInv'
      BY <1>1, <1>4, <1>5, <1>6, <2>1, <3>1, <3>2, <3>3 DEF JobInv
    <3>5. MergeTold'
      <4>1. ASSUME NEW e \in store PROVE MergeHeard(e)'
        <5>1. MergeHeard(e)
          BY <3>1 DEF MergeTold
        <5>2. CASE e.cites \subseteq ScopeOf(job.parts)
          BY <1>6, <3>1, <5>2 DEF MergeHeard
        <5>3. CASE ~(e.cites \subseteq ScopeOf(job.parts))
          BY <1>1, <5>1, <5>3 DEF MergeHeard
        <5> QED
          BY <5>2, <5>3
      <4> QED
        BY <1>1, <4>1 DEF MergeTold
    <3> QED
      BY <1>9, <2>2, <2>3, <3>2, <3>4, <3>5 DEF ReduceInv, MergeOK
  <2> QED
    BY <2>4, <2>5
<1> QED
  BY <1>10, <1>11

LEMMA CallMergeCase ==
    ASSUME ReduceInv, CallMerge
    PROVE  ReduceInv'
<1>1. /\ pc = "call" /\ calls' = [calls EXCEPT ![job.step] = calls[job.step] + 1]
      /\ UNCHANGED <<bytes, defers, store, hash, plan, replies, cur, firstError, nodes, merged,
                     level>>
  BY DEF CallMerge, Invoked, input, folding
<1>2. PICK reply \in Answers :
         /\ Answered(reply)
         /\ job' = [job EXCEPT !.size = reply.size, !.pending = reply.asks]
         /\ \/ pc' = "place" /\ outcome' = outcome /\ reply.kind = "composed"
            \/ pc' = "done" /\ outcome' = reply.kind /\ reply.kind \notin {"composed", "questions"}
            \/ pc' = "done" /\ outcome' = "questions"
            \/ pc' = "ask" /\ outcome' = outcome
  BY DEF CallMerge, Answers, Go, End
<1>3. TypeOK /\ job \in Jobs /\ JobInv /\ InMergeCall /\ InMerge /\ MergeTold
  BY <1>1 DEF ReduceInv, TypeOK, MergeOK, InMergeCall, InMerge
<1>4. /\ job'.step = job.step /\ job'.parts = job.parts /\ job'.inherits = job.inherits
      /\ job'.told = job.told /\ job'.size = reply.size
  BY <1>2, <1>3 DEF Jobs
<1>5. /\ reply.size \in Bytes \cup {0} /\ reply.asks \in SUBSET Citable
      /\ reply.kind = "composed" => reply.size \in Bytes
      /\ reply.kind \in {"composed", "questions", "timeout", "invalid-output"}
  BY AnswerFacts
<1>6. job.step \in Steps /\ calls[job.step] = 0 /\ job.step[1] # 0
  <2>1. job.step \in Steps /\ calls[job.step] = 0
    BY <1>1, <1>3 DEF JobInv, Jobs
  <2>2. FlatJob \/ PairJob
    BY <1>3 DEF JobInv
  <2>3. level # 0
    BY <1>3, RulesFacts DEF TypeOK
  <2> QED
    BY <2>1, <2>2, <2>3 DEF FlatJob, PairJob
<1>7. /\ calls' \in [Steps -> 0..2] /\ calls'[job.step] = 1 /\ job' \in Jobs
      /\ asked' \in 0..MaxQuestions /\ faults' \in 0..MaxFaults
  <2>1. calls' \in [Steps -> 0..2] /\ calls'[job.step] = 1
    BY <1>1, <1>3, <1>6 DEF TypeOK
  <2>2. job' \in Jobs
    BY <1>2, <1>3, <1>5 DEF Jobs
  <2> QED
    BY <1>2, <1>3, <2>1, <2>2, AnsweredFacts
<1>8. TypeOK'
  BY <1>1, <1>2, <1>3, <1>5, <1>7 DEF TypeOK, Outcomes, Errors
<1>9. CASE pc' = "done"
  BY <1>1, <1>2, <1>5, <1>8, <1>9, Stops
<1>10. CASE pc' # "done"
  <2>1. /\ pc' \in {"place", "ask"} /\ outcome' = outcome
        /\ pc' = "place" => reply.kind = "composed"
    BY <1>2, <1>10
  <2>2. PlanInv' /\ OutcomeInv' /\ Calling' /\ RootSpeaksForAll' /\ Batches' = Batches
    BY <1>1, <2>1, Onward
  <2>3. StoreInv'
    BY <1>1 DEF ReduceInv, StoreInv
  <2>4. InMergeCall'
    BY <1>4, <1>6, <2>1 DEF InMergeCall
  <2>5. /\ MergeInv' /\ TileInv' /\ LevelInv' /\ PairInv' /\ FoldOK'
        /\ Len(nodes') > 1 /\ (FlatJob \/ PairJob)'
    BY <1>1, <1>3, <1>4, <2>4, MergeCallMoves
  <2>6. ScopeOf(job.parts)' = ScopeOf(job.parts)
    BY <1>1, <1>4 DEF ScopeOf
  <2>7. JobInv'
    <3>1. \A e \in store \cap plan.cross : e.cites \subseteq ScopeOf(job.parts) => e \in job.told
      BY <1>1, <1>3 DEF JobInv
    <3>2. calls'[job'.step] <= 1
      BY <1>4, <1>7
    <3> QED
      BY <1>1, <1>4, <1>5, <2>1, <2>5, <2>6, <3>1, <3>2 DEF JobInv
  <2>8. MergeTold'
    BY <1>1, <1>3 DEF MergeTold, MergeHeard
  <2> QED
    BY <1>8, <2>2, <2>3, <2>5, <2>7, <2>8 DEF ReduceInv, MergeOK
<1> QED
  BY <1>9, <1>10

--------------------------------------------------------------------------------
(* Nodes that follow one another; the top of a level. *)

LEMMA TilesStay ==
    ASSUME NEW c \in Cuts(nodes), NEW d \in Cuts(merged), Tiling(c, d),
           UNCHANGED <<nodes, merged, cur, plan>>,
           InMergeCall' => job'.parts = IF job'.step[2] = 0 THEN Run(0, Len(plan.batches))
                                        ELSE Run(c[cur - 1], c[cur + 1])
    PROVE  Tiled'
<1>1. Tiling(c, d)' /\ c \in Cuts(nodes)' /\ d \in Cuts(merged)'
  BY DEF Tiling, Cuts
<1> QED
  BY <1>1 DEF Tiled

\* n stands for the batches that follow those of s, up to the b-th.
Follows(n, b, s, d) ==
    /\ s \in Seq(Nodes) /\ d \in Cuts(s) /\ Tile(s, d)
    /\ n \in Nodes /\ b \in 0..Len(plan.batches)
    /\ d[Len(s)] <= b /\ n.parts = Run(d[Len(s)], b)

\* t is s and n.
Extends(t, n, b, s, d) ==
    /\ t \in Seq(Nodes) /\ Len(t) = Len(s) + 1 /\ t[Len(s) + 1] = n
    /\ \A i \in 1..Len(s) : t[i] = s[i]
    /\ \E e \in Cuts(t) : Tile(t, e) /\ e[0] = d[0] /\ e[Len(t)] = b

LEMMA TileAppend ==
    ASSUME NEW s, NEW d, NEW n, NEW b, Follows(n, b, s, d), Len(plan.batches) \in Nat,
           NEW t, t = Append(s, n)
    PROVE  Extends(t, n, b, s, d)
<1>0. /\ s \in Seq(Nodes) /\ d \in Cuts(s) /\ Tile(s, d)
      /\ n \in Nodes /\ b \in 0..Len(plan.batches)
      /\ d[Len(s)] <= b /\ n.parts = Run(d[Len(s)], b)
  BY DEF Follows
<1> DEFINE L == Len(s)
<1>1. L \in Nat
  BY <1>0, LenProperties
<1>2. /\ t \in Seq(Nodes) /\ Len(t) = L + 1 /\ t[L + 1] = n
      /\ \A i \in 1..L : t[i] = s[i]
  BY <1>0, AppendProperties
<1> HIDE DEF L
<1>3. PICK e : e = [i \in 0..(L + 1) |-> IF i = L + 1 THEN b ELSE d[i]]
  OBVIOUS
<1>4. d \in [0..L -> 0..Len(plan.batches)]
  BY <1>0 DEF Cuts, L
<1>5. /\ e \in [0..(L + 1) -> 0..Len(plan.batches)] /\ e[0] = d[0] /\ e[L + 1] = b
      /\ \A i \in 0..L : e[i] = d[i]
  <2>1. \A i \in 0..(L + 1) : i = L + 1 \/ i \in 0..L
    BY <1>1
  <2>2. 0 \in 0..L /\ L + 1 \in 0..(L + 1) /\ \A i \in 0..L : i # L + 1 /\ i \in 0..(L + 1)
    BY <1>1
  <2> QED
    BY <1>0, <1>3, <1>4, <2>1, <2>2
<1>6. e \in Cuts(t)
  BY <1>2, <1>5 DEF Cuts
<1>7. Tile(t, e)
  <2>1. ASSUME NEW i \in 1..(L + 1)
        PROVE  e[i - 1] <= e[i] /\ t[i].parts = Run(e[i - 1], e[i])
    <3>1. CASE i = L + 1
      <4>1. i - 1 = L /\ L \in 0..L
        BY <1>1, <3>1
      <4>2. e[i - 1] = d[L] /\ e[i] = b /\ t[i] = n
        BY <1>2, <1>5, <3>1, <4>1
      <4> QED
        BY <1>0, <4>2 DEF L
    <3>2. CASE i # L + 1
      <4>1. i \in 1..L /\ i \in 0..L /\ i - 1 \in 0..L
        BY <1>1, <3>2
      <4>2. e[i - 1] = d[i - 1] /\ e[i] = d[i] /\ t[i] = s[i]
        BY <1>2, <1>5, <4>1
      <4>3. d[i - 1] <= d[i] /\ s[i].parts = Run(d[i - 1], d[i])
        BY <1>0, <4>1 DEF Tile, L
      <4> QED
        BY <4>2, <4>3
    <3> QED
      BY <3>1, <3>2
  <2> QED
    BY <1>2, <2>1 DEF Tile
<1> QED
  BY <1>2, <1>5, <1>6, <1>7 DEF L, Extends

LEMMA GroupJob ==
    ASSUME TypeOK, NEW group \in Seq(Nodes), NEW step \in Steps, NEW r,
           r = MergeJob(group, step), PartsOf(group) \in Seq(1..Len(Rules))
    PROVE  /\ r \in Jobs /\ r.step = step /\ r.parts = PartsOf(group)
           /\ r.told = Relevant(plan.cross, ScopeOf(r.parts))
           /\ \A i \in 1..Len(group) : group[i].told \subseteq r.inherits
<1>1. DOMAIN group = 1..Len(group) /\ \A i \in 1..Len(group) : group[i] \in Nodes
  BY LenProperties, ElementOfSeq
<1>2. /\ r.step = step /\ r.parts = PartsOf(group) /\ r.told = ToldTo(group)
      /\ r.inherits = UNION {group[i].told : i \in DOMAIN group}
  BY MergeJobFacts
<1>3. r.told = Relevant(plan.cross, ScopeOf(r.parts))
  BY <1>2 DEF ToldTo
<1>4. r.told \in SUBSET Entries
  BY <1>3 DEF TypeOK, Relevant
<1>5. \A i \in 1..Len(group) : group[i].told \in SUBSET Entries
  BY <1>1 DEF Nodes
<1>6. r.inherits \in SUBSET Entries /\ \A i \in 1..Len(group) : group[i].told \subseteq r.inherits
  BY <1>1, <1>2, <1>5
<1>7. r \in Jobs
  BY <1>2, <1>4, <1>6, MergeJobFacts
<1> QED
  BY <1>2, <1>3, <1>6, <1>7

LEMMA StartLevelCase ==
    ASSUME ReduceInv, StartLevel
    PROVE  ReduceInv'
<1> DEFINE B == Len(plan.batches)
<1>1. /\ pc = "level" /\ cur' = 1 /\ merged' = <<>>
      /\ UNCHANGED <<bytes, defers, store, hash, plan, replies, calls, firstError, nodes, level,
                     outcome, asked, faults>>
      /\ \/ Len(nodes) = 1 /\ pc' = "final" /\ job' = job
         \/ Len(nodes) # 1 /\ pc' = "call" /\ job' = MergeJob(nodes, <<level, 0>>)
         \/ Len(nodes) # 1 /\ pc' = "pair" /\ job' = job
  BY DEF StartLevel, Go, input, counters
<1>2. /\ InMerge /\ TypeOK /\ LevelInv /\ MergeInv /\ MergeTold /\ InMerge'
      /\ pc \notin {"partition", "collect", "done"}
  BY <1>1 DEF InMerge, InMergeCall, ReduceInv, MergeOK
<1>3. /\ cur = 1 /\ merged = <<>> /\ Len(nodes) \in Nat \ {0} /\ Len(merged) = 0
      /\ Len(nodes) = 1 => Rooted(nodes[1])
      /\ Len(nodes) > 1 => Fresh(0)
  BY <1>1, <1>2, CutFacts, EmptySeq DEF LevelInv
<1>4. PICK c \in Cuts(nodes), d \in Cuts(merged) : Tiling(c, d)
  BY <1>2, CutFacts
<1>18. pc' # "final" => Len(nodes) > 1
  <2>1. \A n \in Nat \ {0} : n = 1 \/ n > 1
    OBVIOUS
  <2>2. Len(nodes) = 1 \/ Len(nodes) > 1
    BY <1>3, <2>1
  <2> QED
    BY <1>1, <2>2, Zenon
<1>5. B \in 2..Len(Rules) /\ Len(Rules) \in Nat
  BY <1>2, Collected
<1>6. PartsOf(nodes) = Run(0, B) /\ PartsOf(nodes) \in Seq(1..Len(Rules))
  <2>1. nodes \in Seq(Nodes) /\ Len(nodes) # 0
    BY <1>2, <1>3 DEF TypeOK
  <2>2. c \in [0..Len(nodes) -> Nat]
    BY <1>5 DEF Cuts
  <2>3. Tile(nodes, c) /\ c[0] = 0 /\ c[Len(nodes)] = B
    BY <1>4 DEF Tiling
  <2>4. PartsOf(nodes) = Run(0, B)
    BY <2>1, <2>2, <2>3, PartsOfTile
  <2>5. 0 \in 0..Len(Rules) /\ B \in 0..Len(Rules) /\ 0 <= B
    BY <1>5
  <2>6. Run(0, B) \in Seq(1..Len(Rules))
    BY <2>5, RunInBatches
  <2> QED
    BY <2>4, <2>6
<1>7. pc' = "call" => /\ job' \in Jobs /\ job'.step = <<level, 0>> /\ job'.parts = Run(0, B)
                      /\ job'.told = Relevant(plan.cross, ScopeOf(job'.parts))
                      /\ \A i \in 1..Len(nodes) : nodes[i].told \subseteq job'.inherits
  <2>1. <<level, 0>> \in Steps /\ nodes \in Seq(Nodes)
    BY <1>2, <1>5 DEF TypeOK, Steps
  <2> QED
    BY <1>1, <1>2, <1>6, <2>1, GroupJob
<1>8. TypeOK'
  <2>1. job' \in Jobs /\ merged' \in Seq(Nodes) /\ cur' \in 1..Len(Rules) + 1
    BY <1>1, <1>2, <1>5, <1>7, EmptySeq DEF TypeOK
  <2> QED
    BY <1>1, <1>2, <2>1 DEF TypeOK
<1>9. PlanInv' /\ OutcomeInv' /\ Calling' /\ RootSpeaksForAll'
  BY <1>1, <1>2, Onward
<1>10. StoreInv'
  BY <1>1 DEF ReduceInv, StoreInv
<1>11. FoldOK'
  BY <1>1 DEF FoldOK, FoldInv, FoldTold, InFold
<1>12. MergeInv'
  BY <1>1, <1>2, <1>3 DEF MergeInv
<1>13. Tiled'
  <2>1. InMergeCall' => job'.parts = Run(0, B) /\ job'.step[2] = 0
    BY <1>1, <1>7 DEF InMergeCall
  <2> QED
    BY <1>1, <1>3, <1>4, <2>1, TilesStay
<1>14. MergeTold'
  BY <1>1, <1>2, <1>3 DEF MergeTold, MergeHeard
<1>15. LevelInv'
  BY <1>1, <1>3 DEF LevelInv, Rooted
<1>16. PairInv'
  <2>1. ASSUME pc' = "pair" PROVE Len(nodes) > 1 /\ Fresh(1)
    <3>1. Len(nodes) > 1
      BY <1>18, <2>1
    <3> QED
      BY <1>3, <3>1 DEF Fresh
  <2>2. Len(merged') = 0 /\ Paired' /\ ~(Len(merged') = 1)
    <3>1. Len(merged') = 0
      BY <1>1, <1>3
    <3>2. \A n : n = 0 => ~(n = 1) /\ 2 * n + 1 = 1
      OBVIOUS
    <3>3. cur' = 2 * Len(merged') + 1
      BY <1>1, <3>1, <3>2
    <3> QED
      BY <3>1, <3>2, <3>3 DEF Paired
  <2>3. pc' = "pair" => Fresh(Len(merged) + 1)'
    BY <1>1, <1>3, <2>1 DEF Fresh
  <2> QED
    BY <1>1, <2>1, <2>2, <2>3 DEF PairInv
<1>17. JobInv'
  <2>1. ASSUME pc' = "call" PROVE JobInv'
    <3>1. Len(nodes) > 1
      BY <1>18, <2>1
    <3>2. calls[<<level, 0>>] = 0
      BY <1>2, <1>3, <1>5, <3>1 DEF Fresh, TypeOK
    <3>3. FlatJob'
      BY <1>1, <1>7, <2>1 DEF FlatJob
    <3>4. \A e \in store \cap plan.cross :
             e.cites \subseteq ScopeOf(job'.parts) => e \in job'.told
      BY <1>7, <2>1 DEF Relevant
    <3>5. ScopeOf(job.parts)' = ScopeOf(job'.parts)
      <4>1. PICK parts : parts = job'.parts
        OBVIOUS
      <4>2. ScopeOf(job.parts)' = ScopeOf(parts)
        BY <1>1, <4>1 DEF ScopeOf
      <4> QED
        BY <4>1, <4>2
    <3> QED
      BY <1>1, <1>7, <2>1, <3>1, <3>2, <3>3, <3>4, <3>5 DEF JobInv
  <2>2. pc' # "call" => ~InMergeCall'
    BY <1>1 DEF InMergeCall
  <2> QED
    BY <2>1, <2>2 DEF JobInv
<1> QED
  BY <1>8, <1>9, <1>10, <1>11, <1>12, <1>13, <1>14, <1>15, <1>16, <1>17
  DEF ReduceInv, MergeOK, TileInv

--------------------------------------------------------------------------------
(* A pairwise level. *)

\* What a pairwise level knows of itself.
LEMMA PairFacts ==
    ASSUME ReduceInv, pc = "pair"
    PROVE  /\ InMerge /\ ~InMergeCall /\ TypeOK /\ MergeTold
           /\ Len(nodes) \in Nat /\ Len(nodes) > 1 /\ Len(merged) \in Nat
           /\ cur \in 1..(Len(nodes) + 1) /\ level \in 1..Len(Rules)
           /\ level + Len(nodes) <= Len(plan.batches) + 1
           /\ Len(plan.batches) \in 2..Len(Rules) /\ Len(Rules) \in Nat
           /\ cur <= Len(nodes) => cur = 2 * Len(merged) + 1
           /\ cur = 2 * Len(merged) + 1 \/ cur = 2 * Len(merged)
           /\ Fresh(Len(merged) + 1)
           /\ Len(merged) = 1 /\ cur > Len(nodes) => Rooted(merged[1])
           /\ \E c \in Cuts(nodes), d \in Cuts(merged) : Tiling(c, d)
<1>1. InMerge /\ ~InMergeCall /\ TypeOK /\ MergeTold /\ PairInv /\ MergeInv
  BY DEF InMerge, InMergeCall, ReduceInv, MergeOK
<1>2. /\ Len(nodes) \in Nat /\ Len(merged) \in Nat /\ cur \in 1..(Len(nodes) + 1)
      /\ \E c \in Cuts(nodes), d \in Cuts(merged) : Tiling(c, d)
  BY <1>1, CutFacts
<1>3. Len(plan.batches) \in 2..Len(Rules) /\ Len(Rules) \in Nat
  BY Collected
<1>4. Paired /\ Len(nodes) > 1 /\ Fresh(Len(merged) + 1)
      /\ (Len(merged) = 1 /\ cur > Len(nodes) => Rooted(merged[1]))
  BY <1>1 DEF PairInv
<1>5. cur <= Len(nodes) => cur = 2 * Len(merged) + 1
  BY <1>2, <1>4 DEF Paired
<1>6. level \in 1..Len(Rules) /\ level + Len(nodes) <= Len(plan.batches) + 1
  BY <1>1 DEF TypeOK, MergeInv
<1> QED
  BY <1>1, <1>2, <1>3, <1>4, <1>5, <1>6 DEF Paired

LEMMA MergePairCase ==
    ASSUME ReduceInv, MergePair
    PROVE  ReduceInv'
<1> DEFINE B == Len(plan.batches)
           m == Len(merged)
<1>1. /\ pc = "pair" /\ cur < Len(nodes)
      /\ UNCHANGED <<bytes, defers, store, hash, plan, replies, calls, cur, firstError, nodes,
                     merged, level, asked, faults>>
      /\ \/ /\ pc' = "call" /\ outcome' = outcome
            /\ job' = MergeJob(SubSeq(nodes, cur, cur + 1), <<level, (cur + 1) \div 2>>)
         \/ pc' = "done" /\ outcome' = "invalid-output" /\ job' = job
  BY DEF MergePair, Go, End, input, folding, counters
<1>2. /\ InMerge /\ TypeOK /\ MergeTold /\ Len(nodes) \in Nat /\ Len(nodes) > 1 /\ m \in Nat
      /\ cur \in 1..(Len(nodes) + 1) /\ level \in 1..Len(Rules) /\ level + Len(nodes) <= B + 1
      /\ B \in 2..Len(Rules) /\ Len(Rules) \in Nat /\ Fresh(m + 1)
      /\ cur <= Len(nodes) => cur = 2 * m + 1
  BY <1>1, PairFacts
<1>3. CASE pc' = "done"
  <2>1. TypeOK'
    BY <1>1, <1>2, <1>3 DEF TypeOK, Outcomes, Errors
  <2> QED
    BY <1>1, <1>3, <2>1, Stops
<1>4. CASE pc' = "call"
  <2>1. PICK c \in Cuts(nodes), d \in Cuts(merged) : Tiling(c, d)
    BY <1>1, PairFacts
  <2>2. cur = 2 * m + 1 /\ (cur + 1) \div 2 = m + 1 /\ cur \in 1..Len(nodes)
        /\ cur + 1 \in 1..Len(nodes) /\ m + 1 \in 1..Len(Rules)
    BY <1>1, <1>2
  <2>3. PICK pair : pair = SubSeq(nodes, cur, cur + 1)
    OBVIOUS
  <2>4. /\ pair \in Seq(Nodes) /\ Len(pair) = 2
        /\ pair[1] = nodes[cur] /\ pair[2] = nodes[cur + 1]
    <3>1. nodes \in Seq(Nodes) /\ cur + 1 - cur + 1 = 2 /\ cur <= (cur + 1) + 1
          /\ cur + 1 - 1 = cur /\ cur + 2 - 1 = cur + 1
      BY <1>2, <2>2 DEF TypeOK
    <3>2. \A i \in cur..(cur + 1) : i \in 1..Len(nodes) /\ nodes[i] \in Nodes
      BY <1>2, <2>2, <3>1, ElementOfSeq
    <3> QED
      BY <1>2, <2>2, <2>3, <3>1, <3>2
  <2>5. \A i \in 0..Len(nodes) : c[i] \in 0..B /\ c[i] \in Nat
    BY <1>2, CutFacts
  <2>6. /\ Tile(nodes, c) /\ cur - 1 \in 0..Len(nodes) /\ cur + 1 \in 0..Len(nodes)
        /\ cur \in 0..Len(nodes)
    BY <1>2, <2>1, <2>2 DEF Tiling
  <2>7. /\ c[cur - 1] <= c[cur] /\ nodes[cur].parts = Run(c[cur - 1], c[cur])
        /\ c[cur] <= c[cur + 1] /\ nodes[cur + 1].parts = Run(c[cur], c[cur + 1])
    <3>1. (cur + 1) - 1 = cur
      BY <2>2
    <3> QED
      BY <2>2, <2>6, <3>1 DEF Tile
  <2>8. c[cur - 1] <= c[cur + 1] /\ PartsOf(pair) = Run(c[cur - 1], c[cur + 1])
    <3>1. PICK cut : cut = [i \in 0..2 |-> IF i = 0 THEN c[cur - 1]
                                           ELSE IF i = 1 THEN c[cur] ELSE c[cur + 1]]
      OBVIOUS
    <3>2. cut \in [0..2 -> Nat] /\ cut[0] = c[cur - 1] /\ cut[1] = c[cur] /\ cut[2] = c[cur + 1]
      BY <2>5, <2>6, <3>1
    <3>3. Tile(pair, cut)
      <4>1. \A i \in 1..2 : i = 1 \/ i = 2
        OBVIOUS
      <4> QED
        BY <2>4, <2>7, <3>2, <4>1 DEF Tile
    <3>4. Len(pair) # 0
      BY <2>4
    <3>5. cut \in [0..Len(pair) -> Nat]
      BY <2>4, <3>2
    <3> QED
      BY <2>4, <3>2, <3>3, <3>4, <3>5, PartsOfTile
  <2>9. PartsOf(pair) \in Seq(1..Len(Rules))
    <3>1. c[cur - 1] \in 0..Len(Rules) /\ c[cur + 1] \in 0..Len(Rules)
      BY <1>2, <2>5, <2>6
    <3> QED
      BY <2>8, <3>1, RunInBatches
  <2>10. <<level, m + 1>> \in Steps
    BY <1>2, <2>2 DEF Steps
  <2>11. job' = MergeJob(pair, <<level, m + 1>>)
    BY <1>1, <1>4, <2>2, <2>3
  <2>12. /\ job' \in Jobs /\ job'.step = <<level, m + 1>> /\ job'.parts = PartsOf(pair)
         /\ job'.told = Relevant(plan.cross, ScopeOf(job'.parts))
         /\ \A i \in 1..Len(pair) : pair[i].told \subseteq job'.inherits
    BY <1>2, <2>4, <2>9, <2>10, <2>11, GroupJob
  <2>13. TypeOK'
    BY <1>1, <1>2, <1>4, <2>12 DEF TypeOK
  <2>14. PlanInv' /\ OutcomeInv' /\ Calling' /\ RootSpeaksForAll' /\ outcome' = outcome
    BY <1>1, <1>4, Onward
  <2>15. StoreInv' /\ FoldOK' /\ LevelInv' /\ PairInv'
    BY <1>1, <1>4 DEF ReduceInv, StoreInv, FoldOK, FoldInv, FoldTold, InFold, LevelInv, PairInv
  <2>16. MergeInv'
    BY <1>1, <1>2 DEF MergeInv
  <2>17. Tiled'
    <3>1. ~(job'.step[2] = 0)
      BY <1>2, <2>12
    <3> QED
      BY <1>1, <2>1, <2>8, <2>12, <3>1, TilesStay
  <2>18. MergeTold'
    BY <1>1, <1>2 DEF MergeTold, MergeHeard
  <2>19. PairJob'
    <3>1. Fresh(m + 2)'
      <4>1. \A j \in Nat : j >= m + 2 => j >= m + 1
        BY <1>2
      <4>2. 0..Len(Rules) \subseteq Nat
        BY <1>2
      <4> QED
        BY <1>1, <1>2, <4>1, <4>2 DEF Fresh
    <3>2. nodes[cur].told \cup nodes[cur + 1].told \subseteq job'.inherits
      BY <2>4, <2>12
    <3> QED
      BY <1>1, <2>2, <2>12, <3>1, <3>2 DEF PairJob
  <2>20. JobInv'
    <3>1. calls[<<level, m + 1>>] = 0
      BY <1>2, <2>2 DEF Fresh
    <3>2. \A e \in store \cap plan.cross :
             e.cites \subseteq ScopeOf(job'.parts) => e \in job'.told
      BY <2>12 DEF Relevant
    <3>3. ScopeOf(job.parts)' = ScopeOf(job'.parts)
      BY <1>1 DEF ScopeOf
    <3> QED
      BY <1>1, <1>2, <1>4, <2>12, <2>19, <3>1, <3>2, <3>3 DEF JobInv
  <2> QED
    BY <2>13, <2>14, <2>15, <2>16, <2>17, <2>18, <2>20 DEF ReduceInv, MergeOK, TileInv
<1> QED
  BY <1>1, <1>3, <1>4

LEMMA CarryOddNodeCase ==
    ASSUME ReduceInv, CarryOddNode
    PROVE  ReduceInv'
<1> DEFINE B == Len(plan.batches)
           m == Len(merged)
<1>1. /\ pc = "pair" /\ cur = Len(nodes) /\ merged' = Append(merged, nodes[cur])
      /\ cur' = cur + 1 /\ pc' = "pair" /\ outcome' = outcome
      /\ UNCHANGED <<bytes, defers, store, hash, plan, replies, calls, firstError, job, nodes,
                     level, asked, faults>>
  BY DEF CarryOddNode, Go, input, counters
<1>2. /\ InMerge /\ TypeOK /\ MergeTold /\ Len(nodes) \in Nat /\ Len(nodes) > 1 /\ m \in Nat
      /\ level + Len(nodes) <= B + 1 /\ level \in 1..Len(Rules)
      /\ B \in 2..Len(Rules) /\ Len(Rules) \in Nat /\ Fresh(m + 1)
      /\ cur <= Len(nodes) => cur = 2 * m + 1
  BY <1>1, PairFacts
<1>3. cur = 2 * m + 1 /\ cur \in 1..Len(nodes) /\ m >= 1 /\ cur' = 2 * (m + 1)
  BY <1>1, <1>2
<1>4. PICK c \in Cuts(nodes), d \in Cuts(merged) : Tiling(c, d)
  BY <1>1, PairFacts
<1>5. /\ Tile(nodes, c) /\ c[0] = 0 /\ c[Len(nodes)] = B
      /\ Tile(merged, d) /\ d[0] = 0 /\ d[m] = c[cur - 1]
  BY <1>4 DEF Tiling
<1>6. /\ c[cur - 1] <= c[cur] /\ nodes[cur].parts = Run(c[cur - 1], c[cur])
      /\ c[cur] \in 0..B /\ nodes[cur] \in Nodes /\ merged \in Seq(Nodes)
  <2>1. cur \in 0..Len(nodes) /\ nodes \in Seq(Nodes) /\ merged \in Seq(Nodes)
    BY <1>2, <1>3 DEF TypeOK
  <2>2. c[cur] \in 0..B
    BY <1>2, <2>1, CutFacts
  <2>3. c[cur - 1] <= c[cur] /\ nodes[cur].parts = Run(c[cur - 1], c[cur])
    BY <1>3, <1>5 DEF Tile
  <2> QED
    BY <1>3, <2>1, <2>2, <2>3, ElementOfSeq
<1>7. /\ merged' \in Seq(Nodes) /\ Len(merged') = m + 1 /\ merged'[m + 1] = nodes[cur]
      /\ \A i \in 1..m : merged'[i] = merged[i]
      /\ \E e \in Cuts(merged') : Tile(merged', e) /\ e[0] = d[0] /\ e[m + 1] = c[cur]
  <2>1. B \in Nat
    BY <1>2
  <2>2. PICK s, n, b, t : s = merged /\ n = nodes[cur] /\ b = c[cur] /\ t = merged'
    OBVIOUS
  <2>3. Follows(n, b, s, d) /\ t = Append(s, n)
    BY <1>1, <1>5, <1>6, <2>2 DEF Follows
  <2>4. Extends(t, n, b, s, d)
    BY <2>1, <2>3, TileAppend
  <2> QED
    BY <2>2, <2>4 DEF Extends
<1>8. TypeOK'
  <2>1. cur' \in 1..Len(Rules) + 1
    BY <1>1, <1>2, <1>3
  <2> QED
    BY <1>1, <1>2, <1>7, <2>1 DEF TypeOK
<1>9. PlanInv' /\ OutcomeInv' /\ Calling' /\ RootSpeaksForAll'
  BY <1>1, Onward
<1>10. StoreInv' /\ FoldOK' /\ LevelInv' /\ JobInv'
  BY <1>1 DEF ReduceInv, StoreInv, FoldOK, FoldInv, FoldTold, InFold, LevelInv, JobInv,
       InMergeCall
<1>11. MergeInv'
  BY <1>1, <1>2 DEF MergeInv
<1>12. Tiled'
  <2>1. PICK e \in Cuts(merged') : Tile(merged', e) /\ e[0] = 0 /\ e[m + 1] = c[cur]
    BY <1>5, <1>7
  <2>2. cur' - 1 = cur /\ ~InMergeCall'
    BY <1>1, <1>3 DEF InMergeCall
  <2>3. Tiling(c, e)'
    BY <1>1, <1>5, <1>7, <2>1, <2>2 DEF Tiling
  <2>4. c \in Cuts(nodes)' /\ e \in Cuts(merged)'
    BY <1>1, <2>1 DEF Cuts
  <2> QED
    BY <2>3, <2>4 DEF Tiled
<1>13. PairInv'
  <2>1. Paired'
    BY <1>3, <1>7, <1>1 DEF Paired
  <2>2. Len(merged') = m + 1 /\ ~(m + 1 = 1)
    BY <1>3, <1>7
  <2>3. Fresh(Len(merged) + 1)'
    <3>1. \A j \in Nat : j >= (m + 1) + 1 => j >= m + 1
      BY <1>2
    <3>2. 0..Len(Rules) \subseteq Nat
      BY <1>2
    <3> QED
      BY <1>1, <1>2, <2>2, <3>1, <3>2 DEF Fresh
  <2> QED
    BY <1>1, <1>2, <2>1, <2>2, <2>3 DEF PairInv
<1>14. MergeTold'
  <2>1. ASSUME NEW e \in store PROVE MergeHeard(e)'
    <3>1. MergeHeard(e)
      BY <1>2, <2>1 DEF MergeTold
    <3>2. CASE e \in plan.cross
      BY <1>1, <3>2 DEF MergeHeard
    <3>3. CASE \E i \in 1..Len(nodes) : i >= cur /\ e \in nodes[i].told
      <4>1. e \in nodes[cur].told
        BY <1>1, <1>2, <3>3
      <4>2. m + 1 \in 1..Len(merged') /\ e \in merged'[m + 1].told
        BY <1>2, <1>7, <4>1
      <4> QED
        BY <4>2 DEF MergeHeard
    <3>4. CASE \E i \in 1..m : e \in merged[i].told
      <4>1. PICK i \in 1..m : e \in merged[i].told
        BY <3>4
      <4>2. i \in 1..Len(merged') /\ e \in merged'[i].told
        BY <1>2, <1>7, <4>1
      <4> QED
        BY <4>2 DEF MergeHeard
    <3> QED
      BY <1>1, <3>1, <3>2, <3>3, <3>4 DEF MergeHeard
  <2> QED
    BY <1>1, <2>1 DEF MergeTold
<1> QED
  BY <1>8, <1>9, <1>10, <1>11, <1>12, <1>13, <1>14 DEF ReduceInv, MergeOK, TileInv

--------------------------------------------------------------------------------
(* The end of a level, and of the composition. *)

LEMMA EndLevelCase ==
    ASSUME ReduceInv, EndLevel
    PROVE  ReduceInv'
<1> DEFINE B == Len(plan.batches)
<1>1. /\ pc = "pair" /\ cur > Len(nodes) /\ nodes' = merged /\ merged' = <<>>
      /\ level' = level + 1 /\ cur' = 1 /\ pc' = "level" /\ outcome' = outcome
      /\ UNCHANGED <<bytes, defers, store, hash, plan, replies, calls, firstError, job, asked,
                     faults>>
  BY DEF EndLevel, Go, input, counters
<1>2. /\ TypeOK /\ MergeTold /\ InMerge /\ ~InMergeCall'
      /\ Len(nodes) \in Nat /\ Len(nodes) > 1 /\ Len(merged) \in Nat
      /\ cur \in 1..(Len(nodes) + 1) /\ level \in 1..Len(Rules) /\ level + Len(nodes) <= B + 1
      /\ B \in 2..Len(Rules) /\ Len(Rules) \in Nat /\ Fresh(Len(merged) + 1)
      /\ cur = 2 * Len(merged) + 1 \/ cur = 2 * Len(merged)
      /\ Len(merged) = 1 => Rooted(merged[1])
  BY <1>1, PairFacts DEF InMergeCall
<1>3. /\ cur = Len(nodes) + 1 /\ cur - 1 = Len(nodes)
      /\ Len(merged) >= 1 /\ Len(merged) + 1 <= Len(nodes) /\ level + 1 \in 1..Len(Rules)
      /\ (level + 1) + Len(merged) <= B + 1
  <2>1. \A n, m \in Nat : n > 1 /\ (n + 1 = 2 * m + 1 \/ n + 1 = 2 * m) => m >= 1 /\ m + 1 <= n
    OBVIOUS
  <2>2. cur = Len(nodes) + 1 /\ cur - 1 = Len(nodes)
    BY <1>1, <1>2
  <2>3. Len(merged) >= 1 /\ Len(merged) + 1 <= Len(nodes)
    BY <1>2, <2>1, <2>2
  <2>4. \A n, m, l, b, r \in Nat : /\ l + n <= b + 1 /\ n > 1 /\ m + 1 <= n /\ b <= r
                                   => l + 1 <= r /\ (l + 1) + m <= b + 1
    OBVIOUS
  <2>5. level \in Nat /\ B \in Nat /\ B <= Len(Rules)
    BY <1>2
  <2>6. level + 1 <= Len(Rules) /\ (level + 1) + Len(merged) <= B + 1
    BY <1>2, <2>3, <2>4, <2>5
  <2> QED
    BY <1>2, <2>2, <2>3, <2>5, <2>6
<1>4. TypeOK'
  BY <1>1, <1>2, <1>3, EmptySeq DEF TypeOK
<1>5. PlanInv' /\ OutcomeInv' /\ Calling' /\ RootSpeaksForAll'
  BY <1>1, Onward
<1>6. StoreInv' /\ FoldOK' /\ PairInv' /\ JobInv'
  BY <1>1, <1>2 DEF ReduceInv, StoreInv, FoldOK, FoldInv, FoldTold, InFold, PairInv, JobInv
<1>7. MergeInv'
  BY <1>1, <1>2, <1>3 DEF MergeInv
<1>8. Tiled'
  <2>1. PICK c \in Cuts(nodes), d \in Cuts(merged) : Tiling(c, d)
    BY <1>1, PairFacts
  <2>2. /\ c[Len(nodes)] = B /\ Tile(merged, d) /\ d[0] = 0 /\ d[Len(merged)] = c[cur - 1]
    BY <2>1 DEF Tiling
  <2>3. PICK e : e = [i \in 0..0 |-> 0]
    OBVIOUS
  <2>4. Len(<<>>) = 0 /\ e \in [0..0 -> 0..B] /\ e[0] = 0
    BY <1>2, <2>3, EmptySeq
  <2>5. d \in Cuts(nodes)' /\ e \in Cuts(merged)'
    BY <1>1, <2>4 DEF Cuts
  <2>6. Tile(merged, e)'
    BY <1>1, <2>4 DEF Tile
  <2>7. cur' - 1 = 0
    BY <1>1
  <2>8. Tiling(d, e)'
    BY <1>1, <1>2, <1>3, <2>2, <2>4, <2>6, <2>7 DEF Tiling
  <2> QED
    BY <2>5, <2>8 DEF Tiled
<1>9. LevelInv'
  <2>1. Len(nodes') = 1 => Rooted(nodes[1])'
    BY <1>1, <1>2 DEF Rooted
  <2>2. Fresh(0)'
    <3>1. \A l \in 1..Len(Rules), j \in 0..Len(Rules) :
             l > level + 1 \/ (l = level + 1 /\ j >= 0) => l > level
      BY <1>2
    <3> QED
      BY <1>1, <1>2, <3>1 DEF Fresh
  <2> QED
    BY <1>1, <2>1, <2>2 DEF LevelInv
<1>10. MergeTold'
  <2>1. ASSUME NEW e \in store PROVE MergeHeard(e)'
    <3>1. MergeHeard(e) /\ pc \notin {"ask", "retry", "place"}
      BY <1>1, <1>2, <2>1 DEF MergeTold
    <3>2. ~(\E i \in 1..Len(nodes) : i >= cur /\ e \in nodes[i].told)
      BY <1>1, <1>2
    <3>3. e \in plan.cross \/ \E i \in 1..Len(merged) : e \in merged[i].told
      BY <3>1, <3>2 DEF MergeHeard
    <3>4. \A i \in 1..Len(merged) : i >= 1
      BY <1>2
    <3> QED
      BY <1>1, <3>3, <3>4 DEF MergeHeard
  <2> QED
    BY <1>1, <2>1 DEF MergeTold
<1> QED
  BY <1>4, <1>5, <1>6, <1>7, <1>8, <1>9, <1>10 DEF ReduceInv, MergeOK, TileInv

LEMMA FinishCase ==
    ASSUME ReduceInv, Finish
    PROVE  ReduceInv'
<1>1. /\ pc = "final" /\ pc' = "done" /\ outcome' \in {"composed", "invalid-output"}
      /\ UNCHANGED <<bytes, defers, store, hash, plan, replies, calls, cur, firstError, job,
                     nodes, merged, level, asked, faults>>
  BY DEF Finish, End, input, folding, counters
<1>2. InMerge /\ TypeOK /\ LevelInv
  BY <1>1 DEF InMerge, ReduceInv, MergeOK
<1>3. TypeOK'
  BY <1>1, <1>2 DEF TypeOK, Outcomes, Errors
<1>4. Planned /\ Len(plan.batches) \in Nat /\ Batches = 1..Len(plan.batches)
  BY <1>1, Collected
<1>5. Len(nodes) = 1 /\ Rooted(nodes[1])
  BY <1>1, <1>2 DEF LevelInv
<1>6. nodes[1].parts = [i \in Batches |-> i]
  <2>1. PICK c \in Cuts(nodes), d \in Cuts(merged) : Tiling(c, d)
    BY <1>2, CutFacts
  <2>2. nodes[1].parts = Run(0, Len(plan.batches))
    BY <1>5, <2>1 DEF Tiling, Tile
  <2>3. Len(plan.batches) - 0 = Len(plan.batches) /\ \A i \in 1..Len(plan.batches) : 0 + i = i
    BY <1>4
  <2>4. Run(0, Len(plan.batches)) = [i \in 1..Len(plan.batches) |-> i]
    BY <2>3 DEF Run
  <2> QED
    BY <1>4, <2>2, <2>4
<1>7. RootSpeaksForAll'
  BY <1>1, <1>5, <1>6 DEF RootSpeaksForAll, Rooted, Batches
<1> QED
  BY <1>1, <1>3, <1>4, <1>7, Stops

--------------------------------------------------------------------------------
(* A merged node is placed. *)

\* What is placed: a node of all that the call was told.
LEMMA PlaceFacts ==
    ASSUME ReduceInv, pc = "place"
    PROVE  /\ InMerge /\ InMergeCall /\ TypeOK /\ MergeTold /\ hash = store
           /\ Node \in Nodes /\ Node.parts = job.parts /\ Node.hash = store
           /\ job.inherits \subseteq Node.told /\ job.told \subseteq Node.told
           /\ \A e \in store : e \in plan.cross /\ e.cites \subseteq ScopeOf(job.parts)
                               => e \in Node.told
           /\ Len(nodes) \in Nat /\ Len(nodes) > 1 /\ Len(merged) \in Nat
           /\ cur \in 1..(Len(nodes) + 1) /\ level \in 1..Len(Rules)
           /\ level + Len(nodes) <= Len(plan.batches) + 1
           /\ Len(plan.batches) \in 2..Len(Rules) /\ Len(Rules) \in Nat
           /\ \E c \in Cuts(nodes), d \in Cuts(merged) : Tiling(c, d)
           /\ job.step[2] = 0 => FlatJob
           /\ job.step[2] # 0 => PairJob
<1>1. /\ InMerge /\ InMergeCall /\ TypeOK /\ MergeTold /\ JobInv /\ MergeInv
      /\ pc \notin {"ask", "retry", "done", "partition", "collect"}
  BY DEF InMerge, InMergeCall, ReduceInv, MergeOK
<1>2. hash = store
  BY DEF ReduceInv, StoreInv
<1>3. /\ Len(nodes) > 1 /\ job.size \in Bytes
      /\ \A e \in store \cap plan.cross :
            e.cites \subseteq ScopeOf(job.parts) => e \in job.told
      /\ FlatJob \/ PairJob
  BY <1>1 DEF JobInv
<1>4. /\ Len(nodes) \in Nat /\ Len(merged) \in Nat /\ cur \in 1..(Len(nodes) + 1)
      /\ \E c \in Cuts(nodes), d \in Cuts(merged) : Tiling(c, d)
  BY <1>1, CutFacts
<1>5. Len(plan.batches) \in 2..Len(Rules) /\ Len(Rules) \in Nat
  BY <1>1, Collected
<1>6. level \in 1..Len(Rules) /\ level + Len(nodes) <= Len(plan.batches) + 1
  BY <1>1 DEF TypeOK, MergeInv
<1>7. /\ Node \in Nodes /\ Node.parts = job.parts /\ Node.hash = hash
      /\ Node.told = job.told \cup job.inherits
  BY <1>1, <1>3, NodeFacts
<1>8. (FlatJob => job.step[2] = 0) /\ (PairJob => job.step[2] # 0)
  <2>1. FlatJob => job.step[2] = 0
    BY DEF FlatJob
  <2>2. ASSUME PairJob PROVE job.step[2] # 0
    <3>1. job.step[2] = Len(merged) + 1
      BY <2>2 DEF PairJob
    <3> QED
      BY <1>4, <3>1
  <2> QED
    BY <2>1, <2>2
<1>9. (job.step[2] = 0 => FlatJob) /\ (job.step[2] # 0 => PairJob)
  BY <1>3, <1>8
<1>10. \A e \in store : e \in plan.cross /\ e.cites \subseteq ScopeOf(job.parts)
                        => e \in Node.told
  BY <1>3, <1>7
<1> QED
  BY <1>1, <1>2, <1>3, <1>4, <1>5, <1>6, <1>7, <1>9, <1>10

LEMMA PlaceFlatCase ==
    ASSUME ReduceInv, PlaceMerged, job.step[2] = 0
    PROVE  ReduceInv'
<1> DEFINE B == Len(plan.batches)
<1>1. /\ pc = "place" /\ nodes' = <<Node>> /\ pc' = "level" /\ job' = NoJob /\ outcome' = outcome
      /\ UNCHANGED <<bytes, defers, store, hash, plan, replies, calls, cur, firstError, merged,
                     level, asked, faults>>
  BY DEF PlaceMerged, Go, input, counters
<1>2. /\ TypeOK /\ MergeTold /\ InMerge /\ InMergeCall /\ ~InMergeCall'
      /\ Node \in Nodes /\ Node.parts = job.parts /\ Node.hash = store /\ hash = store
      /\ job.inherits \subseteq Node.told /\ job.told \subseteq Node.told
      /\ Len(nodes) \in Nat /\ Len(nodes) > 1 /\ level \in 1..Len(Rules)
      /\ level + Len(nodes) <= B + 1 /\ B \in 2..Len(Rules) /\ Len(Rules) \in Nat
      /\ cur = 1 /\ merged = <<>> /\ Len(merged) = 0
      /\ \A i \in 1..Len(nodes) : nodes[i].told \subseteq job.inherits
  BY <1>1, PlaceFacts, EmptySeq DEF FlatJob, InMergeCall
<1>3. PICK c \in Cuts(nodes), d \in Cuts(merged) : Tiling(c, d)
  BY <1>1, PlaceFacts
<1>4. c[0] = 0 /\ d[0] = 0 /\ Tile(merged, d) /\ job.parts = Run(0, B)
  BY <1>2, <1>3 DEF Tiling
<1>5. ScopeOf(job.parts) = Fragments
  <2>1. pc \notin {"partition", "collect", "done"} /\ 0 \in 0..B /\ B \in 0..B
    BY <1>1, <1>2
  <2> QED
    BY <1>4, <2>1, RunScope
<1>6. PICK n : n = Node
  OBVIOUS
<1>7. nodes' = <<n>> /\ Len(nodes') = 1 /\ nodes'[1] = n /\ nodes' \in Seq(Nodes)
  BY <1>1, <1>2, <1>6
<1>8. store \subseteq n.told
  <2>1. ASSUME NEW e \in store PROVE e \in Node.told
    <3>1. MergeHeard(e) /\ e.cites \subseteq ScopeOf(job.parts)
      BY <1>2, <1>5, <2>1 DEF MergeTold, ReduceInv, StoreInv
    <3>2. e \in plan.cross => e \in Node.told
      BY <1>1, <2>1, <3>1, PlaceFacts
    <3>3. (\E i \in 1..Len(nodes) : i >= cur /\ e \in nodes[i].told) => e \in Node.told
      BY <1>2
    <3>4. ~(\E i \in 1..Len(merged) : e \in merged[i].told)
      BY <1>2
    <3>5. pc = "place" /\ pc \notin {"ask", "retry"}
      BY <1>1
    <3> QED
      BY <1>2, <3>1, <3>2, <3>3, <3>4, <3>5 DEF MergeHeard
  <2> QED
    BY <1>6, <2>1
<1>9. TypeOK'
  BY <1>1, <1>2, <1>7, NoJobFacts DEF TypeOK
<1>10. PlanInv' /\ OutcomeInv' /\ Calling' /\ RootSpeaksForAll'
  BY <1>1, Onward
<1>11. StoreInv' /\ FoldOK' /\ PairInv' /\ JobInv'
  BY <1>1, <1>2 DEF ReduceInv, StoreInv, FoldOK, FoldInv, FoldTold, InFold, PairInv, JobInv
<1>12. MergeInv'
  <2>1. level + 1 <= B + 1
    BY <1>2
  <2> QED
    BY <1>1, <1>2, <1>7, <2>1 DEF MergeInv
<1>13. Tiled'
  <2>1. PICK e : e = [i \in 0..1 |-> IF i = 0 THEN 0 ELSE B]
    OBVIOUS
  <2>2. e \in [0..1 -> 0..B] /\ e[0] = 0 /\ e[1] = B /\ 0 <= B
    BY <1>2, <2>1
  <2>3. e \in Cuts(nodes)' /\ d \in Cuts(merged)'
    BY <1>1, <1>7, <2>2 DEF Cuts
  <2>4. Tile(nodes, e)'
    <3>1. n.parts = Run(0, B)
      BY <1>2, <1>4, <1>6
    <3>2. 1..1 = {1} /\ 1 - 1 = 0
      OBVIOUS
    <3> QED
      BY <1>7, <2>2, <3>1, <3>2 DEF Tile
  <2>5. Tiling(e, d)'
    <3>1. cur' - 1 = 0 /\ d[Len(merged)] = 0
      BY <1>1, <1>2, <1>4
    <3> QED
      BY <1>1, <1>2, <1>4, <1>7, <2>2, <2>4, <3>1 DEF Tiling
  <2> QED
    BY <2>3, <2>5 DEF Tiled
<1>14. LevelInv'
  BY <1>1, <1>2, <1>6, <1>7, <1>8 DEF LevelInv, Rooted
<1>15. MergeTold'
  <2>1. 1 \in 1..Len(nodes') /\ 1 >= cur'
    BY <1>1, <1>2, <1>7
  <2> QED
    BY <1>1, <1>7, <1>8, <2>1 DEF MergeTold, MergeHeard
<1> QED
  BY <1>9, <1>10, <1>11, <1>12, <1>13, <1>14, <1>15 DEF ReduceInv, MergeOK, TileInv

LEMMA PlacePairCase ==
    ASSUME ReduceInv, PlaceMerged, job.step[2] # 0
    PROVE  ReduceInv'
<1> DEFINE B == Len(plan.batches)
           m == Len(merged)
<1>1. /\ pc = "place" /\ merged' = Append(merged, Node) /\ cur' = cur + 2 /\ pc' = "pair"
      /\ job' = NoJob /\ outcome' = outcome
      /\ UNCHANGED <<bytes, defers, store, hash, plan, replies, calls, firstError, nodes, level,
                     asked, faults>>
  BY DEF PlaceMerged, Go, input, counters
<1>2. /\ TypeOK /\ MergeTold /\ InMerge /\ InMergeCall /\ ~InMergeCall'
      /\ Node \in Nodes /\ Node.parts = job.parts /\ Node.hash = store /\ hash = store
      /\ job.inherits \subseteq Node.told /\ job.told \subseteq Node.told
      /\ Len(nodes) \in Nat /\ Len(nodes) > 1 /\ m \in Nat /\ level \in 1..Len(Rules)
      /\ level + Len(nodes) <= B + 1 /\ B \in 2..Len(Rules) /\ Len(Rules) \in Nat
  BY <1>1, PlaceFacts DEF InMergeCall
<1>3. /\ cur = 2 * m + 1 /\ cur < Len(nodes) /\ Fresh(m + 2)
      /\ nodes[cur].told \cup nodes[cur + 1].told \subseteq job.inherits
  BY <1>1, PlaceFacts DEF PairJob
<1>4. PICK c \in Cuts(nodes), d \in Cuts(merged) : Tiling(c, d)
  BY <1>1, PlaceFacts
<1>5. /\ Tile(nodes, c) /\ c[0] = 0 /\ c[Len(nodes)] = B
      /\ Tile(merged, d) /\ d[0] = 0 /\ d[m] = c[cur - 1]
      /\ job.parts = Run(c[cur - 1], c[cur + 1])
  BY <1>2, <1>4 DEF Tiling
<1>6. PICK n, b : n = Node /\ b = c[cur + 1]
  OBVIOUS
<1>7. /\ cur \in 1..Len(nodes) /\ cur + 1 \in 1..Len(nodes) /\ cur - 1 \in 0..Len(nodes)
      /\ cur \in 0..Len(nodes) /\ cur + 1 \in 0..Len(nodes) /\ (cur + 1) - 1 = cur
      /\ cur + 2 \in 1..(Len(nodes) + 1) /\ (cur + 2) - 1 = cur + 1
      /\ cur + 2 = 2 * (m + 1) + 1 /\ B \in Nat
  BY <1>2, <1>3
<1>8. c[cur - 1] <= b /\ b \in 0..B
  <2>1. \A i \in 0..Len(nodes) : c[i] \in 0..B
    BY <1>2, CutFacts
  <2>2. c[cur - 1] <= c[cur] /\ c[cur] <= c[cur + 1]
    BY <1>5, <1>7 DEF Tile
  <2>3. c[cur - 1] \in 0..B /\ c[cur] \in 0..B /\ c[cur + 1] \in 0..B
    BY <1>7, <2>1
  <2>4. \A x, y, z \in 0..B : x <= y /\ y <= z => x <= z
    BY <1>7
  <2>5. c[cur - 1] <= c[cur + 1]
    BY <2>2, <2>3, <2>4
  <2> QED
    BY <1>6, <2>3, <2>5
<1>9. PICK s, t : s = merged /\ t = merged'
  OBVIOUS
<1>10. Extends(t, n, b, s, d)
  <2>1. merged \in Seq(Nodes) /\ n.parts = Run(d[m], b) /\ d[m] <= b
    BY <1>2, <1>5, <1>6, <1>8 DEF TypeOK
  <2>2. Follows(n, b, s, d) /\ t = Append(s, n)
    BY <1>1, <1>2, <1>5, <1>6, <1>8, <1>9, <2>1 DEF Follows
  <2> QED
    BY <1>7, <2>2, TileAppend
<1>11. /\ merged' \in Seq(Nodes) /\ Len(merged') = m + 1 /\ merged'[m + 1] = n
       /\ \A i \in 1..m : merged'[i] = merged[i]
       /\ \E e \in Cuts(t) : Tile(t, e) /\ e[0] = 0 /\ e[m + 1] = b
  BY <1>5, <1>9, <1>10 DEF Extends
<1>12. \A i \in 1..Len(nodes) : i >= cur => i = cur \/ i = cur + 1 \/ i >= cur + 2
  BY <1>7
<1>13. TypeOK'
  <2>1. cur + 2 \in 1..(Len(Rules) + 1)
    BY <1>2, <1>7
  <2> QED
    BY <1>1, <1>2, <1>11, <2>1, NoJobFacts DEF TypeOK
<1>14. PlanInv' /\ OutcomeInv' /\ Calling' /\ RootSpeaksForAll'
  BY <1>1, Onward
<1>15. StoreInv' /\ FoldOK' /\ LevelInv' /\ JobInv'
  BY <1>1, <1>2 DEF ReduceInv, StoreInv, FoldOK, FoldInv, FoldTold, InFold, LevelInv, JobInv
<1>16. MergeInv'
  BY <1>1, <1>2, <1>7 DEF MergeInv
<1>17. Tiled'
  <2>1. PICK e \in Cuts(t) : Tile(t, e) /\ e[0] = 0 /\ e[m + 1] = b
    BY <1>11
  <2>2. Tiling(c, e)'
    BY <1>1, <1>2, <1>5, <1>6, <1>7, <1>9, <1>11, <2>1 DEF Tiling
  <2>3. c \in Cuts(nodes)' /\ e \in Cuts(merged)'
    BY <1>1, <1>9, <2>1 DEF Cuts
  <2> QED
    BY <2>2, <2>3 DEF Tiled
<1>18. ASSUME NEW e \in store, MergeHeard(e)
       PROVE  \/ e \in plan.cross
              \/ e \in n.told
              \/ \E i \in 1..Len(nodes) : i >= cur + 2 /\ e \in nodes[i].told
              \/ \E i \in 1..m : e \in merged[i].told
  <2>1. pc = "place" /\ pc \notin {"ask", "retry"}
    BY <1>1
  <2>2. \A i \in 1..Len(nodes) : i >= cur /\ e \in nodes[i].told =>
           \/ e \in Node.told
           \/ i >= cur + 2 /\ e \in nodes[i].told
    BY <1>2, <1>3, <1>12
  <2> QED
    BY <1>2, <1>6, <1>18, <2>1, <2>2 DEF MergeHeard
<1>19. MergeTold'
  <2>1. ASSUME NEW e \in store PROVE MergeHeard(e)'
    <3>1. MergeHeard(e)
      BY <1>2, <2>1 DEF MergeTold
    <3>2. /\ m + 1 \in 1..Len(merged')
          /\ \A i \in 1..m : i \in 1..Len(merged')
      BY <1>2, <1>11
    <3>3. CASE e \in n.told
      BY <1>11, <3>2, <3>3 DEF MergeHeard
    <3>4. CASE \E i \in 1..m : e \in merged[i].told
      <4>1. PICK i \in 1..m : e \in merged[i].told
        BY <3>4
      <4>2. i \in 1..Len(merged') /\ e \in merged'[i].told
        BY <1>11, <3>2, <4>1
      <4> QED
        BY <4>2 DEF MergeHeard
    <3>5. CASE \E i \in 1..Len(nodes) : i >= cur + 2 /\ e \in nodes[i].told
      BY <1>1, <3>5 DEF MergeHeard
    <3>6. CASE e \in plan.cross
      BY <1>1, <3>6 DEF MergeHeard
    <3> QED
      BY <1>18, <2>1, <3>1, <3>3, <3>4, <3>5, <3>6
  <2> QED
    BY <1>1, <2>1 DEF MergeTold
<1>20. ASSUME Len(merged') = 1, cur' > Len(nodes') PROVE Rooted(merged[1])'
  <2>1. m = 0 /\ cur = 1 /\ Len(nodes) = 2
    <3>1. \A n1, m1 \in Nat : m1 + 1 = 1 /\ 2 * m1 + 1 + 2 > n1 /\ 2 * m1 + 1 < n1
                              => m1 = 0 /\ 2 * m1 + 1 = 1 /\ n1 = 2
      OBVIOUS
    <3>2. m + 1 = 1 /\ 2 * m + 1 + 2 > Len(nodes) /\ 2 * m + 1 < Len(nodes)
      <4>1. cur + 2 > Len(nodes)
        BY <1>1, <1>20
      <4>2. m + 1 = 1
        BY <1>11, <1>20
      <4> QED
        BY <1>3, <4>1, <4>2
    <3> QED
      BY <1>2, <1>3, <3>1, <3>2
  <2>2. job.parts = Run(0, B)
    <3>1. cur - 1 = 0 /\ cur + 1 = Len(nodes)
      BY <2>1
    <3> QED
      BY <1>5, <3>1
  <2>3. ScopeOf(job.parts) = Fragments
    <3>1. pc \notin {"partition", "collect", "done"} /\ 0 \in 0..B /\ B \in 0..B
      BY <1>1, <1>7
    <3> QED
      BY <2>2, <3>1, RunScope
  <2>4. ASSUME NEW e \in store PROVE e \in n.told
    <3>1. MergeHeard(e) /\ e.cites \subseteq ScopeOf(job.parts)
      BY <1>2, <2>3, <2>4 DEF MergeTold, ReduceInv, StoreInv
    <3>2. e \in plan.cross => e \in n.told
      BY <1>1, <1>6, <2>4, <3>1, PlaceFacts
    <3>3. ~(\E i \in 1..Len(nodes) : i >= cur + 2 /\ e \in nodes[i].told)
      BY <2>1
    <3>4. ~(\E i \in 1..m : e \in merged[i].told)
      BY <2>1
    <3> QED
      BY <1>18, <2>4, <3>1, <3>2, <3>3, <3>4
  <2>5. merged'[1] = n /\ n.hash = store
    BY <1>2, <1>6, <1>11, <2>1
  <2> QED
    BY <1>1, <1>2, <2>4, <2>5 DEF Rooted
<1>21. PairInv'
  <2>1. Len(merged') = m + 1 /\ cur' = 2 * Len(merged') + 1
    BY <1>1, <1>7, <1>11
  <2>2. Paired'
    BY <2>1 DEF Paired
  <2>3. Fresh(Len(merged) + 1)'
    <3>1. \A j \in Nat : j >= (m + 1) + 1 => j >= m + 2
      BY <1>2
    <3>2. 0..Len(Rules) \subseteq Nat
      BY <1>2
    <3> QED
      BY <1>1, <1>2, <1>3, <2>1, <3>1, <3>2 DEF Fresh
  <2> QED
    BY <1>1, <1>2, <1>20, <2>2, <2>3 DEF PairInv
<1> QED
  BY <1>13, <1>14, <1>15, <1>16, <1>17, <1>19, <1>21 DEF ReduceInv, MergeOK, TileInv

LEMMA PlaceMergedCase ==
    ASSUME ReduceInv, PlaceMerged
    PROVE  ReduceInv'
BY PlaceFlatCase, PlacePairCase

--------------------------------------------------------------------------------
(* The theorems. *)

LEMMA StutterCase ==
    ASSUME ReduceInv, UNCHANGED vars
    PROVE  ReduceInv'
<1>1. UNCHANGED <<bytes, defers, store, hash, plan, replies, calls, pc, cur, firstError, job,
                  nodes, merged, level, outcome, asked, faults>>
  BY DEF vars, input, folding, counters
<1>2. TypeOK' /\ PlanInv' /\ StoreInv' /\ OutcomeInv' /\ RootSpeaksForAll'
  BY <1>1 DEF ReduceInv, TypeOK, PlanInv, Unstarted, Planned, StoreInv, OutcomeInv,
              RootSpeaksForAll, Batches
<1>3. Calling'
  BY <1>1 DEF ReduceInv, Calling, StartInv, CollectInv, CollectedInv, FirstErrorIsReported,
              FailedBatches, Batches, Finished, Failed, FirstError
<1>4. FoldOK'
  BY <1>1 DEF ReduceInv, FoldOK, FoldInv, FoldTold, FoldHeard, InFold, Batches
<1>5. MergeInv' /\ LevelInv'
  BY <1>1 DEF ReduceInv, MergeOK, MergeInv, LevelInv, Rooted, Fresh, InMerge, InMergeCall
<1>7. TileInv'
  <2>1. ASSUME InMerge PROVE Tiled'
    <3>1. PICK c \in Cuts(nodes), d \in Cuts(merged) : Tiling(c, d)
      BY <2>1, CutFacts
    <3>2. InMergeCall' => job'.parts = IF job'.step[2] = 0 THEN Run(0, Len(plan.batches))
                                       ELSE Run(c[cur - 1], c[cur + 1])
      BY <1>1, <3>1 DEF InMergeCall, Tiling
    <3> QED
      BY <1>1, <3>1, <3>2, TilesStay
  <2>2. InMerge' => InMerge
    BY <1>1 DEF InMerge, InMergeCall
  <2> QED
    BY <2>1, <2>2 DEF TileInv
<1>6. PairInv' /\ MergeTold' /\ JobInv'
  BY <1>1 DEF ReduceInv, MergeOK, PairInv, Paired, Rooted, Fresh, MergeTold, MergeHeard, JobInv,
              FlatJob, PairJob, ScopeOf, InMerge, InMergeCall
<1> QED
  BY <1>2, <1>3, <1>4, <1>5, <1>6, <1>7 DEF ReduceInv, MergeOK

\* The inductive invariant: it holds of every state of every composition.
THEOREM ReduceInvariant == Spec => []ReduceInv
<1>1. Init => ReduceInv
  BY InitCase
<1>2. ReduceInv /\ [Next]_vars => ReduceInv'
  <2> SUFFICES ASSUME ReduceInv, [Next]_vars
               PROVE  ReduceInv'
    OBVIOUS
  <2>1. CASE Partition
    BY <2>1, PartitionCase
  <2>2. CASE NoRuntime
    BY <2>2, NoRuntimeCase
  <2>3. CASE Collect
    BY <2>3, CollectCase
  <2>4. CASE FoldBatch
    BY <2>4, FoldBatchCase
  <2>5. CASE VerifyBatch
    BY <2>5, VerifyBatchCase
  <2>6. CASE BatchIncomplete
    BY <2>6, BatchIncompleteCase
  <2>7. CASE Ask
    BY <2>7, AskCase
  <2>8. CASE Decline
    BY <2>8, DeclineCase
  <2>9. CASE Retry
    BY <2>9, RetryCase
  <2>10. CASE StartLevel
    BY <2>10, StartLevelCase
  <2>11. CASE MergePair
    BY <2>11, MergePairCase
  <2>12. CASE CarryOddNode
    BY <2>12, CarryOddNodeCase
  <2>13. CASE EndLevel
    BY <2>13, EndLevelCase
  <2>14. CASE CallMerge
    BY <2>14, CallMergeCase
  <2>15. CASE PlaceMerged
    BY <2>15, PlaceMergedCase
  <2>16. CASE Finish
    BY <2>16, FinishCase
  <2>17. ASSUME NEW i \in Molecules, Thread(i) PROVE ReduceInv'
    BY <2>17, StartBatchCase, EndBatchCase DEF Thread
  <2>18. CASE UNCHANGED vars
    BY <2>18, StutterCase
  <2> QED
    BY <2>1, <2>2, <2>3, <2>4, <2>5, <2>6, <2>7, <2>8, <2>9, <2>10, <2>11, <2>12, <2>13,
       <2>14, <2>15, <2>16, <2>17, <2>18 DEF Next, Main, Batching, Clarifying, Merging
<1> QED
  BY <1>1, <1>2, PTL DEF Spec

\* Every variable of a composition keeps its type: the variables of composer/reduce.py's
\* compose and of the calls it makes hold only what the code can put there,
\* and no step is invoked more than twice (the call and its one retry).
THEOREM TypeCorrect == Spec => []TypeOK
<1>1. ReduceInv => TypeOK
  BY DEF ReduceInv
<1> QED
  BY <1>1, ReduceInvariant, PTL

\* However the threads of the pool are interleaved, a composition of which some
\* batch failed ends with the error of the first failing batch in the order of
\* the batches, after every batch was called exactly once and has come back
\* (composer/reduce.py, compose).
THEOREM FirstErrorReported == Spec => []FirstErrorIsReported
<1>1. ReduceInv => FirstErrorIsReported
  BY DEF ReduceInv, Calling
<1> QED
  BY <1>1, ReduceInvariant, PTL

\* For any number of molecules, of any sizes and under any limits: the document
\* of a successful composition stands for every batch exactly once, in order, by
\* whichever levels of flat and pairwise merges it was made; every stored answer
\* was told to one of the calls it was made from; and its header names the
\* answers that are stored (composer/reduce.py, compose and _reduce).
THEOREM RootSpeaks == Spec => []RootSpeaksForAll
<1>1. ReduceInv => RootSpeaksForAll
  BY DEF ReduceInv
<1> QED
  BY <1>1, ReduceInvariant, PTL

================================================================================
