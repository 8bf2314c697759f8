--------------------------- MODULE CuttingProofs ---------------------------
(***************************************************************************)
(* How documents are cut and put together: the page ranges of plan_chunks  *)
(* and what assemble joins, for every page count and whatever settings the *)
(* pods run with; then the output pages of paginate, for every content.    *)
(***************************************************************************)
EXTENDS ContentKeys, Pagination, SequenceTheorems, WellFoundedInduction, TLAPS

-----------------------------------------------------------------------------
(***************************************************************************)
(* plan_chunks.  Where a fact about all lengths is needed, a least         *)
(* counterexample is taken and refuted.                                    *)
(***************************************************************************)
LEMMA LeastNatural ==
    ASSUME NEW T, T \subseteq Nat, T # {}
    PROVE  \E n \in T : \A m \in T : n <= m
<1>1. PICK n \in T : \A m \in T : ~ (<<m, n>> \in OpToRel(<, Nat))
  BY NatLessThanWellFounded, WFMin, Zenon
<1>2. \A m \in T : <<m, n>> \in OpToRel(<, Nat) <=> m < n
  BY DEF OpToRel
<1>3. \A m \in T : m \in Nat /\ n \in Nat /\ ~ (m < n)
  BY <1>1, <1>2, Zenon
<1>4. \A m \in T : n <= m
  BY <1>3
<1> QED  BY <1>4

LEMMA DivBounds ==
    ASSUME NEW n \in Nat, NEW d \in Nat \ {0}
    PROVE  n \div d \in Nat /\ (n \div d) * d <= n /\ n < (n \div d) * d + d
  OBVIOUS

LEMMA TimesMonotone ==
    ASSUME NEW d \in Nat, NEW a \in Int, NEW b \in Int
    PROVE  /\ a <= b => a * d <= b * d
           /\ a * d < b * d => a < b
           /\ (a - 1) * d = a * d - d /\ (a + 1) * d = a * d + d
           /\ a * d \in Int
<1>1. a <= b => a * d <= b * d
  OBVIOUS
<1>2. a * d < b * d => a < b
  <2>1. b <= a => b * d <= a * d
    OBVIOUS
  <2> QED  BY <2>1
<1>3. (a - 1) * d = a * d - d /\ (a + 1) * d = a * d + d /\ a * d \in Int
  OBVIOUS
<1> QED  BY <1>1, <1>2, <1>3

\* Where the k-th range of a plan ends.
EndOf(k, n, size) == IF k * size < n THEN k * size ELSE n

\* len(range(0, pages, size)) ranges are just enough, and the k-th starts where
\* the one before it ended.
LEMMA PlanShape ==
    ASSUME NEW n \in Nat, NEW size \in Nat \ {0}, NEW minPages \in Int, minPages <= n
    PROVE  LET q == RangeCount(n, size)
           IN  /\ q \in Nat /\ n <= q * size /\ q * size < n + size
               /\ plan_chunks(n, size, minPages)
                      = [k \in 1 .. q |-> <<(k - 1) * size, EndOf(k, n, size)>>]
<1> DEFINE q == RangeCount(n, size)
<1>1. q \in Nat /\ n <= q * size /\ q * size < n + size
  <2>1. n + size - 1 \in Nat
    OBVIOUS
  <2>2. q = (n + size - 1) \div size
    BY DEF RangeCount
  <2>3. q \in Nat /\ q * size <= n + size - 1 /\ n + size - 1 < q * size + size
    BY <2>1, <2>2, DivBounds
  <2>4. q * size \in Int
    BY <2>3
  <2> HIDE DEF q
  <2> QED  BY <2>3, <2>4
<1>2. plan_chunks(n, size, minPages)
          = [k \in 1 .. q |-> <<(k - 1) * size, EndOf(k, n, size)>>]
  <2>1. n # NotAPdf /\ ~(n < minPages)
    BY NotAPdfAssumption
  <2> QED  BY <2>1 DEF plan_chunks, EndOf
<1> QED  BY <1>1, <1>2

\* The ranges of plan_chunks start at the multiples of size below the page
\* count, so they cut every document without gap or overlap.
THEOREM PlanChunksPartitions ==
    ASSUME NEW n \in Nat, NEW size \in Nat \ {0}, NEW minPages \in Int,
           minPages <= n
    PROVE  Partitions(plan_chunks(n, size, minPages), n)
<1> DEFINE q == RangeCount(n, size)
           plan == plan_chunks(n, size, minPages)
           end(k) == EndOf(k, n, size)
<1>1. q \in Nat /\ n <= q * size /\ q * size < n + size
  BY PlanShape
<1>2. plan = [k \in 1 .. q |-> <<(k - 1) * size, end(k)>>]
  BY PlanShape, Zenon
<1>3. DOMAIN plan = 1 .. q
      /\ \A k \in 1 .. q : plan[k][1] = (k - 1) * size /\ plan[k][2] = end(k)
  <2> HIDE DEF q, end
  <2> QED  BY <1>2
<1> HIDE DEF q, plan
<1>4. ASSUME NEW p \in 0 .. n - 1
      PROVE  \E k \in DOMAIN plan : plan[k][1] <= p /\ p < plan[k][2]
  <2> DEFINE k == p \div size + 1
  <2>1. p \in Nat /\ p < n
    OBVIOUS
  <2>2. k \in Nat /\ k >= 1 /\ (k - 1) * size <= p /\ p < (k - 1) * size + size
    <3>1. p \div size \in Nat /\ (p \div size) * size <= p
          /\ p < (p \div size) * size + size
      BY <2>1, DivBounds
    <3>2. k - 1 = p \div size
      BY <3>1
    <3> QED  BY <3>1, <3>2
  <2> HIDE DEF k
  <2>3. p < k * size
    BY <2>1, <2>2, TimesMonotone
  <2>4. (k - 1) * size < q * size
    BY <1>1, <2>1, <2>2, TimesMonotone
  <2>5. k \in 1 .. q
    <3>1. k - 1 \in Int /\ q \in Int /\ size \in Nat
      BY <1>1, <2>2
    <3>2. k - 1 < q
      BY <2>4, <3>1, TimesMonotone
    <3> QED  BY <1>1, <2>2, <3>2
  <2>6. plan[k][1] <= p /\ p < plan[k][2]
    BY <1>3, <2>1, <2>2, <2>3, <2>5 DEF EndOf
  <2> QED  BY <1>3, <2>5, <2>6
<1>5. ASSUME NEW k \in DOMAIN plan
      PROVE  0 <= plan[k][1] /\ plan[k][1] < plan[k][2] /\ plan[k][2] <= n
  <2>1. k \in Int /\ 1 <= k /\ k <= q /\ k - 1 \in Int /\ 0 <= k - 1
    BY <1>1, <1>3
  <2>2. k * size <= q * size /\ (k - 1) * size = k * size - size /\ k * size \in Int
        /\ q * size \in Int
    BY <1>1, <2>1, TimesMonotone
  <2>3. 0 <= (k - 1) * size
    BY <2>1
  <2>4. (k - 1) * size < n
    BY <1>1, <2>2
  <2>5. plan[k][1] = (k - 1) * size /\ plan[k][2] = end(k)
    BY <1>3
  <2> QED  BY <2>2, <2>3, <2>4, <2>5 DEF EndOf
<1>6. ASSUME NEW k \in DOMAIN plan, NEW l \in DOMAIN plan, k < l
      PROVE  plan[k][2] <= plan[l][1]
  <2>1. k \in Int /\ l - 1 \in Int /\ k <= l - 1
    BY <1>1, <1>3, <1>6
  <2>2. k * size <= (l - 1) * size /\ k * size \in Int /\ (l - 1) * size \in Int
    BY <2>1, TimesMonotone
  <2>3. end(k) <= k * size /\ end(k) \in Int
    BY <2>2 DEF EndOf
  <2> QED  BY <1>3, <2>2, <2>3
<1> QED  BY <1>4, <1>5, <1>6 DEF Partitions, plan

-----------------------------------------------------------------------------
(***************************************************************************)
(* assemble.  The texts it joins continue each other.                      *)
(***************************************************************************)
\* The first n pages, in order.
FirstPages(n) == [i \in 1 .. n |-> i - 1]

\* The first a pages followed by those from a to b.
LEMMA FirstPagesGrow ==
    ASSUME NEW a \in Nat, NEW b \in Nat, a <= b
    PROVE  FirstPages(a) \o [i \in 1 .. b - a |-> a + i - 1] = FirstPages(b)
<1> DEFINE s == FirstPages(a)
           t == [i \in 1 .. b - a |-> a + i - 1]
<1>1. s \in Seq(Int) /\ t \in Seq(Int) /\ Len(s) = a /\ Len(t) = b - a
      /\ FirstPages(b) \in Seq(Int) /\ Len(FirstPages(b)) = b
  BY DEF FirstPages
<1>2. s \o t \in Seq(Int) /\ Len(s \o t) = b
  BY <1>1
<1>3. ASSUME NEW i \in 1 .. b PROVE (s \o t)[i] = FirstPages(b)[i]
  <2>1. (s \o t)[i] = IF i <= a THEN s[i] ELSE t[i - a]
    BY <1>1
  <2>2. i <= a => s[i] = i - 1
    BY DEF FirstPages
  <2>3. ~(i <= a) => t[i - a] = i - 1
    OBVIOUS
  <2>4. FirstPages(b)[i] = i - 1
    BY DEF FirstPages
  <2> QED  BY <2>1, <2>2, <2>3, <2>4, Zenon
<1> HIDE DEF s, t
<1>4. s \o t = FirstPages(b)
  BY <1>1, <1>2, <1>3, SeqEqual, Zenon
<1> QED  BY <1>4, Zenon DEF s, t

\* Texts that begin where the one before ended join to the first pages: the
\* prefixes that Concat builds up are determined one by one.
LEMMA ConcatConsecutive ==
    ASSUME NEW texts \in Seq(Seq(Int)), NEW len \in Nat, Len(texts) = len,
           NEW end \in [0 .. len -> Nat], end[0] = 0,
           \A k \in 1 .. len :
               /\ end[k - 1] <= end[k]
               /\ texts[k] = [i \in 1 .. end[k] - end[k - 1] |-> end[k - 1] + i - 1]
    PROVE  Concat(texts) = FirstPages(end[len])
<1> DEFINE Prefixes(g) == g = [i \in 0 .. Len(texts) |->
                                  IF i = 0 THEN << >> ELSE g[i - 1] \o texts[i]]
           upTo == CHOOSE g : Prefixes(g)
           first == [k \in 0 .. len |-> FirstPages(end[k])]
<1>1. Concat(texts) = upTo[len]
  BY DEF Concat
<1>2. ASSUME NEW k \in 1 .. len
      PROVE  FirstPages(end[k - 1]) \o texts[k] = FirstPages(end[k])
  <2>1. k \in 0 .. len /\ k - 1 \in 0 .. len
    OBVIOUS
  <2>2. end[k - 1] \in Nat /\ end[k] \in Nat /\ end[k - 1] <= end[k]
    BY <2>1
  <2>3. texts[k] = [i \in 1 .. end[k] - end[k - 1] |-> end[k - 1] + i - 1]
    OBVIOUS
  <2> QED  BY ONLY <2>2, <2>3, FirstPagesGrow, Zenon
<1>3. FirstPages(end[0]) = << >>
  BY DEF FirstPages
<1>4. Prefixes(first)
  <2>1. ASSUME NEW k \in 0 .. len
        PROVE  FirstPages(end[k]) = IF k = 0 THEN << >> ELSE first[k - 1] \o texts[k]
    <3>1. k # 0 => k - 1 \in 0 .. len /\ k \in 1 .. len
      OBVIOUS
    <3> QED  BY <1>2, <1>3, <3>1, Zenon
  <2> QED  BY <2>1, Zenon
<1>5. Prefixes(upTo)
  BY <1>4, Zenon
<1> HIDE DEF upTo
<1>6. \A k \in 0 .. len : upTo[k] = IF k = 0 THEN << >> ELSE upTo[k - 1] \o texts[k]
  BY <1>5, Zenon
<1> DEFINE Bad == {k \in 0 .. len : upTo[k] # FirstPages(end[k])}
<1>7. Bad = {}
  <2> SUFFICES ASSUME Bad # {} PROVE FALSE
    OBVIOUS
  <2>1. PICK k \in Bad : \A m \in Bad : k <= m
    <3>1. Bad \subseteq Nat
      OBVIOUS
    <3> HIDE DEF Bad
    <3> QED  BY <3>1, LeastNatural, Zenon
  <2>2. k \in 0 .. len /\ upTo[k] # FirstPages(end[k])
    BY <2>1
  <2>3. k # 0
    BY <1>3, <1>6, <2>2
  <2>4. k - 1 \in 0 .. len /\ k \in 1 .. len /\ k - 1 \notin Bad
    <3> HIDE DEF Bad
    <3> QED  BY <2>1, <2>2, <2>3
  <2>5. upTo[k - 1] = FirstPages(end[k - 1])
    BY <2>4
  <2> QED  BY <1>2, <1>6, <2>2, <2>3, <2>4, <2>5, Zenon
<1>8. len \in 0 .. len
  OBVIOUS
<1> QED  BY <1>1, <1>7, <1>8, Zenon

\* extract_pages returns a sequence also for a range beyond the end.
LEMMA PagesType ==
    ASSUME NEW n \in Nat \cup {NotAPdf}, NEW range, range[1] \in Int, range[2] \in Int
    PROVE  extract_pages(n, range) \in Seq(Int)
<1> DEFINE count == IF n = NotAPdf THEN 1 ELSE n
           end == IF range[2] = -1 \/ range[2] > count THEN count ELSE range[2]
           m == end - range[1]
<1>1. extract_pages(n, range) = [i \in 1 .. m |-> range[1] + i - 1]
  BY DEF extract_pages
<1>2. m \in Int
  OBVIOUS
<1> HIDE DEF m
<1>3. CASE m \in Nat
  BY <1>1, <1>3
<1>4. CASE m \notin Nat
  <2>1. 1 .. m = 1 .. 0
    BY <1>2, <1>4
  <2>2. [i \in 1 .. 0 |-> range[1] + i - 1] \in Seq(Int)
    OBVIOUS
  <2> QED  BY <1>1, <2>1, <2>2, Zenon
<1> QED  BY <1>3, <1>4

\* A plan is a sequence, and so is the text of each of its ranges.
LEMMA PlanTypes ==
    ASSUME NEW n \in Nat \cup {NotAPdf}, NEW size \in Nat \ {0}, NEW minPages \in Int
    PROVE  LET plan == plan_chunks(n, size, minPages)
           IN  /\ Len(plan) \in Nat /\ DOMAIN plan = 1 .. Len(plan)
               /\ \A k \in DOMAIN plan : extract_pages(n, plan[k]) \in Seq(Int)
<1> DEFINE plan == plan_chunks(n, size, minPages)
<1>1. CASE n = NotAPdf \/ n < minPages
  <2>1. plan = <<WHOLE_FILE>>
    BY <1>1 DEF plan_chunks
  <2>2. extract_pages(n, WHOLE_FILE) \in Seq(Int)
    BY NotAPdfAssumption DEF extract_pages, WHOLE_FILE
  <2> HIDE DEF plan
  <2>3. Len(plan) = 1 /\ DOMAIN plan = 1 .. 1 /\ plan[1] = WHOLE_FILE
    BY <2>1
  <2>4. /\ Len(plan) \in Nat /\ DOMAIN plan = 1 .. Len(plan)
        /\ \A k \in DOMAIN plan : extract_pages(n, plan[k]) \in Seq(Int)
    BY <2>2, <2>3
  <2> QED  BY <2>4 DEF plan
<1>2. CASE ~ (n = NotAPdf \/ n < minPages)
  <2> DEFINE q == RangeCount(n, size)
  <2>1. n \in Nat /\ minPages <= n
    BY <1>2
  <2>2. q \in Nat /\ plan = [k \in 1 .. q |-> <<(k - 1) * size, EndOf(k, n, size)>>]
    BY <2>1, PlanShape
  <2> HIDE DEF plan, q
  <2>3. Len(plan) = q /\ DOMAIN plan = 1 .. q
    BY <2>2
  <2>4. ASSUME NEW k \in 1 .. q PROVE extract_pages(n, plan[k]) \in Seq(Int)
    <3>1. k \in Int /\ k * size \in Int /\ (k - 1) * size \in Int
      BY <2>2, TimesMonotone
    <3>2. plan[k] = <<(k - 1) * size, EndOf(k, n, size)>> /\ EndOf(k, n, size) \in Int
      BY <2>1, <2>2, <3>1 DEF EndOf
    <3>3. plan[k][1] \in Int /\ plan[k][2] \in Int
      BY <3>1, <3>2
    <3> QED  BY <3>3, PagesType
  <2> QED  BY <2>2, <2>3, <2>4 DEF plan
<1> QED  BY <1>1, <1>2

\* The texts of all ranges of a plan, joined in order, are the text of the file,
\* whether plan_chunks split it or not.
LEMMA PartsMakeTheFile ==
    ASSUME NEW n \in Nat \cup {NotAPdf}, NEW size \in Nat \ {0}, NEW minPages \in Int,
           NEW texts \in Seq(Seq(Int)),
           Len(texts) = Len(plan_chunks(n, size, minPages)),
           \A k \in DOMAIN texts :
               texts[k] = extract_pages(n, plan_chunks(n, size, minPages)[k])
    PROVE  Concat(texts) = extract_pages(n, WHOLE_FILE)
<1> DEFINE plan == plan_chunks(n, size, minPages)
           count == IF n = NotAPdf THEN 1 ELSE n
<1>1. count \in Nat /\ extract_pages(n, WHOLE_FILE) = FirstPages(count)
  <2>1. count \in Nat
    BY NotAPdfAssumption
  <2>2. extract_pages(n, WHOLE_FILE) = [i \in 1 .. count - 0 |-> 0 + i - 1]
    BY DEF extract_pages, WHOLE_FILE
  <2> HIDE DEF count
  <2>3. count - 0 = count /\ \A i \in 1 .. count : 0 + i - 1 = i - 1
    BY <2>1
  <2> QED  BY <2>1, <2>2, <2>3 DEF FirstPages
<1>2. CASE n = NotAPdf \/ n < minPages
  <2>1. plan = <<WHOLE_FILE>>
    BY <1>2 DEF plan_chunks
  <2>2. Len(texts) = 1 /\ texts[1] = extract_pages(n, WHOLE_FILE)
    BY <2>1
  <2> DEFINE end == [k \in 0 .. 1 |-> IF k = 0 THEN 0 ELSE count]
  <2> HIDE DEF plan, count
  <2>3. /\ end \in [0 .. 1 -> Nat] /\ end[0] = 0 /\ end[1] = count
    BY <1>1
  <2> HIDE DEF end
  <2>4. texts[1] = [i \in 1 .. end[1] - end[1 - 1] |-> end[1 - 1] + i - 1]
    <3>1. count - 0 = count /\ \A i \in 1 .. count : 0 + i - 1 = i - 1
      BY <1>1
    <3>2. texts[1] = [i \in 1 .. count - 0 |-> 0 + i - 1]
      BY <1>1, <2>2, <3>1 DEF FirstPages
    <3> QED  BY <2>3, <3>2
  <2>5. \A k \in 1 .. 1 :
            /\ end[k - 1] <= end[k]
            /\ texts[k] = [i \in 1 .. end[k] - end[k - 1] |-> end[k - 1] + i - 1]
    <3>1. end[1 - 1] <= end[1]
      BY <1>1, <2>3
    <3> QED  BY <2>4, <3>1
  <2>6. Concat(texts) = FirstPages(end[1])
    BY ONLY texts \in Seq(Seq(Int)), <2>2, <2>3, <2>5, ConcatConsecutive, Zenon
  <2> QED  BY <1>1, <2>3, <2>6
<1>3. CASE ~ (n = NotAPdf \/ n < minPages)
  <2> DEFINE q == RangeCount(n, size)
             end == [k \in 0 .. q |-> EndOf(k, n, size)]
  <2>1. n \in Nat /\ minPages <= n /\ count = n
    BY <1>3
  <2>2. /\ q \in Nat /\ n <= q * size /\ q * size < n + size
        /\ plan = [k \in 1 .. q |-> <<(k - 1) * size, EndOf(k, n, size)>>]
    BY <2>1, PlanShape
  <2> HIDE DEF plan, q
  <2>3. Len(plan) = q /\ Len(texts) = q
    BY <2>2 DEF plan
  <2>4. \A k \in 0 .. q : k * size \in Nat /\ EndOf(k, n, size) \in Nat
    <3> SUFFICES ASSUME NEW k \in 0 .. q PROVE k * size \in Nat /\ EndOf(k, n, size) \in Nat
      OBVIOUS
    <3>1. k * size \in Int /\ 0 * size <= k * size
      BY <2>2, TimesMonotone
    <3> QED  BY <2>1, <3>1 DEF EndOf
  <2>5. end \in [0 .. q -> Nat] /\ end[0] = 0 /\ end[q] = n
    <3>1. EndOf(0, n, size) = 0 /\ EndOf(q, n, size) = n
      BY <2>1, <2>2, <2>4 DEF EndOf
    <3> QED  BY <2>2, <2>4, <3>1
  <2>6. ASSUME NEW k \in 1 .. q
        PROVE  /\ end[k - 1] <= end[k]
               /\ texts[k] = [i \in 1 .. end[k] - end[k - 1] |-> end[k - 1] + i - 1]
    <3>1. k \in Int /\ k - 1 \in Int /\ k \in 0 .. q /\ k - 1 \in 0 .. q
      BY <2>2
    <3>2. (k - 1) * size \in Nat /\ k * size \in Nat /\ (k - 1) * size = k * size - size
          /\ k * size <= q * size /\ q * size \in Int
      BY <2>2, <2>4, <3>1, TimesMonotone
    <3>3. (k - 1) * size < n
      <4> DEFINE x == k * size
                 y == q * size
                 z == (k - 1) * size
      <4>1. x \in Nat /\ y \in Int /\ z = x - size /\ x <= y /\ y < n + size
        BY <2>2, <3>2
      <4> HIDE DEF x, y, z
      <4>2. z < n
        BY <2>1, <4>1
      <4> QED  BY <4>2 DEF z
    <3>4. end[k - 1] = (k - 1) * size /\ end[k] = EndOf(k, n, size)
      BY <3>1, <3>3 DEF EndOf
    <3>5. /\ EndOf(k, n, size) \in Nat /\ EndOf(k, n, size) <= n
          /\ (k - 1) * size <= EndOf(k, n, size)
      BY <2>1, <3>2, <3>3 DEF EndOf
    <3>6. plan[k] = <<(k - 1) * size, EndOf(k, n, size)>>
      BY <2>2
    <3>7. extract_pages(n, plan[k])
            = [i \in 1 .. EndOf(k, n, size) - (k - 1) * size |-> (k - 1) * size + i - 1]
      <4> DEFINE a == (k - 1) * size
                 b == EndOf(k, n, size)
      <4>1. plan[k] = <<a, b>> /\ a \in Nat /\ b \in Nat /\ b <= n
        BY <3>2, <3>5, <3>6
      <4> HIDE DEF a, b
      <4>2. plan[k][1] = a /\ plan[k][2] = b /\ b # -1 /\ ~ (b > n)
        BY <2>1, <4>1
      <4>3. extract_pages(n, plan[k]) = [i \in 1 .. b - a |-> a + i - 1]
        BY <2>1, <4>2, <1>3 DEF extract_pages
      <4> QED  BY <4>3 DEF a, b
    <3>8. texts[k] = extract_pages(n, plan[k])
      <4>1. k \in DOMAIN texts
        BY <2>3
      <4> QED  BY <4>1, Zenon DEF plan
    <3> HIDE DEF end
    <3> QED  BY <3>4, <3>5, <3>7, <3>8
  <2> HIDE DEF end
  <2>7. Concat(texts) = FirstPages(end[q])
    BY ONLY texts \in Seq(Seq(Int)), <2>2, <2>3, <2>5, <2>6, ConcatConsecutive, Zenon
  <2> QED  BY <1>1, <2>1, <2>5, <2>7
<1> QED  BY <1>2, <1>3
-----------------------------------------------------------------------------
(***************************************************************************)
(* Documents under their keys.  The fingerprint holds the two settings     *)
(* that plan_chunks takes, so a key determines the plan of every job that  *)
(* has it, and the text of each part, whoever writes it and however often. *)
(***************************************************************************)
PlanOf(k) == plan_chunks(pageCount, k[5], k[6])
PartOf(k, i) == extract_pages(pageCount, PlanOf(k)[i])

\* What is known of a job that has been submitted.
JobInv(j) ==
    /\ job[j].key[5] \in Nat \ {0} /\ job[j].key[6] \in Int
    /\ job[j].plan = PlanOf(job[j].key)
    /\ \A i \in done[j] : <<job[j].key, i>> \in DOMAIN parts
    /\ joined[j] \in Seq(Seq(Int)) /\ Len(joined[j]) <= Len(job[j].plan)
    /\ \A i \in DOMAIN joined[j] : joined[j][i] = PartOf(job[j].key, i)

\* Every part is the one its key determines, and every document is whole.
KeyInv ==
    /\ pageCount \in Nat \cup {NotAPdf} /\ settings \in [ApiPods -> Setting]
    /\ DOMAIN job = KeyJobs /\ DOMAIN done = KeyJobs /\ DOMAIN joined = KeyJobs
    /\ \A j \in KeyJobs : job[j] = NoJob => done[j] = {} /\ joined[j] = << >>
    /\ \A j \in KeyJobs : job[j] # NoJob => JobInv(j)
    /\ \A x \in DOMAIN parts : parts[x] = PartOf(x[1], x[2])
    /\ DocumentHasEveryPage

\* One step per action.  Overwriting a part does no harm, since it is the same.
LEMMA KeyNextKeeps == KeyInv /\ [KeyNext]_keyVars => KeyInv'
<1> SUFFICES ASSUME KeyInv, [KeyNext]_keyVars PROVE KeyInv'
  OBVIOUS
<1>0. pageCount' = pageCount
  BY Zenon DEF KeyNext, keyVars, Upgrade, SubmitFile, ConvertChunk, JoinPart, StoreDocument
<1>a. \A k : PlanOf(k)' = plan_chunks(pageCount, k[5], k[6])
  BY <1>0 DEF PlanOf
<1>b. \A k, i : PartOf(k, i)'
                     = extract_pages(pageCount, plan_chunks(pageCount, k[5], k[6])[i])
  BY <1>0, <1>a DEF PartOf, PlanOf
<1>c. \A k, i : PartOf(k, i)
                     = extract_pages(pageCount, plan_chunks(pageCount, k[5], k[6])[i])
             /\ PlanOf(k) = plan_chunks(pageCount, k[5], k[6])
  BY DEF PartOf, PlanOf
\* What a job knows stays true as long as the stored parts keep their names.
<1>1. ASSUME NEW j \in KeyJobs, JobInv(j), job'[j] = job[j], done'[j] = done[j],
             joined'[j] = joined[j], DOMAIN parts \subseteq DOMAIN parts'
      PROVE  JobInv(j)'
  BY <1>1, <1>a, <1>b, <1>c DEF JobInv
<1>2. ASSUME UNCHANGED parts PROVE \A x \in DOMAIN parts' : parts'[x] = PartOf(x[1], x[2])'
  BY <1>2, <1>b, <1>c DEF KeyInv
<1>3. ASSUME UNCHANGED document PROVE DocumentHasEveryPage'
  BY <1>0, <1>3 DEF KeyInv, DocumentHasEveryPage
<1>4. ASSUME NEW p \in ApiPods, Upgrade(p) PROVE KeyInv'
  <2>1. UNCHANGED <<job, done, parts, joined, document>>
    BY <1>4 DEF Upgrade
  <2>2. settings' \in [ApiPods -> Setting]
    BY <1>4, SettingsAssumption DEF Upgrade, KeyInv
  <2>3. \A j \in KeyJobs : job'[j] # NoJob => JobInv(j)'
    BY <1>1, <2>1 DEF KeyInv
  <2> QED  BY <1>0, <1>2, <1>3, <2>1, <2>2, <2>3 DEF KeyInv
<1>5. ASSUME NEW a \in ApiPods, NEW j \in KeyJobs, SubmitFile(a, j) PROVE KeyInv'
  <2>1. job[j] = NoJob /\ UNCHANGED <<settings, done, parts, joined, document>>
    BY <1>5 DEF SubmitFile
  <2>2. PICK llm \in BOOLEAN :
            job' = [job EXCEPT ![j] =
                       [key |-> config_fingerprint(settings[a], llm),
                        plan |-> plan_chunks(pageCount, settings[a].perChunk,
                                             settings[a].minPages)]]
    BY <1>5, Zenon DEF SubmitFile
  <2>3. DOMAIN job' = KeyJobs /\ \A i \in KeyJobs \ {j} : job'[i] = job[i]
    BY <2>2 DEF KeyInv
  <2>4. /\ job'[j].key = config_fingerprint(settings[a], llm)
        /\ job'[j].plan = plan_chunks(pageCount, settings[a].perChunk, settings[a].minPages)
    BY <2>2 DEF KeyInv
  <2>5. /\ settings[a].perChunk \in Nat \ {0} /\ settings[a].minPages \in Int
    BY DEF KeyInv, Setting
  <2>6. job'[j].key[5] = settings[a].perChunk /\ job'[j].key[6] = settings[a].minPages
    BY <2>4 DEF config_fingerprint
  <2>7. done[j] = {} /\ joined[j] = << >>
    BY <2>1 DEF KeyInv
  <2>8. Len(job'[j].plan) \in Nat
    BY <2>4, <2>5, PlanTypes DEF KeyInv
  <2>9. JobInv(j)'
    <3>1. job'[j].key[5] \in Nat \ {0} /\ job'[j].key[6] \in Int
      BY <2>5, <2>6
    <3>2. job'[j].plan = PlanOf(job[j].key)'
      BY <1>0, <2>4, <2>6 DEF PlanOf
    <3>3. /\ done'[j] = {} /\ joined'[j] = << >>
          /\ joined'[j] \in Seq(Seq(Int)) /\ Len(joined'[j]) = 0
      BY <2>1, <2>7
    <3> QED  BY <2>8, <3>1, <3>2, <3>3 DEF JobInv
  <2>10. ASSUME NEW i \in KeyJobs, job'[i] # NoJob PROVE JobInv(i)'
    <3>1. CASE i = j
      BY <2>9, <3>1
    <3>2. CASE i # j
      <4>1. JobInv(i) /\ job'[i] = job[i]
        BY <2>3, <2>10, <3>2 DEF KeyInv
      <4> QED  BY <1>1, <2>1, <4>1
    <3> QED  BY <3>1, <3>2
  <2>11. \A i \in KeyJobs : job'[i] = NoJob => done'[i] = {} /\ joined'[i] = << >>
    BY <2>1, <2>3, <2>7 DEF KeyInv
  <2> QED  BY <1>0, <1>2, <1>3, <2>1, <2>3, <2>10, <2>11 DEF KeyInv
<1>6. ASSUME NEW j \in KeyJobs, ConvertChunk(j) PROVE KeyInv'
  <2>1. job[j] # NoJob /\ UNCHANGED <<settings, job, joined, document>>
    BY <1>6 DEF ConvertChunk
  <2>2. PICK i \in DOMAIN job[j].plan \ done[j] :
            /\ parts' = Put(parts, <<job[j].key, i>>, extract_pages(pageCount, job[j].plan[i]))
            /\ done' = [done EXCEPT ![j] = @ \cup {i}]
    BY <1>6, Zenon DEF ConvertChunk
  <2> DEFINE n == <<job[j].key, i>>
  <2>3. JobInv(j)
    BY <2>1 DEF KeyInv
  <2>4. /\ DOMAIN parts' = DOMAIN parts \cup {n}
        /\ parts'[n] = extract_pages(pageCount, job[j].plan[i])
        /\ \A x \in DOMAIN parts \ {n} : parts'[x] = parts[x]
    BY <2>2 DEF Put
  <2>5. DOMAIN done' = KeyJobs /\ done'[j] = done[j] \cup {i}
        /\ \A l \in KeyJobs \ {j} : done'[l] = done[l]
    BY <2>2 DEF KeyInv
  <2>6. \A x \in DOMAIN parts' : parts'[x] = PartOf(x[1], x[2])'
    <3> SUFFICES ASSUME NEW x \in DOMAIN parts' PROVE parts'[x] = PartOf(x[1], x[2])'
      OBVIOUS
    <3>1. PartOf(x[1], x[2])' = PartOf(x[1], x[2])
      BY <1>b, <1>c
    <3>2. CASE x = n
      <4>1. x[1] = job[j].key /\ x[2] = i
        BY <3>2
      <4>2. PartOf(x[1], x[2]) = extract_pages(pageCount, job[j].plan[i])
        BY <2>3, <4>1 DEF JobInv, PartOf
      <4> QED  BY <2>4, <3>1, <3>2, <4>2
    <3>3. CASE x # n
      BY <2>4, <3>1, <3>3 DEF KeyInv
    <3> QED  BY <3>2, <3>3
  <2>7. JobInv(j)'
    BY <1>a, <1>b, <1>c, <2>1, <2>3, <2>4, <2>5 DEF JobInv
  <2>8. ASSUME NEW l \in KeyJobs, job'[l] # NoJob PROVE JobInv(l)'
    <3>1. CASE l = j
      BY <2>7, <3>1
    <3>2. CASE l # j
      <4>1. JobInv(l) /\ done'[l] = done[l]
        BY <2>1, <2>5, <2>8, <3>2 DEF KeyInv
      <4> QED  BY <1>1, <2>1, <2>4, <4>1
    <3> QED  BY <3>1, <3>2
  <2>9. \A l \in KeyJobs : job'[l] = NoJob => done'[l] = {} /\ joined'[l] = << >>
    BY <2>1, <2>5 DEF KeyInv
  <2> QED  BY <1>0, <1>3, <2>1, <2>5, <2>6, <2>8, <2>9 DEF KeyInv
<1>7. ASSUME NEW j \in KeyJobs, JoinPart(j) PROVE KeyInv'
  <2> DEFINE m == Len(joined[j]) + 1
             e == parts[<<job[j].key, m>>]
  <2>1. /\ job[j] # NoJob /\ UNCHANGED <<settings, job, done, parts, document>>
        /\ done[j] = DOMAIN job[j].plan /\ Len(joined[j]) < Len(job[j].plan)
        /\ joined' = [joined EXCEPT ![j] = Append(joined[j], e)]
    BY <1>7 DEF JoinPart
  <2>2. JobInv(j)
    BY <2>1 DEF KeyInv
  <2>3. /\ Len(job[j].plan) \in Nat /\ DOMAIN job[j].plan = 1 .. Len(job[j].plan)
        /\ \A k \in DOMAIN job[j].plan : extract_pages(pageCount, job[j].plan[k]) \in Seq(Int)
    <3> DEFINE size == job[j].key[5]
               minPages == job[j].key[6]
    <3>1. /\ size \in Nat \ {0} /\ minPages \in Int /\ pageCount \in Nat \cup {NotAPdf}
          /\ job[j].plan = plan_chunks(pageCount, size, minPages)
      BY <2>2 DEF KeyInv, JobInv, PlanOf
    <3> HIDE DEF size, minPages
    <3> QED  BY <3>1, PlanTypes, Zenon
  <2>4. Len(joined[j]) \in Nat /\ m \in DOMAIN job[j].plan
    BY <2>1, <2>2, <2>3 DEF JobInv
  <2>5. e = PartOf(job[j].key, m) /\ e \in Seq(Int)
    <3>1. <<job[j].key, m>> \in DOMAIN parts
      BY <2>1, <2>2, <2>4 DEF JobInv
    <3>2. e = PartOf(job[j].key, m)
      BY <3>1 DEF KeyInv
    <3>3. PartOf(job[j].key, m) \in Seq(Int)
      BY <2>2, <2>3, <2>4 DEF JobInv, PartOf
    <3> QED  BY <3>2, <3>3
  <2> HIDE DEF e
  <2>6. DOMAIN joined' = KeyJobs /\ joined'[j] = Append(joined[j], e)
        /\ \A l \in KeyJobs \ {j} : joined'[l] = joined[l]
    BY <2>1 DEF KeyInv
  <2>7. /\ joined'[j] \in Seq(Seq(Int)) /\ Len(joined'[j]) = m
        /\ joined'[j][m] = e /\ \A i \in 1 .. Len(joined[j]) : joined'[j][i] = joined[j][i]
        /\ DOMAIN joined'[j] = 1 .. m /\ DOMAIN joined[j] = 1 .. Len(joined[j])
    <3>1. joined[j] \in Seq(Seq(Int)) /\ e \in Seq(Int)
      BY <2>2, <2>5 DEF JobInv
    <3> QED  BY <2>6, <3>1, AppendProperties
  <2>8. \A i \in DOMAIN joined'[j] : joined'[j][i] = PartOf(job[j].key, i)
    <3> SUFFICES ASSUME NEW i \in 1 .. m PROVE joined'[j][i] = PartOf(job[j].key, i)
      BY <2>7
    <3>1. CASE i = m
      BY <2>5, <2>7, <3>1
    <3>2. CASE i # m
      <4>1. i \in 1 .. Len(joined[j])
        BY <2>4, <3>2
      <4> QED  BY <2>2, <2>7, <4>1, Zenon DEF JobInv
    <3> QED  BY <3>1, <3>2
  <2>9. JobInv(j)'
    <3>1. Len(joined'[j]) <= Len(job'[j].plan)
      BY <2>1, <2>3, <2>4, <2>7
    <3>2. \A i \in DOMAIN joined'[j] : joined'[j][i] = PartOf(job[j].key, i)'
      BY <1>b, <1>c, <2>1, <2>8
    <3>3. job'[j].plan = PlanOf(job[j].key)'
      BY <1>a, <1>c, <2>1, <2>2 DEF JobInv
    <3> QED  BY <2>1, <2>2, <2>7, <3>1, <3>2, <3>3 DEF JobInv
  <2>10. ASSUME NEW l \in KeyJobs, job'[l] # NoJob PROVE JobInv(l)'
    <3>1. CASE l = j
      BY <2>9, <3>1
    <3>2. CASE l # j
      <4>1. JobInv(l) /\ joined'[l] = joined[l]
        BY <2>1, <2>6, <2>10, <3>2 DEF KeyInv
      <4> QED  BY <1>1, <2>1, <4>1
    <3> QED  BY <3>1, <3>2
  <2>11. \A l \in KeyJobs : job'[l] = NoJob => done'[l] = {} /\ joined'[l] = << >>
    BY <2>1, <2>6 DEF KeyInv
  <2> QED  BY <1>0, <1>2, <1>3, <2>1, <2>6, <2>10, <2>11 DEF KeyInv
<1>8. ASSUME NEW j \in KeyJobs, StoreDocument(j) PROVE KeyInv'
  <2>1. /\ job[j] # NoJob /\ UNCHANGED <<settings, job, done, parts, joined>>
        /\ job[j].plan # << >> /\ Len(joined[j]) = Len(job[j].plan)
        /\ document' = Put(document, job[j].key, Concat(joined[j]))
    BY <1>8 DEF StoreDocument
  <2>2. JobInv(j)
    BY <2>1 DEF KeyInv
  <2>3. Concat(joined[j]) = extract_pages(pageCount, WHOLE_FILE)
    <3> DEFINE size == job[j].key[5]
               minPages == job[j].key[6]
               texts == joined[j]
    <3>1. /\ pageCount \in Nat \cup {NotAPdf} /\ size \in Nat \ {0} /\ minPages \in Int
          /\ texts \in Seq(Seq(Int))
          /\ Len(texts) = Len(plan_chunks(pageCount, size, minPages))
      BY <2>1, <2>2 DEF KeyInv, JobInv, PlanOf
    <3>2. \A k \in DOMAIN texts :
              texts[k] = extract_pages(pageCount, plan_chunks(pageCount, size, minPages)[k])
      BY <2>2 DEF JobInv, PlanOf, PartOf
    <3> HIDE DEF size, minPages, texts
    <3>3. Concat(texts) = extract_pages(pageCount, WHOLE_FILE)
      BY ONLY <3>1, <3>2, PartsMakeTheFile, Zenon
    <3> QED  BY <3>3 DEF texts
  <2>4. DocumentHasEveryPage'
    BY <1>0, <2>1, <2>3 DEF KeyInv, DocumentHasEveryPage, Put
  <2>5. \A l \in KeyJobs : job'[l] # NoJob => JobInv(l)'
    BY <1>1, <2>1 DEF KeyInv
  <2> QED  BY <1>0, <1>2, <2>1, <2>4, <2>5 DEF KeyInv
<1>9. CASE UNCHANGED keyVars
  <2>1. UNCHANGED <<settings, job, done, parts, joined, document>>
    BY <1>9 DEF keyVars
  <2>2. \A l \in KeyJobs : job'[l] # NoJob => JobInv(l)'
    BY <1>1, <2>1 DEF KeyInv
  <2> QED  BY <1>0, <1>2, <1>3, <2>1, <2>2 DEF KeyInv
<1> QED  BY <1>4, <1>5, <1>6, <1>7, <1>8, <1>9 DEF KeyNext

LEMMA KeyInvariant == KeySpec => []KeyInv
<1>1. KeyInit => KeyInv
  BY SettingsAssumption, PageCountsAssumption DEF KeyInit, KeyInv, DocumentHasEveryPage
<1> QED  BY <1>1, KeyNextKeeps, PTL DEF KeySpec

\* No page of a PDF is left out and none is converted twice, whatever settings
\* the pods run with and however often they change (PlanPartitions, submit with
\* plan_chunks).
THEOREM PlanPartitionsHolds == KeySpec => []PlanPartitions
<1>1. KeyInv => PlanPartitions
  <2> SUFFICES ASSUME KeyInv, NEW j \in KeyJobs, job[j] # NoJob,
                      job[j].plan # <<WHOLE_FILE>>
               PROVE  Partitions(job[j].plan, pageCount)
    BY DEF PlanPartitions
  <2> DEFINE size == job[j].key[5]
             minPages == job[j].key[6]
  <2>1. /\ size \in Nat \ {0} /\ minPages \in Int
        /\ job[j].plan = plan_chunks(pageCount, size, minPages)
    BY DEF KeyInv, JobInv, PlanOf
  <2> HIDE DEF size, minPages
  <2>2. pageCount # NotAPdf /\ ~(pageCount < minPages)
    BY <2>1 DEF plan_chunks
  <2>3. pageCount \in Nat /\ minPages <= pageCount
    BY <2>1, <2>2 DEF KeyInv
  <2> QED  BY <2>1, <2>3, PlanChunksPartitions
<1> QED  BY <1>1, KeyInvariant, PTL

\* Every stored document holds every page once and in order, for any number of
\* submissions, pods, settings and pages: parts of different plans never meet
\* under one key, and assemble joins them without gap (DocumentHasEveryPage).
THEOREM DocumentHasEveryPageHolds == KeySpec => []DocumentHasEveryPage
<1>1. KeyInv => DocumentHasEveryPage
  BY DEF KeyInv
<1> QED  BY <1>1, KeyInvariant, PTL

-----------------------------------------------------------------------------
(***************************************************************************)
(* paginate.  The loop's invariant says where the page being filled ends   *)
(* (two characters before what is left of the block, so that joining them  *)
(* with a separator gives back the content), that a page in progress fits, *)
(* and that only an empty content makes an empty page.                     *)
(***************************************************************************)
IsSlice(p) == p.len = p.to - p.from /\ p.len <= PageSize

\* Full pages in the order of the content, the last ending by "at".
InOrder(s, at) ==
    /\ s \in Seq(Page)
    /\ \A k \in DOMAIN s : IsSlice(s[k]) /\ s[k].len > 0 /\ s[k].to <= at
    /\ \A k, l \in DOMAIN s : k < l => s[k].to <= s[l].from

SliceInv ==
    /\ PagTypeOK
    /\ block <= Len(text) => text[block][1] <= rest /\ rest <= text[block][2]
    /\ IsSlice(current)
    /\ current.len > 0 => current.to = rest - 2
    /\ block # Len(text) + 2 =>
           /\ InOrder(pages, rest)
           /\ current.len > 0 => InOrder(pages, current.from)
    /\ block = Len(text) + 2 => PagesFit /\ PagesAreSlices /\ pages # << >>

\* What Append does to a sequence of pages.
LEMMA AppendPage ==
    ASSUME NEW s \in Seq(Page), NEW p \in Page
    PROVE  /\ Append(s, p) \in Seq(Page)
           /\ Len(Append(s, p)) = Len(s) + 1
           /\ DOMAIN s = 1 .. Len(s)
           /\ DOMAIN Append(s, p) = 1 .. Len(s) + 1
           /\ \A k \in DOMAIN s : Append(s, p)[k] = s[k]
           /\ Append(s, p)[Len(s) + 1] = p
  BY AppendProperties

\* The pages of a sequence of pages have the types of their fields.
LEMMA PageFields ==
    ASSUME NEW s \in Seq(Page)
    PROVE  \A k \in DOMAIN s : /\ s[k] \in Page
                               /\ s[k].from \in Nat /\ s[k].to \in Nat /\ s[k].len \in Nat
<1> SUFFICES ASSUME NEW k \in DOMAIN s
             PROVE  s[k] \in Page
  BY DEF Page
<1> QED  BY ElementOfSeq, LenProperties

\* A page that starts where the others end may follow them.
LEMMA AppendInOrder ==
    ASSUME NEW s, NEW at \in Nat, InOrder(s, at),
           NEW p \in Page, IsSlice(p), p.len > 0, at <= p.from
    PROVE  InOrder(Append(s, p), p.to)
<1>1. s \in Seq(Page) /\ Len(s) \in Nat
  BY DEF InOrder
<1> DEFINE t == Append(s, p)
<1>2. /\ t \in Seq(Page)
      /\ DOMAIN s = 1 .. Len(s) /\ DOMAIN t = 1 .. Len(s) + 1
      /\ \A k \in DOMAIN s : t[k] = s[k]
      /\ t[Len(s) + 1] = p
  BY <1>1, AppendPage
<1> HIDE DEF t
<1>3. p.from \in Nat /\ p.to \in Nat /\ p.len \in Nat /\ p.from <= p.to
  BY DEF Page, IsSlice
<1>4. \A k \in DOMAIN s : s[k] \in Page /\ s[k].to \in Nat
  BY <1>1, PageFields
<1>5. ASSUME NEW k \in DOMAIN t
      PROVE  IsSlice(t[k]) /\ t[k].len > 0 /\ t[k].to <= p.to
  <2>1. CASE k = Len(s) + 1
    BY <2>1, <1>2, <1>3
  <2>2. CASE k \in DOMAIN s
    BY <2>2, <1>2, <1>3, <1>4 DEF InOrder
  <2> QED  BY <2>1, <2>2, <1>1, <1>2
<1>6. ASSUME NEW k \in DOMAIN t, NEW l \in DOMAIN t, k < l
      PROVE  t[k].to <= t[l].from
  <2>1. k \in DOMAIN s
    BY <1>6, <1>1, <1>2
  <2>2. CASE l = Len(s) + 1
    BY <2>1, <2>2, <1>2, <1>3, <1>4 DEF InOrder
  <2>3. CASE l \in DOMAIN s
    BY <2>1, <2>3, <1>2, <1>6 DEF InOrder
  <2> QED  BY <2>2, <2>3, <1>1, <1>2
<1> QED  BY <1>2, <1>5, <1>6 DEF InOrder, t

\* The bound of InOrder may be raised.
LEMMA InOrderUpTo ==
    ASSUME NEW s, NEW at \in Nat, NEW upTo \in Nat, InOrder(s, at), at <= upTo
    PROVE  InOrder(s, upTo)
<1>1. \A k \in DOMAIN s : s[k].to \in Nat
  BY PageFields DEF InOrder
<1> QED  BY <1>1 DEF InOrder

\* Full pages in order are what the properties ask for.
LEMMA InOrderIsSliced ==
    ASSUME NEW at, InOrder(pages, at)
    PROVE  PagesFit /\ PagesAreSlices
<1>1. \A k \in DOMAIN pages : pages[k].len \in Nat
  BY PageFields DEF InOrder
<1> QED  BY <1>1 DEF InOrder, IsSlice, PagesFit, PagesAreSlices

\* The types of what the loop works on.
LEMMA LoopTypes ==
    ASSUME SliceInv
    PROVE  /\ Len(text) \in Nat /\ block \in Nat /\ rest \in Nat /\ shown \in Nat
           /\ current \in Page
           /\ current.from \in Nat /\ current.to \in Nat /\ current.len \in Nat
           /\ PageSize \in Nat /\ PageSize > 0
           /\ DOMAIN text = 1 .. Len(text)
           /\ pages \in Seq(Page) /\ Len(pages) \in Nat
           /\ shown \in 0 .. Len(pages)
<1>1. text \in Seq(Nat \X Nat)
  BY DEF SliceInv, PagTypeOK, IsText
<1>2. Len(text) \in Nat /\ DOMAIN text = 1 .. Len(text)
  BY <1>1, LenProperties
<1>3. pages \in Seq(Page) /\ Len(pages) \in Nat
  BY LenProperties DEF SliceInv, PagTypeOK
<1>4. current \in Page
  BY DEF SliceInv, PagTypeOK
<1>5. current.from \in Nat /\ current.to \in Nat /\ current.len \in Nat
  BY <1>4 DEF Page
<1>6. PageSize \in Nat /\ PageSize > 0
  BY PageSizeAssumption
<1>7. rest \in Nat /\ block \in 1 .. Len(text) + 2 /\ shown \in 0 .. Len(pages)
  BY DEF SliceInv, PagTypeOK
<1> QED  BY <1>2, <1>3, <1>4, <1>5, <1>6, <1>7

\* While it loops, what is left of the block is in the block, and the next
\* block starts two characters after it.
LEMMA InBlock ==
    ASSUME SliceInv, Looping
    PROVE  /\ text[block][1] \in Nat /\ BlockEnd \in Nat
           /\ text[block][1] <= rest /\ rest <= BlockEnd
           /\ RestLength \in Nat
           /\ block \in 1 .. Len(text)
           /\ block + 1 <= Len(text) =>
                  /\ text[block + 1][1] = BlockEnd + 2
                  /\ text[block + 1][2] \in Nat
                  /\ text[block + 1][1] <= text[block + 1][2]
<1>1. text \in Seq(Nat \X Nat) /\ block \in 1 .. Len(text)
  BY LoopTypes DEF SliceInv, PagTypeOK, IsText, Looping
<1>2. text[block] \in Nat \X Nat
  BY <1>1, ElementOfSeq
<1>3. text[block][1] \in Nat /\ BlockEnd \in Nat
  BY <1>2 DEF BlockEnd
<1>4. text[block][1] <= rest /\ rest <= BlockEnd
  BY <1>1, LoopTypes DEF SliceInv, BlockEnd
<1>5. RestLength \in Nat
  BY <1>3, <1>4, LoopTypes DEF RestLength
<1>6. ASSUME block + 1 <= Len(text)
      PROVE  /\ text[block + 1][1] = BlockEnd + 2
             /\ text[block + 1][2] \in Nat
             /\ text[block + 1][1] <= text[block + 1][2]
  <2>1. block + 1 \in 1 .. Len(text) /\ block + 1 \in DOMAIN text /\ block \in DOMAIN text
    BY <1>1, <1>6, LoopTypes
  <2>2. text[block + 1] \in Nat \X Nat
    BY <1>1, <2>1, ElementOfSeq
  <2> QED  BY <2>1, <2>2 DEF SliceInv, PagTypeOK, IsText, BlockEnd
<1> QED  BY <1>1, <1>3, <1>4, <1>5, <1>6

\* Finishing the page being filled keeps the pages in order.
LEMMA FlushedInOrder ==
    ASSUME SliceInv, block # Len(text) + 2
    PROVE  InOrder(Flushed, rest)
<1>1. CASE current.len > 0
  <2>1. InOrder(Append(pages, current), current.to)
    <3>1. InOrder(pages, current.from) /\ IsSlice(current)
      BY <1>1 DEF SliceInv
    <3>2. current.from <= current.from
      BY LoopTypes
    <3> QED  BY <1>1, <3>1, <3>2, LoopTypes, AppendInOrder
  <2>2. current.to <= rest
    BY <1>1, LoopTypes DEF SliceInv
  <2> QED  BY <1>1, <2>1, <2>2, LoopTypes, InOrderUpTo DEF Flushed
<1>2. CASE ~(current.len > 0)
  BY <1>2 DEF Flushed, SliceInv
<1> QED  BY <1>1, <1>2

LEMMA SliceInit == PagInit => SliceInv
<1> SUFFICES ASSUME PagInit PROVE SliceInv
  OBVIOUS
<1>1. IsText(text)
  BY TextsAssumption DEF PagInit
<1>2. text \in Seq(Nat \X Nat) /\ text # << >>
  BY <1>1 DEF IsText
<1>3. Len(text) \in Nat /\ Len(text) > 0 /\ DOMAIN text = 1 .. Len(text)
  BY <1>2, EmptySeq, LenProperties
<1>4. current \in Page /\ current.len = 0 /\ IsSlice(current)
  BY PageSizeAssumption DEF PagInit, Blank, Page, IsSlice
<1>5. pages \in Seq(Page) /\ Len(pages) = 0 /\ DOMAIN pages = {} /\ InOrder(pages, rest)
  BY DEF PagInit, InOrder
<1>6. PagTypeOK
  BY <1>1, <1>3, <1>4, <1>5 DEF PagTypeOK, PagInit
<1>7. text[block][1] <= rest /\ rest <= text[block][2]
  <2>1. text[1] \in Nat \X Nat
    BY <1>2, <1>3, ElementOfSeq
  <2> QED  BY <1>1, <1>3, <2>1 DEF PagInit, IsText
<1>8. block # Len(text) + 2
  BY <1>3 DEF PagInit
<1> QED  BY <1>4, <1>5, <1>6, <1>7, <1>8 DEF SliceInv

\* Cutting a block keeps the pages in order: the cut starts where the others
\* end.
LEMMA SliceHardSplit ==
    ASSUME SliceInv, HardSplit
    PROVE  SliceInv'
<1> DEFINE cut == [from |-> rest, to |-> rest + PageSize, len |-> PageSize]
<1>1. /\ pages' = Append(Flushed, cut) /\ current' = Blank(rest + PageSize)
      /\ rest' = rest + PageSize /\ text' = text /\ block' = block /\ shown' = shown
      /\ Looping /\ RestLength > PageSize
  BY DEF HardSplit
<1>2. cut \in Page /\ IsSlice(cut) /\ cut.len > 0 /\ cut.from = rest /\ cut.to = rest'
  BY <1>1, LoopTypes DEF Page, IsSlice
<1>3. block # Len(text) + 2 /\ block <= Len(text)
  BY <1>1, InBlock, LoopTypes
<1>4. InOrder(Flushed, rest) /\ Flushed \in Seq(Page)
  BY <1>3, FlushedInOrder DEF InOrder
<1>5. InOrder(pages', rest')
  <2>1. rest <= cut.from
    BY <1>2, LoopTypes
  <2> QED  BY <1>1, <1>2, <1>4, <2>1, LoopTypes, AppendInOrder, Zenon
<1>6. current' \in Page /\ current'.len = 0 /\ IsSlice(current')
  BY <1>1, LoopTypes DEF Blank, Page, IsSlice
<1>7. Len(pages') \in Nat /\ Len(pages') >= Len(pages) /\ pages' \in Seq(Page)
  <2>1. Len(Flushed) \in Nat /\ Len(Flushed) >= Len(pages)
    BY <1>4, LoopTypes, AppendPage, LenProperties DEF Flushed
  <2> QED  BY <1>1, <1>2, <1>4, <2>1, AppendPage
<1>8. PagTypeOK'
  BY <1>1, <1>6, <1>7, LoopTypes DEF PagTypeOK, SliceInv
<1>9. text'[block'][1] <= rest' /\ rest' <= text'[block'][2]
  <2>1. /\ rest \in Nat /\ PageSize \in Nat /\ BlockEnd \in Nat
        /\ text[block][1] \in Nat /\ text[block][1] <= rest
    BY <1>1, InBlock, LoopTypes
  <2>2. BlockEnd - rest > PageSize
    BY <1>1 DEF RestLength
  <2>3. rest + PageSize <= BlockEnd /\ text[block][1] <= rest + PageSize
    BY <2>1, <2>2
  <2> QED  BY <1>1, <2>3 DEF BlockEnd
<1> QED  BY <1>1, <1>3, <1>5, <1>6, <1>8, <1>9 DEF SliceInv, InOrder, IsSlice

\* A block that joins the page or starts one keeps the pages in order: a page
\* that would grow too long is full, and ends before the block.
LEMMA SliceTakeBlock ==
    ASSUME SliceInv, TakeBlock
    PROVE  SliceInv'
<1>1. /\ Looping /\ RestLength <= PageSize
      /\ block' = block + 1 /\ rest' = BlockEnd + 2 /\ text' = text /\ shown' = shown
  BY DEF TakeBlock
<1>2. block # Len(text) + 2 /\ block <= Len(text) /\ BlockEnd \in Nat /\ RestLength \in Nat
      /\ rest <= BlockEnd
  BY <1>1, InBlock, LoopTypes
<1>3. TheRest \in Page /\ IsSlice(TheRest) /\ TheRest.to = BlockEnd
      /\ TheRest.len = RestLength /\ TheRest.from = rest
  BY <1>1, <1>2, LoopTypes DEF TheRest, Page, IsSlice, RestLength
<1>4. CASE Candidate.len > PageSize
  <2>1. pages' = Append(pages, current) /\ current' = TheRest
    BY <1>4 DEF TakeBlock
  <2>2. current.len > 0
    BY <1>1, <1>2, <1>3, <1>4, LoopTypes DEF Candidate
  <2>3. InOrder(pages', rest)
    BY <1>2, <2>1, <2>2, FlushedInOrder DEF Flushed
  <2>4. InOrder(pages', rest')
    BY <1>1, <1>2, <2>3, LoopTypes, InOrderUpTo
  <2>5. Len(pages') = Len(pages) + 1 /\ pages' \in Seq(Page)
    BY <2>1, LoopTypes, AppendPage
  <2>6. PagTypeOK'
    BY <1>1, <1>2, <1>3, <2>1, <2>5, LoopTypes DEF PagTypeOK, SliceInv
  <2>7. block' <= Len(text') => text'[block'][1] <= rest' /\ rest' <= text'[block'][2]
    BY <1>1, InBlock, LoopTypes
  <2>8. IsSlice(current)' /\ (current.len > 0 => current.to = rest - 2)'
    BY <1>1, <1>2, <1>3, <2>1, LoopTypes, SMTT(20) DEF IsSlice
  <2>9. block' # Len(text') + 2
    BY <1>1, <1>2, LoopTypes
  <2>10. InOrder(pages', current'.from)
    BY <1>3, <2>1, <2>3
  <2> QED  BY <2>4, <2>6, <2>7, <2>8, <2>9, <2>10 DEF SliceInv, InOrder
<1>5. CASE ~(Candidate.len > PageSize)
  <2>1. pages' = pages /\ current' = Candidate
    BY <1>5 DEF TakeBlock
  <2>2. /\ Candidate \in Page /\ Candidate.to = BlockEnd
        /\ Candidate.len = Candidate.to - Candidate.from
        /\ current.len = 0 => Candidate.from = rest
        /\ current.len > 0 => Candidate.from = current.from
    <3>1. CASE current.len = 0
      BY <1>3, <3>1 DEF Candidate, IsSlice
    <3>2. CASE current.len > 0
      <4>1. Candidate = [from |-> current.from, to |-> BlockEnd,
                         len |-> current.len + 2 + RestLength]
        BY <3>2, LoopTypes DEF Candidate
      <4>2. current.len = current.to - current.from /\ current.to = rest - 2
        BY <3>2 DEF SliceInv, IsSlice
      <4>3. Candidate.to = BlockEnd /\ Candidate.from = current.from
            /\ Candidate.len = current.len + 2 + RestLength
        BY <4>1
      <4>4. Candidate \in Page
        BY <1>2, <4>1, LoopTypes DEF Page
      <4>5. Candidate.len = Candidate.to - Candidate.from
        <5>1. current.from \in Nat /\ current.to \in Nat /\ current.len \in Nat
              /\ rest \in Nat /\ BlockEnd \in Nat
          BY <1>2, LoopTypes
        <5>2. current.len + 2 + (BlockEnd - rest) = BlockEnd - current.from
          BY <4>2, <5>1
        <5> QED  BY <4>3, <5>2 DEF RestLength
      <4> QED  BY <3>2, <4>3, <4>4, <4>5
    <3> QED  BY <3>1, <3>2, LoopTypes
  <2>3. Candidate.len <= PageSize /\ Candidate.len \in Nat
    BY <1>5, <2>2, LoopTypes DEF Page
  <2>4. InOrder(pages, rest) /\ (current.len > 0 => InOrder(pages, current.from))
    BY <1>2 DEF SliceInv
  <2>5. InOrder(pages', rest')
    BY <1>1, <1>2, <2>1, <2>4, LoopTypes, InOrderUpTo
  <2>6. InOrder(pages', current'.from)
    BY <2>1, <2>2, <2>4, LoopTypes
  <2>7. PagTypeOK'
    BY <1>1, <1>2, <2>1, <2>2, LoopTypes DEF PagTypeOK, SliceInv
  <2>8. block' <= Len(text') => text'[block'][1] <= rest' /\ rest' <= text'[block'][2]
    BY <1>1, InBlock, LoopTypes
  <2>9. IsSlice(current)' /\ (current.len > 0 => current.to = rest - 2)'
    BY <1>1, <1>2, <2>1, <2>2, <2>3, LoopTypes DEF IsSlice
  <2>10. block' # Len(text') + 2
    BY <1>1, <1>2, LoopTypes
  <2> QED  BY <2>5, <2>6, <2>7, <2>8, <2>9, <2>10 DEF SliceInv, InOrder
<1> QED  BY <1>4, <1>5

\* The last page is finished, if there is anything in it or nothing else.
LEMMA SliceLastPage ==
    ASSUME SliceInv, LastPage
    PROVE  SliceInv'
<1>1. /\ block = Len(text) + 1 /\ block' = block + 1 /\ text' = text
      /\ rest' = rest /\ current' = current /\ shown' = shown
      /\ pages' = IF current.len > 0 \/ pages = << >>
                  THEN Append(pages, current) ELSE pages
  BY DEF LastPage
<1>2. block # Len(text) + 2 /\ block' = Len(text') + 2
  BY <1>1, LoopTypes
<1>3. pages' \in Seq(Page) /\ Len(pages') \in Nat /\ Len(pages') >= Len(pages)
  BY <1>1, LoopTypes, AppendPage
<1>4. PagTypeOK'
  BY <1>1, <1>2, <1>3, LoopTypes DEF PagTypeOK, SliceInv
<1>5. (PagesFit /\ PagesAreSlices)'
  <2>1. CASE current.len > 0 \/ pages # << >>
    <3>1. pages' = Flushed
      BY <1>1, <2>1, LoopTypes DEF Flushed
    <3>2. InOrder(pages', rest)
      BY <1>2, <3>1, FlushedInOrder
    <3>3. \A k \in DOMAIN pages' : pages'[k].len \in Nat
      BY <1>3, PageFields
    <3> QED  BY <3>2, <3>3 DEF InOrder, IsSlice, PagesFit, PagesAreSlices
  <2>2. CASE pages = << >>
    <3>1. pages' = Append(pages, current) /\ Len(pages) = 0
      BY <1>1, <2>2
    <3>2. Len(pages') = 1 /\ DOMAIN pages' = 1 .. 1 /\ pages'[1] = current
      BY <3>1, LoopTypes, AppendPage
    <3>3. IsSlice(current)
      BY DEF SliceInv
    <3>4. \A k \in DOMAIN pages' : k = 1
      BY <3>2
    <3> QED  BY <3>2, <3>3, <3>4 DEF IsSlice, PagesFit, PagesAreSlices
  <2> QED  BY <2>1, <2>2
<1>6. ~(block' <= Len(text'))
  BY <1>1, <1>2, LoopTypes
<1>7. pages' # << >>
  BY <1>1, LoopTypes, AppendPage, EmptySeq
<1> QED  BY <1>1, <1>2, <1>4, <1>5, <1>6, <1>7 DEF SliceInv, IsSlice

LEMMA SliceShowPage ==
    ASSUME SliceInv, ShowPage
    PROVE  SliceInv'
<1>1. /\ block = Len(text) + 2 /\ text' = text /\ block' = block /\ rest' = rest
      /\ current' = current /\ pages' = pages /\ shown' = shown + 1
  BY DEF ShowPage, Paginated
<1>2. shown' \in 0 .. Len(pages)
  <2>1. CASE shown = 0
    <3>1. Len(pages) > 0
      BY <1>1, LoopTypes, EmptySeq DEF SliceInv
    <3> QED  BY <1>1, <2>1, <3>1
  <2>2. CASE HasNext(shown, Len(pages))
    BY <1>1, <2>2, LoopTypes, SMTT(20) DEF HasNext
  <2> QED  BY <2>1, <2>2 DEF ShowPage
<1> QED  BY <1>1, <1>2 DEF SliceInv, PagTypeOK, InOrder, IsSlice, PagesFit, PagesAreSlices

LEMMA SliceNext == SliceInv /\ [PagNext]_pagVars => SliceInv'
<1> SUFFICES ASSUME SliceInv, [PagNext]_pagVars
             PROVE  SliceInv'
  OBVIOUS
<1>1. CASE UNCHANGED pagVars
  BY <1>1 DEF pagVars, SliceInv, PagTypeOK, InOrder, IsSlice, PagesFit, PagesAreSlices
<1> QED
  BY <1>1, SliceHardSplit, SliceTakeBlock, SliceLastPage, SliceShowPage DEF PagNext

LEMMA SliceInvariant == PagSpec => []SliceInv
  BY SliceInit, SliceNext, PTL DEF PagSpec

\* The reader who follows next_page is never sent past the last page.
THEOREM PagTypesHold == PagSpec => []PagTypeOK
<1>1. SliceInv => PagTypeOK
  BY DEF SliceInv
<1> QED  BY <1>1, SliceInvariant, PTL

\* paginate never returns a page longer than page_size.
THEOREM PagesFitHolds == PagSpec => []PagesFit
<1>1. SliceInv => PagesFit
  <2> SUFFICES ASSUME SliceInv PROVE PagesFit
    OBVIOUS
  <2>1. CASE block # Len(text) + 2
    BY <2>1, InOrderIsSliced DEF SliceInv
  <2>2. CASE block = Len(text) + 2
    BY <2>2 DEF SliceInv
  <2> QED  BY <2>1, <2>2
<1> QED  BY <1>1, SliceInvariant, PTL

\* The pages paginate returns are pieces of the content, in its order.
THEOREM PagesAreSlicesHolds == PagSpec => []PagesAreSlices
<1>1. SliceInv => PagesAreSlices
  <2> SUFFICES ASSUME SliceInv PROVE PagesAreSlices
    OBVIOUS
  <2>1. CASE block # Len(text) + 2
    BY <2>1, InOrderIsSliced DEF SliceInv
  <2>2. CASE block = Len(text) + 2
    BY <2>2 DEF SliceInv
  <2> QED  BY <2>1, <2>2
<1> QED  BY <1>1, SliceInvariant, PTL

-----------------------------------------------------------------------------
(***************************************************************************)
(* Nothing is lost: what the loop is through with is on a page or in the   *)
(* page being filled, blocks that fit as one piece.                        *)
(***************************************************************************)
\* Where the characters are that the loop is through with.
Within(p, from, to) == p.from <= from /\ to <= p.to

OnAPage(from, to) == \E k \in DOMAIN pages : Within(pages[k], from, to)

Held(from, to) ==
    \/ OnAPage(from, to)
    \/ block # Len(text) + 2 /\ current.len > 0 /\ Within(current, from, to)

Fits(b) == text[b][2] - text[b][1] <= PageSize

\* What the loop has done with one block.
CoverOf(b) ==
    /\ b < block /\ Fits(b) => Held(text[b][1], text[b][2])
    /\ b < block /\ ~Fits(b) =>
           \A c \in text[b][1] .. text[b][2] - 1 : Held(c, c + 1)
    /\ b = block /\ Fits(b) => rest = text[b][1]
    /\ b = block /\ ~Fits(b) =>
           \A c \in text[b][1] .. rest - 1 : OnAPage(c, c + 1)

CoverInv == \A b \in DOMAIN text : text[b][1] < text[b][2] => CoverOf(b)

\* Finished pages stay.
LEMMA PagesStay ==
    ASSUME SliceInv, [PagNext]_pagVars
    PROVE  \A k \in DOMAIN pages : k \in DOMAIN pages' /\ pages'[k] = pages[k]
<1>1. CASE HardSplit
  <2> DEFINE cut == [from |-> rest, to |-> rest + PageSize, len |-> PageSize]
  <2>1. pages' = Append(Flushed, cut) /\ cut \in Page
    BY <1>1, LoopTypes DEF HardSplit, Page
  <2>2. Flushed \in Seq(Page)
        /\ \A k \in DOMAIN pages : k \in DOMAIN Flushed /\ Flushed[k] = pages[k]
    BY LoopTypes, AppendPage DEF Flushed
  <2>3. \A k \in DOMAIN Flushed : k \in DOMAIN pages' /\ pages'[k] = Flushed[k]
    <3>1. Len(Flushed) \in Nat
      BY <2>2, LenProperties
    <3> HIDE DEF cut
    <3> QED  BY <2>1, <2>2, <3>1, AppendPage
  <2> QED  BY <2>2, <2>3
<1>2. CASE pages' = Append(pages, current)
  BY <1>2, LoopTypes, AppendPage
<1>3. CASE pages' = pages
  BY <1>3
<1> QED  BY <1>1, <1>2, <1>3 DEF PagNext, TakeBlock, LastPage, ShowPage, pagVars

\* The page being filled is finished as it is, or grows at its end.
LEMMA CurrentStays ==
    ASSUME SliceInv, [PagNext]_pagVars, block # Len(text) + 2, current.len > 0
    PROVE  \/ \E k \in DOMAIN pages' : pages'[k] = current
           \/ /\ block' # Len(text') + 2 /\ current'.len > 0
              /\ current'.from = current.from /\ current.to <= current'.to
<1> DEFINE last == Len(pages) + 1
<1>1. CASE HardSplit
  <2> DEFINE cut == [from |-> rest, to |-> rest + PageSize, len |-> PageSize]
  <2>1. pages' = Append(Append(pages, current), cut) /\ cut \in Page
    BY <1>1, LoopTypes DEF HardSplit, Flushed, Page
  <2> HIDE DEF cut
  <2>2. /\ Append(pages, current) \in Seq(Page)
        /\ last \in DOMAIN Append(pages, current)
        /\ Append(pages, current)[last] = current
        /\ Len(Append(pages, current)) \in Nat
    BY LoopTypes, AppendPage
  <2>3. last \in DOMAIN pages' /\ pages'[last] = current
    BY <2>1, <2>2, AppendPage
  <2> QED  BY <2>3
<1>2. CASE pages' = Append(pages, current)
  <2>1. last \in DOMAIN pages' /\ pages'[last] = current
    BY <1>2, LoopTypes, AppendPage
  <2> QED  BY <2>1
<1>3. CASE TakeBlock /\ pages' # Append(pages, current)
  <2>1. /\ current' = Candidate /\ block' = block + 1 /\ text' = text
        /\ Looping
    BY <1>3 DEF TakeBlock
  <2>2. block' # Len(text') + 2 /\ BlockEnd \in Nat /\ rest <= BlockEnd /\ RestLength \in Nat
    BY <2>1, LoopTypes, InBlock
  <2>3. Candidate = [from |-> current.from, to |-> BlockEnd,
                     len |-> current.len + 2 + RestLength]
    BY LoopTypes DEF Candidate
  <2>4. current.to <= BlockEnd
    BY <2>2, LoopTypes DEF SliceInv
  <2>5. current'.len > 0 /\ current'.from = current.from /\ current'.to = BlockEnd
    BY <2>1, <2>2, <2>3, LoopTypes
  <2> QED  BY <2>2, <2>4, <2>5
<1>4. CASE UNCHANGED pagVars
  BY <1>4, LoopTypes DEF pagVars
<1>5. CASE ShowPage
  BY <1>5 DEF ShowPage, Paginated
<1>6. CASE LastPage
  BY <1>2, <1>6 DEF LastPage
<1> QED  BY <1>1, <1>2, <1>3, <1>4, <1>5, <1>6 DEF PagNext

\* What is held stays held.
LEMMA HeldStays ==
    ASSUME SliceInv, [PagNext]_pagVars, NEW from \in Int, NEW to \in Int
    PROVE  /\ OnAPage(from, to) => OnAPage(from, to)'
           /\ Held(from, to) => Held(from, to)'
<1>1. OnAPage(from, to) => OnAPage(from, to)'
  BY PagesStay DEF OnAPage, Within
<1>2. ASSUME block # Len(text) + 2, current.len > 0, Within(current, from, to)
      PROVE  Held(from, to)'
  <2>1. CASE \E k \in DOMAIN pages' : pages'[k] = current
    BY <1>2, <2>1 DEF Held, OnAPage, Within
  <2>2. CASE /\ block' # Len(text') + 2 /\ current'.len > 0
             /\ current'.from = current.from /\ current.to <= current'.to
    <3>1. current'.to \in Nat /\ current.to \in Nat
      BY SliceNext, LoopTypes DEF SliceInv, PagTypeOK, Page
    <3> QED  BY <1>2, <2>2, <3>1 DEF Held, Within
  <2> QED  BY <1>2, <2>1, <2>2, CurrentStays
<1> QED  BY <1>1, <1>2 DEF Held

\* The block an iteration takes is in the page being filled.
LEMMA TakenIsHeld ==
    ASSUME SliceInv, TakeBlock,
           NEW from \in Int, NEW to \in Int, rest <= from, from < to, to <= BlockEnd
    PROVE  Held(from, to)'
<1>1. Looping /\ block' = block + 1 /\ text' = text
  BY DEF TakeBlock
<1>2. block' # Len(text') + 2 /\ BlockEnd \in Nat /\ RestLength \in Nat
  BY <1>1, LoopTypes, InBlock
<1>3. RestLength > 0
  BY <1>2, LoopTypes DEF RestLength
<1>4. current'.len > 0 /\ current'.from <= rest /\ current'.to = BlockEnd
  <2>1. CASE current' = TheRest
    BY <1>2, <1>3, <2>1, LoopTypes DEF TheRest
  <2>2. CASE current' = Candidate /\ current.len > 0
    <3>1. Candidate = [from |-> current.from, to |-> BlockEnd,
                       len |-> current.len + 2 + RestLength]
      BY <2>2, LoopTypes DEF Candidate
    <3>2. current.from <= rest
      BY <2>2, LoopTypes DEF SliceInv, IsSlice
    <3> QED  BY <1>2, <2>2, <3>1, <3>2, LoopTypes, SMTT(20)
  <2>3. CASE current' = Candidate /\ ~(current.len > 0)
    BY <2>1, <2>3, LoopTypes DEF Candidate
  <2> QED  BY <2>1, <2>2, <2>3 DEF TakeBlock
<1>5. current'.from \in Nat
  BY SliceNext, LoopTypes DEF SliceInv, PagTypeOK, Page, PagNext
<1> QED  BY <1>2, <1>4, <1>5, LoopTypes DEF Held, Within

\* The piece a hard split cuts off is on a page.
LEMMA CutIsOnAPage ==
    ASSUME SliceInv, HardSplit, NEW c \in Int, rest <= c, c < rest + PageSize
    PROVE  OnAPage(c, c + 1)'
<1> DEFINE cut == [from |-> rest, to |-> rest + PageSize, len |-> PageSize]
<1>1. pages' = Append(Flushed, cut) /\ cut \in Page /\ Looping
  BY LoopTypes DEF HardSplit, Page
<1>2. block # Len(text) + 2
  BY <1>1, InBlock, LoopTypes
<1>3. Flushed \in Seq(Page) /\ Len(Flushed) \in Nat
  BY <1>2, FlushedInOrder, LenProperties DEF InOrder
<1>4. Len(Flushed) + 1 \in DOMAIN pages' /\ pages'[Len(Flushed) + 1] = cut
  <2> HIDE DEF cut
  <2> QED  BY <1>1, <1>3, AppendPage
<1>5. cut.from <= c /\ c + 1 <= cut.to
  BY LoopTypes
<1> QED  BY <1>4, <1>5 DEF OnAPage, Within

LEMMA CoverInit == PagInit => CoverInv
<1> SUFFICES ASSUME PagInit PROVE CoverInv
  OBVIOUS
<1>1. SliceInv
  BY SliceInit
<1>2. text[1][1] = 0
  BY <1>1 DEF SliceInv, PagTypeOK, IsText
<1>3. \A b \in DOMAIN text : b \in Nat /\ b >= block /\ (b = block => rest = text[b][1])
  BY <1>1, <1>2, LoopTypes DEF PagInit
<1> SUFFICES ASSUME NEW b \in DOMAIN text
             PROVE  /\ ~(b < block)
                    /\ b = block => rest = text[b][1] /\ text[b][1] .. rest - 1 = {}
  BY DEF CoverInv, CoverOf
<1> QED  BY <1>1, <1>2, <1>3, LoopTypes DEF PagInit

LEMMA CoverNext == SliceInv /\ CoverInv /\ [PagNext]_pagVars => CoverInv'
<1> SUFFICES ASSUME SliceInv, CoverInv, [PagNext]_pagVars
             PROVE  CoverInv'
  OBVIOUS
<1>1. text' = text
  BY DEF PagNext, HardSplit, TakeBlock, LastPage, ShowPage, pagVars
<1> SUFFICES ASSUME NEW b \in DOMAIN text, text[b][1] < text[b][2]
             PROVE  CoverOf(b)'
  BY <1>1 DEF CoverInv
<1>2. CoverOf(b)
  BY DEF CoverInv
<1>3. b \in Nat /\ b <= Len(text) /\ text[b][1] \in Nat /\ text[b][2] \in Nat
  <2>1. text \in Seq(Nat \X Nat) /\ b \in 1 .. Len(text)
    BY LoopTypes, Zenon DEF SliceInv, PagTypeOK, IsText
  <2>2. text[b] \in Nat \X Nat
    BY <2>1, ElementOfSeq
  <2> QED  BY <2>1, <2>2, LoopTypes
<1>4. Fits(b)' = Fits(b)
  BY <1>1, SMTT(20) DEF Fits
<1>5. CASE UNCHANGED pagVars
  BY <1>2, <1>5 DEF pagVars, CoverOf, Fits, Held, OnAPage
<1>6. ASSUME PagNext PROVE block' = block \/ block' = block + 1
  BY <1>6 DEF PagNext, HardSplit, TakeBlock, LastPage, ShowPage
<1>7. CASE PagNext /\ b < block
  <2>1. b < block' /\ b # block'
    BY <1>3, <1>7, <1>6, LoopTypes
  <2>2. Fits(b) => Held(text[b][1], text[b][2])'
    <3> SUFFICES ASSUME Fits(b) PROVE Held(text[b][1], text[b][2])'
      OBVIOUS
    <3>1. PICK from \in Int, to \in Int : from = text[b][1] /\ to = text[b][2]
      BY <1>3
    <3>2. Held(from, to)
      BY <1>2, <1>7, <3>1 DEF CoverOf
    <3>3. Held(from, to)'
      BY <3>2, HeldStays
    <3> QED  BY <1>1, <3>1, <3>3 DEF Held, OnAPage
  <2>3. ~Fits(b) => \A c \in text[b][1] .. text[b][2] - 1 : Held(c, c + 1)'
    <3> SUFFICES ASSUME ~Fits(b), NEW c \in text[b][1] .. text[b][2] - 1
                 PROVE  Held(c, c + 1)'
      OBVIOUS
    <3>1. c \in Int /\ c + 1 \in Int
      BY <1>3
    <3>2. Held(c, c + 1)
      BY <1>2, <1>7 DEF CoverOf
    <3> QED  BY <3>1, <3>2, HeldStays
  <2> QED  BY <1>1, <1>4, <2>1, <2>2, <2>3, Zenon DEF CoverOf
<1>8. CASE HardSplit /\ b = block
  <2>1. /\ block' = block /\ rest' = rest + PageSize /\ Looping /\ RestLength > PageSize
        /\ BlockEnd = text[b][2]
    BY <1>8 DEF HardSplit, BlockEnd
  <2>2. ~Fits(b)
    BY <1>2, <1>3, <1>8, <2>1, LoopTypes DEF CoverOf, Fits, RestLength
  <2>3. ASSUME NEW c \in text[b][1] .. rest' - 1
        PROVE  OnAPage(c, c + 1)'
    <3>1. c \in Int /\ c + 1 \in Int /\ text[b][1] <= c /\ c < rest + PageSize
      BY <1>3, <2>1, LoopTypes
    <3>2. CASE c < rest
      <4>1. c \in text[b][1] .. rest - 1
        BY <1>3, <3>1, <3>2, LoopTypes
      <4>2. OnAPage(c, c + 1)
        BY <1>2, <1>8, <2>2, <4>1 DEF CoverOf
      <4> QED  BY <3>1, <4>2, HeldStays
    <3>3. CASE rest <= c
      BY <1>8, <3>1, <3>3, CutIsOnAPage
    <3> QED  BY <3>1, <3>2, <3>3, LoopTypes
  <2>4. ~(b < block') /\ b = block'
    BY <1>3, <1>8, <2>1
  <2> QED  BY <1>1, <1>4, <2>2, <2>3, <2>4 DEF CoverOf
<1>9. CASE TakeBlock /\ b = block
  <2>1. /\ block' = block + 1 /\ Looping /\ BlockEnd = text[b][2]
        /\ text[b][1] <= rest /\ rest <= BlockEnd
    BY <1>9, InBlock DEF TakeBlock, BlockEnd
  <2>2. ASSUME Fits(b)
        PROVE  Held(text[b][1], text[b][2])'
    <3>1. PICK from \in Int, to \in Int : from = text[b][1] /\ to = text[b][2]
      BY <1>3
    <3>2. rest <= from /\ from < to /\ to <= BlockEnd
      BY <1>2, <1>3, <1>9, <2>1, <2>2, <3>1, LoopTypes DEF CoverOf
    <3>3. Held(from, to)'
      BY <1>9, <3>2, TakenIsHeld
    <3> QED  BY <1>1, <3>1, <3>3 DEF Held, OnAPage
  <2>3. ASSUME ~Fits(b), NEW c \in text[b][1] .. text[b][2] - 1
        PROVE  Held(c, c + 1)'
    <3>1. c \in Int /\ c + 1 \in Int /\ text[b][1] <= c /\ c + 1 <= text[b][2] /\ c < c + 1
      BY <1>3
    <3>2. CASE c < rest
      <4>1. c \in text[b][1] .. rest - 1
        BY <1>3, <3>1, <3>2, LoopTypes
      <4>2. OnAPage(c, c + 1)
        BY <1>2, <1>9, <2>3, <4>1 DEF CoverOf
      <4> QED  BY <3>1, <4>2, HeldStays DEF Held
    <3>3. CASE rest <= c
      BY <1>9, <2>1, <3>1, <3>3, TakenIsHeld
    <3> QED  BY <3>1, <3>2, <3>3, LoopTypes
  <2>4. b < block' /\ b # block'
    BY <1>3, <1>9, <2>1
  <2> QED  BY <1>1, <1>4, <2>2, <2>3, <2>4 DEF CoverOf
<1>10. CASE PagNext /\ block < b
  <2>1. ~(b < block')
    BY <1>3, <1>10, <1>6, LoopTypes
  <2>2. ASSUME b = block'
        PROVE  rest' = text[b][1]
    <3>1. TakeBlock
      BY <1>3, <1>10, <2>2, LoopTypes DEF PagNext, HardSplit, LastPage, ShowPage
    <3>2. b = block + 1 /\ rest' = BlockEnd + 2 /\ Looping
      BY <2>2, <3>1 DEF TakeBlock
    <3> QED  BY <1>3, <3>2, InBlock
  <2>3. b = block' => text[b][1] .. rest' - 1 = {}
    BY <1>3, <2>2
  <2> QED  BY <1>1, <2>1, <2>2, <2>3 DEF CoverOf
<1>11. CASE LastPage \/ ShowPage
  <2>1. b < block
    BY <1>3, <1>11, LoopTypes DEF LastPage, ShowPage, Paginated
  <2> QED  BY <1>7, <1>11, <2>1, SMTT(20) DEF PagNext
<1> QED  BY <1>3, <1>5, <1>7, <1>8, <1>9, <1>10, <1>11, LoopTypes DEF PagNext

\* Nothing of the content is lost, and paragraphs that fit are not torn.
THEOREM ParagraphsKeptHolds == PagSpec => []ParagraphsKept
<1>1. SliceInv /\ CoverInv => ParagraphsKept
  <2> SUFFICES ASSUME SliceInv, CoverInv, Paginated
               PROVE  ParagraphsKept
    BY DEF ParagraphsKept
  <2> SUFFICES ASSUME NEW b \in DOMAIN text, text[b][1] < text[b][2]
               PROVE  /\ Fits(b) =>
                             \E k \in DOMAIN pages :
                                 pages[k].from <= text[b][1] /\ text[b][2] <= pages[k].to
                      /\ ~Fits(b) =>
                             \A c \in text[b][1] .. text[b][2] - 1 :
                                 \E k \in DOMAIN pages : pages[k].from <= c /\ c < pages[k].to
    BY DEF ParagraphsKept, Fits
  <2>1. block = Len(text) + 2 /\ b < block
    BY LoopTypes DEF Paginated
  <2>2. CASE Fits(b)
    BY <2>1, <2>2 DEF CoverInv, CoverOf, Held, OnAPage, Within
  <2>3. ASSUME ~Fits(b), NEW c \in text[b][1] .. text[b][2] - 1
        PROVE  \E k \in DOMAIN pages : pages[k].from <= c /\ c < pages[k].to
    <3>1. PICK k \in DOMAIN pages : pages[k].from <= c /\ c + 1 <= pages[k].to
      BY <2>1, <2>3 DEF CoverInv, CoverOf, Held, OnAPage, Within
    <3>2. text[b] \in Nat \X Nat
      BY LoopTypes, ElementOfSeq DEF SliceInv, PagTypeOK, IsText
    <3>3. c \in Int /\ pages[k].to \in Nat
      BY <3>2, LoopTypes, PageFields
    <3> QED  BY <3>1, <3>3
  <2> QED  BY <2>2, <2>3
<1> QED  BY <1>1, SliceInvariant, CoverInit, CoverNext, PTL DEF PagSpec
=============================================================================
