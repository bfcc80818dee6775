---------------------------- MODULE MigrateProofs ----------------------------
(***************************************************************************)
(* Proofs about Migrate, for every fan of the tables, every list of vmas   *)
(* and every set of pages: the walk visits the pages that have all their   *)
(* tables, keeps to the vmas of the process, and collects what was         *)
(* accessed.                                                               *)
(*                                                                         *)
(* Visits is a recursive function.  That it satisfies its equation is      *)
(* proved here, by approximating it in steps (SolvedTo): a round calls for *)
(* rounds of smaller Measure only.  What it returns follows by induction   *)
(* over the same measure.  The rest are invariants.                        *)
(***************************************************************************)
EXTENDS Migrate, MinFacts, SequenceTheorems, TLAPS

-----------------------------------------------------------------------------
(* Table entries.                                                          *)

\* What an entry spans, and the address space, are not empty.
LEMMA SpanFacts == \A l \in 1 .. Levels : Spans[l] \in Nat \ {0}
  BY MigrateAssumption DEF Spans, Levels

LEMMA SizeFacts == Size \in Nat \ {0}
  BY MigrateAssumption DEF Spans, Size

\* The quotient that the boundary is computed from, ...
LEMMA DivFacts ==
  ASSUME NEW s \in Nat \ {0}, NEW a \in Nat
  PROVE  a \div s \in Nat /\ s * (a \div s) <= a /\ a < s * (a \div s + 1)
  OBVIOUS

LEMMA MulMonotone ==
  ASSUME NEW s \in Nat, NEW a \in Nat, NEW b \in Nat, a <= b
  PROVE  s * a <= s * b
  OBVIOUS

\* ... which is the same for all addresses of one entry.
LEMMA DivUnique ==
  ASSUME NEW s \in Nat \ {0}, NEW a \in Nat, NEW q \in Nat,
         s * q <= a, a < s * (q + 1)
  PROVE  a \div s = q
<1> DEFINE r == a \div s
<1>1. r \in Nat /\ s * r <= a /\ a < s * (r + 1)
  BY DivFacts
<1> HIDE DEF r
<1>2. ~(r < q)
  <2> SUFFICES ASSUME r + 1 <= q PROVE FALSE
    BY <1>1
  <2>1. s * (r + 1) <= s * q
    BY <1>1, MulMonotone
  <2> QED
    BY <1>1, <2>1
<1>3. ~(q < r)
  <2> SUFFICES ASSUME q + 1 <= r PROVE FALSE
    BY <1>1
  <2>1. s * (q + 1) <= s * r
    BY <1>1, MulMonotone
  <2> QED
    BY <1>1, <2>1
<1>4. r = q
  BY <1>1, <1>2, <1>3
<1> QED
  BY <1>4 DEF r

\* The next address is further, not past the end, and in the same entry until then
\* (migrate.c:127, 146, 168).
LEMMA AddrEndFacts ==
  ASSUME NEW l \in 1 .. Levels, NEW addr \in Nat, NEW end \in Nat
  PROVE  /\ AddrEnd(l, addr, end) \in Nat
         /\ addr < end => /\ addr < AddrEnd(l, addr, end)
                          /\ AddrEnd(l, addr, end) <= end
                          /\ \A p \in addr .. AddrEnd(l, addr, end) - 1 :
                                p \div Spans[l] = addr \div Spans[l]
                          /\ l = Levels => AddrEnd(l, addr, end) = addr + 1
         /\ end <= addr => AddrEnd(l, addr, end) = end
<1> DEFINE s == Spans[l]
           q == addr \div s
           boundary == (q + 1) * s
<1>1. s \in Nat \ {0}
  BY SpanFacts
<1>2. q \in Nat /\ s * q <= addr /\ addr < s * (q + 1)
  BY <1>1, DivFacts
<1>3. l = Levels => s = 1
  BY DEF Spans, Levels
<1>4. AddrEnd(l, addr, end) = IF boundary < end THEN boundary ELSE end
  BY DEF AddrEnd
<1> HIDE DEF s, q
<1>5. boundary \in Nat /\ boundary = s * (q + 1)
  BY <1>1, <1>2
<1>6. ASSUME NEW p \in addr .. boundary - 1 PROVE p \div s = q
  <2>1. p \in Nat /\ s * q <= p /\ p < s * (q + 1)
    <3>1. s * q \in Nat
      BY <1>1, <1>2
    <3> HIDE DEF boundary
    <3> QED
      BY <1>2, <1>5, <3>1
  <2> QED
    BY <1>1, <1>2, <2>1, DivUnique
<1>7. addr < boundary
  BY <1>2, <1>5
<1>8. l = Levels => boundary = addr + 1
  <2> SUFFICES ASSUME s = 1 PROVE boundary = addr + 1
    BY <1>3
  <2> QED
    BY <1>2
<1> HIDE DEF boundary
<1> DEFINE next == AddrEnd(l, addr, end)
<1>9. next \in Nat /\ (addr < end => addr < next /\ next <= end /\ next <= boundary)
      /\ (end <= addr => next = end)
  BY <1>4, <1>5, <1>7
<1>10. addr < end /\ l = Levels => next = addr + 1
  BY <1>4, <1>5, <1>7, <1>8
<1> HIDE DEF next
<1>11. addr < end => \A p \in addr .. next - 1 : p \div s = q
  BY <1>5, <1>6, <1>9
<1> QED
  BY <1>9, <1>10, <1>11 DEF next, s, q

-----------------------------------------------------------------------------
(* The loops are well-founded.                                             *)

\* f is a function that the definition in Visits describes.
Fixed(T, f) ==
    f = [x \in Round |-> Loop(T, f, x[1], x[2], x[3])]

Rounds(T) == CHOOSE f : Fixed(T, f)

\* Visits is a value of such a function.
LEMMA VisitsRounds ==
  \A T, start, stop : Visits(T, start, stop) = Rounds(T)[<<1, start, stop>>]
  BY DEF Visits, Rounds, Fixed

\* The rounds that are left, at this level and below, in the worst case.
Distance(addr, end) == IF addr <= end THEN end - addr ELSE addr - end
Measure(l, addr, end) == Levels * Distance(addr, end) + Levels - l

\* f satisfies the equation for the rounds of measure less than n.
SolvedTo(T, f, n) ==
    \A l \in 1 .. Levels : \A addr, end \in 0 .. Size :
        Measure(l, addr, end) < n => f[<<l, addr, end>>] = Loop(T, f, l, addr, end)

\* The value of a step of the approximation.
LEMMA FunAt ==
  ASSUME NEW T, NEW f, NEW l \in 1 .. Levels, NEW addr \in 0 .. Size,
         NEW end \in 0 .. Size
  PROVE  [x \in Round |-> Loop(T, f, x[1], x[2], x[3])][<<l, addr, end>>]
            = Loop(T, f, l, addr, end)
<1>1. <<l, addr, end>> \in Round
  BY DEF Round
<1> DEFINE x == <<l, addr, end>>
<1>2. x[1] = l /\ x[2] = addr /\ x[3] = end
  OBVIOUS
<1> QED
  BY <1>1, <1>2

\* A round calls for smaller ones, ...
LEMMA MeasureDecreases ==
  ASSUME NEW l \in 1 .. Levels, NEW addr \in 0 .. Size, NEW end \in 0 .. Size,
         addr # end
  PROVE  LET next == AddrEnd(l, addr, end)
         IN  /\ next \in 0 .. Size
             /\ Measure(l, addr, end) \in Nat
             /\ Measure(l, next, end) < Measure(l, addr, end)
             /\ l # Levels => /\ l + 1 \in 1 .. Levels
                              /\ Measure(l + 1, addr, next) < Measure(l, addr, end)
<1> DEFINE next == AddrEnd(l, addr, end)
<1>1. /\ next \in Nat
      /\ addr < end => addr < next /\ next <= end
      /\ end < addr => next = end
  BY SizeFacts, AddrEndFacts
<1> HIDE DEF next
<1>2. next \in 0 .. Size
  BY <1>1, SizeFacts
<1>3. /\ Distance(addr, next) <= Distance(addr, end)
      /\ Distance(next, end) < Distance(addr, end)
  BY <1>1, SizeFacts DEF Distance
<1>4. {Distance(addr, next), Distance(addr, end), Distance(next, end)} \subseteq Nat
  BY <1>2, SizeFacts DEF Distance
<1> QED
  BY <1>2, <1>3, <1>4 DEF next, Measure, Levels

\* ... and depends on nothing else.
LEMMA LoopDepends ==
  ASSUME NEW T, NEW f, NEW g, NEW n \in Nat, NEW l \in 1 .. Levels,
         NEW addr \in 0 .. Size, NEW end \in 0 .. Size, Measure(l, addr, end) <= n,
         \A k \in 1 .. Levels : \A a, e \in 0 .. Size :
             Measure(k, a, e) < n => f[<<k, a, e>>] = g[<<k, a, e>>]
  PROVE  Loop(T, f, l, addr, end) = Loop(T, g, l, addr, end)
<1> DEFINE next == AddrEnd(l, addr, end)
<1>1. CASE addr = end
  BY <1>1 DEF Loop
<1>2. CASE addr # end
  <2>1. /\ next \in 0 .. Size
        /\ Measure(l, addr, end) \in Nat
        /\ Measure(l, next, end) < Measure(l, addr, end)
        /\ l # Levels => /\ l + 1 \in 1 .. Levels
                         /\ Measure(l + 1, addr, next) < Measure(l, addr, end)
    BY <1>2, MeasureDecreases
  <2> HIDE DEF next
  <2>2. /\ Measure(l, next, end) \in Int
        /\ l # Levels => Measure(l + 1, addr, next) \in Int
    BY <2>1, SizeFacts DEF Measure, Distance, Levels
  <2>3. f[<<l, next, end>>] = g[<<l, next, end>>]
    BY <2>1, <2>2
  <2>4. l # Levels => f[<<l + 1, addr, next>>] = g[<<l + 1, addr, next>>]
    BY <2>1, <2>2
  <2> QED
    BY <2>3, <2>4, Zenon DEF Loop, next
<1> QED
  BY <1>1, <1>2

\* A function that solves the equation up to n gives one that does up to n + 1.
LEMMA SolvedStep ==
  ASSUME NEW T, NEW n \in Nat, NEW f, SolvedTo(T, f, n)
  PROVE  LET g == [x \in Round |-> Loop(T, f, x[1], x[2], x[3])]
         IN  SolvedTo(T, g, n + 1)
<1> DEFINE g == [x \in Round |-> Loop(T, f, x[1], x[2], x[3])]
<1>1. \A l \in 1 .. Levels : \A addr, end \in 0 .. Size :
         g[<<l, addr, end>>] = Loop(T, f, l, addr, end)
  BY FunAt
<1> HIDE DEF g
<1>2. \A l \in 1 .. Levels : \A addr, end \in 0 .. Size :
         Measure(l, addr, end) < n => f[<<l, addr, end>>] = g[<<l, addr, end>>]
  BY <1>1 DEF SolvedTo
<1>3. ASSUME NEW l \in 1 .. Levels, NEW addr \in 0 .. Size, NEW end \in 0 .. Size,
             Measure(l, addr, end) < n + 1
      PROVE  g[<<l, addr, end>>] = Loop(T, g, l, addr, end)
  <2>1. Measure(l, addr, end) <= n
    BY <1>3, SizeFacts DEF Measure, Distance, Levels
  <2>2. Loop(T, f, l, addr, end) = Loop(T, g, l, addr, end)
    BY <1>2, <2>1, LoopDepends
  <2> QED
    BY <1>1, <2>2
<1>4. SolvedTo(T, g, n + 1)
  BY <1>3 DEF SolvedTo
<1> QED
  BY <1>4 DEF g

\* There is one for every n, ...
LEMMA SolvedAll == ASSUME NEW T PROVE \A n \in Nat : \E f : SolvedTo(T, f, n)
<1> DEFINE S == {n \in Nat : \E f : SolvedTo(T, f, n)}
<1>1. 0 \in S
  <2>1. \A l \in 1 .. Levels : \A addr, end \in 0 .. Size : ~(Measure(l, addr, end) < 0)
    BY SizeFacts DEF Measure, Distance, Levels
  <2> QED
    BY <2>1 DEF SolvedTo
<1>2. ASSUME NEW n \in Nat, n \in S PROVE n + 1 \in S
  <2>1. PICK f : SolvedTo(T, f, n)
    BY <1>2
  <2>2. \E g : SolvedTo(T, g, n + 1)
    BY <2>1, SolvedStep
  <2> QED
    BY <2>2
<1> HIDE DEF S
<1>3. Nat \subseteq S
  BY <1>1, <1>2, InductionBySet
<1> QED
  BY <1>3 DEF S

\* ... and so one that solves it for all rounds.
LEMMA RoundsFixed == \A T : Fixed(T, Rounds(T))
<1> SUFFICES ASSUME NEW T PROVE \E f : Fixed(T, f)
  BY Zenon DEF Rounds
<1> DEFINE n == Levels * Size + Levels
<1>1. n \in Nat /\ \A l \in 1 .. Levels : \A addr, end \in 0 .. Size :
                      Measure(l, addr, end) < n
  BY SizeFacts DEF Measure, Distance, Levels
<1> HIDE DEF n
<1>2. PICK f : SolvedTo(T, f, n)
  BY <1>1, SolvedAll
<1> DEFINE g == [x \in Round |-> Loop(T, f, x[1], x[2], x[3])]
<1>3. \A l \in 1 .. Levels : \A addr, end \in 0 .. Size :
         g[<<l, addr, end>>] = Loop(T, f, l, addr, end)
  BY FunAt
<1>4. ASSUME NEW l \in 1 .. Levels, NEW addr \in 0 .. Size, NEW end \in 0 .. Size
      PROVE  Loop(T, f, l, addr, end) = Loop(T, g, l, addr, end)
  <2> HIDE DEF g
  <2>1. ASSUME NEW k \in 1 .. Levels, NEW a \in 0 .. Size, NEW e \in 0 .. Size
        PROVE  f[<<k, a, e>>] = g[<<k, a, e>>]
    <3>1. Measure(k, a, e) < n
      BY <1>1
    <3>2. f[<<k, a, e>>] = Loop(T, f, k, a, e)
      BY <1>2, <3>1 DEF SolvedTo
    <3> QED
      BY <1>3, <3>2
  <2>2. Measure(l, addr, end) <= n
    BY <1>1, SizeFacts DEF Measure, Distance, Levels
  <2> QED
    BY <1>1, <2>1, <2>2, LoopDepends
<1>5. g = [x \in Round |-> Loop(T, g, x[1], x[2], x[3])]
  <2> DEFINE h == [x \in Round |-> Loop(T, g, x[1], x[2], x[3])]
  <2>1. ASSUME NEW x \in Round
        PROVE  Loop(T, f, x[1], x[2], x[3]) = Loop(T, g, x[1], x[2], x[3])
    BY <1>4 DEF Round
  <2>2. g = h
    BY <2>1, Zenon
  <2> QED
    BY <2>2
<1> QED
  BY <1>5 DEF Fixed

\* The equation of the loops, for one round.
LEMMA RoundsUnfold ==
  ASSUME NEW T, NEW l \in 1 .. Levels, NEW addr \in 0 .. Size, NEW end \in 0 .. Size
  PROVE  Rounds(T)[<<l, addr, end>>] = Loop(T, Rounds(T), l, addr, end)
<1> DEFINE f == Rounds(T)
<1>1. f = [x \in Round |-> Loop(T, f, x[1], x[2], x[3])]
  BY RoundsFixed DEF Fixed
<1> HIDE DEF f
<1>2. f[<<l, addr, end>>] = Loop(T, f, l, addr, end)
  BY <1>1, FunAt
<1> QED
  BY <1>2 DEF f

-----------------------------------------------------------------------------
(* What the loops visit.                                                   *)

\* Two lists of pages, one all before the other.
LEMMA ConcatInOrder ==
  ASSUME NEW v \in Seq(Nat), NEW w \in Seq(Nat), InOrder(v), InOrder(w),
         \A p \in ToSet(v) : \A q \in ToSet(w) : p < q
  PROVE  InOrder(v \o w) /\ ToSet(v \o w) = ToSet(v) \cup ToSet(w)
<1>1. /\ Len(v) \in Nat /\ Len(w) \in Nat
      /\ DOMAIN v = 1 .. Len(v) /\ DOMAIN w = 1 .. Len(w)
      /\ DOMAIN (v \o w) = 1 .. Len(v) + Len(w)
      /\ \A i \in 1 .. Len(v) : (v \o w)[i] = v[i]
      /\ \A i \in 1 .. Len(w) : (v \o w)[Len(v) + i] = w[i]
  OBVIOUS
<1> DEFINE u == v \o w
<1>2. \A i \in DOMAIN u : \/ i \in 1 .. Len(v) /\ u[i] = v[i]
                          \/ i - Len(v) \in 1 .. Len(w) /\ u[i] = w[i - Len(v)]
  <2> SUFFICES ASSUME NEW i \in 1 .. Len(v) + Len(w), i > Len(v)
               PROVE  i - Len(v) \in 1 .. Len(w) /\ u[i] = w[i - Len(v)]
    BY <1>1
  <2>1. i - Len(v) \in 1 .. Len(w) /\ Len(v) + (i - Len(v)) = i
    BY <1>1
  <2> QED
    BY <1>1, <2>1
<1>3. ToSet(u) = ToSet(v) \cup ToSet(w)
  <2>1. ToSet(u) \subseteq ToSet(v) \cup ToSet(w)
    BY <1>1, <1>2 DEF ToSet
  <2>2. ToSet(v) \subseteq ToSet(u)
    BY <1>1 DEF ToSet
  <2>3. ASSUME NEW i \in 1 .. Len(w) PROVE w[i] \in ToSet(u)
    <3>1. Len(v) + i \in DOMAIN u
      BY <1>1
    <3> QED
      BY <1>1, <3>1 DEF ToSet
  <2> QED
    BY <1>1, <2>1, <2>2, <2>3 DEF ToSet
<1>4. ASSUME NEW j \in DOMAIN u, NEW i \in 1 .. j - 1 PROVE u[i] < u[j]
  <2>1. i \in DOMAIN u /\ i < j
    BY <1>1
  <2>2. CASE j \in 1 .. Len(v) /\ u[j] = v[j]
    BY <1>1, <2>1, <2>2 DEF InOrder
  <2>3. CASE j - Len(v) \in 1 .. Len(w) /\ u[j] = w[j - Len(v)]
    <3>1. CASE i \in 1 .. Len(v) /\ u[i] = v[i]
      BY <1>1, <2>3, <3>1 DEF ToSet
    <3>2. CASE i - Len(v) \in 1 .. Len(w) /\ u[i] = w[i - Len(v)]
      <4>1. i - Len(v) \in 1 .. (j - Len(v)) - 1
        BY <1>1, <2>1, <2>3, <3>2
      <4> QED
        BY <1>1, <2>3, <3>2, <4>1 DEF InOrder
    <3> QED
      BY <1>2, <2>1, <3>1, <3>2
  <2> QED
    BY <1>2, <2>2, <2>3
<1> QED
  BY <1>3, <1>4 DEF InOrder

\* The pages of addr .. end - 1 whose entries from level l down are in T.
Present(T, l, addr, end) ==
    {p \in addr .. end - 1 : \A k \in l .. Levels - 1 : Entry(k, p) \in T}

VisitsPresent(T, l, addr, end, visited) ==
    /\ visited \in Seq(Page)
    /\ InOrder(visited)
    /\ ToSet(visited) = Present(T, l, addr, end)

\* Lists of no page and of one.
LEMMA EmptyInOrder == <<>> \in Seq(Page) /\ InOrder(<<>>) /\ ToSet(<<>>) = {}
  BY EmptySeq DEF InOrder, ToSet

LEMMA OneInOrder ==
  ASSUME NEW p \in Page
  PROVE  <<p>> \in Seq(Page) /\ InOrder(<<p>>) /\ ToSet(<<p>>) = {p}
  BY DEF InOrder, ToSet

\* One round.
LEMMA RoundVisits ==
  ASSUME NEW T, NEW l \in 1 .. Levels, NEW addr \in 0 .. Size, NEW end \in 0 .. Size,
         addr < end, NEW range,
         LET next == AddrEnd(l, addr, end)
         IN  /\ VisitsPresent(T, l, next, end, range[<<l, next, end>>])
             /\ l # Levels =>
                   VisitsPresent(T, l + 1, addr, next, range[<<l + 1, addr, next>>])
  PROVE  VisitsPresent(T, l, addr, end, Loop(T, range, l, addr, end))
<1> DEFINE next == AddrEnd(l, addr, end)
           first == IF l = Levels THEN <<addr>>
                    ELSE IF Entry(l, addr) \notin T THEN <<>>
                    ELSE range[<<l + 1, addr, next>>]
           rest == range[<<l, next, end>>]
<1>1. /\ next \in Nat /\ addr < next /\ next <= end
      /\ \A p \in addr .. next - 1 : p \div Spans[l] = addr \div Spans[l]
      /\ l = Levels => next = addr + 1
  BY SizeFacts, AddrEndFacts
<1>2. /\ VisitsPresent(T, l, next, end, rest)
      /\ l # Levels => VisitsPresent(T, l + 1, addr, next, range[<<l + 1, addr, next>>])
  OBVIOUS
<1>3. Loop(T, range, l, addr, end) = first \o rest
  <2>1. addr # end
    BY SizeFacts
  <2> QED
    BY <2>1, Zenon DEF Loop
<1> HIDE DEF next, rest
<1>4. \A p \in addr .. next - 1 : Entry(l, p) = Entry(l, addr)
  BY <1>1 DEF Entry
<1>5. addr \in Page /\ Page \subseteq Nat
  BY <1>1, SizeFacts DEF Page
<1>6. first \in Seq(Page) /\ InOrder(first) /\ ToSet(first) = Present(T, l, addr, next)
  <2>1. CASE l = Levels
    <3>1. Present(T, l, addr, next) = {addr}
      BY <1>1, <2>1, SizeFacts DEF Present, Levels
    <3> QED
      BY <1>5, <2>1, <3>1, OneInOrder
  <2>2. CASE l # Levels /\ Entry(l, addr) \notin T
    <3>1. Present(T, l, addr, next) = {}
      BY <1>4, <2>2 DEF Present, Levels
    <3> QED
      BY <2>2, <3>1, EmptyInOrder
  <2>3. CASE l # Levels /\ Entry(l, addr) \in T
    <3>1. ASSUME NEW p \in addr .. next - 1
          PROVE  (\A k \in l .. Levels - 1 : Entry(k, p) \in T)
                    <=> (\A k \in l + 1 .. Levels - 1 : Entry(k, p) \in T)
      <4>1. Entry(l, p) \in T
        BY <1>4, <2>3
      <4>2. l .. Levels - 1 = {l} \cup (l + 1 .. Levels - 1)
        BY <2>3 DEF Levels
      <4> QED
        BY <4>1, <4>2
    <3>2. Present(T, l, addr, next) = Present(T, l + 1, addr, next)
      BY <3>1 DEF Present
    <3> QED
      BY <1>2, <2>3, <3>2 DEF VisitsPresent
  <2> QED
    BY <2>1, <2>2, <2>3
<1> HIDE DEF first
<1>7. rest \in Seq(Page) /\ InOrder(rest) /\ ToSet(rest) = Present(T, l, next, end)
  BY <1>2 DEF VisitsPresent
<1>8. \A p \in ToSet(first) : \A q \in ToSet(rest) : p < q
  BY <1>1, <1>6, <1>7, SizeFacts DEF Present
<1>9. Present(T, l, addr, end) = Present(T, l, addr, next) \cup Present(T, l, next, end)
  <2>1. addr .. end - 1 = (addr .. next - 1) \cup (next .. end - 1)
    BY <1>1, SizeFacts
  <2> QED
    BY <2>1 DEF Present
<1>10. first \in Seq(Nat) /\ rest \in Seq(Nat)
  BY <1>5, <1>6, <1>7, SeqMonotonic
<1>11. InOrder(first \o rest) /\ ToSet(first \o rest) = ToSet(first) \cup ToSet(rest)
  BY <1>6, <1>7, <1>8, <1>10, ConcatInOrder
<1>12. first \o rest \in Seq(Page)
  BY <1>6, <1>7
<1> QED
  BY <1>3, <1>6, <1>7, <1>9, <1>11, <1>12 DEF VisitsPresent

\* All rounds.
LEMMA RoundsVisit ==
  ASSUME NEW T, NEW l \in 1 .. Levels, NEW addr \in 0 .. Size, NEW end \in addr .. Size
  PROVE  VisitsPresent(T, l, addr, end, Rounds(T)[<<l, addr, end>>])
<1> DEFINE S == {n \in Nat :
                    \A k \in 1 .. Levels : \A a \in 0 .. Size : \A e \in a .. Size :
                       Measure(k, a, e) < n =>
                          VisitsPresent(T, k, a, e, Rounds(T)[<<k, a, e>>])}
<1>1. 0 \in S
  BY SizeFacts DEF Measure, Distance, Levels
<1>2. ASSUME NEW n \in Nat, n \in S PROVE n + 1 \in S
  <2> SUFFICES ASSUME NEW k \in 1 .. Levels, NEW a \in 0 .. Size, NEW e \in a .. Size,
                      Measure(k, a, e) < n + 1
               PROVE  VisitsPresent(T, k, a, e, Rounds(T)[<<k, a, e>>])
    OBVIOUS
  <2> DEFINE next == AddrEnd(k, a, e)
  <2>1. e \in 0 .. Size
    BY SizeFacts
  <2>2. Rounds(T)[<<k, a, e>>] = Loop(T, Rounds(T), k, a, e)
    BY <2>1, RoundsUnfold
  <2>3. CASE a = e
    <3>1. Present(T, k, a, e) = {}
      BY <2>3, SizeFacts DEF Present
    <3>2. Loop(T, Rounds(T), k, a, e) = <<>>
      BY <2>3 DEF Loop
    <3> QED
      BY <2>2, <3>1, <3>2, EmptyInOrder DEF VisitsPresent
  <2>4. CASE a # e
    <3>1. a < e
      BY <2>1, <2>4, SizeFacts
    <3>2. /\ next \in 0 .. Size
          /\ Measure(k, a, e) \in Nat
          /\ Measure(k, next, e) < Measure(k, a, e)
          /\ k # Levels => /\ k + 1 \in 1 .. Levels
                           /\ Measure(k + 1, a, next) < Measure(k, a, e)
      BY <2>1, <2>4, MeasureDecreases
    <3>3. a < next /\ next <= e
      BY <2>1, <3>1, SizeFacts, AddrEndFacts
    <3> HIDE DEF next
    <3>4. Measure(k, next, e) \in Int /\ (k # Levels => Measure(k + 1, a, next) \in Int)
      BY <2>1, <3>2, SizeFacts DEF Measure, Distance, Levels
    <3>5. VisitsPresent(T, k, next, e, Rounds(T)[<<k, next, e>>])
      <4>1. e \in next .. Size /\ Measure(k, next, e) < n
        BY <2>1, <3>2, <3>3, <3>4, SizeFacts
      <4> QED
        BY <1>2, <3>2, <4>1
    <3>6. ASSUME k # Levels
          PROVE  VisitsPresent(T, k + 1, a, next, Rounds(T)[<<k + 1, a, next>>])
      <4>1. next \in a .. Size /\ Measure(k + 1, a, next) < n /\ k + 1 \in 1 .. Levels
        BY <2>1, <3>2, <3>3, <3>4, <3>6, SizeFacts
      <4> QED
        BY <1>2, <4>1
    <3> QED
      BY <2>1, <2>2, <3>1, <3>5, <3>6, RoundVisits DEF next
  <2> QED
    BY <2>3, <2>4
<1> HIDE DEF S
<1>3. Nat \subseteq S
  BY <1>1, <1>2, InductionBySet
<1>4. /\ Measure(l, addr, end) + 1 \in Nat
      /\ Measure(l, addr, end) < Measure(l, addr, end) + 1
  BY SizeFacts DEF Measure, Distance, Levels
<1> QED
  BY <1>3, <1>4 DEF S

\* Whatever entries T are there, the loops visit, in order, the pages of a range
\* whose path is in T (migrate.c:88-171).
THEOREM WalkVisits ==
  ASSUME NEW T, NEW s \in Page, NEW e \in s .. Size
  PROVE  /\ Visits(T, s, e) \in Seq(Page)
         /\ InOrder(Visits(T, s, e))
         /\ ToSet(Visits(T, s, e)) = {p \in s .. e - 1 : Path(p) \subseteq T}
<1>1. s \in 0 .. Size /\ 1 \in 1 .. Levels
  BY SizeFacts DEF Page, Levels
<1>2. VisitsPresent(T, 1, s, e, Rounds(T)[<<1, s, e>>])
  BY <1>1, RoundsVisit
<1>3. VisitsPresent(T, 1, s, e, Visits(T, s, e))
  BY <1>2, VisitsRounds
<1>4. \A p : Path(p) \subseteq T <=> \A k \in 1 .. Levels - 1 : Entry(k, p) \in T
  BY DEF Path
<1> QED
  BY <1>3, <1>4 DEF VisitsPresent, Present

-----------------------------------------------------------------------------
(* Lists of vmas.                                                          *)

\* What munmap leaves of a list, ...
LEMMA RemoveAtFacts ==
  ASSUME NEW S, NEW s \in Seq(S), NEW i \in DOMAIN s
  PROVE  /\ RemoveAt(s, i) \in Seq(S)
         /\ Len(RemoveAt(s, i)) = Len(s) - 1
         /\ \A j \in 1 .. Len(s) - 1 :
               RemoveAt(s, i)[j] = IF j < i THEN s[j] ELSE s[j + 1]
<1> DEFINE u == SubSeq(s, 1, i - 1)
           v == SubSeq(s, i + 1, Len(s))
<1>1. i \in 1 .. Len(s) /\ Len(s) \in Nat
  OBVIOUS
<1>2. \A j \in 1 .. Len(s) : s[j] \in S
  OBVIOUS
<1>3. u \in Seq(S) /\ Len(u) = i - 1 /\ \A j \in 1 .. i - 1 : u[j] = s[j]
  BY <1>1, <1>2, SubSeqProperties
<1>4. /\ v \in Seq(S) /\ Len(v) = Len(s) - i
      /\ \A j \in 1 .. Len(s) - i : v[j] = s[i + j]
  BY <1>1, <1>2, SubSeqProperties
<1>5. RemoveAt(s, i) = u \o v
  BY DEF RemoveAt
<1> HIDE DEF u, v
<1>6. u \o v \in Seq(S) /\ Len(u \o v) = Len(s) - 1
  BY <1>1, <1>3, <1>4
<1>7. ASSUME NEW j \in 1 .. Len(s) - 1
      PROVE  (u \o v)[j] = IF j < i THEN s[j] ELSE s[j + 1]
  <2>1. CASE j < i
    BY <1>1, <1>3, <1>4, <2>1
  <2>2. CASE ~(j < i)
    <3>1. j - (i - 1) \in 1 .. Len(s) - i /\ i + (j - (i - 1)) = j + 1
      BY <1>1, <2>2
    <3>2. (u \o v)[j] = v[j - (i - 1)]
      BY <1>1, <1>3, <1>4, <2>2
    <3> QED
      BY <1>4, <2>2, <3>1, <3>2
  <2> QED
    BY <2>1, <2>2
<1> QED
  BY <1>5, <1>6, <1>7

\* ... and that it is in order.
LEMMA RemoveAtAscending ==
  ASSUME NEW list \in Seq(Vma), Ascending(list), NEW i \in DOMAIN list
  PROVE  Ascending(RemoveAt(list, i))
<1> DEFINE rest == RemoveAt(list, i)
           Old(j) == IF j < i THEN j ELSE j + 1
<1>1. Len(list) \in Nat /\ DOMAIN list = 1 .. Len(list) /\ i \in 1 .. Len(list)
  OBVIOUS
<1>2. /\ rest \in Seq(Vma) /\ Len(rest) = Len(list) - 1
      /\ \A j \in 1 .. Len(list) - 1 : rest[j] = IF j < i THEN list[j] ELSE list[j + 1]
  BY RemoveAtFacts
<1> HIDE DEF rest
<1>3. DOMAIN rest = 1 .. Len(list) - 1 /\ \A j \in DOMAIN rest : rest[j] = list[Old(j)]
  BY <1>1, <1>2
<1>4. ASSUME NEW j \in DOMAIN rest
      PROVE  /\ Old(j) \in DOMAIN list
             /\ \A k \in 1 .. j - 1 : k \in DOMAIN rest /\ Old(k) \in 1 .. Old(j) - 1
  BY <1>1, <1>3
<1> HIDE DEF Old
<1>5. Ascending(rest)
  BY <1>3, <1>4 DEF Ascending
<1> QED
  BY <1>5 DEF rest

\* The others remain, ...
LEMMA RemoveAtKeeps ==
  ASSUME NEW S, NEW s \in Seq(S), NEW i \in DOMAIN s, NEW j \in DOMAIN s, i # j
  PROVE  \E k \in DOMAIN RemoveAt(s, i) : RemoveAt(s, i)[k] = s[j]
<1> DEFINE rest == RemoveAt(s, i)
<1>1. /\ rest \in Seq(S) /\ Len(rest) = Len(s) - 1
      /\ \A k \in 1 .. Len(s) - 1 : rest[k] = IF k < i THEN s[k] ELSE s[k + 1]
  BY RemoveAtFacts
<1>2. Len(s) \in Nat /\ i \in 1 .. Len(s) /\ j \in 1 .. Len(s)
  OBVIOUS
<1> HIDE DEF rest
<1>3. DOMAIN rest = 1 .. Len(s) - 1
  BY <1>1
<1> DEFINE k == IF j < i THEN j ELSE j - 1
<1>4. k \in 1 .. Len(s) - 1 /\ (IF k < i THEN k ELSE k + 1) = j
  BY <1>2
<1>5. rest[k] = IF k < i THEN s[k] ELSE s[k + 1]
  BY <1>1, <1>4
<1> HIDE DEF k
<1>6. k \in DOMAIN rest /\ rest[k] = s[j]
  BY <1>3, <1>4, <1>5
<1> QED
  BY <1>6 DEF rest

\* ... as they do when mmap adds one.
LEMMA InsertAtFacts ==
  ASSUME NEW S, NEW s \in Seq(S), NEW i \in 1 .. Len(s) + 1, NEW e \in S
  PROVE  /\ InsertAt(s, i, e) \in Seq(S)
         /\ \A j \in DOMAIN s :
               \E k \in DOMAIN InsertAt(s, i, e) : InsertAt(s, i, e)[k] = s[j]
<1> DEFINE u == SubSeq(s, 1, i - 1)
           v == SubSeq(s, i, Len(s))
           w == (u \o <<e>>) \o v
<1>1. Len(s) \in Nat /\ DOMAIN s = 1 .. Len(s) /\ i \in Nat
      /\ \A j \in 1 .. Len(s) : s[j] \in S
  OBVIOUS
<1>2. u \in Seq(S) /\ Len(u) = i - 1 /\ \A j \in 1 .. i - 1 : u[j] = s[j]
  BY <1>1, SubSeqProperties
<1>3. /\ v \in Seq(S) /\ Len(v) = Len(s) - i + 1
      /\ \A j \in 1 .. Len(s) - i + 1 : v[j] = s[i + j - 1]
  BY <1>1, SubSeqProperties
<1>4. InsertAt(s, i, e) = w
  BY DEF InsertAt
<1> HIDE DEF u, v
<1>5. /\ u \o <<e>> \in Seq(S) /\ Len(u \o <<e>>) = i
      /\ \A j \in 1 .. i - 1 : (u \o <<e>>)[j] = u[j]
  BY <1>1, <1>2
<1>6. /\ w \in Seq(S) /\ Len(w) = Len(s) + 1 /\ DOMAIN w = 1 .. Len(s) + 1
      /\ \A j \in 1 .. i : w[j] = (u \o <<e>>)[j]
      /\ \A j \in 1 .. Len(s) - i + 1 : w[i + j] = v[j]
  BY <1>1, <1>3, <1>5
<1> HIDE DEF w
<1>7. ASSUME NEW j \in DOMAIN s PROVE \E k \in DOMAIN w : w[k] = s[j]
  <2>1. CASE j < i
    BY <1>1, <1>2, <1>5, <1>6, <2>1
  <2>2. CASE i <= j
    <3>1. j - i + 1 \in 1 .. Len(s) - i + 1 /\ i + (j - i + 1) = j + 1
          /\ i + (j - i + 1) - 1 = j
      BY <1>1, <2>2
    <3>2. w[i + (j - i + 1)] = v[j - i + 1] /\ v[j - i + 1] = s[j]
      BY <1>3, <1>6, <3>1
    <3>3. j + 1 \in DOMAIN w /\ w[j + 1] = s[j]
      BY <1>1, <1>6, <3>1, <3>2
    <3> QED
      BY <3>3
  <2> QED
    BY <1>1, <2>1, <2>2
<1> QED
  BY <1>4, <1>6, <1>7

\* vma->vm_next is the first vma of the list after v, if there is one.
LEMMA VmNextFacts ==
  ASSUME mmap \in Seq(Vma), NEW v
  PROVE  \/ /\ VmNext(v) = NoVma
            /\ \A i \in DOMAIN mmap : ~(mmap[i].vm_start > v.vm_start)
         \/ \E i \in DOMAIN mmap :
               /\ VmNext(v) = mmap[i] /\ mmap[i].vm_start > v.vm_start
               /\ \A j \in DOMAIN mmap : mmap[j].vm_start > v.vm_start => i <= j
<1> DEFINE after == {i \in DOMAIN mmap : mmap[i].vm_start > v.vm_start}
<1>1. CASE after = {}
  BY <1>1 DEF VmNext
<1>2. CASE after # {}
  <2>1. after \in SUBSET Nat
    OBVIOUS
  <2>2. Min(after) \in after /\ \A j \in after : Min(after) <= j
    BY <1>2, <2>1, MinOfNats
  <2>3. VmNext(v) = mmap[Min(after)]
    BY <1>2 DEF VmNext
  <2> QED
    BY <2>2, <2>3
<1> QED
  BY <1>1, <1>2

\* What is visited of a vma of the list.
LEMMA VisitsOfFacts ==
  ASSUME NEW v \in Vma \cup {NoVma}, v # NoVma => v.vm_start < v.vm_end
  PROVE  /\ VisitsOf(v) \in Seq(Page)
         /\ InOrder(VisitsOf(v))
         /\ \A p \in ToSet(VisitsOf(v)) : v # NoVma /\ p \in PagesOf(v)
         /\ \A p : v # NoVma /\ p \in PagesOf(v) /\ Path(p) \subseteq tables
                      => p \in ToSet(VisitsOf(v))
<1>1. CASE v = NoVma
  BY <1>1, EmptyInOrder DEF VisitsOf
<1>2. CASE v # NoVma
  <2>1. v.vm_start \in Page /\ v.vm_end \in v.vm_start .. Size
    BY <1>2, SizeFacts DEF Vma, Page
  <2>2. VisitsOf(v) = Visits(tables, v.vm_start, v.vm_end)
    BY <1>2 DEF VisitsOf
  <2>3. LET pages == Visits(tables, v.vm_start, v.vm_end)
        IN  /\ pages \in Seq(Page)
            /\ InOrder(pages)
            /\ ToSet(pages) = {p \in v.vm_start .. v.vm_end - 1 : Path(p) \subseteq tables}
    BY <2>1, WalkVisits
  <2> QED
    BY <1>2, <2>2, <2>3 DEF PagesOf
<1> QED
  BY <1>1, <1>2

\* Vmas, pages and tables.
LEMMA VmasType == Vmas \subseteq Vma
<1> SUFFICES ASSUME NEW l \in VmaLists, NEW i \in DOMAIN l PROVE l[i] \in Vma
  BY DEF Vmas, ToSet
<1>1. l \in Seq(Vma)
  BY MigrateAssumption
<1> QED
  BY <1>1

LEMMA PagesOfVma == ASSUME NEW v \in Vma PROVE PagesOf(v) \subseteq Page
  BY SizeFacts DEF Vma, PagesOf, Page

\* The entries that lead to a page.
LEMMA PathType == ASSUME NEW p \in Page PROVE Path(p) \subseteq (1 .. Levels - 1) \X Page
<1>1. ASSUME NEW l \in 1 .. Levels - 1 PROVE Entry(l, p) \in (1 .. Levels - 1) \X Page
  <2> DEFINE s == Spans[l]
             q == p \div s
  <2>1. l \in 1 .. Levels
    BY DEF Levels
  <2>2. p \in Nat /\ s \in Nat \ {0}
    BY <2>1, SpanFacts, SizeFacts DEF Page
  <2>3. q \in Nat /\ s * q <= p
    BY <2>2, DivFacts
  <2> HIDE DEF q, s
  <2>4. q * 1 <= q * s
    BY <2>2, <2>3, MulMonotone
  <2>5. q <= p
    BY <2>2, <2>3, <2>4
  <2>6. q \in Page
    BY <2>2, <2>3, <2>5, SizeFacts DEF Page
  <2> QED
    BY <2>6 DEF Entry, q, s
<1> QED
  BY <1>1 DEF Path

\* A vma is not the one that stands for none.
LEMMA VmaFacts ==
  ASSUME NEW v \in Vma
  PROVE  v.vm_start \in Nat /\ v.vm_end \in Nat /\ v # NoVma
<1>1. v.vm_start \in Nat /\ v.vm_end \in Nat /\ v.vm_end # 0
  BY SizeFacts DEF Vma, Page
<1>2. NoVma.vm_end = 0
  BY DEF NoVma
<1> QED
  BY <1>1, <1>2

\* The vma after one of the list begins where that ends or later, and no page
\* that is mapped lies between them.
LEMMA VmNextApart ==
  ASSUME mmap \in Seq(Vma), Ascending(mmap), NEW k \in DOMAIN mmap
  PROVE  LET v == mmap[k]
             w == VmNext(v)
         IN  /\ w \in Vma \cup {NoVma}
             /\ w # NoVma => v.vm_end <= w.vm_start /\ \E i \in DOMAIN mmap : mmap[i] = w
             /\ \A p : Mapped(p) /\ v.vm_end <= p
                          => w # NoVma /\ (p \in PagesOf(w) \/ w.vm_end <= p)
<1> DEFINE v == mmap[k]
           w == VmNext(v)
<1>1. /\ DOMAIN mmap = 1 .. Len(mmap) /\ Len(mmap) \in Nat
      /\ \A i \in DOMAIN mmap : /\ mmap[i] \in Vma
                                /\ mmap[i].vm_start \in Nat /\ mmap[i].vm_end \in Nat
                                /\ mmap[i].vm_start < mmap[i].vm_end
                                /\ mmap[i] # NoVma
  <2>1. DOMAIN mmap = 1 .. Len(mmap) /\ Len(mmap) \in Nat
        /\ \A i \in DOMAIN mmap : mmap[i] \in Vma
    OBVIOUS
  <2> QED
    BY <2>1, VmaFacts DEF Ascending
<1>2. \A i, j \in DOMAIN mmap : j < i => mmap[j].vm_end <= mmap[i].vm_start
  <2> SUFFICES ASSUME NEW i \in DOMAIN mmap, NEW j \in DOMAIN mmap, j < i
               PROVE  mmap[j].vm_end <= mmap[i].vm_start
    OBVIOUS
  <2>1. j \in 1 .. i - 1
    BY <1>1
  <2> QED
    BY <2>1 DEF Ascending
<1>3. \A i \in DOMAIN mmap : mmap[i].vm_start > v.vm_start => k < i
  BY <1>1, <1>2
<1>4. \A p : \A i \in DOMAIN mmap :
         p \in PagesOf(mmap[i]) /\ v.vm_end <= p => mmap[i].vm_start > v.vm_start
  <2> SUFFICES ASSUME NEW p, NEW i \in DOMAIN mmap,
                      p \in PagesOf(mmap[i]), v.vm_end <= p
               PROVE  mmap[i].vm_start > v.vm_start
    OBVIOUS
  <2>1. p \in Int /\ mmap[i].vm_start <= p /\ p < mmap[i].vm_end
    BY <1>1 DEF PagesOf
  <2>2. ~(i < k) /\ i # k
    BY <1>1, <1>2, <2>1
  <2> QED
    BY <1>1, <1>2, <2>2
<1>5. ASSUME \A i \in DOMAIN mmap : ~(mmap[i].vm_start > v.vm_start)
      PROVE  \A p : ~(Mapped(p) /\ v.vm_end <= p)
  BY <1>4, <1>5 DEF Mapped
<1>6. ASSUME NEW i \in DOMAIN mmap, w = mmap[i], mmap[i].vm_start > v.vm_start,
             \A j \in DOMAIN mmap : mmap[j].vm_start > v.vm_start => i <= j
      PROVE  /\ w \in Vma /\ w # NoVma /\ v.vm_end <= w.vm_start
             /\ \A p : Mapped(p) /\ v.vm_end <= p => p \in PagesOf(w) \/ w.vm_end <= p
  <2>1. w \in Vma /\ w # NoVma /\ v.vm_end <= w.vm_start
    BY <1>1, <1>2, <1>3, <1>6
  <2>2. ASSUME NEW p, NEW j \in DOMAIN mmap, p \in PagesOf(mmap[j]), v.vm_end <= p
        PROVE  p \in PagesOf(w) \/ w.vm_end <= p
    <3>1. i <= j
      BY <1>4, <1>6, <2>2
    <3>2. CASE i = j
      BY <1>6, <2>2, <3>2
    <3>3. CASE i < j
      <4>1. w.vm_end <= mmap[j].vm_start /\ mmap[j].vm_start <= p /\ p \in Int
        BY <1>1, <1>2, <1>6, <2>2, <3>3 DEF PagesOf
      <4> QED
        BY <1>1, <1>6, <4>1
    <3> QED
      BY <1>1, <3>1, <3>2, <3>3
  <2> QED
    BY <2>1, <2>2 DEF Mapped
<1> HIDE DEF v, w
<1>7. \/ w = NoVma /\ \A i \in DOMAIN mmap : ~(mmap[i].vm_start > v.vm_start)
      \/ \E i \in DOMAIN mmap :
               /\ w = mmap[i] /\ mmap[i].vm_start > v.vm_start
               /\ \A j \in DOMAIN mmap : mmap[j].vm_start > v.vm_start => i <= j
  BY VmNextFacts DEF w
<1>8. /\ w \in Vma \cup {NoVma}
      /\ w # NoVma => v.vm_end <= w.vm_start /\ \E i \in DOMAIN mmap : mmap[i] = w
      /\ \A p : Mapped(p) /\ v.vm_end <= p
                   => w # NoVma /\ (p \in PagesOf(w) \/ w.vm_end <= p)
  <2>1. CASE w = NoVma /\ \A i \in DOMAIN mmap : ~(mmap[i].vm_start > v.vm_start)
    BY <1>5, <2>1
  <2>2. ASSUME NEW i \in DOMAIN mmap, w = mmap[i], mmap[i].vm_start > v.vm_start,
               \A j \in DOMAIN mmap : mmap[j].vm_start > v.vm_start => i <= j
        PROVE  /\ w \in Vma /\ w # NoVma /\ v.vm_end <= w.vm_start
               /\ \E j \in DOMAIN mmap : mmap[j] = w
               /\ \A p : Mapped(p) /\ v.vm_end <= p => p \in PagesOf(w) \/ w.vm_end <= p
    BY <1>6, <2>2
  <2> QED
    BY <1>7, <2>1, <2>2, Zenon
<1> QED
  BY <1>8 DEF v, w

\* Neither does one lie before the first.
LEMMA FirstVma ==
  ASSUME mmap \in Seq(Vma), Ascending(mmap), mmap # <<>>
  PROVE  /\ Head(mmap) = mmap[1] /\ 1 \in DOMAIN mmap
         /\ \A p : Mapped(p) => p \in PagesOf(Head(mmap)) \/ Head(mmap).vm_end <= p
<1>1. /\ DOMAIN mmap = 1 .. Len(mmap) /\ Len(mmap) \in Nat /\ 1 \in DOMAIN mmap
      /\ Head(mmap) = mmap[1]
      /\ \A i \in DOMAIN mmap : mmap[i].vm_start \in Nat /\ mmap[i].vm_end \in Nat
  <2>1. /\ DOMAIN mmap = 1 .. Len(mmap) /\ Len(mmap) \in Nat /\ 1 \in DOMAIN mmap
        /\ Head(mmap) = mmap[1] /\ \A i \in DOMAIN mmap : mmap[i] \in Vma
    OBVIOUS
  <2> QED
    BY <2>1, VmaFacts
<1>2. ASSUME NEW p, NEW j \in DOMAIN mmap, p \in PagesOf(mmap[j])
      PROVE  p \in PagesOf(mmap[1]) \/ mmap[1].vm_end <= p
  <2>1. CASE j = 1
    BY <1>2, <2>1
  <2>2. CASE j # 1
    <3>1. mmap[1].vm_end <= mmap[j].vm_start
      BY <1>1, <2>2 DEF Ascending
    <3>2. mmap[j].vm_start <= p /\ p \in Int
      BY <1>1, <1>2 DEF PagesOf
    <3> QED
      BY <1>1, <3>1, <3>2
  <2> QED
    BY <2>1, <2>2
<1> QED
  BY <1>1, <1>2 DEF Mapped

\* The first of the entries to visit, and the others.
LEMMA TailInOrder ==
  ASSUME NEW s \in Seq(Page), InOrder(s), s # <<>>
  PROVE  /\ Head(s) \in Page /\ Tail(s) \in Seq(Page)
         /\ ToSet(s) = {Head(s)} \cup ToSet(Tail(s))
         /\ InOrder(Tail(s))
         /\ \A q \in ToSet(Tail(s)) : Head(s) < q
<1>1. /\ Len(s) \in Nat /\ Len(s) > 0 /\ DOMAIN s = 1 .. Len(s)
      /\ Head(s) = s[1] /\ Head(s) \in Page /\ Tail(s) \in Seq(Page)
      /\ DOMAIN Tail(s) = 1 .. Len(s) - 1
      /\ \A i \in 1 .. Len(s) - 1 : Tail(s)[i] = s[i + 1]
  OBVIOUS
<1>2. ToSet(s) = {Head(s)} \cup ToSet(Tail(s))
  <2>1. \A i \in DOMAIN s : i = 1 \/ (i - 1 \in 1 .. Len(s) - 1 /\ Tail(s)[i - 1] = s[i])
    BY <1>1
  <2>2. \A i \in 1 .. Len(s) - 1 : i + 1 \in DOMAIN s
    BY <1>1
  <2>3. 1 \in DOMAIN s
    BY <1>1
  <2>4. ASSUME NEW i \in DOMAIN s PROVE s[i] \in {Head(s)} \cup ToSet(Tail(s))
    <3>1. CASE i = 1
      BY <1>1, <3>1
    <3>2. CASE i - 1 \in 1 .. Len(s) - 1 /\ Tail(s)[i - 1] = s[i]
      BY <1>1, <3>2 DEF ToSet
    <3> QED
      BY <2>1, <3>1, <3>2
  <2>5. {Head(s)} \cup ToSet(Tail(s)) \subseteq ToSet(s)
    BY <1>1, <2>2, <2>3 DEF ToSet
  <2> QED
    BY <2>4, <2>5 DEF ToSet
<1>3. \A i \in 1 .. Len(s) - 1 : s[1] < s[i + 1]
  BY <1>1 DEF InOrder
<1>4. \A q \in ToSet(Tail(s)) : Head(s) < q
  BY <1>1, <1>3 DEF ToSet
<1>5. ASSUME NEW j \in 1 .. Len(s) - 1, NEW i \in 1 .. j - 1 PROVE s[i + 1] < s[j + 1]
  <2>1. j + 1 \in DOMAIN s /\ i + 1 \in 1 .. (j + 1) - 1
    BY <1>1
  <2> QED
    BY <2>1 DEF InOrder
<1>6. InOrder(Tail(s))
  BY <1>1, <1>5 DEF InOrder
<1> QED
  BY <1>1, <1>2, <1>4, <1>6

\* One more page collected.
LEMMA AppendInOrder ==
  ASSUME NEW s \in Seq(Page), InOrder(s), NEW p \in Page, \A q \in ToSet(s) : q < p
  PROVE  /\ Append(s, p) \in Seq(Page) /\ InOrder(Append(s, p))
         /\ ToSet(Append(s, p)) = ToSet(s) \cup {p}
<1>1. <<p>> \in Seq(Page) /\ InOrder(<<p>>) /\ ToSet(<<p>>) = {p}
  BY OneInOrder
<1>2. Append(s, p) = s \o <<p>>
  BY AppendIsConcat
<1>3. s \in Seq(Nat) /\ <<p>> \in Seq(Nat)
  BY SeqMonotonic, SizeFacts DEF Page
<1>4. \A q \in ToSet(s) : \A r \in ToSet(<<p>>) : q < r
  BY <1>1
<1>5. InOrder(s \o <<p>>) /\ ToSet(s \o <<p>>) = ToSet(s) \cup {p}
  BY <1>1, <1>3, <1>4, ConcatInOrder
<1> QED
  BY <1>2, <1>5

-----------------------------------------------------------------------------
(* Types.                                                                  *)

\* The vmas are in order, and the one in hand is not empty.
ListInv == Ascending(mmap) /\ (vma # NoVma => vma.vm_start < vma.vm_end)
TypeInv == TypeOK /\ ListInv

\* The variables have their types in the beginning, ...
LEMMA TypeInit == Init => TypeInv
<1> SUFFICES ASSUME Init PROVE TypeInv
  OBVIOUS
<1>1. mmap \in Seq(Vma) /\ Ascending(mmap)
  <2>1. <<>> \in Seq(Vma) /\ Ascending(<<>>)
    BY EmptySeq DEF Ascending
  <2> QED
    BY <2>1, MigrateAssumption DEF Init
<1>2. <<>> \in Seq(Page)
  BY EmptySeq
<1> QED
  BY <1>1, <1>2 DEF Init, TypeInv, TypeOK, ListInv

\* ... and after each step.
LEMMA TypeStep == TypeInv /\ [Next]_vars => TypeInv'
<1> SUFFICES ASSUME TypeInv, [Next]_vars PROVE TypeInv'
  OBVIOUS
<1> USE DEF TypeInv, TypeOK, ListInv, callback, memory, sem, ghosts
<1>1. CASE Load \/ Unload \/ CancelTimer \/ FireNoTask \/ FireNoMm
  BY <1>1 DEF Load, Unload, CancelTimer, FireNoTask, FireNoMm
<1>2. CASE Fire
  <2>1. mmap # <<>> => /\ Head(mmap) \in Vma
                       /\ Head(mmap).vm_start < Head(mmap).vm_end
    BY FirstVma DEF Ascending
  <2>2. <<>> \in Seq(Page)
    BY EmptySeq
  <2> QED
    BY <1>2, <2>1, <2>2 DEF Fire
<1>3. CASE DownWrite
  <2>1. VisitsOf(vma) \in Seq(Page)
    BY VisitsOfFacts
  <2> QED
    BY <1>3, <2>1 DEF DownWrite, Young, YoungAhead
<1>4. CASE Visit
  <2>1. Head(todo) \in Page /\ Tail(todo) \in Seq(Page)
    BY <1>4 DEF Visit
  <2>2. Append(collected, Head(todo)) \in Seq(Page)
    BY <2>1
  <2> QED
    BY <1>4, <2>1, <2>2 DEF Visit
<1>5. CASE NextVma
  <2>1. CASE vma = NoVma
    BY <1>5, <2>1 DEF NextVma
  <2>2. CASE vma # NoVma
    <3>1. /\ vma' \in Vma \cup {NoVma}
          /\ vma' # NoVma => vma'.vm_start < vma'.vm_end
      <4>1. vma' = VmNext(vma)
        BY <1>5, <2>2 DEF NextVma
      <4>2. \A i \in DOMAIN mmap : mmap[i] \in Vma /\ mmap[i].vm_start < mmap[i].vm_end
        BY DEF Ascending
      <4> QED
        BY <4>1, <4>2, VmNextFacts
    <3>2. VisitsOf(vma') \in Seq(Page)
      BY <3>1, VisitsOfFacts
    <3> QED
      BY <1>5, <2>2, <3>1, <3>2 DEF NextVma
  <2> QED
    BY <2>1, <2>2
<1>6. CASE UpWrite \/ Stray \/ StrayReturns
  BY <1>6 DEF UpWrite, Stray, StrayReturns
<1>7. ASSUME NEW p \in Used, Touch(p) \/ Fault(p) \/ Reclaim(p) PROVE TypeInv'
  <2>1. p \in Page /\ Path(p) \subseteq (1 .. Levels - 1) \X Page
    BY MigrateAssumption, PathType
  <2>2. CASE Touch(p)
    BY <2>1, <2>2 DEF Touch
  <2>3. CASE Fault(p)
    BY <2>1, <2>3 DEF Fault
  <2>4. CASE Reclaim(p)
    BY <2>1, <2>4 DEF Reclaim
  <2> QED
    BY <1>7, <2>2, <2>3, <2>4
<1>8. CASE ProcessLock \/ ProcessUnlock \/ Leave
  BY <1>8 DEF ProcessLock, ProcessUnlock, Leave
<1>9. CASE Exit
  <2>1. <<>> \in Seq(Vma) /\ Ascending(<<>>)
    BY EmptySeq DEF Ascending
  <2> QED
    BY <1>9, <2>1 DEF Exit
<1>10. ASSUME NEW i \in DOMAIN mmap, Unmap(i) PROVE TypeInv'
  <2>1. RemoveAt(mmap, i) \in Seq(Vma) /\ Ascending(RemoveAt(mmap, i))
    BY RemoveAtFacts, RemoveAtAscending
  <2>2. PagesOf(mmap[i]) \subseteq Page
    <3>1. mmap[i] \in Vma
      OBVIOUS
    <3> QED
      BY <3>1, PagesOfVma
  <2> QED
    BY <1>10, <2>1, <2>2 DEF Unmap
<1>11. ASSUME NEW v \in Vmas, NEW i \in 1 .. Len(mmap) + 1, Map(i, v) PROVE TypeInv'
  <2>1. InsertAt(mmap, i, v) \in Seq(Vma)
    BY VmasType, InsertAtFacts
  <2> QED
    BY <1>11, <2>1 DEF Map
<1>12. CASE UNCHANGED vars
  BY <1>12 DEF vars
<1> QED
  BY <1>1, <1>2, <1>3, <1>4, <1>5, <1>6, <1>7, <1>8, <1>9, <1>10, <1>11, <1>12
     DEF Next, Callback

LEMMA TypeInvHolds == Spec => []TypeInv
  BY TypeInit, TypeStep, PTL DEF Spec

\* Every variable has its type, whatever the process does: the pages that are left
\* to visit are pages of the address space also when the vma has been given back
\* (migrate.c:88-171).
THEOREM TypeCorrect == Spec => []TypeOK
  BY TypeInvHolds, PTL DEF TypeInv

-----------------------------------------------------------------------------
(* The vma in hand.                                                        *)

\* The timer is not armed again while the callback runs, and rmmod waits for it.
TimerInv == /\ cb # "idle" => timer = "off" /\ pc # "out"
            /\ timer # "off" => pc # "out"

\* The semaphore is the callback's for as long as it walks.
LockInv == cb \in {"walk", "unlock", "stray"} <=> lock = "callback"

\* The vma that the callback has in hand, from before it has the semaphore, is
\* one of the list, or none, unless it has been freed; it ends with none.
InHand == vma = NoVma \/ \E i \in DOMAIN mmap : mmap[i] = vma
VmaInv == /\ cb \in {"lock", "walk"} /\ ~dangling => InHand
          /\ cb = "unlock" => vma = NoVma

\* Under the semaphore only the end of the process frees anything.
FreeInv == cb \in {"walk", "unlock"} /\ dangling => task = "none"

HandInv == TimerInv /\ LockInv /\ VmaInv /\ FreeInv
IInv == TypeInv /\ HandInv

\* The callback is idle in the beginning.
LEMMA InitIInv == Init => IInv
<1> SUFFICES ASSUME Init PROVE HandInv
  BY TypeInit DEF IInv
<1> QED
  BY DEF Init, HandInv, TimerInv, LockInv, VmaInv, FreeInv

\* Who has the semaphore keeps the others from the list.
LEMMA NextIInv == IInv /\ [Next]_vars => IInv'
<1> SUFFICES ASSUME IInv, [Next]_vars PROVE HandInv'
  BY TypeStep DEF IInv
<1> USE DEF HandInv, TimerInv, LockInv, VmaInv, FreeInv, InHand
<1>1. TypeInv /\ HandInv /\ mmap \in Seq(Vma) /\ Ascending(mmap)
  BY DEF IInv, TypeInv, TypeOK, ListInv
<1>2. CASE Load \/ Unload \/ CancelTimer \/ FireNoTask \/ FireNoMm
  BY <1>1, <1>2
     DEF Load, Unload, CancelTimer, FireNoTask, FireNoMm, callback, memory, sem
<1>3. CASE Fire
  <2>1. /\ cb' = "lock" /\ timer' = "off" /\ pc' = pc /\ pc # "out"
        /\ UNCHANGED <<mmap, lock>> /\ lock # "callback"
        /\ vma' = IF mmap = <<>> THEN NoVma ELSE Head(mmap)
    BY <1>1, <1>3 DEF Fire, memory
  <2> QED
    BY <1>1, <2>1, FirstVma
<1>4. CASE DownWrite
  BY <1>1, <1>4 DEF DownWrite, memory
<1>5. CASE Visit
  BY <1>1, <1>5 DEF Visit, memory, sem
<1>6. CASE NextVma
  <2>1. CASE vma = NoVma
    BY <1>1, <1>6, <2>1 DEF NextVma, memory, sem
  <2>2. CASE vma # NoVma
    <3>1. vma' = NoVma \/ \E i \in DOMAIN mmap : mmap[i] = vma'
      BY <1>1, <1>6, <2>2, VmNextFacts DEF NextVma
    <3> QED
      BY <1>1, <1>6, <2>2, <3>1 DEF NextVma, memory, sem
  <2> QED
    BY <2>1, <2>2
<1>7. CASE UpWrite \/ Stray \/ StrayReturns
  BY <1>1, <1>7 DEF UpWrite, Stray, StrayReturns, memory
<1>8. ASSUME NEW p \in Used, Touch(p) \/ Fault(p) \/ Reclaim(p) PROVE HandInv'
  BY <1>1, <1>8 DEF Touch, Fault, Reclaim, callback, sem
<1>9. CASE ProcessLock \/ ProcessUnlock \/ Leave
  BY <1>1, <1>9 DEF ProcessLock, ProcessUnlock, Leave, HoldsSem, callback, memory, sem
<1>10. CASE Exit
  BY <1>1, <1>10 DEF Exit, callback, sem
<1>11. ASSUME NEW i \in DOMAIN mmap, Unmap(i) PROVE HandInv'
  <2>1. /\ lock = "process" /\ UNCHANGED <<pc, timer, callback, sem, task>>
        /\ mmap' = RemoveAt(mmap, i)
        /\ dangling' = (dangling \/ (cb \in {"lock", "walk"} /\ vma = mmap[i]))
    BY <1>11 DEF Unmap, HoldsSem
  <2>2. cb \notin {"walk", "unlock"}
    BY <1>1, <2>1
  <2>3. ASSUME cb = "lock", ~dangling' PROVE InHand'
    <3>1. ~dangling /\ vma # mmap[i]
      BY <2>1, <2>3
    <3>2. CASE vma = NoVma
      BY <2>1, <3>2 DEF callback
    <3>3. ASSUME NEW j \in DOMAIN mmap, mmap[j] = vma PROVE InHand'
      BY <1>1, <2>1, <3>1, <3>3, RemoveAtKeeps DEF callback
    <3> QED
      BY <1>1, <2>3, <3>1, <3>2, <3>3
  <2> QED
    BY <1>1, <2>1, <2>2, <2>3 DEF callback, sem
<1>12. ASSUME NEW v \in Vmas, NEW i \in 1 .. Len(mmap) + 1, Map(i, v) PROVE HandInv'
  <2>1. /\ lock = "process" /\ UNCHANGED <<pc, timer, callback, dangling, sem, task>>
        /\ mmap' = InsertAt(mmap, i, v)
    BY <1>12 DEF Map, HoldsSem
  <2>2. \A j \in DOMAIN mmap : \E k \in DOMAIN mmap' : mmap'[k] = mmap[j]
    <3>1. mmap \in Seq(Vma) /\ v \in Vma /\ i \in 1 .. Len(mmap) + 1
      BY <1>1, VmasType
    <3>2. \A j \in DOMAIN mmap :
             \E k \in DOMAIN InsertAt(mmap, i, v) : InsertAt(mmap, i, v)[k] = mmap[j]
      BY <3>1, InsertAtFacts
    <3> QED
      BY <2>1, <3>2
  <2>3. ASSUME NEW j \in DOMAIN mmap, mmap[j] = vma PROVE InHand'
    BY <2>1, <2>2, <2>3 DEF callback
  <2> QED
    BY <1>1, <2>1, <2>3 DEF callback, sem
<1>13. CASE UNCHANGED vars
  BY <1>1, <1>13 DEF vars, callback, memory, sem
<1> QED
  BY <1>2, <1>3, <1>4, <1>5, <1>6, <1>7, <1>8, <1>9, <1>10, <1>11, <1>12, <1>13
     DEF Next, Callback

\* Under the semaphore the process keeps every vma that is walked, whatever it and
\* other callbacks did before: what is walked that is gone was freed before
\* down_write, or by a process that was leaving then (migrate.c:193-210).
THEOREM KeptOnceLockedHolds == Spec => []KeptOnceLocked
<1>1. IInv => KeptOnceLocked
  BY DEF IInv, HandInv, VmaInv, FreeInv, InHand, KeptOnceLocked
<1> QED
  BY <1>1, InitIInv, NextIInv, PTL DEF Spec

-----------------------------------------------------------------------------
(* What is collected.                                                      *)

Walking == cb \in {"walk", "unlock"}

\* A page that has ever been present has all its tables, and a vma.
TablesInv == \A p \in Page : pte[p] # "none" => Mapped(p) /\ Path(p) \subseteq tables

\* A page that was young before the walk still is, unless it has been aged.
YoungInv == Walking => /\ Young \subseteq seen
                       /\ \A p \in before \ aged : pte[p] = "young"

\* What has been collected, what is left of the vma, and the end of the vma.
OrderInv == Walking =>
    /\ InOrder(collected) /\ InOrder(todo)
    /\ \A p \in ToSet(collected) : /\ \A q \in ToSet(todo) : p < q
                                   /\ vma # NoVma => p < vma.vm_end
    /\ \A q \in ToSet(todo) : vma # NoVma /\ q < vma.vm_end

\* A page that was young before has been collected, or is still ahead.
Ahead(p) == p \in ToSet(todo) \/ (vma # NoVma /\ vma.vm_end <= p)
CoverInv == Walking =>
    /\ ToSet(collected) \subseteq seen
    /\ \A p \in before \ aged : p \in ToSet(collected) \/ Ahead(p)

\* Nothing has been collected when the walk begins.
StartInv == cb = "lock" => collected = <<>>

CollectInv == StartInv /\ TablesInv /\ YoungInv /\ OrderInv /\ CoverInv

\* No page is present in the beginning.
LEMMA CollectInit == Init => CollectInv
  BY SizeFacts
  DEF Init, CollectInv, StartInv, TablesInv, YoungInv, OrderInv, CoverInv, Walking

\* Each step keeps account of what is collected and what is ahead.
LEMMA CollectStep ==
  ASSUME IInv, CollectInv, [Next]_vars PROVE CollectInv'
<1> USE DEF Walking
<1>1. TypeInv /\ TypeOK /\ ListInv /\ TimerInv /\ LockInv /\ VmaInv
  BY DEF IInv, HandInv, TypeInv
<1>2. StartInv /\ TablesInv /\ YoungInv /\ OrderInv /\ CoverInv
  BY DEF CollectInv
<1>3. ASSUME UNCHANGED <<mmap, tables, pte>> PROVE TablesInv'
  BY <1>2, <1>3 DEF TablesInv, Mapped
<1>4. ASSUME UNCHANGED <<pte, ghosts>>, Walking' => Walking PROVE YoungInv'
  BY <1>2, <1>4 DEF YoungInv, ghosts, Young
<1>5. ASSUME UNCHANGED callback PROVE StartInv' /\ OrderInv'
  BY <1>2, <1>5 DEF StartInv, OrderInv, callback
<1>6. ASSUME UNCHANGED <<callback, before>>, aged \subseteq aged', seen \subseteq seen'
      PROVE  CoverInv'
  BY <1>2, <1>6 DEF CoverInv, callback, Ahead
<1>7. ASSUME UNCHANGED <<mmap, tables, pte, ghosts, callback>> PROVE CollectInv'
  BY <1>3, <1>4, <1>5, <1>6, <1>7 DEF CollectInv, callback, ghosts
<1>8. ASSUME ~Walking', TablesInv', StartInv' PROVE CollectInv'
  BY <1>8 DEF CollectInv, YoungInv, OrderInv, CoverInv
<1>9. CASE Load \/ Unload \/ CancelTimer \/ FireNoTask
  BY <1>7, <1>9 DEF Load, Unload, CancelTimer, FireNoTask, memory
<1>10. CASE Fire \/ FireNoMm
  BY <1>3, <1>8, <1>10 DEF Fire, FireNoMm, memory, StartInv
<1>11. CASE DownWrite
  <2>1. /\ cb = "lock" /\ ~dangling /\ cb' = "walk" /\ todo' = VisitsOf(vma)
        /\ before' = YoungAhead /\ seen' = Young /\ aged' = {}
        /\ UNCHANGED <<vma, collected, task, mmap, tables, pte>>
    BY <1>11 DEF DownWrite, memory
  <2>2. collected = <<>> /\ ToSet(collected) = {} /\ InOrder(collected)
    BY <1>2, <2>1, EmptyInOrder DEF StartInv
  <2>3. /\ VisitsOf(vma) \in Seq(Page) /\ InOrder(VisitsOf(vma))
        /\ \A p \in ToSet(VisitsOf(vma)) : vma # NoVma /\ p \in PagesOf(vma)
        /\ \A p : vma # NoVma /\ p \in PagesOf(vma) /\ Path(p) \subseteq tables
                     => p \in ToSet(VisitsOf(vma))
    BY <1>1, VisitsOfFacts DEF TypeOK, ListInv
  <2>4. OrderInv'
    <3>1. \A p \in ToSet(VisitsOf(vma)) : vma # NoVma /\ p < vma.vm_end
      <4>1. vma # NoVma => vma.vm_start \in Nat /\ vma.vm_end \in Nat
        BY <1>1, VmaFacts DEF TypeOK
      <4> QED
        BY <2>3, <4>1 DEF PagesOf
    <3> QED
      BY <2>1, <2>2, <2>3, <3>1 DEF OrderInv
  <2>5. ASSUME NEW p \in YoungAhead
        PROVE  p \in ToSet(VisitsOf(vma)) \/ (vma # NoVma /\ vma.vm_end <= p)
    <3>1. /\ p \in Page /\ pte[p] = "young" /\ vma # NoVma /\ vma.vm_start <= p
      BY <2>5 DEF YoungAhead, Young
    <3>2. Path(p) \subseteq tables
      BY <1>2, <3>1 DEF TablesInv
    <3>3. p \in PagesOf(vma) \/ vma.vm_end <= p
      BY <1>1, <3>1, VmaFacts, SizeFacts DEF TypeOK, PagesOf, Page
    <3> QED
      BY <2>3, <3>1, <3>2, <3>3
  <2>6. CoverInv'
    BY <2>1, <2>2, <2>5 DEF CoverInv, Ahead
  <2>7. YoungInv'
    BY <2>1 DEF YoungInv, Young, YoungAhead
  <2> QED
    BY <1>3, <2>1, <2>4, <2>6, <2>7 DEF CollectInv, StartInv
<1>12. CASE Visit
  <2> DEFINE h == Head(todo)
  <2>1. /\ cb = "walk" /\ cb' = "walk" /\ todo # <<>> /\ todo' = Tail(todo)
        /\ collected' = IF pte[h] = "young" THEN Append(collected, h) ELSE collected
        /\ UNCHANGED <<vma, mmap, tables, pte, before, seen, aged>>
    BY <1>12 DEF Visit, memory, ghosts
  <2>2. /\ todo \in Seq(Page) /\ collected \in Seq(Page)
        /\ InOrder(collected) /\ InOrder(todo)
        /\ \A p \in ToSet(collected) : /\ \A q \in ToSet(todo) : p < q
                                       /\ vma # NoVma => p < vma.vm_end
        /\ \A q \in ToSet(todo) : vma # NoVma /\ q < vma.vm_end
    BY <1>1, <1>2, <2>1 DEF OrderInv, TypeOK
  <2>3. /\ h \in Page /\ ToSet(todo) = {h} \cup ToSet(todo') /\ InOrder(todo')
        /\ \A q \in ToSet(todo') : h < q
    BY <2>1, <2>2, TailInOrder
  <2> HIDE DEF h
  <2>4. /\ Append(collected, h) \in Seq(Page) /\ InOrder(Append(collected, h))
        /\ ToSet(Append(collected, h)) = ToSet(collected) \cup {h}
    BY <2>2, <2>3, AppendInOrder
  <2>5. /\ InOrder(collected')
        /\ ToSet(collected') = ToSet(collected) \cup (IF pte[h] = "young" THEN {h} ELSE {})
    BY <2>1, <2>2, <2>4
  <2>6. OrderInv'
    BY <2>1, <2>2, <2>3, <2>5 DEF OrderInv
  <2>7. YoungInv /\ CoverInv /\ Young \subseteq seen
    BY <1>2, <2>1 DEF YoungInv
  <2>8. pte[h] = "young" => h \in seen
    BY <2>3, <2>7 DEF Young
  <2>9. ASSUME NEW p \in before \ aged
        PROVE  p \in ToSet(collected') \cup ToSet(todo') \/ (vma # NoVma /\ vma.vm_end <= p)
    <3>1. pte[p] = "young"
      BY <1>2, <2>1 DEF YoungInv
    <3>2. p \in ToSet(collected) \/ p \in ToSet(todo) \/ (vma # NoVma /\ vma.vm_end <= p)
      BY <2>1, <2>7 DEF CoverInv, Ahead
    <3> QED
      BY <2>3, <2>5, <3>1, <3>2
  <2>10. ToSet(collected') \subseteq seen
    BY <2>1, <2>5, <2>7, <2>8 DEF CoverInv
  <2>11. CoverInv'
    BY <2>1, <2>9, <2>10 DEF CoverInv, Ahead
  <2>12. YoungInv'
    BY <1>4, <2>1 DEF ghosts
  <2> QED
    BY <1>3, <2>1, <2>6, <2>11, <2>12 DEF CollectInv, StartInv
<1>13. CASE NextVma
  <2>1. /\ cb = "walk" /\ todo = <<>> /\ cb' \in {"walk", "unlock"}
        /\ UNCHANGED <<collected, mmap, tables, pte, before, seen, aged>>
    BY <1>13 DEF NextVma, memory, ghosts
  <2>2. TablesInv' /\ YoungInv' /\ StartInv'
    BY <1>3, <1>4, <2>1 DEF ghosts, StartInv
  <2>3. CASE vma = NoVma
    BY <1>2, <1>13, <2>1, <2>2, <2>3
       DEF NextVma, CollectInv, OrderInv, CoverInv, Ahead
  <2>4. CASE vma # NoVma
    <3>1. PICK k \in DOMAIN mmap : mmap[k] = vma
      BY <1>1, <1>13, <2>1, <2>4 DEF NextVma, VmaInv, InHand
    <3>2. vma' = VmNext(vma) /\ todo' = VisitsOf(vma')
      BY <1>13, <2>4 DEF NextVma
    <3>3. /\ vma' \in Vma \cup {NoVma}
          /\ vma' # NoVma => /\ vma.vm_end <= vma'.vm_start
                             /\ \E i \in DOMAIN mmap : mmap[i] = vma'
          /\ \A p : Mapped(p) /\ vma.vm_end <= p
                       => vma' # NoVma /\ (p \in PagesOf(vma') \/ vma'.vm_end <= p)
      BY <1>1, <3>1, <3>2, VmNextApart DEF TypeOK, ListInv
    <3>4. vma' # NoVma => vma'.vm_start < vma'.vm_end
      BY <1>1, <3>3 DEF ListInv, Ascending
    <3>5. /\ InOrder(VisitsOf(vma'))
          /\ \A p \in ToSet(VisitsOf(vma')) : vma' # NoVma /\ p \in PagesOf(vma')
          /\ \A p : vma' # NoVma /\ p \in PagesOf(vma') /\ Path(p) \subseteq tables
                       => p \in ToSet(VisitsOf(vma'))
      BY <3>3, <3>4, VisitsOfFacts
    <3>6. /\ vma.vm_start \in Nat /\ vma.vm_end \in Nat
          /\ vma' # NoVma => vma'.vm_start \in Nat /\ vma'.vm_end \in Nat
      BY <1>1, <2>4, <3>3, VmaFacts DEF TypeOK
    <3>7. /\ ToSet(todo) = {} /\ InOrder(collected) /\ ToSet(collected) \subseteq Nat
          /\ \A p \in ToSet(collected) : p < vma.vm_end
      BY <1>1, <1>2, <2>1, <2>4, SizeFacts, EmptyInOrder DEF OrderInv, TypeOK, ToSet, Page
    <3>8. \A q \in ToSet(todo') : /\ vma' # NoVma /\ q \in Nat
                                  /\ vma'.vm_start <= q /\ q < vma'.vm_end
      BY <3>2, <3>5, <3>6 DEF PagesOf
    <3>9. OrderInv'
      <4>1. ASSUME NEW p \in ToSet(collected), NEW q \in ToSet(todo') PROVE p < q
        BY <3>3, <3>6, <3>7, <3>8
      <4>2. ASSUME NEW p \in ToSet(collected), vma' # NoVma PROVE p < vma'.vm_end
        BY <3>3, <3>4, <3>6, <3>7, <4>2
      <4> QED
        BY <2>1, <3>2, <3>5, <3>7, <3>8, <4>1, <4>2 DEF OrderInv
    <3>10. ASSUME NEW p \in before \ aged
           PROVE  p \in ToSet(collected) \/ p \in ToSet(todo')
                     \/ (vma' # NoVma /\ vma'.vm_end <= p)
      <4>1. p \in Page /\ pte[p] = "young"
        BY <1>1, <1>2, <2>1 DEF YoungInv, TypeOK
      <4>2. Mapped(p) /\ Path(p) \subseteq tables
        BY <1>2, <4>1 DEF TablesInv
      <4>3. p \in ToSet(collected) \/ vma.vm_end <= p
        BY <1>2, <2>1, <3>7 DEF CoverInv, Ahead
      <4> QED
        BY <3>2, <3>3, <3>5, <4>2, <4>3
    <3>11. CoverInv'
      BY <1>2, <2>1, <3>10 DEF CoverInv, Ahead
    <3> QED
      BY <2>2, <3>9, <3>11 DEF CollectInv
  <2> QED
    BY <2>3, <2>4
<1>14. CASE UpWrite \/ Stray \/ StrayReturns
  BY <1>3, <1>8, <1>14 DEF UpWrite, Stray, StrayReturns, memory, StartInv
<1>15. ASSUME NEW p \in Used, Touch(p) PROVE CollectInv'
  <2>1. /\ p \in Page /\ pte[p] = "old" /\ pte' = [pte EXCEPT ![p] = "young"]
        /\ seen' = seen \cup {p} /\ UNCHANGED <<callback, mmap, tables, before, aged>>
    BY <1>15, MigrateAssumption DEF Touch
  <2>2. TablesInv'
    BY <1>1, <1>2, <2>1 DEF TablesInv, Mapped, TypeOK
  <2>3. YoungInv'
    BY <1>1, <1>2, <2>1 DEF YoungInv, Young, TypeOK, callback
  <2> QED
    BY <1>5, <1>6, <2>1, <2>2, <2>3 DEF CollectInv
<1>16. ASSUME NEW p \in Used, Fault(p) PROVE CollectInv'
  <2>1. /\ p \in Page /\ Mapped(p) /\ pte' = [pte EXCEPT ![p] = "young"]
        /\ tables' = tables \cup Path(p) /\ UNCHANGED <<callback, mmap>>
        /\ lock = "process"
    BY <1>16, MigrateAssumption DEF Fault, HoldsSem
  <2>2. ~Walking'
    BY <1>1, <2>1 DEF LockInv, callback
  <2>3. TablesInv'
    BY <1>1, <1>2, <2>1 DEF TablesInv, Mapped, TypeOK
  <2> QED
    BY <1>5, <1>8, <2>1, <2>2, <2>3
<1>17. ASSUME NEW p \in Used, Reclaim(p) PROVE CollectInv'
  <2>1. /\ p \in Page /\ pte[p] # "none" /\ aged' = aged \cup {p}
        /\ \/ pte' = [pte EXCEPT ![p] = "old"]
           \/ pte' = [pte EXCEPT ![p] = "swapped"]
        /\ UNCHANGED <<callback, mmap, tables, before, seen>>
    BY <1>17, MigrateAssumption DEF Reclaim
  <2>2. TablesInv'
    BY <1>1, <1>2, <2>1 DEF TablesInv, Mapped, TypeOK
  <2>3. YoungInv'
    BY <1>1, <1>2, <2>1 DEF YoungInv, Young, TypeOK, callback
  <2> QED
    BY <1>5, <1>6, <2>1, <2>2, <2>3 DEF CollectInv
<1>18. CASE ProcessLock \/ ProcessUnlock \/ Leave
  BY <1>7, <1>18 DEF ProcessLock, ProcessUnlock, Leave, memory
<1>19. CASE Exit
  <2>1. /\ UNCHANGED <<callback, before, seen>> /\ aged' = Page
        /\ pte' = [p \in Page |-> "none"]
    BY <1>19 DEF Exit
  <2>2. TablesInv' /\ Young' = {}
    BY <2>1 DEF TablesInv, Young
  <2>3. before \ aged' = {} /\ aged \subseteq aged'
    BY <1>1, <2>1 DEF TypeOK
  <2>4. YoungInv'
    BY <2>1, <2>2, <2>3 DEF YoungInv
  <2> QED
    BY <1>5, <1>6, <2>1, <2>2, <2>3, <2>4 DEF CollectInv
<1>20. ASSUME NEW i \in DOMAIN mmap, Unmap(i) PROVE CollectInv'
  <2>1. /\ lock = "process" /\ UNCHANGED <<callback, tables>>
        /\ mmap' = RemoveAt(mmap, i)
        /\ pte' = [p \in Page |-> IF p \in PagesOf(mmap[i]) THEN "none" ELSE pte[p]]
    BY <1>20 DEF Unmap, HoldsSem
  <2>2. ~Walking'
    BY <1>1, <2>1 DEF LockInv, callback
  <2>3. ASSUME NEW p \in Page, pte'[p] # "none"
        PROVE  (\E j \in DOMAIN mmap' : p \in PagesOf(mmap'[j])) /\ Path(p) \subseteq tables'
    <3>1. p \notin PagesOf(mmap[i]) /\ pte[p] # "none"
      BY <2>1, <2>3
    <3>2. Path(p) \subseteq tables /\ Mapped(p)
      BY <1>2, <3>1 DEF TablesInv
    <3>3. PICK j \in DOMAIN mmap : p \in PagesOf(mmap[j])
      BY <3>2 DEF Mapped
    <3>4. \E k \in DOMAIN mmap' : mmap'[k] = mmap[j]
      BY <1>1, <2>1, <3>1, <3>3, RemoveAtKeeps DEF TypeOK
    <3> QED
      BY <2>1, <3>2, <3>3, <3>4
  <2>4. TablesInv'
    BY <2>3 DEF TablesInv, Mapped
  <2> QED
    BY <1>5, <1>8, <2>1, <2>2, <2>4
<1>21. ASSUME NEW v \in Vmas, NEW i \in 1 .. Len(mmap) + 1, Map(i, v) PROVE CollectInv'
  <2>1. /\ lock = "process" /\ UNCHANGED <<callback, tables, pte>>
        /\ mmap' = InsertAt(mmap, i, v)
    BY <1>21 DEF Map, HoldsSem
  <2>2. ~Walking'
    BY <1>1, <2>1 DEF LockInv, callback
  <2>3. \A j \in DOMAIN mmap : \E k \in DOMAIN mmap' : mmap'[k] = mmap[j]
    BY <1>1, <2>1, VmasType, InsertAtFacts DEF TypeOK
  <2>4. TablesInv'
    BY <1>2, <2>1, <2>3 DEF TablesInv, Mapped
  <2> QED
    BY <1>5, <1>8, <2>1, <2>2, <2>4
<1>22. CASE UNCHANGED vars
  BY <1>7, <1>22 DEF vars, memory
<1> QED
  BY <1>9, <1>10, <1>11, <1>12, <1>13, <1>14, <1>15, <1>16, <1>17, <1>18, <1>19, <1>20,
     <1>21, <1>22 DEF Next, Callback

\* A walk that comes to its end has collected every page that was accessed before
\* and not aged since, in its first vma and those after it, no page that was not
\* accessed, and none twice, whatever pages are touched, reclaimed and faulted in
\* and whatever vmas are mapped and unmapped meanwhile (migrate.c:94-114, 194-210).
THEOREM CollectsAccessedHolds == Spec => []CollectsAccessed
<1>1. IInv /\ CollectInv => CollectsAccessed
  <2> SUFFICES ASSUME IInv, CollectInv, cb = "unlock"
               PROVE  /\ before \ aged \subseteq ToSet(collected)
                      /\ ToSet(collected) \subseteq seen /\ InOrder(collected)
    BY DEF CollectsAccessed
  <2>1. vma = NoVma
    BY DEF IInv, HandInv, VmaInv
  <2> QED
    BY <2>1 DEF CollectInv, OrderInv, CoverInv, Ahead, Walking
<1>2. CollectInv /\ IInv /\ [Next]_vars => CollectInv'
  BY CollectStep
<1> QED
  BY <1>1, <1>2, InitIInv, NextIInv, CollectInit, PTL DEF Spec

\* The four nested loops visit the pages of any range that all tables are present
\* for, in order and once, for tables of any fan and any set of entries that are
\* none (migrate.c:88-171).
THEOREM WalkVisitsPresentHolds == Spec => []WalkVisitsPresent
<1>1. ASSUME NEW T, NEW s \in Page, NEW e \in s + 1 .. Size
      PROVE  LET visited == Visits(T, s, e)
             IN  /\ ToSet(visited) = {p \in s .. e - 1 : Path(p) \subseteq T}
                 /\ InOrder(visited)
  <2>1. e \in s .. Size
    BY SizeFacts DEF Page
  <2> QED
    BY <2>1, WalkVisits
<1>2. WalkVisitsPresent
  BY <1>1, Zenon DEF WalkVisitsPresent
<1> QED
  BY <1>2, PTL
=============================================================================
