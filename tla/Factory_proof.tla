---------------------------- MODULE Factory_proof ----------------------------
(***************************************************************************)
(* Proofs about Factory, for any number of goroutines and appends.         *)
(*                                                                         *)
(* First, HostCount is a number, whatever the list (an induction over the  *)
(* fold that computes it), and Len is that number as long as a C int holds *)
(* it, and no longer.  Then what is left to a client whose calls overlap,  *)
(* but no assignment with another access: it may lose hosts, but no more.  *)
(* At last, with a client that lets a call that writes run alone (Serial), *)
(* nothing a call has read changes while it is on its way, so that the     *)
(* clone it moves back is the present configuration with its own change.   *)
(***************************************************************************)
EXTENDS Factory, TLAPS, WellFoundedInduction

-----------------------------------------------------------------------------
(* Induction and counting.                                                 *)

\* The library states induction with an operator as its parameter, which no
\* backend can instantiate; for a set of naturals it follows from the existence
\* of minimal elements.
LEMMA InductionOnSet ==
  ASSUME NEW S,
         0 \in S,
         \A n \in Nat : n \in S => n + 1 \in S
  PROVE  Nat \subseteq S
<1> SUFFICES ASSUME Nat \ S # {}
             PROVE  FALSE
  OBVIOUS
<1>1. PICK n \in Nat \ S : \A m \in Nat \ S : <<m, n>> \notin OpToRel(<, Nat)
  BY NatLessThanWellFounded, WFMin
<1>2. OpToRel(<, Nat) = {ss \in Nat \X Nat : ss[1] < ss[2]}
  BY DEF OpToRel
<1>3. \A m \in Nat \ S : ~(m < n)
  <2> SUFFICES ASSUME NEW m \in Nat \ S, m < n
               PROVE  FALSE
    OBVIOUS
  <2>1. <<m, n>> \in {ss \in Nat \X Nat : ss[1] < ss[2]}
    OBVIOUS
  <2> QED
    BY <1>1, <1>2, <2>1
<1>4. n \in Nat \ {0}
  BY <1>1
<1>5. n - 1 \in Nat /\ n - 1 < n /\ (n - 1) + 1 = n
  BY <1>4
<1>6. n - 1 \in S
  BY <1>3, <1>5
<1> QED
  BY <1>1, <1>5, <1>6

CountOf(s) == FoldLeft(LAMBDA n, r : n + Size[r], 0, s)

\* f counts the hosts of the ranges at each set of indices, 1 .. m at most.
Counts(f, s, m) ==
  f = [I \in SUBSET (1 .. m) |->
         IF I = {} THEN 0 ELSE f[I \ {Max(I)}] + Size[s[Max(I)]]]

\* The largest of the indices up to m + 1 is m + 1 or one up to m.
LEMMA MaxTop ==
  ASSUME NEW m \in Nat, NEW I \in SUBSET (1 .. m + 1), m + 1 \in I
  PROVE  Max(I) = m + 1
<1>1. m + 1 \in I /\ \A i \in I : m + 1 >= i
  OBVIOUS
<1>2. \A k \in I : (\A i \in I : k >= i) => k = m + 1
  OBVIOUS
<1> QED
  BY <1>1, <1>2 DEF Max

LEMMA CountsExist ==
  ASSUME NEW s
  PROVE  \A m \in Nat : \E f : Counts(f, s, m)
<1> DEFINE S == {m \in Nat : \E f : Counts(f, s, m)}
<1>1. 0 \in S
  <2> DEFINE f == [I \in SUBSET (1 .. 0) |-> 0]
  <2>1. \A I \in SUBSET (1 .. 0) : I = {}
    OBVIOUS
  <2>2. Counts(f, s, 0)
    BY <2>1 DEF Counts
  <2> QED
    BY <2>2
<1>2. ASSUME NEW m \in Nat, m \in S
      PROVE  m + 1 \in S
  <2>1. PICK f : Counts(f, s, m)
    BY <1>2
  <2> DEFINE g == [I \in SUBSET (1 .. m + 1) |->
                     IF m + 1 \in I THEN f[I \ {m + 1}] + Size[s[m + 1]] ELSE f[I]]
             body(I) == IF I = {} THEN 0 ELSE g[I \ {Max(I)}] + Size[s[Max(I)]]
  <2>2. ASSUME NEW I \in SUBSET (1 .. m + 1)
        PROVE  g[I] = body(I)
    <3>1. CASE m + 1 \in I
      <4>1. Max(I) = m + 1
        BY <3>1, MaxTop
      <4>2. I \ {m + 1} \in SUBSET (1 .. m + 1) /\ m + 1 \notin I \ {m + 1}
        OBVIOUS
      <4>3. g[I \ {m + 1}] = f[I \ {m + 1}]
        BY <4>2
      <4> QED
        BY <3>1, <4>1, <4>3
    <3>2. CASE m + 1 \notin I
      <4>1. I \in SUBSET (1 .. m)
        BY <3>2
      <4>2. f[I] = IF I = {} THEN 0 ELSE f[I \ {Max(I)}] + Size[s[Max(I)]]
        BY <2>1, <4>1 DEF Counts
      <4>3. g[I] = f[I] /\ g[I \ {Max(I)}] = f[I \ {Max(I)}]
        <5>1. I \ {Max(I)} \in SUBSET (1 .. m + 1) /\ m + 1 \notin I \ {Max(I)}
          BY <3>2
        <5> QED
          BY <3>2, <5>1
      <4> QED
        BY <4>2, <4>3
    <3> QED
      BY <3>1, <3>2
  <2> HIDE DEF body
  <2>3. g = [I \in SUBSET (1 .. m + 1) |-> body(I)]
    BY <2>2
  <2>4. Counts(g, s, m + 1)
    BY <2>3, Zenon DEF body, Counts
  <2> HIDE DEF g, body
  <2>5. \E cnt : Counts(cnt, s, m + 1)
    BY <2>4, Zenon
  <2>6. m + 1 \in Nat
    OBVIOUS
  <2> QED
    BY <2>5, <2>6, Zenon
<1> HIDE DEF S
<1>3. Nat \subseteq S
  BY <1>1, <1>2, InductionOnSet
<1> QED
  BY <1>3 DEF S

\* What FoldLeft computes is the last value of a function that satisfies the
\* equation of its recursion.
LEMMA CountOfIs ==
  ASSUME NEW s \in Seq(HostRange)
  PROVE  \E f : Counts(f, s, Len(s)) /\ CountOf(s) = f[1 .. Len(s)]
<1> DEFINE f == CHOOSE f : Counts(f, s, Len(s))
<1>1. DOMAIN s = 1 .. Len(s) /\ Len(s) \in Nat
  OBVIOUS
<1>2. CountOf(s) = (CHOOSE iter : iter =
         [I \in SUBSET DOMAIN s |->
            IF I = {} THEN 0 ELSE iter[I \ {Max(I)}] + Size[s[Max(I)]]])[DOMAIN s]
  BY DEF CountOf, FoldLeft, MapThenFoldSet
<1>3. CountOf(s) = f[1 .. Len(s)]
  BY <1>1, <1>2 DEF Counts
<1>4. Counts(f, s, Len(s))
  BY <1>1, CountsExist
<1> QED
  BY <1>3, <1>4

\* The value at 1 .. m is that at 1 .. m - 1 and the size of the m-th range.
LEMMA CountsStep ==
  ASSUME NEW n \in Nat, NEW s, NEW f, Counts(f, s, n)
  PROVE  /\ f[1 .. 0] = 0
         /\ \A m \in 0 .. n - 1 : f[1 .. m + 1] = f[1 .. m] + Size[s[m + 1]]
<1>1. 1 .. 0 = {} /\ 1 .. 0 \in SUBSET (1 .. n)
  OBVIOUS
<1>2. f[1 .. 0] = 0
  BY <1>1 DEF Counts
<1>3. ASSUME NEW m \in 0 .. n - 1
      PROVE  f[1 .. m + 1] = f[1 .. m] + Size[s[m + 1]]
  <2>1. /\ 1 .. m + 1 \in SUBSET (1 .. n) /\ m + 1 \in 1 .. m + 1
        /\ (1 .. m + 1) \ {m + 1} = 1 .. m
    OBVIOUS
  <2>2. Max(1 .. m + 1) = m + 1
    BY <2>1, MaxTop
  <2>3. \A I \in SUBSET (1 .. n) :
          I # {} => f[I] = f[I \ {Max(I)}] + Size[s[Max(I)]]
    BY DEF Counts
  <2>4. f[1 .. m + 1] = f[(1 .. m + 1) \ {m + 1}] + Size[s[m + 1]]
    BY <2>1, <2>2, <2>3
  <2> QED
    BY <2>1, <2>4
<1> QED
  BY <1>2, <1>3

\* The number of hosts is a number.
LEMMA CountIsNatural ==
  ASSUME NEW s \in Seq(HostRange)
  PROVE  CountOf(s) \in Nat
<1>1. PICK f : Counts(f, s, Len(s)) /\ CountOf(s) = f[1 .. Len(s)]
  BY CountOfIs
<1> DEFINE S == {m \in Nat : m <= Len(s) => f[1 .. m] \in Nat}
<1>2. 0 \in S
  BY <1>1, CountsStep
<1>3. ASSUME NEW m \in Nat, m \in S
      PROVE  m + 1 \in S
  <2> SUFFICES ASSUME m + 1 <= Len(s)
               PROVE  f[1 .. m + 1] \in Nat
    OBVIOUS
  <2>1. m \in 0 .. Len(s) - 1 /\ m + 1 \in 1 .. Len(s)
    OBVIOUS
  <2>2. f[1 .. m + 1] = f[1 .. m] + Size[s[m + 1]]
    BY <1>1, <2>1, CountsStep
  <2>3. Size[s[m + 1]] \in Nat
    BY <2>1, FactoryAssumption
  <2> QED
    BY <1>3, <2>1, <2>2, <2>3
<1> HIDE DEF S
<1>4. Nat \subseteq S
  BY <1>2, <1>3, InductionOnSet
<1> QED
  BY <1>1, <1>4 DEF S

\* It starts at zero, and a range adds its size: asic-rs counts hosts.
LEMMA CountOfAppend ==
  /\ CountOf(<<>>) = 0
  /\ \A s \in Seq(HostRange), r \in HostRange :
       CountOf(Append(s, r)) = CountOf(s) + Size[r]
<1>1. CountOf(<<>>) = 0
  <2>1. <<>> \in Seq(HostRange) /\ Len(<<>>) = 0
    OBVIOUS
  <2>2. PICK f : Counts(f, <<>>, 0) /\ CountOf(<<>>) = f[1 .. 0]
    BY <2>1, CountOfIs
  <2> QED
    BY <2>2, CountsStep
<1>2. ASSUME NEW s \in Seq(HostRange), NEW r \in HostRange
      PROVE  CountOf(Append(s, r)) = CountOf(s) + Size[r]
  <2> DEFINE t == Append(s, r)
             n == Len(s)
  <2>1. /\ t \in Seq(HostRange) /\ n \in Nat /\ Len(t) = n + 1 /\ t[n + 1] = r
        /\ \A i \in 1 .. n : t[i] = s[i]
    OBVIOUS
  <2> HIDE DEF t, n
  <2>2. PICK f : Counts(f, s, n) /\ CountOf(s) = f[1 .. n]
    BY CountOfIs DEF n
  <2>3. PICK h : Counts(h, t, n + 1) /\ CountOf(t) = h[1 .. n + 1]
    BY <2>1, CountOfIs
  <2> DEFINE S == {m \in Nat : m <= n => h[1 .. m] = f[1 .. m]}
  <2>4. 0 \in S
    BY <2>1, <2>2, <2>3, CountsStep
  <2>5. ASSUME NEW m \in Nat, m \in S
        PROVE  m + 1 \in S
    <3> SUFFICES ASSUME m + 1 <= n
                 PROVE  h[1 .. m + 1] = f[1 .. m + 1]
      OBVIOUS
    <3>1. m \in 0 .. n - 1 /\ m \in 0 .. (n + 1) - 1 /\ m + 1 \in 1 .. n /\ m <= n
      BY <2>1
    <3>2. f[1 .. m + 1] = f[1 .. m] + Size[s[m + 1]]
      BY <2>1, <2>2, <3>1, CountsStep
    <3>3. h[1 .. m + 1] = h[1 .. m] + Size[t[m + 1]]
      BY <2>1, <2>3, <3>1, CountsStep
    <3> QED
      BY <2>1, <2>5, <3>1, <3>2, <3>3
  <2> HIDE DEF S
  <2>6. Nat \subseteq S
    BY <2>4, <2>5, InductionOnSet
  <2>7. h[1 .. n] = f[1 .. n]
    BY <2>1, <2>6 DEF S
  <2>8. h[1 .. n + 1] = h[1 .. n] + Size[t[n + 1]]
    BY <2>1, <2>3, CountsStep
  <2> QED
    BY <2>1, <2>2, <2>3, <2>7, <2>8 DEF t
<1> QED
  BY <1>1, <1>2

\* The conversion to a C int is exact for the numbers that fit and makes each
\* other one smaller than the least of them that does not.
LEMMA CIntWraps ==
  ASSUME NEW n \in Nat
  PROVE  /\ CInt(n) \in Int /\ CInt(n) < CIntHalf
         /\ n < CIntHalf => CInt(n) = n
<1> DEFINE m == 2 * CIntHalf
<1>1. m \in Nat \ {0} /\ m = CIntHalf + CIntHalf /\ CIntHalf \in Nat \ {0}
  BY FactoryAssumption
<1>2. n + CIntHalf \in Nat
  BY <1>1
<1>3. \A a \in Nat, b \in Nat \ {0} : a % b \in Nat /\ a % b < b /\ (a < b => a % b = a)
  OBVIOUS
<1> HIDE DEF m
<1>4. /\ (n + CIntHalf) % m \in Nat
      /\ (n + CIntHalf) % m < m
      /\ n + CIntHalf < m => (n + CIntHalf) % m = n + CIntHalf
  BY <1>1, <1>2, <1>3
<1>5. CInt(n) = ((n + CIntHalf) % m) - CIntHalf
  BY DEF CInt, m
<1> QED
  BY <1>1, <1>4, <1>5

\* Len is the number of hosts as long as that number fits, and no longer.
LEMMA LenExact ==
  ASSUME config.hosts \in Seq(HostRange)
  PROVE  /\ LenIsCount <=> HostCount < CIntHalf
         /\ IsEmpty => LenIsCount
<1>1. HostCount \in Nat
  BY CountIsNatural DEF HostCount, CountOf
<1>2. CIntHalf \in Nat \ {0}
  BY FactoryAssumption
<1> QED
  BY <1>1, <1>2, CIntWraps DEF LenIsCount, HostsLen, IsEmpty

-----------------------------------------------------------------------------
(* Any client.                                                             *)

\* s is t with some elements left out.
Thinned(s, t) ==
  \E f \in [1 .. Len(s) -> 1 .. Len(t)] :
    /\ \A i, j \in 1 .. Len(s) : i < j => f[i] < f[j]
    /\ \A i \in 1 .. Len(s) : s[i] = t[f[i]]

\* What acked will be when the call of g has returned.
AckedAfter(g) == IF op[g].kind = "append" THEN Append(acked, op[g].arg) ELSE acked

\* g has built its clone and not moved it yet.
Built(g) == pc[g] \in {"assign", "moving"}

AnyIInv ==
  /\ TypeOK
  /\ \A g \in Goroutine : Built(g) => Writes(op[g]) /\ ~Rejected(op[g])
  /\ ~undefined =>
       /\ Thinned(config.hosts, acked)
       /\ \A g \in Goroutine : Built(g) => Thinned(built[g].hosts, AckedAfter(g))

\* Nothing need be left out.
LEMMA ThinnedSame ==
  ASSUME NEW s \in Seq(HostRange)
  PROVE  Thinned(s, s)
<1> DEFINE f == [i \in 1 .. Len(s) |-> i]
<1>1. f \in [1 .. Len(s) -> 1 .. Len(s)]
  OBVIOUS
<1>2. \A i, j \in 1 .. Len(s) : i < j => f[i] < f[j]
  OBVIOUS
<1>3. \A i \in 1 .. Len(s) : s[i] = s[f[i]]
  OBVIOUS
<1> HIDE DEF f
<1> QED
  BY <1>1, <1>2, <1>3 DEF Thinned

\* More may be left out.
LEMMA ThinnedMore ==
  ASSUME NEW s \in Seq(HostRange), NEW t \in Seq(HostRange), NEW e \in HostRange,
         Thinned(s, t)
  PROVE  Thinned(s, Append(t, e))
<1>1. PICK f \in [1 .. Len(s) -> 1 .. Len(t)] :
             /\ \A i, j \in 1 .. Len(s) : i < j => f[i] < f[j]
             /\ \A i \in 1 .. Len(s) : s[i] = t[f[i]]
  BY DEF Thinned
<1>2. Len(Append(t, e)) = Len(t) + 1 /\ \A i \in 1 .. Len(t) : Append(t, e)[i] = t[i]
  OBVIOUS
<1>3. f \in [1 .. Len(s) -> 1 .. Len(Append(t, e))]
  BY <1>2
<1>4. \A i \in 1 .. Len(s) : f[i] \in 1 .. Len(t) /\ s[i] = Append(t, e)[f[i]]
  BY <1>1, <1>2
<1> DEFINE v == Append(t, e)
<1> HIDE DEF v
<1>5. f \in [1 .. Len(s) -> 1 .. Len(v)] /\ \A i \in 1 .. Len(s) : s[i] = v[f[i]]
  BY <1>3, <1>4 DEF v
<1>6. Thinned(s, v)
  BY <1>1, <1>5 DEF Thinned
<1> QED
  BY <1>6 DEF v

\* The same element may come last in both.
LEMMA ThinnedBoth ==
  ASSUME NEW s \in Seq(HostRange), NEW t \in Seq(HostRange), NEW e \in HostRange,
         Thinned(s, t)
  PROVE  Thinned(Append(s, e), Append(t, e))
<1> DEFINE u == Append(s, e)
           v == Append(t, e)
<1>1. PICK f \in [1 .. Len(s) -> 1 .. Len(t)] :
             /\ \A i, j \in 1 .. Len(s) : i < j => f[i] < f[j]
             /\ \A i \in 1 .. Len(s) : s[i] = t[f[i]]
  BY DEF Thinned
<1>2. /\ Len(s) \in Nat /\ Len(t) \in Nat
      /\ Len(u) = Len(s) + 1 /\ u[Len(s) + 1] = e
      /\ Len(v) = Len(t) + 1 /\ v[Len(t) + 1] = e
      /\ \A i \in 1 .. Len(s) : u[i] = s[i]
      /\ \A i \in 1 .. Len(t) : v[i] = t[i]
  OBVIOUS
<1> HIDE DEF u, v
<1> DEFINE h == [i \in 1 .. Len(u) |-> IF i <= Len(s) THEN f[i] ELSE Len(t) + 1]
<1>3. \A i \in 1 .. Len(u) : i \in 1 .. Len(s) \/ i = Len(s) + 1
  BY <1>2
<1>4. \A i \in 1 .. Len(s) : h[i] = f[i] /\ h[i] \in 1 .. Len(t) /\ i \in 1 .. Len(u)
  BY <1>1, <1>2
<1>5. h[Len(s) + 1] = Len(t) + 1 /\ Len(s) + 1 \in 1 .. Len(u)
  BY <1>2
<1>6. h \in [1 .. Len(u) -> 1 .. Len(v)]
  BY <1>1, <1>2
<1> HIDE DEF h
<1>7. \A i, j \in 1 .. Len(u) : i < j => h[i] < h[j]
  BY <1>1, <1>2, <1>3, <1>4, <1>5
<1>8. \A i \in 1 .. Len(u) : u[i] = v[h[i]]
  BY <1>1, <1>2, <1>3, <1>4, <1>5
<1> QED
  BY <1>6, <1>7, <1>8 DEF Thinned, u, v

\* Another element may come in before the last one.
LEMMA ThinnedBetween ==
  ASSUME NEW s \in Seq(HostRange), NEW t \in Seq(HostRange),
         NEW d \in HostRange, NEW e \in HostRange,
         Thinned(s, Append(t, e))
  PROVE  Thinned(s, Append(Append(t, d), e))
<1> DEFINE u == Append(t, e)
           v == Append(Append(t, d), e)
<1>1. /\ Len(s) \in Nat /\ Len(t) \in Nat
      /\ Len(u) = Len(t) + 1 /\ u[Len(t) + 1] = e
      /\ Len(v) = Len(t) + 2 /\ v[Len(t) + 2] = e
      /\ \A i \in 1 .. Len(t) : u[i] = t[i] /\ v[i] = t[i]
  OBVIOUS
<1> HIDE DEF u, v
<1>2. PICK f \in [1 .. Len(s) -> 1 .. Len(u)] :
             /\ \A i, j \in 1 .. Len(s) : i < j => f[i] < f[j]
             /\ \A i \in 1 .. Len(s) : s[i] = u[f[i]]
  BY DEF Thinned, u
<1> DEFINE h == [i \in 1 .. Len(s) |-> IF f[i] <= Len(t) THEN f[i] ELSE Len(t) + 2]
<1>3. \A i \in 1 .. Len(s) : f[i] \in 1 .. Len(t) \/ f[i] = Len(t) + 1
  BY <1>1, <1>2
<1>4. \A i \in 1 .. Len(s) :
        /\ f[i] \in 1 .. Len(t) => h[i] = f[i]
        /\ f[i] = Len(t) + 1 => h[i] = Len(t) + 2
  BY <1>1, <1>2
<1>5. h \in [1 .. Len(s) -> 1 .. Len(v)]
  BY <1>1, <1>2, <1>3
<1> HIDE DEF h
<1>6. \A i, j \in 1 .. Len(s) : i < j => h[i] < h[j]
  BY <1>1, <1>2, <1>3, <1>4
<1>7. \A i \in 1 .. Len(s) : s[i] = v[h[i]]
  BY <1>1, <1>2, <1>3, <1>4
<1> QED
  BY <1>5, <1>6, <1>7 DEF Thinned, v

\* A builder method keeps a configuration a configuration, and only an append
\* touches the hosts.
LEMMA ApplyTyped ==
  ASSUME NEW o \in Op, ~Rejected(o), NEW c \in Config
  PROVE  /\ Apply(o, c) \in Config
         /\ Apply(o, c).hosts = IF o.kind = "append" THEN Append(c.hosts, o.arg)
                                                     ELSE c.hosts
<1>1. CASE o.kind = "append"
  <2>1. o.arg \in HostRange
    BY <1>1 DEF Op, Rejected
  <2>2. Append(c.hosts, o.arg) \in Seq(HostRange)
    BY <2>1 DEF Config
  <2>3. Apply(o, c) = [c EXCEPT !.hosts = Append(@, o.arg)]
    BY <1>1 DEF Apply
  <2> QED
    BY <1>1, <2>2, <2>3 DEF Config
<1>2. CASE o.kind = "limit"
  BY <1>2 DEF Apply, Op, Config, LimitValue
<1>3. CASE o.kind = "adapt"
  BY <1>3 DEF Apply, Op, Config, LimitValue
<1>4. CASE o.kind = "set"
  BY <1>4 DEF Apply, Op, Config
<1>5. CASE o.kind = "scan"
  BY <1>5 DEF Apply, Op, Config
<1> QED
  BY <1>1, <1>2, <1>3, <1>4, <1>5 DEF Op

\* Whatever undefined behaviour leaves is a configuration.
LEMMA OutcomesTyped ==
  ASSUME NEW c \in Config
  PROVE  Outcomes(c) \subseteq Config
<1>1. BoundedSeq(HostRange, MaxHosts) \subseteq Seq(HostRange)
  <2> SUFFICES ASSUME NEW m \in 0 .. MaxHosts, NEW l \in [1 .. m -> HostRange]
               PROVE  l \in Seq(HostRange)
    BY FactoryAssumption DEF BoundedSeq, SeqOf
  <2> QED
    BY FactoryAssumption
<1>2. AnyConfig \subseteq Config
  BY <1>1 DEF AnyConfig, Config, LimitValue
<1> QED
  BY <1>2 DEF Outcomes

\* A new factory is a configuration with the hosts it was made from.
LEMMA InitTyped ==
  ASSUME Init
  PROVE  TypeOK /\ config.hosts = acked
<1>1. config \in Config /\ config.hosts \in Seq(HostRange)
  <2> DEFINE H == {<<>>} \cup {<<r>> : r \in HostRange}
  <2>1. {"set"} \X Limit \subseteq LimitValue
    BY DEF LimitValue
  <2>2. H \subseteq Seq(HostRange)
    <3>1. \A r \in HostRange : <<r>> \in Seq(HostRange)
      OBVIOUS
    <3>2. <<>> \in Seq(HostRange)
      OBVIOUS
    <3> QED
      BY <3>1, <3>2
  <2>3. PICK h \in H, l \in {"set"} \X Limit, s \in Setting :
               config = [hosts |-> h, limit |-> l, setting |-> s]
    BY DEF Init
  <2> QED
    BY <2>1, <2>2, <2>3 DEF Config
<1> QED
  BY <1>1 DEF Init, TypeOK, Op

LEMMA AnyIInvInit == Init => AnyIInv
<1> SUFFICES ASSUME Init
             PROVE  AnyIInv
  OBVIOUS
<1>1. Thinned(config.hosts, acked)
  BY InitTyped, ThinnedSame DEF TypeOK
<1> QED
  BY <1>1, InitTyped DEF Init, AnyIInv, Built

\* A clone made from a thinned list, with the call's own change, is one that
\* may be assigned.
LEMMA AnyBuild ==
  ASSUME AnyIInv, NEW g \in Goroutine, Build(g)
  PROVE  AnyIInv'
<1> USE DEF AnyIInv, TypeOK, Built
<1>1. PICK c \in Outcomes(config) : built' = [built EXCEPT ![g] = Apply(op[g], c)]
  BY DEF Build
<1>2. c \in Config /\ c.hosts \in Seq(HostRange)
  BY OutcomesTyped DEF Config
<1>3. op[g] \in Op /\ ~Rejected(op[g]) /\ Apply(op[g], c) \in Config
  BY <1>2, ApplyTyped DEF Build
<1>4. ASSUME ~undefined
      PROVE  Thinned(Apply(op[g], c).hosts, AckedAfter(g))
  <2> c = config /\ Thinned(c.hosts, acked)
    BY <1>4 DEF Outcomes
  <2>1. CASE op[g].kind = "append"
    <3>1. op[g].arg \in HostRange
      BY <1>3, <2>1 DEF Op, Rejected
    <3> QED
      BY <1>2, <1>3, <2>1, <3>1, ApplyTyped, ThinnedBoth DEF AckedAfter
  <2>2. CASE op[g].kind # "append"
    BY <1>2, <1>3, <2>2, ApplyTyped DEF AckedAfter
  <2> QED
    BY <2>1, <2>2
<1>5. TypeOK'
  BY <1>1, <1>3 DEF Build
<1>6. built'[g] = Apply(op[g], c) /\ \A h \in Goroutine : h # g => built'[h] = built[h]
  BY <1>1
<1>7. \A h \in Goroutine : AckedAfter(h)' = AckedAfter(h)
  BY DEF Build, AckedAfter
<1> QED
  BY <1>1, <1>3, <1>4, <1>5, <1>6, <1>7 DEF Build

\* An assignment may undo appends, but what it leaves and what the others hold
\* is still made of the acknowledged ones.
LEMMA AnyAssign ==
  ASSUME AnyIInv, NEW g \in Goroutine, Assign(g)
  PROVE  AnyIInv'
<1> USE DEF AnyIInv, TypeOK, Built
<1>1. op[g] \in Op /\ ~Rejected(op[g]) /\ acked' = AckedAfter(g) /\ config' \in Config
  BY OutcomesTyped DEF Assign, AckedAfter
<1>2. op[g].kind = "append" => op[g].arg \in HostRange
  BY <1>1 DEF Op, Rejected
<1>3. acked' \in Seq(HostRange)
  BY <1>1, <1>2 DEF AckedAfter
<1>4. TypeOK'
  BY <1>1, <1>3 DEF Assign
<1>5. ASSUME ~undefined
      PROVE  Thinned(config'.hosts, acked')
  BY <1>1, <1>5 DEF Assign, Outcomes
<1>6. ASSUME ~undefined, NEW h \in Goroutine, Built(h)'
      PROVE  Thinned(built[h].hosts, AckedAfter(h)')
  <2>1. /\ h # g /\ Built(h) /\ built[h].hosts \in Seq(HostRange)
        /\ op[h] \in Op /\ ~Rejected(op[h]) /\ Thinned(built[h].hosts, AckedAfter(h))
    BY <1>6 DEF Assign, Config
  <2>2. AckedAfter(h)' = IF op[h].kind = "append" THEN Append(acked', op[h].arg)
                                                  ELSE acked'
    BY DEF Assign, AckedAfter
  <2>3. CASE op[g].kind # "append"
    BY <1>1, <2>1, <2>2, <2>3 DEF AckedAfter
  <2>4. CASE op[g].kind = "append" /\ op[h].kind # "append"
    BY <1>1, <1>2, <2>1, <2>2, <2>4, ThinnedMore DEF AckedAfter
  <2>5. CASE op[g].kind = "append" /\ op[h].kind = "append"
    <3>1. op[h].arg \in HostRange
      BY <2>1, <2>5 DEF Op, Rejected
    <3> QED
      BY <1>1, <1>2, <2>1, <2>2, <2>5, <3>1, ThinnedBetween DEF AckedAfter
  <2> QED
    BY <2>3, <2>4, <2>5
<1>7. /\ UNCHANGED <<op, built, undefined>>
      /\ \A h \in Goroutine : Built(h)' => Built(h)
  BY DEF Assign
<1> QED
  BY <1>4, <1>5, <1>6, <1>7

LEMMA AnyIInvStep ==
  ASSUME AnyIInv, [Next]_vars
  PROVE  AnyIInv'
<1> USE DEF AnyIInv, TypeOK, Built
<1>1. ASSUME NEW g \in Goroutine, NEW o \in Op, Begin(g, o)
      PROVE  AnyIInv'
  <2>1. TypeOK' /\ (~undefined' => ~undefined) /\ UNCHANGED <<config, acked, built>>
    BY <1>1 DEF Begin
  <2>2. ASSUME NEW h \in Goroutine, Built(h)'
        PROVE  Built(h) /\ op'[h] = op[h] /\ AckedAfter(h)' = AckedAfter(h)
    BY <1>1, <2>2 DEF Begin, AckedAfter
  <2> QED
    BY <2>1, <2>2
<1>2. ASSUME NEW g \in Goroutine, EndScan(g) \/ Reject(g) \/ StartAssign(g)
      PROVE  AnyIInv'
  <2>1. /\ TypeOK' /\ (~undefined' => ~undefined)
        /\ UNCHANGED <<config, op, built, acked>>
        /\ \A h \in Goroutine : Built(h)' => Built(h)
    BY <1>2 DEF EndScan, Reject, StartAssign
  <2>2. \A h \in Goroutine : AckedAfter(h)' = AckedAfter(h)
    BY <2>1 DEF AckedAfter
  <2> QED
    BY <2>1, <2>2
<1>3. CASE UNCHANGED vars
  BY <1>3 DEF vars, AckedAfter
<1> QED
  BY <1>1, <1>2, <1>3, AnyBuild, AnyAssign DEF Next

\* AnyIInv holds in every reachable state, whatever the client does.
THEOREM AnyInvariance == Spec => []AnyIInv
<1>1. AnyIInv /\ [Next]_vars => AnyIInv'
  BY AnyIInvStep
<1> QED
  BY <1>1, AnyIInvInit, PTL DEF Spec

\* Every variable keeps its type.
THEOREM TypeCorrect == Spec => []TypeOK
BY AnyInvariance, PTL DEF AnyIInv

\* Len is the number of hosts exactly as long as that number is below the range
\* of a C int (and so for an empty factory): for all ranges, sizes and widths.
THEOREM LenTrueBelowCIntHalf ==
  Spec => [](/\ LenIsCount <=> HostCount < CIntHalf
             /\ IsEmpty => LenIsCount)
<1>1. AnyIInv => (LenIsCount <=> HostCount < CIntHalf) /\ (IsEmpty => LenIsCount)
  BY LenExact DEF AnyIInv, TypeOK, Config
<1> QED
  BY <1>1, AnyInvariance, PTL

\* As long as no assignment has overlapped another access, the hosts to be
\* scanned are acknowledged appends in the order of their acknowledgements, none
\* of them twice: calls that overlap so lose hosts, but they never add one that
\* was refused or not asked for, and never repeat or reorder any.
THEOREM OverlapsOnlyLose == Spec => [](~undefined => Thinned(config.hosts, acked))
<1>1. AnyIInv => (~undefined => Thinned(config.hosts, acked))
  BY DEF AnyIInv
<1> QED
  BY <1>1, AnyInvariance, PTL

-----------------------------------------------------------------------------
(* A client that serialises its writes.                                    *)

WriterAlone ==
  \A g, h \in Goroutine :
    pc[g] # "idle" /\ Writes(op[g]) /\ pc[h] # "idle" => g = h

ClonesAreFresh ==
  \A g \in Goroutine :
    Built(g) => /\ Writes(op[g]) /\ ~Rejected(op[g])
                /\ built[g] = Apply(op[g], config)

IInv ==
  /\ TypeOK
  /\ WriterAlone
  /\ ClonesAreFresh
  /\ HostsAreAcknowledged
  /\ ~undefined

\* Nobody has touched a new factory.
LEMMA IInvInit == Init => IInv
BY InitTyped DEF Init, IInv, WriterAlone, ClonesAreFresh, Built, HostsAreAcknowledged

\* Every step of a client that serialises its writes keeps the invariant.
LEMMA IInvStep ==
  ASSUME Serial, IInv, [Next]_vars
  PROVE  IInv'
<1> USE DEF IInv, TypeOK, WriterAlone, ClonesAreFresh, Built, HostsAreAcknowledged
<1>1. ASSUME NEW g \in Goroutine, NEW o \in Op, Begin(g, o)
      PROVE  IInv'
  <2>1. \A h \in Goroutine : pc[h] # "moving"
    BY <1>1 DEF Begin, MayBegin
  <2> QED
    BY <1>1, <2>1 DEF Begin, MayBegin
<1>2. ASSUME NEW g \in Goroutine, EndScan(g) \/ Reject(g)
      PROVE  IInv'
  BY <1>2 DEF EndScan, Reject
<1>3. ASSUME NEW g \in Goroutine, Build(g)
      PROVE  IInv'
  <2>1. built' = [built EXCEPT ![g] = Apply(op[g], config)]
    BY <1>3 DEF Build, Outcomes
  <2>2. Apply(op[g], config) \in Config
    BY <1>3, ApplyTyped DEF Build
  <2> QED
    BY <1>3, <2>1, <2>2 DEF Build
<1>4. ASSUME NEW g \in Goroutine, StartAssign(g)
      PROVE  IInv'
  <2>1. \A h \in Goroutine : h # g => pc[h] = "idle"
    BY <1>4 DEF StartAssign
  <2> QED
    BY <1>4, <2>1 DEF StartAssign
<1>5. ASSUME NEW g \in Goroutine, Assign(g)
      PROVE  IInv'
  <2>1. /\ config' = Apply(op[g], config)
        /\ \A h \in Goroutine : h # g => pc[h] = "idle"
    BY <1>5 DEF Assign, Outcomes
  <2>2. config'.hosts = IF op[g].kind = "append" THEN Append(config.hosts, op[g].arg)
                                                 ELSE config.hosts
    BY <1>5, <2>1, ApplyTyped DEF Assign
  <2>3. config' \in Config /\ config'.hosts \in Seq(HostRange)
    BY <1>5, <2>1, ApplyTyped DEF Assign, Config
  <2>4. config'.hosts = acked'
    BY <1>5, <2>2 DEF Assign
  <2>5. \A h \in Goroutine : pc'[h] = "idle"
    BY <1>5, <2>1 DEF Assign
  <2> QED
    BY <1>5, <2>3, <2>4, <2>5 DEF Assign
<1>6. CASE UNCHANGED vars
  BY <1>6 DEF vars
<1> QED
  BY <1>1, <1>2, <1>3, <1>4, <1>5, <1>6 DEF Next

\* With a client that serialises its writes, IInv holds in every reachable
\* state, for any number of goroutines and appends.
THEOREM Invariance ==
  ASSUME Serial
  PROVE  Spec => []IInv
<1>1. IInv /\ [Next]_vars => IInv'
  BY IInvStep
<1> QED
  BY <1>1, IInvInit, PTL DEF Spec

\* The hosts are those of the acknowledged appends.
THEOREM AppendsKept ==
  ASSUME Serial
  PROVE  Spec => []HostsAreAcknowledged
BY Invariance, PTL DEF IInv

\* Of all the steps only the return of an append changes what Len is made from,
\* and by the size of its range: no option, refusal or scan adds or drops hosts.
THEOREM AppendsCounted ==
  ASSUME Serial
  PROVE  Spec => [][\/ UNCHANGED HostCount
                    \/ \E r \in HostRange : /\ acked' = Append(acked, r)
                                            /\ HostCount' = HostCount + Size[r]]_vars
<1> DEFINE Counted ==
      \/ UNCHANGED HostCount
      \/ \E r \in HostRange : /\ acked' = Append(acked, r)
                              /\ HostCount' = HostCount + Size[r]
<1>1. ASSUME IInv, IInv', [Next]_vars
      PROVE  [Counted]_vars
  <2>1. HostCount = CountOf(acked) /\ HostCount' = CountOf(acked')
    <3>1. HostCount = CountOf(config.hosts)
      BY DEF HostCount, CountOf
    <3>2. HostCount' = CountOf(config'.hosts)
      BY DEF HostCount, CountOf, FoldLeft, MapThenFoldSet
    <3> QED
      BY <1>1, <3>1, <3>2 DEF IInv, HostsAreAcknowledged
  <2>2. acked \in Seq(HostRange)
    BY <1>1 DEF IInv, TypeOK
  <2>3. acked' = acked \/ \E r \in HostRange : acked' = Append(acked, r)
    BY <1>1 DEF IInv, TypeOK, ClonesAreFresh, Built, Next, vars, Begin, EndScan,
                Reject, Build, StartAssign, Assign, Op, Rejected
  <2> QED
    BY <2>1, <2>2, <2>3, CountOfAppend
<1> HIDE DEF Counted
<1>2. Spec => [][Counted]_vars
  BY <1>1, Invariance, PTL DEF Spec
<1> QED
  BY <1>2 DEF Counted

-----------------------------------------------------------------------------
(* Refinement of HostScope: Assign is the step in which a call happens.    *)

\* Only Assign changes what HostScope sees, and it does so as one of its calls.
LEMMA ScopeNext ==
  ASSUME IInv, [Next]_vars
  PROVE  [Scope!Next]_(Scope!vars)
<1> USE DEF IInv, TypeOK, Scope!vars
<1>1. ASSUME NEW g \in Goroutine, NEW o \in Op,
             Begin(g, o) \/ EndScan(g) \/ Reject(g) \/ Build(g) \/ StartAssign(g)
      PROVE  UNCHANGED Scope!vars
  BY <1>1 DEF Begin, EndScan, Reject, Build, StartAssign
<1>2. ASSUME NEW g \in Goroutine, Assign(g)
      PROVE  [Scope!Next]_(Scope!vars)
  <2> DEFINE o == op[g]
  <2>1. config' = Apply(o, config) /\ Writes(o) /\ ~Rejected(o) /\ o \in Op
    BY <1>2 DEF Assign, ClonesAreFresh, Built, Outcomes
  <2>2. CASE o.kind = "append"
    <3>1. o.arg \in HostRange /\ config' = [config EXCEPT !.hosts = Append(@, o.arg)]
      BY <2>1, <2>2 DEF Apply, Op, Rejected
    <3>2. Scope!AppendHosts(o.arg)
      BY <3>1 DEF Scope!AppendHosts, Config
    <3> QED
      BY <3>1, <3>2 DEF Scope!Next
  <2>3. CASE o.kind = "limit"
    <3>1. o.arg \in Limit /\ config' = [config EXCEPT !.limit = <<"set", o.arg>>]
      BY <2>1, <2>3 DEF Apply, Op
    <3>2. Scope!SetLimit(o.arg)
      BY <3>1 DEF Scope!SetLimit, Config
    <3> QED
      BY <3>1, <3>2 DEF Scope!Next
  <2>4. CASE o.kind = "adapt"
    <3>1. config' = [config EXCEPT !.limit = <<"adapted", config.hosts>>]
      BY <2>1, <2>4 DEF Apply
    <3>2. Scope!Adapt
      BY <3>1 DEF Scope!Adapt, Config
    <3> QED
      BY <3>2 DEF Scope!Next
  <2>5. CASE o.kind = "set"
    <3>1. o.arg \in Setting /\ config' = [config EXCEPT !.setting = o.arg]
      BY <2>1, <2>5 DEF Apply, Op
    <3>2. Scope!SetOther(o.arg)
      BY <3>1 DEF Scope!SetOther, Config
    <3> QED
      BY <3>1, <3>2 DEF Scope!Next
  <2> QED
    BY <2>1, <2>2, <2>3, <2>4, <2>5 DEF Op, Writes
<1>3. CASE UNCHANGED vars
  BY <1>3 DEF vars
<1> QED
  BY <1>1, <1>2, <1>3 DEF Next

\* With a client that serialises its writes, each call takes effect at once or
\* not at all.
THEOREM Refinement ==
  ASSUME Serial
  PROVE  Spec => RefinesHostScope
<1>1. Init => Scope!Init
  BY DEF Init, Scope!Init
<1>2. IInv /\ [Next]_vars => [Scope!Next]_(Scope!vars)
  BY ScopeNext
<1> QED
  BY <1>1, <1>2, Invariance, PTL DEF Spec, RefinesHostScope, Scope!Spec
=============================================================================
