---------------------------- MODULE FinanceProofs ----------------------------
(***************************************************************************)
(* What is proved of the books (module Finance): the balance of a party is *)
(* what its documents and payments say, nothing is paid twice, and what is *)
(* due is the same amount for whoever asks.                                *)
(***************************************************************************)
EXTENDS Finance, SumTheorems

-----------------------------------------------------------------------------
(* What the model computes has its type                                        *)

\* A sum over a set, read term by term.
LEMMA DocSets ==
  /\ IsFiniteSet(Docs) /\ IsFiniteSet(Items) /\ IsFiniteSet(Returns) /\ IsFiniteSet(Invoices) /\ IsFiniteSet(OnDispatch)
  /\ Items \in SUBSET Docs /\ Returns \in SUBSET Docs /\ Invoices \in SUBSET Docs
  /\ Items \cap Returns = {} /\ Items \cup Returns = Docs /\ Invoices \cap Manual = {}
<1>1. Items \subseteq Docs /\ Returns \subseteq Docs /\ Invoices \subseteq Docs /\ OnDispatch \subseteq Docs
  BY DEF Items, Invoices, Manual, Returns, OnDispatch
<1>2. Items \cap Returns = {} /\ Items \cup Returns = Docs /\ Invoices \cap Manual = {}
  BY DocAssumption DEF Items, Invoices, Manual, Returns
<1> QED
  BY <1>1, <1>2, FiniteAssumption, FS_Subset

\* A natural that each document has.
LEMMA DocFacts ==
  \A i \in Docs : /\ Amount[i] \in Nat /\ Amount[i] > 0 /\ Owner[i] \in Parties /\ Due[i] \in Nat
                  /\ (i \in Invoices => Taken[i] \in Nat) /\ (i \in Items => Rank[i] \in Nat)
                  /\ Sign(i) \in {1, -1}
BY DocAssumption DEF Sign

LEMMA PaymentFacts ==
  \A p \in Payments : /\ p.amount \in Nat /\ p.amount > 0 /\ p.party \in Parties
                      /\ p.kind \in {"COLLECTION", "PAYMENT"} /\ p.account \in Accounts \cup {NoAccount}
BY MoneyAssumption

\* What was allocated in rows is a natural, and nothing only when there are none.
LEMMA SumSeqIs ==
  ASSUME NEW s \in Seq(Nat \ {0})
  PROVE  SumSeq(s) \in Nat /\ (SumSeq(s) = 0 => s = << >>) /\ (s = << >> => SumSeq(s) = 0)
<1> DEFINE D == DOMAIN s
           f == [k \in D |-> s[k]]
<1>1. IsFiniteSet(D) /\ SumSeq(s) = SumFunctionOnSet(f, D)
  BY FS_Interval DEF SumSeq, Sum
<1>2. \A k \in D : f[k] \in Nat /\ f[k] > 0 /\ f[k] \in Int
  OBVIOUS
<1>3. (s = << >> => D = {}) /\ (s # << >> => 1 \in D)
  OBVIOUS
<1> HIDE DEF D, f
<1>4. SumFunctionOnSet(f, D) \in Nat /\ \A k \in D : f[k] <= SumFunctionOnSet(f, D)
  BY <1>1, <1>2, SumOfNaturals
<1>5. D = {} => SumFunctionOnSet(f, D) = 0
  BY <1>1, <1>2, SumPick
<1> QED
  BY <1>1, <1>2, <1>3, <1>4, <1>5

\* Another row adds what it allocates.
LEMMA SumSeqAppends ==
  ASSUME NEW s \in Seq(Nat \ {0}), NEW n \in Nat \ {0}
  PROVE  SumSeq(Append(s, n)) = SumSeq(s) + n
<1> DEFINE t == Append(s, n)
           k == Len(s) + 1
           D == DOMAIN t
           f == [x \in D |-> t[x]]
           g == [x \in DOMAIN s |-> s[x]]
<1>1. IsFiniteSet(D) /\ IsFiniteSet(DOMAIN s) /\ SumSeq(t) = SumFunctionOnSet(f, D) /\ SumSeq(s) = SumFunctionOnSet(g, DOMAIN s)
  BY FS_Interval DEF SumSeq, Sum
<1>2. t \in Seq(Nat \ {0}) /\ Len(t) = k /\ t[k] = n /\ \A x \in DOMAIN s : t[x] = s[x]
  OBVIOUS
<1>3. D = 1 .. k /\ DOMAIN s = 1 .. k - 1 /\ k \in Nat /\ k > 0 /\ \A x \in D : t[x] \in Nat
  BY <1>2
<1>4. D \ {k} = DOMAIN s /\ k \in D
  BY <1>3
<1>5. f[k] = n /\ (\A x \in D : f[x] \in Int) /\ \A x \in DOMAIN s : g[x] = f[x] /\ f[x] \in Int
  BY <1>2, <1>3, <1>4
<1> HIDE DEF D, f, g, t, k
<1>6. SumFunctionOnSet(f, D) = f[k] + SumFunctionOnSet(f, D \ {k})
  BY <1>1, <1>4, <1>5, SumPull
<1>7. SumFunctionOnSet(g, DOMAIN s) = SumFunctionOnSet(f, DOMAIN s) /\ SumFunctionOnSet(f, DOMAIN s) \in Int
  BY <1>1, <1>5, SumSame, SumPick
<1> QED
  BY <1>1, <1>4, <1>5, <1>6, <1>7 DEF t

\* The sums that are read off the state.
LEMMA RowSums ==
  ASSUME TypeOK
  PROVE  /\ \A p \in Payments, i \in Items : /\ rows[p][i] \in Seq(Nat \ {0}) /\ SumSeq(rows[p][i]) \in Nat
                                             /\ Live(p, i) \in Nat
         /\ \A p \in Payments : Used(p) \in Nat
         /\ \A i \in Items : Allocated(i) \in Nat /\ \A p \in Payments : Live(p, i) <= Allocated(i)
<1>1. ASSUME NEW p \in Payments, NEW i \in Items
      PROVE  rows[p][i] \in Seq(Nat \ {0}) /\ SumSeq(rows[p][i]) \in Nat /\ Live(p, i) \in Nat
  <2>1. rows[p][i] \in Seq(Nat \ {0})
    BY DEF TypeOK
  <2> QED
    BY <2>1, SumSeqIs DEF Live
<1>2. ASSUME NEW p \in Payments PROVE Used(p) \in Nat
  <2> DEFINE f == [i \in Items |-> SumSeq(rows[p][i])]
  <2>1. \A i \in Items : f[i] \in Nat
    BY <1>1
  <2>2. Used(p) = SumFunctionOnSet(f, Items)
    BY DEF Used, Sum
  <2> HIDE DEF f
  <2> QED
    BY <2>1, <2>2, DocSets, SumOfNaturals
<1>3. ASSUME NEW i \in Items PROVE Allocated(i) \in Nat /\ \A p \in Payments : Live(p, i) <= Allocated(i)
  <2> DEFINE f == [p \in Payments |-> Live(p, i)]
  <2>1. \A p \in Payments : f[p] \in Nat /\ f[p] = Live(p, i)
    BY <1>1
  <2>2. Allocated(i) = SumFunctionOnSet(f, Payments)
    BY DEF Allocated, Sum
  <2> HIDE DEF f
  <2> QED
    BY <2>1, <2>2, FiniteAssumption, SumOfNaturals
<1> QED
  BY <1>1, <1>2, <1>3

LEMMA RoundIs ==
  ASSUME NEW n \in Nat, NEW d \in Nat \ {0}
  PROVE  Round(n, d) \in Nat
BY DEF Round

\* What returns take off a bill, and what is open on it.
LEMMA OpenIs ==
  ASSUME TypeOK
  PROVE  /\ \A i \in Items : Returned(i) \in Nat /\ Open(i) \in Int /\ Remaining(i) \in Nat
         /\ \A r \in Returns, i \in Invoices : Attributed(r, i) \in Nat
<1> DEFINE T == [j \in OnDispatch |-> Taken[j]]
           W == Sum(LAMBDA j : Taken[j], OnDispatch)
<1>1. W = SumFunctionOnSet(T, OnDispatch) /\ \A j \in OnDispatch : T[j] \in Nat /\ T[j] > 0 /\ T[j] = Taken[j] /\ j \in Invoices
  BY DocFacts, DocSets DEF Sum, OnDispatch
<1> HIDE DEF T
<1>2. W \in Nat /\ \A j \in OnDispatch : T[j] <= W
  BY <1>1, DocSets, SumOfNaturals
<1> HIDE DEF W
<1>3. ASSUME NEW r \in Returns, NEW i \in Invoices PROVE Attributed(r, i) \in Nat
  <2>1. Amount[r] \in Nat
    BY DocFacts, DocSets
  <2>2. CASE doc[r] = "POSTED" /\ Of[r] # i /\ Of[r] = "DISPATCH" /\ i \in OnDispatch
    <3>1. W \in Nat \ {0} /\ Taken[i] \in Nat
      BY <1>1, <1>2, <2>2
    <3>2. Amount[r] * Taken[i] \in Nat
      BY <2>1, <3>1
    <3>3. Round(Amount[r] * Taken[i], W) \in Nat
      BY <3>1, <3>2, RoundIs
    <3> QED
      BY <2>2, <3>3 DEF Attributed, W
  <2>3. CASE ~(doc[r] = "POSTED" /\ Of[r] # i /\ Of[r] = "DISPATCH" /\ i \in OnDispatch)
    BY <2>1, <2>3 DEF Attributed
  <2> QED
    BY <2>2, <2>3
<1>4. ASSUME NEW i \in Items PROVE Returned(i) \in Nat
  <2>1. CASE i \in Invoices
    <3> DEFINE f == [r \in Returns |-> Attributed(r, i)]
    <3>1. Returned(i) = SumFunctionOnSet(f, Returns) /\ \A r \in Returns : f[r] \in Nat
      BY <1>3, <2>1 DEF Returned, Sum
    <3> HIDE DEF f
    <3> QED
      BY <3>1, DocSets, SumOfNaturals
  <2> QED
    BY <2>1 DEF Returned
<1>5. ASSUME NEW i \in Items PROVE Open(i) \in Int /\ Remaining(i) \in Nat
  <2>1. Amount[i] \in Nat /\ Returned(i) \in Nat /\ Allocated(i) \in Nat /\ Reversed(i) \in Nat
    BY <1>4, DocFacts, DocSets, RowSums DEF Reversed
  <2> QED
    BY <2>1 DEF Open, Remaining, NotBelow0
<1> QED
  BY <1>3, <1>4, <1>5
-----------------------------------------------------------------------------
(* Sums of amounts that follow one another                                     *)

LEMMA MinOfTwo ==
  ASSUME NEW a \in Int, NEW b \in Int
  PROVE  Min({a, b}) = IF a <= b THEN a ELSE b
<1>1. \E x \in {a, b} : \A y \in {a, b} : x <= y
  OBVIOUS
<1>2. Min({a, b}) \in {a, b} /\ \A y \in {a, b} : Min({a, b}) <= y
  BY <1>1 DEF Min
<1> QED
  BY <1>2

LEMMA MaxOfTwo ==
  ASSUME NEW a \in Int, NEW b \in Int
  PROVE  Max({a, b}) = IF a >= b THEN a ELSE b
<1>1. \E x \in {a, b} : \A y \in {a, b} : x >= y
  OBVIOUS
<1>2. Max({a, b}) \in {a, b} /\ \A y \in {a, b} : Max({a, b}) >= y
  BY <1>1 DEF Max
<1> QED
  BY <1>2

\* The sum of the first k terms.
UpTo(f, k) == SumFunctionOnSet(f, 1 .. k)

LEMMA UpToIs ==
  ASSUME NEW n \in Nat, NEW f, \A k \in 1 .. n : f[k] \in Int
  PROVE  UpTo(f, 0) = 0 /\ \A k \in 1 .. n : UpTo(f, k) \in Int /\ UpTo(f, k) = UpTo(f, k - 1) + f[k]
<1>1. 1 .. 0 = {}
  OBVIOUS
<1>2. UpTo(f, 0) = 0
  BY <1>1, FS_EmptySet, SumPick DEF UpTo
<1>3. ASSUME NEW k \in 1 .. n PROVE UpTo(f, k) \in Int /\ UpTo(f, k) = UpTo(f, k - 1) + f[k]
  <2>1. IsFiniteSet(1 .. k) /\ k \in 1 .. k /\ (1 .. k) \ {k} = 1 .. k - 1 /\ \A x \in 1 .. k : f[x] \in Int
    BY FS_Interval
  <2> DEFINE K == 1 .. k
  <2>2. IsFiniteSet(K) /\ k \in K /\ K \ {k} = 1 .. k - 1 /\ \A x \in K : f[x] \in Int
    BY <2>1
  <2> HIDE DEF K
  <2>3. SumFunctionOnSet(f, K) \in Int /\ SumFunctionOnSet(f, K) = f[k] + SumFunctionOnSet(f, K \ {k})
    <3>1. IsFiniteSet(K) /\ \A x \in K : f[x] \in Int
      BY <2>2
    <3>2. SumFunctionOnSet(f, K) \in Int
      BY ONLY <3>1, SumPick
    <3>3. k \in K
      BY <2>2
    <3>4. SumFunctionOnSet(f, K) = f[k] + SumFunctionOnSet(f, K \ {k})
      BY ONLY <3>1, <3>3, SumPull
    <3> QED
      BY <3>2, <3>4
  <2>4. SumFunctionOnSet(f, K \ {k}) \in Int
    <3>1. IsFiniteSet(K \ {k}) /\ \A x \in K \ {k} : f[x] \in Int
      BY <2>2, FS_Subset
    <3> QED
      BY <3>1, SumPick
  <2>5. UpTo(f, k) = SumFunctionOnSet(f, K) /\ UpTo(f, k - 1) = SumFunctionOnSet(f, K \ {k})
    BY <2>2 DEF UpTo, K
  <2> QED
    BY <2>3, <2>4, <2>5
<1> QED
  BY <1>2, <1>3

\* Differences add up to the difference of the ends.
LEMMA Telescope ==
  ASSUME NEW n \in Nat, NEW c, NEW f, \A k \in 0 .. n : c[k] \in Int, \A k \in 1 .. n : f[k] = c[k] - c[k - 1]
  PROVE  UpTo(f, n) = c[n] - c[0]
<1> DEFINE bad == {k \in 0 .. n : UpTo(f, k) # c[k] - c[0]}
<1>1. \A k \in 1 .. n : f[k] \in Int /\ k \in 0 .. n /\ k - 1 \in 0 .. n
  OBVIOUS
<1>2. UpTo(f, 0) = 0 /\ \A k \in 1 .. n : UpTo(f, k) \in Int /\ UpTo(f, k) = UpTo(f, k - 1) + f[k]
  BY <1>1, UpToIs
<1>3. bad = {}
  <2> SUFFICES ASSUME bad # {} PROVE FALSE
    OBVIOUS
  <2>1. bad \in SUBSET Nat
    OBVIOUS
  <2>2. PICK k \in bad : \A j \in bad : k <= j
    BY <2>1, LeastElement
  <2>3. k # 0 /\ k \in 1 .. n /\ k - 1 \in 0 .. n
    BY <1>2
  <2>4. k - 1 \notin bad
    BY <2>1, <2>2
  <2>5. UpTo(f, k - 1) = c[k - 1] - c[0] /\ c[k] \in Int /\ c[k - 1] \in Int /\ c[0] \in Int
    BY <2>3, <2>4
  <2>6. UpTo(f, k) = c[k] - c[0]
    BY <1>2, <2>3, <2>5
  <2> QED
    BY <2>6
<1> QED
  BY <1>3

\* Sums of naturals grow.
LEMMA UpToGrows ==
  ASSUME NEW n \in Nat, NEW f, \A k \in 1 .. n : f[k] \in Nat
  PROVE  \A k \in 0 .. n : UpTo(f, k) \in Nat /\ UpTo(f, k) <= UpTo(f, n)
<1>1. ASSUME NEW k \in 0 .. n PROVE UpTo(f, k) \in Nat
  <2>1. IsFiniteSet(1 .. k) /\ \A x \in 1 .. k : f[x] \in Nat
    BY FS_Interval
  <2> QED
    BY <2>1, SumOfNaturals DEF UpTo
<1> DEFINE bad == {d \in Nat : d <= n /\ UpTo(f, n - d) > UpTo(f, n)}
<1>2. bad = {}
  <2> SUFFICES ASSUME bad # {} PROVE FALSE
    OBVIOUS
  <2>1. PICK d \in bad : \A e \in bad : d <= e
    BY LeastElement
  <2>2. d # 0 /\ d - 1 \in Nat /\ d - 1 \notin bad
    BY <1>1, <2>1
  <2>3. n - d \in 0 .. n /\ n - d + 1 \in 1 .. n /\ n - (d - 1) = n - d + 1 /\ n - d + 1 \in 0 .. n /\ n \in 0 .. n
    BY <2>2
  <2>4. UpTo(f, n - d + 1) <= UpTo(f, n)
    BY <1>1, <2>2, <2>3
  <2>5. UpTo(f, n - d + 1) = UpTo(f, (n - d + 1) - 1) + f[n - d + 1]
    BY <2>3, UpToIs
  <2>6. (n - d + 1) - 1 = n - d /\ f[n - d + 1] \in Nat
    BY <2>3
  <2> QED
    BY <1>1, <2>1, <2>3, <2>4, <2>5, <2>6
<1>3. ASSUME NEW k \in 0 .. n PROVE UpTo(f, k) <= UpTo(f, n)
  <2>1. n - k \in Nat /\ n - (n - k) = k /\ n - k <= n /\ n \in 0 .. n
    OBVIOUS
  <2>2. UpTo(f, k) \in Nat /\ UpTo(f, n) \in Nat
    BY <1>1, <2>1
  <2>3. n - k \notin bad
    BY <1>2
  <2>4. ~(UpTo(f, n - (n - k)) > UpTo(f, n))
    BY <2>1, <2>3
  <2> QED
    BY <2>1, <2>2, <2>4
<1> QED
  BY <1>1, <1>3

\* A finite set with a strict order of all its elements has a last one.
LEMMA LastElement ==
  ASSUME NEW T, IsFiniteSet(T), T # {}, NEW R,
         \A s, t \in T : s # t => <<s, t>> \in R \/ <<t, s>> \in R,
         \A s, t, u \in T : <<s, t>> \in R /\ <<t, u>> \in R => <<s, u>> \in R
  PROVE  \E m \in T : \A t \in T : t # m => <<t, m>> \in R
<1> DEFINE P == {U \in SUBSET T : U # {} => \E m \in U : \A t \in U : t # m => <<t, m>> \in R}
<1>1. {} \in P
  OBVIOUS
<1>2. ASSUME NEW U \in SUBSET T, NEW x \in U, U \ {x} \in P PROVE U \in P
  <2>1. CASE U \ {x} = {}
    <3>1. \A t \in U : t = x
      BY <2>1
    <3> QED
      BY <3>1
  <2>2. CASE U \ {x} # {}
    <3>1. PICK m \in U \ {x} : \A t \in U \ {x} : t # m => <<t, m>> \in R
      BY <1>2, <2>2
    <3>2. CASE <<x, m>> \in R
      <4>1. \A t \in U : t # m => <<t, m>> \in R
        BY <3>1, <3>2
      <4> QED
        BY <3>1, <4>1
    <3>3. CASE <<m, x>> \in R
      <4>1. ASSUME NEW t \in U, t # x PROVE <<t, x>> \in R
        <5>1. t \in T /\ m \in T /\ x \in T
          BY <3>1
        <5>2. t = m \/ <<t, m>> \in R
          BY <3>1, <4>1
        <5> QED
          BY <3>3, <5>1, <5>2
      <4> QED
        BY <4>1
    <3> QED
      BY <3>1, <3>2, <3>3
  <2> QED
    BY <2>1, <2>2
<1> HIDE DEF P
<1>3. T \in P
  BY <1>1, <1>2, SetInduction
<1> QED
  BY <1>3 DEF P
-----------------------------------------------------------------------------
(* The dues of an item add up to what is open on it                            *)

\* The installments of a plan add up to what it covers of an item, and an item has
\* one active plan.
PlansOK ==
    /\ \A q \in Plans : /\ Len(plan[q].parts) <= Len(InstallmentDue)
                        /\ \A i \in Items : Earlier(q, i, Len(plan[q].parts)) = plan[q].amount[i]
    /\ \A i \in Items : \A q, r \in PlansOf(i) : q = r

\* Of the first e of a plan for A, what is open when left is open on the item: the
\* payments closed the first A - left.
Reached(A, left, e) == IF A <= left THEN e ELSE IF e <= A - left THEN 0 ELSE e - (A - left)

\* What is open of the installments of a plan, when left is open on the item: all of
\* it, or what the earlier payments left.
LEMMA InstallmentsAddUp ==
  ASSUME TypeOK, PlansOK, NEW q \in Plans, NEW i \in Items, NEW left \in Nat, NEW f,
         \A k \in 1 .. Len(plan[q].parts) : f[k] = PartOpen(q, i, k, left)
  PROVE  /\ \A k \in 1 .. Len(plan[q].parts) : /\ PartOpen(q, i, k, left) \in Nat /\ plan[q].parts[k][i] \in Nat
                                               /\ PartOpen(q, i, k, left) <= plan[q].parts[k][i]
         /\ UpTo(f, Len(plan[q].parts)) = IF plan[q].amount[i] <= left THEN plan[q].amount[i] ELSE left
<1> DEFINE n == Len(plan[q].parts)
           A == plan[q].amount[i]
           g == [k \in 1 .. n |-> plan[q].parts[k][i]]
           G(e) == Reached(A, left, e)
           c == [k \in 0 .. n |-> G(UpTo(g, k))]
<1>1. plan[q].parts \in Seq([Items -> Nat]) /\ A \in Nat
  BY DEF TypeOK
<1>2. n \in Nat /\ \A k \in 1 .. n : g[k] \in Nat /\ g[k] = plan[q].parts[k][i] /\ k \in 0 .. n /\ k - 1 \in 0 .. n
  BY <1>1
<1>3. ASSUME NEW k \in 0 .. n PROVE Earlier(q, i, k) = UpTo(g, k)
  <2> DEFINE h == [x \in 1 .. k |-> plan[q].parts[x][i]]
  <2>1. \A x \in 1 .. k : g[x] \in Int /\ h[x] = g[x]
    <3>1. \A x \in 1 .. k : x \in 1 .. n
      BY <1>2
    <3>2. \A x \in 1 .. k : h[x] = plan[q].parts[x][i]
      OBVIOUS
    <3> HIDE DEF g, h
    <3> QED
      BY <1>2, <3>1, <3>2
  <2>2. Earlier(q, i, k) = SumFunctionOnSet(h, 1 .. k)
    BY DEF Earlier, Sum
  <2> HIDE DEF g, h
  <2>3. IsFiniteSet(1 .. k)
    BY FS_Interval
  <2>4. SumFunctionOnSet(h, 1 .. k) = SumFunctionOnSet(g, 1 .. k)
    BY <2>1, <2>3, SumSame
  <2> QED
    BY <2>2, <2>4 DEF UpTo
<1> HIDE DEF g
<1>4. /\ UpTo(g, 0) = 0
      /\ \A k \in 1 .. n : UpTo(g, k) = UpTo(g, k - 1) + g[k]
      /\ \A k \in 0 .. n : UpTo(g, k) \in Nat /\ UpTo(g, k) <= UpTo(g, n)
  <2>1. \A k \in 1 .. n : g[k] \in Int /\ g[k] \in Nat
    BY <1>2
  <2> HIDE DEF n
  <2>2. UpTo(g, 0) = 0 /\ \A k \in 1 .. n : UpTo(g, k) \in Int /\ UpTo(g, k) = UpTo(g, k - 1) + g[k]
    BY <1>2, <2>1, UpToIs
  <2>3. \A k \in 0 .. n : UpTo(g, k) \in Nat /\ UpTo(g, k) <= UpTo(g, n)
    BY <1>2, <2>1, UpToGrows
  <2> QED
    BY <2>2, <2>3
<1>5. UpTo(g, n) = A
  BY <1>2, <1>3 DEF PlansOK
<1>6. ASSUME NEW k \in 1 .. n
      PROVE  /\ PartOpen(q, i, k, left) \in Nat /\ PartOpen(q, i, k, left) <= g[k]
             /\ PartOpen(q, i, k, left) = G(UpTo(g, k)) - G(UpTo(g, k - 1))
  <2> DEFINE u == UpTo(g, k)
             v == UpTo(g, k - 1)
             w == NotBelow0(left - (A - u))
  <2>1. g[k] \in Nat /\ u \in Nat /\ v \in Nat /\ u = v + g[k] /\ u <= A
    BY <1>2, <1>4, <1>5
  <2>2. PartOpen(q, i, k, left) = Min({g[k], w})
    BY <1>2, <1>3 DEF PartOpen
  <2>3. w = (IF left - (A - u) < 0 THEN 0 ELSE left - (A - u))
    BY DEF NotBelow0
  <2>4. w \in Nat
    BY <1>1, <2>1, <2>3
  <2> HIDE DEF w
  <2>5. Min({g[k], w}) = IF g[k] <= w THEN g[k] ELSE w
    BY <2>1, <2>4, MinOfTwo
  <2> HIDE DEF u, v, A
  <2> DEFINE x == PartOpen(q, i, k, left)
  <2>6. x = IF g[k] <= w THEN g[k] ELSE w
    BY <2>2, <2>5
  <2> HIDE DEF x
  <2>7. w = (IF left - (A - u) < 0 THEN 0 ELSE left - (A - u))
    BY <2>3
  <2>8. x \in Nat /\ x <= g[k] /\ x = Reached(A, left, u) - Reached(A, left, v)
    <3> DEFINE part == g[k]
    <3>1. A \in Nat /\ u \in Nat /\ v \in Nat /\ part \in Nat /\ u = v + part /\ u <= A /\ left \in Nat
      BY <1>1, <2>1
    <3>2. x = IF part <= w THEN part ELSE w
      BY <2>6
    <3> HIDE DEF part
    <3>3. x \in Nat /\ x <= part /\ x = Reached(A, left, u) - Reached(A, left, v)
      <4>1. CASE A <= left
        BY ONLY <3>1, <3>2, <2>7, <4>1 DEF Reached
      <4>2. CASE A > left /\ u <= A - left
        BY ONLY <3>1, <3>2, <2>7, <4>2 DEF Reached
      <4>3. CASE A > left /\ u > A - left
        BY ONLY <3>1, <3>2, <2>7, <4>3 DEF Reached
      <4> QED
        BY <3>1, <4>1, <4>2, <4>3
    <3> QED
      BY <3>3 DEF part
  <2> QED
    BY <2>8 DEF u, v, x
<1>7. ASSUME NEW k \in 0 .. n PROVE c[k] = G(UpTo(g, k)) /\ c[k] \in Int
  BY <1>1, <1>4 DEF Reached
<1>8. ASSUME NEW k \in 1 .. n PROVE f[k] = c[k] - c[k - 1]
  BY <1>2, <1>6, <1>7
<1> HIDE DEF c
<1>9. UpTo(f, n) = c[n] - c[0]
  BY <1>2, <1>7, <1>8, Telescope
<1>10. c[n] = (IF A <= left THEN A ELSE left) /\ c[0] = 0
  <2>1. n \in 0 .. n /\ 0 \in 0 .. n
    BY <1>2
  <2>2. c[n] = G(A) /\ c[0] = G(0)
    BY <1>4, <1>5, <1>7, <2>1
  <2> HIDE DEF n, A
  <2> QED
    BY <1>1, <2>2 DEF Reached
<1>11. UpTo(f, n) = IF A <= left THEN A ELSE left
  BY <1>1, <1>9, <1>10
<1> QED
  BY <1>2, <1>6, <1>11

\* The dues of an item.
LEMMA DuesAre ==
  ASSUME TypeOK, PlansOK, NEW i \in Items
  PROVE  /\ IsFiniteSet(ScheduledDues(i))
         /\ \A s \in ScheduledDues(i) : /\ s = [no |-> s.no, due |-> s.due, open |-> s.open]
                                        /\ s.no \in Nat /\ s.due \in Nat /\ s.open \in Nat
         /\ \A s, t \in ScheduledDues(i) : s.no = t.no => s = t
         /\ Sum(LAMBDA s : s.open, ScheduledDues(i)) = Remaining(i)
<1> DEFINE left == Remaining(i)
           D == ScheduledDues(i)
           parts(q) == {k \in DOMAIN InstallmentDue : k <= Len(plan[q].parts) /\ plan[q].parts[k][i] > 0}
           due(q, k) == [no |-> k, due |-> InstallmentDue[k], open |-> PartOpen(q, i, k, left)]
           rest == NotBelow0(left - Sum(LAMBDA q : plan[q].amount[i], PlansOf(i)))
           r0 == [no |-> 0, due |-> Due[i], open |-> rest]
           U == UNION {{due(q, k) : k \in parts(q)} : q \in PlansOf(i)}
           f == [s \in D |-> s.open]
<1>1. D = U \cup {r0}
  BY DEF ScheduledDues
<1>2. left \in Nat /\ Due[i] \in Nat
  BY OpenIs, DocFacts, DocSets
<1>3. Sum(LAMBDA s : s.open, D) = SumFunctionOnSet(f, D)
  BY DEF Sum
<1>4. CASE PlansOf(i) = {}
  <2> DEFINE none == [q \in PlansOf(i) |-> plan[q].amount[i]]
  <2>1. Sum(LAMBDA q : plan[q].amount[i], PlansOf(i)) = SumFunctionOnSet(none, {})
    BY <1>4 DEF Sum
  <2> HIDE DEF none
  <2>2. SumFunctionOnSet(none, {}) = 0
    BY FS_EmptySet, SumPick
  <2>3. rest = left
    BY <1>2, <2>1, <2>2 DEF NotBelow0
  <2>4. D = {r0}
    <3>1. U = {}
      <4> HIDE DEF due, parts
      <4> QED
        BY <1>4
    <3> HIDE DEF U, r0, D
    <3> QED
      BY <1>1, <3>1
  <2>5. f[r0] = left
    <3>1. r0 \in D /\ r0.open = left
      BY <2>3, <2>4
    <3> HIDE DEF D, r0
    <3> QED
      BY <3>1
  <2>6. r0.no = 0 /\ r0.due = Due[i] /\ r0.open = left /\ r0 = [no |-> r0.no, due |-> r0.due, open |-> r0.open]
    BY <2>3
  <2> HIDE DEF f, r0, D
  <2>7. SumFunctionOnSet(f, D) = left
    <3>1. f[r0] \in Int
      BY <1>2, <2>5
    <3>2. SumFunctionOnSet(f, {r0}) = f[r0]
      BY ONLY <3>1, SumOfOne
    <3> QED
      BY <2>4, <2>5, <3>2
  <2>8. IsFiniteSet(D) /\ \A s \in D : s = r0
    BY <2>4, FS_Singleton
  <2>9. Sum(LAMBDA s : s.open, D) = left
    BY <1>3, <2>7
  <2> QED
    BY <1>2, <2>6, <2>8, <2>9 DEF D
<1>5. CASE PlansOf(i) # {}
  <2>1. PICK q : q \in PlansOf(i)
    BY <1>5
  <2>2. PlansOf(i) = {q} /\ q \in Plans
    BY <2>1 DEF PlansOK, PlansOf
  <2> DEFINE n == Len(plan[q].parts)
             K == parts(q)
             A == plan[q].amount[i]
             E == {due(q, k) : k \in K}
             g == [k \in 1 .. n |-> PartOpen(q, i, k, left)]
             one == [x \in PlansOf(i) |-> plan[x].amount[i]]
  <2>3. plan[q].parts \in Seq([Items -> Nat]) /\ A \in Nat /\ n \in Nat
    BY <2>2 DEF TypeOK
  <2>4. Sum(LAMBDA x : plan[x].amount[i], PlansOf(i)) = SumFunctionOnSet(one, {q}) /\ one[q] = A
    BY <2>2 DEF Sum
  <2> HIDE DEF one
  <2>5. SumFunctionOnSet(one, {q}) = A
    <3>1. one[q] \in Int
      BY <2>3, <2>4
    <3>2. SumFunctionOnSet(one, {q}) = one[q]
      BY ONLY <3>1, SumOfOne
    <3> QED
      BY <2>4, <3>2
  <2>6. rest = NotBelow0(left - A)
    BY <2>4, <2>5
  <2>7. rest \in Nat /\ rest = (IF left <= A THEN 0 ELSE left - A)
    BY <1>2, <2>3, <2>6 DEF NotBelow0
  <2>8. \A k \in 1 .. n : g[k] = PartOpen(q, i, k, left)
    OBVIOUS
  <2> HIDE DEF g
  <2>9. /\ \A k \in 1 .. n : PartOpen(q, i, k, left) \in Nat /\ plan[q].parts[k][i] \in Nat
                             /\ PartOpen(q, i, k, left) <= plan[q].parts[k][i]
        /\ UpTo(g, n) = IF A <= left THEN A ELSE left
    BY <1>2, <2>2, <2>8, InstallmentsAddUp
  <2>10. n <= Len(InstallmentDue) /\ InstallmentDue \in Seq(Nat)
    BY <2>2, MoneyAssumption DEF PlansOK
  <2>11. K = {k \in 1 .. n : plan[q].parts[k][i] > 0}
    BY <2>3, <2>10
  <2>12. \A k \in K : k \in 1 .. n /\ InstallmentDue[k] \in Nat
    BY <2>3, <2>10, <2>11
  <2>13. UpTo(g, n) = SumFunctionOnSet(g, K)
    <3>1. K \in SUBSET (1 .. n) /\ IsFiniteSet(1 .. n)
      BY <2>11, FS_Interval
    <3>2. \A k \in 1 .. n : g[k] \in Int /\ g[k] = IF k \in K THEN g[k] ELSE 0
      BY <2>8, <2>9, <2>11
    <3> HIDE DEF K, n
    <3> DEFINE N == 1 .. n
    <3>3. K \in SUBSET N /\ IsFiniteSet(N) /\ \A k \in N : g[k] \in Int /\ g[k] = IF k \in K THEN g[k] ELSE 0
      BY <3>1, <3>2
    <3>4. UpTo(g, n) = SumFunctionOnSet(g, N)
      BY DEF UpTo
    <3> HIDE DEF N
    <3>5. SumFunctionOnSet(g, N) = SumFunctionOnSet(g, K)
      BY <3>3, SumPart
    <3> QED
      BY <3>4, <3>5
  <2>14. D = E \cup {r0}
    <3>1. U = E
      <4> HIDE DEF due, parts
      <4>1. \A e : e \in U <=> \E x \in PlansOf(i) : \E k \in parts(x) : e = due(x, k)
        OBVIOUS
      <4>2. \A e : e \in E <=> \E k \in parts(q) : e = due(q, k)
        OBVIOUS
      <4> HIDE DEF U, E
      <4> QED
        BY <2>2, <4>1, <4>2
    <3> HIDE DEF U, r0, D, E
    <3> QED
      BY <1>1, <3>1
  <2>15. \A k \in K : /\ due(q, k).no = k /\ due(q, k).due = InstallmentDue[k] /\ due(q, k).open = g[k]
                      /\ due(q, k) = [no |-> due(q, k).no, due |-> due(q, k).due, open |-> due(q, k).open]
    BY <2>8, <2>12
  <2>16. /\ r0.no = 0 /\ r0.due = Due[i] /\ r0.open = rest
         /\ r0 = [no |-> r0.no, due |-> r0.due, open |-> r0.open]
    OBVIOUS
  <2>17. /\ \A s \in D : /\ s = [no |-> s.no, due |-> s.due, open |-> s.open]
                         /\ s.no \in Nat /\ s.due \in Nat /\ s.open \in Nat /\ f[s] = s.open
         /\ \A s, t \in D : s.no = t.no => s = t
    <3>1. \A k \in K : k \in Nat /\ k # 0 /\ g[k] \in Nat /\ InstallmentDue[k] \in Nat
      BY <2>8, <2>9, <2>12
    <3>2. \A s \in D : s = r0 \/ \E k \in K : s = due(q, k)
      BY <2>14
    <3>3. \A s \in D : f[s] = s.open
      OBVIOUS
    <3> HIDE DEF due, D, K, r0, f, rest
    <3>4. \A s \in D : /\ s = [no |-> s.no, due |-> s.due, open |-> s.open]
                       /\ s.no \in Nat /\ s.due \in Nat /\ s.open \in Nat
      BY <1>2, <2>7, <2>15, <2>16, <3>1, <3>2
    <3>5. \A s, t \in D : s.no = t.no => s = t
      BY <2>15, <2>16, <3>1, <3>2
    <3> QED
      BY <3>3, <3>4, <3>5
  <2>18. IsFiniteSet(K) /\ IsFiniteSet(E) /\ IsFiniteSet({r0}) /\ IsFiniteSet(D)
    <3> DEFINE N == 1 .. n
    <3>1. IsFiniteSet(K)
      <4>1. K \in SUBSET N
        BY <2>11
      <4>2. IsFiniteSet(N)
        <5> HIDE DEF n
        <5> QED
          BY <2>3, FS_Interval
      <4> HIDE DEF K, N
      <4> QED
        BY <4>1, <4>2, FS_Subset
    <3> DEFINE m == [k \in K |-> due(q, k)]
    <3>2. IsFiniteSet(E)
      <4>1. \A k \in K : m[k] = due(q, k)
        OBVIOUS
      <4>2. E = {m[k] : k \in K} /\ m \in [K -> E] /\ \A e \in E : \E k \in K : m[k] = e
        OBVIOUS
      <4> HIDE DEF K, E, m
      <4>3. m \in Surjection(K, E)
        BY <4>2 DEF Surjection
      <4> QED
        BY <3>1, <4>3, FS_Surjection
    <3>3. IsFiniteSet({r0})
      BY FS_Singleton
    <3>4. IsFiniteSet(E \cup {r0})
      <4> HIDE DEF E, r0
      <4> QED
        BY <3>2, <3>3, FS_Union
    <3> QED
      BY <2>14, <3>1, <3>2, <3>3, <3>4
  <2>19. SumFunctionOnSet(g, K) = SumFunctionOnSet(f, E)
    <3> DEFINE m == [k \in K |-> due(q, k)]
    <3>1. \A k \in K : m[k] \in D /\ g[k] = f[m[k]] /\ m[k].no = k
      BY <2>14, <2>15, <2>17
    <3>2. E = {m[k] : k \in K}
      OBVIOUS
    <3>3. \A s \in D : f[s] \in Int
      BY <2>17
    <3> HIDE DEF m, D, K, f, E
    <3>4. \A k, l \in K : k # l => m[k] # m[l]
      BY <3>1
    <3>5. SumFunctionOnSet(g, K) = SumFunctionOnSet(f, {m[k] : k \in K})
      BY <2>18, <3>1, <3>3, <3>4, SumRenamed
    <3> QED
      BY <3>2, <3>5
  <2>20. SumFunctionOnSet(f, D) = SumFunctionOnSet(f, E) + f[r0] /\ SumFunctionOnSet(f, E) \in Int
    <3>1. r0 \notin E /\ E \cap {r0} = {} /\ \A s \in E \cup {r0} : f[s] \in Int
      <4>1. \A s \in E : s.no # 0
        BY <2>12, <2>15
      <4>2. r0.no = 0 /\ \A s \in E \cup {r0} : f[s] = s.open /\ s.open \in Nat
        BY <2>14, <2>17
      <4> HIDE DEF E, r0, f
      <4> QED
        BY <4>1, <4>2
    <3>2. f[r0] \in Int
      BY <3>1
    <3>3. \A s \in E : f[s] \in Int
      BY <3>1
    <3> HIDE DEF E, r0, f, D
    <3>4. SumFunctionOnSet(f, E \cup {r0}) = SumFunctionOnSet(f, E) + SumFunctionOnSet(f, {r0})
      BY <2>18, <3>1, SumUnion
    <3>5. SumFunctionOnSet(f, {r0}) = f[r0]
      BY <3>2, SumOfOne
    <3>6. SumFunctionOnSet(f, E) \in Int
      BY <2>18, <3>3, SumPick
    <3> QED
      BY <2>14, <3>4, <3>5, <3>6
  <2>21. f[r0] = rest
    BY <2>14, <2>16, <2>17
  <2>22. Sum(LAMBDA s : s.open, D) = left
    <3> HIDE DEF f, rest, left, A, D
    <3> QED
      BY <1>2, <1>3, <2>3, <2>7, <2>9, <2>13, <2>19, <2>20, <2>21 DEF left
  <2> QED
    BY <2>17, <2>18, <2>22
<1> QED
  BY <1>4, <1>5
-----------------------------------------------------------------------------
(* The readers agree, and an automatic allocation fits                         *)

\* Whoever shows what is due on an item shows the same amount.
LEMMA ReadersDo == TypeOK /\ PlansOK => ReadersAgree
<1> SUFFICES ASSUME TypeOK, PlansOK, NEW i \in Items, Posted(i)
             PROVE  /\ Sum(LAMBDA s : s.open, ScheduledDues(i)) = Remaining(i)
                    /\ SettlementDue(i) = Remaining(i)
                    /\ Remaining(i) = Sum(LAMBDA o : o.open, {o \in OpenItemList : o.item = i})
  BY DEF ReadersAgree
<1>1. /\ Amount[i] \in Nat /\ Returned(i) \in Nat /\ Allocated(i) \in Nat /\ Reversed(i) \in {0, Amount[i]}
      /\ Open(i) \in Int /\ Remaining(i) \in Nat
  BY OpenIs, RowSums, DocFacts, DocSets DEF Reversed
<1>2. SettlementDue(i) = Remaining(i)
  BY <1>1 DEF SettlementDue, Remaining, NotBelow0, Open
<1>3. Remaining(i) = Sum(LAMBDA o : o.open, {o \in OpenItemList : o.item = i})
  <2> DEFINE L == {o \in OpenItemList : o.item = i}
             f == [o \in L |-> o.open]
             x == [item |-> i, open |-> Open(i)]
  <2>1. Sum(LAMBDA o : o.open, L) = SumFunctionOnSet(f, L)
    BY DEF Sum
  <2>2. CASE Open(i) > 0
    <3>1. L = {x}
      BY <2>2 DEF OpenItemList
    <3>2. f[x] = Open(i)
      BY <3>1
    <3> HIDE DEF f, L, x
    <3>3. f[x] \in Int
      BY <1>1, <3>2
    <3>4. SumFunctionOnSet(f, {x}) = f[x]
      BY ONLY <3>3, SumOfOne
    <3>5. Remaining(i) = Open(i)
      BY <1>1, <2>2 DEF Remaining, NotBelow0
    <3>6. Sum(LAMBDA o : o.open, L) = Remaining(i)
      BY <2>1, <3>1, <3>2, <3>4, <3>5
    <3> QED
      BY <3>6 DEF L
  <2>3. CASE ~(Open(i) > 0)
    <3>1. L = {}
      BY <2>3 DEF OpenItemList
    <3> HIDE DEF f, L
    <3>2. SumFunctionOnSet(f, {}) = 0
      BY FS_EmptySet, SumPick
    <3>3. Remaining(i) = 0
      BY <1>1, <2>3 DEF Remaining, NotBelow0
    <3>4. Sum(LAMBDA o : o.open, L) = Remaining(i)
      BY <2>1, <3>1, <3>2, <3>3
    <3> QED
      BY <3>4 DEF L
  <2> QED
    BY <2>2, <2>3
<1>4. Sum(LAMBDA s : s.open, ScheduledDues(i)) = Remaining(i)
  BY DuesAre
<1> QED
  BY <1>2, <1>3, <1>4

\* What is taken of a, when b is left.
Cut(a, b) == IF b < 0 THEN 0 ELSE IF a <= b THEN a ELSE b

\* R is a strict order of all of S, b what comes before an element, and f takes n
\* from the amounts o in that order.
Spread(S, R, o, b, n, f) ==
    /\ IsFiniteSet(S)
    /\ \A s, t \in S : s # t => <<s, t>> \in R \/ <<t, s>> \in R
    /\ \A s, t, u \in S : <<s, t>> \in R /\ <<t, u>> \in R => <<s, u>> \in R
    /\ \A s \in S : <<s, s>> \notin R
    /\ n \in Nat /\ \A s \in S : o[s] \in Nat
    /\ \A s \in S : b[s] \in SUBSET S /\ \A t \in S : t \in b[s] <=> <<t, s>> \in R
    /\ \A s \in S : f[s] = Cut(o[s], n - SumFunctionOnSet(o, b[s]))

\* An amount n that is spread over others in their order is used up, or all of them
\* are.
LEMMA InTurn ==
  ASSUME NEW S, NEW R, NEW o, NEW b, NEW n, NEW f, Spread(S, R, o, b, n, f)
  PROVE  SumFunctionOnSet(f, S) = IF SumFunctionOnSet(o, S) <= n THEN SumFunctionOnSet(o, S) ELSE n
<1> USE DEF Spread
<1> DEFINE Before(T, s) == {t \in T : <<t, s>> \in R}
           taken(T) == [s \in S |-> Cut(o[s], n - SumFunctionOnSet(o, Before(T, s)))]
           P == {T \in SUBSET S : SumFunctionOnSet(taken(T), T)
                                    = IF SumFunctionOnSet(o, T) <= n THEN SumFunctionOnSet(o, T) ELSE n}
<1>1. ASSUME NEW T \in SUBSET S PROVE /\ IsFiniteSet(T) /\ (\A s \in T : o[s] \in Int /\ o[s] \in Nat)
                                      /\ SumFunctionOnSet(o, T) \in Nat
  <2>1. IsFiniteSet(T) /\ \A s \in T : o[s] \in Int /\ o[s] \in Nat
    BY FS_Subset
  <2> QED
    BY <2>1, SumOfNaturals
<1>2. ASSUME NEW T \in SUBSET S, NEW s \in S
      PROVE  /\ Before(T, s) \in SUBSET S
             /\ taken(T)[s] = Cut(o[s], n - SumFunctionOnSet(o, Before(T, s))) /\ taken(T)[s] \in Int
  <2>1. Before(T, s) \in SUBSET S
    OBVIOUS
  <2>2. taken(T)[s] = Cut(o[s], n - SumFunctionOnSet(o, Before(T, s)))
    OBVIOUS
  <2> HIDE DEF taken, Before
  <2>3. SumFunctionOnSet(o, Before(T, s)) \in Nat
    BY <1>1, <2>1
  <2> QED
    BY <2>1, <2>2, <2>3 DEF Cut
<1>3. ASSUME NEW T \in SUBSET S, \A U \in SUBSET T : U # T => U \in P PROVE T \in P
  <2>1. CASE T = {}
    <3> HIDE DEF taken
    <3>1. SumFunctionOnSet(taken({}), {}) = 0 /\ SumFunctionOnSet(o, {}) = 0
      BY FS_EmptySet, SumPick
    <3> QED
      BY <2>1, <3>1
  <2>2. CASE T # {}
    <3>1. PICK m \in T : \A t \in T : t # m => <<t, m>> \in R
      <4>1. IsFiniteSet(T) /\ \A s, t \in T : s # t => <<s, t>> \in R \/ <<t, s>> \in R
        BY <1>1
      <4>2. \A s, t, u \in T : <<s, t>> \in R /\ <<t, u>> \in R => <<s, u>> \in R
        OBVIOUS
      <4> HIDE DEF P
      <4> QED
        BY <2>2, <4>1, <4>2, LastElement
    <3> DEFINE U == T \ {m}
    <3>2. U \in SUBSET T /\ U # T /\ U \in SUBSET S /\ m \in S
      BY <3>1
    <3>3. U \in P
      BY <1>3, <3>2
    <3>4. Before(T, m) = U
      BY <3>1
    <3>5. ASSUME NEW s \in U PROVE Before(T, s) = Before(U, s)
      <4>1. <<m, s>> \notin R
        <5>1. <<s, m>> \in R /\ s \in S /\ m \in S
          BY <3>1
        <5> QED
          BY <5>1
      <4> QED
        BY <4>1
    <3> HIDE DEF Before, U
    <3>6. \A s \in U : taken(T)[s] \in Int /\ taken(U)[s] = taken(T)[s]
      BY <1>2, <3>2, <3>5
    <3>7. \A s \in T : taken(T)[s] \in Int
      BY <1>2
    <3>8. taken(T)[m] = Cut(o[m], n - SumFunctionOnSet(o, U)) /\ o[m] \in Nat
      BY <1>2, <3>2, <3>4
    <3>9. SumFunctionOnSet(taken(U), U) = IF SumFunctionOnSet(o, U) <= n THEN SumFunctionOnSet(o, U) ELSE n
      BY <3>3
    <3> HIDE DEF taken
    <3>10. SumFunctionOnSet(taken(U), U) = SumFunctionOnSet(taken(T), U)
      <4>1. IsFiniteSet(U)
        BY <1>1, <3>2
      <4> QED
        BY <3>6, <4>1, SumSame
    <3>11. SumFunctionOnSet(taken(T), T) = taken(T)[m] + SumFunctionOnSet(taken(T), U)
      <4>1. IsFiniteSet(T)
        BY <1>1
      <4> QED
        BY <3>1, <3>7, <4>1, SumPull DEF U
    <3>12. SumFunctionOnSet(o, T) = o[m] + SumFunctionOnSet(o, U)
      <4>1. IsFiniteSet(T) /\ \A s \in T : o[s] \in Int
        BY <1>1
      <4> QED
        BY <3>1, <4>1, SumPull DEF U
    <3>13. SumFunctionOnSet(o, U) \in Nat
      BY <1>1, <3>2
    <3>14. SumFunctionOnSet(taken(T), T) = IF SumFunctionOnSet(o, T) <= n THEN SumFunctionOnSet(o, T) ELSE n
      <4> DEFINE a == o[m]
                 d == SumFunctionOnSet(o, U)
                 c == SumFunctionOnSet(o, T)
                 x == SumFunctionOnSet(taken(T), T)
                 y == taken(T)[m]
      <4>1. a \in Nat /\ d \in Nat /\ c = a + d /\ x = y + (IF d <= n THEN d ELSE n) /\ y = Cut(a, n - d)
        BY <3>8, <3>9, <3>10, <3>11, <3>12, <3>13
      <4> HIDE DEF a, d, c, x, y
      <4>2. x = IF c <= n THEN c ELSE n
        BY ONLY <4>1, n \in Nat DEF Cut
      <4> QED
        BY <4>2 DEF c, x
    <3> QED
      BY <3>14
  <2> QED
    BY <2>1, <2>2
<1> HIDE DEF P
<1>4. S \in P
  BY <1>3, StrongInduction
<1>5. \A s \in S : taken(S)[s] \in Int /\ f[s] = taken(S)[s]
  <2>1. S \in SUBSET S
    OBVIOUS
  <2>2. \A s \in S : Before(S, s) = b[s]
    OBVIOUS
  <2> HIDE DEF taken, Before
  <2> QED
    BY <1>2, <2>1, <2>2
<1>6. SumFunctionOnSet(taken(S), S) = IF SumFunctionOnSet(o, S) <= n THEN SumFunctionOnSet(o, S) ELSE n
  BY <1>4 DEF P
<1> HIDE DEF taken
<1>7. SumFunctionOnSet(f, S) = SumFunctionOnSet(taken(S), S)
  BY <1>5, SumSame
<1> QED
  BY <1>6, <1>7
\* The portions of an item add up to what is open on it.
LEMMA PortionsAre ==
  ASSUME TypeOK, PlansOK, NEW i \in Items, Open(i) > 0, NEW o, \A s \in PortionsOf(i) : o[s] = s.open
  PROVE  /\ IsFiniteSet(PortionsOf(i))
         /\ \A s \in PortionsOf(i) : s.item = i /\ s.due \in Nat /\ s.no \in Nat /\ s.open \in Nat
         /\ \A s, t \in PortionsOf(i) : s.no = t.no => s = t
         /\ SumFunctionOnSet(o, PortionsOf(i)) = Open(i)
<1>1. Open(i) \in Int /\ Due[i] \in Nat /\ Remaining(i) = Open(i)
  BY OpenIs, DocFacts, DocSets DEF Remaining, NotBelow0
<1>2. CASE PlansOf(i) = {}
  <2> DEFINE x == [item |-> i, due |-> Due[i], no |-> 0, open |-> Open(i)]
             E == PortionsOf(i)
  <2>1. E = {x}
    BY <1>2 DEF PortionsOf
  <2>2. x.item = i /\ x.due = Due[i] /\ x.no = 0 /\ x.open = Open(i) /\ o[x] = x.open
    BY <2>1
  <2>3. IsFiniteSet({x})
    BY FS_Singleton
  <2> HIDE DEF x, E
  <2>4. o[x] \in Int
    BY <1>1, <2>2
  <2>5. SumFunctionOnSet(o, {x}) = o[x]
    BY ONLY <2>4, SumOfOne
  <2>6. \A s \in E : s = x
    BY <2>1
  <2>7. /\ IsFiniteSet(E)
        /\ \A s \in E : s.item = i /\ s.due \in Nat /\ s.no \in Nat /\ s.open \in Nat
        /\ \A s, t \in E : s.no = t.no => s = t
        /\ SumFunctionOnSet(o, E) = Open(i)
    BY <1>1, <2>1, <2>2, <2>3, <2>5, <2>6
  <2> QED
    BY <2>7 DEF E
<1>3. CASE PlansOf(i) # {}
  <2> DEFINE D == ScheduledDues(i)
             A == {d \in D : d.open > 0}
             at(s) == [item |-> i, due |-> s.due, no |-> s.no, open |-> s.open]
             m == [s \in A |-> at(s)]
             E == PortionsOf(i)
             g == [s \in D |-> s.open]
  <2>1. E = {at(s) : s \in A}
    BY <1>3 DEF PortionsOf
  <2>2. /\ IsFiniteSet(D)
        /\ \A s \in D : /\ s = [no |-> s.no, due |-> s.due, open |-> s.open]
                        /\ s.no \in Nat /\ s.due \in Nat /\ s.open \in Nat
        /\ \A s, t \in D : s.no = t.no => s = t
        /\ SumFunctionOnSet(g, D) = Open(i)
    BY <1>1, DuesAre DEF Sum
  <2>3. \A s \in D : g[s] = s.open
    OBVIOUS
  <2>4. \A s \in A : s \in D /\ m[s] = at(s)
    OBVIOUS
  <2>5. \A s \in D : at(s).item = i /\ at(s).due = s.due /\ at(s).no = s.no /\ at(s).open = s.open
    OBVIOUS
  <2>6. A \in SUBSET D /\ \A s \in D : s \in A <=> s.open > 0
    OBVIOUS
  <2>7. E = {m[s] : s \in A} /\ m \in [A -> E] /\ (\A e \in E : \E s \in A : m[s] = e) /\ (\A s \in A : m[s] \in E)
    <3>1. (\A e : e \in E <=> \E s \in A : e = at(s)) /\ m = [s \in A |-> at(s)]
      BY <2>1
    <3> HIDE DEF A, at, m, E
    <3>2. (\A s \in A : m[s] \in E) /\ \A e \in E : \E s \in A : m[s] = e
      BY <2>4, <3>1
    <3>3. m \in [A -> E]
      BY <3>1
    <3>4. E = {m[s] : s \in A}
      BY <3>2
    <3> QED
      BY <3>2, <3>3, <3>4
  <2>8. \A s \in E : o[s] = s.open
    OBVIOUS
  <2> HIDE DEF D, A, at, m, E, g
  <2>9. IsFiniteSet(A) /\ IsFiniteSet(E)
    <3>1. IsFiniteSet(A)
      BY <2>2, <2>6, FS_Subset
    <3>2. m \in Surjection(A, E)
      BY <2>7 DEF Surjection
    <3> QED
      BY <3>1, <3>2, FS_Surjection
  <2>10. \A s \in A : m[s].item = i /\ m[s].due \in Nat /\ m[s].no = s.no /\ s.no \in Nat /\ m[s].open = s.open /\ s.open \in Nat
    BY <2>2, <2>4, <2>5
  <2>11. ASSUME NEW s \in E PROVE s.item = i /\ s.due \in Nat /\ s.no \in Nat /\ s.open \in Nat
    <3>1. PICK x \in A : m[x] = s
      BY <2>7
    <3> QED
      BY <2>10, <3>1
  <2>12. ASSUME NEW s \in E, NEW t \in E, s.no = t.no PROVE s = t
    <3>1. PICK x \in A : m[x] = s
      BY <2>7
    <3>2. PICK y \in A : m[y] = t
      BY <2>7
    <3>3. x \in D /\ y \in D /\ x.no = y.no
      BY <2>6, <2>10, <2>12, <3>1, <3>2
    <3>4. x = y
      BY <2>2, <3>3
    <3> QED
      BY <3>1, <3>2, <3>4
  <2>13. SumFunctionOnSet(g, A) = SumFunctionOnSet(o, E)
    <3>1. \A s \in A : m[s] \in E /\ g[s] = o[m[s]]
      BY <2>3, <2>4, <2>7, <2>8, <2>10
    <3>2. \A s, t \in A : s # t => m[s] # m[t]
      BY <2>2, <2>4, <2>10
    <3>3. \A s \in E : o[s] \in Int
      BY <2>8, <2>11
    <3>4. SumFunctionOnSet(g, A) = SumFunctionOnSet(o, {m[s] : s \in A})
      BY <2>9, <3>1, <3>2, <3>3, SumRenamed
    <3> QED
      BY <2>7, <3>4
  <2>14. SumFunctionOnSet(g, D) = SumFunctionOnSet(g, A)
    <3>1. \A s \in D : g[s] \in Int /\ g[s] = IF s \in A THEN g[s] ELSE 0
      BY <2>2, <2>3, <2>6
    <3> QED
      BY <2>2, <2>6, <3>1, SumPart
  <2>15. SumFunctionOnSet(o, E) = Open(i)
    BY <2>2, <2>13, <2>14
  <2> QED
    BY <2>9, <2>11, <2>12, <2>15 DEF E
<1> QED
  BY <1>2, <1>3

\* What an automatic allocation gives each item: within what is open on it, and in
\* all either the whole amount or all that is open.
LEMMA FIFOIs ==
  ASSUME TypeOK, PlansOK, NEW p \in Payments, NEW n \in Nat
  PROVE  /\ FIFOAllocations(p, n) \in [Items -> Nat]
         /\ \A i \in Items : FIFOAllocations(p, n)[i] > 0 => i \in Payable(p) /\ FIFOAllocations(p, n)[i] <= Open(i)
         /\ LET a == FIFOAllocations(p, n)
            IN  Sum(LAMBDA i : a[i], Items) = Min({n, Sum(LAMBDA i : Remaining(i), Payable(p))})
<1> DEFINE S == Portions(p)
           B == {j \in Payable(p) : Open(j) > 0}
           R == {x \in S \X S : Older(x[1], x[2])}
           o == [s \in S |-> s.open]
           of == [i \in Items |-> {s \in S : s.item = i}]
           before(s) == Sum(LAMBDA t : t.open, {t \in S : Older(t, s)})
           part(s) == Min({s.open, NotBelow0(n - before(s))})
           f == [s \in S |-> part(s)]
           a == FIFOAllocations(p, n)
           oi == [i \in Items |-> SumFunctionOnSet(o, of[i])]
<1>1. B \in SUBSET Items /\ Payable(p) \in SUBSET Items /\ IsFiniteSet(Items) /\ IsFiniteSet(B)
  <2>1. B \subseteq Items /\ Payable(p) \subseteq Items
    BY DEF Payable
  <2> HIDE DEF B
  <2> QED
    BY <2>1, DocSets, FS_Subset
<1>2. S = UNION {PortionsOf(i) : i \in B} /\ (\A i \in B : \A s \in PortionsOf(i) : s \in S) /\ \A s \in S : \E i \in B : s \in PortionsOf(i)
  BY DEF Portions
<1>3. \A i \in B : Open(i) > 0
  OBVIOUS
<1>4. \A s \in S : o[s] = s.open
  OBVIOUS
<1>5. ASSUME NEW i \in B
      PROVE  /\ IsFiniteSet(PortionsOf(i))
             /\ \A s \in PortionsOf(i) : s.item = i /\ s.due \in Nat /\ s.no \in Nat /\ s.open \in Nat
             /\ \A s, t \in PortionsOf(i) : s.no = t.no => s = t
             /\ SumFunctionOnSet(o, PortionsOf(i)) = Open(i)
  <2>1. i \in Items /\ Open(i) > 0 /\ \A s \in PortionsOf(i) : o[s] = s.open
    BY <1>1, <1>2, <1>3, <1>4
  <2> HIDE DEF o
  <2> QED
    BY <2>1, PortionsAre
<1>6. IsFiniteSet(S)
  <2> DEFINE M == {PortionsOf(i) : i \in B}
             m == [i \in B |-> PortionsOf(i)]
  <2>1. m \in [B -> M] /\ \A x \in M : \E i \in B : m[i] = x
    OBVIOUS
  <2>2. \A x \in M : IsFiniteSet(x)
    BY <1>5
  <2>3. S = UNION M
    BY <1>2
  <2> HIDE DEF M, m, B, S
  <2>4. m \in Surjection(B, M)
    BY <2>1 DEF Surjection
  <2>5. IsFiniteSet(M)
    BY <1>1, <2>4, FS_Surjection
  <2> QED
    BY <2>2, <2>3, <2>5, FS_UNION
<1>7. /\ \A s \in S : /\ s.item \in B /\ s \in PortionsOf(s.item) /\ s.due \in Nat /\ s.no \in Nat /\ s.open \in Nat
                      /\ o[s] \in Nat /\ Rank[s.item] \in Nat
      /\ \A s, t \in S : s.item = t.item /\ s.no = t.no => s = t
  <2>1. ASSUME NEW s \in S
        PROVE  s.item \in B /\ s \in PortionsOf(s.item) /\ s.due \in Nat /\ s.no \in Nat /\ s.open \in Nat
    <3>1. PICK i \in B : s \in PortionsOf(i)
      BY <1>2
    <3> HIDE DEF S, B, o
    <3> QED
      BY <1>5, <3>1
  <2>2. \A i \in Items : Rank[i] \in Nat
    BY DocFacts, DocSets
  <2> HIDE DEF S, B, o
  <2> QED
    BY <1>1, <1>4, <1>5, <2>1, <2>2
<1>8. \A s, t \in S : <<s, t>> \in R <=> Older(s, t)
  OBVIOUS
<1>9. ASSUME NEW i \in Items PROVE /\ of[i] = (IF i \in B THEN PortionsOf(i) ELSE {}) /\ of[i] \in SUBSET S
                                   /\ \A s \in S : s \in of[i] <=> s.item = i
  <2>1. /\ of[i] = {s \in S : s.item = i} /\ of[i] \in SUBSET S
        /\ \A s \in S : s \in of[i] <=> s.item = i
    OBVIOUS
  <2> HIDE DEF of, S, B, o
  <2>2. CASE i \in B
    <3>1. \A s : s \in of[i] <=> s \in PortionsOf(i)
      BY <1>2, <1>5, <1>7, <2>1, <2>2
    <3>2. of[i] = PortionsOf(i)
      BY ONLY <3>1, <2>1
    <3> QED
      BY <2>1, <2>2, <3>2
  <2>3. CASE i \notin B
    BY <1>7, <2>1, <2>3
  <2> QED
    BY <2>2, <2>3
<1>10. ASSUME NEW s \in S PROVE f[s] = Cut(o[s], n - SumFunctionOnSet(o, {t \in S : <<t, s>> \in R})) /\ f[s] \in Nat /\ f[s] <= o[s]
  <2> DEFINE T == {t \in S : Older(t, s)}
             h == [t \in T |-> t.open]
             b == SumFunctionOnSet(o, T)
  <2>1. {t \in S : <<t, s>> \in R} = T
    BY <1>8
  <2>2. before(s) = SumFunctionOnSet(h, T)
    BY DEF Sum
  <2>3. T \in SUBSET S /\ \A t \in T : h[t] = t.open
    OBVIOUS
  <2>4. f[s] = Min({o[s], NotBelow0(n - before(s))})
    BY <1>4
  <2> HIDE DEF T, h, S, o, f, R, before
  <2>5. IsFiniteSet(T) /\ \A t \in T : o[t] \in Nat /\ o[t] \in Int /\ h[t] = o[t]
    BY <1>4, <1>6, <1>7, <2>3, FS_Subset
  <2>6. SumFunctionOnSet(h, T) = b
    BY <2>5, SumSame
  <2>7. b \in Nat
    BY <2>5, SumOfNaturals
  <2>8. o[s] \in Nat /\ before(s) = b
    BY <1>7, <2>2, <2>6
  <2> HIDE DEF b
  <2> DEFINE w == NotBelow0(n - b)
  <2>9. w \in Nat /\ w = IF n - b < 0 THEN 0 ELSE n - b
    BY <2>7 DEF NotBelow0
  <2>10. f[s] = Min({o[s], w})
    BY <2>4, <2>8
  <2> HIDE DEF w
  <2>11. Min({o[s], w}) = IF o[s] <= w THEN o[s] ELSE w
    BY <2>8, <2>9, MinOfTwo
  <2>12. f[s] = Cut(o[s], n - b) /\ f[s] \in Nat /\ f[s] <= o[s]
    BY <2>7, <2>8, <2>9, <2>10, <2>11 DEF Cut
  <2> QED
    BY <2>1, <2>12 DEF b
<1>10a. (\A s \in S : f[s] \in Nat /\ f[s] \in Int /\ f[s] <= o[s] /\ o[s] \in Nat /\ o[s] \in Int) /\ \A i \in Items : IsFiniteSet(of[i])
  <2>1. \A s \in S : f[s] \in Nat /\ f[s] <= o[s]
    BY <1>10
  <2> HIDE DEF of, S, B, o, f, R
  <2>2. \A i \in Items : IsFiniteSet(of[i])
    BY <1>6, <1>9, FS_Subset
  <2>3. \A s \in S : o[s] \in Nat
    BY <1>7
  <2> QED
    BY <2>1, <2>2, <2>3
<1>11. ASSUME NEW i \in Items PROVE a[i] = SumFunctionOnSet(f, of[i])
  <2> DEFINE h == [s \in of[i] |-> part(s)]
  <2>1. a[i] = SumFunctionOnSet(h, of[i])
    BY DEF FIFOAllocations, Sum
  <2>2. \A s \in of[i] : s \in S /\ h[s] = f[s]
    BY <1>9
  <2> HIDE DEF f, h, of, S, a
  <2>3. IsFiniteSet(of[i]) /\ \A s \in of[i] : f[s] \in Int /\ h[s] = f[s]
    BY <1>10a, <2>2
  <2>4. SumFunctionOnSet(h, of[i]) = SumFunctionOnSet(f, of[i])
    BY <2>3, SumSame
  <2> QED
    BY <2>1, <2>4
<1>12. DOMAIN a = Items /\ a = [i \in Items |-> a[i]]
  BY DEF FIFOAllocations
<1>13. \A i \in Items : oi[i] = SumFunctionOnSet(o, of[i])
  OBVIOUS
<1>14. \A s, t \in S : s # t => <<s, t>> \in R \/ <<t, s>> \in R
  <2>1. \A i, j \in Items : Rank[i] = Rank[j] => i = j
    BY DocAssumption
  <2> HIDE DEF S, B, R, o
  <2> QED
    BY <1>1, <1>7, <1>8, <2>1 DEF Older
<1>15. (\A s, t, u \in S : <<s, t>> \in R /\ <<t, u>> \in R => <<s, u>> \in R) /\ \A s \in S : <<s, s>> \notin R
  <2> HIDE DEF S, B, R, o
  <2> QED
    BY <1>7, <1>8 DEF Older
<1>16. LET s == SumFunctionOnSet(o, S) IN s \in Nat /\ SumFunctionOnSet(f, S) = IF s <= n THEN s ELSE n
  <2> HIDE DEF S, R, o, f
  <2>1. SumFunctionOnSet(f, S) = IF SumFunctionOnSet(o, S) <= n THEN SumFunctionOnSet(o, S) ELSE n
    <3> DEFINE b == [s \in S |-> {t \in S : <<t, s>> \in R}]
    <3>1. \A s \in S : b[s] = {t \in S : <<t, s>> \in R} /\ b[s] \in SUBSET S /\ \A t \in S : t \in b[s] <=> <<t, s>> \in R
      OBVIOUS
    <3> HIDE DEF b
    <3>2. \A s \in S : f[s] = Cut(o[s], n - SumFunctionOnSet(o, b[s])) /\ o[s] \in Nat
      BY <1>7, <1>10, <3>1
    <3>3. \A s \in S : b[s] \in SUBSET S /\ \A t \in S : t \in b[s] <=> <<t, s>> \in R
      BY <3>1
    <3>5. Spread(S, R, o, b, n, f)
      BY <1>6, <1>14, <1>15, <3>2, <3>3 DEF Spread
    <3> QED
      BY ONLY <3>5, InTurn
  <2>2. SumFunctionOnSet(o, S) \in Nat
    BY <1>6, <1>7, SumOfNaturals
  <2> QED
    BY <2>1, <2>2
<1> HIDE DEF S, R, o, f, of, a, B, oi
<1>17. /\ \A i \in Items : of[i] \in SUBSET S
       /\ \A i, j \in Items : i # j => of[i] \cap of[j] = {}
       /\ \A s \in S : s \in S <=> \E i \in Items : s \in of[i]
       /\ S \in SUBSET S
  BY <1>1, <1>7, <1>9
<1>18. SumFunctionOnSet(a, Items) = SumFunctionOnSet(f, S)
  <2>1. \A s \in S : f[s] \in Int
    BY <1>10a
  <2> QED
    BY <1>1, <1>6, <1>11, <1>17, <2>1, SumOfParts
<1>19. SumFunctionOnSet(oi, Items) = SumFunctionOnSet(o, S)
  <2>1. \A s \in S : o[s] \in Int
    BY <1>7
  <2> QED
    BY <1>1, <1>6, <1>13, <1>17, <2>1, SumOfParts
<1>20. ASSUME NEW i \in Items
       PROVE  a[i] \in Nat /\ (a[i] > 0 => i \in Payable(p) /\ a[i] <= Open(i)) /\ oi[i] = (IF i \in B THEN Open(i) ELSE 0)
  <2>1. IsFiniteSet(of[i]) /\ \A s \in of[i] : f[s] \in Nat /\ f[s] \in Int /\ o[s] \in Int /\ f[s] <= o[s]
    BY <1>9, <1>10a
  <2>2. a[i] \in Nat
    BY <1>11, <2>1, SumOfNaturals
  <2>3. CASE i \in B
    <3>1. of[i] = PortionsOf(i) /\ SumFunctionOnSet(o, of[i]) = Open(i) /\ i \in Payable(p)
      BY <1>5, <1>9, <2>3 DEF B
    <3>2. SumFunctionOnSet(f, of[i]) <= SumFunctionOnSet(o, of[i])
      BY <2>1, SumOfLess
    <3> QED
      BY <1>11, <1>13, <2>2, <2>3, <3>1, <3>2
  <2>4. CASE i \notin B
    <3>1. of[i] = {}
      BY <1>9, <2>4
    <3>2. SumFunctionOnSet(f, {}) = 0 /\ SumFunctionOnSet(o, {}) = 0
      BY FS_EmptySet, SumPick
    <3>3. a[i] = 0 /\ oi[i] = 0
      BY <1>11, <1>13, <3>1, <3>2
    <3> QED
      BY <2>4, <3>3
  <2> QED
    BY <2>3, <2>4
<1>21. Sum(LAMBDA i : Remaining(i), Payable(p)) = SumFunctionOnSet(oi, Items)
  <2> DEFINE g == [i \in Payable(p) |-> Remaining(i)]
             Q == Payable(p)
  <2>1. Sum(LAMBDA i : Remaining(i), Q) = SumFunctionOnSet(g, Q)
    BY DEF Sum
  <2>2. \A i \in Q : g[i] = oi[i] /\ oi[i] \in Int
    <3>1. \A i \in Q : g[i] = Remaining(i) /\ i \in Items /\ Open(i) \in Int
      BY <1>1, OpenIs
    <3>2. \A i \in Q : Remaining(i) = (IF i \in B THEN Open(i) ELSE 0)
      BY <3>1 DEF Remaining, NotBelow0, B
    <3> HIDE DEF g, Q
    <3> QED
      BY <1>20, <3>1, <3>2
  <2>3. \A i \in Items : oi[i] \in Int /\ oi[i] = IF i \in Q THEN oi[i] ELSE 0
    <3>1. \A i \in Items : Open(i) \in Int /\ (i \in B => i \in Q)
      BY OpenIs DEF B
    <3> HIDE DEF Q
    <3> QED
      BY <1>20, <3>1
  <2>4. Q \in SUBSET Items /\ IsFiniteSet(Q)
    BY <1>1, FS_Subset
  <2> HIDE DEF g, Q
  <2>5. SumFunctionOnSet(g, Q) = SumFunctionOnSet(oi, Q)
    BY <2>2, <2>4, SumSame
  <2>6. SumFunctionOnSet(oi, Items) = SumFunctionOnSet(oi, Q)
    BY <1>1, <2>3, <2>4, SumPart
  <2>7. Sum(LAMBDA i : Remaining(i), Q) = SumFunctionOnSet(oi, Items)
    BY <2>1, <2>5, <2>6
  <2> QED
    BY <2>7 DEF Q
<1>22. Sum(LAMBDA i : a[i], Items) = SumFunctionOnSet(a, Items)
  <2> DEFINE g == [i \in Items |-> a[i]]
  <2>1. Sum(LAMBDA i : a[i], Items) = SumFunctionOnSet(g, Items)
    BY DEF Sum
  <2> HIDE DEF g
  <2> QED
    BY <1>12, <2>1 DEF g
<1>23. Sum(LAMBDA i : a[i], Items) = Min({n, Sum(LAMBDA i : Remaining(i), Payable(p))})
  <2> DEFINE s == SumFunctionOnSet(o, S)
             x == Sum(LAMBDA i : Remaining(i), Payable(p))
             y == Sum(LAMBDA i : a[i], Items)
  <2>1. s \in Nat /\ x = s /\ y = IF s <= n THEN s ELSE n
    BY <1>16, <1>18, <1>19, <1>21, <1>22
  <2> HIDE DEF s, x, y
  <2>2. Min({n, x}) = IF n <= x THEN n ELSE x
    BY <2>1, MinOfTwo
  <2>3. y = Min({n, x})
    BY <2>1, <2>2
  <2> QED
    BY <2>3 DEF x, y
<1>24. a \in [Items -> Nat]
  BY <1>12, <1>20
<1> QED
  BY <1>20, <1>23, <1>24 DEF a
-----------------------------------------------------------------------------
(* Rows that stay and rows that go                                             *)

\* A finite set of numbers can be put in order.
LEMMA InOrderIs ==
  ASSUME NEW K, IsFiniteSet(K), K \subseteq Nat
  PROVE  /\ Cardinality(K) \in Nat /\ InOrder(K) \in [1 .. Cardinality(K) -> K]
         /\ \A m, n \in 1 .. Cardinality(K) : m # n => InOrder(K)[m] # InOrder(K)[n]
<1> DEFINE Rising(q) == \A m, n \in DOMAIN q : m < n => q[m] < q[n]
           P == {T \in SUBSET K : \E q \in [1 .. Cardinality(T) -> T] : Rising(q)}
<1>1. ASSUME NEW T \in SUBSET K PROVE IsFiniteSet(T) /\ Cardinality(T) \in Nat
  BY FS_Subset, FS_CardinalityType
<1>2. ASSUME NEW T \in SUBSET K, \A U \in SUBSET T : U # T => U \in P PROVE T \in P
  <2>1. CASE T = {}
    <3>1. Cardinality(T) = 0
      BY <2>1, FS_EmptySet
    <3> DEFINE q == [n \in 1 .. 0 |-> 0]
    <3>2. q \in [1 .. 0 -> T] /\ Rising(q)
      OBVIOUS
    <3> QED
      BY <3>1, <3>2
  <2>2. CASE T # {}
    <3> DEFINE R == {x \in K \X K : x[1] < x[2]}
    <3>1. PICK m \in T : \A t \in T : t # m => <<t, m>> \in R
      <4>1. \A s, t \in T : s # t => <<s, t>> \in R \/ <<t, s>> \in R
        OBVIOUS
      <4>2. \A s, t, u \in T : <<s, t>> \in R /\ <<t, u>> \in R => <<s, u>> \in R
        OBVIOUS
      <4> HIDE DEF R, P
      <4> QED
        BY <1>1, <2>2, <4>1, <4>2, LastElement
    <3> DEFINE U == T \ {m}
               c == Cardinality(U)
    <3>2. U \in SUBSET T /\ U # T /\ U \in SUBSET K /\ \A t \in U : t < m
      BY <3>1
    <3>3. PICK q \in [1 .. c -> U] : Rising(q)
      BY <1>2, <3>2
    <3>4. c \in Nat /\ Cardinality(T) = c + 1
      <4>1. Cardinality(U) = Cardinality(T) - 1 /\ Cardinality(T) \in Nat /\ Cardinality(U) \in Nat
        BY <1>1, <3>1, <3>2, FS_RemoveElement
      <4> QED
        BY <4>1
    <3> HIDE DEF c, U
    <3> DEFINE r == [n \in 1 .. c + 1 |-> IF n = c + 1 THEN m ELSE q[n]]
    <3>5. \A n \in 1 .. c + 1 : r[n] = (IF n = c + 1 THEN m ELSE q[n]) /\ (n # c + 1 => n \in 1 .. c /\ q[n] \in U)
      BY <3>4
    <3>6. DOMAIN r = 1 .. c + 1 /\ r = [n \in 1 .. c + 1 |-> r[n]]
      OBVIOUS
    <3> HIDE DEF r
    <3>7. r \in [1 .. c + 1 -> T]
      BY <3>1, <3>2, <3>5, <3>6
    <3>8. ASSUME NEW x \in 1 .. c + 1, NEW y \in 1 .. c + 1, x < y PROVE r[x] < r[y]
      <4>1. x # c + 1 /\ x \in 1 .. c
        BY <3>4, <3>8
      <4>2. CASE y = c + 1
        BY <3>2, <3>5, <4>1, <4>2
      <4>3. CASE y # c + 1
        BY <3>3, <3>5, <3>8, <4>1, <4>3
      <4> QED
        BY <4>2, <4>3
    <3>9. Rising(r)
      BY <3>6, <3>8
    <3> QED
      BY <3>4, <3>7, <3>9
  <2> QED
    BY <2>1, <2>2
<1> HIDE DEF P
<1>3. K \in P
  BY <1>2, StrongInduction
<1>4. \E q \in [1 .. Cardinality(K) -> K] : Rising(q)
  BY <1>3 DEF P
<1>5. InOrder(K) \in [1 .. Cardinality(K) -> K] /\ Rising(InOrder(K))
  BY <1>4 DEF InOrder
<1>6. Cardinality(K) \in Nat
  BY <1>1
<1>7. ASSUME NEW m \in 1 .. Cardinality(K), NEW n \in 1 .. Cardinality(K), m # n PROVE InOrder(K)[m] # InOrder(K)[n]
  <2>1. m < n \/ n < m
    BY <1>6, <1>7
  <2>2. InOrder(K)[m] \in Nat /\ InOrder(K)[n] \in Nat
    BY <1>5
  <2> QED
    BY <1>5, <2>1, <2>2
<1> QED
  BY <1>5, <1>6, <1>7

\* Rows that are left, in their order, are rows, and allocate no more.
LEMMA RowsLeft ==
  ASSUME NEW s \in Seq(Nat \ {0}), NEW K \in SUBSET DOMAIN s
  PROVE  LET q == InOrder(K)
             t == [n \in DOMAIN q |-> s[q[n]]]
         IN  t \in Seq(Nat \ {0}) /\ SumSeq(t) <= SumSeq(s) /\ (s = << >> => t = << >>)
<1> DEFINE q == InOrder(K)
           c == Cardinality(K)
           t == [n \in DOMAIN q |-> s[q[n]]]
           D == DOMAIN s
           f == [k \in D |-> s[k]]
           g == [n \in DOMAIN t |-> t[n]]
<1>1. IsFiniteSet(D) /\ D \subseteq Nat /\ IsFiniteSet(K)
  <2>1. D = 1 .. Len(s) /\ Len(s) \in Nat
    OBVIOUS
  <2>2. IsFiniteSet(D) /\ D \subseteq Nat
    BY <2>1, FS_Interval
  <2> HIDE DEF D
  <2> QED
    BY <2>2, FS_Subset DEF D
<1>2. c \in Nat /\ q \in [1 .. c -> K] /\ \A m, n \in 1 .. c : m # n => q[m] # q[n]
  <2>1. K \subseteq Nat
    BY <1>1
  <2> QED
    BY <1>1, <2>1, InOrderIs
<1> HIDE DEF q, c
<1>3. DOMAIN t = 1 .. c /\ \A n \in 1 .. c : q[n] \in D /\ t[n] = s[q[n]] /\ t[n] \in Nat \ {0}
  BY <1>2
<1>4. t \in Seq(Nat \ {0})
  <2>1. t \in [1 .. c -> Nat \ {0}]
    BY <1>3
  <2> HIDE DEF t
  <2> QED
    BY <1>2, <2>1
<1>5. SumSeq(t) = SumFunctionOnSet(g, 1 .. c) /\ SumSeq(s) = SumFunctionOnSet(f, D)
  BY <1>3 DEF SumSeq, Sum
<1>6. /\ \A n \in 1 .. c : g[n] = f[q[n]]
      /\ \A k \in D : f[k] \in Nat /\ f[k] \in Int
  BY <1>3
<1>7. SumFunctionOnSet(g, 1 .. c) <= SumFunctionOnSet(f, D)
  <2>1. IsFiniteSet(1 .. c)
    BY <1>2, FS_Interval
  <2>2. (\A n \in 1 .. c : q[n] \in D) /\ (\A n \in 1 .. c : g[n] = f[q[n]]) /\ \A k \in D : f[k] \in Nat
    BY <1>3, <1>6
  <2>3. \A m, n \in 1 .. c : m # n => q[m] # q[n]
    BY <1>2
  <2> HIDE DEF D, f, g
  <2> QED
    BY <1>1, <2>1, <2>2, <2>3, SumOfChosen
<1> HIDE DEF t, f, g, D
<1>8. s = << >> => t = << >>
  <2>1. SUFFICES ASSUME s = << >> PROVE t = << >>
    OBVIOUS
  <2>2. 1 \notin 1 .. c
    BY <1>3, <2>1 DEF D
  <2>3. c = 0 /\ Len(t) = 0
    BY <1>2, <1>3, <1>4, <2>2
  <2> QED
    BY <1>4, <2>3
<1> QED
  BY <1>4, <1>5, <1>7, <1>8 DEF t, q
-----------------------------------------------------------------------------
(* The inductive invariant                                                     *)

\* What the documents, the payments and the transfers put on the ledger of a party.
DocPart(q) == [i \in Docs |-> IF Owner[i] = q /\ doc[i] = "POSTED" THEN Sign(i) * Amount[i] ELSE 0]
PayPart(q) == [p \in Payments |->
    IF p.party = q /\ pay[p] = "POSTED" THEN IF p.kind = "COLLECTION" THEN -p.amount ELSE p.amount ELSE 0]
Shift(t, q) == (IF t.to = q THEN t.amount ELSE 0) - (IF t.from = q THEN t.amount ELSE 0)
MovePart(q) == [t \in PartyTransfers |-> IF t \in moved THEN Shift(t, q) ELSE 0]

\* The ledger of a party is the sum of them.
Booked ==
    \A q \in Parties :
        ledger[q] = SumFunctionOnSet(DocPart(q), Docs) + SumFunctionOnSet(PayPart(q), Payments)
                    + SumFunctionOnSet(MovePart(q), PartyTransfers)

\* The rows of a posted payment are on posted items of its party and side.
RowsOK ==
    \A p \in Payments, i \in Items :
        rows[p][i] # << >> => /\ pay[p] # "NONE" /\ Kind[i] \in Sides(p) /\ Owner[i] = p.party
                              /\ pay[p] = "POSTED" => doc[i] = "POSTED"

FinInv == TypeOK /\ Booked /\ RowsOK /\ NothingPaidTwice /\ PlansOK

LEMMA Initially == Init => FinInv
<1> SUFFICES ASSUME Init PROVE FinInv
  OBVIOUS
<1>1. TypeOK
  BY MoneyAssumption DEF Init, TypeOK, NoPlan
<1>2. Booked
  <2> SUFFICES ASSUME NEW q \in Parties
               PROVE  ledger[q] = SumFunctionOnSet(DocPart(q), Docs) + SumFunctionOnSet(PayPart(q), Payments)
                                  + SumFunctionOnSet(MovePart(q), PartyTransfers)
    BY DEF Booked
  <2>1. (\A i \in Docs : DocPart(q)[i] = 0) /\ (\A p \in Payments : PayPart(q)[p] = 0)
        /\ \A t \in PartyTransfers : MovePart(q)[t] = 0
    BY DEF Init, DocPart, PayPart, MovePart
  <2>2. SumFunctionOnSet(DocPart(q), Docs) = 0 /\ SumFunctionOnSet(PayPart(q), Payments) = 0
        /\ SumFunctionOnSet(MovePart(q), PartyTransfers) = 0
    BY <2>1, FiniteAssumption, SumZero
  <2> QED
    BY <2>2 DEF Init
<1>3. RowsOK
  BY DEF Init, RowsOK
<1>4. NothingPaidTwice
  <2>1. \A p \in Payments, i \in Items : SumSeq(rows[p][i]) = 0 /\ Live(p, i) = 0
    <3>1. << >> \in Seq(Nat \ {0})
      OBVIOUS
    <3>2. SumSeq(<< >>) = 0
      BY <3>1, SumSeqIs
    <3> QED
      BY <3>2 DEF Init, Live
  <2>2. ASSUME NEW p \in Payments PROVE Used(p) = 0
    <3> DEFINE f == [i \in Items |-> SumSeq(rows[p][i])]
    <3>1. \A i \in Items : f[i] = 0
      BY <2>1
    <3>2. SumFunctionOnSet(f, Items) = 0
      BY <3>1, DocSets, SumZero
    <3> QED
      BY <3>2 DEF Used, Sum
  <2>3. ASSUME NEW i \in Items PROVE Allocated(i) = 0
    <3> DEFINE f == [p \in Payments |-> Live(p, i)]
    <3>1. \A p \in Payments : f[p] = 0
      BY <2>1
    <3>2. SumFunctionOnSet(f, Payments) = 0
      BY <3>1, FiniteAssumption, SumZero
    <3> QED
      BY <3>2 DEF Allocated, Sum
  <2> QED
    BY <2>2, <2>3, PaymentFacts, DocFacts, DocSets DEF NothingPaidTwice, Reversed, Init
<1>5. PlansOK
  <2>1. ASSUME NEW q \in Plans, NEW i \in Items
        PROVE  Len(plan[q].parts) = 0 /\ plan[q].amount[i] = 0 /\ Earlier(q, i, Len(plan[q].parts)) = 0
    <3>1. plan[q].parts = << >> /\ plan[q].amount[i] = 0
      BY DEF Init, NoPlan
    <3>2. Len(plan[q].parts) = 0
      BY <3>1
    <3> DEFINE f == [h \in 1 .. 0 |-> plan[q].parts[h][i]]
    <3>3. UpTo(f, 0) = 0
      BY UpToIs
    <3> QED
      BY <3>1, <3>2, <3>3 DEF Earlier, Sum, UpTo
  <2>2. Len(InstallmentDue) \in Nat
    BY MoneyAssumption
  <2>3. \A i \in Items : PlansOf(i) = {}
    BY DEF PlansOf, Init, NoPlan
  <2>4. \A q \in Plans : Len(plan[q].parts) = 0
    BY DEF Init, NoPlan
  <2> QED
    BY <2>1, <2>2, <2>3, <2>4 DEF PlansOK
<1> QED
  BY <1>1, <1>2, <1>3, <1>4, <1>5 DEF FinInv
-----------------------------------------------------------------------------
(* The steps of documents, and of the amounts between parties                  *)

\* A step that changes no row keeps what is allocated.
LEMMA RowsStay ==
  ASSUME rows' = rows, pay' = pay
  PROVE  /\ \A p, i : Live(p, i)' = Live(p, i)
         /\ \A p : Used(p)' = Used(p)
         /\ \A i : Allocated(i)' = Allocated(i)
BY DEF Live, Used, Allocated, Sum

\* A step that changes no plan keeps what is said of them.
LEMMA PlansStay ==
  ASSUME plan' = plan
  PROVE  PlansOK' = PlansOK
BY DEF PlansOK, PlansOf, Earlier, Sum

\* Where nothing is allocated to an item, no payment that counts has rows on it.
LEMMA NoRows ==
  ASSUME FinInv, NEW i \in Items, Allocated(i) <= 0
  PROVE  Allocated(i) = 0 /\ \A p \in Payments : pay[p] = "POSTED" => rows[p][i] = << >>
<1>1. TypeOK
  BY DEF FinInv
<1>2. Allocated(i) = 0 /\ \A p \in Payments : Live(p, i) = 0
  <2>1. Allocated(i) \in Nat /\ \A p \in Payments : Live(p, i) \in Nat /\ Live(p, i) <= Allocated(i)
    BY <1>1, RowSums
  <2> QED
    BY <2>1
<1>3. ASSUME NEW p \in Payments, pay[p] = "POSTED" PROVE rows[p][i] = << >>
  <2>1. rows[p][i] \in Seq(Nat \ {0})
    BY <1>1, RowSums
  <2>2. SumSeq(rows[p][i]) = 0
    BY <1>2, <1>3 DEF Live
  <2> QED
    BY <2>1, <2>2, SumSeqIs
<1> QED
  BY <1>2, <1>3

\* What a document in a status has on the ledger.
Worth(i, s) == IF s = "POSTED" THEN Sign(i) * Amount[i] ELSE 0

\* A document changes its status, and the ledger of its party goes along.
LEMMA DocMoves ==
  ASSUME FinInv, NEW i \in Docs, NEW s \in {"NONE", "DRAFT", "POSTED", "REVERSED"},
         doc' = [doc EXCEPT ![i] = s], ledger' \in [Parties -> Int],
         \A q \in Parties : ledger'[q] = ledger[q] + (IF Owner[i] = q THEN Worth(i, s) - Worth(i, doc[i]) ELSE 0),
         doc[i] = "POSTED" => s = "REVERSED", s = "REVERSED" => (i \in Items => Allocated(i) <= 0),
         UNCHANGED <<pay, rows, plan, entry, moved, cash, active>>
  PROVE  FinInv'
<1>1. TypeOK /\ Booked /\ RowsOK /\ NothingPaidTwice /\ PlansOK
  BY DEF FinInv
<1>2. /\ doc \in [Docs -> {"NONE", "DRAFT", "POSTED", "REVERSED"}] /\ doc'[i] = s
      /\ \A j \in Docs : j # i => doc'[j] = doc[j]
  BY <1>1 DEF TypeOK
<1>3. TypeOK'
  BY <1>1 DEF TypeOK
<1>4. Booked'
  <2> SUFFICES ASSUME NEW q \in Parties
               PROVE  ledger'[q] = SumFunctionOnSet(DocPart(q)', Docs) + SumFunctionOnSet(PayPart(q)', Payments)
                                  + SumFunctionOnSet(MovePart(q)', PartyTransfers)
    BY DEF Booked
  <2>1. PayPart(q)' = PayPart(q) /\ MovePart(q)' = MovePart(q)
    BY DEF PayPart, MovePart
  <2>2. \A j \in Docs : /\ DocPart(q)[j] = (IF Owner[j] = q THEN Worth(j, doc[j]) ELSE 0)
                        /\ DocPart(q)'[j] = (IF Owner[j] = q THEN Worth(j, doc'[j]) ELSE 0)
    BY DEF DocPart, Worth
  <2>3. \A j \in Docs, x \in {"NONE", "DRAFT", "POSTED", "REVERSED"} : Worth(j, x) \in Int
    BY DocFacts DEF Worth
  <2>4. \A j \in Docs : DocPart(q)[j] \in Int /\ DocPart(q)'[j] \in Int /\ (j # i => DocPart(q)'[j] = DocPart(q)[j])
    BY <1>2, <2>2, <2>3
  <2> DEFINE f == DocPart(q)
             g == DocPart(q)'
  <2>5. \A j \in Docs : f[j] \in Int /\ g[j] \in Int /\ (j # i => g[j] = f[j])
    BY <2>4
  <2>6. g[i] - f[i] = IF Owner[i] = q THEN Worth(i, s) - Worth(i, doc[i]) ELSE 0
    BY <1>2, <2>2, <2>3
  <2> HIDE DEF f, g
  <2>7. SumFunctionOnSet(g, Docs) = SumFunctionOnSet(f, Docs) + (g[i] - f[i])
    BY <2>5, FiniteAssumption, OneTermChanges
  <2>8. SumFunctionOnSet(f, Docs) \in Int
    BY <2>5, FiniteAssumption, SumPick
  <2>9. /\ \A p \in Payments : PayPart(q)[p] \in Int
        /\ \A t \in PartyTransfers : MovePart(q)[t] \in Int
    BY PaymentFacts, MoneyAssumption DEF PayPart, MovePart, Shift
  <2>10. SumFunctionOnSet(PayPart(q), Payments) \in Int /\ SumFunctionOnSet(MovePart(q), PartyTransfers) \in Int
    BY <2>9, FiniteAssumption, SumPick
  <2>11. ledger[q] = SumFunctionOnSet(f, Docs) + SumFunctionOnSet(PayPart(q), Payments)
                     + SumFunctionOnSet(MovePart(q), PartyTransfers)
    BY <1>1 DEF Booked, f
  <2>12. ledger'[q] = ledger[q] + (g[i] - f[i])
    BY <2>6
  <2>13. g[i] - f[i] \in Int
    BY <2>5
  <2> HIDE DEF FinInv
  <2>14. ledger'[q] = SumFunctionOnSet(g, Docs) + SumFunctionOnSet(PayPart(q), Payments)
                     + SumFunctionOnSet(MovePart(q), PartyTransfers)
    BY <2>7, <2>8, <2>10, <2>11, <2>12, <2>13
  <2> QED
    BY <2>1, <2>14 DEF g
<1>5. i \in Items /\ s = "REVERSED" => Allocated(i) = 0 /\ \A p \in Payments : pay[p] = "POSTED" => rows[p][i] = << >>
  BY NoRows
<1>6. RowsOK'
  <2> SUFFICES ASSUME NEW p \in Payments, NEW j \in Items, rows[p][j] # << >>
               PROVE  /\ pay[p] # "NONE" /\ Kind[j] \in Sides(p) /\ Owner[j] = p.party
                      /\ pay[p] = "POSTED" => doc'[j] = "POSTED"
    BY DEF RowsOK, Sides
  <2>1. /\ pay[p] # "NONE" /\ Kind[j] \in Sides(p) /\ Owner[j] = p.party
        /\ pay[p] = "POSTED" => doc[j] = "POSTED"
    BY <1>1 DEF RowsOK
  <2>2. ASSUME pay[p] = "POSTED" PROVE j # i
    BY <1>5, <2>1, <2>2
  <2> QED
    BY <1>2, <2>1, <2>2, DocSets
<1>7. NothingPaidTwice'
  <2>1. (\A p \in Payments : Used(p)' = Used(p)) /\ \A j \in Items : Allocated(j)' = Allocated(j)
    BY RowsStay
  <2>2. ASSUME NEW j \in Items PROVE Allocated(j) <= Amount[j] - Reversed(j)'
    <3>1. Allocated(j) <= Amount[j] - Reversed(j) /\ Allocated(j) \in Nat /\ Amount[j] \in Nat
      BY <1>1, RowSums, DocFacts, DocSets DEF NothingPaidTwice
    <3>2. CASE j = i
      BY <1>2, <1>5, <3>1, <3>2 DEF Reversed
    <3>3. CASE j # i
      BY <1>2, <3>1, <3>3, DocSets DEF Reversed
    <3> QED
      BY <3>2, <3>3
  <2>3. \A p \in Payments : Used(p) <= p.amount
    BY <1>1 DEF NothingPaidTwice
  <2> QED
    BY <2>1, <2>2, <2>3 DEF NothingPaidTwice
<1>8. PlansOK'
  BY <1>1, PlansStay
<1> QED
  BY <1>3, <1>4, <1>6, <1>7, <1>8 DEF FinInv

\* The commands on documents.
LEMMA DocSteps ==
  ASSUME FinInv, NEW i \in Docs,
         DraftDocument(i) \/ DeleteDraft(i) \/ PostInvoiceTx(i) \/ ReverseInvoiceTx(i)
         \/ PostManualEntry(i) \/ ReverseManualEntry(i)
  PROVE  FinInv'
<1>1. ledger \in [Parties -> Int] /\ Owner[i] \in Parties /\ Sign(i) * Amount[i] \in Int /\ (-Sign(i)) * Amount[i] = -(Sign(i) * Amount[i])
      /\ Amount[i] \in Nat /\ Sign(i) \in Int
  BY DocFacts DEF FinInv, TypeOK
<1>2. ASSUME NEW s \in {"NONE", "DRAFT"}, doc[i] \in {"NONE", "DRAFT"}, doc' = [doc EXCEPT ![i] = s], ledger' = ledger,
             UNCHANGED <<pay, rows, plan, entry, moved, cash, active>>
      PROVE  FinInv'
  <2>1. Worth(i, s) = 0 /\ Worth(i, doc[i]) = 0
    BY <1>2 DEF Worth
  <2>2. \A q \in Parties : ledger'[q] = ledger[q] + (IF Owner[i] = q THEN Worth(i, s) - Worth(i, doc[i]) ELSE 0)
    BY <1>1, <1>2, <2>1
  <2>3. ledger' \in [Parties -> Int] /\ s \in {"NONE", "DRAFT", "POSTED", "REVERSED"} /\ doc[i] # "POSTED" /\ s # "REVERSED"
    BY <1>1, <1>2
  <2> QED
    BY <1>2, <2>2, <2>3, DocMoves
<1>3. ASSUME doc[i] \in {"NONE", "DRAFT"}, doc' = [doc EXCEPT ![i] = "POSTED"], Book(i, Sign(i)),
             UNCHANGED <<pay, rows, plan, entry, moved, cash, active>>
      PROVE  FinInv'
  <2>1. Worth(i, "POSTED") = Sign(i) * Amount[i] /\ Worth(i, doc[i]) = 0
    BY <1>3 DEF Worth
  <2>2. \A q \in Parties : ledger'[q] = ledger[q] + (IF Owner[i] = q THEN Worth(i, "POSTED") - Worth(i, doc[i]) ELSE 0)
    BY <1>1, <1>3, <2>1 DEF Book
  <2>3. ledger' \in [Parties -> Int] /\ doc[i] # "POSTED"
    BY <1>1, <1>3 DEF Book
  <2> QED
    BY <1>3, <2>2, <2>3, DocMoves
<1>4. ASSUME Reversible(i), SetReversed(i)
      PROVE  FinInv'
  <2>1. Worth(i, "REVERSED") = 0 /\ Worth(i, doc[i]) = Sign(i) * Amount[i] /\ doc[i] = "POSTED" /\ doc' = [doc EXCEPT ![i] = "REVERSED"]
    BY <1>4 DEF Worth, Reversible, SetReversed
  <2> DEFINE w == Sign(i) * Amount[i]
  <2>2. ledger' = [ledger EXCEPT ![Owner[i]] = @ + (-w)]
    BY <1>1, <1>4 DEF SetReversed, Book
  <2> HIDE DEF w
  <2>3. w \in Int
    BY <1>1 DEF w
  <2>4. \A q \in Parties : ledger'[q] = ledger[q] + (IF Owner[i] = q THEN 0 - w ELSE 0)
    BY <1>1, <2>2, <2>3
  <2>5. \A q \in Parties : ledger'[q] = ledger[q] + (IF Owner[i] = q THEN Worth(i, "REVERSED") - Worth(i, doc[i]) ELSE 0)
    BY <2>1, <2>4 DEF w
  <2>6. ledger' \in [Parties -> Int]
    BY <1>1, <2>2, <2>3
  <2>7. UNCHANGED <<pay, rows, plan, entry, moved, cash, active>> /\ (i \in Items => Allocated(i) <= 0)
    BY <1>4 DEF SetReversed, Reversible
  <2> QED
    BY <2>1, <2>5, <2>6, <2>7, DocMoves
<1>5. CASE DraftDocument(i)
  BY <1>2, <1>5 DEF DraftDocument
<1>6. CASE DeleteDraft(i)
  BY <1>2, <1>6 DEF DeleteDraft
<1>7. CASE PostInvoiceTx(i)
  BY <1>3, <1>7 DEF PostInvoiceTx
<1>8. CASE ReverseInvoiceTx(i)
  BY <1>4, <1>8 DEF ReverseInvoiceTx
<1>9. CASE PostManualEntry(i)
  BY <1>3, <1>9 DEF PostManualEntry
<1>10. CASE ReverseManualEntry(i)
  BY <1>4, <1>10 DEF ReverseManualEntry
<1> QED
  BY <1>5, <1>6, <1>7, <1>8, <1>9, <1>10

\* What is said of documents and allocations does not depend on money and accounts.
LEMMA BooksStay ==
  ASSUME FinInv, UNCHANGED <<doc, pay, rows, plan>>
  PROVE  RowsOK' /\ NothingPaidTwice' /\ PlansOK'
<1>1. PlansOK'
  BY PlansStay DEF FinInv
<1>2. RowsOK'
  BY DEF FinInv, RowsOK, Sides
<1>3. NothingPaidTwice'
  <2>1. (\A p \in Payments : Used(p)' = Used(p)) /\ \A j \in Items : Allocated(j)' = Allocated(j)
    BY RowsStay
  <2>2. \A j \in Items : Reversed(j)' = Reversed(j)
    BY DEF Reversed
  <2> QED
    BY <2>1, <2>2 DEF FinInv, NothingPaidTwice
<1> QED
  BY <1>1, <1>2, <1>3

\* The sum of the ledger stays with the documents, the payments and the transfers.
LEMMA BookedStays ==
  ASSUME Booked, UNCHANGED <<doc, pay, moved, ledger>>
  PROVE  Booked'
<1>1. \A q \in Parties : DocPart(q)' = DocPart(q) /\ PayPart(q)' = PayPart(q) /\ MovePart(q)' = MovePart(q)
  BY DEF DocPart, PayPart, MovePart
<1> QED
  BY <1>1 DEF Booked

\* Money moves between accounts.
LEMMA CashMoves ==
  ASSUME TypeOK, NEW from, NEW to, NEW n \in Int, MoveCash(from, to, n)
  PROVE  cash' \in [Accounts -> Int]
BY DEF MoveCash, TypeOK

\* The commands on accounts.
LEMMA AccountSteps ==
  ASSUME FinInv,
         \/ \E e \in Entries : PostEntry(e) \/ ReverseFinanceTransfer(e)
         \/ \E a \in Accounts : CreateAccount(a) \/ SetAccountActive(a)
  PROVE  FinInv'
<1>1. UNCHANGED <<doc, pay, rows, plan, moved, ledger>>
  BY DEF PostEntry, ReverseFinanceTransfer, CreateAccount, SetAccountActive
<1>2. TypeOK'
  <2>1. TypeOK
    BY DEF FinInv
  <2>2. ASSUME NEW e \in Entries, PostEntry(e) \/ ReverseFinanceTransfer(e) PROVE TypeOK'
    <3>1. e.amount \in Int
      BY MoneyAssumption
    <3>2. cash' \in [Accounts -> Int]
      BY <2>1, <2>2, <3>1, CashMoves DEF PostEntry, ReverseFinanceTransfer
    <3>3. entry' \in [Entries -> {"NONE", "POSTED", "REVERSED"}] /\ active' = active
      BY <2>1, <2>2 DEF PostEntry, ReverseFinanceTransfer, TypeOK
    <3> QED
      BY <1>1, <2>1, <3>2, <3>3 DEF TypeOK
  <2>3. ASSUME NEW a \in Accounts, CreateAccount(a) \/ SetAccountActive(a) PROVE TypeOK'
    <3>1. active' \in [Accounts -> {"NONE", "OPEN", "CLOSED"}] /\ entry' = entry /\ cash' = cash
      BY <2>1, <2>3 DEF CreateAccount, SetAccountActive, TypeOK
    <3> QED
      BY <1>1, <2>1, <3>1 DEF TypeOK
  <2> QED
    BY <2>2, <2>3
<1>3. Booked'
  BY <1>1, BookedStays DEF FinInv
<1> QED
  BY <1>1, <1>2, <1>3, BooksStay DEF FinInv

\* An amount moves from one party to another.
LEMMA TransferSteps ==
  ASSUME FinInv, NEW t \in PartyTransfers, PostPartyTransfer(t)
  PROVE  FinInv'
<1>1. TypeOK /\ Booked
  BY DEF FinInv
<1>2. /\ t.amount \in Nat /\ t.from \in Parties /\ t.to \in Parties /\ t.from # t.to /\ t \notin moved
      /\ moved' = moved \cup {t} /\ ledger' = [ledger EXCEPT ![t.from] = @ - t.amount, ![t.to] = @ + t.amount]
      /\ UNCHANGED <<doc, pay, rows, plan, entry, cash, active>> /\ ledger \in [Parties -> Int]
  BY <1>1, MoneyAssumption DEF PostPartyTransfer, TypeOK
<1>3. TypeOK'
  BY <1>1, <1>2 DEF TypeOK
<1>4. Booked'
  <2> SUFFICES ASSUME NEW q \in Parties
               PROVE  ledger'[q] = SumFunctionOnSet(DocPart(q)', Docs) + SumFunctionOnSet(PayPart(q)', Payments)
                                  + SumFunctionOnSet(MovePart(q)', PartyTransfers)
    BY DEF Booked
  <2>1. DocPart(q)' = DocPart(q) /\ PayPart(q)' = PayPart(q)
    BY <1>2 DEF DocPart, PayPart
  <2>2. \A u \in PartyTransfers : Shift(u, q) \in Int
    BY MoneyAssumption DEF Shift
  <2> DEFINE f == MovePart(q)
             g == MovePart(q)'
  <2>3. \A u \in PartyTransfers : f[u] = (IF u \in moved THEN Shift(u, q) ELSE 0) /\ g[u] = IF u \in moved' THEN Shift(u, q) ELSE 0
    BY DEF MovePart, Shift
  <2>4. \A u \in PartyTransfers : f[u] \in Int /\ g[u] \in Int /\ (u # t => g[u] = f[u])
    BY <1>2, <2>2, <2>3
  <2>5. g[t] - f[t] = Shift(t, q) /\ Shift(t, q) \in Int
    BY <1>2, <2>2, <2>3
  <2> HIDE DEF f, g
  <2>6. SumFunctionOnSet(g, PartyTransfers) = SumFunctionOnSet(f, PartyTransfers) + (g[t] - f[t])
    BY <2>4, FiniteAssumption, OneTermChanges
  <2>7. ledger'[q] = ledger[q] + Shift(t, q)
    BY <1>2 DEF Shift
  <2>8. SumFunctionOnSet(f, PartyTransfers) \in Int
    BY <2>4, FiniteAssumption, SumPick
  <2>9. /\ \A p \in Payments : PayPart(q)[p] \in Int
        /\ \A i \in Docs : DocPart(q)[i] \in Int
    BY PaymentFacts, DocFacts DEF PayPart, DocPart
  <2>10. SumFunctionOnSet(PayPart(q), Payments) \in Int /\ SumFunctionOnSet(DocPart(q), Docs) \in Int
    BY <2>9, FiniteAssumption, SumPick
  <2>11. ledger[q] = SumFunctionOnSet(DocPart(q), Docs) + SumFunctionOnSet(PayPart(q), Payments)
                     + SumFunctionOnSet(f, PartyTransfers)
    BY <1>1 DEF Booked, f
  <2> HIDE DEF FinInv
  <2>12. ledger'[q] = SumFunctionOnSet(DocPart(q), Docs) + SumFunctionOnSet(PayPart(q), Payments)
                     + SumFunctionOnSet(g, PartyTransfers)
    BY <2>5, <2>6, <2>7, <2>8, <2>10, <2>11
  <2> QED
    BY <2>1, <2>12 DEF g
<1> QED
  BY <1>2, <1>3, <1>4, BooksStay DEF FinInv
-----------------------------------------------------------------------------
(* The steps of payments                                                       *)

\* The rows and the status of one payment change, and what counts of its rows on an
\* item is no more than it was, or fits in what is open.
LEMMA RowsMove ==
  ASSUME FinInv, NEW p \in Payments, NEW s \in {"POSTED", "REVERSED"}, NEW r \in [Items -> Seq(Nat \ {0})],
         pay' = [pay EXCEPT ![p] = s], rows' = [rows EXCEPT ![p] = r], doc' = doc,
         SumFunctionOnSet([i \in Items |-> SumSeq(r[i])], Items) <= p.amount,
         \A i \in Items : r[i] # << >> => /\ Kind[i] \in Sides(p) /\ Owner[i] = p.party
                                          /\ s = "POSTED" => doc[i] = "POSTED",
         NEW n, \A i \in Items : n[i] = IF s = "REVERSED" THEN 0 ELSE SumSeq(r[i]),
         \A i \in Items : n[i] <= Live(p, i) \/ n[i] - Live(p, i) <= Open(i)
  PROVE  RowsOK' /\ NothingPaidTwice' /\ rows' \in [Payments -> [Items -> Seq(Nat \ {0})]]
<1>1. TypeOK /\ RowsOK /\ NothingPaidTwice
  BY DEF FinInv
<1>2. /\ pay'[p] = s /\ \A x \in Payments : x # p => pay'[x] = pay[x]
      /\ rows'[p] = r /\ \A x \in Payments : x # p => rows'[x] = rows[x]
  BY <1>1 DEF TypeOK
<1>3. RowsOK'
  <2> SUFFICES ASSUME NEW x \in Payments, NEW i \in Items, rows'[x][i] # << >>
               PROVE  /\ pay'[x] # "NONE" /\ Kind[i] \in Sides(x) /\ Owner[i] = x.party
                      /\ pay'[x] = "POSTED" => doc[i] = "POSTED"
    BY DEF RowsOK, Sides
  <2>1. CASE x = p
    BY <1>2, <2>1
  <2>2. CASE x # p
    BY <1>1, <1>2, <2>2 DEF RowsOK
  <2> QED
    BY <2>1, <2>2
<1>4. ASSUME NEW x \in Payments PROVE Used(x)' <= x.amount
  <2>1. CASE x = p
    <3>1. Used(x)' = SumFunctionOnSet([i \in Items |-> SumSeq(r[i])], Items)
      BY <1>2, <2>1 DEF Used, Sum
    <3> QED
      BY <2>1, <3>1
  <2>2. CASE x # p
    <3>1. Used(x)' = Used(x)
      BY <1>2, <2>2 DEF Used, Sum
    <3> QED
      BY <1>1, <3>1 DEF NothingPaidTwice
  <2> QED
    BY <2>1, <2>2
<1>5. ASSUME NEW i \in Items PROVE Allocated(i)' <= Amount[i] - Reversed(i)'
  <2> DEFINE f == [x \in Payments |-> Live(x, i)]
             g == [x \in Payments |-> Live(x, i)']
  <2>1. \A x \in Payments : Live(x, i) \in Nat /\ Live(x, i)' = IF x = p THEN n[i] ELSE Live(x, i)
    <3>1. \A x \in Payments : Live(x, i) \in Nat
      BY <1>1, RowSums
    <3>2. Live(p, i)' = n[i]
      BY <1>2 DEF Live
    <3>3. \A x \in Payments : x # p => Live(x, i)' = Live(x, i)
      BY <1>2 DEF Live
    <3> QED
      BY <3>1, <3>2, <3>3
  <2>2. n[i] \in Nat
    BY SumSeqIs
  <2>3. \A x \in Payments : f[x] \in Int /\ g[x] \in Int /\ (x # p => g[x] = f[x])
    BY <2>1, <2>2
  <2>4. f[p] = Live(p, i) /\ g[p] = n[i] /\ Live(p, i) \in Nat
    BY <2>1
  <2>5. Allocated(i) = SumFunctionOnSet(f, Payments) /\ Allocated(i)' = SumFunctionOnSet(g, Payments)
    BY DEF Allocated, Sum
  <2> HIDE DEF f, g
  <2>6. Allocated(i)' = Allocated(i) + (n[i] - Live(p, i))
    BY <2>3, <2>4, <2>5, FiniteAssumption, OneTermChanges
  <2>7. Allocated(i) \in Nat /\ Reversed(i) \in Nat /\ Amount[i] \in Nat /\ Returned(i) \in Nat
        /\ Allocated(i) <= Amount[i] - Reversed(i) /\ Reversed(i)' = Reversed(i)
    BY <1>1, RowSums, OpenIs, DocFacts, DocSets DEF Reversed, NothingPaidTwice
  <2>8. n[i] <= Live(p, i) \/ n[i] - Live(p, i) <= Amount[i] - Reversed(i) - Returned(i) - Allocated(i)
    BY DEF Open
  <2> QED
    BY <2>2, <2>4, <2>6, <2>7, <2>8
<1>6. rows' \in [Payments -> [Items -> Seq(Nat \ {0})]]
  BY <1>1 DEF TypeOK
<1> QED
  BY <1>3, <1>4, <1>5, <1>6 DEF NothingPaidTwice

\* Rows are added to a payment.
LEMMA AddRowsDo ==
  ASSUME FinInv, NEW p \in Payments, NEW a \in [Items -> Nat], pay[p] \in {"NONE", "POSTED"},
         Allocatable(p, a), AddRows(p, a), pay' = [pay EXCEPT ![p] = "POSTED"], doc' = doc
  PROVE  RowsOK' /\ NothingPaidTwice' /\ rows' \in [Payments -> [Items -> Seq(Nat \ {0})]]
<1> DEFINE r == [i \in Items |-> IF a[i] > 0 THEN Append(rows[p][i], a[i]) ELSE rows[p][i]]
           n == [i \in Items |-> SumSeq(r[i])]
           f == [i \in Items |-> SumSeq(rows[p][i])]
<1>1. TypeOK /\ RowsOK
  BY DEF FinInv
<1>2. ASSUME NEW i \in Items
      PROVE  /\ r[i] \in Seq(Nat \ {0}) /\ n[i] = f[i] + a[i] /\ f[i] \in Nat /\ a[i] \in Nat /\ n[i] \in Nat
             /\ f[i] = Live(p, i)
  <2>1. rows[p][i] \in Seq(Nat \ {0}) /\ f[i] \in Nat /\ a[i] \in Nat
    BY <1>1, RowSums
  <2>2. CASE a[i] > 0
    <3>1. a[i] \in Nat \ {0}
      BY <2>1, <2>2
    <3>2. r[i] = Append(rows[p][i], a[i]) /\ r[i] \in Seq(Nat \ {0})
      BY <2>1, <2>2, <3>1
    <3>3. SumSeq(r[i]) = SumSeq(rows[p][i]) + a[i]
      BY <2>1, <3>1, <3>2, SumSeqAppends
    <3> QED
      BY <2>1, <3>2, <3>3 DEF Live
  <2>3. CASE ~ (a[i] > 0)
    <3>1. a[i] = 0 /\ r[i] = rows[p][i]
      BY <2>1, <2>3
    <3> QED
      BY <2>1, <3>1 DEF Live
  <2> QED
    BY <2>2, <2>3
<1>3. r \in [Items -> Seq(Nat \ {0})]
  BY <1>2
<1>4. rows' = [rows EXCEPT ![p] = r]
  BY DEF AddRows
<1>5. SumFunctionOnSet(n, Items) <= p.amount
  <2>1. SumFunctionOnSet(n, Items) = SumFunctionOnSet(f, Items) + SumFunctionOnSet(a, Items)
    <3>1. \A i \in Items : f[i] \in Int /\ a[i] \in Int /\ n[i] = f[i] + a[i]
      BY <1>2
    <3> HIDE DEF f, n, r
    <3> QED
      BY <3>1, DocSets, SumAdds
  <2>2. Used(p) = SumFunctionOnSet(f, Items)
    BY DEF Used, Sum
  <2>3. Sum(LAMBDA i : a[i], Items) = SumFunctionOnSet(a, Items)
    <3>1. [i \in Items |-> a[i]] = a
      OBVIOUS
    <3> QED
      BY <3>1 DEF Sum
  <2> QED
    BY <2>1, <2>2, <2>3 DEF Allocatable
<1>6. ASSUME NEW i \in Items, a[i] > 0
      PROVE  Kind[i] \in Sides(p) /\ Owner[i] = p.party /\ doc[i] = "POSTED" /\ a[i] <= Open(i)
  <2>1. i \in Payable(p) /\ a[i] <= Open(i)
    BY <1>6 DEF Allocatable
  <2>2. Kind[i] \in Sides(p) /\ Owner[i] = p.party /\ doc[i] \in {"POSTED", "REVERSED"}
    BY <2>1 DEF Payable, Posted
  <2>3. Amount[i] \in Nat /\ Returned(i) \in Nat /\ Allocated(i) \in Nat /\ a[i] \in Nat
    BY <1>1, RowSums, OpenIs, DocFacts, DocSets
  <2>4. ~ (doc[i] = "REVERSED")
    BY <1>6, <2>1, <2>3 DEF Open, Reversed
  <2> QED
    BY <2>1, <2>2, <2>4
<1>7. ASSUME NEW i \in Items, r[i] # << >>
      PROVE  Kind[i] \in Sides(p) /\ Owner[i] = p.party /\ doc[i] = "POSTED"
  <2>1. CASE a[i] > 0
    BY <1>6, <2>1
  <2>2. CASE ~ (a[i] > 0)
    <3>1. rows[p][i] # << >>
      BY <1>7, <2>2
    <3> HIDE DEF FinInv
    <3>2. Kind[i] \in Sides(p) /\ Owner[i] = p.party /\ (pay[p] = "POSTED" => doc[i] = "POSTED") /\ pay[p] # "NONE"
      BY <1>1, <3>1 DEF RowsOK
    <3> QED
      BY <3>2
  <2> QED
    BY <2>1, <2>2
<1>8. \A i \in Items : n[i] <= Live(p, i) \/ n[i] - Live(p, i) <= Open(i)
  <2> TAKE i \in Items
  <2>1. n[i] = f[i] + a[i] /\ f[i] \in Nat /\ a[i] \in Nat /\ f[i] = Live(p, i)
    BY <1>2
  <2> HIDE DEF n, f, r
  <2>2. CASE a[i] > 0
    BY <1>6, <2>1, <2>2
  <2>3. CASE ~ (a[i] > 0)
    BY <2>1, <2>3
  <2> QED
    BY <2>2, <2>3
<1>9. \A i \in Items : n[i] = SumSeq(r[i])
  OBVIOUS
<1> HIDE DEF r
<1>10. SumFunctionOnSet([i \in Items |-> SumSeq(r[i])], Items) <= p.amount
  BY <1>5
<1> HIDE DEF n, f
<1>11. \A i \in Items : n[i] = IF "POSTED" = "REVERSED" THEN 0 ELSE SumSeq(r[i])
  BY <1>9
<1> QED
  BY <1>3, <1>4, <1>7, <1>8, <1>10, <1>11, RowsMove

\* A payment is posted or reversed: its party's side and its money.
LEMMA PaymentBooked ==
  ASSUME FinInv, NEW p \in Payments, NEW s, NEW sign,
         \/ pay[p] = "NONE" /\ s = "POSTED" /\ sign = 1
         \/ pay[p] = "POSTED" /\ s = "REVERSED" /\ sign = -1,
         pay' = [pay EXCEPT ![p] = s], BookPayment(p, sign), doc' = doc, moved' = moved
  PROVE  /\ Booked' /\ ledger' \in [Parties -> Int] /\ cash' \in [Accounts -> Int]
         /\ pay' \in [Payments -> {"NONE", "POSTED", "REVERSED"}]
<1> DEFINE m == sign * p.amount
           d == IF p.kind = "COLLECTION" THEN -m ELSE m
<1>1. TypeOK /\ Booked
  BY DEF FinInv
<1>2. m \in Int /\ d \in Int /\ p.amount \in Nat /\ p.party \in Parties
      /\ (s = "POSTED" => m = p.amount) /\ (s = "REVERSED" => m = -p.amount)
  BY PaymentFacts
<1>3. ledger' = [ledger EXCEPT ![p.party] = @ + d]
  <2>1. ledger' = [ledger EXCEPT ![p.party] = IF p.kind = "COLLECTION" THEN @ - m ELSE @ + m]
    BY DEF BookPayment
  <2>2. ledger[p.party] \in Int /\ ledger \in [Parties -> Int]
    BY <1>1, <1>2 DEF TypeOK
  <2> HIDE DEF m
  <2>3. (IF p.kind = "COLLECTION" THEN ledger[p.party] - m ELSE ledger[p.party] + m) = ledger[p.party] + d
    BY <1>2, <2>2
  <2> QED
    BY <2>1, <2>2, <2>3
<1>4. cash' \in [Accounts -> Int]
  BY <1>1, <1>2, CashMoves DEF BookPayment
<1> HIDE DEF d, m
<1>5. ledger' \in [Parties -> Int] /\ \A q \in Parties : ledger'[q] = ledger[q] + (IF p.party = q THEN d ELSE 0) /\ ledger[q] \in Int
  BY <1>1, <1>2, <1>3 DEF TypeOK
<1>6. Booked'
  <2> SUFFICES ASSUME NEW q \in Parties
               PROVE  ledger'[q] = SumFunctionOnSet(DocPart(q)', Docs) + SumFunctionOnSet(PayPart(q)', Payments)
                                  + SumFunctionOnSet(MovePart(q)', PartyTransfers)
    BY DEF Booked
  <2>1. DocPart(q)' = DocPart(q) /\ MovePart(q)' = MovePart(q)
    BY DEF DocPart, MovePart
  <2> DEFINE f == PayPart(q)
             g == PayPart(q)'
             w(x) == IF x.kind = "COLLECTION" THEN -x.amount ELSE x.amount
  <2>2. \A x \in Payments : /\ f[x] = (IF x.party = q /\ pay[x] = "POSTED" THEN w(x) ELSE 0)
                            /\ g[x] = (IF x.party = q /\ pay'[x] = "POSTED" THEN w(x) ELSE 0)
                            /\ w(x) \in Int
    BY PaymentFacts DEF PayPart
  <2>3. pay'[p] = s /\ \A x \in Payments : x # p => pay'[x] = pay[x]
    BY <1>1 DEF TypeOK
  <2>4. d = (IF s = "POSTED" THEN w(p) ELSE -w(p))
    BY <1>2 DEF d
  <2> HIDE DEF f, g, w
  <2>5. \A x \in Payments : f[x] \in Int /\ g[x] \in Int /\ (x # p => g[x] = f[x])
    BY <2>2, <2>3
  <2>6. g[p] - f[p] = IF p.party = q THEN d ELSE 0
    BY <2>2, <2>3, <2>4
  <2>7. SumFunctionOnSet(g, Payments) = SumFunctionOnSet(f, Payments) + (g[p] - f[p])
    BY <2>5, FiniteAssumption, OneTermChanges
  <2>8. SumFunctionOnSet(f, Payments) \in Int /\ g[p] - f[p] \in Int
    <3>1. SumFunctionOnSet(f, Payments) \in Int
      BY <2>5, FiniteAssumption, SumPick
    <3> QED
      BY <2>5, <3>1
  <2>9. /\ \A i \in Docs : DocPart(q)[i] \in Int
        /\ \A t \in PartyTransfers : MovePart(q)[t] \in Int
    BY DocFacts, MoneyAssumption DEF DocPart, MovePart, Shift
  <2>10. SumFunctionOnSet(DocPart(q), Docs) \in Int /\ SumFunctionOnSet(MovePart(q), PartyTransfers) \in Int
    BY <2>9, FiniteAssumption, SumPick
  <2>11. ledger[q] = SumFunctionOnSet(DocPart(q), Docs) + SumFunctionOnSet(f, Payments)
                     + SumFunctionOnSet(MovePart(q), PartyTransfers)
    BY <1>1 DEF Booked, f
  <2>12. ledger'[q] = ledger[q] + (g[p] - f[p])
    BY <1>5, <2>6
  <2> HIDE DEF FinInv
  <2>13. ledger'[q] = SumFunctionOnSet(DocPart(q), Docs) + SumFunctionOnSet(g, Payments)
                     + SumFunctionOnSet(MovePart(q), PartyTransfers)
    BY <2>7, <2>8, <2>10, <2>11, <2>12
  <2> QED
    BY <2>1, <2>13 DEF g
<1>7. pay' \in [Payments -> {"NONE", "POSTED", "REVERSED"}]
  BY <1>1 DEF TypeOK
<1> QED
  BY <1>4, <1>5, <1>6, <1>7

\* A payment with allocations.
LEMMA PostPaymentDoes ==
  ASSUME FinInv, NEW p \in Payments, NEW a \in [Items -> Nat], PostPayment(p, a)
  PROVE  FinInv'
<1>1. /\ pay[p] = "NONE" /\ Allocatable(p, a) /\ AddRows(p, a) /\ BookPayment(p, 1)
      /\ pay' = [pay EXCEPT ![p] = "POSTED"] /\ UNCHANGED <<doc, plan, entry, moved, active>>
  BY DEF PostPayment
<1>2. RowsOK' /\ NothingPaidTwice' /\ rows' \in [Payments -> [Items -> Seq(Nat \ {0})]]
  BY <1>1, AddRowsDo
<1>3. Booked' /\ ledger' \in [Parties -> Int] /\ cash' \in [Accounts -> Int]
      /\ pay' \in [Payments -> {"NONE", "POSTED", "REVERSED"}]
  BY <1>1, PaymentBooked
<1>4. PlansOK'
  BY <1>1, PlansStay DEF FinInv
<1>5. TypeOK'
  BY <1>1, <1>2, <1>3 DEF FinInv, TypeOK
<1> QED
  BY <1>2, <1>3, <1>4, <1>5 DEF FinInv

\* Allocations of a payment that was posted before.
LEMMA AllocateDoes ==
  ASSUME FinInv, NEW p \in Payments, NEW a \in [Items -> Nat], AllocatePayment(p, a)
  PROVE  FinInv'
<1>1. /\ pay[p] = "POSTED" /\ Allocatable(p, a) /\ AddRows(p, a)
      /\ UNCHANGED <<doc, pay, plan, entry, moved, ledger, cash, active>>
  BY DEF AllocatePayment
<1>2. pay' = [pay EXCEPT ![p] = "POSTED"]
  BY <1>1 DEF FinInv, TypeOK
<1>3. RowsOK' /\ NothingPaidTwice' /\ rows' \in [Payments -> [Items -> Seq(Nat \ {0})]]
  BY <1>1, <1>2, AddRowsDo
<1>4. Booked'
  BY <1>1, BookedStays DEF FinInv
<1>5. PlansOK'
  BY <1>1, PlansStay DEF FinInv
<1>6. TypeOK'
  BY <1>1, <1>3 DEF FinInv, TypeOK
<1> QED
  BY <1>3, <1>4, <1>5, <1>6 DEF FinInv

\* An automatic allocation of what is left of a payment is one a request may ask for.
LEMMA AutomaticIs ==
  ASSUME FinInv, NEW p \in Payments
  PROVE  /\ FIFOAllocations(p, p.amount) \in [Items -> Nat]
         /\ p.amount - Used(p) \in Nat /\ FIFOAllocations(p, p.amount - Used(p)) \in [Items -> Nat]
<1>1. TypeOK /\ PlansOK /\ Used(p) <= p.amount
  BY DEF FinInv, NothingPaidTwice
<1>2. p.amount \in Nat /\ Used(p) \in Nat
  BY <1>1, PaymentFacts, RowSums
<1>3. p.amount - Used(p) \in Nat
  BY <1>1, <1>2
<1> QED
  BY <1>1, <1>2, <1>3, FIFOIs

\* Rows are taken back.
LEMMA UnallocateDoes ==
  ASSUME FinInv, NEW p \in Payments, NEW R, UnallocatePayment(p, R)
  PROVE  FinInv'
<1> DEFINE K(i) == {k \in DOMAIN rows[p][i] : <<i, k>> \notin R}
           t(i) == [n \in DOMAIN InOrder(K(i)) |-> rows[p][i][InOrder(K(i))[n]]]
           r == [i \in Items |-> t(i)]
           n == [i \in Items |-> SumSeq(r[i])]
           f == [i \in Items |-> SumSeq(rows[p][i])]
<1>1. TypeOK /\ RowsOK /\ NothingPaidTwice
  BY DEF FinInv
<1>2. pay[p] = "POSTED" /\ rows' = [rows EXCEPT ![p] = r] /\ UNCHANGED <<doc, pay, plan, entry, moved, ledger, cash, active>>
  BY DEF UnallocatePayment
<1>3. ASSUME NEW i \in Items
      PROVE  /\ r[i] \in Seq(Nat \ {0}) /\ SumSeq(r[i]) <= SumSeq(rows[p][i]) /\ (rows[p][i] = << >> => r[i] = << >>)
             /\ SumSeq(r[i]) \in Nat /\ SumSeq(rows[p][i]) \in Nat
  <2>1. rows[p][i] \in Seq(Nat \ {0}) /\ SumSeq(rows[p][i]) \in Nat
    BY <1>1, RowSums
  <2>2. K(i) \in SUBSET DOMAIN rows[p][i]
    OBVIOUS
  <2>3. r[i] = t(i)
    OBVIOUS
  <2> DEFINE KK == K(i)
  <2>4. t(i) = [x \in DOMAIN InOrder(KK) |-> rows[p][i][InOrder(KK)[x]]]
    OBVIOUS
  <2> HIDE DEF r, t, K
  <2>5. t(i) \in Seq(Nat \ {0}) /\ SumSeq(t(i)) <= SumSeq(rows[p][i]) /\ (rows[p][i] = << >> => t(i) = << >>)
    BY <2>1, <2>2, <2>4, RowsLeft
  <2>6. SumSeq(t(i)) \in Nat
    BY <2>5, SumSeqIs
  <2> QED
    BY <2>1, <2>3, <2>5, <2>6
<1>4. r \in [Items -> Seq(Nat \ {0})]
  <2>1. \A i \in Items : r[i] \in Seq(Nat \ {0})
    BY <1>3
  <2>2. r = [i \in Items |-> r[i]]
    OBVIOUS
  <2> HIDE DEF r
  <2> QED
    BY <2>1, <2>2
<1> HIDE DEF r
<1>5. SumFunctionOnSet(n, Items) <= p.amount
  <2>1. \A i \in Items : n[i] \in Int /\ f[i] \in Int /\ n[i] <= f[i]
    BY <1>3
  <2>2. Used(p) = SumFunctionOnSet(f, Items) /\ Used(p) <= p.amount /\ p.amount \in Nat
    BY <1>1, PaymentFacts DEF Used, Sum, NothingPaidTwice
  <2> HIDE DEF n, f
  <2>3. SumFunctionOnSet(n, Items) <= SumFunctionOnSet(f, Items)
    BY <2>1, DocSets, SumOfLess
  <2>4. SumFunctionOnSet(n, Items) \in Int /\ SumFunctionOnSet(f, Items) \in Int
    BY <2>1, DocSets, SumPick
  <2> QED
    BY <2>2, <2>3, <2>4
<1>6. \A i \in Items : r[i] # << >> => Kind[i] \in Sides(p) /\ Owner[i] = p.party /\ doc[i] = "POSTED"
  <2> TAKE i \in Items
  <2> HAVE r[i] # << >>
  <2>1. rows[p][i] # << >>
    BY <1>3
  <2> HIDE DEF FinInv
  <2> QED
    BY <1>1, <1>2, <2>1 DEF RowsOK
<1>7. \A i \in Items : n[i] = SumSeq(r[i]) /\ n[i] <= Live(p, i)
  BY <1>2, <1>3 DEF Live
<1>8. pay' = [pay EXCEPT ![p] = "POSTED"]
  BY <1>1, <1>2 DEF TypeOK
<1>9. SumFunctionOnSet([i \in Items |-> SumSeq(r[i])], Items) <= p.amount
  BY <1>5
<1> HIDE DEF n
<1>10. RowsOK' /\ NothingPaidTwice' /\ rows' \in [Payments -> [Items -> Seq(Nat \ {0})]]
  <2>1. \A i \in Items : n[i] = IF "POSTED" = "REVERSED" THEN 0 ELSE SumSeq(r[i])
    BY <1>7
  <2> QED
    BY <1>2, <1>4, <1>6, <1>7, <1>8, <1>9, <2>1, RowsMove
<1>11. Booked'
  BY <1>2, BookedStays DEF FinInv
<1>12. PlansOK'
  BY <1>2, PlansStay DEF FinInv
<1>13. TypeOK'
  BY <1>1, <1>2, <1>10 DEF TypeOK
<1> QED
  BY <1>10, <1>11, <1>12, <1>13 DEF FinInv

\* A payment is reversed, with its rows.
LEMMA ReversePaymentDoes ==
  ASSUME FinInv, NEW p \in Payments, ReversePayment(p)
  PROVE  FinInv'
<1> DEFINE r == rows[p]
           n == [i \in Items |-> 0]
<1>1. TypeOK /\ RowsOK /\ NothingPaidTwice
  BY DEF FinInv
<1>2. /\ pay[p] = "POSTED" /\ BookPayment(p, -1) /\ pay' = [pay EXCEPT ![p] = "REVERSED"]
      /\ UNCHANGED <<doc, rows, plan, entry, moved, active>>
  BY DEF ReversePayment
<1>3. r \in [Items -> Seq(Nat \ {0})] /\ rows' = [rows EXCEPT ![p] = r]
  BY <1>1, <1>2 DEF TypeOK
<1>4. SumFunctionOnSet([i \in Items |-> SumSeq(r[i])], Items) <= p.amount
  BY <1>1 DEF NothingPaidTwice, Used, Sum
<1>5. \A i \in Items : r[i] # << >> => Kind[i] \in Sides(p) /\ Owner[i] = p.party
  BY <1>1, <1>2 DEF RowsOK
<1>6. \A i \in Items : n[i] = (IF "REVERSED" = "REVERSED" THEN 0 ELSE SumSeq(r[i])) /\ n[i] <= Live(p, i)
  BY <1>1, RowSums
<1> HIDE DEF r, n
<1>7. RowsOK' /\ NothingPaidTwice'
  <2>1. \A i \in Items : n[i] = IF "REVERSED" = "REVERSED" THEN 0 ELSE SumSeq(r[i])
    BY <1>6
  <2> HIDE DEF FinInv
  <2> QED
    BY <1>2, <1>3, <1>4, <1>5, <1>6, <2>1, RowsMove
<1>8. Booked' /\ ledger' \in [Parties -> Int] /\ cash' \in [Accounts -> Int]
      /\ pay' \in [Payments -> {"NONE", "POSTED", "REVERSED"}]
  <2> HIDE DEF FinInv
  <2> QED
    BY <1>2, PaymentBooked
<1>9. PlansOK'
  BY <1>2, PlansStay DEF FinInv
<1>10. TypeOK'
  BY <1>1, <1>2, <1>8 DEF TypeOK
<1> QED
  BY <1>7, <1>8, <1>9, <1>10 DEF FinInv
-----------------------------------------------------------------------------
(* The steps of payment plans                                                  *)

\* What the amounts from x to x + d cover of those from st to st + op.
Covered(st, op, x, d) ==
    NotBelow0((IF st + op <= x + d THEN st + op ELSE x + d) - (IF st >= x THEN st ELSE x))

\* f is what n installments cover of the amounts from st to st + op, and all of them
\* together reach that far.
Covering(n, split, st, op, f) ==
    /\ n \in Nat /\ (\A k \in 1 .. n : split[k] \in Nat) /\ st \in Nat /\ op \in Nat
    /\ st + op <= UpTo(split, n)
    /\ \A k \in 1 .. n : f[k] = Covered(st, op, UpTo(split, k - 1), split[k])

\* The installments take from an item that covers the amounts from st to st + op
\* what they cover of them, which is all of it.
LEMMA SplitAddsUp ==
  ASSUME NEW n, NEW split, NEW st, NEW op, NEW f, Covering(n, split, st, op, f)
  PROVE  (\A k \in 1 .. n : f[k] \in Nat) /\ UpTo(f, n) = op
<1> USE DEF Covering
<1> DEFINE b == [k \in 0 .. n |-> UpTo(split, k)]
           clip(x) == IF x < st THEN st ELSE IF x > st + op THEN st + op ELSE x
           c == [k \in 0 .. n |-> clip(b[k])]
<1>1. \A k \in 0 .. n : b[k] = UpTo(split, k) /\ b[k] \in Nat
  BY UpToGrows
<1>2. b[0] = 0 /\ \A k \in 1 .. n : b[k] = b[k - 1] + split[k] /\ k - 1 \in 0 .. n /\ k \in 0 .. n
  <2>1. UpTo(split, 0) = 0 /\ \A k \in 1 .. n : UpTo(split, k) = UpTo(split, k - 1) + split[k]
    BY UpToIs
  <2>2. 0 \in 0 .. n /\ \A k \in 1 .. n : k - 1 \in 0 .. n /\ k \in 0 .. n
    OBVIOUS
  <2> HIDE DEF b
  <2> QED
    BY <1>1, <2>1, <2>2
<1>3. \A k \in 0 .. n : c[k] = clip(b[k])
  OBVIOUS
<1> HIDE DEF b, c
<1>4. ASSUME NEW k \in 1 .. n PROVE f[k] = c[k] - c[k - 1] /\ f[k] \in Nat
  <2> DEFINE x == b[k - 1]
             y == b[k]
  <2>1. x \in Nat /\ y \in Nat /\ x <= y /\ y = x + split[k] /\ c[k] = clip(y) /\ c[k - 1] = clip(x)
    BY <1>1, <1>2, <1>3
  <2>2. f[k] = Covered(st, op, x, split[k])
    BY <1>1, <1>2
  <2>3. split[k] \in Nat
    OBVIOUS
  <2> HIDE DEF x, y
  <2> QED
    BY <2>1, <2>2, <2>3 DEF NotBelow0, Covered
<1>5. \A k \in 0 .. n : c[k] \in Int
  BY <1>1, <1>3
<1>6. UpTo(f, n) = c[n] - c[0]
  BY <1>4, <1>5, Telescope
<1>7. c[n] = st + op /\ c[0] = st
  BY <1>1, <1>2, <1>3
<1> QED
  BY <1>4, <1>6, <1>7

\* A plan is cancelled.
LEMMA CancelDoes ==
  ASSUME FinInv, NEW q \in Plans, CancelPaymentPlan(q)
  PROVE  FinInv'
<1>1. TypeOK /\ PlansOK /\ Booked
  BY DEF FinInv
<1>2. UNCHANGED <<doc, pay, rows, entry, moved, ledger, cash, active>>
  BY DEF CancelPaymentPlan
<1>3. plan' \in [Plans -> [status: {"NONE", "ACTIVE", "CANCELLED"}, amount: [Items -> Nat], parts: Seq([Items -> Nat])]]
  BY <1>1 DEF TypeOK, CancelPaymentPlan
<1>4. \A r \in Plans : plan'[r].parts = plan[r].parts /\ plan'[r].amount = plan[r].amount
                       /\ (plan'[r].status = "ACTIVE" => plan[r].status = "ACTIVE")
  BY <1>1 DEF TypeOK, CancelPaymentPlan
<1>5. PlansOK'
  <2>1. \A i \in Items : PlansOf(i)' \in SUBSET PlansOf(i)
    BY <1>4 DEF PlansOf
  <2>2. \A r \in Plans, i \in Items : Earlier(r, i, Len(plan[r].parts))' = Earlier(r, i, Len(plan[r].parts))
    BY <1>4 DEF Earlier, Sum
  <2> QED
    BY <1>1, <1>4, <2>1, <2>2 DEF PlansOK
<1>6. TypeOK'
  BY <1>1, <1>2, <1>3 DEF TypeOK
<1>7. RowsOK' /\ NothingPaidTwice'
  <2>1. RowsOK'
    BY <1>2 DEF FinInv, RowsOK, Sides
  <2>2. (\A p \in Payments : Used(p)' = Used(p)) /\ \A j \in Items : Allocated(j)' = Allocated(j)
    BY <1>2, RowsStay
  <2>3. \A j \in Items : Reversed(j)' = Reversed(j)
    BY <1>2 DEF Reversed
  <2> QED
    BY <2>1, <2>2, <2>3 DEF FinInv, NothingPaidTwice
<1> QED
  BY <1>1, <1>2, <1>5, <1>6, <1>7, BookedStays DEF FinInv

\* A plan is made: its installments cover what is open on each of its items.
LEMMA CreateDoes ==
  ASSUME FinInv, NEW q \in Plans, NEW S \in SUBSET Items, CreatePaymentPlan(q, S)
  PROVE  FinInv'
<1> DEFINE open == [i \in Items |-> IF i \in S THEN Remaining(i) ELSE 0]
           start(i) == Sum(LAMBDA j : open[j], {j \in S : Rank[j] < Rank[i]})
<1>1. TypeOK /\ PlansOK /\ Booked
  BY DEF FinInv
<1>2. /\ UNCHANGED <<doc, pay, rows, entry, moved, ledger, cash, active>>
      /\ plan[q].status = "NONE" /\ \A i \in S : PlansOf(i) = {}
  BY DEF CreatePaymentPlan, Plannable
<1> DEFINE before(split, k) == Sum(LAMBDA h : split[h], 1 .. k - 1)
           overlap(split, i, k) == NotBelow0(Min({start(i) + open[i], before(split, k) + split[k]})
                                             - Max({start(i), before(split, k)}))
           row(split, k) == [i \in Items |-> IF i \in S THEN overlap(split, i, k) ELSE 0]
           P(split) == [k \in DOMAIN split |-> row(split, k)]
<1>3. PICK split \in Splits : /\ SumSeq(split) = Sum(LAMBDA i : open[i], S)
                              /\ plan' = [plan EXCEPT ![q] = [status |-> "ACTIVE", amount |-> open, parts |-> P(split)]]
  BY DEF CreatePaymentPlan
<1>4. PICK n \in 1 .. Len(InstallmentDue) : split \in [1 .. n -> Nat] /\ Len(InstallmentDue) \in Nat
  BY MoneyAssumption DEF Splits, Inputs
<1>5. open \in [Items -> Nat]
  BY <1>1, OpenIs
<1> HIDE DEF open
<1>6. IsFiniteSet(S) /\ S \subseteq Items
  BY DocSets, FS_Subset
<1>7. \A k \in 1 .. n : before(split, k) = UpTo(split, k - 1)
  <2> TAKE k \in 1 .. n
  <2> DEFINE g == [h \in 1 .. k - 1 |-> split[h]]
             D == 1 .. k - 1
  <2>1. \A h \in D : split[h] \in Int /\ g[h] = split[h]
    BY <1>4
  <2>2. IsFiniteSet(D)
    BY FS_Interval
  <2>3. before(split, k) = SumFunctionOnSet(g, D)
    BY DEF Sum
  <2> HIDE DEF g, D
  <2>4. SumFunctionOnSet(g, D) = SumFunctionOnSet(split, D)
    BY <2>1, <2>2, SumSame
  <2> QED
    BY <2>3, <2>4 DEF UpTo, D
<1>8. UpTo(split, n) = SumFunctionOnSet(open, S)
  <2>1. DOMAIN split = 1 .. n /\ [k \in 1 .. n |-> split[k]] = split
    BY <1>4
  <2>2. SumSeq(split) = UpTo(split, n)
    BY <2>1 DEF SumSeq, Sum, UpTo
  <2> DEFINE g == [i \in S |-> open[i]]
  <2>3. \A i \in S : open[i] \in Int /\ g[i] = open[i]
    BY <1>5
  <2>4. Sum(LAMBDA i : open[i], S) = SumFunctionOnSet(g, S)
    BY DEF Sum
  <2> HIDE DEF g
  <2>5. SumFunctionOnSet(g, S) = SumFunctionOnSet(open, S)
    BY <1>6, <2>3, SumSame
  <2> QED
    BY <1>3, <2>2, <2>4, <2>5
<1>9. ASSUME NEW i \in S PROVE start(i) \in Nat /\ start(i) + open[i] <= UpTo(split, n)
  <2> DEFINE E == {j \in S : Rank[j] < Rank[i]}
             g == [j \in E |-> open[j]]
             T == S \ {i}
  <2>1. E \in SUBSET T /\ IsFiniteSet(E) /\ IsFiniteSet(T) /\ (\A j \in S : open[j] \in Nat /\ open[j] \in Int)
    <3>1. Rank[i] \in Nat
      BY DocFacts, DocSets
    <3>2. E \in SUBSET T /\ T \in SUBSET S
      BY <3>1
    <3> QED
      BY <1>5, <1>6, <3>2, FS_Subset
  <2>2. \A j \in E : open[j] \in Int /\ g[j] = open[j]
    BY <2>1
  <2>3. start(i) = SumFunctionOnSet(g, E)
    BY DEF Sum
  <2>4. \A j \in T : open[j] \in Nat
    BY <2>1
  <2>5. \A j \in E : open[j] \in Nat
    BY <2>1
  <2>6. T = S \ {i}
    OBVIOUS
  <2> HIDE DEF E, g, T
  <2>7. SumFunctionOnSet(g, E) = SumFunctionOnSet(open, E)
    BY <2>1, <2>2, SumSame
  <2>8. SumFunctionOnSet(open, E) <= SumFunctionOnSet(open, T)
    BY <2>1, <2>4, SumOfSome
  <2>9. SumFunctionOnSet(open, S) = open[i] + SumFunctionOnSet(open, T)
    BY <1>6, <2>1, <2>6, SumPull
  <2>10. SumFunctionOnSet(open, E) \in Nat
    BY <2>1, <2>5, SumOfNaturals
  <2>11. SumFunctionOnSet(open, T) \in Nat
    BY <2>1, <2>4, SumOfNaturals
  <2> QED
    BY <1>8, <2>1, <2>3, <2>7, <2>8, <2>9, <2>10, <2>11
<1> HIDE DEF start
<1>10. ASSUME NEW i \in S
       PROVE  LET f == [k \in 1 .. n |-> overlap(split, i, k)]
              IN  (\A k \in 1 .. n : overlap(split, i, k) \in Nat) /\ UpTo(f, n) = open[i]
  <2> DEFINE f == [k \in 1 .. n |-> overlap(split, i, k)]
  <2>1. ASSUME NEW k \in 1 .. n PROVE f[k] = Covered(start(i), open[i], UpTo(split, k - 1), split[k])
    <3> DEFINE x == UpTo(split, k - 1)
               e == start(i) + open[i]
               y == x + split[k]
    <3>1. x \in Int /\ e \in Int /\ y \in Int /\ start(i) \in Int
      <4>1. \A h \in 1 .. n : split[h] \in Nat
        BY <1>4
      <4>2. k - 1 \in 0 .. n /\ n \in Nat
        OBVIOUS
      <4>3. x \in Nat
        BY <4>1, <4>2, UpToGrows
      <4> QED
        BY <1>4, <1>5, <1>6, <1>9, <4>3
    <3>2. f[k] = NotBelow0(Min({e, y}) - Max({start(i), x}))
      BY <1>7
    <3> HIDE DEF x, e, y, f
    <3>3. Min({e, y}) = (IF e <= y THEN e ELSE y) /\ Max({start(i), x}) = (IF start(i) >= x THEN start(i) ELSE x)
      BY <3>1, MinOfTwo, MaxOfTwo
    <3> QED
      BY <3>2, <3>3 DEF Covered, x, e, y
  <2>2. n \in Nat /\ (\A k \in 1 .. n : split[k] \in Nat) /\ open[i] \in Nat /\ start(i) \in Nat /\ start(i) + open[i] <= UpTo(split, n)
    BY <1>4, <1>5, <1>6, <1>9
  <2>3. \A k \in 1 .. n : f[k] = overlap(split, i, k)
    OBVIOUS
  <2> HIDE DEF f, overlap
  <2> DEFINE st == start(i)
             op == open[i]
  <2>5. \A k \in 1 .. n : f[k] = Covered(st, op, UpTo(split, k - 1), split[k])
    BY <2>1
  <2>6. n \in Nat /\ (\A k \in 1 .. n : split[k] \in Nat) /\ op \in Nat /\ st \in Nat /\ st + op <= UpTo(split, n)
    BY <2>2
  <2> HIDE DEF st, op
  <2>7. Covering(n, split, st, op, f)
    BY <2>5, <2>6 DEF Covering
  <2>4. (\A k \in 1 .. n : f[k] \in Nat) /\ UpTo(f, n) = open[i]
    BY <2>7, SplitAddsUp DEF op
  <2> QED
    BY <2>3, <2>4 DEF f
<1> HIDE DEF overlap, before
<1>11. \A k \in 1 .. n : row(split, k) \in [Items -> Nat]
  BY <1>10
<1> DEFINE Q == P(split)
<1>12. Q \in Seq([Items -> Nat]) /\ Len(Q) = n /\ n \in Nat /\ DOMAIN Q = 1 .. n
       /\ \A k \in 1 .. n : Q[k] = row(split, k)
  <2>1. DOMAIN split = 1 .. n /\ n \in Nat
    BY <1>4
  <2>2. Q = [k \in 1 .. n |-> row(split, k)]
    BY <2>1
  <2>3. Q \in [1 .. n -> [Items -> Nat]] /\ \A k \in 1 .. n : Q[k] = row(split, k)
    BY <1>11, <2>2
  <2> HIDE DEF Q, row
  <2> QED
    BY <2>1, <2>3
<1>13. plan' = [plan EXCEPT ![q] = [status |-> "ACTIVE", amount |-> open, parts |-> Q]]
  BY <1>3
<1> HIDE DEF Q
<1>14. /\ plan'[q] = [status |-> "ACTIVE", amount |-> open, parts |-> Q]
       /\ \A r \in Plans : r # q => plan'[r] = plan[r]
       /\ plan' \in [Plans -> [status: {"NONE", "ACTIVE", "CANCELLED"}, amount: [Items -> Nat], parts: Seq([Items -> Nat])]]
  BY <1>1, <1>5, <1>12, <1>13 DEF TypeOK
<1>15. ASSUME NEW i \in Items PROVE Earlier(q, i, Len(plan[q].parts))' = open[i]
  <2> DEFINE g == [h \in 1 .. n |-> Q[h][i]]
  <2>1. Earlier(q, i, Len(plan[q].parts))' = UpTo(g, n)
    <3>1. plan'[q].parts = Q /\ Len(plan'[q].parts) = n
      BY <1>12, <1>14
    <3>2. Earlier(q, i, Len(plan[q].parts))' = SumFunctionOnSet([h \in 1 .. Len(plan'[q].parts) |-> plan'[q].parts[h][i]], 1 .. Len(plan'[q].parts))
      BY DEF Earlier, Sum
    <3>3. Earlier(q, i, Len(plan[q].parts))' = SumFunctionOnSet([h \in 1 .. n |-> Q[h][i]], 1 .. n)
      BY <3>1, <3>2
    <3> QED
      BY <3>3 DEF UpTo
  <2>2. CASE i \in S
    <3>1. \A h \in 1 .. n : Q[h][i] = overlap(split, i, h)
      BY <1>12, <2>2
    <3>2. g = [h \in 1 .. n |-> overlap(split, i, h)]
      BY <3>1
    <3> QED
      BY <1>10, <2>1, <2>2, <3>2
  <2>3. CASE i \notin S
    <3>1. \A h \in 1 .. n : g[h] = 0
      BY <1>12, <2>3
    <3>2. IsFiniteSet(1 .. n)
      BY <1>12, FS_Interval
    <3> HIDE DEF g
    <3>3. UpTo(g, n) = 0
      BY <3>1, <3>2, SumZero DEF UpTo
    <3>4. open[i] = 0
      BY <2>3 DEF open
    <3> QED
      BY <2>1, <3>3, <3>4
  <2> QED
    BY <2>2, <2>3
<1>16. PlansOK'
  <2>1. ASSUME NEW r \in Plans
        PROVE  /\ Len(plan'[r].parts) <= Len(InstallmentDue)
               /\ \A i \in Items : Earlier(r, i, Len(plan[r].parts))' = plan'[r].amount[i]
    <3>1. CASE r = q
      BY <1>4, <1>12, <1>14, <1>15, <3>1
    <3>2. CASE r # q
      <4>1. \A i \in Items : Earlier(r, i, Len(plan[r].parts))' = Earlier(r, i, Len(plan[r].parts))
        BY <1>14, <3>2 DEF Earlier, Sum
      <4> QED
        BY <1>1, <1>14, <3>2, <4>1 DEF PlansOK
    <3> QED
      BY <3>1, <3>2
  <2>2. ASSUME NEW i \in Items PROVE \A u, v \in PlansOf(i)' : u = v
    <3>1. CASE i \in S
      <4>1. \A r \in PlansOf(i)' : r = q
        <5>1. \A r \in Plans : r # q => (r \in PlansOf(i)' <=> r \in PlansOf(i))
          BY <1>14 DEF PlansOf
        <5> QED
          BY <1>2, <3>1, <5>1 DEF PlansOf
      <4> QED
        BY <4>1
    <3>2. CASE i \notin S
      <4>1. open[i] = 0
        BY <3>2 DEF open
      <4>2. \A r \in Plans : r # q => (r \in PlansOf(i)' <=> r \in PlansOf(i))
        BY <1>14 DEF PlansOf
      <4>3. q \notin PlansOf(i)'
        <5>1. plan'[q].amount[i] = 0
          BY <1>14, <4>1
        <5> QED
          BY <5>1 DEF PlansOf
      <4>4. \A r \in PlansOf(i)' : r \in Plans
        BY DEF PlansOf
      <4> QED
        BY <1>1, <4>2, <4>3, <4>4 DEF PlansOK
    <3> QED
      BY <3>1, <3>2
  <2> QED
    BY <2>1, <2>2 DEF PlansOK
<1>17. TypeOK'
  BY <1>1, <1>2, <1>14 DEF TypeOK
<1>18. RowsOK' /\ NothingPaidTwice'
  <2>1. RowsOK'
    BY <1>2 DEF FinInv, RowsOK, Sides
  <2>2. (\A p \in Payments : Used(p)' = Used(p)) /\ \A j \in Items : Allocated(j)' = Allocated(j)
    BY <1>2, RowsStay
  <2>3. \A j \in Items : Reversed(j)' = Reversed(j)
    BY <1>2 DEF Reversed
  <2> QED
    BY <2>1, <2>2, <2>3 DEF FinInv, NothingPaidTwice
<1>19. Booked'
  BY <1>1, <1>2, BookedStays
<1> QED
  BY <1>16, <1>17, <1>18, <1>19 DEF FinInv
-----------------------------------------------------------------------------
(* The theorems                                                                *)

LEMMA Preserved == FinInv /\ [Next]_vars => FinInv'
<1> SUFFICES ASSUME FinInv, [Next]_vars PROVE FinInv'
  OBVIOUS
<1>1. CASE UNCHANGED vars
  <2>1. UNCHANGED <<doc, pay, rows, plan, entry, moved, ledger, cash, active>>
    BY <1>1 DEF vars
  <2>2. TypeOK'
    BY <2>1 DEF FinInv, TypeOK
  <2>3. Booked'
    BY <2>1, BookedStays DEF FinInv
  <2> QED
    BY <2>1, <2>2, <2>3, BooksStay DEF FinInv
<1>2. ASSUME NEW i \in Docs,
             DraftDocument(i) \/ DeleteDraft(i) \/ PostInvoiceTx(i) \/ ReverseInvoiceTx(i)
             \/ PostManualEntry(i) \/ ReverseManualEntry(i)
      PROVE  FinInv'
  BY <1>2, DocSteps
<1>3. ASSUME NEW p \in Payments, NEW a \in Allocations,
             PostPayment(p, a) \/ AllocatePayment(p, a)
             \/ \E q \in Plans, k \in DOMAIN InstallmentDue : PayInstallment(p, q, k, a)
      PROVE  FinInv'
  <2>1. a \in [Items -> Nat]
    BY MoneyAssumption DEF Allocations, Inputs
  <2>2. PostPayment(p, a) \/ AllocatePayment(p, a)
    BY <1>3 DEF PayInstallment
  <2> QED
    BY <2>1, <2>2, PostPaymentDoes, AllocateDoes
<1>4. ASSUME NEW p \in Payments, AutoAllocate(p) \/ AllocatePaymentFIFO(p) PROVE FinInv'
  BY <1>4, AutomaticIs, PostPaymentDoes, AllocateDoes DEF AutoAllocate, AllocatePaymentFIFO
<1>5. ASSUME NEW p \in Payments, ReversePayment(p) PROVE FinInv'
  BY <1>5, ReversePaymentDoes
<1>6. ASSUME NEW p \in Payments, NEW R, UnallocatePayment(p, R) PROVE FinInv'
  BY <1>6, UnallocateDoes
<1>7. ASSUME NEW q \in Plans, CancelPaymentPlan(q) PROVE FinInv'
  BY <1>7, CancelDoes
<1>8. ASSUME NEW q \in Plans, NEW S \in SUBSET Items, CreatePaymentPlan(q, S) PROVE FinInv'
  BY <1>8, CreateDoes
<1>9. ASSUME NEW t \in PartyTransfers, PostPartyTransfer(t) PROVE FinInv'
  BY <1>9, TransferSteps
<1>10. CASE \/ \E e \in Entries : PostEntry(e) \/ ReverseFinanceTransfer(e)
            \/ \E a \in Accounts : CreateAccount(a) \/ SetAccountActive(a)
  BY <1>10, AccountSteps
<1> QED
  BY <1>1, <1>2, <1>3, <1>4, <1>5, <1>6, <1>7, <1>8, <1>9, <1>10 DEF Next

LEMMA BooksHold == Spec => []FinInv
BY Initially, Preserved, PTL DEF Spec

\* What is said of a party's open items and of its ledger is the same.
LEMMA BalanceFollows == FinInv => BalanceIsExplained
<1> SUFFICES ASSUME FinInv, NEW q \in Parties
             PROVE  ledger[q] =
                        Sum(LAMBDA i : Sign(i) * (Amount[i] - Allocated(i)), {i \in Items : Owner[i] = q /\ doc[i] = "POSTED"})
                        + Sum(LAMBDA r : Sign(r) * Amount[r], {r \in Returns : Owner[r] = q /\ doc[r] = "POSTED"})
                        + Sum(LAMBDA p : IF p.kind = "COLLECTION" THEN -Unapplied(p) ELSE Unapplied(p), {p \in Payments : p.party = q})
                        + Sum(LAMBDA t : (IF t.to = q THEN t.amount ELSE 0) - (IF t.from = q THEN t.amount ELSE 0), moved)
  BY DEF BalanceIsExplained
<1>1. TypeOK /\ Booked /\ RowsOK /\ NothingPaidTwice
  BY DEF FinInv
<1> HIDE DEF FinInv
<1> DEFINE side(p) == IF p.kind = "COLLECTION" THEN 1 ELSE -1
           m == [p \in Payments |-> [i \in Items |-> IF p.party = q THEN side(p) * Live(p, i) ELSE 0]]
           row == [p \in Payments |-> IF p.party = q THEN side(p) * SumFunctionOnSet([i \in Items |-> Live(p, i)], Items) ELSE 0]
           col == [i \in Items |-> IF Owner[i] = q /\ doc[i] = "POSTED" THEN Sign(i) * Allocated(i) ELSE 0]
           IS == {i \in Items : Owner[i] = q /\ doc[i] = "POSTED"}
           RS == {r \in Returns : Owner[r] = q /\ doc[r] = "POSTED"}
           PS == {p \in Payments : p.party = q}
\* What counts of the rows of a payment is on posted items of its party, on its side.
<1>2. ASSUME NEW p \in Payments, NEW i \in Items
      PROVE  /\ Live(p, i) \in Nat /\ Allocated(i) \in Nat
             /\ Live(p, i) # 0 => pay[p] = "POSTED" /\ doc[i] = "POSTED" /\ Owner[i] = p.party /\ Sign(i) = side(p)
  <2>1. Live(p, i) \in Nat /\ Allocated(i) \in Nat /\ rows[p][i] \in Seq(Nat \ {0}) /\ pay[p] \in {"NONE", "POSTED", "REVERSED"}
    BY <1>1, RowSums DEF TypeOK
  <2>2. ASSUME Live(p, i) # 0 PROVE pay[p] = "POSTED" /\ doc[i] = "POSTED" /\ Owner[i] = p.party /\ Kind[i] \in Sides(p)
    <3>1. rows[p][i] # << >> /\ pay[p] # "REVERSED"
      BY <2>1, <2>2, SumSeqIs DEF Live
    <3>2. /\ pay[p] # "NONE" /\ Kind[i] \in Sides(p) /\ Owner[i] = p.party
          /\ pay[p] = "POSTED" => doc[i] = "POSTED"
      BY <1>1, <3>1 DEF RowsOK
    <3> QED
      BY <2>1, <3>1, <3>2
  <2>3. Kind[i] \in Sides(p) => Sign(i) = side(p)
    BY PaymentFacts DEF Sides, Sign
  <2> QED
    BY <2>1, <2>2, <2>3
<1>3. \A p \in Payments : side(p) \in Int /\ (side(p) = 1 \/ side(p) = -1)
  OBVIOUS
<1>4. ASSUME NEW p \in Payments, NEW i \in Items PROVE m[p][i] = (IF p.party = q THEN side(p) * Live(p, i) ELSE 0) /\ m[p][i] \in Int
  BY <1>2
<1>5. ASSUME NEW p \in Payments
      PROVE  row[p] = SumFunctionOnSet(m[p], Items) /\ row[p] \in Int
  <2> DEFINE f == [i \in Items |-> Live(p, i)]
             g == m[p]
  <2>1. \A i \in Items : f[i] \in Nat /\ f[i] \in Int /\ f[i] = Live(p, i)
    BY <1>2
  <2>2. SumFunctionOnSet(f, Items) \in Nat
    <3> HIDE DEF f
    <3> QED
      BY <2>1, DocSets, SumOfNaturals
  <2>3. row[p] = IF p.party = q THEN side(p) * SumFunctionOnSet(f, Items) ELSE 0
    OBVIOUS
  <2>4. \A i \in Items : g[i] = IF p.party = q THEN side(p) * f[i] ELSE 0
    BY <1>4
  <2> HIDE DEF f, g, row, m
  <2>5. CASE p.party # q
    <3>1. \A i \in Items : g[i] = 0
      BY <2>4, <2>5
    <3>2. SumFunctionOnSet(g, Items) = 0
      BY <3>1, DocSets, SumZero
    <3> QED
      BY <2>3, <2>5, <3>2 DEF g
  <2>6. CASE p.party = q /\ side(p) = 1
    <3>1. \A i \in Items : f[i] \in Int /\ g[i] = f[i]
      BY <2>1, <2>4, <2>6
    <3>2. SumFunctionOnSet(g, Items) = SumFunctionOnSet(f, Items)
      BY <3>1, DocSets, SumSame
    <3> QED
      BY <2>2, <2>3, <2>6, <3>2 DEF g
  <2>7. CASE p.party = q /\ side(p) = -1
    <3>1. \A i \in Items : f[i] \in Int /\ g[i] = -f[i]
      BY <2>1, <2>4, <2>7
    <3>2. SumFunctionOnSet(g, Items) = -SumFunctionOnSet(f, Items)
      BY <3>1, DocSets, SumNegates
    <3> QED
      BY <2>2, <2>3, <2>7, <3>2 DEF g
  <2> QED
    BY <1>3, <2>5, <2>6, <2>7
<1>6. ASSUME NEW i \in Items
      PROVE  col[i] = SumFunctionOnSet([p \in Payments |-> m[p][i]], Payments) /\ col[i] \in Int
  <2> DEFINE f == [p \in Payments |-> Live(p, i)]
             g == [p \in Payments |-> m[p][i]]
             u == IF Owner[i] = q /\ doc[i] = "POSTED" THEN Sign(i) ELSE 0
  <2>1. \A p \in Payments : f[p] \in Nat /\ f[p] \in Int /\ f[p] = Live(p, i)
    BY <1>2
  <2>2. Allocated(i) = SumFunctionOnSet(f, Payments)
    BY DEF Allocated, Sum
  <2>3. SumFunctionOnSet(f, Payments) \in Nat
    <3> HIDE DEF f
    <3> QED
      BY <2>1, FiniteAssumption, SumOfNaturals
  <2>4. u \in {0, 1, -1}
    BY DocFacts, DocSets
  <2>5. \A p \in Payments : g[p] = IF u = 0 THEN 0 ELSE IF u = 1 THEN f[p] ELSE 0 - f[p]
    <3> TAKE p \in Payments
    <3>1. g[p] = (IF p.party = q THEN side(p) * f[p] ELSE 0) /\ f[p] \in Nat
      BY <1>4, <2>1
    <3>2. f[p] # 0 => doc[i] = "POSTED" /\ Owner[i] = p.party /\ Sign(i) = side(p)
      BY <1>2, <2>1
    <3>3. Sign(i) \in {1, -1}
      BY DocFacts, DocSets
    <3> HIDE DEF g, f, m
    <3>4. CASE f[p] = 0
      <4>1. side(p) * f[p] = 0
        BY <1>3, <3>4
      <4> HIDE DEF u, side
      <4>2. g[p] = 0
        BY <3>1, <4>1
      <4>3. 0 - f[p] = 0
        BY <3>4
      <4> QED
        BY <3>4, <4>2, <4>3
    <3>5. CASE f[p] # 0
      BY <1>3, <3>1, <3>2, <3>3, <3>5
    <3> QED
      BY <3>4, <3>5
  <2>6. col[i] = IF u = 0 THEN 0 ELSE IF u = 1 THEN SumFunctionOnSet(f, Payments) ELSE -SumFunctionOnSet(f, Payments)
    <3>1. col[i] = IF Owner[i] = q /\ doc[i] = "POSTED" THEN Sign(i) * Allocated(i) ELSE 0
      OBVIOUS
    <3>2. Sign(i) \in {1, -1} /\ Allocated(i) \in Nat
      BY <2>2, <2>3, DocFacts, DocSets
    <3> HIDE DEF col, f
    <3> QED
      BY <2>2, <3>1, <3>2
  <2> HIDE DEF f, g, u, m, col
  <2>7. CASE u = 0
    <3>1. \A p \in Payments : g[p] = 0
      BY <2>5, <2>7
    <3>2. SumFunctionOnSet(g, Payments) = 0
      BY <3>1, FiniteAssumption, SumZero
    <3> QED
      BY <2>6, <2>7, <3>2 DEF g
  <2>8. CASE u = 1
    <3>1. \A p \in Payments : f[p] \in Int /\ g[p] = f[p]
      BY <2>1, <2>5, <2>8
    <3>2. SumFunctionOnSet(g, Payments) = SumFunctionOnSet(f, Payments)
      BY <3>1, FiniteAssumption, SumSame
    <3> QED
      BY <2>3, <2>6, <2>8, <3>2 DEF g
  <2>9. CASE u = -1
    <3>1. \A p \in Payments : f[p] \in Int /\ g[p] = -f[p]
      BY <2>1, <2>5, <2>9
    <3>2. SumFunctionOnSet(g, Payments) = -SumFunctionOnSet(f, Payments)
      BY <3>1, FiniteAssumption, SumNegates
    <3> QED
      BY <2>3, <2>6, <2>9, <3>2 DEF g
  <2> QED
    BY <2>4, <2>7, <2>8, <2>9
<1>7. SumFunctionOnSet(row, Payments) = SumFunctionOnSet(col, Items)
      /\ SumFunctionOnSet(row, Payments) \in Int
  <2>1. (\A p \in Payments : \A i \in Items : m[p][i] \in Int) /\ (\A p \in Payments : row[p] = SumFunctionOnSet(m[p], Items))
    BY <1>4, <1>5
  <2> DEFINE w == [i \in Items |-> [p \in Payments |-> m[p][i]]]
  <2>2. (\A i \in Items : col[i] = SumFunctionOnSet(w[i], Payments)) /\ \A i \in Items, p \in Payments : w[i][p] = m[p][i]
    BY <1>6
  <2>3. \A p \in Payments : row[p] \in Int
    BY <1>5
  <2> HIDE DEF m, row, col, w
  <2>4. SumFunctionOnSet(row, Payments) = SumFunctionOnSet(col, Items)
    <3>1. Table(Payments, Items, m, row, w, col)
      BY <2>1, <2>2, DocSets, FiniteAssumption DEF Table
    <3> QED
      BY <3>1, SumSwap
  <2>5. SumFunctionOnSet(row, Payments) \in Int
    BY <2>3, FiniteAssumption, SumPick
  <2> QED
    BY <2>4, <2>5
\* The four terms of the balance.
<1>8. DocPart(q) \in [Docs -> Int] /\ PayPart(q) \in [Payments -> Int] /\ MovePart(q) \in [PartyTransfers -> Int]
  <2>1. DocPart(q) \in [Docs -> Int]
    BY DocFacts DEF DocPart
  <2>2. PayPart(q) \in [Payments -> Int]
    BY PaymentFacts DEF PayPart
  <2>3. MovePart(q) \in [PartyTransfers -> Int]
    BY MoneyAssumption DEF MovePart, Shift
  <2> QED
    BY <2>1, <2>2, <2>3
<1>9. Sum(LAMBDA i : Sign(i) * (Amount[i] - Allocated(i)), IS) = SumFunctionOnSet(DocPart(q), Items) - SumFunctionOnSet(col, Items)
  <2> DEFINE f == [i \in IS |-> Sign(i) * (Amount[i] - Allocated(i))]
             d == DocPart(q)
             e == [i \in Items |-> IF i \in IS THEN Sign(i) * (Amount[i] - Allocated(i)) ELSE 0]
  <2>1. \A i \in Items : Sign(i) \in {1, -1} /\ Amount[i] \in Nat /\ Allocated(i) \in Nat /\ i \in Docs
    BY <1>1, RowSums, DocFacts, DocSets
  <2>2. \A i \in Items : e[i] = (IF i \in IS THEN Sign(i) * (Amount[i] - Allocated(i)) ELSE 0) /\ e[i] \in Int
    BY <2>1
  <2>3. \A i \in Items : d[i] = (IF i \in IS THEN Sign(i) * Amount[i] ELSE 0) /\ d[i] \in Int
    BY <1>8, <2>1 DEF DocPart
  <2>4. \A i \in Items : col[i] = (IF i \in IS THEN Sign(i) * Allocated(i) ELSE 0) /\ col[i] \in Int
    BY <1>6
  <2>5. IS \in SUBSET Items /\ \A i \in IS : f[i] = e[i] /\ e[i] \in Int
    BY <2>2
  <2>6. Sum(LAMBDA i : Sign(i) * (Amount[i] - Allocated(i)), IS) = SumFunctionOnSet(f, IS)
    BY DEF Sum
  <2> HIDE DEF f, d, e, col, IS
  <2>7. \A i \in Items : d[i] = e[i] + col[i]
    <3> TAKE i \in Items
    <3>1. CASE i \in IS
      <4>1. Sign(i) * Amount[i] = Sign(i) * (Amount[i] - Allocated(i)) + Sign(i) * Allocated(i)
        BY <2>1
      <4> QED
        BY <2>2, <2>3, <2>4, <3>1, <4>1
    <3>2. CASE i \notin IS
      BY <2>2, <2>3, <2>4, <3>2
    <3> QED
      BY <3>1, <3>2
  <2>8. SumFunctionOnSet(f, IS) = SumFunctionOnSet(e, IS)
    <3>1. IsFiniteSet(IS)
      BY <2>5, DocSets, FS_Subset
    <3> QED
      BY <2>5, <3>1, SumSame
  <2>9. SumFunctionOnSet(e, Items) = SumFunctionOnSet(e, IS)
    <3>1. \A i \in Items : e[i] \in Int /\ e[i] = IF i \in IS THEN e[i] ELSE 0
      BY <2>2
    <3> QED
      BY <2>5, <3>1, DocSets, SumPart
  <2>10. SumFunctionOnSet(d, Items) = SumFunctionOnSet(e, Items) + SumFunctionOnSet(col, Items)
    BY <2>2, <2>4, <2>7, DocSets, SumAdds
  <2>11. SumFunctionOnSet(e, Items) \in Int /\ SumFunctionOnSet(col, Items) \in Int
    BY <2>2, <2>4, DocSets, SumPick
  <2>12. SumFunctionOnSet(f, IS) = SumFunctionOnSet(d, Items) - SumFunctionOnSet(col, Items)
    BY <2>8, <2>9, <2>10, <2>11
  <2> QED
    BY <2>6, <2>12 DEF d
<1>10. Sum(LAMBDA r : Sign(r) * Amount[r], RS) = SumFunctionOnSet(DocPart(q), Returns)
  <2> DEFINE f == [r \in RS |-> Sign(r) * Amount[r]]
             d == DocPart(q)
  <2>1. RS \in SUBSET Returns /\ IsFiniteSet(RS)
    BY DocSets, FS_Subset
  <2>2. \A r \in Returns : d[r] \in Int /\ d[r] = IF r \in RS THEN d[r] ELSE 0
    BY <1>8, DocSets DEF DocPart
  <2>3. \A r \in RS : d[r] \in Int /\ f[r] = d[r]
    BY <1>8, DocSets DEF DocPart
  <2>4. Sum(LAMBDA r : Sign(r) * Amount[r], RS) = SumFunctionOnSet(f, RS)
    BY DEF Sum
  <2> HIDE DEF f, d, RS
  <2>5. SumFunctionOnSet(f, RS) = SumFunctionOnSet(d, RS)
    BY <2>1, <2>3, SumSame
  <2>6. SumFunctionOnSet(d, Returns) = SumFunctionOnSet(d, RS)
    BY <2>1, <2>2, DocSets, SumPart
  <2> QED
    BY <2>4, <2>5, <2>6 DEF d
<1>11. Sum(LAMBDA p : IF p.kind = "COLLECTION" THEN -Unapplied(p) ELSE Unapplied(p), PS)
         = SumFunctionOnSet(PayPart(q), Payments) + SumFunctionOnSet(row, Payments)
  <2> DEFINE f == [p \in PS |-> IF p.kind = "COLLECTION" THEN -Unapplied(p) ELSE Unapplied(p)]
             d == PayPart(q)
             e == [p \in Payments |-> IF p \in PS THEN (IF p.kind = "COLLECTION" THEN -Unapplied(p) ELSE Unapplied(p)) ELSE 0]
  <2>1. ASSUME NEW p \in Payments PROVE e[p] = d[p] + row[p] /\ e[p] \in Int /\ d[p] \in Int /\ row[p] \in Int
    <3> DEFINE g == [i \in Items |-> Live(p, i)]
               L == SumFunctionOnSet(g, Items)
    <3>1. L \in Nat
      <4>1. \A i \in Items : g[i] \in Nat
        BY <1>2
      <4> HIDE DEF g
      <4> QED
        BY <4>1, DocSets, SumOfNaturals
    <3>2. pay[p] # "POSTED" => L = 0
      <4>1. SUFFICES ASSUME pay[p] # "POSTED" PROVE L = 0
        OBVIOUS
      <4>2. \A i \in Items : g[i] = 0
        BY <1>2, <4>1
      <4> HIDE DEF g
      <4> QED
        BY <4>2, DocSets, SumZero
    <3>3. Unapplied(p) = IF pay[p] = "POSTED" THEN p.amount - L ELSE 0
      BY DEF Unapplied, Sum
    <3>4. row[p] = IF p.party = q THEN side(p) * L ELSE 0
      OBVIOUS
    <3>5. d[p] = IF p.party = q /\ pay[p] = "POSTED" THEN IF p.kind = "COLLECTION" THEN -p.amount ELSE p.amount ELSE 0
      BY DEF PayPart
    <3>6. e[p] = IF p.party = q THEN (IF p.kind = "COLLECTION" THEN -Unapplied(p) ELSE Unapplied(p)) ELSE 0
      OBVIOUS
    <3>7. p.amount \in Nat /\ side(p) = IF p.kind = "COLLECTION" THEN 1 ELSE -1
      BY PaymentFacts
    <3> HIDE DEF L, row, d, e, side
    <3>8. Unapplied(p) \in Int
      BY <3>1, <3>3, <3>7
    <3>9. CASE p.party # q
      BY <3>4, <3>5, <3>6, <3>9
    <3>10. CASE p.party = q /\ p.kind = "COLLECTION"
      <4>1. side(p) * L = L
        BY <3>1, <3>7, <3>10
      <4> QED
        BY <3>1, <3>2, <3>3, <3>4, <3>5, <3>6, <3>7, <3>10, <4>1
    <3>11. CASE p.party = q /\ p.kind # "COLLECTION"
      <4>1. side(p) * L = -L
        BY <3>1, <3>7, <3>11
      <4> QED
        BY <3>1, <3>2, <3>3, <3>4, <3>5, <3>6, <3>7, <3>11, <4>1
    <3> QED
      BY <3>9, <3>10, <3>11
  <2>2. PS \in SUBSET Payments /\ IsFiniteSet(PS)
    BY FiniteAssumption, FS_Subset
  <2>3. (\A p \in PS : e[p] \in Int /\ f[p] = e[p]) /\ \A p \in Payments : e[p] \in Int /\ e[p] = IF p \in PS THEN e[p] ELSE 0
    BY <2>1
  <2>4. Sum(LAMBDA p : IF p.kind = "COLLECTION" THEN -Unapplied(p) ELSE Unapplied(p), PS) = SumFunctionOnSet(f, PS)
    BY DEF Sum
  <2> HIDE DEF f, d, e, PS, row
  <2>5. SumFunctionOnSet(f, PS) = SumFunctionOnSet(e, PS)
    BY <2>2, <2>3, SumSame
  <2>6. SumFunctionOnSet(e, Payments) = SumFunctionOnSet(e, PS)
    BY <2>2, <2>3, FiniteAssumption, SumPart
  <2>7. SumFunctionOnSet(e, Payments) = SumFunctionOnSet(d, Payments) + SumFunctionOnSet(row, Payments)
    BY <2>1, FiniteAssumption, SumAdds
  <2> QED
    BY <2>4, <2>5, <2>6, <2>7 DEF d
<1>12. Sum(LAMBDA t : (IF t.to = q THEN t.amount ELSE 0) - (IF t.from = q THEN t.amount ELSE 0), moved)
         = SumFunctionOnSet(MovePart(q), PartyTransfers)
  <2> DEFINE f == [t \in moved |-> (IF t.to = q THEN t.amount ELSE 0) - (IF t.from = q THEN t.amount ELSE 0)]
             d == MovePart(q)
  <2>1. moved \in SUBSET PartyTransfers /\ IsFiniteSet(moved)
    BY <1>1, FiniteAssumption, FS_Subset DEF TypeOK
  <2>2. \A t \in PartyTransfers : d[t] \in Int /\ d[t] = IF t \in moved THEN d[t] ELSE 0
    BY <1>8 DEF MovePart
  <2>3. \A t \in moved : d[t] \in Int /\ f[t] = d[t]
    BY <1>8, <2>1 DEF MovePart, Shift
  <2>4. Sum(LAMBDA t : (IF t.to = q THEN t.amount ELSE 0) - (IF t.from = q THEN t.amount ELSE 0), moved) = SumFunctionOnSet(f, moved)
    BY DEF Sum
  <2> HIDE DEF f, d
  <2>5. SumFunctionOnSet(f, moved) = SumFunctionOnSet(d, moved)
    BY <2>1, <2>3, SumSame
  <2>6. SumFunctionOnSet(d, PartyTransfers) = SumFunctionOnSet(d, moved)
    BY <2>1, <2>2, FiniteAssumption, SumPart
  <2> QED
    BY <2>4, <2>5, <2>6 DEF d
<1>13. /\ SumFunctionOnSet(DocPart(q), Docs) = SumFunctionOnSet(DocPart(q), Items) + SumFunctionOnSet(DocPart(q), Returns)
       /\ SumFunctionOnSet(DocPart(q), Items) \in Int /\ SumFunctionOnSet(DocPart(q), Returns) \in Int
       /\ SumFunctionOnSet(PayPart(q), Payments) \in Int /\ SumFunctionOnSet(MovePart(q), PartyTransfers) \in Int
  <2> DEFINE d == DocPart(q)
  <2>1. \A i \in Docs : d[i] \in Int
    BY <1>8
  <2>2. (\A i \in Items : d[i] \in Int) /\ (\A i \in Returns : d[i] \in Int) /\ \A i \in Items \cup Returns : d[i] \in Int
    BY <2>1, DocSets
  <2> HIDE DEF d
  <2>3. SumFunctionOnSet(d, Items \cup Returns) = SumFunctionOnSet(d, Items) + SumFunctionOnSet(d, Returns)
    BY <2>2, DocSets, SumUnion
  <2>4. SumFunctionOnSet(d, Items) \in Int /\ SumFunctionOnSet(d, Returns) \in Int
    BY <2>2, DocSets, SumPick
  <2>5. (\A p \in Payments : PayPart(q)[p] \in Int) /\ \A t \in PartyTransfers : MovePart(q)[t] \in Int
    BY <1>8
  <2>6. SumFunctionOnSet(PayPart(q), Payments) \in Int /\ SumFunctionOnSet(MovePart(q), PartyTransfers) \in Int
    BY <2>5, FiniteAssumption, SumPick
  <2> QED
    BY <2>3, <2>4, <2>6, DocSets DEF d
<1>14. ledger[q] = SumFunctionOnSet(DocPart(q), Docs) + SumFunctionOnSet(PayPart(q), Payments)
                   + SumFunctionOnSet(MovePart(q), PartyTransfers)
  BY <1>1 DEF Booked
<1> DEFINE T1 == Sum(LAMBDA i : Sign(i) * (Amount[i] - Allocated(i)), IS)
           T2 == Sum(LAMBDA r : Sign(r) * Amount[r], RS)
           T3 == Sum(LAMBDA p : IF p.kind = "COLLECTION" THEN -Unapplied(p) ELSE Unapplied(p), PS)
           T4 == Sum(LAMBDA t : (IF t.to = q THEN t.amount ELSE 0) - (IF t.from = q THEN t.amount ELSE 0), moved)
<1>15. /\ T1 = SumFunctionOnSet(DocPart(q), Items) - SumFunctionOnSet(col, Items)
       /\ T2 = SumFunctionOnSet(DocPart(q), Returns)
       /\ T3 = SumFunctionOnSet(PayPart(q), Payments) + SumFunctionOnSet(row, Payments)
       /\ T4 = SumFunctionOnSet(MovePart(q), PartyTransfers)
  BY <1>9, <1>10, <1>11, <1>12
<1> HIDE DEF row, col, T1, T2, T3, T4
<1>16. ledger[q] = T1 + T2 + T3 + T4
  BY <1>7, <1>13, <1>14, <1>15
<1> QED
  BY <1>16 DEF T1, T2, T3, T4

LEMMA DuesFollow == FinInv => DuesAreExact
<1> SUFFICES ASSUME FinInv PROVE DuesAreExact
  OBVIOUS
<1>1. TypeOK /\ PlansOK /\ NothingPaidTwice
  BY DEF FinInv
<1>2. ReadersAgree
  BY <1>1, ReadersDo
<1>3. AutomaticFits
  <2> SUFFICES ASSUME NEW p \in Payments
               PROVE  LET left == p.amount - Used(p)
                          a == FIFOAllocations(p, left)
                      IN  /\ \A i \in Items : a[i] > 0 => i \in Payable(p) /\ a[i] <= Open(i)
                          /\ Sum(LAMBDA i : a[i], Items) = Min({left, Sum(LAMBDA i : Remaining(i), Payable(p))})
    BY DEF AutomaticFits
  <2>1. p.amount - Used(p) \in Nat
    BY AutomaticIs
  <2> QED
    BY <1>1, <2>1, FIFOIs
<1> QED
  BY <1>1, <1>2, <1>3 DEF DuesAreExact

\* The ledger of a party is at all times what its documents, its payments and their
\* allocations say (party_ledger_entries against finance_payment_allocations), for
\* any documents, payments, plans and order of commands.
THEOREM BalanceStaysExplained == Spec => []BalanceIsExplained
BY BooksHold, BalanceFollows, PTL

\* Nothing is paid twice, the due dates of an item add up to what its page shows and
\* to what may still be paid on it, and an automatic allocation is accepted and
\* takes all it can (applyAllocationsTx, finance_scheduled_dues,
\* fifoOpenItemAllocationsTx), for any documents, payments, plans and order of
\* commands.
THEOREM DuesStayExact == Spec => []DuesAreExact
BY BooksHold, DuesFollow, PTL
=============================================================================
