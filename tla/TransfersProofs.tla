---------------------------- MODULE TransfersProofs ----------------------------
(***************************************************************************)
(* For every set of lines, transfers, products and warehouses: no command  *)
(* creates or loses stock, what is reserved is what planned transfers      *)
(* hold, what is in transit is what shipped transfers have not yet         *)
(* accounted for, and a shipped transfer can always be cancelled.          *)
(*                                                                         *)
(* The properties are sums over lines or places, the commands add sums     *)
(* over the lines of one transfer.  Both are written as sums over all      *)
(* lines in which the lines that are not meant count nothing (the masks);  *)
(* then a command changes a sum by a mask of its own, and the lemmas of    *)
(* SumTheorems give the rest.  Standing holds whatever a receipt says;     *)
(* Counted, which ties each line on its way to its moves, holds as long as *)
(* a receipt does not repeat an equal entry (EqualEntries).                *)
(***************************************************************************)
EXTENDS Transfers, SumTheorems, TLAPS

Planned == {"NONE", "DRAFT", "REQUESTED", "APPROVED"}
Reserving == {"REQUESTED", "APPROVED"}
OnTheWay == {"IN_TRANSIT", "PARTIALLY_RECEIVED"}

\* The sums of the invariants and of the actions, taken over all lines: a line that is
\* not meant counts nothing.
LoadMask(t, q, p) == [l \in Lines |-> IF TransferOf[l] = t /\ ProductOf[l] = p THEN q[l] ELSE 0]
RestOf(n) ==
    LET rest == n.shipped - n.received - n.resolved IN IF rest <= 0 THEN 0 ELSE rest
RestMask(st, ln, p) ==
    [l \in Lines |-> IF st[TransferOf[l]] \in OnTheWay /\ ProductOf[l] = p THEN RestOf(ln[l]) ELSE 0]
WasteMask(mv, p) == [l \in Lines |-> IF ProductOf[l] = p THEN mv[l].wasted ELSE 0]
HeldMask(st, ln, hd, w, p) ==
    [l \in Lines |-> IF /\ FromPlace[TransferOf[l]] = w /\ ProductOf[l] = p
                        /\ hd[l] = "ACTIVE" /\ st[TransferOf[l]] \in Reserving
                     THEN ln[l].quantity ELSE 0]
Stock(ph, p) == SumFunctionOnSet([w \in Places |-> ph[w][p]], Places)

TransitForm(st, ln, ph) ==
    \A p \in Products : ph[Transit][p] = SumFunctionOnSet(RestMask(st, ln, p), Lines)
StockForm(ph, mv, out) ==
    \A p \in Products :
        Stock(ph, p) + SumFunctionOnSet(WasteMask(mv, p), Lines)
          = SumFunctionOnSet(Opening, Warehouses) + out[p]
HeldForm(st, ln, hd, rs) ==
    \A w \in Warehouses, p \in Products : rs[w][p] = SumFunctionOnSet(HeldMask(st, ln, hd, w, p), Lines)

\* A transfer that is planned has moved nothing, and holds stock from its request on.
LineStands(st, n, m, h) ==
    /\ st \in Planned => /\ n.shipped = 0 /\ n.received = 0 /\ n.damaged = 0 /\ n.resolved = 0
                         /\ m.out = 0 /\ m.entered = 0 /\ m.left = 0 /\ m.wasted = 0 /\ m.arrived = 0
    /\ h = "ACTIVE" <=> st \in Reserving
    /\ st \in {"NONE", "DRAFT"} => h = "none"

\* A line on the way was shipped whole, and what left transit is what was received
\* or decided.
LineIsCounted(st, n, m) ==
    st \in OnTheWay =>
        /\ n.shipped = n.quantity /\ m.out = n.shipped /\ m.entered = n.shipped
        /\ m.left = m.arrived
        /\ m.left + m.wasted = n.received + n.resolved
        /\ n.received + n.resolved <= n.shipped

LinesStand == \A l \in Lines : LineStands(state[TransferOf[l]], line[l], moved[l], hold[l])
LinesAreCounted == \A l \in Lines : LineIsCounted(state[TransferOf[l]], line[l], moved[l])

Standing ==
    /\ TransfersTypeOK /\ LinesStand
    /\ StockForm(physical, moved, outside) /\ HeldForm(state, line, hold, reserved)
Counted == Standing /\ LinesAreCounted /\ TransitForm(state, line, physical)
-----------------------------------------------------------------------------
\* What the assumptions say of lines, places and routes.
LEMMA RoutesAre ==
  /\ IsFiniteSet(Lines) /\ IsFiniteSet(Places)
  /\ Transit \in Places /\ Transit \notin Warehouses /\ Warehouses \subseteq Places
  /\ \A l \in Lines : TransferOf[l] \in Transfers /\ ProductOf[l] \in Products
  /\ \A t \in Transfers : /\ FromPlace[t] \in Warehouses /\ ToPlace[t] \in Warehouses
                          /\ FromPlace[t] # ToPlace[t]
<1>1. IsFiniteSet(Places)
  BY FiniteAssumption, FS_AddElement DEF Places
<1> QED
  BY <1>1, FiniteAssumption, RouteAssumption DEF Places

\* The quantities a command may name are natural numbers.
LEMMA AmountsAreNatural == \A a \in Amounts : a \in Nat
<1> SUFFICES ASSUME NEW a \in Amounts PROVE a \in Nat
  OBVIOUS
<1> DEFINE top == Max({MaxQuantity[l] : l \in Lines})
<1>1. a \in 0..top
  BY DEF Amounts
<1> HIDE DEF top
<1> QED
  BY <1>1

\* The larger of two integers.
LEMMA MaxOfTwo ==
  ASSUME NEW a \in Int, NEW b \in Int
  PROVE  Max({a, b}) \in Int /\ a <= Max({a, b}) /\ b <= Max({a, b})
<1>1. \E x \in {a, b} : \A y \in {a, b} : x >= y
  <2>1. CASE a >= b
    BY <2>1
  <2>2. CASE b >= a
    BY <2>2
  <2> QED
    BY <2>1, <2>2
<1>2. Max({a, b}) \in {a, b} /\ \A y \in {a, b} : Max({a, b}) >= y
  BY <1>1 DEF Max
<1> QED
  BY <1>2

\* What a transfer loads of a product, as a sum over all lines.
LEMMA LoadIs ==
  ASSUME NEW t, NEW q, NEW p, \A l \in LinesOf(t) : q[l] \in Int
  PROVE  /\ Load(t, q, p) = SumFunctionOnSet(LoadMask(t, q, p), Lines)
         /\ Load(t, q, p) \in Int
         /\ \A l \in Lines : LoadMask(t, q, p)[l] \in Int
<1> DEFINE A == {l \in LinesOf(t) : ProductOf[l] = p}
           f == [l \in Lines |-> IF l \in A THEN q[l] ELSE 0]
<1>1. A \in SUBSET Lines /\ IsFiniteSet(Lines)
  BY RoutesAre DEF LinesOf
<1>2. f = LoadMask(t, q, p)
  BY DEF LoadMask, LinesOf
<1>3. \A x \in Lines : f[x] \in Int /\ f[x] = (IF x \in A THEN f[x] ELSE 0)
  BY DEF LinesOf
<1>4. SumFunctionOnSet(f, Lines) \in Int
  <2> HIDE DEF f
  <2> QED
    BY <1>1, <1>3, SumPick
<1>5. SumFunctionOnSet(f, Lines) = SumFunctionOnSet(f, A)
  <2> HIDE DEF f, A
  <2> QED
    BY <1>1, <1>3, SumPart
<1>6. SumFunctionOnSet(q, A) = SumFunctionOnSet(f, A)
  <2>1. IsFiniteSet(A)
    BY <1>1, FS_Subset
  <2>2. \A x \in A : f[x] \in Int /\ q[x] = f[x]
    BY <1>1
  <2> HIDE DEF f, A
  <2> QED
    BY <2>1, <2>2, SumSame
<1>7. Load(t, q, p) = SumFunctionOnSet(q, A)
  BY DEF Load
<1> HIDE DEF f, A
<1> QED
  BY <1>2, <1>3, <1>4, <1>5, <1>6, <1>7

\* ... which is natural when the quantities are.
LEMMA LoadIsNatural ==
  ASSUME NEW t, NEW q, NEW p, \A l \in LinesOf(t) : q[l] \in Nat
  PROVE  Load(t, q, p) \in Nat
<1>1. \A l \in Lines : LoadMask(t, q, p)[l] \in Nat
  BY DEF LoadMask, LinesOf
<1>2. SumFunctionOnSet(LoadMask(t, q, p), Lines) \in Nat
  BY <1>1, RoutesAre, SumOfNaturals
<1> QED
  BY <1>2, LoadIs

\* What a line alone carries.
OnlyOne(t, l, n) == [k \in LinesOf(t) |-> IF k = l THEN n ELSE 0]
\* The load of one line alone is its quantity.
LEMMA LoadOfOne ==
  ASSUME NEW t, NEW l \in LinesOf(t), NEW n \in Int, NEW p
  PROVE  Load(t, OnlyOne(t, l, n), p) = IF ProductOf[l] = p THEN n ELSE 0
<1> DEFINE only == OnlyOne(t, l, n)
           f == LoadMask(t, only, p)
<1>0. l \in Lines /\ TransferOf[l] = t
  BY DEF LinesOf
<1>1. f[l] = (IF ProductOf[l] = p THEN n ELSE 0) /\ \A k \in Lines : k # l => f[k] = 0
  BY <1>0 DEF LoadMask, LinesOf, OnlyOne
<1>2. \A k \in LinesOf(t) : only[k] \in Int
  BY DEF OnlyOne
<1>3. Load(t, only, p) = SumFunctionOnSet(f, Lines)
  <2> HIDE DEF only
  <2> QED
    BY <1>2, LoadIs DEF f
<1>4. f[l] \in Int
  BY <1>1
<1> HIDE DEF f
<1>5. SumFunctionOnSet(f, Lines) = f[l]
  BY <1>0, <1>1, <1>4, RoutesAre, SumSingle
<1> QED
  BY <1>1, <1>3, <1>5

\* Carrying keeps the stock of all places together.
LEMMA CarryKeepsStock ==
  ASSUME NEW from \in Places, NEW to \in Places, NEW t, NEW q, \A l \in LinesOf(t) : q[l] \in Int,
         physical \in [Places -> [Products -> Nat]], NEW p \in Products
  PROVE  Stock(Carry(from, to, t, q), p) = Stock(physical, p) /\ Stock(physical, p) \in Int
<1> DEFINE n == Load(t, q, p)
           old == [w \in Places |-> physical[w][p]]
           new == [w \in Places |-> Carry(from, to, t, q)[w][p]]
           in == [w \in Places |-> IF w = to THEN n ELSE 0]
           away == [w \in Places |-> IF w = from THEN n ELSE 0]
           half == [w \in Places |-> old[w] + in[w]]
<1>1. n \in Int
  BY LoadIs
<1>2. \A w \in Places : Carry(from, to, t, q)[w][p] = physical[w][p] + (IF w = to THEN n ELSE 0) - (IF w = from THEN n ELSE 0)
  BY DEF Carry
<1> HIDE DEF n
<1>3. \A w \in Places : /\ old[w] \in Int /\ in[w] \in Int /\ away[w] \in Int /\ new[w] \in Int /\ half[w] \in Int
                        /\ half[w] = old[w] + in[w] /\ half[w] = new[w] + away[w]
  BY <1>1, <1>2
<1>4. in[to] = n /\ away[from] = n /\ \A w \in Places : (w # to => in[w] = 0) /\ (w # from => away[w] = 0)
  OBVIOUS
<1>5. Stock(physical, p) = SumFunctionOnSet(old, Places) /\ Stock(Carry(from, to, t, q), p) = SumFunctionOnSet(new, Places)
  BY DEF Stock
<1> HIDE DEF old, new, in, away, half
<1>6. IsFiniteSet(Places)
  BY RoutesAre
<1>7. SumFunctionOnSet(half, Places) = SumFunctionOnSet(old, Places) + SumFunctionOnSet(in, Places)
  BY <1>3, <1>6, SumAdds
<1>8. SumFunctionOnSet(half, Places) = SumFunctionOnSet(new, Places) + SumFunctionOnSet(away, Places)
  BY <1>3, <1>6, SumAdds
<1>9. SumFunctionOnSet(in, Places) = n /\ SumFunctionOnSet(away, Places) = n
  BY <1>1, <1>4, <1>6, SumSingle
<1>10. SumFunctionOnSet(old, Places) \in Int /\ SumFunctionOnSet(new, Places) \in Int
  BY <1>3, <1>6, SumPick
<1> QED
  BY <1>1, <1>5, <1>7, <1>8, <1>9, <1>10
-----------------------------------------------------------------------------
\* The masks are integers on every line.
LEMMA MasksAre ==
  ASSUME NEW st, NEW ln \in [Lines -> LineType], NEW mv \in [Lines -> MovedType], NEW hd, NEW w, NEW p
  PROVE  /\ \A l \in Lines : /\ RestMask(st, ln, p)[l] \in Nat /\ WasteMask(mv, p)[l] \in Nat
                             /\ HeldMask(st, ln, hd, w, p)[l] \in Nat
         /\ SumFunctionOnSet(RestMask(st, ln, p), Lines) \in Nat
         /\ SumFunctionOnSet(WasteMask(mv, p), Lines) \in Nat
         /\ SumFunctionOnSet(HeldMask(st, ln, hd, w, p), Lines) \in Nat
<1>1. ASSUME NEW l \in Lines
      PROVE  /\ RestMask(st, ln, p)[l] \in Nat /\ WasteMask(mv, p)[l] \in Nat
             /\ HeldMask(st, ln, hd, w, p)[l] \in Nat
  <2>1. ln[l] \in LineType /\ mv[l] \in MovedType
    OBVIOUS
  <2>2. /\ ln[l].quantity \in Nat /\ ln[l].shipped \in Nat /\ ln[l].received \in Nat /\ ln[l].resolved \in Nat
        /\ mv[l].wasted \in Nat
    BY <2>1 DEF LineType, MovedType
  <2>3. RestOf(ln[l]) \in Nat
    BY <2>2 DEF RestOf
  <2> QED
    BY <2>2, <2>3 DEF RestMask, WasteMask, HeldMask
<1> QED
  BY <1>1, RoutesAre, SumOfNaturals

\* The invariants of the run, in the form the proof works with.
LEMMA FormsAre ==
  ASSUME TransfersTypeOK
  PROVE  /\ StockForm(physical, moved, outside) => StockConserved
         /\ HeldForm(state, line, hold, reserved) => ReservationsAreHeld
         /\ TransitForm(state, line, physical) => TransitIsOutstanding
<1>1. line \in [Lines -> LineType] /\ moved \in [Lines -> MovedType]
  BY DEF TransfersTypeOK
<1>2. IsFiniteSet(Lines)
  BY RoutesAre
<1>3. ASSUME NEW p \in Products
      PROVE  SumFunctionOnSet([l \in Lines |-> moved[l].wasted], {l \in Lines : ProductOf[l] = p})
               = SumFunctionOnSet(WasteMask(moved, p), Lines)
  <2> DEFINE f == [l \in Lines |-> moved[l].wasted]
             A == {l \in Lines : ProductOf[l] = p}
             g == WasteMask(moved, p)
  <2>1. \A l \in Lines : f[l] \in Int /\ g[l] = IF l \in A THEN f[l] ELSE 0
    <3> SUFFICES ASSUME NEW l \in Lines PROVE f[l] \in Int /\ g[l] = IF l \in A THEN f[l] ELSE 0
      OBVIOUS
    <3>1. moved[l] \in MovedType
      BY <1>1
    <3> QED
      BY <3>1 DEF WasteMask, MovedType
  <2>2. A \in SUBSET Lines
    OBVIOUS
  <2> HIDE DEF f, g, A
  <2>3. SumFunctionOnSet(g, Lines) = SumFunctionOnSet(f, A)
    BY <1>2, <2>1, <2>2, SumPart
  <2> QED
    BY <2>3 DEF f, g, A
<1>4. ASSUME NEW w \in Warehouses, NEW p \in Products
      PROVE  SumFunctionOnSet([l \in Lines |-> line[l].quantity],
                {l \in Lines : /\ FromPlace[TransferOf[l]] = w /\ ProductOf[l] = p
                               /\ hold[l] = "ACTIVE"
                               /\ state[TransferOf[l]] \in {"REQUESTED", "APPROVED"}})
               = SumFunctionOnSet(HeldMask(state, line, hold, w, p), Lines)
  <2> DEFINE f == [l \in Lines |-> line[l].quantity]
             A == {l \in Lines : /\ FromPlace[TransferOf[l]] = w /\ ProductOf[l] = p
                                 /\ hold[l] = "ACTIVE"
                                 /\ state[TransferOf[l]] \in {"REQUESTED", "APPROVED"}}
             g == HeldMask(state, line, hold, w, p)
  <2>1. \A l \in Lines : f[l] \in Int /\ g[l] = IF l \in A THEN f[l] ELSE 0
    <3> SUFFICES ASSUME NEW l \in Lines PROVE f[l] \in Int /\ g[l] = IF l \in A THEN f[l] ELSE 0
      OBVIOUS
    <3>1. line[l] \in LineType
      BY <1>1
    <3> QED
      BY <3>1 DEF HeldMask, LineType, Reserving
  <2>2. A \in SUBSET Lines
    OBVIOUS
  <2> HIDE DEF f, g, A
  <2>3. SumFunctionOnSet(g, Lines) = SumFunctionOnSet(f, A)
    BY <1>2, <2>1, <2>2, SumPart
  <2> QED
    BY <2>3 DEF f, g, A
<1>5. ASSUME NEW p \in Products
      PROVE  SumFunctionOnSet([l \in Lines |-> Outstanding(l)], {l \in Lines : Open(TransferOf[l]) /\ ProductOf[l] = p})
               = SumFunctionOnSet(RestMask(state, line, p), Lines)
  <2> DEFINE f == [l \in Lines |-> Outstanding(l)]
             A == {l \in Lines : Open(TransferOf[l]) /\ ProductOf[l] = p}
             g == RestMask(state, line, p)
  <2>1. \A l \in Lines : f[l] \in Int /\ g[l] = IF l \in A THEN f[l] ELSE 0
    <3> SUFFICES ASSUME NEW l \in Lines PROVE f[l] \in Int /\ g[l] = IF l \in A THEN f[l] ELSE 0
      OBVIOUS
    <3>1. line[l] \in LineType
      BY <1>1
    <3> QED
      BY <3>1 DEF RestMask, RestOf, Outstanding, Open, OnTheWay, LineType
  <2>2. A \in SUBSET Lines
    OBVIOUS
  <2> HIDE DEF f, g, A
  <2>3. SumFunctionOnSet(g, Lines) = SumFunctionOnSet(f, A)
    BY <1>2, <2>1, <2>2, SumPart
  <2> QED
    BY <2>3 DEF f, g, A
<1>6. StockForm(physical, moved, outside) => StockConserved
  BY <1>3 DEF StockForm, StockConserved, Stock
<1>7. HeldForm(state, line, hold, reserved) => ReservationsAreHeld
  BY <1>4 DEF HeldForm, ReservationsAreHeld
<1>8. TransitForm(state, line, physical) => TransitIsOutstanding
  BY <1>5 DEF TransitForm, TransitIsOutstanding
<1> QED
  BY <1>6, <1>7, <1>8

\* An empty company satisfies the invariants.
LEMMA InitStands == TransfersInit => Counted
<1> SUFFICES ASSUME TransfersInit PROVE Counted
  OBVIOUS
<1>1. PICK q \in [Lines -> Amounts] :
        /\ \A l \in Lines : q[l] \in 1..MaxQuantity[l]
        /\ line = [l \in Lines |-> [quantity |-> q[l], shipped |-> 0, received |-> 0,
                                     damaged |-> 0, resolved |-> 0]]
  BY DEF TransfersInit
<1>2. state \in [Transfers -> {"NONE", "DRAFT"}]
  BY DEF TransfersInit
<1>3. line \in [Lines -> LineType] /\ \A l \in Lines : /\ line[l].shipped = 0 /\ line[l].received = 0
                                                      /\ line[l].damaged = 0 /\ line[l].resolved = 0
  <2>1. \A l \in Lines : q[l] \in Nat
    BY <1>1, BoundsAssumption
  <2> QED
    BY <1>1, <2>1 DEF LineType
<1>4. /\ moved \in [Lines -> MovedType]
      /\ \A l \in Lines : /\ moved[l].out = 0 /\ moved[l].entered = 0 /\ moved[l].left = 0
                          /\ moved[l].wasted = 0 /\ moved[l].arrived = 0
  BY DEF TransfersInit, MovedType
<1>5. \A w \in Places, p \in Products : physical[w][p] = IF w = Transit THEN 0 ELSE Opening[w]
  BY DEF TransfersInit
<1>6. \A w \in Places : w # Transit => w \in Warehouses /\ Opening[w] \in Nat
  BY OpeningAssumption DEF Places
<1>7. TransfersTypeOK
  <2>1. state \in [Transfers -> States]
    BY <1>2 DEF States
  <2>2. physical \in [Places -> [Products -> Nat]]
    BY <1>6 DEF TransfersInit
  <2>3. hold \in [Lines -> {"none", "ACTIVE", "CONSUMED", "RELEASED"}]
    BY DEF TransfersInit
  <2>4. reserved \in [Warehouses -> [Products -> Nat]] /\ outside \in [Products -> Int]
    BY DEF TransfersInit
  <2>5. \A l \in Lines : /\ line[l].received + line[l].damaged <= line[l].shipped
                         /\ line[l].shipped <= line[l].quantity
    <3> SUFFICES ASSUME NEW l \in Lines
                 PROVE  /\ line[l].received + line[l].damaged <= line[l].shipped
                        /\ line[l].shipped <= line[l].quantity
      OBVIOUS
    <3>1. line[l].quantity \in Nat
      BY <1>3 DEF LineType
    <3> QED
      BY <1>3, <3>1
  <2>6. bars \subseteq Barriers
    BY DEF TransfersInit
  <2> QED
    BY <1>3, <1>4, <2>1, <2>2, <2>3, <2>4, <2>5, <2>6 DEF TransfersTypeOK
<1>8. \A l \in Lines : state[TransferOf[l]] \in {"NONE", "DRAFT"} /\ hold[l] = "none"
  BY <1>2, RoutesAre DEF TransfersInit
<1>9. LinesStand /\ LinesAreCounted
  BY <1>3, <1>4, <1>8 DEF LinesStand, LinesAreCounted, LineStands, LineIsCounted, OnTheWay, Reserving, Planned
<1>10. StockForm(physical, moved, outside)
  <2> SUFFICES ASSUME NEW p \in Products
               PROVE  Stock(physical, p) + SumFunctionOnSet(WasteMask(moved, p), Lines)
                        = SumFunctionOnSet(Opening, Warehouses) + outside[p]
    BY DEF StockForm
  <2> DEFINE g == [w \in Places |-> physical[w][p]]
  <2>1. \A l \in Lines : WasteMask(moved, p)[l] = 0
    BY <1>4 DEF WasteMask
  <2>2. SumFunctionOnSet(WasteMask(moved, p), Lines) = 0
    BY <2>1, RoutesAre, SumZero
  <2>3. SumFunctionOnSet(g, Places) = SumFunctionOnSet(Opening, Warehouses)
    <3> DEFINE f == [w \in Places |-> IF w = Transit THEN 0 ELSE Opening[w]]
    <3>1. \A w \in Places : f[w] \in Int /\ g[w] = IF w \in Warehouses THEN f[w] ELSE 0
      BY <1>5, <1>6, RoutesAre
    <3>2. \A w \in Warehouses : f[w] \in Int /\ Opening[w] = f[w]
      BY OpeningAssumption, RoutesAre DEF Places
    <3> HIDE DEF f, g
    <3>3. SumFunctionOnSet(g, Places) = SumFunctionOnSet(f, Warehouses)
      BY <3>1, RoutesAre, SumPart
    <3>4. SumFunctionOnSet(Opening, Warehouses) = SumFunctionOnSet(f, Warehouses)
      BY <3>2, FiniteAssumption, SumSame
    <3> QED
      BY <3>3, <3>4
  <2>4. SumFunctionOnSet(Opening, Warehouses) \in Int /\ outside[p] = 0
    <3>1. SumFunctionOnSet(Opening, Warehouses) \in Int
      <4>1. \A w \in Warehouses : Opening[w] \in Int
        BY OpeningAssumption
      <4> QED
        BY <4>1, FiniteAssumption, SumPick
    <3> QED
      BY <3>1 DEF TransfersInit
  <2>5. Stock(physical, p) = SumFunctionOnSet(g, Places)
    BY DEF Stock
  <2> HIDE DEF g
  <2> QED
    BY <2>2, <2>3, <2>4, <2>5
<1>11. HeldForm(state, line, hold, reserved)
  <2> SUFFICES ASSUME NEW w \in Warehouses, NEW p \in Products
               PROVE  reserved[w][p] = SumFunctionOnSet(HeldMask(state, line, hold, w, p), Lines)
    BY DEF HeldForm
  <2>1. \A l \in Lines : HeldMask(state, line, hold, w, p)[l] = 0
    BY <1>8 DEF HeldMask
  <2>2. SumFunctionOnSet(HeldMask(state, line, hold, w, p), Lines) = 0
    BY <2>1, RoutesAre, SumZero
  <2> QED
    BY <2>2 DEF TransfersInit
<1>12. TransitForm(state, line, physical)
  <2> SUFFICES ASSUME NEW p \in Products
               PROVE  physical[Transit][p] = SumFunctionOnSet(RestMask(state, line, p), Lines)
    BY DEF TransitForm
  <2>1. \A l \in Lines : RestMask(state, line, p)[l] = 0
    BY <1>8 DEF RestMask, OnTheWay
  <2>2. SumFunctionOnSet(RestMask(state, line, p), Lines) = 0
    BY <2>1, RoutesAre, SumZero
  <2> QED
    BY <1>5, <2>2, RoutesAre
<1> QED
  BY <1>7, <1>9, <1>10, <1>11, <1>12 DEF Counted, Standing
-----------------------------------------------------------------------------
\* The lines of a transfer.
LEMMA LinesAreOfTransfers ==
  ASSUME NEW t, NEW l
  PROVE  l \in LinesOf(t) <=> l \in Lines /\ TransferOf[l] = t
BY DEF LinesOf

\* What a carry leaves of the stock of all places.
LEMMA CarryIsStock ==
  ASSUME NEW from \in Places, NEW to \in Places, NEW t, NEW q, \A l \in LinesOf(t) : q[l] \in Nat,
         physical \in [Places -> [Products -> Nat]],
         \A p \in Products : Load(t, q, p) <= physical[from][p]
  PROVE  Carry(from, to, t, q) \in [Places -> [Products -> Nat]]
<1>1. \A p \in Products : Load(t, q, p) \in Nat
  BY LoadIsNatural
<1>2. ASSUME NEW w \in Places, NEW p \in Products
      PROVE  physical[w][p] + (IF w = to THEN Load(t, q, p) ELSE 0)
                            - (IF w = from THEN Load(t, q, p) ELSE 0) \in Nat
  <2>1. physical[w][p] \in Nat /\ Load(t, q, p) \in Nat /\ Load(t, q, p) <= physical[from][p]
    BY <1>1
  <2>2. CASE w = from
    BY <2>1, <2>2
  <2>3. CASE w # from
    BY <2>1, <2>3
  <2> QED
    BY <2>2, <2>3
<1> QED
  BY <1>2 DEF Carry

\* What is held depends on status, quantity, route and reservation alone.
LEMMA HeldStays ==
  ASSUME Standing, line' \in [Lines -> LineType], UNCHANGED <<hold, reserved>>,
         \A l \in Lines : /\ line'[l].quantity = line[l].quantity
                          /\ state'[TransferOf[l]] \in Reserving <=> state[TransferOf[l]] \in Reserving
  PROVE  HeldForm(state', line', hold', reserved')
<1> SUFFICES ASSUME NEW w \in Warehouses, NEW p \in Products
             PROVE  reserved'[w][p] = SumFunctionOnSet(HeldMask(state', line', hold', w, p), Lines)
  BY DEF HeldForm
<1>1. HeldMask(state', line', hold', w, p) = HeldMask(state, line, hold, w, p)
  BY DEF HeldMask
<1> QED
  BY <1>1 DEF Standing, HeldForm

\* A move without waste keeps the stock explained.
LEMMA StockStays ==
  ASSUME Standing, NEW from \in Places, NEW to \in Places, NEW t, NEW q, \A l \in LinesOf(t) : q[l] \in Int,
         physical' = Carry(from, to, t, q), UNCHANGED outside,
         \A l \in Lines : moved'[l].wasted = moved[l].wasted
  PROVE  StockForm(physical', moved', outside')
<1> SUFFICES ASSUME NEW p \in Products
             PROVE  Stock(physical', p) + SumFunctionOnSet(WasteMask(moved', p), Lines)
                      = SumFunctionOnSet(Opening, Warehouses) + outside'[p]
  BY DEF StockForm
<1>1. WasteMask(moved', p) = WasteMask(moved, p)
  BY DEF WasteMask
<1>2. physical \in [Places -> [Products -> Nat]]
  BY DEF Standing, TransfersTypeOK
<1>3. Stock(physical', p) = Stock(physical, p)
  BY <1>2, CarryKeepsStock
<1> QED
  BY <1>1, <1>3 DEF Standing, StockForm

\* What is outstanding on a line, n before and n2 after, is less by the units that leave.
TransitGives(t, q) ==
    \A p \in Products : physical'[Transit][p] = physical[Transit][p] - Load(t, q, p)
RestFalls(st2, n, n2, units) == RestOf(n) = (IF st2 \in OnTheWay THEN RestOf(n2) ELSE 0) + units

\* What a transfer on the way has outstanding leaves transit with its units.
LEMMA TransitFollows ==
  ASSUME Counted, NEW t \in Transfers, state[t] \in OnTheWay, line' \in [Lines -> LineType],
         NEW q, \A l \in LinesOf(t) : q[l] \in Int,
         TransitGives(t, q),
         \A l \in Lines :
            TransferOf[l] # t => state'[TransferOf[l]] = state[TransferOf[l]] /\ line'[l] = line[l],
         \A l \in LinesOf(t) : RestFalls(state'[t], line[l], line'[l], q[l])
  PROVE  TransitForm(state', line', physical')
<1> SUFFICES ASSUME NEW p \in Products
             PROVE  physical'[Transit][p] = SumFunctionOnSet(RestMask(state', line', p), Lines)
  BY DEF TransitForm
<1> DEFINE old == RestMask(state, line, p)
           new == RestMask(state', line', p)
           load == LoadMask(t, q, p)
<1>1. state \in [Transfers -> States] /\ line \in [Lines -> LineType] /\ moved \in [Lines -> MovedType]
  BY DEF Counted, Standing, TransfersTypeOK
<1>2. \A l \in Lines : old[l] \in Nat /\ new[l] \in Nat
  BY <1>1, MasksAre
<1>3. /\ \A l \in Lines : load[l] \in Int
      /\ Load(t, q, p) = SumFunctionOnSet(load, Lines)
      /\ Load(t, q, p) \in Int
  BY LoadIs
<1>4. ASSUME NEW l \in Lines PROVE old[l] = new[l] + load[l]
  <2>1. CASE TransferOf[l] = t
    <3>1. l \in LinesOf(t)
      BY <2>1, LinesAreOfTransfers
    <3>2. RestOf(line[l]) = (IF state'[t] \in OnTheWay THEN RestOf(line'[l]) ELSE 0) + q[l]
      BY <3>1 DEF RestFalls
    <3>3. old[l] = IF ProductOf[l] = p THEN RestOf(line[l]) ELSE 0
      BY <2>1 DEF RestMask
    <3>4. new[l] = IF state'[t] \in OnTheWay /\ ProductOf[l] = p THEN RestOf(line'[l]) ELSE 0
      BY <2>1, <3>1 DEF RestMask
    <3>5. load[l] = IF ProductOf[l] = p THEN q[l] ELSE 0
      BY <2>1 DEF LoadMask
    <3> HIDE DEF old, new, load
    <3> QED
      BY <3>2, <3>3, <3>4, <3>5
  <2>2. CASE TransferOf[l] # t
    <3>1. load[l] = 0
      BY <2>2 DEF LoadMask
    <3>2. state'[TransferOf[l]] = state[TransferOf[l]] /\ line'[l] = line[l]
      BY <2>2
    <3>3. new[l] = old[l]
      BY <3>2 DEF RestMask
    <3> HIDE DEF old, new, load
    <3> QED
      BY <1>2, <3>1, <3>3
  <2> QED
    BY <2>1, <2>2
<1>5. physical[Transit][p] = SumFunctionOnSet(old, Lines)
  BY DEF Counted, TransitForm
<1>6. SumFunctionOnSet(new, Lines) \in Nat
  BY <1>1, MasksAre
<1> HIDE DEF old, new, load
<1>7. SumFunctionOnSet(old, Lines) = SumFunctionOnSet(new, Lines) + SumFunctionOnSet(load, Lines)
  BY <1>2, <1>3, <1>4, RoutesAre, SumAdds
<1>8. physical'[Transit][p] = physical[Transit][p] - Load(t, q, p)
  BY DEF TransitGives
<1>9. physical'[Transit][p] = SumFunctionOnSet(new, Lines)
  BY <1>3, <1>5, <1>6, <1>7, <1>8
<1> QED
  BY <1>9 DEF new
-----------------------------------------------------------------------------
\* A request or an approval.
LEMMA ReserveStands ==
  ASSUME Standing, NEW t \in Transfers, state[t] \in {"DRAFT", "REQUESTED", "APPROVED"}, NEW s \in Reserving,
         MayReserve(t), reserved' = ReservedBy(t, ToReserve(t), 1), hold' = Held(t, "ACTIVE"),
         state' = [state EXCEPT ![t] = s], UNCHANGED <<line, moved, physical, outside, bars>>
  PROVE  Standing'
<1> DEFINE q == ToReserve(t)
<1>1. /\ state \in [Transfers -> States] /\ line \in [Lines -> LineType] /\ moved \in [Lines -> MovedType]
      /\ hold \in [Lines -> {"none", "ACTIVE", "CONSUMED", "RELEASED"}]
      /\ reserved \in [Warehouses -> [Products -> Nat]]
  BY DEF Standing, TransfersTypeOK
<1>2. \A l \in Lines : line[l].quantity \in Nat
  BY <1>1 DEF LineType
<1>3. \A l \in LinesOf(t) : q[l] \in Nat
  BY <1>2, LinesAreOfTransfers DEF ToReserve
<1>4. FromPlace[t] \in Warehouses
  BY RoutesAre
<1>5. \A p \in Products : Load(t, q, p) \in Nat
  <2> HIDE DEF q
  <2> QED
    BY <1>3, LoadIsNatural
<1>6. ASSUME NEW w \in Warehouses, NEW p \in Products
      PROVE  reserved'[w][p] = reserved[w][p] + (IF w = FromPlace[t] THEN Load(t, q, p) ELSE 0)
  <2>1. reserved[w][p] \in Nat /\ Load(t, q, p) \in Nat
    BY <1>1, <1>5
  <2>2. CASE w = FromPlace[t]
    <3>1. reserved'[w][p] = reserved[w][p] + 1 * Load(t, q, p)
      BY <1>1, <1>4, <2>2 DEF ReservedBy
    <3> HIDE DEF q
    <3> QED
      BY <2>1, <2>2, <3>1
  <2>3. CASE w # FromPlace[t]
    <3>1. reserved'[w][p] = reserved[w][p]
      BY <1>1, <2>3 DEF ReservedBy
    <3> QED
      BY <2>1, <2>3, <3>1
  <2> QED
    BY <2>2, <2>3
<1>7. TransfersTypeOK'
  <2>1. reserved' \in [Warehouses -> [Products -> Nat]]
    <3>1. \A w \in Warehouses, p \in Products : reserved[w][p] + (IF w = FromPlace[t] THEN Load(t, q, p) ELSE 0) \in Nat
      BY <1>1, <1>5
    <3>2. \A w \in Warehouses, p \in Products : reserved'[w][p] \in Nat
      BY <1>6, <3>1
    <3>3. reserved' \in [Warehouses -> [Products -> Int]]
      <4>1. \A p \in Products : reserved[FromPlace[t]][p] + 1 * Load(t, q, p) \in Int
        BY <1>1, <1>4, <1>5
      <4>2. [p \in Products |-> reserved[FromPlace[t]][p] + 1 * Load(t, q, p)] \in [Products -> Int]
        BY <4>1
      <4>3. \A w \in Warehouses : reserved[w] \in [Products -> Int]
        BY <1>1
      <4> QED
        BY <1>1, <1>4, <4>2, <4>3 DEF ReservedBy
    <3> QED
      BY <3>2, <3>3
  <2>2. hold' \in [Lines -> {"none", "ACTIVE", "CONSUMED", "RELEASED"}]
    BY <1>1 DEF Held
  <2>3. state' \in [Transfers -> States]
    BY <1>1 DEF States, Reserving
  <2> QED
    BY <2>1, <2>2, <2>3 DEF TransfersTypeOK, Standing
<1>8. LinesStand'
  <2> SUFFICES ASSUME NEW l \in Lines
               PROVE  LineStands(state'[TransferOf[l]], line'[l], moved'[l], hold'[l])
    BY DEF LinesStand
  <2>1. LineStands(state[TransferOf[l]], line[l], moved[l], hold[l])
    BY DEF Standing, LinesStand
  <2>2. CASE TransferOf[l] = t
    <3>1. state'[TransferOf[l]] = s /\ hold'[l] = "ACTIVE"
      BY <1>1, <2>2 DEF Held
    <3> QED
      BY <2>1, <2>2, <3>1 DEF LineStands, Reserving, Planned
  <2>3. CASE TransferOf[l] # t
    <3>1. state'[TransferOf[l]] = state[TransferOf[l]] /\ hold'[l] = hold[l]
      BY <1>1, <2>3, RoutesAre DEF Held
    <3> QED
      BY <2>1, <3>1
  <2> QED
    BY <2>2, <2>3
<1>9. HeldForm(state', line', hold', reserved')
  <2> SUFFICES ASSUME NEW w \in Warehouses, NEW p \in Products
               PROVE  reserved'[w][p] = SumFunctionOnSet(HeldMask(state', line', hold', w, p), Lines)
    BY DEF HeldForm
  <2> DEFINE old == HeldMask(state, line, hold, w, p)
             new == HeldMask(state', line', hold', w, p)
             load == LoadMask(t, q, p)
  <2>1. reserved[w][p] = SumFunctionOnSet(old, Lines)
    BY DEF Standing, HeldForm
  <2>2. CASE w = FromPlace[t]
    <3>1. ASSUME NEW l \in Lines PROVE new[l] = old[l] + load[l]
      <4>1. LineStands(state[TransferOf[l]], line[l], moved[l], hold[l]) /\ line[l].quantity \in Nat
        BY <1>2 DEF Standing, LinesStand
      <4>2. CASE TransferOf[l] = t
        <5>1. /\ state'[TransferOf[l]] = s /\ hold'[l] = "ACTIVE" /\ line'[l] = line[l]
              /\ hold[l] \in {"none", "ACTIVE"} /\ q[l] = IF hold[l] = "none" THEN line[l].quantity ELSE 0
          BY <1>1, <4>2, LinesAreOfTransfers DEF Held, MayReserve, ToReserve
        <5>2. new[l] = IF ProductOf[l] = p THEN line[l].quantity ELSE 0
          BY <2>2, <4>2, <5>1 DEF HeldMask
        <5>3. old[l] = IF ProductOf[l] = p /\ hold[l] = "ACTIVE" THEN line[l].quantity ELSE 0
          BY <2>2, <4>1, <4>2 DEF HeldMask, LineStands
        <5>4. load[l] = IF ProductOf[l] = p /\ hold[l] = "none" THEN line[l].quantity ELSE 0
          BY <4>2, <5>1 DEF LoadMask
        <5> HIDE DEF old, new, load, q
        <5> QED
          BY <4>1, <5>1, <5>2, <5>3, <5>4
      <4>3. CASE TransferOf[l] # t
        <5>1. state'[TransferOf[l]] = state[TransferOf[l]] /\ hold'[l] = hold[l]
          BY <1>1, <4>3, RoutesAre DEF Held
        <5>2. new[l] = old[l]
          BY <5>1 DEF HeldMask
        <5>3. load[l] = 0
          BY <4>3 DEF LoadMask
        <5>4. old[l] \in Nat
          BY <4>1 DEF HeldMask
        <5> HIDE DEF old, new, load
        <5> QED
          BY <5>2, <5>3, <5>4
      <4> QED
        BY <4>2, <4>3
    <3>2. \A l \in Lines : old[l] \in Int
      <4>1. \A l \in Lines : HeldMask(state, line, hold, w, p)[l] \in Nat
        BY <1>1, MasksAre
      <4> QED
        BY <4>1
    <3>3. /\ \A l \in Lines : load[l] \in Int
          /\ Load(t, q, p) = SumFunctionOnSet(load, Lines)
      <4> HIDE DEF q
      <4> QED
        BY <1>3, LoadIs
    <3> HIDE DEF old, new, load
    <3>4. SumFunctionOnSet(new, Lines) = SumFunctionOnSet(old, Lines) + SumFunctionOnSet(load, Lines)
      BY <3>1, <3>2, <3>3, RoutesAre, SumAdds
    <3>5. reserved'[w][p] = SumFunctionOnSet(new, Lines)
      BY <1>6, <2>1, <2>2, <3>3, <3>4
    <3> QED
      BY <3>5 DEF new
  <2>3. CASE w # FromPlace[t]
    <3>1. ASSUME NEW l \in Lines PROVE new[l] = old[l]
      <4>1. CASE TransferOf[l] = t
        BY <2>3, <4>1 DEF HeldMask
      <4>2. CASE TransferOf[l] # t
        <5>1. state'[TransferOf[l]] = state[TransferOf[l]] /\ hold'[l] = hold[l]
          BY <1>1, <4>2, RoutesAre DEF Held
        <5> QED
          BY <5>1 DEF HeldMask
      <4> QED
        BY <4>1, <4>2
    <3>2. new = old
      BY <3>1 DEF HeldMask
    <3>3. reserved'[w][p] = reserved[w][p]
      BY <1>6, <1>1, <2>3
    <3> HIDE DEF old
    <3> QED
      BY <2>1, <3>2, <3>3
  <2> QED
    BY <2>2, <2>3
<1>10. StockForm(physical', moved', outside')
  BY DEF Standing
<1> QED
  BY <1>7, <1>8, <1>9, <1>10 DEF Standing

\* What entering transit, passing it and being wasted there do to a line's moves.
LEMMA MovementsAre ==
  ASSUME NEW m \in MovedType, NEW n \in Nat
  PROVE  /\ /\ Entered(m, n) \in MovedType
            /\ Entered(m, n).out = m.out + n /\ Entered(m, n).entered = m.entered + n
            /\ Entered(m, n).left = m.left /\ Entered(m, n).wasted = m.wasted /\ Entered(m, n).arrived = m.arrived
         /\ /\ Passed(m, n) \in MovedType
            /\ Passed(m, n).left = m.left + n /\ Passed(m, n).arrived = m.arrived + n
            /\ Passed(m, n).out = m.out /\ Passed(m, n).entered = m.entered /\ Passed(m, n).wasted = m.wasted
         /\ /\ Wasted(m, n) \in MovedType
            /\ Wasted(m, n).wasted = m.wasted + n
            /\ Wasted(m, n).out = m.out /\ Wasted(m, n).entered = m.entered
            /\ Wasted(m, n).left = m.left /\ Wasted(m, n).arrived = m.arrived
<1>1. m \in [out: Nat, entered: Nat, left: Nat, wasted: Nat, arrived: Nat]
  BY DEF MovedType
<1>2. /\ Entered(m, n) \in MovedType
      /\ Entered(m, n).out = m.out + n /\ Entered(m, n).entered = m.entered + n
      /\ Entered(m, n).left = m.left /\ Entered(m, n).wasted = m.wasted /\ Entered(m, n).arrived = m.arrived
  <2> DEFINE x == [m EXCEPT !.out = m.out + n]
             y == [x EXCEPT !.entered = x.entered + n]
  <2>1. /\ x \in MovedType
        /\ x.out = m.out + n /\ x.entered = m.entered
        /\ x.left = m.left /\ x.wasted = m.wasted /\ x.arrived = m.arrived
    BY <1>1 DEF MovedType
  <2>2. Entered(m, n) = y
    BY <1>1 DEF Entered, MovedType
  <2> HIDE DEF x
  <2>3. /\ y \in MovedType
        /\ y.out = x.out /\ y.entered = x.entered + n
        /\ y.left = m.left /\ y.wasted = m.wasted /\ y.arrived = m.arrived
    BY <2>1 DEF MovedType
  <2> HIDE DEF y
  <2> QED
    BY <2>1, <2>2, <2>3
<1>3. /\ Passed(m, n) \in MovedType
      /\ Passed(m, n).left = m.left + n /\ Passed(m, n).arrived = m.arrived + n
      /\ Passed(m, n).out = m.out /\ Passed(m, n).entered = m.entered /\ Passed(m, n).wasted = m.wasted
  <2> DEFINE x == [m EXCEPT !.left = m.left + n]
             y == [x EXCEPT !.arrived = x.arrived + n]
  <2>1. /\ x \in MovedType
        /\ x.left = m.left + n /\ x.arrived = m.arrived
        /\ x.out = m.out /\ x.entered = m.entered /\ x.wasted = m.wasted
    BY <1>1 DEF MovedType
  <2>2. Passed(m, n) = y
    BY <1>1 DEF Passed, MovedType
  <2> HIDE DEF x
  <2>3. /\ y \in MovedType
        /\ y.left = x.left /\ y.arrived = x.arrived + n
        /\ y.out = m.out /\ y.entered = m.entered /\ y.wasted = m.wasted
    BY <2>1 DEF MovedType
  <2> HIDE DEF y
  <2> QED
    BY <2>1, <2>2, <2>3
<1>4. /\ Wasted(m, n) \in MovedType
      /\ Wasted(m, n).wasted = m.wasted + n
      /\ Wasted(m, n).out = m.out /\ Wasted(m, n).entered = m.entered
      /\ Wasted(m, n).left = m.left /\ Wasted(m, n).arrived = m.arrived
  BY <1>1 DEF Wasted, MovedType
<1> QED
  BY <1>2, <1>3, <1>4

\* Consuming or releasing reservations.
LEMMA ReservedFalls ==
  ASSUME reserved \in [Warehouses -> [Products -> Nat]], NEW t \in Transfers, NEW a,
         \A l \in LinesOf(t) : a[l] \in Int
  PROVE  /\ ReservedBy(t, a, -1) \in [Warehouses -> [Products -> Int]]
         /\ \A w \in Warehouses, p \in Products :
               ReservedBy(t, a, -1)[w][p] = reserved[w][p] - (IF w = FromPlace[t] THEN Load(t, a, p) ELSE 0)
<1> DEFINE from == FromPlace[t]
           row == [p \in Products |-> reserved[from][p] + (-1) * Load(t, a, p)]
<1>1. from \in Warehouses
  BY RoutesAre
<1>2. \A p \in Products : Load(t, a, p) \in Int
  BY LoadIs
<1>3. ReservedBy(t, a, -1) = [reserved EXCEPT ![from] = row]
  BY DEF ReservedBy
<1>4. \A w \in Warehouses, p \in Products : reserved[w][p] \in Int
  OBVIOUS
<1>5. \A p \in Products : row[p] \in Int /\ row[p] = reserved[from][p] - Load(t, a, p)
  BY <1>1, <1>2, <1>4
<1>6. row \in [Products -> Int]
  BY <1>1, <1>2, <1>4
<1>7. \A w \in Warehouses : reserved[w] \in [Products -> Int]
  OBVIOUS
<1> HIDE DEF row
<1>8. ReservedBy(t, a, -1) \in [Warehouses -> [Products -> Int]]
  BY <1>3, <1>6, <1>7
<1>9. ASSUME NEW w \in Warehouses, NEW p \in Products
      PROVE  ReservedBy(t, a, -1)[w][p] = reserved[w][p] - (IF w = from THEN Load(t, a, p) ELSE 0)
  <2>1. CASE w = from
    BY <1>3, <1>5, <2>1
  <2>2. CASE w # from
    <3>1. ReservedBy(t, a, -1)[w][p] = reserved[w][p]
      BY <1>3, <2>2
    <3> QED
      BY <1>4, <2>2, <3>1
  <2> QED
    BY <2>1, <2>2
<1> QED
  BY <1>8, <1>9

\* What the lines of a transfer hold is given up: the transfer is not between request
\* and shipment any more.
LEMMA HeldIsSpent ==
  ASSUME Standing, NEW t \in Transfers, reserved' = ReservedBy(t, ActiveQuantities(t), -1),
         line' \in [Lines -> LineType], NEW s, s \notin Reserving, state' = [state EXCEPT ![t] = s],
         \A l \in Lines : TransferOf[l] # t => hold'[l] = hold[l] /\ line'[l] = line[l]
  PROVE  /\ HeldForm(state', line', hold', reserved')
         /\ reserved' \in [Warehouses -> [Products -> Nat]]
         /\ \A p \in Products : /\ Load(t, ActiveQuantities(t), p) \in Nat
                                 /\ Load(t, ActiveQuantities(t), p) <= reserved[FromPlace[t]][p]
<1> DEFINE a == ActiveQuantities(t)
           from == FromPlace[t]
<1>1. /\ state \in [Transfers -> States] /\ line \in [Lines -> LineType] /\ moved \in [Lines -> MovedType]
      /\ hold \in [Lines -> {"none", "ACTIVE", "CONSUMED", "RELEASED"}]
      /\ reserved \in [Warehouses -> [Products -> Nat]]
  BY DEF Standing, TransfersTypeOK
<1>2. \A l \in Lines : line[l].quantity \in Nat
  BY <1>1 DEF LineType
<1>3. \A l \in LinesOf(t) : a[l] \in Nat /\ a[l] = IF hold[l] = "ACTIVE" THEN line[l].quantity ELSE 0
  BY <1>2, LinesAreOfTransfers DEF ActiveQuantities
<1>4. from \in Warehouses
  BY RoutesAre
<1>5. \A p \in Products : Load(t, a, p) \in Nat
  <2> HIDE DEF a
  <2> QED
    BY <1>3, LoadIsNatural
<1>8. ASSUME NEW l \in Lines, TransferOf[l] # t
      PROVE  state'[TransferOf[l]] = state[TransferOf[l]] /\ hold'[l] = hold[l] /\ line'[l] = line[l]
  BY <1>1, <1>8, RoutesAre
<1>30. \A l \in LinesOf(t) : a[l] \in Int
  BY <1>3
<1>31. /\ reserved' \in [Warehouses -> [Products -> Int]]
       /\ \A w \in Warehouses, p \in Products :
             reserved'[w][p] = reserved[w][p] - (IF w = from THEN Load(t, a, p) ELSE 0)
  <2> HIDE DEF a
  <2> QED
    BY <1>1, <1>30, ReservedFalls DEF a
<1>10. ASSUME NEW w \in Warehouses, NEW p \in Products
       PROVE  reserved'[w][p] = SumFunctionOnSet(HeldMask(state', line', hold', w, p), Lines)
  <2> DEFINE old == HeldMask(state, line, hold, w, p)
             new == HeldMask(state', line', hold', w, p)
             load == LoadMask(t, a, p)
  <2>1. reserved[w][p] = SumFunctionOnSet(old, Lines)
    BY DEF Standing, HeldForm
  <2>2. CASE w = from
    <3>1. ASSUME NEW l \in Lines PROVE old[l] = new[l] + load[l]
      <4>1. LineStands(state[TransferOf[l]], line[l], moved[l], hold[l]) /\ line[l].quantity \in Nat
        BY <1>2 DEF Standing, LinesStand
      <4>2. CASE TransferOf[l] = t
        <5>1. new[l] = 0
          <6>1. state'[TransferOf[l]] = s
            BY <1>1, <4>2
          <6> QED
            BY <6>1 DEF HeldMask
        <5>2. old[l] = IF ProductOf[l] = p /\ hold[l] = "ACTIVE" THEN line[l].quantity ELSE 0
          BY <2>2, <4>1, <4>2 DEF HeldMask, LineStands
        <5>3. load[l] = IF ProductOf[l] = p /\ hold[l] = "ACTIVE" THEN line[l].quantity ELSE 0
          <6>1. a[l] = IF hold[l] = "ACTIVE" THEN line[l].quantity ELSE 0
            BY <1>3, <4>2, LinesAreOfTransfers
          <6> HIDE DEF a
          <6> QED
            BY <4>2, <6>1 DEF LoadMask
        <5> HIDE DEF old, new, load
        <5> QED
          BY <4>1, <5>1, <5>2, <5>3
      <4>3. CASE TransferOf[l] # t
        <5>1. new[l] = old[l]
          BY <1>8, <4>3 DEF HeldMask
        <5>2. load[l] = 0
          BY <4>3 DEF LoadMask
        <5>3. old[l] \in Nat
          BY <4>1 DEF HeldMask
        <5> HIDE DEF old, new, load
        <5> QED
          BY <5>1, <5>2, <5>3
      <4> QED
        BY <4>2, <4>3
    <3>2. \A l \in Lines : new[l] \in Int
      <4>1. \A l \in Lines : HeldMask(state', line', hold', w, p)[l] \in Nat
        BY <1>1, MasksAre
      <4>2. \A l \in Lines : new[l] \in Nat
        BY <4>1
      <4> HIDE DEF new
      <4> QED
        BY <4>2
    <3>3. SumFunctionOnSet(new, Lines) \in Nat
      BY <1>1, MasksAre
    <3>4. /\ \A l \in Lines : load[l] \in Int
          /\ Load(t, a, p) = SumFunctionOnSet(load, Lines)
          /\ Load(t, a, p) \in Nat
      <4>1. \A l \in LinesOf(t) : a[l] \in Int
        BY <1>3
      <4>2. Load(t, a, p) \in Nat
        BY <1>5
      <4> HIDE DEF a
      <4> QED
        BY <4>1, <4>2, LoadIs
    <3> HIDE DEF old, new, load
    <3>5. SumFunctionOnSet(old, Lines) = SumFunctionOnSet(new, Lines) + SumFunctionOnSet(load, Lines)
      BY <3>1, <3>2, <3>4, RoutesAre, SumAdds
    <3>6. reserved'[w][p] = reserved[w][p] - Load(t, a, p)
      BY <1>31, <2>2
    <3>7. reserved'[w][p] = SumFunctionOnSet(new, Lines)
      <4> HIDE DEF a
      <4> QED
        BY <2>1, <3>3, <3>4, <3>5, <3>6
    <3> QED
      BY <3>7 DEF new
  <2>3. CASE w # from
    <3>1. ASSUME NEW l \in Lines PROVE new[l] = old[l]
      <4>1. CASE TransferOf[l] = t
        BY <2>3, <4>1 DEF HeldMask
      <4>2. CASE TransferOf[l] # t
        BY <1>8, <4>2 DEF HeldMask
      <4> QED
        BY <4>1, <4>2
    <3>2. new = old
      BY <3>1 DEF HeldMask
    <3>3. reserved'[w][p] = reserved[w][p]
      <4>1. reserved'[w][p] = reserved[w][p] - 0 /\ reserved[w][p] \in Nat
        BY <1>1, <1>31, <2>3
      <4> QED
        BY <4>1
    <3> HIDE DEF old
    <3> QED
      BY <2>1, <3>2, <3>3
  <2> QED
    BY <2>2, <2>3
<1>11. reserved' \in [Warehouses -> [Products -> Nat]]
  <2>1. \A w \in Warehouses, p \in Products : reserved'[w][p] \in Nat
    <3>1. \A w \in Warehouses, p \in Products : SumFunctionOnSet(HeldMask(state', line', hold', w, p), Lines) \in Nat
      BY <1>1, MasksAre
    <3> QED
      BY <1>10, <3>1
  <2> QED
    BY <1>31, <2>1
<1>12. ASSUME NEW p \in Products PROVE Load(t, a, p) <= reserved[from][p]
  <2>1. reserved'[from][p] \in Nat /\ reserved'[from][p] = reserved[from][p] - Load(t, a, p)
    BY <1>4, <1>11, <1>31
  <2>2. Load(t, a, p) \in Nat /\ reserved[from][p] \in Nat
    BY <1>1, <1>4, <1>5
  <2> HIDE DEF a, from
  <2> QED
    BY <2>1, <2>2
<1> QED
  BY <1>5, <1>10, <1>11, <1>12 DEF HeldForm

\* A shipment spends what the lines hold and carries them into transit.
LEMMA ShipStands ==
  ASSUME Standing, NEW t \in Transfers, Ship(t)
  PROVE  Standing' /\ (Counted => Counted')
<1> DEFINE q == Quantities(t)
           a == ActiveQuantities(t)
           from == FromPlace[t]
<1>1. /\ state \in [Transfers -> States] /\ line \in [Lines -> LineType] /\ moved \in [Lines -> MovedType]
      /\ hold \in [Lines -> {"none", "ACTIVE", "CONSUMED", "RELEASED"}]
      /\ reserved \in [Warehouses -> [Products -> Nat]] /\ physical \in [Places -> [Products -> Nat]]
  BY DEF Standing, TransfersTypeOK
<1>2. \A l \in Lines : line[l].quantity \in Nat
  BY <1>1 DEF LineType
<1>3. \A l \in LinesOf(t) : /\ q[l] = line[l].quantity /\ q[l] \in Nat /\ a[l] \in Nat
                            /\ a[l] = IF hold[l] = "ACTIVE" THEN line[l].quantity ELSE 0
  BY <1>2, LinesAreOfTransfers DEF Quantities, ActiveQuantities
<1>4. from \in Warehouses /\ from \in Places /\ Transit \in Places /\ from # Transit
  BY RoutesAre
<1>5. \A p \in Products : Load(t, q, p) \in Nat /\ Load(t, a, p) \in Nat
  <2> HIDE DEF q, a
  <2> QED
    BY <1>3, LoadIsNatural
<1>6. /\ state[t] \in {"NONE", "APPROVED"} /\ state' = [state EXCEPT ![t] = "IN_TRANSIT"]
      /\ reserved' = ReservedBy(t, a, -1) /\ hold' = Held(t, "CONSUMED")
      /\ \A p \in Products : Load(t, q, p) <= Available(from, p) + Load(t, a, p)
      /\ physical' = Carry(from, Transit, t, q)
      /\ moved' = [l \in Lines |-> IF TransferOf[l] = t THEN Entered(moved[l], line[l].quantity)
                                   ELSE moved[l]]
      /\ line' = [l \in Lines |-> IF TransferOf[l] = t THEN ShippedLine(line[l]) ELSE line[l]]
      /\ UNCHANGED <<outside, bars>>
  BY DEF Ship
<1>7. ASSUME NEW l \in Lines, TransferOf[l] = t
      PROVE  /\ state'[TransferOf[l]] = "IN_TRANSIT" /\ hold'[l] = "CONSUMED"
             /\ line[l].shipped = 0 /\ line[l].received = 0 /\ line[l].damaged = 0 /\ line[l].resolved = 0
             /\ line'[l].quantity = line[l].quantity /\ line'[l].shipped = line[l].quantity
             /\ line'[l].received = 0 /\ line'[l].damaged = 0 /\ line'[l].resolved = 0
             /\ line'[l] \in LineType
             /\ moved'[l].out = line[l].quantity /\ moved'[l].entered = line[l].quantity
             /\ moved'[l].left = 0 /\ moved'[l].arrived = 0 /\ moved'[l].wasted = 0 /\ moved[l].wasted = 0
             /\ moved'[l] \in MovedType
  <2>1. state'[TransferOf[l]] = "IN_TRANSIT" /\ hold'[l] = "CONSUMED"
    BY <1>1, <1>6, <1>7 DEF Held
  <2>2. LineStands(state[t], line[l], moved[l], hold[l]) /\ state[t] \in Planned
    BY <1>6, <1>7 DEF Standing, LinesStand, Planned
  <2>3. /\ line[l].shipped = 0 /\ line[l].received = 0 /\ line[l].damaged = 0 /\ line[l].resolved = 0
        /\ moved[l].out = 0 /\ moved[l].entered = 0 /\ moved[l].left = 0
        /\ moved[l].wasted = 0 /\ moved[l].arrived = 0
    BY <2>2 DEF LineStands
  <2>4. line[l] \in LineType /\ moved[l] \in MovedType /\ line[l].quantity \in Nat
    BY <1>1, <1>2
  <2>5. line'[l] = ShippedLine(line[l]) /\ moved'[l] = Entered(moved[l], line[l].quantity)
    BY <1>6, <1>7
  <2>6. /\ line'[l].quantity = line[l].quantity /\ line'[l].shipped = line[l].quantity
        /\ line'[l].received = line[l].received /\ line'[l].damaged = line[l].damaged
        /\ line'[l].resolved = line[l].resolved /\ line'[l] \in LineType
    BY <2>4, <2>5 DEF ShippedLine, LineType
  <2>7. /\ moved'[l].out = moved[l].out + line[l].quantity
        /\ moved'[l].entered = moved[l].entered + line[l].quantity
        /\ moved'[l].left = moved[l].left /\ moved'[l].arrived = moved[l].arrived
        /\ moved'[l].wasted = moved[l].wasted /\ moved'[l] \in MovedType
    <3> DEFINE e == Entered(moved[l], line[l].quantity)
    <3>1. /\ e.out = moved[l].out + line[l].quantity /\ e.entered = moved[l].entered + line[l].quantity
          /\ e.left = moved[l].left /\ e.arrived = moved[l].arrived /\ e.wasted = moved[l].wasted
          /\ e \in MovedType
      BY <2>4, MovementsAre
    <3>2. moved'[l] = e
      BY <2>5
    <3> HIDE DEF e
    <3> QED
      BY <3>1, <3>2
  <2> QED
    BY <1>2, <2>1, <2>3, <2>6, <2>7
<1>8. ASSUME NEW l \in Lines, TransferOf[l] # t
      PROVE  /\ state'[TransferOf[l]] = state[TransferOf[l]] /\ hold'[l] = hold[l]
             /\ line'[l] = line[l] /\ moved'[l] = moved[l]
  BY <1>1, <1>6, <1>8, RoutesAre DEF Held
<1>9. line' \in [Lines -> LineType] /\ moved' \in [Lines -> MovedType]
  <2>1. \A l \in Lines : line'[l] \in LineType /\ moved'[l] \in MovedType
    BY <1>1, <1>7, <1>8
  <2> QED
    BY <1>6, <2>1
<1>10. /\ HeldForm(state', line', hold', reserved')
       /\ reserved' \in [Warehouses -> [Products -> Nat]]
       /\ \A p \in Products : Load(t, a, p) \in Nat /\ Load(t, a, p) <= reserved[from][p]
  <2>1. "IN_TRANSIT" \notin Reserving
    BY DEF Reserving
  <2>2. \A l \in Lines : TransferOf[l] # t => hold'[l] = hold[l] /\ line'[l] = line[l]
    BY <1>8
  <2> QED
    BY <1>6, <1>9, <2>1, <2>2, HeldIsSpent
<1>12. \A p \in Products : Load(t, q, p) <= physical[from][p]
  <2> SUFFICES ASSUME NEW p \in Products PROVE Load(t, q, p) <= physical[from][p]
    OBVIOUS
  <2>1. Load(t, a, p) <= reserved[from][p]
    BY <1>10
  <2>2. Load(t, q, p) <= physical[from][p] - reserved[from][p] + Load(t, a, p)
    BY <1>6 DEF Available
  <2>3. /\ Load(t, a, p) \in Nat /\ Load(t, q, p) \in Nat /\ physical[from][p] \in Nat
        /\ reserved[from][p] \in Nat
    BY <1>1, <1>4, <1>5
  <2> HIDE DEF q, a, from
  <2> QED
    BY <2>1, <2>2, <2>3
<1>13. TransfersTypeOK'
  <2>1. physical' \in [Places -> [Products -> Nat]]
    <3>1. \A l \in LinesOf(t) : q[l] \in Nat
      BY <1>3
    <3> HIDE DEF q
    <3> QED
      BY <1>1, <1>4, <1>6, <1>12, <3>1, CarryIsStock
  <2>2. hold' \in [Lines -> {"none", "ACTIVE", "CONSUMED", "RELEASED"}]
    BY <1>1, <1>6 DEF Held
  <2>3. state' \in [Transfers -> States]
    BY <1>1, <1>6 DEF States
  <2>4. \A l \in Lines : /\ line'[l].received + line'[l].damaged <= line'[l].shipped
                         /\ line'[l].shipped <= line'[l].quantity
    <3> SUFFICES ASSUME NEW l \in Lines
                 PROVE  /\ line'[l].received + line'[l].damaged <= line'[l].shipped
                        /\ line'[l].shipped <= line'[l].quantity
      OBVIOUS
    <3>1. CASE TransferOf[l] = t
      BY <1>2, <1>7, <3>1
    <3>2. CASE TransferOf[l] # t
      BY <1>8, <3>2 DEF Standing, TransfersTypeOK
    <3> QED
      BY <3>1, <3>2
  <2>5. outside' \in [Products -> Int] /\ bars' \subseteq Barriers
    BY <1>6 DEF Standing, TransfersTypeOK
  <2> QED
    BY <1>9, <1>10, <2>1, <2>2, <2>3, <2>4, <2>5 DEF TransfersTypeOK
<1>14. LinesStand'
  <2> SUFFICES ASSUME NEW l \in Lines
               PROVE  LineStands(state'[TransferOf[l]], line'[l], moved'[l], hold'[l])
    BY DEF LinesStand
  <2>1. CASE TransferOf[l] = t
    BY <1>7, <2>1 DEF LineStands, Planned, Reserving
  <2>2. CASE TransferOf[l] # t
    BY <1>8, <2>2 DEF Standing, LinesStand
  <2> QED
    BY <2>1, <2>2
<1>15. StockForm(physical', moved', outside')
  <2>1. \A l \in Lines : moved'[l].wasted = moved[l].wasted
    BY <1>7, <1>8
  <2>2. \A l \in LinesOf(t) : q[l] \in Int
    BY <1>3
  <2> HIDE DEF q
  <2> QED
    BY <1>4, <1>6, <2>1, <2>2, StockStays
<1>16. Standing'
  BY <1>10, <1>13, <1>14, <1>15 DEF Standing
<1>17. ASSUME Counted PROVE Counted'
  <2>1. LinesAreCounted'
    <3> SUFFICES ASSUME NEW l \in Lines PROVE LineIsCounted(state'[TransferOf[l]], line'[l], moved'[l])
      BY DEF LinesAreCounted
    <3>1. CASE TransferOf[l] = t
      BY <1>2, <1>7, <3>1 DEF LineIsCounted
    <3>2. CASE TransferOf[l] # t
      BY <1>8, <1>17, <3>2 DEF Counted, LinesAreCounted
    <3> QED
      BY <3>1, <3>2
  <2>2. ASSUME NEW p \in Products
        PROVE  physical'[Transit][p] = SumFunctionOnSet(RestMask(state', line', p), Lines)
    <3> DEFINE old == RestMask(state, line, p)
               new == RestMask(state', line', p)
               load == LoadMask(t, q, p)
    <3>1. ASSUME NEW l \in Lines PROVE new[l] = old[l] + load[l]
      <4>1. line[l].quantity \in Nat
        BY <1>2
      <4>2. CASE TransferOf[l] = t
        <5>1. old[l] = 0
          BY <1>6, <4>2 DEF RestMask, OnTheWay
        <5>2. RestOf(line'[l]) = line[l].quantity
          BY <1>7, <4>1, <4>2 DEF RestOf
        <5>3. new[l] = IF ProductOf[l] = p THEN line[l].quantity ELSE 0
          BY <1>7, <4>2, <5>2 DEF RestMask, OnTheWay
        <5>4. load[l] = IF ProductOf[l] = p THEN line[l].quantity ELSE 0
          BY <1>3, <4>2, LinesAreOfTransfers DEF LoadMask
        <5> HIDE DEF old, new, load
        <5> QED
          BY <4>1, <5>1, <5>3, <5>4
      <4>3. CASE TransferOf[l] # t
        <5>1. new[l] = old[l]
          BY <1>8, <4>3 DEF RestMask
        <5>2. load[l] = 0
          BY <4>3 DEF LoadMask
        <5>3. RestMask(state, line, p)[l] \in Nat
          BY <1>1, MasksAre
        <5>4. old[l] \in Nat
          BY <5>3
        <5> HIDE DEF old, new, load
        <5> QED
          BY <5>1, <5>2, <5>4
      <4> QED
        BY <4>2, <4>3
    <3>2. \A l \in Lines : old[l] \in Int
      <4>1. \A l \in Lines : RestMask(state, line, p)[l] \in Nat
        BY <1>1, MasksAre
      <4> QED
        BY <4>1
    <3>3. /\ \A l \in Lines : load[l] \in Int
          /\ Load(t, q, p) = SumFunctionOnSet(load, Lines)
      <4>1. \A l \in LinesOf(t) : q[l] \in Int
        BY <1>3
      <4> HIDE DEF q
      <4> QED
        BY <4>1, LoadIs
    <3>4. physical[Transit][p] = SumFunctionOnSet(old, Lines)
      BY <1>17 DEF Counted, TransitForm
    <3>5. physical'[Transit][p] = physical[Transit][p] + Load(t, q, p)
      <4>1. physical'[Transit][p] = physical[Transit][p] + Load(t, q, p) - 0
        BY <1>4, <1>6 DEF Carry
      <4>2. physical[Transit][p] \in Int /\ Load(t, q, p) \in Int
        BY <1>1, <1>4, <1>5
      <4> HIDE DEF q
      <4> QED
        BY <4>1, <4>2
    <3> HIDE DEF old, new, load
    <3>6. SumFunctionOnSet(new, Lines) = SumFunctionOnSet(old, Lines) + SumFunctionOnSet(load, Lines)
      BY <3>1, <3>2, <3>3, RoutesAre, SumAdds
    <3>7. physical'[Transit][p] = SumFunctionOnSet(new, Lines)
      BY <3>3, <3>4, <3>5, <3>6
    <3> QED
      BY <3>7 DEF new
  <2> QED
    BY <1>16, <2>1, <2>2 DEF Counted, TransitForm
<1> QED
  BY <1>16, <1>17

\* Nothing enters or leaves transit, and no transfer begins or ends its way.
LEMMA TransitStays ==
  ASSUME Counted,
         \A p \in Products : physical'[Transit][p] = physical[Transit][p],
         \A l \in Lines :
            /\ state'[TransferOf[l]] \in OnTheWay <=> state[TransferOf[l]] \in OnTheWay
            /\ state[TransferOf[l]] \in OnTheWay => line'[l] = line[l]
  PROVE  TransitForm(state', line', physical')
<1> SUFFICES ASSUME NEW p \in Products
             PROVE  physical'[Transit][p] = SumFunctionOnSet(RestMask(state', line', p), Lines)
  BY DEF TransitForm
<1>1. \A l \in Lines : (IF state'[TransferOf[l]] \in OnTheWay /\ ProductOf[l] = p THEN RestOf(line'[l]) ELSE 0)
                       = (IF state[TransferOf[l]] \in OnTheWay /\ ProductOf[l] = p THEN RestOf(line[l]) ELSE 0)
  OBVIOUS
<1>2. RestMask(state', line', p) = RestMask(state, line, p)
  BY <1>1 DEF RestMask
<1> QED
  BY <1>2 DEF Counted, TransitForm

\* A quick transfer posts its four legs at once.
LEMMA QuickStands ==
  ASSUME Standing, NEW t \in Transfers, CreateQuick(t)
  PROVE  Standing' /\ (Counted => Counted')
<1> DEFINE q == Quantities(t)
           from == FromPlace[t]
           to == ToPlace[t]
<1>1. /\ state \in [Transfers -> States] /\ line \in [Lines -> LineType] /\ moved \in [Lines -> MovedType]
      /\ hold \in [Lines -> {"none", "ACTIVE", "CONSUMED", "RELEASED"}]
      /\ reserved \in [Warehouses -> [Products -> Nat]] /\ physical \in [Places -> [Products -> Nat]]
  BY DEF Standing, TransfersTypeOK
<1>2. \A l \in Lines : line[l].quantity \in Nat
  BY <1>1 DEF LineType
<1>3. \A l \in LinesOf(t) : q[l] \in Nat
  BY <1>2, LinesAreOfTransfers DEF Quantities
<1>4. /\ from \in Warehouses /\ from \in Places /\ Transit \in Places /\ from # Transit
      /\ to \in Places /\ to # Transit
  BY RoutesAre
<1>5. \A p \in Products : Load(t, q, p) \in Nat
  <2> HIDE DEF q
  <2> QED
    BY <1>3, LoadIsNatural
<1>6. /\ state[t] = "NONE" /\ state' = [state EXCEPT ![t] = "RECEIVED"]
      /\ \A p \in Products : Load(t, q, p) <= Available(from, p)
      /\ physical' = Carry(from, to, t, q)
      /\ moved' = [l \in Lines |-> IF TransferOf[l] = t
                                   THEN Passed(Entered(moved[l], line[l].quantity), line[l].quantity)
                                   ELSE moved[l]]
      /\ line' = [l \in Lines |-> IF TransferOf[l] = t
                                  THEN [ShippedLine(line[l]) EXCEPT !.received = line[l].quantity]
                                  ELSE line[l]]
      /\ UNCHANGED <<hold, reserved, outside, bars>>
  BY DEF CreateQuick
<1>7. ASSUME NEW l \in Lines, TransferOf[l] = t
      PROVE  /\ state[TransferOf[l]] = "NONE" /\ state'[TransferOf[l]] = "RECEIVED" /\ hold'[l] = "none"
             /\ line'[l].quantity = line[l].quantity /\ line'[l].shipped = line[l].quantity
             /\ line'[l].received = line[l].quantity /\ line'[l].damaged = 0
             /\ line'[l] \in LineType /\ moved'[l] \in MovedType /\ moved'[l].wasted = moved[l].wasted
  <2>1. state[TransferOf[l]] = "NONE" /\ state'[TransferOf[l]] = "RECEIVED" /\ hold'[l] = hold[l]
    BY <1>1, <1>6, <1>7
  <2>2. LineStands(state[TransferOf[l]], line[l], moved[l], hold[l])
    BY DEF Standing, LinesStand
  <2>3. line[l].damaged = 0 /\ hold[l] = "none"
    BY <2>1, <2>2 DEF LineStands, Planned
  <2>4. line[l] \in LineType /\ moved[l] \in MovedType /\ line[l].quantity \in Nat
    BY <1>1, <1>2
  <2> DEFINE s == ShippedLine(line[l])
             e == Entered(moved[l], line[l].quantity)
             f == Passed(e, line[l].quantity)
  <2>5. line'[l] = [s EXCEPT !.received = line[l].quantity] /\ moved'[l] = f
    BY <1>6, <1>7
  <2>6. /\ s.quantity = line[l].quantity /\ s.shipped = line[l].quantity /\ s.damaged = line[l].damaged
        /\ s \in LineType
    BY <2>4 DEF ShippedLine, LineType
  <2>7. e \in MovedType /\ e.wasted = moved[l].wasted
    BY <2>4, MovementsAre
  <2> HIDE DEF e
  <2>8. f \in MovedType /\ f.wasted = e.wasted
    BY <2>4, <2>7, MovementsAre
  <2> HIDE DEF s, f
  <2>9. /\ line'[l].quantity = line[l].quantity /\ line'[l].shipped = line[l].quantity
        /\ line'[l].received = line[l].quantity /\ line'[l].damaged = line[l].damaged
        /\ line'[l] \in LineType
    BY <2>4, <2>5, <2>6 DEF LineType
  <2>10. moved'[l] \in MovedType /\ moved'[l].wasted = moved[l].wasted
    BY <2>5, <2>7, <2>8
  <2> QED
    BY <2>1, <2>3, <2>9, <2>10
<1>8. ASSUME NEW l \in Lines, TransferOf[l] # t
      PROVE  /\ state'[TransferOf[l]] = state[TransferOf[l]] /\ hold'[l] = hold[l]
             /\ line'[l] = line[l] /\ moved'[l] = moved[l]
  BY <1>1, <1>6, <1>8, RoutesAre
<1>9. line' \in [Lines -> LineType] /\ moved' \in [Lines -> MovedType]
  <2>1. \A l \in Lines : line'[l] \in LineType /\ moved'[l] \in MovedType
    BY <1>1, <1>7, <1>8
  <2> QED
    BY <1>6, <2>1
<1>10. \A p \in Products : Load(t, q, p) <= physical[from][p]
  <2> SUFFICES ASSUME NEW p \in Products PROVE Load(t, q, p) <= physical[from][p]
    OBVIOUS
  <2>1. Load(t, q, p) <= physical[from][p] - reserved[from][p]
    BY <1>6 DEF Available
  <2>2. Load(t, q, p) \in Nat /\ physical[from][p] \in Nat /\ reserved[from][p] \in Nat
    BY <1>1, <1>4, <1>5
  <2> HIDE DEF q, from
  <2> QED
    BY <2>1, <2>2
<1>11. TransfersTypeOK'
  <2>1. physical' \in [Places -> [Products -> Nat]]
    <3> HIDE DEF q
    <3> QED
      BY <1>1, <1>3, <1>4, <1>6, <1>10, CarryIsStock
  <2>2. state' \in [Transfers -> States]
    BY <1>1, <1>6 DEF States
  <2>3. \A l \in Lines : /\ line'[l].received + line'[l].damaged <= line'[l].shipped
                         /\ line'[l].shipped <= line'[l].quantity
    <3> SUFFICES ASSUME NEW l \in Lines
                 PROVE  /\ line'[l].received + line'[l].damaged <= line'[l].shipped
                        /\ line'[l].shipped <= line'[l].quantity
      OBVIOUS
    <3>1. CASE TransferOf[l] = t
      BY <1>2, <1>7, <3>1
    <3>2. CASE TransferOf[l] # t
      BY <1>8, <3>2 DEF Standing, TransfersTypeOK
    <3> QED
      BY <3>1, <3>2
  <2> QED
    BY <1>6, <1>9, <2>1, <2>2, <2>3 DEF TransfersTypeOK, Standing
<1>12. LinesStand'
  <2> SUFFICES ASSUME NEW l \in Lines
               PROVE  LineStands(state'[TransferOf[l]], line'[l], moved'[l], hold'[l])
    BY DEF LinesStand
  <2>1. CASE TransferOf[l] = t
    BY <1>7, <2>1 DEF LineStands, Planned, Reserving
  <2>2. CASE TransferOf[l] # t
    BY <1>8, <2>2 DEF Standing, LinesStand
  <2> QED
    BY <2>1, <2>2
<1>13. StockForm(physical', moved', outside')
  <2>1. \A l \in Lines : moved'[l].wasted = moved[l].wasted
    BY <1>7, <1>8
  <2>2. \A l \in LinesOf(t) : q[l] \in Int
    BY <1>3
  <2> HIDE DEF q
  <2> QED
    BY <1>4, <1>6, <2>1, <2>2, StockStays
<1>14. HeldForm(state', line', hold', reserved')
  <2>1. \A l \in Lines : /\ line'[l].quantity = line[l].quantity
                         /\ state'[TransferOf[l]] \in Reserving <=> state[TransferOf[l]] \in Reserving
    BY <1>7, <1>8 DEF Reserving
  <2> QED
    BY <1>6, <1>9, <2>1, HeldStays
<1>15. Standing'
  BY <1>11, <1>12, <1>13, <1>14 DEF Standing
<1>16. ASSUME Counted PROVE Counted'
  <2>1. LinesAreCounted'
    <3> SUFFICES ASSUME NEW l \in Lines PROVE LineIsCounted(state'[TransferOf[l]], line'[l], moved'[l])
      BY DEF LinesAreCounted
    <3>1. CASE TransferOf[l] = t
      BY <1>7, <3>1 DEF LineIsCounted, OnTheWay
    <3>2. CASE TransferOf[l] # t
      BY <1>8, <1>16, <3>2 DEF Counted, LinesAreCounted
    <3> QED
      BY <3>1, <3>2
  <2>2. ASSUME NEW p \in Products PROVE physical'[Transit][p] = physical[Transit][p]
    <3>1. physical'[Transit][p] = physical[Transit][p] + 0 - 0
      BY <1>4, <1>6 DEF Carry
    <3>2. physical[Transit][p] \in Int
      BY <1>1, <1>4
    <3> QED
      BY <3>1, <3>2
  <2>3. \A l \in Lines :
            /\ state'[TransferOf[l]] \in OnTheWay <=> state[TransferOf[l]] \in OnTheWay
            /\ state[TransferOf[l]] \in OnTheWay => line'[l] = line[l]
    BY <1>7, <1>8 DEF OnTheWay
  <2>4. TransitForm(state', line', physical')
    BY <1>16, <2>2, <2>3, TransitStays
  <2> QED
    BY <1>15, <2>1, <2>4 DEF Counted
<1> QED
  BY <1>15, <1>16

\* A cancellation before shipment gives the reservations up.
LEMMA CancelPlannedStands ==
  ASSUME Standing, NEW t \in Transfers, CancelPlanned(t)
  PROVE  Standing' /\ (Counted => Counted')
<1>1. /\ state \in [Transfers -> States] /\ line \in [Lines -> LineType]
      /\ hold \in [Lines -> {"none", "ACTIVE", "CONSUMED", "RELEASED"}]
  BY DEF Standing, TransfersTypeOK
<1>2. /\ state[t] \in {"DRAFT", "REQUESTED", "APPROVED"} /\ state' = [state EXCEPT ![t] = "CANCELLED"]
      /\ reserved' = ReservedBy(t, ActiveQuantities(t), -1)
      /\ hold' = [l \in Lines |-> IF TransferOf[l] = t /\ hold[l] = "ACTIVE" THEN "RELEASED" ELSE hold[l]]
      /\ UNCHANGED <<line, moved, physical, outside, bars>>
  BY DEF CancelPlanned
<1>3. ASSUME NEW l \in Lines, TransferOf[l] # t
      PROVE  state'[TransferOf[l]] = state[TransferOf[l]] /\ hold'[l] = hold[l]
  BY <1>1, <1>2, <1>3, RoutesAre
<1>4. ASSUME NEW l \in Lines, TransferOf[l] = t
      PROVE  state'[TransferOf[l]] = "CANCELLED" /\ hold'[l] # "ACTIVE"
  BY <1>1, <1>2, <1>4
<1>5. /\ HeldForm(state', line', hold', reserved')
      /\ reserved' \in [Warehouses -> [Products -> Nat]]
  <2>1. line' \in [Lines -> LineType]
    BY <1>1, <1>2
  <2>2. "CANCELLED" \notin Reserving
    BY DEF Reserving
  <2>3. \A l \in Lines : TransferOf[l] # t => hold'[l] = hold[l] /\ line'[l] = line[l]
    BY <1>2, <1>3
  <2> QED
    BY <1>2, <2>1, <2>2, <2>3, HeldIsSpent
<1>6. TransfersTypeOK'
  <2>1. hold' \in [Lines -> {"none", "ACTIVE", "CONSUMED", "RELEASED"}] /\ state' \in [Transfers -> States]
    BY <1>1, <1>2 DEF States
  <2> QED
    BY <1>2, <1>5, <2>1 DEF Standing, TransfersTypeOK
<1>7. LinesStand'
  <2> SUFFICES ASSUME NEW l \in Lines
               PROVE  LineStands(state'[TransferOf[l]], line'[l], moved'[l], hold'[l])
    BY DEF LinesStand
  <2>1. CASE TransferOf[l] = t
    BY <1>4, <2>1 DEF LineStands, Planned, Reserving
  <2>2. CASE TransferOf[l] # t
    BY <1>2, <1>3, <2>2 DEF Standing, LinesStand
  <2> QED
    BY <2>1, <2>2
<1>8. Standing'
  BY <1>2, <1>5, <1>6, <1>7 DEF Standing
<1>9. ASSUME Counted PROVE Counted'
  <2>1. \A l \in Lines : state'[TransferOf[l]] \in OnTheWay <=> state[TransferOf[l]] \in OnTheWay
    <3> SUFFICES ASSUME NEW l \in Lines
                 PROVE  state'[TransferOf[l]] \in OnTheWay <=> state[TransferOf[l]] \in OnTheWay
      OBVIOUS
    <3>1. CASE TransferOf[l] = t
      BY <1>2, <1>4, <3>1 DEF OnTheWay
    <3>2. CASE TransferOf[l] # t
      BY <1>3, <3>2
    <3> QED
      BY <3>1, <3>2
  <2>2. LinesAreCounted'
    BY <1>2, <1>9, <2>1 DEF Counted, LinesAreCounted, LineIsCounted
  <2>3. TransitForm(state', line', physical')
    BY <1>2, <1>9, <2>1, TransitStays
  <2> QED
    BY <1>8, <2>2, <2>3 DEF Counted
<1> QED
  BY <1>8, <1>9
-----------------------------------------------------------------------------
\* A movement at one position alone.
LEMMA OneMovesStock ==
  ASSUME physical \in [Places -> [Products -> Nat]], NEW w \in Places, NEW p \in Products, NEW n \in Int,
         \A v \in Places, y \in Products :
            physical'[v][y] = physical[v][y] + (IF v = w /\ y = p THEN n ELSE 0)
  PROVE  \A x \in Products : Stock(physical', x) = Stock(physical, x) + (IF x = p THEN n ELSE 0) /\ Stock(physical, x) \in Int
<1> SUFFICES ASSUME NEW x \in Products
             PROVE  Stock(physical', x) = Stock(physical, x) + (IF x = p THEN n ELSE 0) /\ Stock(physical, x) \in Int
  OBVIOUS
<1> DEFINE old == [v \in Places |-> physical[v][x]]
           new == [v \in Places |-> physical'[v][x]]
           in == [v \in Places |-> IF v = w /\ x = p THEN n ELSE 0]
<1>1. \A v \in Places : old[v] \in Int /\ in[v] \in Int /\ new[v] = old[v] + in[v]
  OBVIOUS
<1>2. in[w] = (IF x = p THEN n ELSE 0) /\ \A v \in Places : v # w => in[v] = 0
  OBVIOUS
<1>3. Stock(physical, x) = SumFunctionOnSet(old, Places) /\ Stock(physical', x) = SumFunctionOnSet(new, Places)
  BY DEF Stock
<1>4. IsFiniteSet(Places)
  BY RoutesAre
<1> HIDE DEF old, new, in
<1>5. SumFunctionOnSet(new, Places) = SumFunctionOnSet(old, Places) + SumFunctionOnSet(in, Places)
  BY <1>1, <1>4, SumAdds
<1>6. SumFunctionOnSet(in, Places) = in[w]
  BY <1>1, <1>2, <1>4, SumSingle
<1>7. SumFunctionOnSet(old, Places) \in Int
  BY <1>1, <1>4, SumPick
<1> QED
  BY <1>2, <1>3, <1>5, <1>6, <1>7

\* Receipts, issues and counts beside the transfers.
LEMMA OtherStands ==
  ASSUME Standing, NEW w \in Warehouses, NEW p \in Products, NEW n \in {-1, 1}, OtherMovement(w, p, n)
  PROVE  Standing' /\ (Counted => Counted')
<1>1. /\ physical \in [Places -> [Products -> Nat]] /\ outside \in [Products -> Int]
      /\ line \in [Lines -> LineType] /\ moved \in [Lines -> MovedType]
  BY DEF Standing, TransfersTypeOK
<1>2. /\ physical[w][p] + n >= 0
      /\ physical' = [physical EXCEPT ![w][p] = physical[w][p] + n]
      /\ outside' = [outside EXCEPT ![p] = outside[p] + n]
      /\ UNCHANGED <<state, line, hold, moved, reserved, bars>>
  BY DEF OtherMovement
<1>3. w \in Places /\ Transit \in Places /\ w # Transit /\ n \in Int
  BY RoutesAre
<1>4. \A v \in Places, x \in Products :
         physical'[v][x] = physical[v][x] + (IF v = w /\ x = p THEN n ELSE 0)
  <2> SUFFICES ASSUME NEW v \in Places, NEW x \in Products
               PROVE  physical'[v][x] = physical[v][x] + (IF v = w /\ x = p THEN n ELSE 0)
    OBVIOUS
  <2>1. physical[v][x] \in Int
    BY <1>1
  <2>2. CASE v = w /\ x = p
    BY <1>1, <1>2, <2>2
  <2>3. CASE ~ (v = w /\ x = p)
    <3>1. physical'[v][x] = physical[v][x]
      BY <1>1, <1>2, <2>3
    <3> QED
      BY <2>1, <2>3, <3>1
  <2> QED
    BY <2>2, <2>3
<1>5. physical' \in [Places -> [Products -> Nat]]
  <2>1. physical[w][p] + n \in Nat
    BY <1>1, <1>2, <1>3
  <2> QED
    BY <1>1, <1>2, <2>1
<1>6. outside' \in [Products -> Int] /\ \A x \in Products : outside'[x] = outside[x] + (IF x = p THEN n ELSE 0)
  <2>1. \A x \in Products : outside[x] \in Int
    BY <1>1
  <2>2. outside' \in [Products -> Int]
    BY <1>1, <1>2, <1>3
  <2>3. ASSUME NEW x \in Products PROVE outside'[x] = outside[x] + (IF x = p THEN n ELSE 0)
    <3>1. outside'[x] = IF x = p THEN outside[p] + n ELSE outside[x]
      BY <1>1, <1>2
    <3> QED
      BY <1>3, <2>1, <3>1
  <2> QED
    BY <2>2, <2>3
<1>7. StockForm(physical', moved', outside')
  <2> SUFFICES ASSUME NEW x \in Products
               PROVE  Stock(physical', x) + SumFunctionOnSet(WasteMask(moved', x), Lines)
                        = SumFunctionOnSet(Opening, Warehouses) + outside'[x]
    BY DEF StockForm
  <2> DEFINE d == IF x = p THEN n ELSE 0
  <2>1. Stock(physical', x) = Stock(physical, x) + d /\ Stock(physical, x) \in Int
    <3>1. Stock(physical', x) = Stock(physical, x) + (IF x = p THEN n ELSE 0) /\ Stock(physical, x) \in Int
      BY <1>1, <1>3, <1>4, OneMovesStock
    <3> QED
      BY <3>1
  <2>2. Stock(physical, x) + SumFunctionOnSet(WasteMask(moved, x), Lines)
          = SumFunctionOnSet(Opening, Warehouses) + outside[x]
    BY DEF Standing, StockForm
  <2>3. SumFunctionOnSet(WasteMask(moved, x), Lines) \in Nat
    BY <1>1, MasksAre
  <2>4. SumFunctionOnSet(Opening, Warehouses) \in Int
    <3>1. \A v \in Warehouses : Opening[v] \in Int
      BY OpeningAssumption
    <3> QED
      BY <3>1, FiniteAssumption, SumPick
  <2>5. outside[x] \in Int /\ outside'[x] = outside[x] + d /\ d \in Int /\ moved' = moved
    BY <1>1, <1>2, <1>3, <1>6
  <2> HIDE DEF d
  <2> QED
    BY <2>1, <2>2, <2>3, <2>4, <2>5
<1>8. Standing'
  <2>1. TransfersTypeOK'
    BY <1>2, <1>5, <1>6 DEF Standing, TransfersTypeOK
  <2>2. LinesStand' /\ HeldForm(state', line', hold', reserved')
    BY <1>2 DEF Standing, LinesStand
  <2> QED
    BY <1>7, <2>1, <2>2 DEF Standing
<1>9. ASSUME Counted PROVE Counted'
  <2>1. \A x \in Products : physical'[Transit][x] = physical[Transit][x]
    <3> SUFFICES ASSUME NEW x \in Products PROVE physical'[Transit][x] = physical[Transit][x]
      OBVIOUS
    <3>1. physical'[Transit][x] = physical[Transit][x] + 0 /\ physical[Transit][x] \in Int
      BY <1>1, <1>3, <1>4
    <3> QED
      BY <3>1
  <2>2. TransitForm(state', line', physical')
    BY <1>2, <1>9, <2>1, TransitStays
  <2>3. LinesAreCounted'
    BY <1>2, <1>9 DEF Counted, LinesAreCounted
  <2> QED
    BY <1>8, <2>2, <2>3 DEF Counted
<1> QED
  BY <1>8, <1>9
-----------------------------------------------------------------------------
\* A receive, a decision or a cancellation takes units out of transit.
LEMMA LeavesStands ==
  ASSUME Standing, NEW t \in Transfers, state[t] \in OnTheWay,
         NEW s \in {"RECEIVED", "PARTIALLY_RECEIVED", "CANCELLED"}, state' = [state EXCEPT ![t] = s],
         UNCHANGED <<hold, reserved, outside, bars>>,
         line' \in [Lines -> LineType], moved' \in [Lines -> MovedType],
         \A l \in Lines : TransferOf[l] # t => line'[l] = line[l] /\ moved'[l] = moved[l],
         \A l \in LinesOf(t) : /\ line'[l].quantity = line[l].quantity /\ line'[l].shipped = line[l].shipped
                               /\ line'[l].received + line'[l].damaged <= line'[l].shipped,
         physical' \in [Places -> [Products -> Nat]], StockForm(physical', moved', outside')
  PROVE  Standing'
<1>1. state \in [Transfers -> States] /\ line \in [Lines -> LineType]
  BY DEF Standing, TransfersTypeOK
<1>2. ASSUME NEW l \in Lines
      PROVE  \/ /\ TransferOf[l] = t /\ l \in LinesOf(t)
                /\ state[TransferOf[l]] \in OnTheWay /\ state'[TransferOf[l]] = s
             \/ /\ state'[TransferOf[l]] = state[TransferOf[l]]
                /\ line'[l] = line[l] /\ moved'[l] = moved[l] /\ TransferOf[l] # t
  BY <1>1, RoutesAre, LinesAreOfTransfers
<1>3. state' \in [Transfers -> States]
  BY <1>1 DEF States
<1>4. \A l \in Lines : /\ line'[l].received + line'[l].damaged <= line'[l].shipped
                       /\ line'[l].shipped <= line'[l].quantity
  <2> SUFFICES ASSUME NEW l \in Lines
               PROVE  /\ line'[l].received + line'[l].damaged <= line'[l].shipped
                      /\ line'[l].shipped <= line'[l].quantity
    OBVIOUS
  <2>1. line[l].received + line[l].damaged <= line[l].shipped /\ line[l].shipped <= line[l].quantity
    BY DEF Standing, TransfersTypeOK
  <2> QED
    BY <1>2, <2>1
<1>5. TransfersTypeOK'
  BY <1>3, <1>4 DEF Standing, TransfersTypeOK
<1>6. LinesStand'
  <2> SUFFICES ASSUME NEW l \in Lines
               PROVE  LineStands(state'[TransferOf[l]], line'[l], moved'[l], hold'[l])
    BY DEF LinesStand
  <2>1. LineStands(state[TransferOf[l]], line[l], moved[l], hold[l])
    BY DEF Standing, LinesStand
  <2>2. CASE TransferOf[l] = t
    <3>1. state'[TransferOf[l]] = s /\ state[TransferOf[l]] \in OnTheWay /\ hold'[l] = hold[l]
      BY <1>2, <2>2
    <3> QED
      BY <2>1, <3>1 DEF LineStands, Planned, Reserving, OnTheWay
  <2>3. CASE TransferOf[l] # t
    <3>1. state'[TransferOf[l]] = state[TransferOf[l]] /\ line'[l] = line[l] /\ moved'[l] = moved[l] /\ hold'[l] = hold[l]
      BY <1>2, <2>3
    <3> QED
      BY <2>1, <3>1
  <2> QED
    BY <2>2, <2>3
<1>7. HeldForm(state', line', hold', reserved')
  <2>1. ASSUME NEW l \in Lines
        PROVE  /\ line'[l].quantity = line[l].quantity
               /\ state'[TransferOf[l]] \in Reserving <=> state[TransferOf[l]] \in Reserving
    BY <1>2 DEF Reserving, OnTheWay
  <2> QED
    BY <2>1, HeldStays
<1> QED
  BY <1>5, <1>6, <1>7 DEF Standing

\* ... and counts them: n and m are a line and its movements before, n2 and m2 after.
LineLeaves(n, m, n2, m2, units) ==
    /\ n2.quantity = n.quantity /\ n2.shipped = n.shipped
    /\ n2.received + n2.resolved = n.received + n.resolved + units
    /\ n2.received + n2.resolved <= n.shipped
    /\ m2.out = m.out /\ m2.entered = m.entered
    /\ m2.left = m2.arrived
    /\ m2.left + m2.wasted = m.left + m.wasted + units

\* ... and what left is what was received or decided.
LEMMA LeavesCounted ==
  ASSUME Counted, Standing', NEW t \in Transfers, state[t] \in OnTheWay,
         NEW s, s = Closing(t, line'), state' = [state EXCEPT ![t] = s],
         NEW q, \A l \in LinesOf(t) : q[l] \in Nat,
         TransitGives(t, q),
         \A l \in Lines : TransferOf[l] # t => line'[l] = line[l] /\ moved'[l] = moved[l],
         \A l \in LinesOf(t) : LineLeaves(line[l], moved[l], line'[l], moved'[l], q[l])
  PROVE  Counted'
<1>1. /\ state \in [Transfers -> States] /\ line \in [Lines -> LineType]
      /\ moved \in [Lines -> MovedType]
  BY DEF Counted, Standing, TransfersTypeOK
<1>2. line' \in [Lines -> LineType] /\ moved' \in [Lines -> MovedType]
  BY DEF Standing, TransfersTypeOK
<1>3. LinesAreCounted'
  <2> SUFFICES ASSUME NEW l \in Lines PROVE LineIsCounted(state'[TransferOf[l]], line'[l], moved'[l])
    BY DEF LinesAreCounted
  <2>1. LineIsCounted(state[TransferOf[l]], line[l], moved[l])
    BY DEF Counted, LinesAreCounted
  <2>2. CASE TransferOf[l] = t
    <3>1. l \in LinesOf(t) /\ state[TransferOf[l]] \in OnTheWay
      BY <2>2, LinesAreOfTransfers
    <3>2. /\ line[l].shipped = line[l].quantity /\ moved[l].out = line[l].shipped
          /\ moved[l].entered = line[l].shipped
          /\ moved[l].left + moved[l].wasted = line[l].received + line[l].resolved
      BY <2>1, <3>1 DEF LineIsCounted
    <3>3. /\ line'[l].quantity = line[l].quantity /\ line'[l].shipped = line[l].shipped
          /\ line'[l].received + line'[l].resolved = line[l].received + line[l].resolved + q[l]
          /\ line'[l].received + line'[l].resolved <= line[l].shipped
          /\ moved'[l].out = moved[l].out /\ moved'[l].entered = moved[l].entered
          /\ moved'[l].left = moved'[l].arrived
          /\ moved'[l].left + moved'[l].wasted = moved[l].left + moved[l].wasted + q[l]
      BY <3>1 DEF LineLeaves
    <3> QED
      BY <3>2, <3>3 DEF LineIsCounted
  <2>3. CASE TransferOf[l] # t
    <3>1. state'[TransferOf[l]] = state[TransferOf[l]] /\ line'[l] = line[l] /\ moved'[l] = moved[l]
      BY <1>1, <2>3, RoutesAre
    <3> QED
      BY <2>1, <3>1
  <2> QED
    BY <2>2, <2>3
<1>6. state'[t] = s
  BY <1>1
<1>4. \A l \in LinesOf(t) : RestFalls(state'[t], line[l], line'[l], q[l])
  <2> SUFFICES ASSUME NEW l \in LinesOf(t)
               PROVE  RestOf(line[l]) = (IF s \in OnTheWay THEN RestOf(line'[l]) ELSE 0) + q[l]
    BY <1>6 DEF RestFalls
  <2>1. l \in Lines /\ TransferOf[l] = t
    BY LinesAreOfTransfers
  <2>2. line[l] \in LineType /\ line'[l] \in LineType /\ q[l] \in Nat
    BY <1>1, <1>2, <2>1
  <2>3. /\ line[l].shipped \in Nat /\ line[l].received \in Nat /\ line[l].resolved \in Nat
        /\ line'[l].shipped \in Nat /\ line'[l].received \in Nat /\ line'[l].resolved \in Nat
    BY <2>2 DEF LineType
  <2>4. /\ line'[l].shipped = line[l].shipped
        /\ line'[l].received + line'[l].resolved = line[l].received + line[l].resolved + q[l]
        /\ line'[l].received + line'[l].resolved <= line[l].shipped
    BY DEF LineLeaves
  <2>5. RestOf(line[l]) = line[l].shipped - line[l].received - line[l].resolved
    BY <2>2, <2>3, <2>4 DEF RestOf
  <2>6. RestOf(line'[l]) = line'[l].shipped - line'[l].received - line'[l].resolved
    BY <2>2, <2>3, <2>4 DEF RestOf
  <2>7. CASE s \in OnTheWay
    <3>1. \A a, b, c, d, e, u \in Int : d + e = b + c + u => a - b - c = (a - d - e) + u
      OBVIOUS
    <3>2. line[l].shipped - line[l].received - line[l].resolved
            = (line[l].shipped - line'[l].received - line'[l].resolved) + q[l]
      BY <2>2, <2>3, <2>4, <3>1
    <3> QED
      BY <2>4, <2>5, <2>6, <2>7, <3>2
  <2>8. CASE s \notin OnTheWay
    <3>1. line'[l].received + line'[l].resolved >= line'[l].shipped
      BY <2>8 DEF Closing, OnTheWay
    <3> QED
      BY <2>2, <2>3, <2>4, <2>5, <2>8, <3>1
  <2> QED
    BY <2>7, <2>8
<1>5. TransitForm(state', line', physical')
  <2>1. \A l \in LinesOf(t) : q[l] \in Int
    OBVIOUS
  <2>2. \A l \in Lines :
            TransferOf[l] # t => state'[TransferOf[l]] = state[TransferOf[l]] /\ line'[l] = line[l]
    BY <1>1, RoutesAre
  <2> QED
    BY <1>2, <1>4, <2>1, <2>2, TransitFollows
<1> QED
  BY <1>3, <1>5 DEF Counted

\* A carry out of transit leaves what it carries.
LEMMA CarryLeaves ==
  ASSUME physical \in [Places -> [Products -> Nat]], NEW t \in Transfers, NEW to \in Warehouses,
         NEW q, \A l \in LinesOf(t) : q[l] \in Nat, MayLeaveTransit(t, q),
         physical' = Carry(Transit, to, t, q)
  PROVE  physical' \in [Places -> [Products -> Nat]] /\ TransitGives(t, q)
<1>1. Transit \in Places /\ to \in Places /\ to # Transit
  BY RoutesAre
<1>2. \A p \in Products : Load(t, q, p) <= physical[Transit][p]
  BY DEF MayLeaveTransit
<1>3. physical' \in [Places -> [Products -> Nat]]
  BY <1>1, <1>2, CarryIsStock
<1>4. ASSUME NEW p \in Products PROVE physical'[Transit][p] = physical[Transit][p] - Load(t, q, p)
  <2>1. physical'[Transit][p] = physical[Transit][p] + 0 - Load(t, q, p)
    BY <1>1 DEF Carry
  <2>2. physical[Transit][p] \in Int /\ Load(t, q, p) \in Int
    BY <1>1, LoadIsNatural
  <2> QED
    BY <2>1, <2>2
<1> QED
  BY <1>3, <1>4 DEF TransitGives

ReceivedLine(n, x, y) == [n EXCEPT !.received = x, !.damaged = y]
\* A line with other received and damaged quantities.
LEMMA ReceivedLineIs ==
  ASSUME NEW n, n \in LineType, NEW x, x \in Nat, NEW y, y \in Nat, NEW c, c = ReceivedLine(n, x, y)
  PROVE  /\ c \in LineType /\ c.received = x /\ c.damaged = y
         /\ c.quantity = n.quantity /\ c.shipped = n.shipped /\ c.resolved = n.resolved
<1> DEFINE a == [n EXCEPT !.received = x]
           b == [a EXCEPT !.damaged = y]
<1>1. n \in [quantity: Nat, shipped: Nat, received: Nat, damaged: Nat, resolved: Nat]
  BY DEF LineType
<1>2. /\ a \in LineType /\ a.received = x /\ a.damaged = n.damaged
      /\ a.quantity = n.quantity /\ a.shipped = n.shipped /\ a.resolved = n.resolved
  BY <1>1 DEF LineType
<1>3. c = b
  BY <1>1 DEF ReceivedLine
<1> HIDE DEF a
<1>4. /\ b \in LineType /\ b.received = a.received /\ b.damaged = y
      /\ b.quantity = a.quantity /\ b.shipped = a.shipped /\ b.resolved = a.resolved
  BY <1>2 DEF LineType
<1> HIDE DEF b
<1> QED
  BY <1>2, <1>3, <1>4

\* What a line can still receive.
LEMMA RemainingIs ==
  ASSUME NEW l \in Lines, line[l] \in LineType
  PROVE  /\ Remaining(l) <= line[l].shipped - line[l].received - line[l].damaged
         /\ Remaining(l) <= line[l].shipped - line[l].received - line[l].resolved
         /\ Remaining(l) \in Int
<1>1. /\ line[l].shipped \in Int /\ line[l].received \in Int /\ line[l].damaged \in Int
      /\ line[l].resolved \in Int
  BY DEF LineType
<1>2. /\ Max({line[l].damaged, line[l].resolved}) \in Int
      /\ line[l].damaged <= Max({line[l].damaged, line[l].resolved})
      /\ line[l].resolved <= Max({line[l].damaged, line[l].resolved})
  BY <1>1, MaxOfTwo
<1> QED
  BY <1>1, <1>2 DEF Remaining

\* A received transfer is closed or partly received.
LEMMA ClosingIs ==
  ASSUME NEW t, NEW ln
  PROVE  Closing(t, ln) \in {"RECEIVED", "PARTIALLY_RECEIVED"}
BY DEF Closing

\* A receipt brings units to the target.
LEMMA ReceiveStands ==
  ASSUME Standing, NEW t \in Transfers, NEW r \in [LinesOf(t) -> Amounts], NEW d \in [LinesOf(t) -> Amounts],
         Receive(t, r, d)
  PROVE  Standing' /\ (Counted => Counted')
<1>1. /\ line \in [Lines -> LineType] /\ moved \in [Lines -> MovedType]
      /\ physical \in [Places -> [Products -> Nat]] /\ state \in [Transfers -> States]
  BY DEF Standing, TransfersTypeOK
<1>2. \A l \in LinesOf(t) : r[l] \in Nat /\ d[l] \in Nat
  BY AmountsAreNatural
<1>3. /\ Open(t) /\ MayLeaveTransit(t, r)
      /\ \A l \in LinesOf(t) : r[l] + d[l] <= Remaining(l)
      /\ physical' = Carry(Transit, ToPlace[t], t, r)
      /\ moved' = [l \in Lines |-> IF TransferOf[l] = t THEN Passed(moved[l], r[l]) ELSE moved[l]]
      /\ line' = [l \in Lines |-> IF TransferOf[l] = t
                    THEN [line[l] EXCEPT !.received = line[l].received + r[l], !.damaged = line[l].damaged + d[l]]
                    ELSE line[l]]
      /\ state' = [state EXCEPT ![t] = Closing(t, line')]
      /\ UNCHANGED <<hold, reserved, outside, bars>>
  BY DEF Receive
<1>4. state[t] \in OnTheWay /\ Closing(t, line') \in {"RECEIVED", "PARTIALLY_RECEIVED", "CANCELLED"}
  BY <1>3, ClosingIs DEF Open, OnTheWay
<1>5. ASSUME NEW l \in Lines, TransferOf[l] = t
      PROVE  /\ line'[l] \in LineType /\ moved'[l] \in MovedType
             /\ line'[l].received = line[l].received + r[l] /\ line'[l].damaged = line[l].damaged + d[l]
             /\ line'[l].quantity = line[l].quantity /\ line'[l].shipped = line[l].shipped
             /\ line'[l].resolved = line[l].resolved
             /\ line'[l].received + line'[l].damaged <= line'[l].shipped
             /\ line'[l].received + line'[l].resolved <= line'[l].shipped
             /\ moved'[l].left = moved[l].left + r[l] /\ moved'[l].arrived = moved[l].arrived + r[l]
             /\ moved'[l].out = moved[l].out /\ moved'[l].entered = moved[l].entered
             /\ moved'[l].wasted = moved[l].wasted
  <2>1. /\ l \in LinesOf(t) /\ r[l] \in Nat /\ d[l] \in Nat /\ line[l] \in LineType /\ moved[l] \in MovedType
        /\ r[l] + d[l] <= Remaining(l)
    BY <1>1, <1>2, <1>3, <1>5, LinesAreOfTransfers
  <2> DEFINE x == line[l].received + r[l]
             y == line[l].damaged + d[l]
             c == ReceivedLine(line[l], x, y)
             m == Passed(moved[l], r[l])
  <2>2. line'[l] = c /\ moved'[l] = m
    BY <1>3, <1>5 DEF ReceivedLine
  <2>3. /\ c \in LineType
        /\ c.received = line[l].received + r[l] /\ c.damaged = line[l].damaged + d[l]
        /\ c.quantity = line[l].quantity /\ c.shipped = line[l].shipped /\ c.resolved = line[l].resolved
    <3>1. x \in Nat /\ y \in Nat
      BY <2>1 DEF LineType
    <3>2. line[l] \in LineType /\ c = ReceivedLine(line[l], x, y)
      BY <2>1
    <3> HIDE DEF x, y, c
    <3>3. /\ c \in LineType /\ c.received = x /\ c.damaged = y
          /\ c.quantity = line[l].quantity /\ c.shipped = line[l].shipped /\ c.resolved = line[l].resolved
      BY <3>1, <3>2, ReceivedLineIs
    <3> QED
      BY <3>3 DEF x, y
  <2>4. /\ m \in MovedType /\ m.left = moved[l].left + r[l] /\ m.arrived = moved[l].arrived + r[l]
        /\ m.out = moved[l].out /\ m.entered = moved[l].entered /\ m.wasted = moved[l].wasted
    BY <2>1, MovementsAre
  <2> HIDE DEF c, m
  <2>5. /\ Remaining(l) <= line[l].shipped - line[l].received - line[l].damaged
        /\ Remaining(l) <= line[l].shipped - line[l].received - line[l].resolved
        /\ Remaining(l) \in Int
    BY <2>1, RemainingIs
  <2>6. /\ line[l].shipped \in Nat /\ line[l].received \in Nat /\ line[l].damaged \in Nat
        /\ line[l].resolved \in Nat
    BY <2>1 DEF LineType
  <2>7. /\ line[l].received + r[l] + (line[l].damaged + d[l]) <= line[l].shipped
        /\ line[l].received + r[l] + line[l].resolved <= line[l].shipped
    BY <2>1, <2>5, <2>6
  <2> QED
    BY <2>2, <2>3, <2>4, <2>7
<1>6. ASSUME NEW l \in Lines, TransferOf[l] # t PROVE line'[l] = line[l] /\ moved'[l] = moved[l]
  BY <1>3, <1>6
<1>7. line' \in [Lines -> LineType] /\ moved' \in [Lines -> MovedType]
  <2>1. \A l \in Lines : line'[l] \in LineType /\ moved'[l] \in MovedType
    BY <1>1, <1>5, <1>6
  <2> QED
    BY <1>3, <2>1
<1>8. ToPlace[t] \in Warehouses /\ ToPlace[t] \in Places /\ Transit \in Places
  BY RoutesAre
<1>9. physical' \in [Places -> [Products -> Nat]] /\ TransitGives(t, r)
  BY <1>1, <1>2, <1>3, <1>8, CarryLeaves
<1>10. StockForm(physical', moved', outside')
  <2>1. \A l \in Lines : moved'[l].wasted = moved[l].wasted
    BY <1>5, <1>6
  <2>2. \A l \in LinesOf(t) : r[l] \in Int
    BY <1>2
  <2> QED
    BY <1>3, <1>8, <2>1, <2>2, StockStays
<1>11. Standing'
  <2>1. \A l \in Lines : TransferOf[l] # t => line'[l] = line[l] /\ moved'[l] = moved[l]
    BY <1>6
  <2>2. \A l \in LinesOf(t) : /\ line'[l].quantity = line[l].quantity /\ line'[l].shipped = line[l].shipped
                              /\ line'[l].received + line'[l].damaged <= line'[l].shipped
    BY <1>5, LinesAreOfTransfers
  <2> QED
    BY <1>3, <1>4, <1>7, <1>9, <1>10, <2>1, <2>2, LeavesStands
<1>12. ASSUME Counted PROVE Counted'
  <2>1. ASSUME NEW l \in LinesOf(t) PROVE LineLeaves(line[l], moved[l], line'[l], moved'[l], r[l])
    <3>1. l \in Lines /\ TransferOf[l] = t
      BY LinesAreOfTransfers
    <3>2. LineIsCounted(state[TransferOf[l]], line[l], moved[l])
      BY <1>12, <3>1 DEF Counted, LinesAreCounted
    <3>3. moved[l].left = moved[l].arrived
      BY <1>4, <3>1, <3>2 DEF LineIsCounted
    <3>4. /\ moved[l] \in MovedType /\ line[l] \in LineType /\ r[l] \in Nat
      BY <1>1, <1>2, <3>1
    <3>5. /\ moved[l].left \in Nat /\ moved[l].wasted \in Nat
          /\ line[l].received \in Nat /\ line[l].resolved \in Nat
      BY <3>4 DEF MovedType, LineType
    <3> QED
      BY <1>5, <3>1, <3>3, <3>4, <3>5 DEF LineLeaves
  <2>2. \A l \in Lines : TransferOf[l] # t => line'[l] = line[l] /\ moved'[l] = moved[l]
    BY <1>6
  <2> QED
    BY <1>2, <1>3, <1>4, <1>9, <1>11, <1>12, <2>1, <2>2, LeavesCounted
<1> QED
  BY <1>11, <1>12

\* A cancellation after shipment sends back what is outstanding.
LEMMA CancelShippedStands ==
  ASSUME Standing, NEW t \in Transfers, CancelShipped(t)
  PROVE  Standing' /\ (Counted => Counted')
<1> DEFINE q == OutstandingOf(t)
<1>1. /\ line \in [Lines -> LineType] /\ moved \in [Lines -> MovedType]
      /\ physical \in [Places -> [Products -> Nat]] /\ state \in [Transfers -> States]
  BY DEF Standing, TransfersTypeOK
<1>2. \A l \in Lines : Outstanding(l) \in Nat /\ Outstanding(l) = RestOf(line[l])
  <2> SUFFICES ASSUME NEW l \in Lines PROVE Outstanding(l) \in Nat /\ Outstanding(l) = RestOf(line[l])
    OBVIOUS
  <2>1. line[l].shipped \in Nat /\ line[l].received \in Nat /\ line[l].resolved \in Nat
    BY <1>1 DEF LineType
  <2> QED
    BY <2>1 DEF Outstanding, RestOf
<1>3. \A l \in LinesOf(t) : q[l] \in Nat /\ q[l] = RestOf(line[l])
  BY <1>2, LinesAreOfTransfers DEF OutstandingOf
<1>4. /\ Open(t) /\ MayLeaveTransit(t, q)
      /\ physical' = Carry(Transit, FromPlace[t], t, q)
      /\ moved' = [l \in Lines |-> IF TransferOf[l] = t THEN Passed(moved[l], Outstanding(l)) ELSE moved[l]]
      /\ state' = [state EXCEPT ![t] = "CANCELLED"]
      /\ UNCHANGED <<line, hold, reserved, outside, bars>>
  BY DEF CancelShipped, CancelAccepted, AfterReturn
<1>5. state[t] \in OnTheWay
  BY <1>4 DEF Open, OnTheWay
<1>6. \A l \in Lines : moved'[l] \in MovedType /\ moved'[l].wasted = moved[l].wasted
  <2> SUFFICES ASSUME NEW l \in Lines PROVE moved'[l] \in MovedType /\ moved'[l].wasted = moved[l].wasted
    OBVIOUS
  <2>1. moved[l] \in MovedType /\ Outstanding(l) \in Nat
    BY <1>1, <1>2
  <2>2. CASE TransferOf[l] = t
    <3>1. Passed(moved[l], Outstanding(l)) \in MovedType /\ Passed(moved[l], Outstanding(l)).wasted = moved[l].wasted
      BY <2>1, MovementsAre
    <3> QED
      BY <1>4, <2>2, <3>1
  <2>3. CASE TransferOf[l] # t
    BY <1>4, <2>1, <2>3
  <2> QED
    BY <2>2, <2>3
<1>7. line' \in [Lines -> LineType] /\ moved' \in [Lines -> MovedType]
  BY <1>1, <1>4, <1>6
<1>8. FromPlace[t] \in Warehouses /\ FromPlace[t] \in Places /\ Transit \in Places
  BY RoutesAre
<1>9. physical' \in [Places -> [Products -> Nat]] /\ TransitGives(t, q)
  <2> HIDE DEF q
  <2> QED
    BY <1>1, <1>3, <1>4, <1>8, CarryLeaves
<1>10. StockForm(physical', moved', outside')
  <2>1. \A l \in LinesOf(t) : q[l] \in Int
    BY <1>3
  <2> HIDE DEF q
  <2> QED
    BY <1>4, <1>6, <1>8, <2>1, StockStays
<1>11. \A l \in Lines : TransferOf[l] # t => line'[l] = line[l] /\ moved'[l] = moved[l]
  BY <1>4
<1>12. Standing'
  <2>1. \A l \in LinesOf(t) : /\ line'[l].quantity = line[l].quantity /\ line'[l].shipped = line[l].shipped
                              /\ line'[l].received + line'[l].damaged <= line'[l].shipped
    BY <1>4, LinesAreOfTransfers DEF Standing, TransfersTypeOK
  <2> QED
    BY <1>4, <1>5, <1>7, <1>9, <1>10, <1>11, <2>1, LeavesStands
<1>13. ASSUME Counted PROVE Counted'
  <2>1. state'[t] = "CANCELLED"
    BY <1>1, <1>4
  <2>2. LinesAreCounted'
    <3> SUFFICES ASSUME NEW l \in Lines PROVE LineIsCounted(state'[TransferOf[l]], line'[l], moved'[l])
      BY DEF LinesAreCounted
    <3>1. CASE TransferOf[l] = t
      BY <2>1, <3>1 DEF LineIsCounted, OnTheWay
    <3>2. CASE TransferOf[l] # t
      <4>1. state'[TransferOf[l]] = state[TransferOf[l]] /\ line'[l] = line[l] /\ moved'[l] = moved[l]
        BY <1>1, <1>4, <1>11, <3>2, RoutesAre
      <4> QED
        BY <1>13, <4>1 DEF Counted, LinesAreCounted
    <3> QED
      BY <3>1, <3>2
  <2>3. \A l \in LinesOf(t) : RestFalls(state'[t], line[l], line'[l], q[l])
    <3> SUFFICES ASSUME NEW l \in LinesOf(t) PROVE RestFalls(state'[t], line[l], line'[l], q[l])
      OBVIOUS
    <3>1. q[l] = RestOf(line[l]) /\ q[l] \in Nat
      BY <1>3
    <3>2. state'[t] \notin OnTheWay
      BY <2>1 DEF OnTheWay
    <3> HIDE DEF q
    <3> QED
      BY <3>1, <3>2 DEF RestFalls
  <2>4. \A l \in LinesOf(t) : q[l] \in Int
    BY <1>3
  <2>5. \A l \in Lines :
            TransferOf[l] # t => state'[TransferOf[l]] = state[TransferOf[l]] /\ line'[l] = line[l]
    BY <1>1, <1>4, RoutesAre
  <2>6. TransitForm(state', line', physical')
    <3> HIDE DEF q
    <3> QED
      BY <1>5, <1>7, <1>9, <1>13, <2>3, <2>4, <2>5, TransitFollows
  <2> QED
    BY <1>12, <2>2, <2>6 DEF Counted
<1> QED
  BY <1>12, <1>13

-----------------------------------------------------------------------------
\* What a step does to one line alone.
LEMMA OneLineLeaves ==
  ASSUME Standing, NEW t \in Transfers, NEW l \in LinesOf(t), NEW n \in Nat, state[t] \in OnTheWay,
         NEW c \in LineType, NEW m \in MovedType,
         line' = [line EXCEPT ![l] = c], moved' = [moved EXCEPT ![l] = m],
         c.quantity = line[l].quantity, c.shipped = line[l].shipped, c.received + c.damaged <= c.shipped,
         state' = [state EXCEPT ![t] = Closing(t, line')],
         UNCHANGED <<hold, reserved, outside, bars>>,
         physical' \in [Places -> [Products -> Nat]], StockForm(physical', moved', outside'),
         TransitGives(t, OnlyOne(t, l, n))
  PROVE  Standing' /\ (Counted /\ LineLeaves(line[l], moved[l], c, m, n) => Counted')
<1>1. line \in [Lines -> LineType] /\ moved \in [Lines -> MovedType]
  BY DEF Standing, TransfersTypeOK
<1>2. l \in Lines /\ TransferOf[l] = t
  BY LinesAreOfTransfers
<1>3. line' \in [Lines -> LineType] /\ moved' \in [Lines -> MovedType]
  BY <1>1
<1>4. line'[l] = c /\ moved'[l] = m /\ \A k \in Lines : k # l => line'[k] = line[k] /\ moved'[k] = moved[k]
  BY <1>1, <1>2
<1>5. \A k \in Lines : TransferOf[k] # t => line'[k] = line[k] /\ moved'[k] = moved[k]
  BY <1>2, <1>4
<1>6. ASSUME NEW k \in LinesOf(t)
      PROVE  /\ line'[k].quantity = line[k].quantity /\ line'[k].shipped = line[k].shipped
             /\ line'[k].received + line'[k].damaged <= line'[k].shipped
  <2>1. k \in Lines
    BY LinesAreOfTransfers
  <2>2. CASE k = l
    BY <1>4, <2>2
  <2>3. CASE k # l
    BY <1>4, <2>1, <2>3 DEF Standing, TransfersTypeOK
  <2> QED
    BY <2>2, <2>3
<1>7. Standing'
  <2>1. Closing(t, line') \in {"RECEIVED", "PARTIALLY_RECEIVED", "CANCELLED"}
    BY ClosingIs
  <2> QED
    BY <1>3, <1>5, <1>6, <2>1, LeavesStands
<1>8. ASSUME Counted, LineLeaves(line[l], moved[l], c, m, n) PROVE Counted'
  <2> DEFINE q == OnlyOne(t, l, n)
  <2>1. \A k \in LinesOf(t) : q[k] \in Nat /\ q[k] = IF k = l THEN n ELSE 0
    BY DEF OnlyOne
  <2> HIDE DEF q
  <2>2. ASSUME NEW k \in LinesOf(t) PROVE LineLeaves(line[k], moved[k], line'[k], moved'[k], q[k])
    <3>1. CASE k = l
      BY <1>4, <1>8, <2>1, <3>1
    <3>2. CASE k # l
      <4>1. k \in Lines /\ TransferOf[k] = t
        BY LinesAreOfTransfers
      <4>2. line'[k] = line[k] /\ moved'[k] = moved[k] /\ q[k] = 0
        BY <1>4, <2>1, <3>2, <4>1
      <4>3. LineIsCounted(state[TransferOf[k]], line[k], moved[k])
        BY <1>8, <4>1 DEF Counted, LinesAreCounted
      <4>4. moved[k].left = moved[k].arrived /\ line[k].received + line[k].resolved <= line[k].shipped
        BY <4>1, <4>3 DEF LineIsCounted
      <4>5. line[k] \in LineType /\ moved[k] \in MovedType
        BY <1>1, <4>1
      <4>6. /\ line[k].received \in Nat /\ line[k].resolved \in Nat /\ line[k].shipped \in Nat
            /\ moved[k].left \in Nat /\ moved[k].wasted \in Nat
        BY <4>5 DEF LineType, MovedType
      <4> QED
        BY <4>2, <4>4, <4>6 DEF LineLeaves
    <3> QED
      BY <3>1, <3>2
  <2>3. TransitGives(t, q)
    BY DEF q
  <2>4. \A k \in LinesOf(t) : q[k] \in Nat
    BY <2>1
  <2> QED
    BY <1>5, <1>7, <1>8, <2>2, <2>3, <2>4, LeavesCounted
<1> QED
  BY <1>7, <1>8

\* A receipt that repeats an equal entry keeps the types, the stock and the reservations.
LEMMA ReceiveTwiceStands ==
  ASSUME Standing, NEW t \in Transfers, NEW l \in LinesOf(t),
         NEW e \in Amounts \X Amounts, NEW f \in Amounts \X Amounts, ReceiveTwice(t, l, e, f)
  PROVE  Standing' /\ (~ EqualEntries /\ Counted => Counted')
<1> DEFINE n == e[1] + (IF f = e THEN 0 ELSE f[1])
           only == OnlyOne(t, l, n)
           x == line[l].received + e[1] + f[1]
           y == line[l].damaged + e[2] + f[2]
           c == ReceivedLine(line[l], x, y)
           m == Passed(moved[l], n)
<1>1. /\ line \in [Lines -> LineType] /\ moved \in [Lines -> MovedType]
      /\ physical \in [Places -> [Products -> Nat]]
  BY DEF Standing, TransfersTypeOK
<1>2. l \in Lines /\ TransferOf[l] = t /\ line[l] \in LineType /\ moved[l] \in MovedType
  BY <1>1, LinesAreOfTransfers
<1>3. e[1] \in Nat /\ e[2] \in Nat /\ f[1] \in Nat /\ f[2] \in Nat
  BY DEF Amounts
<1>4. n \in Nat
  BY <1>3
<1>5. x \in Nat /\ y \in Nat
  BY <1>2, <1>3 DEF LineType
<1>6. /\ EqualEntries \/ e # f
      /\ Open(t) /\ MayLeaveTransit(t, only)
      /\ physical' = Carry(Transit, ToPlace[t], t, only)
      /\ moved' = [moved EXCEPT ![l] = m]
      /\ line' = [line EXCEPT ![l].received = x, ![l].damaged = y]
      /\ line'[l].received + line'[l].damaged <= line[l].shipped
      /\ state' = [state EXCEPT ![t] = Closing(t, line')]
      /\ UNCHANGED <<hold, reserved, outside, bars>>
  BY DEF ReceiveTwice, OnlyOne
<1>7. line' = [line EXCEPT ![l] = c]
  BY <1>1, <1>2, <1>6 DEF ReceivedLine
<1>8. /\ c \in LineType /\ c.received = x /\ c.damaged = y
      /\ c.quantity = line[l].quantity /\ c.shipped = line[l].shipped /\ c.resolved = line[l].resolved
  <2> HIDE DEF x, y
  <2> QED
    BY <1>2, <1>5, ReceivedLineIs
<1>9. /\ m \in MovedType /\ m.left = moved[l].left + n /\ m.arrived = moved[l].arrived + n
      /\ m.out = moved[l].out /\ m.entered = moved[l].entered /\ m.wasted = moved[l].wasted
  <2> HIDE DEF n
  <2> QED
    BY <1>2, <1>4, MovementsAre
<1> HIDE DEF m, c
<1>10. c.received + c.damaged <= c.shipped
  BY <1>1, <1>2, <1>6, <1>7, <1>8
<1>11. state[t] \in OnTheWay
  BY <1>6 DEF Open, OnTheWay
<1>12. ToPlace[t] \in Warehouses /\ ToPlace[t] \in Places /\ Transit \in Places
  BY RoutesAre
<1>13. \A k \in LinesOf(t) : only[k] \in Nat /\ only[k] \in Int
  <2> HIDE DEF n
  <2> QED
    BY <1>4 DEF OnlyOne
<1>14. physical' \in [Places -> [Products -> Nat]] /\ TransitGives(t, only)
  <2> HIDE DEF only
  <2> QED
    BY <1>1, <1>6, <1>12, <1>13, CarryLeaves
<1>15. StockForm(physical', moved', outside')
  <2>1. \A k \in Lines : moved'[k].wasted = moved[k].wasted
    BY <1>1, <1>2, <1>6, <1>9
  <2> HIDE DEF only
  <2> QED
    BY <1>6, <1>12, <1>13, <2>1, StockStays
<1>16. Standing' /\ (Counted /\ LineLeaves(line[l], moved[l], c, m, n) => Counted')
  <2> HIDE DEF n
  <2> QED
    BY <1>4, <1>6, <1>7, <1>8, <1>9, <1>10, <1>11, <1>14, <1>15, OneLineLeaves
<1>17. ASSUME ~ EqualEntries, Counted PROVE LineLeaves(line[l], moved[l], c, m, n)
  <2>1. n = e[1] + f[1]
    BY <1>6, <1>17
  <2>2. LineIsCounted(state[TransferOf[l]], line[l], moved[l])
    BY <1>2, <1>17 DEF Counted, LinesAreCounted
  <2>3. /\ moved[l].left = moved[l].arrived
        /\ moved[l].left + moved[l].wasted = line[l].received + line[l].resolved
    BY <1>2, <1>11, <2>2 DEF LineIsCounted
  <2>4. moved[l].left + moved[l].wasted + n <= line[l].shipped
    <3>1. moved[l].left + moved[l].wasted + only[l] <= line[l].shipped
      BY <1>6 DEF MayLeaveTransit
    <3>2. only[l] = n
      BY DEF OnlyOne
    <3> QED
      BY <3>1, <3>2
  <2>5. /\ moved[l].left \in Nat /\ moved[l].wasted \in Nat
        /\ line[l].received \in Nat /\ line[l].resolved \in Nat /\ line[l].shipped \in Nat
    BY <1>2 DEF LineType, MovedType
  <2>6. c.received = line[l].received + n
    BY <1>3, <1>8, <2>1, <2>5
  <2> HIDE DEF n
  <2>7. c.received + c.resolved = line[l].received + line[l].resolved + n
    BY <1>4, <1>8, <2>5, <2>6
  <2>8. m.left + m.wasted = moved[l].left + moved[l].wasted + n /\ m.left = m.arrived
    BY <1>4, <1>9, <2>3, <2>5
  <2> QED
    BY <1>8, <1>9, <2>3, <2>4, <2>7, <2>8 DEF LineLeaves
<1> QED
  BY <1>16, <1>17

\* A decision on what did not arrive: returned, wasted or found.
LEMMA ResolveStands ==
  ASSUME Standing, NEW t \in Transfers, NEW l \in LinesOf(t), NEW kind,
         NEW n \in Amounts \ {0}, Resolve(t, l, kind, n)
  PROVE  Standing' /\ (Counted => Counted')
<1> DEFINE only == OnlyOne(t, l, n)
           c == [line[l] EXCEPT !.resolved = line[l].resolved + n]
<1>1. /\ line \in [Lines -> LineType] /\ moved \in [Lines -> MovedType]
      /\ physical \in [Places -> [Products -> Nat]]
  BY DEF Standing, TransfersTypeOK
<1>2. l \in Lines /\ TransferOf[l] = t /\ line[l] \in LineType /\ moved[l] \in MovedType
  BY <1>1, LinesAreOfTransfers
<1>3. n \in Nat
  BY DEF Amounts
<1>4. /\ Open(t) /\ n <= line[l].shipped - line[l].received - line[l].resolved
      /\ MayLeaveTransit(t, only)
      /\ \/ \E to \in {ToPlace[t], FromPlace[t]} :
              /\ physical' = Carry(Transit, to, t, only)
              /\ moved' = [moved EXCEPT ![l] = Passed(moved[l], n)]
         \/ /\ physical' = [physical EXCEPT ![Transit][ProductOf[l]] = physical[Transit][ProductOf[l]] - n]
            /\ moved' = [moved EXCEPT ![l] = Wasted(moved[l], n)]
      /\ line' = [line EXCEPT ![l] = c]
      /\ state' = [state EXCEPT ![t] = Closing(t, line')]
      /\ UNCHANGED <<hold, reserved, outside, bars>>
  BY DEF Resolve, OnlyOne
<1>5. /\ c \in LineType /\ c.received = line[l].received /\ c.damaged = line[l].damaged
      /\ c.quantity = line[l].quantity /\ c.shipped = line[l].shipped
      /\ c.resolved = line[l].resolved + n
  BY <1>2, <1>3 DEF LineType
<1> HIDE DEF c
<1>6. c.received + c.damaged <= c.shipped
  BY <1>2, <1>5 DEF Standing, TransfersTypeOK
<1>7. state[t] \in OnTheWay
  BY <1>4 DEF Open, OnTheWay
<1>8. /\ ToPlace[t] \in Warehouses /\ FromPlace[t] \in Warehouses /\ Warehouses \subseteq Places
      /\ Transit \in Places /\ ProductOf[l] \in Products
  BY <1>2, RoutesAre
<1>9. \A k \in LinesOf(t) : only[k] \in Nat /\ only[k] \in Int
  BY <1>3 DEF OnlyOne
<1>10. ASSUME Counted PROVE LineIsCounted(state[t], line[l], moved[l])
  BY <1>2, <1>10 DEF Counted, LinesAreCounted
<1>11. ASSUME NEW m \in MovedType, m.out = moved[l].out, m.entered = moved[l].entered, Counted,
              \/ m.left = moved[l].left + n /\ m.arrived = moved[l].arrived + n /\ m.wasted = moved[l].wasted
              \/ m.left = moved[l].left /\ m.arrived = moved[l].arrived /\ m.wasted = moved[l].wasted + n
       PROVE  LineLeaves(line[l], moved[l], c, m, n)
  <2>1. moved[l].left = moved[l].arrived
    BY <1>7, <1>10, <1>11 DEF LineIsCounted
  <2>2. /\ moved[l].left \in Nat /\ moved[l].wasted \in Nat
        /\ line[l].received \in Nat /\ line[l].resolved \in Nat /\ line[l].shipped \in Nat
    BY <1>2 DEF LineType, MovedType
  <2>3. /\ c.received + c.resolved = line[l].received + line[l].resolved + n
        /\ c.received + c.resolved <= line[l].shipped
    BY <1>3, <1>4, <1>5, <2>2
  <2>4. m.left + m.wasted = moved[l].left + moved[l].wasted + n /\ m.left = m.arrived
    BY <1>3, <1>11, <2>1, <2>2
  <2> QED
    BY <1>5, <1>11, <2>3, <2>4 DEF LineLeaves
<1>12. CASE \E to \in {ToPlace[t], FromPlace[t]} :
              /\ physical' = Carry(Transit, to, t, only)
              /\ moved' = [moved EXCEPT ![l] = Passed(moved[l], n)]
  <2>1. PICK to \in {ToPlace[t], FromPlace[t]} :
              /\ physical' = Carry(Transit, to, t, only)
              /\ moved' = [moved EXCEPT ![l] = Passed(moved[l], n)]
    BY <1>12
  <2> DEFINE m == Passed(moved[l], n)
  <2>2. to \in Warehouses /\ to \in Places
    BY <1>8
  <2>3. /\ m \in MovedType /\ m.left = moved[l].left + n /\ m.arrived = moved[l].arrived + n
        /\ m.out = moved[l].out /\ m.entered = moved[l].entered /\ m.wasted = moved[l].wasted
    BY <1>2, <1>3, MovementsAre
  <2>4. moved' = [moved EXCEPT ![l] = m]
    BY <2>1
  <2> HIDE DEF m, only
  <2>5. physical' \in [Places -> [Products -> Nat]] /\ TransitGives(t, only)
    BY <1>1, <1>4, <1>9, <2>1, <2>2, CarryLeaves
  <2>6. StockForm(physical', moved', outside')
    <3>1. \A k \in Lines : moved'[k].wasted = moved[k].wasted
      BY <1>1, <1>2, <2>3, <2>4
    <3> QED
      BY <1>4, <1>8, <1>9, <2>1, <2>2, <3>1, StockStays
  <2>7. Standing' /\ (Counted /\ LineLeaves(line[l], moved[l], c, m, n) => Counted')
    BY <1>3, <1>4, <1>5, <1>6, <1>7, <2>3, <2>4, <2>5, <2>6, OneLineLeaves DEF only
  <2> QED
    BY <1>11, <2>3, <2>7
<1>13. CASE /\ physical' = [physical EXCEPT ![Transit][ProductOf[l]] = physical[Transit][ProductOf[l]] - n]
            /\ moved' = [moved EXCEPT ![l] = Wasted(moved[l], n)]
  <2> DEFINE m == Wasted(moved[l], n)
             p == ProductOf[l]
  <2>1. /\ m \in MovedType /\ m.wasted = moved[l].wasted + n
        /\ m.left = moved[l].left /\ m.arrived = moved[l].arrived
        /\ m.out = moved[l].out /\ m.entered = moved[l].entered
    BY <1>2, <1>3, MovementsAre
  <2>2. moved' = [moved EXCEPT ![l] = m]
    BY <1>13
  <2> HIDE DEF m
  <2>3. \A x \in Products : Load(t, only, x) = IF p = x THEN n ELSE 0
    BY <1>3, LoadOfOne
  <2>4. physical[Transit][p] - n \in Nat
    <3>1. n <= physical[Transit][p]
      BY <1>4, <1>8, <2>3 DEF MayLeaveTransit
    <3>2. physical[Transit][p] \in Nat
      BY <1>1, <1>8
    <3> QED
      BY <1>3, <3>1, <3>2
  <2>5. physical' \in [Places -> [Products -> Nat]]
    BY <1>1, <1>8, <1>13, <2>4
  <2>6. \A v \in Places, x \in Products :
           physical'[v][x] = physical[v][x] + (IF v = Transit /\ x = p THEN 0 - n ELSE 0)
    <3> SUFFICES ASSUME NEW v \in Places, NEW x \in Products
                 PROVE  physical'[v][x] = physical[v][x] + (IF v = Transit /\ x = p THEN 0 - n ELSE 0)
      OBVIOUS
    <3>1. physical[v][x] \in Int
      BY <1>1
    <3>2. CASE v = Transit /\ x = p
      <4>1. physical'[v][x] = physical[Transit][p] - n
        BY <1>1, <1>8, <1>13, <3>2
      <4> HIDE DEF p
      <4> QED
        BY <1>3, <3>1, <3>2, <4>1
    <3>3. CASE ~ (v = Transit /\ x = p)
      <4>1. physical'[v][x] = physical[v][x]
        BY <1>1, <1>13, <3>3
      <4> QED
        BY <3>1, <3>3, <4>1
    <3> QED
      BY <3>2, <3>3
  <2>7. TransitGives(t, only)
    <3> SUFFICES ASSUME NEW x \in Products
                 PROVE  physical'[Transit][x] = physical[Transit][x] - Load(t, only, x)
      BY DEF TransitGives
    <3>1. Load(t, only, x) = IF x = p THEN n ELSE 0
      BY <2>3
    <3>2. physical'[Transit][x] = physical[Transit][x] + (IF x = p THEN 0 - n ELSE 0)
      BY <1>8, <2>6
    <3>3. physical[Transit][x] \in Int
      BY <1>1, <1>8
    <3> HIDE DEF only, p
    <3> QED
      BY <1>3, <3>1, <3>2, <3>3
  <2>8. StockForm(physical', moved', outside')
    <3> SUFFICES ASSUME NEW x \in Products
                 PROVE  Stock(physical', x) + SumFunctionOnSet(WasteMask(moved', x), Lines)
                          = SumFunctionOnSet(Opening, Warehouses) + outside'[x]
      BY DEF StockForm
    <3> DEFINE old == WasteMask(moved, x)
               new == WasteMask(moved', x)
               in == [k \in Lines |-> IF k = l /\ x = p THEN n ELSE 0]
    <3>1. ASSUME NEW k \in Lines PROVE old[k] \in Int /\ in[k] \in Int /\ new[k] = old[k] + in[k]
      <4>1. moved[k] \in MovedType
        BY <1>1
      <4>2. moved[k].wasted \in Nat
        BY <4>1 DEF MovedType
      <4>3. moved'[k].wasted = moved[k].wasted + (IF k = l THEN n ELSE 0)
        <5>1. CASE k = l
          BY <1>1, <1>2, <2>1, <2>2, <5>1
        <5>2. CASE k # l
          <6>1. moved'[k] = moved[k]
            BY <1>1, <2>2, <5>2
          <6> QED
            BY <4>2, <5>2, <6>1
        <5> QED
          BY <5>1, <5>2
      <4> QED
        BY <1>3, <4>2, <4>3 DEF WasteMask
    <3>2. in[l] = (IF x = p THEN n ELSE 0) /\ in[l] \in Int /\ \A k \in Lines : k # l => in[k] = 0
      BY <1>2, <1>3
    <3>3. Stock(physical', x) = Stock(physical, x) + (IF x = p THEN 0 - n ELSE 0) /\ Stock(physical, x) \in Int
      <4>1. 0 - n \in Int
        BY <1>3
      <4> HIDE DEF p
      <4>2. p \in Products
        BY <1>8 DEF p
      <4> QED
        BY <1>1, <1>8, <2>6, <4>1, <4>2, OneMovesStock, ZenonT(60)
    <3>4. Stock(physical, x) + SumFunctionOnSet(old, Lines) = SumFunctionOnSet(Opening, Warehouses) + outside[x]
      BY DEF Standing, StockForm
    <3> HIDE DEF old, new, in, p
    <3>5. SumFunctionOnSet(new, Lines) = SumFunctionOnSet(old, Lines) + SumFunctionOnSet(in, Lines)
      BY <3>1, RoutesAre, SumAdds
    <3>6. SumFunctionOnSet(in, Lines) = in[l]
      BY <1>2, <3>2, RoutesAre, SumSingle
    <3>7. SumFunctionOnSet(old, Lines) \in Int
      BY <3>1, RoutesAre, SumPick
    <3>8. outside'[x] = outside[x]
      BY <1>4
    <3>9. Stock(physical', x) + SumFunctionOnSet(new, Lines) = SumFunctionOnSet(Opening, Warehouses) + outside'[x]
      BY <1>3, <3>2, <3>3, <3>4, <3>5, <3>6, <3>7, <3>8
    <3> QED
      BY <3>9 DEF new
  <2>9. Standing' /\ (Counted /\ LineLeaves(line[l], moved[l], c, m, n) => Counted')
    BY <1>3, <1>4, <1>5, <1>6, <1>7, <2>1, <2>2, <2>5, <2>7, <2>8, OneLineLeaves
  <2> QED
    BY <1>11, <2>1, <2>9
<1> QED
  BY <1>4, <1>12, <1>13
-----------------------------------------------------------------------------
\* What the invariant says of the code's promises.
LEMMA CountedExplains == Counted => TransfersAreExplained
<1> SUFFICES ASSUME Counted PROVE TransfersAreExplained
  OBVIOUS
<1>1. StockConserved /\ ReservationsAreHeld /\ TransitIsOutstanding
  BY FormsAre DEF Counted, Standing
<1>2. CountersMatchLedger
  <2> SUFFICES ASSUME NEW l \in Lines, Open(TransferOf[l])
               PROVE  moved[l].entered - moved[l].left - moved[l].wasted = Outstanding(l)
    BY DEF CountersMatchLedger
  <2>1. LineIsCounted(state[TransferOf[l]], line[l], moved[l])
    BY DEF Counted, LinesAreCounted
  <2>2. state[TransferOf[l]] \in OnTheWay
    BY DEF Open, OnTheWay
  <2>3. /\ moved[l].entered = line[l].shipped
        /\ moved[l].left + moved[l].wasted = line[l].received + line[l].resolved
        /\ line[l].received + line[l].resolved <= line[l].shipped
    BY <2>1, <2>2 DEF LineIsCounted
  <2>4. line[l] \in LineType /\ moved[l] \in MovedType
    BY DEF Counted, Standing, TransfersTypeOK
  <2>5. /\ moved[l].left \in Nat /\ moved[l].wasted \in Nat
        /\ line[l].received \in Nat /\ line[l].resolved \in Nat /\ line[l].shipped \in Nat
    BY <2>4 DEF LineType, MovedType
  <2> QED
    BY <2>3, <2>5 DEF Outstanding
<1> QED
  BY <1>1, <1>2 DEF TransfersAreExplained

\* ... and of the cancellation of a shipped transfer.
LEMMA CountedCancels == Counted => OpenCanBeCancelled
<1> SUFFICES ASSUME Counted, NEW t \in Transfers, Open(t), ~ BarredOnTheWayBack(t)
             PROVE  CancelAccepted(t)
  BY DEF OpenCanBeCancelled
<1> DEFINE q == OutstandingOf(t)
<1>1. /\ line \in [Lines -> LineType] /\ moved \in [Lines -> MovedType]
      /\ physical \in [Places -> [Products -> Nat]]
  BY DEF Counted, Standing, TransfersTypeOK
<1>2. state[t] \in OnTheWay
  BY DEF Open, OnTheWay
<1>3. ASSUME NEW l \in LinesOf(t)
      PROVE  /\ l \in Lines /\ TransferOf[l] = t
             /\ q[l] \in Nat /\ q[l] = Outstanding(l) /\ q[l] = RestOf(line[l])
             /\ moved[l] \in MovedType
             /\ moved[l].out = line[l].shipped /\ moved[l].entered = line[l].shipped
             /\ moved[l].left = moved[l].arrived
             /\ moved[l].left + moved[l].wasted + q[l] = line[l].shipped
             /\ line[l].shipped \in Nat /\ moved[l].left \in Nat /\ moved[l].wasted \in Nat
  <2>1. l \in Lines /\ TransferOf[l] = t
    BY LinesAreOfTransfers
  <2>2. LineIsCounted(state[TransferOf[l]], line[l], moved[l])
    BY <2>1 DEF Counted, LinesAreCounted
  <2>3. /\ moved[l].out = line[l].shipped /\ moved[l].entered = line[l].shipped
        /\ moved[l].left = moved[l].arrived
        /\ moved[l].left + moved[l].wasted = line[l].received + line[l].resolved
        /\ line[l].received + line[l].resolved <= line[l].shipped
    BY <1>2, <2>1, <2>2 DEF LineIsCounted
  <2>4. line[l] \in LineType /\ moved[l] \in MovedType
    BY <1>1, <2>1
  <2>5. /\ moved[l].left \in Nat /\ moved[l].wasted \in Nat
        /\ line[l].received \in Nat /\ line[l].resolved \in Nat /\ line[l].shipped \in Nat
    BY <2>4 DEF LineType, MovedType
  <2>9. \A a, b, c \in Nat : b + c <= a => (IF a - b - c <= 0 THEN 0 ELSE a - b - c) = a - b - c
    OBVIOUS
  <2>6. Outstanding(l) = line[l].shipped - line[l].received - line[l].resolved
    BY <2>3, <2>5, <2>9 DEF Outstanding
  <2>7. RestOf(line[l]) = line[l].shipped - line[l].received - line[l].resolved
    BY <2>3, <2>5, <2>9 DEF RestOf
  <2>8. q[l] = Outstanding(l)
    BY DEF OutstandingOf
  <2>10. moved[l].left + moved[l].wasted + q[l] = line[l].shipped /\ q[l] \in Nat
    BY <2>3, <2>5, <2>6, <2>8
  <2> HIDE DEF q
  <2> QED
    BY <2>1, <2>3, <2>4, <2>5, <2>6, <2>7, <2>8, <2>10
<1>4. ASSUME NEW p \in Products PROVE Load(t, q, p) <= physical[Transit][p]
  <2> DEFINE load == LoadMask(t, q, p)
             rest == RestMask(state, line, p)
  <2>1. \A l \in LinesOf(t) : q[l] \in Int
    BY <1>3
  <2>2. \A l \in Lines : rest[l] \in Nat
    BY <1>1, MasksAre
  <2>3. Load(t, q, p) = SumFunctionOnSet(load, Lines) /\ \A l \in Lines : load[l] \in Int
    <3> HIDE DEF q
    <3> QED
      BY <2>1, LoadIs
  <2>4. ASSUME NEW l \in Lines PROVE load[l] <= rest[l]
    <3>1. CASE TransferOf[l] = t
      <4>1. l \in LinesOf(t)
        BY <3>1, LinesAreOfTransfers
      <4>2. q[l] = RestOf(line[l]) /\ q[l] \in Nat
        BY <1>3, <4>1
      <4>3. load[l] = IF ProductOf[l] = p THEN q[l] ELSE 0
        BY <3>1 DEF LoadMask
      <4>4. rest[l] = IF ProductOf[l] = p THEN RestOf(line[l]) ELSE 0
        BY <1>2, <3>1 DEF RestMask
      <4> HIDE DEF q, load, rest
      <4> QED
        BY <4>2, <4>3, <4>4
    <3>2. CASE TransferOf[l] # t
      <4>1. load[l] = 0
        BY <3>2 DEF LoadMask
      <4> HIDE DEF load, rest
      <4> QED
        BY <2>2, <4>1
    <3> QED
      BY <3>1, <3>2
  <2>5. physical[Transit][p] = SumFunctionOnSet(rest, Lines)
    BY DEF Counted, TransitForm
  <2> HIDE DEF load, rest
  <2>6. SumFunctionOnSet(load, Lines) <= SumFunctionOnSet(rest, Lines)
    BY <2>2, <2>3, <2>4, RoutesAre, SumOfLess
  <2> QED
    BY <2>3, <2>5, <2>6
<1>5. MayLeaveTransit(t, q)
  <2>1. \A l \in LinesOf(t) : moved[l].left + moved[l].wasted + q[l] <= line[l].shipped
    BY <1>3
  <2> HIDE DEF q
  <2> QED
    BY <1>4, <2>1 DEF MayLeaveTransit
<1>6. Conserves(t, "CANCELLED", line, AfterReturn(t))
  <2> SUFFICES ASSUME NEW l \in LinesOf(t)
               PROVE  /\ AfterReturn(t)[l].out = line[l].shipped /\ AfterReturn(t)[l].entered = line[l].shipped
                      /\ AfterReturn(t)[l].left = AfterReturn(t)[l].arrived
                      /\ AfterReturn(t)[l].left + AfterReturn(t)[l].wasted = AfterReturn(t)[l].entered
                      /\ AfterReturn(t)[l].left + AfterReturn(t)[l].wasted <= AfterReturn(t)[l].entered
    BY DEF Conserves
  <2> DEFINE m == Passed(moved[l], q[l])
  <2>1. AfterReturn(t)[l] = m
    BY <1>3 DEF AfterReturn
  <2>2. /\ m.left = moved[l].left + q[l] /\ m.arrived = moved[l].arrived + q[l]
        /\ m.out = moved[l].out /\ m.entered = moved[l].entered /\ m.wasted = moved[l].wasted
    <3>1. moved[l] \in MovedType /\ q[l] \in Nat
      BY <1>3
    <3> HIDE DEF q
    <3> QED
      BY <3>1, MovementsAre
  <2>3. /\ q[l] \in Nat /\ moved[l].out = line[l].shipped /\ moved[l].entered = line[l].shipped
        /\ moved[l].left = moved[l].arrived
        /\ moved[l].left + moved[l].wasted + q[l] = line[l].shipped
        /\ line[l].shipped \in Nat /\ moved[l].left \in Nat /\ moved[l].wasted \in Nat
    BY <1>3
  <2> HIDE DEF m, q
  <2>4. m.left + m.wasted = m.entered
    BY <2>2, <2>3
  <2> QED
    BY <2>1, <2>2, <2>3, <2>4
<1>7. MayMove(Transit, t, OutstandingOf(t)) /\ MayMove(FromPlace[t], t, OutstandingOf(t))
  <2> SUFFICES ASSUME NEW l \in LinesOf(t), OutstandingOf(t)[l] > 0
               PROVE  ~ Refused(Transit, ProductOf[l]) /\ ~ Refused(FromPlace[t], ProductOf[l])
    BY DEF MayMove
  <2>1. Outstanding(l) > 0
    BY <1>3
  <2> QED
    BY <2>1 DEF BarredOnTheWayBack
<1> QED
  BY <1>5, <1>6, <1>7 DEF CancelAccepted

\* Every command keeps the invariants.
LEMMA NextStands == Standing /\ [TransfersNext]_transferVars => Standing' /\ (~ EqualEntries /\ Counted => Counted')
<1> SUFFICES ASSUME Standing, [TransfersNext]_transferVars
             PROVE  Standing' /\ (~ EqualEntries /\ Counted => Counted')
  OBVIOUS
<1>1. ASSUME NEW t \in Transfers, NEW s \in Reserving, state[t] \in {"DRAFT", "REQUESTED", "APPROVED"},
             MayReserve(t), reserved' = ReservedBy(t, ToReserve(t), 1), hold' = Held(t, "ACTIVE"),
             state' = [state EXCEPT ![t] = s], UNCHANGED <<line, moved, physical, outside, bars>>
      PROVE  Standing' /\ (Counted => Counted')
  <2>1. Standing'
    BY <1>1, ReserveStands
  <2>2. ASSUME Counted PROVE Counted'
    <3>1. state \in [Transfers -> States]
      BY DEF Standing, TransfersTypeOK
    <3>2. \A l \in Lines : state'[TransferOf[l]] \in OnTheWay <=> state[TransferOf[l]] \in OnTheWay
      <4> SUFFICES ASSUME NEW l \in Lines
                   PROVE  state'[TransferOf[l]] \in OnTheWay <=> state[TransferOf[l]] \in OnTheWay
        OBVIOUS
      <4>1. CASE TransferOf[l] = t
        <5>1. state'[TransferOf[l]] = s
          BY <1>1, <3>1, <4>1
        <5> QED
          BY <1>1, <4>1, <5>1 DEF OnTheWay, Reserving
      <4>2. CASE TransferOf[l] # t
        BY <1>1, <3>1, <4>2, RoutesAre
      <4> QED
        BY <4>1, <4>2
    <3>3. LinesAreCounted'
      BY <1>1, <2>2, <3>2 DEF Counted, LinesAreCounted, LineIsCounted
    <3>4. TransitForm(state', line', physical')
      BY <1>1, <2>2, <3>2, TransitStays
    <3> QED
      BY <2>1, <3>3, <3>4 DEF Counted
  <2> QED
    BY <2>1, <2>2
<1>2. ASSUME NEW t \in Transfers, Request(t) PROVE Standing' /\ (Counted => Counted')
  BY <1>1, <1>2 DEF Request, Reserving
<1>3. ASSUME NEW t \in Transfers, Approve(t) PROVE Standing' /\ (Counted => Counted')
  BY <1>1, <1>3 DEF Approve, Reserving
<1>4. ASSUME NEW t \in Transfers, Ship(t) PROVE Standing' /\ (Counted => Counted')
  BY <1>4, ShipStands
<1>5. ASSUME NEW t \in Transfers, CreateQuick(t) PROVE Standing' /\ (Counted => Counted')
  BY <1>5, QuickStands
<1>6. ASSUME NEW t \in Transfers, CancelPlanned(t) PROVE Standing' /\ (Counted => Counted')
  BY <1>6, CancelPlannedStands
<1>7. ASSUME NEW t \in Transfers, CancelShipped(t) PROVE Standing' /\ (Counted => Counted')
  BY <1>7, CancelShippedStands
<1>8. ASSUME NEW t \in Transfers, NEW r \in [LinesOf(t) -> Amounts], NEW d \in [LinesOf(t) -> Amounts],
             Receive(t, r, d)
      PROVE  Standing' /\ (Counted => Counted')
  BY <1>8, ReceiveStands
<1>9. ASSUME NEW t \in Transfers, NEW l \in LinesOf(t), NEW e \in Amounts \X Amounts,
             NEW f \in Amounts \X Amounts, ReceiveTwice(t, l, e, f)
      PROVE  Standing' /\ (~ EqualEntries /\ Counted => Counted')
  BY <1>9, ReceiveTwiceStands
<1>10. ASSUME NEW t \in Transfers, NEW l \in LinesOf(t), NEW kind, NEW n \in Amounts \ {0},
              Resolve(t, l, kind, n)
       PROVE  Standing' /\ (Counted => Counted')
  BY <1>10, ResolveStands
<1>11. ASSUME NEW w \in Warehouses, NEW p \in Products, NEW n \in {-1, 1}, OtherMovement(w, p, n)
       PROVE  Standing' /\ (Counted => Counted')
  BY <1>11, OtherStands
<1>12. ASSUME UNCHANGED <<state, line, hold, moved, physical, reserved, outside>>,
              bars' \subseteq Barriers
       PROVE  Standing' /\ (Counted => Counted')
  <2>1. TransfersTypeOK' /\ LinesStand' /\ LinesAreCounted' = LinesAreCounted
    BY <1>12 DEF Standing, TransfersTypeOK, LinesStand, LinesAreCounted
  <2>2. /\ StockForm(physical', moved', outside') /\ HeldForm(state', line', hold', reserved')
        /\ TransitForm(state', line', physical') = TransitForm(state, line, physical)
    BY <1>12 DEF Standing
  <2> QED
    BY <2>1, <2>2 DEF Standing, Counted
<1>13. ASSUME NEW b \in Barriers, Bar(b) \/ Unbar(b) PROVE Standing' /\ (Counted => Counted')
  <2>1. bars' \subseteq Barriers
    BY <1>13 DEF Bar, Unbar, Standing, TransfersTypeOK
  <2> QED
    BY <1>12, <1>13, <2>1 DEF Bar, Unbar
<1>14. ASSUME UNCHANGED transferVars PROVE Standing' /\ (Counted => Counted')
  <2>1. bars' \subseteq Barriers
    BY <1>14 DEF transferVars, Standing, TransfersTypeOK
  <2> QED
    BY <1>12, <1>14, <2>1 DEF transferVars
<1> QED
  BY <1>2, <1>3, <1>4, <1>5, <1>6, <1>7, <1>8, <1>9, <1>10, <1>11, <1>13, <1>14 DEF TransfersNext

\* No command makes or loses stock, and a position's reservations are what transfers
\* between request and shipment hold there, also when a receipt repeats an entry
\* (the movements of a command, reserved_quantity; ReceiveTransfer, service.go).
THEOREM TransfersKeepStock == TransfersSpec => [](TransfersTypeOK /\ StockConserved /\ ReservationsAreHeld)
<1>1. TransfersInit => Standing
  BY InitStands DEF Counted
<1>2. Standing /\ [TransfersNext]_transferVars => Standing'
  BY NextStands
<1>3. Standing => TransfersTypeOK /\ StockConserved /\ ReservationsAreHeld
  BY FormsAre DEF Standing
<1> QED
  BY <1>1, <1>2, <1>3, PTL DEF TransfersSpec

\* When no receipt repeats an equal entry, the lines' counters, the movements, the
\* transit stock, the reservations and the stock as a whole always tell the same story,
\* whatever is shipped, received, decided and cancelled (the transfer commands and the
\* triggers of stock_transfer_lines).
THEOREM TransfersStayExplained == ~ EqualEntries => (TransfersSpec => []TransfersAreExplained)
<1> SUFFICES ASSUME ~ EqualEntries PROVE TransfersSpec => []TransfersAreExplained
  OBVIOUS
<1>1. TransfersInit => Counted
  BY InitStands
<1>2. Counted /\ [TransfersNext]_transferVars => Counted'
  BY NextStands DEF Counted
<1> QED
  BY <1>1, <1>2, CountedExplains, PTL DEF TransfersSpec

\* ... and the cancellation of a shipped transfer always finds the units it sends back
\* and is refused only where a locked count scope, an inactive variant or a lot past
\* its date bars the way back (CancelTransfer, service.go).
THEOREM TransfersCanBeCancelled == ~ EqualEntries => (TransfersSpec => []OpenCanBeCancelled)
<1> SUFFICES ASSUME ~ EqualEntries PROVE TransfersSpec => []OpenCanBeCancelled
  OBVIOUS
<1>1. TransfersInit => Counted
  BY InitStands
<1>2. Counted /\ [TransfersNext]_transferVars => Counted'
  BY NextStands DEF Counted
<1> QED
  BY <1>1, <1>2, CountedCancels, PTL DEF TransfersSpec
=============================================================================
