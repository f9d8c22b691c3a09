----------------------------- MODULE HLCProofs -----------------------------
(***************************************************************************)
(* The clock of HLC, for every clock, stamp and reading: it never goes     *)
(* back, it ends up past every stamp it is shown, and so the stamps of     *)
(* HLCClock are ordered as their causes are.  And the text of a stamp, for *)
(* every base and width: as long as both numbers fit their widths, texts   *)
(* sort as stamps do.                                                      *)
(***************************************************************************)
EXTENDS HLCClock, WellFoundedInduction, TLAPS

LEMMA LargerType ==
  ASSUME NEW a \in Nat, NEW b \in Nat
  PROVE  Larger(a, b) \in Nat /\ Larger(a, b) >= a /\ Larger(a, b) >= b
         /\ Larger(a, b) \in {a, b}
BY DEF Larger

(* now(): whatever Date.now() reads, the clock moves strictly forward. *)
LEMMA NowMovesForward ==
  ASSUME NEW c \in Clock, NEW wall \in Nat
  PROVE  HlcNow(c, wall) \in Clock /\ ClockLess(c, HlcNow(c, wall))
BY DEF HlcNow, Clock, ClockLess

(* update(): the clock moves past where it was and past the stamp. *)
LEMMA UpdateMovesForward ==
  ASSUME NEW c \in Clock, NEW s \in Stamp, NEW wall \in Nat
  PROVE  /\ HlcUpdate(c, s, wall) \in Clock
         /\ ClockLeq(c, HlcUpdate(c, s, wall))
         /\ ClockLeq(s, HlcUpdate(c, s, wall))
<1> DEFINE phys == Larger(wall, Larger(c.phys, s.phys))
           u == HlcUpdate(c, s, wall)
<1>1. c.phys \in Nat /\ c.ctr \in Nat /\ s.phys \in Nat /\ s.ctr \in Nat
  BY DEF Clock, Stamp
<1>2. phys \in Nat /\ phys >= c.phys /\ phys >= s.phys
  BY <1>1, LargerType DEF Larger
<1>3. Larger(c.ctr, s.ctr) \in Nat /\ Larger(c.ctr, s.ctr) >= c.ctr /\ Larger(c.ctr, s.ctr) >= s.ctr
  BY <1>1, LargerType
<1>4. CASE phys = c.phys /\ phys = s.phys
  <2>1. u = [phys |-> phys, ctr |-> Larger(c.ctr, s.ctr) + 1]
    BY <1>4 DEF HlcUpdate
  <2> QED BY <2>1, <1>1, <1>2, <1>3, <1>4 DEF Clock, ClockLeq
<1>5. CASE phys = c.phys /\ phys # s.phys
  <2>1. u = [phys |-> phys, ctr |-> c.ctr + 1]
    BY <1>5 DEF HlcUpdate
  <2> QED BY <2>1, <1>1, <1>2, <1>5 DEF Clock, ClockLeq
<1>6. CASE phys # c.phys /\ phys = s.phys
  <2>1. u = [phys |-> phys, ctr |-> s.ctr + 1]
    BY <1>6 DEF HlcUpdate
  <2> QED BY <2>1, <1>1, <1>2, <1>6 DEF Clock, ClockLeq
<1>7. CASE phys # c.phys /\ phys # s.phys
  <2>1. u = [phys |-> phys, ctr |-> 0]
    BY <1>7 DEF HlcUpdate
  <2> QED BY <2>1, <1>1, <1>2, <1>7 DEF Clock, ClockLeq
<1> QED BY <1>4, <1>5, <1>6, <1>7

(* A stamp that does not parse leaves the clock alone. *)
LEMMA UpdateIgnoresMalformed ==
  ASSUME NEW c \in Clock, NEW s, s \notin Stamp, NEW wall
  PROVE  HlcUpdate(c, s, wall) = c
BY DEF HlcUpdate

(* The clocks and stamps keep their types, and no clock is behind a stamp its
   node has issued or received. *)
IInv == TypeOK /\ Dominates

LEMMA StampOfClock ==
  ASSUME NEW c \in Clock, NEW n \in Nat
  PROVE  StampOf(c, n) \in Stamp /\ ClockLeq(StampOf(c, n), c)
BY DEF StampOf, Stamp, Clock, ClockLeq

LEMMA LeqTransitive ==
  ASSUME NEW s \in Stamp, NEW c \in Clock, NEW d \in Clock, ClockLeq(s, c), ClockLeq(c, d)
  PROVE  ClockLeq(s, d)
BY DEF Stamp, Clock, ClockLeq

LEMMA InitInv == Init => IInv
BY DEF Init, IInv, TypeOK, Dominates, Clock, ZeroClock

LEMMA StepInv == IInv /\ [Next]_vars => IInv'
<1> SUFFICES ASSUME IInv, [Next]_vars PROVE IInv'
  OBVIOUS
<1> USE ClockAssumption
<1>1. ASSUME NEW n \in Node, LocalEvent(n) PROVE IInv'
  <2>1. PICK wall \in 0..MaxWall :
          /\ clk' = [clk EXCEPT ![n] = HlcNow(clk[n], wall)]
          /\ issued' = [issued EXCEPT ![n] = Append(@, StampOf(clk'[n], n))]
          /\ known' = [known EXCEPT ![n] = @ \cup {StampOf(clk'[n], n)}]
    BY <1>1 DEF LocalEvent
  <2>2. clk[n] \in Clock /\ n \in Nat /\ wall \in Nat
    BY DEF IInv, TypeOK
  <2>3. clk'[n] = HlcNow(clk[n], wall) /\ clk'[n] \in Clock /\ ClockLess(clk[n], clk'[n])
    BY <2>1, <2>2, NowMovesForward DEF IInv, TypeOK
  <2>4. StampOf(clk'[n], n) \in Stamp /\ ClockLeq(StampOf(clk'[n], n), clk'[n])
    BY <2>2, <2>3, StampOfClock
  <2>5. TypeOK'
    BY <2>1, <2>3, <2>4 DEF IInv, TypeOK
  <2>6. ClockLeq(clk[n], clk'[n])
    BY <2>2, <2>3 DEF ClockLess, ClockLeq, Clock
  <2>7. ASSUME NEW m \in Node, NEW s \in known'[m] PROVE ClockLeq(s, clk'[m])
    <3>1. CASE m # n
      BY <3>1, <2>1, <2>7 DEF IInv, TypeOK, Dominates
    <3>2. CASE m = n /\ s \in known[n]
      BY <3>2, <2>3, <2>2, <2>6, LeqTransitive DEF IInv, TypeOK, Dominates
    <3>3. CASE m = n /\ s = StampOf(clk'[n], n)
      BY <3>3, <2>4
    <3> QED BY <3>1, <3>2, <3>3, <2>1, <2>7 DEF IInv, TypeOK
  <2> QED BY <2>5, <2>7 DEF IInv, Dominates
<1>2. ASSUME NEW n \in Node, Receive(n) PROVE IInv'
  <2>1. PICK wall \in 0..MaxWall, s \in Issued :
          /\ clk' = [clk EXCEPT ![n] = HlcUpdate(clk[n], s, wall)]
          /\ known' = [known EXCEPT ![n] = @ \cup {s}]
          /\ issued' = issued
    BY <1>2 DEF Receive
  <2>2. clk[n] \in Clock /\ wall \in Nat /\ s \in Stamp
    BY DEF IInv, TypeOK, Issued
  <2>3. /\ clk'[n] \in Clock /\ ClockLeq(clk[n], clk'[n]) /\ ClockLeq(s, clk'[n])
    BY <2>1, <2>2, UpdateMovesForward DEF IInv, TypeOK
  <2>4. TypeOK'
    BY <2>1, <2>2, <2>3 DEF IInv, TypeOK
  <2>5. ASSUME NEW m \in Node, NEW t \in known'[m] PROVE ClockLeq(t, clk'[m])
    <3>1. CASE m # n
      BY <3>1, <2>1, <2>5 DEF IInv, TypeOK, Dominates
    <3>2. CASE m = n /\ t \in known[n]
      BY <3>2, <2>2, <2>3, LeqTransitive DEF IInv, TypeOK, Dominates
    <3>3. CASE m = n /\ t = s
      BY <3>3, <2>3
    <3> QED BY <3>1, <3>2, <3>3, <2>1, <2>5 DEF IInv, TypeOK
  <2> QED BY <2>4, <2>5 DEF IInv, Dominates
<1>3. ASSUME NEW n \in Node, ReceiveMalformed(n) PROVE IInv'
  <2>1. PICK wall \in 0..MaxWall :
          /\ clk' = [clk EXCEPT ![n] = HlcUpdate(clk[n], Malformed, wall)]
          /\ issued' = issued /\ known' = known
    BY <1>3 DEF ReceiveMalformed
  <2>2. clk' = clk
    BY <2>1, UpdateIgnoresMalformed DEF IInv, TypeOK
  <2> QED BY <2>1, <2>2 DEF IInv, TypeOK, Dominates
<1>4. CASE UNCHANGED vars
  BY <1>4 DEF vars, IInv, TypeOK, Dominates
<1> QED BY <1>1, <1>2, <1>3, <1>4 DEF Next

(* The type invariant and Dominates hold in every reachable state, for any
   nodes, readings and bounds. *)
THEOREM ClocksDominate == Spec => [](TypeOK /\ Dominates)
<1>1. Spec => []IInv
  BY InitInv, StepInv, PTL DEF Spec
<1> QED BY <1>1, PTL DEF IInv

LEMMA AfterIsBefore ==
  ASSUME NEW s \in Stamp, NEW c \in Clock, NEW d \in Clock, NEW n \in Nat,
         ClockLeq(s, c), ClockLess(c, d)
  PROVE  Before(s, StampOf(d, n))
BY DEF Stamp, Clock, ClockLeq, ClockLess, Before, StampOf

LEMMA StepCausal ==
  ASSUME IInv, [Next]_vars, NEW n \in Node, issued'[n] # issued[n], NEW old \in known[n]
  PROVE  Before(old, issued'[n][Len(issued'[n])])
<1> USE ClockAssumption
<1>1. LocalEvent(n)
  <2>1. ASSUME NEW m \in Node, LocalEvent(m) PROVE m = n
    BY <2>1 DEF LocalEvent, IInv, TypeOK
  <2> QED BY <2>1 DEF Next, Receive, ReceiveMalformed, vars
<1>2. PICK wall \in 0..MaxWall :
        /\ clk' = [clk EXCEPT ![n] = HlcNow(clk[n], wall)]
        /\ issued' = [issued EXCEPT ![n] = Append(@, StampOf(clk'[n], n))]
  BY <1>1 DEF LocalEvent
<1>3. clk[n] \in Clock /\ n \in Nat /\ wall \in Nat /\ old \in Stamp /\ issued[n] \in Seq(Stamp)
  BY DEF IInv, TypeOK
<1>4. clk'[n] \in Clock /\ ClockLess(clk[n], clk'[n])
  BY <1>2, <1>3, NowMovesForward DEF IInv, TypeOK
<1>5. issued'[n] = Append(issued[n], StampOf(clk'[n], n)) /\ StampOf(clk'[n], n) \in Stamp
  BY <1>2, <1>3, <1>4, StampOfClock DEF IInv, TypeOK
<1>6. issued'[n][Len(issued'[n])] = StampOf(clk'[n], n)
  BY <1>3, <1>5
<1>7. ClockLeq(old, clk[n])
  BY DEF IInv, Dominates
<1> QED BY <1>3, <1>4, <1>6, <1>7, AfterIsBefore

(* A node's new stamp comes after everything it had issued or received. *)
THEOREM StampsAreCausal == Spec => CausalOrder
<1>1. IInv /\ [Next]_vars => [\A n \in Node : issued'[n] # issued[n] =>
        \A old \in known[n] : Before(old, issued'[n][Len(issued'[n])])]_vars
  BY StepCausal
<1>2. Spec => []IInv
  BY InitInv, StepInv, PTL DEF Spec
<1> QED BY <1>1, <1>2, PTL DEF Spec, CausalOrder

---------------------------------------------------------------------------
(* The text of a stamp.  Powers first: what a recursive function computes has
   to be proved. *)

(* A set of natural numbers has a smallest element. *)
LEMMA SmallestOf ==
  ASSUME NEW T, T \subseteq Nat, T # {}
  PROVE  \E x \in T : \A y \in T : x <= y
<1>1. \E x \in T : \A y \in T : ~(<<y, x>> \in OpToRel(<, Nat))
  BY NatLessThanWellFounded, WFMin, Zenon
<1>2. ASSUME NEW x \in T, NEW y \in T, ~(<<y, x>> \in OpToRel(<, Nat))
      PROVE  x <= y
  BY <1>2 DEF OpToRel
<1> QED BY <1>1, <1>2

(* g holds the powers of Base up to the n-th. *)
Powers(n, g) ==
  /\ g \in [0..n -> Nat] /\ g[0] = 1
  /\ \A i \in 1..n : g[i] = Base * g[i - 1]

LEMMA PowersExist ==
  ASSUME NEW n \in Nat
  PROVE  \E g : Powers(n, g)
<1> DEFINE T == {m \in Nat : ~\E g : Powers(m, g)}
<1> SUFFICES ASSUME T # {} PROVE FALSE
  OBVIOUS
<1>1. PICK m \in T : \A l \in T : m <= l
  BY SmallestOf
<1>2. m \in Nat /\ ~\E g : Powers(m, g)
  OBVIOUS
<1>3. CASE m = 0
  <2>1. Powers(0, [i \in 0..0 |-> 1])
    BY DEF Powers
  <2> QED BY <1>2, <1>3, <2>1
<1>4. CASE m # 0
  <2>1. m - 1 \in Nat /\ m - 1 \notin T
    BY <1>1, <1>2, <1>4
  <2> HIDE DEF T
  <2>2. PICK g : Powers(m - 1, g)
    BY <2>1 DEF T
  <2> DEFINE h == [i \in 0..m |-> IF i = m THEN Base * g[m - 1] ELSE g[i]]
  <2>3. g \in [0..(m - 1) -> Nat] /\ g[0] = 1 /\ \A i \in 1..(m - 1) : g[i] = Base * g[i - 1]
    BY <2>2 DEF Powers
  <2>4. Base * g[m - 1] \in Nat
    <3>1. g[m - 1] \in Nat /\ Base \in Nat
      BY <1>2, <2>1, <2>3, WidthAssumption
    <3> QED BY <3>1
  <2>5. h \in [0..m -> Nat]
    BY <1>2, <2>3, <2>4
  <2>6. h[0] = 1
    BY <1>2, <1>4, <2>3
  <2>7. ASSUME NEW i \in 1..m
        PROVE  h[i] = Base * h[i - 1]
    <3>1. h[i - 1] = g[i - 1]
      BY <1>2, <2>7
    <3>2. h[i] = IF i = m THEN Base * g[m - 1] ELSE g[i]
      BY <1>2, <2>7
    <3>3. i # m => g[i] = Base * g[i - 1]
      BY <1>2, <2>3, <2>7
    <3> QED BY <3>1, <3>2, <3>3
  <2> HIDE DEF h
  <2>8. Powers(m, h)
    BY <2>5, <2>6, <2>7 DEF Powers
  <2> QED BY <1>2, <2>8
<1> QED BY <1>3, <1>4

LEMMA PowersAgree ==
  ASSUME NEW n \in Nat, NEW m \in Nat, NEW g, NEW h, Powers(n, g), Powers(m, h),
         NEW i \in Nat, i <= n, i <= m
  PROVE  g[i] = h[i]
<1> DEFINE T == {j \in Nat : j <= n /\ j <= m /\ g[j] # h[j]}
<1> SUFFICES ASSUME T # {} PROVE FALSE
  OBVIOUS
<1>1. PICK j \in T : \A l \in T : j <= l
  BY SmallestOf
<1>2. j \in Nat /\ j <= n /\ j <= m /\ g[j] # h[j]
  OBVIOUS
<1>3. j # 0
  BY <1>2 DEF Powers
<1>4. j - 1 \in Nat /\ j - 1 \notin T
  BY <1>1, <1>2, <1>3
<1>5. g[j - 1] = h[j - 1]
  BY <1>2, <1>4
<1>6. g[j] = Base * g[j - 1] /\ h[j] = Base * h[j - 1]
  BY <1>2, <1>3 DEF Powers
<1> QED BY <1>2, <1>5, <1>6

LEMMA PowerRule ==
  /\ Power[0] = 1
  /\ \A d \in Nat : Power[d + 1] = Base * Power[d]
  /\ \A d \in Nat : Power[d] \in Nat \ {0}
<1> DEFINE upto(d) == CHOOSE g : Powers(d, g)
           P == [d \in Nat |-> upto(d)[d]]
<1>1. \A d \in Nat : Powers(d, upto(d))
  BY PowersExist
<1> HIDE DEF upto
<1>2. P[0] = 1
  <2>1. Powers(0, upto(0))
    BY <1>1
  <2> QED BY <2>1 DEF Powers
<1>3. ASSUME NEW d \in Nat, d # 0
      PROVE  P[d] = Base * P[d - 1]
  <2>1. d - 1 \in Nat /\ Powers(d, upto(d)) /\ Powers(d - 1, upto(d - 1))
    BY <1>1, <1>3
  <2>2. upto(d)[d] = Base * upto(d)[d - 1]
    BY <1>3, <2>1 DEF Powers
  <2>3. upto(d)[d - 1] = upto(d - 1)[d - 1]
    BY <2>1, PowersAgree
  <2> QED BY <2>1, <2>2, <2>3
<1>4. P = [d \in Nat |-> IF d = 0 THEN 1 ELSE Base * P[d - 1]]
  <2>1. \A d \in Nat : P[d] = IF d = 0 THEN 1 ELSE Base * P[d - 1]
    BY <1>2, <1>3
  <2>2. P = [d \in Nat |-> P[d]]
    OBVIOUS
  <2> HIDE DEF P
  <2> QED BY <2>1, <2>2
<1> HIDE DEF P
<1>5. Power = [d \in Nat |-> IF d = 0 THEN 1 ELSE Base * Power[d - 1]]
  BY <1>4 DEF Power
<1>6. Power[0] = 1
  BY <1>5
<1>7. ASSUME NEW d \in Nat
      PROVE  Power[d + 1] = Base * Power[d]
  <2>1. d + 1 \in Nat /\ d + 1 # 0 /\ (d + 1) - 1 = d
    OBVIOUS
  <2>2. Power[d + 1] = Base * Power[(d + 1) - 1]
    BY <1>5, <2>1
  <2> QED BY <2>1, <2>2
<1> DEFINE T == {d \in Nat : Power[d] \notin Nat \ {0}}
<1>8. T = {}
  <2> SUFFICES ASSUME T # {} PROVE FALSE
    OBVIOUS
  <2>1. PICK d \in T : \A l \in T : d <= l
    BY SmallestOf
  <2>2. d \in Nat /\ d # 0
    BY <1>6
  <2>3. d - 1 \in Nat /\ d - 1 \notin T
    BY <2>1, <2>2
  <2>4. Power[d - 1] \in Nat \ {0}
    BY <2>3
  <2>5. Power[d] = Base * Power[d - 1]
    BY <1>5, <2>2
  <2>6. Power[d] \in Nat \ {0}
    <3> HIDE DEF T
    <3> QED BY <2>4, <2>5, WidthAssumption
  <2> QED BY <2>6
<1> QED BY <1>6, <1>7, <1>8

---------------------------------------------------------------------------
(* Digits. *)

LEMMA TimesGrows ==
  ASSUME NEW k \in Nat, NEW a \in Nat, NEW b \in Nat, a < b
  PROVE  k * a + k <= k * b
<1>1. PICK c \in Nat : b = a + 1 + c
  <2>1. b - (a + 1) \in Nat /\ b = a + 1 + (b - (a + 1))
    OBVIOUS
  <2> QED BY <2>1
<1>2. k * b = k * a + k + k * c
  BY <1>1
<1>3. k * c \in Nat /\ k * a \in Nat
  OBVIOUS
<1> QED BY <1>2, <1>3

LEMMA DivMod ==
  ASSUME NEW n \in Nat, NEW k \in Nat \ {0}
  PROVE  /\ n \div k \in Nat /\ n % k \in Nat /\ n % k < k
         /\ n = k * (n \div k) + (n % k)
OBVIOUS

LEMMA DivIs ==
  ASSUME NEW n \in Nat, NEW k \in Nat \ {0}, NEW q \in Nat, NEW r \in Nat, r < k, n = k * q + r
  PROVE  n \div k = q
<1> DEFINE d == n \div k
           m == n % k
<1>1. d \in Nat /\ m \in Nat /\ m < k /\ n = k * d + m
  BY DivMod
<1> HIDE DEF d, m
<1>2. k * d \in Nat /\ k * q \in Nat
  BY <1>1
<1>3. ~(d < q)
  BY <1>1, <1>2, TimesGrows
<1>4. ~(q < d)
  BY <1>1, <1>2, TimesGrows
<1> QED BY <1>1, <1>3, <1>4 DEF d

LEMMA DivDiv ==
  ASSUME NEW n \in Nat, NEW p \in Nat \ {0}, NEW b \in Nat \ {0}
  PROVE  n \div (b * p) = (n \div p) \div b
<1> DEFINE q == n \div p
           r == n % p
           a == q \div b
           s == q % b
<1>1. q \in Nat /\ r \in Nat /\ r < p /\ n = p * q + r
  BY DivMod
<1> HIDE DEF q, r
<1>2. a \in Nat /\ s \in Nat /\ s < b /\ q = b * a + s
  BY <1>1, DivMod
<1> HIDE DEF a, s
<1>3. p * s + p <= p * b
  BY <1>2, TimesGrows
<1>4. p * s \in Nat /\ p * b \in Nat \ {0} /\ b * p = p * b /\ p * s + r \in Nat
  BY <1>1, <1>2
<1>5. p * s + r < b * p
  BY <1>1, <1>3, <1>4
<1>6. n = (b * p) * a + (p * s + r)
  <2>1. p * q = p * (b * a) + p * s
    BY <1>1, <1>2
  <2>2. p * (b * a) = (b * p) * a
    BY <1>2
  <2> QED BY <1>1, <1>2, <1>4, <2>1, <2>2
<1>7. n \div (b * p) = a
  BY <1>2, <1>4, <1>5, <1>6, DivIs
<1> QED BY <1>7 DEF a, q

LEMMA DivRises ==
  ASSUME NEW m \in Nat, NEW n \in Nat, NEW p \in Nat \ {0}, m <= n
  PROVE  m \div p <= n \div p
<1> DEFINE a == m \div p
           b == n \div p
           r == n % p
<1>1. a \in Nat /\ p * a <= m
  <2>1. a \in Nat /\ m % p \in Nat /\ m = p * a + (m % p)
    BY DivMod
  <2> HIDE DEF a
  <2>2. p * a \in Nat
    BY <2>1
  <2> QED BY <2>1, <2>2
<1>2. b \in Nat /\ r \in Nat /\ r < p /\ n = p * b + r
  BY DivMod
<1> HIDE DEF a, b, r
<1>3. ~(b < a)
  <2>1. p * a \in Nat /\ p * b \in Nat
    BY <1>1, <1>2
  <2>2. b < a => p * b + p <= p * a
    BY <1>1, <1>2, TimesGrows
  <2> QED BY <1>1, <1>2, <2>1, <2>2
<1> QED BY <1>1, <1>2, <1>3 DEF a, b

(* The number that the first i of w positions hold. *)
Prefix(n, w, i) == n \div Power[w - i]

(* n written in w positions. *)
Digits(n, w) == [i \in 1..w |-> Prefix(n, w, i) % Base]

(* pad() leaves a number within its width alone but for the leading zeros. *)
LEMMA PadWithin ==
  ASSUME NEW w \in Nat, NEW n \in Nat, n < Power[w]
  PROVE  Pad(n, w) = Digits(n, w)
<1> DEFINE fits(d) == n < Power[d] /\ \A e \in w..(d - 1) : n >= Power[e]
<1>1. w \in w..(w + n) /\ fits(w)
  OBVIOUS
<1>2. ASSUME NEW d \in w..(w + n), fits(d)
      PROVE  d = w
  <2>1. SUFFICES ASSUME d # w PROVE FALSE
    OBVIOUS
  <2>2. w \in w..(d - 1)
    BY <2>1
  <2>3. n >= Power[w]
    BY <1>2, <2>2
  <2> QED BY <2>3, PowerRule
<1>3. Positions(n, w) = CHOOSE d \in w..(w + n) : fits(d)
  BY DEF Positions
<1> HIDE DEF fits
<1>4. Positions(n, w) = w
  BY <1>1, <1>2, <1>3
<1> QED BY <1>4 DEF Pad, Digits, Prefix

LEMMA PrefixRule ==
  ASSUME NEW w \in Nat, NEW n \in Nat, n < Power[w]
  PROVE  /\ \A i \in 0..w : Prefix(n, w, i) \in Nat
         /\ Prefix(n, w, 0) = 0
         /\ Prefix(n, w, w) = n
         /\ \A i \in 1..w : /\ Prefix(n, w, i) % Base \in Nat
                            /\ Prefix(n, w, i) = Base * Prefix(n, w, i - 1) + (Prefix(n, w, i) % Base)
<1>1. ASSUME NEW i \in 0..w
      PROVE  w - i \in Nat /\ Power[w - i] \in Nat \ {0} /\ Prefix(n, w, i) \in Nat
  <2>1. w - i \in Nat
    OBVIOUS
  <2>2. Power[w - i] \in Nat \ {0}
    BY <2>1, PowerRule
  <2> QED BY <2>1, <2>2, DivMod DEF Prefix
<1>2. Prefix(n, w, 0) = 0
  <2>1. w - 0 = w /\ Power[w] \in Nat \ {0} /\ n = Power[w] * 0 + n
    BY PowerRule
  <2> QED BY <2>1, DivIs DEF Prefix
<1>3. Prefix(n, w, w) = n
  <2>1. w - w = 0 /\ Power[0] = 1 /\ n = 1 * n + 0
    BY PowerRule
  <2>2. n \div 1 = n
    BY <2>1, DivIs
  <2> QED BY <2>1, <2>2 DEF Prefix
<1>4. ASSUME NEW i \in 1..w
      PROVE  /\ Prefix(n, w, i) % Base \in Nat
             /\ Prefix(n, w, i) = Base * Prefix(n, w, i - 1) + (Prefix(n, w, i) % Base)
  <2>1. i \in 0..w /\ w - (i - 1) = (w - i) + 1
    OBVIOUS
  <2>2. Power[w - (i - 1)] = Base * Power[w - i]
    BY <1>1, <2>1, PowerRule
  <2>3. Base \in Nat \ {0}
    BY WidthAssumption
  <2>4. Prefix(n, w, i - 1) = Prefix(n, w, i) \div Base
    BY <1>1, <2>1, <2>2, <2>3, DivDiv DEF Prefix
  <2> QED BY <1>1, <2>1, <2>3, <2>4, DivMod
<1> QED BY <1>1, <1>2, <1>3, <1>4

(* In w positions, m and n first differ at i, where m has the smaller digit. *)
Apart(m, n, w, i) ==
  /\ Digits(m, w)[i] < Digits(n, w)[i]
  /\ \A j \in 1..(i - 1) : Digits(m, w)[j] = Digits(n, w)[j]

(* The texts of two numbers sort as the numbers do. *)
LEMMA DigitsSort ==
  ASSUME NEW w \in Nat, NEW m \in Nat, NEW n \in Nat, m < n, n < Power[w]
  PROVE  \E i \in 1..w : Apart(m, n, w, i)
<1> DEFINE T == {i \in 0..w : Prefix(m, w, i) # Prefix(n, w, i)}
<1>1. m < Power[w]
  BY PowerRule
<1>2. w \in T
  BY <1>1, PrefixRule
<1>3. PICK i \in T : \A j \in T : i <= j
  <2>1. T \subseteq Nat /\ T # {}
    BY <1>2
  <2> HIDE DEF T
  <2> QED BY <2>1, SmallestOf
<1>4. i \in 1..w
  <2>1. i # 0
    BY <1>1, PrefixRule
  <2> QED BY <2>1
<1>5. \A j \in 0..(i - 1) : Prefix(m, w, j) = Prefix(n, w, j)
  BY <1>3, <1>4
<1>6. Prefix(m, w, i) # Prefix(n, w, i)
  OBVIOUS
<1> HIDE DEF T
<1>7. Prefix(m, w, i) <= Prefix(n, w, i)
  <2>1. w - i \in Nat
    BY <1>4
  <2>2. Power[w - i] \in Nat \ {0}
    BY <2>1, PowerRule
  <2> QED BY <2>2, DivRises DEF Prefix
<1>8. Prefix(m, w, i) % Base < Prefix(n, w, i) % Base
  <2> DEFINE p == Prefix(m, w, i)
             q == Prefix(n, w, i)
             a == Base * Prefix(m, w, i - 1)
             c == p % Base
             d == q % Base
  <2>1. Prefix(m, w, i - 1) = Prefix(n, w, i - 1) /\ Prefix(m, w, i - 1) \in Nat
    BY <1>1, <1>4, <1>5, PrefixRule
  <2>2. a \in Nat
    BY <2>1, WidthAssumption
  <2>3. c \in Nat /\ p = a + c
    BY <1>1, <1>4, PrefixRule
  <2>4. d \in Nat /\ q = a + d
    BY <1>4, <2>1, PrefixRule
  <2>5. p # q /\ p <= q
    BY <1>6, <1>7
  <2> HIDE DEF p, q, a, c, d
  <2>6. c < d
    BY <2>2, <2>3, <2>4, <2>5
  <2> QED BY <2>6 DEF c, d, p, q
<1>9. Digits(m, w)[i] < Digits(n, w)[i]
  BY <1>4, <1>8 DEF Digits
<1>10. \A j \in 1..(i - 1) : Digits(m, w)[j] = Digits(n, w)[j]
  BY <1>4, <1>5 DEF Digits
<1> QED BY <1>4, <1>9, <1>10 DEF Apart

LEMMA DigitsType ==
  ASSUME NEW w \in Nat, NEW n \in Nat, n < Power[w]
  PROVE  Digits(n, w) \in Seq(Nat) /\ Len(Digits(n, w)) = w
<1>1. \A i \in 1..w : Prefix(n, w, i) % Base \in Nat
  BY PrefixRule
<1>2. Digits(n, w) \in [1..w -> Nat]
  BY <1>1 DEF Digits
<1> QED BY <1>2 DEF Digits

---------------------------------------------------------------------------
(* Texts of one length: "<" is a strict order on them. *)

(* i is the first place where s and t differ, and s is smaller there. *)
Drops(s, t, i) == s[i] < t[i] /\ \A j \in 1..(i - 1) : s[j] = t[j]

LEMMA TextBeforeIs ==
  ASSUME NEW s \in Seq(Nat), NEW t \in Seq(Nat), Len(s) = Len(t)
  PROVE  TextBefore(s, t) <=> \E i \in 1..Len(t) : Drops(s, t, i)
<1> DEFINE l == Len(t)
<1>1. l \in Nat /\ Len(s) = l
  OBVIOUS
<1>2. \A i \in 1..l : i <= l /\ \A j \in 1..(i - 1) : j <= l
  <2> HIDE DEF l
  <2> QED BY <1>1
<1> HIDE DEF l
<1>3. ASSUME TextBefore(s, t)
      PROVE  \E i \in 1..l : Drops(s, t, i)
  <2>1. PICK i \in 1..Len(t) :
          /\ \A j \in 1..(i - 1) : j <= Len(s) /\ s[j] = t[j]
          /\ i <= Len(s) => s[i] < t[i]
    BY <1>3, Zenon DEF TextBefore
  <2>2. i \in 1..l /\ i <= Len(s)
    BY <1>1, <1>2 DEF l
  <2> QED BY <2>1, <2>2 DEF Drops
<1>4. ASSUME NEW i \in 1..l, Drops(s, t, i)
      PROVE  TextBefore(s, t)
  <2>1. i \in 1..Len(t)
    BY DEF l
  <2>2. \A j \in 1..(i - 1) : j <= Len(s) /\ s[j] = t[j]
    BY <1>1, <1>2, <1>4 DEF Drops
  <2>3. s[i] < t[i]
    BY <1>4 DEF Drops
  <2> QED BY <2>1, <2>2, <2>3, Zenon DEF TextBefore
<1>5. TextBefore(s, t) <=> \E i \in 1..l : Drops(s, t, i)
  BY <1>3, <1>4
<1> QED BY <1>5 DEF l

LEMMA TextBeforeStrict ==
  ASSUME NEW s \in Seq(Nat), NEW t \in Seq(Nat), Len(s) = Len(t), TextBefore(s, t)
  PROVE  s # t /\ ~TextBefore(t, s)
<1>0. PICK i \in 1..Len(t) : Drops(s, t, i)
  BY TextBeforeIs
<1>1. s[i] < t[i] /\ \A j \in 1..(i - 1) : s[j] = t[j]
  BY <1>0 DEF Drops
<1>2. s[i] \in Nat /\ t[i] \in Nat
  OBVIOUS
<1>3. ASSUME TextBefore(t, s)
      PROVE  FALSE
  <2>0. PICK k \in 1..Len(s) : Drops(t, s, k)
    BY <1>3, TextBeforeIs
  <2>1. t[k] < s[k] /\ \A j \in 1..(k - 1) : t[j] = s[j]
    BY <2>0 DEF Drops
  <2>2. s[k] \in Nat /\ t[k] \in Nat
    OBVIOUS
  <2>3. CASE i < k
    BY <1>1, <1>2, <2>1, <2>3
  <2>4. CASE k < i
    BY <1>1, <2>1, <2>2, <2>4
  <2>5. CASE k = i
    BY <1>1, <1>2, <2>1, <2>5
  <2> QED BY <2>3, <2>4, <2>5
<1> QED BY <1>1, <1>2, <1>3

(* f is a followed by b. *)
JoinOf(f, a, b) ==
  /\ f \in Seq(Nat) /\ Len(f) = Len(a) + Len(b)
  /\ \A i \in 1..Len(a) : f[i] = a[i]
  /\ \A i \in 1..Len(b) : f[Len(a) + i] = b[i]

LEMMA Joined ==
  ASSUME NEW a \in Seq(Nat), NEW b \in Seq(Nat)
  PROVE  JoinOf(a \o b, a, b)
<1> DEFINE f == a \o b
<1>1. f \in Seq(Nat) /\ Len(f) = Len(a) + Len(b)
  OBVIOUS
<1>2. \A i \in 1..Len(a) : f[i] = a[i]
  OBVIOUS
<1>3. ASSUME NEW i \in 1..Len(b)
      PROVE  f[Len(a) + i] = b[i]
  <2>1. Len(a) \in Nat /\ Len(b) \in Nat
    OBVIOUS
  <2>2. Len(a) + i \in 1..(Len(a) + Len(b)) /\ Len(a) + i > Len(a) /\ (Len(a) + i) - Len(a) = i
    BY <2>1
  <2> QED BY <2>1, <2>2
<1> HIDE DEF f
<1>4. JoinOf(f, a, b)
  BY <1>1, <1>2, <1>3 DEF JoinOf
<1> QED BY <1>4 DEF f

(* The layout of a text: the two padded numbers and the node, a separator
   after each number. *)
Laid(a, b, x, y) == a \o <<x>> \o b \o <<x, y>>

(* What f has at each place if it is laid out like that. *)
Holds(f, a, b, x, y) ==
  /\ f \in Seq(Nat) /\ Len(f) = Len(a) + Len(b) + 3
  /\ \A i \in 1..Len(a) : f[i] = a[i]
  /\ f[Len(a) + 1] = x
  /\ \A i \in 1..Len(b) : f[Len(a) + 1 + i] = b[i]
  /\ f[Len(a) + Len(b) + 2] = x
  /\ f[Len(a) + Len(b) + 3] = y

LEMMA Layout ==
  ASSUME NEW a \in Seq(Nat), NEW b \in Seq(Nat), NEW x \in Nat, NEW y \in Nat
  PROVE  Holds(Laid(a, b, x, y), a, b, x, y)
<1> DEFINE g == a \o <<x>>
           h == g \o b
           f == Laid(a, b, x, y)
<1>1. /\ g \in Seq(Nat) /\ Len(g) = Len(a) + 1
      /\ \A i \in 1..Len(a) : g[i] = a[i]
      /\ g[Len(a) + 1] = x
  OBVIOUS
<1> HIDE DEF g
<1>2. /\ h \in Seq(Nat) /\ Len(h) = Len(a) + 1 + Len(b)
      /\ \A i \in 1..(Len(a) + 1) : h[i] = g[i]
      /\ \A i \in 1..Len(b) : h[Len(a) + 1 + i] = b[i]
  <2>1. /\ h \in Seq(Nat) /\ Len(h) = Len(g) + Len(b)
        /\ \A i \in 1..Len(g) : h[i] = g[i]
        /\ \A i \in 1..Len(b) : h[Len(g) + i] = b[i]
    <3>1. JoinOf(h, g, b)
      BY <1>1, Joined
    <3> HIDE DEF h
    <3> QED BY <3>1 DEF JoinOf
  <2> HIDE DEF h
  <2> QED BY <1>1, <2>1
<1>3. f = h \o <<x, y>>
  BY DEF g, Laid
<1> HIDE DEF h, f
<1>4. /\ f \in Seq(Nat) /\ Len(f) = Len(h) + 2
      /\ \A i \in 1..Len(h) : f[i] = h[i]
      /\ f[Len(h) + 1] = x
      /\ f[Len(h) + 2] = y
  <2>1. <<x, y>> \in Seq(Nat) /\ Len(<<x, y>>) = 2 /\ <<x, y>>[1] = x /\ <<x, y>>[2] = y
    OBVIOUS
  <2> DEFINE e == <<x, y>>
  <2> HIDE DEF e
  <2>2. /\ f \in Seq(Nat) /\ Len(f) = Len(h) + Len(e)
        /\ \A i \in 1..Len(h) : f[i] = h[i]
        /\ \A i \in 1..Len(e) : f[Len(h) + i] = e[i]
    <3>1. e \in Seq(Nat) /\ f = h \o e
      BY <1>3, <2>1 DEF e
    <3>2. JoinOf(f, h, e)
      BY <1>2, <3>1, Joined
    <3> QED BY <3>2 DEF JoinOf
  <2>3. e \in Seq(Nat) /\ Len(e) = 2 /\ e[1] = x /\ e[2] = y
    BY <2>1 DEF e
  <2>4. 1 \in 1..Len(e) /\ 2 \in 1..Len(e)
    BY <2>3
  <2> QED BY <2>2, <2>3, <2>4
<1>5. Len(a) \in Nat /\ Len(b) \in Nat
  OBVIOUS
<1>6. /\ \A i \in 1..Len(a) : f[i] = a[i]
      /\ f[Len(a) + 1] = x
  <2>1. /\ \A i \in 1..(Len(a) + 1) : i \in 1..Len(h)
        /\ \A i \in 1..Len(a) : i \in 1..(Len(a) + 1)
        /\ Len(a) + 1 \in 1..(Len(a) + 1)
    BY <1>2, <1>5
  <2>2. \A i \in 1..(Len(a) + 1) : f[i] = g[i]
    BY <1>2, <1>4, <2>1
  <2> QED BY <1>1, <2>1, <2>2
<1>7. \A i \in 1..Len(b) : f[Len(a) + 1 + i] = b[i]
  <2>1. \A i \in 1..Len(b) : Len(a) + 1 + i \in 1..Len(h)
    BY <1>2, <1>5
  <2> QED BY <1>2, <1>4, <2>1
<1>8. /\ Len(f) = Len(a) + Len(b) + 3
      /\ Len(h) + 1 = Len(a) + Len(b) + 2
      /\ Len(h) + 2 = Len(a) + Len(b) + 3
  BY <1>2, <1>4, <1>5
<1>9. f[Len(a) + Len(b) + 2] = x /\ f[Len(a) + Len(b) + 3] = y
  BY <1>4, <1>8
<1>10. Holds(f, a, b, x, y)
  BY <1>4, <1>6, <1>7, <1>8, <1>9 DEF Holds
<1> QED BY <1>10 DEF f

(* A stamp whose numbers fit their widths. *)
Fits(s) == s \in Stamp /\ s.phys < Power[PhysicalWidth] /\ s.ctr < Power[CounterWidth]

LEMMA FormatLayout ==
  ASSUME NEW s, Fits(s)
  PROVE  /\ Format(s) \in Seq(Nat)
         /\ Len(Format(s)) = PhysicalWidth + CounterWidth + 3
         /\ \A i \in 1..PhysicalWidth : Format(s)[i] = Digits(s.phys, PhysicalWidth)[i]
         /\ Format(s)[PhysicalWidth + 1] = Separator
         /\ \A i \in 1..CounterWidth :
              Format(s)[PhysicalWidth + 1 + i] = Digits(s.ctr, CounterWidth)[i]
         /\ Format(s)[PhysicalWidth + CounterWidth + 2] = Separator
         /\ Format(s)[PhysicalWidth + CounterWidth + 3] = s.node
<1> DEFINE a == Digits(s.phys, PhysicalWidth)
           b == Digits(s.ctr, CounterWidth)
<1>1. /\ s.phys \in Nat /\ s.ctr \in Nat /\ s.node \in Nat /\ Separator \in Nat
      /\ PhysicalWidth \in Nat /\ CounterWidth \in Nat
      /\ s.phys < Power[PhysicalWidth] /\ s.ctr < Power[CounterWidth]
  BY WidthAssumption DEF Fits, Stamp, Separator
<1>2. a \in Seq(Nat) /\ Len(a) = PhysicalWidth /\ b \in Seq(Nat) /\ Len(b) = CounterWidth
  BY <1>1, DigitsType
<1>3. Format(s) = Laid(a, b, Separator, s.node)
  BY <1>1, PadWithin DEF Format, Laid
<1> HIDE DEF a, b
<1>4. Holds(Format(s), a, b, Separator, s.node)
  BY <1>1, <1>2, <1>3, Layout
<1> QED BY <1>2, <1>4 DEF a, b, Holds

LEMMA BeforeInText ==
  ASSUME NEW s, NEW t, Fits(s), Fits(t), Before(s, t)
  PROVE  TextBefore(Format(s), Format(t))
<1> DEFINE F == Format(s)
           G == Format(t)
           P == PhysicalWidth
           C == CounterWidth
<1>1. /\ s.phys \in Nat /\ s.ctr \in Nat /\ s.node \in Nat
      /\ t.phys \in Nat /\ t.ctr \in Nat /\ t.node \in Nat
      /\ s.phys < Power[P] /\ s.ctr < Power[C] /\ t.phys < Power[P] /\ t.ctr < Power[C]
      /\ P \in Nat /\ C \in Nat
  BY WidthAssumption DEF Fits, Stamp
<1>2. /\ Len(F) = P + C + 3
      /\ \A i \in 1..P : F[i] = Digits(s.phys, P)[i]
      /\ F[P + 1] = Separator
      /\ \A i \in 1..C : F[P + 1 + i] = Digits(s.ctr, C)[i]
      /\ F[P + C + 2] = Separator /\ F[P + C + 3] = s.node
      /\ F \in Seq(Nat)
  BY FormatLayout
<1>3. /\ Len(G) = P + C + 3
      /\ \A i \in 1..P : G[i] = Digits(t.phys, P)[i]
      /\ G[P + 1] = Separator
      /\ \A i \in 1..C : G[P + 1 + i] = Digits(t.ctr, C)[i]
      /\ G[P + C + 2] = Separator /\ G[P + C + 3] = t.node
      /\ G \in Seq(Nat)
  BY FormatLayout
<1> HIDE DEF F, G, P, C
<1>4. SUFFICES \E i \in 1..(P + C + 3) : Drops(F, G, i)
  <2>1. TextBefore(F, G) <=> \E i \in 1..Len(G) : Drops(F, G, i)
    BY <1>2, <1>3, TextBeforeIs
  <2> QED BY <1>3, <2>1 DEF F, G
<1>5. CASE s.phys < t.phys
  <2>0. PICK i \in 1..P : Apart(s.phys, t.phys, P, i)
    BY <1>1, <1>5, DigitsSort
  <2>1. /\ Digits(s.phys, P)[i] < Digits(t.phys, P)[i]
        /\ \A j \in 1..(i - 1) : Digits(s.phys, P)[j] = Digits(t.phys, P)[j]
    BY <2>0 DEF Apart
  <2>2. i \in 1..(P + C + 3) /\ \A j \in 1..(i - 1) : j \in 1..P
    BY <1>1
  <2>3. F[i] < G[i]
    BY <1>2, <1>3, <2>1
  <2>4. \A j \in 1..(i - 1) : F[j] = G[j]
    BY <1>2, <1>3, <2>1, <2>2
  <2> QED BY <2>2, <2>3, <2>4 DEF Drops
<1>6. CASE s.phys = t.phys
  <2>1. \A j \in 1..(P + 1) : F[j] = G[j]
    <3> SUFFICES ASSUME NEW j \in 1..(P + 1) PROVE F[j] = G[j]
      OBVIOUS
    <3>1. j \in 1..P \/ j = P + 1
      BY <1>1
    <3> QED BY <1>2, <1>3, <1>6, <3>1
  <2>2. CASE s.ctr < t.ctr
    <3>0. PICK i \in 1..C : Apart(s.ctr, t.ctr, C, i)
      BY <1>1, <2>2, DigitsSort
    <3>1. /\ Digits(s.ctr, C)[i] < Digits(t.ctr, C)[i]
          /\ \A j \in 1..(i - 1) : Digits(s.ctr, C)[j] = Digits(t.ctr, C)[j]
      BY <3>0 DEF Apart
    <3>2. F[P + 1 + i] < G[P + 1 + i]
      BY <1>2, <1>3, <3>1
    <3>3. ASSUME NEW j \in 1..((P + 1 + i) - 1)
          PROVE  F[j] = G[j]
      <4>1. CASE j <= P + 1
        BY <1>1, <2>1, <4>1
      <4>2. CASE j > P + 1
        <5> DEFINE d == j - (P + 1)
        <5>1. d \in 1..(i - 1) /\ d \in 1..C /\ j = P + 1 + d
          BY <1>1, <4>2
        <5> HIDE DEF d
        <5>2. F[P + 1 + d] = Digits(s.ctr, C)[d] /\ G[P + 1 + d] = Digits(t.ctr, C)[d]
          BY <1>2, <1>3, <5>1
        <5>3. Digits(s.ctr, C)[d] = Digits(t.ctr, C)[d]
          BY <3>1, <5>1
        <5> QED BY <5>1, <5>2, <5>3
      <4> QED BY <1>1, <4>1, <4>2
    <3>4. P + 1 + i \in 1..(P + C + 3)
      BY <1>1
    <3> QED BY <3>2, <3>3, <3>4 DEF Drops
  <2>3. CASE s.ctr = t.ctr /\ s.node < t.node
    <3>1. ASSUME NEW j \in 1..((P + C + 3) - 1)
          PROVE  F[j] = G[j]
      <4>1. CASE j <= P + 1
        BY <1>1, <2>1, <4>1
      <4>2. CASE j > P + 1 /\ j <= P + 1 + C
        <5> DEFINE d == j - (P + 1)
        <5>1. d \in 1..C /\ j = P + 1 + d
          BY <1>1, <4>2
        <5> HIDE DEF d
        <5>2. F[P + 1 + d] = Digits(s.ctr, C)[d] /\ G[P + 1 + d] = Digits(t.ctr, C)[d]
          BY <1>2, <1>3, <5>1
        <5> QED BY <2>3, <5>1, <5>2
      <4>3. CASE j = P + C + 2
        BY <1>2, <1>3, <4>3
      <4> QED BY <1>1, <4>1, <4>2, <4>3
    <3>2. P + C + 3 \in 1..(P + C + 3) /\ F[P + C + 3] < G[P + C + 3]
      BY <1>1, <1>2, <1>3, <2>3
    <3> QED BY <3>1, <3>2 DEF Drops
  <2>4. s.ctr < t.ctr \/ (s.ctr = t.ctr /\ s.node < t.node)
    BY <1>1, <1>6 DEF Before, ClockLess
  <2> QED BY <2>2, <2>3, <2>4
<1>7. s.phys < t.phys \/ s.phys = t.phys
  BY <1>1 DEF Before, ClockLess
<1> QED BY <1>5, <1>6, <1>7

LEMMA TextsSort ==
  ASSUME NEW s, NEW t, Fits(s), Fits(t)
  PROVE  TextBefore(Format(s), Format(t)) <=> Before(s, t)
<1>1. /\ Format(s) \in Seq(Nat) /\ Format(t) \in Seq(Nat)
      /\ Len(Format(s)) = Len(Format(t))
  BY FormatLayout
<1>2. s = t \/ Before(s, t) \/ Before(t, s)
  BY DEF Fits, Stamp, Before, ClockLess
<1>3. ASSUME TextBefore(Format(s), Format(t))
      PROVE  Before(s, t)
  <2>1. Format(s) # Format(t) /\ ~TextBefore(Format(t), Format(s))
    BY <1>1, <1>3, TextBeforeStrict
  <2> QED BY <1>2, <2>1, BeforeInText
<1> QED BY <1>3, BeforeInText

---------------------------------------------------------------------------
(* No clock runs ahead of the largest reading of Date.now(), and no stamp is
   invented: the physical part of a stamp is a reading some node took. *)
ReadingsBound ==
  /\ \A n \in Node : clk[n].phys <= MaxWall
  /\ \A n \in Node : \A s \in known[n] : s.phys <= MaxWall

LEMMA InitReadings == Init => ReadingsBound
BY ClockAssumption DEF Init, ReadingsBound, ZeroClock

LEMMA StepReadings == IInv /\ ReadingsBound /\ [Next]_vars => ReadingsBound'
<1> SUFFICES ASSUME IInv, ReadingsBound, [Next]_vars PROVE ReadingsBound'
  OBVIOUS
<1> USE ClockAssumption
<1>1. ASSUME NEW n \in Node, LocalEvent(n) PROVE ReadingsBound'
  <2>1. PICK wall \in 0..MaxWall :
          /\ clk' = [clk EXCEPT ![n] = HlcNow(clk[n], wall)]
          /\ known' = [known EXCEPT ![n] = @ \cup {StampOf(clk'[n], n)}]
    BY <1>1 DEF LocalEvent
  <2>2. clk[n] \in Clock /\ wall \in Nat /\ wall <= MaxWall /\ clk[n].phys <= MaxWall
    BY DEF IInv, TypeOK, ReadingsBound
  <2>3. HlcNow(clk[n], wall).phys <= MaxWall
    BY <2>2 DEF HlcNow, Clock
  <2>4. clk'[n] = HlcNow(clk[n], wall) /\ StampOf(clk'[n], n).phys <= MaxWall
    BY <2>1, <2>3 DEF IInv, TypeOK, StampOf
  <2> QED BY <2>1, <2>3, <2>4 DEF IInv, TypeOK, ReadingsBound
<1>2. ASSUME NEW n \in Node, Receive(n) PROVE ReadingsBound'
  <2>1. PICK wall \in 0..MaxWall, s \in Issued :
          /\ clk' = [clk EXCEPT ![n] = HlcUpdate(clk[n], s, wall)]
          /\ known' = [known EXCEPT ![n] = @ \cup {s}]
    BY <1>2 DEF Receive
  <2>2. /\ clk[n] \in Clock /\ wall \in Nat /\ wall <= MaxWall /\ clk[n].phys <= MaxWall
        /\ s \in Stamp /\ s.phys <= MaxWall
    BY DEF IInv, TypeOK, Issued, ReadingsBound
  <2>3. HlcUpdate(clk[n], s, wall).phys = Larger(wall, Larger(clk[n].phys, s.phys))
    BY <2>2 DEF HlcUpdate
  <2>4. HlcUpdate(clk[n], s, wall).phys <= MaxWall
    BY <2>2, <2>3 DEF Larger, Clock, Stamp
  <2> QED BY <2>1, <2>2, <2>4 DEF IInv, TypeOK, ReadingsBound
<1>3. ASSUME NEW n \in Node, ReceiveMalformed(n) PROVE ReadingsBound'
  <2>1. PICK wall \in 0..MaxWall :
          /\ clk' = [clk EXCEPT ![n] = HlcUpdate(clk[n], Malformed, wall)]
          /\ known' = known
    BY <1>3 DEF ReceiveMalformed
  <2>2. clk' = clk
    BY <2>1, UpdateIgnoresMalformed DEF IInv, TypeOK
  <2> QED BY <2>1, <2>2 DEF ReadingsBound
<1>4. CASE UNCHANGED vars
  BY <1>4 DEF vars, ReadingsBound
<1> QED BY <1>1, <1>2, <1>3, <1>4 DEF Next

(* As long as Date.now() fits PHYSICAL_WIDTH digits, "<" on the texts of two
   stamps whose counters fit COUNTER_WIDTH digits is the order of the stamps. *)
THEOREM TextsSortAsStamps ==
  ASSUME MaxWall < Power[PhysicalWidth]
  PROVE  Spec => []TextOrderWithinWidth
<1>1. IInv /\ ReadingsBound => TextOrderWithinWidth
  <2> SUFFICES ASSUME IInv, ReadingsBound, NEW s \in Issued, NEW t \in Issued,
                      s.ctr < Power[CounterWidth], t.ctr < Power[CounterWidth]
               PROVE  TextBefore(Format(s), Format(t)) <=> Before(s, t)
    BY DEF TextOrderWithinWidth
  <2>1. PhysicalWidth \in Nat /\ Power[PhysicalWidth] \in Nat /\ MaxWall \in Nat
    BY WidthAssumption, ClockAssumption, PowerRule
  <2>2. \A u \in Issued : u \in Stamp /\ u.phys \in Nat /\ u.phys <= MaxWall
    BY DEF IInv, TypeOK, Issued, ReadingsBound, Stamp
  <2>3. Fits(s) /\ Fits(t)
    BY <2>1, <2>2 DEF Fits
  <2> QED BY <2>3, TextsSort
<1>2. IInv /\ ReadingsBound /\ [Next]_vars => (IInv /\ ReadingsBound)'
  BY StepInv, StepReadings
<1> QED BY <1>1, <1>2, InitInv, InitReadings, PTL DEF Spec
==============================================================================
