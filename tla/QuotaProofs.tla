---------------------------- MODULE QuotaProofs ----------------------------
(* Theorems about Quota for any number of credentials and workers and any      *)
(* timeouts and back-offs that the options of the service allow: one probe of  *)
(* a credential at a time, observations that are stored, and a back-off that   *)
(* doubles and that no late result shortens.                                   *)
EXTENDS Quota, FiniteSetTheorems, TLAPS

-----------------------------------------------------------------------------
(* The inductive invariant *)

\* A row of quota_probe_states, or what a probe is about to write there.
ProbeRow ==
    [row : {"none", "state", "observation"}, next : Int, age : 0..AgeCap,
     failures : 0..MaxFailures, observed : Never..AgeCap]

\* A probe goroutine.
Goroutine ==
    [pc : {"idle", "due", "quota", "write", "health", "release"},
     left : 0..LeaseTTL, write : ProbeRow]

\* A lease that is held.
Held == [owner : Workers, left : 1..LeaseTTL]

\* A passive observation on its way.
Observation == [credential : Credentials, age : 0..ObservationTimeout]

\* The types of the tables, the leases and the goroutines.
InvType ==
    /\ deployment \in Deployments
    /\ state \in [Credentials -> ProbeRow]
    /\ snapshot \in [Credentials -> Never..AgeCap]
    /\ lease \in [Credentials -> {Free} \cup Held]
    /\ probe \in [Workers -> [Credentials -> Goroutine]]
    /\ passive \in {NoPassive} \cup Observation

\* The longest wait that a probe asks for.
LongestWait ==
    Max({PollInterval, AuthBackoff, UnsupportedBackoff,
         MaxBackoff + (MaxBackoff * JitterPercent) \div 100})

\* A snapshot of this age supports what a row says was observed.
Supports(newest, observed) ==
    observed # Never => newest # Never /\ newest <= observed

\* A stored state: its next attempt is within the bounds, and what it says was
\* observed is stored.
StateSound(row, newest) ==
    /\ -OverdueCap <= row.next /\ row.next <= LongestWait
    /\ Supports(newest, row.observed)

\* What a probe is about to write was decided after the cycle began, asked for
\* no negative wait then, and claims nothing that is not stored or will not be
\* stored with it.
WriteSound(p, newest) ==
    /\ p.write.age + p.left <= CycleTimeout
    /\ 0 <= p.write.next + p.write.age /\ p.write.next <= LongestWait
    /\ p.write.row # "none"
    /\ IF p.write.row = "observation" THEN p.write.observed # Never
       ELSE Supports(newest, p.write.observed)

\* A probe that runs has the lease, which outlives it by the margin.
ProbeSound(w, p, l, newest) ==
    /\ Running(p) =>
          /\ l.owner = w /\ p.left <= CycleTimeout
          /\ p.left + Margin <= l.left
    /\ p.pc = "write" => WriteSound(p, newest)

\* The inductive invariant.
QuotaInv ==
    /\ InvType
    /\ \A c \in Credentials : StateSound(state[c], snapshot[c])
    /\ \A w \in Workers, c \in Credentials :
          ProbeSound(w, probe[w][c], lease[c], snapshot[c])

-----------------------------------------------------------------------------
(* Numbers *)

\* The smaller of two numbers.
LEMMA MinOfTwo ==
    ASSUME NEW a \in Int, NEW b \in Int
    PROVE  Min({a, b}) = IF a <= b THEN a ELSE b
  BY DEF Min

\* The larger of two numbers.
LEMMA MaxOfTwo ==
    ASSUME NEW a \in Int, NEW b \in Int
    PROVE  Max({a, b}) = IF a <= b THEN b ELSE a
  BY DEF Max

\* The largest of four numbers.
LEMMA MaxOfFour ==
    ASSUME NEW a \in Int, NEW b \in Int, NEW c \in Int, NEW d \in Int
    PROVE  LET m == Max({a, b, c, d}) IN
           m \in Int /\ a <= m /\ b <= m /\ c <= m /\ d <= m
<1> DEFINE S == {a, b, c, d}
<1>1. \E x \in S : \A y \in S : x >= y
  OBVIOUS
<1>2. Max(S) \in S /\ \A y \in S : Max(S) >= y
  BY <1>1 DEF Max
<1> QED
  BY <1>2

\* The parameters are numbers.
LEMMA QuotaNumbers ==
    /\ PollInterval \in Nat \ {0} /\ ProbeTimeout \in Nat \ {0}
    /\ LeaseTTL \in Nat \ {0} /\ Margin \in Nat \ {0}
    /\ MaxBackoff \in Nat \ {0} /\ AuthBackoff \in Nat \ {0}
    /\ UnsupportedBackoff \in Nat \ {0}
    /\ ObservationTimeout \in Nat /\ AgeCap \in Nat /\ OverdueCap \in Nat
    /\ MaxFailures \in Nat \ {0}
    /\ JitterPercent \in 0..100
    /\ CycleTimeout \in Nat /\ CycleTimeout + Margin = LeaseTTL
    /\ CycleTimeout - ProbeTimeout >= 1
    /\ CycleTimeout < AgeCap /\ ObservationTimeout < AgeCap /\ AgeCap <= OverdueCap
    /\ Never = -1
  BY QuotaAssumption DEF CycleTimeout, Never

\* A share of a number is no more than the number, and grows with it.
LEMMA Share ==
    ASSUME NEW a \in Nat, NEW b \in Nat, a <= b, NEW j \in 0..100
    PROVE  /\ (a * j) \div 100 \in 0..a
           /\ (a * j) \div 100 <= (b * j) \div 100
<1>1. a * j \in Nat /\ b * j \in Nat
  OBVIOUS
<1>2. a * j <= b * j
  OBVIOUS
<1>3. a * j <= a * 100
  OBVIOUS
<1>4. PICK x \in Nat, y \in Nat : x = a * j /\ y = b * j
  BY <1>1
<1>5. x <= y /\ x <= a * 100
  BY <1>2, <1>3, <1>4
<1>6. x \div 100 \in 0..a /\ x \div 100 <= y \div 100
  BY <1>5
<1> QED
  BY <1>4, <1>6

\* Every wait the worker asks for is at most the longest one.
LEMMA LongestWaitIsLongest ==
    /\ LongestWait \in Int
    /\ PollInterval <= LongestWait /\ AuthBackoff <= LongestWait
    /\ UnsupportedBackoff <= LongestWait /\ MaxBackoff <= LongestWait
    /\ MaxBackoff + (MaxBackoff * JitterPercent) \div 100 <= LongestWait
<1>1. (MaxBackoff * JitterPercent) \div 100 \in 0..MaxBackoff
  BY QuotaNumbers, Share
<1>2. PICK x \in Nat : x = MaxBackoff + (MaxBackoff * JitterPercent) \div 100
  BY <1>1, QuotaNumbers
<1>3. MaxBackoff <= x
  BY <1>1, <1>2, QuotaNumbers
<1> DEFINE m == Max({PollInterval, AuthBackoff, UnsupportedBackoff, x})
<1>4. /\ m \in Int /\ PollInterval <= m /\ AuthBackoff <= m
      /\ UnsupportedBackoff <= m /\ x <= m
  <2>1. /\ PollInterval \in Int /\ AuthBackoff \in Int
        /\ UnsupportedBackoff \in Int /\ x \in Int
    BY QuotaNumbers
  <2> QED
    BY <2>1, MaxOfFour
<1> QED
  BY <1>2, <1>3, <1>4, QuotaNumbers DEF LongestWait

-----------------------------------------------------------------------------
(* The back-off *)

\* A set of numbers has a least one.
LEMMA LeastNumber ==
    ASSUME NEW T, T \subseteq Nat, T # {}
    PROVE  \E n \in T : \A m \in T : n <= m
<1>1. PICK n \in T : \A m \in T : ~(<<m, n>> \in OpToRel(<, Nat))
  BY NatLessThanWellFounded, WFMin
<1>2. ASSUME NEW m \in T PROVE ~(m < n)
  BY <1>1 DEF OpToRel
<1> QED
  BY <1>2

\* The first steps of an iteration of g from a.
Steps(a, g, k) ==
    {f \in [0..k -> Nat] : f[0] = a /\ \A n \in 0..k : n < k => f[n + 1] = g[f[n]]}

\* A number of steps can be made.
LEMMA StepsExist ==
    ASSUME NEW a \in Nat, NEW g \in [Nat -> Nat]
    PROVE  \A k \in Nat : Steps(a, g, k) # {}
<1> DEFINE T == {k \in Nat : Steps(a, g, k) = {}}
<1> SUFFICES ASSUME T # {} PROVE FALSE
  OBVIOUS
<1>1. PICK n \in T : \A m \in T : n <= m
  <2>1. T \subseteq Nat
    OBVIOUS
  <2> HIDE DEF T
  <2> QED
    BY <2>1, LeastNumber
<1>2. CASE n = 0
  <2> DEFINE f == [i \in 0..0 |-> a]
  <2>1. f \in Steps(a, g, 0)
    BY DEF Steps
  <2> QED
    BY <1>2, <2>1
<1>3. CASE n # 0
  <2>1. n - 1 \in Nat /\ n - 1 \notin T
    BY <1>1, <1>3
  <2>2. PICK f : f \in Steps(a, g, n - 1)
    BY <2>1
  <2>3. /\ f \in [0..(n - 1) -> Nat] /\ f[0] = a
        /\ \A i \in 0..(n - 1) : i < n - 1 => f[i + 1] = g[f[i]]
    BY <2>2 DEF Steps
  <2> DEFINE h == [i \in 0..n |-> IF i = n THEN g[f[n - 1]] ELSE f[i]]
  <2>4. f[n - 1] \in Nat /\ g[f[n - 1]] \in Nat
    BY <2>1, <2>3
  <2>5. h \in [0..n -> Nat]
    <3>1. ASSUME NEW i \in 0..n PROVE h[i] \in Nat
      <4>1. CASE i = n
        BY <4>1, <2>4
      <4>2. CASE i # n
        <5>1. i \in 0..(n - 1)
          BY <4>2, <2>1
        <5>2. f[i] \in Nat
          BY <5>1, <2>3
        <5> QED
          BY <5>2, <4>2
      <4> QED
        BY <4>1, <4>2
    <3> QED
      BY <3>1
  <2>6. h[0] = a
    BY <1>3, <2>1, <2>3
  <2>7. ASSUME NEW i \in 0..n, i < n PROVE h[i + 1] = g[h[i]]
    <3>1. CASE i = n - 1
      BY <3>1, <2>1, <2>7
    <3>2. CASE i # n - 1
      <4>1. i \in 0..(n - 1) /\ i < n - 1 /\ i # n /\ i + 1 # n /\ i + 1 \in 0..n
        BY <3>2, <2>1, <2>7
      <4>2. f[i + 1] = g[f[i]]
        BY <4>1, <2>3
      <4>3. h[i] = f[i] /\ h[i + 1] = f[i + 1]
        BY <4>1
      <4> QED
        BY <4>2, <4>3
    <3> QED
      BY <3>1, <3>2
  <2>8. h \in Steps(a, g, n)
    BY <2>5, <2>6, <2>7 DEF Steps
  <2> QED
    BY <2>8
<1> QED
  BY <1>2, <1>3

\* They come to the same, however many are made.
LEMMA StepsAgree ==
    ASSUME NEW a \in Nat, NEW g \in [Nat -> Nat], NEW k \in Nat, NEW m \in Nat,
           NEW f \in Steps(a, g, k), NEW h \in Steps(a, g, m)
    PROVE  \A i \in Nat : i <= k /\ i <= m => f[i] = h[i]
<1> DEFINE T == {i \in Nat : i <= k /\ i <= m /\ f[i] # h[i]}
<1> SUFFICES ASSUME T # {} PROVE FALSE
  OBVIOUS
<1>1. PICK n \in T : \A j \in T : n <= j
  <2>1. T \subseteq Nat
    OBVIOUS
  <2> HIDE DEF T
  <2> QED
    BY <2>1, LeastNumber
<1>2. /\ f[0] = a /\ h[0] = a
      /\ \A i \in 0..k : i < k => f[i + 1] = g[f[i]]
      /\ \A i \in 0..m : i < m => h[i + 1] = g[h[i]]
  BY DEF Steps
<1>3. n # 0
  BY <1>1, <1>2
<1>4. n - 1 \in Nat /\ n - 1 \notin T /\ n - 1 < k /\ n - 1 < m
  BY <1>1, <1>3
<1>5. f[n - 1] = h[n - 1]
  BY <1>4
<1>6. f[(n - 1) + 1] = g[f[n - 1]] /\ h[(n - 1) + 1] = g[h[n - 1]]
  BY <1>2, <1>4
<1> QED
  BY <1>1, <1>5, <1>6

\* A function of numbers can be iterated.
LEMMA Iteration ==
    ASSUME NEW a \in Nat, NEW g \in [Nat -> Nat]
    PROVE  \E f \in [Nat -> Nat] : f[0] = a /\ \A n \in Nat : f[n + 1] = g[f[n]]
<1> DEFINE s(n) == CHOOSE f : f \in Steps(a, g, n)
           F == [n \in Nat |-> s(n)[n]]
<1>1. \A n \in Nat : s(n) \in Steps(a, g, n)
  BY StepsExist
<1>2. ASSUME NEW n \in Nat
      PROVE  /\ s(n) \in [0..n -> Nat] /\ s(n)[0] = a
             /\ \A i \in 0..n : i < n => s(n)[i + 1] = g[s(n)[i]]
  BY <1>1 DEF Steps
<1>3. \A n \in Nat : s(n + 1)[n] = s(n)[n]
  <2>1. SUFFICES ASSUME NEW n \in Nat PROVE s(n + 1)[n] = s(n)[n]
    OBVIOUS
  <2>2. s(n) \in Steps(a, g, n) /\ s(n + 1) \in Steps(a, g, n + 1)
    BY <1>1
  <2> HIDE DEF s
  <2> QED
    BY <2>2, StepsAgree, SMTT(60)
<1> HIDE DEF s
<1>4. F \in [Nat -> Nat]
  BY <1>2
<1>5. F[0] = a
  BY <1>2
<1>6. ASSUME NEW n \in Nat PROVE F[n + 1] = g[F[n]]
  <2>1. s(n + 1)[n + 1] = g[s(n + 1)[n]]
    BY <1>2
  <2>2. s(n + 1)[n] = s(n)[n]
    BY <1>3
  <2>3. F[n + 1] = s(n + 1)[n + 1] /\ F[n] = s(n)[n]
    OBVIOUS
  <2> QED
    BY <2>1, <2>2, <2>3
<1> QED
  BY <1>4, <1>5, <1>6

\* The loop of failureDelay on one delay.
Double == [b \in Nat |->
    IF b >= MaxBackoff THEN b
    ELSE IF b > MaxBackoff \div 2 THEN MaxBackoff ELSE 2 * b]

\* Twice a number.
Twice == [b \in Nat |-> 2 * b]

\* What the recursive definition of the loop computes.
LEMMA DoubledByDefinition ==
    /\ Doubled[1] = PollInterval
    /\ \A n \in Nat : n > 1 =>
          Doubled[n] = LET base == Doubled[n - 1] IN
                       IF base >= MaxBackoff THEN base
                       ELSE IF base > MaxBackoff \div 2 THEN MaxBackoff ELSE 2 * base
<1>1. Double \in [Nat -> Nat]
  BY QuotaNumbers DEF Double
<1>2. PICK h \in [Nat -> Nat] :
        h[0] = PollInterval /\ \A n \in Nat : h[n + 1] = Double[h[n]]
  <2>1. PollInterval \in Nat
    BY QuotaNumbers
  <2> QED
    BY <1>1, <2>1, Iteration
<1> DEFINE
      D(f) == [n \in Nat |->
                 IF n <= 1 THEN PollInterval
                 ELSE LET base == f[n - 1] IN
                      IF base >= MaxBackoff THEN base
                      ELSE IF base > MaxBackoff \div 2 THEN MaxBackoff ELSE 2 * base]
      w == [n \in Nat |-> IF n <= 1 THEN PollInterval ELSE h[n - 1]]
<1>3. w = D(w)
  <2>1. ASSUME NEW n \in Nat PROVE w[n] = D(w)[n]
    <3>1. CASE n <= 1
      BY <3>1
    <3>2. CASE n > 1
      <4>1. w[n] = h[n - 1] /\ n - 1 \in Nat /\ n - 2 \in Nat
        BY <3>2
      <4>2. w[n - 1] = h[n - 2]
        BY <3>2, <1>2
      <4>3. h[(n - 2) + 1] = Double[h[n - 2]]
        BY <4>1, <1>2
      <4>4. h[n - 1] = Double[w[n - 1]]
        BY <4>2, <4>3
      <4>5. w[n - 1] \in Nat
        BY <4>1, <4>2, <1>2
      <4> HIDE DEF w
      <4> QED
        BY <3>2, <4>1, <4>4, <4>5 DEF Double
    <3> QED
      BY <3>1, <3>2
  <2>2. DOMAIN w = Nat /\ DOMAIN D(w) = Nat
    OBVIOUS
  <2>3. w = [n \in Nat |-> w[n]] /\ D(w) = [n \in Nat |-> D(w)[n]]
    OBVIOUS
  <2> HIDE DEF w, D
  <2> QED
    BY <2>1, <2>3
<1>4. Doubled = CHOOSE f : f = D(f)
  BY DEF Doubled
<1> HIDE DEF w
<1>5. Doubled = D(Doubled)
  <2> HIDE DEF D
  <2> QED
    BY <1>3, <1>4
<1> QED
  BY <1>5, QuotaNumbers

\* What the recursive definition of the doublings computes.
LEMMA DoublingsByDefinition ==
    /\ Doublings[0] = PollInterval
    /\ \A n \in Nat : n > 0 => Doublings[n] = 2 * Doublings[n - 1]
<1>1. Twice \in [Nat -> Nat]
  BY DEF Twice
<1>2. PICK h \in [Nat -> Nat] :
        h[0] = PollInterval /\ \A n \in Nat : h[n + 1] = Twice[h[n]]
  <2>1. PollInterval \in Nat
    BY QuotaNumbers
  <2> QED
    BY <1>1, <2>1, Iteration
<1> DEFINE
      D(f) == [n \in Nat |-> IF n = 0 THEN PollInterval ELSE 2 * f[n - 1]]
<1>3. h = D(h)
  <2>1. ASSUME NEW n \in Nat PROVE h[n] = D(h)[n]
    <3>1. CASE n = 0
      BY <3>1, <1>2
    <3>2. CASE n > 0
      <4>1. n - 1 \in Nat /\ h[(n - 1) + 1] = Twice[h[n - 1]]
        BY <3>2, <1>2
      <4> QED
        BY <3>2, <4>1, <1>2 DEF Twice
    <3> QED
      BY <3>1, <3>2
  <2>3. h = [n \in Nat |-> h[n]] /\ D(h) = [n \in Nat |-> D(h)[n]]
    BY <1>2
  <2> HIDE DEF D
  <2> QED
    BY <2>1, <2>3
<1>4. Doublings = CHOOSE f : f = D(f)
  BY DEF Doublings
<1>5. Doublings = D(Doublings)
  <2> HIDE DEF D
  <2> QED
    BY <1>3, <1>4
<1> QED
  BY <1>5, QuotaNumbers

\* The loop doubles until MaxBackoff, and is not below it from then on.
LEMMA DoubledDoubles ==
    \A n \in Nat :
        /\ Doubled[n + 1] \in Nat \ {0} /\ Doublings[n] \in Nat
        /\ \/ Doubled[n + 1] = Doublings[n]
           \/ Doubled[n + 1] >= MaxBackoff /\ Doublings[n] >= MaxBackoff
<1> DEFINE P(n) == /\ Doubled[n + 1] \in Nat \ {0} /\ Doublings[n] \in Nat
                   /\ \/ Doubled[n + 1] = Doublings[n]
                      \/ Doubled[n + 1] >= MaxBackoff /\ Doublings[n] >= MaxBackoff
           T == {n \in Nat : ~P(n)}
<1> SUFFICES ASSUME T # {} PROVE FALSE
  OBVIOUS
<1>1. PICK n \in T : \A j \in T : n <= j
  <2>1. T \subseteq Nat
    OBVIOUS
  <2> HIDE DEF T
  <2> QED
    BY <2>1, LeastNumber
<1>2. n # 0
  BY <1>1, DoubledByDefinition, DoublingsByDefinition, QuotaNumbers
<1>3. n - 1 \in Nat /\ n - 1 \notin T
  BY <1>1, <1>2
<1>4. P(n - 1)
  BY <1>3
<1>5. (n - 1) + 1 = n /\ (n + 1) - 1 = n /\ n + 1 > 1 /\ n + 1 \in Nat /\ n > 0 /\ n \in Nat
  BY <1>3
<1>6. Doublings[n] = 2 * Doublings[n - 1]
  BY <1>5, DoublingsByDefinition
<1>7. Doubled[n + 1] = LET base == Doubled[n] IN
                       IF base >= MaxBackoff THEN base
                       ELSE IF base > MaxBackoff \div 2 THEN MaxBackoff ELSE 2 * base
  <2>1. Doubled[n + 1] = LET base == Doubled[(n + 1) - 1] IN
                       IF base >= MaxBackoff THEN base
                       ELSE IF base > MaxBackoff \div 2 THEN MaxBackoff ELSE 2 * base
    BY <1>5, DoubledByDefinition
  <2> QED
    BY <1>5, <2>1
<1>8. /\ Doubled[n] \in Nat \ {0} /\ Doublings[n - 1] \in Nat
      /\ \/ Doubled[n] = Doublings[n - 1]
         \/ Doubled[n] >= MaxBackoff /\ Doublings[n - 1] >= MaxBackoff
  BY <1>4, <1>5
<1>9. P(n)
  BY <1>6, <1>7, <1>8, QuotaNumbers
<1> QED
  BY <1>1, <1>9

\* What the worker waits for before the jitter.
LEMMA DelayComputes ==
    ASSUME NEW n \in Nat \ {0}, NEW ra \in Nat
    PROVE  /\ Delay(n, ra) \in 0..MaxBackoff
           /\ ra = 0 => Delay(n, ra) = Min({MaxBackoff, Doublings[n - 1]})
           /\ ra > 0 => Delay(n, ra) = Min({MaxBackoff, Max({PollInterval, ra})})
<1>1. /\ n - 1 \in Nat /\ Doubled[n] \in Nat /\ Doublings[n - 1] \in Nat
      /\ \/ Doubled[n] = Doublings[n - 1]
         \/ Doubled[n] >= MaxBackoff /\ Doublings[n - 1] >= MaxBackoff
  <2>1. n - 1 \in Nat /\ (n - 1) + 1 = n
    OBVIOUS
  <2>2. /\ Doubled[(n - 1) + 1] \in Nat /\ Doublings[n - 1] \in Nat
        /\ \/ Doubled[(n - 1) + 1] = Doublings[n - 1]
           \/ Doubled[(n - 1) + 1] >= MaxBackoff /\ Doublings[n - 1] >= MaxBackoff
    BY <2>1, DoubledDoubles
  <2> QED
    BY <2>1, <2>2
<1>2. MaxBackoff \in Nat /\ PollInterval \in Nat
  BY QuotaNumbers
<1>3. CASE ra = 0
  <2>1. Delay(n, ra) = Min({MaxBackoff, Doubled[n]})
    BY <1>3 DEF Delay
  <2>2. Min({MaxBackoff, Doubled[n]}) =
          IF MaxBackoff <= Doubled[n] THEN MaxBackoff ELSE Doubled[n]
    BY <1>1, <1>2, MinOfTwo
  <2>3. Min({MaxBackoff, Doublings[n - 1]}) =
          IF MaxBackoff <= Doublings[n - 1] THEN MaxBackoff ELSE Doublings[n - 1]
    BY <1>1, <1>2, MinOfTwo
  <2> QED
    BY <1>1, <1>2, <1>3, <2>1, <2>2, <2>3
<1>4. CASE ra > 0
  <2> DEFINE m == Max({PollInterval, ra})
  <2>1. m \in Nat
    BY <1>2, MaxOfTwo
  <2>2. Delay(n, ra) = Min({MaxBackoff, m})
    BY <1>4 DEF Delay
  <2> HIDE DEF m
  <2>3. Min({MaxBackoff, m}) = IF MaxBackoff <= m THEN MaxBackoff ELSE m
    BY <1>2, <2>1, MinOfTwo
  <2>4. Delay(n, ra) \in 0..MaxBackoff
    BY <1>2, <2>1, <2>2, <2>3
  <2> QED
    BY <1>4, <2>2, <2>4 DEF m
<1> QED
  BY <1>3, <1>4

\* The jitter keeps the wait within the bounds.
LEMMA JitterBounded ==
    ASSUME NEW base \in 0..MaxBackoff, NEW ra \in Nat, NEW d \in Jittered(base, ra)
    PROVE  /\ d \in Nat /\ d <= LongestWait
           /\ ra <= MaxBackoff => d <= MaxBackoff
<1>1. PICK spread \in Int : spread = (base * JitterPercent) \div 100
  BY QuotaNumbers
<1>2. spread \in 0..base /\ spread <= (MaxBackoff * JitterPercent) \div 100
  <2>1. base \in Nat /\ MaxBackoff \in Nat /\ base <= MaxBackoff /\ JitterPercent \in 0..100
    BY QuotaNumbers
  <2>2. /\ (base * JitterPercent) \div 100 \in 0..base
        /\ (base * JitterPercent) \div 100 <= (MaxBackoff * JitterPercent) \div 100
    BY <2>1, Share
  <2> QED
    BY <1>1, <2>2
<1>3. PICK e \in (base - spread)..(base + spread) :
        d = IF ra <= MaxBackoff THEN Min({e, MaxBackoff}) ELSE e
  BY <1>1 DEF Jittered
<1>4. e \in Nat /\ e <= LongestWait
  <2>1. PICK x \in Int : x = (MaxBackoff * JitterPercent) \div 100
    BY QuotaNumbers
  <2>2. MaxBackoff + x <= LongestWait /\ LongestWait \in Int
    BY <2>1, LongestWaitIsLongest
  <2> QED
    BY <1>2, <1>3, <2>1, <2>2, QuotaNumbers
<1>5. Min({e, MaxBackoff}) = IF e <= MaxBackoff THEN e ELSE MaxBackoff
  BY <1>4, QuotaNumbers, MinOfTwo
<1>6. MaxBackoff \in Nat /\ MaxBackoff <= LongestWait
  BY QuotaNumbers, LongestWaitIsLongest
<1> QED
  BY <1>3, <1>4, <1>5, <1>6

\* A failure makes the worker wait, within the bounds.
LEMMA FailureDelayBounded ==
    ASSUME NEW n \in Nat \ {0}, NEW denied, NEW ra \in Nat,
           NEW d \in failureDelay(n, denied, ra)
    PROVE  d \in Nat /\ d <= LongestWait
<1>1. CASE denied
  BY <1>1, LongestWaitIsLongest, QuotaNumbers DEF failureDelay
<1>2. CASE ~denied
  <2>1. d \in Jittered(Delay(n, ra), ra)
    BY <1>2 DEF failureDelay
  <2>2. Delay(n, ra) \in 0..MaxBackoff
    BY DelayComputes
  <2> QED
    BY <2>1, <2>2, JitterBounded
<1> QED
  BY <1>1, <1>2

\* The back-off is right after any number of failures.
LEMMA BackoffComputes ==
    ASSUME InvType
    PROVE  BackoffDoubles
<1> SUFFICES ASSUME NEW c \in Credentials, NEW ra \in 0..(2 * MaxBackoff)
             PROVE  LET n == state[c].failures + 1 IN
                    /\ ra = 0 => Delay(n, ra) = Min({MaxBackoff, Doublings[n - 1]})
                    /\ ra > 0 => Delay(n, ra) = Min({MaxBackoff, Max({PollInterval, ra})})
                    /\ \A d \in Jittered(Delay(n, ra), ra) : ra <= MaxBackoff => d <= MaxBackoff
  BY DEF BackoffDoubles
<1>1. PICK n \in Nat \ {0} : n = state[c].failures + 1
  <2>1. state[c] \in ProbeRow
    BY DEF InvType
  <2>2. state[c].failures \in Nat
    BY <2>1, QuotaNumbers DEF ProbeRow
  <2> QED
    BY <2>2
<1>2. ra \in Nat
  BY QuotaNumbers
<1>3. /\ Delay(n, ra) \in 0..MaxBackoff
      /\ ra = 0 => Delay(n, ra) = Min({MaxBackoff, Doublings[n - 1]})
      /\ ra > 0 => Delay(n, ra) = Min({MaxBackoff, Max({PollInterval, ra})})
  BY <1>2, DelayComputes
<1>4. \A d \in Jittered(Delay(n, ra), ra) : ra <= MaxBackoff => d <= MaxBackoff
  BY <1>2, <1>3, JitterBounded
<1> QED
  BY <1>1, <1>3, <1>4

-----------------------------------------------------------------------------
(* Steps that leave the tables alone *)

\* The goroutine that does nothing, and the missing row.
LEMMA IdleGoroutine ==
    /\ NoRow \in ProbeRow
    /\ Idle \in Goroutine /\ Idle.pc = "idle" /\ Idle.left = 0 /\ Idle.write = NoRow
    /\ [Idle EXCEPT !.pc = "due"] \in Goroutine
    /\ [Idle EXCEPT !.pc = "due"].pc = "due"
    /\ [Idle EXCEPT !.pc = "release", !.left = Margin] \in Goroutine
    /\ [Idle EXCEPT !.pc = "release", !.left = Margin].pc = "release"
<1>1. NoRow \in ProbeRow
  BY QuotaNumbers DEF NoRow, ProbeRow
<1>2. Idle = [pc |-> "idle", left |-> 0, write |-> NoRow]
  BY DEF Idle
<1>3. [Idle EXCEPT !.pc = "due"] = [pc |-> "due", left |-> 0, write |-> NoRow]
  BY <1>2
<1>4. [Idle EXCEPT !.pc = "release", !.left = Margin].pc = "release"
  BY <1>2
<1>5. 0 \in 0..LeaseTTL /\ Margin \in 0..LeaseTTL
  BY QuotaNumbers
<1>6. Idle \in Goroutine /\ [Idle EXCEPT !.pc = "due"] \in Goroutine
  BY <1>1, <1>2, <1>3, <1>5 DEF Goroutine
<1>7. [Idle EXCEPT !.pc = "release", !.left = Margin] \in Goroutine
  BY <1>5, <1>6 DEF Goroutine
<1> QED
  BY <1>1, <1>2, <1>3, <1>4, <1>6, <1>7

\* A goroutine that is not in its cycle needs nothing.
LEMMA RestingSound ==
    ASSUME NEW w, NEW p, NEW l, NEW n, p.pc \in {"idle", "due", "release"}
    PROVE  ProbeSound(w, p, l, n)
  BY DEF ProbeSound, Running

\* One goroutine changes.
LEMMA ProbeChanges ==
    ASSUME InvType, NEW w \in Workers, NEW c \in Credentials, NEW p \in Goroutine,
           probe' = [probe EXCEPT ![w][c] = p]
    PROVE  /\ probe' \in [Workers -> [Credentials -> Goroutine]]
           /\ probe'[w][c] = p
           /\ \A v \in Workers, d \in Credentials :
                 v # w \/ d # c => probe'[v][d] = probe[v][d]
  BY DEF InvType

\* One goroutine changes, and the lease of its credential with it.
LEMMA CycleKeeps ==
    ASSUME QuotaInv, NEW w \in Workers, NEW c \in Credentials, NEW p \in Goroutine,
           probe' = [probe EXCEPT ![w][c] = p],
           lease' \in [Credentials -> {Free} \cup Held],
           \A d \in Credentials : d # c => lease'[d] = lease[d],
           ProbeSound(w, p, lease'[c], snapshot[c]),
           \A v \in Workers : v # w => ProbeSound(v, probe[v][c], lease'[c], snapshot[c]),
           UNCHANGED <<deployment, state, snapshot, passive>>
    PROVE  QuotaInv'
<1>1. /\ probe' \in [Workers -> [Credentials -> Goroutine]]
      /\ probe'[w][c] = p
      /\ \A v \in Workers, d \in Credentials :
            v # w \/ d # c => probe'[v][d] = probe[v][d]
  <2>1. InvType
    BY DEF QuotaInv
  <2> QED
    BY <2>1, ProbeChanges, ZenonT(60)
<1>2. InvType'
  BY <1>1 DEF QuotaInv, InvType
<1>3. \A d \in Credentials : StateSound(state'[d], snapshot'[d])
  BY DEF QuotaInv
<1>4. ASSUME NEW v \in Workers, NEW d \in Credentials
      PROVE  ProbeSound(v, probe'[v][d], lease'[d], snapshot'[d])
  <2>1. ProbeSound(v, probe[v][d], lease[d], snapshot[d]) /\ snapshot'[d] = snapshot[d]
    BY DEF QuotaInv
  <2>2. CASE d # c
    BY <1>1, <2>1, <2>2
  <2>3. CASE d = c /\ v # w
    BY <1>1, <2>1, <2>3
  <2>4. CASE d = c /\ v = w
    BY <1>1, <2>1, <2>4
  <2> QED
    BY <2>2, <2>3, <2>4
<1> QED
  BY <1>2, <1>3, <1>4 DEF QuotaInv

\* The same without a change of the lease.
LEMMA GoroutineKeeps ==
    ASSUME QuotaInv, NEW w \in Workers, NEW c \in Credentials, NEW p \in Goroutine,
           probe' = [probe EXCEPT ![w][c] = p], lease' = lease,
           ProbeSound(w, p, lease[c], snapshot[c]),
           UNCHANGED <<deployment, state, snapshot, passive>>
    PROVE  QuotaInv'
<1>1. /\ lease' \in [Credentials -> {Free} \cup Held]
      /\ \A d \in Credentials : d # c => lease'[d] = lease[d]
  BY DEF QuotaInv, InvType
<1>2. \A v \in Workers : v # w => ProbeSound(v, probe[v][c], lease'[c], snapshot[c])
  BY DEF QuotaInv
<1>3. ProbeSound(w, p, lease'[c], snapshot[c])
  OBVIOUS
<1> QED
  BY <1>1, <1>2, <1>3, CycleKeeps

\* All goroutines of a worker change to ones that are not in their cycle.
LEMMA WorkerKeeps ==
    ASSUME QuotaInv, NEW w \in Workers, NEW f \in [Credentials -> Goroutine],
           \A c \in Credentials : f[c].pc \in {"idle", "due"},
           probe' = [probe EXCEPT ![w] = f], lease' = lease,
           UNCHANGED <<deployment, state, snapshot, passive>>
    PROVE  QuotaInv'
<1>1. /\ probe' \in [Workers -> [Credentials -> Goroutine]]
      /\ probe'[w] = f
      /\ \A v \in Workers : v # w => probe'[v] = probe[v]
  BY DEF QuotaInv, InvType
<1>2. InvType'
  BY <1>1 DEF QuotaInv, InvType
<1>3. \A d \in Credentials : StateSound(state'[d], snapshot'[d])
  BY DEF QuotaInv
<1>4. ASSUME NEW v \in Workers, NEW d \in Credentials
      PROVE  ProbeSound(v, probe'[v][d], lease'[d], snapshot'[d])
  <2>1. CASE v = w
    BY <1>1, <2>1, RestingSound
  <2>2. CASE v # w
    BY <1>1, <2>2 DEF QuotaInv
  <2> QED
    BY <2>1, <2>2
<1> QED
  BY <1>2, <1>3, <1>4 DEF QuotaInv

-----------------------------------------------------------------------------
(* The steps of a cycle *)

\* A batch starts no cycle that has a lease already.
LEMMA RunOnceKeeps ==
    ASSUME QuotaInv, NEW w \in Workers, RunOnce(w)
    PROVE  QuotaInv'
<1>1. PICK batch : probe' = [probe EXCEPT ![w] = [c \in Credentials |->
                     IF c \in batch THEN [Idle EXCEPT !.pc = "due"] ELSE Idle]]
  BY DEF RunOnce
<1> DEFINE f == [c \in Credentials |->
                   IF c \in batch THEN [Idle EXCEPT !.pc = "due"] ELSE Idle]
<1>2. /\ f \in [Credentials -> Goroutine]
      /\ \A c \in Credentials : f[c].pc \in {"idle", "due"}
  BY IdleGoroutine
<1>3. probe' = [probe EXCEPT ![w] = f]
  BY <1>1
<1>4. lease' = lease /\ UNCHANGED <<deployment, state, snapshot, passive>>
  BY DEF RunOnce
<1> HIDE DEF f
<1> QED
  BY <1>2, <1>3, <1>4, WorkerKeeps

\* A worker that stops leaves its leases to expire.
LEMMA RestartKeeps ==
    ASSUME QuotaInv, NEW w \in Workers, Restart(w)
    PROVE  QuotaInv'
<1> DEFINE f == [c \in Credentials |-> Idle]
<1>1. /\ f \in [Credentials -> Goroutine]
      /\ \A c \in Credentials : f[c].pc \in {"idle", "due"}
  BY IdleGoroutine
<1>2. /\ probe' = [probe EXCEPT ![w] = f] /\ lease' = lease
      /\ UNCHANGED <<deployment, state, snapshot, passive>>
  BY DEF Restart
<1> HIDE DEF f
<1> QED
  BY <1>1, <1>2, WorkerKeeps

\* A worker that takes the lease finds no other at work: the lease of one that
\* works has time left.
LEMMA AcquireKeeps ==
    ASSUME QuotaInv, NEW w \in Workers, NEW c \in Credentials, Acquire(w, c)
    PROVE  QuotaInv'
<1>0. UNCHANGED <<deployment, state, snapshot, passive>>
  BY DEF Acquire
<1>1. CASE lease[c] # Free
  <2>1. probe' = [probe EXCEPT ![w][c] = Idle] /\ lease' = lease
    BY <1>1 DEF Acquire
  <2>2. Idle \in Goroutine /\ ProbeSound(w, Idle, lease[c], snapshot[c])
    BY IdleGoroutine, RestingSound
  <2> QED
    BY <1>0, <2>1, <2>2, GoroutineKeeps
<1>2. CASE lease[c] = Free
  <2> DEFINE p == [pc |-> "quota", left |-> CycleTimeout, write |-> NoRow]
             l == [owner |-> w, left |-> LeaseTTL]
  <2>1. probe' = [probe EXCEPT ![w][c] = p] /\ lease' = [lease EXCEPT ![c] = l]
    BY <1>2 DEF Acquire
  <2>2. p \in Goroutine
    BY IdleGoroutine, QuotaNumbers DEF Goroutine
  <2>3. l \in Held
    BY QuotaNumbers DEF Held
  <2>4. ProbeSound(w, p, l, snapshot[c])
    BY QuotaNumbers DEF ProbeSound, Running
  <2>5. ASSUME NEW v \in Workers
        PROVE  ProbeSound(v, probe[v][c], l, snapshot[c])
    <3>1. ProbeSound(v, probe[v][c], lease[c], snapshot[c]) /\ probe[v][c] \in Goroutine
      BY DEF QuotaInv, InvType
    <3>2. ~Running(probe[v][c])
      BY <1>2, <3>1, QuotaNumbers DEF ProbeSound, Free, Goroutine
    <3> QED
      BY <3>2 DEF ProbeSound, Running
  <2> HIDE DEF p, l
  <2>6. /\ lease' \in [Credentials -> {Free} \cup Held] /\ lease'[c] = l
        /\ \A d \in Credentials : d # c => lease'[d] = lease[d]
    BY <2>1, <2>3 DEF QuotaInv, InvType
  <2> QED
    BY <1>0, <2>1, <2>2, <2>4, <2>5, <2>6, CycleKeeps
<1> QED
  BY <1>1, <1>2

\* A row that a probe has just decided on.
FreshRow(row, newest) ==
    /\ row \in ProbeRow /\ row.age = 0 /\ row.row # "none"
    /\ 0 <= row.next /\ row.next <= LongestWait
    /\ IF row.row = "observation" THEN row.observed # Never
       ELSE Supports(newest, row.observed)

\* A row of the state is fresh if its parts are in their bounds.
LEMMA RowIsFresh ==
    ASSUME NEW next \in Nat, next <= LongestWait, NEW failures \in 0..MaxFailures,
           NEW observed \in Never..AgeCap, NEW newest, Supports(newest, observed)
    PROVE  FreshRow(Row(next, failures, observed), newest)
<1> DEFINE row == Row(next, failures, observed)
<1>1. /\ row.row = "state" /\ row.next = next /\ row.age = 0
      /\ row.failures = failures /\ row.observed = observed
  BY DEF Row
<1>2. row \in ProbeRow
  BY QuotaNumbers DEF Row, ProbeRow
<1> HIDE DEF row
<1>3. FreshRow(row, newest)
  BY <1>1, <1>2 DEF FreshRow
<1> QED
  BY <1>3 DEF row

\* What recordObservation writes is fresh.
LEMMA ObservationIsFresh ==
    ASSUME QuotaInv, NEW c \in Credentials, NEW row \in recordObservation(c)
    PROVE  FreshRow(row, snapshot[c])
<1>1. PICK age \in {0, snapshot[c]} \ {Never} :
        row = [Row(PollInterval, 0, age) EXCEPT !.row = "observation"]
  BY DEF recordObservation
<1>2. age \in Never..AgeCap /\ age # Never
  BY <1>1, QuotaNumbers DEF QuotaInv, InvType
<1>3. row = [row |-> "observation", next |-> PollInterval, age |-> 0,
             failures |-> 0, observed |-> age]
  BY <1>1 DEF Row
<1>4. row \in ProbeRow
  BY <1>2, <1>3, QuotaNumbers DEF ProbeRow
<1>5. /\ row.row = "observation" /\ row.next = PollInterval /\ row.age = 0
      /\ row.observed = age
  BY <1>3
<1> QED
  BY <1>2, <1>4, <1>5, QuotaNumbers, LongestWaitIsLongest DEF FreshRow

\* What a probe decides on is fresh.
LEMMA ProbedIsFresh ==
    ASSUME QuotaInv, NEW c \in Credentials,
           NEW row \in IF c \notin Probed THEN recordUnsupported(c)
                       ELSE recordNoObservation(c) \cup recordObservation(c) \cup
                              UNION {recordFailure(c, f.denied, f.retryAfter) : f \in Failures}
    PROVE  FreshRow(row, snapshot[c])
<1>0. /\ state[c].observed \in Never..AgeCap /\ Supports(snapshot[c], state[c].observed)
      /\ state[c].failures \in 0..MaxFailures
  <2>1. state[c] \in ProbeRow /\ StateSound(state[c], snapshot[c])
    BY DEF QuotaInv, InvType
  <2> QED
    BY <2>1 DEF ProbeRow, StateSound
<1>1. CASE row \in recordUnsupported(c)
  <2>1. row = Row(UnsupportedBackoff, 0, Never)
    BY <1>1 DEF recordUnsupported
  <2>2. /\ UnsupportedBackoff \in Nat /\ UnsupportedBackoff <= LongestWait
        /\ 0 \in 0..MaxFailures /\ Never \in Never..AgeCap
        /\ Supports(snapshot[c], Never)
    BY QuotaNumbers, LongestWaitIsLongest DEF Supports
  <2> QED
    BY <2>1, <2>2, RowIsFresh
<1>2. CASE row \in recordNoObservation(c)
  <2>1. row = Row(PollInterval, 0, state[c].observed)
    BY <1>2 DEF recordNoObservation
  <2>2. PollInterval \in Nat /\ PollInterval <= LongestWait /\ 0 \in 0..MaxFailures
    BY QuotaNumbers, LongestWaitIsLongest
  <2> QED
    BY <1>0, <2>1, <2>2, RowIsFresh
<1>3. CASE row \in recordObservation(c)
  BY <1>3, ObservationIsFresh
<1>4. CASE \E f \in Failures : row \in recordFailure(c, f.denied, f.retryAfter)
  <2>1. PICK f \in Failures : row \in recordFailure(c, f.denied, f.retryAfter)
    BY <1>4
  <2>2. f.retryAfter \in Nat
    BY QuotaAssumption DEF Failures
  <2> DEFINE n == Min({state[c].failures + 1, MaxFailures})
  <2>3. PICK d \in failureDelay(n, f.denied, f.retryAfter) :
          row = Row(d, n, state[c].observed)
    BY <2>1 DEF recordFailure
  <2>4. n \in 1..MaxFailures /\ n \in Nat \ {0} /\ n \in 0..MaxFailures
    <3>1. PICK m \in Nat : m = state[c].failures + 1 /\ m >= 1
      BY <1>0
    <3>2. Min({m, MaxFailures}) = IF m <= MaxFailures THEN m ELSE MaxFailures
      BY QuotaNumbers, MinOfTwo
    <3> QED
      BY <3>1, <3>2, QuotaNumbers
  <2>5. d \in Nat /\ d <= LongestWait
    BY <2>2, <2>3, <2>4, FailureDelayBounded
  <2> HIDE DEF n
  <2> QED
    BY <1>0, <2>3, <2>4, <2>5, RowIsFresh
<1> QED
  BY <1>1, <1>2, <1>3, <1>4

\* A goroutine goes on with something to write or with nothing.
Continues(w, c, pc, row) ==
    probe' = [probe EXCEPT ![w][c].pc = pc, ![w][c].write = row]

\* It is a goroutine still.
LEMMA GoesOn ==
    ASSUME InvType, NEW w \in Workers, NEW c \in Credentials, NEW row \in ProbeRow,
           NEW pc, pc \in {"write", "health"}, Continues(w, c, pc, row)
    PROVE  \E p \in Goroutine :
              /\ probe' = [probe EXCEPT ![w][c] = p]
              /\ p.pc = pc /\ p.write = row /\ p.left = probe[w][c].left
<1> DEFINE p == [probe[w][c] EXCEPT !.pc = pc, !.write = row]
<1>1. probe[w][c] \in Goroutine
  BY DEF InvType
<1>2. p \in Goroutine /\ p.pc = pc /\ p.write = row /\ p.left = probe[w][c].left
  BY <1>1 DEF Goroutine
<1>3. probe' = [probe EXCEPT ![w][c] = p]
  BY DEF InvType, Continues
<1> QED
  BY <1>2, <1>3

\* A probe decides on what to write within its lease.
LEMMA ProbeKeeps ==
    ASSUME QuotaInv, NEW w \in Workers, NEW c \in Credentials, Probe(w, c)
    PROVE  QuotaInv'
<1>1. PICK row \in IF c \notin Probed THEN recordUnsupported(c)
                   ELSE recordNoObservation(c) \cup recordObservation(c) \cup
                          UNION {recordFailure(c, f.denied, f.retryAfter) : f \in Failures} :
        probe' = [probe EXCEPT ![w][c].pc = "write", ![w][c].write = row]
  BY DEF Probe
<1>2. /\ lease' = lease /\ UNCHANGED <<deployment, state, snapshot, passive>>
      /\ probe[w][c].pc = "quota"
  BY DEF Probe
<1>3. FreshRow(row, snapshot[c])
  BY <1>1, ProbedIsFresh
<1>4. PICK p \in Goroutine :
        /\ probe' = [probe EXCEPT ![w][c] = p]
        /\ p.pc = "write" /\ p.write = row /\ p.left = probe[w][c].left
  <2>1. Continues(w, c, "write", row)
    BY <1>1 DEF Continues
  <2>2. InvType /\ row \in ProbeRow
    BY <1>3 DEF QuotaInv, FreshRow
  <2> QED
    BY <2>1, <2>2, GoesOn
<1>5. /\ probe[w][c] \in Goroutine
      /\ ProbeSound(w, probe[w][c], lease[c], snapshot[c])
  BY DEF QuotaInv, InvType
<1>6. /\ lease[c].owner = w /\ p.left <= CycleTimeout /\ p.left + Margin <= lease[c].left
      /\ p.left \in Nat
  BY <1>2, <1>4, <1>5 DEF ProbeSound, Running, Goroutine
<1>7. WriteSound(p, snapshot[c])
  BY <1>3, <1>4, <1>6 DEF WriteSound, FreshRow, ProbeRow
<1>8. ProbeSound(w, p, lease[c], snapshot[c])
  BY <1>4, <1>6, <1>7 DEF ProbeSound
<1> QED
  BY <1>2, <1>4, <1>8, GoroutineKeeps

\* A goroutine that has written, or has failed to, keeps its lease.
LEMMA HealthSound ==
    ASSUME NEW w, NEW old, NEW p, NEW l, NEW n, ProbeSound(w, old, l, n),
           old.pc = "write", p.pc = "health", p.left = old.left
    PROVE  ProbeSound(w, p, l, n)
  BY DEF ProbeSound, Running

\* A write that fails.
LEMMA WriteFailsKeeps ==
    ASSUME QuotaInv, NEW w \in Workers, NEW c \in Credentials, WriteFails(w, c)
    PROVE  QuotaInv'
<1>1. /\ probe' = [probe EXCEPT ![w][c].pc = "health", ![w][c].write = NoRow]
      /\ lease' = lease /\ UNCHANGED <<deployment, state, snapshot, passive>>
      /\ probe[w][c].pc = "write"
  BY DEF WriteFails
<1>2. InvType /\ ProbeSound(w, probe[w][c], lease[c], snapshot[c])
  BY DEF QuotaInv
<1>3. PICK p \in Goroutine :
        /\ probe' = [probe EXCEPT ![w][c] = p]
        /\ p.pc = "health" /\ p.write = NoRow /\ p.left = probe[w][c].left
  <2>1. Continues(w, c, "health", NoRow)
    BY <1>1 DEF Continues
  <2> QED
    BY <2>1, <1>2, IdleGoroutine, GoesOn
<1>4. ProbeSound(w, p, lease[c], snapshot[c])
  BY <1>1, <1>2, <1>3, HealthSound
<1> QED
  BY <1>1, <1>3, <1>4, GoroutineKeeps

\* A goroutine that goes on to its Release.
LEMMA ReleasingKeeps ==
    ASSUME QuotaInv, NEW w \in Workers, NEW c \in Credentials,
           probe' = [probe EXCEPT ![w][c] = [Idle EXCEPT !.pc = "release", !.left = Margin]],
           lease' = lease, UNCHANGED <<deployment, state, snapshot, passive>>
    PROVE  QuotaInv'
<1>1. PICK p \in Goroutine :
        p = [Idle EXCEPT !.pc = "release", !.left = Margin] /\ p.pc = "release"
  BY IdleGoroutine
<1>2. probe' = [probe EXCEPT ![w][c] = p]
  BY <1>1
<1>3. ProbeSound(w, p, lease[c], snapshot[c])
  <2>1. p.pc \in {"idle", "due", "release"}
    BY <1>1
  <2> QED
    BY <2>1, RestingSound
<1> QED
  BY <1>2, <1>3, GoroutineKeeps

\* A Release frees no lease of another worker.
LEMMA ReleaseKeeps ==
    ASSUME QuotaInv, NEW w \in Workers, NEW c \in Credentials, Release(w, c)
    PROVE  QuotaInv'
<1>1. /\ probe' = [probe EXCEPT ![w][c] = Idle] /\ probe[w][c].pc = "release"
      /\ UNCHANGED <<deployment, state, snapshot, passive>>
  BY DEF Release
<1>2. Idle \in Goroutine /\ \A l : ProbeSound(w, Idle, l, snapshot[c])
  BY IdleGoroutine, RestingSound
<1>3. CASE lease' = lease
  BY <1>1, <1>2, <1>3, GoroutineKeeps
<1>4. CASE lease' = [lease EXCEPT ![c] = Released(w, c)]
  <2>1. lease \in [Credentials -> {Free} \cup Held]
    BY DEF QuotaInv, InvType
  <2>2. Released(w, c) \in {Free} \cup Held
    BY <2>1 DEF Released
  <2>3. /\ lease' \in [Credentials -> {Free} \cup Held] /\ lease'[c] = Released(w, c)
        /\ \A d \in Credentials : d # c => lease'[d] = lease[d]
    BY <1>4, <2>1, <2>2
  <2>4. ASSUME NEW v \in Workers, v # w
        PROVE  ProbeSound(v, probe[v][c], lease'[c], snapshot[c])
    <3>1. ProbeSound(v, probe[v][c], lease[c], snapshot[c])
      BY DEF QuotaInv
    <3>2. CASE lease[c].owner # w
      BY <3>1, <3>2, <2>3 DEF Released
    <3>3. CASE lease[c].owner = w
      <4>1. ~Running(probe[v][c])
        BY <3>1, <3>3, <2>4 DEF ProbeSound
      <4> QED
        BY <4>1 DEF ProbeSound, Running
    <3> QED
      BY <3>2, <3>3
  <2> QED
    BY <1>1, <1>2, <2>3, <2>4, CycleKeeps
<1> QED
  BY <1>3, <1>4 DEF Release

-----------------------------------------------------------------------------
(* Steps that write the tables *)

\* The newest snapshot is the same or a newer one.
Newer(new, old) == old # Never => new # Never /\ new <= old

\* A newer snapshot supports what an older one did.
LEMMA NewerSupports ==
    ASSUME NEW old \in Never..AgeCap, NEW new \in Never..AgeCap, Newer(new, old),
           NEW observed \in Never..AgeCap, Supports(old, observed)
    PROVE  Supports(new, observed)
  BY QuotaNumbers DEF Newer, Supports

\* A goroutine stays sound.
LEMMA NewerKeepsProbe ==
    ASSUME NEW old \in Never..AgeCap, NEW new \in Never..AgeCap, Newer(new, old),
           NEW w, NEW p \in Goroutine, NEW l, ProbeSound(w, p, l, old)
    PROVE  ProbeSound(w, p, l, new)
<1>1. p.write.observed \in Never..AgeCap
  BY DEF Goroutine, ProbeRow
<1>2. Supports(old, p.write.observed) => Supports(new, p.write.observed)
  BY <1>1, NewerSupports
<1> QED
  BY <1>2 DEF ProbeSound, WriteSound

\* What the tables have is a newest snapshot with the rows of the observation.
LEMMA AppendedIsNewest ==
    ASSUME NEW old \in Never..AgeCap, NEW row, row.observed \in Never..AgeCap,
           row.observed # Never
    PROVE  /\ Appended(old, row) \in Never..AgeCap
           /\ Newer(Appended(old, row), old)
           /\ Supports(Appended(old, row), row.observed)
<1>1. CASE old = Never
  BY <1>1 DEF Appended, Newer, Supports
<1>2. CASE old # Never
  <2>1. Appended(old, row) = Min({old, row.observed})
    BY <1>2 DEF Appended
  <2>2. PICK o \in Never..AgeCap : o = row.observed
    OBVIOUS
  <2>3. Min({old, o}) = IF old <= o THEN old ELSE o
    BY QuotaNumbers, MinOfTwo
  <2> QED
    BY <1>2, <2>1, <2>2, <2>3, QuotaNumbers DEF Newer, Supports
<1> QED
  BY <1>1, <1>2

\* The state that is stored stays sound, whether the row replaces it or not.
LEMMA UpsertedSound ==
    ASSUME NEW stored \in ProbeRow, NEW row \in ProbeRow,
           NEW old \in Never..AgeCap, NEW new \in Never..AgeCap, Newer(new, old),
           StateSound(stored, old), Supports(new, row.observed),
           -OverdueCap <= row.next, row.next <= LongestWait
    PROVE  Upserted(stored, row) \in ProbeRow /\ StateSound(Upserted(stored, row), new)
<1>1. CASE NotOlder(stored, row)
  <2>1. PICK r : r = [row EXCEPT !.row = "state"]
    OBVIOUS
  <2>2. Upserted(stored, row) = r
    BY <1>1, <2>1 DEF Upserted
  <2>3. r \in ProbeRow /\ r.next = row.next /\ r.observed = row.observed
    BY <2>1 DEF ProbeRow
  <2> QED
    BY <2>2, <2>3 DEF StateSound
<1>2. CASE ~NotOlder(stored, row)
  <2>1. stored.observed \in Never..AgeCap
    BY DEF ProbeRow
  <2>2. Supports(new, stored.observed)
    BY <2>1, NewerSupports DEF StateSound
  <2> QED
    BY <1>2, <2>2 DEF Upserted, StateSound
<1> QED
  BY <1>1, <1>2

\* The row and the newest snapshot of one credential change.
LEMMA StoreKeeps ==
    ASSUME QuotaInv, NEW c \in Credentials, NEW row \in ProbeRow,
           NEW new \in Never..AgeCap, Newer(new, snapshot[c]), StateSound(row, new),
           state' = [state EXCEPT ![c] = row],
           snapshot' = [snapshot EXCEPT ![c] = new],
           probe' \in [Workers -> [Credentials -> Goroutine]],
           \A v \in Workers, d \in Credentials :
              ProbeSound(v, probe'[v][d], lease[d], snapshot[d]),
           lease' = lease, deployment' = deployment,
           passive' \in {NoPassive} \cup Observation
    PROVE  QuotaInv'
<1>1. /\ state \in [Credentials -> ProbeRow]
      /\ snapshot \in [Credentials -> Never..AgeCap]
  BY DEF QuotaInv, InvType
<1>2. /\ state' \in [Credentials -> ProbeRow] /\ state'[c] = row
      /\ \A d \in Credentials : d # c => state'[d] = state[d]
  BY <1>1
<1>3. /\ snapshot' \in [Credentials -> Never..AgeCap] /\ snapshot'[c] = new
      /\ \A d \in Credentials : d # c => snapshot'[d] = snapshot[d]
  BY <1>1
<1>4. InvType'
  BY <1>2, <1>3 DEF QuotaInv, InvType
<1>5. ASSUME NEW d \in Credentials PROVE StateSound(state'[d], snapshot'[d])
  BY <1>2, <1>3 DEF QuotaInv
<1>6. ASSUME NEW v \in Workers, NEW d \in Credentials
      PROVE  ProbeSound(v, probe'[v][d], lease'[d], snapshot'[d])
  <2>1. CASE d = c
    <3>1. probe'[v][c] \in Goroutine /\ snapshot[c] \in Never..AgeCap
      BY <1>1
    <3>2. ProbeSound(v, probe'[v][c], lease[c], snapshot[c])
      OBVIOUS
    <3>3. ProbeSound(v, probe'[v][c], lease[c], new)
      BY <3>1, <3>2, NewerKeepsProbe
    <3> QED
      BY <2>1, <3>3, <1>3
  <2>2. CASE d # c
    BY <2>2, <1>3
  <2> QED
    BY <2>1, <2>2
<1> QED
  BY <1>4, <1>5, <1>6 DEF QuotaInv

\* A write stores what it claims, or leaves a newer state alone.
LEMMA WriteKeeps ==
    ASSUME QuotaInv, NEW w \in Workers, NEW c \in Credentials, Write(w, c)
    PROVE  QuotaInv'
<1>1. PICK row : row = probe[w][c].write
  OBVIOUS
<1>2. /\ probe[w][c].pc = "write"
      /\ state' = [state EXCEPT ![c] = Upserted(state[c], row)]
      /\ snapshot' = IF row.row = "observation"
           THEN [snapshot EXCEPT ![c] = Appended(snapshot[c], row)] ELSE snapshot
      /\ probe' = [probe EXCEPT ![w][c].pc = "health", ![w][c].write = NoRow]
      /\ lease' = lease /\ deployment' = deployment /\ passive' = passive
  BY <1>1 DEF Write
<1>3. /\ InvType /\ probe[w][c] \in Goroutine
      /\ ProbeSound(w, probe[w][c], lease[c], snapshot[c])
      /\ state[c] \in ProbeRow /\ snapshot[c] \in Never..AgeCap
      /\ StateSound(state[c], snapshot[c])
      /\ passive \in {NoPassive} \cup Observation
  BY DEF QuotaInv, InvType
<1>4. row \in ProbeRow /\ probe[w][c].left \in Nat
  BY <1>1, <1>3, QuotaNumbers DEF Goroutine
<1>5. /\ -OverdueCap <= row.next /\ row.next <= LongestWait
      /\ IF row.row = "observation" THEN row.observed # Never
         ELSE Supports(snapshot[c], row.observed)
  <2>1. WriteSound(probe[w][c], snapshot[c])
    BY <1>2, <1>3 DEF ProbeSound
  <2>2. /\ row.age \in 0..AgeCap /\ row.next \in Int
        /\ row.age + probe[w][c].left <= CycleTimeout /\ 0 <= row.next + row.age
    BY <1>1, <1>4, <2>1 DEF WriteSound, ProbeRow
  <2>3. -OverdueCap <= row.next
    BY <1>4, <2>2, QuotaNumbers
  <2> QED
    BY <1>1, <2>1, <2>3 DEF WriteSound
<1>6. PICK p \in Goroutine :
        /\ probe' = [probe EXCEPT ![w][c] = p]
        /\ p.pc = "health" /\ p.write = NoRow /\ p.left = probe[w][c].left
  <2>1. Continues(w, c, "health", NoRow)
    BY <1>2 DEF Continues
  <2> QED
    BY <2>1, <1>3, IdleGoroutine, GoesOn
<1>7. ProbeSound(w, p, lease[c], snapshot[c])
  BY <1>2, <1>3, <1>6, HealthSound
<1>8. /\ probe' \in [Workers -> [Credentials -> Goroutine]] /\ probe'[w][c] = p
      /\ \A v \in Workers, d \in Credentials :
            v # w \/ d # c => probe'[v][d] = probe[v][d]
  <2>1. InvType /\ probe' = [probe EXCEPT ![w][c] = p]
    BY <1>3, <1>6
  <2> QED
    BY <2>1, ProbeChanges, ZenonT(60)
<1>9. ASSUME NEW v \in Workers, NEW d \in Credentials
      PROVE  ProbeSound(v, probe'[v][d], lease[d], snapshot[d])
  <2>1. CASE v = w /\ d = c
    BY <2>1, <1>7, <1>8
  <2>2. CASE ~(v = w /\ d = c)
    BY <2>2, <1>8 DEF QuotaInv
  <2> QED
    BY <2>1, <2>2
<1>10. PICK new \in Never..AgeCap :
         /\ snapshot' = [snapshot EXCEPT ![c] = new]
         /\ Newer(new, snapshot[c]) /\ Supports(new, row.observed)
  <2>1. CASE row.row = "observation"
    <3>1. row.observed \in Never..AgeCap /\ row.observed # Never
      BY <2>1, <1>4, <1>5 DEF ProbeRow
    <3>2. /\ Appended(snapshot[c], row) \in Never..AgeCap
          /\ Newer(Appended(snapshot[c], row), snapshot[c])
          /\ Supports(Appended(snapshot[c], row), row.observed)
      BY <3>1, <1>3, AppendedIsNewest
    <3> QED
      BY <1>2, <2>1, <3>2
  <2>2. CASE row.row # "observation"
    <3>1. snapshot' = [snapshot EXCEPT ![c] = snapshot[c]]
      BY <1>2, <2>2, <1>3 DEF InvType
    <3>2. Newer(snapshot[c], snapshot[c])
      BY <1>3, QuotaNumbers DEF Newer
    <3> QED
      BY <1>3, <1>5, <2>2, <3>1, <3>2
  <2> QED
    BY <2>1, <2>2
<1>11. PICK stored \in ProbeRow :
         stored = Upserted(state[c], row) /\ StateSound(stored, new)
  BY <1>3, <1>4, <1>5, <1>10, UpsertedSound
<1>12. state' = [state EXCEPT ![c] = stored]
  BY <1>2, <1>11
<1> QED
  BY <1>2, <1>3, <1>8, <1>9, <1>10, <1>11, <1>12, StoreKeeps

\* A response brings an observation.
LEMMA ObserveResponseKeeps ==
    ASSUME QuotaInv, NEW c \in Credentials, ObserveResponse(c)
    PROVE  QuotaInv'
<1>1. /\ passive' = [credential |-> c, age |-> 0]
      /\ UNCHANGED <<deployment, state, snapshot, lease, probe>>
  BY DEF ObserveResponse
<1>2. passive' \in Observation
  BY <1>1, QuotaNumbers DEF Observation
<1>3. InvType'
  BY <1>1, <1>2 DEF QuotaInv, InvType
<1> QED
  BY <1>1, <1>3 DEF QuotaInv

\* A passive observation that is stored, or fails.
LEMMA PersistObservationKeeps ==
    ASSUME QuotaInv, PersistObservation
    PROVE  QuotaInv'
<1>1. passive # NoPassive /\ passive' = NoPassive /\ UNCHANGED <<deployment, lease, probe>>
  BY DEF PersistObservation
<1>2. InvType
  BY DEF QuotaInv
<1>3. PICK c \in Credentials, age \in 0..ObservationTimeout :
        c = passive.credential /\ age = passive.age
  BY <1>1, <1>2 DEF InvType, Observation
<1>4. CASE UNCHANGED <<state, snapshot>>
  <2>1. InvType'
    BY <1>1, <1>2, <1>4 DEF InvType
  <2> QED
    BY <1>1, <1>4, <2>1 DEF QuotaInv
<1>5. CASE ~UNCHANGED <<state, snapshot>>
  <2> DEFINE row == [Row(PollInterval - age, 0, age) EXCEPT !.age = age]
  <2>1. /\ state' = [state EXCEPT ![c] = Upserted(state[c], row)]
        /\ snapshot' = [snapshot EXCEPT ![c] = Appended(snapshot[c], row)]
    BY <1>3, <1>5 DEF PersistObservation
  <2>2. row = [row |-> "state", next |-> PollInterval - age, age |-> age,
               failures |-> 0, observed |-> age]
    BY DEF Row
  <2>3. /\ age \in 0..AgeCap /\ age \in Never..AgeCap /\ age # Never
        /\ PollInterval - age \in Int /\ -OverdueCap <= PollInterval - age
        /\ PollInterval - age <= LongestWait
    BY QuotaNumbers, LongestWaitIsLongest
  <2>4. row.next = PollInterval - age /\ row.observed = age
    BY <2>2
  <2>5. row \in ProbeRow
    BY <2>2, <2>3, QuotaNumbers DEF ProbeRow
  <2> HIDE DEF row
  <2>6. snapshot[c] \in Never..AgeCap /\ state[c] \in ProbeRow
    BY <1>2 DEF InvType
  <2>7. PICK new \in Never..AgeCap :
          /\ new = Appended(snapshot[c], row)
          /\ Newer(new, snapshot[c]) /\ Supports(new, row.observed)
    <3>1. row.observed \in Never..AgeCap /\ row.observed # Never
      BY <2>3, <2>4
    <3> QED
      BY <2>6, <3>1, AppendedIsNewest
  <2>8. PICK stored \in ProbeRow :
          stored = Upserted(state[c], row) /\ StateSound(stored, new)
    <3>1. StateSound(state[c], snapshot[c])
      BY DEF QuotaInv
    <3>2. -OverdueCap <= row.next /\ row.next <= LongestWait
      BY <2>3, <2>4
    <3> QED
      BY <2>5, <2>6, <2>7, <3>1, <3>2, UpsertedSound
  <2>9. /\ state' = [state EXCEPT ![c] = stored]
        /\ snapshot' = [snapshot EXCEPT ![c] = new]
    BY <2>1, <2>7, <2>8
  <2>10. /\ probe' \in [Workers -> [Credentials -> Goroutine]]
         /\ \A v \in Workers, d \in Credentials :
               ProbeSound(v, probe'[v][d], lease[d], snapshot[d])
    BY <1>1, <1>2 DEF QuotaInv, InvType
  <2>11. passive' \in {NoPassive} \cup Observation /\ lease' = lease /\ deployment' = deployment
    BY <1>1
  <2> QED
    BY <2>7, <2>8, <2>9, <2>10, <2>11, StoreKeeps
<1> QED
  BY <1>4, <1>5

-----------------------------------------------------------------------------
(* Time *)

\* An age after a tick.
LEMMA OlderType ==
    ASSUME NEW a \in Never..AgeCap
    PROVE  /\ Older(a) \in Never..AgeCap
           /\ Older(a) = IF a = Never THEN Never ELSE IF a < AgeCap THEN a + 1 ELSE AgeCap
<1>1. CASE a = Never
  BY <1>1, QuotaNumbers DEF Older
<1>2. CASE a # Never
  <2>1. a + 1 \in Int /\ AgeCap \in Int
    BY QuotaNumbers
  <2>2. Min({a + 1, AgeCap}) = IF a + 1 <= AgeCap THEN a + 1 ELSE AgeCap
    BY <2>1, MinOfTwo
  <2> QED
    BY <1>2, <2>2, QuotaNumbers DEF Older
<1> QED
  BY <1>1, <1>2

\* A snapshot supports the same after a tick.
LEMMA OlderSupports ==
    ASSUME NEW n \in Never..AgeCap, NEW o \in Never..AgeCap, Supports(n, o)
    PROVE  Supports(Older(n), Older(o))
  BY OlderType, QuotaNumbers DEF Supports

\* A stored row after a tick.
AgedRow(s) ==
    IF s = NoRow THEN NoRow
    ELSE [s EXCEPT !.next = Max({s.next - 1, -OverdueCap}), !.age = Older(s.age),
                   !.observed = Older(s.observed)]

\* A lease after a tick.
AgedLease(l) == IF l.left <= 1 THEN Free ELSE [l EXCEPT !.left = l.left - 1]

\* A tick brings the next attempt nearer, and no snapshot gets newer than what
\* a row says was observed.
LEMMA RowAges ==
    ASSUME NEW s \in ProbeRow, NEW n \in Never..AgeCap, StateSound(s, n)
    PROVE  /\ AgedRow(s) \in ProbeRow /\ StateSound(AgedRow(s), Older(n))
           /\ AgedRow(s).next \in {s.next - 1, s.next}
<1>1. CASE s = NoRow
  <2>1. AgedRow(s) = NoRow
    BY <1>1 DEF AgedRow
  <2>2. NoRow.next = 0 /\ NoRow.observed = Never
    BY DEF NoRow
  <2> QED
    BY <1>1, <2>1, <2>2, IdleGoroutine, QuotaNumbers, LongestWaitIsLongest
       DEF StateSound, Supports
<1>2. CASE s # NoRow
  <2>1. /\ s.next \in Int /\ s.age \in 0..AgeCap /\ s.observed \in Never..AgeCap
        /\ -OverdueCap <= s.next /\ s.next <= LongestWait /\ Supports(n, s.observed)
    BY DEF ProbeRow, StateSound
  <2>2. PICK m \in Int : m = Max({s.next - 1, -OverdueCap})
    <3>1. s.next - 1 \in Int /\ -OverdueCap \in Int
      BY <2>1, QuotaNumbers
    <3> QED
      BY <3>1, MaxOfTwo
  <2>3. m = IF s.next - 1 <= -OverdueCap THEN -OverdueCap ELSE s.next - 1
    <3>1. s.next - 1 \in Int /\ -OverdueCap \in Int
      BY <2>1, QuotaNumbers
    <3> QED
      BY <2>2, <3>1, MaxOfTwo
  <2>4. PICK a \in 0..AgeCap : a = Older(s.age)
    BY <2>1, OlderType, QuotaNumbers
  <2>5. PICK o \in Never..AgeCap : o = Older(s.observed)
    BY <2>1, OlderType
  <2>6. PICK t : t = [s EXCEPT !.next = m, !.age = a, !.observed = o]
    OBVIOUS
  <2>7. AgedRow(s) = t
    BY <1>2, <2>2, <2>4, <2>5, <2>6 DEF AgedRow
  <2>8. t \in ProbeRow /\ t.next = m /\ t.observed = o
    BY <2>6 DEF ProbeRow
  <2>9. m \in {s.next - 1, s.next} /\ -OverdueCap <= m /\ m <= LongestWait
    BY <2>1, <2>3, QuotaNumbers, LongestWaitIsLongest
  <2>10. Supports(Older(n), o)
    BY <2>1, <2>5, OlderSupports
  <2> QED
    BY <2>7, <2>8, <2>9, <2>10 DEF StateSound
<1> QED
  BY <1>1, <1>2

\* A lease that does not expire keeps its owner.
LEMMA LeaseAges ==
    ASSUME NEW l \in {Free} \cup Held
    PROVE  /\ AgedLease(l) \in {Free} \cup Held /\ l.left \in Nat
           /\ l.left >= 2 => AgedLease(l).owner = l.owner /\ AgedLease(l).left = l.left - 1
<1>1. CASE l = Free
  BY <1>1 DEF AgedLease, Free
<1>2. CASE l \in Held /\ l.left <= 1
  BY <1>2, QuotaNumbers DEF AgedLease, Held
<1>3. CASE l \in Held /\ ~(l.left <= 1)
  <2>1. AgedLease(l) = [l EXCEPT !.left = l.left - 1]
    BY <1>3 DEF AgedLease
  <2>2. l.left - 1 \in 1..LeaseTTL /\ l.left \in Nat
    BY <1>3, QuotaNumbers DEF Held
  <2> QED
    BY <1>3, <2>1, <2>2 DEF Held
<1> QED
  BY <1>1, <1>2, <1>3

\* A probe that is in time after a tick has its lease still.
LEMMA ProbeAges ==
    ASSUME NEW w, NEW p \in Goroutine, NEW l \in {Free} \cup Held,
           NEW n \in Never..AgeCap, ProbeSound(w, p, l, n), ~OverTime(p)
    PROVE  /\ LaterProbe(p) \in Goroutine
           /\ ProbeSound(w, LaterProbe(p), AgedLease(l), Older(n))
<1>1. /\ p.left \in 0..LeaseTTL /\ p.write \in ProbeRow
      /\ p.pc \in {"idle", "due", "quota", "write", "health", "release"}
  BY DEF Goroutine
<1>2. PICK left \in 0..LeaseTTL :
        left = Max({p.left - 1, 0}) /\ left = IF p.left <= 1 THEN 0 ELSE p.left - 1
  <2>1. p.left - 1 \in Int /\ 0 \in Int
    BY <1>1, QuotaNumbers
  <2>2. Max({p.left - 1, 0}) = IF p.left - 1 <= 0 THEN 0 ELSE p.left - 1
    BY <2>1, MaxOfTwo
  <2> QED
    BY <1>1, <2>2, QuotaNumbers
<1>3. Running(p) => p.left >= 1
  BY <1>1, QuotaNumbers DEF OverTime, Running
<1>4. Running(p) =>
        /\ AgedLease(l).owner = w /\ left <= CycleTimeout
        /\ left + Margin <= AgedLease(l).left
  <2>1. SUFFICES ASSUME Running(p)
                 PROVE  /\ AgedLease(l).owner = w /\ left <= CycleTimeout
                        /\ left + Margin <= AgedLease(l).left
    OBVIOUS
  <2>2. l.owner = w /\ p.left <= CycleTimeout /\ p.left + Margin <= l.left /\ p.left >= 1
    BY <2>1, <1>3 DEF ProbeSound
  <2>3. l.left \in Nat
    BY LeaseAges
  <2>4. l.left >= 2
    BY <1>1, <2>2, <2>3, QuotaNumbers
  <2>5. AgedLease(l).owner = l.owner /\ AgedLease(l).left = l.left - 1
    BY <2>4, LeaseAges
  <2> QED
    BY <1>1, <1>2, <2>2, <2>3, <2>5, QuotaNumbers
<1>5. CASE p.pc # "write"
  <2>1. PICK q : q = [p EXCEPT !.left = left, !.write = p.write]
    OBVIOUS
  <2>2. LaterProbe(p) = q
    BY <1>2, <1>5, <2>1 DEF LaterProbe
  <2>3. q \in Goroutine /\ q.left = left /\ q.pc = p.pc
    BY <1>1, <2>1 DEF Goroutine
  <2> QED
    BY <1>4, <1>5, <2>2, <2>3 DEF ProbeSound, Running
<1>6. CASE p.pc = "write"
  <2>1. PICK row : row = p.write /\ row \in ProbeRow
    BY <1>1
  <2>2. /\ row.next \in Int /\ row.age \in 0..AgeCap /\ row.observed \in Never..AgeCap
        /\ row.row \in {"none", "state", "observation"}
    BY <2>1 DEF ProbeRow
  <2>3. /\ row.age + p.left <= CycleTimeout /\ 0 <= row.next + row.age
        /\ row.next <= LongestWait /\ row.row # "none"
        /\ IF row.row = "observation" THEN row.observed # Never
           ELSE Supports(n, row.observed)
    BY <1>6, <2>1 DEF ProbeSound, WriteSound
  <2>4. p.left >= 1
    BY <1>3, <1>6 DEF Running
  <2>5. PICK age \in 0..AgeCap : age = row.age + 1 /\ age + left <= CycleTimeout
    BY <1>1, <1>2, <2>2, <2>3, <2>4, QuotaNumbers
  <2>6. PICK next \in Int : next = row.next - 1 /\ 0 <= next + age /\ next <= LongestWait
    BY <2>2, <2>3, <2>5, LongestWaitIsLongest
  <2>7. PICK o \in Never..AgeCap : o = Older(row.observed)
    BY <2>2, OlderType
  <2>8. /\ row.observed # Never => o # Never
        /\ Supports(n, row.observed) => Supports(Older(n), o)
    BY <2>2, <2>7, OlderType, OlderSupports, QuotaNumbers
  <2>9. PICK t : t = [row EXCEPT !.age = age, !.next = next, !.observed = o]
    OBVIOUS
  <2>10. /\ t \in ProbeRow /\ t.age = age /\ t.next = next /\ t.observed = o
         /\ t.row = row.row
    BY <2>1, <2>9 DEF ProbeRow
  <2>11. LaterWrite(p.write) = t
    BY <2>1, <2>5, <2>6, <2>7, <2>9 DEF LaterWrite
  <2>12. PICK q : q = [p EXCEPT !.left = left, !.write = t]
    OBVIOUS
  <2>13. LaterProbe(p) = q
    BY <1>2, <1>6, <2>11, <2>12 DEF LaterProbe
  <2>14. q \in Goroutine /\ q.left = left /\ q.pc = p.pc /\ q.write = t
    BY <2>10, <2>12 DEF Goroutine
  <2>15. WriteSound(q, Older(n))
    BY <2>3, <2>5, <2>6, <2>8, <2>10, <2>14 DEF WriteSound
  <2> QED
    BY <1>4, <1>6, <2>13, <2>14, <2>15 DEF ProbeSound, Running
<1> QED
  BY <1>5, <1>6

\* What a tick does to each row, lease and goroutine.
LEMMA TickAges ==
    ASSUME InvType, Tick
    PROVE  /\ state' = [c \in Credentials |-> AgedRow(state[c])]
           /\ snapshot' = [c \in Credentials |-> Older(snapshot[c])]
           /\ lease' = [c \in Credentials |-> AgedLease(lease[c])]
           /\ probe' = [w \in Workers |-> [c \in Credentials |-> LaterProbe(probe[w][c])]]
           /\ \A w \in Workers, c \in Credentials : ~OverTime(probe[w][c])
           /\ deployment' = deployment
<1>1. state' = [c \in Credentials |-> AgedRow(state[c])]
  BY DEF Tick, AgedRow
<1>2. lease' = [c \in Credentials |-> AgedLease(lease[c])]
  BY DEF Tick, AgedLease
<1>3. probe' = [w \in Workers |-> [c \in Credentials |-> LaterProbe(probe[w][c])]]
  BY DEF Tick
<1> QED
  BY <1>1, <1>2, <1>3 DEF Tick

\* Time passes.
LEMMA TickKeeps ==
    ASSUME QuotaInv, Tick
    PROVE  QuotaInv'
<1>1. InvType
  BY DEF QuotaInv
<1>2. /\ state' = [c \in Credentials |-> AgedRow(state[c])]
      /\ snapshot' = [c \in Credentials |-> Older(snapshot[c])]
      /\ lease' = [c \in Credentials |-> AgedLease(lease[c])]
      /\ probe' = [w \in Workers |-> [c \in Credentials |-> LaterProbe(probe[w][c])]]
      /\ \A w \in Workers, c \in Credentials : ~OverTime(probe[w][c])
      /\ deployment' = deployment
  BY <1>1, TickAges
<1>3. ASSUME NEW c \in Credentials
      PROVE  /\ state[c] \in ProbeRow /\ snapshot[c] \in Never..AgeCap
             /\ lease[c] \in {Free} \cup Held /\ StateSound(state[c], snapshot[c])
  BY DEF QuotaInv, InvType
<1>4. ASSUME NEW c \in Credentials
      PROVE  /\ state'[c] \in ProbeRow /\ snapshot'[c] \in Never..AgeCap
             /\ lease'[c] \in {Free} \cup Held /\ StateSound(state'[c], snapshot'[c])
  <2>1. /\ state'[c] = AgedRow(state[c]) /\ snapshot'[c] = Older(snapshot[c])
        /\ lease'[c] = AgedLease(lease[c])
    BY <1>2
  <2>2. AgedRow(state[c]) \in ProbeRow /\ StateSound(AgedRow(state[c]), Older(snapshot[c]))
    BY <1>3, RowAges
  <2>3. Older(snapshot[c]) \in Never..AgeCap
    BY <1>3, OlderType
  <2>4. AgedLease(lease[c]) \in {Free} \cup Held
    BY <1>3, LeaseAges
  <2> QED
    BY <2>1, <2>2, <2>3, <2>4
<1>5. ASSUME NEW w \in Workers, NEW c \in Credentials
      PROVE  /\ probe'[w][c] \in Goroutine
             /\ ProbeSound(w, probe'[w][c], lease'[c], snapshot'[c])
  <2>1. /\ probe'[w][c] = LaterProbe(probe[w][c]) /\ snapshot'[c] = Older(snapshot[c])
        /\ lease'[c] = AgedLease(lease[c])
    BY <1>2
  <2>2. /\ probe[w][c] \in Goroutine /\ ~OverTime(probe[w][c])
        /\ ProbeSound(w, probe[w][c], lease[c], snapshot[c])
    BY <1>1, <1>2 DEF QuotaInv, InvType
  <2>3. /\ LaterProbe(probe[w][c]) \in Goroutine
        /\ ProbeSound(w, LaterProbe(probe[w][c]), AgedLease(lease[c]), Older(snapshot[c]))
    BY <1>3, <2>2, ProbeAges
  <2> QED
    BY <2>1, <2>3
<1>6. /\ state' \in [Credentials -> ProbeRow]
      /\ snapshot' \in [Credentials -> Never..AgeCap]
      /\ lease' \in [Credentials -> {Free} \cup Held]
  BY <1>2, <1>4
<1>7. probe' \in [Workers -> [Credentials -> Goroutine]]
  BY <1>2, <1>5
<1>8. passive' \in {NoPassive} \cup Observation
  <2>1. CASE passive = NoPassive
    BY <2>1 DEF Tick
  <2>2. CASE passive # NoPassive
    <3>1. passive \in Observation /\ passive.age < ObservationTimeout
          /\ passive' = [passive EXCEPT !.age = passive.age + 1]
      BY <1>1, <2>2 DEF InvType, Tick
    <3>2. passive.age + 1 \in 0..ObservationTimeout
      BY <3>1, QuotaNumbers DEF Observation
    <3> QED
      BY <3>1, <3>2 DEF Observation
  <2> QED
    BY <2>1, <2>2
<1>9. InvType'
  BY <1>1, <1>2, <1>6, <1>7, <1>8 DEF InvType
<1> QED
  BY <1>4, <1>5, <1>9 DEF QuotaInv

-----------------------------------------------------------------------------
(* The theorems *)

\* The state at the start.
LEMMA QuotaStarts ==
    ASSUME QuotaInit
    PROVE  QuotaInv
<1>1. InvType
  BY IdleGoroutine, QuotaNumbers DEF QuotaInit, InvType
<1>2. ASSUME NEW c \in Credentials PROVE StateSound(state[c], snapshot[c])
  <2>1. state[c] = NoRow /\ NoRow.next = 0 /\ NoRow.observed = Never
    BY DEF QuotaInit, NoRow
  <2> QED
    BY <2>1, QuotaNumbers, LongestWaitIsLongest DEF StateSound, Supports
<1>3. ASSUME NEW w \in Workers, NEW c \in Credentials
      PROVE  ProbeSound(w, probe[w][c], lease[c], snapshot[c])
  <2>1. probe[w][c].pc \in {"idle", "due", "release"}
    BY IdleGoroutine DEF QuotaInit
  <2> QED
    BY <2>1, RestingSound
<1> QED
  BY <1>1, <1>2, <1>3 DEF QuotaInv

\* Every step keeps the invariant.
LEMMA QuotaNextKeeps ==
    ASSUME QuotaInv, [QuotaNext]_vars
    PROVE  QuotaInv'
<1>1. ASSUME NEW w \in Workers, RunOnce(w) \/ Restart(w) PROVE QuotaInv'
  BY <1>1, RunOnceKeeps, RestartKeeps
<1>2. ASSUME NEW w \in Workers, NEW c \in Credentials, Cycle(w, c) \/ WriteFails(w, c)
      PROVE  QuotaInv'
  <2>1. CASE Acquire(w, c)
    BY <2>1, AcquireKeeps
  <2>2. CASE Probe(w, c)
    BY <2>2, ProbeKeeps
  <2>3. CASE Write(w, c)
    BY <2>3, WriteKeeps
  <2>4. CASE Health(w, c) \/ CycleEnds(w, c)
    <3>1. /\ probe' = [probe EXCEPT ![w][c] = [Idle EXCEPT !.pc = "release", !.left = Margin]]
          /\ lease' = lease /\ UNCHANGED <<deployment, state, snapshot, passive>>
      BY <2>4 DEF Health, CycleEnds
    <3> QED
      BY <3>1, ReleasingKeeps
  <2>5. CASE Release(w, c)
    BY <2>5, ReleaseKeeps
  <2>6. CASE WriteFails(w, c)
    BY <2>6, WriteFailsKeeps
  <2> QED
    BY <1>2, <2>1, <2>2, <2>3, <2>4, <2>5, <2>6 DEF Cycle
<1>3. ASSUME NEW c \in Credentials, ObserveResponse(c) PROVE QuotaInv'
  BY <1>3, ObserveResponseKeeps
<1>4. CASE PersistObservation
  BY <1>4, PersistObservationKeeps
<1>5. CASE Tick
  BY <1>5, TickKeeps
<1>6. CASE UNCHANGED vars
  <2>1. UNCHANGED <<deployment, state, snapshot, lease, probe, passive>>
    BY <1>6 DEF vars
  <2>2. InvType'
    BY <2>1 DEF QuotaInv, InvType
  <2> QED
    BY <2>1, <2>2 DEF QuotaInv
<1> QED
  BY <1>1, <1>2, <1>3, <1>4, <1>5, <1>6 DEF QuotaNext

\* What the invariant says of the types.
LEMMA TypesFollow ==
    ASSUME QuotaInv
    PROVE  QuotaTypeOK
<1>1. ASSUME NEW c \in Credentials
      PROVE  /\ state[c].age \in 0..AgeCap /\ state[c].failures \in 0..MaxFailures
             /\ state[c].next <= LongestWait
             /\ lease[c] = Free \/ lease[c] \in [owner : Workers, left : 1..LeaseTTL]
  <2>1. /\ state[c] \in ProbeRow /\ StateSound(state[c], snapshot[c])
        /\ lease[c] \in {Free} \cup Held
    BY DEF QuotaInv, InvType
  <2> QED
    BY <2>1 DEF ProbeRow, StateSound, Held
<1>2. ASSUME NEW w \in Workers, NEW c \in Credentials
      PROVE  /\ probe[w][c].pc \in {"idle", "due", "quota", "write", "health", "release"}
             /\ probe[w][c].left \in 0..LeaseTTL /\ probe[w][c].write.age \in 0..AgeCap
  <2>1. probe[w][c] \in Goroutine
    BY DEF QuotaInv, InvType
  <2> QED
    BY <2>1 DEF Goroutine, ProbeRow
<1>3. deployment \in Deployments /\ snapshot \in [Credentials -> Never..AgeCap]
  BY DEF QuotaInv, InvType
<1> QED
  BY <1>1, <1>2, <1>3 DEF QuotaTypeOK, LongestWait

\* Those who probe a credential all own its lease: there is one at most.
LEMMA OneProbeFollows ==
    ASSUME QuotaInv
    PROVE  OneProbe
<1> SUFFICES ASSUME NEW c \in Credentials
             PROVE  Cardinality({w \in Workers : Running(probe[w][c])}) <= 1
  BY DEF OneProbe
<1> DEFINE R == {w \in Workers : Running(probe[w][c])}
           O == {lease[c].owner}
<1>1. R \subseteq O
  <2>1. ASSUME NEW w \in R PROVE w = lease[c].owner
    BY DEF QuotaInv, ProbeSound
  <2> QED
    BY <2>1
<1>2. IsFiniteSet(O) /\ Cardinality(O) = 1
  BY FS_Singleton
<1> HIDE DEF R, O
<1>3. IsFiniteSet(R) /\ Cardinality(R) <= Cardinality(O) /\ Cardinality(R) \in Nat
  BY <1>1, <1>2, FS_Subset, FS_CardinalityType
<1>4. Cardinality(R) <= 1
  BY <1>2, <1>3
<1> QED
  BY <1>4 DEF R

\* What the state says was observed is stored.
LEMMA ObservedFollows ==
    ASSUME QuotaInv
    PROVE  ObservedIsStored
  BY DEF QuotaInv, StateSound, Supports, ObservedIsStored

\* For any credentials, workers, timeouts and back-offs, and whatever crashes,
\* fails, is late or expires: a credential is probed by one worker at a time,
\* its state claims no observation that is not stored, and the nth failure in a
\* row doubles the wait up to MaxBackoff (service.go RunOnce and failureDelay,
\* repository.go PersistObservation, the lease of coordinator.go).
THEOREM ProbesStaySafe == QuotaSpec => []ProbeSafety
<1>1. QuotaInit => QuotaInv
  BY QuotaStarts
<1>2. QuotaInv /\ [QuotaNext]_vars => QuotaInv'
  BY QuotaNextKeeps
<1>3. QuotaInv => ProbeSafety
  <2>1. SUFFICES ASSUME QuotaInv PROVE ProbeSafety
    OBVIOUS
  <2>2. InvType
    BY <2>1 DEF QuotaInv
  <2> QED
    BY <2>1, <2>2, TypesFollow, OneProbeFollows, ObservedFollows, BackoffComputes
       DEF ProbeSafety
<1> QED
  BY <1>1, <1>2, <1>3, PTL DEF QuotaSpec

\* A row replaces a stored one only if it is not older.
LEMMA UpsertIsNotOlder ==
    ASSUME NEW stored \in ProbeRow, NEW row \in ProbeRow, Upserted(stored, row) # stored
    PROVE  Upserted(stored, row).age <= stored.age
<1>1. NotOlder(stored, row)
  BY DEF Upserted
<1>2. Upserted(stored, row) = [row EXCEPT !.row = "state"]
  BY <1>1 DEF Upserted
<1>3. [row EXCEPT !.row = "state"].age = row.age
  BY DEF ProbeRow
<1> QED
  BY <1>1, <1>2, <1>3 DEF NotOlder, ProbeRow

\* What a step may do to the stored state of a credential.
LEMMA LateResultsChangeNothing ==
    ASSUME QuotaInv, [QuotaNext]_vars, NEW c \in Credentials, state'[c] # state[c]
    PROVE  \/ state'[c].age <= state[c].age
           \/ state'[c].next \in {state[c].next - 1, state[c].next}
<1>0. /\ InvType /\ state[c] \in ProbeRow /\ snapshot[c] \in Never..AgeCap
      /\ StateSound(state[c], snapshot[c]) /\ state \in [Credentials -> ProbeRow]
  BY DEF QuotaInv, InvType
<1>1. ASSUME NEW w \in Workers, NEW d \in Credentials, Write(w, d)
      PROVE  state'[c].age <= state[c].age
  <2>1. state' = [state EXCEPT ![d] = Upserted(state[d], probe[w][d].write)]
    BY <1>1 DEF Write
  <2>2. d = c /\ state'[c] = Upserted(state[c], probe[w][c].write)
    BY <1>0, <2>1
  <2>3. probe[w][c].write \in ProbeRow
    <3>1. probe[w][c] \in Goroutine
      BY <1>0 DEF InvType
    <3> QED
      BY <3>1 DEF Goroutine
  <2> QED
    BY <1>0, <2>2, <2>3, UpsertIsNotOlder
<1>2. CASE PersistObservation
  <2>1. PICK d, row : /\ d = passive.credential
                      /\ row = [Row(PollInterval - passive.age, 0, passive.age)
                                  EXCEPT !.age = passive.age]
                      /\ state' = [state EXCEPT ![d] = Upserted(state[d], row)]
    BY <1>2 DEF PersistObservation
  <2>2. PICK age \in 0..ObservationTimeout : age = passive.age
    BY <1>0, <1>2 DEF InvType, Observation, PersistObservation
  <2>3. row = [row |-> "state", next |-> PollInterval - age, age |-> age,
               failures |-> 0, observed |-> age]
    BY <2>1, <2>2 DEF Row
  <2>4. row \in ProbeRow
    BY <2>3, QuotaNumbers DEF ProbeRow
  <2>5. state'[c] = Upserted(state[c], row)
    BY <1>0, <2>1
  <2> QED
    BY <1>0, <2>4, <2>5, UpsertIsNotOlder
<1>3. CASE Tick
  <2>1. state'[c] = AgedRow(state[c])
    BY <1>0, <1>3, TickAges
  <2> QED
    BY <1>0, <2>1, RowAges
<1>4. CASE UNCHANGED state
  BY <1>4
<1>5. \/ \E w \in Workers, d \in Credentials : Write(w, d)
      \/ PersistObservation \/ Tick \/ UNCHANGED state
  BY ZenonT(60) DEF QuotaNext, Cycle, RunOnce, Restart, Acquire, Probe, Health, CycleEnds, Release,
         WriteFails, ObserveResponse, vars
<1> QED
  BY <1>1, <1>2, <1>3, <1>4, <1>5

\* For any credentials, workers and timeouts: only time and results that are not
\* older change the stored back-off; a result that comes late, from a cycle or
\* from a response, leaves it alone (repository.go upsertProbeState).
THEOREM LateResultsAreIgnored == QuotaSpec => LateResultIgnored
<1>1. QuotaInit => QuotaInv
  BY QuotaStarts
<1>2. QuotaInv /\ [QuotaNext]_vars => QuotaInv'
  BY QuotaNextKeeps
<1>3. QuotaInv /\ [QuotaNext]_vars =>
        [\A c \in Credentials : state'[c] # state[c] =>
          \/ state'[c].age <= state[c].age
          \/ state'[c].next \in {state[c].next - 1, state[c].next}]_vars
  BY LateResultsChangeNothing
<1> QED
  BY <1>1, <1>2, <1>3, PTL DEF QuotaSpec, LateResultIgnored
=============================================================================
