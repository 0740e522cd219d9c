-------------------------- MODULE PerfCommandsProofs --------------------------
(***************************************************************************)
(* Theorems about PerfCommands: whatever commands clients send, what they   *)
(* become is what PerfService assumes of requests.  Nothing here rests on   *)
(* that assumption.                                                         *)
(***************************************************************************)
EXTENDS PerfCommands, PerfServiceProofs

\* Counting up to n.
LEMMA CountUp ==
  ASSUME NEW n \in Nat, NEW G, 0 \in G, \A i \in 1 .. n : i - 1 \in G => i \in G
  PROVE  \A i \in 0 .. n : i \in G
<1> DEFINE Bad == {i \in 0 .. n : i \notin G}
<1> SUFFICES ASSUME Bad # {} PROVE FALSE
  OBVIOUS
<1>1. PICK j \in Bad : \A i \in Bad : j <= i
  <2>1. Bad \subseteq Nat
    OBVIOUS
  <2> HIDE DEF Bad
  <2> QED
    BY <2>1, Least
<1>2. j \in 1 .. n /\ j - 1 \in 0 .. n /\ ~(j <= j - 1)
  OBVIOUS
<1>3. j - 1 \notin Bad
  <2> HIDE DEF Bad
  <2> QED
    BY <1>1, <1>2
<1> QED
  BY <1>2, <1>3

-----------------------------------------------------------------------------
(* The total of the cores *)

\* What a cluster counts for.
LEMMA CountedType ==
  ASSUME NEW m, NEW c \in Cluster
  PROVE  Counted(m, c) \in Nat /\ Counted(m, c) <= cpuNum[c] /\ cpuNum[c] \in Nat
  BY PerfServiceAssumption DEF Counted

\* The loop over the clusters is a function.
LEMMA TotalLoop ==
  ASSUME NEW m
  PROVE  \E t \in [0 .. nClusterNum -> Nat] :
           t[0] = 0 /\ \A i \in 1 .. nClusterNum : t[i] = t[i - 1] + Counted(m, i - 1)
<1> DEFINE n == nClusterNum
           Good(k, t) == /\ t \in [0 .. n -> Nat] /\ t[0] = 0
                         /\ \A i \in 1 .. n : i <= k => t[i] = t[i - 1] + Counted(m, i - 1)
           G == {k \in 0 .. n : \E t : Good(k, t)}
<1>1. n \in Nat /\ n > 0 /\ \A i \in 1 .. n : i - 1 \in Cluster
  BY PerfServiceAssumption DEF Cluster
<1>2. 0 \in G
  <2>1. Good(0, [i \in 0 .. n |-> 0])
    BY <1>1
  <2> QED
    BY <1>1, <2>1
<1>3. ASSUME NEW k \in 1 .. n, k - 1 \in G PROVE k \in G
  <2>1. PICK t : Good(k - 1, t)
    BY <1>3
  <2> DEFINE u == [t EXCEPT ![k] = t[k - 1] + Counted(m, k - 1)]
  <2>2. k \in 0 .. n /\ k - 1 \in 0 .. n /\ k # 0 /\ k - 1 \in Cluster
    BY <1>1
  <2>3. u \in [0 .. n -> Nat] /\ u[0] = 0 /\ u[k] = t[k - 1] + Counted(m, k - 1)
    BY <1>1, <2>1, <2>2, CountedType
  <2>4. \A i \in 0 .. n : i # k => u[i] = t[i]
    BY <2>1, <2>2
  <2> HIDE DEF u
  <2>5. ASSUME NEW i \in 1 .. n, i <= k PROVE u[i] = u[i - 1] + Counted(m, i - 1)
    <3>1. i - 1 \in 0 .. n /\ i \in 0 .. n /\ i - 1 # k /\ (i = k \/ i <= k - 1)
      BY <1>1, <2>5
    <3> QED
      BY <2>1, <2>3, <2>4, <3>1
  <2>6. Good(k, u)
    BY <2>3, <2>5
  <2> QED
    BY <2>2, <2>6
<1>4. n \in G
  <2>1. n \in 0 .. n
    BY <1>1
  <2> HIDE DEF G
  <2> QED
    BY <1>1, <1>2, <1>3, <2>1, CountUp
<1>5. PICK t : Good(n, t)
  BY <1>4
<1> QED
  BY <1>1, <1>5

\* The total is the last value of that function.
LEMMA TotalIs ==
  ASSUME NEW m
  PROVE  \E t \in [0 .. nClusterNum -> Nat] :
           /\ t[0] = 0 /\ \A i \in 1 .. nClusterNum : t[i] = t[i - 1] + Counted(m, i - 1)
           /\ TotalOf(m) = t[nClusterNum]
<1> DEFINE n == nClusterNum
           Loop(t) == [i \in 0 .. n |-> IF i = 0 THEN 0 ELSE t[i - 1] + Counted(m, i - 1)]
           total == CHOOSE t : t = Loop(t)
<1>1. n \in Nat /\ n > 0 /\ \A i \in 1 .. n : i - 1 \in Cluster
  BY PerfServiceAssumption DEF Cluster
<1>2. \E t : t = Loop(t)
  <2>1. PICK t \in [0 .. n -> Nat] : t[0] = 0 /\ \A i \in 1 .. n : t[i] = t[i - 1] + Counted(m, i - 1)
    BY TotalLoop
  <2>2. \A i \in 0 .. n : t[i] = Loop(t)[i]
    BY <1>1, <2>1
  <2>3. t = Loop(t)
    BY <2>1, <2>2
  <2> QED
    BY <2>3
<1>3. total = Loop(total)
  BY <1>2
<1>4. TotalOf(m) = total[n]
  BY DEF TotalOf
<1> HIDE DEF total
<1>5. total[0] = 0 /\ \A i \in 1 .. n : total[i] = total[i - 1] + Counted(m, i - 1)
  BY <1>1, <1>3
<1> DEFINE G == {i \in 0 .. n : total[i] \in Nat}
<1>6. \A i \in 0 .. n : i \in G
  <2>1. 0 \in G
    BY <1>1, <1>5
  <2>2. ASSUME NEW i \in 1 .. n, i - 1 \in G PROVE i \in G
    BY <1>1, <1>5, <2>2, CountedType
  <2> HIDE DEF G
  <2> QED
    BY <1>1, <2>1, <2>2, CountUp
<1>7. total \in [0 .. n -> Nat]
  BY <1>3, <1>6
<1> QED
  BY <1>4, <1>5, <1>7

\* A total is at least what each cluster counts for, and at most all the cores.
LEMMA TotalBounds ==
  ASSUME NEW m
  PROVE  /\ TotalOf(m) \in Nat /\ TotalOf(cpuNum) \in Nat /\ TotalOf(m) <= TotalOf(cpuNum)
         /\ \A c \in Cluster : Counted(m, c) <= TotalOf(m)
<1> DEFINE n == nClusterNum
<1>1. n \in Nat /\ n > 0 /\ Cluster = 0 .. n - 1 /\ \A i \in 1 .. n : i - 1 \in Cluster
  BY PerfServiceAssumption DEF Cluster
<1>2. PICK t \in [0 .. n -> Nat] :
        /\ t[0] = 0 /\ \A i \in 1 .. n : t[i] = t[i - 1] + Counted(m, i - 1)
        /\ TotalOf(m) = t[n]
  BY TotalIs
<1>3. PICK u \in [0 .. n -> Nat] :
        /\ u[0] = 0 /\ \A i \in 1 .. n : u[i] = u[i - 1] + Counted(cpuNum, i - 1)
        /\ TotalOf(cpuNum) = u[n]
  BY TotalIs
<1>4. \A c \in Cluster : Counted(m, c) <= Counted(cpuNum, c)
  BY PerfServiceAssumption DEF Counted
<1> DEFINE G == {i \in 0 .. n : t[i] <= u[i] /\ \A c \in Cluster : c < i => Counted(m, c) <= t[i]}
<1>5. 0 \in G
  BY <1>1, <1>2, <1>3
<1>6. ASSUME NEW i \in 1 .. n, i - 1 \in G PROVE i \in G
  <2>1. i \in 0 .. n /\ i - 1 \in 0 .. n /\ i - 1 \in Cluster
    BY <1>1
  <2>2. t[i] = t[i - 1] + Counted(m, i - 1) /\ u[i] = u[i - 1] + Counted(cpuNum, i - 1)
    BY <1>2, <1>3
  <2>3. /\ t[i - 1] \in Nat /\ u[i - 1] \in Nat /\ Counted(m, i - 1) \in Nat /\ Counted(cpuNum, i - 1) \in Nat
        /\ Counted(m, i - 1) <= Counted(cpuNum, i - 1)
    BY <1>2, <1>3, <1>4, <2>1, CountedType
  <2>4. t[i - 1] <= u[i - 1]
    BY <1>6
  <2>5. t[i] <= u[i] /\ t[i] >= t[i - 1] /\ t[i] >= Counted(m, i - 1)
    BY <2>2, <2>3, <2>4
  <2>6. ASSUME NEW c \in Cluster, c < i PROVE Counted(m, c) <= t[i]
    <3>1. c = i - 1 \/ c < i - 1
      BY <1>1, <2>6
    <3>2. c < i - 1 => Counted(m, c) <= t[i - 1]
      BY <1>6
    <3> QED
      BY <1>2, <2>1, <2>3, <2>5, <3>1, <3>2, CountedType
  <2> QED
    BY <2>1, <2>5, <2>6
<1>7. n \in G
  <2>1. n \in 0 .. n
    BY <1>1
  <2> HIDE DEF G
  <2> QED
    BY <1>1, <1>5, <1>6, <2>1, CountUp
<1> QED
  BY <1>1, <1>2, <1>3, <1>7

-----------------------------------------------------------------------------
(* One command *)

\* A request whose one-shot value is in S.
Form(S) ==
  [core_min : [Cluster -> Int32], core_max : [Cluster -> Int32], core_total : Int32,
   freq_min : [Band -> Int32], freq_max : [Band -> Int32],
   gpu_freq : Int32, gpu_freq_max : Int32, param : [Knob -> Int32], oneshot : S]

\* The parts of Sane.
CoresSane(m, x, t) ==
  \A c \in Cluster : m[c] \in -1 .. cpuNum[c] /\ m[c] <= t /\ x[c] >= 0
FreqsSane(f, g) ==
  \A b \in Band : f[b] <= freqMax[b[1]] /\ (g[b] <= freqMax[b[1]] \/ g[b] = FREQ_MAX)
KnobsSane(p) ==
  \A k \in Knob : IF k \in Less THEN p[k] <= resetVal[k] ELSE p[k] >= resetVal[k]

LEMMA SaneParts ==
  ASSUME NEW r
  PROVE  Sane(r) <=> /\ CoresSane(r.core_min, r.core_max, r.core_total) /\ r.core_total >= 0
                     /\ FreqsSane(r.freq_min, r.freq_max)
                     /\ r.gpu_freq \in -1 .. nGpuHighestFreqLevel
                     /\ r.gpu_freq_max \in -1 .. nGpuHighestFreqLevel
                     /\ KnobsSane(r.param)
  BY DEF Sane, CoresSane, FreqsSane, KnobsSane

\* What may follow a request: sane, of the same form, with no more than all the
\* cores added to the total.
Follows(r, q, S) == q \in Form(S) /\ Sane(q) /\ q.core_total <= r.core_total + Cores

\* Int32, without its literals.
LEMMA IntsFit ==
  /\ \A x \in Int32 : x \in Int /\ INT_MIN <= x /\ x <= INT_MAX
  /\ \A x \in Int : INT_MIN <= x /\ x <= INT_MAX => x \in Int32
  /\ \A x \in Nat : x <= INT_MAX => x \in Int32
<1>1. INT_MAX \in Int /\ INT_MIN \in Int /\ INT_MIN <= 0
  BY SMT DEF INT_MAX, INT_MIN
<1> QED
  BY <1>1 DEF Int32

\* The constants of the clusters and knobs are ints.
LEMMA TablesFit ==
  /\ \A c \in Cluster : cpuNum[c] \in Nat /\ cpuNum[c] <= Cores
  /\ \A b \in Band : freqMax[b[1]] \in Int32 /\ freqMax[b[1]] \in Nat
  /\ Cores \in Nat
<1>1. \A c \in Cluster : cpuNum[c] \in Nat /\ Counted(cpuNum, c) = cpuNum[c]
  BY PerfServiceAssumption DEF Counted
<1>2. \A b \in Band : b[1] \in Cluster
  BY DEF Band
<1>3. \A c \in Cluster : freqMax[c] \in 1 .. FREQ_MAX
  BY PerfServiceAssumption
<1>4. FREQ_MAX \in Nat /\ FREQ_MAX <= INT_MAX
  BY SMT DEF FREQ_MAX, INT_MAX
<1>5. \A c \in Cluster : freqMax[c] \in Nat /\ freqMax[c] <= INT_MAX
  BY <1>3, <1>4, IntBounds
<1> QED
  BY <1>1, <1>2, <1>5, IntsFit, TotalBounds DEF Cores

\* A minimum of cores: kept within the cluster, and counted.
LEMMA CoreMinSane ==
  ASSUME NEW S, NEW r \in Form(S), Sane(r), r.core_total + Cores <= INT_MAX,
         NEW at \in Cluster, NEW p \in Int32
  PROVE  LET m == [r.core_min EXCEPT ![at] = Larger(0, Smaller(p, cpuNum[at]))]
         IN Follows(r, [r EXCEPT !.core_min = m, !.core_total = TotalOf(m)], S)
<1> DEFINE v == Larger(0, Smaller(p, cpuNum[at]))
           m == [r.core_min EXCEPT ![at] = v]
           t == TotalOf(m)
           q == [r EXCEPT !.core_min = m, !.core_total = t]
<1>1. /\ r.core_min \in [Cluster -> Int32] /\ r.core_total \in Int32 /\ r.core_total \in Int
      /\ r.core_total >= 0 /\ CoresSane(r.core_min, r.core_max, r.core_total)
  BY SaneParts, IntsFit DEF Form
<1>2. v \in Nat /\ v <= cpuNum[at] /\ cpuNum[at] \in Nat /\ cpuNum[at] <= Cores /\ Cores \in Nat
  BY IntsFit, TablesFit DEF Larger, Smaller
<1>3. Cores <= INT_MAX
  BY <1>1, <1>2, IntBounds
<1>4. v \in Int32
  BY <1>2, <1>3, IntsFit, IntBounds
<1> HIDE DEF v
<1>5. m \in [Cluster -> Int32] /\ m[at] = v /\ \A c \in Cluster : c # at => m[c] = r.core_min[c]
  BY <1>1, <1>4
<1> HIDE DEF m
<1>6. t \in Nat /\ t <= Cores /\ \A c \in Cluster : Counted(m, c) <= t
  BY TotalBounds DEF Cores
<1> HIDE DEF t
<1>7. t \in Int32 /\ t >= 0
  BY <1>2, <1>3, <1>6, IntsFit, IntBounds
<1>8. ASSUME NEW c \in Cluster PROVE m[c] \in -1 .. cpuNum[c] /\ m[c] <= t /\ r.core_max[c] >= 0
  <2>1. r.core_min[c] \in -1 .. cpuNum[c] /\ r.core_max[c] >= 0 /\ cpuNum[c] \in Nat
    BY <1>1, TablesFit DEF CoresSane
  <2>2. m[c] \in -1 .. cpuNum[c]
    BY <1>2, <1>5, <2>1
  <2>3. m[c] = -1 \/ m[c] = Counted(m, c)
    BY <2>1, <2>2 DEF Counted
  <2> QED
    BY <1>6, <2>1, <2>2, <2>3
<1>9. CoresSane(m, r.core_max, t)
  BY <1>8 DEF CoresSane
<1>10. q \in Form(S) /\ q.core_total = t /\ q.core_min = m
  BY <1>5, <1>7 DEF Form
<1>11. /\ q.core_max = r.core_max /\ q.freq_min = r.freq_min /\ q.freq_max = r.freq_max
       /\ q.gpu_freq = r.gpu_freq /\ q.gpu_freq_max = r.gpu_freq_max /\ q.param = r.param
  BY DEF Form
<1> HIDE DEF q
<1>12. Sane(q)
  BY <1>7, <1>9, <1>10, <1>11, SaneParts
<1>13. q.core_total <= r.core_total + Cores
  BY <1>1, <1>2, <1>6, <1>10
<1>14. Follows(r, q, S)
  BY <1>10, <1>12, <1>13 DEF Follows
<1> QED
  BY <1>14 DEF q, m, t, v

\* The performance mode: every core and the highest soft frequencies, added to
\* the total.
LEMMA PerfModeSane ==
  ASSUME NEW S, NEW r \in Form(S), Sane(r), r.core_total + Cores <= INT_MAX
  PROVE  Follows(r, [r EXCEPT !.core_min = cpuNum, !.core_total = @ + Cores,
                              !.freq_min = [b \in Band |-> IF b[2] = "soft" THEN freqMax[b[1]] ELSE @[b]]], S)
<1> DEFINE t == r.core_total + Cores
           f == [b \in Band |-> IF b[2] = "soft" THEN freqMax[b[1]] ELSE r.freq_min[b]]
           q == [r EXCEPT !.core_min = cpuNum, !.core_total = t, !.freq_min = f]
<1>1. /\ r.core_total \in Int /\ r.core_total >= 0 /\ CoresSane(r.core_min, r.core_max, r.core_total)
      /\ FreqsSane(r.freq_min, r.freq_max) /\ r.freq_min \in [Band -> Int32]
  BY SaneParts, IntsFit DEF Form
<1>2. t \in Int32 /\ t >= 0 /\ Cores \in Nat /\ t >= Cores
  BY <1>1, IntsFit, IntBounds, TablesFit
<1>3. cpuNum \in [Cluster -> Int32]
  <2>1. \A c \in Cluster : cpuNum[c] \in Int32
    BY <1>1, IntsFit, IntBounds, TablesFit
  <2> QED
    BY <2>1, PerfServiceAssumption
<1>4. f \in [Band -> Int32] /\ \A b \in Band : f[b] = freqMax[b[1]] \/ f[b] = r.freq_min[b]
  BY <1>1, TablesFit
<1>5. FreqsSane(f, r.freq_max)
  <2>1. \A b \in Band : f[b] <= freqMax[b[1]]
    BY <1>1, <1>4, TablesFit DEF FreqsSane
  <2> HIDE DEF f
  <2> QED
    BY <1>1, <2>1 DEF FreqsSane
<1> HIDE DEF f
<1>6. CoresSane(cpuNum, r.core_max, t)
  <2> SUFFICES ASSUME NEW c \in Cluster
               PROVE  cpuNum[c] \in -1 .. cpuNum[c] /\ cpuNum[c] <= t /\ r.core_max[c] >= 0
    BY DEF CoresSane
  <2>1. cpuNum[c] \in Nat /\ cpuNum[c] <= Cores /\ r.core_max[c] >= 0
    BY <1>1, TablesFit DEF CoresSane
  <2> QED
    BY <1>1, <1>2, <2>1
<1> HIDE DEF t
<1>7. q \in Form(S) /\ q.core_total = t /\ q.core_min = cpuNum /\ q.freq_min = f
  BY <1>2, <1>3, <1>4 DEF Form
<1>8. /\ q.core_max = r.core_max /\ q.freq_max = r.freq_max
      /\ q.gpu_freq = r.gpu_freq /\ q.gpu_freq_max = r.gpu_freq_max /\ q.param = r.param
  BY DEF Form
<1>9. q = [r EXCEPT !.core_min = cpuNum, !.core_total = @ + Cores,
                    !.freq_min = [b \in Band |-> IF b[2] = "soft" THEN freqMax[b[1]] ELSE @[b]]]
  BY DEF t, f
<1> HIDE DEF q
<1>10. Sane(q)
  BY <1>2, <1>5, <1>6, <1>7, <1>8, SaneParts
<1>11. Follows(r, q, S)
  BY <1>7, <1>10, <1>1, <1>2 DEF Follows, t
<1> QED
  BY <1>9, <1>11

\* A limit of cores: any number, or all the cores of the cluster.
LEMMA CoreMaxSane ==
  ASSUME NEW S, NEW r \in Form(S), Sane(r), r.core_total + Cores <= INT_MAX,
         NEW at \in Cluster, NEW p \in Int32
  PROVE  Follows(r, [r EXCEPT !.core_max[at] = IF p >= 0 THEN p ELSE cpuNum[at]], S)
<1> DEFINE v == IF p >= 0 THEN p ELSE cpuNum[at]
           x == [r.core_max EXCEPT ![at] = v]
           q == [r EXCEPT !.core_max = x]
<1>1. /\ r.core_total \in Int /\ r.core_total >= 0 /\ CoresSane(r.core_min, r.core_max, r.core_total)
      /\ r.core_max \in [Cluster -> Int32]
  BY SaneParts, IntsFit DEF Form
<1>2. v \in Int32 /\ v >= 0 /\ Cores \in Nat
  BY <1>1, IntsFit, IntBounds, TablesFit
<1> HIDE DEF v
<1>3. x \in [Cluster -> Int32] /\ \A c \in Cluster : x[c] = v \/ x[c] = r.core_max[c]
  BY <1>1, <1>2
<1> HIDE DEF x
<1>4. CoresSane(r.core_min, x, r.core_total)
  BY <1>1, <1>2, <1>3 DEF CoresSane
<1>5. q \in Form(S) /\ q.core_max = x
  BY <1>3 DEF Form
<1>6. /\ q.core_total = r.core_total /\ q.core_min = r.core_min
      /\ q.freq_min = r.freq_min /\ q.freq_max = r.freq_max
      /\ q.gpu_freq = r.gpu_freq /\ q.gpu_freq_max = r.gpu_freq_max /\ q.param = r.param
  BY DEF Form
<1>7. q = [r EXCEPT !.core_max[at] = IF p >= 0 THEN p ELSE cpuNum[at]]
  BY DEF x, v
<1> HIDE DEF q
<1>8. Sane(q)
  BY <1>4, <1>5, <1>6, SaneParts
<1> QED
  BY <1>1, <1>2, <1>5, <1>6, <1>7, <1>8 DEF Follows

\* A frequency limit, soft or hard: at most the highest frequency.
LEMMA FreqSane ==
  ASSUME NEW S, NEW r \in Form(S), Sane(r), NEW at \in Band, NEW p \in Int32
  PROVE  /\ Follows(r, [r EXCEPT !.freq_min[at] = Smaller(p, freqMax[at[1]])], S)
         /\ Follows(r, [r EXCEPT !.freq_max[at] = Smaller(p, freqMax[at[1]])], S)
<1> DEFINE v == Smaller(p, freqMax[at[1]])
           f == [r.freq_min EXCEPT ![at] = v]
           g == [r.freq_max EXCEPT ![at] = v]
           q1 == [r EXCEPT !.freq_min = f]
           q2 == [r EXCEPT !.freq_max = g]
<1>1. /\ r.core_total \in Int /\ FreqsSane(r.freq_min, r.freq_max)
      /\ r.freq_min \in [Band -> Int32] /\ r.freq_max \in [Band -> Int32] /\ Cores \in Nat
  BY SaneParts, IntsFit, TablesFit DEF Form
<1>2. v \in Int32 /\ v <= freqMax[at[1]]
  BY IntsFit, TablesFit DEF Smaller
<1> HIDE DEF v
<1>3. /\ f \in [Band -> Int32] /\ f[at] = v /\ \A b \in Band : b # at => f[b] = r.freq_min[b]
      /\ g \in [Band -> Int32] /\ g[at] = v /\ \A b \in Band : b # at => g[b] = r.freq_max[b]
  BY <1>1, <1>2
<1> HIDE DEF f, g
<1>4. FreqsSane(f, r.freq_max) /\ FreqsSane(r.freq_min, g)
  BY <1>1, <1>2, <1>3 DEF FreqsSane
<1>5. q1 \in Form(S) /\ q1.freq_min = f /\ q2 \in Form(S) /\ q2.freq_max = g
  BY <1>3 DEF Form
<1>6. /\ q1.core_total = r.core_total /\ q1.core_min = r.core_min /\ q1.core_max = r.core_max
      /\ q1.freq_max = r.freq_max
      /\ q1.gpu_freq = r.gpu_freq /\ q1.gpu_freq_max = r.gpu_freq_max /\ q1.param = r.param
  BY DEF Form
<1>7. /\ q2.core_total = r.core_total /\ q2.core_min = r.core_min /\ q2.core_max = r.core_max
      /\ q2.freq_min = r.freq_min
      /\ q2.gpu_freq = r.gpu_freq /\ q2.gpu_freq_max = r.gpu_freq_max /\ q2.param = r.param
  BY DEF Form
<1>8. /\ q1 = [r EXCEPT !.freq_min[at] = Smaller(p, freqMax[at[1]])]
      /\ q2 = [r EXCEPT !.freq_max[at] = Smaller(p, freqMax[at[1]])]
  BY DEF f, g, v
<1> HIDE DEF q1, q2
<1>9. Sane(q1)
  BY <1>4, <1>5, <1>6, SaneParts
<1>10. Sane(q2)
  BY <1>4, <1>5, <1>7, SaneParts
<1> QED
  BY <1>1, <1>5, <1>6, <1>7, <1>8, <1>9, <1>10 DEF Follows

\* An operating point of the GPU: one that exists, or the slowest.
LEMMA GpuSane ==
  ASSUME NEW S, NEW r \in Form(S), Sane(r), NEW level \in 0 .. nGpuHighestFreqLevel
  PROVE  /\ Follows(r, [r EXCEPT !.gpu_freq = level], S)
         /\ Follows(r, [r EXCEPT !.gpu_freq_max = level], S)
<1> DEFINE q1 == [r EXCEPT !.gpu_freq = level]
           q2 == [r EXCEPT !.gpu_freq_max = level]
<1>1. r.core_total \in Int /\ Cores \in Nat
  BY IntsFit, TablesFit DEF Form
<1>2. level \in Int32 /\ level \in -1 .. nGpuHighestFreqLevel
  <2>1. nGpuHighestFreqLevel \in Nat /\ nGpuHighestFreqLevel <= INT_MAX
    BY ConstantsFit, IntsFit
  <2> QED
    BY <2>1, IntsFit, IntBounds
<1>3. q1 \in Form(S) /\ q1.gpu_freq = level /\ q2 \in Form(S) /\ q2.gpu_freq_max = level
  BY <1>2 DEF Form
<1>4. /\ q1.core_total = r.core_total /\ q1.core_min = r.core_min /\ q1.core_max = r.core_max
      /\ q1.freq_min = r.freq_min /\ q1.freq_max = r.freq_max
      /\ q1.gpu_freq_max = r.gpu_freq_max /\ q1.param = r.param
  BY DEF Form
<1>5. /\ q2.core_total = r.core_total /\ q2.core_min = r.core_min /\ q2.core_max = r.core_max
      /\ q2.freq_min = r.freq_min /\ q2.freq_max = r.freq_max
      /\ q2.gpu_freq = r.gpu_freq /\ q2.param = r.param
  BY DEF Form
<1> HIDE DEF q1, q2
<1>6. Sane(q1)
  BY <1>2, <1>3, <1>4, SaneParts
<1>7. Sane(q2)
  BY <1>2, <1>3, <1>5, SaneParts
<1>8. Follows(r, q1, S) /\ Follows(r, q2, S)
  BY <1>1, <1>3, <1>4, <1>5, <1>6, <1>7 DEF Follows
<1> QED
  BY <1>8 DEF q1, q2

\* A knob: a value in its range is stricter than the one that stands for nobody.
LEMMA KnobSane ==
  ASSUME NEW S, NEW r \in Form(S), Sane(r), NEW at \in Knob, NEW p \in Int32,
         p \in minVal[at] .. maxVal[at]
  PROVE  Follows(r, [r EXCEPT !.param[at] = p], S)
<1> DEFINE x == [r.param EXCEPT ![at] = p]
           q == [r EXCEPT !.param = x]
<1>1. /\ r.core_total \in Int /\ Cores \in Nat /\ KnobsSane(r.param) /\ r.param \in [Knob -> Int32]
  BY IntsFit, TablesFit, SaneParts DEF Form
<1>2. /\ minVal[at] \in Int /\ maxVal[at] \in Int /\ p \in Int
      /\ resetVal[at] = IF at \in Less THEN maxVal[at] + 1 ELSE minVal[at] - 1
  BY PerfCommandsAssumption, IntsFit
<1>3. IF at \in Less THEN p <= resetVal[at] ELSE p >= resetVal[at]
  BY <1>2
<1>4. x \in [Knob -> Int32] /\ x[at] = p /\ \A k \in Knob : k # at => x[k] = r.param[k]
  BY <1>1
<1> HIDE DEF x
<1>5. KnobsSane(x)
  BY <1>1, <1>3, <1>4 DEF KnobsSane
<1>6. q \in Form(S) /\ q.param = x
  BY <1>4 DEF Form
<1>7. /\ q.core_total = r.core_total /\ q.core_min = r.core_min /\ q.core_max = r.core_max
      /\ q.freq_min = r.freq_min /\ q.freq_max = r.freq_max
      /\ q.gpu_freq = r.gpu_freq /\ q.gpu_freq_max = r.gpu_freq_max
  BY DEF Form
<1>8. q = [r EXCEPT !.param[at] = p]
  BY DEF x
<1> HIDE DEF q
<1>9. Sane(q)
  BY <1>5, <1>6, <1>7, SaneParts
<1> QED
  BY <1>1, <1>6, <1>7, <1>8, <1>9 DEF Follows

\* A one-shot resource touches nothing that is arbitrated.
LEMMA OneshotSane ==
  ASSUME NEW S, NEW r \in Form(S), Sane(r), NEW p \in S
  PROVE  Follows(r, [r EXCEPT !.oneshot = p], S)
<1> DEFINE q == [r EXCEPT !.oneshot = p]
<1>1. r.core_total \in Int /\ Cores \in Nat
  BY IntsFit, TablesFit DEF Form
<1>2. /\ q \in Form(S)
      /\ q.core_total = r.core_total /\ q.core_min = r.core_min /\ q.core_max = r.core_max
      /\ q.freq_min = r.freq_min /\ q.freq_max = r.freq_max
      /\ q.gpu_freq = r.gpu_freq /\ q.gpu_freq_max = r.gpu_freq_max /\ q.param = r.param
  BY DEF Form
<1> HIDE DEF q
<1>3. Sane(q)
  BY <1>2, SaneParts
<1>4. Follows(r, q, S)
  BY <1>1, <1>2, <1>3 DEF Follows
<1> QED
  BY <1>4 DEF q

\* Whatever the command, a sane request stays sane.
LEMMA CommandSane ==
  ASSUME NEW S, NEW r \in Form(S), Sane(r), r.core_total + Cores <= INT_MAX,
         NEW cmd, IsCommand(cmd, S)
  PROVE  Follows(r, cmdSetting(r, cmd), S)
<1> DEFINE at == cmd.at
           p == cmd.value
           level == IF p \in 0 .. nGpuHighestFreqLevel THEN p ELSE nGpuHighestFreqLevel
<1>1. level \in 0 .. nGpuHighestFreqLevel
  BY ConstantsFit
<1>2. r.core_total \in Int /\ Cores \in Nat /\ Follows(r, r, S)
  BY IntsFit, TablesFit DEF Form, Follows
<1>3. cmd.res # "ONESHOT" => p \in Int32
  BY DEF IsCommand
<1>4. CASE cmd.res = "GPU_FREQ_MIN"
  <2>1. cmdSetting(r, cmd) = [r EXCEPT !.gpu_freq = level]
    BY <1>4 DEF cmdSetting
  <2> QED
    BY <1>1, <2>1, GpuSane
<1>5. CASE cmd.res = "GPU_FREQ_MAX"
  <2>1. cmdSetting(r, cmd) = [r EXCEPT !.gpu_freq_max = level]
    BY <1>5 DEF cmdSetting
  <2> QED
    BY <1>1, <2>1, GpuSane
<1> HIDE DEF level
<1>6. CASE cmd.res = "CPUCORE_MIN" /\ at \in Cluster
  <2> DEFINE m == [r.core_min EXCEPT ![at] = Larger(0, Smaller(p, cpuNum[at]))]
  <2>1. cmdSetting(r, cmd) = [r EXCEPT !.core_min = m, !.core_total = TotalOf(m)]
    BY <1>6 DEF cmdSetting
  <2>2. p \in Int32
    BY <1>3, <1>6
  <2>3. at \in Cluster
    BY <1>6
  <2>4. Follows(r, [r EXCEPT !.core_min = m, !.core_total = TotalOf(m)], S)
    <3> HIDE DEF at, p
    <3> QED
      BY <2>2, <2>3, CoreMinSane
  <2> QED
    BY <2>1, <2>4
<1>7. CASE cmd.res = "CPUCORE_MAX" /\ at \in Cluster
  <2>1. cmdSetting(r, cmd) = [r EXCEPT !.core_max[at] = IF p >= 0 THEN p ELSE cpuNum[at]]
    BY <1>7 DEF cmdSetting
  <2> QED
    BY <1>3, <1>7, <2>1, CoreMaxSane
<1>8. CASE cmd.res = "CPUFREQ_MIN" /\ at \in Band
  <2>1. cmdSetting(r, cmd) = [r EXCEPT !.freq_min[at] = Smaller(p, freqMax[at[1]])]
    BY <1>8 DEF cmdSetting
  <2>2. p \in Int32 /\ at \in Band
    BY <1>3, <1>8
  <2>3. Follows(r, [r EXCEPT !.freq_min[at] = Smaller(p, freqMax[at[1]])], S)
    <3> HIDE DEF at, p
    <3> QED
      BY <2>2, FreqSane
  <2> QED
    BY <2>1, <2>3
<1>9. CASE cmd.res = "CPUFREQ_MAX" /\ at \in Band
  <2>1. cmdSetting(r, cmd) = [r EXCEPT !.freq_max[at] = Smaller(p, freqMax[at[1]])]
    BY <1>9 DEF cmdSetting
  <2>2. p \in Int32 /\ at \in Band
    BY <1>3, <1>9
  <2>3. Follows(r, [r EXCEPT !.freq_max[at] = Smaller(p, freqMax[at[1]])], S)
    <3> HIDE DEF at, p
    <3> QED
      BY <2>2, FreqSane
  <2> QED
    BY <2>1, <2>3
<1>10. CASE cmd.res = "CPUFREQ_PERF_MODE" /\ p = 1
  <2>1. cmdSetting(r, cmd) =
          [r EXCEPT !.core_min = cpuNum, !.core_total = @ + Cores,
                    !.freq_min = [b \in Band |-> IF b[2] = "soft" THEN freqMax[b[1]] ELSE @[b]]]
    BY <1>10 DEF cmdSetting
  <2> QED
    BY <2>1, PerfModeSane
<1>11. CASE cmd.res = "KNOB" /\ p \in minVal[at] .. maxVal[at]
  <2>1. cmdSetting(r, cmd) = [r EXCEPT !.param[at] = p]
    BY <1>11 DEF cmdSetting
  <2>2. at \in Knob
    BY <1>11 DEF IsCommand
  <2> QED
    BY <1>3, <1>11, <2>1, <2>2, KnobSane
<1>12. CASE cmd.res = "ONESHOT"
  <2>1. cmdSetting(r, cmd) = [r EXCEPT !.oneshot = p] /\ p \in S
    BY <1>12 DEF cmdSetting, IsCommand
  <2> QED
    BY <2>1, OneshotSane
<1>13. CASE /\ cmd.res # "GPU_FREQ_MIN" /\ cmd.res # "GPU_FREQ_MAX" /\ cmd.res # "ONESHOT"
            /\ ~(cmd.res = "CPUCORE_MIN" /\ at \in Cluster) /\ ~(cmd.res = "CPUCORE_MAX" /\ at \in Cluster)
            /\ ~(cmd.res = "CPUFREQ_MIN" /\ at \in Band) /\ ~(cmd.res = "CPUFREQ_MAX" /\ at \in Band)
            /\ ~(cmd.res = "CPUFREQ_PERF_MODE" /\ p = 1)
            /\ ~(cmd.res = "KNOB" /\ p \in minVal[at] .. maxVal[at])
  <2>1. cmdSetting(r, cmd) = r
    BY <1>13 DEF cmdSetting
  <2> QED
    BY <1>2, <2>1
<1> QED
  BY <1>4, <1>5, <1>6, <1>7, <1>8, <1>9, <1>10, <1>11, <1>12, <1>13

-----------------------------------------------------------------------------
(* A list of commands *)

\* The loop over the pairs is a function.
LEMMA ApplyLoop ==
  ASSUME NEW list, Len(list) \in Nat
  PROVE  \E a : /\ a = [i \in 0 .. Len(list) |-> a[i]] /\ a[0] = ResetConfig
                /\ \A i \in 1 .. Len(list) : a[i] = cmdSetting(a[i - 1], list[i])
<1> DEFINE n == Len(list)
           Good(k, a) == /\ a = [i \in 0 .. n |-> a[i]] /\ a[0] = ResetConfig
                         /\ \A i \in 1 .. n : i <= k => a[i] = cmdSetting(a[i - 1], list[i])
           G == {k \in 0 .. n : \E a : Good(k, a)}
<1>1. n \in Nat
  OBVIOUS
<1> HIDE DEF n
<1>2. 0 \in G
  <2>1. Good(0, [i \in 0 .. n |-> ResetConfig])
    BY <1>1
  <2> HIDE DEF Good
  <2> QED
    BY <1>1, <2>1
<1>3. ASSUME NEW k \in 1 .. n, k - 1 \in G PROVE k \in G
  <2>1. PICK a : Good(k - 1, a)
    BY <1>3
  <2> DEFINE u == [a EXCEPT ![k] = cmdSetting(a[k - 1], list[k])]
  <2>2. k \in 0 .. n /\ k - 1 \in 0 .. n /\ k # 0
    BY <1>1
  <2>3. /\ u = [i \in 0 .. n |-> u[i]] /\ u[k] = cmdSetting(a[k - 1], list[k])
        /\ \A i \in 0 .. n : i # k => u[i] = a[i]
    BY <2>1, <2>2
  <2> HIDE DEF u
  <2>4. u[0] = ResetConfig
    BY <1>1, <2>1, <2>2, <2>3
  <2>5. ASSUME NEW i \in 1 .. n, i <= k PROVE u[i] = cmdSetting(u[i - 1], list[i])
    <3>1. i - 1 \in 0 .. n /\ i \in 0 .. n /\ i - 1 # k /\ (i = k \/ i <= k - 1)
      BY <1>1, <2>5
    <3> QED
      BY <2>1, <2>3, <3>1
  <2>6. Good(k, u)
    BY <2>3, <2>4, <2>5
  <2> QED
    BY <2>2, <2>6
<1>4. n \in G
  <2>1. n \in 0 .. n
    BY <1>1
  <2> HIDE DEF G
  <2> QED
    BY <1>1, <1>2, <1>3, <2>1, CountUp
<1>5. PICK a : Good(n, a)
  BY <1>4
<1>6. \A i \in 1 .. n : i <= n
  BY <1>1
<1> QED
  BY <1>5, <1>6 DEF n

\* The request is the last value of that function.
LEMMA ApplyIs ==
  ASSUME NEW list, Len(list) \in Nat
  PROVE  \E a : /\ a[0] = ResetConfig /\ Apply(list) = a[Len(list)]
                /\ \A i \in 1 .. Len(list) : a[i] = cmdSetting(a[i - 1], list[i])
<1> DEFINE n == Len(list)
           Loop(a) == [i \in 0 .. n |-> IF i = 0 THEN ResetConfig ELSE cmdSetting(a[i - 1], list[i])]
           after == CHOOSE a : a = Loop(a)
<1>1. n \in Nat
  OBVIOUS
<1>2. \E a : a = Loop(a)
  <2>1. PICK a : /\ a = [i \in 0 .. n |-> a[i]] /\ a[0] = ResetConfig
                 /\ \A i \in 1 .. n : a[i] = cmdSetting(a[i - 1], list[i])
    BY ApplyLoop
  <2>2. \A i \in 0 .. n : a[i] = Loop(a)[i]
    BY <1>1, <2>1
  <2>3. [i \in 0 .. n |-> a[i]] = [i \in 0 .. n |-> Loop(a)[i]]
    BY <2>2
  <2>4. Loop(a) = [i \in 0 .. n |-> Loop(a)[i]]
    OBVIOUS
  <2>5. a = Loop(a)
    <3> HIDE DEF Loop
    <3> QED
      BY <2>1, <2>3, <2>4
  <2> QED
    BY <2>5
<1>3. after = Loop(after)
  BY <1>2
<1>4. Apply(list) = after[n]
  BY DEF Apply
<1> HIDE DEF after
<1>5. after[0] = ResetConfig /\ \A i \in 1 .. n : after[i] = cmdSetting(after[i - 1], list[i])
  BY <1>1, <1>3
<1> QED
  BY <1>4, <1>5

\* The empty request is sane.
LEMMA ResetSane ==
  ASSUME NEW S, "none" \in S
  PROVE  ResetConfig \in Form(S) /\ Sane(ResetConfig) /\ ResetConfig.core_total = 0
<1>1. ResetConfig \in Config /\ Sane(ResetConfig)
  BY ResetConfigType
<1>2. ResetConfig.core_total = 0 /\ ResetConfig.oneshot = "none"
  BY DEF ResetConfig
<1>3. ResetConfig = [ResetConfig EXCEPT !.oneshot = "none"]
  BY DEF ResetConfig
<1>4. [ResetConfig EXCEPT !.oneshot = "none"] \in Form(S)
  BY <1>1 DEF Config, Form
<1> QED
  BY <1>1, <1>2, <1>3, <1>4

\* So much of a product.
LEMMA Products ==
  ASSUME NEW i \in Nat, NEW n \in Nat, NEW c \in Nat, i <= n, i > 0
  PROVE  (i - 1) * c + c = i * c /\ i * c <= n * c /\ (i - 1) * c \in Nat /\ i * c \in Nat /\ n * c \in Nat
  OBVIOUS

\* A list of commands makes a sane request.
LEMMA ListSane ==
  ASSUME NEW S, "none" \in S, NEW list, IsList(list, S)
  PROVE  Apply(list) \in Form(S) /\ Sane(Apply(list))
<1> DEFINE n == Len(list)
<1>1. n \in Nat /\ n * Cores <= INT_MAX /\ \A i \in 1 .. n : IsCommand(list[i], S)
  BY DEF IsList
<1>2. PICK a : /\ a[0] = ResetConfig /\ Apply(list) = a[n]
               /\ \A i \in 1 .. n : a[i] = cmdSetting(a[i - 1], list[i])
  BY <1>1, ApplyIs
<1>3. Cores \in Nat
  BY TablesFit
<1> HIDE DEF n
<1> DEFINE G == {i \in 0 .. n : a[i] \in Form(S) /\ Sane(a[i]) /\ a[i].core_total <= i * Cores}
<1>4. 0 \in G
  BY <1>1, <1>2, <1>3, ResetSane
<1>5. ASSUME NEW i \in 1 .. n, i - 1 \in G PROVE i \in G
  <2> DEFINE r == a[i - 1]
             t == r.core_total
  <2>1. r \in Form(S) /\ Sane(r) /\ t <= (i - 1) * Cores
    BY <1>5
  <2>2. /\ (i - 1) * Cores + Cores = i * Cores /\ i * Cores <= n * Cores
        /\ (i - 1) * Cores \in Nat /\ i * Cores \in Nat /\ n * Cores \in Nat
    BY <1>1, <1>3, Products
  <2>3. t \in Int
    BY <2>1, IntsFit DEF Form
  <2>4. a[i] = cmdSetting(r, list[i]) /\ IsCommand(list[i], S)
    BY <1>1, <1>2
  <2> HIDE DEF r
  <2>5. t + Cores <= i * Cores /\ t + Cores <= INT_MAX
    <3> DEFINE x == (i - 1) * Cores
               y == i * Cores
               z == n * Cores
    <3>1. x + Cores = y /\ y <= z /\ x \in Nat /\ y \in Nat /\ z \in Nat /\ z <= INT_MAX /\ t <= x
      BY <1>1, <2>1, <2>2
    <3> HIDE DEF x, y, z, t
    <3>2. t + Cores <= y /\ t + Cores <= INT_MAX
      BY <1>3, <2>3, <3>1, IntBounds
    <3> QED
      BY <3>2 DEF y
  <2>6. Follows(r, a[i], S)
    BY <2>1, <2>4, <2>5, CommandSane
  <2>7. a[i] \in Form(S) /\ Sane(a[i]) /\ a[i].core_total <= t + Cores
    BY <2>6 DEF Follows
  <2>8. a[i].core_total \in Int
    BY <2>7, IntsFit DEF Form
  <2> HIDE DEF t
  <2>9. a[i].core_total <= i * Cores
    <3> DEFINE y == i * Cores
    <3>1. y \in Nat /\ t + Cores <= y
      BY <2>2, <2>5
    <3> HIDE DEF y
    <3>2. a[i].core_total <= y
      BY <1>3, <2>3, <2>7, <2>8, <3>1
    <3> QED
      BY <3>2 DEF y
  <2>10. i \in 0 .. n
    BY <1>1
  <2> QED
    BY <2>7, <2>9, <2>10
<1>6. n \in G
  <2>1. n \in 0 .. n
    BY <1>1
  <2> HIDE DEF G
  <2> QED
    BY <1>1, <1>4, <1>5, <2>1, CountUp
<1> QED
  BY <1>2, <1>6

\* Whatever pairs clients lock with, in any order and number (perfLockAcq), the
\* requests they become are what PerfService assumes: cmdSetting clamps every
\* value, the total covers each minimum and does not overflow, and a knob's value
\* is on the strict side of the one that stands for nobody.
THEOREM LockRequestsAreSane ==
  ASSUME NEW Shots, NEW Lists, \A list \in Lists : IsList(list, Shots \cup {"none"}),
         Requests = {Apply(list) : list \in Lists}
  PROVE  Requests \subseteq Config /\ \A r \in Requests : Sane(r)
<1> SUFFICES ASSUME NEW r \in Requests PROVE r \in Config /\ Sane(r)
  OBVIOUS
<1> DEFINE S == Shots \cup {"none"}
<1>1. PICK list \in Lists : r = Apply(list)
  OBVIOUS
<1>2. "none" \in S /\ IsList(list, S)
  OBVIOUS
<1> HIDE DEF S
<1>3. r \in Form(S) /\ Sane(r)
  BY <1>1, <1>2, ListSane
<1>4. r.oneshot \in Oneshot
  BY DEF Oneshot
<1>5. r \in Config
  BY <1>3, <1>4 DEF Form, Config
<1> QED
  BY <1>3, <1>5

\* Configuring a registered scenario (perfUserRegScnConfig) keeps its request sane
\* and its one-shot value, as Configure of PerfService has it, as long as the total,
\* to which the performance mode adds at every call, fits an int.
THEOREM ConfiguredIsSane ==
  ASSUME NEW r \in Config, Sane(r), r.core_total + Cores <= INT_MAX,
         NEW cmd, IsCommand(cmd, Oneshot)
  PROVE  /\ LegacyCmdSetting(r, cmd) \in Config /\ Sane(LegacyCmdSetting(r, cmd))
         /\ LegacyCmdSetting(r, cmd).oneshot = r.oneshot
<1> DEFINE S == {r.oneshot}
           q == cmdSetting(r, cmd)
<1>1. r.oneshot \in Oneshot /\ r \in Form(S)
  BY DEF Config, Form
<1>2. LegacyCmdSetting(r, cmd) = r \/ (cmd.res # "ONESHOT" /\ LegacyCmdSetting(r, cmd) = q)
  BY DEF LegacyCmdSetting
<1>3. ASSUME cmd.res # "ONESHOT" PROVE q \in Config /\ Sane(q) /\ q.oneshot = r.oneshot
  <2>1. IsCommand(cmd, S)
    BY <1>3 DEF IsCommand
  <2> HIDE DEF S
  <2>2. q \in Form(S) /\ Sane(q)
    BY <1>1, <2>1, CommandSane DEF Follows
  <2> HIDE DEF q
  <2>3. q \in Config /\ q.oneshot = r.oneshot
    BY <1>1, <2>2 DEF Form, Config, S
  <2> QED
    BY <2>2, <2>3
<1> HIDE DEF q
<1> QED
  BY <1>2, <1>3
=============================================================================
