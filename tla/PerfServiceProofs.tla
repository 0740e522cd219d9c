-------------------------- MODULE PerfServiceProofs --------------------------
(***************************************************************************)
(* Theorems about PerfService, for any scenarios, requests, clusters and    *)
(* knobs.                                                                   *)
(***************************************************************************)
EXTENDS PerfService, TLAPS, WellFoundedInduction

(* Extrema of sets of ints *)

\* A set of natural numbers has a least element.
LEMMA Least ==
  ASSUME NEW S, S \subseteq Nat, S # {}
  PROVE  \E x \in S : \A y \in S : x <= y
<1>1. PICK x \in S : \A y \in S : ~(<<y, x>> \in OpToRel(<, Nat))
  BY WFMin, NatLessThanWellFounded
<1>2. \A y \in S : ~(y < x)
  BY <1>1 DEF OpToRel
<1> QED
  BY <1>2

\* The bounds of an int are integers.
LEMMA IntBounds == INT_MAX \in Int /\ INT_MIN \in Int
  BY SMT DEF INT_MAX, INT_MIN

\* The extrema of a set of ints, 32 bits wide, exist.
LEMMA Extrema ==
  ASSUME NEW S, S \subseteq Int32, S # {}
  PROVE  /\ Max(S) \in S /\ Max(S) \in Int /\ \A y \in S : Max(S) >= y
         /\ Min(S) \in S /\ Min(S) \in Int /\ \A y \in S : Min(S) <= y
<1>1. \A y \in S : y \in Int /\ y <= INT_MAX /\ y >= INT_MIN
  BY IntBounds DEF Int32
<1>2. \E x \in S : \A y \in S : x >= y
  <2> DEFINE T == {INT_MAX - y : y \in S}
  <2>1. T \subseteq Nat /\ T # {}
    BY <1>1, IntBounds
  <2>2. PICK m \in T : \A t \in T : m <= t
    BY <2>1, Least
  <2>3. PICK x \in S : m = INT_MAX - x
    OBVIOUS
  <2>4. ASSUME NEW y \in S PROVE x >= y
    <3>1. INT_MAX - y \in T
      OBVIOUS
    <3>2. m <= INT_MAX - y
      BY <2>2, <3>1
    <3> QED
      BY <1>1, <2>3, <3>2, IntBounds
  <2> QED
    BY <2>4
<1>3. \E x \in S : \A y \in S : x <= y
  <2> DEFINE T == {y - INT_MIN : y \in S}
  <2>1. T \subseteq Nat /\ T # {}
    BY <1>1, IntBounds
  <2>2. PICK m \in T : \A t \in T : m <= t
    BY <2>1, Least
  <2>3. PICK x \in S : m = x - INT_MIN
    OBVIOUS
  <2>4. ASSUME NEW y \in S PROVE x <= y
    <3>1. y - INT_MIN \in T
      OBVIOUS
    <3>2. m <= y - INT_MIN
      BY <2>2, <3>1
    <3> QED
      BY <1>1, <2>3, <3>2, IntBounds
  <2> QED
    BY <2>4
<1>4. Max(S) \in S /\ \A y \in S : Max(S) >= y
  BY <1>2 DEF Max
<1>5. Min(S) \in S /\ \A y \in S : Min(S) <= y
  BY <1>3 DEF Min
<1> QED
  BY <1>1, <1>4, <1>5

\* T has the values of S, and x.
Joined(S, T, x) == S \subseteq Int32 /\ S # {} /\ x \in Int32 /\ T = S \cup {x}

\* T has the values of S, and perhaps x.
Parted(S, T, x) ==
  S \subseteq Int32 /\ S # {} /\ T \subseteq Int32 /\ x \in Int32 /\ S \subseteq T /\ T \subseteq S \cup {x}

\* One more value.
LEMMA ExtremaAdd ==
  ASSUME NEW S, NEW T, NEW x, Joined(S, T, x)
  PROVE  Max(T) = Larger(Max(S), x) /\ Min(T) = Smaller(Min(S), x)
<1>1. S \subseteq Int32 /\ S # {} /\ T \subseteq Int32 /\ T # {} /\ x \in Int /\ T = S \cup {x}
  BY IntBounds DEF Int32, Joined
<1>2. /\ Max(T) \in T /\ Max(T) \in Int /\ \A y \in T : Max(T) >= y
      /\ Min(T) \in T /\ Min(T) \in Int /\ \A y \in T : Min(T) <= y
  BY <1>1, Extrema
<1>3. /\ Max(S) \in S /\ Max(S) \in Int /\ \A y \in S : Max(S) >= y
      /\ Min(S) \in S /\ Min(S) \in Int /\ \A y \in S : Min(S) <= y
  BY <1>1, Extrema
<1>4. Max(T) >= Max(S) /\ Max(T) >= x /\ (Max(T) = x \/ Max(S) >= Max(T))
  BY <1>1, <1>2, <1>3
<1>5. Min(T) <= Min(S) /\ Min(T) <= x /\ (Min(T) = x \/ Min(S) <= Min(T))
  BY <1>1, <1>2, <1>3
<1>6. Max(T) = Larger(Max(S), x)
  BY <1>1, <1>2, <1>3, <1>4 DEF Larger
<1>7. Min(T) = Smaller(Min(S), x)
  BY <1>1, <1>2, <1>3, <1>5 DEF Smaller
<1> QED
  BY <1>6, <1>7

\* A value less, or none: the extremum stays unless it was that value.
LEMMA ExtremaDrop ==
  ASSUME NEW S, NEW T, NEW x, Parted(S, T, x)
  PROVE  /\ Max(S) <= Max(T) /\ (Max(T) > x \/ x \in S => Max(S) = Max(T))
         /\ Min(S) >= Min(T) /\ (Min(T) < x \/ x \in S => Min(S) = Min(T))
<1>1. /\ S \subseteq Int32 /\ S # {} /\ T \subseteq Int32 /\ T # {} /\ x \in Int
      /\ S \subseteq T /\ T \subseteq S \cup {x}
  <2>1. S \subseteq Int32 /\ S # {} /\ T \subseteq Int32 /\ x \in Int32 /\ S \subseteq T /\ T \subseteq S \cup {x}
    BY DEF Parted
  <2>2. x \in Int
    BY <2>1, IntBounds DEF Int32
  <2>3. T # {}
    BY <2>1
  <2> QED
    BY <2>1, <2>2, <2>3
<1>2. /\ Max(T) \in T /\ Max(T) \in Int /\ \A y \in T : Max(T) >= y
      /\ Min(T) \in T /\ Min(T) \in Int /\ \A y \in T : Min(T) <= y
  BY <1>1, Extrema
<1>3. /\ Max(S) \in S /\ Max(S) \in Int /\ \A y \in S : Max(S) >= y
      /\ Min(S) \in S /\ Min(S) \in Int /\ \A y \in S : Min(S) <= y
  BY <1>1, Extrema
<1>4. Max(S) <= Max(T) /\ (Max(T) # x \/ x \in S => Max(T) <= Max(S))
  BY <1>1, <1>2, <1>3
<1>5. Min(S) >= Min(T) /\ (Min(T) # x \/ x \in S => Min(T) >= Min(S))
  BY <1>1, <1>2, <1>3
<1>6. Max(T) > x \/ x \in S => Max(S) = Max(T)
  BY <1>1, <1>2, <1>3, <1>4
<1>7. Min(T) < x \/ x \in S => Min(S) = Min(T)
  BY <1>1, <1>2, <1>3, <1>5
<1> QED
  BY <1>4, <1>5, <1>6, <1>7

-----------------------------------------------------------------------------
(* Sharing the cores between the clusters *)

\* What a cluster gets: nothing, or a positive number of cores.
LEMMA CoreToSetType ==
  ASSUME NEW c \in Cluster, NEW floor \in [Cluster -> Int], NEW left \in Int
  PROVE  /\ CoreToSet(c, floor, left) \in Int
         /\ CoreToSet(c, floor, left) = -1 \/ CoreToSet(c, floor, left) > 0
         /\ CoreToSet(c, floor, left) = -1 => floor[c] <= 0 \/ floor[c] > cpuNum[c] \/ left <= 0
         /\ floor[c] <= 0 => CoreToSet(c, floor, left) = -1
  BY DEF CoreToSet, PPM_IGNORE, Smaller

\* One step of the loop over the clusters.
LeftBelow(c, floor, left) == left - Larger(0, CoreToSet(c, floor, left))

\* The clusters below c get what the others leave: an integer.
LEMMA LeftBelowType ==
  ASSUME NEW c \in Cluster, NEW floor \in [Cluster -> Int], NEW left \in Int
  PROVE  LeftBelow(c, floor, left) \in Int
  BY CoreToSetType DEF LeftBelow, Larger

\* The loop of the fine tuning, from the top cluster down, is well defined.
LEMMA LoopExists ==
  ASSUME NEW total \in Int, NEW floor \in [Cluster -> Int]
  PROVE  \E g \in [0 .. nClusterNum -> Int] :
           /\ g[nClusterNum] = total
           /\ \A c \in Cluster : g[c] = LeftBelow(c, floor, g[c + 1])
<1> DEFINE n == nClusterNum
           Good(k, g) == /\ g \in [0 .. n -> Int] /\ g[n] = total
                         /\ \A c \in Cluster : c >= k => g[c] = LeftBelow(c, floor, g[c + 1])
           Bad == {j \in 0 .. n : ~\E g : Good(n - j, g)}
<1>1. n \in Nat /\ n > 0 /\ Cluster = 0 .. n - 1
  BY PerfServiceAssumption DEF Cluster
<1>2. 0 \notin Bad
  <2>1. Good(n, [c \in 0 .. n |-> total])
    BY <1>1
  <2> QED
    BY <1>1, <2>1
<1>3. Bad = {}
  <2> SUFFICES ASSUME Bad # {} PROVE FALSE
    OBVIOUS
  <2>1. Bad \subseteq Nat
    BY <1>1
  <2>2. PICK j \in Bad : \A i \in Bad : j <= i
    BY <2>1, Least
  <2>3. j \in 1 .. n
    BY <1>1, <1>2
  <2>4. j - 1 \notin Bad /\ j - 1 \in 0 .. n
    <3>1. j - 1 \in 0 .. n /\ ~(j <= j - 1)
      BY <1>1, <2>3
    <3> HIDE DEF Bad
    <3> QED
      BY <2>2, <3>1
  <2>5. PICK g : Good(n - (j - 1), g)
    BY <2>4
  <2> DEFINE k == n - j
             h == [g EXCEPT ![k] = LeftBelow(k, floor, g[k + 1])]
  <2>6. k \in Cluster /\ k + 1 = n - (j - 1) /\ k + 1 \in 0 .. n /\ k # n /\ k \in 0 .. n
    BY <1>1, <2>3
  <2>7. /\ g \in [0 .. n -> Int] /\ g[n] = total
        /\ \A c \in Cluster : c >= k + 1 => g[c] = LeftBelow(c, floor, g[c + 1])
    BY <2>5, <2>6
  <2>8. LeftBelow(k, floor, g[k + 1]) \in Int
    BY <2>6, <2>7, LeftBelowType
  <2>9. h \in [0 .. n -> Int] /\ h[n] = total /\ h[k] = LeftBelow(k, floor, g[k + 1])
    BY <2>6, <2>7, <2>8
  <2>10. \A c \in 0 .. n : c # k => h[c] = g[c]
    BY <2>6, <2>7
  <2> HIDE DEF h
  <2>11. ASSUME NEW c \in Cluster, c >= k PROVE h[c] = LeftBelow(c, floor, h[c + 1])
    <3>1. c + 1 \in 0 .. n /\ c + 1 # k /\ c \in 0 .. n /\ (c = k \/ c >= k + 1)
      BY <1>1, <2>6, <2>11
    <3> QED
      BY <2>7, <2>9, <2>10, <3>1
  <2>12. Good(n - j, h)
    BY <2>9, <2>11
  <2> QED
    BY <2>2, <2>12
<1>4. PICK g : Good(0, g)
  <2>1. n \in 0 .. n /\ n - n = 0
    BY <1>1
  <2>2. n \notin Bad
    <3> HIDE DEF Bad
    <3> QED
      BY <1>3
  <2>3. \E g : Good(n - n, g)
    <3> HIDE DEF Good
    <3> QED
      BY <2>1, <2>2
  <2> QED
    BY <2>1, <2>3
<1>5. \A c \in Cluster : c >= 0
  BY <1>1
<1> QED
  BY <1>4, <1>5

\* What the clusters really get: the top one first, each one what the others left.
LEMMA ActualMinIs ==
  ASSUME NEW total \in Int, NEW floor \in [Cluster -> Int]
  PROVE  \E left \in [0 .. nClusterNum -> Int] :
           /\ left[nClusterNum] = total
           /\ \A c \in Cluster : left[c] = LeftBelow(c, floor, left[c + 1])
           /\ ActualMin(total, floor) = [c \in Cluster |-> CoreToSet(c, floor, left[c + 1])]
<1> DEFINE n == nClusterNum
           Loop(g) == [c \in 0 .. n |->
                         IF c = n THEN total
                         ELSE g[c + 1] - Larger(0, CoreToSet(c, floor, g[c + 1]))]
           left == CHOOSE g : g = Loop(g)
<1>1. n \in Nat /\ n > 0 /\ Cluster = 0 .. n - 1
  BY PerfServiceAssumption DEF Cluster
<1>2. \E g : g = Loop(g)
  <2>1. PICK g \in [0 .. n -> Int] :
          g[n] = total /\ \A c \in Cluster : g[c] = LeftBelow(c, floor, g[c + 1])
    BY LoopExists
  <2>2. \A c \in 0 .. n : g[c] = Loop(g)[c]
    BY <1>1, <2>1 DEF LeftBelow
  <2>3. g = Loop(g)
    BY <2>1, <2>2
  <2> QED
    BY <2>3
<1>3. left = Loop(left)
  BY <1>2
<1>4. ActualMin(total, floor) = [c \in Cluster |-> CoreToSet(c, floor, left[c + 1])]
  BY DEF ActualMin
<1> HIDE DEF left
<1>5. left[n] = total /\ left = [c \in 0 .. n |-> left[c]]
  BY <1>1, <1>3
<1>6. \A c \in Cluster : left[c] = LeftBelow(c, floor, left[c + 1])
  <2> SUFFICES ASSUME NEW c \in Cluster PROVE left[c] = LeftBelow(c, floor, left[c + 1])
    OBVIOUS
  <2>1. c \in 0 .. n /\ c # n
    BY <1>1
  <2>2. left[c] = Loop(left)[c]
    BY <1>3
  <2> QED
    BY <2>1, <2>2 DEF LeftBelow
<1> DEFINE Bad == {j \in 0 .. n : left[n - j] \notin Int}
<1>7. Bad = {}
  <2> SUFFICES ASSUME Bad # {} PROVE FALSE
    OBVIOUS
  <2>1. Bad \subseteq Nat
    BY <1>1
  <2>2. PICK j \in Bad : \A i \in Bad : j <= i
    BY <2>1, Least
  <2>3. j # 0
    BY <1>1, <1>5
  <2>4. j - 1 \in 0 .. n /\ j - 1 \notin Bad /\ n - j \in Cluster
    <3>1. j - 1 \in 0 .. n /\ ~(j <= j - 1) /\ n - j \in Cluster
      BY <1>1, <2>3
    <3> HIDE DEF Bad
    <3> QED
      BY <2>2, <3>1
  <2>5. left[n - (j - 1)] \in Int /\ n - (j - 1) = (n - j) + 1
    BY <1>1, <2>4
  <2>6. left[n - j] \in Int
    BY <1>6, <2>4, <2>5, LeftBelowType
  <2> QED
    BY <2>2, <2>6
<1>8. \A c \in 0 .. n : left[c] \in Int
  <2> SUFFICES ASSUME NEW c \in 0 .. n PROVE left[c] \in Int
    OBVIOUS
  <2>1. n - c \in 0 .. n /\ n - (n - c) = c
    BY <1>1
  <2> QED
    BY <1>7, <2>1
<1>9. left \in [0 .. n -> Int]
  BY <1>5, <1>8
<1> QED
  BY <1>4, <1>5, <1>6, <1>9

-----------------------------------------------------------------------------
(* What the scenarios O ask for, when C are the requests *)

TotalSet(C, O)      == {0} \cup {C[s].core_total : s \in O}
CoreMinSet(C, O, c) == {0} \cup {C[s].core_min[c] : s \in O}
CoreMaxSet(C, O, c) == {CORE_MAX} \cup {C[s].core_max[c] : s \in O}
FreqMinSet(C, O, b) == {0} \cup {C[s].freq_min[b] : s \in O}
FreqMaxSet(C, O, b) == {FREQ_MAX} \cup {C[s].freq_max[b] : s \in O}
GpuSet(C, O)        == {nGpuHighestFreqLevel} \cup ({C[s].gpu_freq : s \in O} \ {-1})
GpuMaxSet(C, O)     == {0} \cup ({C[s].gpu_freq_max : s \in O} \ {-1})
KnobSet(C, O, k)    == {resetVal[k]} \cup {C[s].param[k] : s \in O}

\* The constants of the code are ints.
LEMMA ConstantsFit ==
  /\ CORE_MAX \in Int32 /\ FREQ_MAX \in Int32 /\ 0 \in Int32 /\ -1 \in Int32
  /\ CORE_MAX \in Nat /\ FREQ_MAX \in Nat
  /\ nGpuHighestFreqLevel \in Int32 /\ nGpuHighestFreqLevel \in Nat
<1>1. INT_MIN <= -1 /\ INT_MIN <= 0 /\ 0 <= INT_MAX /\ -1 <= INT_MAX
  BY SMT DEF INT_MAX, INT_MIN
<1>2. CORE_MAX \in Nat /\ CORE_MAX <= INT_MAX
  BY SMT DEF CORE_MAX, INT_MAX
<1>3. FREQ_MAX \in Nat /\ FREQ_MAX <= INT_MAX
  BY SMT DEF FREQ_MAX, INT_MAX
<1>4. nGpuHighestFreqLevel \in 0 .. INT_MAX
  BY PerfServiceAssumption
<1>5. \A x \in Int : INT_MIN <= x /\ x <= INT_MAX => x \in Int32
  BY IntBounds DEF Int32
<1>6. \A x \in Nat : x <= INT_MAX => x \in Int32
  BY <1>1, <1>5, IntBounds
<1> QED
  BY <1>1, <1>2, <1>3, <1>4, <1>5, <1>6, IntBounds

\* The fields of a request are ints.
LEMMA FieldsFit ==
  ASSUME NEW r \in Config
  PROVE  /\ r.core_total \in Int32 /\ r.gpu_freq \in Int32 /\ r.gpu_freq_max \in Int32
         /\ r.oneshot \in Oneshot
         /\ \A c \in Cluster : r.core_min[c] \in Int32 /\ r.core_max[c] \in Int32
         /\ \A b \in Band : r.freq_min[b] \in Int32 /\ r.freq_max[b] \in Int32
         /\ \A k \in Knob : r.param[k] \in Int32
<1>1. /\ r.core_total \in Int32 /\ r.gpu_freq \in Int32 /\ r.gpu_freq_max \in Int32
      /\ r.oneshot \in Oneshot
      /\ r.core_min \in [Cluster -> Int32] /\ r.core_max \in [Cluster -> Int32]
      /\ r.freq_min \in [Band -> Int32] /\ r.freq_max \in [Band -> Int32]
      /\ r.param \in [Knob -> Int32]
  BY DEF Config
<1> QED
  BY <1>1

\* All these sets hold ints, and the value that stands for "nobody asks".
LEMMA SetsFit ==
  ASSUME NEW C \in [Scenario -> Config], NEW O, O \subseteq Scenario
  PROVE  /\ TotalSet(C, O) \subseteq Int32 /\ TotalSet(C, O) # {}
         /\ GpuSet(C, O) \subseteq Int32 /\ GpuSet(C, O) # {}
         /\ GpuMaxSet(C, O) \subseteq Int32 /\ GpuMaxSet(C, O) # {}
         /\ \A c \in Cluster : /\ CoreMinSet(C, O, c) \subseteq Int32 /\ CoreMinSet(C, O, c) # {}
                               /\ CoreMaxSet(C, O, c) \subseteq Int32 /\ CoreMaxSet(C, O, c) # {}
         /\ \A b \in Band : /\ FreqMinSet(C, O, b) \subseteq Int32 /\ FreqMinSet(C, O, b) # {}
                            /\ FreqMaxSet(C, O, b) \subseteq Int32 /\ FreqMaxSet(C, O, b) # {}
         /\ \A k \in Knob : KnobSet(C, O, k) \subseteq Int32 /\ KnobSet(C, O, k) # {}
<1>1. \A s \in O :
        /\ C[s].core_total \in Int32 /\ C[s].gpu_freq \in Int32 /\ C[s].gpu_freq_max \in Int32
        /\ \A c \in Cluster : C[s].core_min[c] \in Int32 /\ C[s].core_max[c] \in Int32
        /\ \A b \in Band : C[s].freq_min[b] \in Int32 /\ C[s].freq_max[b] \in Int32
        /\ \A k \in Knob : C[s].param[k] \in Int32
  BY FieldsFit
<1>2. \A k \in Knob : resetVal[k] \in Int32
  BY PerfServiceAssumption
<1>3. TotalSet(C, O) \subseteq Int32 /\ TotalSet(C, O) # {}
  BY <1>1, ConstantsFit DEF TotalSet
<1>4. GpuSet(C, O) \subseteq Int32 /\ GpuSet(C, O) # {}
  BY <1>1, ConstantsFit DEF GpuSet
<1>5. GpuMaxSet(C, O) \subseteq Int32 /\ GpuMaxSet(C, O) # {}
  BY <1>1, ConstantsFit DEF GpuMaxSet
<1>6. ASSUME NEW c \in Cluster
      PROVE  /\ CoreMinSet(C, O, c) \subseteq Int32 /\ CoreMinSet(C, O, c) # {}
             /\ CoreMaxSet(C, O, c) \subseteq Int32 /\ CoreMaxSet(C, O, c) # {}
  BY <1>1, ConstantsFit DEF CoreMinSet, CoreMaxSet
<1>7. ASSUME NEW b \in Band
      PROVE  /\ FreqMinSet(C, O, b) \subseteq Int32 /\ FreqMinSet(C, O, b) # {}
             /\ FreqMaxSet(C, O, b) \subseteq Int32 /\ FreqMaxSet(C, O, b) # {}
  BY <1>1, ConstantsFit DEF FreqMinSet, FreqMaxSet
<1>8. ASSUME NEW k \in Knob PROVE KnobSet(C, O, k) \subseteq Int32 /\ KnobSet(C, O, k) # {}
  BY <1>1, <1>2 DEF KnobSet
<1> QED
  BY <1>3, <1>4, <1>5, <1>6, <1>7, <1>8

\* Scenarios P, with the requests D, are O and one that asks for r.
AllJoined(C, O, D, P, r) ==
  /\ Joined(TotalSet(C, O), TotalSet(D, P), r.core_total)
  /\ \A c \in Cluster : /\ Joined(CoreMinSet(C, O, c), CoreMinSet(D, P, c), r.core_min[c])
                        /\ Joined(CoreMaxSet(C, O, c), CoreMaxSet(D, P, c), r.core_max[c])
  /\ \A b \in Band : /\ Joined(FreqMinSet(C, O, b), FreqMinSet(D, P, b), r.freq_min[b])
                     /\ Joined(FreqMaxSet(C, O, b), FreqMaxSet(D, P, b), r.freq_max[b])
  /\ \A k \in Knob : Joined(KnobSet(C, O, k), KnobSet(D, P, k), r.param[k])
  /\ r.gpu_freq = -1 => GpuSet(D, P) = GpuSet(C, O)
  /\ r.gpu_freq # -1 => Joined(GpuSet(C, O), GpuSet(D, P), r.gpu_freq)
  /\ r.gpu_freq_max = -1 => GpuMaxSet(D, P) = GpuMaxSet(C, O)
  /\ r.gpu_freq_max # -1 => Joined(GpuMaxSet(C, O), GpuMaxSet(D, P), r.gpu_freq_max)

\* One scenario more.
LEMMA SetsAdd ==
  ASSUME NEW C \in [Scenario -> Config], NEW O, O \subseteq Scenario, NEW s, NEW P, P = O \cup {s},
         NEW D, \A t \in O : D[t] = C[t], NEW r \in Config, D[s] = r
  PROVE  AllJoined(C, O, D, P, r)
<1>1. /\ TotalSet(C, O) \subseteq Int32 /\ TotalSet(C, O) # {}
      /\ \A c \in Cluster : /\ CoreMinSet(C, O, c) \subseteq Int32 /\ CoreMinSet(C, O, c) # {}
                            /\ CoreMaxSet(C, O, c) \subseteq Int32 /\ CoreMaxSet(C, O, c) # {}
      /\ \A b \in Band : /\ FreqMinSet(C, O, b) \subseteq Int32 /\ FreqMinSet(C, O, b) # {}
                         /\ FreqMaxSet(C, O, b) \subseteq Int32 /\ FreqMaxSet(C, O, b) # {}
      /\ \A k \in Knob : KnobSet(C, O, k) \subseteq Int32 /\ KnobSet(C, O, k) # {}
      /\ GpuSet(C, O) \subseteq Int32 /\ GpuSet(C, O) # {}
      /\ GpuMaxSet(C, O) \subseteq Int32 /\ GpuMaxSet(C, O) # {}
  BY SetsFit
<1>3. /\ r.core_total \in Int32 /\ r.gpu_freq \in Int32 /\ r.gpu_freq_max \in Int32
      /\ \A c \in Cluster : r.core_min[c] \in Int32 /\ r.core_max[c] \in Int32
      /\ \A b \in Band : r.freq_min[b] \in Int32 /\ r.freq_max[b] \in Int32
      /\ \A k \in Knob : r.param[k] \in Int32
  BY FieldsFit
<1>4. Joined(TotalSet(C, O), TotalSet(D, P), r.core_total)
  <2>1. TotalSet(D, P) = TotalSet(C, O) \cup {r.core_total}
    BY DEF TotalSet
  <2> QED
    BY <1>1, <1>3, <2>1 DEF Joined
<1>5. ASSUME NEW c \in Cluster PROVE Joined(CoreMinSet(C, O, c), CoreMinSet(D, P, c), r.core_min[c])
  <2>1. CoreMinSet(D, P, c) = CoreMinSet(C, O, c) \cup {r.core_min[c]}
    BY DEF CoreMinSet
  <2> QED
    BY <1>1, <1>3, <2>1 DEF Joined
<1>6. ASSUME NEW c \in Cluster PROVE Joined(CoreMaxSet(C, O, c), CoreMaxSet(D, P, c), r.core_max[c])
  <2>1. CoreMaxSet(D, P, c) = CoreMaxSet(C, O, c) \cup {r.core_max[c]}
    BY DEF CoreMaxSet
  <2> QED
    BY <1>1, <1>3, <2>1 DEF Joined
<1>7. ASSUME NEW b \in Band PROVE Joined(FreqMinSet(C, O, b), FreqMinSet(D, P, b), r.freq_min[b])
  <2>1. FreqMinSet(D, P, b) = FreqMinSet(C, O, b) \cup {r.freq_min[b]}
    BY DEF FreqMinSet
  <2> QED
    BY <1>1, <1>3, <2>1 DEF Joined
<1>8. ASSUME NEW b \in Band PROVE Joined(FreqMaxSet(C, O, b), FreqMaxSet(D, P, b), r.freq_max[b])
  <2>1. FreqMaxSet(D, P, b) = FreqMaxSet(C, O, b) \cup {r.freq_max[b]}
    BY DEF FreqMaxSet
  <2> QED
    BY <1>1, <1>3, <2>1 DEF Joined
<1>9. ASSUME NEW k \in Knob PROVE Joined(KnobSet(C, O, k), KnobSet(D, P, k), r.param[k])
  <2>1. KnobSet(D, P, k) = KnobSet(C, O, k) \cup {r.param[k]}
    BY DEF KnobSet
  <2> QED
    BY <1>1, <1>3, <2>1 DEF Joined
<1>10. /\ r.gpu_freq = -1 => GpuSet(D, P) = GpuSet(C, O)
       /\ r.gpu_freq # -1 => Joined(GpuSet(C, O), GpuSet(D, P), r.gpu_freq)
  <2>1. GpuSet(D, P) = GpuSet(C, O) \cup ({r.gpu_freq} \ {-1})
    BY DEF GpuSet
  <2>2. r.gpu_freq = -1 => GpuSet(D, P) = GpuSet(C, O)
    BY <2>1
  <2>3. r.gpu_freq # -1 => GpuSet(D, P) = GpuSet(C, O) \cup {r.gpu_freq}
    BY <2>1
  <2> QED
    BY <1>1, <1>3, <2>2, <2>3 DEF Joined
<1>11. /\ r.gpu_freq_max = -1 => GpuMaxSet(D, P) = GpuMaxSet(C, O)
       /\ r.gpu_freq_max # -1 => Joined(GpuMaxSet(C, O), GpuMaxSet(D, P), r.gpu_freq_max)
  <2>1. GpuMaxSet(D, P) = GpuMaxSet(C, O) \cup ({r.gpu_freq_max} \ {-1})
    BY DEF GpuMaxSet
  <2>2. r.gpu_freq_max = -1 => GpuMaxSet(D, P) = GpuMaxSet(C, O)
    BY <2>1
  <2>3. r.gpu_freq_max # -1 => GpuMaxSet(D, P) = GpuMaxSet(C, O) \cup {r.gpu_freq_max}
    BY <2>1
  <2> QED
    BY <1>1, <1>3, <2>2, <2>3 DEF Joined
<1> QED
  BY <1>4, <1>5, <1>6, <1>7, <1>8, <1>9, <1>10, <1>11 DEF AllJoined

\* Scenarios P, with the requests D, are O without one that asked for r.
AllParted(C, O, D, P, r) ==
  /\ Parted(TotalSet(D, P), TotalSet(C, O), r.core_total)
  /\ \A c \in Cluster : /\ Parted(CoreMinSet(D, P, c), CoreMinSet(C, O, c), r.core_min[c])
                        /\ Parted(CoreMaxSet(D, P, c), CoreMaxSet(C, O, c), r.core_max[c])
  /\ \A b \in Band : /\ Parted(FreqMinSet(D, P, b), FreqMinSet(C, O, b), r.freq_min[b])
                     /\ Parted(FreqMaxSet(D, P, b), FreqMaxSet(C, O, b), r.freq_max[b])
  /\ \A k \in Knob : Parted(KnobSet(D, P, k), KnobSet(C, O, k), r.param[k])
  /\ r.gpu_freq = -1 => GpuSet(D, P) = GpuSet(C, O)
  /\ Parted(GpuSet(D, P), GpuSet(C, O), r.gpu_freq)
  /\ r.gpu_freq_max = -1 => GpuMaxSet(D, P) = GpuMaxSet(C, O)
  /\ Parted(GpuMaxSet(D, P), GpuMaxSet(C, O), r.gpu_freq_max)

\* One less.
LEMMA SetsDrop ==
  ASSUME NEW C \in [Scenario -> Config], NEW O, O \subseteq Scenario, NEW s, NEW P, P = O \ {s},
         NEW D \in [Scenario -> Config], \A t \in P : D[t] = C[t], NEW r \in Config, C[s] = r
  PROVE  AllParted(C, O, D, P, r)
<1>1. /\ TotalSet(C, O) \subseteq Int32 /\ TotalSet(C, O) # {}
      /\ \A c \in Cluster : /\ CoreMinSet(C, O, c) \subseteq Int32 /\ CoreMinSet(C, O, c) # {}
                            /\ CoreMaxSet(C, O, c) \subseteq Int32 /\ CoreMaxSet(C, O, c) # {}
      /\ \A b \in Band : /\ FreqMinSet(C, O, b) \subseteq Int32 /\ FreqMinSet(C, O, b) # {}
                         /\ FreqMaxSet(C, O, b) \subseteq Int32 /\ FreqMaxSet(C, O, b) # {}
      /\ \A k \in Knob : KnobSet(C, O, k) \subseteq Int32 /\ KnobSet(C, O, k) # {}
      /\ GpuSet(C, O) \subseteq Int32 /\ GpuSet(C, O) # {}
      /\ GpuMaxSet(C, O) \subseteq Int32 /\ GpuMaxSet(C, O) # {}
  BY SetsFit
<1>2. /\ TotalSet(D, P) \subseteq Int32 /\ TotalSet(D, P) # {}
      /\ \A c \in Cluster : /\ CoreMinSet(D, P, c) \subseteq Int32 /\ CoreMinSet(D, P, c) # {}
                            /\ CoreMaxSet(D, P, c) \subseteq Int32 /\ CoreMaxSet(D, P, c) # {}
      /\ \A b \in Band : /\ FreqMinSet(D, P, b) \subseteq Int32 /\ FreqMinSet(D, P, b) # {}
                         /\ FreqMaxSet(D, P, b) \subseteq Int32 /\ FreqMaxSet(D, P, b) # {}
      /\ \A k \in Knob : KnobSet(D, P, k) \subseteq Int32 /\ KnobSet(D, P, k) # {}
      /\ GpuSet(D, P) \subseteq Int32 /\ GpuSet(D, P) # {}
      /\ GpuMaxSet(D, P) \subseteq Int32 /\ GpuMaxSet(D, P) # {}
  <2>1. P \subseteq Scenario
    OBVIOUS
  <2> QED
    BY <2>1, SetsFit
<1>3. /\ r.core_total \in Int32 /\ r.gpu_freq \in Int32 /\ r.gpu_freq_max \in Int32
      /\ \A c \in Cluster : r.core_min[c] \in Int32 /\ r.core_max[c] \in Int32
      /\ \A b \in Band : r.freq_min[b] \in Int32 /\ r.freq_max[b] \in Int32
      /\ \A k \in Knob : r.param[k] \in Int32
  BY FieldsFit
<1>4. Parted(TotalSet(D, P), TotalSet(C, O), r.core_total)
  <2>1. TotalSet(D, P) \subseteq TotalSet(C, O) /\ TotalSet(C, O) \subseteq TotalSet(D, P) \cup {r.core_total}
    BY DEF TotalSet
  <2> QED
    BY <1>1, <1>2, <1>3, <2>1 DEF Parted
<1>5. ASSUME NEW c \in Cluster PROVE Parted(CoreMinSet(D, P, c), CoreMinSet(C, O, c), r.core_min[c])
  <2>1. CoreMinSet(D, P, c) \subseteq CoreMinSet(C, O, c) /\ CoreMinSet(C, O, c) \subseteq CoreMinSet(D, P, c) \cup {r.core_min[c]}
    BY DEF CoreMinSet
  <2> QED
    BY <1>1, <1>2, <1>3, <2>1 DEF Parted
<1>6. ASSUME NEW c \in Cluster PROVE Parted(CoreMaxSet(D, P, c), CoreMaxSet(C, O, c), r.core_max[c])
  <2>1. CoreMaxSet(D, P, c) \subseteq CoreMaxSet(C, O, c) /\ CoreMaxSet(C, O, c) \subseteq CoreMaxSet(D, P, c) \cup {r.core_max[c]}
    BY DEF CoreMaxSet
  <2> QED
    BY <1>1, <1>2, <1>3, <2>1 DEF Parted
<1>7. ASSUME NEW b \in Band PROVE Parted(FreqMinSet(D, P, b), FreqMinSet(C, O, b), r.freq_min[b])
  <2>1. FreqMinSet(D, P, b) \subseteq FreqMinSet(C, O, b) /\ FreqMinSet(C, O, b) \subseteq FreqMinSet(D, P, b) \cup {r.freq_min[b]}
    BY DEF FreqMinSet
  <2> QED
    BY <1>1, <1>2, <1>3, <2>1 DEF Parted
<1>8. ASSUME NEW b \in Band PROVE Parted(FreqMaxSet(D, P, b), FreqMaxSet(C, O, b), r.freq_max[b])
  <2>1. FreqMaxSet(D, P, b) \subseteq FreqMaxSet(C, O, b) /\ FreqMaxSet(C, O, b) \subseteq FreqMaxSet(D, P, b) \cup {r.freq_max[b]}
    BY DEF FreqMaxSet
  <2> QED
    BY <1>1, <1>2, <1>3, <2>1 DEF Parted
<1>9. ASSUME NEW k \in Knob PROVE Parted(KnobSet(D, P, k), KnobSet(C, O, k), r.param[k])
  <2>1. KnobSet(D, P, k) \subseteq KnobSet(C, O, k) /\ KnobSet(C, O, k) \subseteq KnobSet(D, P, k) \cup {r.param[k]}
    BY DEF KnobSet
  <2> QED
    BY <1>1, <1>2, <1>3, <2>1 DEF Parted
<1>10. /\ r.gpu_freq = -1 => GpuSet(D, P) = GpuSet(C, O)
       /\ Parted(GpuSet(D, P), GpuSet(C, O), r.gpu_freq)
  <2>1. GpuSet(D, P) \subseteq GpuSet(C, O) /\ GpuSet(C, O) \subseteq GpuSet(D, P) \cup ({r.gpu_freq} \ {-1})
    BY DEF GpuSet
  <2>2. r.gpu_freq = -1 => GpuSet(D, P) = GpuSet(C, O)
    BY <2>1
  <2>3. GpuSet(C, O) \subseteq GpuSet(D, P) \cup {r.gpu_freq}
    BY <2>1
  <2> QED
    BY <1>1, <1>2, <1>3, <2>1, <2>2, <2>3 DEF Parted
<1>11. /\ r.gpu_freq_max = -1 => GpuMaxSet(D, P) = GpuMaxSet(C, O)
       /\ Parted(GpuMaxSet(D, P), GpuMaxSet(C, O), r.gpu_freq_max)
  <2>1. GpuMaxSet(D, P) \subseteq GpuMaxSet(C, O) /\ GpuMaxSet(C, O) \subseteq GpuMaxSet(D, P) \cup ({r.gpu_freq_max} \ {-1})
    BY DEF GpuMaxSet
  <2>2. r.gpu_freq_max = -1 => GpuMaxSet(D, P) = GpuMaxSet(C, O)
    BY <2>1
  <2>3. GpuMaxSet(C, O) \subseteq GpuMaxSet(D, P) \cup {r.gpu_freq_max}
    BY <2>1
  <2> QED
    BY <1>1, <1>2, <1>3, <2>1, <2>2, <2>3 DEF Parted
<1> QED
  BY <1>4, <1>5, <1>6, <1>7, <1>8, <1>9, <1>10, <1>11 DEF AllParted

\* The extrema of these sets, and what follows from requests being sane.
LEMMA AsksType ==
  ASSUME NEW C \in [Scenario -> Config], \A s \in Scenario : Sane(C[s]), NEW O, O \subseteq Scenario
  PROVE  /\ Max(TotalSet(C, O)) \in Nat
         /\ Min(GpuSet(C, O)) \in 0 .. nGpuHighestFreqLevel
         /\ Max(GpuMaxSet(C, O)) \in 0 .. nGpuHighestFreqLevel
         /\ \A c \in Cluster : /\ Max(CoreMinSet(C, O, c)) \in 0 .. cpuNum[c]
                               /\ Max(CoreMinSet(C, O, c)) <= Max(TotalSet(C, O))
                               /\ Min(CoreMaxSet(C, O, c)) \in Nat
         /\ \A b \in Band : /\ Max(FreqMinSet(C, O, b)) \in 0 .. freqMax[b[1]]
                            /\ Min(FreqMaxSet(C, O, b)) \in Int
                            /\ \/ Min(FreqMaxSet(C, O, b)) <= freqMax[b[1]]
                               \/ Min(FreqMaxSet(C, O, b)) = FREQ_MAX
         /\ \A k \in Knob : /\ Max(KnobSet(C, O, k)) \in Int /\ Max(KnobSet(C, O, k)) >= resetVal[k]
                            /\ Min(KnobSet(C, O, k)) \in Int /\ Min(KnobSet(C, O, k)) <= resetVal[k]
<1>1. \A s \in O : Sane(C[s])
  OBVIOUS
<1>2. /\ Max(TotalSet(C, O)) \in TotalSet(C, O) /\ Max(TotalSet(C, O)) \in Int
      /\ \A y \in TotalSet(C, O) : Max(TotalSet(C, O)) >= y
  BY SetsFit, Extrema
<1>3. Max(TotalSet(C, O)) \in Nat
  BY <1>2 DEF TotalSet
<1>4. Min(GpuSet(C, O)) \in 0 .. nGpuHighestFreqLevel
  <2>1. Min(GpuSet(C, O)) \in GpuSet(C, O)
    BY SetsFit, Extrema
  <2>2. \A y \in GpuSet(C, O) : y \in 0 .. nGpuHighestFreqLevel
    BY <1>1, ConstantsFit DEF GpuSet, Sane
  <2> QED
    BY <2>1, <2>2
<1>5. Max(GpuMaxSet(C, O)) \in 0 .. nGpuHighestFreqLevel
  <2>1. Max(GpuMaxSet(C, O)) \in GpuMaxSet(C, O)
    BY SetsFit, Extrema
  <2>2. \A y \in GpuMaxSet(C, O) : y \in 0 .. nGpuHighestFreqLevel
    BY <1>1, ConstantsFit DEF GpuMaxSet, Sane
  <2> QED
    BY <2>1, <2>2
<1>6. ASSUME NEW c \in Cluster
      PROVE  Max(CoreMinSet(C, O, c)) \in 0 .. cpuNum[c] /\ Max(CoreMinSet(C, O, c)) <= Max(TotalSet(C, O))
  <2>1. cpuNum[c] \in Nat
    BY PerfServiceAssumption
  <2>2. /\ Max(CoreMinSet(C, O, c)) \in CoreMinSet(C, O, c)
        /\ Max(CoreMinSet(C, O, c)) \in Int
        /\ \A y \in CoreMinSet(C, O, c) : Max(CoreMinSet(C, O, c)) >= y
    BY SetsFit, Extrema
  <2>3. 0 \in CoreMinSet(C, O, c)
    BY DEF CoreMinSet
  <2>4. \A y \in CoreMinSet(C, O, c) : y <= cpuNum[c]
    BY <1>1, <2>1 DEF CoreMinSet, Sane
  <2>5. \A y \in CoreMinSet(C, O, c) : \E t \in TotalSet(C, O) : t \in Int /\ y <= t
    <3>1. \A s \in O : C[s].core_min[c] <= C[s].core_total
      BY <1>1 DEF Sane
    <3>2. \A t \in TotalSet(C, O) : t \in Int
      BY SetsFit, IntBounds DEF Int32
    <3>3. 0 \in TotalSet(C, O) /\ \A s \in O : C[s].core_total \in TotalSet(C, O)
      BY DEF TotalSet
    <3>4. \A y \in CoreMinSet(C, O, c) : y = 0 \/ \E s \in O : y = C[s].core_min[c]
      BY DEF CoreMinSet
    <3> QED
      BY <3>1, <3>2, <3>3, <3>4
  <2>6. PICK t \in TotalSet(C, O) : t \in Int /\ Max(CoreMinSet(C, O, c)) <= t
    BY <2>2, <2>5
  <2>7. Max(CoreMinSet(C, O, c)) >= 0 /\ Max(CoreMinSet(C, O, c)) <= cpuNum[c]
    BY <2>2, <2>3, <2>4
  <2>8. Max(TotalSet(C, O)) >= t
    BY <1>2
  <2> QED
    BY <1>2, <2>1, <2>2, <2>6, <2>7, <2>8
<1>7. ASSUME NEW c \in Cluster PROVE Min(CoreMaxSet(C, O, c)) \in Nat
  <2>1. Min(CoreMaxSet(C, O, c)) \in CoreMaxSet(C, O, c) /\ Min(CoreMaxSet(C, O, c)) \in Int
    BY SetsFit, Extrema
  <2>2. \A y \in CoreMaxSet(C, O, c) : y >= 0
    BY <1>1, ConstantsFit DEF CoreMaxSet, Sane
  <2> QED
    BY <2>1, <2>2
<1>8. ASSUME NEW b \in Band PROVE Max(FreqMinSet(C, O, b)) \in 0 .. freqMax[b[1]]
  <2>1. freqMax[b[1]] \in Nat
    BY PerfServiceAssumption, ConstantsFit DEF Band
  <2>2. /\ Max(FreqMinSet(C, O, b)) \in FreqMinSet(C, O, b) /\ Max(FreqMinSet(C, O, b)) \in Int
        /\ \A y \in FreqMinSet(C, O, b) : Max(FreqMinSet(C, O, b)) >= y
    BY SetsFit, Extrema
  <2>3. 0 \in FreqMinSet(C, O, b)
    BY DEF FreqMinSet
  <2>4. \A y \in FreqMinSet(C, O, b) : y <= freqMax[b[1]]
    BY <1>1, <2>1 DEF FreqMinSet, Sane
  <2> QED
    BY <2>1, <2>2, <2>3, <2>4
<1>9. ASSUME NEW b \in Band
      PROVE  /\ Min(FreqMaxSet(C, O, b)) \in Int
             /\ \/ Min(FreqMaxSet(C, O, b)) <= freqMax[b[1]]
                \/ Min(FreqMaxSet(C, O, b)) = FREQ_MAX
  <2>1. Min(FreqMaxSet(C, O, b)) \in FreqMaxSet(C, O, b) /\ Min(FreqMaxSet(C, O, b)) \in Int
    BY SetsFit, Extrema
  <2>2. \A y \in FreqMaxSet(C, O, b) : y <= freqMax[b[1]] \/ y = FREQ_MAX
    BY <1>1 DEF FreqMaxSet, Sane
  <2> QED
    BY <2>1, <2>2
<1>10. ASSUME NEW k \in Knob
       PROVE  /\ Max(KnobSet(C, O, k)) \in Int /\ Max(KnobSet(C, O, k)) >= resetVal[k]
              /\ Min(KnobSet(C, O, k)) \in Int /\ Min(KnobSet(C, O, k)) <= resetVal[k]
  <2>1. resetVal[k] \in KnobSet(C, O, k)
    BY DEF KnobSet
  <2> QED
    BY <2>1, SetsFit, Extrema
<1> QED
  BY <1>3, <1>4, <1>5, <1>6, <1>7, <1>8, <1>9, <1>10

-----------------------------------------------------------------------------
(* The same of the scenarios that are on *)

\* The requests are well formed, and within what cmdSetting lets through.
CfgOK == cfg \in [Scenario -> Config] /\ \A s \in Scenario : Sane(cfg[s])

\* What is asked is in range.
AskedOK ==
  /\ AskedTotal \in Nat
  /\ AskedGpu \in 0 .. nGpuHighestFreqLevel
  /\ AskedGpuMax \in 0 .. nGpuHighestFreqLevel
  /\ \A c \in Cluster : /\ AskedCoreMin(c) \in 0 .. cpuNum[c]
                        /\ AskedCoreMin(c) <= AskedTotal
                        /\ AskedCoreMax(c) \in Nat
  /\ \A b \in Band : /\ AskedFreqMin(b) \in 0 .. freqMax[b[1]]
                     /\ AskedFreqMax(b) \in Int
                     /\ AskedFreqMax(b) <= freqMax[b[1]] \/ AskedFreqMax(b) = FREQ_MAX
  /\ \A k \in Knob : AskedKnob(k) \in Int /\ ~Stricter(k, resetVal[k], AskedKnob(k))

\* The Asked operators are extrema of these sets.
LEMMA AskedAre ==
  /\ AskedTotal = Max(TotalSet(cfg, On))
  /\ AskedGpu = Min(GpuSet(cfg, On))
  /\ AskedGpuMax = Max(GpuMaxSet(cfg, On))
  /\ \A c \in Cluster : /\ AskedCoreMin(c) = Max(CoreMinSet(cfg, On, c))
                        /\ AskedCoreMax(c) = Min(CoreMaxSet(cfg, On, c))
  /\ \A b \in Band : /\ AskedFreqMin(b) = Max(FreqMinSet(cfg, On, b))
                     /\ AskedFreqMax(b) = Min(FreqMaxSet(cfg, On, b))
  /\ \A k \in Knob : AskedKnob(k) = IF k \in Less THEN Min(KnobSet(cfg, On, k))
                                                  ELSE Max(KnobSet(cfg, On, k))
  BY DEF AskedTotal, TotalSet, AskedGpu, GpuSet, AskedGpuMax, GpuMaxSet, AskedCoreMin, CoreMinSet,
         AskedCoreMax, CoreMaxSet, AskedFreqMin, FreqMinSet, AskedFreqMax, FreqMaxSet,
         AskedKnob, KnobSet

\* They are so after a step as well.
LEMMA AskedAreNext ==
  /\ AskedTotal' = Max(TotalSet(cfg', On'))
  /\ AskedGpu' = Min(GpuSet(cfg', On'))
  /\ AskedGpuMax' = Max(GpuMaxSet(cfg', On'))
  /\ \A c \in Cluster : /\ AskedCoreMin(c)' = Max(CoreMinSet(cfg', On', c))
                        /\ AskedCoreMax(c)' = Min(CoreMaxSet(cfg', On', c))
  /\ \A b \in Band : /\ AskedFreqMin(b)' = Max(FreqMinSet(cfg', On', b))
                     /\ AskedFreqMax(b)' = Min(FreqMaxSet(cfg', On', b))
  /\ \A k \in Knob : AskedKnob(k)' = IF k \in Less THEN Min(KnobSet(cfg', On', k))
                                                   ELSE Max(KnobSet(cfg', On', k))
  BY DEF AskedTotal, TotalSet, AskedGpu, GpuSet, AskedGpuMax, GpuMaxSet, AskedCoreMin, CoreMinSet,
         AskedCoreMax, CoreMaxSet, AskedFreqMin, FreqMinSet, AskedFreqMax, FreqMaxSet,
         AskedKnob, KnobSet

\* Requests in range ask for settings in range.
LEMMA AskedType ==
  ASSUME CfgOK
  PROVE  AskedOK
<1>1. On \subseteq Scenario
  BY DEF On
<1>2. \A k \in Knob : resetVal[k] \in Int
  BY PerfServiceAssumption, IntBounds DEF Int32
<1> QED
  BY <1>1, <1>2, AsksType, AskedAre DEF CfgOK, AskedOK, Stricter

\* They do after a step as well.
LEMMA AskedTypeNext ==
  ASSUME CfgOK'
  PROVE  AskedOK'
  BY AskedType, PTL

\* A scenario that asks for r comes.
Adds(r) ==
  /\ AskedTotal' = Larger(AskedTotal, r.core_total)
  /\ AskedGpu' = IF r.gpu_freq = -1 THEN AskedGpu ELSE Smaller(AskedGpu, r.gpu_freq)
  /\ AskedGpuMax' = IF r.gpu_freq_max = -1 THEN AskedGpuMax ELSE Larger(AskedGpuMax, r.gpu_freq_max)
  /\ \A c \in Cluster : /\ AskedCoreMin(c)' = Larger(AskedCoreMin(c), r.core_min[c])
                        /\ AskedCoreMax(c)' = Smaller(AskedCoreMax(c), r.core_max[c])
  /\ \A b \in Band : /\ AskedFreqMin(b)' = Larger(AskedFreqMin(b), r.freq_min[b])
                     /\ AskedFreqMax(b)' = Smaller(AskedFreqMax(b), r.freq_max[b])
  /\ \A k \in Knob : AskedKnob(k)' = IF Stricter(k, r.param[k], AskedKnob(k)) THEN r.param[k]
                                                                              ELSE AskedKnob(k)

\* A scenario that asked for r goes: what is asked changes only where r may have
\* been the strictest request.
Drops(r) ==
  /\ AskedTotal > r.core_total => AskedTotal' = AskedTotal
  /\ AskedGpu' >= AskedGpu /\ (r.gpu_freq = -1 => AskedGpu' = AskedGpu)
  /\ r.gpu_freq_max = -1 => AskedGpuMax' = AskedGpuMax
  /\ \A c \in Cluster :
       /\ AskedCoreMin(c)' <= AskedCoreMin(c)
       /\ AskedCoreMin(c) > r.core_min[c] => AskedCoreMin(c)' = AskedCoreMin(c)
       /\ AskedCoreMax(c) < r.core_max[c] => AskedCoreMax(c)' = AskedCoreMax(c)
  /\ \A b \in Band :
       /\ AskedFreqMin(b)' <= AskedFreqMin(b)
       /\ AskedFreqMin(b) > r.freq_min[b] => AskedFreqMin(b)' = AskedFreqMin(b)
       /\ AskedFreqMax(b)' >= AskedFreqMax(b)
       /\ AskedFreqMax(b) < r.freq_max[b] => AskedFreqMax(b)' = AskedFreqMax(b)
  /\ \A k \in Knob : Stricter(k, AskedKnob(k), r.param[k]) \/ r.param[k] = resetVal[k] =>
                       AskedKnob(k)' = AskedKnob(k)

\* Nothing else is asked than before.
AsksSame ==
  /\ AskedTotal' = AskedTotal /\ AskedGpu' = AskedGpu /\ AskedGpuMax' = AskedGpuMax
  /\ \A c \in Cluster : AskedCoreMin(c)' = AskedCoreMin(c) /\ AskedCoreMax(c)' = AskedCoreMax(c)
  /\ \A b \in Band : AskedFreqMin(b)' = AskedFreqMin(b) /\ AskedFreqMax(b)' = AskedFreqMax(b)
  /\ \A k \in Knob : AskedKnob(k)' = AskedKnob(k)

\* perfScnEnable, and perfLockAcq in a free slot, add the request of s.
LEMMA AskedAdd ==
  ASSUME CfgOK, NEW s \in Scenario, On' = On \cup {s}, \A t \in On : cfg'[t] = cfg[t],
         NEW r \in Config, cfg'[s] = r
  PROVE  Adds(r)
<1>1. On \subseteq Scenario /\ cfg \in [Scenario -> Config]
  BY DEF On, CfgOK
<1>2. /\ Joined(TotalSet(cfg, On), TotalSet(cfg', On'), r.core_total)
      /\ \A c \in Cluster : /\ Joined(CoreMinSet(cfg, On, c), CoreMinSet(cfg', On', c), r.core_min[c])
                            /\ Joined(CoreMaxSet(cfg, On, c), CoreMaxSet(cfg', On', c), r.core_max[c])
      /\ \A b \in Band : /\ Joined(FreqMinSet(cfg, On, b), FreqMinSet(cfg', On', b), r.freq_min[b])
                         /\ Joined(FreqMaxSet(cfg, On, b), FreqMaxSet(cfg', On', b), r.freq_max[b])
      /\ \A k \in Knob : Joined(KnobSet(cfg, On, k), KnobSet(cfg', On', k), r.param[k])
      /\ r.gpu_freq = -1 => GpuSet(cfg', On') = GpuSet(cfg, On)
      /\ r.gpu_freq # -1 => Joined(GpuSet(cfg, On), GpuSet(cfg', On'), r.gpu_freq)
      /\ r.gpu_freq_max = -1 => GpuMaxSet(cfg', On') = GpuMaxSet(cfg, On)
      /\ r.gpu_freq_max # -1 => Joined(GpuMaxSet(cfg, On), GpuMaxSet(cfg', On'), r.gpu_freq_max)
  <2>1. AllJoined(cfg, On, cfg', On', r)
    BY <1>1, SetsAdd
  <2> QED
    BY <2>1 DEF AllJoined
<1>3. AskedTotal' = Larger(AskedTotal, r.core_total)
  BY <1>2, ExtremaAdd, AskedAre, AskedAreNext
<1>4. AskedGpu' = IF r.gpu_freq = -1 THEN AskedGpu ELSE Smaller(AskedGpu, r.gpu_freq)
  BY <1>2, ExtremaAdd, AskedAre, AskedAreNext
<1>5. AskedGpuMax' = IF r.gpu_freq_max = -1 THEN AskedGpuMax ELSE Larger(AskedGpuMax, r.gpu_freq_max)
  BY <1>2, ExtremaAdd, AskedAre, AskedAreNext
<1>6. ASSUME NEW c \in Cluster
      PROVE  /\ AskedCoreMin(c)' = Larger(AskedCoreMin(c), r.core_min[c])
             /\ AskedCoreMax(c)' = Smaller(AskedCoreMax(c), r.core_max[c])
  <2>1. Max(CoreMinSet(cfg', On', c)) = Larger(Max(CoreMinSet(cfg, On, c)), r.core_min[c])
    BY <1>2, ExtremaAdd
  <2>2. Min(CoreMaxSet(cfg', On', c)) = Smaller(Min(CoreMaxSet(cfg, On, c)), r.core_max[c])
    BY <1>2, ExtremaAdd
  <2> QED
    BY <2>1, <2>2, AskedAre, AskedAreNext
<1>7. ASSUME NEW b \in Band
      PROVE  /\ AskedFreqMin(b)' = Larger(AskedFreqMin(b), r.freq_min[b])
             /\ AskedFreqMax(b)' = Smaller(AskedFreqMax(b), r.freq_max[b])
  <2>1. Max(FreqMinSet(cfg', On', b)) = Larger(Max(FreqMinSet(cfg, On, b)), r.freq_min[b])
    BY <1>2, ExtremaAdd
  <2>2. Min(FreqMaxSet(cfg', On', b)) = Smaller(Min(FreqMaxSet(cfg, On, b)), r.freq_max[b])
    BY <1>2, ExtremaAdd
  <2> QED
    BY <2>1, <2>2, AskedAre, AskedAreNext
<1>8. ASSUME NEW k \in Knob
      PROVE  AskedKnob(k)' = IF Stricter(k, r.param[k], AskedKnob(k)) THEN r.param[k] ELSE AskedKnob(k)
  <2> DEFINE S == KnobSet(cfg, On, k)
             T == KnobSet(cfg', On', k)
  <2>1. Joined(S, T, r.param[k])
    BY <1>2
  <2>2. /\ AskedKnob(k) = IF k \in Less THEN Min(S) ELSE Max(S)
        /\ AskedKnob(k)' = IF k \in Less THEN Min(T) ELSE Max(T)
    BY AskedAre, AskedAreNext
  <2> HIDE DEF S, T
  <2>3. Max(T) = Larger(Max(S), r.param[k]) /\ Min(T) = Smaller(Min(S), r.param[k])
    BY <2>1, ExtremaAdd
  <2>4. Max(S) \in Int /\ Min(S) \in Int /\ r.param[k] \in Int
    <3>1. S \subseteq Int32 /\ S # {} /\ r.param[k] \in Int32
      BY <2>1 DEF Joined
    <3>2. r.param[k] \in Int
      BY <3>1, IntBounds DEF Int32
    <3> QED
      BY <3>1, <3>2, Extrema
  <2> QED
    BY <2>2, <2>3, <2>4 DEF Larger, Smaller, Stricter
<1> QED
  BY <1>3, <1>4, <1>5, <1>6, <1>7, <1>8 DEF Adds

\* perfScnDisable and the like take the request of s away.
LEMMA AskedDrop ==
  ASSUME CfgOK, CfgOK', NEW s \in Scenario, On' = On \ {s}, \A t \in On' : cfg'[t] = cfg[t],
         NEW r \in Config, cfg[s] = r
  PROVE  Drops(r)
<1>1. On \subseteq Scenario /\ cfg \in [Scenario -> Config] /\ cfg' \in [Scenario -> Config]
  BY DEF On, CfgOK
<1>2. /\ Parted(TotalSet(cfg', On'), TotalSet(cfg, On), r.core_total)
      /\ \A c \in Cluster : /\ Parted(CoreMinSet(cfg', On', c), CoreMinSet(cfg, On, c), r.core_min[c])
                            /\ Parted(CoreMaxSet(cfg', On', c), CoreMaxSet(cfg, On, c), r.core_max[c])
      /\ \A b \in Band : /\ Parted(FreqMinSet(cfg', On', b), FreqMinSet(cfg, On, b), r.freq_min[b])
                         /\ Parted(FreqMaxSet(cfg', On', b), FreqMaxSet(cfg, On, b), r.freq_max[b])
      /\ \A k \in Knob : Parted(KnobSet(cfg', On', k), KnobSet(cfg, On, k), r.param[k])
      /\ r.gpu_freq = -1 => GpuSet(cfg', On') = GpuSet(cfg, On)
      /\ Parted(GpuSet(cfg', On'), GpuSet(cfg, On), r.gpu_freq)
      /\ r.gpu_freq_max = -1 => GpuMaxSet(cfg', On') = GpuMaxSet(cfg, On)
      /\ Parted(GpuMaxSet(cfg', On'), GpuMaxSet(cfg, On), r.gpu_freq_max)
  <2>1. AllParted(cfg, On, cfg', On', r)
    BY <1>1, SetsDrop
  <2> QED
    BY <2>1 DEF AllParted
<1>3. AskedTotal > r.core_total => AskedTotal' = AskedTotal
  BY <1>2, ExtremaDrop, AskedAre, AskedAreNext
<1>4. AskedGpu' >= AskedGpu /\ (r.gpu_freq = -1 => AskedGpu' = AskedGpu)
  BY <1>2, ExtremaDrop, AskedAre, AskedAreNext
<1>5. r.gpu_freq_max = -1 => AskedGpuMax' = AskedGpuMax
  BY <1>2, AskedAre, AskedAreNext
<1>6. ASSUME NEW c \in Cluster
      PROVE  /\ AskedCoreMin(c)' <= AskedCoreMin(c)
             /\ AskedCoreMin(c) > r.core_min[c] => AskedCoreMin(c)' = AskedCoreMin(c)
             /\ AskedCoreMax(c) < r.core_max[c] => AskedCoreMax(c)' = AskedCoreMax(c)
  <2> DEFINE S == CoreMinSet(cfg', On', c)
             T == CoreMinSet(cfg, On, c)
             U == CoreMaxSet(cfg', On', c)
             V == CoreMaxSet(cfg, On, c)
  <2>1. Parted(S, T, r.core_min[c]) /\ Parted(U, V, r.core_max[c])
    BY <1>2
  <2>2. /\ AskedCoreMin(c)' = Max(S) /\ AskedCoreMin(c) = Max(T)
        /\ AskedCoreMax(c)' = Min(U) /\ AskedCoreMax(c) = Min(V)
    BY AskedAre, AskedAreNext
  <2> HIDE DEF S, T, U, V
  <2>3. Max(S) <= Max(T) /\ (Max(T) > r.core_min[c] => Max(S) = Max(T))
    BY <2>1, ExtremaDrop
  <2>4. Min(U) >= Min(V) /\ (Min(V) < r.core_max[c] => Min(U) = Min(V))
    BY <2>1, ExtremaDrop
  <2> QED
    BY <2>2, <2>3, <2>4
<1>7. ASSUME NEW b \in Band
      PROVE  /\ AskedFreqMin(b)' <= AskedFreqMin(b)
             /\ AskedFreqMin(b) > r.freq_min[b] => AskedFreqMin(b)' = AskedFreqMin(b)
             /\ AskedFreqMax(b)' >= AskedFreqMax(b)
             /\ AskedFreqMax(b) < r.freq_max[b] => AskedFreqMax(b)' = AskedFreqMax(b)
  <2> DEFINE S == FreqMinSet(cfg', On', b)
             T == FreqMinSet(cfg, On, b)
             U == FreqMaxSet(cfg', On', b)
             V == FreqMaxSet(cfg, On, b)
  <2>1. Parted(S, T, r.freq_min[b]) /\ Parted(U, V, r.freq_max[b])
    BY <1>2
  <2>2. /\ AskedFreqMin(b)' = Max(S) /\ AskedFreqMin(b) = Max(T)
        /\ AskedFreqMax(b)' = Min(U) /\ AskedFreqMax(b) = Min(V)
    BY AskedAre, AskedAreNext
  <2> HIDE DEF S, T, U, V
  <2>3. Max(S) <= Max(T) /\ (Max(T) > r.freq_min[b] => Max(S) = Max(T))
    BY <2>1, ExtremaDrop
  <2>4. Min(U) >= Min(V) /\ (Min(V) < r.freq_max[b] => Min(U) = Min(V))
    BY <2>1, ExtremaDrop
  <2> QED
    BY <2>2, <2>3, <2>4
<1>8. ASSUME NEW k \in Knob, Stricter(k, AskedKnob(k), r.param[k]) \/ r.param[k] = resetVal[k]
      PROVE  AskedKnob(k)' = AskedKnob(k)
  <2> DEFINE S == KnobSet(cfg', On', k)
             T == KnobSet(cfg, On, k)
  <2>1. Parted(S, T, r.param[k]) /\ resetVal[k] \in S
    BY <1>2 DEF KnobSet
  <2>2. /\ AskedKnob(k) = IF k \in Less THEN Min(T) ELSE Max(T)
        /\ AskedKnob(k)' = IF k \in Less THEN Min(S) ELSE Max(S)
    BY AskedAre, AskedAreNext
  <2> HIDE DEF S, T
  <2>3. /\ Max(T) > r.param[k] \/ r.param[k] \in S => Max(S) = Max(T)
        /\ Min(T) < r.param[k] \/ r.param[k] \in S => Min(S) = Min(T)
    BY <2>1, ExtremaDrop
  <2> QED
    BY <1>8, <2>1, <2>2, <2>3 DEF Stricter
<1> QED
  BY <1>3, <1>4, <1>5, <1>6, <1>7, <1>8 DEF Drops

\* A step that leaves the scenarios that are on and their requests alone.
LEMMA AskedSame ==
  ASSUME On' = On, \A t \in On : cfg'[t] = cfg[t]
  PROVE  AsksSame
<1>2. /\ TotalSet(cfg', On) = TotalSet(cfg, On)
      /\ GpuSet(cfg', On) = GpuSet(cfg, On) /\ GpuMaxSet(cfg', On) = GpuMaxSet(cfg, On)
  BY DEF TotalSet, GpuSet, GpuMaxSet
<1>3. \A c \in Cluster : /\ CoreMinSet(cfg', On, c) = CoreMinSet(cfg, On, c)
                         /\ CoreMaxSet(cfg', On, c) = CoreMaxSet(cfg, On, c)
  BY DEF CoreMinSet, CoreMaxSet
<1>4. \A b \in Band : /\ FreqMinSet(cfg', On, b) = FreqMinSet(cfg, On, b)
                      /\ FreqMaxSet(cfg', On, b) = FreqMaxSet(cfg, On, b)
  BY DEF FreqMinSet, FreqMaxSet
<1>5. \A k \in Knob : KnobSet(cfg', On, k) = KnobSet(cfg, On, k)
  BY DEF KnobSet
<1> QED
  BY <1>2, <1>3, <1>4, <1>5, AskedAre, AskedAreNext DEF AsksSame

-----------------------------------------------------------------------------
(* The kinds of steps *)

StateOK  == scn_state \in [Scenario -> {"ON", "OFF", "WAIT_RESTORE"}]
SportsOK == sports \in [Reason -> BOOLEAN]

\* A request is merged into the settings.
Comes ==
  \E r \in Config : /\ Sane(r) /\ Adds(r)
                    /\ EnableCores(r) /\ EnableFreqs(r) /\ EnableGpu(r) /\ EnableKnobs(r)
                    /\ outdated' = outdated

\* A request is withdrawn.
Goes ==
  \E r \in Config :
    /\ Sane(r) /\ Drops(r)
    /\ UpdateCores(r, FALSE) /\ UpdateFreqs(r, FALSE) /\ UpdateGpu(r, FALSE) /\ UpdateKnobs(r, FALSE)
    /\ outdated' = outdated

\* Everything is computed anew.
Anew ==
  \E r \in Config :
    UpdateCores(r, TRUE) /\ UpdateFreqs(r, TRUE) /\ UpdateGpu(r, TRUE) /\ UpdateKnobs(r, TRUE)

\* No setting changes, except that the mode may switch the defaults; if what is
\* asked for does, that is noted.
Rests ==
  /\ UNCHANGED <<cores, freqs, gpu, curVal>> /\ entry' = Switched
  /\ ~outdated' => ~outdated /\ AsksSame

\* Merge is of the first kind.
LEMMA MergeComes ==
  ASSUME StateOK, CfgOK, NEW s \in Scenario, s \notin On, NEW r \in Config, Sane(r),
         cfg' = [cfg EXCEPT ![s] = r], Merge(s, r)
  PROVE  StateOK' /\ CfgOK' /\ Comes
<1>1. scn_state' = [scn_state EXCEPT ![s] = "ON"]
  BY DEF Merge
<1>2. StateOK'
  BY <1>1 DEF StateOK
<1>3. On' = On \cup {s}
  BY <1>1 DEF On, StateOK
<1>4. cfg'[s] = r /\ \A t \in Scenario : t # s => cfg'[t] = cfg[t]
  BY DEF CfgOK
<1>5. CfgOK'
  BY <1>4 DEF CfgOK
<1>6. \A t \in On : cfg'[t] = cfg[t]
  BY <1>4 DEF On
<1>7. Adds(r)
  BY <1>3, <1>4, <1>6, AskedAdd
<1> QED
  BY <1>2, <1>5, <1>7 DEF Merge, Comes

\* Withdraw is of the second; the slot may be freed with it.
LEMMA WithdrawGoes ==
  ASSUME StateOK, CfgOK, NEW s \in Scenario, NEW st \in {"OFF", "WAIT_RESTORE"},
         NEW q \in Config, Sane(q), cfg' = [cfg EXCEPT ![s] = q], Withdraw(s, cfg[s], st)
  PROVE  StateOK' /\ CfgOK' /\ Goes
<1>1. scn_state' = [scn_state EXCEPT ![s] = st]
  BY DEF Withdraw
<1>2. StateOK'
  BY <1>1 DEF StateOK
<1>3. On' = On \ {s}
  BY <1>1 DEF On, StateOK
<1>4. cfg'[s] = q /\ \A t \in Scenario : t # s => cfg'[t] = cfg[t]
  BY DEF CfgOK
<1>5. CfgOK'
  BY <1>4 DEF CfgOK
<1>6. \A t \in On' : cfg'[t] = cfg[t]
  BY <1>3, <1>4 DEF On
<1>7. cfg[s] \in Config /\ Sane(cfg[s])
  BY DEF CfgOK
<1>8. Drops(cfg[s])
  BY <1>3, <1>5, <1>6, <1>7, AskedDrop
<1> QED
  BY <1>2, <1>5, <1>7, <1>8 DEF Withdraw, Goes

\* A step that changes at most the request of one scenario, without an update.
LEMMA IdleRests ==
  ASSUME StateOK', On' = On, CfgOK, NEW s \in Scenario, NEW q \in Config, Sane(q), cfg' = [cfg EXCEPT ![s] = q],
         UNCHANGED <<cores, freqs, gpu, curVal>>, entry' = Switched,
         ~outdated' => ~outdated /\ (scn_state[s] # "ON" \/ q = cfg[s])
  PROVE  StateOK' /\ CfgOK' /\ Rests
<1>2. cfg'[s] = q /\ \A t \in Scenario : t # s => cfg'[t] = cfg[t]
  BY DEF CfgOK
<1>3. CfgOK'
  BY <1>2 DEF CfgOK
<1>4. ASSUME ~outdated' PROVE ~outdated /\ AsksSame
  <2>1. \A t \in On : cfg'[t] = cfg[t]
    BY <1>2, <1>4 DEF On
  <2> QED
    BY <1>4, <2>1, AskedSame
<1> QED
  BY <1>3, <1>4 DEF Rests

\* While the mode stays, so do the defaults.
LEMMA SameMode ==
  ASSUME UNCHANGED sports
  PROVE  nCurrPowerMode' = nCurrPowerMode /\ Switched = entry
  BY DEF nCurrPowerMode, Switched

\* The empty request is one, and asks for nothing wrong.
LEMMA ResetConfigType == ResetConfig \in Config /\ Sane(ResetConfig)
<1>1. \A k \in Knob : resetVal[k] \in Int32 /\ resetVal[k] \in Int
  BY PerfServiceAssumption, IntBounds DEF Int32
<1>2. /\ \A c \in Cluster : cpuNum[c] \in Nat
      /\ \A b \in Band : freqMax[b[1]] \in Nat /\ freqMax[b[1]] >= 1
  BY PerfServiceAssumption, ConstantsFit DEF Band
<1>3. ResetConfig \in Config
  <2>1. /\ [c \in Cluster |-> -1] \in [Cluster -> Int32] /\ [c \in Cluster |-> CORE_MAX] \in [Cluster -> Int32]
        /\ [b \in Band |-> -1] \in [Band -> Int32] /\ [b \in Band |-> FREQ_MAX] \in [Band -> Int32]
        /\ [k \in Knob |-> resetVal[k]] \in [Knob -> Int32]
    BY <1>1, ConstantsFit
  <2>2. "none" \in Oneshot
    BY DEF Oneshot
  <2> QED
    BY <2>1, <2>2, ConstantsFit DEF ResetConfig, Config
<1>4. /\ \A c \in Cluster : ResetConfig.core_min[c] = -1 /\ ResetConfig.core_max[c] = CORE_MAX
      /\ ResetConfig.core_total = 0
      /\ \A b \in Band : ResetConfig.freq_min[b] = -1 /\ ResetConfig.freq_max[b] = FREQ_MAX
      /\ ResetConfig.gpu_freq = -1 /\ ResetConfig.gpu_freq_max = -1
      /\ \A k \in Knob : ResetConfig.param[k] = resetVal[k]
  BY DEF ResetConfig
<1>5. \A c \in Cluster : /\ ResetConfig.core_min[c] \in -1 .. cpuNum[c]
                         /\ ResetConfig.core_min[c] <= ResetConfig.core_total /\ ResetConfig.core_max[c] >= 0
  BY <1>2, <1>4, ConstantsFit
<1>6. \A b \in Band : ResetConfig.freq_min[b] <= freqMax[b[1]]
  BY <1>2, <1>4
<1>7. ResetConfig.gpu_freq \in -1 .. nGpuHighestFreqLevel /\ ResetConfig.gpu_freq_max \in -1 .. nGpuHighestFreqLevel
  BY <1>4, ConstantsFit
<1>8. \A k \in Knob : IF k \in Less THEN ResetConfig.param[k] <= resetVal[k] ELSE ResetConfig.param[k] >= resetVal[k]
  BY <1>1, <1>4
<1>9. ResetConfig.core_total >= 0
  BY <1>4
<1>10. Sane(ResetConfig)
  BY <1>4, <1>5, <1>6, <1>7, <1>8, <1>9 DEF Sane
<1> QED
  BY <1>3, <1>10

\* The sports mode switches: a request comes, goes, or only the defaults change.
LEMMA SwitchKind ==
  ASSUME StateOK, CfgOK, SportsOK, NEW x \in Reason, NEW b \in BOOLEAN, NEW boost \in BOOLEAN,
         switchSportsMode(x, b, boost)
  PROVE  StateOK' /\ CfgOK' /\ SportsOK' /\ (Comes \/ Goes \/ Rests)
<1>1. SPORTS \in Scenario
  BY PerfServiceAssumption
<1>2. SportsOK'
  BY DEF switchSportsMode, SportsOK
<1>3. cfg' = [cfg EXCEPT ![SPORTS] = cfg[SPORTS]] /\ cfg[SPORTS] \in Config /\ Sane(cfg[SPORTS])
  BY <1>1 DEF switchSportsMode, CfgOK
<1> DEFINE on  == IF boost THEN b ELSE nCurrPowerMode'
           now == scn_state[SPORTS]
<1>4. CASE on /\ now # "ON" /\ Merge(SPORTS, cfg[SPORTS])
  <2>1. SPORTS \notin On
    BY <1>4 DEF On
  <2> QED
    BY <1>1, <1>2, <1>3, <1>4, <2>1, MergeComes
<1>5. CASE ~on /\ now # "OFF" /\ Withdraw(SPORTS, cfg[SPORTS], "OFF")
  BY <1>1, <1>2, <1>3, <1>5, WithdrawGoes
<1>6. CASE entry' = Switched /\ UNCHANGED <<scn_state, cores, freqs, gpu, curVal, applied, outdated, lost>>
  <2>1. StateOK' /\ On' = On
    BY <1>6 DEF StateOK, On
  <2> QED
    BY <1>1, <1>2, <1>3, <1>6, <2>1, IdleRests
<1>7. CASE /\ nCurrPowerMode' = nCurrPowerMode
           /\ UNCHANGED <<scn_state, cores, freqs, gpu, knobs, applied, outdated, lost>>
  <2>1. entry' = Switched /\ UNCHANGED <<cores, freqs, gpu, curVal, outdated>>
    BY <1>7 DEF Switched, knobs
  <2>2. StateOK' /\ On' = On
    BY <1>7 DEF StateOK, On
  <2> QED
    BY <1>1, <1>2, <1>3, <2>1, <2>2, IdleRests
<1> QED
  BY <1>4, <1>5, <1>6, <1>7 DEF switchSportsMode

\* Every step is of one of the four kinds.
LEMMA StepKind ==
  ASSUME StateOK, CfgOK, SportsOK, [Next]_vars
  PROVE  StateOK' /\ CfgOK' /\ SportsOK' /\ (Comes \/ Goes \/ Anew \/ Rests)
<1>1. \A r \in Requests \cup Configs : r \in Config /\ Sane(r)
  BY RequestsAssumption
<1>2. \A s \in User : s \in Scenario
  BY DEF User
<1>3. \A s \in Scenario : cfg[s] \in Config /\ Sane(cfg[s]) /\ cfg = [cfg EXCEPT ![s] = cfg[s]]
  BY DEF CfgOK
<1>4. ASSUME NEW s \in Scenario, perfScnEnable(s)
      PROVE  StateOK' /\ CfgOK' /\ SportsOK' /\ (Comes \/ Goes \/ Anew \/ Rests)
  <2>1. UNCHANGED sports /\ cfg' = [cfg EXCEPT ![s] = cfg[s]] /\ Merge(s, cfg[s]) /\ s \notin On
    BY <1>3, <1>4 DEF perfScnEnable, On
  <2> QED
    BY <1>3, <2>1, MergeComes DEF SportsOK
<1>5. ASSUME NEW s \in Scenario, perfScnDisable(s)
      PROVE  StateOK' /\ CfgOK' /\ SportsOK' /\ (Comes \/ Goes \/ Anew \/ Rests)
  <2>1. UNCHANGED sports /\ cfg' = [cfg EXCEPT ![s] = cfg[s]] /\ Withdraw(s, cfg[s], "OFF")
    BY <1>3, <1>5 DEF perfScnDisable
  <2> QED
    BY <1>3, <2>1, WithdrawGoes DEF SportsOK
<1>6. ASSUME NEW s \in Scenario, Suspend(s)
      PROVE  StateOK' /\ CfgOK' /\ SportsOK' /\ (Comes \/ Goes \/ Anew \/ Rests)
  <2>1. UNCHANGED sports /\ cfg' = [cfg EXCEPT ![s] = cfg[s]] /\ Withdraw(s, cfg[s], "WAIT_RESTORE")
    BY <1>3, <1>6 DEF Suspend
  <2> QED
    BY <1>3, <2>1, WithdrawGoes DEF SportsOK
<1>7. ASSUME NEW s \in User, Release(s)
      PROVE  StateOK' /\ CfgOK' /\ SportsOK' /\ (Comes \/ Goes \/ Anew \/ Rests)
  <2>1. s \in Scenario /\ UNCHANGED sports /\ cfg' = [cfg EXCEPT ![s] = ResetConfig]
    BY <1>2, <1>7 DEF Release, Remove
  <2>2. SportsOK'
    BY <2>1 DEF SportsOK
  <2>3. CASE /\ scn_state[s] = "OFF"
             /\ UNCHANGED <<scn_state, cores, freqs, gpu, knobs, applied, outdated, lost>>
    <3>1. entry' = Switched /\ UNCHANGED <<cores, freqs, gpu, curVal, outdated>> /\ scn_state[s] # "ON"
      BY <2>1, <2>3, SameMode DEF knobs
    <3>2. StateOK' /\ On' = On
      BY <2>3 DEF StateOK, On
    <3> QED
      BY <2>1, <2>2, <3>1, <3>2, ResetConfigType, IdleRests
  <2>4. CASE Withdraw(s, cfg[s], "OFF")
    BY <2>1, <2>2, <2>4, ResetConfigType, WithdrawGoes
  <2> QED
    BY <1>7, <2>3, <2>4 DEF Release
<1>8. ASSUME NEW s \in User, NEW r \in Requests, Acquire(s, r)
      PROVE  StateOK' /\ CfgOK' /\ SportsOK' /\ (Comes \/ Goes \/ Anew \/ Rests)
  <2>1. s \in Scenario /\ UNCHANGED sports /\ cfg' = [cfg EXCEPT ![s] = r] /\ Merge(s, r) /\ s \notin On
    BY <1>2, <1>8 DEF Acquire, On
  <2> QED
    BY <1>1, <2>1, MergeComes DEF SportsOK
<1>9. ASSUME NEW s \in User, NEW r \in Requests, Reacquire(s, r)
      PROVE  StateOK' /\ CfgOK' /\ SportsOK' /\ (Comes \/ Goes \/ Anew \/ Rests)
  <2>1. /\ s \in Scenario /\ UNCHANGED sports /\ UNCHANGED scn_state /\ cfg' = [cfg EXCEPT ![s] = r]
        /\ r \in Config /\ Sane(r)
    BY <1>1, <1>2, <1>9 DEF Reacquire
  <2>2. SportsOK'
    BY <2>1 DEF SportsOK
  <2>3. CASE ForceUpdate(s)
    <3>1. StateOK' /\ CfgOK' /\ cfg'[s] = r
      BY <2>1 DEF StateOK, CfgOK
    <3>2. Anew
      BY <2>1, <2>3, <3>1 DEF ForceUpdate, Anew
    <3> QED
      BY <2>2, <3>1, <3>2
  <2>4. CASE Quietly(s)
    <3>1. entry' = Switched /\ UNCHANGED <<cores, freqs, gpu, curVal>>
      BY <2>1, <2>4, SameMode DEF Quietly, knobs
    <3>2. ~outdated' => ~outdated /\ (scn_state[s] # "ON" \/ r = cfg[s])
      BY <2>1, <2>4 DEF Quietly, CfgOK
    <3>3. StateOK' /\ On' = On
      BY <2>1 DEF StateOK, On
    <3> QED
      BY <2>1, <2>2, <3>1, <3>2, <3>3, IdleRests
  <2> QED
    BY <1>9, <2>3, <2>4 DEF Reacquire
<1>10. ASSUME NEW s \in User, NEW r \in Configs, Configure(s, r)
       PROVE  StateOK' /\ CfgOK' /\ SportsOK' /\ (Comes \/ Goes \/ Anew \/ Rests)
  <2>1. /\ s \in Scenario /\ UNCHANGED sports /\ cfg' = [cfg EXCEPT ![s] = r] /\ r \in Config /\ Sane(r)
        /\ UNCHANGED scn_state /\ Quietly(s)
    BY <1>1, <1>2, <1>10 DEF Configure
  <2>2. entry' = Switched /\ UNCHANGED <<cores, freqs, gpu, curVal>>
    BY <2>1, SameMode DEF Quietly, knobs
  <2>3. ~outdated' => ~outdated /\ (scn_state[s] # "ON" \/ r = cfg[s])
    BY <2>1 DEF Quietly, CfgOK
  <2>4. StateOK' /\ On' = On
    BY <2>1 DEF StateOK, On
  <2> QED
    BY <2>1, <2>2, <2>3, <2>4, IdleRests DEF SportsOK
<1>14. ASSUME NEW s \in User, perfUserUnregScn(s)
       PROVE  StateOK' /\ CfgOK' /\ SportsOK' /\ (Comes \/ Goes \/ Anew \/ Rests)
  <2>1. /\ s \in Scenario /\ UNCHANGED sports /\ cfg' = [cfg EXCEPT ![s] = ResetConfig]
        /\ scn_state[s] # "ON" /\ scn_state' = [scn_state EXCEPT ![s] = "OFF"]
        /\ UNCHANGED <<cores, freqs, gpu, knobs, outdated>>
    BY <1>2, <1>14 DEF perfUserUnregScn, Remove
  <2>2. entry' = Switched /\ UNCHANGED <<cores, freqs, gpu, curVal>>
    BY <2>1, SameMode DEF knobs
  <2>3. StateOK' /\ On' = On
    BY <2>1 DEF StateOK, On
  <2> QED
    BY <2>1, <2>2, <2>3, ResetConfigType, IdleRests DEF SportsOK
<1>11. CASE UNCHANGED vars
  <2>1. SPORTS \in Scenario
    BY PerfServiceAssumption
  <2>2. UNCHANGED <<scn_state, cores, freqs, gpu, curVal, entry, sports, cfg, outdated>>
    BY <1>11 DEF vars, knobs
  <2>4. StateOK' /\ On' = On
    BY <2>2 DEF StateOK, On
  <2>3. entry' = Switched /\ cfg' = [cfg EXCEPT ![SPORTS] = cfg[SPORTS]]
    BY <1>3, <2>1, <2>2, SameMode
  <2> QED
    BY <1>3, <2>1, <2>2, <2>3, <2>4, IdleRests DEF SportsOK
<1>12. ASSUME NEW b \in BOOLEAN, NEW x \in Reason, NEW boost \in BOOLEAN, switchSportsMode(x, b, boost)
       PROVE  StateOK' /\ CfgOK' /\ SportsOK' /\ (Comes \/ Goes \/ Anew \/ Rests)
  BY <1>12, SwitchKind
<1>13. "SPORTS_USER_NOTIFY" \in Reason
  BY DEF Reason
<1> QED
  BY <1>4, <1>5, <1>6, <1>7, <1>8, <1>9, <1>10, <1>11, <1>12, <1>13, <1>14 DEF Next

-----------------------------------------------------------------------------
(* Types *)

CoresOK ==
  /\ scn_cores_now \in Nat
  /\ cpuMinNow \in [Cluster -> Nat]
  /\ cpuMaxNow \in [Cluster -> Nat \cup {PPM_IGNORE}]
FreqsOK == freqMinNow \in [Band -> 0 .. FREQ_MAX] /\ freqMaxNow \in [Band -> 0 .. FREQ_MAX]
GpuOK   == gpuNow \in 0 .. nGpuHighestFreqLevel /\ gpuMaxNow \in 0 .. nGpuHighestFreqLevel
KnobsOK == curVal \in [Knob -> Int] /\ entry \in [Knob -> Int]
ShotsOK ==
  /\ applied \in [Scenario -> SUBSET Oneshot]
  /\ lock_rsc_list \in [Scenario -> Requests \cup {ResetConfig}]
  /\ outdated \in BOOLEAN /\ lost \subseteq Scenario

TypeInv == StateOK /\ CfgOK /\ CoresOK /\ FreqsOK /\ GpuOK /\ KnobsOK /\ ShotsOK /\ SportsOK

\* What fine tuning gives: at least what the cluster gets, which is a positive
\* number of cores or PPM_IGNORE.
LEMMA FineTuneType ==
  ASSUME NEW total \in Int, NEW floor \in [Cluster -> Nat], NEW ceil \in [Cluster -> Nat \cup {PPM_IGNORE}]
  PROVE  /\ FineTune(total, floor, ceil) \in [Cluster -> Nat \cup {PPM_IGNORE}]
         /\ \A c \in Cluster :
              LET m == ActualMin(total, floor)[c] IN
              /\ m \in Int /\ (m = -1 \/ m > 0)
              /\ FineTune(total, floor, ceil)[c] = Larger(ceil[c], m)
<1>1. floor \in [Cluster -> Int]
  OBVIOUS
<1>2. PICK left \in [0 .. nClusterNum -> Int] :
        ActualMin(total, floor) = [c \in Cluster |-> CoreToSet(c, floor, left[c + 1])]
  BY <1>1, ActualMinIs
<1>3. \A c \in Cluster : c + 1 \in 0 .. nClusterNum
  BY PerfServiceAssumption DEF Cluster
<1>4. \A c \in Cluster : LET m == ActualMin(total, floor)[c] IN m \in Int /\ (m = -1 \/ m > 0)
  BY <1>1, <1>2, <1>3, CoreToSetType
<1>5. \A c \in Cluster : FineTune(total, floor, ceil)[c] = Larger(ceil[c], ActualMin(total, floor)[c])
  BY DEF FineTune
<1>6. \A c \in Cluster : Larger(ceil[c], ActualMin(total, floor)[c]) \in Nat \cup {PPM_IGNORE}
  BY <1>4 DEF Larger, PPM_IGNORE
<1>7. FineTune(total, floor, ceil) \in [Cluster -> Nat \cup {PPM_IGNORE}]
  BY <1>6 DEF FineTune
<1> QED
  BY <1>4, <1>5, <1>7

\* A cluster without a minimum gets none.
LEMMA MinimumOf ==
  ASSUME NEW total \in Int, NEW floor \in [Cluster -> Nat], NEW c \in Cluster, floor[c] = 0
  PROVE  ActualMin(total, floor)[c] = -1
<1>1. floor \in [Cluster -> Int]
  OBVIOUS
<1>2. PICK left \in [0 .. nClusterNum -> Int] :
        ActualMin(total, floor) = [d \in Cluster |-> CoreToSet(d, floor, left[d + 1])]
  BY <1>1, ActualMinIs
<1>3. c + 1 \in 0 .. nClusterNum
  BY PerfServiceAssumption DEF Cluster
<1>4. CoreToSet(c, floor, left[c + 1]) = -1
  BY <1>1, <1>3, CoreToSetType
<1> QED
  BY <1>2, <1>4

\* Of two clusters, the lower one gets its minimum if the upper one has none.
LEMMA LowerServed ==
  ASSUME NEW total \in Int, NEW floor \in [Cluster -> Nat], nClusterNum = 2,
         \A c \in Cluster : floor[c] <= cpuNum[c] /\ floor[c] <= total,
         ActualMin(total, floor)[0] = -1, ActualMin(total, floor)[1] = -1
  PROVE  floor[0] = 0
<1>1. floor \in [Cluster -> Int] /\ 0 \in Cluster /\ 1 \in Cluster
  BY DEF Cluster
<1>2. PICK left \in [0 .. nClusterNum -> Int] :
        /\ left[nClusterNum] = total
        /\ \A c \in Cluster : left[c] = LeftBelow(c, floor, left[c + 1])
        /\ ActualMin(total, floor) = [c \in Cluster |-> CoreToSet(c, floor, left[c + 1])]
  BY <1>1, ActualMinIs
<1>3. CoreToSet(0, floor, left[1]) = -1 /\ CoreToSet(1, floor, left[2]) = -1
  BY <1>1, <1>2
<1>4. left[1] = total
  BY <1>1, <1>2, <1>3 DEF LeftBelow, Larger
<1>5. floor[0] <= 0 \/ floor[0] > cpuNum[0] \/ total <= 0
  BY <1>1, <1>3, <1>4, CoreToSetType
<1>6. cpuNum[0] \in Nat /\ floor[0] \in Nat /\ floor[0] <= cpuNum[0] /\ floor[0] <= total
  BY <1>1, PerfServiceAssumption
<1> QED
  BY <1>5, <1>6

\* The fields of a sane request that the types depend on.
LEMMA SaneFields ==
  ASSUME NEW r \in Config, Sane(r)
  PROVE  /\ r.core_total \in Nat
         /\ \A c \in Cluster : r.core_min[c] \in Int /\ r.core_max[c] \in Nat /\ r.core_min[c] <= r.core_total
         /\ \A b \in Band : /\ r.freq_min[b] \in Int /\ r.freq_max[b] \in Int
                            /\ freqMax[b[1]] \in Nat /\ freqMax[b[1]] <= FREQ_MAX
                            /\ r.freq_min[b] <= freqMax[b[1]]
                            /\ r.freq_max[b] <= freqMax[b[1]] \/ r.freq_max[b] = FREQ_MAX
         /\ r.gpu_freq \in -1 .. nGpuHighestFreqLevel /\ r.gpu_freq_max \in -1 .. nGpuHighestFreqLevel
         /\ \A k \in Knob : r.param[k] \in Int /\ ~Stricter(k, resetVal[k], r.param[k])
<1>1. \A x \in Int32 : x \in Int
  BY IntBounds DEF Int32
<1>2. /\ r.core_total \in Int
      /\ \A c \in Cluster : r.core_min[c] \in Int /\ r.core_max[c] \in Int
      /\ \A b \in Band : r.freq_min[b] \in Int /\ r.freq_max[b] \in Int
      /\ \A k \in Knob : r.param[k] \in Int
  BY <1>1, FieldsFit
<1>3. \A b \in Band : freqMax[b[1]] \in Nat /\ freqMax[b[1]] <= FREQ_MAX
  BY PerfServiceAssumption, ConstantsFit DEF Band
<1>4. \A k \in Knob : resetVal[k] \in Int
  BY <1>1, PerfServiceAssumption
<1> QED
  BY <1>2, <1>3, <1>4 DEF Sane, Stricter

\* Enabling merges the request's floors and ceilings into the current ones.
LEMMA EnableCoresType ==
  ASSUME CoresOK, NEW r \in Config, Sane(r), EnableCores(r)
  PROVE  CoresOK'
<1>1. scn_cores_now' \in Nat
  BY SaneFields DEF EnableCores, CoresOK, Larger
<1>2. cpuMinNow' \in [Cluster -> Nat]
  <2>1. \A c \in Cluster : Larger(cpuMinNow[c], r.core_min[c]) \in Nat
    BY SaneFields DEF CoresOK, Larger
  <2> QED
    BY <2>1 DEF EnableCores
<1> DEFINE ceil == [c \in Cluster |-> IF cpuMaxNow[c] = PPM_IGNORE THEN r.core_max[c]
                                      ELSE Smaller(cpuMaxNow[c], r.core_max[c])]
           F == FineTune(scn_cores_now', cpuMinNow', ceil)
<1>3. ceil \in [Cluster -> Nat \cup {PPM_IGNORE}]
  BY SaneFields DEF CoresOK, Smaller
<1>4. cpuMaxNow' = KeepOneCluster(F)
  BY DEF EnableCores
<1> HIDE DEF ceil
<1>5. F \in [Cluster -> Nat \cup {PPM_IGNORE}]
  BY <1>1, <1>2, <1>3, FineTuneType
<1> HIDE DEF F
<1>6. cpuMaxNow' \in [Cluster -> Nat \cup {PPM_IGNORE}]
  BY <1>4, <1>5 DEF KeepOneCluster
<1> QED
  BY <1>1, <1>2, <1>6 DEF CoresOK

\* Updating computes them from the table where it thinks they may have changed.
LEMMA UpdateCoresType ==
  ASSUME CoresOK, AskedOK', NEW r, NEW force, UpdateCores(r, force)
  PROVE  CoresOK'
<1>1. scn_cores_now' \in Nat
  BY DEF UpdateCores, CoresOK, AskedOK
<1>2. cpuMinNow' \in [Cluster -> Nat]
  <2>1. \A c \in Cluster : cpuMinNow[c] \in Nat /\ AskedCoreMin(c)' \in Nat
    <3>1. \A c \in Cluster : AskedCoreMin(c)' \in 0 .. cpuNum[c] /\ cpuNum[c] \in Nat
      BY PerfServiceAssumption DEF AskedOK
    <3> QED
      BY <3>1 DEF CoresOK
  <2> QED
    BY <2>1 DEF UpdateCores
<1> DEFINE ceil == [c \in Cluster |->
                      IF force \/ cpuMaxNow[c] >= r.core_max[c] \/ cpuMaxNow[c] = cpuMinNow[c]
                        THEN AskedCoreMax(c)' ELSE cpuMaxNow[c]]
<1>3. ceil \in [Cluster -> Nat \cup {PPM_IGNORE}]
  <2>1. \A c \in Cluster : cpuMaxNow[c] \in Nat \cup {PPM_IGNORE} /\ AskedCoreMax(c)' \in Nat
    BY DEF CoresOK, AskedOK
  <2> QED
    BY <2>1
<1>4. cpuMaxNow' = FineTune(scn_cores_now', cpuMinNow', ceil)
  BY DEF UpdateCores
<1> HIDE DEF ceil
<1>5. cpuMaxNow' \in [Cluster -> Nat \cup {PPM_IGNORE}]
  <2>1. scn_cores_now' \in Int
    BY <1>1
  <2>2. FineTune(scn_cores_now', cpuMinNow', ceil) \in [Cluster -> Nat \cup {PPM_IGNORE}]
    BY <1>2, <1>3, <2>1, FineTuneType
  <2> QED
    BY <1>4, <2>2
<1> QED
  BY <1>1, <1>2, <1>5 DEF CoresOK

\* Every kind of step keeps the types of the settings.
LEMMA SettingsType ==
  ASSUME CoresOK, FreqsOK, GpuOK, KnobsOK, CfgOK', SportsOK, SportsOK', Comes \/ Goes \/ Anew \/ Rests
  PROVE  CoresOK' /\ FreqsOK' /\ GpuOK' /\ KnobsOK'
<1>1. AskedOK'
  BY AskedTypeNext
<1>2. /\ \A b \in Band : /\ freqMinNow[b] \in 0 .. FREQ_MAX /\ freqMaxNow[b] \in 0 .. FREQ_MAX
                         /\ freqMax[b[1]] \in Nat /\ freqMax[b[1]] <= FREQ_MAX
                         /\ AskedFreqMin(b)' \in 0 .. freqMax[b[1]] /\ AskedFreqMax(b)' \in Int
                         /\ AskedFreqMax(b)' <= FREQ_MAX
      /\ FREQ_MAX \in Nat
  <2>1. \A b \in Band : freqMax[b[1]] \in Nat /\ freqMax[b[1]] <= FREQ_MAX
    BY PerfServiceAssumption, ConstantsFit DEF Band
  <2>2. \A b \in Band : /\ AskedFreqMin(b)' \in 0 .. freqMax[b[1]] /\ AskedFreqMax(b)' \in Int
                        /\ AskedFreqMax(b)' <= FREQ_MAX
    BY <1>1, <2>1, ConstantsFit DEF AskedOK
  <2> QED
    BY <2>1, <2>2, ConstantsFit DEF FreqsOK
<1>3. /\ \A k \in Knob : /\ curVal[k] \in Int /\ entry[k] \in Int /\ AskedKnob(k)' \in Int
                         /\ resetVal[k] \in Int /\ defaultVal[k] \in Int /\ defaultVal'[k] \in Int
  <2>1. \A k \in Knob : resetVal[k] \in Int /\ normalVal[k] \in Int /\ sportVal[k] \in Int
    BY PerfServiceAssumption, IntBounds DEF Int32
  <2>2. \A k \in Knob : defaultVal[k] \in Int /\ defaultVal'[k] \in Int
    BY <2>1 DEF defaultVal
  <2>3. \A k \in Knob : curVal[k] \in Int /\ entry[k] \in Int /\ AskedKnob(k)' \in Int
    BY <1>1 DEF KnobsOK, AskedOK
  <2> QED
    BY <2>1, <2>2, <2>3
<1>4. \A k \in Knob : Switched[k] \in Int
  BY <1>3 DEF Switched
<1>5. CASE Comes
  <2>1. PICK r \in Config : /\ Sane(r)
                            /\ EnableCores(r) /\ EnableFreqs(r) /\ EnableGpu(r) /\ EnableKnobs(r)
    BY <1>5 DEF Comes
  <2>2. CoresOK'
    BY <2>1, EnableCoresType
  <2>3. freqMinNow' \in [Band -> 0 .. FREQ_MAX]
    <3>1. \A b \in Band : Larger(freqMinNow[b], r.freq_min[b]) \in 0 .. FREQ_MAX
      BY <1>2, <2>1, SaneFields DEF Larger
    <3> QED
      BY <2>1, <3>1 DEF EnableFreqs
  <2>4. freqMaxNow' \in [Band -> 0 .. FREQ_MAX]
    <3>1. \A b \in Band : Larger(freqMinNow'[b], Smaller(freqMaxNow[b], r.freq_max[b])) \in 0 .. FREQ_MAX
      BY <1>2, <2>1, <2>3, SaneFields DEF Larger, Smaller
    <3> QED
      BY <2>1, <3>1 DEF EnableFreqs
  <2>5. GpuOK'
    BY <2>1, SaneFields, ConstantsFit DEF EnableGpu, GpuOK, Smaller, Larger, gpu
  <2>6. KnobsOK'
    BY <1>3, <1>4, <2>1, SaneFields DEF EnableKnobs, KnobsOK
  <2> QED
    BY <2>2, <2>3, <2>4, <2>5, <2>6 DEF FreqsOK
<1>6. ASSUME NEW r, NEW force \in BOOLEAN,
             UpdateCores(r, force), UpdateFreqs(r, force), UpdateGpu(r, force), UpdateKnobs(r, force)
      PROVE  CoresOK' /\ FreqsOK' /\ GpuOK' /\ KnobsOK'
  <2>1. CoresOK'
    BY <1>1, <1>6, UpdateCoresType
  <2>2. freqMinNow' \in [Band -> 0 .. FREQ_MAX]
    <3>1. \A b \in Band : AskedFreqMin(b)' \in 0 .. FREQ_MAX
      BY <1>2
    <3> QED
      BY <1>2, <1>6, <3>1 DEF UpdateFreqs
  <2>3. freqMaxNow' \in [Band -> 0 .. FREQ_MAX]
    <3>1. \A b \in Band : Larger(freqMinNow'[b], AskedFreqMax(b)') \in 0 .. FREQ_MAX
      BY <1>2, <2>2 DEF Larger
    <3> QED
      BY <1>2, <1>6, <3>1 DEF UpdateFreqs
  <2>4. GpuOK'
    BY <1>1, <1>6, ConstantsFit DEF UpdateGpu, AskedOK, GpuOK, Smaller, gpu
  <2>5. curVal' \in [Knob -> Int]
    BY <1>3, <1>6 DEF UpdateKnobs
  <2>6. entry' \in [Knob -> Int]
    <3>1. \A k \in Knob : Written(k, curVal[k])' \in Int
      BY <1>3, <2>5 DEF Written
    <3> QED
      BY <1>4, <1>6, <3>1 DEF UpdateKnobs
  <2> QED
    BY <2>1, <2>2, <2>3, <2>4, <2>5, <2>6 DEF FreqsOK, KnobsOK
<1>7. CASE Rests
  <2>1. UNCHANGED <<scn_cores_now, cpuMinNow, cpuMaxNow, freqMinNow, freqMaxNow, gpuNow, gpuMaxNow, curVal>>
    BY <1>7 DEF Rests, cores, freqs, gpu
  <2>2. entry' \in [Knob -> Int]
    BY <1>3, <1>7 DEF Rests, Switched, KnobsOK
  <2> QED
    BY <2>1, <2>2 DEF CoresOK, FreqsOK, GpuOK, KnobsOK
<1>8. CASE Goes
  BY <1>6, <1>8 DEF Goes
<1>9. CASE Anew
  BY <1>6, <1>9 DEF Anew
<1> QED
  BY <1>5, <1>7, <1>8, <1>9

-----------------------------------------------------------------------------
(* One-shot resources *)

\* What is set for each scenario.  The list last acquired with and the request have
\* the same one-shot value, since configuring leaves that alone.
ShotInv ==
  /\ \A s \in Scenario :
       /\ scn_state[s] = "ON" => Shot(cfg[s].oneshot) \subseteq applied[s]
       /\ s \notin lost => applied[s] \subseteq Shot(cfg[s].oneshot)
       /\ s \notin lost /\ scn_state[s] = "OFF" => applied[s] = {}
  /\ \A s \in User : lock_rsc_list[s].oneshot = cfg[s].oneshot

\* What a step that changes scenario s only has to establish.
ShotAt(s) ==
  /\ applied[s] \subseteq Oneshot
  /\ scn_state[s] = "ON" => Shot(cfg[s].oneshot) \subseteq applied[s]
  /\ s \notin lost => applied[s] \subseteq Shot(cfg[s].oneshot)
  /\ s \notin lost /\ scn_state[s] = "OFF" => applied[s] = {}
  /\ s \in User => lock_rsc_list[s].oneshot = cfg[s].oneshot

\* It disturbs no other scenario.
LEMMA OneAtATime ==
  ASSUME CfgOK, ShotsOK, ShotInv, NEW s \in Scenario, NEW q, NEW st, NEW a, NEW l \in Requests \cup {ResetConfig},
         scn_state \in [Scenario -> {"ON", "OFF", "WAIT_RESTORE"}],
         cfg' = [cfg EXCEPT ![s] = q], scn_state' = [scn_state EXCEPT ![s] = st],
         applied' = [applied EXCEPT ![s] = a], lock_rsc_list' = [lock_rsc_list EXCEPT ![s] = l],
         lost' \in {lost, lost \cup {s}}, outdated' \in BOOLEAN, ShotAt(s)'
  PROVE  ShotsOK' /\ ShotInv'
<1>1. \A t \in Scenario : t # s => /\ scn_state'[t] = scn_state[t] /\ cfg'[t] = cfg[t]
                                   /\ applied'[t] = applied[t] /\ lock_rsc_list'[t] = lock_rsc_list[t]
                                   /\ t \notin lost' => t \notin lost
  BY DEF CfgOK, ShotsOK
<1>2. applied'[s] = a
  BY DEF ShotsOK
<1>3. a \in SUBSET Oneshot
  BY <1>2 DEF ShotAt
<1>4. ShotsOK'
  BY <1>3 DEF ShotsOK
<1>5. \A t \in User : t \in Scenario
  BY DEF User
<1>6. ASSUME NEW t \in Scenario
      PROVE  /\ scn_state'[t] = "ON" => Shot(cfg'[t].oneshot) \subseteq applied'[t]
             /\ t \notin lost' => applied'[t] \subseteq Shot(cfg'[t].oneshot)
             /\ t \notin lost' /\ scn_state'[t] = "OFF" => applied'[t] = {}
             /\ t \in User => lock_rsc_list'[t].oneshot = cfg'[t].oneshot
  <2>1. CASE t = s
    BY <2>1 DEF ShotAt
  <2>2. CASE t # s
    BY <1>1, <1>6, <2>2 DEF ShotInv
  <2> QED
    BY <2>1, <2>2
<1> QED
  BY <1>4, <1>5, <1>6 DEF ShotInv

\* Values of requests are values.
LEMMA ShotType ==
  ASSUME NEW r \in Config
  PROVE  Shot(r.oneshot) \subseteq Oneshot
  BY FieldsFit DEF Shot

\* perfScnEnable sets the value, if there is one.
LEMMA MergeShots ==
  ASSUME StateOK, CfgOK, ShotsOK, ShotInv, NEW s \in Scenario, NEW r \in Config,
         scn_state[s] = "OFF" \/ (scn_state[s] # "ON" /\ r = cfg[s]),
         NEW l \in Requests \cup {ResetConfig}, lock_rsc_list' = [lock_rsc_list EXCEPT ![s] = l],
         s \in User => l.oneshot = r.oneshot,
         cfg' = [cfg EXCEPT ![s] = r], Merge(s, r)
  PROVE  ShotsOK' /\ ShotInv'
<1> DEFINE a == applied[s] \cup Shot(r.oneshot)
<1>1. /\ scn_state' = [scn_state EXCEPT ![s] = "ON"]
      /\ applied' = [applied EXCEPT ![s] = a]
      /\ UNCHANGED <<outdated, lost>>
  BY DEF Merge, EnableOneshot
<1>2. scn_state'[s] = "ON" /\ cfg'[s] = r /\ applied'[s] = a /\ lock_rsc_list'[s] = l
  BY <1>1 DEF StateOK, CfgOK, ShotsOK
<1>3. applied[s] \subseteq Oneshot /\ (s \notin lost => applied[s] \subseteq Shot(r.oneshot))
  BY DEF ShotInv, StateOK, ShotsOK
<1>4. a \subseteq Oneshot /\ Shot(r.oneshot) \subseteq a /\ (s \notin lost => a \subseteq Shot(r.oneshot))
  BY <1>3, ShotType
<1> HIDE DEF a
<1>5. ShotAt(s)'
  BY <1>1, <1>2, <1>4 DEF ShotAt
<1>6. outdated' \in BOOLEAN /\ lost' \in {lost, lost \cup {s}}
  BY <1>1 DEF ShotsOK
<1> QED
  BY <1>1, <1>5, <1>6, OneAtATime DEF StateOK

\* perfScnDisable unsets it.
LEMMA WithdrawShots ==
  ASSUME StateOK, CfgOK, ShotsOK, ShotInv, NEW s \in Scenario, scn_state[s] # "OFF",
         NEW st \in {"OFF", "WAIT_RESTORE"}, NEW q \in Config,
         NEW l \in Requests \cup {ResetConfig}, lock_rsc_list' = [lock_rsc_list EXCEPT ![s] = l],
         s \in User => l.oneshot = q.oneshot,
         cfg' = [cfg EXCEPT ![s] = q], Withdraw(s, cfg[s], st)
  PROVE  ShotsOK' /\ ShotInv'
<1> DEFINE a == applied[s] \ Shot(cfg[s].oneshot)
<1>1. /\ scn_state' = [scn_state EXCEPT ![s] = st]
      /\ applied' = [applied EXCEPT ![s] = a]
      /\ UNCHANGED <<outdated, lost>>
  BY DEF Withdraw, DisableOneshot
<1>2. scn_state'[s] = st /\ cfg'[s] = q /\ applied'[s] = a /\ lock_rsc_list'[s] = l
  BY <1>1 DEF StateOK, CfgOK, ShotsOK
<1>3. applied[s] \subseteq Oneshot /\ (s \notin lost => applied[s] \subseteq Shot(cfg[s].oneshot))
  BY DEF ShotInv, ShotsOK
<1>4. a \subseteq Oneshot /\ (s \notin lost => a = {})
  BY <1>3
<1> HIDE DEF a
<1>5. ShotAt(s)'
  BY <1>1, <1>2, <1>4 DEF ShotAt
<1>6. outdated' \in BOOLEAN /\ lost' \in {lost, lost \cup {s}}
  BY <1>1 DEF ShotsOK
<1> QED
  BY <1>1, <1>5, <1>6, OneAtATime DEF StateOK

\* A step that sets and unsets nothing.
LEMMA IdleShots ==
  ASSUME StateOK, CfgOK, ShotsOK, ShotInv, NEW s \in Scenario, NEW q \in Config, cfg' = [cfg EXCEPT ![s] = q],
         UNCHANGED <<scn_state, applied, lost>>, scn_state[s] = "OFF" \/ q.oneshot = cfg[s].oneshot,
         NEW l \in Requests \cup {ResetConfig}, lock_rsc_list' = [lock_rsc_list EXCEPT ![s] = l],
         s \in User => l.oneshot = q.oneshot, outdated' \in BOOLEAN
  PROVE  ShotsOK' /\ ShotInv'
<1>1. cfg'[s] = q /\ lock_rsc_list'[s] = l
  BY DEF CfgOK, ShotsOK
<1>2. ShotAt(s)'
  BY <1>1 DEF ShotAt, ShotsOK, ShotInv
<1>3. /\ scn_state' = [scn_state EXCEPT ![s] = scn_state[s]]
      /\ applied' = [applied EXCEPT ![s] = applied[s]]
  BY DEF StateOK, ShotsOK
<1> QED
  BY <1>2, <1>3, OneAtATime DEF StateOK

\* A request that replaces another unsets the old value and sets the new one.
LEMMA ForceShots ==
  ASSUME StateOK, CfgOK, ShotsOK, ShotInv, NEW s \in Scenario, NEW r \in Requests, r \in Config,
         cfg' = [cfg EXCEPT ![s] = r], lock_rsc_list' = [lock_rsc_list EXCEPT ![s] = r],
         UNCHANGED <<scn_state, lost>>, scn_state[s] # "OFF", ForceUpdate(s)
  PROVE  ShotsOK' /\ ShotInv'
<1> DEFINE old == cfg[s].oneshot
           new == r.oneshot
           a   == IF new = old THEN applied[s] ELSE (applied[s] \ Shot(old)) \cup Shot(new)
<1>1. cfg'[s] = r /\ lock_rsc_list'[s] = r
  BY DEF CfgOK, ShotsOK
<1>2. applied' = [applied EXCEPT ![s] = a] /\ outdated' = FALSE
  BY <1>1 DEF ForceUpdate, ForceOneshot
<1>3. applied'[s] = a
  BY <1>2 DEF ShotsOK
<1>4. /\ applied[s] \subseteq Oneshot /\ Shot(new) \subseteq Oneshot
      /\ scn_state[s] = "ON" => Shot(old) \subseteq applied[s]
      /\ s \notin lost => applied[s] \subseteq Shot(old)
  BY ShotType DEF ShotInv, ShotsOK
<1>5. /\ a \subseteq Oneshot /\ (scn_state[s] = "ON" => Shot(new) \subseteq a)
      /\ s \notin lost => a \subseteq Shot(new)
  <2>1. CASE new = old
    BY <1>4, <2>1
  <2>2. CASE new # old
    <3> HIDE DEF new, old
    <3> QED
      BY <1>4, <2>2
  <2> QED
    BY <2>1, <2>2
<1> HIDE DEF a
<1>6. ShotAt(s)'
  BY <1>1, <1>3, <1>5 DEF ShotAt
<1>7. scn_state' = [scn_state EXCEPT ![s] = scn_state[s]]
  BY DEF StateOK
<1> QED
  BY <1>2, <1>6, <1>7, OneAtATime DEF StateOK

\* Every step keeps the balance.
LEMMA NextShots ==
  ASSUME StateOK, CfgOK, ShotsOK, ShotInv, [Next]_vars
  PROVE  ShotsOK' /\ ShotInv'
<1>1. \A r \in Requests \cup Configs : r \in Config
  BY RequestsAssumption
<1>2. \A s \in User : s \in Scenario /\ lock_rsc_list[s].oneshot = cfg[s].oneshot
  BY DEF User, ShotInv
<1>3. \A s \in Scenario : /\ cfg[s] \in Config /\ cfg = [cfg EXCEPT ![s] = cfg[s]]
                          /\ lock_rsc_list[s] \in Requests \cup {ResetConfig}
                          /\ lock_rsc_list = [lock_rsc_list EXCEPT ![s] = lock_rsc_list[s]]
  BY DEF CfgOK, ShotsOK
<1>4. ASSUME NEW s \in Scenario, perfScnEnable(s) PROVE ShotsOK' /\ ShotInv'
  <2>1. /\ cfg' = [cfg EXCEPT ![s] = cfg[s]] /\ Merge(s, cfg[s]) /\ scn_state[s] # "ON"
        /\ lock_rsc_list' = [lock_rsc_list EXCEPT ![s] = lock_rsc_list[s]]
    BY <1>3, <1>4 DEF perfScnEnable
  <2> QED
    BY <1>2, <1>3, <2>1, MergeShots
<1>5. ASSUME NEW s \in Scenario, perfScnDisable(s) PROVE ShotsOK' /\ ShotInv'
  <2>1. /\ cfg' = [cfg EXCEPT ![s] = cfg[s]] /\ Withdraw(s, cfg[s], "OFF") /\ scn_state[s] # "OFF"
        /\ lock_rsc_list' = [lock_rsc_list EXCEPT ![s] = lock_rsc_list[s]]
    BY <1>3, <1>5 DEF perfScnDisable
  <2> QED
    BY <1>2, <1>3, <2>1, WithdrawShots
<1>6. ASSUME NEW s \in Scenario, Suspend(s) PROVE ShotsOK' /\ ShotInv'
  <2>1. /\ cfg' = [cfg EXCEPT ![s] = cfg[s]] /\ Withdraw(s, cfg[s], "WAIT_RESTORE") /\ scn_state[s] # "OFF"
        /\ lock_rsc_list' = [lock_rsc_list EXCEPT ![s] = lock_rsc_list[s]]
    BY <1>3, <1>6 DEF Suspend
  <2> QED
    BY <1>2, <1>3, <2>1, WithdrawShots
<1>7. ASSUME NEW s \in User, Release(s) PROVE ShotsOK' /\ ShotInv'
  <2>1. /\ s \in Scenario /\ cfg' = [cfg EXCEPT ![s] = ResetConfig]
        /\ lock_rsc_list' = [lock_rsc_list EXCEPT ![s] = ResetConfig]
    BY <1>2, <1>7 DEF Release, Remove
  <2>2. CASE scn_state[s] = "OFF"
    <3>1. UNCHANGED <<scn_state, applied, outdated, lost>>
      BY <1>7, <2>2 DEF Release
    <3>2. outdated' \in BOOLEAN
      BY <3>1 DEF ShotsOK
    <3> QED
      BY <2>1, <2>2, <3>1, <3>2, ResetConfigType, IdleShots
  <2>3. CASE scn_state[s] # "OFF"
    <3>1. Withdraw(s, cfg[s], "OFF")
      BY <1>7, <2>3 DEF Release
    <3> QED
      BY <2>1, <2>3, <3>1, ResetConfigType, WithdrawShots
  <2> QED
    BY <2>2, <2>3
<1>8. ASSUME NEW s \in User, NEW r \in Requests, Acquire(s, r) PROVE ShotsOK' /\ ShotInv'
  <2>1. /\ s \in Scenario /\ cfg' = [cfg EXCEPT ![s] = r] /\ Merge(s, r) /\ scn_state[s] = "OFF"
        /\ lock_rsc_list' = [lock_rsc_list EXCEPT ![s] = r]
    BY <1>2, <1>8 DEF Acquire
  <2>2. r \in Config /\ (scn_state[s] = "OFF" \/ (scn_state[s] # "ON" /\ r = cfg[s]))
    BY <1>1, <2>1
  <2> QED
    BY <2>1, <2>2, MergeShots
<1>9. ASSUME NEW s \in User, NEW r \in Requests, Reacquire(s, r) PROVE ShotsOK' /\ ShotInv'
  <2>1. /\ s \in Scenario /\ UNCHANGED <<scn_state, lost>> /\ cfg' = [cfg EXCEPT ![s] = r] /\ r \in Config
        /\ lock_rsc_list' = [lock_rsc_list EXCEPT ![s] = r]
    BY <1>1, <1>2, <1>9 DEF Reacquire
  <2>2. CASE scn_state[s] # "OFF" /\ ForceUpdate(s)
    BY <2>1, <2>2, ForceShots
  <2>3. CASE (scn_state[s] = "OFF" \/ r = lock_rsc_list[s]) /\ Quietly(s)
    <3>1. UNCHANGED <<scn_state, applied, lost>> /\ (scn_state[s] = "OFF" \/ r.oneshot = cfg[s].oneshot)
      BY <1>2, <2>1, <2>3 DEF Quietly
    <3>2. outdated' \in BOOLEAN
      BY <2>3 DEF Quietly, ShotsOK
    <3> QED
      BY <2>1, <3>1, <3>2, IdleShots
  <2> QED
    BY <1>9, <2>2, <2>3 DEF Reacquire
<1>10. ASSUME NEW s \in User, NEW r \in Configs, Configure(s, r) PROVE ShotsOK' /\ ShotInv'
  <2>1. /\ s \in Scenario /\ cfg' = [cfg EXCEPT ![s] = r] /\ r \in Config
        /\ UNCHANGED <<scn_state, applied, lost>> /\ r.oneshot = cfg[s].oneshot
        /\ lock_rsc_list' = [lock_rsc_list EXCEPT ![s] = lock_rsc_list[s]]
        /\ lock_rsc_list[s].oneshot = r.oneshot
    BY <1>1, <1>2, <1>3, <1>10 DEF Configure, Quietly
  <2>2. outdated' \in BOOLEAN
    BY <1>10 DEF Configure, Quietly, ShotsOK
  <2> QED
    BY <1>3, <2>1, <2>2, IdleShots
<1>14. ASSUME NEW s \in User, perfUserUnregScn(s) PROVE ShotsOK' /\ ShotInv'
  <2>1. /\ s \in Scenario /\ cfg' = [cfg EXCEPT ![s] = ResetConfig]
        /\ lock_rsc_list' = [lock_rsc_list EXCEPT ![s] = ResetConfig]
        /\ scn_state' = [scn_state EXCEPT ![s] = "OFF"]
        /\ lost' = IF applied[s] = {} THEN lost ELSE lost \cup {s}
        /\ UNCHANGED <<applied, outdated>>
    BY <1>2, <1>14 DEF perfUserUnregScn, Remove
  <2>2. /\ applied' = [applied EXCEPT ![s] = applied[s]] /\ applied[s] \subseteq Oneshot
        /\ lost' \in {lost, lost \cup {s}} /\ outdated' \in BOOLEAN
    BY <2>1 DEF ShotsOK
  <2>3. scn_state'[s] = "OFF" /\ cfg'[s] = ResetConfig /\ lock_rsc_list'[s] = ResetConfig
    BY <2>1 DEF StateOK, CfgOK, ShotsOK
  <2>4. ShotAt(s)'
    BY <2>1, <2>2, <2>3 DEF ShotAt
  <2> QED
    BY <2>1, <2>2, <2>4, OneAtATime DEF StateOK
<1>11. CASE UNCHANGED vars
  BY <1>11 DEF vars, ShotsOK, ShotInv
<1>12. ASSUME NEW b \in BOOLEAN, NEW x \in Reason, NEW boost \in BOOLEAN, switchSportsMode(x, b, boost)
       PROVE  ShotsOK' /\ ShotInv'
  <2>1. /\ SPORTS \in Scenario /\ cfg' = [cfg EXCEPT ![SPORTS] = cfg[SPORTS]] /\ cfg[SPORTS] \in Config
        /\ lock_rsc_list' = [lock_rsc_list EXCEPT ![SPORTS] = lock_rsc_list[SPORTS]]
        /\ lock_rsc_list[SPORTS] \in Requests \cup {ResetConfig} /\ SPORTS \notin User
    BY <1>3, <1>12, PerfServiceAssumption DEF switchSportsMode, User
  <2>2. CASE scn_state[SPORTS] # "ON" /\ Merge(SPORTS, cfg[SPORTS])
    BY <2>1, <2>2, MergeShots
  <2>3. CASE scn_state[SPORTS] # "OFF" /\ Withdraw(SPORTS, cfg[SPORTS], "OFF")
    BY <2>1, <2>3, WithdrawShots
  <2>4. CASE UNCHANGED <<scn_state, applied, outdated, lost>>
    <3>1. outdated' \in BOOLEAN
      BY <2>4 DEF ShotsOK
    <3> QED
      BY <2>1, <2>4, <3>1, IdleShots
  <2> QED
    BY <1>12, <2>2, <2>3, <2>4 DEF switchSportsMode
<1>13. "SPORTS_USER_NOTIFY" \in Reason
  BY DEF Reason
<1> QED
  BY <1>4, <1>5, <1>6, <1>7, <1>8, <1>9, <1>10, <1>11, <1>12, <1>13, <1>14 DEF Next

-----------------------------------------------------------------------------
(* The initial state *)

\* Nobody is on, so nothing is asked for.
LEMMA InitAsked ==
  ASSUME Init
  PROVE  /\ AskedTotal = 0 /\ AskedGpu = nGpuHighestFreqLevel /\ AskedGpuMax = 0
         /\ \A c \in Cluster : AskedCoreMin(c) = 0 /\ AskedCoreMax(c) = CORE_MAX
         /\ \A b \in Band : AskedFreqMin(b) = 0 /\ AskedFreqMax(b) = FREQ_MAX
         /\ \A k \in Knob : AskedKnob(k) = resetVal[k]
<1>1. On = {}
  BY DEF Init, On
<1>2. \A x \in Int32 : Max({x}) = x /\ Min({x}) = x
  <2> SUFFICES ASSUME NEW x \in Int32 PROVE Max({x}) = x /\ Min({x}) = x
    OBVIOUS
  <2>1. {x} \subseteq Int32 /\ {x} # {}
    OBVIOUS
  <2>2. Max({x}) \in {x} /\ Min({x}) \in {x}
    BY <2>1, Extrema
  <2> QED
    BY <2>2
<1>3. \A k \in Knob : resetVal[k] \in Int32
  BY PerfServiceAssumption
<1>4. AskedTotal = 0
  <2>1. AskedTotal = Max({0})
    BY <1>1 DEF AskedTotal
  <2> QED
    BY <1>2, <2>1, ConstantsFit
<1>5. AskedGpu = nGpuHighestFreqLevel
  <2>1. AskedGpu = Min({nGpuHighestFreqLevel})
    BY <1>1 DEF AskedGpu
  <2> QED
    BY <1>2, <2>1, ConstantsFit
<1>6. AskedGpuMax = 0
  <2>1. AskedGpuMax = Max({0})
    BY <1>1 DEF AskedGpuMax
  <2> QED
    BY <1>2, <2>1, ConstantsFit
<1>7. ASSUME NEW c \in Cluster PROVE AskedCoreMin(c) = 0 /\ AskedCoreMax(c) = CORE_MAX
  <2>1. AskedCoreMin(c) = Max({0}) /\ AskedCoreMax(c) = Min({CORE_MAX})
    BY <1>1 DEF AskedCoreMin, AskedCoreMax
  <2> QED
    BY <1>2, <2>1, ConstantsFit
<1>8. ASSUME NEW b \in Band PROVE AskedFreqMin(b) = 0 /\ AskedFreqMax(b) = FREQ_MAX
  <2>1. AskedFreqMin(b) = Max({0}) /\ AskedFreqMax(b) = Min({FREQ_MAX})
    BY <1>1 DEF AskedFreqMin, AskedFreqMax
  <2> QED
    BY <1>2, <2>1, ConstantsFit
<1>9. ASSUME NEW k \in Knob PROVE AskedKnob(k) = resetVal[k]
  <2>1. AskedKnob(k) = IF k \in Less THEN Min({resetVal[k]}) ELSE Max({resetVal[k]})
    BY <1>1 DEF AskedKnob
  <2> QED
    BY <1>2, <1>3, <2>1
<1> QED
  BY <1>4, <1>5, <1>6, <1>7, <1>8, <1>9

\* The table and the settings start with their types.
LEMMA InitType ==
  ASSUME Init
  PROVE  TypeInv /\ ShotInv
<1>1. StateOK /\ SportsOK
  BY DEF Init, StateOK, SportsOK, Reason
<1>2. CfgOK
  <2>1. cfg = [s \in Scenario |-> IF s = SPORTS THEN sportsConfig ELSE ResetConfig]
    BY DEF Init
  <2>2. sportsConfig \in Config /\ Sane(sportsConfig)
    BY PerfServiceAssumption, RequestsAssumption
  <2> QED
    BY <2>1, <2>2, ResetConfigType DEF CfgOK
<1>3. CoresOK
  BY PerfServiceAssumption DEF Init, CoresOK
<1>4. FreqsOK
  <2>1. \A b \in Band : freqMax[b[1]] \in 0 .. FREQ_MAX
    BY PerfServiceAssumption, ConstantsFit DEF Band
  <2> QED
    BY <2>1, ConstantsFit DEF Init, FreqsOK
<1>5. GpuOK
  BY ConstantsFit DEF Init, GpuOK
<1>6. KnobsOK
  <2>1. \A x \in Int32 : x \in Int
    BY IntBounds DEF Int32
  <2> QED
    BY <2>1, PerfServiceAssumption DEF Init, KnobsOK
<1>7. ShotsOK /\ ShotInv
  BY DEF Init, ShotsOK, ShotInv, User
<1> QED
  BY <1>1, <1>2, <1>3, <1>4, <1>5, <1>6, <1>7 DEF TypeInv

\* A step keeps all types.
LEMMA NextType ==
  ASSUME TypeInv, ShotInv, [Next]_vars
  PROVE  TypeInv' /\ ShotInv' /\ (Comes \/ Goes \/ Anew \/ Rests)
<1>1. StateOK' /\ CfgOK' /\ SportsOK' /\ (Comes \/ Goes \/ Anew \/ Rests)
  BY StepKind DEF TypeInv
<1>2. CoresOK' /\ FreqsOK' /\ GpuOK' /\ KnobsOK'
  BY <1>1, SettingsType DEF TypeInv
<1>3. ShotsOK' /\ ShotInv'
  BY NextShots DEF TypeInv
<1> QED
  BY <1>1, <1>2, <1>3 DEF TypeInv

\* Every variable keeps its type, whatever sane requests the clients make, also
\* of scenarios that are on.
THEOREM TypeCorrect == Spec => []TypeOK
<1>1. Init => TypeInv /\ ShotInv
  BY InitType
<1>2. TypeInv /\ ShotInv /\ [Next]_vars => (TypeInv /\ ShotInv)'
  BY NextType
<1>3. TypeInv => TypeOK
  BY DEF TypeInv, TypeOK, StateOK, CfgOK, CoresOK, FreqsOK, GpuOK, KnobsOK, ShotsOK, SportsOK
<1> QED
  BY <1>1, <1>2, <1>3, PTL DEF Spec

\* One-shot resources are set while their scenario is on and unset when it is off,
\* however often requests are replaced, suspended by the screen or configured;
\* only a slot that perfUserUnregScn emptied with a value set may keep one.
THEOREM ShotsAreBalanced == Spec => []OneshotBalanced
<1>1. Init => TypeInv /\ ShotInv
  BY InitType
<1>2. TypeInv /\ ShotInv /\ [Next]_vars => (TypeInv /\ ShotInv)'
  BY NextType
<1>3. ShotInv => OneshotBalanced
  BY DEF ShotInv, OneshotBalanced
<1> QED
  BY <1>1, <1>2, <1>3, PTL DEF Spec

-----------------------------------------------------------------------------
(* The settings are what is asked for *)

\* A frequency ceiling is one that somebody can ask for; the highest frequency is
\* the initial one.
CeilingsInRange == \A b \in Band : freqMaxNow[b] <= freqMax[b[1]] \/ freqMaxNow[b] = FREQ_MAX

\* The settings that the requests determine, all but the core limits.
FloorsAre ==
  /\ scn_cores_now = AskedTotal
  /\ \A c \in Cluster : cpuMinNow[c] = AskedCoreMin(c)
  /\ \A b \in Band : freqMinNow[b] = AskedFreqMin(b)
CeilingsAre ==
  \A b \in Band : Smaller(freqMaxNow[b], freqMax[b[1]]) =
                     Larger(freqMinNow[b], Smaller(AskedFreqMax(b), freqMax[b[1]]))
GpuIs    == gpuNow = AskedGpu /\ gpuMaxNow = Smaller(gpuNow, AskedGpuMax)
KnobsAre == \A k \in Knob : curVal[k] = AskedKnob(k)

ExactNow == FloorsAre /\ CeilingsAre /\ CeilingsInRange /\ GpuIs /\ KnobsAre

\* Whatever clients configure, the entries follow the knobs, and no knob is beyond
\* the value that stands for nobody's.
EntryInv == \A k \in Knob : ~Stricter(k, resetVal[k], curVal[k]) /\ entry[k] = Written(k, curVal[k])

ExactInv == EntryInv /\ (~outdated => ExactNow)

\* A ceiling exact in value is exact in effect.
LEMMA CeilingComes ==
  ASSUME NEW lo \in Int, NEW hi \in Int, NEW asked \in Int, NEW top \in Int, NEW min \in Int, NEW max \in Int,
         lo <= top, min <= top, max <= top \/ max = FREQ_MAX, hi <= top \/ hi = FREQ_MAX,
         Smaller(hi, top) = Larger(lo, Smaller(asked, top)),
         NEW lo2 \in Int, lo2 = Larger(lo, min), NEW hi2 \in Int, hi2 = Larger(lo2, Smaller(hi, max)),
         NEW asked2 \in Int, asked2 = Smaller(asked, max)
  PROVE  /\ hi2 <= top \/ hi2 = FREQ_MAX
         /\ Smaller(hi2, top) = Larger(lo2, Smaller(asked2, top))
<1>1. FREQ_MAX \in Int
  BY ConstantsFit
<1> QED
  BY <1>1 DEF Larger, Smaller

\* A ceiling that is left alone hides none: the requests left ask for it.
LEMMA CeilingGoes ==
  ASSUME NEW lo \in Int, NEW hi \in Int, NEW asked \in Int, NEW top \in Int, NEW max \in Int,
         lo <= top, top <= FREQ_MAX, max <= top \/ max = FREQ_MAX, hi <= top \/ hi = FREQ_MAX,
         Smaller(hi, top) = Larger(lo, Smaller(asked, top)),
         NEW lo2 \in Int, lo2 <= lo, NEW hi2 \in Int,
         NEW asked2 \in Int, asked2 >= asked, asked2 <= top \/ asked2 = FREQ_MAX,
         asked < max => asked2 = asked,
         hi2 = IF hi >= max \/ hi = lo THEN Larger(lo2, asked2) ELSE hi
  PROVE  /\ hi2 <= top \/ hi2 = FREQ_MAX
         /\ Smaller(hi2, top) = Larger(lo2, Smaller(asked2, top))
<1>1. FREQ_MAX \in Int
  BY ConstantsFit
<1>2. CASE hi >= max \/ hi = lo
  <2>1. hi2 = Larger(lo2, asked2) /\ lo2 <= top
    BY <1>2
  <2> QED
    BY <1>1, <2>1 DEF Larger, Smaller
<1>3. CASE ~(hi >= max \/ hi = lo)
  <2>1. hi2 = hi /\ hi < max /\ hi # lo /\ hi <= top
    BY <1>1, <1>3
  <2>2. asked >= hi
    BY <2>1 DEF Larger, Smaller
  <2>3. asked2 = asked \/ asked >= top
    BY <1>1, <2>1, <2>2 DEF Larger, Smaller
  <2> QED
    BY <1>1, <2>1, <2>2, <2>3 DEF Larger, Smaller
<1> QED
  BY <1>2, <1>3

\* The numbers the frequency settings are made of.
LEMMA FreqNumbers ==
  ASSUME TypeInv, TypeInv'
  PROVE  \A b \in Band :
           /\ freqMinNow[b] \in Int /\ freqMaxNow[b] \in Int /\ freqMinNow'[b] \in Int /\ freqMaxNow'[b] \in Int
           /\ freqMax[b[1]] \in Int /\ freqMax[b[1]] <= FREQ_MAX
           /\ AskedFreqMin(b) \in Int /\ AskedFreqMin(b) <= freqMax[b[1]]
           /\ AskedFreqMax(b) \in Int /\ AskedFreqMax(b)' \in Int
           /\ AskedFreqMin(b)' \in Int /\ AskedFreqMin(b)' <= freqMax[b[1]]
           /\ AskedFreqMax(b)' <= freqMax[b[1]] \/ AskedFreqMax(b)' = FREQ_MAX
<1>1. AskedOK /\ AskedOK'
  BY AskedType, AskedTypeNext DEF TypeInv
<1>2. \A b \in Band : freqMax[b[1]] \in Int /\ freqMax[b[1]] <= FREQ_MAX
  BY PerfServiceAssumption, ConstantsFit DEF Band
<1>3. \A b \in Band : /\ freqMinNow[b] \in Int /\ freqMaxNow[b] \in Int
                      /\ freqMinNow'[b] \in Int /\ freqMaxNow'[b] \in Int
  BY ConstantsFit DEF TypeInv, FreqsOK
<1>4. \A b \in Band : /\ AskedFreqMin(b) \in Int /\ AskedFreqMin(b) <= freqMax[b[1]]
                      /\ AskedFreqMax(b) \in Int
  BY <1>1, <1>2 DEF AskedOK
<1>5. \A b \in Band : /\ AskedFreqMin(b)' \in Int /\ AskedFreqMin(b)' <= freqMax[b[1]]
                      /\ AskedFreqMax(b)' \in Int
                      /\ AskedFreqMax(b)' <= freqMax[b[1]] \/ AskedFreqMax(b)' = FREQ_MAX
  BY <1>1, <1>2 DEF AskedOK
<1> QED
  BY <1>2, <1>3, <1>4, <1>5

\* A request that comes is merged exactly: frequencies.
LEMMA FreqsCome ==
  ASSUME TypeInv, TypeInv', FloorsAre, CeilingsAre, CeilingsInRange,
         NEW r \in Config, Sane(r), Adds(r), EnableFreqs(r), NEW b \in Band
  PROVE  /\ freqMinNow'[b] = AskedFreqMin(b)'
         /\ freqMaxNow'[b] <= freqMax[b[1]] \/ freqMaxNow'[b] = FREQ_MAX
         /\ Smaller(freqMaxNow'[b], freqMax[b[1]]) =
              Larger(freqMinNow'[b], Smaller(AskedFreqMax(b)', freqMax[b[1]]))
<1> DEFINE lo    == freqMinNow[b]
           hi    == freqMaxNow[b]
           top   == freqMax[b[1]]
           lo2   == freqMinNow'[b]
           hi2   == freqMaxNow'[b]
           asked == AskedFreqMax(b)
           ask2  == AskedFreqMax(b)'
           min   == r.freq_min[b]
           max   == r.freq_max[b]
<1>1. /\ lo \in Int /\ hi \in Int /\ top \in Int /\ lo2 \in Int /\ hi2 \in Int /\ asked \in Int /\ ask2 \in Int
      /\ lo <= top
  BY FreqNumbers DEF FloorsAre
<1>2. min \in Int /\ max \in Int /\ min <= top /\ (max <= top \/ max = FREQ_MAX)
  BY SaneFields
<1>3. lo2 = Larger(lo, min) /\ hi2 = Larger(lo2, Smaller(hi, max))
  BY DEF EnableFreqs
<1>4. lo = AskedFreqMin(b) /\ AskedFreqMin(b)' = Larger(AskedFreqMin(b), min) /\ ask2 = Smaller(asked, max)
  BY DEF Adds, FloorsAre
<1>5. Smaller(hi, top) = Larger(lo, Smaller(asked, top)) /\ (hi <= top \/ hi = FREQ_MAX)
  BY DEF CeilingsAre, CeilingsInRange
<1> HIDE DEF lo, hi, top, lo2, hi2, asked, ask2, min, max
<1>6. (hi2 <= top \/ hi2 = FREQ_MAX) /\ Smaller(hi2, top) = Larger(lo2, Smaller(ask2, top))
  BY <1>1, <1>2, <1>3, <1>4, <1>5, CeilingComes
<1>7. lo2 = AskedFreqMin(b)'
  BY <1>3, <1>4
<1> QED
  BY <1>6, <1>7 DEF lo, hi, top, lo2, hi2, asked, ask2, min, max

\* A request that goes is withdrawn exactly.
LEMMA FreqsGo ==
  ASSUME TypeInv, TypeInv', FloorsAre, CeilingsAre, CeilingsInRange,
         NEW r \in Config, Sane(r), Drops(r), UpdateFreqs(r, FALSE), NEW b \in Band
  PROVE  /\ freqMinNow'[b] = AskedFreqMin(b)'
         /\ freqMaxNow'[b] <= freqMax[b[1]] \/ freqMaxNow'[b] = FREQ_MAX
         /\ Smaller(freqMaxNow'[b], freqMax[b[1]]) =
              Larger(freqMinNow'[b], Smaller(AskedFreqMax(b)', freqMax[b[1]]))
<1> DEFINE lo    == freqMinNow[b]
           hi    == freqMaxNow[b]
           top   == freqMax[b[1]]
           lo2   == freqMinNow'[b]
           hi2   == freqMaxNow'[b]
           asked == AskedFreqMax(b)
           ask2  == AskedFreqMax(b)'
           min   == r.freq_min[b]
           max   == r.freq_max[b]
<1>1. /\ lo \in Int /\ hi \in Int /\ top \in Int /\ lo2 \in Int /\ hi2 \in Int /\ asked \in Int /\ ask2 \in Int
      /\ lo <= top /\ top <= FREQ_MAX /\ (ask2 <= top \/ ask2 = FREQ_MAX)
  BY FreqNumbers DEF FloorsAre
<1>2. min \in Int /\ max \in Int /\ (max <= top \/ max = FREQ_MAX)
  BY SaneFields
<1>3. /\ lo2 = IF lo <= min THEN AskedFreqMin(b)' ELSE lo
      /\ hi2 = IF hi >= max \/ hi = lo THEN Larger(lo2, ask2) ELSE hi
  BY DEF UpdateFreqs
<1>4. /\ lo = AskedFreqMin(b)
      /\ AskedFreqMin(b)' <= AskedFreqMin(b) /\ (AskedFreqMin(b) > min => AskedFreqMin(b)' = AskedFreqMin(b))
      /\ ask2 >= asked /\ (asked < max => ask2 = asked)
  BY DEF Drops, FloorsAre
<1>5. Smaller(hi, top) = Larger(lo, Smaller(asked, top)) /\ (hi <= top \/ hi = FREQ_MAX)
  BY DEF CeilingsAre, CeilingsInRange
<1> HIDE DEF lo, hi, top, lo2, hi2, asked, ask2, min, max
<1>6. lo2 = AskedFreqMin(b)' /\ lo2 <= lo
  BY <1>1, <1>2, <1>3, <1>4
<1>7. (hi2 <= top \/ hi2 = FREQ_MAX) /\ Smaller(hi2, top) = Larger(lo2, Smaller(ask2, top))
  BY <1>1, <1>2, <1>3, <1>4, <1>5, <1>6, CeilingGoes
<1> QED
  BY <1>6, <1>7 DEF lo, hi, top, lo2, hi2, asked, ask2, min, max

\* What is computed anew is exact.
LEMMA FreqsAnew ==
  ASSUME TypeInv, TypeInv', NEW r, UpdateFreqs(r, TRUE), NEW b \in Band
  PROVE  /\ freqMinNow'[b] = AskedFreqMin(b)'
         /\ freqMaxNow'[b] <= freqMax[b[1]] \/ freqMaxNow'[b] = FREQ_MAX
         /\ Smaller(freqMaxNow'[b], freqMax[b[1]]) =
              Larger(freqMinNow'[b], Smaller(AskedFreqMax(b)', freqMax[b[1]]))
<1>1. freqMinNow'[b] = AskedFreqMin(b)' /\ freqMaxNow'[b] = Larger(freqMinNow'[b], AskedFreqMax(b)')
  BY DEF UpdateFreqs
<1>2. /\ freqMax[b[1]] \in Int /\ AskedFreqMin(b)' \in Int /\ AskedFreqMin(b)' <= freqMax[b[1]]
      /\ AskedFreqMax(b)' \in Int
      /\ AskedFreqMax(b)' <= freqMax[b[1]] \/ AskedFreqMax(b)' = FREQ_MAX
  BY FreqNumbers
<1> QED
  BY <1>1, <1>2, ConstantsFit DEF Larger, Smaller

\* The same for the operating points of the GPU.
LEMMA GpuSteps ==
  ASSUME TypeInv, TypeInv', GpuIs,
         \/ \E r \in Config : Sane(r) /\ Adds(r) /\ EnableGpu(r)
         \/ \E r \in Config : Drops(r) /\ UpdateGpu(r, FALSE)
         \/ \E r \in Config : UpdateGpu(r, TRUE)
         \/ AsksSame /\ UNCHANGED gpu
  PROVE  GpuIs'
<1>1. /\ AskedGpu \in Int /\ AskedGpuMax \in Int /\ AskedGpu' \in Int /\ AskedGpuMax' \in Int
      /\ AskedGpu >= 0 /\ AskedGpuMax >= 0
      /\ gpuNow \in Int /\ gpuMaxNow \in Int /\ gpuNow' \in Int /\ gpuMaxNow' \in Int
  <2>1. AskedOK /\ AskedOK'
    BY AskedType, AskedTypeNext DEF TypeInv
  <2> QED
    BY <2>1, ConstantsFit DEF AskedOK, TypeInv, GpuOK
<1>2. gpuNow = AskedGpu /\ gpuMaxNow = Smaller(gpuNow, AskedGpuMax)
  BY DEF GpuIs
<1>3. ASSUME NEW r \in Config, Sane(r), Adds(r), EnableGpu(r) PROVE GpuIs'
  <2>1. r.gpu_freq \in Int /\ r.gpu_freq_max \in Int /\ r.gpu_freq_max >= -1
    BY <1>3, SaneFields, ConstantsFit
  <2>2. /\ AskedGpu' = IF r.gpu_freq = -1 THEN AskedGpu ELSE Smaller(AskedGpu, r.gpu_freq)
        /\ AskedGpuMax' = IF r.gpu_freq_max = -1 THEN AskedGpuMax ELSE Larger(AskedGpuMax, r.gpu_freq_max)
    BY <1>3 DEF Adds
  <2>3. CASE r.gpu_freq = -1 /\ r.gpu_freq_max = -1
    BY <1>2, <1>3, <2>2, <2>3 DEF EnableGpu, gpu, GpuIs
  <2>4. CASE ~(r.gpu_freq = -1 /\ r.gpu_freq_max = -1)
    <3>1. /\ gpuNow' = IF r.gpu_freq # -1 THEN Smaller(gpuNow, r.gpu_freq) ELSE gpuNow
          /\ gpuMaxNow' = Smaller(gpuNow', Larger(gpuMaxNow, r.gpu_freq_max))
      BY <1>3, <2>4 DEF EnableGpu
    <3>2. gpuNow' = AskedGpu' /\ gpuNow' <= gpuNow
      BY <1>1, <1>2, <2>1, <2>2, <3>1 DEF Smaller
    <3>3. gpuMaxNow' = Smaller(gpuNow', AskedGpuMax')
      BY <1>1, <1>2, <2>1, <2>2, <3>1, <3>2 DEF Smaller, Larger
    <3> QED
      BY <3>2, <3>3 DEF GpuIs
  <2> QED
    BY <2>3, <2>4
<1>4. ASSUME NEW r \in Config, Drops(r), UpdateGpu(r, FALSE) PROVE GpuIs'
  <2>1. /\ AskedGpu' >= AskedGpu /\ (r.gpu_freq = -1 => AskedGpu' = AskedGpu)
        /\ (r.gpu_freq_max = -1 => AskedGpuMax' = AskedGpuMax)
    BY <1>4 DEF Drops
  <2>2. CASE r.gpu_freq = -1 /\ r.gpu_freq_max = -1
    BY <1>2, <1>4, <2>1, <2>2 DEF UpdateGpu, gpu, GpuIs
  <2>3. CASE ~(r.gpu_freq = -1 /\ r.gpu_freq_max = -1)
    <3>1. /\ gpuNow' = IF r.gpu_freq # -1 THEN AskedGpu' ELSE gpuNow
          /\ gpuMaxNow' = IF r.gpu_freq_max # -1 \/ gpuMaxNow = gpuNow
                            THEN Smaller(gpuNow', AskedGpuMax')
                            ELSE Smaller(gpuNow', gpuMaxNow)
      BY <1>4, <2>3 DEF UpdateGpu
    <3>2. gpuNow' = AskedGpu' /\ gpuNow' >= gpuNow
      BY <1>1, <1>2, <2>1, <3>1
    <3>3. gpuMaxNow' = Smaller(gpuNow', AskedGpuMax')
      BY <1>1, <1>2, <2>1, <3>1, <3>2 DEF Smaller
    <3> QED
      BY <3>2, <3>3 DEF GpuIs
  <2> QED
    BY <2>2, <2>3
<1>5. ASSUME NEW r \in Config, UpdateGpu(r, TRUE) PROVE GpuIs'
  BY <1>5 DEF UpdateGpu, GpuIs
<1>6. ASSUME AsksSame, UNCHANGED gpu PROVE GpuIs'
  BY <1>2, <1>6 DEF AsksSame, gpu, GpuIs
<1> QED
  BY <1>3, <1>4, <1>5, <1>6

\* And for the total and the minimums of cores.
LEMMA CoreFloorSteps ==
  ASSUME TypeInv, TypeInv', FloorsAre,
         \/ \E r \in Config : Sane(r) /\ Adds(r) /\ EnableCores(r)
         \/ \E r \in Config : Sane(r) /\ Drops(r) /\ UpdateCores(r, FALSE)
         \/ \E r \in Config : UpdateCores(r, TRUE)
         \/ AsksSame /\ UNCHANGED cores
  PROVE  scn_cores_now' = AskedTotal' /\ \A c \in Cluster : cpuMinNow'[c] = AskedCoreMin(c)'
<1>1. /\ scn_cores_now \in Int /\ AskedTotal \in Int
      /\ \A c \in Cluster : cpuMinNow[c] \in Int /\ AskedCoreMin(c) \in Int
  <2>1. AskedOK
    BY AskedType DEF TypeInv
  <2>2. \A c \in Cluster : cpuNum[c] \in Nat
    BY PerfServiceAssumption
  <2> QED
    BY <2>1, <2>2 DEF AskedOK, TypeInv, CoresOK
<1>2. scn_cores_now = AskedTotal /\ \A c \in Cluster : cpuMinNow[c] = AskedCoreMin(c)
  BY DEF FloorsAre
<1>3. ASSUME NEW r \in Config, Sane(r), Adds(r), EnableCores(r)
      PROVE  scn_cores_now' = AskedTotal' /\ \A c \in Cluster : cpuMinNow'[c] = AskedCoreMin(c)'
  BY <1>2, <1>3 DEF Adds, EnableCores
<1>4. ASSUME NEW r \in Config, Sane(r), Drops(r), UpdateCores(r, FALSE)
      PROVE  scn_cores_now' = AskedTotal' /\ \A c \in Cluster : cpuMinNow'[c] = AskedCoreMin(c)'
  <2>1. r.core_total \in Int /\ \A c \in Cluster : r.core_min[c] \in Int
    BY <1>4, SaneFields
  <2>2. scn_cores_now' = AskedTotal'
    BY <1>1, <1>2, <1>4, <2>1 DEF Drops, UpdateCores
  <2>3. \A c \in Cluster : cpuMinNow'[c] = IF cpuMinNow[c] <= r.core_min[c] THEN AskedCoreMin(c)' ELSE cpuMinNow[c]
    BY <1>4 DEF UpdateCores
  <2>4. \A c \in Cluster : AskedCoreMin(c) > r.core_min[c] => AskedCoreMin(c)' = AskedCoreMin(c)
    BY <1>4 DEF Drops
  <2> QED
    BY <1>1, <1>2, <2>1, <2>2, <2>3, <2>4
<1>5. ASSUME NEW r \in Config, UpdateCores(r, TRUE)
      PROVE  scn_cores_now' = AskedTotal' /\ \A c \in Cluster : cpuMinNow'[c] = AskedCoreMin(c)'
  BY <1>5 DEF UpdateCores
<1>6. ASSUME AsksSame, UNCHANGED cores
      PROVE  scn_cores_now' = AskedTotal' /\ \A c \in Cluster : cpuMinNow'[c] = AskedCoreMin(c)'
  BY <1>2, <1>6 DEF AsksSame, cores
<1> QED
  BY <1>3, <1>4, <1>5, <1>6

\* Switching the mode writes what the entry should hold, if it held that before.
LEMMA SwitchedIs ==
  ASSUME NEW k \in Knob, entry[k] = Written(k, curVal[k])
  PROVE  Switched[k] = IF curVal[k] = resetVal[k] THEN defaultVal'[k] ELSE curVal[k]
<1>1. CASE nCurrPowerMode' = nCurrPowerMode
  <2>1. defaultVal' = defaultVal /\ Switched = entry
    BY <1>1 DEF defaultVal, Switched
  <2> QED
    BY <2>1 DEF Written
<1>2. CASE nCurrPowerMode' # nCurrPowerMode
  <2>1. Switched[k] = IF curVal[k] = resetVal[k] THEN defaultVal'[k] ELSE entry[k]
    BY <1>2 DEF Switched
  <2> QED
    BY <2>1 DEF Written
<1> QED
  BY <1>1, <1>2

\* And for the knobs.
LEMMA KnobSteps ==
  ASSUME TypeInv, TypeInv', KnobsAre,
         \/ \E r \in Config : Sane(r) /\ Adds(r) /\ EnableKnobs(r)
         \/ \E r \in Config : Sane(r) /\ Drops(r) /\ UpdateKnobs(r, FALSE)
         \/ \E r \in Config : UpdateKnobs(r, TRUE)
         \/ AsksSame /\ UNCHANGED curVal
  PROVE  KnobsAre'
<1> SUFFICES ASSUME NEW k \in Knob
             PROVE  curVal'[k] = AskedKnob(k)'
  BY DEF KnobsAre
<1>1. AskedKnob(k) \in Int /\ resetVal[k] \in Int /\ curVal[k] \in Int
  <2>1. AskedOK
    BY AskedType DEF TypeInv
  <2> QED
    BY <2>1, PerfServiceAssumption, IntBounds DEF AskedOK, Int32, TypeInv, KnobsOK
<1>2. curVal[k] = AskedKnob(k)
  BY DEF KnobsAre
<1>4. ASSUME NEW r \in Config, Sane(r), Adds(r), EnableKnobs(r)
      PROVE  curVal'[k] = AskedKnob(k)'
  <2>1. AskedKnob(k)' = IF Stricter(k, r.param[k], AskedKnob(k)) THEN r.param[k] ELSE AskedKnob(k)
    BY <1>4 DEF Adds
  <2>2. curVal'[k] = IF Stricter(k, r.param[k], curVal[k]) THEN r.param[k] ELSE curVal[k]
    BY <1>4 DEF EnableKnobs
  <2> QED
    BY <1>2, <2>1, <2>2
<1>6. ASSUME NEW r \in Config, Sane(r), Drops(r), UpdateKnobs(r, FALSE)
      PROVE  curVal'[k] = AskedKnob(k)'
  <2>1. r.param[k] \in Int /\ ~Stricter(k, resetVal[k], r.param[k])
    BY <1>6, SaneFields
  <2>2. curVal'[k] = IF Stricter(k, r.param[k], resetVal[k]) /\ ~Stricter(k, curVal[k], r.param[k])
                       THEN AskedKnob(k)' ELSE curVal[k]
    BY <1>6 DEF UpdateKnobs
  <2>3. Stricter(k, AskedKnob(k), r.param[k]) \/ r.param[k] = resetVal[k] => AskedKnob(k)' = AskedKnob(k)
    BY <1>6 DEF Drops
  <2>4. Stricter(k, r.param[k], resetVal[k]) \/ r.param[k] = resetVal[k]
    BY <1>1, <2>1 DEF Stricter
  <2> QED
    BY <1>2, <2>2, <2>3, <2>4
<1>7. ASSUME NEW r \in Config, UpdateKnobs(r, TRUE)
      PROVE  curVal'[k] = AskedKnob(k)'
  BY <1>7 DEF UpdateKnobs
<1>8. ASSUME AsksSame, UNCHANGED curVal
      PROVE  curVal'[k] = AskedKnob(k)'
  BY <1>2, <1>8 DEF AsksSame
<1> QED
  BY <1>4, <1>6, <1>7, <1>8

\* The entries follow the knobs, whether these are what is asked for or not.
LEMMA EntrySteps ==
  ASSUME TypeInv, TypeInv', EntryInv, Comes \/ Goes \/ Anew \/ Rests
  PROVE  EntryInv'
<1> SUFFICES ASSUME NEW k \in Knob
             PROVE  /\ ~Stricter(k, resetVal[k], curVal'[k])
                    /\ entry'[k] = IF curVal'[k] = resetVal[k] THEN defaultVal'[k] ELSE curVal'[k]
  BY DEF EntryInv, Written
<1>1. /\ AskedKnob(k)' \in Int /\ ~Stricter(k, resetVal[k], AskedKnob(k)')
      /\ resetVal[k] \in Int /\ curVal[k] \in Int
  <2>1. AskedOK'
    BY AskedTypeNext DEF TypeInv
  <2> QED
    BY <2>1, PerfServiceAssumption, IntBounds DEF AskedOK, Int32, TypeInv, KnobsOK, Stricter
<1>2. ~Stricter(k, resetVal[k], curVal[k]) /\ entry[k] = Written(k, curVal[k])
  BY DEF EntryInv
<1>3. Switched[k] = IF curVal[k] = resetVal[k] THEN defaultVal'[k] ELSE curVal[k]
  BY <1>2, SwitchedIs
<1>4. CASE Comes
  <2>1. PICK r \in Config : Sane(r) /\ EnableKnobs(r)
    BY <1>4 DEF Comes
  <2>2. /\ curVal'[k] = IF Stricter(k, r.param[k], curVal[k]) THEN r.param[k] ELSE curVal[k]
        /\ entry'[k] = IF Stricter(k, r.param[k], curVal[k]) THEN r.param[k] ELSE Switched[k]
    BY <2>1 DEF EnableKnobs
  <2>3. r.param[k] \in Int /\ ~Stricter(k, resetVal[k], r.param[k])
    BY <2>1, SaneFields
  <2>4. Stricter(k, r.param[k], curVal[k]) => r.param[k] # resetVal[k]
    BY <1>2
  <2> QED
    BY <1>2, <1>3, <2>2, <2>3, <2>4
<1>5. ASSUME NEW r \in Config, NEW force \in BOOLEAN, UpdateKnobs(r, force)
      PROVE  /\ ~Stricter(k, resetVal[k], curVal'[k])
             /\ entry'[k] = IF curVal'[k] = resetVal[k] THEN defaultVal'[k] ELSE curVal'[k]
  <2>1. entry'[k] = IF curVal'[k] = curVal[k] THEN Switched[k] ELSE Written(k, curVal[k])'
    BY <1>5 DEF UpdateKnobs
  <2>2. Written(k, curVal[k])' = IF curVal'[k] = resetVal[k] THEN defaultVal'[k] ELSE curVal'[k]
    BY DEF Written
  <2>3. curVal'[k] = AskedKnob(k)' \/ curVal'[k] = curVal[k]
    BY <1>5 DEF UpdateKnobs
  <2>4. ~Stricter(k, resetVal[k], curVal'[k])
    BY <1>1, <1>2, <2>3
  <2> QED
    BY <1>3, <2>1, <2>2, <2>4
<1>6. CASE Goes
  BY <1>5, <1>6 DEF Goes
<1>7. CASE Anew
  BY <1>5, <1>7 DEF Anew
<1>8. CASE Rests
  BY <1>2, <1>3, <1>8 DEF Rests
<1> QED
  BY <1>4, <1>6, <1>7, <1>8

\* At the start nothing is asked for and nothing is set.
LEMMA InitExact ==
  ASSUME Init
  PROVE  ExactInv
<1>1. TypeInv
  BY InitType
<1>2. FloorsAre
  BY InitAsked DEF Init, FloorsAre
<1>3. \A b \in Band : /\ freqMax[b[1]] \in Nat /\ freqMax[b[1]] <= FREQ_MAX
                      /\ freqMinNow[b] = 0 /\ freqMaxNow[b] = freqMax[b[1]]
  BY PerfServiceAssumption, ConstantsFit DEF Init, Band
<1>4. CeilingsInRange
  BY <1>3 DEF CeilingsInRange
<1>5. CeilingsAre
  <2>1. \A b \in Band : AskedFreqMax(b) = FREQ_MAX
    BY InitAsked
  <2> QED
    BY <1>3, <2>1, ConstantsFit DEF CeilingsAre, Smaller, Larger
<1>6. GpuIs
  <2>1. gpuNow = nGpuHighestFreqLevel /\ gpuMaxNow = 0
    BY DEF Init
  <2> QED
    BY <2>1, InitAsked, ConstantsFit DEF GpuIs, Smaller
<1>7. KnobsAre
  BY InitAsked DEF Init, KnobsAre
<1>8. EntryInv
  <2>1. ~nCurrPowerMode
    BY DEF Init, nCurrPowerMode
  <2>2. \A k \in Knob : resetVal[k] \in Int
    BY PerfServiceAssumption, IntBounds DEF Int32
  <2> QED
    BY <2>1, <2>2 DEF Init, EntryInv, Written, defaultVal, Stricter
<1> QED
  BY <1>2, <1>4, <1>5, <1>6, <1>7, <1>8 DEF ExactInv, ExactNow

\* What one update computes is exact, however wrong the settings were before.
LEMMA AnewExact ==
  ASSUME TypeInv, TypeInv', Anew
  PROVE  ExactNow'
<1>1. PICK r \in Config :
        UpdateCores(r, TRUE) /\ UpdateFreqs(r, TRUE) /\ UpdateGpu(r, TRUE) /\ UpdateKnobs(r, TRUE)
  BY DEF Anew
<1>2. scn_cores_now' = AskedTotal' /\ \A c \in Cluster : cpuMinNow'[c] = AskedCoreMin(c)'
  BY <1>1 DEF UpdateCores
<1>3. GpuIs'
  BY <1>1 DEF UpdateGpu, GpuIs
<1>4. KnobsAre'
  BY <1>1 DEF UpdateKnobs, KnobsAre
<1>5. \A b \in Band : /\ freqMinNow'[b] = AskedFreqMin(b)'
                      /\ freqMaxNow'[b] <= freqMax[b[1]] \/ freqMaxNow'[b] = FREQ_MAX
                      /\ Smaller(freqMaxNow'[b], freqMax[b[1]]) =
                           Larger(freqMinNow'[b], Smaller(AskedFreqMax(b)', freqMax[b[1]]))
  BY <1>1, FreqsAnew
<1>6. FloorsAre'
  BY <1>2, <1>5 DEF FloorsAre
<1>7. CeilingsAre' /\ CeilingsInRange'
  BY <1>5 DEF CeilingsAre, CeilingsInRange
<1> QED
  BY <1>3, <1>4, <1>6, <1>7 DEF ExactNow

\* A step keeps the settings exact, if no request changes under a scenario that is on.
LEMMA NextExactNow ==
  ASSUME TypeInv, TypeInv', ExactNow, Comes \/ Goes \/ (Rests /\ AsksSame)
  PROVE  ExactNow'
<1>1. FloorsAre /\ CeilingsAre /\ CeilingsInRange /\ GpuIs /\ KnobsAre
  BY DEF ExactNow
<1>2. scn_cores_now' = AskedTotal' /\ \A c \in Cluster : cpuMinNow'[c] = AskedCoreMin(c)'
  <2>1. \/ \E r \in Config : Sane(r) /\ Adds(r) /\ EnableCores(r)
        \/ \E r \in Config : Sane(r) /\ Drops(r) /\ UpdateCores(r, FALSE)
        \/ AsksSame /\ UNCHANGED cores
    BY DEF Comes, Goes, Rests
  <2> QED
    BY <1>1, <2>1, CoreFloorSteps
<1>3. GpuIs'
  <2>1. \/ \E r \in Config : Sane(r) /\ Adds(r) /\ EnableGpu(r)
        \/ \E r \in Config : Drops(r) /\ UpdateGpu(r, FALSE)
        \/ AsksSame /\ UNCHANGED gpu
    BY DEF Comes, Goes, Rests
  <2> QED
    BY <1>1, <2>1, GpuSteps
<1>4. KnobsAre'
  <2>1. \/ \E r \in Config : Sane(r) /\ Adds(r) /\ EnableKnobs(r)
        \/ \E r \in Config : Sane(r) /\ Drops(r) /\ UpdateKnobs(r, FALSE)
        \/ AsksSame /\ UNCHANGED curVal
    BY DEF Comes, Goes, Rests
  <2> QED
    BY <1>1, <2>1, KnobSteps
<1>5. \A b \in Band : /\ freqMinNow'[b] = AskedFreqMin(b)'
                      /\ freqMaxNow'[b] <= freqMax[b[1]] \/ freqMaxNow'[b] = FREQ_MAX
                      /\ Smaller(freqMaxNow'[b], freqMax[b[1]]) =
                           Larger(freqMinNow'[b], Smaller(AskedFreqMax(b)', freqMax[b[1]]))
  <2>1. \/ \E r \in Config : Sane(r) /\ Adds(r) /\ EnableFreqs(r)
        \/ \E r \in Config : Sane(r) /\ Drops(r) /\ UpdateFreqs(r, FALSE)
        \/ AsksSame /\ UNCHANGED freqs
    BY DEF Comes, Goes, Rests
  <2>2. CASE \E r \in Config : Sane(r) /\ Adds(r) /\ EnableFreqs(r)
    BY <1>1, <2>2, FreqsCome
  <2>3. CASE \E r \in Config : Sane(r) /\ Drops(r) /\ UpdateFreqs(r, FALSE)
    BY <1>1, <2>3, FreqsGo
  <2>5. CASE AsksSame /\ UNCHANGED freqs
    BY <1>1, <2>5 DEF AsksSame, freqs, FloorsAre, CeilingsAre, CeilingsInRange
  <2> QED
    BY <2>1, <2>2, <2>3, <2>5
<1>6. FloorsAre'
  BY <1>2, <1>5 DEF FloorsAre
<1>7. CeilingsAre' /\ CeilingsInRange'
  BY <1>5 DEF CeilingsAre, CeilingsInRange
<1> QED
  BY <1>3, <1>4, <1>6, <1>7 DEF ExactNow

\* Without an update, a state that notes no change comes from one that does not.
LEMMA NothingNoted ==
  ASSUME Comes \/ Goes \/ Anew \/ Rests, ~Anew, ~outdated'
  PROVE  ~outdated /\ (Comes \/ Goes \/ (Rests /\ AsksSame))
<1>1. CASE Comes
  <2>1. outdated' = outdated
    BY <1>1 DEF Comes
  <2> QED
    BY <1>1, <2>1
<1>2. CASE Goes
  <2>1. outdated' = outdated
    BY <1>2 DEF Goes
  <2> QED
    BY <1>2, <2>1
<1>3. CASE Rests
  <2>1. ~outdated /\ AsksSame
    BY <1>3 DEF Rests
  <2> QED
    BY <1>3, <2>1
<1> QED
  BY <1>1, <1>2, <1>3

\* So the settings are exact unless a request changed since the last update.
LEMMA NextExact ==
  ASSUME TypeInv, TypeInv', ExactInv, Comes \/ Goes \/ Anew \/ Rests
  PROVE  ExactInv'
<1>1. EntryInv'
  BY EntrySteps DEF ExactInv
<1>2. ASSUME ~outdated' PROVE ExactNow'
  <2>1. CASE Anew
    BY <2>1, AnewExact
  <2>2. CASE ~Anew
    <3>1. ~outdated /\ (Comes \/ Goes \/ (Rests /\ AsksSame))
      BY <1>2, <2>2, NothingNoted
    <3>2. ExactNow
      BY <3>1 DEF ExactInv
    <3> QED
      BY <3>1, <3>2, NextExactNow
  <2> QED
    BY <2>1, <2>2
<1> QED
  BY <1>1, <1>2 DEF ExactInv

\* The invariant of the exact settings holds in every reachable state.
LEMMA ExactAlways == Spec => [](TypeInv /\ ExactInv)
<1>1. Init => TypeInv /\ ShotInv /\ ExactInv
  BY InitType, InitExact
<1>2. TypeInv /\ ShotInv /\ ExactInv /\ [Next]_vars => (TypeInv /\ ShotInv /\ ExactInv)'
  BY NextType, NextExact
<1> QED
  BY <1>1, <1>2, PTL DEF Spec

\* Whatever clients call: unless a request changed under the settings since the last
\* full update, the floors of cores and frequencies are the highest ones asked for.
\* perfScnUpdate, which recomputes a floor only if the request withdrawn may have
\* determined it, never misses one.
THEOREM NoFloorIsMissed == Spec => []FloorsExact
<1>1. TypeInv /\ ExactInv => FloorsExact
  BY DEF ExactInv, ExactNow, FloorsAre, FloorsExact
<1> QED
  BY <1>1, ExactAlways, PTL

\* Nor a frequency ceiling, not even one that a floor hid.
THEOREM NoCeilingIsMissed == Spec => []CeilingsExact
<1>1. TypeInv /\ ExactInv => CeilingsExact
  BY DEF ExactInv, ExactNow, CeilingsAre, CeilingsExact
<1> QED
  BY <1>1, ExactAlways, PTL

\* Nor an operating point of the GPU.
THEOREM GpuIsExact == Spec => []GpuExact
<1>1. TypeInv /\ ExactInv => GpuExact
  BY DEF ExactInv, ExactNow, GpuIs, GpuExact
<1> QED
  BY <1>1, ExactAlways, PTL

\* Nor a knob; and its entry holds what it should, through every change of the
\* power mode and whatever is configured.
THEOREM KnobsAreExact == Spec => []KnobsExact
<1>1. TypeInv /\ ExactInv => KnobsExact
  BY DEF ExactInv, ExactNow, EntryInv, KnobsAre, KnobsExact
<1> QED
  BY <1>1, ExactAlways, PTL

-----------------------------------------------------------------------------
(* The core limits *)

\* A core limit is never below the minimum really set for its cluster ("min priority
\* is higher than max").
MinimumWins == \A c \in Cluster : cpuMaxNow[c] >= ActualMin(scn_cores_now, cpuMinNow)[c]

\* No limit is tighter than what is asked for; a limit given up is that of a cluster
\* without a minimum, so withdrawing requests can not make its minimum a limit.
LimitAsked(max, min, asked, num) ==
  /\ max # -1 => max >= Smaller(asked, num)
  /\ max = -1 => min = 0

LimitsAsked == \A c \in Cluster : LimitAsked(cpuMaxNow[c], cpuMinNow[c], AskedCoreMax(c), cpuNum[c])

\* How perfScnUpdate chooses a limit before the fine tuning.
LimitOf(max, min, rmax, asked) == IF max >= rmax \/ max = min THEN asked ELSE max

\* The limits after perfScnEnable: those merged and fine tuned, but for the lowest
\* cluster when it and the next one would be switched off.
LEMMA EnableLimits ==
  ASSUME CoresOK, CoresOK', NEW r \in Config, Sane(r), EnableCores(r), NEW c \in Cluster
  PROVE  LET m  == ActualMin(scn_cores_now', cpuMinNow')
             hi == IF cpuMaxNow[c] = -1 THEN r.core_max[c] ELSE Smaller(cpuMaxNow[c], r.core_max[c])
         IN /\ m[c] \in Int /\ (m[c] = -1 \/ m[c] > 0)
            /\ \/ cpuMaxNow'[c] = Larger(hi, m[c])
               \/ /\ cpuMaxNow'[c] = -1 /\ c = 0 /\ nClusterNum > 1
                  /\ m[0] = -1 /\ m[1] = -1
<1> DEFINE ceil == [d \in Cluster |-> IF cpuMaxNow[d] = PPM_IGNORE THEN r.core_max[d]
                                      ELSE Smaller(cpuMaxNow[d], r.core_max[d])]
           m == ActualMin(scn_cores_now', cpuMinNow')
           F == FineTune(scn_cores_now', cpuMinNow', ceil)
<1>1. ceil \in [Cluster -> Nat \cup {PPM_IGNORE}] /\ \A d \in Cluster : ceil[d] \in Nat
  BY SaneFields DEF CoresOK, Smaller, PPM_IGNORE
<1>2. cpuMaxNow' = KeepOneCluster(F)
  BY DEF EnableCores
<1>3. ceil[c] = IF cpuMaxNow[c] = -1 THEN r.core_max[c] ELSE Smaller(cpuMaxNow[c], r.core_max[c])
  BY DEF PPM_IGNORE
<1> HIDE DEF ceil
<1>4. scn_cores_now' \in Int /\ cpuMinNow' \in [Cluster -> Nat]
  BY DEF CoresOK
<1>5. F \in [Cluster -> Nat \cup {PPM_IGNORE}]
  BY <1>1, <1>4, FineTuneType
<1>6. \A d \in Cluster : m[d] \in Int /\ (m[d] = -1 \/ m[d] > 0) /\ F[d] = Larger(ceil[d], m[d])
  BY <1>1, <1>4, FineTuneType
<1> HIDE DEF F, m
<1>7. cpuMaxNow'[c] # F[c] => /\ cpuMaxNow'[c] = -1 /\ c = 0 /\ nClusterNum > 1
                              /\ F[0] = 0 /\ F[1] = 0
  BY <1>2, <1>5 DEF KeepOneCluster, PPM_IGNORE
<1>8. nClusterNum > 1 => 0 \in Cluster /\ 1 \in Cluster
  BY PerfServiceAssumption DEF Cluster
<1>9. nClusterNum > 1 /\ F[0] = 0 /\ F[1] = 0 => m[0] = -1 /\ m[1] = -1
  BY <1>1, <1>6, <1>8 DEF Larger
<1> QED
  BY <1>3, <1>6, <1>7, <1>9 DEF m

\* The limits after perfScnUpdate.
LEMMA UpdateLimits ==
  ASSUME CoresOK, CoresOK', AskedOK', NEW r \in Config, NEW force \in BOOLEAN, UpdateCores(r, force),
         NEW c \in Cluster
  PROVE  LET m  == ActualMin(scn_cores_now', cpuMinNow')
             hi == IF force \/ cpuMaxNow[c] >= r.core_max[c] \/ cpuMaxNow[c] = cpuMinNow[c]
                     THEN AskedCoreMax(c)' ELSE cpuMaxNow[c]
         IN /\ m[c] \in Int /\ (m[c] = -1 \/ m[c] > 0) /\ (cpuMinNow'[c] = 0 => m[c] = -1)
            /\ cpuMaxNow'[c] = Larger(hi, m[c])
<1> DEFINE ceil == [d \in Cluster |->
                      IF force \/ cpuMaxNow[d] >= r.core_max[d] \/ cpuMaxNow[d] = cpuMinNow[d]
                        THEN AskedCoreMax(d)' ELSE cpuMaxNow[d]]
           m == ActualMin(scn_cores_now', cpuMinNow')
<1>1. ceil \in [Cluster -> Nat \cup {PPM_IGNORE}]
  <2>1. \A d \in Cluster : cpuMaxNow[d] \in Nat \cup {PPM_IGNORE} /\ AskedCoreMax(d)' \in Nat
    BY DEF CoresOK, AskedOK
  <2> QED
    BY <2>1
<1>2. cpuMaxNow' = FineTune(scn_cores_now', cpuMinNow', ceil)
  BY DEF UpdateCores
<1>3. ceil[c] = IF force \/ cpuMaxNow[c] >= r.core_max[c] \/ cpuMaxNow[c] = cpuMinNow[c]
                  THEN AskedCoreMax(c)' ELSE cpuMaxNow[c]
  OBVIOUS
<1> HIDE DEF ceil
<1>4. scn_cores_now' \in Int /\ cpuMinNow' \in [Cluster -> Nat]
  BY DEF CoresOK
<1>5. m[c] \in Int /\ (m[c] = -1 \/ m[c] > 0) /\ cpuMaxNow'[c] = Larger(ceil[c], m[c])
  BY <1>1, <1>2, <1>4, FineTuneType
<1>6. cpuMinNow'[c] = 0 => m[c] = -1
  BY <1>4, MinimumOf
<1> HIDE DEF m
<1> QED
  BY <1>3, <1>5, <1>6 DEF m

\* Every kind of step leaves the minimums below the limits.
LEMMA MinimumSteps ==
  ASSUME TypeInv, TypeInv', MinimumWins, Comes \/ Goes \/ Anew \/ Rests
  PROVE  MinimumWins'
<1> SUFFICES ASSUME NEW c \in Cluster PROVE cpuMaxNow'[c] >= ActualMin(scn_cores_now', cpuMinNow')[c]
  BY DEF MinimumWins
<1> DEFINE m == ActualMin(scn_cores_now', cpuMinNow')[c]
<1>1. CoresOK /\ CoresOK' /\ AskedOK'
  BY AskedTypeNext DEF TypeInv
<1>2. cpuMaxNow[c] \in Int /\ cpuMinNow[c] \in Int /\ AskedCoreMax(c)' \in Int
  BY <1>1 DEF CoresOK, AskedOK, PPM_IGNORE
<1>3. CASE Comes
  <2>1. PICK r \in Config : Sane(r) /\ EnableCores(r)
    BY <1>3 DEF Comes
  <2>2. PICK hi \in Int : m \in Int /\ (cpuMaxNow'[c] = Larger(hi, m) \/ (cpuMaxNow'[c] = -1 /\ m = -1))
    <3> DEFINE h == IF cpuMaxNow[c] = -1 THEN r.core_max[c] ELSE Smaller(cpuMaxNow[c], r.core_max[c])
    <3>1. h \in Int
      BY <1>2, <2>1, SaneFields DEF Smaller
    <3>2. m \in Int /\ (cpuMaxNow'[c] = Larger(h, m) \/ (cpuMaxNow'[c] = -1 /\ m = -1))
      BY <1>1, <2>1, EnableLimits
    <3> HIDE DEF h, m
    <3> QED
      BY <3>1, <3>2
  <2> HIDE DEF m
  <2>3. cpuMaxNow'[c] >= m
    BY <2>2 DEF Larger
  <2> QED
    BY <2>3 DEF m
<1>4. ASSUME NEW r \in Config, NEW force \in BOOLEAN, UpdateCores(r, force)
      PROVE  cpuMaxNow'[c] >= m
  <2>1. PICK hi \in Int : m \in Int /\ cpuMaxNow'[c] = Larger(hi, m)
    <3> DEFINE h == IF force \/ cpuMaxNow[c] >= r.core_max[c] \/ cpuMaxNow[c] = cpuMinNow[c]
                      THEN AskedCoreMax(c)' ELSE cpuMaxNow[c]
    <3>1. h \in Int
      BY <1>2
    <3>2. m \in Int /\ cpuMaxNow'[c] = Larger(h, m)
      BY <1>1, <1>4, UpdateLimits
    <3> HIDE DEF h, m
    <3> QED
      BY <3>1, <3>2
  <2> HIDE DEF m
  <2> QED
    BY <2>1 DEF Larger
<1>5. CASE Goes
  BY <1>4, <1>5 DEF Goes
<1>6. CASE Anew
  BY <1>4, <1>6 DEF Anew
<1>7. CASE Rests
  BY <1>7 DEF Rests, cores, MinimumWins
<1> QED
  BY <1>3, <1>5, <1>6, <1>7

\* A limit that a request lowers is one that it asks for.
LEMMA LimitComes ==
  ASSUME NEW max \in Int, NEW asked \in Int, NEW num \in Int, NEW rmax \in Int, rmax >= 0,
         max # -1 => max >= Smaller(asked, num),
         NEW hi \in Int, hi = IF max = -1 THEN rmax ELSE Smaller(max, rmax),
         NEW m \in Int, NEW max2 \in Int, max2 = Larger(hi, m)
  PROVE  max2 >= Smaller(Smaller(asked, rmax), num)
  BY DEF Larger, Smaller

\* A limit that is left alone is one that the others ask for, or none.
LEMMA LimitGoes ==
  ASSUME NEW max \in Int, max >= -1, NEW min \in Int, min >= 0, NEW asked \in Int, NEW num \in Int,
         NEW rmax \in Int, rmax >= 0,
         LimitAsked(max, min, asked, num),
         NEW asked2 \in Int, asked2 >= 0, asked >= rmax \/ asked2 = asked,
         NEW m \in Int, NEW min2 \in Int, min2 >= 0, min2 <= min, min2 > 0 \/ m = -1,
         NEW max2 \in Int, max2 = Larger(LimitOf(max, min, rmax, asked2), m)
  PROVE  LimitAsked(max2, min2, asked2, num)
<1> DEFINE hi == LimitOf(max, min, rmax, asked2)
<1> SUFFICES (max2 # -1 => max2 >= Smaller(asked2, num)) /\ (max2 = -1 => min2 = 0)
  BY DEF LimitAsked
<1>0. /\ hi = IF max >= rmax \/ max = min THEN asked2 ELSE max
      /\ hi \in Int /\ max2 = Larger(hi, m)
      /\ max # -1 => max >= Smaller(asked, num)
      /\ max = -1 => min = 0
  BY DEF LimitAsked, LimitOf
<1> HIDE DEF hi
<1>1. CASE max >= rmax \/ max = min
  <2>1. max2 >= asked2
    BY <1>0, <1>1 DEF Larger
  <2> QED
    BY <2>1 DEF Smaller
<1>2. CASE ~(max >= rmax \/ max = min)
  <2>1. hi = max /\ max < rmax
    BY <1>0, <1>2
  <2>2. CASE max = -1
    <3>1. min2 = 0 /\ m = -1
      BY <1>0, <2>2
    <3> QED
      BY <1>0, <2>1, <2>2, <3>1 DEF Larger
  <2>3. CASE max # -1
    <3>1. max2 >= max /\ max >= Smaller(asked, num)
      BY <1>0, <2>1, <2>3 DEF Larger
    <3>2. asked2 = asked \/ max >= num
      BY <2>1, <3>1 DEF Smaller
    <3>3. max2 >= Smaller(asked2, num)
      BY <3>1, <3>2 DEF Smaller
    <3>4. max2 # -1
      BY <2>3, <3>1
    <3> QED
      BY <3>3, <3>4
  <2> QED
    BY <2>2, <2>3
<1> QED
  BY <1>1, <1>2

\* Every kind of step keeps the limits justified, on one or two clusters.
LEMMA LimitSteps ==
  ASSUME nClusterNum <= 2, TypeInv, TypeInv', ExactNow, ExactNow', LimitsAsked,
         Comes \/ Goes \/ (Rests /\ AsksSame)
  PROVE  LimitsAsked'
<1> SUFFICES ASSUME NEW c \in Cluster
             PROVE  /\ cpuMaxNow'[c] # -1 => cpuMaxNow'[c] >= Smaller(AskedCoreMax(c)', cpuNum[c])
                    /\ cpuMaxNow'[c] = -1 => cpuMinNow'[c] = 0
  BY DEF LimitsAsked, LimitAsked
<1> DEFINE m     == ActualMin(scn_cores_now', cpuMinNow')
           mc    == m[c]
           max   == cpuMaxNow[c]
           min   == cpuMinNow[c]
           max2  == cpuMaxNow'[c]
           min2  == cpuMinNow'[c]
           asked == AskedCoreMax(c)
           ask2  == AskedCoreMax(c)'
           num   == cpuNum[c]
<1>1. CoresOK /\ CoresOK' /\ AskedOK /\ AskedOK'
  BY AskedType, AskedTypeNext DEF TypeInv
<1>2. /\ max \in Int /\ max >= -1 /\ min \in Int /\ min >= 0 /\ max2 \in Int /\ min2 \in Int /\ min2 >= 0
      /\ asked \in Int /\ ask2 \in Int /\ ask2 >= 0 /\ num \in Int
  BY <1>1, PerfServiceAssumption DEF CoresOK, AskedOK, PPM_IGNORE
<1>3. /\ (max # -1 => max >= Smaller(asked, num)) /\ (max = -1 => min = 0)
      /\ LimitAsked(max, min, asked, num)
  BY DEF LimitsAsked, LimitAsked
<1>4. /\ min = AskedCoreMin(c) /\ min2 = AskedCoreMin(c)'
      /\ scn_cores_now' = AskedTotal' /\ \A d \in Cluster : cpuMinNow'[d] = AskedCoreMin(d)'
  BY DEF ExactNow, FloorsAre
<1>5. CASE Comes
  <2>1. PICK r \in Config : Sane(r) /\ Adds(r) /\ EnableCores(r)
    BY <1>5 DEF Comes
  <2> DEFINE rmax == r.core_max[c]
             hi   == IF max = -1 THEN rmax ELSE Smaller(max, rmax)
  <2>2. rmax \in Int /\ rmax >= 0
    BY <2>1, SaneFields
  <2>3. ask2 = Smaller(asked, rmax)
    BY <2>1 DEF Adds
  <2>4. /\ mc \in Int
        /\ \/ max2 = Larger(hi, mc)
           \/ max2 = -1 /\ c = 0 /\ nClusterNum > 1 /\ m[0] = -1 /\ m[1] = -1
    BY <1>1, <2>1, EnableLimits
  <2>5. CASE max2 = Larger(hi, mc)
    <3>1. hi \in Int /\ hi >= 0
      BY <1>2, <2>2 DEF Smaller
    <3> HIDE DEF hi, mc, max, max2, asked, ask2, num, rmax
    <3>2. hi = IF max = -1 THEN rmax ELSE Smaller(max, rmax)
      BY DEF hi
    <3>3. max2 >= Smaller(ask2, num)
      BY <1>2, <1>3, <2>2, <2>3, <2>4, <2>5, <3>1, <3>2, LimitComes
    <3>4. max2 # -1
      BY <2>4, <2>5, <3>1 DEF Larger
    <3> QED
      BY <3>3, <3>4 DEF max2, ask2, num
  <2>6. CASE max2 = -1 /\ c = 0 /\ nClusterNum > 1 /\ m[0] = -1 /\ m[1] = -1
    <3>1. nClusterNum = 2
      BY <2>6, PerfServiceAssumption
    <3>2. \A d \in Cluster : cpuMinNow'[d] <= cpuNum[d] /\ cpuMinNow'[d] <= scn_cores_now'
      BY <1>1, <1>4, PerfServiceAssumption DEF AskedOK
    <3>3. scn_cores_now' \in Int /\ cpuMinNow' \in [Cluster -> Nat]
      BY <1>1 DEF CoresOK
    <3>4. cpuMinNow'[0] = 0
      BY <2>6, <3>1, <3>2, <3>3, LowerServed
    <3> QED
      BY <2>6, <3>4
  <2> QED
    BY <2>4, <2>5, <2>6
<1>6. CASE Goes
  <2>1. PICK r \in Config : Sane(r) /\ Drops(r) /\ UpdateCores(r, FALSE)
    BY <1>6 DEF Goes
  <2> DEFINE rmax == r.core_max[c]
  <2>2. rmax \in Int /\ rmax >= 0
    BY <2>1, SaneFields
  <2>3. (asked < rmax => ask2 = asked) /\ min2 <= min
    BY <1>4, <2>1 DEF Drops
  <2>4. mc \in Int /\ (min2 = 0 => mc = -1) /\ max2 = Larger(LimitOf(max, min, rmax, ask2), mc)
    BY <1>1, <2>1, UpdateLimits DEF LimitOf
  <2> HIDE DEF mc, max, max2, asked, ask2, num, rmax, min, min2
  <2>5. (asked >= rmax \/ ask2 = asked) /\ (min2 > 0 \/ mc = -1)
    BY <1>2, <2>2, <2>3, <2>4
  <2>6. LimitAsked(max2, min2, ask2, num)
    BY <1>2, <1>3, <2>2, <2>3, <2>4, <2>5, LimitGoes
  <2> QED
    BY <2>6 DEF max2, ask2, num, min2, LimitAsked
<1>8. CASE Rests /\ AsksSame
  BY <1>3, <1>8 DEF Rests, cores, AsksSame
<1> QED
  BY <1>5, <1>6, <1>8

\* An update computes justified limits, whatever they were before.
LEMMA LimitAnew ==
  ASSUME TypeInv, TypeInv', Anew
  PROVE  LimitsAsked'
<1> SUFFICES ASSUME NEW c \in Cluster
             PROVE  /\ cpuMaxNow'[c] # -1 => cpuMaxNow'[c] >= Smaller(AskedCoreMax(c)', cpuNum[c])
                    /\ cpuMaxNow'[c] = -1 => cpuMinNow'[c] = 0
  BY DEF LimitsAsked, LimitAsked
<1> DEFINE mc   == ActualMin(scn_cores_now', cpuMinNow')[c]
           max2 == cpuMaxNow'[c]
           ask2 == AskedCoreMax(c)'
           num  == cpuNum[c]
<1>1. CoresOK /\ CoresOK' /\ AskedOK'
  BY AskedTypeNext DEF TypeInv
<1>2. max2 \in Int /\ ask2 \in Int /\ ask2 >= 0 /\ num \in Int
  BY <1>1, PerfServiceAssumption DEF CoresOK, AskedOK, PPM_IGNORE
<1>3. PICK r \in Config : UpdateCores(r, TRUE)
  BY DEF Anew
<1>4. mc \in Int /\ max2 = Larger(ask2, mc)
  BY <1>1, <1>3, UpdateLimits
<1> HIDE DEF mc, max2, ask2, num
<1>5. max2 >= Smaller(ask2, num) /\ max2 # -1
  BY <1>2, <1>4 DEF Larger, Smaller
<1> QED
  BY <1>5 DEF max2, ask2, num

\* At the start there is a limit for every cluster, all its cores.
LEMMA InitLimits ==
  ASSUME Init
  PROVE  MinimumWins /\ LimitsAsked
<1>1. \A c \in Cluster : cpuMaxNow[c] = cpuNum[c] /\ cpuNum[c] \in Nat /\ cpuMinNow[c] = 0
  BY PerfServiceAssumption DEF Init
<1>2. \A c \in Cluster : AskedCoreMax(c) \in Nat
  BY InitType, AskedType DEF TypeInv, AskedOK
<1>3. scn_cores_now \in Int /\ cpuMinNow \in [Cluster -> Nat]
  BY InitType DEF TypeInv, CoresOK
<1>4. \A c \in Cluster : ActualMin(scn_cores_now, cpuMinNow)[c] = -1
  BY <1>1, <1>3, MinimumOf
<1>5. MinimumWins
  BY <1>1, <1>4 DEF MinimumWins
<1>6. LimitsAsked
  BY <1>1, <1>2 DEF LimitsAsked, LimitAsked, Smaller
<1> QED
  BY <1>5, <1>6

\* The minimum wins on any number of clusters, and even while clients reconfigure
\* scenarios that are on: perfScnEnable and perfScnUpdate both end with the fine
\* tuning of the limits.
THEOREM MinimumAlwaysWins == Spec => []MinimumWins
<1>1. Init => TypeInv /\ ShotInv /\ MinimumWins
  BY InitType, InitLimits
<1>2. TypeInv /\ ShotInv /\ MinimumWins /\ [Next]_vars => (TypeInv /\ ShotInv /\ MinimumWins)'
  BY NextType, MinimumSteps
<1> QED
  BY <1>1, <1>2, PTL DEF Spec

\* On one or two clusters no core limit outlives the scenario that asked for it,
\* unless its request changed since the last update, although perfScnUpdate leaves
\* alone a limit that it gave up (PPM_IGNORE).
THEOREM LimitsAreJustified ==
  ASSUME nClusterNum <= 2
  PROVE  Spec => []CoreLimitsJustified
<1> DEFINE L == ~outdated => LimitsAsked
           I == TypeInv /\ ShotInv /\ ExactInv /\ MinimumWins /\ L
<1>1. Init => I
  BY InitType, InitExact, InitLimits
<1>2. I /\ [Next]_vars => I'
  <2> SUFFICES ASSUME I, [Next]_vars PROVE I'
    OBVIOUS
  <2>1. TypeInv' /\ ShotInv' /\ (Comes \/ Goes \/ Anew \/ Rests)
    BY NextType
  <2>2. ExactInv' /\ MinimumWins'
    BY <2>1, NextExact, MinimumSteps
  <2>3. ASSUME ~outdated' PROVE LimitsAsked'
    <3>1. CASE Anew
      BY <2>1, <3>1, LimitAnew
    <3>2. CASE ~Anew
      <4>1. ~outdated /\ (Comes \/ Goes \/ (Rests /\ AsksSame))
        BY <2>1, <2>3, <3>2, NothingNoted
      <4>2. ExactNow /\ ExactNow' /\ LimitsAsked
        BY <2>2, <2>3, <4>1 DEF ExactInv
      <4> QED
        BY <2>1, <4>1, <4>2, LimitSteps
    <3> QED
      BY <3>1, <3>2
  <2> QED
    BY <2>1, <2>2, <2>3
<1>3. I => CoreLimitsJustified
  BY DEF MinimumWins, LimitsAsked, LimitAsked, CoreLimitsJustified, PPM_IGNORE
<1> QED
  BY <1>1, <1>2, <1>3, PTL DEF Spec
=============================================================================
