--------------------------- MODULE CiaTimerProofs ---------------------------
(***************************************************************************)
(* What ciat_update replays, many cycles at once where it can, and what    *)
(* ciat_set_alarm foresees is what the timer does when every cycle is      *)
(* counted by itself: for any latch, counter and number of cycles.         *)
(***************************************************************************)
EXTENDS CiaTimer, FiniteSets, WellFoundedInduction, FiniteSetTheorems, TLAPS

Timer == [state : SUBSET Bits, cnt : Nat, latch : Nat,
          clk : Int, alarmclk : Int, pending : Int]

(* The timers cycle by cycle, and how often one underflows in the first k  *)
(* cycles.                                                                 *)
Courses == {c \in [Nat -> Timer] : \A k \in Nat : c[k + 1] = Cycle(c[k])}

Underflown(c, k) == Cardinality({i \in 0..k - 1 : AtZero(Inc(c[i]))})

-----------------------------------------------------------------------------
(* Induction and recursion over the cycles.                                *)
LEMMA Inductive ==
  ASSUME NEW S \in SUBSET Nat, 0 \in S, \A n \in S : n + 1 \in S
  PROVE  S = Nat
<1> DEFINE Less == {p \in Nat \X Nat : p[1] < p[2]}
           Rest == Nat \ S
<1>1. IsWellFoundedOn(Less, Nat)
  BY NatLessThanWellFounded DEF OpToRel
<1>2. SUFFICES ASSUME Rest # {} PROVE FALSE
  OBVIOUS
<1>3. PICK n \in Rest : \A m \in Rest : ~(<<m, n>> \in Less)
  <2>1. Rest \subseteq Nat
    OBVIOUS
  <2> HIDE DEF Less, Rest
  <2> QED BY <1>1, <1>2, <2>1, WFMin
<1>4. n \in Nat /\ n # 0 /\ n - 1 \in Nat
  BY <1>3
<1>5. n - 1 \in S
  <2>1. n - 1 \in Nat /\ n \in Nat /\ n - 1 < n
    BY <1>4
  <2>2. <<n - 1, n>> \in Less
    BY <2>1
  <2>3. n - 1 \notin Rest
    BY <1>3, <2>2
  <2> QED BY <2>1, <2>3
<1>6. n - 1 + 1 = n
  BY <1>4
<1> QED BY <1>3, <1>5, <1>6

LEMMA Iteration ==
  ASSUME NEW S, NEW x \in S, NEW F \in [S -> S]
  PROVE  \E g \in [Nat -> S] : /\ g[0] = x
                               /\ \A n \in Nat : g[n + 1] = F[g[n]]
<1> DEFINE H(n) == {h \in [0..n -> S] :
                      h[0] = x /\ \A i \in 0..n - 1 : h[i + 1] = F[h[i]]}
           G(n) == CHOOSE h : h \in H(n)
           g == [n \in Nat |-> G(n)[n]]
<1>1. \A n \in Nat : H(n) # {}
  <2> DEFINE A == {n \in Nat : H(n) # {}}
  <2>1. 0 \in A
    <3>1. [i \in 0..0 |-> x] \in H(0)
      OBVIOUS
    <3> QED BY <3>1
  <2>2. ASSUME NEW n \in A PROVE n + 1 \in A
    <3>1. PICK h \in H(n) : TRUE
      OBVIOUS
    <3> DEFINE k == [i \in 0..n + 1 |-> IF i <= n THEN h[i] ELSE F[h[n]]]
    <3>2. n \in Nat /\ h \in [0..n -> S] /\ h[0] = x
      BY <3>1
    <3>3. k \in [0..n + 1 -> S]
      BY <3>2
    <3>4. k[0] = x
      BY <3>2
    <3>5. ASSUME NEW i \in 0..n + 1 - 1 PROVE k[i + 1] = F[k[i]]
      <4>1. CASE i = n
        BY <3>2, <4>1
      <4>2. CASE i # n
        <5>1. i \in 0..n - 1 /\ i + 1 <= n /\ i <= n
          BY <3>2, <4>2
        <5>2. h[i + 1] = F[h[i]]
          BY <3>1, <5>1
        <5> QED BY <3>2, <5>1, <5>2
      <4> QED BY <4>1, <4>2
    <3> HIDE DEF k
    <3>6. k \in H(n + 1)
      BY <3>3, <3>4, <3>5
    <3> QED BY <3>2, <3>6
  <2> HIDE DEF A
  <2>3. A \in SUBSET Nat
    BY DEF A
  <2>4. A = Nat
    BY <2>1, <2>2, <2>3, Inductive
  <2> QED BY <2>4 DEF A
<1>2. \A n \in Nat : G(n) \in H(n)
  BY <1>1
<1> HIDE DEF G
<1>3. ASSUME NEW n \in Nat PROVE G(n)[n] = G(n + 1)[n]
  <2> DEFINE A == {i \in Nat : i <= n => G(n)[i] = G(n + 1)[i]}
  <2>1. G(n) \in H(n) /\ G(n + 1) \in H(n + 1)
    BY <1>2
  <2>2. 0 \in A
    BY <2>1
  <2>3. ASSUME NEW i \in A PROVE i + 1 \in A
    <3>1. SUFFICES ASSUME i + 1 <= n PROVE G(n)[i + 1] = G(n + 1)[i + 1]
      OBVIOUS
    <3>2. i \in 0..n - 1 /\ i \in 0..n + 1 - 1 /\ i <= n
      BY <3>1
    <3>3. G(n)[i + 1] = F[G(n)[i]] /\ G(n + 1)[i + 1] = F[G(n + 1)[i]]
      BY <2>1, <3>2
    <3> QED BY <3>2, <3>3
  <2> HIDE DEF A
  <2>4. A \in SUBSET Nat
    BY DEF A
  <2>5. A = Nat
    BY <2>2, <2>3, <2>4, Inductive
  <2> QED BY <2>5 DEF A
<1>4. g \in [Nat -> S] /\ g[0] = x
  <2>1. ASSUME NEW n \in Nat PROVE G(n)[n] \in S
    BY <1>2
  <2>2. G(0)[0] = x
    BY <1>2
  <2> QED BY <2>1, <2>2
<1>5. ASSUME NEW n \in Nat PROVE g[n + 1] = F[g[n]]
  <2>1. G(n + 1) \in H(n + 1) /\ n \in 0..n + 1 - 1
    BY <1>2
  <2>2. G(n + 1)[n + 1] = F[G(n + 1)[n]]
    BY <2>1
  <2> QED BY <1>3, <2>2
<1> QED BY <1>4, <1>5

Orbit(S, x, F) == CHOOSE g \in [Nat -> S] : /\ g[0] = x
                                            /\ \A n \in Nat : g[n + 1] = F[g[n]]

LEMMA OrbitIs ==
  ASSUME NEW S, NEW x \in S, NEW F \in [S -> S]
  PROVE  LET g == Orbit(S, x, F) IN
         g \in [Nat -> S] /\ g[0] = x /\ \A n \in Nat : g[n + 1] = F[g[n]]
<1>1. \E g \in [Nat -> S] : g[0] = x /\ \A n \in Nat : g[n + 1] = F[g[n]]
  BY Iteration
<1> QED BY <1>1 DEF Orbit

-----------------------------------------------------------------------------
LEMMA IncIsTimer == ASSUME NEW t \in Timer PROVE Inc(t) \in Timer /\ Cycle(t) \in Timer
<1>1. Pipeline(t.state) \in SUBSET Bits
  BY DEF Pipeline, Given, Bits
<1> DEFINE c == IF t.cnt > 0 /\ "COUNT3" \in t.state THEN t.cnt - 1 ELSE t.cnt
           i == Inc(t)
           z == Zeroed(i)
           l == Loaded(z)
<1>2. c \in Nat
  BY DEF Timer
<1>3. i = [t EXCEPT !.cnt = c, !.state = Pipeline(t.state)]
  BY DEF Inc
<1> HIDE DEF c
<1>4. i \in Timer
  BY <1>1, <1>2, <1>3 DEF Timer
<1> HIDE DEF i
<1>5. z \in Timer
  BY <1>4 DEF Zeroed, Given, Timer, Bits
<1> HIDE DEF z
<1>6. l \in Timer
  BY <1>5 DEF Loaded, Timer
<1> HIDE DEF l
<1>7. Halted(l) \in Timer
  BY <1>6 DEF Halted, Timer
<1> QED BY <1>4, <1>7 DEF Cycle, Reload, i, z, l

LEMMA CourseIs ==
  ASSUME NEW t \in Timer
  PROVE  Course(t) \in Courses /\ Course(t)[0] = t
<1> DEFINE F == [x \in Timer |-> Cycle(x)]
           Is(f) == f = [k \in Nat |-> IF k = 0 THEN t ELSE Cycle(f[k - 1])]
           c == CHOOSE f : Is(f)
<1>1. F \in [Timer -> Timer]
  BY IncIsTimer
<1>2. PICK g \in [Nat -> Timer] : g[0] = t /\ \A n \in Nat : g[n + 1] = F[g[n]]
  <2> HIDE DEF F
  <2> QED BY <1>1, Iteration
<1>3. Is(g)
  <2>1. ASSUME NEW k \in Nat PROVE g[k] = IF k = 0 THEN t ELSE Cycle(g[k - 1])
    <3>1. CASE k = 0
      BY <1>2, <3>1
    <3>2. CASE k # 0
      <4>1. k - 1 \in Nat /\ k - 1 + 1 = k
        BY <3>2
      <4> QED BY <1>2, <3>2, <4>1
    <3> QED BY <3>1, <3>2
  <2> QED BY <1>2, <2>1
<1>4. Course(t) = c
  BY DEF Course
<1>5. Is(c)
  BY <1>3
<1> HIDE DEF c
<1>6. c[0] = t /\ \A k \in Nat : c[k + 1] = Cycle(c[k])
  BY <1>5
<1> DEFINE A == {k \in Nat : c[k] \in Timer}
<1>7. A = Nat
  <2>1. 0 \in A /\ \A k \in A : k + 1 \in A
    BY <1>6, IncIsTimer
  <2>2. A \in SUBSET Nat
    OBVIOUS
  <2> HIDE DEF A
  <2> QED BY <2>1, <2>2, Inductive
<1>8. c \in [Nat -> Timer]
  <2>1. c = [k \in Nat |-> c[k]]
    BY <1>5
  <2> QED BY <1>7, <2>1
<1> QED BY <1>4, <1>6, <1>8 DEF Courses

(* The underflows in the first k cycles of a course, counted one by one.   *)
LEMMA UnderflownGrows ==
  ASSUME NEW c, NEW k \in Nat
  PROVE  /\ Underflown(c, 0) = 0
         /\ Underflown(c, k) \in Nat
         /\ Underflown(c, k + 1) = Underflown(c, k) + Underflows(c[k])
<1> DEFINE S == {i \in 0..k - 1 : AtZero(Inc(c[i]))}
           T == {i \in 0..k + 1 - 1 : AtZero(Inc(c[i]))}
<1>1. {i \in 0..0 - 1 : AtZero(Inc(c[i]))} = {}
  OBVIOUS
<1>2. IsFiniteSet(S)
  <2>1. IsFiniteSet(0..k - 1)
    BY FS_Interval
  <2>2. S \subseteq 0..k - 1
    OBVIOUS
  <2> HIDE DEF S
  <2> QED BY <2>1, <2>2, FS_Subset
<1>3. k \notin S
  OBVIOUS
<1>4. T = IF AtZero(Inc(c[k])) THEN S \cup {k} ELSE S
  <2>1. 0..k + 1 - 1 = (0..k - 1) \cup {k}
    OBVIOUS
  <2> QED BY <2>1
<1>5. Cardinality(S) \in Nat
  BY <1>2, FS_CardinalityType
<1>6. Cardinality(S \cup {k}) = Cardinality(S) + 1
  BY <1>2, <1>3, FS_AddElement
<1>7. Underflown(c, k + 1) = Underflown(c, k) + Underflows(c[k])
  <2>1. Underflown(c, k + 1) = Cardinality(T) /\ Underflown(c, k) = Cardinality(S)
    BY DEF Underflown
  <2>2. Underflows(c[k]) = IF AtZero(Inc(c[k])) THEN 1 ELSE 0
    BY DEF Underflows
  <2> HIDE DEF S, T
  <2> QED BY <1>4, <1>5, <1>6, <2>1, <2>2
<1> QED BY <1>1, <1>5, <1>7, FS_EmptySet DEF Underflown

-----------------------------------------------------------------------------
LEMMA CoreIs ==
  ASSUME NEW t \in Timer, NEW u \in Timer
  PROVE  Core(t) = Core(u) <=>
           /\ t.cnt = u.cnt /\ t.latch = u.latch
           /\ \A b : b \notin {"COUNT", "STEP"} => (b \in t.state <=> b \in u.state)
           /\ Stepped(t.state) <=> Stepped(u.state)
<1>1. t.state \ {"COUNT", "STEP"} = u.state \ {"COUNT", "STEP"} <=>
        \A b : b \notin {"COUNT", "STEP"} => (b \in t.state <=> b \in u.state)
  OBVIOUS
<1>2. Stepped(t.state) \in BOOLEAN /\ Stepped(u.state) \in BOOLEAN
  BY DEF Stepped
<1>3. (Stepped(t.state) = Stepped(u.state)) <=> (Stepped(t.state) <=> Stepped(u.state))
  BY <1>2
<1>4. Core(t) = Core(u) <=> /\ t.cnt = u.cnt /\ t.latch = u.latch
                           /\ t.state \ {"COUNT", "STEP"} = u.state \ {"COUNT", "STEP"}
                           /\ Stepped(t.state) = Stepped(u.state)
  BY DEF Core
<1> QED BY <1>1, <1>3, <1>4

LEMMA Reloaded ==
  ASSUME NEW i \in Timer
  PROVE  /\ Reload(i) \in Timer
         /\ Reload(i).latch = i.latch
         /\ Reload(i).clk = i.clk
         /\ Reload(i).cnt = IF "LOAD" \in i.state \/ AtZero(i) THEN i.latch
                                                               ELSE i.cnt
         /\ \A b : b \in Reload(i).state <=>
              /\ b \in i.state \/ (AtZero(i) /\ b \in {"LOAD", "OUT"})
              /\ b = "COUNT3" => ~("LOAD" \in i.state \/ AtZero(i))
              /\ b \in {"START", "COUNT2"} =>
                   ~(/\ "OUT" \in i.state \/ AtZero(i)
                     /\ "ONESHOT" \in i.state \/ "ONESHOT0" \in i.state)
<1> DEFINE z == Zeroed(i)
           l == Loaded(z)
           h == Halted(l)
<1>1. z \in Timer /\ z.latch = i.latch /\ z.clk = i.clk /\ z.cnt = i.cnt
      /\ z.state = i.state \cup Given(AtZero(i), {"LOAD", "OUT"})
  BY DEF Zeroed, Given, Timer, Bits
<1>2. \A b : b \in z.state <=> b \in i.state \/ (AtZero(i) /\ b \in {"LOAD", "OUT"})
  BY <1>1 DEF Given
<1> HIDE DEF z
<1>3. l \in Timer /\ l.latch = z.latch /\ l.clk = z.clk
      /\ l.cnt = (IF "LOAD" \in z.state THEN z.latch ELSE z.cnt)
      /\ l.state = IF "LOAD" \in z.state THEN z.state \ {"COUNT3"} ELSE z.state
  BY <1>1 DEF Loaded, Timer
<1> HIDE DEF l
<1>4. h \in Timer /\ h.latch = l.latch /\ h.clk = l.clk /\ h.cnt = l.cnt
      /\ h.state = IF "OUT" \in l.state /\ l.state \cap {"ONESHOT", "ONESHOT0"} # {}
                     THEN l.state \ {"START", "COUNT2"} ELSE l.state
  BY <1>3 DEF Halted, Timer
<1> HIDE DEF h
<1>5. Reload(i) = h
  BY DEF Reload, h, l, z
<1>6. \A b : b \in l.state <=> b \in z.state /\ (b = "COUNT3" => "LOAD" \notin z.state)
  BY <1>3
<1>7. \A b : b \in h.state <=>
               /\ b \in l.state
               /\ b \in {"START", "COUNT2"} =>
                    ~("OUT" \in l.state /\ ("ONESHOT" \in l.state \/ "ONESHOT0" \in l.state))
  BY <1>4
<1>8. "LOAD" \in z.state <=> "LOAD" \in i.state \/ AtZero(i)
  BY <1>2
<1>9. h.cnt = IF "LOAD" \in i.state \/ AtZero(i) THEN i.latch ELSE i.cnt
  BY <1>1, <1>3, <1>4, <1>8
<1>10. \A b : b \in h.state <=>
              /\ b \in i.state \/ (AtZero(i) /\ b \in {"LOAD", "OUT"})
              /\ b = "COUNT3" => ~("LOAD" \in i.state \/ AtZero(i))
              /\ b \in {"START", "COUNT2"} =>
                   ~(/\ "OUT" \in i.state \/ AtZero(i)
                     /\ "ONESHOT" \in i.state \/ "ONESHOT0" \in i.state)
  <2>1. "OUT" \in l.state <=> "OUT" \in i.state \/ AtZero(i)
    BY <1>2, <1>6
  <2>2. ("ONESHOT" \in l.state <=> "ONESHOT" \in i.state)
        /\ ("ONESHOT0" \in l.state <=> "ONESHOT0" \in i.state)
    BY <1>2, <1>6
  <2> QED BY <1>2, <1>6, <1>7, <1>8, <2>1, <2>2
<1> QED BY <1>1, <1>3, <1>4, <1>5, <1>9, <1>10

LEMMA CoreReloads ==
  ASSUME NEW i \in Timer, NEW j \in Timer, Core(i) = Core(j)
  PROVE  AtZero(i) = AtZero(j) /\ Core(Reload(i)) = Core(Reload(j))
<1>1. i.cnt = j.cnt /\ i.latch = j.latch /\ (Stepped(i.state) <=> Stepped(j.state))
      /\ \A b : b \notin {"COUNT", "STEP"} => (b \in i.state <=> b \in j.state)
  BY CoreIs
<1>2. AtZero(i) = AtZero(j)
  BY <1>1 DEF AtZero
<1>3. ("LOAD" \in i.state <=> "LOAD" \in j.state)
      /\ ("OUT" \in i.state <=> "OUT" \in j.state)
      /\ ("ONESHOT" \in i.state <=> "ONESHOT" \in j.state)
      /\ ("ONESHOT0" \in i.state <=> "ONESHOT0" \in j.state)
  BY <1>1
<1> DEFINE Stops(t) == /\ "OUT" \in t.state \/ AtZero(t)
                       /\ "ONESHOT" \in t.state \/ "ONESHOT0" \in t.state
           p == Reload(i)
           q == Reload(j)
<1>4. /\ p \in Timer /\ p.latch = i.latch
      /\ p.cnt = IF "LOAD" \in i.state \/ AtZero(i) THEN i.latch ELSE i.cnt
      /\ \A b : b \in p.state <=>
              /\ b \in i.state \/ (AtZero(i) /\ b \in {"LOAD", "OUT"})
              /\ b = "COUNT3" => ~("LOAD" \in i.state \/ AtZero(i))
              /\ b \in {"START", "COUNT2"} => ~Stops(i)
  BY Reloaded
<1>5. /\ q \in Timer /\ q.latch = j.latch
      /\ q.cnt = IF "LOAD" \in j.state \/ AtZero(j) THEN j.latch ELSE j.cnt
      /\ \A b : b \in q.state <=>
              /\ b \in j.state \/ (AtZero(j) /\ b \in {"LOAD", "OUT"})
              /\ b = "COUNT3" => ~("LOAD" \in j.state \/ AtZero(j))
              /\ b \in {"START", "COUNT2"} => ~Stops(j)
  BY Reloaded
<1>6. Stops(i) <=> Stops(j)
  BY <1>2, <1>3
<1> HIDE DEF p, q, Stops
<1>7. p.latch = q.latch /\ p.cnt = q.cnt
  BY <1>1, <1>2, <1>3, <1>4, <1>5
<1>8. \A b : b \notin {"COUNT", "STEP"} => (b \in p.state <=> b \in q.state)
  BY <1>1, <1>2, <1>3, <1>4, <1>5, <1>6
<1>9. (Stepped(p.state) <=> Stepped(i.state) /\ ~Stops(i))
      /\ (Stepped(q.state) <=> Stepped(j.state) /\ ~Stops(j))
  BY <1>4, <1>5 DEF Stepped
<1>10. Core(p) = Core(q)
  BY <1>1, <1>4, <1>5, <1>6, <1>7, <1>8, <1>9, CoreIs
<1> QED BY <1>2, <1>10 DEF p, q

LEMMA IncIs ==
  ASSUME NEW t \in Timer
  PROVE  /\ Inc(t) \in Timer
         /\ Inc(t).latch = t.latch
         /\ Inc(t).clk = t.clk
         /\ Inc(t).cnt = IF t.cnt > 0 /\ "COUNT3" \in t.state
                           THEN t.cnt - 1 ELSE t.cnt
         /\ Inc(t).state = Pipeline(t.state)
<1>1. Inc(t) \in Timer
  BY IncIsTimer
<1> QED BY <1>1 DEF Inc, Timer

LEMMA CoreDecides ==
  ASSUME NEW t \in Timer, NEW u \in Timer, Core(t) = Core(u)
  PROVE  /\ AtZero(Inc(t)) = AtZero(Inc(u))
         /\ Underflows(t) = Underflows(u)
         /\ Core(Cycle(t)) = Core(Cycle(u))
<1>1. t.cnt = u.cnt /\ t.latch = u.latch /\ (Stepped(t.state) <=> Stepped(u.state))
      /\ \A b : b \notin {"COUNT", "STEP"} => (b \in t.state <=> b \in u.state)
  BY CoreIs
<1> DEFINE i == Inc(t)
           j == Inc(u)
           a == Pipeline(t.state)
           b == Pipeline(u.state)
<1>2. /\ \A x : x \notin {"COUNT", "COUNT3", "STEP"} => (x \in a <=> x \in b)
      /\ "STEP" \notin a /\ "STEP" \notin b
      /\ "COUNT3" \in a <=> "COUNT2" \in t.state \/ Stepped(t.state)
      /\ "COUNT3" \in b <=> "COUNT2" \in u.state \/ Stepped(u.state)
  <2>1. \A x : x \notin {"COUNT", "COUNT3", "STEP"} => (x \in a <=> x \in b)
    BY <1>1 DEF Pipeline, Given
  <2>2. "STEP" \notin a /\ "STEP" \notin b
    BY DEF Pipeline, Given
  <2>3. "COUNT3" \in a <=> "COUNT2" \in t.state \/ Stepped(t.state)
    BY DEF Pipeline, Given, Stepped
  <2>4. "COUNT3" \in b <=> "COUNT2" \in u.state \/ Stepped(u.state)
    BY DEF Pipeline, Given, Stepped
  <2> QED BY <2>1, <2>2, <2>3, <2>4
<1> HIDE DEF a, b
<1>3. ~Stepped(a) /\ ~Stepped(b)
  BY <1>2 DEF Stepped
<1>4. /\ i \in Timer /\ i.latch = t.latch /\ i.state = a
      /\ i.cnt = IF t.cnt > 0 /\ "COUNT3" \in t.state THEN t.cnt - 1 ELSE t.cnt
  BY IncIs DEF a
<1>5. /\ j \in Timer /\ j.latch = u.latch /\ j.state = b
      /\ j.cnt = IF u.cnt > 0 /\ "COUNT3" \in u.state THEN u.cnt - 1 ELSE u.cnt
  BY IncIs DEF b
<1> HIDE DEF i, j
<1>6. i.cnt = j.cnt
  BY <1>1, <1>4, <1>5
<1>7. \A x : x \notin {"COUNT", "STEP"} => (x \in a <=> x \in b)
  BY <1>1, <1>2
<1>8. Core(i) = Core(j)
  BY <1>1, <1>3, <1>4, <1>5, <1>6, <1>7, CoreIs
<1>9. AtZero(i) = AtZero(j) /\ Core(Reload(i)) = Core(Reload(j))
  BY <1>4, <1>5, <1>8, CoreReloads
<1> QED BY <1>9 DEF Underflows, Cycle, i, j

-----------------------------------------------------------------------------
(* What every cycle leaves behind, and what the stores to the registers    *)
(* make of it: a counter that is about to be decremented is not at 0.      *)
Settled(t) ==
  /\ "OUT" \in t.state => "LOAD" \in t.state
  /\ "COUNT3" \in t.state => t.cnt > 0 /\ "LOAD" \notin t.state

Regular(t) ==
  /\ "OUT" \in t.state => "LOAD" \in t.state
  /\ {"START", "PHI2IN", "COUNT2", "COUNT3"} \subseteq t.state => t.cnt > 0

LEMMA CycleSettles == ASSUME NEW t \in Timer PROVE Settled(Cycle(t))
<1> DEFINE i == Inc(t)
           r == Reload(i)
<1>1. i \in Timer /\ i.state = Pipeline(t.state)
  BY IncIs
<1>2. "OUT" \notin i.state
  BY <1>1 DEF Pipeline, Given
<1> HIDE DEF i
<1>3. /\ r.cnt = IF "LOAD" \in i.state \/ AtZero(i) THEN i.latch ELSE i.cnt
      /\ "OUT" \in r.state <=> "OUT" \in i.state \/ AtZero(i)
      /\ "LOAD" \in r.state <=> "LOAD" \in i.state \/ AtZero(i)
      /\ "COUNT3" \in r.state <=> /\ "COUNT3" \in i.state
                                  /\ ~("LOAD" \in i.state \/ AtZero(i))
  BY <1>1, Reloaded
<1> HIDE DEF r
<1>4. "COUNT3" \in i.state /\ ~AtZero(i) => i.cnt > 0
  BY <1>1 DEF AtZero, Timer
<1>5. Settled(r)
  BY <1>2, <1>3, <1>4 DEF Settled
<1> QED BY <1>5 DEF Cycle, i, r

LEMMA SettledIsRegular ==
  ASSUME NEW t \in Timer, Settled(t) PROVE Regular(t)
BY DEF Settled, Regular

LEMMA RegularByCore ==
  ASSUME NEW t \in Timer, NEW u \in Timer, Core(t) = Core(u), Regular(t)
  PROVE  Regular(u)
<1>1. t.cnt = u.cnt
      /\ \A b : b \notin {"COUNT", "STEP"} => (b \in t.state <=> b \in u.state)
  BY CoreIs
<1> QED BY <1>1 DEF Regular

LEMMA SettledByCore ==
  ASSUME NEW t \in Timer, NEW u \in Timer, Core(t) = Core(u), Settled(t)
  PROVE  Settled(u)
<1>1. t.cnt = u.cnt
      /\ \A b : b \notin {"COUNT", "STEP"} => (b \in t.state <=> b \in u.state)
  BY CoreIs
<1> QED BY <1>1 DEF Settled

LEMMA StoresStayRegular ==
  ASSUME NEW t \in Timer, Settled(t), NEW byte
  PROVE  /\ byte \in Nat => WithLatchLo(t, byte) \in Timer /\ Regular(WithLatchLo(t, byte))
         /\ WithLatchHi(t) \in Timer /\ Regular(WithLatchHi(t))
         /\ WithControl(t, byte) \in Timer /\ Regular(WithControl(t, byte))
         /\ WithStep(t) \in Timer /\ Settled(WithStep(t))
<1>1. ASSUME byte \in Nat
      PROVE  WithLatchLo(t, byte) \in Timer /\ Regular(WithLatchLo(t, byte))
  BY <1>1 DEF WithLatchLo, Timer, Settled, Regular
<1>2. WithLatchHi(t) \in Timer /\ Regular(WithLatchHi(t))
  BY DEF WithLatchHi, Timer, Settled, Regular
<1>3. WithControl(t, byte) \in Timer /\ Regular(WithControl(t, byte))
  BY DEF WithControl, Given, Bits, Timer, Settled, Regular
<1>4. WithStep(t) \in Timer /\ Settled(WithStep(t))
  BY DEF WithStep, Given, Bits, Timer, Settled
<1> QED BY <1>1, <1>2, <1>3, <1>4

-----------------------------------------------------------------------------
(* A timer that counts steadily.                                           *)
Steady(s) ==
  /\ {"START", "PHI2IN", "COUNT2", "COUNT3"} \subseteq s
  /\ s \cap {"FLOAD", "LOAD1", "LOAD", "OUT"} = {}
  /\ ModeIsSteady(s)

At(t, n) == [t EXCEPT !.cnt = n]

LEMMA AtIs ==
  ASSUME NEW t \in Timer, NEW n \in Nat
  PROVE  At(t, n) \in Timer /\ At(t, n).cnt = n /\ At(t, n).latch = t.latch
         /\ At(t, n).state = t.state /\ At(t, n).clk = t.clk
BY DEF At, Timer

LEMMA SteadyCycle ==
  ASSUME NEW t \in Timer, Steady(t.state), t.cnt > 0
  PROVE  /\ t.cnt > 1 => /\ ~AtZero(Inc(t))
                         /\ Core(Cycle(t)) = Core(At(t, t.cnt - 1))
         /\ t.cnt = 1 => /\ AtZero(Inc(t))
                         /\ Core(Cycle(t)) = Core(Reload(At(t, 0)))
<1> DEFINE i == Inc(t)
           d == At(t, t.cnt - 1)
           r == Reload(d)
<1>1. t.cnt \in Nat /\ t.cnt - 1 \in Nat
  BY DEF Timer
<1>2. i \in Timer /\ i.latch = t.latch /\ i.cnt = t.cnt - 1 /\ i.state = Pipeline(t.state)
  BY IncIs DEF Steady
<1>3. d \in Timer /\ d.latch = t.latch /\ d.cnt = t.cnt - 1 /\ d.state = t.state
  BY <1>1, AtIs
<1>4. /\ \A b : b \notin {"COUNT", "STEP"} => (b \in Pipeline(t.state) <=> b \in t.state)
      /\ ~Stepped(Pipeline(t.state)) /\ ~Stepped(t.state)
  <2>1. t.state \in SUBSET Bits
    BY DEF Timer
  <2>2. \A b \in Bits : b \notin {"COUNT", "STEP"} => (b \in Pipeline(t.state) <=> b \in t.state)
    BY DEF Steady, ModeIsSteady, Pipeline, Given, Bits
  <2>3. Pipeline(t.state) \in SUBSET Bits
    BY DEF Pipeline, Given, Bits
  <2>4. ~Stepped(Pipeline(t.state)) /\ ~Stepped(t.state)
    BY DEF Steady, Stepped, Pipeline, Given
  <2> QED BY <2>1, <2>2, <2>3, <2>4
<1>5. Core(i) = Core(d)
  BY <1>2, <1>3, <1>4, CoreIs
<1> HIDE DEF i
<1>6. AtZero(i) = AtZero(d) /\ Core(Reload(i)) = Core(Reload(d))
  BY <1>2, <1>3, <1>5, CoreReloads
<1>7. Core(Cycle(t)) = Core(r)
  BY <1>6 DEF Cycle, i
<1>8. AtZero(i) <=> t.cnt = 1
  BY <1>1, <1>3, <1>6 DEF AtZero, Steady
<1>9. ASSUME t.cnt > 1 PROVE Core(r) = Core(d)
  <2> HIDE DEF d
  <2>1. ~AtZero(d) /\ "LOAD" \notin d.state /\ "OUT" \notin d.state
    BY <1>3, <1>6, <1>8, <1>9 DEF Steady
  <2>2. r.latch = d.latch /\ r.cnt = d.cnt /\ r \in Timer
        /\ \A b : b \in r.state <=> b \in d.state
    BY <1>3, <2>1, Reloaded
  <2> HIDE DEF r
  <2>3. r.state = d.state
    BY <2>2
  <2> QED BY <2>2, <2>3 DEF Core
<1>10. ASSUME t.cnt = 1 PROVE d = At(t, 0)
  BY <1>10
<1>11. t.cnt > 1 => /\ ~AtZero(i) /\ Core(Cycle(t)) = Core(d)
  BY <1>7, <1>8, <1>9
<1>12. t.cnt = 1 => /\ AtZero(i) /\ Core(Cycle(t)) = Core(Reload(At(t, 0)))
  <2> HIDE DEF d
  <2> QED BY <1>7, <1>8, <1>10
<1> QED BY <1>11, <1>12 DEF i

LEMMA CourseStep ==
  ASSUME NEW c \in Courses, NEW k \in Nat
  PROVE  /\ c[k] \in Timer
         /\ c[k + 1] = Cycle(c[k])
         /\ Underflown(c, k) \in Nat
         /\ Underflown(c, k + 1) = Underflown(c, k)
                                   + (IF AtZero(Inc(c[k])) THEN 1 ELSE 0)
BY UnderflownGrows DEF Courses, Underflows

LEMMA AtCore ==
  ASSUME NEW t \in Timer, NEW u \in Timer, NEW n \in Nat, Core(t) = Core(At(u, n))
  PROVE  t.cnt = n /\ (Steady(u.state) => Steady(t.state))
         /\ \A m \in Nat : Core(At(t, m)) = Core(At(u, m))
<1>1. t.cnt = n /\ t.latch = u.latch /\ (Stepped(t.state) <=> Stepped(u.state))
      /\ \A b : b \notin {"COUNT", "STEP"} => (b \in t.state <=> b \in u.state)
      /\ t.state \ {"COUNT", "STEP"} = u.state \ {"COUNT", "STEP"}
      /\ Stepped(t.state) = Stepped(u.state)
  BY AtIs, CoreIs DEF Core
<1>2. ASSUME NEW m \in Nat PROVE Core(At(t, m)) = Core(At(u, m))
  BY <1>1, AtIs DEF Core
<1> QED BY <1>1, <1>2 DEF Steady, ModeIsSteady

(* So many cycles after it has been seen to count steadily, the timer      *)
(* underflows, and not before.                                             *)
LEMMA CountsDown ==
  ASSUME NEW c \in Courses, NEW k \in Nat, NEW v \in Timer,
         Core(c[k]) = Core(v), Steady(v.state), v.cnt > 0
  PROVE  /\ \A i \in 0..v.cnt - 1 : /\ Core(c[k + i]) = Core(At(v, v.cnt - i))
                                    /\ Underflown(c, k + i) = Underflown(c, k)
                                    /\ AtZero(Inc(c[k + i])) <=> i = v.cnt - 1
         /\ Core(c[k + v.cnt]) = Core(Reload(At(v, 0)))
         /\ Underflown(c, k + v.cnt) = Underflown(c, k) + 1
<1> DEFINE P(i) == /\ Core(c[k + i]) = Core(At(v, v.cnt - i))
                   /\ Underflown(c, k + i) = Underflown(c, k)
           A == {i \in Nat : i < v.cnt => P(i)}
<1>1. v.cnt \in Nat
  BY DEF Timer
<1>2. ASSUME NEW i \in Nat, i < v.cnt, P(i)
      PROVE  /\ v.cnt - i > 1 => /\ ~AtZero(Inc(c[k + i]))
                                 /\ Core(c[k + (i + 1)]) = Core(At(v, v.cnt - (i + 1)))
                                 /\ Underflown(c, k + (i + 1)) = Underflown(c, k)
             /\ v.cnt - i = 1 => /\ AtZero(Inc(c[k + i]))
                                 /\ Core(c[k + (i + 1)]) = Core(Reload(At(v, 0)))
                                 /\ Underflown(c, k + (i + 1)) = Underflown(c, k) + 1
  <2> DEFINE w == c[k + i]
             n == v.cnt - i
  <2>1. k + i \in Nat /\ k + (i + 1) = k + i + 1 /\ n \in Nat /\ n > 0
        /\ v.cnt - (i + 1) = n - 1 /\ n - 1 \in Nat
    BY <1>1, <1>2
  <2>2. /\ w \in Timer
        /\ c[k + i + 1] = Cycle(w)
        /\ Underflown(c, k + i + 1) = Underflown(c, k + i)
                                      + (IF AtZero(Inc(w)) THEN 1 ELSE 0)
        /\ Underflown(c, k) \in Nat
    BY <2>1, CourseStep
  <2>3. Core(w) = Core(At(v, n)) /\ Underflown(c, k + i) = Underflown(c, k)
    BY <1>2
  <2> HIDE DEF w, n
  <2>4. w.cnt = n /\ Steady(w.state) /\ \A m \in Nat : Core(At(w, m)) = Core(At(v, m))
    BY <2>1, <2>2, <2>3, AtCore
  <2>5. /\ n > 1 => /\ ~AtZero(Inc(w)) /\ Core(Cycle(w)) = Core(At(v, n - 1))
        /\ n = 1 => /\ AtZero(Inc(w)) /\ Core(Cycle(w)) = Core(Reload(At(w, 0)))
    BY <2>1, <2>2, <2>4, SteadyCycle
  <2>6. Core(Reload(At(w, 0))) = Core(Reload(At(v, 0)))
    BY <2>2, <2>4, AtIs, CoreReloads
  <2>7. CASE n > 1
    BY <2>1, <2>2, <2>3, <2>5, <2>7 DEF w, n
  <2>8. CASE n = 1
    BY <2>1, <2>2, <2>3, <2>5, <2>6, <2>8 DEF w, n
  <2> QED BY <2>1, <2>7, <2>8 DEF n
<1>3. 0 \in A
  <2>1. k + 0 = k /\ v.cnt - 0 = v.cnt
    BY <1>1
  <2>2. At(v, v.cnt) = v
    BY DEF At, Timer
  <2> QED BY <2>1, <2>2
<1>4. ASSUME NEW i \in A PROVE i + 1 \in A
  <2>1. i \in Nat /\ i + 1 \in Nat
    OBVIOUS
  <2>2. ASSUME i + 1 < v.cnt PROVE P(i + 1)
    <3>1. i < v.cnt /\ v.cnt - i > 1
      BY <1>1, <2>1, <2>2
    <3> QED BY <1>2, <2>1, <3>1
  <2> QED BY <2>1, <2>2
<1>5. A = Nat
  <2>1. A \in SUBSET Nat
    OBVIOUS
  <2> HIDE DEF A
  <2> QED BY <1>3, <1>4, <2>1, Inductive
<1>6. \A i \in 0..v.cnt - 1 : P(i)
  BY <1>1, <1>5
<1> HIDE DEF A, P
<1>7. ASSUME NEW i \in 0..v.cnt - 1
      PROVE  AtZero(Inc(c[k + i])) <=> i = v.cnt - 1
  <2>1. i \in Nat /\ i < v.cnt /\ P(i) /\ (v.cnt - i > 1 \/ v.cnt - i = 1)
    BY <1>1, <1>6
  <2> QED BY <1>1, <1>2, <2>1
<1>8. /\ Core(c[k + v.cnt]) = Core(Reload(At(v, 0)))
      /\ Underflown(c, k + v.cnt) = Underflown(c, k) + 1
  <2>1. PICK i \in 0..v.cnt - 1 : i = v.cnt - 1
    BY <1>1
  <2>2. i \in Nat /\ i < v.cnt /\ P(i) /\ v.cnt - i = 1 /\ i + 1 = v.cnt
    BY <1>1, <1>6, <2>1
  <2> QED BY <1>2, <2>2
<1> QED BY <1>6, <1>7, <1>8 DEF P

-----------------------------------------------------------------------------
(* A timer that has just underflowed and goes on.                          *)
Restarted(t) ==
  /\ t.cnt = t.latch
  /\ \A b : b \notin {"COUNT", "STEP"} =>
       (b \in t.state <=> b \in {"START", "PHI2IN", "COUNT2", "LOAD", "OUT"})

LEMMA RestartedCycle ==
  ASSUME NEW t \in Timer, Restarted(t)
  PROVE  /\ t.latch = 0 => AtZero(Inc(t)) /\ Core(Cycle(t)) = Core(t)
         /\ t.latch > 0 => /\ ~AtZero(Inc(t))
                           /\ Steady(Cycle(t).state)
                           /\ Cycle(t).cnt = t.latch
                           /\ Core(Reload(At(Cycle(t), 0))) = Core(t)
<1> DEFINE i == Inc(t)
           r == Reload(i)
           z == At(r, 0)
           y == Reload(z)
<1>1. t.cnt = t.latch /\ t.latch \in Nat /\ t.state \in SUBSET Bits
      /\ \A b : b \notin {"COUNT", "STEP"} =>
           (b \in t.state <=> b \in {"START", "PHI2IN", "COUNT2", "LOAD", "OUT"})
  BY DEF Restarted, Timer
<1>2. i \in Timer /\ i.latch = t.latch /\ i.state = Pipeline(t.state)
      /\ i.cnt = t.latch
  BY <1>1, IncIs
<1>3. \A b : b \notin {"COUNT", "STEP"} =>
             (b \in i.state <=> b \in {"START", "PHI2IN", "COUNT2", "COUNT3"})
  BY <1>1, <1>2 DEF Pipeline, Given
<1> HIDE DEF i
<1>4. AtZero(i) <=> t.latch = 0
  BY <1>2, <1>3 DEF AtZero
<1>5. r \in Timer /\ r.latch = t.latch /\ r.cnt = t.latch
      /\ \A b : b \notin {"COUNT", "STEP"} =>
           (b \in r.state <=> IF t.latch = 0
                                THEN b \in {"START", "PHI2IN", "COUNT2", "LOAD", "OUT"}
                                ELSE b \in {"START", "PHI2IN", "COUNT2", "COUNT3"})
  <2>1. r \in Timer /\ r.latch = i.latch
        /\ r.cnt = IF "LOAD" \in i.state \/ AtZero(i) THEN i.latch ELSE i.cnt
    BY <1>2, Reloaded
  <2>2. \A b : b \in r.state <=>
              /\ b \in i.state \/ (AtZero(i) /\ b \in {"LOAD", "OUT"})
              /\ b = "COUNT3" => ~("LOAD" \in i.state \/ AtZero(i))
              /\ b \in {"START", "COUNT2"} =>
                   ~(/\ "OUT" \in i.state \/ AtZero(i)
                     /\ "ONESHOT" \in i.state \/ "ONESHOT0" \in i.state)
    BY <1>2, Reloaded
  <2> HIDE DEF r
  <2>3. "LOAD" \notin i.state /\ "ONESHOT" \notin i.state /\ "ONESHOT0" \notin i.state
    BY <1>3
  <2> QED BY <1>2, <1>3, <1>4, <2>1, <2>2, <2>3
<1> HIDE DEF r
<1>6. ASSUME t.latch = 0 PROVE Core(r) = Core(t)
  <2>1. \A b : b \notin {"COUNT", "STEP"} => (b \in r.state <=> b \in t.state)
    BY <1>1, <1>5, <1>6
  <2>2. ~Stepped(r.state) /\ ~Stepped(t.state)
    BY <1>1, <2>1 DEF Stepped
  <2> QED BY <1>1, <1>5, <2>1, <2>2, CoreIs
<1>7. ASSUME t.latch > 0
      PROVE  Steady(r.state) /\ Core(y) = Core(t)
  <2>1. \A b : b \notin {"COUNT", "STEP"} =>
             (b \in r.state <=> b \in {"START", "PHI2IN", "COUNT2", "COUNT3"})
    BY <1>5, <1>7
  <2>2. z \in Timer /\ z.cnt = 0 /\ z.latch = t.latch /\ z.state = r.state
    BY <1>5, AtIs
  <2> HIDE DEF z
  <2>3. AtZero(z)
    BY <2>1, <2>2 DEF AtZero
  <2>4. y.latch = t.latch /\ y.cnt = t.latch
    BY <2>2, <2>3, Reloaded
  <2>5. \A b : b \in y.state <=>
              /\ b \in z.state \/ (AtZero(z) /\ b \in {"LOAD", "OUT"})
              /\ b = "COUNT3" => ~("LOAD" \in z.state \/ AtZero(z))
              /\ b \in {"START", "COUNT2"} =>
                   ~(/\ "OUT" \in z.state \/ AtZero(z)
                     /\ "ONESHOT" \in z.state \/ "ONESHOT0" \in z.state)
    BY <2>2, Reloaded
  <2> HIDE DEF y
  <2>6. "ONESHOT" \notin z.state /\ "ONESHOT0" \notin z.state
    BY <2>1, <2>2
  <2>7. \A b : b \notin {"COUNT", "STEP"} =>
             (b \in y.state <=> b \in {"START", "PHI2IN", "COUNT2", "LOAD", "OUT"})
    BY <2>1, <2>2, <2>3, <2>5, <2>6
  <2>8. ~Stepped(y.state) /\ ~Stepped(t.state) /\ y \in Timer
    <3>1. y \in Timer
      BY <2>2, Reloaded DEF y
    <3> QED BY <1>1, <2>7, <3>1 DEF Stepped
  <2>9. Steady(r.state)
    BY <2>1 DEF Steady, ModeIsSteady
  <2> QED BY <1>1, <2>4, <2>7, <2>8, <2>9, CoreIs
<1>8. Cycle(t) = r
  BY DEF Cycle, r, i
<1>9. ASSUME t.latch = 0 PROVE AtZero(i) /\ Core(Cycle(t)) = Core(t)
  BY <1>4, <1>6, <1>8, <1>9
<1>10. ASSUME t.latch > 0 PROVE ~AtZero(i) /\ Steady(Cycle(t).state)
        /\ Cycle(t).cnt = t.latch /\ Core(Reload(At(Cycle(t), 0))) = Core(t)
  BY <1>4, <1>5, <1>7, <1>8, <1>10
<1> QED BY <1>9, <1>10 DEF i

LEMMA OnePeriod ==
  ASSUME NEW c \in Courses, NEW k \in Nat, NEW t \in Timer,
         Core(c[k]) = Core(t), Restarted(t)
  PROVE  /\ Core(c[k + (t.latch + 1)]) = Core(t)
         /\ Underflown(c, k + (t.latch + 1)) = Underflown(c, k) + 1
<1> DEFINE w == c[k]
<1>1. w \in Timer /\ c[k + 1] = Cycle(w) /\ c[k + 1] \in Timer
      /\ Underflown(c, k) \in Nat /\ k + 1 \in Nat
      /\ Underflown(c, k + 1) = Underflown(c, k)
                                + (IF AtZero(Inc(w)) THEN 1 ELSE 0)
  <2>1. k + 1 \in Nat
    OBVIOUS
  <2> QED BY <2>1, CourseStep
<1>2. Core(w) = Core(t)
  OBVIOUS
<1> HIDE DEF w
<1>3. Restarted(w) /\ w.latch = t.latch /\ t.latch \in Nat
  <2>1. w.cnt = t.cnt /\ w.latch = t.latch
        /\ \A b : b \notin {"COUNT", "STEP"} => (b \in w.state <=> b \in t.state)
    BY <1>1, <1>2, CoreIs
  <2> QED BY <2>1 DEF Restarted, Timer
<1>4. CASE t.latch = 0
  <2>1. AtZero(Inc(w)) /\ Core(Cycle(w)) = Core(w)
    BY <1>1, <1>3, <1>4, RestartedCycle
  <2>2. k + (t.latch + 1) = k + 1
    BY <1>4
  <2> QED BY <1>1, <1>2, <2>1, <2>2
<1>5. CASE t.latch > 0
  <2> DEFINE x == Cycle(w)
  <2>1. ~AtZero(Inc(w)) /\ Steady(x.state) /\ x.cnt = t.latch
        /\ Core(Reload(At(x, 0))) = Core(w)
    BY <1>1, <1>3, <1>5, RestartedCycle
  <2>2. c[k + 1] = x /\ x \in Timer
    BY <1>1
  <2> HIDE DEF x
  <2>3. /\ Core(c[k + 1 + x.cnt]) = Core(Reload(At(x, 0)))
        /\ Underflown(c, k + 1 + x.cnt) = Underflown(c, k + 1) + 1
    BY <1>1, <1>5, <2>1, <2>2, CountsDown
  <2>4. k + 1 + x.cnt = k + (t.latch + 1)
    BY <1>3, <2>1
  <2> QED BY <1>1, <1>2, <2>1, <2>3, <2>4
<1> QED BY <1>3, <1>4, <1>5

LEMMA Periods ==
  ASSUME NEW c \in Courses, NEW k \in Nat, NEW t \in Timer,
         Core(c[k]) = Core(t), Restarted(t), NEW m \in Nat
  PROVE  /\ Core(c[k + m * (t.latch + 1)]) = Core(t)
         /\ Underflown(c, k + m * (t.latch + 1)) = Underflown(c, k) + m
<1> DEFINE p == t.latch + 1
           A == {n \in Nat : /\ Core(c[k + n * p]) = Core(t)
                             /\ Underflown(c, k + n * p) = Underflown(c, k) + n}
<1>1. t.latch \in Nat /\ p \in Nat /\ Underflown(c, k) \in Nat
  BY CourseStep DEF Timer
<1>2. 0 \in A
  <2>1. k + 0 * p = k /\ Underflown(c, k) + 0 = Underflown(c, k)
    BY <1>1
  <2> QED BY <2>1
<1>3. ASSUME NEW n \in A PROVE n + 1 \in A
  <2> DEFINE j == k + n * p
  <2>1. n \in Nat /\ Core(c[j]) = Core(t) /\ Underflown(c, j) = Underflown(c, k) + n
    BY <1>3
  <2>2. n * p \in Nat /\ (n + 1) * p = n * p + p
    BY <1>1, <2>1
  <2>3. j \in Nat /\ k + (n + 1) * p = j + p
    BY <1>1, <2>2
  <2> HIDE DEF j
  <2>4. Core(c[j + p]) = Core(t) /\ Underflown(c, j + p) = Underflown(c, j) + 1
    BY <2>1, <2>3, OnePeriod
  <2>5. Underflown(c, k) + n + 1 = Underflown(c, k) + (n + 1)
    BY <1>1, <2>1
  <2> QED BY <2>1, <2>3, <2>4, <2>5
<1>4. A = Nat
  <2>1. A \in SUBSET Nat
    OBVIOUS
  <2> HIDE DEF A
  <2> QED BY <1>2, <1>3, <2>1, Inductive
<1> QED BY <1>4

-----------------------------------------------------------------------------
(* One pass through the loop of ciat_update.                               *)
LEMMA WholePeriods ==
  ASSUME NEW a \in Nat, NEW p \in Nat, p > 0
  PROVE  a \div p \in Nat /\ (a \div p) * p <= a
OBVIOUS

LEMMA WarpIs ==
  ASSUME NEW t \in Timer, NEW cclk \in Int, t.clk < cclk, t.clk + t.cnt <= cclk
  PROVE  \E m \in Nat :
           /\ m * (t.latch + 1) <= cclk - (t.clk + t.cnt)
           /\ m > 0 => t.state \cap {"CR_ONESHOT", "ONESHOT0"} = {}
           /\ WarpCounting(t, cclk) =
                [timer |-> [t EXCEPT !.cnt = 0,
                                     !.clk = t.clk + t.cnt + m * (t.latch + 1)],
                 n |-> m]
<1> DEFINE zero == t.clk + t.cnt
           p == t.latch + 1
           oneshot == t.state \cap {"CR_ONESHOT", "ONESHOT0"} # {}
           m == IF oneshot \/ (cclk - zero) % 65536 < p THEN 0
                ELSE (cclk - zero) \div p
<1>1. p \in Nat /\ p > 0 /\ zero \in Int /\ cclk - zero \in Nat
  BY DEF Timer
<1> HIDE DEF p, zero
<1>2. (cclk - zero) \div p \in Nat /\ ((cclk - zero) \div p) * p <= cclk - zero
  BY <1>1, WholePeriods
<1>3. 0 * p = 0
  BY <1>1
<1>4. m \in Nat /\ m * p <= cclk - zero /\ (m > 0 => ~oneshot)
  <2> HIDE DEF oneshot
  <2> DEFINE a == (cclk - zero) \div p
             b == (cclk - zero) % 65536 < p
  <2>1. a \in Nat /\ a * p <= cclk - zero
    BY <1>2
  <2>2. m = IF oneshot \/ b THEN 0 ELSE a
    OBVIOUS
  <2> HIDE DEF a, b, m
  <2>3. CASE oneshot \/ b
    BY <1>1, <1>3, <2>2, <2>3
  <2>4. CASE ~(oneshot \/ b)
    BY <2>1, <2>2, <2>4
  <2> QED BY <2>3, <2>4
<1>5. ~(zero > cclk)
  BY <1>1
<1>6. WarpCounting(t, cclk) = [timer |-> [t EXCEPT !.cnt = 0, !.clk = zero + m * p],
                               n |-> m]
  BY <1>5 DEF WarpCounting, Period, zero, p
<1> HIDE DEF m
<1> QED BY <1>4, <1>6 DEF zero, p, oneshot

LEMMA PassIs ==
  ASSUME NEW t \in Timer, NEW cclk \in Int, t.clk < cclk
  PROVE  LET even == ((cclk - t.clk) \div 2) * 2 IN
         /\ Counting(t.state) => Pass(t, cclk) = WarpCounting(t, cclk)
         /\ Stopped(t.state) => Pass(t, cclk) = [timer |-> [t EXCEPT !.clk = cclk], n |-> 0]
         /\ EveryOtherCycle(t) /\ even > 0 =>
              Pass(t, cclk) = [timer |-> [t EXCEPT !.clk = t.clk + even], n |-> even \div 2]
         /\ ~Counting(t.state) /\ ~Stopped(t.state) /\ ~(EveryOtherCycle(t) /\ even > 0) =>
              Pass(t, cclk) = [timer |-> [Inc(t) EXCEPT !.clk = t.clk + 1], n |-> 0]
<1> DEFINE even == ((cclk - t.clk) \div 2) * 2
           K == Counting(t.state)
           S == Stopped(t.state)
           E == EveryOtherCycle(t) /\ even > 0
           k == WarpCounting(t, cclk)
           s == [timer |-> [t EXCEPT !.clk = cclk], n |-> 0]
           e == [timer |-> [t EXCEPT !.clk = t.clk + even], n |-> even \div 2]
           o == [timer |-> [Inc(t) EXCEPT !.clk = t.clk + 1], n |-> 0]
<1>1. ~(K /\ S) /\ ~(K /\ E) /\ ~(S /\ E)
  BY DEF Counting, Stopped, NotCounting, EveryOtherCycle
<1>2. Pass(t, cclk) = CASE K -> k [] S -> s [] E -> e [] OTHER -> o
  BY DEF Pass
<1> HIDE DEF K, S, E, k, s, e, o
<1>3. /\ K => Pass(t, cclk) = k
      /\ S => Pass(t, cclk) = s
      /\ E => Pass(t, cclk) = e
      /\ ~K /\ ~S /\ ~E => Pass(t, cclk) = o
  BY <1>1, <1>2
<1> QED BY <1>3 DEF K, S, E, k, s, e, o

LEMMA ReloadSkips ==
  ASSUME NEW t \in Timer, ~AtZero(t), "LOAD" \notin t.state, "OUT" \notin t.state
  PROVE  Core(Reload(t)) = Core(t)
<1> DEFINE r == Reload(t)
<1>1. r.latch = t.latch /\ r.cnt = t.cnt /\ r \in Timer
      /\ \A b : b \in r.state <=> b \in t.state
  BY Reloaded
<1> HIDE DEF r
<1>2. r.state = t.state
  BY <1>1
<1> QED BY <1>1, <1>2 DEF Core, r

Replay == [timer : Timer, n : Nat]

(* The pass that ends with r has replayed d cycles from the k-th on.       *)
Replays(c, k, u, r, d) ==
  /\ r \in Replay
  /\ r.timer.clk = u.timer.clk + d
  /\ Core(c[k + d]) = Core(r.timer)
  /\ r.n + Underflown(c, k) = u.n + Underflown(c, k + d)

LEMMA EndIs ==
  ASSUME NEW p \in Replay, NEW n \in Nat
  PROVE  /\ EndOfPass(p, n) \in Replay
         /\ EndOfPass(p, n).timer = Reload(p.timer)
         /\ EndOfPass(p, n).timer.clk = p.timer.clk
         /\ EndOfPass(p, n).n = n + p.n + (IF AtZero(p.timer) THEN 1 ELSE 0)
<1>1. p.timer \in Timer /\ p.n \in Nat
  BY DEF Replay
<1>2. Reload(p.timer) \in Timer /\ Reload(p.timer).clk = p.timer.clk
  BY <1>1, Reloaded
<1> QED BY <1>1, <1>2 DEF EndOfPass, Replay

LEMMA CountingTurn ==
  ASSUME NEW c \in Courses, NEW k \in Nat, NEW u \in Replay, NEW cclk \in Int,
         u.timer.clk < cclk, Core(c[k]) = Core(u.timer), Regular(u.timer),
         Counting(u.timer.state)
  PROVE  \E d \in 1..cclk - u.timer.clk : Replays(c, k, u, Turn(u, cclk), d)
<1> DEFINE t == u.timer
           n == u.n
           r == Turn(u, cclk)
<1>1. t \in Timer /\ n \in Nat /\ t.cnt \in Nat /\ t.latch \in Nat /\ t.clk \in Int
      /\ t.clk < cclk /\ Core(c[k]) = Core(t) /\ Regular(t) /\ Counting(t.state)
      /\ Underflown(c, k) \in Nat
  BY CourseStep DEF Replay, Timer
<1>2. r = EndOfPass(WarpCounting(t, cclk), n)
  BY <1>1, PassIs DEF Turn
<1> HIDE DEF t, n, r
<1>3. Steady(t.state) /\ t.cnt > 0
  BY <1>1 DEF Regular, Counting, Steady
<1>4. CASE t.clk + t.cnt > cclk
  <2> DEFINE d == cclk - t.clk
             w == [t EXCEPT !.cnt = t.cnt - d, !.clk = cclk]
             v == [t EXCEPT !.clk = cclk]
             p == [timer |-> w, n |-> 0]
  <2>1. d \in 1..t.cnt - 1 /\ t.cnt - d \in Nat /\ t.cnt - d > 0
    BY <1>1, <1>4
  <2>2. w \in Timer /\ w.cnt = t.cnt - d /\ w.latch = t.latch /\ w.state = t.state
        /\ w.clk = cclk
    <3>1. v \in Timer /\ v.clk = cclk /\ v.latch = t.latch /\ v.state = t.state
      BY <1>1 DEF Timer
    <3>2. w = At(v, t.cnt - d)
      BY <1>1 DEF At, Timer
    <3> HIDE DEF w, v, d
    <3> QED BY <2>1, <3>1, <3>2, AtIs
  <2>3. WarpCounting(t, cclk) = p
    BY <1>4 DEF WarpCounting
  <2> HIDE DEF w
  <2>4. p \in Replay /\ p.timer = w /\ p.n = 0
    BY <2>2 DEF Replay
  <2> HIDE DEF p
  <2>5. ~AtZero(w) /\ "LOAD" \notin w.state /\ "OUT" \notin w.state
    BY <1>3, <2>1, <2>2 DEF AtZero, Steady
  <2>6. r \in Replay /\ r.timer = Reload(w) /\ r.timer.clk = cclk /\ r.n = n
    <3>1. r = EndOfPass(p, n)
      BY <1>2, <2>3
    <3>2. r \in Replay /\ r.timer = Reload(p.timer) /\ r.timer.clk = p.timer.clk
          /\ r.n = n + p.n + (IF AtZero(p.timer) THEN 1 ELSE 0)
      BY <1>1, <2>4, <3>1, EndIs
    <3> QED BY <1>1, <2>2, <2>4, <2>5, <3>2
  <2>7. Core(r.timer) = Core(w)
    BY <2>2, <2>5, <2>6, ReloadSkips
  <2>8. Core(c[k + d]) = Core(At(t, t.cnt - d)) /\ Underflown(c, k + d) = Underflown(c, k)
    <3>1. d \in 0..t.cnt - 1
      BY <2>1
    <3> HIDE DEF d
    <3> QED BY <1>1, <1>3, <3>1, CountsDown
  <2>9. Core(At(t, t.cnt - d)) = Core(w)
    <3> HIDE DEF d
    <3> QED BY <1>1, <2>1, <2>2, AtIs DEF Core
  <2>10. d \in 1..cclk - t.clk /\ cclk = t.clk + d
    BY <1>1
  <2>11. Replays(c, k, u, r, d)
    <3> HIDE DEF d
    <3> QED BY <2>6, <2>7, <2>8, <2>9, <2>10 DEF Replays, t, n
  <2> QED BY <2>10, <2>11 DEF t, r
<1>5. CASE t.clk + t.cnt <= cclk
  <2>1. PICK m \in Nat :
           /\ m * (t.latch + 1) <= cclk - (t.clk + t.cnt)
           /\ m > 0 => t.state \cap {"CR_ONESHOT", "ONESHOT0"} = {}
           /\ WarpCounting(t, cclk) =
                [timer |-> [t EXCEPT !.cnt = 0,
                                     !.clk = t.clk + t.cnt + m * (t.latch + 1)],
                 n |-> m]
    BY <1>1, <1>5, WarpIs
  <2> DEFINE a == m * (t.latch + 1)
             d == t.cnt + a
             clk == t.clk + d
             w == [t EXCEPT !.cnt = 0, !.clk = t.clk + t.cnt + a]
             v == [t EXCEPT !.clk = t.clk + t.cnt + a]
             z == At(t, 0)
             p == [timer |-> w, n |-> m]
  <2>2. a \in Nat /\ a <= cclk - (t.clk + t.cnt)
    BY <1>1, <2>1
  <2>3. WarpCounting(t, cclk) = p
    BY <2>1
  <2> HIDE DEF a
  <2>4. d \in 1..cclk - t.clk /\ clk \in Int /\ t.clk + t.cnt + a = clk
    BY <1>1, <1>3, <2>2
  <2>5. w \in Timer /\ w.cnt = 0 /\ w.latch = t.latch /\ w.state = t.state
        /\ w.clk = clk
    <3>1. t.clk + t.cnt + a \in Int
      BY <2>4
    <3>2. v \in Timer /\ v.clk = clk /\ v.latch = t.latch /\ v.state = t.state
      BY <1>1, <2>4, <3>1 DEF Timer
    <3>3. w = At(v, 0)
      BY <1>1 DEF At, Timer
    <3> HIDE DEF w, v, clk
    <3> QED BY <3>2, <3>3, AtIs
  <2> HIDE DEF w
  <2>6. p \in Replay /\ p.timer = w /\ p.n = m
    BY <2>1, <2>5 DEF Replay
  <2> HIDE DEF p
  <2>7. AtZero(w)
    BY <1>3, <2>5 DEF AtZero, Steady
  <2>8. r \in Replay /\ r.timer = Reload(w) /\ r.timer.clk = clk /\ r.n = n + m + 1
    BY <1>1, <1>2, <2>3, <2>5, <2>6, <2>7, EndIs
  <2>9. z \in Timer /\ z.cnt = 0 /\ z.latch = t.latch /\ z.state = t.state /\ AtZero(z)
    BY <1>1, <1>3, AtIs DEF AtZero, Steady
  <2>10. Core(r.timer) = Core(Reload(z))
    <3>1. Core(w) = Core(z)
      BY <2>5, <2>9 DEF Core
    <3> HIDE DEF z
    <3> QED BY <2>5, <2>8, <2>9, <3>1, CoreReloads
  <2>11. /\ Core(c[k + t.cnt]) = Core(Reload(z))
         /\ Underflown(c, k + t.cnt) = Underflown(c, k) + 1
         /\ k + t.cnt \in Nat
    BY <1>1, <1>3, CountsDown
  <2>12. Core(c[k + d]) = Core(Reload(z)) /\ Underflown(c, k + d) = Underflown(c, k) + 1 + m
    <3>1. k + t.cnt + a = k + d
      BY <1>1, <2>2
    <3>2. CASE m = 0
      <4>1. a = 0 /\ k + t.cnt = k + d
        BY <1>1, <3>2 DEF a
      <4> QED BY <1>1, <2>11, <3>2, <4>1
    <3>3. CASE m > 0
      <4> DEFINE x == Reload(z)
      <4>1. t.state \cap {"CR_ONESHOT", "ONESHOT0"} = {} /\ "ONESHOT" \notin t.state
            /\ t.state \in SUBSET Bits
        BY <1>1, <1>3, <2>1, <3>3 DEF Steady, ModeIsSteady, Timer
      <4>2. x \in Timer /\ x.latch = t.latch /\ x.cnt = t.latch
        BY <2>9, Reloaded
      <4>3. \A b : b \in x.state <=>
              /\ b \in z.state \/ (AtZero(z) /\ b \in {"LOAD", "OUT"})
              /\ b = "COUNT3" => ~("LOAD" \in z.state \/ AtZero(z))
              /\ b \in {"START", "COUNT2"} =>
                   ~(/\ "OUT" \in z.state \/ AtZero(z)
                     /\ "ONESHOT" \in z.state \/ "ONESHOT0" \in z.state)
        BY <2>9, Reloaded
      <4> HIDE DEF x, z
      <4>4. \A b : b \notin {"COUNT", "STEP"} =>
              (b \in z.state <=> b \in {"START", "PHI2IN", "COUNT2", "COUNT3"})
        BY <1>3, <2>9, <4>1 DEF Steady, Bits
      <4>5. \A b : b \notin {"COUNT", "STEP"} =>
              (b \in x.state <=> b \in {"START", "PHI2IN", "COUNT2", "LOAD", "OUT"})
        BY <2>9, <4>3, <4>4
      <4>6. Restarted(x)
        BY <4>2, <4>5 DEF Restarted
      <4>7. Core(c[k + t.cnt]) = Core(x)
        BY <2>11 DEF x
      <4>8. /\ Core(c[k + t.cnt + m * (x.latch + 1)]) = Core(x)
            /\ Underflown(c, k + t.cnt + m * (x.latch + 1)) = Underflown(c, k + t.cnt) + m
        BY <2>11, <4>2, <4>6, <4>7, Periods
      <4>9. m * (x.latch + 1) = a
        BY <4>2 DEF a
      <4> QED BY <2>11, <3>1, <4>8, <4>9 DEF x
    <3> QED BY <3>2, <3>3
  <2>13. r.n + Underflown(c, k) = n + Underflown(c, k + d)
    BY <1>1, <2>1, <2>8, <2>12
  <2>14. r.timer.clk = t.clk + d
    BY <2>8
  <2>15. Replays(c, k, u, r, d)
    <3> HIDE DEF d, z
    <3> QED BY <2>8, <2>10, <2>12, <2>13, <2>14 DEF Replays, t, n
  <2> QED BY <2>4, <2>15 DEF t, r
<1> QED BY <1>1, <1>4, <1>5

LEMMA RestingCycle ==
  ASSUME NEW t \in Timer, Stopped(t.state), Regular(t)
  PROVE  ~AtZero(Inc(t)) /\ Core(Cycle(t)) = Core(t)
<1> DEFINE i == Inc(t)
<1>1. i \in Timer /\ i.latch = t.latch /\ i.cnt = t.cnt /\ i.state = Pipeline(t.state)
  BY IncIs DEF Stopped, NotCounting
<1>2. t.state \in SUBSET Bits
  BY DEF Timer
<1>3. /\ \A b : b # "STEP" => (b \in Pipeline(t.state) <=> b \in t.state)
      /\ ~Stepped(Pipeline(t.state)) /\ ~Stepped(t.state)
  <2>1. \A b \in Bits : b # "STEP" => (b \in Pipeline(t.state) <=> b \in t.state)
    BY DEF Stopped, NotCounting, ModeIsSteady, Regular, Pipeline, Given, Bits
  <2>2. Pipeline(t.state) \in SUBSET Bits
    BY DEF Pipeline, Given, Bits
  <2>3. ~Stepped(Pipeline(t.state)) /\ ~Stepped(t.state)
    BY DEF Stopped, NotCounting, Stepped, Pipeline, Given
  <2> QED BY <1>2, <2>1, <2>2, <2>3
<1> HIDE DEF i
<1>4. ~AtZero(i) /\ "LOAD" \notin i.state /\ "OUT" \notin i.state
  BY <1>1, <1>3 DEF AtZero, Stopped, NotCounting, Regular
<1>5. Core(Reload(i)) = Core(i) /\ Core(i) = Core(t)
  BY <1>1, <1>3, <1>4, ReloadSkips, CoreIs
<1> QED BY <1>4, <1>5 DEF Cycle, i

LEMMA StoppedTurn ==
  ASSUME NEW c \in Courses, NEW k \in Nat, NEW u \in Replay, NEW cclk \in Int,
         u.timer.clk < cclk, Core(c[k]) = Core(u.timer), Regular(u.timer),
         Stopped(u.timer.state)
  PROVE  \E d \in 1..cclk - u.timer.clk : Replays(c, k, u, Turn(u, cclk), d)
<1> DEFINE t == u.timer
           n == u.n
           r == Turn(u, cclk)
           w == [t EXCEPT !.clk = cclk]
           p == [timer |-> w, n |-> 0]
           d == cclk - t.clk
<1>1. t \in Timer /\ n \in Nat /\ t.cnt \in Nat /\ t.latch \in Nat /\ t.clk \in Int
      /\ t.clk < cclk /\ Core(c[k]) = Core(t) /\ Regular(t) /\ Stopped(t.state)
      /\ Underflown(c, k) \in Nat
  BY CourseStep DEF Replay, Timer
<1>2. r = EndOfPass(p, n)
  BY <1>1, PassIs DEF Turn
<1>3. d \in 1..cclk - t.clk /\ t.clk + d = cclk /\ d \in Nat
  BY <1>1
<1> HIDE DEF t, n, r, d
<1>4. w \in Timer /\ w.clk = cclk /\ w.state = t.state /\ Core(w) = Core(t)
  BY <1>1 DEF Timer, Core
<1> HIDE DEF w
<1>5. p \in Replay /\ p.timer = w /\ p.n = 0
  BY <1>4 DEF Replay
<1> HIDE DEF p
<1>6. ~AtZero(w) /\ "LOAD" \notin w.state /\ "OUT" \notin w.state
  BY <1>1, <1>4 DEF AtZero, Stopped, NotCounting, Regular
<1>7. r \in Replay /\ r.timer = Reload(w) /\ r.timer.clk = cclk /\ r.n = n
  <2>1. r \in Replay /\ r.timer = Reload(p.timer) /\ r.timer.clk = p.timer.clk
          /\ r.n = n + p.n + (IF AtZero(p.timer) THEN 1 ELSE 0)
    BY <1>1, <1>2, <1>5, EndIs
  <2> QED BY <1>1, <1>4, <1>5, <1>6, <2>1
<1>8. Core(r.timer) = Core(t)
  BY <1>4, <1>6, <1>7, ReloadSkips
<1>9. Core(c[k + d]) = Core(t) /\ Underflown(c, k + d) = Underflown(c, k)
  <2>1. ~AtZero(Inc(t)) /\ Core(Cycle(t)) = Core(t)
    BY <1>1, RestingCycle
  <2> DEFINE A == {i \in Nat : Core(c[k + i]) = Core(t)
                               /\ Underflown(c, k + i) = Underflown(c, k)}
  <2>2. 0 \in A
    <3>1. k + 0 = k
      OBVIOUS
    <3> QED BY <1>1, <3>1
  <2>3. ASSUME NEW i \in A PROVE i + 1 \in A
    <3> DEFINE x == c[k + i]
    <3>1. i \in Nat /\ k + i \in Nat /\ k + (i + 1) = k + i + 1 /\ Core(x) = Core(t)
          /\ Underflown(c, k + i) = Underflown(c, k)
      OBVIOUS
    <3>2. x \in Timer /\ c[k + i + 1] = Cycle(x)
          /\ Underflown(c, k + i + 1) = Underflown(c, k + i)
                                        + (IF AtZero(Inc(x)) THEN 1 ELSE 0)
      BY <3>1, CourseStep
    <3> HIDE DEF x
    <3>3. AtZero(Inc(x)) = AtZero(Inc(t)) /\ Core(Cycle(x)) = Core(Cycle(t))
      BY <1>1, <3>1, <3>2, CoreDecides
    <3> QED BY <1>1, <2>1, <3>1, <3>2, <3>3
  <2>4. A \in SUBSET Nat
    OBVIOUS
  <2> HIDE DEF A
  <2>5. A = Nat
    BY <2>2, <2>3, <2>4, Inductive
  <2>6. d \in A
    BY <1>3, <2>5
  <2> QED BY <2>6 DEF A
<1>10. Replays(c, k, u, r, d)
  BY <1>1, <1>3, <1>7, <1>8, <1>9 DEF Replays, t, n
<1> QED BY <1>3, <1>10 DEF t, r

LEMMA EveryOtherTurn ==
  ASSUME NEW c \in Courses, NEW k \in Nat, NEW u \in Replay, NEW cclk \in Int,
         u.timer.clk < cclk, Core(c[k]) = Core(u.timer),
         EveryOtherCycle(u.timer), ((cclk - u.timer.clk) \div 2) * 2 > 0
  PROVE  \E d \in 1..cclk - u.timer.clk : Replays(c, k, u, Turn(u, cclk), d)
<1> DEFINE t == u.timer
           n == u.n
           r == Turn(u, cclk)
           m == (cclk - t.clk) \div 2
           d == m * 2
           w == [t EXCEPT !.clk = t.clk + d]
           p == [timer |-> w, n |-> d \div 2]
<1>1. t \in Timer /\ n \in Nat /\ t.clk \in Int /\ t.clk < cclk /\ Core(c[k]) = Core(t)
      /\ t.cnt = 1 /\ t.latch = 1
      /\ t.state = {"COUNT", "OUT", "LOAD", "PHI2IN", "COUNT2", "START"}
      /\ Underflown(c, k) \in Nat
  BY CourseStep DEF Replay, Timer, EveryOtherCycle
<1>2. r = EndOfPass(p, n)
  BY <1>1, PassIs DEF Turn
<1>3. m \in Nat /\ d \in 1..cclk - t.clk /\ d \div 2 = m
  BY <1>1
<1> HIDE DEF t, n, r, m
<1>4. w \in Timer /\ w.clk = t.clk + d /\ w.state = t.state /\ Core(w) = Core(t)
      /\ w.cnt = 1 /\ w.latch = 1
  <2>1. w \in Timer /\ w.clk = t.clk + d /\ w.state = t.state /\ w.cnt = t.cnt
        /\ w.latch = t.latch
    BY <1>1, <1>3 DEF Timer
  <2> HIDE DEF w
  <2>2. Core(w) = Core(t)
    BY <2>1 DEF Core
  <2> QED BY <1>1, <2>1, <2>2
<1> HIDE DEF w
<1>5. p \in Replay /\ p.timer = w /\ p.n = m
  BY <1>3, <1>4 DEF Replay
<1> HIDE DEF p
<1>6. ~AtZero(w)
  BY <1>4 DEF AtZero
<1>7. r \in Replay /\ r.timer = Reload(w) /\ r.timer.clk = t.clk + d /\ r.n = n + m
  <2>1. r \in Replay /\ r.timer = Reload(p.timer) /\ r.timer.clk = p.timer.clk
          /\ r.n = n + p.n + (IF AtZero(p.timer) THEN 1 ELSE 0)
    BY <1>1, <1>2, <1>5, EndIs
  <2> QED BY <1>1, <1>3, <1>4, <1>5, <1>6, <2>1
<1>8. Core(r.timer) = Core(t)
  <2> DEFINE q == Reload(w)
  <2>1. q.latch = w.latch /\ q.cnt = w.cnt /\ q \in Timer
        /\ \A b : b \in q.state <=>
              /\ b \in w.state \/ (AtZero(w) /\ b \in {"LOAD", "OUT"})
              /\ b = "COUNT3" => ~("LOAD" \in w.state \/ AtZero(w))
              /\ b \in {"START", "COUNT2"} =>
                   ~(/\ "OUT" \in w.state \/ AtZero(w)
                     /\ "ONESHOT" \in w.state \/ "ONESHOT0" \in w.state)
    BY <1>4, Reloaded
  <2> HIDE DEF q
  <2>2. q.state = w.state
    BY <1>1, <1>4, <1>6, <2>1
  <2> QED BY <1>4, <1>7, <2>1, <2>2 DEF Core, q
<1>9. Core(c[k + d]) = Core(t) /\ Underflown(c, k + d) = Underflown(c, k) + m
  <2>1. Restarted(t)
    BY <1>1 DEF Restarted
  <2>2. /\ Core(c[k + m * (t.latch + 1)]) = Core(t)
        /\ Underflown(c, k + m * (t.latch + 1)) = Underflown(c, k) + m
    BY <1>1, <1>3, <2>1, Periods
  <2>3. t.latch + 1 = 2
    BY <1>1
  <2> QED BY <2>2, <2>3
<1>10. Replays(c, k, u, r, d)
  <2> HIDE DEF d
  <2> QED BY <1>1, <1>3, <1>7, <1>8, <1>9 DEF Replays, t, n
<1> QED BY <1>3, <1>10 DEF t, r

LEMMA SingleTurn ==
  ASSUME NEW c \in Courses, NEW k \in Nat, NEW u \in Replay, NEW cclk \in Int,
         u.timer.clk < cclk, Core(c[k]) = Core(u.timer),
         Turn(u, cclk) = EndOfPass([timer |-> [Inc(u.timer) EXCEPT !.clk = u.timer.clk + 1],
                                    n |-> 0], u.n)
  PROVE  \E d \in 1..cclk - u.timer.clk : Replays(c, k, u, Turn(u, cclk), d)
<1> DEFINE t == u.timer
           n == u.n
           r == Turn(u, cclk)
           i == Inc(t)
           w == [i EXCEPT !.clk = t.clk + 1]
           p == [timer |-> w, n |-> 0]
<1>1. t \in Timer /\ n \in Nat /\ t.clk \in Int /\ t.clk < cclk /\ Core(c[k]) = Core(t)
      /\ Underflown(c, k) \in Nat /\ i \in Timer
  BY CourseStep, IncIs DEF Replay, Timer
<1>2. r = EndOfPass(p, n)
  OBVIOUS
<1>3. 1 \in 1..cclk - t.clk
  BY <1>1
<1>4. /\ c[k] \in Timer /\ c[k + 1] = Cycle(c[k])
      /\ Underflown(c, k + 1) = Underflown(c, k) + (IF AtZero(Inc(c[k])) THEN 1 ELSE 0)
  BY CourseStep
<1>5. AtZero(Inc(c[k])) = AtZero(i) /\ Core(c[k + 1]) = Core(Reload(i))
  <2>1. AtZero(Inc(c[k])) = AtZero(Inc(t)) /\ Core(Cycle(c[k])) = Core(Cycle(t))
    BY <1>1, <1>4, CoreDecides
  <2> QED BY <1>4, <2>1 DEF Cycle
<1> HIDE DEF t, n, r, i
<1>6. w \in Timer /\ w.clk = t.clk + 1 /\ Core(w) = Core(i)
  BY <1>1 DEF Timer, Core
<1> HIDE DEF w
<1>7. p \in Replay /\ p.timer = w /\ p.n = 0
  BY <1>6 DEF Replay
<1> HIDE DEF p
<1>8. r \in Replay /\ r.timer = Reload(p.timer) /\ r.timer.clk = p.timer.clk
      /\ r.n = n + p.n + (IF AtZero(p.timer) THEN 1 ELSE 0)
  BY <1>1, <1>2, <1>7, EndIs
<1>9. AtZero(w) = AtZero(i) /\ Core(Reload(w)) = Core(Reload(i))
  BY <1>1, <1>6, CoreReloads
<1>10. r.n + Underflown(c, k) = n + Underflown(c, k + 1)
  BY <1>1, <1>4, <1>5, <1>7, <1>8, <1>9
<1>11. Replays(c, k, u, r, 1)
  BY <1>5, <1>6, <1>7, <1>8, <1>9, <1>10 DEF Replays, t, n
<1> QED BY <1>3, <1>11 DEF t, r

(* However many cycles one pass takes at once, they are the cycles the     *)
(* timer would have counted one by one; and a pass takes time.             *)
LEMMA TurnReplays ==
  ASSUME NEW c \in Courses, NEW k \in Nat, NEW u \in Replay, NEW cclk \in Int,
         u.timer.clk < cclk, Core(c[k]) = Core(u.timer), Regular(u.timer)
  PROVE  \E d \in 1..cclk - u.timer.clk : Replays(c, k, u, Turn(u, cclk), d)
<1> DEFINE t == u.timer
           even == ((cclk - t.clk) \div 2) * 2
<1>1. t \in Timer /\ u.n \in Nat
  BY DEF Replay
<1>2. CASE Counting(t.state)
  BY <1>2, CountingTurn
<1>3. CASE Stopped(t.state)
  BY <1>3, StoppedTurn
<1>4. CASE EveryOtherCycle(t) /\ even > 0
  BY <1>4, EveryOtherTurn
<1>5. CASE ~Counting(t.state) /\ ~Stopped(t.state) /\ ~(EveryOtherCycle(t) /\ even > 0)
  <2>1. t.clk \in Int
    BY <1>1 DEF Timer
  <2>2. Turn(u, cclk) = EndOfPass([timer |-> [Inc(t) EXCEPT !.clk = t.clk + 1], n |-> 0], u.n)
    BY <1>1, <1>5, <2>1, PassIs DEF Turn
  <2> QED BY <2>2, SingleTurn
<1> QED BY <1>2, <1>3, <1>4, <1>5

-----------------------------------------------------------------------------
(* The alarm has nothing to do with the replay.                           *)
LEMMA ReloadKeepsAlarm ==
  ASSUME NEW i \in Timer
  PROVE  Reload(i).alarmclk = i.alarmclk /\ Reload(i).pending = i.pending
<1> DEFINE z == Zeroed(i)
           l == Loaded(z)
<1>1. z \in Timer /\ z.alarmclk = i.alarmclk /\ z.pending = i.pending
  BY DEF Zeroed, Given, Timer, Bits
<1> HIDE DEF z
<1>2. l \in Timer /\ l.alarmclk = z.alarmclk /\ l.pending = z.pending
  BY <1>1 DEF Loaded, Timer
<1> HIDE DEF l
<1>3. Halted(l).alarmclk = l.alarmclk /\ Halted(l).pending = l.pending
  BY <1>2 DEF Halted, Timer
<1> QED BY <1>1, <1>2, <1>3 DEF Reload, l, z

LEMMA PassKeepsAlarm ==
  ASSUME NEW t \in Timer, NEW cclk \in Int, t.clk < cclk
  PROVE  LET p == Pass(t, cclk).timer IN
         p \in Timer /\ p.alarmclk = t.alarmclk /\ p.pending = t.pending
<1> DEFINE even == ((cclk - t.clk) \div 2) * 2
           p == Pass(t, cclk).timer
           Kept == p \in Timer /\ p.alarmclk = t.alarmclk /\ p.pending = t.pending
<1>1. t.clk \in Int /\ t.cnt \in Nat /\ even \in Int
  BY DEF Timer
<1>2. ASSUME Counting(t.state) PROVE Kept
  <2>1. Pass(t, cclk) = WarpCounting(t, cclk)
    BY <1>2, PassIs
  <2>2. CASE t.clk + t.cnt > cclk
    <3>1. p = [t EXCEPT !.cnt = t.cnt - (cclk - t.clk), !.clk = cclk]
      BY <2>1, <2>2 DEF WarpCounting
    <3>2. t.cnt - (cclk - t.clk) \in Nat
      BY <1>1, <2>2
    <3> QED BY <3>1, <3>2 DEF Timer
  <2>3. CASE t.clk + t.cnt <= cclk
    <3>1. PICK m \in Nat : WarpCounting(t, cclk) =
                [timer |-> [t EXCEPT !.cnt = 0,
                                     !.clk = t.clk + t.cnt + m * (t.latch + 1)],
                 n |-> m]
      BY <2>3, WarpIs
    <3>2. m * (t.latch + 1) \in Nat
      BY DEF Timer
    <3> DEFINE a == m * (t.latch + 1)
    <3>3. p = [t EXCEPT !.cnt = 0, !.clk = t.clk + t.cnt + a]
      BY <2>1, <3>1
    <3>4. t.clk + t.cnt + a \in Int
      BY <1>1, <3>2
    <3> HIDE DEF a, p
    <3> QED BY <3>3, <3>4 DEF Timer
  <2> QED BY <1>1, <2>2, <2>3
<1>3. ASSUME Stopped(t.state) PROVE Kept
  <2>1. p = [t EXCEPT !.clk = cclk]
    BY <1>3, PassIs
  <2> QED BY <2>1 DEF Timer
<1>4. ASSUME EveryOtherCycle(t) /\ even > 0 PROVE Kept
  <2>1. p = [t EXCEPT !.clk = t.clk + even]
    BY <1>4, PassIs
  <2> HIDE DEF even, p
  <2> QED BY <1>1, <2>1 DEF Timer
<1>5. ASSUME ~Counting(t.state), ~Stopped(t.state), ~(EveryOtherCycle(t) /\ even > 0)
      PROVE  Kept
  <2> DEFINE i == Inc(t)
  <2>1. p = [i EXCEPT !.clk = t.clk + 1]
    BY <1>5, PassIs
  <2>2. i \in Timer
    BY IncIs
  <2>3. i.alarmclk = t.alarmclk /\ i.pending = t.pending
    BY DEF Inc, Timer
  <2> HIDE DEF i, p
  <2> QED BY <1>1, <2>1, <2>2, <2>3 DEF Timer
<1> QED BY <1>2, <1>3, <1>4, <1>5

LEMMA TurnKeepsAlarm ==
  ASSUME NEW u \in Replay, NEW cclk \in Int
  PROVE  LET r == Turn(u, cclk).timer IN
         r.alarmclk = u.timer.alarmclk /\ r.pending = u.timer.pending
<1>1. u.timer \in Timer /\ u.timer.clk \in Int
  BY DEF Replay, Timer
<1>2. CASE u.timer.clk >= cclk
  BY <1>2 DEF Turn
<1>3. CASE u.timer.clk < cclk
  <2>1. ~(u.timer.clk >= cclk)
    BY <1>1, <1>3
  <2>2. Turn(u, cclk).timer = Reload(Pass(u.timer, cclk).timer)
    BY <2>1 DEF Turn, EndOfPass
  <2> QED BY <1>1, <1>3, <2>2, PassKeepsAlarm, ReloadKeepsAlarm
<1> QED BY <1>1, <1>2, <1>3

(* A timer with STEP set runs and does not count by itself: then no cycle   *)
(* is skipped, and the bit does not outlive the cycle that counts it.      *)
StepIsLive(t) == "STEP" \in t.state => Stepped(t.state)

LEMMA TurnDropsStep ==
  ASSUME NEW u \in Replay, NEW cclk \in Int, u.timer.clk < cclk, StepIsLive(u.timer)
  PROVE  "STEP" \notin Turn(u, cclk).timer.state
<1> DEFINE t == u.timer
           p == Pass(t, cclk).timer
           even == ((cclk - t.clk) \div 2) * 2
<1>1. t \in Timer /\ ~(t.clk >= cclk) /\ t.clk < cclk /\ t.clk \in Int
      /\ ("STEP" \in t.state => {"STEP", "START"} \subseteq t.state /\ "COUNT2" \notin t.state)
  BY DEF Replay, Timer, StepIsLive, Stepped
<1>2. Turn(u, cclk).timer = Reload(p)
  BY <1>1 DEF Turn, EndOfPass
<1>3. p \in Timer
  BY <1>1, PassKeepsAlarm
<1>4. "STEP" \notin p.state
  <2>1. CASE Counting(t.state)
    <3>1. Pass(t, cclk) = WarpCounting(t, cclk)
      BY <1>1, <2>1, PassIs
    <3>2. p.state = t.state
      BY <1>1, <3>1 DEF WarpCounting, Timer
    <3>3. "COUNT2" \in t.state
      BY <2>1 DEF Counting
    <3> QED BY <1>1, <3>2, <3>3
  <2>2. CASE Stopped(t.state)
    <3>1. p = [t EXCEPT !.clk = cclk]
      BY <1>1, <2>2, PassIs
    <3>2. p.state = t.state
      BY <1>1, <3>1 DEF Timer
    <3> QED BY <1>1, <2>2, <3>2 DEF Stopped, NotCounting
  <2>3. CASE EveryOtherCycle(t) /\ even > 0
    <3>1. p = [t EXCEPT !.clk = t.clk + even]
      BY <1>1, <2>3, PassIs
    <3>2. p.state = t.state
      BY <1>1, <3>1 DEF Timer
    <3> QED BY <2>3, <3>2 DEF EveryOtherCycle
  <2>4. CASE ~Counting(t.state) /\ ~Stopped(t.state) /\ ~(EveryOtherCycle(t) /\ even > 0)
    <3>1. p = [Inc(t) EXCEPT !.clk = t.clk + 1]
      BY <1>1, <2>4, PassIs
    <3>2. Inc(t) \in Timer /\ Inc(t).state = Pipeline(t.state)
      BY <1>1, IncIs
    <3>3. p.state = Pipeline(t.state)
      BY <3>1, <3>2 DEF Timer
    <3> QED BY <3>3 DEF Pipeline, Given
  <2> QED BY <2>1, <2>2, <2>3, <2>4
<1> QED BY <1>2, <1>3, <1>4, Reloaded

(* The whole loop: after every pass the timer is the one of some cycle     *)
(* between the first and the last, with the underflows up to there.        *)
Between(c, t, cclk) ==
  {u \in Replay : \E d \in 0..cclk - t.clk :
     /\ u.timer.clk = t.clk + d
     /\ Core(c[d]) = Core(u.timer)
     /\ Regular(u.timer)
     /\ u.n = Underflown(c, d)
     /\ u.timer.alarmclk = t.alarmclk
     /\ u.timer.pending = t.pending
     /\ StepIsLive(t) => StepIsLive(u.timer) /\ (d > 0 => "STEP" \notin u.timer.state)}

LEMMA TurnStaysBetween ==
  ASSUME NEW c \in Courses, NEW t \in Timer, NEW cclk \in Int, t.clk <= cclk,
         NEW u \in Between(c, t, cclk)
  PROVE  LET r == Turn(u, cclk) IN
         /\ r \in Between(c, t, cclk)
         /\ u.timer.clk < cclk => r.timer.clk > u.timer.clk
         /\ ~(u.timer.clk < cclk) => r = u
<1> DEFINE r == Turn(u, cclk)
<1>1. PICK k \in 0..cclk - t.clk : /\ u.timer.clk = t.clk + k
                                   /\ Core(c[k]) = Core(u.timer)
                                   /\ Regular(u.timer)
                                   /\ u.n = Underflown(c, k)
                                   /\ u.timer.alarmclk = t.alarmclk
                                   /\ u.timer.pending = t.pending
                                   /\ StepIsLive(t) => StepIsLive(u.timer)
  BY DEF Between
<1>2. u \in Replay /\ u.timer \in Timer /\ u.timer.clk \in Int /\ t.clk \in Int
      /\ k \in Nat /\ u.n \in Nat
  BY DEF Between, Replay, Timer
<1>3. CASE ~(u.timer.clk < cclk)
  <2>1. r = u
    BY <1>2, <1>3 DEF Turn
  <2> HIDE DEF r
  <2> QED BY <1>3, <2>1 DEF r
<1>4. CASE u.timer.clk < cclk
  <2>1. PICK d \in 1..cclk - u.timer.clk : Replays(c, k, u, r, d)
    BY <1>1, <1>2, <1>4, TurnReplays
  <2> HIDE DEF r
  <2>2. r \in Replay /\ r.timer.clk = u.timer.clk + d /\ Core(c[k + d]) = Core(r.timer)
        /\ r.n + Underflown(c, k) = u.n + Underflown(c, k + d)
    BY <2>1 DEF Replays
  <2>3. k + d \in 0..cclk - t.clk /\ k + d - 1 \in Nat /\ k + d - 1 + 1 = k + d
        /\ r.timer.clk = t.clk + (k + d) /\ r.timer.clk > u.timer.clk /\ d \in Nat
    BY <1>1, <1>2, <1>4, <2>2
  <2>4. /\ c[k + d - 1] \in Timer /\ c[k + d] = Cycle(c[k + d - 1])
        /\ Underflown(c, k) \in Nat
        /\ c[k + d] \in Timer
    <3>1. c[k + d - 1] \in Timer /\ c[k + d - 1 + 1] = Cycle(c[k + d - 1])
      BY <2>3, CourseStep
    <3>2. c[k + d] \in Timer /\ Underflown(c, k) \in Nat /\ k + d \in Nat
      BY <1>2, <2>3, CourseStep
    <3> QED BY <2>3, <3>1, <3>2
  <2>5. Regular(c[k + d])
    BY <2>4, CycleSettles, SettledIsRegular
  <2>6. r.timer \in Timer /\ r.n \in Nat
    BY <2>2 DEF Replay
  <2>7. Regular(r.timer)
    BY <2>2, <2>4, <2>5, <2>6, RegularByCore
  <2>8. Underflown(c, k + d) \in Nat
    BY <1>2, <2>3, CourseStep
  <2>9. r.n = Underflown(c, k + d)
    BY <1>1, <1>2, <2>2, <2>4, <2>6, <2>8
  <2>10. r.timer.alarmclk = t.alarmclk /\ r.timer.pending = t.pending
    BY <1>1, <1>2, TurnKeepsAlarm DEF r
  <2>11. StepIsLive(t) => "STEP" \notin r.timer.state
    BY <1>1, <1>2, <1>4, TurnDropsStep DEF r
  <2>12. r \in Between(c, t, cclk)
    BY <2>2, <2>3, <2>7, <2>9, <2>10, <2>11 DEF Between, StepIsLive
  <2> QED BY <1>4, <2>3, <2>12 DEF r
<1> QED BY <1>3, <1>4

LEMMA TurnsStayBetween ==
  ASSUME NEW t \in Timer, Regular(t), NEW cclk \in Int, t.clk <= cclk, NEW k \in Nat
  PROVE  LET u == Turns(t, cclk)[k] IN
         /\ u \in Between(Course(t), t, cclk)
         /\ u.timer.clk >= t.clk + k \/ u.timer.clk = cclk
         /\ k = 0 => u = [timer |-> t, n |-> 0]
<1> DEFINE c == Course(t)
           S == Between(c, t, cclk)
           x == [timer |-> t, n |-> 0]
           F == [u \in S |-> Turn(u, cclk)]
           Is(f) == f = [i \in Nat |-> IF i = 0 THEN [timer |-> t, n |-> 0]
                                       ELSE Turn(f[i - 1], cclk)]
           h == CHOOSE f : Is(f)
<1>1. c \in Courses /\ c[0] = t /\ t.clk \in Int
  BY CourseIs DEF Timer
<1> HIDE DEF c
<1>2. x \in S
  <2>1. x \in Replay /\ x.timer = t /\ x.n = 0
    BY DEF Replay
  <2> HIDE DEF x
  <2>2. Underflown(c, 0) = 0 /\ 0 \in 0..cclk - t.clk /\ t.clk = t.clk + 0 /\ ~(0 > 0)
    BY <1>1, UnderflownGrows
  <2> QED BY <1>1, <2>1, <2>2 DEF Between
<1>3. ASSUME NEW u \in S
      PROVE  /\ Turn(u, cclk) \in S
             /\ u.timer.clk < cclk => Turn(u, cclk).timer.clk > u.timer.clk
             /\ ~(u.timer.clk < cclk) => Turn(u, cclk) = u
  BY <1>1, <1>3, TurnStaysBetween
<1> HIDE DEF S
<1>4. F \in [S -> S]
  BY <1>3
<1>5. PICK g \in [Nat -> S] : g[0] = x /\ \A n \in Nat : g[n + 1] = F[g[n]]
  <2>1. \A f \in [S -> S] : \E g \in [Nat -> S] :
             g[0] = x /\ \A n \in Nat : g[n + 1] = f[g[n]]
    <3> HIDE DEF F, x, Is, h
    <3> QED BY ONLY <1>2, Iteration
  <2> HIDE DEF F, x
  <2> QED BY <1>4, <2>1
<1>6. Is(g)
  <2>1. ASSUME NEW i \in Nat PROVE g[i] = IF i = 0 THEN x ELSE Turn(g[i - 1], cclk)
    <3>1. CASE i = 0
      BY <1>5, <3>1
    <3>2. CASE i # 0
      <4>1. i - 1 \in Nat /\ i - 1 + 1 = i
        BY <3>2
      <4> QED BY <1>5, <3>2, <4>1
    <3> QED BY <3>1, <3>2
  <2> QED BY <1>5, <2>1
<1>7. Turns(t, cclk) = h
  BY DEF Turns
<1>8. Is(h)
  BY <1>6
<1> HIDE DEF h, x
<1>9. h[0] = x /\ \A i \in Nat : h[i + 1] = Turn(h[i], cclk)
  BY <1>8 DEF x
<1> HIDE DEF Is
<1> DEFINE Far(i) == h[i].timer.clk >= t.clk + i \/ h[i].timer.clk = cclk
           A == {i \in Nat : h[i] \in S /\ Far(i)}
<1>10. 0 \in A
  <2>1. h[0].timer.clk = t.clk
    BY <1>9 DEF x
  <2> QED BY <1>1, <1>2, <1>9, <2>1
<1>11. ASSUME NEW i \in A PROVE i + 1 \in A
  <2> DEFINE u == h[i]
             v == h[i + 1]
  <2>1. i \in Nat /\ u \in S /\ (u.timer.clk >= t.clk + i \/ u.timer.clk = cclk)
        /\ v = Turn(u, cclk)
    BY <1>9
  <2>2. ASSUME NEW w \in S
        PROVE  w.timer.clk \in Int /\ w.timer.clk <= cclk
    BY <1>1, <2>2 DEF S, Between, Replay, Timer
  <2> HIDE DEF u, v
  <2>3. v \in S /\ (u.timer.clk < cclk => v.timer.clk > u.timer.clk)
        /\ (~(u.timer.clk < cclk) => v = u)
    BY <1>3, <2>1
  <2>4. v.timer.clk >= t.clk + (i + 1) \/ v.timer.clk = cclk
    <3>1. u.timer.clk \in Int /\ u.timer.clk <= cclk /\ v.timer.clk \in Int
      BY <2>1, <2>2, <2>3
    <3> DEFINE a == u.timer.clk
               b == v.timer.clk
    <3>2. a \in Int /\ a <= cclk /\ b \in Int /\ (a >= t.clk + i \/ a = cclk)
          /\ (a < cclk => b > a) /\ (~(a < cclk) => b = a)
      BY <2>1, <2>3, <3>1
    <3> HIDE DEF a, b
    <3>3. b >= t.clk + (i + 1) \/ b = cclk
      BY <1>1, <2>1, <3>2
    <3> QED BY <3>3 DEF b
  <2> QED BY <2>1, <2>3, <2>4 DEF v
<1>12. A = Nat
  <2>1. A \in SUBSET Nat
    OBVIOUS
  <2> HIDE DEF A
  <2> QED BY <1>10, <1>11, <2>1, Inductive
<1>13. k \in A
  BY <1>12
<1> QED BY <1>7, <1>9, <1>13 DEF S, c, x

(* ciat_update, which takes whole stretches of cycles at once, does what   *)
(* the timer does when every cycle is counted by itself: the counter, the  *)
(* latch and all bits of the pipeline that decide about a later cycle, and *)
(* the number of underflows that the caller is told.                       *)
THEOREM UpdateIsReplay ==
  ASSUME NEW t \in Timer, Regular(t), NEW cclk \in Int, t.clk <= cclk
  PROVE  LET u == Update(t, cclk)
             k == cclk - t.clk
         IN  /\ u.timer \in Timer
             /\ u.timer.clk = cclk
             /\ Core(u.timer) = Core(Course(t)[k])
             /\ u.n = Underflown(Course(t), k)
             /\ k > 0 => Settled(u.timer)
             /\ k > 0 /\ StepIsLive(t) => "STEP" \notin u.timer.state
             /\ u.timer.alarmclk = t.alarmclk
             /\ u.timer.pending = t.pending
<1> DEFINE c == Course(t)
           k == cclk - t.clk
           i == IF t.clk < cclk THEN cclk - t.clk + 1 ELSE 0
           u == Turns(t, cclk)[i]
<1>1. Update(t, cclk) = u
  BY DEF Update
<1>2. t.clk \in Int /\ k \in Nat /\ i \in Nat
  BY DEF Timer
<1>3. u \in Between(c, t, cclk)
      /\ (u.timer.clk >= t.clk + i \/ u.timer.clk = cclk)
      /\ (i = 0 => u = [timer |-> t, n |-> 0])
  BY <1>2, TurnsStayBetween
<1> HIDE DEF c, u
<1>4. PICK d \in 0..cclk - t.clk : /\ u.timer.clk = t.clk + d
                                   /\ Core(c[d]) = Core(u.timer)
                                   /\ u.n = Underflown(c, d)
                                   /\ u.timer.alarmclk = t.alarmclk
                                   /\ u.timer.pending = t.pending
                                   /\ StepIsLive(t) /\ d > 0 => "STEP" \notin u.timer.state
  BY <1>3 DEF Between
<1>5. d = k
  <2>1. CASE t.clk < cclk
    <3>1. u.timer.clk >= t.clk + (cclk - t.clk + 1) \/ u.timer.clk = cclk
      BY <1>3, <2>1
    <3> QED BY <1>2, <1>4, <3>1
  <2>2. CASE ~(t.clk < cclk)
    BY <1>2, <1>4, <2>2
  <2> QED BY <2>1, <2>2
<1>6. u.timer \in Timer
  BY <1>3 DEF Between, Replay
<1>7. ASSUME k > 0 PROVE Settled(u.timer)
  <2>1. k - 1 \in Nat /\ k - 1 + 1 = k
    BY <1>2, <1>7
  <2>2. c \in Courses
    BY CourseIs DEF c
  <2>3. c[k - 1] \in Timer /\ c[k - 1 + 1] = Cycle(c[k - 1]) /\ c[k] \in Timer
    <3>1. c[k - 1] \in Timer /\ c[k - 1 + 1] = Cycle(c[k - 1])
      BY <2>1, <2>2, CourseStep
    <3>2. c[k] \in Timer
      BY <1>2, <2>2, CourseStep
    <3> QED BY <3>1, <3>2
  <2>4. Settled(c[k])
    BY <2>1, <2>3, CycleSettles
  <2> QED BY <1>4, <1>5, <1>6, <2>3, <2>4, SettledByCore
<1>8. u.timer.clk = cclk
  BY <1>2, <1>4, <1>5
<1> QED BY <1>1, <1>4, <1>5, <1>6, <1>7, <1>8 DEF c

-----------------------------------------------------------------------------
(* Where the bits are one cycle later, if the counter does not underflow.  *)
LEMMA StageStep ==
  ASSUME NEW t \in Timer, ~AtZero(Inc(t))
  PROVE  LET s == t.state
             r == Cycle(t).state
         IN  /\ r \in SUBSET Bits
             /\ "FLOAD" \notin r /\ "STEP" \notin r
             /\ "START" \in r <=> "START" \in s
             /\ "PHI2IN" \in r <=> "PHI2IN" \in s
             /\ "CR_ONESHOT" \in r <=> "CR_ONESHOT" \in s
             /\ "ONESHOT0" \in r <=> "CR_ONESHOT" \in s
             /\ "ONESHOT" \in r <=> "ONESHOT0" \in s
             /\ "LOAD1" \in r <=> "FLOAD" \in s
             /\ "LOAD" \in r <=> "LOAD1" \in s
             /\ "COUNT2" \in r <=> "START" \in s /\ "PHI2IN" \in s
             /\ "COUNT3" \in r <=> /\ "COUNT2" \in s \/ ("STEP" \in s /\ "START" \in s)
                                   /\ "LOAD1" \notin s
             /\ "COUNT" \in r <=> "COUNT3" \in s
<1> DEFINE s == t.state
           i == Inc(t)
           r == Reload(i)
<1>1. i \in Timer /\ i.state = Pipeline(s)
  BY IncIs
<1>2. /\ "FLOAD" \notin i.state /\ "STEP" \notin i.state /\ "OUT" \notin i.state
      /\ "START" \in i.state <=> "START" \in s
      /\ "PHI2IN" \in i.state <=> "PHI2IN" \in s
      /\ "CR_ONESHOT" \in i.state <=> "CR_ONESHOT" \in s
      /\ "ONESHOT0" \in i.state <=> "CR_ONESHOT" \in s
      /\ "ONESHOT" \in i.state <=> "ONESHOT0" \in s
      /\ "LOAD1" \in i.state <=> "FLOAD" \in s
      /\ "LOAD" \in i.state <=> "LOAD1" \in s
      /\ "COUNT2" \in i.state <=> "START" \in s /\ "PHI2IN" \in s
      /\ "COUNT3" \in i.state <=> "COUNT2" \in s \/ ("STEP" \in s /\ "START" \in s)
      /\ "COUNT" \in i.state <=> "COUNT3" \in s
  <2> HIDE DEF s, i
  <2> QED BY <1>1 DEF Pipeline, Given
<1>3. ~AtZero(i)
  OBVIOUS
<1> HIDE DEF i, s
<1>4. r \in Timer /\ \A b : b \in r.state <=>
              /\ b \in i.state \/ (AtZero(i) /\ b \in {"LOAD", "OUT"})
              /\ b = "COUNT3" => ~("LOAD" \in i.state \/ AtZero(i))
              /\ b \in {"START", "COUNT2"} =>
                   ~(/\ "OUT" \in i.state \/ AtZero(i)
                     /\ "ONESHOT" \in i.state \/ "ONESHOT0" \in i.state)
  BY <1>1, Reloaded
<1> HIDE DEF r
<1>5. \A b : b \in r.state <=> b \in i.state /\ (b = "COUNT3" => "LOAD" \notin i.state)
  BY <1>2, <1>3, <1>4
<1>6. r.state \in SUBSET Bits
  BY <1>4 DEF Timer
<1>7. Cycle(t) = r
  BY DEF Cycle, r, i
<1> QED BY <1>2, <1>5, <1>6, <1>7 DEF s

(* Within as many cycles as the pipeline has stages the timer counts       *)
(* steadily, does not count, or underflows.                                *)
LEMMA StagesSuffice ==
  ASSUME NEW c \in Courses
  PROVE  \E i \in 0..Stages : Foreseen(c[i])
<1> DEFINE s(i) == c[i].state
<1>1. SUFFICES ASSUME \A i \in 0..4 : ~Foreseen(c[i]) PROVE FALSE
  BY DEF Stages
<1>2. \A i \in 0..4 : c[i] \in Timer /\ ~AtZero(Inc(c[i]))
  BY <1>1, CourseStep DEF Foreseen
<1>3. c[1] = Cycle(c[0]) /\ c[2] = Cycle(c[1]) /\ c[3] = Cycle(c[2]) /\ c[4] = Cycle(c[3])
  <2>1. c[0 + 1] = Cycle(c[0]) /\ c[1 + 1] = Cycle(c[1])
        /\ c[2 + 1] = Cycle(c[2]) /\ c[3 + 1] = Cycle(c[3])
    BY CourseStep
  <2> QED BY <2>1
<1>4. ASSUME NEW i \in 0..3, NEW r, r = Cycle(c[i]).state
      PROVE  /\ "FLOAD" \notin r /\ "STEP" \notin r
             /\ "START" \in r <=> "START" \in s(i)
             /\ "PHI2IN" \in r <=> "PHI2IN" \in s(i)
             /\ "CR_ONESHOT" \in r <=> "CR_ONESHOT" \in s(i)
             /\ "ONESHOT0" \in r <=> "CR_ONESHOT" \in s(i)
             /\ "ONESHOT" \in r <=> "ONESHOT0" \in s(i)
             /\ "LOAD1" \in r <=> "FLOAD" \in s(i)
             /\ "LOAD" \in r <=> "LOAD1" \in s(i)
             /\ "COUNT2" \in r <=> "START" \in s(i) /\ "PHI2IN" \in s(i)
             /\ "COUNT3" \in r <=> /\ "COUNT2" \in s(i) \/ ("STEP" \in s(i) /\ "START" \in s(i))
                                   /\ "LOAD1" \notin s(i)
             /\ "COUNT" \in r <=> "COUNT3" \in s(i)
  <2>1. c[i] \in Timer /\ ~AtZero(Inc(c[i]))
    BY <1>2
  <2> QED BY <1>4, <2>1, StageStep
<1>5. s(1) = Cycle(c[0]).state /\ s(2) = Cycle(c[1]).state
      /\ s(3) = Cycle(c[2]).state /\ s(4) = Cycle(c[3]).state
  BY <1>3
<1> HIDE DEF s
<1>6. /\ "FLOAD" \notin s(1) /\ "STEP" \notin s(1)
      /\ "CR_ONESHOT" \in s(1) <=> "ONESHOT0" \in s(1)
      /\ "COUNT2" \in s(1) <=> "START" \in s(1) /\ "PHI2IN" \in s(1)
  BY <1>4, <1>5
<1>7. /\ "FLOAD" \notin s(2) /\ "STEP" \notin s(2) /\ "LOAD1" \notin s(2)
      /\ "CR_ONESHOT" \in s(2) <=> "ONESHOT0" \in s(2)
      /\ "CR_ONESHOT" \in s(2) <=> "ONESHOT" \in s(2)
      /\ "COUNT2" \in s(2) <=> "START" \in s(2) /\ "PHI2IN" \in s(2)
      /\ "COUNT3" \in s(2) => "START" \in s(2) /\ "PHI2IN" \in s(2)
  BY <1>4, <1>5, <1>6
<1>8. /\ "FLOAD" \notin s(3) /\ "STEP" \notin s(3) /\ "LOAD1" \notin s(3) /\ "LOAD" \notin s(3)
      /\ "CR_ONESHOT" \in s(3) <=> "ONESHOT0" \in s(3)
      /\ "CR_ONESHOT" \in s(3) <=> "ONESHOT" \in s(3)
      /\ "COUNT2" \in s(3) <=> "START" \in s(3) /\ "PHI2IN" \in s(3)
      /\ "COUNT3" \in s(3) <=> "START" \in s(3) /\ "PHI2IN" \in s(3)
      /\ "COUNT" \in s(3) => "START" \in s(3) /\ "PHI2IN" \in s(3)
  BY <1>4, <1>5, <1>7
<1>9. /\ "FLOAD" \notin s(4) /\ "STEP" \notin s(4) /\ "LOAD1" \notin s(4) /\ "LOAD" \notin s(4)
      /\ "CR_ONESHOT" \in s(4) <=> "ONESHOT0" \in s(4)
      /\ "CR_ONESHOT" \in s(4) <=> "ONESHOT" \in s(4)
      /\ "START" \in s(4) <=> "START" \in s(3)
      /\ "PHI2IN" \in s(4) <=> "PHI2IN" \in s(3)
      /\ "COUNT2" \in s(4) <=> "START" \in s(4) /\ "PHI2IN" \in s(4)
      /\ "COUNT3" \in s(4) <=> "START" \in s(4) /\ "PHI2IN" \in s(4)
      /\ "COUNT" \in s(4) <=> "START" \in s(3) /\ "PHI2IN" \in s(3)
  BY <1>4, <1>5, <1>8
<1>10. CASE "START" \in s(3) /\ "PHI2IN" \in s(3)
  <2>1. Counting(s(4))
    BY <1>9, <1>10 DEF Counting, ModeIsSteady
  <2> QED BY <1>1, <2>1 DEF Foreseen, s
<1>11. CASE ~("START" \in s(3) /\ "PHI2IN" \in s(3))
  <2>1. NotCounting(s(3))
    BY <1>8, <1>11 DEF NotCounting, ModeIsSteady
  <2> QED BY <1>1, <2>1 DEF Foreseen, s
<1> QED BY <1>10, <1>11

(* Nothing is on its way to the counter.                                   *)
Idling(t) == /\ "COUNT2" \notin t.state /\ "COUNT3" \notin t.state
             /\ "START" \notin t.state
                \/ ("PHI2IN" \notin t.state /\ "STEP" \notin t.state)

LEMMA IdleStays ==
  ASSUME NEW c \in Courses, NEW k \in Nat, Idling(c[k]), NEW i \in Nat
  PROVE  ~AtZero(Inc(c[k + i]))
<1> DEFINE A == {n \in Nat : Idling(c[k + n])}
<1>1. ASSUME NEW t \in Timer, Idling(t) PROVE ~AtZero(Inc(t)) /\ Idling(Cycle(t))
  <2> DEFINE r == Cycle(t).state
  <2>1. Inc(t).state = Pipeline(t.state)
    BY IncIs
  <2>2. "COUNT3" \notin Pipeline(t.state)
    BY <1>1 DEF Idling, Pipeline, Given
  <2>3. ~AtZero(Inc(t))
    BY <2>1, <2>2 DEF AtZero
  <2>4. /\ "STEP" \notin r
        /\ "START" \in r <=> "START" \in t.state
        /\ "PHI2IN" \in r <=> "PHI2IN" \in t.state
        /\ "COUNT2" \in r <=> "START" \in t.state /\ "PHI2IN" \in t.state
        /\ "COUNT3" \in r => "COUNT2" \in t.state \/ ("STEP" \in t.state /\ "START" \in t.state)
    BY <2>3, StageStep
  <2> HIDE DEF r
  <2>5. /\ "COUNT2" \notin r /\ "COUNT3" \notin r
        /\ "START" \notin r \/ ("PHI2IN" \notin r /\ "STEP" \notin r)
    BY <1>1, <2>4 DEF Idling
  <2> QED BY <2>3, <2>5 DEF r, Idling
<1>2. 0 \in A
  <2>1. k + 0 = k
    OBVIOUS
  <2> QED BY <2>1
<1>3. ASSUME NEW n \in A PROVE n + 1 \in A
  <2>1. n \in Nat /\ k + n \in Nat /\ k + n + 1 = k + (n + 1) /\ Idling(c[k + n])
    OBVIOUS
  <2>2. c[k + n] \in Timer /\ c[k + n + 1] = Cycle(c[k + n])
    BY <2>1, CourseStep
  <2> QED BY <1>1, <2>1, <2>2
<1>4. A = Nat
  <2>1. A \in SUBSET Nat
    OBVIOUS
  <2> HIDE DEF A
  <2> QED BY <1>2, <1>3, <2>1, Inductive
<1>5. Idling(c[k + i]) /\ c[k + i] \in Timer
  <2>1. k + i \in Nat
    OBVIOUS
  <2> QED BY <1>4, <2>1, CourseStep
<1> QED BY <1>1, <1>5

(* The tick that ciat_set_alarm computes is the one at which the timer,    *)
(* left alone, underflows next, as many cycles ahead at the most as its    *)
(* counter and the stages of the pipeline take; no alarm is set for a      *)
(* timer that never will.                                                  *)
THEOREM AlarmIsNextUnderflow ==
  ASSUME NEW t \in Timer, Regular(t), NEW aclk \in Int
  PROVE  LET Zero(k) == AtZero(Inc(Course(t)[k])) IN
         \/ /\ NextUnderflow(t, aclk) = ClockMax
            /\ \A k \in Nat : ~Zero(k)
         \/ \E m \in Nat : /\ NextUnderflow(t, aclk) = aclk + (m + 1)
                           /\ Zero(m)
                           /\ \A k \in 0..m - 1 : ~Zero(k)
                           /\ \E i \in 0..Stages : m <= i + Course(t)[i].cnt
<1> DEFINE c == Course(t)
           Zero(k) == AtZero(Inc(c[k]))
           First(i) == Foreseen(c[i]) /\ \A j \in 0..i - 1 : ~Foreseen(c[j])
           k == CHOOSE i \in 0..Stages : First(i)
           s == c[k]
           a == NextUnderflow(t, aclk)
<1>1. c \in Courses /\ c[0] = t
  BY CourseIs
<1>2. a = CASE Counting(s.state) -> aclk + k + s.cnt
            [] NotCounting(s.state) -> ClockMax
            [] OTHER -> aclk + k + 1
  BY DEF NextUnderflow, AlarmAfter, AlarmOf
<1> HIDE DEF c, a
<1>3. \E i \in 0..Stages : First(i)
  <2> DEFINE f(i) == Foreseen(c[i])
             n == IF f(0) THEN 0 ELSE IF f(1) THEN 1 ELSE
                  IF f(2) THEN 2 ELSE IF f(3) THEN 3 ELSE 4
  <2>1. \E i \in 0..4 : f(i)
    BY <1>1, StagesSuffice DEF Stages
  <2>2. n \in 0..4 /\ f(n) /\ \A j \in 0..n - 1 : ~f(j)
    <3> HIDE DEF f
    <3> QED BY <2>1
  <2> HIDE DEF n
  <2> QED BY <2>2 DEF Stages
<1>4. k \in 0..Stages /\ First(k)
  BY <1>3
<1>5. k \in Nat /\ s = c[k] /\ s \in Timer
  <2>1. s = c[k]
    OBVIOUS
  <2> HIDE DEF k, s
  <2>2. k \in Nat
    BY <1>4 DEF Stages
  <2> QED BY <1>1, <2>1, <2>2, CourseStep
<1>6. \A j \in 0..k - 1 : ~Zero(j)
  BY <1>4 DEF Foreseen
<1>7. Foreseen(s)
  BY <1>4
<1> HIDE DEF k, s, First
<1>8. Regular(s)
  <2>1. CASE k = 0
    BY <1>1, <1>5, <2>1
  <2>2. CASE k # 0
    <3>1. k - 1 \in Nat /\ k - 1 + 1 = k
      BY <1>5, <2>2
    <3>2. c[k - 1] \in Timer /\ c[k - 1 + 1] = Cycle(c[k - 1])
      BY <1>1, <3>1, CourseStep
    <3> QED BY <1>5, <3>1, <3>2, CycleSettles, SettledIsRegular
  <2> QED BY <2>1, <2>2
<1>9. CASE Counting(s.state)
  <2>1. s.cnt \in Nat /\ s.cnt > 0 /\ Steady(s.state)
    BY <1>5, <1>8, <1>9 DEF Timer, Regular, Counting, Steady
  <2>2. \A i \in 0..s.cnt - 1 : AtZero(Inc(c[k + i])) <=> i = s.cnt - 1
    BY <1>1, <1>5, <2>1, CountsDown
  <2> DEFINE m == k + s.cnt - 1
  <2>3. m \in Nat /\ aclk + k + s.cnt = aclk + (m + 1)
    BY <1>5, <2>1
  <2>4. a = aclk + (m + 1)
    BY <1>2, <1>9, <2>3 DEF Counting, NotCounting
  <2>5. Zero(m)
    <3>1. s.cnt - 1 \in 0..s.cnt - 1 /\ k + (s.cnt - 1) = m
      BY <1>5, <2>1
    <3> QED BY <2>2, <3>1
  <2>6. ASSUME NEW j \in 0..m - 1 PROVE ~Zero(j)
    <3>1. CASE j < k
      <4>1. j \in 0..k - 1
        BY <1>5, <3>1
      <4> QED BY <1>6, <4>1
    <3>2. CASE j >= k
      <4>1. j - k \in 0..s.cnt - 1 /\ j - k # s.cnt - 1 /\ k + (j - k) = j
        BY <1>5, <2>1, <3>2
      <4> QED BY <2>2, <4>1
    <3> QED BY <1>5, <3>1, <3>2
  <2>7. k \in 0..Stages /\ m <= k + c[k].cnt
    BY <1>4, <1>5, <2>1
  <2> QED BY <2>3, <2>4, <2>5, <2>6, <2>7 DEF a, c
<1>10. CASE NotCounting(s.state)
  <2>0. Idling(s)
    BY <1>10 DEF NotCounting, Idling
  <2>1. a = ClockMax
    BY <1>2, <1>10 DEF Counting, NotCounting
  <2>2. ASSUME NEW j \in Nat PROVE ~Zero(j)
    <3>1. CASE j < k
      <4>1. j \in 0..k - 1
        BY <1>5, <3>1
      <4> QED BY <1>6, <4>1
    <3>2. CASE j >= k
      <4>1. j - k \in Nat /\ k + (j - k) = j
        BY <1>5, <3>2
      <4>2. ~AtZero(Inc(c[k + (j - k)]))
        BY <1>1, <1>5, <2>0, <4>1, IdleStays
      <4> QED BY <4>1, <4>2
    <3> QED BY <1>5, <3>1, <3>2
  <2> QED BY <2>1, <2>2 DEF a, c
<1>11. CASE ~Counting(s.state) /\ ~NotCounting(s.state)
  <2>1. a = aclk + (k + 1)
    BY <1>2, <1>5, <1>11
  <2>2. Zero(k)
    BY <1>5, <1>7, <1>11 DEF Foreseen
  <2>3. k \in 0..Stages /\ k <= k + c[k].cnt
    <3>1. c[k].cnt \in Nat
      BY <1>5 DEF Timer
    <3> QED BY <1>4, <1>5, <3>1
  <2> QED BY <1>5, <1>6, <2>1, <2>2, <2>3 DEF a, c
<1> QED BY <1>9, <1>10, <1>11

LEMMA UnderflownIsZero ==
  ASSUME NEW c, NEW k \in Nat
  PROVE  Underflown(c, k) = 0 <=> \A i \in 0..k - 1 : ~AtZero(Inc(c[i]))
<1> DEFINE S == {i \in 0..k - 1 : AtZero(Inc(c[i]))}
<1>1. IsFiniteSet(S)
  <2>1. IsFiniteSet(0..k - 1)
    BY FS_Interval
  <2>2. S \subseteq 0..k - 1
    OBVIOUS
  <2> HIDE DEF S
  <2> QED BY <2>1, <2>2, FS_Subset
<1>2. Cardinality(S) = 0 <=> S = {}
  <2> HIDE DEF S
  <2> QED BY <1>1, FS_EmptySet
<1>3. S = {} <=> \A i \in 0..k - 1 : ~AtZero(Inc(c[i]))
  OBVIOUS
<1> QED BY <1>2, <1>3 DEF Underflown

(* ciat_update reports an underflow from the tick of the alarm on and not  *)
(* before, and exactly one at that tick: the chip misses no underflow and  *)
(* no alarm goes off without one.                                          *)
THEOREM UpdateMeetsAlarm ==
  ASSUME NEW t \in Timer, Regular(t)
  PROVE  LET tick == NextUnderflow(t, t.clk) IN
         \/ /\ tick = ClockMax
            /\ \A cclk \in Int : t.clk <= cclk => Update(t, cclk).n = 0
         \/ /\ tick > t.clk
            /\ Update(t, tick).n = 1
            /\ \A cclk \in Int : t.clk <= cclk =>
                 (Update(t, cclk).n > 0 <=> cclk >= tick)
<1> DEFINE c == Course(t)
           tick == NextUnderflow(t, t.clk)
           Zero(k) == AtZero(Inc(c[k]))
<1>1. t.clk \in Int /\ c \in Courses
  BY CourseIs DEF Timer
<1>2. \/ tick = ClockMax /\ \A k \in Nat : ~Zero(k)
      \/ \E m \in Nat : tick = t.clk + (m + 1) /\ Zero(m)
                        /\ \A k \in 0..m - 1 : ~Zero(k)
  BY <1>1, AlarmIsNextUnderflow
<1> HIDE DEF tick
<1>3. ASSUME NEW cclk \in Int, t.clk <= cclk
      PROVE  /\ cclk - t.clk \in Nat
             /\ Update(t, cclk).n = Underflown(c, cclk - t.clk)
             /\ Underflown(c, cclk - t.clk) \in Nat
             /\ Underflown(c, cclk - t.clk) = 0
                  <=> \A i \in 0..(cclk - t.clk) - 1 : ~Zero(i)
  <2>1. cclk - t.clk \in Nat
    BY <1>1, <1>3
  <2>2. Update(t, cclk).n = Underflown(c, cclk - t.clk)
    BY <1>3, UpdateIsReplay
  <2>3. Underflown(c, cclk - t.clk) \in Nat
    BY <1>1, <2>1, CourseStep
  <2> QED BY <2>1, <2>2, <2>3, UnderflownIsZero
<1> HIDE DEF c
<1>4. CASE tick = ClockMax /\ \A k \in Nat : ~Zero(k)
  <2>1. ASSUME NEW cclk \in Int, t.clk <= cclk PROVE Update(t, cclk).n = 0
    <3>1. \A i \in 0..(cclk - t.clk) - 1 : i \in Nat
      OBVIOUS
    <3> QED BY <1>3, <1>4, <2>1, <3>1
  <2> QED BY <1>4, <2>1 DEF tick
<1>5. CASE \E m \in Nat : tick = t.clk + (m + 1) /\ Zero(m)
                          /\ \A k \in 0..m - 1 : ~Zero(k)
  <2>1. PICK m \in Nat : tick = t.clk + (m + 1) /\ Zero(m)
                         /\ \A k \in 0..m - 1 : ~Zero(k)
    BY <1>5
  <2>2. tick \in Int /\ tick > t.clk /\ tick - t.clk = m + 1
    BY <1>1, <2>1
  <2>3. ASSUME NEW cclk \in Int, t.clk <= cclk
        PROVE  Update(t, cclk).n > 0 <=> cclk >= tick
    <3> DEFINE k == cclk - t.clk
    <3>1. k \in Nat /\ (cclk >= tick <=> k > m)
      BY <1>1, <2>1, <2>3
    <3>2. Update(t, cclk).n > 0 <=> ~(\A i \in 0..k - 1 : ~Zero(i))
      BY <1>3, <2>3
    <3> HIDE DEF k
    <3>3. k > m <=> ~(\A i \in 0..k - 1 : ~Zero(i))
      <4> HIDE DEF Zero
      <4>1. CASE k > m
        <5>1. m \in 0..k - 1
          BY <3>1, <4>1
        <5> QED BY <2>1, <4>1, <5>1
      <4>2. CASE ~(k > m)
        <5>1. \A i \in 0..k - 1 : i \in 0..m - 1
          BY <3>1, <4>2
        <5> QED BY <2>1, <4>2, <5>1
      <4> QED BY <4>1, <4>2
    <3> QED BY <3>1, <3>2, <3>3
  <2>4. Update(t, tick).n = 1
    <3>1. Underflown(c, m) = 0 /\ Underflown(c, m + 1) = 1
      <4>1. Underflown(c, m) = 0
        BY <2>1, UnderflownIsZero
      <4>2. Underflown(c, m + 1) = Underflown(c, m) + 1
        BY <1>1, <2>1, CourseStep
      <4> QED BY <4>1, <4>2
    <3>2. Update(t, tick).n = Underflown(c, tick - t.clk)
      <4>1. t.clk <= tick
        BY <1>1, <2>2
      <4> QED BY <1>3, <2>2, <4>1
    <3> QED BY <2>2, <3>1, <3>2
  <2> QED BY <2>2, <2>3, <2>4 DEF tick
<1> QED BY <1>2, <1>4, <1>5

-----------------------------------------------------------------------------
(* A timer that is stepped at the ticks of W, as timer B is at the         *)
(* underflows of timer A: where it is k cycles later.                      *)
Told(W, tick, t) == IF tick \in W THEN WithStep(t) ELSE t

Ride(t, W) ==
  CHOOSE r \in [Nat -> Timer] :
    /\ r[0] = Told(W, t.clk, t)
    /\ \A k \in Nat : r[k + 1] = Told(W, t.clk + (k + 1), Cycle(r[k]))

LEMMA WithStepIs ==
  ASSUME NEW t \in Timer
  PROVE  LET r == WithStep(t) IN
         /\ r \in Timer /\ r.cnt = t.cnt /\ r.latch = t.latch /\ r.clk = t.clk
         /\ r.alarmclk = t.alarmclk /\ r.pending = t.pending
         /\ r.state = t.state \cup (IF "START" \in t.state THEN {"STEP"} ELSE {})
<1>1. t.state \cup (IF "START" \in t.state THEN {"STEP"} ELSE {}) \in SUBSET Bits
  BY DEF Timer, Bits
<1> QED BY <1>1 DEF WithStep, Given, Timer

LEMMA ToldIs ==
  ASSUME NEW t \in Timer, NEW W, NEW tick
  PROVE  LET r == Told(W, tick, t) IN
         r \in Timer /\ r.cnt = t.cnt /\ r.latch = t.latch /\ r.clk = t.clk
BY WithStepIs DEF Told

LEMMA WithStepByCore ==
  ASSUME NEW t \in Timer, NEW u \in Timer, Core(t) = Core(u)
  PROVE  Core(WithStep(t)) = Core(WithStep(u))
<1>1. /\ t.cnt = u.cnt /\ t.latch = u.latch
      /\ \A b : b \notin {"COUNT", "STEP"} => (b \in t.state <=> b \in u.state)
  BY CoreIs
<1> DEFINE r == WithStep(t)
           s == WithStep(u)
<1>2. /\ r \in Timer /\ r.cnt = t.cnt /\ r.latch = t.latch
      /\ r.state = t.state \cup (IF "START" \in t.state THEN {"STEP"} ELSE {})
      /\ s \in Timer /\ s.cnt = u.cnt /\ s.latch = u.latch
      /\ s.state = u.state \cup (IF "START" \in u.state THEN {"STEP"} ELSE {})
  BY WithStepIs
<1> HIDE DEF r, s
<1>3. "START" \in t.state <=> "START" \in u.state
  BY <1>1
<1>4. "COUNT2" \in t.state <=> "COUNT2" \in u.state
  BY <1>1
<1>5. \A b : b \notin {"COUNT", "STEP"} => (b \in r.state <=> b \in s.state)
  BY <1>1, <1>2
<1>6. Stepped(r.state) <=> Stepped(s.state)
  BY <1>2, <1>3, <1>4 DEF Stepped
<1>7. r \in Timer /\ s \in Timer /\ r.cnt = s.cnt /\ r.latch = s.latch
  BY <1>1, <1>2
<1>8. Core(r) = Core(s)
  BY ONLY <1>5, <1>6, <1>7, CoreIs
<1> QED BY <1>8 DEF r, s

LEMMA ToldByCore ==
  ASSUME NEW t \in Timer, NEW u \in Timer, Core(t) = Core(u),
         NEW W, NEW V, NEW i, NEW j, i \in W <=> j \in V
  PROVE  Core(Told(W, i, t)) = Core(Told(V, j, u))
BY WithStepByCore DEF Told

LEMMA ToldAlike ==
  ASSUME NEW t \in Timer, NEW u \in Timer, Core(t) = Core(u), NEW W, NEW i
  PROVE  Core(Told(W, i, t)) = Core(Told(W, i, u))
BY WithStepByCore DEF Told

LEMMA RideIs ==
  ASSUME NEW t \in Timer, NEW W
  PROVE  LET r == Ride(t, W) IN
         /\ r \in [Nat -> Timer]
         /\ r[0] = Told(W, t.clk, t)
         /\ \A k \in Nat : r[k + 1] = Told(W, t.clk + (k + 1), Cycle(r[k]))
<1> DEFINE S == Nat \X Timer
           x == <<0, Told(W, t.clk, t)>>
           F == [p \in S |-> <<p[1] + 1, Told(W, t.clk + (p[1] + 1), Cycle(p[2]))>>]
<1>1. x \in S
  BY ToldIs
<1>2. ASSUME NEW p \in S
      PROVE  <<p[1] + 1, Told(W, t.clk + (p[1] + 1), Cycle(p[2]))>> \in S
  <2>1. Cycle(p[2]) \in Timer
    BY IncIsTimer
  <2>2. Told(W, t.clk + (p[1] + 1), Cycle(p[2])) \in Timer
    BY <2>1, ToldIs
  <2> QED BY <2>2
<1>3. F \in [S -> S]
  BY <1>2
<1> HIDE DEF S, F, x
<1> DEFINE g == Orbit(S, x, F)
<1>4. g \in [Nat -> S] /\ g[0] = x /\ \A n \in Nat : g[n + 1] = F[g[n]]
  BY ONLY <1>1, <1>3, OrbitIs
<1> HIDE DEF g
<1>5. ASSUME NEW n \in Nat
      PROVE  /\ g[n] \in S /\ g[n][1] \in Nat /\ g[n][2] \in Timer
             /\ g[n + 1] = <<g[n][1] + 1, Told(W, t.clk + (g[n][1] + 1), Cycle(g[n][2]))>>
  BY <1>4 DEF S, F
<1> DEFINE A == {n \in Nat : g[n][1] = n}
<1>6. A = Nat
  <2>1. 0 \in A
    BY <1>4 DEF x
  <2>2. \A n \in A : n + 1 \in A
    BY <1>5
  <2>3. A \in SUBSET Nat
    OBVIOUS
  <2> HIDE DEF A
  <2> QED BY <2>1, <2>2, <2>3, Inductive
<1> DEFINE r == [n \in Nat |-> g[n][2]]
<1>7. r \in [Nat -> Timer] /\ r[0] = Told(W, t.clk, t)
  BY <1>4, <1>5 DEF x
<1>8. ASSUME NEW k \in Nat PROVE r[k + 1] = Told(W, t.clk + (k + 1), Cycle(r[k]))
  <2>1. g[k][1] = k
    BY <1>6
  <2>2. r[k + 1] = g[k + 1][2] /\ r[k] = g[k][2]
    OBVIOUS
  <2> QED BY <1>5, <2>1, <2>2
<1> HIDE DEF r
<1> QED BY <1>7, <1>8 DEF Ride

(* For n cycles one timer is stepped as the other is d cycles later.       *)
SteppedAlike(t, W, d, u, V, n) ==
  \A j \in 1..n : u.clk + j \in V <=> t.clk + (d + j) \in W

(* Two rides that have come to the same point and are stepped at the same  *)
(* cycles from there on, n at least.                                       *)
LEMMA RidesByCore ==
  ASSUME NEW t \in Timer, NEW W, NEW d \in Nat, NEW u \in Timer, NEW V, NEW n \in Nat,
         Core(Ride(u, V)[0]) = Core(Ride(t, W)[d]),
         SteppedAlike(t, W, d, u, V, n), NEW k \in 0..n
  PROVE  /\ Core(Ride(u, V)[k]) = Core(Ride(t, W)[d + k])
         /\ Underflows(Ride(u, V)[k]) = Underflows(Ride(t, W)[d + k])
         /\ Underflown(Ride(t, W), d + k) = Underflown(Ride(t, W), d) + Underflown(Ride(u, V), k)
<1> DEFINE r == Ride(t, W)
           s == Ride(u, V)
           Same(i) == /\ Core(s[i]) = Core(r[d + i])
                      /\ Underflown(r, d + i) = Underflown(r, d) + Underflown(s, i)
           A == {i \in Nat : i <= n => Same(i)}
<1>1. /\ r \in [Nat -> Timer]
      /\ \A i \in Nat : r[i + 1] = Told(W, t.clk + (i + 1), Cycle(r[i]))
      /\ s \in [Nat -> Timer]
      /\ \A i \in Nat : s[i + 1] = Told(V, u.clk + (i + 1), Cycle(s[i]))
  BY RideIs
<1>0. Core(s[0]) = Core(r[d])
  OBVIOUS
<1> HIDE DEF r, s
<1>2. 0 \in A
  <2>1. d + 0 = d /\ Underflown(s, 0) = 0 /\ Underflown(r, d) \in Nat
    BY UnderflownGrows
  <2> QED BY <1>0, <2>1
<1>3. ASSUME NEW i \in Nat, Core(s[i]) = Core(r[d + i])
      PROVE  Underflows(s[i]) = Underflows(r[d + i])
             /\ Core(Cycle(s[i])) = Core(Cycle(r[d + i]))
  <2>1. s[i] \in Timer /\ r[d + i] \in Timer
    BY <1>1
  <2> QED BY <1>3, <2>1, CoreDecides
<1>4. ASSUME NEW i \in A PROVE i + 1 \in A
  <2>1. SUFFICES ASSUME i + 1 <= n PROVE Same(i + 1)
    OBVIOUS
  <2>2. i \in Nat /\ i <= n /\ Same(i) /\ d + i \in Nat /\ d + (i + 1) = d + i + 1
        /\ i + 1 \in 1..n
    BY <2>1
  <2>3. Underflows(s[i]) = Underflows(r[d + i]) /\ Core(Cycle(s[i])) = Core(Cycle(r[d + i]))
    BY <1>3, <2>2
  <2>4. /\ s[i + 1] = Told(V, u.clk + (i + 1), Cycle(s[i]))
        /\ r[d + i + 1] = Told(W, t.clk + (d + i + 1), Cycle(r[d + i]))
        /\ Cycle(s[i]) \in Timer /\ Cycle(r[d + i]) \in Timer
    BY <1>1, <2>2, IncIsTimer
  <2>5. u.clk + (i + 1) \in V <=> t.clk + (d + i + 1) \in W
    BY <2>2 DEF SteppedAlike
  <2>6. Core(s[i + 1]) = Core(r[d + (i + 1)])
    BY <2>2, <2>3, <2>4, <2>5, ToldByCore
  <2>7. /\ Underflown(s, i + 1) = Underflown(s, i) + Underflows(s[i])
        /\ Underflown(r, d + i + 1) = Underflown(r, d + i) + Underflows(r[d + i])
        /\ Underflown(s, i) \in Nat /\ Underflown(r, d) \in Nat
        /\ Underflows(s[i]) \in Nat
    BY <2>2, UnderflownGrows DEF Underflows
  <2>8. Underflown(r, d + (i + 1)) = Underflown(r, d) + Underflown(s, i + 1)
    BY <2>2, <2>3, <2>7
  <2> QED BY <2>6, <2>8
<1>5. A = Nat
  <2>1. A \in SUBSET Nat
    OBVIOUS
  <2> HIDE DEF A
  <2> QED BY <1>2, <1>4, <2>1, Inductive
<1>6. k \in Nat /\ Same(k)
  <2>1. k \in A /\ k <= n
    BY <1>5
  <2> QED BY <2>1
<1>7. Underflows(s[k]) = Underflows(r[d + k])
  BY <1>3, <1>6
<1> QED BY <1>6, <1>7 DEF r, s

(* Up to the first step a ride is the course of the timer.                 *)
LEMMA RideIsCourse ==
  ASSUME NEW t \in Timer, NEW W, NEW n \in Nat,
         \A j \in 0..n - 1 : t.clk + j \notin W
  PROVE  /\ \A k \in 0..n - 1 : Ride(t, W)[k] = Course(t)[k]
         /\ Ride(t, W)[n] = Told(W, t.clk + n, Course(t)[n])
         /\ Underflown(Ride(t, W), n) = Underflown(Course(t), n)
<1> DEFINE r == Ride(t, W)
           c == Course(t)
           A == {k \in Nat : k <= n => r[k] = Told(W, t.clk + k, c[k])}
<1>1. /\ r \in [Nat -> Timer] /\ r[0] = Told(W, t.clk, t)
      /\ \A k \in Nat : r[k + 1] = Told(W, t.clk + (k + 1), Cycle(r[k]))
  BY RideIs
<1>2. /\ c \in Courses /\ c[0] = t /\ \A k \in Nat : c[k + 1] = Cycle(c[k])
  BY CourseIs DEF Courses
<1> HIDE DEF r, c
<1>3. 0 \in A
  <2>1. t.clk + 0 = t.clk
    BY DEF Timer
  <2> QED BY <1>1, <1>2, <2>1
<1>4. ASSUME NEW k \in A PROVE k + 1 \in A
  <2>1. SUFFICES ASSUME k + 1 <= n PROVE r[k + 1] = Told(W, t.clk + (k + 1), c[k + 1])
    OBVIOUS
  <2>2. k \in Nat /\ k \in 0..n - 1 /\ r[k] = Told(W, t.clk + k, c[k])
    BY <2>1
  <2>3. r[k] = c[k]
    BY <2>2 DEF Told
  <2> QED BY <1>1, <1>2, <2>2, <2>3
<1>5. A = Nat
  <2>1. A \in SUBSET Nat
    OBVIOUS
  <2> HIDE DEF A
  <2> QED BY <1>3, <1>4, <2>1, Inductive
<1>6. ASSUME NEW k \in 0..n - 1 PROVE r[k] = c[k]
  <2>1. k \in A /\ k <= n
    BY <1>5
  <2> QED BY <2>1 DEF Told
<1>7. r[n] = Told(W, t.clk + n, c[n])
  <2>1. n \in A
    BY <1>5
  <2> QED BY <2>1
<1>8. Underflown(r, n) = Underflown(c, n)
  <2>1. {i \in 0..n - 1 : AtZero(Inc(r[i]))} = {i \in 0..n - 1 : AtZero(Inc(c[i]))}
    BY <1>6
  <2> QED BY <2>1 DEF Underflown
<1> QED BY <1>6, <1>7, <1>8 DEF r, c
=============================================================================
