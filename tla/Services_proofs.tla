--------------------------- MODULE Services_proofs ---------------------------
(***************************************************************************)
(* Proofs about the services, for every value of the constants of          *)
(* Services.  The step of a service that is not the subject changes none   *)
(* of its variables, so each service has an invariant of its own.          *)
(***************************************************************************)
EXTENDS Services, Functions, SequenceTheorems, FiniteSetTheorems, NaturalsInduction,
        WellFoundedInduction, TLAPS

-----------------------------------------------------------------------------
(* Induction and recursion over natural numbers.                           *)

(* Every set of natural numbers that is not empty has a least element.     *)
LEMMA LeastNatural ==
  ASSUME NEW T \in SUBSET Nat, T # {}
  PROVE  \E x \in T : \A y \in T : x <= y
<1> DEFINE R == {ss \in Nat \X Nat : ss[1] < ss[2]}
<1>1. IsWellFoundedOn(R, Nat)
  BY NatLessThanWellFounded DEF OpToRel
<1> HIDE DEF R
<1>2. PICK x \in T : \A y \in T : ~(<<y, x>> \in R)
  BY <1>1, WFMin
<1>3. \A y \in T : ~(y < x)
  BY <1>2 DEF R
<1> QED
  BY <1>3

(* Induction over the natural numbers, for a set.                          *)
LEMMA NaturalInduction ==
  ASSUME NEW S, 0 \in S, \A n \in Nat : n \in S => n + 1 \in S
  PROVE  Nat \subseteq S
<1> DEFINE T == Nat \ S
<1>1. SUFFICES ASSUME T # {} PROVE FALSE
  OBVIOUS
<1>2. PICK x \in T : \A y \in T : x <= y
  BY <1>1, LeastNatural
<1>3. x \in Nat /\ x # 0 /\ x \notin S
  BY <1>2
<1>4. x - 1 \in Nat /\ x - 1 \in S
  BY <1>2, <1>3
<1> QED
  BY <1>3, <1>4

(* G defines a function from D to V: its value at x from those at smaller  *)
(* ranks.                                                                  *)
IsRecursion(G, D, V, rank) ==
  /\ V # {} /\ rank \in [D -> Nat] /\ G \in [D \X [D -> V] -> V]
  /\ \A x \in D : \A f, g \in [D -> V] :
       (\A y \in D : rank[y] < rank[x] => f[y] = g[y]) => G[<<x, f>>] = G[<<x, g>>]

(* f is that function up to rank n.                                        *)
Recurs(f, G, D, rank, n) == \A x \in D : rank[x] < n => f[x] = G[<<x, f>>]

(* There is one up to every rank.                                          *)
LEMMA RecursUpTo ==
  ASSUME NEW G, NEW D, NEW V, NEW rank, IsRecursion(G, D, V, rank)
  PROVE  \A n \in Nat : \E f \in [D -> V] : Recurs(f, G, D, rank, n)
<1> USE DEF IsRecursion, Recurs
<1> DEFINE S == {n \in Nat : \E f \in [D -> V] : Recurs(f, G, D, rank, n)}
<1>1. 0 \in S
  <2> PICK v0 \in V : TRUE
    OBVIOUS
  <2> DEFINE f == [x \in D |-> v0]
  <2>1. f \in [D -> V] /\ 0 \in Nat
    OBVIOUS
  <2>2. \A x \in D : ~(rank[x] < 0)
    OBVIOUS
  <2> HIDE DEF f
  <2> QED
    BY <2>1, <2>2
<1>2. ASSUME NEW n \in Nat, n \in S
      PROVE  n + 1 \in S
  <2>1. PICK f \in [D -> V] : \A x \in D : rank[x] < n => f[x] = G[<<x, f>>]
    BY <1>2
  <2> DEFINE h == [x \in D |-> G[<<x, f>>]]
  <2>2. h \in [D -> V]
    OBVIOUS
  <2>3. ASSUME NEW x \in D, rank[x] < n + 1
        PROVE  h[x] = G[<<x, h>>]
    <3>1. \A y \in D : rank[y] < rank[x] => f[y] = h[y]
      BY <2>1, <2>3
    <3>2. G[<<x, f>>] = G[<<x, h>>]
      BY <2>2, <3>1
    <3> QED
      BY <3>2
  <2> HIDE DEF h
  <2>4. n + 1 \in Nat
    OBVIOUS
  <2> QED
    BY <2>2, <2>3, <2>4
<1> HIDE DEF S
<1>3. \A n \in Nat : n \in S
  BY <1>1, <1>2, NaturalInduction
<1> QED
  BY <1>3 DEF S

(* There is only one.                                                      *)
LEMMA RecursOnce ==
  ASSUME NEW G, NEW D, NEW V, NEW rank, IsRecursion(G, D, V, rank),
         NEW f \in [D -> V], NEW g \in [D -> V], NEW n \in Nat,
         Recurs(f, G, D, rank, n), Recurs(g, G, D, rank, n)
  PROVE  \A x \in D : rank[x] < n => f[x] = g[x]
<1>0. \A x \in D : rank[x] \in Nat
  <2>1. rank \in [D -> Nat]
    BY DEF IsRecursion
  <2> QED
    BY <2>1
<1> DEFINE S == {m \in Nat : \A x \in D : rank[x] < m /\ rank[x] < n => f[x] = g[x]}
<1>1. 0 \in S
  <2>1. \A x \in D : ~(rank[x] < 0)
    BY <1>0
  <2> QED
    BY <2>1
<1>2. ASSUME NEW m \in Nat, m \in S PROVE m + 1 \in S
  <2>1. ASSUME NEW x \in D, rank[x] < m + 1, rank[x] < n PROVE f[x] = g[x]
    <3>1. \A y \in D : rank[y] < rank[x] => f[y] = g[y]
      BY <1>0, <1>2, <2>1
    <3>2. G[<<x, f>>] = G[<<x, g>>]
      BY <3>1 DEF IsRecursion
    <3> QED
      BY <2>1, <3>2 DEF Recurs
  <2>2. m + 1 \in Nat
    OBVIOUS
  <2> QED
    BY <2>1, <2>2
<1> HIDE DEF S
<1>3. n \in S
  BY <1>1, <1>2, NaturalInduction
<1> QED
  BY <1>3 DEF S

(* There is such a function: each of its values is that of a function up   *)
(* to the rank.                                                            *)
LEMMA Recursion ==
  ASSUME NEW G, NEW D, NEW V, NEW rank, IsRecursion(G, D, V, rank)
  PROVE  \E f \in [D -> V] : \A x \in D : f[x] = G[<<x, f>>]
<1> DEFINE Upto(n) == CHOOSE f \in [D -> V] : Recurs(f, G, D, rank, n)
           h == [x \in D |-> Upto(rank[x] + 1)[x]]
<1>1. \A n \in Nat : Upto(n) \in [D -> V] /\ Recurs(Upto(n), G, D, rank, n)
  BY RecursUpTo
<1> HIDE DEF Upto
<1>2. \A x \in D : rank[x] \in Nat /\ rank[x] + 1 \in Nat
  <2>1. rank \in [D -> Nat]
    BY DEF IsRecursion
  <2> QED
    BY <2>1
<1>3. h \in [D -> V]
  BY <1>1, <1>2
<1>4. ASSUME NEW x \in D PROVE h[x] = G[<<x, h>>]
  <2> DEFINE f == Upto(rank[x] + 1)
  <2>1. f \in [D -> V] /\ Recurs(f, G, D, rank, rank[x] + 1)
    BY <1>1, <1>2
  <2>2. h[x] = f[x] /\ f[x] = G[<<x, f>>]
    BY <1>2, <2>1 DEF Recurs
  <2>3. ASSUME NEW y \in D, rank[y] < rank[x] PROVE f[y] = h[y]
    <3> DEFINE g == Upto(rank[y] + 1)
    <3>1. g \in [D -> V] /\ Recurs(g, G, D, rank, rank[y] + 1)
      BY <1>1, <1>2
    <3>2. Recurs(f, G, D, rank, rank[y] + 1)
      BY <1>2, <2>1, <2>3 DEF Recurs
    <3>3. h[y] = g[y]
      OBVIOUS
    <3> HIDE DEF f, g, h
    <3>4. \A z \in D : rank[z] < rank[y] + 1 => f[z] = g[z]
      BY <1>2, <2>1, <3>1, <3>2, RecursOnce
    <3> QED
      BY <1>2, <3>3, <3>4
  <2> HIDE DEF f, h
  <2>4. G[<<x, f>>] = G[<<x, h>>]
    BY <1>3, <2>1, <2>3 DEF IsRecursion
  <2> QED
    BY <2>2, <2>4
<1> HIDE DEF h
<1> QED
  BY <1>3, <1>4

(* A subset of an interval, and what is left of it without one element.    *)
LEMMA SmallerSubset ==
  ASSUME NEW n \in Nat, NEW s \in SUBSET (1..n)
  PROVE  /\ Cardinality(s) \in Nat /\ Cardinality(s) < n + 1
         /\ \A x \in s : Cardinality(s \ {x}) < Cardinality(s)
<1>1. IsFiniteSet(1..n) /\ Cardinality(1..n) <= n
  BY FS_Interval
<1>2. IsFiniteSet(s) /\ Cardinality(s) <= Cardinality(1..n)
  BY <1>1, FS_Subset
<1>3. Cardinality(s) \in Nat /\ Cardinality(1..n) \in Nat
  BY <1>1, <1>2, FS_CardinalityType
<1>4. \A x \in s : Cardinality(s \ {x}) = Cardinality(s) - 1
  BY <1>2, FS_RemoveElement
<1> QED
  BY <1>1, <1>2, <1>3, <1>4

(* A sum of natural numbers is one.                                        *)
LEMMA SumIsNatural ==
  ASSUME NEW n \in Nat, NEW f, \A i \in 1..n : f[i] \in Nat
  PROVE  SumFunctionOnSet(f, 1..n) \in Nat
<1> DEFINE D == SUBSET (1..n)
           First(s) == CHOOSE y \in s : TRUE
           B(g, s) == IF s = {} THEN 0 ELSE f[First(s)] + g[s \ {First(s)}]
           rank == [s \in D |-> Cardinality(s)]
           G == [e \in D \X [D -> Nat] |-> B(e[2], e[1])]
<1>1. \A s \in D : rank[s] = Cardinality(s) /\ rank[s] \in Nat /\ rank[s] < n + 1
  BY SmallerSubset
<1>2. \A s \in D : s # {} => /\ First(s) \in 1..n /\ f[First(s)] \in Nat
                             /\ s \ {First(s)} \in D
                             /\ rank[s \ {First(s)}] < rank[s]
  <2> SUFFICES ASSUME NEW s \in D, s # {}
               PROVE  /\ First(s) \in 1..n /\ f[First(s)] \in Nat
                      /\ s \ {First(s)} \in D
                      /\ rank[s \ {First(s)}] < rank[s]
    OBVIOUS
  <2>1. First(s) \in s
    OBVIOUS
  <2>2. First(s) \in 1..n /\ s \ {First(s)} \in D
    BY <2>1
  <2> HIDE DEF First
  <2> QED
    BY <2>1, <2>2, SmallerSubset
<1>3. \A s \in D : \A g \in [D -> Nat] : B(g, s) \in Nat
  <2> HIDE DEF First, rank, D
  <2> QED
    BY <1>2
<1>4. \A s \in D : \A g \in [D -> Nat] : G[<<s, g>>] = B(g, s)
  <2> HIDE DEF B, D
  <2> QED
    OBVIOUS
<1>5. G \in [D \X [D -> Nat] -> Nat]
  <2> HIDE DEF B, D
  <2> QED
    BY <1>3
<1>6. \A s \in D, g \in [D -> Nat], h \in [D -> Nat] :
         (\A r \in D : rank[r] < rank[s] => g[r] = h[r]) => G[<<s, g>>] = G[<<s, h>>]
  <2> SUFFICES ASSUME NEW s \in D, NEW g \in [D -> Nat], NEW h \in [D -> Nat],
                      \A r \in D : rank[r] < rank[s] => g[r] = h[r]
               PROVE  B(g, s) = B(h, s)
    <3> HIDE DEF B, rank, D, G
    <3> QED
      BY <1>4
  <2> HIDE DEF First, rank, D, G
  <2> QED
    BY <1>2
<1>7. \E g \in [D -> Nat] : \A s \in D : g[s] = G[<<s, g>>]
  <2>1. rank \in [D -> Nat]
    <3> HIDE DEF D
    <3> QED
      BY <1>1
  <2>2. n + 1 \in Nat /\ 0 \in Nat
    OBVIOUS
  <2>3. \A s \in D : rank[s] < n + 1
    BY <1>1
  <2> HIDE DEF D, rank, G
  <2>4. IsRecursion(G, D, Nat, rank)
    BY <1>5, <1>6, <2>1, <2>2, <2>3 DEF IsRecursion
  <2> QED
    BY <2>4, Recursion
<1>8. \E g : g = [s \in D |-> B(g, s)]
  <2>1. PICK g \in [D -> Nat] : \A s \in D : g[s] = G[<<s, g>>]
    BY <1>7
  <2>2. \A s \in D : g[s] = B(g, s)
    <3> HIDE DEF G, B, D
    <3> QED
      BY <1>4, <2>1
  <2> HIDE DEF B, D, G
  <2>3. g = [s \in D |-> B(g, s)]
    BY <2>1, <2>2
  <2> QED
    BY <2>3
<1> DEFINE sum == CHOOSE g : g = [s \in D |-> B(g, s)]
<1>9. sum = [s \in D |-> B(sum, s)]
  <2> HIDE DEF B, D
  <2> QED
    BY <1>8
<1>10. \A s \in D : sum[s] = B(sum, s)
  <2> HIDE DEF sum, B, D
  <2> QED
    BY <1>9
<1> DEFINE T == {k \in Nat : \A s \in D : rank[s] < k => sum[s] \in Nat}
<1>11. \A k \in Nat : k \in T
  <2>1. 0 \in T
    <3> HIDE DEF sum, rank, D
    <3> QED
      BY <1>1
  <2>2. ASSUME NEW k \in Nat, k \in T
        PROVE  k + 1 \in T
    <3>1. ASSUME NEW s \in D, rank[s] < k + 1
          PROVE  sum[s] \in Nat
      <4> HIDE DEF sum, rank, First, D
      <4>1. CASE s # {}
        <5>1. sum[s \ {First(s)}] \in Nat
          BY <1>1, <1>2, <2>2, <3>1, <4>1
        <5> QED
          BY <1>2, <1>10, <4>1, <5>1
      <4>2. CASE s = {}
        <5>1. sum[s] = 0
          BY <1>10, <4>2
        <5> QED
          BY <5>1
      <4> QED
        BY <4>1, <4>2
    <3> HIDE DEF sum, rank, D
    <3> QED
      BY <3>1
  <2> HIDE DEF T
  <2> QED
    BY <2>1, <2>2, NaturalInduction
<1>12. sum[1..n] \in Nat
  <2>1. 1..n \in D /\ n + 1 \in Nat
    OBVIOUS
  <2> HIDE DEF sum, rank, D
  <2> QED
    BY <1>1, <1>11, <2>1
<1>13. SumFunctionOnSet(f, 1..n) = sum[1..n]
  BY DEF SumFunctionOnSet, FoldFunctionOnSet, MapThenFoldSet
<1> QED
  BY <1>12, <1>13
-----------------------------------------------------------------------------
(* SRDO.                                                                   *)
SrdoCrc == [used : BOOLEAN, com : {"stored", "bad", "new"}, count : {0, 2}, maps : Seq(SrdoMaps)]
SrdoSide ==
  [operational : BOOLEAN, prev : BOOLEAN, valid : BOOLEAN, toogle : {0, 1}, timer : Int,
   configurationValid : BOOLEAN, checkCRC : BOOLEAN, par : SrdoPar, checksum : SrdoCrc]

(* A side is in operation only by a check, and what was checked is kept as *)
(* long as it is: the parameters are written outside operational only, and *)
(* the next pass after it was left ends the validity.                      *)
Verified(s) ==
  /\ s.configurationValid /\ ~s.checkCRC => s.checksum = Safety!Crc(s.par)
  /\ s.valid => s.prev
  /\ s.valid /\ s.operational => s.checksum = Safety!Crc(s.par) /\ Safety!Usable(s.par)

SrdoValue == SrdoValues \cup {Safety!None}
SrdoGhost ==
  [quiet : Nat, gap : Nat, resumed : BOOLEAN, split : BOOLEAN, torn : BOOLEAN]

SrdoTypes ==
  /\ side \in [Safety!Sides -> SrdoSide]
  /\ CANrxNew \in BOOLEAN \X BOOLEAN /\ rxData \in SrdoValue \X SrdoValue
  /\ stage \in BOOLEAN /\ agree \in BOOLEAN
  /\ ghost \in SrdoGhost
  /\ obj \in [n : SrdoValues, i : SrdoValues] /\ txData \in SrdoValue

(* How long the receiver has been without a pair and how long it still     *)
(* waits are together within the bound, and so are the time since the      *)
(* first frame of a pair and the wait for the second one.                  *)
WaitsInTime(s, g) ==
  /\ s.timer >= 1
  /\ g.quiet + s.timer <= IF s.toogle = 0 THEN Safety!Longer ELSE Safety!Longer + SRVT
  /\ s.toogle = 1 /\ ~g.resumed => g.gap + s.timer <= SRVT

ReceiverInv ==
  /\ ~side["rx"].valid => ghost.quiet = 0 /\ CANrxNew = <<FALSE, FALSE>> /\ ~stage
  /\ side["rx"].valid /\ ~stage => WaitsInTime(side["rx"], ghost)
  /\ stage => /\ ghost.quiet <= Safety!Longer + SRVT
              /\ ~ghost.resumed => ghost.gap <= SRVT
              /\ ~ghost.split => rxData[1] = rxData[2]
  /\ stage \/ ghost.split \/ agree

SrdoFrame == [v : SrdoValue, inverted : BOOLEAN]

SrdoInv ==
  /\ SrdoTypes
  /\ \A x \in Safety!Sides : Verified(side[x])
  /\ ReceiverInv
  /\ bus \in Seq(SrdoFrame)

(* The times of SafeInTime are positive and Longer bounds both.            *)
LEMMA LongerIsEither ==
  /\ SCT \in Nat /\ SRVT \in Nat /\ SCT >= 1 /\ SRVT >= 1
  /\ Safety!Longer \in Nat /\ Safety!Longer >= SCT /\ Safety!Longer >= SRVT
BY SrdoAssumption DEF Safety!Longer

(* A checksum is of the entries in use.                                    *)
LEMMA CrcIsCrc == \A p \in SrdoPar : Safety!Crc(p) \in SrdoCrc
<1> SUFFICES ASSUME NEW p \in SrdoPar
             PROVE  Safety!Crc(p) \in SrdoCrc
  OBVIOUS
<1>1. p.count \in Int /\ \A i \in 1..p.count : p.maps[i] \in SrdoMaps
  BY DEF SrdoPar
<1>2. SubSeq(p.maps, 1, p.count) \in Seq(SrdoMaps)
  BY <1>1, SubSeqProperties
<1> QED
  BY <1>2 DEF SrdoPar, SrdoCrc, Safety!Crc

(* Parameters that can be used are among the stored ones.                  *)
LEMMA GoodIsStored == Safety!Good \in SrdoStored /\ Safety!Good \in SrdoPar
BY SrdoAssumption DEF Safety!Good

SrdoInTime ==
  /\ Safety!SafeInTime /\ Safety!PairInTime /\ Safety!ObjectsAgree /\ Safety!RunsVerified

(* What the invariant is for: all but the equality of the two frames.      *)
LEMMA SrdoInvSuffices == SrdoInv => SrdoInTime
<1> SUFFICES ASSUME SrdoInv
             PROVE  SrdoInTime
  OBVIOUS
<1> USE DEF SrdoInv
<1>1. Safety!SafeInTime
  <2>1. Safety!Longer \in Nat /\ SRVT \in Nat /\ ghost.quiet \in Nat /\ side["rx"].timer \in Int
    BY LongerIsEither DEF SrdoTypes, SrdoGhost, SrdoSide, Safety!Sides
  <2>2. CASE ~side["rx"].valid
    <3>1. ghost.quiet = 0
      BY <2>2, Zenon DEF ReceiverInv
    <3> QED
      BY <2>1, <3>1 DEF Safety!SafeInTime
  <2>3. CASE stage
    BY <2>3 DEF ReceiverInv, Safety!SafeInTime
  <2>4. CASE side["rx"].valid /\ ~stage
    BY <2>1, <2>4 DEF ReceiverInv, WaitsInTime, Safety!SafeInTime
  <2> QED
    BY <2>2, <2>3, <2>4
<1>2. Safety!PairInTime
  BY DEF SrdoTypes, ReceiverInv, Safety!PairInTime
<1>3. Safety!ObjectsAgree
  BY DEF ReceiverInv, Safety!ObjectsAgree
<1>4. Safety!RunsVerified
  BY DEF Verified, Safety!RunsVerified
<1> QED
  BY <1>1, <1>2, <1>3, <1>4 DEF SrdoInTime

(* Both sides begin outside operation, with what was stored.               *)
LEMMA FreshIsSide ==
  \A p \in SrdoPar : /\ Safety!Fresh(p) \in SrdoSide
                     /\ Verified(Safety!Fresh(p)) /\ ~Safety!Fresh(p).valid
BY CrcIsCrc DEF SrdoSide, Verified, Safety!Fresh

(* CO_SRDO_init has not verified anything and waits for no frame.          *)
LEMMA SrdoInvInit == Init => SrdoInv
<1> SUFFICES ASSUME Safety!SrdoInit
             PROVE  SrdoInv
  BY DEF Init
<1>1. (CHOOSE v \in SrdoValues : TRUE) \in SrdoValues
  BY SrdoAssumption
<1>2. PICK q \in SrdoStored :
        side = [x \in Safety!Sides |-> Safety!Fresh(IF x \in SrdoConfigured THEN q ELSE Safety!Good)]
  BY DEF Safety!SrdoInit
<1>3. /\ side \in [Safety!Sides -> SrdoSide]
      /\ \A x \in Safety!Sides : Verified(side[x]) /\ ~side[x].valid
  BY <1>2, FreshIsSide, GoodIsStored, SrdoAssumption
<1>4. SrdoTypes
  BY <1>1, <1>3 DEF Safety!SrdoInit, SrdoTypes, SrdoGhost, SrdoValue
<1>5. ReceiverInv /\ bus \in Seq(SrdoFrame)
  BY <1>3 DEF Safety!SrdoInit, ReceiverInv, Safety!Sides
<1> QED
  BY <1>3, <1>4, <1>5 DEF SrdoInv

(* The first part of CO_SRDO_process on a side: a validity that it lets    *)
(* stand is of checked parameters, and the timer is set only when one      *)
(* begins.                                                                 *)
LEMMA GuardedKeeps ==
  ASSUME NEW s \in SrdoSide, Verified(s), NEW first \in Int
  PROVE  LET g == Safety!Guarded(s, first)
         IN  /\ g \in SrdoSide /\ Verified(g) /\ g.toogle = s.toogle
             /\ (g.valid /\ ~s.valid) => g.timer = first
             /\ ~(g.valid /\ ~s.valid) => g.timer = s.timer
<1> DEFINE good == s.configurationValid /\ ~(s.checkCRC /\ s.checksum # Safety!Crc(s.par))
           enter == s.operational /\ ~s.prev
           runs == s.operational /\ IF enter /\ good THEN Safety!Usable(s.par) ELSE s.valid
           g == Safety!Guarded(s, first)
<1>1. /\ good \in BOOLEAN /\ enter \in BOOLEAN /\ runs \in BOOLEAN
      /\ s.timer \in Int /\ s.operational \in BOOLEAN /\ s.valid \in BOOLEAN /\ s.prev \in BOOLEAN
  BY DEF SrdoSide, Safety!Usable, Safety!MapFits
<1>2. g = [s EXCEPT !.prev = s.operational, !.checkCRC = FALSE, !.configurationValid = good,
                    !.valid = runs, !.timer = IF enter /\ runs THEN first ELSE s.timer]
  BY DEF Safety!Guarded, SrdoSide
<1>3. (enter /\ runs) = (runs /\ ~s.valid)
  BY <1>1 DEF Verified
<1>4. good => s.checksum = Safety!Crc(s.par)
  BY DEF Verified, SrdoSide
<1>5. runs => s.operational /\ s.checksum = Safety!Crc(s.par) /\ Safety!Usable(s.par)
  BY <1>1, <1>4 DEF Verified
<1> HIDE DEF good, enter, runs, g
<1>6. g \in SrdoSide
  BY <1>1, <1>2 DEF SrdoSide
<1>7. /\ g.prev = s.operational /\ g.checkCRC = FALSE /\ g.configurationValid = good
      /\ g.valid = runs /\ g.timer = (IF enter /\ runs THEN first ELSE s.timer)
      /\ g.operational = s.operational /\ g.toogle = s.toogle
      /\ g.par = s.par /\ g.checksum = s.checksum
  BY <1>2 DEF SrdoSide
<1>8. Verified(g)
  BY <1>1, <1>4, <1>5, <1>7 DEF Verified
<1> QED
  BY <1>1, <1>3, <1>6, <1>7, <1>8 DEF g

(* A pass that changes timer and toogle of a side only.                    *)
LEMMA TimerKeeps ==
  ASSUME NEW s \in SrdoSide, Verified(s), NEW n \in Int, NEW k \in {0, 1}
  PROVE  LET g == [s EXCEPT !.toogle = k, !.timer = n]
         IN  /\ g \in SrdoSide /\ Verified(g) /\ g.toogle = k /\ g.timer = n
             /\ g.valid = s.valid
BY DEF SrdoSide, Verified

(* The countdown of a pass keeps what was verified.                        *)
LEMMA TickedKeeps ==
  ASSUME NEW s \in SrdoSide, Verified(s)
  PROVE  LET t == Safety!Ticked(s)
         IN  /\ t \in SrdoSide /\ Verified(t) /\ t.valid = s.valid /\ t.toogle = s.toogle
             /\ t.timer = IF s.timer > 0 THEN s.timer - 1 ELSE 0
BY DEF Safety!Ticked, SrdoSide, Verified

(* One of the sides changes.                                               *)
LEMMA SideChanges ==
  ASSUME SrdoInv, NEW x \in Safety!Sides, NEW s \in SrdoSide, Verified(s),
         side' = [side EXCEPT ![x] = s]
  PROVE  /\ side' \in [Safety!Sides -> SrdoSide]
         /\ \A y \in Safety!Sides : Verified(side'[y])
         /\ side'[x] = s
         /\ \A y \in Safety!Sides : y # x => side'[y] = side[y]
BY DEF SrdoInv, SrdoTypes

(* A pair of which one component is replaced.                              *)
LEMMA PairChanges ==
  ASSUME NEW S, NEW q \in S \X S, NEW v \in S, NEW k \in {1, 2}
  PROVE  [q EXCEPT ![k] = v] \in S \X S
<1>1. PICK a \in S, b \in S : q = <<a, b>>
  OBVIOUS
<1>2. CASE k = 1
  <2>1. [q EXCEPT ![k] = v] = <<v, b>>
    BY <1>1, <1>2
  <2> QED
    BY <1>1, <2>1
<1>3. CASE k = 2
  <2>1. [q EXCEPT ![k] = v] = <<a, v>>
    BY <1>1, <1>3
  <2> QED
    BY <1>1, <2>1
<1> QED
  BY <1>2, <1>3

(* The bus and the application.                                            *)
LEMMA ReceiveKeepsSrdoInv == SrdoInv /\ (Safety!Receive \/ Safety!Lose) => SrdoInv'
<1> SUFFICES ASSUME SrdoInv, Safety!Receive \/ Safety!Lose
             PROVE  SrdoInv'
  OBVIOUS
<1>1. Head(bus) \in SrdoFrame /\ Tail(bus) \in Seq(SrdoFrame)
  BY HeadTailProperties DEF SrdoInv, Safety!Receive, Safety!Lose
<1>2. CASE Safety!Lose
  <2>1. /\ ghost' \in SrdoGhost
        /\ ghost'.quiet = ghost.quiet /\ ghost'.gap = ghost.gap /\ ghost'.resumed = ghost.resumed
        /\ ghost'.split = ghost.split
    BY <1>2 DEF SrdoInv, SrdoTypes, SrdoGhost, Safety!Lose
  <2> QED
    BY <1>1, <1>2, <2>1 DEF SrdoInv, SrdoTypes, ReceiverInv, WaitsInTime, Safety!Lose
<1>3. CASE Safety!Receive
  <2> DEFINE f == Head(bus)
             k == IF f.inverted THEN 2 ELSE 1
             takes == side["rx"].valid /\ (IF f.inverted THEN CANrxNew[1] ELSE ~CANrxNew[2])
             early == ~(takes /\ ~f.inverted) /\ (ghost.torn \/ CANrxNew[2])
  <2>1. /\ side' = side /\ obj' = obj /\ txData' = txData /\ agree' = agree /\ stage' = stage
        /\ bus' = Tail(bus)
        /\ rxData' = IF takes THEN [rxData EXCEPT ![k] = f.v] ELSE rxData
        /\ CANrxNew' = IF takes THEN [CANrxNew EXCEPT ![k] = TRUE] ELSE CANrxNew
        /\ ghost' = [ghost EXCEPT !.split = @ \/ (takes /\ stage),
                       !.torn = ~(takes /\ ~f.inverted) /\ (@ \/ CANrxNew[2])]
    BY <1>3, Zenon DEF Safety!Receive
  <2>2. f.v \in SrdoValue /\ k \in {1, 2}
    BY <1>1 DEF SrdoFrame
  <2>3. takes \in BOOLEAN /\ early \in BOOLEAN
    BY DEF SrdoInv, SrdoTypes, SrdoSide, Safety!Sides
  <2>4. takes => side["rx"].valid
    OBVIOUS
  <2>9. ghost' = [ghost EXCEPT !.split = ghost.split \/ (takes /\ stage), !.torn = early]
    BY <2>1 DEF SrdoInv, SrdoTypes, SrdoGhost
  <2> HIDE DEF f, k, takes, early
  <2>5. /\ ghost' \in SrdoGhost
        /\ ghost'.quiet = ghost.quiet /\ ghost'.gap = ghost.gap /\ ghost'.resumed = ghost.resumed
        /\ ghost'.split = (ghost.split \/ (takes /\ stage))
    BY <2>3, <2>9 DEF SrdoInv, SrdoTypes, SrdoGhost
  <2>6. SrdoTypes'
    <3>1. rxData' \in SrdoValue \X SrdoValue
      <4>1. rxData \in SrdoValue \X SrdoValue
        BY DEF SrdoInv, SrdoTypes
      <4>2. [rxData EXCEPT ![k] = f.v] \in SrdoValue \X SrdoValue
        BY <2>2, <4>1, PairChanges
      <4> QED
        BY <2>1, <4>1, <4>2
    <3>2. CANrxNew' \in BOOLEAN \X BOOLEAN
      <4>1. CANrxNew \in BOOLEAN \X BOOLEAN
        BY DEF SrdoInv, SrdoTypes
      <4>2. [CANrxNew EXCEPT ![k] = TRUE] \in BOOLEAN \X BOOLEAN
        <5>1. \A v \in BOOLEAN : [CANrxNew EXCEPT ![k] = v] \in BOOLEAN \X BOOLEAN
          BY <2>2, <4>1, PairChanges, Zenon
        <5> QED
          BY <5>1, Zenon
      <4> QED
        BY <2>1, <4>1, <4>2
    <3> QED
      BY <2>1, <2>5, <3>1, <3>2 DEF SrdoInv, SrdoTypes
  <2>7. ~takes => rxData' = rxData /\ CANrxNew' = CANrxNew
    BY <2>1
  <2>8. ReceiverInv'
    BY <2>1, <2>4, <2>5, <2>7 DEF SrdoInv, ReceiverInv, WaitsInTime
  <2> QED
    BY <1>1, <2>1, <2>6, <2>8 DEF SrdoInv
<1> QED
  BY <1>2, <1>3

(* The application writes an object and its inverse.                       *)
LEMMA WriteObjectKeepsSrdoInv == SrdoInv /\ Safety!WriteObject => SrdoInv'
<1> SUFFICES ASSUME SrdoInv, Safety!WriteObject
             PROVE  SrdoInv'
  OBVIOUS
<1>1. obj' \in [n : SrdoValues, i : SrdoValues]
  BY DEF SrdoInv, SrdoTypes, Safety!WriteObject
<1> QED
  BY <1>1 DEF SrdoInv, SrdoTypes, ReceiverInv, WaitsInTime, Safety!WriteObject

(* What can be written are parameters.                                     *)
LEMMA WritesArePar ==
  ASSUME NEW p \in SrdoPar, NEW w \in Safety!ComWrites(p) \cup Safety!MapWrites(p)
  PROVE  w \in SrdoPar
<1>1. CASE w \in Safety!ComWrites(p)
  <2>1. CASE \E u \in BOOLEAN : w = [p EXCEPT !.used = u]
    BY <2>1 DEF SrdoPar
  <2>2. CASE w = [p EXCEPT !.com = "new"]
    BY <2>2 DEF SrdoPar
  <2> QED
    BY <1>1, <2>1, <2>2 DEF Safety!ComWrites
<1>2. CASE w \in Safety!MapWrites(p)
  <2>1. CASE \E n \in {0, 2} : w = [p EXCEPT !.count = n]
    BY <2>1 DEF SrdoPar
  <2>2. CASE \E k \in 1..2, e \in SrdoMaps : w = [p EXCEPT !.maps[k] = e]
    BY <2>2 DEF SrdoPar
  <2> QED
    BY <1>2, <2>1, <2>2 DEF Safety!MapWrites
<1> QED
  BY <1>1, <1>2

(* SDO writes: the side is not operational, and a parameter that has       *)
(* changed is no longer valid.                                             *)
LEMMA WritesKeepSrdoInv ==
  ASSUME SrdoInv, NEW x \in Safety!Sides,
         Safety!WriteParameter(x) \/ Safety!WriteCrc(x) \/ Safety!WriteValid(x) \/ Safety!Nmt(x)
  PROVE  SrdoInv'
<1>1. \E s \in SrdoSide :
        /\ side' = [side EXCEPT ![x] = s] /\ Verified(s)
        /\ s.valid = side[x].valid /\ s.timer = side[x].timer /\ s.toogle = side[x].toogle
  <2>1. side[x] \in SrdoSide /\ side[x].par \in SrdoPar /\ Verified(side[x])
    BY DEF SrdoInv, SrdoTypes, SrdoSide
  <2>2. CASE Safety!WriteParameter(x)
    <3>1. PICK p \in Safety!ComWrites(side[x].par) \cup Safety!MapWrites(side[x].par) :
            side' = [side EXCEPT ![x] = [side[x] EXCEPT !.par = p, !.configurationValid = FALSE]]
      BY <2>2 DEF Safety!WriteParameter, SrdoInv, SrdoTypes, SrdoSide
    <3>2. p \in SrdoPar
      BY <2>1, WritesArePar
    <3> DEFINE s == [side[x] EXCEPT !.par = p, !.configurationValid = FALSE]
    <3>3. ~side[x].operational
      BY <2>2 DEF Safety!WriteParameter, Safety!Writable
    <3>4. /\ s \in SrdoSide /\ s.configurationValid = FALSE
          /\ s.prev = side[x].prev /\ s.operational = side[x].operational
          /\ s.valid = side[x].valid /\ s.timer = side[x].timer /\ s.toogle = side[x].toogle
      BY <2>1, <3>2 DEF SrdoSide
    <3>5. Verified(s)
      BY <2>1, <3>3, <3>4 DEF Verified
    <3> HIDE DEF s
    <3> QED
      BY <3>1, <3>4, <3>5 DEF s
  <2>3. CASE Safety!WriteCrc(x)
    <3>1. PICK p \in {side[x].par, Safety!Good} :
            side' = [side EXCEPT ![x] = [side[x] EXCEPT !.checksum = Safety!Crc(p), !.configurationValid = FALSE]]
      BY <2>3 DEF Safety!WriteCrc, SrdoInv, SrdoTypes, SrdoSide
    <3>2. Safety!Crc(p) \in SrdoCrc
      BY <2>1, GoodIsStored, CrcIsCrc
    <3> DEFINE s == [side[x] EXCEPT !.checksum = Safety!Crc(p), !.configurationValid = FALSE]
    <3>3. ~side[x].operational
      BY <2>3 DEF Safety!WriteCrc, Safety!Writable
    <3>4. /\ s \in SrdoSide /\ s.configurationValid = FALSE
          /\ s.prev = side[x].prev /\ s.operational = side[x].operational
          /\ s.valid = side[x].valid /\ s.timer = side[x].timer /\ s.toogle = side[x].toogle
      BY <2>1, <3>2 DEF SrdoSide
    <3>5. Verified(s)
      BY <2>1, <3>3, <3>4 DEF Verified
    <3> HIDE DEF s
    <3> QED
      BY <3>1, <3>4, <3>5 DEF s
  <2>4. CASE Safety!WriteValid(x)
    <3>1. PICK m \in BOOLEAN :
            side' = [side EXCEPT ![x] = [side[x] EXCEPT !.configurationValid = m, !.checkCRC = m]]
      BY <2>4 DEF Safety!WriteValid, SrdoInv, SrdoTypes, SrdoSide
    <3> DEFINE s == [side[x] EXCEPT !.configurationValid = m, !.checkCRC = m]
    <3>2. ~side[x].operational
      BY <2>4 DEF Safety!WriteValid, Safety!Writable
    <3>3. /\ s \in SrdoSide /\ s.configurationValid = s.checkCRC
          /\ s.prev = side[x].prev /\ s.operational = side[x].operational
          /\ s.valid = side[x].valid /\ s.timer = side[x].timer /\ s.toogle = side[x].toogle
      BY <2>1 DEF SrdoSide
    <3>4. Verified(s)
      BY <2>1, <3>2, <3>3 DEF Verified
    <3> HIDE DEF s
    <3> QED
      BY <3>1, <3>3, <3>4 DEF s
  <2>5. CASE Safety!Nmt(x)
    <3> DEFINE s == [side[x] EXCEPT !.operational = ~side[x].operational]
    <3>1. /\ side' = [side EXCEPT ![x] = [side[x] EXCEPT !.operational = ~side[x].operational]]
          /\ side[x].prev = side[x].operational
      BY <2>5 DEF Safety!Nmt, SrdoInv, SrdoTypes, SrdoSide
    <3>2. /\ s \in SrdoSide /\ s.operational = ~side[x].operational /\ s.prev = side[x].prev
          /\ s.configurationValid = side[x].configurationValid /\ s.checkCRC = side[x].checkCRC
          /\ s.checksum = side[x].checksum /\ s.par = side[x].par
          /\ s.valid = side[x].valid /\ s.timer = side[x].timer /\ s.toogle = side[x].toogle
      BY <2>1 DEF SrdoSide
    <3> HIDE DEF s
    <3>3. Verified(s)
      BY <2>1, <3>1, <3>2 DEF Verified
    <3> QED
      BY <3>1, <3>2, <3>3 DEF s
  <2> QED
    BY <2>2, <2>3, <2>4, <2>5
<1>2. UNCHANGED <<obj, txData, agree, bus, rxData, CANrxNew, stage, ghost>>
  BY DEF Safety!WriteParameter, Safety!WriteCrc, Safety!WriteValid, Safety!Writable, Safety!Nmt
<1>3. PICK s \in SrdoSide :
        /\ side' = [side EXCEPT ![x] = s] /\ Verified(s)
        /\ s.valid = side[x].valid /\ s.timer = side[x].timer /\ s.toogle = side[x].toogle
  BY <1>1
<1>4. /\ side' \in [Safety!Sides -> SrdoSide] /\ \A y \in Safety!Sides : Verified(side'[y])
      /\ side'["rx"].valid = side["rx"].valid /\ side'["rx"].timer = side["rx"].timer
      /\ side'["rx"].toogle = side["rx"].toogle
  BY <1>3, SideChanges DEF Safety!Sides
<1> QED
  BY <1>2, <1>4 DEF SrdoInv, SrdoTypes, ReceiverInv, WaitsInTime

(* The sender's side of a step leaves the receiver alone.                  *)
LEMMA SenderKeepsReceiver ==
  ASSUME SrdoInv, NEW s \in SrdoSide, Verified(s),
         side' = [side EXCEPT !["tx"] = s],
         bus' \in Seq(SrdoFrame), txData' \in SrdoValue,
         UNCHANGED <<obj, agree, rxData, CANrxNew, changes, stage, ghost>>
  PROVE  SrdoInv'
<1>1. /\ side' \in [Safety!Sides -> SrdoSide]
      /\ \A y \in Safety!Sides : Verified(side'[y])
      /\ side'["rx"] = side["rx"]
  BY SideChanges DEF Safety!Sides
<1>2. SrdoTypes'
  BY <1>1 DEF SrdoInv, SrdoTypes
<1>3. ReceiverInv'
  BY <1>1 DEF SrdoInv, ReceiverInv, WaitsInTime
<1> QED
  BY <1>1, <1>2, <1>3 DEF SrdoInv

(* The sending side puts a pair, or half of it, on the bus.                *)
LEMMA TransmitKeepsSrdoInv == SrdoInv /\ Safety!Transmit => SrdoInv'
<1> SUFFICES ASSUME SrdoInv, Safety!Transmit
             PROVE  SrdoInv'
  OBVIOUS
<1> DEFINE s == Safety!Guarded(side["tx"], START)
           t == Safety!Ticked(s)
           isDue == s.valid /\ t.timer = 0
           fits == t.toogle = 1 \/ obj.n = obj.i
           f == Safety!Send(t)
           next == [t EXCEPT !.toogle = 1 - @, !.timer = IF f.inverted THEN REFRESH - DELAY ELSE DELAY]
<1>1. /\ UNCHANGED <<obj, agree, rxData, CANrxNew, changes, stage, ghost>>
      /\ isDue /\ fits =>
           /\ bus' = Append(bus, f) /\ side' = [side EXCEPT !["tx"] = next]
           /\ txData' = IF f.inverted THEN txData ELSE f.v
      /\ ~(isDue /\ fits) =>
           /\ side' = [side EXCEPT !["tx"] = IF s.valid THEN t ELSE s]
           /\ UNCHANGED <<bus, txData>>
  BY DEF Safety!Transmit
<1>2. side["tx"] \in SrdoSide /\ Verified(side["tx"])
      /\ obj.n \in SrdoValue /\ txData \in SrdoValue /\ bus \in Seq(SrdoFrame)
  BY DEF SrdoInv, SrdoTypes, SrdoGhost, SrdoValue, Safety!Sides
<1>3. s \in SrdoSide /\ Verified(s)
  BY <1>2, GuardedKeeps, SrdoAssumption
<1>4. t \in SrdoSide /\ Verified(t)
  BY <1>3, TickedKeeps
<1>5. f \in SrdoFrame /\ f.inverted \in BOOLEAN /\ f.v \in SrdoValue
  <2>1. CASE t.toogle = 1
    BY <1>2, <2>1 DEF Safety!Send, Safety!Frame, SrdoFrame
  <2>2. CASE t.toogle # 1
    BY <1>2, <2>2 DEF Safety!Send, Safety!Frame, SrdoFrame
  <2> QED
    BY <2>1, <2>2
<1> HIDE DEF s, t, isDue, fits, f
<1>6. CASE isDue /\ fits
  <2>1. next \in SrdoSide /\ Verified(next)
    <3> DEFINE k == 1 - t.toogle
               n == IF f.inverted THEN REFRESH - DELAY ELSE DELAY
    <3>1. k \in {0, 1} /\ n \in Int
      BY <1>4, SrdoAssumption DEF SrdoSide
    <3>2. next = [t EXCEPT !.toogle = k, !.timer = n]
      BY <1>4 DEF SrdoSide
    <3> HIDE DEF k, n
    <3> QED
      BY <1>4, <3>1, <3>2, TimerKeeps
  <2>2. Append(bus, f) \in Seq(SrdoFrame)
    BY <1>2, <1>5
  <2> HIDE DEF next
  <2> QED
    BY <1>1, <1>2, <1>5, <1>6, <2>1, <2>2, SenderKeepsReceiver
<1>7. CASE ~(isDue /\ fits)
  BY <1>1, <1>2, <1>3, <1>4, <1>7, SenderKeepsReceiver
<1> QED
  BY <1>6, <1>7

(* The application asks for the next pair at once.                         *)
LEMMA RequestKeepsSrdoInv == SrdoInv /\ Safety!CO_SRDO_requestSend => SrdoInv'
<1> SUFFICES ASSUME SrdoInv, Safety!CO_SRDO_requestSend
             PROVE  SrdoInv'
  OBVIOUS
<1> DEFINE s == [side["tx"] EXCEPT !.timer = 0]
<1>1. side["tx"] \in SrdoSide /\ Verified(side["tx"])
  BY DEF SrdoInv, SrdoTypes, Safety!Sides
<1>2. s \in SrdoSide /\ Verified(s)
  BY <1>1 DEF SrdoSide, Verified
<1>3. side' = [side EXCEPT !["tx"] = s]
  BY DEF SrdoInv, SrdoTypes, Safety!Sides, Safety!CO_SRDO_requestSend
<1> HIDE DEF s
<1> QED
  BY <1>2, <1>3, SenderKeepsReceiver DEF SrdoInv, SrdoTypes, Safety!CO_SRDO_requestSend

(* The receiving side copies a pair that agreed.                           *)
LEMMA CopyKeepsSrdoInv == SrdoInv /\ Safety!Copy => SrdoInv'
<1> SUFFICES ASSUME SrdoInv, Safety!Copy
             PROVE  SrdoInv'
  OBVIOUS
<1> DEFINE s == [side["rx"] EXCEPT !.toogle = 0, !.timer = SCT]
<1>1. side["rx"] \in SrdoSide /\ Verified(side["rx"])
  BY DEF SrdoInv, SrdoTypes, Safety!Sides
<1>2. /\ s \in SrdoSide /\ Verified(s) /\ s.toogle = 0 /\ s.timer = SCT /\ s.valid = side["rx"].valid
  <2>1. 0 \in {0, 1} /\ SCT \in Int
    BY LongerIsEither
  <2> QED
    BY <1>1, <2>1, TimerKeeps
<1>3. side' = [side EXCEPT !["rx"] = s]
  BY DEF Safety!Copy, SrdoInv, SrdoTypes, SrdoSide, Safety!Sides
<1> HIDE DEF s
<1>4. /\ side' \in [Safety!Sides -> SrdoSide] /\ \A y \in Safety!Sides : Verified(side'[y])
      /\ side'["rx"] = s
  BY <1>2, <1>3, SideChanges DEF Safety!Sides
<1>5. agree' \in BOOLEAN /\ (agree' <=> rxData[1] = rxData[2])
  BY DEF Safety!Copy
<1>6. /\ ghost' \in SrdoGhost
      /\ ghost'.quiet = 0 /\ ghost'.split = (ghost.split /\ ~agree')
  BY <1>5 DEF Safety!Copy, SrdoInv, SrdoTypes, SrdoGhost
<1>7. SrdoTypes'
  BY <1>4, <1>5, <1>6 DEF Safety!Copy, SrdoInv, SrdoTypes
<1>8. ghost'.split \/ agree'
  BY <1>5, <1>6 DEF Safety!Copy, SrdoInv, ReceiverInv
<1>9. WaitsInTime(s, ghost')
  BY <1>2, <1>6, LongerIsEither DEF WaitsInTime
<1>10. ReceiverInv'
  BY <1>2, <1>4, <1>6, <1>8, <1>9 DEF Safety!Copy, ReceiverInv
<1> QED
  BY <1>4, <1>7, <1>10 DEF Safety!Copy, SrdoInv

(* A pass of the receiver that leaves it in time.                          *)
LEMMA PassKeepsSrdoInv ==
  ASSUME SrdoInv, NEW s \in SrdoSide, Verified(s), NEW g \in SrdoGhost,
         NEW new \in BOOLEAN \X BOOLEAN, Safety!Pass(s, g, new), stage' \in BOOLEAN,
         ~s.valid => g.quiet = 0 /\ new = <<FALSE, FALSE>> /\ ~stage',
         s.valid /\ ~stage' => WaitsInTime(s, g),
         stage' => /\ g.quiet <= Safety!Longer + SRVT
                   /\ ~g.resumed => g.gap <= SRVT
                   /\ rxData[1] = rxData[2],
         stage' \/ g.split \/ agree
  PROVE  SrdoInv'
<1>1. /\ side' = [side EXCEPT !["rx"] = s] /\ ghost' = g /\ CANrxNew' = new
      /\ UNCHANGED <<obj, txData, agree, bus, rxData, changes>>
  BY DEF Safety!Pass
<1>2. /\ side' \in [Safety!Sides -> SrdoSide] /\ \A y \in Safety!Sides : Verified(side'[y])
      /\ side'["rx"] = s
  BY <1>1, SideChanges DEF Safety!Sides
<1>3. SrdoTypes'
  BY <1>1, <1>2 DEF SrdoInv, SrdoTypes
<1>4. ReceiverInv'
  BY <1>1, <1>2 DEF ReceiverInv
<1> QED
  BY <1>1, <1>2, <1>3, <1>4 DEF SrdoInv

(* The receiving side waits, takes a pair, or falls to its safe state.     *)
LEMMA MonitorKeepsSrdoInv == SrdoInv /\ Safety!Monitor => SrdoInv'
<1> SUFFICES ASSUME SrdoInv, Safety!Monitor
             PROVE  SrdoInv'
  OBVIOUS
<1> DEFINE r == side["rx"]
           s == Safety!Guarded(r, SCT)
           t == Safety!Ticked(s)
           entered == Safety!Entered(s)
           more == Safety!Quiet(ghost.quiet + 1)
           apart == IF r.toogle = 1 THEN Safety!Cap(ghost.gap + 1, SRVT + 1) ELSE 0
           begun == IF entered THEN s.toogle = 1 ELSE ghost.resumed
           g == [Safety!Waits EXCEPT !.resumed = IF entered THEN s.toogle = 1 ELSE @,
                                     !.quiet = IF entered THEN 1 ELSE @]
           first == ~CANrxNew[1 + t.toogle] /\ t.timer = 0
<1>1. /\ r \in SrdoSide /\ Verified(r) /\ ghost \in SrdoGhost /\ stage = FALSE
      /\ CANrxNew \in BOOLEAN \X BOOLEAN
  BY DEF SrdoInv, SrdoTypes, Safety!Sides, Safety!Monitor
<1>2. /\ s \in SrdoSide /\ Verified(s) /\ s.toogle = r.toogle
      /\ (s.valid /\ ~r.valid) => s.timer = SCT
      /\ ~(s.valid /\ ~r.valid) => s.timer = r.timer
  <2>1. SCT \in Int
    BY LongerIsEither
  <2> QED
    BY <1>1, <2>1, GuardedKeeps
<1>3. /\ t \in SrdoSide /\ Verified(t) /\ t.valid = s.valid /\ t.toogle = s.toogle
      /\ t.timer = IF s.timer > 0 THEN s.timer - 1 ELSE 0
  BY <1>2, TickedKeeps
<1>4. entered \in BOOLEAN /\ (entered <=> s.valid /\ ~r.valid)
  BY <1>1, <1>2 DEF Safety!Entered, SrdoSide
<1>5. begun \in BOOLEAN /\ begun = IF entered THEN s.toogle = 1 ELSE ghost.resumed
  BY <1>1 DEF SrdoGhost
<1>6. /\ more \in Nat /\ more <= ghost.quiet + 1
      /\ apart \in Nat /\ (r.toogle = 1 => apart <= ghost.gap + 1)
  BY <1>1, LongerIsEither DEF SrdoGhost, Safety!Quiet, Safety!QuietMax, Safety!Cap
<1>7. g = [ghost EXCEPT !.quiet = IF entered THEN 1 ELSE more, !.gap = apart,
                        !.resumed = begun]
  BY <1>1 DEF Safety!Waits, SrdoGhost
<1>8. ~r.valid => CANrxNew = <<FALSE, FALSE>>
  BY DEF SrdoInv, ReceiverInv
<1>9. r.valid => WaitsInTime(r, ghost)
  BY <1>1 DEF SrdoInv, ReceiverInv
<1>10. ghost.split \/ agree
  BY <1>1 DEF SrdoInv, ReceiverInv
<1>11. Safety!Monitor
  OBVIOUS
<1>12. \/ /\ ~s.valid /\ UNCHANGED stage
           /\ Safety!Pass(s, [ghost EXCEPT !.quiet = 0, !.gap = 0], <<FALSE, FALSE>>)
       \/ /\ s.valid /\ t.toogle = 0 /\ CANrxNew[1] /\ UNCHANGED stage
           /\ Safety!Pass([t EXCEPT !.toogle = 1, !.timer = SRVT],
                          [g EXCEPT !.gap = 0, !.resumed = FALSE], CANrxNew)
       \/ /\ s.valid /\ t.toogle = 1 /\ rxData[1] = rxData[2]
           /\ stage' = TRUE /\ Safety!Pass(t, [g EXCEPT !.split = FALSE], CANrxNew)
       \/ /\ s.valid /\ UNCHANGED stage
           /\ Safety!Pass([t EXCEPT !.toogle = 0, !.timer = SCT],
                          [g EXCEPT !.quiet = 0, !.resumed = FALSE], <<FALSE, FALSE>>)
       \/ /\ s.valid /\ UNCHANGED stage
           /\ Safety!Pass([t EXCEPT !.toogle = 0, !.timer = SRVT],
                          [g EXCEPT !.quiet = 0, !.resumed = FALSE], <<FALSE, FALSE>>)
       \/ /\ s.valid /\ t.timer > 0 /\ UNCHANGED stage
           /\ Safety!Pass(t, g, CANrxNew)
  BY <1>11 DEF Safety!Monitor
<1> HIDE DEF r, s, t, g, entered, more, apart, first, begun
<1>13. /\ g \in SrdoGhost /\ g.quiet = (IF entered THEN 1 ELSE more) /\ g.gap = apart
       /\ g.resumed = begun /\ g.split = ghost.split
  BY <1>1, <1>5, <1>6, <1>7 DEF SrdoGhost
(* What a pass of a valid receiver leaves of the wait.                     *)
<1>14. s.valid => /\ t.timer \in Nat /\ t.toogle \in {0, 1}
                  /\ g.quiet + t.timer <= IF t.toogle = 0 THEN Safety!Longer ELSE Safety!Longer + SRVT
                  /\ t.toogle = 1 /\ ~g.resumed => g.gap + t.timer <= SRVT
  <2> SUFFICES ASSUME s.valid
               PROVE  /\ t.timer \in Nat /\ t.toogle \in {0, 1}
                      /\ g.quiet + t.timer <= IF t.toogle = 0 THEN Safety!Longer ELSE Safety!Longer + SRVT
                      /\ t.toogle = 1 /\ ~g.resumed => g.gap + t.timer <= SRVT
    OBVIOUS
  <2>1. t.timer \in Nat /\ t.toogle \in {0, 1} /\ s.timer \in Int
    BY <1>2, <1>3 DEF SrdoSide
  <2>2. CASE entered
    <3>1. t.timer = SCT - 1 /\ g.quiet = 1
      BY <1>2, <1>3, <1>4, <1>13, <2>2, LongerIsEither
    <3>2. t.toogle = 1 => g.resumed
      BY <1>3, <1>5, <1>13, <2>2
    <3> QED
      BY <2>1, <3>1, <3>2, LongerIsEither
  <2>3. CASE ~entered
    <3>1. r.valid /\ s.timer = r.timer
      BY <1>2, <1>4, <2>3
    <3>2. /\ r.timer >= 1 /\ r.timer \in Int /\ ghost.quiet \in Nat /\ ghost.gap \in Nat
          /\ ghost.quiet + r.timer <= IF r.toogle = 0 THEN Safety!Longer ELSE Safety!Longer + SRVT
          /\ r.toogle = 1 /\ ~ghost.resumed => ghost.gap + r.timer <= SRVT
      BY <1>1, <1>9, <3>1 DEF WaitsInTime, SrdoSide, SrdoGhost
    <3>3. t.timer = r.timer - 1 /\ t.toogle = r.toogle /\ g.quiet = more
          /\ g.resumed = ghost.resumed /\ g.gap = apart
      BY <1>2, <1>3, <1>5, <1>13, <2>3, <3>1, <3>2
    <3> QED
      BY <1>6, <2>1, <3>2, <3>3, LongerIsEither
  <2> QED
    BY <2>2, <2>3
<1>15. CASE ~s.valid
  <2> DEFINE h == [ghost EXCEPT !.quiet = 0, !.gap = 0]
  <2>1. h \in SrdoGhost /\ h.quiet = 0 /\ h.split = ghost.split
    BY <1>1 DEF SrdoGhost
  <2>2. Safety!Pass(s, h, <<FALSE, FALSE>>) /\ stage' = stage
    BY <1>12, <1>15
  <2> HIDE DEF h
  <2> QED
    BY <1>1, <1>2, <1>10, <1>15, <2>1, <2>2, PassKeepsSrdoInv
<1>16. ASSUME s.valid, UNCHANGED stage, NEW k \in {0, 1}, NEW n \in {SCT, SRVT},
              NEW new \in BOOLEAN \X BOOLEAN, NEW h \in SrdoGhost, h.split = ghost.split,
              k = 0 => h.quiet = 0,
              k = 1 => n = SRVT /\ h.quiet = g.quiet /\ h.gap = 0 /\ t.toogle = 0,
              Safety!Pass([t EXCEPT !.toogle = k, !.timer = n], h, new)
       PROVE  SrdoInv'
  <2> DEFINE u == [t EXCEPT !.toogle = k, !.timer = n]
  <2>1. u \in SrdoSide /\ Verified(u) /\ u.toogle = k /\ u.timer = n /\ u.valid = t.valid
    <3>1. n \in Int
      BY <1>16, LongerIsEither
    <3> QED
      BY <1>3, <3>1, TimerKeeps
  <2>2. Safety!Pass(u, h, new)
    BY <1>16
  <2> HIDE DEF u
  <2>3. WaitsInTime(u, h)
    BY <1>14, <1>16, <2>1, LongerIsEither DEF WaitsInTime, SrdoGhost
  <2> QED
    BY <1>1, <1>3, <1>10, <1>16, <2>1, <2>2, <2>3, PassKeepsSrdoInv
<1>17. CASE /\ s.valid /\ t.toogle = 0 /\ CANrxNew[1] /\ UNCHANGED stage
            /\ Safety!Pass([t EXCEPT !.toogle = 1, !.timer = SRVT],
                           [g EXCEPT !.gap = 0, !.resumed = FALSE], CANrxNew)
  <2> DEFINE h == [g EXCEPT !.gap = 0, !.resumed = FALSE]
  <2>1. h \in SrdoGhost /\ h.quiet = g.quiet /\ h.gap = 0 /\ h.split = g.split
    BY <1>13 DEF SrdoGhost
  <2> HIDE DEF h
  <2>2. Safety!Pass([t EXCEPT !.toogle = 1, !.timer = SRVT], h, CANrxNew)
    BY <1>17 DEF h
  <2>3. 1 \in {0, 1} /\ SRVT \in {SCT, SRVT} /\ 1 # 0
    OBVIOUS
  <2> QED
    BY <1>1, <1>13, <1>16, <1>17, <2>1, <2>2, <2>3
<1>18. CASE /\ s.valid /\ t.toogle = 1 /\ rxData[1] = rxData[2]
            /\ stage' = TRUE /\ Safety!Pass(t, [g EXCEPT !.split = FALSE], CANrxNew)
  <2> DEFINE h == [g EXCEPT !.split = FALSE]
  <2>1. h \in SrdoGhost /\ h.quiet = g.quiet /\ h.gap = g.gap /\ h.resumed = g.resumed
    BY <1>13 DEF SrdoGhost
  <2> HIDE DEF h
  <2>2. h.quiet <= Safety!Longer + SRVT /\ (~h.resumed => h.gap <= SRVT)
    BY <1>14, <1>18, <2>1, LongerIsEither DEF SrdoGhost
  <2>3. Safety!Pass(t, h, CANrxNew)
    BY <1>18 DEF h
  <2> QED
    BY <1>1, <1>3, <1>18, <2>1, <2>2, <2>3, PassKeepsSrdoInv
<1>19. ASSUME s.valid, UNCHANGED stage, NEW n \in {SCT, SRVT},
              Safety!Pass([t EXCEPT !.toogle = 0, !.timer = n],
                          [g EXCEPT !.quiet = 0, !.resumed = FALSE], <<FALSE, FALSE>>)
       PROVE  SrdoInv'
  <2> DEFINE h == [g EXCEPT !.quiet = 0, !.resumed = FALSE]
  <2>1. h \in SrdoGhost /\ h.quiet = 0 /\ h.split = g.split
    BY <1>13 DEF SrdoGhost
  <2> HIDE DEF h
  <2>2. Safety!Pass([t EXCEPT !.toogle = 0, !.timer = n], h, <<FALSE, FALSE>>)
    BY <1>19 DEF h
  <2>3. 0 \in {0, 1} /\ 1 # 0
    OBVIOUS
  <2> QED
    BY <1>13, <1>16, <1>19, <2>1, <2>2, <2>3
<1>20. CASE /\ s.valid /\ t.timer > 0 /\ UNCHANGED stage
            /\ Safety!Pass(t, g, CANrxNew)
  <2>1. WaitsInTime(t, g)
    BY <1>14, <1>20 DEF WaitsInTime
  <2> QED
    BY <1>1, <1>3, <1>10, <1>13, <1>20, <2>1, PassKeepsSrdoInv
<1> QED
  BY <1>12, <1>15, <1>17, <1>18, <1>19, <1>20

(* A step of the SRDO, and a step of another service.                      *)
LEMMA SrdoInvStep == SrdoInv /\ [Next]_vars => SrdoInv'
<1> SUFFICES ASSUME SrdoInv, [Next]_vars
             PROVE  SrdoInv'
  OBVIOUS
<1>1. CASE UNCHANGED srdoVars
  BY <1>1 DEF srdoVars, SrdoInv, SrdoTypes, ReceiverInv
<1>2. CASE Safety!SrdoNext
  BY <1>2, ReceiveKeepsSrdoInv, WriteObjectKeepsSrdoInv, TransmitKeepsSrdoInv,
     RequestKeepsSrdoInv, MonitorKeepsSrdoInv, CopyKeepsSrdoInv, WritesKeepSrdoInv
     DEF Safety!SrdoNext
<1> QED
  BY <1>1, <1>2 DEF Next, vars
-----------------------------------------------------------------------------
(* The configuration of a PDO.                                             *)
IoEntry == {Config!EntryFor(m) : m \in ObjectMaps} \cup {Config!Erroneous}
FlagOwner == {m.obj : m \in ObjectMaps} \cup {"none"}

(* The entries in effect are those of the dictionary or were erroneous at  *)
(* the last reset; a count that is not zero is the one in the dictionary,  *)
(* of entries that were looked at when it was written, and only such a     *)
(* mapping is switched on; a COB-ID that is not pinned is in the           *)
(* dictionary without node-ID.                                             *)
PdoTypes ==
  /\ node \in PdoNodeIds
  /\ stored \in [Config!Entry -> ObjectMaps] /\ storedCount \in 0..Entries
  /\ io \in [Config!Entry -> IoEntry] /\ flagOf \in [Config!Entry -> FlagOwner]
  /\ mappedObjectsCount \in 0..Entries /\ dataLength \in 0..MaxSize
  /\ storedId \in Config!Id
  /\ configuredCanId \in Config!Id \cup {Config!NoId}
  /\ pdoBuffer.id \in Config!Id \cup {Config!NoId}

MappingInv ==
  /\ \A i \in Config!Entry : io[i] \in {Config!EntryFor(stored[i]), Config!Erroneous}
  /\ Config!RequestsReachTheirPdo
  /\ mappedObjectsCount > 0 =>
       /\ storedCount = mappedObjectsCount
       /\ dataLength \in 1..MaxSize /\ dataLength = Config!Length(io, mappedObjectsCount)
       /\ \A i \in 1..mappedObjectsCount : io[i].mapped <= io[i].size

CobIdInv ==
  /\ pdoValid => /\ mappedObjectsCount > 0 /\ storedValid
                 /\ isRPDO \/ pdoBuffer.length = dataLength
  /\ ~pinned => /\ storedId = Config!Base
                /\ pdoValid => configuredCanId = Config!Predefined(node)

PdoInv == PdoTypes /\ MappingInv /\ CobIdInv

(* The bytes of a mapping are counted in natural numbers.                  *)
LEMMA LengthIsNatural ==
  ASSUME NEW f \in [Config!Entry -> IoEntry], NEW n \in 0..Entries
  PROVE  Config!Length(f, n) \in Nat
<1>1. \A e \in IoEntry : e.mapped \in Nat
  BY PdoConfigAssumption DEF IoEntry, Config!EntryFor, Config!Erroneous
<1>2. \A i \in 1..n : i \in Config!Entry /\ Config!Mapped(f)[i] = f[i].mapped
  BY PdoConfigAssumption DEF Config!Entry, Config!Mapped
<1>3. \A i \in 1..n : Config!Mapped(f)[i] \in Nat
  BY <1>1, <1>2
<1>4. n \in Nat
  BY PdoConfigAssumption
<1> DEFINE m == Config!Mapped(f)
<1> HIDE DEF m
<1>5. SumFunctionOnSet(m, 1..n) \in Nat
  <2>1. \A i \in 1..n : m[i] \in Nat
    BY <1>3 DEF m
  <2> QED
    BY <1>4, <2>1, SumIsNatural
<1>6. Config!SumFunctionOnSet(m, 1..n) = SumFunctionOnSet(m, 1..n)
  BY DEF Config!SumFunctionOnSet, Config!FoldFunctionOnSet, Config!MapThenFoldSet,
     SumFunctionOnSet, FoldFunctionOnSet, MapThenFoldSet
<1> QED
  BY <1>5, <1>6 DEF m, Config!Length

(* What the invariant is for.                                              *)
LEMMA PdoInvSuffices == PdoInv => PdoIsInEffect /\ Config!PcTypeOK
<1> SUFFICES ASSUME PdoInv PROVE PdoIsInEffect /\ Config!PcTypeOK
  OBVIOUS
<1> USE DEF PdoInv
<1>1. Config!FrameMatchesMapping
  BY DEF MappingInv, CobIdInv, Config!FrameMatchesMapping
<1>2. Config!DictionaryIsInEffect
  <2> SUFFICES ASSUME pdoValid, NEW i \in 1..mappedObjectsCount
               PROVE  io[i] = Config!EntryFor(stored[i])
    BY DEF MappingInv, CobIdInv, Config!DictionaryIsInEffect
  <2>1. i \in Config!Entry /\ io[i].mapped <= io[i].size
    BY PdoConfigAssumption DEF MappingInv, CobIdInv, PdoTypes, Config!Entry
  <2> QED
    BY <2>1 DEF MappingInv, Config!Erroneous
<1>3. Config!DefaultFollowsNode
  BY DEF CobIdInv, Config!DefaultFollowsNode, Config!ReadCobId
<1> QED
  BY <1>1, <1>2, <1>3 DEF MappingInv, PdoTypes, PdoIsInEffect, Config!PcTypeOK

(* At the start nothing is mapped.                                         *)
LEMMA PdoInvInit == Init => PdoInv
<1> SUFFICES ASSUME Config!PcInit PROVE PdoInv
  BY DEF Init
<1>1. PdoTypes
  BY PdoConfigAssumption
     DEF Config!PcInit, PdoTypes, IoEntry, FlagOwner, Config!Id
<1>2. MappingInv
  BY DEF Config!PcInit, MappingInv, Config!RequestsReachTheirPdo, Config!Erroneous
<1>3. CobIdInv
  BY DEF Config!PcInit, CobIdInv, Config!Base, Config!Other
<1> QED
  BY <1>1, <1>2, <1>3 DEF PdoInv

(* A write of the COB-ID leaves the mapping as it is, and switches a PDO   *)
(* on only with a mapping in effect.                                       *)
LEMMA CobIdKeepsPdoInv ==
  ASSUME PdoInv, NEW v \in BOOLEAN, NEW id \in Config!Id, Config!WriteCobId(v, id)
  PROVE  PdoInv'
<1> USE DEF PdoInv, Config!WriteCobId
<1>1. UNCHANGED <<isRPDO, node, stored, storedCount, Config!mapVars>>
  OBVIOUS
<1>2. PdoTypes'
  <2>1. storedId' \in Config!Id
    BY DEF PdoTypes, Config!StoredFor, Config!Id
  <2>2. /\ configuredCanId' \in Config!Id \cup {Config!NoId}
        /\ pdoBuffer'.id \in Config!Id \cup {Config!NoId}
    BY DEF PdoTypes, Config!Configured, Config!BufferFor
  <2> QED
    BY <1>1, <2>1, <2>2 DEF PdoTypes, Config!mapVars
<1>3. MappingInv'
  BY <1>1 DEF MappingInv, Config!mapVars, Config!RequestsReachTheirPdo
<1>4. CobIdInv'
  <2> DEFINE changed == v # pdoValid \/ id # configuredCanId
  <2>1. CASE changed
    <3>1. pdoValid' = v /\ storedValid' = v /\ pdoBuffer' = Config!BufferFor(v, id)
      BY <2>1
    <3>2. pinned' = (id # Config!Predefined(node))
      BY <2>1
    <3>3. v => mappedObjectsCount > 0
      BY PdoConfigAssumption DEF PdoTypes, Config!CobIdIsGood
    <3>4. pdoBuffer'.length = IF isRPDO THEN 0 ELSE dataLength
      BY <3>1 DEF Config!BufferFor
    <3>5. ~pinned' => storedId' = Config!Base
      BY <2>1, <3>2 DEF Config!StoredFor
    <3>6. ~pinned' /\ v => configuredCanId' = Config!Predefined(node)
      BY <2>1, <3>2 DEF Config!Configured
    <3> QED
      BY <1>1, <3>1, <3>3, <3>4, <3>5, <3>6 DEF CobIdInv, Config!mapVars
  <2>2. CASE ~changed
    <3>1. pdoValid = v /\ storedValid' = v /\ pinned'
      BY <2>2
    <3>2. UNCHANGED <<pdoValid, configuredCanId, pdoBuffer>>
      BY <2>2
    <3> QED
      BY <1>1, <3>1, <3>2 DEF CobIdInv, Config!mapVars
  <2> QED
    BY <2>1, <2>2
<1> QED
  BY <1>2, <1>3, <1>4

(* A mapping is written while the PDO is off, and an entry while none is   *)
(* in use.                                                                 *)
LEMMA MappingKeepsPdoInv ==
  ASSUME PdoInv,
         \/ \E i \in Config!Entry, m \in ObjectMaps : Config!WriteMap(i, m)
         \/ \E n \in 0..Entries : Config!WriteCount(n)
  PROVE  PdoInv'
<1> USE DEF PdoInv
<1>1. CASE \E i \in Config!Entry, m \in ObjectMaps : Config!WriteMap(i, m)
  <2> PICK i \in Config!Entry, m \in ObjectMaps : Config!WriteMap(i, m)
    BY <1>1
  <2> USE DEF Config!WriteMap
  <2>1. /\ Config!EntryFor(m) \in IoEntry
        /\ Config!FlagFor(m, flagOf[i]) \in FlagOwner
    BY DEF IoEntry, FlagOwner, PdoTypes, Config!FlagFor
  <2>2. PdoTypes'
    BY <2>1 DEF PdoTypes, Config!cobVars
  <2>3. MappingInv'
    BY DEF PdoTypes, MappingInv, Config!RequestsReachTheirPdo, Config!EntryFor,
       Config!FlagFor
  <2>4. CobIdInv'
    BY DEF CobIdInv, Config!cobVars
  <2> QED
    BY <2>2, <2>3, <2>4
<1>2. CASE \E n \in 0..Entries : Config!WriteCount(n)
  <2> PICK n \in 0..Entries : Config!WriteCount(n)
    BY <1>2
  <2> USE DEF Config!WriteCount
  <2>1. Config!Length(io, n) \in Nat
    BY LengthIsNatural DEF PdoTypes
  <2>2. PdoTypes'
    BY <2>1, PdoConfigAssumption DEF PdoTypes, Config!cobVars, Config!CountIsGood
  <2>3. MappingInv'
    BY <2>1, PdoConfigAssumption
       DEF MappingInv, Config!CountIsGood, Config!RequestsReachTheirPdo
  <2>4. CobIdInv'
    BY DEF CobIdInv, Config!cobVars
  <2> QED
    BY <2>2, <2>3, <2>4
<1> QED
  BY <1>1, <1>2

(* A communication reset takes the mapping of the dictionary into effect,  *)
(* or none of it.                                                          *)
LEMMA ResetKeepsPdoInv ==
  ASSUME PdoInv, NEW n \in PdoNodeIds, Config!Reset(n)
  PROVE  PdoInv'
<1> USE DEF PdoInv, Config!Reset, Config!Setup
<1> DEFINE length == Config!Length(Config!InitIo, storedCount')
<1>1. UNCHANGED <<isRPDO, stored, storedCount, storedId, storedValid, pinned>>
  OBVIOUS
<1>2. io' \in [Config!Entry -> IoEntry] /\ flagOf' \in [Config!Entry -> FlagOwner]
  BY <1>1 DEF PdoTypes, IoEntry, FlagOwner, Config!InitIo, Config!FlagFor
<1>3. length \in Nat /\ length = Config!Length(io', storedCount)
  BY <1>1, <1>2, LengthIsNatural DEF PdoTypes
<1>4. \/ mappedObjectsCount' = 0 /\ dataLength' \in {0, length}
         /\ (dataLength' = length => ~Config!ErroneousMap(length) \/ length = 0)
      \/ /\ mappedObjectsCount' = storedCount /\ dataLength' = length
         /\ ~Config!ErroneousMap(length)
  BY <1>1
<1>5. ~Config!ErroneousMap(length) =>
        /\ \A i \in Config!Entry : Config!MapIsGood(stored[i])
        /\ length <= MaxSize /\ (storedCount > 0 => length # 0)
  BY <1>1, <1>3, PdoConfigAssumption DEF PdoTypes, Config!ErroneousMap
<1> HIDE DEF length
<1>6. PdoTypes'
  <2>1. dataLength' \in 0..MaxSize /\ mappedObjectsCount' \in 0..Entries
    BY <1>3, <1>4, <1>5, PdoConfigAssumption DEF PdoTypes
  <2>2. /\ configuredCanId' \in Config!Id \cup {Config!NoId}
        /\ pdoBuffer'.id \in Config!Id \cup {Config!NoId}
    BY <1>1 DEF PdoTypes, Config!Id
  <2> QED
    BY <1>1, <1>2, <2>1, <2>2 DEF PdoTypes
<1>7. MappingInv'
  <2>1. \A i \in Config!Entry : io'[i] \in {Config!EntryFor(stored'[i]), Config!Erroneous}
    BY DEF Config!InitIo
  <2>2. Config!RequestsReachTheirPdo'
    BY <1>1 DEF Config!RequestsReachTheirPdo, Config!InitIo, Config!EntryFor,
       Config!Erroneous, Config!FlagFor
  <2>3. ASSUME mappedObjectsCount' > 0
        PROVE  /\ storedCount' = mappedObjectsCount'
               /\ dataLength' \in 1..MaxSize
               /\ dataLength' = Config!Length(io', mappedObjectsCount')
               /\ \A i \in 1..mappedObjectsCount' : io'[i].mapped <= io'[i].size
    <3>1. /\ mappedObjectsCount' = storedCount /\ dataLength' = length
          /\ \A i \in Config!Entry : Config!MapIsGood(stored[i])
          /\ length <= MaxSize /\ length # 0
      BY <1>4, <1>5, <2>3
    <3>2. \A i \in 1..storedCount : i \in Config!Entry
      BY PdoConfigAssumption DEF PdoTypes, Config!Entry
    <3>3. \A i \in Config!Entry : io'[i].mapped <= io'[i].size
      BY <1>1, <3>1, PdoConfigAssumption
         DEF PdoTypes, Config!InitIo, Config!EntryFor, Config!MapIsGood
    <3> QED
      BY <1>1, <1>3, <3>1, <3>2, <3>3, PdoConfigAssumption
  <2> QED
    BY <2>1, <2>2, <2>3 DEF MappingInv
<1>8. CobIdInv'
  <2>1. pdoValid' => mappedObjectsCount' > 0 /\ storedValid'
    BY <1>1
  <2>2. isRPDO' \/ pdoBuffer'.length = dataLength'
    BY <1>1
  <2>3. ~pinned' => /\ storedId' = Config!Base
                    /\ pdoValid' => configuredCanId' = Config!Predefined(node')
    <3>1. ~pinned' => ~pinned
      BY <1>1
    <3>2. ~pinned => storedId = Config!Base
      BY DEF CobIdInv
    <3>3. storedId' = Config!Base /\ pdoValid' => configuredCanId' = Config!Predefined(node')
      OBVIOUS
    <3> QED
      BY <1>1, <3>1, <3>2, <3>3
  <2> QED
    BY <2>1, <2>2, <2>3 DEF CobIdInv
<1> QED
  BY <1>6, <1>7, <1>8

(* A step of the PDO's configuration, and a step of another service.       *)
LEMMA PdoInvStep == PdoInv /\ [Next]_vars => PdoInv'
<1> SUFFICES ASSUME PdoInv, [Next]_vars
             PROVE  PdoInv'
  OBVIOUS
<1>1. CASE UNCHANGED configVars
  BY <1>1 DEF configVars, PdoInv, PdoTypes, MappingInv, CobIdInv,
     Config!RequestsReachTheirPdo
<1>2. CASE Config!PcNext
  BY <1>2, ResetKeepsPdoInv, MappingKeepsPdoInv, CobIdKeepsPdoInv DEF Config!PcNext
<1> QED
  BY <1>1, <1>2 DEF Next, vars

(* A valid PDO has the length, pointers and flags of its mapping, what is  *)
(* read back of its parameters is in effect, a request of an object asks   *)
(* the PDO that maps it, and a PDO left at its default identifier has that *)
(* of the node id.                                                         *)
THEOREM PdoIsInEffectAlways == Spec => []PdoIsInEffect
<1>1. PdoInv => PdoIsInEffect
  BY PdoInvSuffices
<1> QED
  BY <1>1, PdoInvInit, PdoInvStep, PTL DEF Spec

-----------------------------------------------------------------------------
(* CO_fifo: the ring is the bounded queue.                                 *)

(* A step of a pointer.                                                    *)
LEMMA AfterIsPlace == \A p \in Ring!Place : Ring!After(p) \in Ring!Place
BY FifoAssumption DEF Ring!Place, Ring!After

(* What the loop of CO_fifo_altBegin makes of each place.                  *)
LEMMA AheadIs ==
  ASSUME writePtr \in Ring!Place
  PROVE  \A k \in 0..BufSize, p \in Ring!Place :
           Ring!Ahead[<<k, p>>] = IF k = 0 \/ p = writePtr THEN p ELSE Ring!Ahead[<<k - 1, Ring!After(p)>>]
<1> DEFINE D == (0..BufSize) \X Ring!Place
           B(f, k, p) == IF k = 0 \/ p = writePtr THEN p ELSE f[<<k - 1, Ring!After(p)>>]
           G == [e \in D \X [D -> Ring!Place] |-> B(e[2], e[1][1], e[1][2])]
           rank == [x \in D |-> x[1]]
<1>1. \A k \in 0..BufSize, p \in Ring!Place : ~(k = 0) => <<k - 1, Ring!After(p)>> \in D
  BY AfterIsPlace, FifoAssumption
<1>2. \A k \in 0..BufSize, p \in Ring!Place, f \in [D -> Ring!Place] : B(f, k, p) \in Ring!Place
  <2> HIDE DEF D
  <2> QED
  BY <1>1
<1>3. IsRecursion(G, D, Ring!Place, rank)
  <2>1. Ring!Place # {} /\ BufSize + 1 \in Nat
    <3>1. 0 \in Ring!Place
      BY FifoAssumption DEF Ring!Place
    <3> QED
      BY <3>1, FifoAssumption
  <2>2. rank \in [D -> Nat] /\ \A x \in D : rank[x] < BufSize + 1
    BY FifoAssumption
  <2>3. G \in [D \X [D -> Ring!Place] -> Ring!Place]
    <3>1. ASSUME NEW e \in D \X [D -> Ring!Place] PROVE B(e[2], e[1][1], e[1][2]) \in Ring!Place
      <4>1. e[2] \in [D -> Ring!Place] /\ e[1][1] \in 0..BufSize /\ e[1][2] \in Ring!Place
        OBVIOUS
      <4> HIDE DEF B, D
      <4> QED
        BY <1>2, <4>1
    <3> HIDE DEF B, D
    <3> QED
      BY <3>1
  <2>4. ASSUME NEW x \in D, NEW f \in [D -> Ring!Place], NEW g \in [D -> Ring!Place],
               \A y \in D : rank[y] < rank[x] => f[y] = g[y]
        PROVE  G[<<x, f>>] = G[<<x, g>>]
    <3>1. PICK k \in 0..BufSize, p \in Ring!Place : x = <<k, p>>
      OBVIOUS
    <3>2. ~(k = 0) => rank[<<k - 1, Ring!After(p)>>] < rank[x]
      BY <1>1, <3>1, FifoAssumption
    <3>3. B(f, k, p) = B(g, k, p)
      <4> HIDE DEF rank, D
      <4> QED
      BY <1>1, <2>4, <3>2
    <3>4. \A h \in [D -> Ring!Place] : G[<<x, h>>] = B(h, x[1], x[2])
      <4> HIDE DEF B, D
      <4> QED
        OBVIOUS
    <3> HIDE DEF G, B, D
    <3> QED
      BY <3>1, <3>3, <3>4
  <2> HIDE DEF G, D, rank
  <2> QED
    BY <2>1, <2>2, <2>3, <2>4 DEF IsRecursion
<1>4. PICK f \in [D -> Ring!Place] : \A x \in D : f[x] = G[<<x, f>>]
  <2> HIDE DEF G, D, rank
  <2> QED
    BY <1>3, Recursion
<1>5. f = [x \in D |-> B(f, x[1], x[2])]
  <2>1. \A x \in D : f[x] = B(f, x[1], x[2])
    <3> HIDE DEF B, D
    <3> QED
      BY <1>4
  <2> HIDE DEF B, D
  <2> QED
    BY <2>1
<1>6. Ring!Ahead = CHOOSE a : a = [x \in D |-> B(a, x[1], x[2])]
  BY DEF Ring!Ahead
<1>7. Ring!Ahead = [x \in D |-> B(Ring!Ahead, x[1], x[2])]
  <2> HIDE DEF B, D
  <2> QED
    BY <1>5, <1>6
<1>8. \A k \in 0..BufSize, p \in Ring!Place : Ring!Ahead[<<k, p>>] = B(Ring!Ahead, k, p)
  <2>1. \A k \in 0..BufSize, p \in Ring!Place : <<k, p>> \in D
    OBVIOUS
  <2> HIDE DEF B, D
  <2> QED
    BY <1>7, <2>1
<1> QED
  BY <1>8 DEF B

-----------------------------------------------------------------------------
Occupied == Ring!CO_fifo_getOccupied

(* The place of the k-th character in the ring.                            *)
At(k) == IF readPtr + k - 1 < BufSize THEN readPtr + k - 1 ELSE readPtr + k - 1 - BufSize

(* A character is only stored where there is room, and what was read ahead *)
(* is in the ring.                                                         *)
RingInv ==
  /\ Ring!FifoTypeOK
  /\ storing => ~Ring!NoRoom
  /\ altReadPtr # Ring!NotAhead => \E k \in 0..Occupied : altReadPtr = At(k + 1)

(* Where the characters are.                                               *)
LEMMA Places ==
  ASSUME readPtr \in Ring!Place, writePtr \in Ring!Place
  PROVE  /\ Occupied \in 0..(BufSize - 1)
         /\ At(1) = readPtr /\ At(Occupied + 1) = writePtr
         /\ \A k \in 1..(Occupied + 1) : At(k) \in Ring!Place
         /\ \A k \in 1..Occupied : At(k) # writePtr /\ Ring!After(At(k)) = At(k + 1)
         /\ Ring!NoRoom <=> Occupied = BufSize - 1
BY FifoAssumption DEF Occupied, At, Ring!Place, Ring!CO_fifo_getOccupied, Ring!After, Ring!NoRoom

(* The contents are the characters from readPtr on.                        *)
LEMMA ContentsAre ==
  ASSUME readPtr \in Ring!Place, writePtr \in Ring!Place, buf \in [Ring!Place -> Ring!Symbol]
  PROVE  /\ Ring!Contents = [k \in 1..Occupied |-> buf[At(k)]]
         /\ Ring!Contents \in Seq(Ring!Symbol) /\ Len(Ring!Contents) = Occupied
         /\ \A k \in 1..Occupied : Ring!Contents[k] = buf[At(k)] /\ buf[At(k)] \in Ring!Symbol
<1>1. Occupied \in Nat /\ Occupied < BufSize
  BY Places, FifoAssumption
<1>2. \A k \in 1..Occupied : (readPtr + k - 1) % BufSize = At(k)
  BY <1>1, FifoAssumption DEF At, Ring!Place
<1>3. Ring!Contents = [k \in 1..Occupied |-> buf[At(k)]]
  BY <1>2 DEF Ring!Contents, Occupied
<1>4. \A k \in 1..Occupied : buf[At(k)] \in Ring!Symbol
  BY <1>1, Places
<1> QED
  BY <1>1, <1>3, <1>4

(* How far was read ahead, when the pointer is k places on.                *)
LEMMA ReadAheadIs ==
  ASSUME readPtr \in Ring!Place, writePtr \in Ring!Place,
         NEW k \in 0..Occupied, altReadPtr = At(k + 1)
  PROVE  Ring!ReadAhead = k /\ altReadPtr # Ring!NotAhead
<1>1. k \in Nat /\ k < BufSize /\ altReadPtr \in Ring!Place
  BY FifoAssumption, Places
<1>2. altReadPtr - readPtr + BufSize \in {k, k + BufSize}
  BY <1>1, FifoAssumption DEF At, Ring!Place
<1>3. \A a \in {k, k + BufSize} : a % BufSize = k
  BY <1>1, FifoAssumption
<1>4. altReadPtr # Ring!NotAhead
  BY <1>1, FifoAssumption DEF Ring!Place, Ring!NotAhead
<1> QED
  BY <1>2, <1>3, <1>4 DEF Ring!ReadAhead

(* The reader takes k characters.                                          *)
LEMMA Dropped ==
  ASSUME readPtr \in Ring!Place, writePtr \in Ring!Place, buf \in [Ring!Place -> Ring!Symbol],
         NEW k \in 0..Occupied, readPtr' = At(k + 1), UNCHANGED <<buf, writePtr>>
  PROVE  /\ readPtr' \in Ring!Place /\ Occupied' = Occupied - k
         /\ Ring!Contents' = Ring!Queue!Drop(k)
         /\ Ring!NoRoom' => Ring!NoRoom
<1>1. readPtr' \in Ring!Place
  BY Places, FifoAssumption
<1>2. Occupied' = Occupied - k
  BY FifoAssumption, Places DEF Occupied, At, Ring!Place, Ring!CO_fifo_getOccupied
<1>3. \A j \in 1..Occupied' : At(j)' = At(k + j) /\ k + j \in 1..Occupied
  BY <1>2, FifoAssumption, Places DEF At, Ring!Place
<1>4. Ring!Contents' = [j \in 1..Occupied' |-> buf[At(k + j)]]
  <2>1. Ring!Contents' = [j \in 1..Occupied' |-> buf'[At(j)']]
    <3>1. writePtr' \in Ring!Place' /\ readPtr' \in Ring!Place' /\ buf' \in [Ring!Place' -> Ring!Symbol']
      BY <1>1 DEF Ring!Place, Ring!Symbol
    <3>2. Occupied' \in Nat /\ Occupied' < BufSize
      BY <1>2, Places, FifoAssumption
    <3>3. \A j \in 1..Occupied' : (readPtr' + j - 1) % BufSize = At(j)'
      BY <1>1, <3>2, FifoAssumption DEF At, Ring!Place
    <3> QED
      BY <3>3 DEF Ring!Contents, Occupied
  <2> QED
    BY <1>3, <2>1
<1>5. Ring!Queue!Drop(k) = [j \in 1..(Occupied - k) |-> buf[At(k + j)]]
  <2>1. Len(Ring!Contents) = Occupied /\ Occupied \in Nat /\ k \in Nat /\ k <= Occupied
    BY ContentsAre, Places, FifoAssumption
  <2>2. Ring!Queue!Drop(k) = [j \in 1..(Occupied - (k + 1) + 1) |-> Ring!Contents[j + (k + 1) - 1]]
    BY <2>1 DEF Ring!Queue!Drop
  <2>3. \A j \in 1..(Occupied - k) : Ring!Contents[j + (k + 1) - 1] = buf[At(k + j)]
    <3> TAKE j \in 1..(Occupied - k)
    <3>1. k + j \in 1..Occupied /\ j + (k + 1) - 1 = k + j
      BY <2>1
    <3> QED
      BY <3>1, ContentsAre
  <2>4. Occupied - (k + 1) + 1 = Occupied - k
    BY <2>1
  <2> QED
    BY <2>2, <2>3, <2>4
<1>6. Ring!NoRoom' => Ring!NoRoom
  <2>1. Ring!NoRoom' <=> Occupied' = BufSize - 1
    <3>1. writePtr' \in Ring!Place' /\ readPtr' \in Ring!Place'
      BY <1>1 DEF Ring!Place
    <3> QED
      BY <3>1, FifoAssumption DEF Occupied, Ring!Place, Ring!CO_fifo_getOccupied, Ring!NoRoom
  <2> QED
    BY <1>2, <2>1, Places, FifoAssumption
<1> QED
  BY <1>1, <1>2, <1>4, <1>5, <1>6

(* A reader that goes on by k characters has dropped them.                 *)
LEMMA ReaderTakes ==
  ASSUME RingInv, altReadPtr = Ring!NotAhead, UNCHANGED <<buf, writePtr, altReadPtr, storing>>,
         returned'.size \in 0..(FifoTokenSize - 1),
         NEW k \in 0..Occupied, readPtr' = At(k + 1)
  PROVE  /\ RingInv' /\ Ring!Contents' = Ring!Queue!Drop(k)
         /\ Ring!ReadAhead = Ring!Queue!NoAlt /\ UNCHANGED Ring!ReadAhead
<1>1. /\ readPtr' \in Ring!Place /\ (Ring!NoRoom' => Ring!NoRoom)
      /\ Ring!Contents' = Ring!Queue!Drop(k)
  BY Dropped DEF RingInv, Ring!FifoTypeOK
<1>2. RingInv'
  BY <1>1 DEF RingInv, Ring!FifoTypeOK, Ring!Place, Ring!Symbol, Ring!NotAhead
<1> QED
  BY <1>1, <1>2 DEF Ring!ReadAhead, Ring!NotAhead, Ring!Queue!NoAlt

(* Nothing taken is nothing dropped.                                       *)
LEMMA DropNone == RingInv => Ring!Contents = Ring!Queue!Drop(0)
<1> SUFFICES ASSUME RingInv PROVE Ring!Contents = Ring!Queue!Drop(0)
  OBVIOUS
<1>1. Ring!Contents \in Seq(Ring!Symbol)
  BY ContentsAre DEF RingInv, Ring!FifoTypeOK
<1> QED
  BY <1>1, SubSeqFull DEF Ring!Queue!Drop

(* A stored character is not in the ring before the step of the pointer.   *)
LEMMA StoreStutters ==
  ASSUME RingInv, NEW c \in Ring!Symbol, Ring!Store(c)
  PROVE  RingInv' /\ UNCHANGED Ring!Queue!queueVars
<1> USE DEF Ring!Store
<1>1. /\ readPtr \in Ring!Place /\ writePtr \in Ring!Place
      /\ buf \in [Ring!Place -> Ring!Symbol] /\ UNCHANGED <<readPtr, writePtr, altReadPtr, returned>>
  BY DEF RingInv, Ring!FifoTypeOK
<1>2. buf' \in [Ring!Place -> Ring!Symbol]
  BY <1>1
<1>3. Occupied' = Occupied /\ \A k : At(k)' = At(k)
  BY <1>1 DEF Occupied, At, Ring!CO_fifo_getOccupied
<1>4. RingInv'
  BY <1>1, <1>2, <1>3 DEF RingInv, Ring!FifoTypeOK, Ring!NoRoom, Ring!Place, Ring!Symbol
<1>5. Ring!Contents' = [k \in 1..Occupied |-> buf'[At(k)]]
  <2>1. readPtr' \in Ring!Place' /\ writePtr' \in Ring!Place' /\ buf' \in [Ring!Place' -> Ring!Symbol']
    BY <1>1, <1>2 DEF Ring!Place, Ring!Symbol
  <2>2. Ring!Contents' = [k \in 1..Occupied' |-> buf'[(readPtr' + k - 1) % BufSize]]
    BY DEF Ring!Contents, Occupied
  <2>3. \A k \in 1..Occupied : (readPtr + k - 1) % BufSize = At(k)
    <3>1. Occupied \in Nat /\ Occupied < BufSize
      BY <1>1, Places, FifoAssumption
    <3> QED
      BY <1>1, <3>1, FifoAssumption DEF At, Ring!Place
  <2> QED
    BY <1>1, <1>3, <2>2, <2>3
<1>6. \A k \in 1..Occupied : buf'[At(k)] = buf[At(k)]
  BY <1>1, Places, FifoAssumption
<1>7. Ring!Contents' = Ring!Contents
  BY <1>1, <1>5, <1>6, ContentsAre
<1>8. Ring!ReadAhead' = Ring!ReadAhead
  BY <1>1 DEF Ring!ReadAhead, Ring!NotAhead
<1> QED
  BY <1>1, <1>4, <1>7, <1>8 DEF Ring!Queue!queueVars

(* A character more, and k from the beginning less.                        *)
LEMMA Written ==
  ASSUME readPtr \in Ring!Place, writePtr \in Ring!Place, buf \in [Ring!Place -> Ring!Symbol],
         NEW c \in Ring!Symbol, NEW k \in 0..Occupied, Occupied - k < BufSize - 1,
         buf' = [buf EXCEPT ![writePtr] = c], writePtr' = Ring!After(writePtr),
         readPtr' = At(k + 1)
  PROVE  /\ writePtr' \in Ring!Place /\ readPtr' \in Ring!Place
         /\ buf' \in [Ring!Place -> Ring!Symbol]
         /\ Occupied' = Occupied - k + 1
         /\ Ring!Contents' = Append(Ring!Queue!Drop(k), c)
<1>1. /\ writePtr' \in Ring!Place /\ readPtr' \in Ring!Place
      /\ buf' \in [Ring!Place -> Ring!Symbol]
  BY AfterIsPlace, Places, FifoAssumption
<1>2. Occupied \in Nat /\ Occupied < BufSize /\ k \in Nat /\ k <= Occupied
  BY Places, FifoAssumption
<1>3. Occupied' = Occupied - k + 1
  BY <1>2, FifoAssumption
     DEF Occupied, At, Ring!CO_fifo_getOccupied, Ring!After, Ring!Place
<1>4. \A j \in 1..Occupied' : At(j)' = At(k + j) /\ k + j \in 1..(Occupied + 1)
  BY <1>1, <1>2, <1>3, FifoAssumption DEF At, Ring!Place
<1>5. Ring!Contents' = [j \in 1..Occupied' |-> buf'[At(k + j)]]
  <2>1. Ring!Contents' = [j \in 1..Occupied' |-> buf'[(readPtr' + j - 1) % BufSize]]
    BY DEF Ring!Contents, Occupied
  <2>2. \A j \in 1..Occupied' : (readPtr' + j - 1) % BufSize = At(j)'
    BY <1>1, <1>2, <1>3, FifoAssumption DEF At, Ring!Place
  <2> QED
    BY <1>4, <2>1, <2>2
<1>6. \A j \in 1..Occupied : buf'[At(j)] = buf[At(j)]
  BY Places, FifoAssumption
<1>7. buf'[At(Occupied + 1)] = c
  BY Places
<1>8. /\ Ring!Queue!Drop(k) \in Seq(Ring!Symbol) /\ Len(Ring!Queue!Drop(k)) = Occupied - k
      /\ \A j \in 1..(Occupied - k) : Ring!Queue!Drop(k)[j] = buf[At(k + j)]
  <2>1. \A j \in (k + 1)..Occupied : /\ Ring!Contents[j] = buf[At(j)]
                                     /\ Ring!Contents[j] \in Ring!Symbol
    BY <1>2, ContentsAre
  <2>2. /\ Ring!Queue!Drop(k) \in Seq(Ring!Symbol)
        /\ Len(Ring!Queue!Drop(k)) = IF k + 1 <= Occupied THEN Occupied - (k + 1) + 1 ELSE 0
        /\ \A j \in 1..(Occupied - (k + 1) + 1) :
             Ring!Queue!Drop(k)[j] = Ring!Contents[(k + 1) + j - 1]
    BY <1>2, <2>1, ContentsAre, SubSeqProperties DEF Ring!Queue!Drop
  <2>3. \A j \in 1..(Occupied - k) : (k + 1) + j - 1 = k + j /\ k + j \in (k + 1)..Occupied
    BY <1>2
  <2>4. Occupied - (k + 1) + 1 = Occupied - k /\ (~(k + 1 <= Occupied) => Occupied - k = 0)
    BY <1>2
  <2> QED
    BY <2>1, <2>2, <2>3, <2>4
<1> DEFINE s == Append(Ring!Queue!Drop(k), c)
<1>9. /\ s \in Seq(Ring!Symbol) /\ Len(s) = Occupied - k + 1
      /\ \A j \in 1..(Occupied - k) : s[j] = buf[At(k + j)]
      /\ s[Occupied - k + 1] = c
  BY <1>8, AppendProperties
<1> HIDE DEF s
<1>10. \A j \in 1..(Occupied - k + 1) : s[j] = buf'[At(k + j)] /\ buf'[At(k + j)] \in Ring!Symbol
  <2> TAKE j \in 1..(Occupied - k + 1)
  <2>1. CASE j = Occupied - k + 1
    <3>1. k + j = Occupied + 1
      BY <1>2, <2>1
    <3> QED
      BY <1>7, <1>9, <2>1, <3>1
  <2>2. CASE j # Occupied - k + 1
    <3>1. j \in 1..(Occupied - k) /\ k + j \in 1..Occupied
      BY <1>2, <2>2
    <3> QED
      BY <1>6, <1>9, <3>1, ContentsAre
  <2> QED
    BY <2>1, <2>2
<1>11. Ring!Contents' = s
  <2>1. /\ Ring!Contents' \in Seq(Ring!Symbol) /\ Len(Ring!Contents') = Occupied - k + 1
        /\ \A j \in 1..(Occupied - k + 1) : Ring!Contents'[j] = buf'[At(k + j)]
    <3>1. Occupied - k + 1 \in Nat
      BY <1>2
    <3> QED
      BY <1>3, <1>5, <1>10, <3>1
  <2> QED
    BY <1>9, <1>10, <2>1, SeqEqual
<1> QED
  BY <1>1, <1>3, <1>11 DEF s

(* The step of writePtr puts the stored character into the queue.          *)
LEMMA StepPuts ==
  ASSUME RingInv, Ring!Step
  PROVE  RingInv' /\ \E c \in Ring!Queue!Char : Ring!Queue!Put(c)
<1> USE DEF Ring!Step
<1>1. /\ readPtr \in Ring!Place /\ writePtr \in Ring!Place
      /\ buf \in [Ring!Place -> Ring!Symbol] /\ ~Ring!NoRoom
  BY DEF RingInv, Ring!FifoTypeOK
<1> DEFINE c == buf[writePtr]
<1>2. c \in Ring!Symbol /\ buf' = [buf EXCEPT ![writePtr] = c]
  BY <1>1
<1> HIDE DEF c
<1>3. /\ Occupied \in Nat /\ Occupied < BufSize - 1
      /\ 0 \in 0..Occupied /\ Occupied - 0 < BufSize - 1 /\ readPtr' = At(0 + 1)
  BY <1>1, Places, FifoAssumption
<1>4. /\ writePtr' \in Ring!Place /\ readPtr' \in Ring!Place
      /\ buf' \in [Ring!Place -> Ring!Symbol]
      /\ Occupied' = Occupied - 0 + 1
      /\ Ring!Contents' = Append(Ring!Queue!Drop(0), c)
  BY <1>1, <1>2, <1>3, Written
<1>5. Ring!Contents' = Append(Ring!Contents, c) /\ Len(Ring!Contents) = Occupied
  BY <1>1, <1>4, DropNone, ContentsAre
<1>6. \A k \in 0..Occupied : k \in 0..Occupied' /\ At(k + 1)' = At(k + 1)
  BY <1>3, <1>4 DEF At
<1>7. UNCHANGED Ring!ReadAhead
  BY DEF Ring!ReadAhead, Ring!NotAhead
<1>8. RingInv'
  <2>1. altReadPtr' # Ring!NotAhead' => \E k \in 0..Occupied' : altReadPtr' = At(k + 1)'
    BY <1>6 DEF RingInv, Ring!NotAhead
  <2> QED
    BY <1>4, <2>1 DEF RingInv, Ring!FifoTypeOK, Ring!Place, Ring!Symbol, Ring!NotAhead
<1> QED
  BY <1>2, <1>3, <1>5, <1>7, <1>8 DEF Ring!Queue!Put, Ring!Queue!Char, Ring!Symbol

(* CO_fifo_putc_ov drops the oldest character of a full ring.              *)
LEMMA PutOverPutsOver ==
  ASSUME RingInv, NEW c \in Ring!Symbol, Ring!CO_fifo_putc_ov(c)
  PROVE  RingInv' /\ Ring!ReadAhead = Ring!Queue!NoAlt /\ Ring!Queue!PutOver(c)
<1> USE DEF Ring!CO_fifo_putc_ov
<1>1. /\ readPtr \in Ring!Place /\ writePtr \in Ring!Place
      /\ buf \in [Ring!Place -> Ring!Symbol]
  BY DEF RingInv, Ring!FifoTypeOK
<1> DEFINE k == IF Occupied = BufSize - 1 THEN 1 ELSE 0
<1>2. Occupied \in Nat /\ k \in 0..Occupied /\ Occupied - k < BufSize - 1
  BY <1>1, Places, FifoAssumption
<1>3. readPtr' = At(k + 1)
  <2>1. readPtr = Ring!After(writePtr) <=> Occupied = BufSize - 1
    BY <1>1, FifoAssumption DEF Occupied, Ring!CO_fifo_getOccupied, Ring!After, Ring!Place
  <2>2. At(1) = readPtr /\ (1 \in 1..Occupied => Ring!After(At(1)) = At(2))
    BY <1>1, Places
  <2> QED
    BY <1>2, <2>1, <2>2, FifoAssumption
<1>4. /\ writePtr' \in Ring!Place /\ readPtr' \in Ring!Place
      /\ buf' \in [Ring!Place -> Ring!Symbol]
      /\ Ring!Contents' = Append(Ring!Queue!Drop(k), c)
  <2> HIDE DEF k
  <2> QED
    BY <1>1, <1>2, <1>3, Written
<1>5. Ring!ReadAhead = Ring!Queue!NoAlt /\ UNCHANGED Ring!ReadAhead
  BY DEF Ring!ReadAhead, Ring!NotAhead, Ring!Queue!NoAlt
<1>6. Ring!Queue!Drop(k) =
        IF Len(Ring!Contents) = BufSize - 1 THEN Tail(Ring!Contents) ELSE Ring!Contents
  <2>1. Len(Ring!Contents) = Occupied /\ Ring!Contents \in Seq(Ring!Symbol)
    BY <1>1, ContentsAre
  <2>2. CASE k = 1
    <3>1. Ring!Contents # <<>>
      BY <1>2, <2>1, <2>2, FifoAssumption
    <3>2. Tail(Ring!Contents) = SubSeq(Ring!Contents, 2, Len(Ring!Contents))
      BY <2>1, <3>1, TailIsSubSeq
    <3> QED
      BY <2>1, <2>2, <3>2 DEF Ring!Queue!Drop
  <2>3. CASE k # 1
    BY <2>1, <2>3, DropNone
  <2> QED
    BY <2>2, <2>3
<1>7. RingInv'
  BY <1>4 DEF RingInv, Ring!FifoTypeOK, Ring!Place, Ring!Symbol, Ring!NotAhead
<1> QED
  BY <1>4, <1>5, <1>6, <1>7 DEF Ring!Queue!PutOver

(* CO_fifo_getc takes the oldest character.                                *)
LEMMA GetGets ==
  ASSUME RingInv, Ring!CO_fifo_getc
  PROVE  RingInv' /\ Ring!ReadAhead = Ring!Queue!NoAlt /\ Ring!Queue!Get
<1> USE DEF Ring!CO_fifo_getc
<1>1. /\ readPtr \in Ring!Place /\ writePtr \in Ring!Place
      /\ buf \in [Ring!Place -> Ring!Symbol]
      /\ returned' = returned /\ returned.size \in 0..(FifoTokenSize - 1)
  BY DEF RingInv, Ring!FifoTypeOK
<1>2. Occupied # 0 /\ Occupied \in Nat /\ 1 \in 1..Occupied
  BY <1>1, Places, FifoAssumption
<1>3. readPtr' = At(1 + 1) /\ 1 \in 0..Occupied
  BY <1>1, <1>2, Places, FifoAssumption
<1>4. /\ RingInv' /\ Ring!Contents' = Ring!Queue!Drop(1)
      /\ Ring!ReadAhead = Ring!Queue!NoAlt /\ UNCHANGED Ring!ReadAhead
  BY <1>1, <1>3, ReaderTakes
<1>5. Ring!Contents \in Seq(Ring!Symbol) /\ Ring!Contents # <<>>
  BY <1>1, <1>2, ContentsAre
<1>6. Tail(Ring!Contents) = Ring!Queue!Drop(1)
  BY <1>5, TailIsSubSeq DEF Ring!Queue!Drop
<1> QED
  BY <1>1, <1>4, <1>5, <1>6 DEF Ring!Queue!Get

(* CO_fifo_purge empties the queue.                                        *)
LEMMA PurgePurges ==
  ASSUME RingInv, Ring!CO_fifo_purge
  PROVE  RingInv' /\ Ring!ReadAhead = Ring!Queue!NoAlt /\ Ring!Queue!Purge
<1> USE DEF Ring!CO_fifo_purge
<1>1. 0 \in Ring!Place
  BY FifoAssumption DEF Ring!Place
<1>2. RingInv'
  BY <1>1 DEF RingInv, Ring!FifoTypeOK, Ring!Place, Ring!Symbol, Ring!NotAhead
<1>3. Ring!ReadAhead = Ring!Queue!NoAlt /\ UNCHANGED Ring!ReadAhead
  BY DEF Ring!ReadAhead, Ring!NotAhead, Ring!Queue!NoAlt
<1>4. Ring!Contents' = <<>>
  BY FifoAssumption DEF Ring!Contents, Ring!CO_fifo_getOccupied
<1> QED
  BY <1>2, <1>3, <1>4 DEF Ring!Queue!Purge

(* CO_fifo_altRead goes on by one character and takes none.                *)
LEMMA AltReadReads ==
  ASSUME RingInv, Ring!CO_fifo_altRead
  PROVE  RingInv' /\ Ring!Queue!AltRead
<1> USE DEF Ring!CO_fifo_altRead
<1>1. /\ readPtr \in Ring!Place /\ writePtr \in Ring!Place
      /\ buf \in [Ring!Place -> Ring!Symbol] /\ UNCHANGED <<buf, readPtr, writePtr, storing, returned>>
  BY DEF RingInv, Ring!FifoTypeOK
<1>2. PICK k \in 0..Occupied : altReadPtr = At(k + 1)
  BY DEF RingInv
<1>3. Occupied \in Nat /\ k \in Nat /\ k < Occupied /\ k + 1 \in 1..Occupied /\ (k + 1) + 1 = k + 2
  BY <1>1, <1>2, Places, FifoAssumption
<1>4. altReadPtr' = At(k + 2) /\ At(k + 2) \in Ring!Place /\ k + 1 \in 0..Occupied
  BY <1>1, <1>2, <1>3, Places, FifoAssumption
<1>5. Occupied' = Occupied /\ Ring!Contents' = Ring!Contents /\ \A j : At(j)' = At(j)
  BY <1>1 DEF Occupied, Ring!CO_fifo_getOccupied, Ring!Contents, At
<1>6. Ring!ReadAhead = k
  BY <1>1, <1>2, ReadAheadIs
<1>7. Ring!ReadAhead' = k + 1
  <2>1. \A p, r : p = At(k + 2) => (p - readPtr + BufSize) % BufSize = k + 1
    <3>1. At(k + 2) - readPtr + BufSize \in {k + 1, k + 1 + BufSize}
      BY <1>1, <1>3, <1>4, FifoAssumption DEF At, Ring!Place
    <3>2. k + 1 < BufSize
      BY <1>1, <1>3, Places, FifoAssumption
    <3>3. \A a \in {k + 1, k + 1 + BufSize} : a % BufSize = k + 1
      BY <1>3, <3>2, FifoAssumption
    <3> QED
      BY <3>1, <3>3
  <2>2. altReadPtr' # Ring!NotAhead
    BY <1>4, FifoAssumption DEF Ring!Place, Ring!NotAhead
  <2> QED
    BY <1>1, <1>4, <2>1, <2>2 DEF Ring!ReadAhead, Ring!NotAhead
<1>8. RingInv'
  <2>1. altReadPtr' = At((k + 1) + 1)' /\ k + 1 \in 0..Occupied'
    BY <1>3, <1>4, <1>5
  <2>2. Ring!FifoTypeOK'
    BY <1>1, <1>4 DEF RingInv, Ring!FifoTypeOK, Ring!Place, Ring!Symbol, Ring!NotAhead
  <2>3. storing' => ~Ring!NoRoom'
    BY <1>1 DEF RingInv, Ring!NoRoom
  <2> QED
    BY <2>1, <2>2, <2>3 DEF RingInv
<1>9. Len(Ring!Contents) = Occupied
  BY <1>1, ContentsAre
<1> QED
  BY <1>1, <1>3, <1>5, <1>6, <1>7, <1>8, <1>9 DEF Ring!Queue!AltRead, Ring!Queue!NoAlt

(* CO_fifo_altFinish takes what was read ahead.                            *)
LEMMA AltFinishFinishes ==
  ASSUME RingInv, Ring!CO_fifo_altFinish
  PROVE  RingInv' /\ Ring!Queue!AltFinish
<1> USE DEF Ring!CO_fifo_altFinish
<1>1. /\ readPtr \in Ring!Place /\ writePtr \in Ring!Place
      /\ buf \in [Ring!Place -> Ring!Symbol] /\ UNCHANGED <<buf, writePtr, storing, returned>>
  BY DEF RingInv, Ring!FifoTypeOK
<1>2. PICK k \in 0..Occupied : altReadPtr = At(k + 1)
  BY DEF RingInv
<1>3. /\ readPtr' \in Ring!Place /\ (Ring!NoRoom' => Ring!NoRoom)
      /\ Ring!Contents' = Ring!Queue!Drop(k)
  BY <1>1, <1>2, Dropped
<1>4. Ring!ReadAhead = k /\ k # Ring!Queue!NoAlt
  BY <1>1, <1>2, ReadAheadIs, FifoAssumption DEF Ring!Queue!NoAlt
<1>5. Ring!ReadAhead' = Ring!Queue!NoAlt
  BY DEF Ring!ReadAhead, Ring!NotAhead, Ring!Queue!NoAlt
<1>6. RingInv'
  <2>1. Ring!FifoTypeOK'
    BY <1>1, <1>3 DEF RingInv, Ring!FifoTypeOK, Ring!Place, Ring!Symbol, Ring!NotAhead
  <2>2. storing' => ~Ring!NoRoom'
    BY <1>1, <1>3 DEF RingInv
  <2>3. altReadPtr' = Ring!NotAhead'
    BY DEF Ring!NotAhead
  <2> QED
    BY <2>1, <2>2, <2>3 DEF RingInv
<1> QED
  BY <1>1, <1>3, <1>4, <1>5, <1>6 DEF Ring!Queue!AltFinish

(* The loop of CO_fifo_altBegin stops at the offset or at the end.         *)
LEMMA AheadIsAt ==
  ASSUME readPtr \in Ring!Place, writePtr \in Ring!Place, NEW k \in 0..(BufSize - 1)
  PROVE  Ring!Ahead[<<k, readPtr>>] = At(Ring!Queue!Lesser(k, Occupied) + 1)
<1> DEFINE T == {n \in Nat : n < BufSize => \A i \in 1..(Occupied + 1) :
                   Ring!Ahead[<<n, At(i)>>] = At(Ring!Queue!Lesser(i + n, Occupied + 1))}
<1>1. Occupied \in Nat
  BY Places, FifoAssumption
<1>2. 0 \in T
  <2>1. ASSUME NEW i \in 1..(Occupied + 1)
        PROVE  Ring!Ahead[<<0, At(i)>>] = At(Ring!Queue!Lesser(i + 0, Occupied + 1))
    <3>1. At(i) \in Ring!Place /\ 0 \in 0..BufSize
      BY Places, FifoAssumption
    <3>2. Ring!Ahead[<<0, At(i)>>] = At(i)
      BY <3>1, AheadIs
    <3>3. Ring!Queue!Lesser(i + 0, Occupied + 1) = i
      BY <1>1 DEF Ring!Queue!Lesser
    <3> QED
      BY <3>2, <3>3
  <2> QED
    BY <2>1
<1>3. ASSUME NEW n \in Nat, n \in T
      PROVE  n + 1 \in T
  <2>1. ASSUME n + 1 < BufSize, NEW i \in 1..(Occupied + 1)
        PROVE  Ring!Ahead[<<n + 1, At(i)>>] = At(Ring!Queue!Lesser(i + (n + 1), Occupied + 1))
    <3>1. At(i) \in Ring!Place /\ n + 1 \in 0..BufSize /\ n + 1 # 0 /\ (n + 1) - 1 = n
      BY <2>1, Places, FifoAssumption
    <3>2. Ring!Ahead[<<n + 1, At(i)>>] =
            IF At(i) = writePtr THEN At(i) ELSE Ring!Ahead[<<n, Ring!After(At(i))>>]
      BY <3>1, AheadIs
    <3>3. CASE i = Occupied + 1
      <4>1. Ring!Queue!Lesser(i + (n + 1), Occupied + 1) = i
        BY <1>1, <3>3 DEF Ring!Queue!Lesser
      <4> QED
        BY <3>2, <3>3, <4>1, Places
    <3>4. CASE i # Occupied + 1
      <4>1. i \in 1..Occupied /\ i + 1 \in 1..(Occupied + 1)
        BY <1>1, <3>4
      <4>2. At(i) # writePtr /\ Ring!After(At(i)) = At(i + 1)
        BY <4>1, Places
      <4>3. Ring!Ahead[<<n, At(i + 1)>>] = At(Ring!Queue!Lesser((i + 1) + n, Occupied + 1))
        BY <1>3, <2>1, <4>1, FifoAssumption
      <4>4. (i + 1) + n = i + (n + 1)
        BY <4>1
      <4> QED
        BY <3>2, <4>2, <4>3, <4>4
    <3> QED
      BY <3>3, <3>4
  <2> QED
    BY <2>1
<1> HIDE DEF T
<1>4. k \in T /\ k \in Nat
  BY <1>2, <1>3, NaturalInduction, FifoAssumption
<1>5. 1 \in 1..(Occupied + 1) /\ k < BufSize
  BY <1>1, FifoAssumption
<1>6. Ring!Ahead[<<k, At(1)>>] = At(Ring!Queue!Lesser(1 + k, Occupied + 1))
  BY <1>4, <1>5 DEF T
<1>7. Ring!Queue!Lesser(1 + k, Occupied + 1) = Ring!Queue!Lesser(k, Occupied) + 1
  BY <1>1, <1>4 DEF Ring!Queue!Lesser
<1> QED
  BY <1>6, <1>7, Places

(* CO_fifo_altBegin goes to the offset, or to the end of what is there.    *)
LEMMA AltBeginBegins ==
  ASSUME RingInv, NEW offset \in 0..(BufSize - 1), Ring!CO_fifo_altBegin(offset)
  PROVE  RingInv' /\ Ring!ReadAhead = Ring!Queue!NoAlt /\ Ring!Queue!AltBegin(offset)
<1> USE DEF Ring!CO_fifo_altBegin
<1>1. /\ readPtr \in Ring!Place /\ writePtr \in Ring!Place
      /\ buf \in [Ring!Place -> Ring!Symbol] /\ UNCHANGED <<buf, readPtr, writePtr, storing, returned>>
  BY DEF RingInv, Ring!FifoTypeOK
<1> DEFINE k == Ring!Queue!Lesser(offset, Occupied)
<1>2. k \in 0..Occupied /\ k + 1 \in 1..(Occupied + 1)
  BY <1>1, Places, FifoAssumption DEF Ring!Queue!Lesser
<1>3. altReadPtr' = At(k + 1)
  BY <1>1, AheadIsAt
<1> HIDE DEF k
<1>4. At(k + 1) \in Ring!Place
  BY <1>1, <1>2, Places
<1>5. Occupied' = Occupied /\ Ring!Contents' = Ring!Contents /\ \A j : At(j)' = At(j)
  BY <1>1 DEF Occupied, Ring!CO_fifo_getOccupied, Ring!Contents, At
<1>6. Ring!ReadAhead' = k
  <2>1. readPtr' \in Ring!Place' /\ writePtr' \in Ring!Place'
    BY <1>1 DEF Ring!Place
  <2>2. k \in Nat /\ k < BufSize
    BY <1>1, <1>2, Places, FifoAssumption
  <2>3. At(k + 1) - readPtr + BufSize \in {k, k + BufSize}
    BY <1>1, <2>2, FifoAssumption DEF At, Ring!Place
  <2>4. \A a \in {k, k + BufSize} : a % BufSize = k
    BY <2>2, FifoAssumption
  <2>5. altReadPtr' # Ring!NotAhead
    BY <1>3, <1>4, FifoAssumption DEF Ring!Place, Ring!NotAhead
  <2> QED
    BY <1>1, <1>3, <2>3, <2>4, <2>5 DEF Ring!ReadAhead, Ring!NotAhead
<1>7. Ring!ReadAhead = Ring!Queue!NoAlt
  BY DEF Ring!ReadAhead, Ring!NotAhead, Ring!Queue!NoAlt
<1>8. RingInv'
  <2>1. \E j \in 0..Occupied' : altReadPtr' = At(j + 1)'
    BY <1>2, <1>3, <1>5
  <2>2. Ring!FifoTypeOK'
    BY <1>1, <1>3, <1>4 DEF RingInv, Ring!FifoTypeOK, Ring!Place, Ring!Symbol, Ring!NotAhead
  <2>3. storing' => ~Ring!NoRoom'
    BY <1>1 DEF RingInv, Ring!NoRoom
  <2> QED
    BY <2>1, <2>2, <2>3 DEF RingInv
<1>9. Len(Ring!Contents) = Occupied
  BY <1>1, ContentsAre
<1> QED
  BY <1>1, <1>5, <1>6, <1>7, <1>8, <1>9 DEF Ring!Queue!AltBegin, k

(* The queue of the ring, place by place.                                  *)
LEMMA QueueIs ==
  ASSUME RingInv
  PROVE  /\ Occupied \in Nat /\ Occupied < BufSize /\ Len(Ring!Contents) = Occupied
         /\ Ring!Contents \in Seq(Ring!Symbol)
         /\ \A k \in 1..Occupied : Ring!Contents[k] = buf[At(k)] /\ Ring!Contents[k] \in Ring!Symbol
<1>1. /\ readPtr \in Ring!Place /\ writePtr \in Ring!Place
      /\ buf \in [Ring!Place -> Ring!Symbol]
  BY DEF RingInv, Ring!FifoTypeOK
<1> QED
  BY <1>1, Places, ContentsAre, FifoAssumption

(* What First chooses: there is one such place, and it is the only one.    *)
LEMMA FirstIs ==
  ASSUME RingInv, NEW C, NEW i \in 1..(Occupied + 1), NEW k \in i..(Occupied + 1),
         k <= Occupied => Ring!Contents[k] \in C,
         \A j \in i..(k - 1) : Ring!Contents[j] \notin C
  PROVE  Ring!Queue!First(i, C) = k
<1> DEFINE P(x) == /\ x <= Len(Ring!Contents) => Ring!Contents[x] \in C
                   /\ \A j \in i..(x - 1) : Ring!Contents[j] \notin C
           K == i..(Len(Ring!Contents) + 1)
<1>1. Occupied \in Nat /\ Len(Ring!Contents) = Occupied
  BY QueueIs
<1>2. k \in K /\ P(k)
  BY <1>1
<1>3. ASSUME NEW x \in K, P(x)
      PROVE  x = k
  <2>1. x \in Int /\ k \in Int /\ i <= x /\ i <= k /\ x <= Occupied + 1 /\ k <= Occupied + 1
    BY <1>1
  <2>2. ~(x < k)
    <3> SUFFICES ASSUME x < k PROVE FALSE
      OBVIOUS
    <3>1. x \in i..(k - 1) /\ x <= Len(Ring!Contents)
      BY <1>1, <2>1
    <3> QED
      BY <1>3, <3>1
  <2>3. ~(k < x)
    <3> SUFFICES ASSUME k < x PROVE FALSE
      OBVIOUS
    <3>1. k \in i..(x - 1) /\ k <= Occupied
      BY <1>1, <2>1
    <3> QED
      BY <1>3, <3>1
  <2> QED
    BY <2>1, <2>2, <2>3
<1>4. Ring!Queue!First(i, C) = CHOOSE x \in K : P(x)
  BY DEF Ring!Queue!First
<1> HIDE DEF P, K
<1> QED
  BY <1>2, <1>3, <1>4

(* There is always a place First can choose.                               *)
LEMMA FirstExists ==
  ASSUME RingInv, NEW C, NEW i \in 1..(Occupied + 1)
  PROVE  /\ Ring!Queue!First(i, C) \in i..(Occupied + 1)
         /\ Ring!Queue!First(i, C) <= Occupied => Ring!Contents[Ring!Queue!First(i, C)] \in C
         /\ \A j \in i..(Ring!Queue!First(i, C) - 1) : Ring!Contents[j] \notin C
<1> DEFINE T == {k \in i..(Occupied + 1) : k <= Occupied => Ring!Contents[k] \in C}
<1>1. Occupied \in Nat
  BY QueueIs
<1>2. T \in SUBSET Nat /\ Occupied + 1 \in T
  BY <1>1
<1>3. PICK k \in T : \A j \in T : k <= j
  BY <1>2, LeastNatural
<1>4. k \in i..(Occupied + 1) /\ (k <= Occupied => Ring!Contents[k] \in C)
  BY <1>3
<1>5. \A j \in i..(k - 1) : Ring!Contents[j] \notin C
  BY <1>1, <1>3, <1>4
<1>6. Ring!Queue!First(i, C) = k
  <2> HIDE DEF T
  <2> QED
    BY <1>4, <1>5, FirstIs
<1> QED
  BY <1>4, <1>5, <1>6

(* First, from one place to the next.                                      *)
LEMMA FirstSteps ==
  ASSUME RingInv, NEW C
  PROVE  /\ Ring!Queue!First(Occupied + 1, C) = Occupied + 1
         /\ \A i \in 1..Occupied : Ring!Queue!First(i, C) =
              IF Ring!Contents[i] \in C THEN i ELSE Ring!Queue!First(i + 1, C)
<1>1. Occupied \in Nat
  BY QueueIs
<1>2. Ring!Queue!First(Occupied + 1, C) = Occupied + 1
  <2>1. Occupied + 1 \in 1..(Occupied + 1)
    BY <1>1
  <2>2. Ring!Queue!First(Occupied + 1, C) \in (Occupied + 1)..(Occupied + 1)
    BY <2>1, FirstExists
  <2> QED
    BY <1>1, <2>2
<1>3. ASSUME NEW i \in 1..Occupied
      PROVE  Ring!Queue!First(i, C) = IF Ring!Contents[i] \in C THEN i ELSE Ring!Queue!First(i + 1, C)
  <2>1. i \in 1..(Occupied + 1) /\ i + 1 \in 1..(Occupied + 1)
    BY <1>1
  <2>2. CASE Ring!Contents[i] \in C
    <3>1. i \in i..(Occupied + 1) /\ \A j \in i..(i - 1) : Ring!Contents[j] \notin C
      BY <1>1
    <3>2. Ring!Queue!First(i, C) = i
      BY <2>1, <2>2, <3>1, FirstIs
    <3> QED
      BY <2>2, <3>2
  <2>3. CASE Ring!Contents[i] \notin C
    <3> DEFINE k == Ring!Queue!First(i + 1, C)
    <3>1. /\ k \in (i + 1)..(Occupied + 1) /\ (k <= Occupied => Ring!Contents[k] \in C)
          /\ \A j \in (i + 1)..(k - 1) : Ring!Contents[j] \notin C
      BY <2>1, FirstExists
    <3> HIDE DEF k
    <3>2. k \in i..(Occupied + 1) /\ \A j \in i..(k - 1) : Ring!Contents[j] \notin C
      BY <1>1, <2>3, <3>1
    <3>3. Ring!Queue!First(i, C) = k
      BY <2>1, <3>1, <3>2, FirstIs
    <3> QED
      BY <2>3, <3>3 DEF k
  <2> QED
    BY <2>2, <2>3
<1> QED
  BY <1>2, <1>3

(* The smallest of a set of places.                                        *)
LEMMA SmallestIs ==
  ASSUME NEW S \in SUBSET Int, NEW q \in S, \A p \in S : q <= p
  PROVE  Ring!Smallest(S) = q
<1>1. \A r \in S : (\A p \in S : r <= p) => r = q
  OBVIOUS
<1> QED
  BY <1>1 DEF Ring!Smallest

(* CO_fifo_CommSearch looks at the end of the ring and then at its         *)
(* beginning, and finds the first line in order.                           *)
LEMMA SearchFinds ==
  ASSUME RingInv, NEW i \in 1..Occupied
  PROVE  /\ Ring!NewCommand(At(i)) <=> Ring!Queue!HasLine(i)
         /\ Ring!Queue!EndOfLine(i) \in i..Occupied
         /\ Ring!ClearedTo(At(i)) = At(Ring!Queue!EndOfLine(i) + 1)
<1> DEFINE r == At(i)
           F == Ring!Queue!First(i, {"n"})
<1>1. /\ readPtr \in Ring!Place /\ writePtr \in Ring!Place
      /\ Occupied \in Nat /\ Occupied < BufSize /\ Len(Ring!Contents) = Occupied
      /\ \A k \in 1..Occupied : Ring!Contents[k] = buf[At(k)]
  BY QueueIs DEF RingInv, Ring!FifoTypeOK
<1>2. /\ r \in Ring!Place /\ r # writePtr
      /\ \A j \in i..(Occupied + 1) : At(j) = IF r + j - i < BufSize THEN r + j - i ELSE r + j - i - BufSize
      /\ At(Occupied + 1) = writePtr
  BY <1>1, Places, FifoAssumption DEF At, Ring!Place
<1>3. /\ F \in i..(Occupied + 1) /\ (F <= Occupied => buf[At(F)] = "n")
      /\ \A j \in i..(F - 1) : buf[At(j)] # "n"
  <2>1. i \in 1..(Occupied + 1)
    BY <1>1
  <2>2. /\ F \in i..(Occupied + 1) /\ (F <= Occupied => Ring!Contents[F] \in {"n"})
        /\ \A j \in i..(F - 1) : Ring!Contents[j] \notin {"n"}
    BY <2>1, FirstExists
  <2> HIDE DEF F
  <2>3. /\ F <= Occupied => Ring!Contents[F] = buf[At(F)]
        /\ \A j \in i..(F - 1) : Ring!Contents[j] = buf[At(j)]
    BY <1>1, <2>2
  <2> QED
    BY <2>2, <2>3
<1>4. /\ Ring!Queue!HasLine(i) <=> F <= Occupied \/ Occupied - i + 1 = BufSize - 1
      /\ Ring!Queue!EndOfLine(i) = IF F < Occupied THEN F ELSE Occupied
  BY <1>1 DEF Ring!Queue!HasLine, Ring!Queue!EndOfLine, Ring!Queue!Lesser
<1> HIDE DEF r, F
<1>5. /\ r < writePtr => \A p \in r..(writePtr - 1) : p - r + i \in i..Occupied /\ p = At(p - r + i)
      /\ r > writePtr => /\ \A p \in r..(BufSize - 1) : p - r + i \in i..Occupied /\ p = At(p - r + i)
                         /\ \A p \in 0..(writePtr - 1) :
                              p - r + i + BufSize \in i..Occupied /\ p = At(p - r + i + BufSize)
  BY <1>1, <1>2, FifoAssumption DEF Ring!Place
<1>6. CASE F = Occupied + 1
  <2>1. Ring!FirstPart(r) = {} /\ Ring!SecondPart(r) = {}
    BY <1>1, <1>2, <1>3, <1>5, <1>6, FifoAssumption
       DEF Ring!Place, Ring!FirstPart, Ring!SecondPart, Ring!Delimiters
  <2>2. Ring!ClearedTo(r) = writePtr
    BY <1>2, <2>1 DEF Ring!ClearedTo
  <2>3. Ring!NewCommand(r) <=> r = writePtr + 1 \/ (r = 0 /\ writePtr = BufSize - 1)
    BY <1>2, <2>1 DEF Ring!NewCommand
  <2>4. Ring!NewCommand(r) <=> Occupied - i + 1 = BufSize - 1
    <3>1. writePtr = IF r + Occupied + 1 - i < BufSize THEN r + Occupied + 1 - i ELSE r + Occupied + 1 - i - BufSize
      <4>1. Occupied + 1 \in i..(Occupied + 1)
        BY <1>1
      <4>2. At(Occupied + 1) = IF r + (Occupied + 1) - i < BufSize THEN r + (Occupied + 1) - i
                               ELSE r + (Occupied + 1) - i - BufSize
        BY <1>2, <4>1
      <4>3. r \in Int /\ Occupied \in Int /\ i \in Int /\ BufSize \in Int
        BY <1>1, <1>2, FifoAssumption DEF Ring!Place
      <4> QED
        BY <1>2, <4>2, <4>3
    <3> QED
      BY <1>1, <1>2, <2>3, <3>1, FifoAssumption DEF Ring!Place
  <2> QED
    BY <1>1, <1>2, <1>4, <1>6, <2>2, <2>4 DEF r
<1>7. CASE F <= Occupied
  <2>1. /\ F \in i..Occupied /\ F \in 1..Occupied /\ Ring!After(At(F)) = At(F + 1)
        /\ At(F) \in Ring!Place /\ buf[At(F)] = "n"
    BY <1>1, <1>3, <1>7, Places
  <2>2. CASE r + F - i < BufSize
    <3>1. At(F) = r + F - i
      <4>1. F \in i..(Occupied + 1)
        BY <1>1, <2>1
      <4> QED
        BY <1>2, <2>2, <4>1
    <3>2. At(F) \in Ring!FirstPart(r)
      BY <1>1, <1>2, <1>5, <2>1, <2>2, <3>1, FifoAssumption DEF Ring!Place, Ring!FirstPart, Ring!Delimiters
    <3>3. \A p \in Ring!FirstPart(r) : p \in Int /\ At(F) <= p
      BY <1>1, <1>2, <1>3, <1>5, <2>1, <3>1, FifoAssumption DEF Ring!Place, Ring!FirstPart, Ring!Delimiters
    <3>4. Ring!Smallest(Ring!FirstPart(r)) = At(F)
      BY <3>2, <3>3, SmallestIs
    <3>5. Ring!NewCommand(r) /\ Ring!ClearedTo(r) = At(F + 1)
      <4>1. Ring!FirstPart(r) # {}
        BY <3>2
      <4>2. Ring!ClearedTo(r) = Ring!After(Ring!Smallest(Ring!FirstPart(r)))
        BY <1>2, <4>1 DEF Ring!ClearedTo
      <4> QED
        BY <1>2, <2>1, <3>4, <4>1, <4>2 DEF Ring!NewCommand
    <3> QED
      BY <1>1, <1>3, <1>4, <1>7, <3>5 DEF r
  <2>3. CASE ~(r + F - i < BufSize)
    <3>1. At(F) = r + F - i - BufSize /\ r > writePtr /\ At(F) \in 0..(writePtr - 1)
      BY <1>1, <1>2, <2>1, <2>3, FifoAssumption DEF Ring!Place
    <3>2. Ring!FirstPart(r) = {}
      BY <1>1, <1>2, <1>3, <1>5, <2>1, <2>3, <3>1, FifoAssumption DEF Ring!Place, Ring!FirstPart, Ring!Delimiters
    <3>3. At(F) \in Ring!SecondPart(r)
      BY <2>1, <3>1, <3>2 DEF Ring!SecondPart, Ring!Delimiters
    <3>4. \A p \in Ring!SecondPart(r) : p \in Int /\ At(F) <= p
      BY <1>1, <1>2, <1>3, <1>5, <2>1, <3>1, FifoAssumption DEF Ring!Place, Ring!SecondPart, Ring!Delimiters
    <3>5. Ring!Smallest(Ring!SecondPart(r)) = At(F)
      BY <3>3, <3>4, SmallestIs
    <3>6. Ring!NewCommand(r) /\ Ring!ClearedTo(r) = At(F + 1)
      BY <1>2, <2>1, <3>2, <3>3, <3>5 DEF Ring!NewCommand, Ring!ClearedTo
    <3> QED
      BY <1>1, <1>3, <1>4, <1>7, <3>6 DEF r
  <2> QED
    BY <2>2, <2>3
<1> QED
  BY <1>1, <1>3, <1>6, <1>7

(* CO_fifo_CommSearch drops the line it finds, or what is there of it.     *)
LEMMA SearchSearches ==
  ASSUME RingInv, NEW clear \in BOOLEAN, Ring!CO_fifo_CommSearch(clear)
  PROVE  RingInv' /\ Ring!ReadAhead = Ring!Queue!NoAlt /\ Ring!Queue!Search(clear)
<1> USE DEF Ring!CO_fifo_CommSearch
<1>1. /\ readPtr \in Ring!Place /\ writePtr \in Ring!Place
      /\ Occupied \in Nat /\ Occupied < BufSize /\ Len(Ring!Contents) = Occupied
      /\ At(1) = readPtr /\ At(Occupied + 1) = writePtr
  BY QueueIs, Places DEF RingInv, Ring!FifoTypeOK
<1>2. /\ Ring!NewCommand(readPtr) <=> Ring!Queue!HasLine(1)
      /\ Ring!Queue!EndOfLine(1) \in 0..Occupied
      /\ Ring!ClearedTo(readPtr) = At(Ring!Queue!EndOfLine(1) + 1)
  <2>1. CASE Occupied = 0
    <3>1. Ring!Queue!First(1, {"n"}) = 1
      BY <2>1, FirstSteps
    <3>2. ~Ring!Queue!HasLine(1) /\ Ring!Queue!EndOfLine(1) = 0
      BY <1>1, <2>1, <3>1, FifoAssumption
         DEF Ring!Queue!HasLine, Ring!Queue!EndOfLine, Ring!Queue!Lesser
    <3>3. readPtr = writePtr
      BY <1>1, <2>1, FifoAssumption DEF Occupied, Ring!CO_fifo_getOccupied, Ring!Place
    <3>4. ~Ring!NewCommand(readPtr) /\ Ring!ClearedTo(readPtr) = readPtr
      BY <3>3 DEF Ring!NewCommand, Ring!ClearedTo
    <3> QED
      BY <1>1, <2>1, <3>2, <3>4
  <2>2. CASE Occupied # 0
    <3>1. 1 \in 1..Occupied
      BY <1>1, <2>2
    <3> QED
      BY <1>1, <3>1, SearchFinds
  <2> QED
    BY <2>1, <2>2
<1> DEFINE k == IF clear THEN Ring!Queue!EndOfLine(1) ELSE 0
<1>3. k \in 0..Occupied /\ readPtr' = At(k + 1)
  BY <1>1, <1>2
<1>4. returned'.size \in 0..(FifoTokenSize - 1)
  BY FifoAssumption DEF Ring!Found
<1> HIDE DEF k
<1>5. /\ RingInv' /\ Ring!Contents' = Ring!Queue!Drop(k)
      /\ Ring!ReadAhead = Ring!Queue!NoAlt /\ UNCHANGED Ring!ReadAhead
  BY <1>3, <1>4, ReaderTakes
<1>6. Ring!Contents' = IF clear THEN Ring!Queue!Drop(Ring!Queue!EndOfLine(1)) ELSE Ring!Contents
  BY <1>5, DropNone DEF k
<1>7. returned' = [found |-> Ring!Queue!HasLine(1), size |-> 0]
  <2>1. Ring!NewCommand(readPtr) = Ring!Queue!HasLine(1)
    BY <1>2 DEF Ring!NewCommand, Ring!Queue!HasLine
  <2> QED
    BY <2>1 DEF Ring!Found
<1> QED
  BY <1>5, <1>6, <1>7 DEF Ring!Queue!Search

(* What Trimmed makes of each place.                                       *)
LEMMA TrimmedIs ==
  ASSUME writePtr \in Ring!Place
  PROVE  \A p \in Ring!Place, c \in BOOLEAN :
           Ring!Trimmed[<<p, c>>] =
             IF p = writePtr \/ (buf[p] = "c" /\ ~c) THEN [ptr |-> p, line |-> FALSE]
             ELSE IF buf[p] = "n" THEN [ptr |-> Ring!After(p), line |-> TRUE]
             ELSE Ring!Trimmed[<<Ring!After(p), c \/ buf[p] = "#">>]
<1> DEFINE D == Ring!Place \X BOOLEAN
           V == [ptr : Ring!Place, line : BOOLEAN]
           B(f, p, c) ==
             IF p = writePtr \/ (buf[p] = "c" /\ ~c) THEN [ptr |-> p, line |-> FALSE]
             ELSE IF buf[p] = "n" THEN [ptr |-> Ring!After(p), line |-> TRUE]
             ELSE f[<<Ring!After(p), c \/ buf[p] = "#">>]
           G == [e \in D \X [D -> V] |-> B(e[2], e[1][1], e[1][2])]
           Dist(p) == IF p <= writePtr THEN writePtr - p ELSE writePtr - p + BufSize
           rank == [x \in D |-> Dist(x[1])]
<1>1. \A p \in Ring!Place : /\ Ring!After(p) \in Ring!Place /\ Dist(p) \in Nat /\ Dist(p) < BufSize
                            /\ p # writePtr => Dist(Ring!After(p)) < Dist(p)
  BY FifoAssumption DEF Ring!Place, Ring!After
<1>2. \A p \in Ring!Place, c \in BOOLEAN :
        /\ <<p, c>> \in D /\ rank[<<p, c>>] = Dist(p)
        /\ <<Ring!After(p), c \/ buf[p] = "#">> \in D
        /\ p # writePtr => rank[<<Ring!After(p), c \/ buf[p] = "#">>] < rank[<<p, c>>]
  <2> SUFFICES ASSUME NEW p \in Ring!Place, NEW c \in BOOLEAN
               PROVE  /\ <<p, c>> \in D /\ rank[<<p, c>>] = Dist(p)
                      /\ <<Ring!After(p), c \/ buf[p] = "#">> \in D
                      /\ p # writePtr => rank[<<Ring!After(p), c \/ buf[p] = "#">>] < rank[<<p, c>>]
    OBVIOUS
  <2> DEFINE d == (c \/ buf[p] = "#")
  <2>1. d \in BOOLEAN
    OBVIOUS
  <2> HIDE DEF d, Dist
  <2> QED
    BY <1>1, <2>1 DEF d
<1>3. \A p \in Ring!Place, c \in BOOLEAN, f \in [D -> V] : B(f, p, c) \in V
  <2> HIDE DEF D
  <2> QED
    BY <1>1, <1>2
<1>4. \A x \in D : \A f \in [D -> V] : G[<<x, f>>] = B(f, x[1], x[2])
  <2> HIDE DEF B, D, V
  <2> QED
    OBVIOUS
<1>5. IsRecursion(G, D, V, rank)
  <2>1. V # {}
    <3>1. [ptr |-> writePtr, line |-> FALSE] \in V
      OBVIOUS
    <3> QED
      BY <3>1
  <2>2. rank \in [D -> Nat] /\ (\A x \in D : rank[x] < BufSize) /\ BufSize \in Nat
    <3> HIDE DEF Dist
    <3> QED
      BY <1>1, FifoAssumption
  <2>3. G \in [D \X [D -> V] -> V]
    <3>1. ASSUME NEW e \in D \X [D -> V] PROVE B(e[2], e[1][1], e[1][2]) \in V
      <4>1. e[2] \in [D -> V] /\ e[1][1] \in Ring!Place /\ e[1][2] \in BOOLEAN
        OBVIOUS
      <4> HIDE DEF B, D, V
      <4> QED
        BY <1>3, <4>1
    <3> HIDE DEF B, D, V
    <3> QED
      BY <3>1
  <2>4. ASSUME NEW x \in D, NEW f \in [D -> V], NEW g \in [D -> V],
               \A y \in D : rank[y] < rank[x] => f[y] = g[y]
        PROVE  G[<<x, f>>] = G[<<x, g>>]
    <3>1. PICK p \in Ring!Place, c \in BOOLEAN : x = <<p, c>>
      OBVIOUS
    <3>2. B(f, p, c) = B(g, p, c)
      <4> HIDE DEF rank, D, V
      <4> QED
        BY <1>2, <2>4, <3>1
    <3> HIDE DEF G, B, D, V
    <3> QED
      BY <1>4, <3>1, <3>2
  <2> HIDE DEF G, D, V, rank
  <2> QED
    BY <2>1, <2>2, <2>3, <2>4 DEF IsRecursion
<1>6. PICK f \in [D -> V] : \A x \in D : f[x] = G[<<x, f>>]
  <2> HIDE DEF G, D, V, rank
  <2> QED
    BY <1>5, Recursion
<1>7. f = [x \in D |-> B(f, x[1], x[2])]
  <2> HIDE DEF B, D, V, G
  <2> QED
    BY <1>4, <1>6
<1>8. Ring!Trimmed = CHOOSE a : a = [x \in D |-> B(a, x[1], x[2])]
  BY DEF Ring!Trimmed
<1>9. Ring!Trimmed = [x \in D |-> B(Ring!Trimmed, x[1], x[2])]
  <2> HIDE DEF B, D
  <2> QED
    BY <1>7, <1>8
<1>10. \A p \in Ring!Place, c \in BOOLEAN : Ring!Trimmed[<<p, c>>] = B(Ring!Trimmed, p, c)
  <2> HIDE DEF B, D, rank, Dist
  <2> QED
    BY <1>2, <1>9
<1> QED
  BY <1>10 DEF B

(* Where CO_fifo_trimSpaces stops when it has come to character i.         *)
TrimStart(i, c) == Ring!Queue!First(i, IF c THEN {"n"} ELSE {"c", "n", "#"})
TrimStop(i, c) ==
  IF TrimStart(i, c) <= Occupied /\ Ring!Contents[TrimStart(i, c)] = "#"
  THEN Ring!Queue!First(TrimStart(i, c), {"n"}) ELSE TrimStart(i, c)
TrimLine(i, c) == TrimStop(i, c) <= Occupied /\ Ring!Contents[TrimStop(i, c)] = "n"
TrimEnd(i, c) == IF TrimLine(i, c) THEN TrimStop(i, c) ELSE TrimStop(i, c) - 1
TrimResult(i, c) == [ptr |-> At(TrimEnd(i, c) + 1), line |-> TrimLine(i, c)]

(* Induction from the last character of the queue to the first one.        *)
LEMMA FromTheEnd ==
  ASSUME NEW n \in Nat, NEW S, \A i \in 1..n : (i = n \/ i + 1 \in S) => i \in S
  PROVE  1..n \subseteq S
<1> DEFINE T == {m \in Nat : m < n => n - m \in S}
<1>1. 0 \in T
  OBVIOUS
<1>2. ASSUME NEW m \in Nat, m \in T
      PROVE  m + 1 \in T
  <2> SUFFICES ASSUME m + 1 < n PROVE n - (m + 1) \in S
    OBVIOUS
  <2>1. n - (m + 1) \in 1..n /\ (n - (m + 1)) + 1 = n - m /\ m < n
    OBVIOUS
  <2> QED
    BY <1>2, <2>1
<1> HIDE DEF T
<1>3. Nat \subseteq T
  BY <1>1, <1>2, NaturalInduction
<1>4. ASSUME NEW i \in 1..n
      PROVE  i \in S
  <2>1. n - i \in T /\ n - i \in Nat /\ n - i < n /\ n - (n - i) = i
    BY <1>3
  <2> QED
    BY <2>1 DEF T
<1> QED
  BY <1>4

(* The loop of CO_fifo_trimSpaces ends where Trim says, from every place,  *)
(* in a comment and outside.                                               *)
LEMMA TrimmedIsTrim ==
  ASSUME RingInv
  PROVE  \A i \in 1..(Occupied + 1), c \in BOOLEAN :
           /\ Ring!Trimmed[<<At(i), c>>] = TrimResult(i, c)
           /\ TrimEnd(i, c) \in (i - 1)..Occupied
<1> DEFINE Holds(i, c) == /\ Ring!Trimmed[<<At(i), c>>] = TrimResult(i, c)
                          /\ TrimEnd(i, c) \in (i - 1)..Occupied
           T == {i \in Nat : \A c \in BOOLEAN : Holds(i, c)}
<1>1. /\ readPtr \in Ring!Place /\ writePtr \in Ring!Place
      /\ Occupied \in Nat /\ Len(Ring!Contents) = Occupied
      /\ At(Occupied + 1) = writePtr
      /\ \A k \in 1..Occupied : /\ Ring!Contents[k] = buf[At(k)] /\ buf[At(k)] \in Ring!Symbol
                                /\ At(k) # writePtr /\ Ring!After(At(k)) = At(k + 1)
                                /\ At(k) \in Ring!Place
  BY QueueIs, Places DEF RingInv, Ring!FifoTypeOK
<1>2. ASSUME NEW c \in BOOLEAN
      PROVE  Holds(Occupied + 1, c)
  <2>1. TrimStart(Occupied + 1, c) = Occupied + 1
    BY FirstSteps DEF TrimStart
  <2>2. ~TrimLine(Occupied + 1, c) /\ TrimEnd(Occupied + 1, c) = Occupied
    BY <1>1, <2>1 DEF TrimLine, TrimStop, TrimEnd
  <2>3. Ring!Trimmed[<<writePtr, c>>] = [ptr |-> writePtr, line |-> FALSE]
    BY <1>1, TrimmedIs
  <2>4. TrimResult(Occupied + 1, c) = [ptr |-> writePtr, line |-> FALSE]
    <3>1. TrimLine(Occupied + 1, c) = FALSE
      BY <2>2 DEF TrimLine
    <3> QED
      BY <1>1, <2>2, <3>1 DEF TrimResult
  <2> QED
    BY <1>1, <2>2, <2>3, <2>4
<1>3. ASSUME NEW i \in 1..Occupied, i + 1 \in T
      PROVE  i \in T
  <2> SUFFICES ASSUME NEW c \in BOOLEAN
               PROVE  Holds(i, c)
    BY <1>1
  <2> DEFINE x == Ring!Contents[i]
  <2>1. /\ x = buf[At(i)] /\ x \in Ring!Symbol /\ At(i) # writePtr
        /\ Ring!After(At(i)) = At(i + 1) /\ At(i) \in Ring!Place
    BY <1>1
  <2>2. Ring!Trimmed[<<At(i), c>>] =
          IF x = "c" /\ ~c THEN [ptr |-> At(i), line |-> FALSE]
          ELSE IF x = "n" THEN [ptr |-> At(i + 1), line |-> TRUE]
          ELSE Ring!Trimmed[<<At(i + 1), c \/ x = "#">>]
    BY <1>1, <2>1, TrimmedIs
  <2>3. \A d \in BOOLEAN : Holds(i + 1, d)
    BY <1>3
  <2>4. \A C : Ring!Queue!First(i, C) = IF x \in C THEN i ELSE Ring!Queue!First(i + 1, C)
    BY FirstSteps
  <2> HIDE DEF x, Holds
  <2>5. CASE x = "c" /\ ~c
    <3>1. TrimStart(i, c) = i /\ TrimStop(i, c) = i /\ ~TrimLine(i, c) /\ TrimEnd(i, c) = i - 1
      BY <2>4, <2>5 DEF TrimStart, TrimStop, TrimLine, TrimEnd, x
    <3>2. TrimResult(i, c) = [ptr |-> At(i), line |-> FALSE]
      <4>1. TrimLine(i, c) = FALSE /\ (i - 1) + 1 = i
        BY <1>1, <3>1 DEF TrimLine
      <4> QED
        BY <3>1, <4>1 DEF TrimResult
    <3> QED
      BY <1>1, <2>2, <2>5, <3>1, <3>2 DEF Holds
  <2>6. CASE x = "n"
    <3>1. TrimStart(i, c) = i
      BY <2>4, <2>6 DEF TrimStart
    <3>2. TrimStop(i, c) = i /\ TrimLine(i, c) /\ TrimEnd(i, c) = i
      BY <1>1, <2>6, <3>1 DEF TrimStop, TrimLine, TrimEnd, x
    <3>3. TrimResult(i, c) = [ptr |-> At(i + 1), line |-> TRUE]
      BY <3>2 DEF TrimResult
    <3> QED
      BY <1>1, <2>2, <2>6, <3>2, <3>3 DEF Holds
  <2>7. CASE x # "n" /\ ~(x = "c" /\ ~c)
    <3> DEFINE d == (c \/ x = "#")
    <3>1. d \in BOOLEAN /\ Ring!Trimmed[<<At(i), c>>] = Ring!Trimmed[<<At(i + 1), d>>]
      BY <2>2, <2>7
    <3>2. TrimStop(i, c) = TrimStop(i + 1, d)
      <4>1. CASE c
        <5>1. d = c
          BY <4>1
        <5>2. TrimStart(i, c) = TrimStart(i + 1, c)
          BY <2>4, <2>7, <4>1 DEF TrimStart
        <5> QED
          BY <5>1, <5>2 DEF TrimStop
      <4>2. CASE ~c /\ x # "#"
        <5>1. d = c
          BY <4>2
        <5>2. TrimStart(i, c) = TrimStart(i + 1, c)
          BY <2>1, <2>4, <2>7, <4>2 DEF TrimStart, Ring!Symbol
        <5> QED
          BY <5>1, <5>2 DEF TrimStop
      <4>3. CASE ~c /\ x = "#"
        <5>1. d = TRUE
          BY <4>3
        <5>2. TrimStart(i, c) = i /\ TrimStart(i + 1, TRUE) = Ring!Queue!First(i + 1, {"n"})
          BY <2>4, <4>3 DEF TrimStart
        <5>3. TrimStop(i, c) = Ring!Queue!First(i + 1, {"n"})
          BY <1>1, <2>4, <4>3, <5>2 DEF TrimStop, x
        <5>4. TrimStart(i + 1, TRUE) <= Occupied => Ring!Contents[TrimStart(i + 1, TRUE)] = "n"
          <6>1. i + 1 \in 1..(Occupied + 1)
            BY <1>1
          <6> QED
            BY <5>2, <6>1, FirstExists
        <5> QED
          BY <5>1, <5>2, <5>3, <5>4 DEF TrimStop
      <4> QED
        BY <4>1, <4>2, <4>3
    <3> HIDE DEF d
    <3>3. TrimLine(i, c) = TrimLine(i + 1, d)
      BY <3>2 DEF TrimLine
    <3>4. TrimEnd(i, c) = TrimEnd(i + 1, d) /\ TrimResult(i, c) = TrimResult(i + 1, d)
      BY <3>2, <3>3 DEF TrimEnd, TrimResult
    <3>5. TrimEnd(i + 1, d) \in ((i + 1) - 1)..Occupied
          /\ Ring!Trimmed[<<At(i + 1), d>>] = TrimResult(i + 1, d)
      BY <2>3, <3>1 DEF Holds
    <3> QED
      BY <1>1, <3>1, <3>4, <3>5 DEF Holds
  <2> QED
    BY <2>5, <2>6, <2>7
<1>4. Occupied + 1 \in T
  BY <1>1, <1>2
<1> HIDE DEF T
<1>5. 1..Occupied \subseteq T
  <2>1. \A i \in 1..Occupied : (i = Occupied \/ i + 1 \in T) => i \in T
    BY <1>3, <1>4
  <2> QED
    BY <1>1, <2>1, FromTheEnd
<1>6. \A i \in 1..(Occupied + 1) : i \in T
  <2> TAKE i \in 1..(Occupied + 1)
  <2>1. i \in 1..Occupied \/ i = Occupied + 1
    BY <1>1
  <2> QED
    BY <1>4, <1>5, <2>1
<1> QED
  BY <1>6 DEF T

(* CO_fifo_trimSpaces drops blanks and a comment.                          *)
LEMMA TrimTrims ==
  ASSUME RingInv, NEW c \in BOOLEAN, Ring!CO_fifo_trimSpaces(c)
  PROVE  RingInv' /\ Ring!ReadAhead = Ring!Queue!NoAlt /\ Ring!Queue!Trim(c)
<1> USE DEF Ring!CO_fifo_trimSpaces
<1>1. At(1) = readPtr /\ Occupied \in Nat /\ Len(Ring!Contents) = Occupied /\ 1 \in 1..(Occupied + 1)
  BY QueueIs, Places DEF RingInv, Ring!FifoTypeOK
<1> DEFINE k == TrimEnd(1, c)
<1>2. Ring!Trimmed[<<readPtr, c>>] = TrimResult(1, c) /\ k \in 0..Occupied
  BY <1>1, TrimmedIsTrim
<1> HIDE DEF k
<1>3. readPtr' = At(k + 1) /\ returned' = [found |-> TrimLine(1, c), size |-> 0]
  BY <1>2 DEF TrimResult, Ring!Found, k
<1>4. /\ RingInv' /\ Ring!Contents' = Ring!Queue!Drop(k)
      /\ Ring!ReadAhead = Ring!Queue!NoAlt /\ UNCHANGED Ring!ReadAhead
  <2>1. returned'.size \in 0..(FifoTokenSize - 1)
    BY <1>3, FifoAssumption
  <2> QED
    BY <1>2, <1>3, <2>1, ReaderTakes
<1> QED
  BY <1>1, <1>3, <1>4 DEF Ring!Queue!Trim, k, TrimEnd, TrimLine, TrimStop, TrimStart

(* One turn of the loop of CO_fifo_readToken, for whatever the next ones   *)
(* give.                                                                   *)
More(size) == IF size < FifoTokenSize THEN size + 1 ELSE size
NewSize(p, turn, size) == IF buf[p] = "c" /\ turn < 2 THEN More(size) ELSE size
NewStep(p, turn) ==
  IF buf[p] = "c" /\ turn = 0 THEN 1 ELSE IF buf[p] = " " /\ turn = 1 THEN 2 ELSE turn
Turn(f, p, turn, size) ==
  CASE buf[p] = "#" -> [ptr |-> Ring!ClearedTo(p), line |-> Ring!NewCommand(p), size |-> size]
    [] buf[p] = "n" -> [ptr |-> Ring!After(p), line |-> TRUE, size |-> size]
    [] buf[p] = "c" /\ turn = 2 -> [ptr |-> p, line |-> FALSE, size |-> size]
    [] OTHER -> IF Ring!After(p) = writePtr
                THEN Ring!EndOfData(Ring!After(p), NewStep(p, turn), NewSize(p, turn, size))
                ELSE f[<<Ring!After(p), NewStep(p, turn), NewSize(p, turn, size)>>]

(* What Scan makes of each place, step and size.                           *)
LEMMA ScanIs ==
  ASSUME writePtr \in Ring!Place
  PROVE  \A p \in Ring!Place, turn \in 0..2, size \in 0..FifoTokenSize :
           Ring!Scan[<<p, turn, size>>] = Turn(Ring!Scan, p, turn, size)
<1> DEFINE D == Ring!Place \X (0..2) \X (0..FifoTokenSize)
           P == Ring!Place \cup {readPtr} \cup {Ring!ClearedTo(p) : p \in Ring!Place}
           L == BOOLEAN \cup {Ring!NewCommand(p) : p \in Ring!Place}
           V == [ptr : P, line : L, size : 0..FifoTokenSize]
           G == [e \in D \X [D -> V] |-> Turn(e[2], e[1][1], e[1][2], e[1][3])]
           Dist(p) == IF p < writePtr THEN writePtr - p ELSE writePtr - p + BufSize
           rank == [x \in D |-> Dist(x[1])]
<1>1. \A p \in Ring!Place : /\ Ring!After(p) \in Ring!Place /\ Dist(p) \in Nat /\ Dist(p) < BufSize + 1
                            /\ Ring!After(p) # writePtr => Dist(Ring!After(p)) < Dist(p)
  BY FifoAssumption DEF Ring!Place, Ring!After
<1>2. \A p \in Ring!Place, turn \in 0..2, size \in 0..FifoTokenSize :
        NewStep(p, turn) \in 0..2 /\ NewSize(p, turn, size) \in 0..FifoTokenSize
  <2> TAKE p \in Ring!Place, turn \in 0..2, size \in 0..FifoTokenSize
  <2>1. NewStep(p, turn) \in 0..2
    <3>1. 1 \in 0..2 /\ 2 \in 0..2
      OBVIOUS
    <3> QED
      BY <3>1 DEF NewStep
  <2>2. More(size) \in 0..FifoTokenSize
    BY FifoAssumption DEF More
  <2> QED
    BY <2>1, <2>2 DEF NewSize
<1>3. \A p \in Ring!Place, turn \in 0..2, size \in 0..FifoTokenSize :
        /\ <<p, turn, size>> \in D /\ rank[<<p, turn, size>>] = Dist(p)
        /\ <<Ring!After(p), NewStep(p, turn), NewSize(p, turn, size)>> \in D
        /\ rank[<<Ring!After(p), NewStep(p, turn), NewSize(p, turn, size)>>] = Dist(Ring!After(p))
  <2> HIDE DEF Dist
  <2> QED
    BY <1>1, <1>2
<1>4. \A p \in Ring!Place, turn \in 0..2, size \in 0..FifoTokenSize, f \in [D -> V] :
        Turn(f, p, turn, size) \in V
  <2> SUFFICES ASSUME NEW p \in Ring!Place, NEW turn \in 0..2, NEW size \in 0..FifoTokenSize,
                      NEW f \in [D -> V]
               PROVE  Turn(f, p, turn, size) \in V
    OBVIOUS
  <2>1. /\ [ptr |-> Ring!ClearedTo(p), line |-> Ring!NewCommand(p), size |-> size] \in V
        /\ [ptr |-> Ring!After(p), line |-> TRUE, size |-> size] \in V
        /\ [ptr |-> p, line |-> FALSE, size |-> size] \in V
    BY <1>1
  <2>2. Ring!EndOfData(Ring!After(p), NewStep(p, turn), NewSize(p, turn, size)) \in V
    BY <1>1, <1>2, FifoAssumption DEF Ring!EndOfData
  <2>3. f[<<Ring!After(p), NewStep(p, turn), NewSize(p, turn, size)>>] \in V
    <3> HIDE DEF D, V
    <3> QED
      BY <1>3
  <2> HIDE DEF V
  <2> QED
    BY <2>1, <2>2, <2>3 DEF Turn
<1>5. \A x \in D : \A f \in [D -> V] : G[<<x, f>>] = Turn(f, x[1], x[2], x[3])
  <2> HIDE DEF D, V
  <2> QED
    OBVIOUS
<1>6. IsRecursion(G, D, V, rank)
  <2>1. V # {}
    <3>1. [ptr |-> writePtr, line |-> FALSE, size |-> 0] \in V
      BY FifoAssumption
    <3> QED
      BY <3>1
  <2>2. rank \in [D -> Nat] /\ (\A x \in D : rank[x] < BufSize + 1) /\ BufSize + 1 \in Nat
    <3> HIDE DEF Dist
    <3> QED
      BY <1>1, FifoAssumption
  <2>3. G \in [D \X [D -> V] -> V]
    <3>1. ASSUME NEW e \in D \X [D -> V] PROVE Turn(e[2], e[1][1], e[1][2], e[1][3]) \in V
      <4>1. /\ e[2] \in [D -> V] /\ e[1][1] \in Ring!Place
            /\ e[1][2] \in 0..2 /\ e[1][3] \in 0..FifoTokenSize
        <5> HIDE DEF V
        <5> QED
          OBVIOUS
      <4> HIDE DEF D, V
      <4> QED
        BY <1>4, <4>1
    <3> HIDE DEF D, V
    <3> QED
      BY <3>1
  <2>4. ASSUME NEW x \in D, NEW f \in [D -> V], NEW g \in [D -> V],
               \A y \in D : rank[y] < rank[x] => f[y] = g[y]
        PROVE  G[<<x, f>>] = G[<<x, g>>]
    <3>1. PICK p \in Ring!Place, turn \in 0..2, size \in 0..FifoTokenSize : x = <<p, turn, size>>
      OBVIOUS
    <3> DEFINE y == <<Ring!After(p), NewStep(p, turn), NewSize(p, turn, size)>>
    <3>2. Ring!After(p) # writePtr => f[y] = g[y]
      <4> HIDE DEF rank, D, V
      <4> QED
        BY <1>1, <1>3, <2>4, <3>1
    <3>3. Turn(f, p, turn, size) = Turn(g, p, turn, size)
      <4> HIDE DEF rank, D, V
      <4> QED
        BY <3>2 DEF Turn
    <3> HIDE DEF G, D, V
    <3> QED
      BY <1>5, <3>1, <3>3
  <2> HIDE DEF G, D, V, rank
  <2> QED
    BY <2>1, <2>2, <2>3, <2>4 DEF IsRecursion
<1>7. PICK f \in [D -> V] : \A x \in D : f[x] = G[<<x, f>>]
  <2> HIDE DEF G, D, V, rank
  <2> QED
    BY <1>6, Recursion
<1>8. f = [x \in D |-> Turn(f, x[1], x[2], x[3])]
  <2> HIDE DEF D, V, G
  <2> QED
    BY <1>5, <1>7
<1>9. Ring!Scan = CHOOSE a : a = [x \in D |-> Turn(a, x[1], x[2], x[3])]
  BY DEF Ring!Scan, Turn, NewStep, NewSize, More
<1>10. Ring!Scan = [x \in D |-> Turn(Ring!Scan, x[1], x[2], x[3])]
  <2> HIDE DEF D
  <2> QED
    BY <1>8, <1>9
<1> QED
  <2>1. \A p \in Ring!Place, turn \in 0..2, size \in 0..FifoTokenSize : <<p, turn, size>> \in D
    OBVIOUS
  <2> HIDE DEF D
  <2> QED
    BY <1>10, <2>1

(* What is behind a token: the next one, a comment, or the end of the line *)
(* or of the data.                                                         *)
Behind(next, size) ==
  IF next > Occupied THEN [ptr |-> writePtr, line |-> FALSE, size |-> size]
  ELSE IF Ring!Contents[next] = "#"
  THEN [ptr |-> Ring!ClearedTo(At(next)), line |-> Ring!NewCommand(At(next)), size |-> size]
  ELSE IF Ring!Contents[next] = "n" THEN [ptr |-> At(next + 1), line |-> TRUE, size |-> size]
  ELSE [ptr |-> At(next), line |-> FALSE, size |-> size]

(* A token that is not whole stays; the sets of characters First is asked  *)
(* for.                                                                    *)
Unfinished == [ptr |-> readPtr, line |-> FALSE, size |-> 0]
Graph == {"c", "n", "#"}
Ends == {" ", "n", "#"}
Capped(size) == IF size < FifoTokenSize THEN size ELSE FifoTokenSize

(* In a token of which size characters were taken, at character i.         *)
Within(i, size) ==
  LET stop == Ring!Queue!First(i, Ends) IN
  IF stop > Occupied THEN Unfinished
  ELSE Behind(Ring!Queue!First(stop, Graph), Capped(size + (stop - i)))

(* Before a token, at character i.                                         *)
Before(i) ==
  LET start == Ring!Queue!First(i, Graph) IN
  IF start > Occupied THEN Unfinished
  ELSE IF Ring!Contents[start] = "c" THEN Within(start, 0) ELSE Behind(start, 0)

(* A token that nothing ends yet is left where it is.                      *)
LEMMA EndsEarly == \A p, size : Ring!EndOfData(p, 0, size) = Unfinished
<1>1. 0 # 2
  OBVIOUS
<1> QED
  BY <1>1 DEF Ring!EndOfData, Unfinished

(* One turn of the loop at the i-th character of the queue.                *)
LEMMA TurnIs ==
  ASSUME RingInv, NEW i \in 1..Occupied, NEW turn \in 0..2, NEW size \in 0..FifoTokenSize
  PROVE  /\ Ring!Contents[i] \in Ring!Symbol
         /\ Ring!Contents[i] = "#" => Ring!Scan[<<At(i), turn, size>>] =
                         [ptr |-> Ring!ClearedTo(At(i)), line |-> Ring!NewCommand(At(i)), size |-> size]
         /\ Ring!Contents[i] = "n" => Ring!Scan[<<At(i), turn, size>>] =
                         [ptr |-> At(i + 1), line |-> TRUE, size |-> size]
         /\ Ring!Contents[i] = "c" /\ turn = 2 =>
              Ring!Scan[<<At(i), turn, size>>] = [ptr |-> At(i), line |-> FALSE, size |-> size]
         /\ Ring!Contents[i] = "c" /\ turn # 2 =>
              Ring!Scan[<<At(i), turn, size>>] =
                IF i = Occupied THEN Unfinished ELSE Ring!Scan[<<At(i + 1), 1, More(size)>>]
         /\ Ring!Contents[i] = " " /\ turn = 0 =>
              Ring!Scan[<<At(i), turn, size>>] =
                IF i = Occupied THEN Unfinished ELSE Ring!Scan[<<At(i + 1), 0, size>>]
         /\ Ring!Contents[i] = " " /\ turn # 0 =>
              Ring!Scan[<<At(i), turn, size>>] =
                IF i = Occupied THEN [ptr |-> writePtr, line |-> FALSE, size |-> size]
                ELSE Ring!Scan[<<At(i + 1), 2, size>>]
<1> DEFINE x == Ring!Contents[i]
           p == At(i)
<1>1. /\ readPtr \in Ring!Place /\ writePtr \in Ring!Place /\ Occupied \in Nat
      /\ x = buf[p] /\ x \in Ring!Symbol /\ p \in Ring!Place /\ Ring!After(p) = At(i + 1)
      /\ At(Occupied + 1) = writePtr
  BY QueueIs, Places DEF RingInv, Ring!FifoTypeOK
<1>2. Ring!After(p) = writePtr <=> i = Occupied
  <2>1. i # Occupied => At(i + 1) # writePtr
    <3> SUFFICES ASSUME i # Occupied PROVE At(i + 1) # writePtr
      OBVIOUS
    <3>1. i + 1 \in 1..Occupied
      BY <1>1
    <3> QED
      BY <1>1, <3>1, Places
  <2> QED
    BY <1>1, <2>1
<1>3. Ring!Scan[<<p, turn, size>>] = Turn(Ring!Scan, p, turn, size)
  BY <1>1, ScanIs
<1> HIDE DEF x, p
<1>4. x = "#" => Ring!Scan[<<p, turn, size>>] =
                   [ptr |-> Ring!ClearedTo(p), line |-> Ring!NewCommand(p), size |-> size]
  BY <1>1, <1>3 DEF Turn
<1>5. x = "n" => Ring!Scan[<<p, turn, size>>] = [ptr |-> At(i + 1), line |-> TRUE, size |-> size]
  BY <1>1, <1>3 DEF Turn
<1>6. x = "c" /\ turn = 2 =>
        Ring!Scan[<<p, turn, size>>] = [ptr |-> p, line |-> FALSE, size |-> size]
  BY <1>1, <1>3 DEF Turn
<1>7. x \in {"c", " "} /\ ~(x = "c" /\ turn = 2) =>
        Ring!Scan[<<p, turn, size>>] =
          IF i = Occupied THEN Ring!EndOfData(writePtr, NewStep(p, turn), NewSize(p, turn, size))
          ELSE Ring!Scan[<<At(i + 1), NewStep(p, turn), NewSize(p, turn, size)>>]
  BY <1>1, <1>2, <1>3 DEF Turn
<1>8. x = "c" /\ turn # 2 => NewSize(p, turn, size) = More(size) /\ NewStep(p, turn) = 1
  BY <1>1 DEF NewSize, NewStep
<1>9. x = " " => /\ NewSize(p, turn, size) = size
                 /\ turn = 0 => NewStep(p, turn) = 0
                 /\ turn # 0 => NewStep(p, turn) = 2
  <2>1. x = " " => NewSize(p, turn, size) = size
    BY <1>1 DEF NewSize
  <2>2. x = " " => NewStep(p, turn) = IF turn = 1 THEN 2 ELSE turn
    BY <1>1 DEF NewStep
  <2>3. turn \in {0, 1, 2} /\ 0 # 1
    OBVIOUS
  <2> QED
    BY <2>1, <2>2, <2>3
<1>10. x = "c" /\ turn # 2 =>
         Ring!Scan[<<p, turn, size>>] =
           IF i = Occupied THEN Unfinished ELSE Ring!Scan[<<At(i + 1), 1, More(size)>>]
  BY <1>7, <1>8 DEF Ring!EndOfData, Unfinished
<1>11. x = " " /\ turn = 0 =>
         Ring!Scan[<<p, turn, size>>] =
           IF i = Occupied THEN Unfinished ELSE Ring!Scan[<<At(i + 1), 0, size>>]
  <2> SUFFICES ASSUME x = " ", turn = 0
               PROVE  Ring!Scan[<<p, turn, size>>] =
                        IF i = Occupied THEN Unfinished ELSE Ring!Scan[<<At(i + 1), 0, size>>]
    OBVIOUS
  <2>1. NewStep(p, turn) = 0 /\ NewSize(p, turn, size) = size /\ ~(x = "c" /\ turn = 2)
    BY <1>9
  <2>2. Ring!EndOfData(writePtr, 0, size) = Unfinished
    BY EndsEarly
  <2> QED
    BY <1>7, <2>1, <2>2
<1>12. x = " " /\ turn # 0 =>
         Ring!Scan[<<p, turn, size>>] =
           IF i = Occupied THEN [ptr |-> writePtr, line |-> FALSE, size |-> size]
           ELSE Ring!Scan[<<At(i + 1), 2, size>>]
  BY <1>7, <1>9 DEF Ring!EndOfData
<1> QED
  BY <1>1, <1>4, <1>5, <1>6, <1>10, <1>11, <1>12 DEF x, p

(* Behind the token, the loop looks for the next graphical character.      *)
LEMMA ScansBehind ==
  ASSUME RingInv, NEW size \in 0..FifoTokenSize
  PROVE  \A i \in 1..Occupied :
           Ring!Scan[<<At(i), 2, size>>] = Behind(Ring!Queue!First(i, Graph), size)
<1> DEFINE T == {i \in Nat : Ring!Scan[<<At(i), 2, size>>] = Behind(Ring!Queue!First(i, Graph), size)}
<1>1. Occupied \in Nat
  BY QueueIs
<1>2. ASSUME NEW i \in 1..Occupied, i = Occupied \/ i + 1 \in T
      PROVE  Ring!Scan[<<At(i), 2, size>>] = Behind(Ring!Queue!First(i, Graph), size)
  <2> DEFINE x == Ring!Contents[i]
             F == Ring!Queue!First(i, Graph)
  <2>1. F = (IF x \in Graph THEN i ELSE Ring!Queue!First(i + 1, Graph)) /\ ~(i > Occupied)
    BY <1>1, FirstSteps
  <2>2. 2 \in 0..2 /\ 2 # 0
    OBVIOUS
  <2>3. CASE x \in Graph
    <3>1. F = i
      BY <2>1, <2>3
    <3> QED
      <4>1. x = "#" => Ring!Scan[<<At(i), 2, size>>] = Behind(i, size)
        BY <2>1, <2>2, TurnIs DEF Behind
      <4>2. x = "n" => Ring!Scan[<<At(i), 2, size>>] = Behind(i, size)
        BY <2>1, <2>2, TurnIs DEF Behind
      <4>3. x = "c" => Ring!Scan[<<At(i), 2, size>>] = Behind(i, size)
        BY <2>1, <2>2, TurnIs DEF Behind
      <4> QED
        BY <2>3, <3>1, <4>1, <4>2, <4>3 DEF Graph
  <2>4. CASE x \notin Graph
    <3>1. x = " " /\ F = Ring!Queue!First(i + 1, Graph)
      BY <2>1, <2>2, <2>4, TurnIs DEF Graph, Ring!Symbol
    <3>2. Ring!Scan[<<At(i), 2, size>>] =
            IF i = Occupied THEN [ptr |-> writePtr, line |-> FALSE, size |-> size]
            ELSE Ring!Scan[<<At(i + 1), 2, size>>]
      BY <2>2, <3>1, TurnIs
    <3>3. CASE i = Occupied
      <4>1. Ring!Queue!First(i + 1, Graph) = Occupied + 1
        BY <3>3, FirstSteps
      <4>2. F = Occupied + 1
        BY <3>1, <4>1
      <4>3. Occupied + 1 > Occupied
        BY <1>1
      <4> QED
        BY <3>2, <3>3, <4>2, <4>3 DEF Behind
    <3>4. CASE i # Occupied
      BY <1>2, <3>1, <3>2, <3>4
    <3> QED
      BY <3>3, <3>4
  <2> QED
    BY <2>3, <2>4
<1>3. 1..Occupied \subseteq T
  <2>1. \A i \in 1..Occupied : (i = Occupied \/ i + 1 \in T) => i \in T
    BY <1>1, <1>2
  <2> HIDE DEF T
  <2> QED
    BY <1>1, <2>1, FromTheEnd
<1> QED
  BY <1>3

(* In the token, the loop takes characters up to the size of the buffer.   *)
LEMMA ScansWithin ==
  ASSUME RingInv
  PROVE  \A i \in 1..Occupied : \A size \in 0..FifoTokenSize :
           Ring!Scan[<<At(i), 1, size>>] = Within(i, size)
<1> DEFINE T == {i \in Nat : \A size \in 0..FifoTokenSize :
                   Ring!Scan[<<At(i), 1, size>>] = Within(i, size)}
<1>1. Occupied \in Nat
  BY QueueIs
<1>2. ASSUME NEW i \in 1..Occupied, i = Occupied \/ i + 1 \in T, NEW size \in 0..FifoTokenSize
      PROVE  Ring!Scan[<<At(i), 1, size>>] = Within(i, size)
  <2> DEFINE x == Ring!Contents[i]
             stop == Ring!Queue!First(i, Ends)
  <2>1. stop = (IF x \in Ends THEN i ELSE Ring!Queue!First(i + 1, Ends)) /\ ~(i > Occupied)
    BY <1>1, FirstSteps
  <2>2. 1 \in 0..2 /\ 1 # 0 /\ 1 # 2 /\ x \in Ring!Symbol
    BY QueueIs
  <2>3. CASE x \in Ends
    <3>1. stop = i /\ Capped(size + (stop - i)) = size
      BY <1>1, <2>1, <2>3, FifoAssumption DEF Capped
    <3>2. Within(i, size) = Behind(Ring!Queue!First(i, Graph), size)
      BY <2>1, <3>1 DEF Within
    <3>3. Ring!Queue!First(i, Graph) = IF x \in Graph THEN i ELSE Ring!Queue!First(i + 1, Graph)
      BY FirstSteps
    <3>4. CASE x \in Graph
      <4>1. Ring!Queue!First(i, Graph) = i /\ x \in {"n", "#"}
        BY <2>3, <3>3, <3>4 DEF Graph, Ends
      <4>2. Ring!Scan[<<At(i), 1, size>>] = Behind(i, size)
        BY <2>1, <2>2, <4>1, TurnIs DEF Behind
      <4> QED
        BY <3>2, <4>1, <4>2
    <3>5. CASE x \notin Graph
      <4>1. x = " " /\ Ring!Queue!First(i, Graph) = Ring!Queue!First(i + 1, Graph)
        BY <2>3, <3>3, <3>5 DEF Graph, Ends
      <4>2. Ring!Scan[<<At(i), 1, size>>] =
              IF i = Occupied THEN [ptr |-> writePtr, line |-> FALSE, size |-> size]
              ELSE Ring!Scan[<<At(i + 1), 2, size>>]
        BY <2>2, <4>1, TurnIs
      <4>3. CASE i = Occupied
        <5>1. Ring!Queue!First(i, Graph) = Occupied + 1
          BY <4>1, <4>3, FirstSteps
        <5>2. Occupied + 1 > Occupied
          BY <1>1
        <5> QED
          BY <3>2, <4>2, <4>3, <5>1, <5>2 DEF Behind
      <4>4. CASE i # Occupied
        <5>1. i + 1 \in 1..Occupied
          BY <1>1, <4>4
        <5> QED
          BY <3>2, <4>1, <4>2, <4>4, <5>1, ScansBehind
      <4> QED
        BY <4>3, <4>4
    <3> QED
      BY <3>4, <3>5
  <2>4. CASE x \notin Ends
    <3>1. x = "c" /\ stop = Ring!Queue!First(i + 1, Ends)
      BY <2>1, <2>2, <2>4 DEF Ends, Ring!Symbol
    <3>2. Ring!Scan[<<At(i), 1, size>>] =
            IF i = Occupied THEN Unfinished ELSE Ring!Scan[<<At(i + 1), 1, More(size)>>]
      BY <2>2, <3>1, TurnIs
    <3>3. CASE i = Occupied
      <4>1. stop = Occupied + 1 /\ Occupied + 1 > Occupied
        BY <1>1, <3>1, <3>3, FirstSteps
      <4> QED
        BY <3>2, <3>3, <4>1 DEF Within
    <3>4. CASE i # Occupied
      <4>1. i + 1 \in 1..(Occupied + 1) /\ More(size) \in 0..FifoTokenSize
        BY <1>1, FifoAssumption DEF More
      <4>2. Ring!Scan[<<At(i), 1, size>>] = Within(i + 1, More(size))
        BY <1>2, <3>2, <3>4, <4>1
      <4>3. stop \in (i + 1)..(Occupied + 1)
        BY <3>1, <4>1, FirstExists
      <4> HIDE DEF stop
      <4>4. Capped(More(size) + (stop - (i + 1))) = Capped(size + (stop - i))
        BY <1>1, <4>3, FifoAssumption DEF Capped, More
      <4>5. Within(i + 1, More(size)) = Within(i, size)
        <5>1. stop = Ring!Queue!First(i, Ends) /\ stop = Ring!Queue!First(i + 1, Ends)
          BY <3>1 DEF stop
        <5> QED
          BY <4>4, <5>1 DEF Within
      <4> QED
        BY <4>2, <4>5
    <3> QED
      BY <3>3, <3>4
  <2> QED
    BY <2>3, <2>4
<1>3. 1..Occupied \subseteq T
  <2>1. \A i \in 1..Occupied : (i = Occupied \/ i + 1 \in T) => i \in T
    BY <1>1, <1>2
  <2> HIDE DEF T
  <2> QED
    BY <1>1, <2>1, FromTheEnd
<1> QED
  BY <1>3

(* Before the token, the loop skips blanks.                                *)
LEMMA ScansBefore ==
  ASSUME RingInv
  PROVE  \A i \in 1..Occupied : Ring!Scan[<<At(i), 0, 0>>] = Before(i)
<1> DEFINE T == {i \in Nat : Ring!Scan[<<At(i), 0, 0>>] = Before(i)}
<1>1. Occupied \in Nat /\ 0 \in 0..FifoTokenSize /\ 1 \in 0..FifoTokenSize /\ More(0) = 1
  BY QueueIs, FifoAssumption DEF More
<1>2. ASSUME NEW i \in 1..Occupied, i = Occupied \/ i + 1 \in T
      PROVE  Ring!Scan[<<At(i), 0, 0>>] = Before(i)
  <2> DEFINE x == Ring!Contents[i]
             start == Ring!Queue!First(i, Graph)
  <2>1. start = (IF x \in Graph THEN i ELSE Ring!Queue!First(i + 1, Graph)) /\ ~(i > Occupied)
    BY <1>1, FirstSteps
  <2>2. 0 \in 0..2 /\ 0 # 2 /\ x \in Ring!Symbol
    BY QueueIs
  <2>3. CASE x \in {"n", "#"}
    <3>1. Before(i) = Behind(i, 0)
      BY <2>1, <2>3 DEF Before, Graph
    <3>2. Ring!Scan[<<At(i), 0, 0>>] = Behind(i, 0)
      BY <1>1, <2>1, <2>2, <2>3, TurnIs DEF Behind
    <3> QED
      BY <3>1, <3>2
  <2>4. CASE x = "c"
    <3>1. Before(i) = Within(i, 0)
      BY <2>1, <2>4 DEF Before, Graph
    <3>2. Ring!Scan[<<At(i), 0, 0>>] =
            IF i = Occupied THEN Unfinished ELSE Ring!Scan[<<At(i + 1), 1, 1>>]
      <4>1. Ring!Scan[<<At(i), 0, 0>>] =
              IF i = Occupied THEN Unfinished ELSE Ring!Scan[<<At(i + 1), 1, More(0)>>]
        BY <1>1, <2>2, <2>4, TurnIs
      <4> QED
        BY <1>1, <4>1
    <3>3. Ring!Scan[<<At(i), 1, 0>>] =
            IF i = Occupied THEN Unfinished ELSE Ring!Scan[<<At(i + 1), 1, 1>>]
      <4>1. 1 \in 0..2 /\ 1 # 2
        OBVIOUS
      <4> QED
        <5>1. Ring!Scan[<<At(i), 1, 0>>] =
                IF i = Occupied THEN Unfinished ELSE Ring!Scan[<<At(i + 1), 1, More(0)>>]
          BY <1>1, <2>4, <4>1, TurnIs
        <5> QED
          BY <1>1, <5>1
    <3> QED
      BY <1>1, <3>1, <3>2, <3>3, ScansWithin
  <2>5. CASE x = " "
    <3>1. start = Ring!Queue!First(i + 1, Graph)
      BY <2>1, <2>5 DEF Graph
    <3>2. Ring!Scan[<<At(i), 0, 0>>] =
            IF i = Occupied THEN Unfinished ELSE Ring!Scan[<<At(i + 1), 0, 0>>]
      BY <1>1, <2>2, <2>5, TurnIs
    <3>3. CASE i = Occupied
      <4>1. start = Occupied + 1 /\ Occupied + 1 > Occupied
        BY <1>1, <3>1, <3>3, FirstSteps
      <4> QED
        BY <3>2, <3>3, <4>1 DEF Before
    <3>4. CASE i # Occupied
      <4>1. Before(i) = Before(i + 1)
        BY <3>1 DEF Before
      <4> QED
        BY <1>2, <3>2, <3>4, <4>1
    <3> QED
      BY <3>3, <3>4
  <2> QED
    BY <2>2, <2>3, <2>4, <2>5 DEF Ring!Symbol
<1>3. 1..Occupied \subseteq T
  <2>1. \A i \in 1..Occupied : (i = Occupied \/ i + 1 \in T) => i \in T
    BY <1>1, <1>2
  <2> HIDE DEF T
  <2> QED
    BY <1>1, <2>1, FromTheEnd
<1> QED
  BY <1>3

(* CO_fifo_readToken takes the token that Token says, or leaves it.        *)
LEMMA TokenTakes ==
  ASSUME RingInv, Ring!CO_fifo_readToken
  PROVE  RingInv' /\ Ring!ReadAhead = Ring!Queue!NoAlt /\ Ring!Queue!Token
<1> USE DEF Ring!CO_fifo_readToken
<1> DEFINE n == Occupied
           start == Ring!Queue!First(1, Graph)
           stop == IF start <= n /\ Ring!Contents[start] = "c" THEN Ring!Queue!First(start, Ends) ELSE start
           next == IF stop > n THEN stop ELSE Ring!Queue!First(stop, Graph)
           comment == next <= n /\ Ring!Contents[next] = "#"
           line == next <= n /\ (Ring!Contents[next] = "n" \/ (comment /\ Ring!Queue!HasLine(next)))
           k == IF stop > n THEN 0 ELSE IF next > n THEN n
                ELSE IF comment THEN Ring!Queue!EndOfLine(next) ELSE IF line THEN next ELSE next - 1
           size == IF stop > n THEN 0 ELSE Capped(stop - start)
           t == IF readPtr = writePtr THEN Ring!EndOfData(readPtr, 0, 0) ELSE Ring!Scan[<<readPtr, 0, 0>>]
<1>1. /\ n \in Nat /\ Len(Ring!Contents) = n /\ At(1) = readPtr /\ At(n + 1) = writePtr
      /\ \A j \in 1..n : At(j) # writePtr /\ Ring!Contents[j] \in Ring!Symbol
  BY QueueIs, Places DEF RingInv, Ring!FifoTypeOK
<1>2. start \in 1..(n + 1) /\ (start <= n => Ring!Contents[start] \in Graph)
  BY <1>1, FirstExists
<1>3. stop \in start..(n + 1) /\ (stop <= n => Ring!Contents[stop] \in Ends)
  <2> HIDE DEF start
  <2>1. CASE start <= n /\ Ring!Contents[start] = "c"
    <3>1. start \in 1..(n + 1) /\ stop = Ring!Queue!First(start, Ends)
      BY <1>2, <2>1
    <3> QED
      BY <3>1, FirstExists
  <2>2. CASE ~(start <= n /\ Ring!Contents[start] = "c")
    <3>1. stop = start
      BY <2>2
    <3>2. start \in start..(n + 1)
      BY <1>1, <1>2
    <3> HIDE DEF stop
    <3> QED
      BY <1>2, <2>2, <3>1, <3>2 DEF Graph, Ends
  <2> QED
    BY <2>1, <2>2
<1>4. next \in stop..(n + 1) /\ (stop <= n /\ next <= n => Ring!Contents[next] \in Graph)
  <2> HIDE DEF start, stop
  <2>1. CASE stop > n
    BY <1>1, <1>2, <1>3, <2>1
  <2>2. CASE ~(stop > n)
    <3>1. stop \in 1..(n + 1) /\ next = Ring!Queue!First(stop, Graph)
      BY <1>1, <1>2, <1>3, <2>2
    <3> QED
      BY <3>1, FirstExists
  <2> QED
    BY <2>1, <2>2
<1>5. t = IF stop > n THEN Unfinished ELSE Behind(next, size)
  <2>1. CASE n = 0
    <3>1. start = 1 /\ stop > n
      BY <1>1, <1>2, <1>3, <2>1
    <3>2. readPtr = writePtr
      BY <2>1, FifoAssumption DEF RingInv, Ring!FifoTypeOK, Ring!Place, Occupied, Ring!CO_fifo_getOccupied
    <3> HIDE DEF start, stop
    <3> QED
      BY <3>1, <3>2 DEF Ring!EndOfData, Unfinished
  <2>2. CASE n # 0
    <3>1. 1 \in 1..n /\ readPtr # writePtr
      BY <1>1, <2>2
    <3>2. t = Before(1)
      BY <1>1, <3>1, ScansBefore
    <3>3. Before(1) = IF start > n THEN Unfinished
                      ELSE IF Ring!Contents[start] = "c" THEN Within(start, 0) ELSE Behind(start, 0)
      BY DEF Before
    <3> HIDE DEF t
    <3>4. CASE start > n
      <4>1. stop > n
        <5> HIDE DEF start
        <5> QED
          BY <1>1, <1>2, <3>4
      <4> HIDE DEF start, stop
      <4> QED
        BY <3>2, <3>3, <3>4, <4>1
    <3>5. CASE ~(start > n) /\ Ring!Contents[start] = "c"
      <4>1. start <= n
        <5> HIDE DEF start
        <5> QED
          BY <1>1, <1>2, <3>5
      <4>2. stop = Ring!Queue!First(start, Ends)
        BY <3>5, <4>1
      <4>3. Within(start, 0) = IF stop > n THEN Unfinished
                               ELSE Behind(Ring!Queue!First(stop, Graph), Capped(0 + (stop - start)))
        BY <4>2 DEF Within
      <4>4. 0 + (stop - start) = stop - start
        <5> HIDE DEF start, stop
        <5> QED
          BY <1>1, <1>2, <1>3
      <4> HIDE DEF start, stop
      <4> QED
        BY <3>2, <3>3, <3>5, <4>3, <4>4
    <3>6. CASE ~(start > n) /\ Ring!Contents[start] # "c"
      <4>1. stop = start /\ ~(stop > n)
        BY <3>6
      <4>2. Ring!Contents[start] \in Graph /\ start \in 1..n
        <5> HIDE DEF start
        <5> QED
          BY <1>1, <1>2, <3>6
      <4>3. next = start
        <5>1. next = Ring!Queue!First(start, Graph)
          BY <4>1
        <5> HIDE DEF start, next
        <5> QED
          BY <4>2, <5>1, FirstSteps
      <4>4. Capped(stop - start) = 0
        <5> HIDE DEF start, stop
        <5> QED
          BY <4>1, <4>2, FifoAssumption DEF Capped
      <4> HIDE DEF start, stop, next
      <4> QED
        BY <3>2, <3>3, <3>6, <4>1, <4>3, <4>4
    <3> QED
      BY <3>4, <3>5, <3>6
  <2> QED
    BY <2>1, <2>2
<1>6. size \in 0..FifoTokenSize
  <2> HIDE DEF start, stop
  <2> QED
    BY <1>1, <1>2, <1>3, FifoAssumption DEF Capped
<1>7. ASSUME stop <= n
      PROVE  k \in 0..n /\ Behind(next, size) = [ptr |-> At(k + 1), line |-> line, size |-> size]
  <2>1. next \in stop..(n + 1) /\ stop \in 1..(n + 1) /\ ~(stop > n)
    <3> HIDE DEF start, stop, next
    <3> QED
      BY <1>1, <1>2, <1>3, <1>4, <1>7
  <2> HIDE DEF start, stop, next, size
  <2>2. CASE next > n
    <3>1. next \in Int /\ ~(next <= n)
      BY <1>1, <2>1, <2>2
    <3> HIDE DEF Behind
    <3>2. k = n /\ line = FALSE
      BY <1>1, <2>1, <2>2, <3>1
    <3>3. Behind(next, size) = [ptr |-> writePtr, line |-> FALSE, size |-> size]
      BY <2>2 DEF Behind
    <3>4. k \in 0..n
      <4> HIDE DEF k
      <4> QED
        BY <1>1, <3>2
    <3> HIDE DEF k, line
    <3> QED
      BY <1>1, <3>2, <3>3, <3>4
  <2>3. CASE next <= n
    <3>1. next \in 1..n /\ ~(next > n) /\ Ring!Contents[next] \in Graph /\ next - 1 + 1 = next
      BY <1>1, <1>4, <1>7, <2>1, <2>3
    <3>2. CASE Ring!Contents[next] = "#"
      <4>1. /\ Ring!NewCommand(At(next)) <=> Ring!Queue!HasLine(next)
            /\ Ring!Queue!EndOfLine(next) \in next..n
            /\ Ring!ClearedTo(At(next)) = At(Ring!Queue!EndOfLine(next) + 1)
        BY <3>1, SearchFinds
      <4>2. Ring!NewCommand(At(next)) = Ring!Queue!HasLine(next)
        BY <4>1 DEF Ring!NewCommand, Ring!Queue!HasLine
      <4>3. comment /\ (line = Ring!Queue!HasLine(next)) /\ k = Ring!Queue!EndOfLine(next)
        <5>1. comment /\ k = Ring!Queue!EndOfLine(next)
          BY <2>1, <2>3, <3>1, <3>2
        <5>2. line = Ring!Queue!HasLine(next)
          BY <2>3, <3>2 DEF Ring!Queue!HasLine
        <5> QED
          BY <5>1, <5>2
      <4>4. Behind(next, size) = [ptr |-> Ring!ClearedTo(At(next)), line |-> Ring!NewCommand(At(next)), size |-> size]
        BY <3>1, <3>2 DEF Behind
      <4>5. k \in 0..n
        BY <1>1, <3>1, <4>1, <4>3
      <4> HIDE DEF k, line, comment
      <4> QED
        BY <4>1, <4>2, <4>3, <4>4, <4>5
    <3>3. CASE Ring!Contents[next] = "n"
      <4>1. k = next /\ line = TRUE
        BY <2>1, <2>3, <3>1, <3>3
      <4>2. Behind(next, size) = [ptr |-> At(next + 1), line |-> TRUE, size |-> size]
        BY <3>1, <3>3 DEF Behind
      <4> HIDE DEF k, line
      <4> QED
        BY <1>1, <3>1, <4>1, <4>2
    <3>4. CASE Ring!Contents[next] = "c"
      <4>1. ~comment /\ line = FALSE
        BY <3>4
      <4>2. k = next - 1
        BY <2>1, <3>1, <4>1
      <4>3. Behind(next, size) = [ptr |-> At(next), line |-> FALSE, size |-> size]
        BY <3>1, <3>4 DEF Behind
      <4>4. k \in 0..n /\ k + 1 = next
        <5> HIDE DEF k
        <5> QED
          BY <1>1, <3>1, <4>2
      <4> HIDE DEF k, line
      <4> QED
        BY <4>1, <4>3, <4>4
    <3> QED
      BY <3>1, <3>2, <3>3, <3>4 DEF Graph
  <2> QED
    BY <1>1, <2>1, <2>2, <2>3
<1>8. ASSUME stop > n
      PROVE  k \in 0..n /\ t = [ptr |-> At(k + 1), line |-> line, size |-> size]
  <2>1. /\ next > n /\ ~(next <= n) /\ size = 0 /\ k = 0
    <3> HIDE DEF start
    <3> QED
      BY <1>1, <1>2, <1>3, <1>8
  <2>2. line = FALSE
    BY <2>1
  <2>3. t = [ptr |-> At(k + 1), line |-> line, size |-> size]
    <3> HIDE DEF t, line, k, size, start, stop, next, n
    <3>1. k + 1 = 1
      BY <2>1
    <3>2. t = [ptr |-> readPtr, line |-> FALSE, size |-> 0]
      BY <1>5, <1>8 DEF Unfinished
    <3> QED
      BY <1>1, <2>1, <2>2, <3>1, <3>2
  <2> HIDE DEF t, line, k, size, start, stop
  <2> QED
    BY <1>1, <2>1, <2>3
<1>9. k \in 0..n /\ t = [ptr |-> At(k + 1), line |-> line, size |-> size]
  <2> HIDE DEF t, line, k, size, next, start
  <2>1. CASE stop > n
    BY <1>8, <2>1
  <2>2. CASE ~(stop > n)
    <3>1. stop <= n
      <4> HIDE DEF stop
      <4> QED
        BY <1>1, <1>2, <1>3, <2>2
    <3> HIDE DEF stop
    <3> QED
      BY <1>5, <1>7, <2>2, <3>1
  <2> QED
    BY <2>1, <2>2
<1>10. /\ readPtr' = At(k + 1)
       /\ returned' = [found |-> line, size |-> IF size = FifoTokenSize THEN 0 ELSE size]
       /\ altReadPtr = Ring!NotAhead /\ UNCHANGED <<buf, writePtr, altReadPtr, storing>>
  <2>1. /\ readPtr' = t.ptr
        /\ returned' = [found |-> t.line, size |-> IF t.size = FifoTokenSize THEN 0 ELSE t.size]
    OBVIOUS
  <2> HIDE DEF t, line, k, size, next, start, stop
  <2> QED
    BY <1>9, <2>1
<1>11. (IF size = FifoTokenSize THEN 0 ELSE size)
         = (IF stop > n \/ stop - start >= FifoTokenSize THEN 0 ELSE stop - start)
  <2> HIDE DEF start, stop
  <2> QED
    BY <1>1, <1>2, <1>3, FifoAssumption DEF Capped
<1>12. /\ RingInv' /\ Ring!Contents' = Ring!Queue!Drop(k)
       /\ Ring!ReadAhead = Ring!Queue!NoAlt /\ UNCHANGED Ring!ReadAhead
  <2> HIDE DEF t, line, k, size, next, start, stop
  <2>1. returned'.size \in 0..(FifoTokenSize - 1)
    BY <1>6, <1>10, FifoAssumption
  <2> QED
    BY <1>9, <1>10, <2>1, ReaderTakes
<1>13. Ring!Contents' = IF stop > n THEN Ring!Contents
                        ELSE IF next > n THEN <<>>
                        ELSE IF comment THEN Ring!Queue!Drop(Ring!Queue!EndOfLine(next))
                        ELSE Ring!Queue!Drop(IF line THEN next ELSE next - 1)
  <2>1. Ring!Queue!Drop(n) = <<>> /\ Ring!Queue!Drop(0) = Ring!Contents
    <3>1. Ring!Queue!Drop(n) = <<>>
      BY <1>1, QueueIs, SubSeqEmpty DEF Ring!Queue!Drop
    <3> QED
      BY <3>1, DropNone
  <2> HIDE DEF line, size, next, start, stop, comment
  <2> QED
    BY <1>12, <2>1
<1> QED
  <2>1. Ring!Queue!Token <=>
          /\ Ring!Contents' = IF stop > n THEN Ring!Contents
                              ELSE IF next > n THEN <<>>
                              ELSE IF comment THEN Ring!Queue!Drop(Ring!Queue!EndOfLine(next))
                              ELSE Ring!Queue!Drop(IF line THEN next ELSE next - 1)
          /\ returned' = [found |-> line,
                          size |-> IF stop > n \/ stop - start >= FifoTokenSize THEN 0 ELSE stop - start]
          /\ UNCHANGED Ring!ReadAhead
    BY <1>1 DEF Ring!Queue!Token, Graph, Ends
  <2> HIDE DEF line, size, next, start, stop, comment, k
  <2> QED
    BY <1>10, <1>11, <1>12, <1>13, <2>1

(* The ring starts empty.                                                  *)
LEMMA RingInit == Init => RingInv /\ Ring!Queue!QueueInit
<1> SUFFICES ASSUME Ring!FifoInit
             PROVE  RingInv /\ Ring!Queue!QueueInit
  BY DEF Init
<1>1. Ring!Queue!QueueInit
  BY FifoAssumption
     DEF Ring!FifoInit, Ring!Queue!QueueInit, Ring!Contents, Ring!CO_fifo_getOccupied,
         Ring!ReadAhead, Ring!Queue!NoAlt, Ring!NotAhead, Ring!Queue!Nothing
<1>2. Ring!FifoTypeOK
  <2>1. 0 \in Ring!Place /\ 0 \in 0..(FifoTokenSize - 1)
    BY FifoAssumption DEF Ring!Place
  <2>2. [p \in Ring!Place |-> "c"] \in [Ring!Place -> Ring!Symbol]
    BY DEF Ring!Symbol
  <2> QED
    BY <2>1, <2>2 DEF Ring!FifoInit, Ring!FifoTypeOK
<1> QED
  BY <1>1, <1>2 DEF RingInv, Ring!FifoInit

(* Every step of the ring is a step of the queue or none.                  *)
LEMMA RingSteps ==
  RingInv /\ [Next]_vars => RingInv' /\ [Ring!Queue!QueueNext]_(Ring!Queue!queueVars)
<1> SUFFICES ASSUME RingInv, [Next]_vars
             PROVE  RingInv' /\ (Ring!Queue!QueueNext \/ UNCHANGED Ring!Queue!queueVars)
  OBVIOUS
<1>1. CASE UNCHANGED fifoVars
  <2>1. UNCHANGED <<Ring!Contents, Ring!ReadAhead, returned>>
    BY <1>1 DEF fifoVars, Ring!Contents, Ring!ReadAhead, Ring!CO_fifo_getOccupied
  <2>2. RingInv'
    BY <1>1 DEF fifoVars, RingInv, Ring!FifoTypeOK, Ring!NoRoom, Occupied,
                Ring!CO_fifo_getOccupied, At
  <2> QED
    BY <2>1, <2>2 DEF Ring!Queue!queueVars
<1>2. CASE Ring!FifoNext
  <2>1. ASSUME NEW c \in Ring!Symbol, Ring!Store(c)
        PROVE  RingInv' /\ UNCHANGED Ring!Queue!queueVars
    BY <2>1, StoreStutters
  <2>2. ASSUME NEW c \in Ring!Symbol, Ring!CO_fifo_putc_ov(c)
        PROVE  RingInv' /\ Ring!Queue!QueueNext
    <3>1. c \in Ring!Queue!Char
      BY DEF Ring!Symbol, Ring!Queue!Char
    <3> QED
      BY <2>2, <3>1, PutOverPutsOver DEF Ring!Queue!QueueNext
  <2>3. ASSUME Ring!Step PROVE RingInv' /\ Ring!Queue!QueueNext
    BY <2>3, StepPuts DEF Ring!Queue!QueueNext
  <2>4. ASSUME Ring!CO_fifo_getc \/ Ring!CO_fifo_purge \/ Ring!CO_fifo_readToken
        PROVE  RingInv' /\ Ring!Queue!QueueNext
    BY <2>4, GetGets, PurgePurges, TokenTakes DEF Ring!Queue!QueueNext, Ring!Queue!Consume
  <2>5. ASSUME NEW b \in BOOLEAN, Ring!CO_fifo_CommSearch(b) \/ Ring!CO_fifo_trimSpaces(b)
        PROVE  RingInv' /\ Ring!Queue!QueueNext
    BY <2>5, SearchSearches, TrimTrims DEF Ring!Queue!QueueNext, Ring!Queue!Consume
  <2>6. ASSUME NEW k \in 0..(BufSize - 1), Ring!CO_fifo_altBegin(k)
        PROVE  RingInv' /\ Ring!Queue!QueueNext
    BY <2>6, AltBeginBegins DEF Ring!Queue!QueueNext
  <2>7. ASSUME Ring!CO_fifo_altRead \/ Ring!CO_fifo_altFinish
        PROVE  RingInv' /\ Ring!Queue!QueueNext
    BY <2>7, AltReadReads, AltFinishFinishes DEF Ring!Queue!QueueNext
  <2> QED
    BY <1>2, <2>1, <2>2, <2>3, <2>4, <2>5, <2>6, <2>7 DEF Ring!FifoNext
<1> QED
  BY <1>1, <1>2 DEF Next, vars

(* The ring is the bounded queue: however the reader and the writer are    *)
(* interleaved no character is lost, doubled or moved, and lines, comments *)
(* and tokens are found across the end of the ring as in one piece.        *)
THEOREM ImplementsQueueAlways == Spec => ImplementsQueue
<1> QED
  BY RingInit, RingSteps, PTL DEF Spec, ImplementsQueue, Ring!ImplementsQueue, Ring!Queue!QueueSpec
-----------------------------------------------------------------------------
(* SYNC, RPDOs and TPDOs.                                                  *)

(* The variables of SYNC and of the synchronous RPDO.  rpdoTimer is 0 or   *)
(* odd, so that it never stands at the time itself, where it would neither *)
(* run on nor be overdue.                                                  *)
SyncTypes ==
  /\ syncTimer \in 0..TimerStop /\ timeoutError \in 0..2 /\ period \in {0, Period}
  /\ isProducer \in BOOLEAN /\ syncNew \in BOOLEAN /\ CANrxToggle \in BOOLEAN
  /\ synchronous \in BOOLEAN /\ received \in BOOLEAN /\ crossed \in BOOLEAN /\ unlinked \in BOOLEAN
  /\ nmt \in {"stopped", "preoperational", "operational"}
  /\ step \in {"idle", "choose", "skip", "read", "copy", "time"}
  /\ bufNo \in {0, 1} /\ buffer \in [{0, 1} -> {Sync!NoFrame, 0, 1, 2}]
  /\ rxNew \subseteq {0, 1} /\ syncErrors \subseteq {"SYNC_TIME_OUT", "RPDO_TIME_OUT"}
  /\ rpdoTimer \in 0..(RpdoTime + 1) /\ (rpdoTimer = 0 \/ rpdoTimer % 2 = 1)
  /\ rpdoValid \in BOOLEAN /\ timeoutTime \in {0, RpdoTime} /\ (timeoutTime = 0 => rpdoTimer = 0)

(* The reports stand for the states of the two supervisions.               *)
ReportsInv ==
  /\ timeoutError = 2 <=> "SYNC_TIME_OUT" \in syncErrors
  /\ timeoutTime > 0 /\ rpdoTimer >= timeoutTime <=> "RPDO_TIME_OUT" \in syncErrors /\ ~unlinked

(* The buffer frames are received into, and the other one.                 *)
Filling == IF CANrxToggle THEN 1 ELSE 0
Other == IF CANrxToggle THEN 0 ELSE 1

(* While nothing crossed, the frames of this cycle are in the one buffer   *)
(* and those of the last one in the other, until the pass after the SYNC   *)
(* has taken them.                                                         *)
CycleInv ==
  synchronous /\ ~crossed =>
    /\ syncNew => step = "idle"
    /\ Filling \in rxNew => buffer[Filling] = 0
    /\ Other \in rxNew => buffer[Other] = 1 /\ (syncNew \/ step \in {"choose", "read", "copy"})
    /\ step \in {"read", "copy", "time"} => bufNo = Other
    /\ step = "copy" => buffer[bufNo] = 1

SyncInv == SyncTypes /\ ReportsInv /\ CycleInv

(* It holds when the program starts.                                       *)
LEMMA SyncInvInit == Init => SyncInv
<1> SUFFICES ASSUME Sync!SpInit PROVE SyncInv
  BY DEF Init
<1> USE DEF Sync!SpInit
<1>1. SyncTypes
  <2>1. buffer \in [{0, 1} -> {Sync!NoFrame, 0, 1, 2}]
    OBVIOUS
  <2>2. /\ syncTimer \in 0..TimerStop /\ timeoutError \in 0..2 /\ period \in {0, Period}
        /\ rpdoTimer \in 0..(RpdoTime + 1) /\ rpdoTimer = 0
        /\ rpdoValid \in BOOLEAN /\ timeoutTime \in {0, RpdoTime}
    BY SyncAssumption
  <2>3. nmt \in {"stopped", "preoperational", "operational"} /\ step \in {"idle", "choose", "skip", "read", "copy", "time"}
    OBVIOUS
  <2>4. rxNew \subseteq {0, 1} /\ syncErrors \subseteq {"SYNC_TIME_OUT", "RPDO_TIME_OUT"} /\ bufNo \in {0, 1}
    OBVIOUS
  <2> QED
    BY <2>1, <2>2, <2>3, <2>4 DEF SyncTypes
<1>2. ReportsInv
  <2>1. ~(0 >= RpdoTime)
    BY SyncAssumption
  <2> QED
    BY <2>1 DEF ReportsInv
<1>3. CycleInv
  BY DEF CycleInv, Filling, Other
<1> QED
  BY <1>1, <1>2, <1>3 DEF SyncInv

(* It is enough for what SYNC and the RPDO promise.                        *)
LEMMA SyncInvSuffices ==
  SyncInv => /\ Sync!SyncTimeoutIsReported /\ Sync!OverdueIsReported /\ Sync!ActsOnLastCycle
             /\ Sync!SpTypeOK
<1> SUFFICES ASSUME SyncInv
             PROVE  /\ Sync!SyncTimeoutIsReported /\ Sync!OverdueIsReported /\ Sync!ActsOnLastCycle
                    /\ Sync!SpTypeOK
  OBVIOUS
<1>1. (timeoutError = 2) = ("SYNC_TIME_OUT" \in syncErrors)
  BY DEF SyncInv, ReportsInv
<1>2. (timeoutTime > 0 /\ rpdoTimer >= timeoutTime) = ("RPDO_TIME_OUT" \in syncErrors /\ ~unlinked)
  BY DEF SyncInv, ReportsInv
<1>3. Sync!ActsOnLastCycle
  BY DEF SyncInv, CycleInv, Sync!ActsOnLastCycle
<1>4. Sync!SpTypeOK
  BY SyncAssumption DEF SyncInv, SyncTypes, Sync!SpTypeOK, Sync!Diff
<1> QED
  BY <1>1, <1>2, <1>3, <1>4 DEF Sync!SyncTimeoutIsReported, Sync!OverdueIsReported

(* A SYNC makes frames older.                                              *)
LEMMA AgedIs ==
  ASSUME SyncTypes
  PROVE  /\ Sync!Aged \in [{0, 1} -> {Sync!NoFrame, 0, 1, 2}]
         /\ \A b \in {0, 1} : buffer[b] = 0 => Sync!Aged[b] = 1
<1>1. ASSUME NEW b \in {0, 1}
      PROVE  /\ Sync!Aged[b] \in {Sync!NoFrame, 0, 1, 2}
             /\ buffer[b] = 0 => Sync!Aged[b] = 1
  <2>1. buffer[b] \in {Sync!NoFrame, 0, 1, 2}
    BY DEF SyncTypes
  <2>2. Sync!Aged[b] = IF buffer[b] = Sync!NoFrame THEN Sync!NoFrame ELSE Sync!Sooner(buffer[b] + 1, 2)
    BY DEF Sync!Aged, Sync!Oldest
  <2> QED
    BY <2>1, <2>2 DEF Sync!Sooner, Sync!NoFrame
<1> QED
  BY <1>1 DEF Sync!Aged

(* A SYNC is received.                                                     *)
LEMMA SyncReceiveKeepsSyncInv == SyncInv /\ Sync!CO_SYNC_receive => SyncInv'
<1> SUFFICES ASSUME SyncInv, Sync!CO_SYNC_receive PROVE SyncInv'
  OBVIOUS
<1> USE DEF Sync!CO_SYNC_receive, Sync!rpdoVars, Sync!paramVars
<1>1. SyncTypes'
  BY AgedIs DEF SyncInv, SyncTypes, Sync!NoFrame
<1>2. ReportsInv'
  BY DEF SyncInv, ReportsInv
<1>3. CycleInv'
  <2> SUFFICES ASSUME synchronous', ~crossed' PROVE CycleInv'
    BY DEF CycleInv
  <2>1. step = "idle" /\ ~syncNew /\ synchronous /\ ~crossed
    BY DEF SyncInv, SyncTypes
  <2>2. Filling' = Other /\ Other' = Filling /\ Filling \in {0, 1}
    BY DEF SyncInv, SyncTypes, Filling, Other
  <2>3. Other \notin rxNew /\ (Filling \in rxNew => buffer'[Filling] = 1)
    BY <2>1, <2>2, AgedIs DEF SyncInv, CycleInv
  <2> QED
    BY <2>1, <2>2, <2>3 DEF CycleInv
<1> QED
  BY <1>1, <1>2, <1>3 DEF SyncInv

(* A frame is received.                                                    *)
LEMMA PdoReceiveKeepsSyncInv == SyncInv /\ Sync!CO_PDO_receive => SyncInv'
<1> SUFFICES ASSUME SyncInv, Sync!CO_PDO_receive PROVE SyncInv'
  OBVIOUS
<1> USE DEF Sync!CO_PDO_receive, Sync!syncVars, Sync!paramVars
<1>1. SyncTypes'
  BY DEF SyncInv, SyncTypes, Sync!RxBuffer
<1>2. ReportsInv'
  BY DEF SyncInv, ReportsInv
<1>3. CycleInv'
  BY DEF SyncInv, SyncTypes, CycleInv, Filling, Other, Sync!RxBuffer
<1> QED
  BY <1>1, <1>2, <1>3 DEF SyncInv

(* CO_SYNC_process.                                                        *)
LEMMA ProcessKeepsSyncInv == SyncInv /\ Sync!CO_process_SYNC => SyncInv'
<1> SUFFICES ASSUME SyncInv, Sync!CO_process_SYNC PROVE SyncInv'
  OBVIOUS
<1> USE DEF Sync!CO_process_SYNC, Sync!rpdoVars, Sync!paramVars
<1>1. CASE Sync!On
  <2> DEFINE sends == CANrxToggle' # CANrxToggle
  <2>1. /\ buffer' = (IF sends THEN Sync!Aged ELSE buffer)
        /\ rxNew # {} /\ ~crossed' => ~crossed /\ ~(sends /\ syncNew)
        /\ step' = IF syncNew \/ sends \/ ~synchronous THEN "choose" ELSE "skip"
        /\ CANrxToggle' \in BOOLEAN
    <3> DEFINE timer == IF syncNew THEN 0 ELSE Sync!Sooner(syncTimer + Sync!Diff, TimerStop)
               go == isProducer /\ period > 0 /\ timer >= period
    <3> HIDE DEF timer
    <3>1. /\ CANrxToggle' = (IF go THEN ~CANrxToggle ELSE CANrxToggle)
          /\ buffer' = (IF go THEN Sync!Aged ELSE buffer)
          /\ crossed' = (IF rxNew = {} THEN FALSE ELSE crossed \/ (go /\ syncNew))
          /\ step' = (IF (syncNew \/ go) \/ ~synchronous THEN "choose" ELSE "skip")
      BY <1>1, Zenon DEF Sync!SyncOn, timer
    <3> HIDE DEF go
    <3>2. CANrxToggle \in BOOLEAN
      BY DEF SyncInv, SyncTypes
    <3>3. sends <=> go
      BY <3>1, <3>2
    <3> HIDE DEF sends
    <3> QED
      BY <3>1, <3>2, <3>3
  <2>2. SyncTypes'
    <3>1. syncTimer' \in 0..TimerStop
      BY <1>1, SyncAssumption DEF SyncInv, SyncTypes, Sync!SyncOn, Sync!Sooner, Sync!Diff
    <3>2. timeoutError' \in 0..2
      BY <1>1 DEF SyncInv, SyncTypes, Sync!SyncOn
    <3>5. syncErrors' \subseteq {"SYNC_TIME_OUT", "RPDO_TIME_OUT"}
      BY <1>1 DEF SyncInv, SyncTypes, Sync!SyncOn, Sync!SyncErrors
    <3>3. crossed' \in BOOLEAN
      BY <1>1 DEF SyncInv, SyncTypes, Sync!SyncOn
    <3>4. buffer' \in [{0, 1} -> {Sync!NoFrame, 0, 1, 2}]
      BY <2>1, AgedIs DEF SyncInv, SyncTypes
    <3> QED
      BY <2>1, <3>1, <3>2, <3>3, <3>4, <3>5 DEF SyncInv, SyncTypes, Sync!NoFrame
  <2>3. ReportsInv'
    BY <1>1, SyncAssumption DEF SyncInv, SyncTypes, ReportsInv, Sync!SyncOn, Sync!SyncErrors
  <2>4. CycleInv'
    <3> SUFFICES ASSUME synchronous', ~crossed' PROVE CycleInv'
      BY DEF CycleInv
    <3>1. synchronous /\ ~syncNew' /\ step' \in {"choose", "skip"} /\ rxNew' = rxNew
      BY <2>1
    <3>2. CASE rxNew = {}
      BY <3>1, <3>2 DEF CycleInv
    <3>3. CASE rxNew # {}
      <4>1. ~crossed /\ step = "idle"
        BY <2>1, <3>3
      <4>2. CASE sends
        <5>1. Filling' = Other /\ Other' = Filling /\ Filling \in {0, 1}
          BY <2>1, <4>2 DEF SyncInv, SyncTypes, Filling, Other
        <5>2. Other \notin rxNew /\ (Filling \in rxNew => buffer'[Filling] = 1)
          BY <2>1, <3>1, <4>1, <4>2, <5>1, AgedIs DEF SyncInv, CycleInv
        <5> QED
          BY <2>1, <3>1, <4>2, <5>1, <5>2 DEF CycleInv
      <4>3. CASE ~sends
        <5>1. Filling' = Filling /\ Other' = Other /\ buffer' = buffer
          BY <2>1, <4>3 DEF Filling, Other
        <5>2. step' = IF syncNew THEN "choose" ELSE "skip"
          BY <2>1, <3>1, <4>3
        <5> HIDE DEF sends
        <5> QED
          BY <3>1, <4>1, <5>1, <5>2 DEF SyncInv, CycleInv
      <4> QED
        BY <4>2, <4>3
    <3> QED
      BY <3>2, <3>3
  <2> QED
    BY <2>2, <2>3, <2>4 DEF SyncInv
<1>2. CASE ~Sync!On
  <2> USE DEF Sync!SyncOff
  <2>1. SyncTypes'
    <3>1. crossed' \in BOOLEAN /\ 0 \in 0..TimerStop
      BY <1>2, SyncAssumption DEF SyncInv, SyncTypes
    <3> QED
      BY <1>2, <3>1 DEF SyncInv, SyncTypes, Sync!NoFrame
  <2>2. ReportsInv'
    BY <1>2 DEF SyncInv, ReportsInv
  <2>3. CycleInv'
    <3> SUFFICES ASSUME synchronous', ~crossed' PROVE CycleInv'
      BY DEF CycleInv
    <3>1. synchronous /\ ~crossed /\ ~syncNew /\ step = "idle" /\ step' = "skip"
      BY <1>2 DEF SyncInv, SyncTypes
    <3> QED
      BY <1>2, <3>1 DEF SyncInv, CycleInv, Filling, Other
  <2> QED
    BY <2>1, <2>2, <2>3 DEF SyncInv
<1> QED
  BY <1>1, <1>2

(* A pass of CO_RPDO_process.                                              *)
LEMMA RpdoKeepsSyncInv ==
  SyncInv /\ (Sync!Choose \/ Sync!Skip \/ Sync!ForgetRpdo \/ Sync!Read \/ Sync!Copy) => SyncInv'
<1> USE DEF Sync!rpdoRest, Sync!syncVars, Sync!paramVars
<1> SUFFICES ASSUME SyncInv PROVE Sync!Choose \/ Sync!Skip \/ Sync!ForgetRpdo \/ Sync!Read \/ Sync!Copy => SyncInv'
  OBVIOUS
<1>1. ASSUME Sync!Choose PROVE SyncInv'
  BY <1>1 DEF SyncInv, SyncTypes, ReportsInv, CycleInv, Filling, Other, Sync!Choose
<1>2. ASSUME Sync!Skip PROVE SyncInv'
  BY <1>2 DEF SyncInv, SyncTypes, ReportsInv, CycleInv, Filling, Other, Sync!Skip
<1>3. ASSUME Sync!ForgetRpdo PROVE SyncInv'
  <2>1. SyncTypes'
    <3>1. /\ unlinked' \in BOOLEAN /\ 0 \in 0..(RpdoTime + 1)
          /\ buffer' \in [{0, 1} -> {Sync!NoFrame, 0, 1, 2}]
      BY <1>3, SyncAssumption DEF Sync!ForgetRpdo
    <3> QED
      BY <1>3, <3>1 DEF SyncInv, SyncTypes, Sync!NoFrame, Sync!ForgetRpdo
  <2>2. ReportsInv'
    <3>1. ~(timeoutTime > 0 /\ 0 >= timeoutTime)
      BY SyncAssumption DEF SyncInv, SyncTypes
    <3> QED
      BY <1>3, <3>1 DEF SyncInv, ReportsInv, Sync!ForgetRpdo
  <2>3. CycleInv'
    BY <1>3 DEF CycleInv, Sync!ForgetRpdo
  <2> QED
    BY <2>1, <2>2, <2>3 DEF SyncInv
<1>4. ASSUME Sync!Read PROVE SyncInv'
  <2>1. SyncTypes'
    <3>1. rxNew' \subseteq {0, 1} /\ received' \in BOOLEAN /\ step' \in {"copy", "time"}
      BY <1>4 DEF SyncInv, SyncTypes, Sync!Read
    <3> QED
      BY <1>4, <3>1 DEF SyncInv, SyncTypes, Sync!NoFrame, Sync!Read
  <2>2. ReportsInv'
    BY <1>4 DEF SyncInv, ReportsInv, Sync!Read
  <2>3. CycleInv'
    BY <1>4 DEF SyncInv, CycleInv, Filling, Other, Sync!Read
  <2> QED
    BY <2>1, <2>2, <2>3 DEF SyncInv
<1>5. ASSUME Sync!Copy PROVE SyncInv'
  <2>1. SyncTypes'
    BY <1>5 DEF SyncInv, SyncTypes, Sync!Copy
  <2>2. ReportsInv'
    BY <1>5 DEF SyncInv, ReportsInv, Sync!Copy
  <2>3. CycleInv'
    BY <1>5 DEF SyncInv, SyncTypes, CycleInv, Filling, Other, Sync!Copy
  <2> QED
    BY <2>1, <2>2, <2>3 DEF SyncInv
<1> QED
  BY <1>1, <1>2, <1>3, <1>4, <1>5

(* The supervision of the RPDO.                                            *)
LEMMA TimeKeepsSyncInv == SyncInv /\ Sync!Time => SyncInv'
<1> SUFFICES ASSUME SyncInv, Sync!Time PROVE SyncInv'
  OBVIOUS
<1> USE DEF Sync!Time, Sync!rpdoRest, Sync!syncVars, Sync!paramVars
<1>1. rpdoTimer # RpdoTime /\ RpdoTime >= 2 /\ RpdoTime % 2 = 0
  BY SyncAssumption DEF SyncInv, SyncTypes, Sync!Diff
<1>2. /\ Sync!NewTimer \in 0..(RpdoTime + 1) /\ Sync!NewTimer # RpdoTime
      /\ Sync!NewTimer = 0 \/ Sync!NewTimer % 2 = 1
      /\ timeoutTime = 0 => Sync!NewTimer = 0
  BY <1>1, SyncAssumption DEF SyncInv, SyncTypes, Sync!NewTimer, Sync!Runs, Sync!Diff
<1>3. SyncTypes'
  BY <1>2 DEF SyncInv, SyncTypes
<1>4. ReportsInv'
  BY <1>1, <1>2, SyncAssumption DEF SyncInv, SyncTypes, ReportsInv, Sync!NewTimer, Sync!Runs, Sync!Expires, Sync!Recovers, Sync!Diff
<1>5. CycleInv'
  BY DEF SyncInv, SyncTypes, CycleInv, Filling, Other
<1> QED
  BY <1>3, <1>4, <1>5 DEF SyncInv

(* What is written from the bus.                                           *)
LEMMA WritesKeepSyncInv ==
  SyncInv /\ (\/ \E b \in BOOLEAN : Sync!OD_write_1005(b) \/ Sync!WriteType(b) \/ Sync!WriteCobId(b)
              \/ \E s \in {"stopped", "preoperational", "operational"} : Sync!SetNmt(s)
              \/ \E p \in {0, Period} : Sync!Write1006(p)
              \/ \E t \in {0, RpdoTime} : Sync!WriteEventTimer(t)) => SyncInv'
<1> USE DEF Sync!syncVars, Sync!rpdoVars, Sync!paramVars
<1> SUFFICES ASSUME SyncInv
             PROVE  (\/ \E b \in BOOLEAN : Sync!OD_write_1005(b) \/ Sync!WriteType(b) \/ Sync!WriteCobId(b)
                     \/ \E s \in {"stopped", "preoperational", "operational"} : Sync!SetNmt(s)
                     \/ \E p \in {0, Period} : Sync!Write1006(p)
                     \/ \E t \in {0, RpdoTime} : Sync!WriteEventTimer(t)) => SyncInv'
  OBVIOUS
<1>1. ASSUME NEW b \in BOOLEAN, Sync!OD_write_1005(b) PROVE SyncInv'
  BY <1>1, SyncAssumption DEF SyncInv, SyncTypes, ReportsInv, CycleInv, Filling, Other, Sync!OD_write_1005
<1>2. ASSUME NEW b \in BOOLEAN, Sync!WriteType(b) PROVE SyncInv'
  <2>1. CASE b = synchronous
    BY <1>2, <2>1 DEF SyncInv, SyncTypes, ReportsInv, CycleInv, Filling, Other, Sync!WriteType
  <2>2. CASE b # synchronous
    <3>1. buffer' \in [{0, 1} -> {Sync!NoFrame, 0, 1, 2}]
      BY <1>2, <2>2 DEF SyncInv, SyncTypes, Sync!WriteType
    <3> QED
      BY <1>2, <2>2, <3>1 DEF SyncInv, SyncTypes, ReportsInv, CycleInv, Sync!WriteType
  <2> QED
    BY <2>1, <2>2
<1>3. ASSUME NEW s \in {"stopped", "preoperational", "operational"}, Sync!SetNmt(s) PROVE SyncInv'
  BY <1>3 DEF SyncInv, SyncTypes, ReportsInv, CycleInv, Filling, Other, Sync!SetNmt
<1>4. ASSUME NEW p \in {0, Period}, Sync!Write1006(p) PROVE SyncInv'
  BY <1>4 DEF SyncInv, SyncTypes, ReportsInv, CycleInv, Filling, Other, Sync!Write1006
<1>5. ASSUME NEW b \in BOOLEAN, Sync!WriteCobId(b) PROVE SyncInv'
  <2>1. buffer' \in [{0, 1} -> {Sync!NoFrame, 0, 1, 2}] /\ (buffer' = buffer \/ rxNew' = {})
    BY <1>5 DEF SyncInv, SyncTypes, Sync!WriteCobId
  <2> QED
    BY <1>5, <2>1 DEF SyncInv, SyncTypes, ReportsInv, CycleInv, Filling, Other, Sync!WriteCobId
<1>6. ASSUME NEW t \in {0, RpdoTime}, Sync!WriteEventTimer(t) PROVE SyncInv'
  <2>1. 0 \in 0..(RpdoTime + 1) /\ ~(t > 0 /\ 0 >= t) /\ unlinked' \in BOOLEAN
    BY <1>6, SyncAssumption DEF SyncInv, SyncTypes, Sync!WriteEventTimer
  <2>2. SyncTypes'
    BY <1>6, <2>1 DEF SyncInv, SyncTypes, Sync!NoFrame, Sync!WriteEventTimer
  <2>3. ReportsInv'
    BY <1>6, <2>1 DEF SyncInv, ReportsInv, Sync!WriteEventTimer
  <2>4. CycleInv'
    BY <1>6 DEF SyncInv, CycleInv, Filling, Other, Sync!WriteEventTimer
  <2> QED
    BY <2>2, <2>3, <2>4 DEF SyncInv
<1> QED
  BY <1>1, <1>2, <1>3, <1>4, <1>5, <1>6

(* A step of SYNC, and a step of another service.                          *)
LEMMA SyncInvStep == SyncInv /\ [Next]_vars => SyncInv'
<1> SUFFICES ASSUME SyncInv, [Next]_vars PROVE SyncInv'
  OBVIOUS
<1>1. CASE UNCHANGED syncVars
  BY <1>1 DEF syncVars, SyncInv, SyncTypes, ReportsInv, CycleInv, Filling, Other
<1>2. CASE Sync!SpNext
  BY <1>2, SyncReceiveKeepsSyncInv, PdoReceiveKeepsSyncInv, ProcessKeepsSyncInv, RpdoKeepsSyncInv,
     TimeKeepsSyncInv, WritesKeepSyncInv DEF Sync!SpNext
<1> QED
  BY <1>1, <1>2 DEF Next, vars

-----------------------------------------------------------------------------
(* The variables of a TPDO.                                                *)
TpTypes ==
  /\ valid \in BOOLEAN /\ operational \in BOOLEAN /\ sendRequest \in BOOLEAN /\ flag \in BOOLEAN
  /\ outside \in BOOLEAN /\ syncFlag \in BOOLEAN /\ cycling \in BOOLEAN /\ excused \in BOOLEAN
  /\ retyped \in BOOLEAN /\ pending \in {"none", "event", "sync"}
  /\ transmissionType \in Tpdo!Type /\ syncStartValue \in StartValues
  /\ eventTime \in EventTimes /\ inhibitTime \in InhibitTimes
  /\ eventTimer \in 0..Longest /\ inhibitTimer \in 0..Longest /\ elapsed \in 0..Longest
  /\ counter \in 0..Overflow /\ gap \in Nat

(* The counter of a cyclic TPDO, once it runs, and the SYNCs since the     *)
(* last frame add up to the transmission type; an event driven one has     *)
(* none.                                                                   *)
CounterInv ==
  IF Tpdo!EventDriven
  THEN ~cycling /\ syncCounter = Tpdo!NotStarted
  ELSE \/ syncCounter \in {Tpdo!NotStarted, Tpdo!AwaitsStart} /\ gap = 0 /\ ~cycling
       \/ /\ syncCounter \in 1..transmissionType
          /\ gap + syncCounter <= transmissionType
          /\ cycling => gap + syncCounter = transmissionType

(* The buffer is marked for the type the TPDO has, and so is the frame     *)
(* that waits in it unless the type was written meanwhile.                 *)
MarkInv ==
  /\ syncFlag <=> transmissionType # Tpdo!SYNC_EVENT_LO
  /\ ~retyped => (pending = "sync" => syncFlag) /\ (pending = "event" => ~syncFlag)

(* A timer that runs shows the time that is left of it: what has passed    *)
(* since the last frame and what the inhibit timer shows cover the inhibit *)
(* time, and neither timer of an event driven TPDO runs beyond its time.   *)
TimerInv ==
  /\ timing = "right"
  /\ ~excused => inhibitTimer + elapsed >= inhibitTime
  /\ transmissionType = Tpdo!SYNC_EVENT_LO =>
       /\ eventTimer = 0 \/ eventTimer + elapsed <= eventTime
       /\ inhibitTimer = 0 \/ inhibitTimer + elapsed <= inhibitTime

TpInv == TpTypes /\ CounterInv /\ MarkInv /\ TimerInv

(* The transmission types are numbers, the cyclic ones below the           *)
(* counter's marks.                                                        *)
LEMMA TypeIs ==
  /\ Tpdo!Type \subseteq 0..254 /\ Tpdo!SYNC_EVENT_LO \in Tpdo!Type
  /\ \A t \in Tpdo!Type : t \notin {Tpdo!SYNC_ACYCLIC, Tpdo!SYNC_EVENT_LO} => t \in 1..240
BY TpdoAssumption DEF Tpdo!Type, Tpdo!SYNC_ACYCLIC, Tpdo!SYNC_EVENT_LO

(* The invariant of the TPDO holds when the program starts.                *)
LEMMA TpInvInit == Init => TpInv
<1> SUFFICES ASSUME Tpdo!TpInit PROVE TpInv
  BY DEF Init
<1> USE DEF Tpdo!TpInit
<1>1. TpTypes
  <2>1. 0 \in StartValues /\ 0 \in EventTimes /\ 0 \in InhibitTimes
    BY TpdoAssumption
  <2>2. 0 \in 0..Longest /\ Longest \in 0..Longest /\ 0 \in 0..Overflow
    BY TpdoAssumption
  <2> QED
    BY <2>1, <2>2, TypeIs DEF TpTypes
<1>2. CounterInv
  BY DEF CounterInv, Tpdo!EventDriven
<1>3. MarkInv
  BY DEF MarkInv
<1>4. TimerInv
  BY TpdoAssumption DEF TimerInv
<1> QED
  BY <1>1, <1>2, <1>3, <1>4 DEF TpInv

(* It is enough for what the TPDO promises.                                *)
LEMMA TpInvSuffices == TpInv => Tpdo!TpTypeOK /\ Tpdo!EveryNthSync /\ Tpdo!TimersAreKept
<1> SUFFICES ASSUME TpInv PROVE Tpdo!TpTypeOK /\ Tpdo!EveryNthSync /\ Tpdo!TimersAreKept
  OBVIOUS
<1> USE DEF TpInv
<1>1. Tpdo!TimersAreKept
  BY DEF TimerInv, Tpdo!TimersAreKept
<1>2. Tpdo!EveryNthSync
  BY TypeIs DEF CounterInv, TpTypes, Tpdo!EveryNthSync, Tpdo!EventDriven, Tpdo!NotStarted, Tpdo!AwaitsStart
<1>3. syncCounter \in {Tpdo!NotStarted, Tpdo!AwaitsStart} \cup UNION {1..n : n \in Cyclic}
  <2>1. CASE syncCounter \in {Tpdo!NotStarted, Tpdo!AwaitsStart} \/ Tpdo!EventDriven
    BY <2>1 DEF CounterInv
  <2>2. CASE syncCounter \notin {Tpdo!NotStarted, Tpdo!AwaitsStart} /\ ~Tpdo!EventDriven
    <3>1. transmissionType \in Cyclic /\ syncCounter \in 1..transmissionType
      BY <2>2 DEF CounterInv, TpTypes, Tpdo!EventDriven, Tpdo!Type
    <3> QED
      BY <3>1
  <2> QED
    BY <2>1, <2>2
<1>4. Tpdo!TpTypeOK
  BY <1>3 DEF TpTypes, Tpdo!TpTypeOK
<1> QED
  BY <1>1, <1>2, <1>4

(* A pass of CO_TPDO_process of a running TPDO.                            *)
LEMMA RunningKeepsCounterInv ==
  ASSUME TpInv, NEW s \in BOOLEAN, NEW c \in 0..Overflow, NEW d \in Differences,
         Tpdo!Running(s, c, d), UNCHANGED Tpdo!commVars
  PROVE  CounterInv' /\ gap' \in Nat /\ cycling' \in BOOLEAN
<1> USE DEF Tpdo!Running, Tpdo!commVars
<1>1. CASE Tpdo!EventDriven
  <2>1. gap' = 0 /\ syncCounter' = syncCounter /\ cycling' = FALSE /\ transmissionType' = transmissionType
    BY <1>1
  <2> QED
    BY <1>1, <2>1 DEF TpInv, CounterInv, Tpdo!EventDriven
<1>2. CASE ~Tpdo!EventDriven
  <2>1. /\ transmissionType \in 1..240 /\ transmissionType' = transmissionType
        /\ transmissionType # Tpdo!SYNC_ACYCLIC /\ transmissionType # Tpdo!SYNC_EVENT_LO
    BY <1>2, TypeIs DEF TpInv, TpTypes, Tpdo!EventDriven
  <2>2. Tpdo!Due(s, c, d) = (s /\ Tpdo!CycleDue(c))
    BY <2>1 DEF Tpdo!Due
  <2>3. /\ syncCounter' = IF s THEN Tpdo!NextCounter(c) ELSE syncCounter
        /\ gap' = IF s /\ Tpdo!CycleDue(c) THEN 0
                  ELSE IF s /\ (cycling \/ Tpdo!Armed # Tpdo!AwaitsStart) THEN gap + 1 ELSE gap
        /\ cycling' = (cycling \/ (s /\ Tpdo!CycleDue(c)))
    BY <1>2, <2>2
  <2>4. CASE ~s
    BY <1>2, <2>1, <2>3, <2>4 DEF TpInv, TpTypes, CounterInv, Tpdo!EventDriven
  <2>5. CASE s /\ Tpdo!CycleDue(c)
    <3>1. syncCounter' = transmissionType /\ gap' = 0 /\ cycling'
      BY <2>3, <2>5 DEF Tpdo!NextCounter
    <3> QED
      BY <1>2, <2>1, <2>3, <3>1 DEF CounterInv, Tpdo!EventDriven
  <2>6. CASE s /\ ~Tpdo!CycleDue(c)
    <3>1. CASE Tpdo!Armed = Tpdo!AwaitsStart
      <4>1. ~cycling /\ gap = 0
        BY <1>2, <2>1, <3>1 DEF TpInv, CounterInv, Tpdo!Armed, Tpdo!NotStarted, Tpdo!AwaitsStart
      <4>2. syncCounter' = Tpdo!AwaitsStart /\ gap' = 0 /\ cycling' = FALSE
        BY <2>3, <2>6, <3>1, <4>1 DEF Tpdo!NextCounter
      <4> QED
        BY <1>2, <2>1, <4>2 DEF CounterInv, Tpdo!EventDriven
    <3>2. CASE Tpdo!Armed # Tpdo!AwaitsStart
      <4>1. /\ Tpdo!Armed \in 1..transmissionType /\ gap + Tpdo!Armed <= transmissionType
            /\ cycling => gap + Tpdo!Armed = transmissionType
        BY <1>2, <2>1, <3>2 DEF TpInv, CounterInv, Tpdo!Armed, Tpdo!NotStarted, Tpdo!AwaitsStart
      <4>2. Tpdo!Armed # 1
        BY <2>6, <3>2 DEF Tpdo!CycleDue
      <4>3. syncCounter' = Tpdo!Armed - 1 /\ gap' = gap + 1 /\ cycling' = cycling
        BY <2>3, <2>6, <3>2 DEF Tpdo!NextCounter, TpInv, TpTypes
      <4> QED
        BY <1>2, <2>1, <4>1, <4>2, <4>3 DEF TpInv, TpTypes, CounterInv, Tpdo!EventDriven
    <3> QED
      BY <3>1, <3>2
  <2> QED
    BY <2>4, <2>5, <2>6
<1> QED
  BY <1>1, <1>2

(* The timers and their times, as numbers.                                 *)
LEMMA TimesAreNumbers ==
  ASSUME TpTypes
  PROVE  /\ eventTime \in 0..Longest /\ inhibitTime \in 0..Longest
         /\ eventTime \in Nat /\ inhibitTime \in Nat /\ Longest \in Nat
         /\ eventTimer \in Nat /\ inhibitTimer \in Nat /\ elapsed \in Nat
BY TpdoAssumption DEF TpTypes

(* A timer that counts down stops at 0.                                    *)
LEMMA DownIs ==
  ASSUME NEW t \in Nat, NEW d \in Nat
  PROVE  /\ Tpdo!Down(t, d) \in 0..t
         /\ Tpdo!Down(t, d) = 0 => t <= d
         /\ Tpdo!Down(t, d) # 0 => Tpdo!Down(t, d) = t - d
BY DEF Tpdo!Down

(* The time left of a timer that has run for d.                            *)
LEMMA LeftIs ==
  ASSUME NEW t \in Nat, NEW d \in Nat, NEW e \in Nat, NEW f \in Int, NEW whole \in Nat,
         t + e <= whole, f <= e + d
  PROVE  (t - d) + f <= whole
OBVIOUS

(* The timers of a running TPDO.                                           *)
LEMMA RunningKeepsTimerInv ==
  ASSUME TpInv, NEW s \in BOOLEAN, NEW c \in 0..Overflow, NEW d \in Differences,
         Tpdo!Running(s, c, d), UNCHANGED Tpdo!commVars
  PROVE  /\ TimerInv'
         /\ eventTimer' \in 0..Longest /\ inhibitTimer' \in 0..Longest /\ elapsed' \in 0..Longest
<1> DEFINE lo == transmissionType = Tpdo!SYNC_EVENT_LO
<1>0. /\ d \in Nat /\ Longest \in Nat
      /\ eventTime \in 0..Longest /\ inhibitTime \in 0..Longest
      /\ eventTimer \in 0..Longest /\ inhibitTimer \in 0..Longest /\ elapsed \in 0..Longest
      /\ eventTime \in Nat /\ inhibitTime \in Nat
      /\ eventTimer \in Nat /\ inhibitTimer \in Nat /\ elapsed \in Nat
      /\ timing = "right"
  BY TimesAreNumbers, TpdoAssumption DEF TpInv, TpTypes, TimerInv
<1>1. /\ ~excused => inhibitTimer + elapsed >= inhibitTime
      /\ lo => /\ eventTimer = 0 \/ eventTimer + elapsed <= eventTime
               /\ inhibitTimer = 0 \/ inhibitTimer + elapsed <= inhibitTime
  BY DEF TpInv, TimerInv
<1>2. /\ transmissionType' = transmissionType /\ eventTime' = eventTime /\ inhibitTime' = inhibitTime
      /\ timing' = Tpdo!Timing(Tpdo!Due(s, c, d), d)
      /\ elapsed' = IF Tpdo!Due(s, c, d) THEN 0 ELSE Tpdo!Least(elapsed + d, Longest)
  BY DEF Tpdo!Running, Tpdo!commVars
<1>9. \A t \in {eventTimer, inhibitTimer} :
        /\ Tpdo!Down(t, d) \in 0..t
        /\ Tpdo!Down(t, d) = 0 => t <= d
        /\ Tpdo!Down(t, d) # 0 => Tpdo!Down(t, d) = t - d
  BY <1>0, DownIs
<1>3. CASE Tpdo!Due(s, c, d)
  <2>1. eventTimer' = eventTime /\ inhibitTimer' = inhibitTime /\ elapsed' = 0
    BY <1>2, <1>3 DEF Tpdo!Running, Tpdo!CO_TPDOsend
  <2>2. lo => Tpdo!Down(inhibitTimer, d) = 0
    BY <1>3 DEF Tpdo!Due, Tpdo!SYNC_EVENT_LO, Tpdo!SYNC_ACYCLIC
  <2>3. ASSUME lo, ~excused PROVE elapsed + d >= inhibitTime
    BY <1>0, <1>1, <1>9, <2>2, <2>3
  <2>4. timing' = "right"
    BY <1>0, <1>2, <1>3, <2>3 DEF Tpdo!Timing
  <2> QED
    BY <1>0, <1>2, <2>1, <2>4 DEF TimerInv
<1>4. CASE ~Tpdo!Due(s, c, d)
  <2> DEFINE eNew == Tpdo!NewEventTimer(d)
             iNew == IF lo THEN Tpdo!Down(inhibitTimer, d) ELSE inhibitTimer
  <2>1. /\ eventTimer' = eNew /\ inhibitTimer' = iNew /\ excused' = excused
        /\ elapsed' = Tpdo!Least(elapsed + d, Longest)
    BY <1>2, <1>4 DEF Tpdo!Running, Tpdo!Waits
  <2>2. /\ elapsed' \in 0..Longest /\ elapsed' <= elapsed + d
        /\ elapsed' = elapsed + d \/ elapsed' = Longest
    BY <1>0, <2>1 DEF Tpdo!Least
  <2>3. iNew \in 0..Longest /\ (iNew = inhibitTimer \/ (iNew = 0 /\ inhibitTimer <= d) \/ iNew = inhibitTimer - d)
    BY <1>0, <1>9
  <2>4. eNew \in 0..Longest /\ (lo /\ eventTime # 0 => eNew = Tpdo!Down(eventTimer, d))
    BY <1>0, <1>9 DEF Tpdo!NewEventTimer, Tpdo!EventDriven
  <2>5. lo /\ eventTime = 0 => eNew = 0
    BY <1>0, <1>1 DEF Tpdo!NewEventTimer
  <2>6. ~excused => iNew + elapsed' >= inhibitTime
    <3> HIDE DEF iNew
    <3> SUFFICES ASSUME ~excused PROVE iNew + elapsed' >= inhibitTime
      OBVIOUS
    <3>1. inhibitTimer + elapsed >= inhibitTime
      BY <1>1
    <3>2. CASE elapsed' = Longest
      BY <1>0, <2>3, <3>2
    <3>3. CASE elapsed' = elapsed + d
      BY <1>0, <2>3, <3>1, <3>3
    <3> QED
      BY <2>2, <3>2, <3>3
  <2>7. lo => /\ eNew = 0 \/ eNew + elapsed' <= eventTime
              /\ iNew = 0 \/ iNew + elapsed' <= inhibitTime
    <3> SUFFICES ASSUME lo PROVE /\ eNew = 0 \/ eNew + elapsed' <= eventTime
                                 /\ iNew = 0 \/ iNew + elapsed' <= inhibitTime
      OBVIOUS
    <3>1. iNew = 0 \/ (iNew = inhibitTimer - d /\ inhibitTimer + elapsed <= inhibitTime)
      BY <1>0, <1>1, <1>9
    <3>2. eNew = 0 \/ (eNew = eventTimer - d /\ eventTimer + elapsed <= eventTime)
      BY <1>0, <1>1, <1>9, <2>4, <2>5
    <3> HIDE DEF eNew, iNew
    <3>3. elapsed' \in Int /\ elapsed' <= elapsed + d
      BY <1>0, <2>2
    <3>4. eNew = 0 \/ eNew + elapsed' <= eventTime
      BY <1>0, <3>2, <3>3, LeftIs
    <3>5. iNew = 0 \/ iNew + elapsed' <= inhibitTime
      BY <1>0, <3>1, <3>3, LeftIs
    <3> QED
      BY <3>4, <3>5
  <2>8. timing' = "right"
    <3> SUFFICES ASSUME lo, eventTime # 0 PROVE ~(elapsed + d >= Tpdo!Most(eventTime, inhibitTime))
      BY <1>2, <1>4 DEF Tpdo!Timing
    <3>1. CASE Tpdo!Down(inhibitTimer, d) # 0
      <4>1. elapsed + d < inhibitTime
        BY <1>0, <1>1, <1>9, <3>1
      <4> QED
        BY <1>0, <4>1 DEF Tpdo!Most
    <3>2. CASE Tpdo!Down(inhibitTimer, d) = 0
      <4>1. ~Tpdo!Requested(d)
        BY <1>4, <3>2 DEF Tpdo!Due, Tpdo!SYNC_EVENT_LO, Tpdo!SYNC_ACYCLIC
      <4>2. eNew # 0
        BY <4>1 DEF Tpdo!Requested, Tpdo!EventDriven
      <4>3. elapsed + d < eventTime
        BY <1>0, <1>1, <1>9, <2>4, <4>2
      <4> QED
        BY <1>0, <4>3 DEF Tpdo!Most
    <3> QED
      BY <3>1, <3>2
  <2> HIDE DEF eNew, iNew
  <2> QED
    BY <1>2, <2>1, <2>2, <2>3, <2>4, <2>6, <2>7, <2>8 DEF TimerInv
<1> QED
  BY <1>3, <1>4

(* A pass of CO_TPDO_process.                                              *)
LEMMA ProcessKeepsTpInv ==
  ASSUME TpInv, NEW s \in BOOLEAN, NEW d \in Differences, Tpdo!CO_TPDO_process(s, d)
  PROVE  TpInv'
<1>1. PICK c \in 0..Overflow :
        counter' = c /\ IF valid /\ operational THEN Tpdo!Running(s, c, d) ELSE Tpdo!Resting(d)
  BY DEF Tpdo!CO_TPDO_process
<1>2. /\ UNCHANGED Tpdo!commVars /\ UNCHANGED <<operational, syncFlag>>
      /\ outside' \in {outside, FALSE}
  BY DEF Tpdo!CO_TPDO_process
<1>3. /\ valid' = valid /\ operational' = operational /\ transmissionType' = transmissionType
      /\ eventTime' = eventTime /\ inhibitTime' = inhibitTime /\ syncStartValue' = syncStartValue
      /\ counter' \in 0..Overflow /\ outside' \in BOOLEAN /\ syncFlag' = syncFlag
  BY <1>1, <1>2 DEF Tpdo!commVars, TpInv, TpTypes
<1>4. CASE valid /\ operational
  <2>1. Tpdo!Running(s, c, d)
    BY <1>1, <1>4
  <2>2. CounterInv' /\ gap' \in Nat /\ cycling' \in BOOLEAN
    BY <1>2, <2>1, RunningKeepsCounterInv
  <2>3. /\ TimerInv'
        /\ eventTimer' \in 0..Longest /\ inhibitTimer' \in 0..Longest /\ elapsed' \in 0..Longest
    BY <1>2, <2>1, RunningKeepsTimerInv
  <2>4. \/ Tpdo!CO_TPDOsend
        \/ Tpdo!Waits(d)
    BY <2>1 DEF Tpdo!Running
  <2>5. sendRequest' \in BOOLEAN /\ flag' \in BOOLEAN
    BY <2>4 DEF Tpdo!CO_TPDOsend, Tpdo!Waits, Tpdo!Requested, TpInv, TpTypes
  <2>6. excused' \in BOOLEAN /\ retyped' \in BOOLEAN /\ pending' \in {"none", "event", "sync"}
    BY <2>4 DEF Tpdo!CO_TPDOsend, Tpdo!Waits, TpInv, TpTypes
  <2>7. MarkInv'
    BY <1>3, <2>4 DEF Tpdo!CO_TPDOsend, Tpdo!Waits, TpInv, MarkInv
  <2>8. TpTypes'
    BY <1>3, <2>2, <2>3, <2>5, <2>6 DEF TpInv, TpTypes
  <2> QED
    BY <2>2, <2>3, <2>7, <2>8 DEF TpInv
<1>5. CASE ~(valid /\ operational)
  <2> USE DEF Tpdo!Resting
  <2>1. Tpdo!Resting(d)
    BY <1>1, <1>5
  <2>2. TpTypes'
    <3>1. 0 \in 0..Longest /\ elapsed' \in 0..Longest
      BY <2>1, TpdoAssumption DEF TpInv, TpTypes, Tpdo!Least
    <3> QED
      BY <1>3, <2>1, <3>1 DEF TpInv, TpTypes
  <2>3. CounterInv'
    BY <1>3, <2>1 DEF CounterInv, Tpdo!EventDriven
  <2>4. MarkInv'
    BY <1>3, <2>1 DEF TpInv, MarkInv
  <2>5. TimerInv'
    BY <1>3, <2>1 DEF TimerInv
  <2> QED
    BY <2>2, <2>3, <2>4, <2>5 DEF TpInv
<1> QED
  BY <1>4, <1>5

(* The window passes, the frame leaves, the application asks.              *)
LEMMA WindowKeepsTpInv ==
  ASSUME TpInv, Tpdo!CO_CANclearPendingSyncPDOs \/ Tpdo!Leaves \/ Tpdo!OD_requestTPDO
  PROVE  TpInv'
<1> USE DEF Tpdo!CO_CANclearPendingSyncPDOs, Tpdo!Leaves, Tpdo!OD_requestTPDO, Tpdo!commVars, Tpdo!histVars
<1>1. TpTypes'
  BY DEF TpInv, TpTypes, Tpdo!Cleared
<1>2. CounterInv' /\ TimerInv'
  BY DEF TpInv, CounterInv, TimerInv, Tpdo!EventDriven
<1>3. MarkInv'
  BY DEF TpInv, MarkInv, Tpdo!Cleared
<1> QED
  BY <1>1, <1>2, <1>3 DEF TpInv

(* OD_write_18xx, and the NMT state.                                       *)
LEMMA WriteTypeKeepsTpInv ==
  ASSUME TpInv, NEW t \in Tpdo!Type, Tpdo!WriteType(t) PROVE TpInv'
<1> USE DEF Tpdo!WriteType
<1>1. TpTypes'
  <2>1. 0 \in 0..Longest
    BY TpdoAssumption
  <2> QED
    BY <2>1 DEF TpInv, TpTypes
<1>2. CounterInv'
  BY DEF CounterInv, Tpdo!EventDriven
<1>3. MarkInv'
  BY DEF TpInv, TpTypes, MarkInv
<1>4. TimerInv'
  BY DEF TpInv, TimerInv
<1> QED
  BY <1>1, <1>2, <1>3, <1>4 DEF TpInv

(* The other parameters, and the NMT state.                                *)
LEMMA WritesKeepTpInv ==
  ASSUME TpInv,
         \/ \E b \in BOOLEAN : Tpdo!WriteCobId(b) \/ Tpdo!SetOperational(b)
         \/ \E t \in EventTimes : Tpdo!WriteEventTime(t)
         \/ \E t \in InhibitTimes : Tpdo!WriteInhibitTime(t)
         \/ \E v \in StartValues : Tpdo!WriteSyncStart(v)
  PROVE  TpInv'
<1> USE DEF Tpdo!commVars, Tpdo!histVars
<1>0. 0 \in 0..Longest /\ 0 \in 0..Overflow
  BY TpdoAssumption
<1>1. ASSUME NEW b \in BOOLEAN, Tpdo!WriteCobId(b) PROVE TpInv'
  <2>1. TpTypes'
    BY <1>1 DEF Tpdo!WriteCobId, TpInv, TpTypes
  <2> QED
    BY <1>1, <2>1 DEF Tpdo!WriteCobId, TpInv, CounterInv, MarkInv, TimerInv, Tpdo!EventDriven
<1>2. ASSUME NEW b \in BOOLEAN, Tpdo!SetOperational(b) PROVE TpInv'
  <2>1. TpTypes'
    BY <1>0, <1>2 DEF Tpdo!SetOperational, TpInv, TpTypes
  <2> QED
    BY <1>2, <2>1 DEF Tpdo!SetOperational, TpInv, CounterInv, MarkInv, TimerInv, Tpdo!EventDriven
<1>3. ASSUME NEW t \in EventTimes, Tpdo!WriteEventTime(t) PROVE TpInv'
  <2>1. TpTypes'
    BY <1>0, <1>3 DEF Tpdo!WriteEventTime, TpInv, TpTypes
  <2> QED
    BY <1>3, <2>1 DEF Tpdo!WriteEventTime, TpInv, CounterInv, MarkInv, TimerInv, Tpdo!EventDriven
<1>4. ASSUME NEW t \in InhibitTimes, Tpdo!WriteInhibitTime(t) PROVE TpInv'
  <2>1. TpTypes'
    BY <1>0, <1>4 DEF Tpdo!WriteInhibitTime, TpInv, TpTypes
  <2> QED
    BY <1>4, <2>1 DEF Tpdo!WriteInhibitTime, TpInv, CounterInv, MarkInv, TimerInv, Tpdo!EventDriven
<1>5. ASSUME NEW v \in StartValues, Tpdo!WriteSyncStart(v) PROVE TpInv'
  <2>1. TpTypes'
    BY <1>5 DEF Tpdo!WriteSyncStart, TpInv, TpTypes
  <2> QED
    BY <1>5, <2>1 DEF Tpdo!WriteSyncStart, TpInv, CounterInv, MarkInv, TimerInv, Tpdo!EventDriven
<1> QED
  BY <1>1, <1>2, <1>3, <1>4, <1>5

(* A step of the TPDO, and a step of another service.                      *)
LEMMA TpInvStep == TpInv /\ [Next]_vars => TpInv'
<1> SUFFICES ASSUME TpInv, [Next]_vars PROVE TpInv'
  OBVIOUS
<1>1. CASE UNCHANGED tpdoVars
  BY <1>1 DEF tpdoVars, TpInv, TpTypes, CounterInv, MarkInv, TimerInv, Tpdo!EventDriven
<1>2. CASE Tpdo!TpNext
  BY <1>2, ProcessKeepsTpInv, WindowKeepsTpInv, WriteTypeKeepsTpInv, WritesKeepTpInv DEF Tpdo!TpNext
<1> QED
  BY <1>1, <1>2 DEF Next, vars

(* Only CO_CANclearPendingSyncPDOs ends the window, and it goes by the     *)
(* mark of the buffer.                                                     *)
LEMMA WindowStep ==
  TpInv /\ [Next]_vars =>
    [~outside /\ outside' /\ ~retyped
       => pending' = IF pending = "sync" THEN "none" ELSE pending]_(Tpdo!tpVars)
<1> SUFFICES ASSUME TpInv, [Next]_vars, ~outside, outside', ~retyped
             PROVE  pending' = IF pending = "sync" THEN "none" ELSE pending
  OBVIOUS
<1>1. outside' # outside
  OBVIOUS
<1>2. Tpdo!TpNext
  BY <1>1 DEF Next, vars, tpdoVars
<1>3. Tpdo!CO_CANclearPendingSyncPDOs
  BY <1>1, <1>2 DEF Tpdo!TpNext, Tpdo!CO_TPDO_process, Tpdo!Leaves, Tpdo!OD_requestTPDO, Tpdo!WriteCobId,
     Tpdo!SetOperational, Tpdo!WriteType, Tpdo!WriteEventTime, Tpdo!WriteInhibitTime, Tpdo!WriteSyncStart
<1> QED
  BY <1>3 DEF Tpdo!CO_CANclearPendingSyncPDOs, Tpdo!Cleared, TpInv, TpTypes, MarkInv

(* RPDOs and TPDOs keep their times: time-outs of SYNC and of an RPDO are  *)
(* reported exactly while they last, a synchronous RPDO acts on the cycle  *)
(* before, a cyclic TPDO is sent at every N-th SYNC and an event driven    *)
(* one by its timers, and the end of the window takes back synchronous     *)
(* frames only; for every period, time, type and overflow value.           *)
THEOREM PdosKeepTimeAlways == Spec => PdosKeepTime
<1>1. Init => SyncInv /\ TpInv
  BY SyncInvInit, TpInvInit
<1>2. SyncInv /\ TpInv /\ [Next]_vars => (SyncInv /\ TpInv)'
  BY SyncInvStep, TpInvStep
<1>3. SyncInv /\ TpInv => /\ Sync!SyncTimeoutIsReported /\ Sync!OverdueIsReported /\ Sync!ActsOnLastCycle
                          /\ Tpdo!EveryNthSync /\ Tpdo!TimersAreKept
  BY SyncInvSuffices, TpInvSuffices
<1>4. TpInv /\ [Next]_vars =>
        [~outside /\ outside' /\ ~retyped
           => pending' = IF pending = "sync" THEN "none" ELSE pending]_(Tpdo!tpVars)
  BY WindowStep
<1> QED
  BY <1>1, <1>2, <1>3, <1>4, PTL DEF Spec, PdosKeepTime, Tpdo!WindowTakesSynchronous
-----------------------------------------------------------------------------
(* The object dictionary.                                                  *)

(* Where the sub-object is to which a stream belongs.                      *)
Members == {list[i] : i \in DOMAIN list}
Located(st) ==
  /\ st.sub \in OdSubIndexes
  /\ st.addr = Dictionary!SubObject(entry, st.sub).addr
  /\ st.length = Dictionary!SubObject(entry, st.sub).length
  /\ st.offset \in Nat
  /\ st = [addr |-> st.addr, length |-> st.length, sub |-> st.sub, offset |-> st.offset, io |-> st.io]

(* The first n bytes have been transferred.                                *)
Reached(addr, what, n) ==
  /\ what = "read" => /\ Len(odData) = n
                      /\ \A k \in 1..n : odData[k] = memory[addr + k - 1]
  /\ what = "write" => \A k \in 1..n : memory[addr + k - 1] = k

(* Only bytes of sub-object s have been written.                           *)
OnlyOf(s) == \A a \in Dictionary!Address : memory[a] # Dictionary!Old => DictionaryLayout[a] = <<index, s>>
Unwritten == \A a \in Dictionary!Address : memory[a] = Dictionary!Old

(* What is still searched is the entry that is sought, if there is one,    *)
(* and every pass has halved it.                                           *)
Width == IF search.max < search.min THEN 1 ELSE search.max - search.min + 1
SearchInv ==
  /\ search = [min |-> search.min, max |-> search.max, passes |-> search.passes]
  /\ search.min \in Nat /\ search.max \in Int /\ search.passes \in Nat
  /\ search.max < Len(list) /\ search.min <= Len(list)
  /\ list # <<>> => Dictionary!Twice[search.passes] * Width <= Len(list)
  /\ op = "OD_find" => \A i \in DOMAIN list : list[i].index = index => i - 1 \in search.min..search.max

FoundInv ==
  /\ op = "OD_find" => entry = Dictionary!NoEntry
  /\ op # "OD_find" => (entry = Dictionary!NoEntry <=> Dictionary!Hit = {})
  /\ entry # Dictionary!NoEntry => entry \in Members /\ entry.index = index
  /\ op \notin {"OD_find", "done"} => entry # Dictionary!NoEntry

TransferInv ==
  /\ op \in {"OD_find", "found", "done", "ptr", "open", "read", "write"}
  /\ code = "ODR_PARTIAL" => op \in {"read", "write"}
  /\ op \in {"OD_find", "found", "done", "ptr", "open"} => Unwritten /\ odData = <<>> /\ pieces = 0
  /\ op \in {"open", "read", "write"} /\ (op = "open" \/ code \in {"ODR_OK", "ODR_PARTIAL"}) =>
       Located(stream)
  /\ op = "open" => stream.offset = 0
  /\ op = "ptr" /\ code = "ODR_OK" =>
       Located(stream) /\ stream.addr # Dictionary!NULL /\ stream.length > 0
  /\ op \in {"read", "write"} =>
       /\ code = "ODR_PARTIAL" => /\ stream.addr # Dictionary!NULL /\ stream.offset < stream.length
                                  /\ ~touched => Reached(stream.addr, op, stream.offset)
                                  /\ pieces > 0
       /\ code = "ODR_OK" => /\ stream.addr # Dictionary!NULL
                             /\ ~touched => Reached(stream.addr, op, stream.length)
       /\ Unwritten \/ OnlyOf(stream.sub)
       /\ pieces = 1 /\ code \notin {"ODR_OK", "ODR_PARTIAL"} => Unwritten

DictInv ==
  /\ list \in Dictionaries /\ index \in OdIndexes
  /\ memory \in [Dictionary!Address -> Int] /\ odData \in Seq(Int) /\ pieces \in Nat
  /\ SearchInv /\ FoundInv /\ TransferInv

(* Powers of two.                                                          *)
LEMMA TwiceIs ==
  /\ Dictionary!Twice[0] = 1
  /\ \A n \in Nat : /\ Dictionary!Twice[n] \in Nat /\ Dictionary!Twice[n] > 0
                    /\ Dictionary!Twice[n + 1] = 2 * Dictionary!Twice[n]
<1> DEFINE B(f, n) == IF n = 0 THEN 1 ELSE 2 * f[n - 1]
           G == [e \in Nat \X [Nat -> Nat] |-> B(e[2], e[1])]
           rank == [n \in Nat |-> n]
<1>1. \A n \in Nat : \A f \in [Nat -> Nat] : B(f, n) \in Nat /\ G[<<n, f>>] = B(f, n)
  <2>1. \A n \in Nat : n # 0 => n - 1 \in Nat
    OBVIOUS
  <2>2. \A n \in Nat : \A f \in [Nat -> Nat] : B(f, n) \in Nat
    BY <2>1
  <2> HIDE DEF B
  <2> QED
    BY <2>2
<1>2. IsRecursion(G, Nat, Nat, rank)
  <2>1. rank \in [Nat -> Nat] /\ Nat # {}
    OBVIOUS
  <2>2. G \in [Nat \X [Nat -> Nat] -> Nat]
    <3> HIDE DEF B
    <3> QED
      BY <1>1
  <2>3. ASSUME NEW n \in Nat, NEW f \in [Nat -> Nat], NEW g \in [Nat -> Nat],
               \A y \in Nat : rank[y] < rank[n] => f[y] = g[y]
        PROVE  G[<<n, f>>] = G[<<n, g>>]
    <3>1. n # 0 => n - 1 \in Nat /\ n - 1 < n
      OBVIOUS
    <3>2. n # 0 => f[n - 1] = g[n - 1]
      BY <2>3, <3>1
    <3>3. B(f, n) = B(g, n)
      BY <3>2
    <3> HIDE DEF B, G
    <3> QED
      BY <1>1, <3>3
  <2> HIDE DEF B, G, rank
  <2> QED
    BY <2>1, <2>2, <2>3 DEF IsRecursion
<1>3. PICK f \in [Nat -> Nat] : \A n \in Nat : f[n] = G[<<n, f>>]
  <2> HIDE DEF B, G, rank
  <2> QED
    BY <1>2, Recursion
<1>4. f = [n \in Nat |-> B(f, n)]
  <2>1. \A n \in Nat : f[n] = B(f, n)
    <3> HIDE DEF B, G
    <3> QED
      BY <1>1, <1>3
  <2> HIDE DEF B
  <2> QED
    BY <1>3, <2>1
<1> DEFINE g == CHOOSE h : h = [n \in Nat |-> B(h, n)]
<1>5. g = [n \in Nat |-> B(g, n)]
  <2> HIDE DEF B
  <2> QED
    BY <1>4
<1>6. Dictionary!Twice = g
  BY DEF Dictionary!Twice
<1> HIDE DEF g
<1>7. \A n \in Nat : g[n] = B(g, n)
  <2> HIDE DEF B
  <2> QED
    BY <1>5
<1>8. g[0] = 1
  BY <1>7
<1>9. \A n \in Nat : g[n + 1] = 2 * g[n]
  <2> SUFFICES ASSUME NEW n \in Nat PROVE g[n + 1] = 2 * g[n]
    OBVIOUS
  <2>1. n + 1 \in Nat /\ n + 1 # 0 /\ (n + 1) - 1 = n
    OBVIOUS
  <2> QED
    BY <1>7, <2>1
<1> DEFINE S == {n \in Nat : g[n] \in Nat /\ g[n] > 0}
<1>10. Nat \subseteq S
  <2>1. 0 \in S
    BY <1>8
  <2>2. \A n \in Nat : n \in S => n + 1 \in S
    BY <1>9
  <2> HIDE DEF S
  <2> QED
    BY <2>1, <2>2, NaturalInduction
<1> QED
  BY <1>6, <1>8, <1>9, <1>10

(* What is halved with every doubling stays below.                         *)
LEMMA Halves ==
  ASSUME NEW t \in Nat, NEW m \in Nat, NEW w \in Nat, NEW n \in Nat, 2 * m <= w, t * w <= n
  PROVE  (2 * t) * m <= n
<1>1. PICK k \in Nat : w = 2 * m + k
  <2>1. w - 2 * m \in Nat
    OBVIOUS
  <2>2. w = 2 * m + (w - 2 * m)
    OBVIOUS
  <2> QED
    BY <2>1, <2>2
<1>2. t * w = t * (2 * m) + t * k
  BY <1>1
<1>3. t * k \in Nat
  OBVIOUS
<1>4. t * (2 * m) = (2 * t) * m
  OBVIOUS
<1>5. t * (2 * m) \in Nat
  OBVIOUS
<1> QED
  BY <1>2, <1>3, <1>4, <1>5

(* The list of a dictionary.                                               *)
LEMMA ListIs ==
  ASSUME list \in Dictionaries
  PROVE  /\ Len(list) \in Nat /\ DOMAIN list = 1..Len(list)
         /\ list = <<>> <=> Len(list) = 0
         /\ \A i \in DOMAIN list : list[i] \in Members /\ list[i].index \in Nat
         /\ \A i, j \in DOMAIN list : i < j => list[i].index < list[j].index
<1>1. list \in Seq({list[i] : i \in DOMAIN list}) /\ Ordered(list)
      /\ \A i \in DOMAIN list : list[i].index \in Nat
  BY DictionaryAssumption
<1>2. Len(list) \in Nat /\ DOMAIN list = 1..Len(list) /\ (list = <<>> <=> Len(list) = 0)
  BY <1>1
<1>3. \A i, j \in DOMAIN list : i < j => list[i].index < list[j].index
  BY <1>1 DEF Ordered
<1> QED
  BY <1>1, <1>2, <1>3 DEF Members

(* The invariant of the dictionary holds when the program starts.          *)
LEMMA DictInvInit == Init => DictInv
<1> SUFFICES ASSUME Dictionary!OdInit PROVE DictInv
  BY DEF Init
<1> USE DEF Dictionary!OdInit
<1>1. /\ Len(list) \in Nat /\ DOMAIN list = 1..Len(list) /\ (list = <<>> <=> Len(list) = 0)
      /\ list \in Dictionaries /\ index \in OdIndexes
  BY ListIs
<1>2. SearchInv
  <2>1. search = [min |-> 0, max |-> Len(list) - 1, passes |-> 0]
    BY DEF Dictionary!Search
  <2>2. search.min = 0 /\ search.max = Len(list) - 1 /\ search.passes = 0
    BY <2>1
  <2>3. list # <<>> => Width = Len(list)
    BY <1>1, <2>2 DEF Width
  <2>4. \A i \in DOMAIN list : i - 1 \in search.min..search.max
    BY <1>1, <2>2
  <2>5. list # <<>> => Dictionary!Twice[search.passes] * Width <= Len(list)
    <3>1. Dictionary!Twice[search.passes] = 1
      BY <2>2, TwiceIs
    <3>2. \A n \in Nat : 1 * n = n /\ n <= n
      OBVIOUS
    <3>3. Len(list) \in Nat
      BY <1>1
    <3> QED
      BY <2>3, <3>1, <3>2, <3>3
  <2>6. search.min \in Nat /\ search.max \in Int /\ search.passes \in Nat
        /\ search.max < Len(list) /\ search.min <= Len(list)
    BY <1>1, <2>2
  <2> QED
    BY <2>1, <2>2, <2>4, <2>5, <2>6 DEF SearchInv
<1>3. FoundInv
  BY DEF FoundInv
<1>4. TransferInv
  <2>1. Unwritten
    BY DEF Unwritten
  <2> QED
    BY <2>1 DEF TransferInv, Dictionary!None
<1>5. memory \in [Dictionary!Address -> Int] /\ odData \in Seq(Int)
  BY DEF Dictionary!Old
<1> QED
  BY <1>1, <1>2, <1>3, <1>4, <1>5 DEF DictInv

(* A pass of the loop: half of the entries are left, and the one that is   *)
(* sought is among them.                                                   *)
LEMMA PassKeepsSearchInv ==
  ASSUME DictInv, op = "OD_find", op' = "OD_find", list # <<>>, search.min < search.max,
         list' = list, index' = index,
         NEW cur, cur = (search.min + search.max) \div 2, list[cur + 1].index # index,
         search' = [Dictionary!Halved(cur) EXCEPT !.passes = @ + 1]
  PROVE  SearchInv'
<1>1. /\ search = [min |-> search.min, max |-> search.max, passes |-> search.passes]
      /\ search.min \in Nat /\ search.max \in Int /\ search.passes \in Nat
      /\ search.max < Len(list)
      /\ Dictionary!Twice[search.passes] * Width <= Len(list)
      /\ \A i \in DOMAIN list : list[i].index = index => i - 1 \in search.min..search.max
  BY DEF DictInv, SearchInv
<1>2. cur \in Nat /\ search.min <= cur /\ cur < search.max /\ cur + 1 \in Nat
  BY <1>1
<1>3. /\ Len(list) \in Nat /\ DOMAIN list = 1..Len(list)
      /\ \A i \in DOMAIN list : list[i].index \in Nat
      /\ \A i, j \in DOMAIN list : i < j => list[i].index < list[j].index
  BY ListIs DEF DictInv
<1>4. cur + 1 \in DOMAIN list
  BY <1>1, <1>2, <1>3
<1>5. index \in Nat
  BY DictionaryAssumption DEF DictInv
<1>6. /\ search'.passes = search.passes + 1
      /\ \/ /\ index < list[cur + 1].index
            /\ search'.min = search.min /\ search'.max = IF cur > 0 THEN cur - 1 ELSE cur
         \/ /\ ~(index < list[cur + 1].index)
            /\ search'.min = cur + 1 /\ search'.max = search.max
      /\ search' = [min |-> search'.min, max |-> search'.max, passes |-> search'.passes]
  BY <1>1 DEF Dictionary!Halved
<1>7. /\ search'.min \in Nat /\ search'.max \in Int /\ search'.passes \in Nat
      /\ search'.max < Len(list) /\ search'.min <= Len(list)
      /\ Width' \in Nat /\ Width \in Nat /\ 2 * Width' <= Width
  <2>1. Width = search.max - search.min + 1
    BY <1>1, <1>2 DEF Width
  <2>2. CASE search'.min = search.min /\ search'.max = IF cur > 0 THEN cur - 1 ELSE cur
    <3>1. Width' = IF search'.max < search'.min THEN 1 ELSE search'.max - search'.min + 1
      BY DEF Width
    <3>2. 2 * cur <= search.min + search.max
      BY <1>1
    <3>3. Width' \in Nat /\ Width \in Nat /\ 2 * Width' <= Width
      <4>1. search.min \in Int /\ search.max \in Int /\ cur \in Nat
            /\ search.min >= 0 /\ search.min <= cur /\ cur < search.max
        BY <1>1, <1>2
      <4>2. CASE cur > 0 /\ cur - 1 >= search.min
        <5>1. Width' = cur - search.min
          BY <2>2, <3>1, <4>1, <4>2
        <5> QED
          BY <2>1, <3>2, <4>1, <4>2, <5>1
      <4>3. CASE ~(cur > 0 /\ cur - 1 >= search.min)
        <5>1. Width' = 1
          <6>1. CASE cur = 0
            <7>1. search.min = 0
              BY <4>1, <6>1
            <7>2. search'.max = cur
              BY <2>2, <6>1
            <7>3. search'.min = 0 /\ search'.max = 0
              BY <2>2, <6>1, <7>1, <7>2
            <7> QED
              BY <3>1, <7>3
          <6>2. CASE cur > 0
            <7>1. search'.max < search'.min
              BY <2>2, <4>1, <4>3, <6>2
            <7> QED
              BY <3>1, <7>1
          <6> QED
            BY <4>1, <6>1, <6>2
        <5> QED
          BY <2>1, <4>1, <5>1
      <4> QED
        BY <4>2, <4>3
    <3> QED
      BY <1>1, <1>2, <1>3, <1>6, <2>2, <3>3
  <2>3. CASE search'.min = cur + 1 /\ search'.max = search.max
    <3>1. Width' = search.max - cur
      BY <1>1, <1>2, <2>3 DEF Width
    <3>2. 2 * cur >= search.min + search.max - 1
      BY <1>1
    <3>3. Width' \in Nat /\ Width \in Nat /\ 2 * Width' <= Width
      BY <1>1, <1>2, <2>1, <3>1, <3>2
    <3> QED
      BY <1>1, <1>2, <1>3, <1>6, <2>3, <3>3
  <2> QED
    BY <1>6, <2>2, <2>3
<1>8. Dictionary!Twice[search'.passes] * Width' <= Len(list)
  <2>1. Dictionary!Twice[search.passes] \in Nat
        /\ Dictionary!Twice[search'.passes] = 2 * Dictionary!Twice[search.passes]
    BY <1>1, <1>6, TwiceIs
  <2> QED
    BY <1>1, <1>3, <1>7, <2>1, Halves
<1>9. ASSUME NEW i \in DOMAIN list, list[i].index = index PROVE i - 1 \in search'.min..search'.max
  <2>1. i - 1 \in search.min..search.max /\ i \in Nat /\ i # cur + 1
    BY <1>1, <1>3, <1>9
  <2>2. CASE index < list[cur + 1].index
    <3>1. i < cur + 1
      <4>1. ~(cur + 1 < i)
        BY <1>3, <1>4, <1>5, <1>9, <2>2
      <4> QED
        BY <1>2, <2>1, <4>1
    <3> QED
      BY <1>1, <1>2, <1>6, <2>1, <2>2, <3>1
  <2>3. CASE ~(index < list[cur + 1].index)
    <3>1. cur + 1 < i
      <4>1. ~(i < cur + 1)
        BY <1>3, <1>4, <1>5, <1>9, <2>3
      <4> QED
        BY <1>2, <2>1, <4>1
    <3> QED
      BY <1>1, <1>2, <1>6, <2>1, <2>3, <3>1
  <2> QED
    BY <2>2, <2>3
<1>10. list' = list /\ index' = index
  OBVIOUS
<1> QED
  BY <1>3, <1>6, <1>7, <1>8, <1>9, <1>10 DEF SearchInv

(* OD_find.                                                                *)
LEMMA FindKeepsDictInv == DictInv /\ Dictionary!OD_find => DictInv'
<1> SUFFICES ASSUME DictInv, Dictionary!OD_find PROVE DictInv'
  OBVIOUS
<1>0. /\ op = "OD_find" /\ UNCHANGED <<list, index, stream, memory, odData, pieces, touched>>
      /\ list \in Dictionaries /\ index \in OdIndexes
      /\ memory \in [Dictionary!Address -> Int] /\ odData \in Seq(Int) /\ pieces \in Nat
  BY DEF DictInv, Dictionary!OD_find
<1>1. /\ Len(list) \in Nat /\ DOMAIN list = 1..Len(list) /\ (list = <<>> <=> Len(list) = 0)
      /\ \A i \in DOMAIN list : list[i] \in Members /\ list[i].index \in Nat
  BY ListIs DEF DictInv
<1>2. /\ search.min \in Nat /\ search.max \in Int
      /\ search.max < Len(list)
      /\ \A i \in DOMAIN list : list[i].index = index => i - 1 \in search.min..search.max
      /\ entry = Dictionary!NoEntry /\ Unwritten /\ odData = <<>> /\ pieces = 0
      /\ code # "ODR_PARTIAL" /\ index \in Nat
  BY <1>0, DictionaryAssumption DEF DictInv, SearchInv, FoundInv, TransferInv
<1>3. Unwritten' /\ odData' = <<>> /\ pieces' = 0
  BY <1>0, <1>2 DEF Unwritten
<1>4. ASSUME NEW cur \in DOMAIN list, list[cur].index = index, Dictionary!Found(list[cur]) PROVE DictInv'
  <2>1. entry' = list[cur] /\ op' = "found" /\ UNCHANGED <<search, code>>
    BY <1>4 DEF Dictionary!Found
  <2>2. SearchInv'
    BY <1>0, <2>1 DEF DictInv, SearchInv, Width
  <2>3. FoundInv'
    <3>1. list[cur] \in Members /\ list[cur].index # -1
      BY <1>1, <1>4
    <3>2. list[cur] # Dictionary!NoEntry
      BY <3>1 DEF Dictionary!NoEntry, Dictionary!NULL
    <3>3. Dictionary!Hit' # {}
      BY <1>0, <1>4 DEF Dictionary!Hit
    <3> QED
      BY <1>0, <1>4, <2>1, <3>1, <3>2, <3>3 DEF FoundInv, Members
  <2>4. TransferInv'
    BY <1>2, <1>3, <2>1 DEF TransferInv
  <2> QED
    BY <1>0, <2>2, <2>3, <2>4 DEF DictInv
<1>5. ASSUME Dictionary!Missing, Dictionary!Hit = {} PROVE DictInv'
  <2>1. op' = "done" /\ code' = "ODR_IDX_NOT_EXIST" /\ UNCHANGED <<search, entry>>
    BY <1>5 DEF Dictionary!Missing
  <2>2. SearchInv'
    BY <1>0, <2>1 DEF DictInv, SearchInv, Width
  <2>3. FoundInv'
    <3>1. Dictionary!Hit' = {}
      BY <1>0, <1>5 DEF Dictionary!Hit
    <3> QED
      BY <1>2, <2>1, <3>1 DEF FoundInv
  <2>4. TransferInv'
    BY <1>3, <2>1 DEF TransferInv
  <2> QED
    BY <1>0, <2>2, <2>3, <2>4 DEF DictInv
<1>6. CASE list # <<>> /\ search.min < search.max /\ Dictionary!Pass
  <2> DEFINE cur == (search.min + search.max) \div 2
  <2>1. cur + 1 \in DOMAIN list
    BY <1>1, <1>2, <1>6
  <2>2. CASE list[cur + 1].index = index
    <3>1. Dictionary!Found(list[cur + 1])
      BY <1>6, <2>2 DEF Dictionary!Pass
    <3> HIDE DEF cur
    <3> QED
      BY <1>4, <2>1, <2>2, <3>1
  <2>3. CASE list[cur + 1].index # index
    <3>1. /\ search' = [Dictionary!Halved(cur) EXCEPT !.passes = @ + 1]
          /\ UNCHANGED <<entry, op, code>>
      BY <1>6, <2>3 DEF Dictionary!Pass
    <3>2. SearchInv'
      BY <1>0, <1>6, <2>3, <3>1, PassKeepsSearchInv
    <3>3. FoundInv'
      BY <1>0, <1>2, <3>1 DEF FoundInv
    <3>4. TransferInv'
      BY <1>0, <1>2, <1>3, <3>1 DEF TransferInv
    <3> QED
      BY <1>0, <3>2, <3>3, <3>4 DEF DictInv
  <2> QED
    BY <2>2, <2>3
<1>7. CASE /\ list # <<>> /\ search.min = search.max
           /\ IF list[search.min + 1].index = index THEN Dictionary!Found(list[search.min + 1])
              ELSE Dictionary!Missing
  <2>1. search.min + 1 \in DOMAIN list
    BY <1>1, <1>2, <1>7
  <2>2. CASE list[search.min + 1].index = index
    BY <1>4, <1>7, <2>1, <2>2
  <2>3. CASE list[search.min + 1].index # index
    <3>1. ASSUME NEW i \in DOMAIN list, list[i].index = index PROVE FALSE
      <4>1. i \in Int /\ i - 1 = search.min
        BY <1>1, <1>2, <1>7, <3>1
      <4>2. i = search.min + 1
        BY <1>2, <4>1
      <4> QED
        BY <2>3, <3>1, <4>2
    <3>2. Dictionary!Hit = {}
      BY <3>1 DEF Dictionary!Hit
    <3> QED
      BY <1>5, <1>7, <2>3, <3>2
  <2> QED
    BY <2>2, <2>3
<1>8. CASE (list = <<>> \/ search.min > search.max) /\ Dictionary!Missing
  <2>1. ASSUME NEW i \in DOMAIN list, list[i].index = index PROVE FALSE
    BY <1>1, <1>2, <1>8, <2>1
  <2>2. Dictionary!Hit = {}
    BY <2>1 DEF Dictionary!Hit
  <2> QED
    BY <1>5, <1>8, <2>2
<1> QED
  BY <1>6, <1>7, <1>8 DEF Dictionary!OD_find

(* The bytes of the sub-object of a stream adjoin.                         *)
LEMMA LayoutIs ==
  ASSUME DictInv, entry # Dictionary!NoEntry, NEW st, Located(st), st.addr # Dictionary!NULL
  PROVE  /\ st.addr \in Nat /\ st.length \in Nat /\ st.offset \in Nat
         /\ {a \in Dictionary!Address : DictionaryLayout[a] = <<index, st.sub>>}
              = st.addr .. st.addr + st.length - 1
<1>1. PICK i \in DOMAIN list : entry = list[i] /\ list[i].index = index
  BY DEF DictInv, FoundInv, Members
<1>2. list \in Dictionaries /\ st.sub \in OdSubIndexes /\ st.offset \in Nat
      /\ st.addr = Dictionary!SubObject(list[i], st.sub).addr
      /\ st.length = Dictionary!SubObject(list[i], st.sub).length
  BY <1>1 DEF DictInv, Located
<1>3. /\ st.addr \in Nat /\ st.length \in Nat
      /\ BytesOf(list[i].index, st.sub) = st.addr .. st.addr + st.length - 1
  BY <1>2, DictionaryAssumption
<1> QED
  BY <1>1, <1>2, <1>3 DEF BytesOf, Dictionary!Address

(* A piece is read: what has been read goes on where it ended.             *)
LEMMA ReadOriginalIs ==
  ASSUME DictInv, entry # Dictionary!NoEntry, NEW st, Located(st), st.addr # Dictionary!NULL,
         st.offset <= st.length, NEW count \in Nat, UNCHANGED <<entry, index>>,
         Dictionary!OD_readOriginal(st, count)
  PROVE  /\ Located(stream') /\ stream'.addr = st.addr /\ stream'.sub = st.sub /\ stream'.length = st.length
         /\ memory' = memory /\ odData' \in Seq(Int)
         /\ code' \in {"ODR_OK", "ODR_PARTIAL"}
         /\ code' = "ODR_PARTIAL" => /\ stream'.offset = st.offset + count /\ stream'.offset < st.length
                                     /\ Reached(st.addr, "read", st.offset) => Reached(st.addr, "read", st.offset + count)'
         /\ code' = "ODR_OK" => (Reached(st.addr, "read", st.offset) => Reached(st.addr, "read", st.length)')
<1>1. /\ st.addr \in Nat /\ st.length \in Nat /\ st.offset \in Nat
      /\ st.addr .. st.addr + st.length - 1 \subseteq Dictionary!Address
  BY LayoutIs
<1> DEFINE c == Dictionary!Copy(st, count)
           piece == [k \in 1..c.n |-> memory[st.addr + st.offset + k - 1]]
<1>2. /\ odData' = odData \o piece /\ stream' = [st EXCEPT !.offset = c.offset] /\ code' = c.code
      /\ memory' = memory
  BY DEF Dictionary!OD_readOriginal
<1>3. /\ c.n \in Nat /\ c.offset \in Nat /\ c.code \in {"ODR_OK", "ODR_PARTIAL"}
      /\ c.code = "ODR_OK" => c.n = st.length - st.offset
      /\ c.code = "ODR_PARTIAL" => c.offset = st.offset + count /\ c.n = count /\ c.offset < st.length
      /\ st.offset + c.n <= st.length
  BY <1>1 DEF Dictionary!Copy
<1> HIDE DEF c
<1>4. /\ stream' = [addr |-> st.addr, length |-> st.length, sub |-> st.sub, offset |-> c.offset, io |-> st.io]
  BY <1>2 DEF Located
<1>5. /\ stream'.addr = st.addr /\ stream'.sub = st.sub /\ stream'.length = st.length
      /\ stream'.offset = c.offset /\ stream'.io = st.io
  BY <1>4
<1>6. Located(stream')
  BY <1>3, <1>4, <1>5 DEF Located
<1>7. piece \in Seq(Int)
  <2>1. ASSUME NEW k \in 1..c.n PROVE memory[st.addr + st.offset + k - 1] \in Int
    <3>1. st.addr + st.offset + k - 1 \in st.addr .. st.addr + st.length - 1
      BY <1>1, <1>3
    <3> QED
      BY <1>1, <3>1 DEF DictInv
  <2> QED
    BY <1>3, <2>1
<1>8. odData \in Seq(Int) /\ odData' \in Seq(Int)
  BY <1>2, <1>7 DEF DictInv
<1>9. Reached(st.addr, "read", st.offset) => Reached(st.addr, "read", st.offset + c.n)'
  <2> SUFFICES ASSUME Reached(st.addr, "read", st.offset) PROVE Reached(st.addr, "read", st.offset + c.n)'
    OBVIOUS
  <2>1. Len(odData) = st.offset /\ \A k \in 1..st.offset : odData[k] = memory[st.addr + k - 1]
    BY DEF Reached
  <2>2. Len(piece) = c.n /\ DOMAIN piece = 1..c.n
    BY <1>3, <1>7
  <2>0. /\ Len(odData \o piece) = Len(odData) + Len(piece)
        /\ \A k \in 1..Len(odData) + Len(piece) :
             (odData \o piece)[k] = IF k <= Len(odData) THEN odData[k] ELSE piece[k - Len(odData)]
    <3> HIDE DEF piece
    <3> QED
      BY <1>7, <1>8, ConcatProperties
  <2>3. Len(odData') = st.offset + c.n
    BY <1>2, <2>0, <2>1, <2>2
  <2>4. ASSUME NEW k \in 1..(st.offset + c.n) PROVE odData'[k] = memory[st.addr + k - 1]
    <3>1. CASE k <= st.offset
      <4>1. odData'[k] = odData[k]
        BY <1>1, <1>2, <1>3, <2>0, <2>1, <2>2, <3>1
      <4> QED
        BY <1>1, <2>1, <3>1, <4>1
    <3>2. CASE k > st.offset
      <4>1. odData'[k] = piece[k - st.offset]
        BY <1>1, <1>2, <1>3, <2>0, <2>1, <2>2, <3>2
      <4>2. k - st.offset \in 1..c.n /\ st.addr + st.offset + (k - st.offset) - 1 = st.addr + k - 1
        BY <1>1, <1>3, <3>2
      <4>3. piece[k - st.offset] = memory[st.addr + st.offset + (k - st.offset) - 1]
        BY <4>2
      <4> HIDE DEF piece
      <4> QED
        BY <4>1, <4>2, <4>3
    <3> QED
      BY <1>1, <1>3, <3>1, <3>2
  <2> QED
    BY <1>2, <1>5, <2>3, <2>4 DEF Reached
<1>10. st.length = st.offset + (st.length - st.offset)
  BY <1>1
<1> HIDE DEF piece
<1> QED
  BY <1>2, <1>3, <1>5, <1>6, <1>8, <1>9, <1>10

(* A piece is written: into its place, and nowhere else.                   *)
LEMMA WriteOriginalIs ==
  ASSUME DictInv, entry # Dictionary!NoEntry, NEW st, Located(st), st.addr # Dictionary!NULL,
         st.offset <= st.length, NEW count \in Nat, UNCHANGED <<entry, index>>,
         Unwritten \/ OnlyOf(st.sub),
         Dictionary!OD_writeOriginal(st, count)
  PROVE  /\ Located(stream') /\ stream'.addr = st.addr /\ stream'.sub = st.sub /\ stream'.length = st.length
         /\ memory' \in [Dictionary!Address -> Int] /\ odData' = odData
         /\ code' \in {"ODR_OK", "ODR_PARTIAL"} => OnlyOf(st.sub)'
         /\ code' \notin {"ODR_OK", "ODR_PARTIAL"} => memory' = memory
         /\ code' = "ODR_PARTIAL" => /\ stream'.offset = st.offset + count /\ stream'.offset < st.length
                                     /\ Reached(st.addr, "write", st.offset) => Reached(st.addr, "write", st.offset + count)'
         /\ code' = "ODR_OK" => (Reached(st.addr, "write", st.offset) => Reached(st.addr, "write", st.length)')
<1>1. /\ st.addr \in Nat /\ st.length \in Nat /\ st.offset \in Nat
      /\ {a \in Dictionary!Address : DictionaryLayout[a] = <<index, st.sub>>}
           = st.addr .. st.addr + st.length - 1
  BY LayoutIs
<1>0. memory \in [Dictionary!Address -> Int] /\ Dictionary!Address \subseteq Nat
  BY DictionaryAssumption DEF DictInv, Dictionary!Address
<1> DEFINE c == Dictionary!Copy(st, count)
<1>2. /\ stream' = [st EXCEPT !.offset = c.offset]
      /\ c.n < count => code' = "ODR_DATA_LONG" /\ memory' = memory
      /\ ~(c.n < count) =>
           /\ code' = c.code
           /\ memory' = [a \in Dictionary!Address |-> IF a \in Dictionary!Area(st, c.n) THEN a - st.addr + 1
                                                      ELSE memory[a]]
      /\ odData' = odData
  BY DEF Dictionary!OD_writeOriginal, Dictionary!Refused
<1>3. /\ c.n \in Nat /\ c.offset \in Nat /\ c.code \in {"ODR_OK", "ODR_PARTIAL"}
      /\ c.code = "ODR_OK" => c.n = st.length - st.offset
      /\ c.code = "ODR_PARTIAL" => c.offset = st.offset + count /\ c.n = count /\ c.offset < st.length
      /\ st.offset + c.n <= st.length
  BY <1>1 DEF Dictionary!Copy
<1> HIDE DEF c
<1>4. /\ stream' = [addr |-> st.addr, length |-> st.length, sub |-> st.sub, offset |-> c.offset, io |-> st.io]
  BY <1>2 DEF Located
<1>5. /\ stream'.addr = st.addr /\ stream'.sub = st.sub /\ stream'.length = st.length
      /\ stream'.offset = c.offset /\ stream'.io = st.io
  BY <1>4
<1>6. Located(stream')
  BY <1>3, <1>4, <1>5 DEF Located
<1>7. CASE c.n < count
  BY <1>0, <1>2, <1>5, <1>6, <1>7
<1>8. CASE ~(c.n < count)
  <2>1. /\ code' = c.code
        /\ memory' = [a \in Dictionary!Address |->
             IF a \in st.addr + st.offset .. st.addr + st.offset + c.n - 1 THEN a - st.addr + 1
             ELSE memory[a]]
    BY <1>2, <1>8 DEF Dictionary!Area
  <2>2. memory' \in [Dictionary!Address -> Int]
    BY <1>0, <1>1, <2>1
  <2>3. OnlyOf(st.sub)'
    <3>1. ASSUME NEW a \in Dictionary!Address, memory'[a] # Dictionary!Old
          PROVE  DictionaryLayout[a] = <<index, st.sub>>
      <4>1. CASE a \in st.addr + st.offset .. st.addr + st.offset + c.n - 1
        <5>1. a \in st.addr .. st.addr + st.length - 1
          BY <1>1, <1>3, <4>1
        <5> QED
          BY <1>1, <5>1
      <4>2. CASE a \notin st.addr + st.offset .. st.addr + st.offset + c.n - 1
        <5>1. memory[a] # Dictionary!Old
          BY <2>1, <3>1, <4>2
        <5> QED
          BY <5>1 DEF Unwritten, OnlyOf
      <4> QED
        BY <4>1, <4>2
    <3> QED
      BY <3>1 DEF OnlyOf
  <2>4. Reached(st.addr, "write", st.offset) => Reached(st.addr, "write", st.offset + c.n)'
    <3> SUFFICES ASSUME Reached(st.addr, "write", st.offset), NEW k \in 1..(st.offset + c.n)
                 PROVE  memory'[st.addr + k - 1] = k
      BY <1>5 DEF Reached
    <3>1. st.addr + k - 1 \in Dictionary!Address
      <4>1. st.addr + k - 1 \in st.addr .. st.addr + st.length - 1
        BY <1>1, <1>3
      <4> QED
        BY <1>1, <4>1
    <3>2. CASE k <= st.offset
      <4>1. memory[st.addr + k - 1] = k
        BY <1>1, <3>2 DEF Reached
      <4>2. st.addr + k - 1 \notin st.addr + st.offset .. st.addr + st.offset + c.n - 1
        BY <1>1, <1>3, <3>2
      <4> QED
        BY <2>1, <3>1, <4>1, <4>2
    <3>3. CASE k > st.offset
      <4>1. st.addr + k - 1 \in st.addr + st.offset .. st.addr + st.offset + c.n - 1
        BY <1>1, <1>3, <3>3
      <4>2. (st.addr + k - 1) - st.addr + 1 = k
        BY <1>1, <1>3
      <4> QED
        BY <2>1, <3>1, <4>1, <4>2
    <3> QED
      BY <1>1, <1>3, <3>2, <3>3
  <2>5. st.length = st.offset + (st.length - st.offset)
    BY <1>1
  <2> QED
    BY <1>2, <1>3, <1>5, <1>6, <2>1, <2>2, <2>3, <2>4, <2>5
<1> QED
  BY <1>7, <1>8

(* A call through the stream.                                              *)
LEMMA CallKeepsTransfer ==
  ASSUME DictInv, entry # Dictionary!NoEntry, NEW st, Located(st),
         st.addr # Dictionary!NULL => st.offset <= st.length,
         NEW count \in Nat, NEW what \in {"read", "write"}, UNCHANGED <<entry, index, touched>>,
         Unwritten \/ OnlyOf(st.sub),
         ~touched => Reached(st.addr, what, st.offset),
         Dictionary!Call(st, what, count)
  PROVE  /\ Located(stream') /\ stream'.sub = st.sub
         /\ memory' \in [Dictionary!Address -> Int] /\ odData' \in Seq(Int)
         /\ Unwritten' \/ OnlyOf(st.sub)'
         /\ code' \notin {"ODR_OK", "ODR_PARTIAL"} => memory' = memory
         /\ code' = "ODR_PARTIAL" => /\ stream'.addr # Dictionary!NULL /\ stream'.offset < stream'.length
                                     /\ ~touched => Reached(stream.addr, what, stream.offset)'
         /\ code' = "ODR_OK" => /\ stream'.addr # Dictionary!NULL
                                /\ ~touched => Reached(stream.addr, what, stream.length)'
<1>0. memory \in [Dictionary!Address -> Int] /\ odData \in Seq(Int)
  BY DEF DictInv
<1>1. CASE stream' = st /\ \E x \in {"ODR_UNSUPP_ACCESS", "ODR_SUB_NOT_EXIST"} : Dictionary!Refused(x)
  <2>1. code' \notin {"ODR_OK", "ODR_PARTIAL"} /\ memory' = memory /\ odData' = odData
    BY <1>1 DEF Dictionary!Refused
  <2>2. Unwritten' \/ OnlyOf(st.sub)'
    BY <2>1 DEF Unwritten, OnlyOf
  <2>3. Located(stream')
    BY <1>1
  <2> QED
    BY <1>0, <1>1, <2>1, <2>2, <2>3
<1>2. CASE st.addr # Dictionary!NULL /\ what = "read" /\ Dictionary!OD_readOriginal(st, count)
  <2>1. /\ Located(stream') /\ stream'.addr = st.addr /\ stream'.sub = st.sub /\ stream'.length = st.length
        /\ memory' = memory /\ odData' \in Seq(Int)
        /\ code' = "ODR_PARTIAL" => /\ stream'.offset = st.offset + count /\ stream'.offset < st.length
                                    /\ Reached(st.addr, "read", st.offset) => Reached(st.addr, "read", st.offset + count)'
        /\ code' = "ODR_OK" => (Reached(st.addr, "read", st.offset) => Reached(st.addr, "read", st.length)')
    BY <1>2, ReadOriginalIs
  <2>2. Unwritten' \/ OnlyOf(st.sub)'
    BY <2>1 DEF Unwritten, OnlyOf
  <2> QED
    BY <1>0, <1>2, <2>1, <2>2
<1>3. CASE st.addr # Dictionary!NULL /\ what = "write" /\ Dictionary!OD_writeOriginal(st, count)
  <2>1. /\ Located(stream') /\ stream'.addr = st.addr /\ stream'.sub = st.sub /\ stream'.length = st.length
        /\ memory' \in [Dictionary!Address -> Int] /\ odData' = odData
        /\ code' \in {"ODR_OK", "ODR_PARTIAL"} => OnlyOf(st.sub)'
        /\ code' \notin {"ODR_OK", "ODR_PARTIAL"} => memory' = memory
        /\ code' = "ODR_PARTIAL" => /\ stream'.offset = st.offset + count /\ stream'.offset < st.length
                                    /\ Reached(st.addr, "write", st.offset) => Reached(st.addr, "write", st.offset + count)'
        /\ code' = "ODR_OK" => (Reached(st.addr, "write", st.offset) => Reached(st.addr, "write", st.length)')
    BY <1>3, WriteOriginalIs
  <2>2. Unwritten' \/ OnlyOf(st.sub)'
    BY <2>1 DEF Unwritten, OnlyOf
  <2> QED
    BY <1>0, <1>3, <2>1, <2>2
<1> QED
  BY <1>1, <1>2, <1>3 DEF Dictionary!Call

(* What a call leaves.                                                     *)
LEMMA CallKeepsDictInv ==
  ASSUME DictInv, entry # Dictionary!NoEntry, op # "OD_find", NEW st, Located(st),
         st.addr # Dictionary!NULL => st.offset <= st.length,
         NEW count \in Nat, NEW what \in {"read", "write"},
         UNCHANGED <<list, index, search, entry, touched>>,
         Unwritten \/ OnlyOf(st.sub),
         ~touched => Reached(st.addr, what, st.offset),
         Dictionary!Call(st, what, count), op' = what, pieces' \in Nat \ {0},
         Unwritten \/ pieces' # 1
  PROVE  DictInv'
<1>1. /\ Located(stream') /\ stream'.sub = st.sub
      /\ memory' \in [Dictionary!Address -> Int] /\ odData' \in Seq(Int)
      /\ Unwritten' \/ OnlyOf(st.sub)'
      /\ code' \notin {"ODR_OK", "ODR_PARTIAL"} => memory' = memory
      /\ code' = "ODR_PARTIAL" => /\ stream'.addr # Dictionary!NULL /\ stream'.offset < stream'.length
                                  /\ ~touched => Reached(stream.addr, what, stream.offset)'
      /\ code' = "ODR_OK" => /\ stream'.addr # Dictionary!NULL
                             /\ ~touched => Reached(stream.addr, what, stream.length)'
  BY CallKeepsTransfer
<1>2. list \in Dictionaries /\ index \in OdIndexes /\ SearchInv'
  BY DEF DictInv, SearchInv, Width
<1>3. FoundInv'
  BY DEF DictInv, FoundInv, Members, Dictionary!Hit
<1>4. TransferInv'
  <2>1. Located(stream)'
    BY <1>1 DEF Located
  <2>2. Unwritten' \/ OnlyOf(stream.sub)'
    BY <1>1 DEF OnlyOf
  <2>3. pieces' = 1 /\ code' \notin {"ODR_OK", "ODR_PARTIAL"} => Unwritten'
    BY <1>1 DEF Unwritten
  <2>4. touched' = touched /\ op' \notin {"OD_find", "found", "done", "ptr", "open"} /\ pieces' > 0
        /\ op' \in {"read", "write"}
    OBVIOUS
  <2>5. op' \in {"OD_find", "found", "done", "ptr", "open", "read", "write"}
    BY <2>4
  <2>6. code' = "ODR_PARTIAL" /\ ~touched' => Reached(stream.addr, op, stream.offset)'
    BY <1>1 DEF Reached
  <2>7. code' = "ODR_OK" /\ ~touched' => Reached(stream.addr, op, stream.length)'
    BY <1>1 DEF Reached
  <2> QED
    BY <1>1, <2>1, <2>2, <2>3, <2>4, <2>5, <2>6, <2>7 DEF TransferInv
<1> QED
  BY <1>1, <1>2, <1>3, <1>4 DEF DictInv

(* A piece, and a whole object.                                            *)
LEMMA PieceKeepsDictInv ==
  ASSUME DictInv, NEW what \in {"read", "write"}, NEW n \in OdCounts, Dictionary!Piece(what, n)
  PROVE  DictInv'
<1>1. /\ op = "open" \/ (op = what /\ code = "ODR_PARTIAL")
      /\ Dictionary!Call(stream, what, n) /\ op' = what /\ pieces' = pieces + 1
      /\ UNCHANGED <<list, index, search, entry, touched>>
  BY DEF Dictionary!Piece
<1>2. entry # Dictionary!NoEntry /\ op # "OD_find" /\ Located(stream) /\ n \in Nat
  BY <1>1, DictionaryAssumption DEF DictInv, FoundInv, TransferInv
<1>3. stream.addr # Dictionary!NULL => stream.offset <= stream.length
  BY <1>1, <1>2, LayoutIs DEF DictInv, TransferInv
<1>4. Unwritten \/ OnlyOf(stream.sub)
  BY <1>1 DEF DictInv, TransferInv
<1>5. ~touched => Reached(stream.addr, what, stream.offset)
  <2>1. CASE op = "open"
    <3>1. odData = <<>> /\ stream.offset = 0
      BY <2>1 DEF DictInv, TransferInv
    <3> QED
      BY <3>1 DEF Reached
  <2>2. CASE op = what /\ code = "ODR_PARTIAL"
    BY <2>2 DEF DictInv, TransferInv
  <2> QED
    BY <1>1, <2>1, <2>2
<1>6. pieces' \in Nat \ {0} /\ (Unwritten \/ pieces' # 1)
  <2>1. CASE op = "open"
    BY <1>1, <2>1 DEF DictInv, TransferInv
  <2>2. CASE op = what /\ code = "ODR_PARTIAL"
    BY <1>1, <2>2 DEF DictInv, TransferInv
  <2> QED
    BY <1>1, <2>1, <2>2
<1> QED
  BY <1>1, <1>2, <1>3, <1>4, <1>5, <1>6, CallKeepsDictInv

(* A stream that is opened.                                                *)
LEMMA StreamIsLocated ==
  ASSUME NEW s \in OdSubIndexes, NEW o \in BOOLEAN
  PROVE  Located(Dictionary!Stream(s, o)) /\ Dictionary!Stream(s, o).offset = 0
BY DEF Located, Dictionary!Stream

(* The whole of an object, through a stream of its own.                    *)
LEMMA ValueKeepsDictInv ==
  ASSUME DictInv, NEW what \in {"read", "write"}, NEW s \in OdSubIndexes, NEW n \in OdCounts,
         Dictionary!Value(what, s, n)
  PROVE  DictInv'
<1>1. /\ op = "found" /\ op' = what /\ pieces' = 1
      /\ UNCHANGED <<list, index, search, entry, touched>>
  BY DEF Dictionary!Value
<1>2. entry # Dictionary!NoEntry /\ Unwritten /\ odData = <<>> /\ n \in Nat
  BY <1>1, DictionaryAssumption DEF DictInv, FoundInv, TransferInv
<1>3. ASSUME NEW x \in {"ODR_SUB_NOT_EXIST", "ODR_TYPE_MISMATCH"}, Dictionary!Refused(x), stream' = stream
      PROVE  DictInv'
  <2>1. code' = x /\ memory' = memory /\ odData' = odData
    BY <1>3 DEF Dictionary!Refused
  <2>2. SearchInv' /\ FoundInv'
    BY <1>1 DEF DictInv, SearchInv, Width, FoundInv, Members, Dictionary!Hit
  <2>3. Unwritten'
    BY <1>2, <2>1 DEF Unwritten
  <2>4. TransferInv'
    BY <1>1, <2>1, <2>3 DEF TransferInv
  <2> QED
    BY <1>1, <2>1, <2>2, <2>4 DEF DictInv
<1>4. ASSUME NEW o \in BOOLEAN, Dictionary!Call(Dictionary!Stream(s, o), what, n) PROVE DictInv'
  <2> DEFINE st == Dictionary!Stream(s, o)
  <2>1. Located(st) /\ st.offset = 0
    BY StreamIsLocated
  <2>2. Reached(st.addr, what, st.offset)
    BY <1>2, <2>1 DEF Reached
  <2>3. Dictionary!Call(st, what, n)
    BY <1>4
  <2> HIDE DEF st
  <2>4. st.addr # Dictionary!NULL => st.offset <= st.length
    BY <1>2, <2>1, LayoutIs
  <2>5. pieces' \in Nat \ {0} /\ op # "OD_find"
    BY <1>1
  <2> QED
    BY <1>1, <1>2, <2>1, <2>2, <2>3, <2>4, <2>5, CallKeepsDictInv
<1> QED
  BY <1>3, <1>4 DEF Dictionary!Value

(* A stream is opened, or a pointer given.                                 *)
LEMMA OpenKeepsDictInv ==
  ASSUME DictInv, NEW s \in OdSubIndexes,
         \/ \E o \in BOOLEAN : Dictionary!OD_getSub(s, o)
         \/ \E n \in OdCounts \cup {0} : Dictionary!OD_getPtr(s, n)
  PROVE  DictInv'
<1>1. /\ op = "found" /\ UNCHANGED <<list, index, search, entry, memory, odData, pieces, touched>>
      /\ op' \in {"open", "done", "ptr"}
  BY DEF Dictionary!OD_getSub, Dictionary!OD_getPtr
<1>2. Unwritten /\ odData = <<>> /\ pieces = 0 /\ entry # Dictionary!NoEntry /\ code # "ODR_PARTIAL"
  BY <1>1 DEF DictInv, TransferInv, FoundInv
<1>3. SearchInv' /\ FoundInv'
  BY <1>1 DEF DictInv, SearchInv, Width, FoundInv, Members, Dictionary!Hit
<1>4. Unwritten' /\ odData' = <<>> /\ pieces' = 0
  BY <1>1, <1>2 DEF Unwritten
<1>5. ASSUME NEW o \in BOOLEAN, Dictionary!OD_getSub(s, o) PROVE TransferInv'
  <2>1. CASE Dictionary!SubObject(entry, s) = Dictionary!NoSub
    <3>1. op' = "done" /\ code' = "ODR_SUB_NOT_EXIST"
      BY <1>5, <2>1 DEF Dictionary!OD_getSub
    <3> QED
      BY <1>4, <3>1 DEF TransferInv
  <2>2. CASE Dictionary!SubObject(entry, s) # Dictionary!NoSub
    <3>1. op' = "open" /\ stream' = Dictionary!Stream(s, o) /\ code' = code
      BY <1>5, <2>2 DEF Dictionary!OD_getSub
    <3>2. Located(stream)' /\ stream'.offset = 0
      BY <1>1, <3>1 DEF Located, Dictionary!Stream
    <3> QED
      BY <1>2, <1>4, <3>1, <3>2 DEF TransferInv
  <2> QED
    BY <2>1, <2>2
<1>6. ASSUME NEW n \in OdCounts \cup {0}, Dictionary!OD_getPtr(s, n) PROVE TransferInv'
  <2> DEFINE sub == Dictionary!SubObject(entry, s)
  <2>1. /\ op' = "ptr"
        /\ code' = IF sub = Dictionary!NoSub THEN "ODR_SUB_NOT_EXIST"
                   ELSE IF sub.addr = Dictionary!NULL \/ sub.length = 0 THEN "ODR_DEV_INCOMPAT"
                   ELSE IF n # 0 /\ n # sub.length THEN "ODR_TYPE_MISMATCH"
                   ELSE "ODR_OK"
        /\ stream' = IF code' = "ODR_OK" THEN Dictionary!Stream(s, TRUE) ELSE stream
    BY <1>6 DEF Dictionary!OD_getPtr
  <2>2. CASE code' = "ODR_OK"
    <3>1. sub.addr # Dictionary!NULL /\ sub.length # 0
      BY <2>1, <2>2
    <3>2. stream' = Dictionary!Stream(s, TRUE)
      BY <2>1, <2>2
    <3>3. Located(stream)'
      BY <1>1, <3>2 DEF Located, Dictionary!Stream
    <3>4. stream'.addr = sub.addr /\ stream'.length = sub.length
      BY <3>2 DEF Dictionary!Stream
    <3>5. stream'.length \in Nat
      BY <1>2, <3>1, <3>2, <3>4, StreamIsLocated, LayoutIs
    <3> QED
      <4>1. stream'.length > 0 /\ stream'.addr # Dictionary!NULL
        BY <3>1, <3>4, <3>5
      <4> QED
        BY <1>4, <2>1, <2>2, <3>3, <4>1 DEF TransferInv
  <2>3. CASE code' # "ODR_OK"
    <3>1. code' # "ODR_PARTIAL"
      BY <2>1
    <3> QED
      BY <1>4, <2>1, <2>3, <3>1 DEF TransferInv
  <2> QED
    BY <2>2, <2>3
<1> QED
  BY <1>1, <1>3, <1>5, <1>6 DEF DictInv

(* Another task writes a byte of the sub-object.                           *)
LEMMA TouchKeepsDictInv ==
  ASSUME DictInv, NEW a \in Dictionary!Address, Dictionary!Touch(a) PROVE DictInv'
<1>1. /\ code = "ODR_PARTIAL" /\ DictionaryLayout[a] = <<index, stream.sub>>
      /\ memory' = [memory EXCEPT ![a] = Dictionary!Others] /\ touched' = TRUE
      /\ UNCHANGED <<list, index, search, entry, stream, odData, op, code, pieces>>
  BY DEF Dictionary!Touch
<1>2. op \in {"read", "write"}
  BY <1>1 DEF DictInv, TransferInv
<1>3. SearchInv' /\ FoundInv'
  BY <1>1 DEF DictInv, SearchInv, Width, FoundInv, Members, Dictionary!Hit
<1>4. memory' \in [Dictionary!Address -> Int]
  BY <1>1 DEF DictInv, Dictionary!Others
<1>5. OnlyOf(stream.sub)'
  <2>1. Unwritten \/ OnlyOf(stream.sub)
    BY <1>2 DEF DictInv, TransferInv
  <2>2. \A b \in Dictionary!Address : b # a => memory'[b] = memory[b]
    BY <1>1 DEF DictInv
  <2> QED
    BY <1>1, <2>1, <2>2 DEF OnlyOf, Unwritten
<1>6. Located(stream)'
  BY <1>1, <1>2 DEF DictInv, TransferInv, Located
<1>7. TransferInv'
  BY <1>1, <1>2, <1>5, <1>6 DEF DictInv, TransferInv
<1> QED
  BY <1>1, <1>3, <1>4, <1>7 DEF DictInv

(* A step of the dictionary, and a step of another service.                *)
LEMMA DictInvStep == DictInv /\ [Next]_vars => DictInv'
<1> SUFFICES ASSUME DictInv, [Next]_vars PROVE DictInv'
  OBVIOUS
<1>1. CASE UNCHANGED odVars
  BY <1>1 DEF odVars, DictInv, SearchInv, FoundInv, TransferInv, Located, Reached, OnlyOf, Unwritten, Width,
     Members, Dictionary!Hit
<1>2. CASE Dictionary!OdNext
  <2>1. \/ Dictionary!OD_find
        \/ \E s \in OdSubIndexes : \/ \E o \in BOOLEAN : Dictionary!OD_getSub(s, o)
                                   \/ \E n \in OdCounts \cup {0} : Dictionary!OD_getPtr(s, n)
        \/ \E what \in {"read", "write"}, n \in OdCounts :
             Dictionary!Piece(what, n) \/ \E s \in OdSubIndexes : Dictionary!Value(what, s, n)
        \/ \E a \in Dictionary!Address : Dictionary!Touch(a)
    BY <1>2 DEF Dictionary!OdNext
  <2> QED
    BY <2>1, FindKeepsDictInv, OpenKeepsDictInv, PieceKeepsDictInv, ValueKeepsDictInv, TouchKeepsDictInv
<1> QED
  BY <1>1, <1>2 DEF Next, vars

(* The cardinality ObjectDictionary has by instantiation.                  *)
LEMMA SameCardinality == \A S : Dictionary!Cardinality(S) = Cardinality(S)
BY DEF Dictionary!Cardinality, Cardinality

(* The bytes before one of the sub-object.                                 *)
LEMMA PlaceIs ==
  ASSUME DictInv, entry # Dictionary!NoEntry, Located(stream), stream.addr # Dictionary!NULL
  PROVE  /\ Dictionary!Mine = stream.addr .. stream.addr + stream.length - 1
         /\ Cardinality(Dictionary!Mine) = stream.length
         /\ \A a \in Dictionary!Mine : /\ Dictionary!Place(a) = a - stream.addr + 1
                                       /\ Dictionary!Place(a) \in 1..stream.length
<1>1. /\ stream.addr \in Nat /\ stream.length \in Nat
      /\ Dictionary!Mine = stream.addr .. stream.addr + stream.length - 1
  BY LayoutIs DEF Dictionary!Mine
<1>2. ASSUME NEW x \in Int, NEW y \in Int PROVE Cardinality(x .. y) = IF x > y THEN 0 ELSE y - x + 1
  BY FS_Interval
<1>3. Cardinality(Dictionary!Mine) = stream.length
  <2>1. stream.addr + stream.length - 1 \in Int
    BY <1>1
  <2>2. ASSUME NEW x \in Int, NEW y \in Int, x = stream.addr, y = stream.addr + stream.length - 1
        PROVE  Cardinality(x .. y) = stream.length
    <3>1. Cardinality(x .. y) = IF x > y THEN 0 ELSE y - x + 1
      BY <1>2
    <3> QED
      BY <1>1, <2>2, <3>1
  <2> QED
    BY <1>1, <2>1, <2>2
<1>4. ASSUME NEW a \in Dictionary!Mine
      PROVE  /\ Dictionary!Place(a) = a - stream.addr + 1
             /\ Dictionary!Place(a) \in 1..stream.length
  <2>0. a \in Int /\ stream.addr <= a /\ a <= stream.addr + stream.length - 1
    BY <1>1
  <2>1. {b \in Dictionary!Mine : b < a} = stream.addr .. a - 1
    BY <1>1, <2>0
  <2>2. a - 1 \in Int
    BY <2>0
  <2>3. Cardinality(stream.addr .. a - 1) = a - stream.addr
    <3> SUFFICES ASSUME NEW x \in Int, NEW y \in Int, x = stream.addr, y = a - 1
                 PROVE  Cardinality(x .. y) = a - stream.addr
      BY <1>1, <2>2
    <3>1. Cardinality(x .. y) = IF x > y THEN 0 ELSE y - x + 1
      BY <1>2
    <3> QED
      BY <1>1, <2>0, <3>1
  <2>4. Dictionary!Place(a) = 1 + Cardinality(stream.addr .. a - 1)
    <3>1. Dictionary!Place(a) = 1 + Cardinality({b \in Dictionary!Mine : b < a})
      BY SameCardinality DEF Dictionary!Place
    <3> QED
      BY <2>1, <3>1
  <2>5. Dictionary!Place(a) = a - stream.addr + 1
    BY <1>1, <2>0, <2>3, <2>4
  <2> QED
    BY <1>1, <2>0, <2>5
<1> QED
  BY <1>1, <1>3, <1>4

(* The invariant is enough for what the dictionary promises.               *)
LEMMA DictInvSuffices == DictInv => DictionaryIsSound
<1> SUFFICES ASSUME DictInv PROVE DictionaryIsSound
  OBVIOUS
<1>1. Dictionary!FoundIsSought
  <2>1. list # <<>> => Dictionary!Twice[search.passes] <= Len(list)
    <3> SUFFICES ASSUME list # <<>> PROVE Dictionary!Twice[search.passes] <= Len(list)
      OBVIOUS
    <3>1. Dictionary!Twice[search.passes] \in Nat /\ Width \in Nat /\ Width >= 1
      BY TwiceIs DEF DictInv, SearchInv, Width
    <3>2. Dictionary!Twice[search.passes] * Width <= Len(list) /\ Len(list) \in Nat
      BY ListIs DEF DictInv, SearchInv
    <3>3. \A t, w, l \in Nat : w >= 1 /\ t * w <= l => t <= l
      <4> SUFFICES ASSUME NEW t \in Nat, NEW w \in Nat, NEW l \in Nat, w >= 1, t * w <= l PROVE t <= l
        OBVIOUS
      <4>1. t * w = t + t * (w - 1) /\ t * (w - 1) \in Nat /\ t * w \in Nat
        <5>1. w - 1 \in Nat
          OBVIOUS
        <5>2. t * (w - 1) \in Nat
          BY <5>1
        <5>3. t * w = t + t * (w - 1)
          OBVIOUS
        <5> QED
          BY <5>2, <5>3
      <4> QED
        BY <4>1
    <3> QED
      BY <3>1, <3>2, <3>3
  <2> QED
    BY <2>1 DEF DictInv, FoundInv, Dictionary!FoundIsSought
<1>2. op \in {"OD_find", "found", "done", "ptr", "open", "read", "write"}
  BY DEF DictInv, TransferInv
<1>3. Dictionary!WritesStayInside
  <2>1. Unwritten \/ OnlyOf(stream.sub)
    BY <1>2 DEF DictInv, TransferInv
  <2> QED
    BY <2>1 DEF Unwritten, OnlyOf, Dictionary!WritesStayInside, Dictionary!Mine
<1>4. Dictionary!RefusedIsUnchanged
  BY DEF DictInv, TransferInv, Unwritten, Dictionary!RefusedIsUnchanged
<1>5. Dictionary!WholeInItsPlace
  <2> USE DEF Dictionary!WholeInItsPlace
  <2> SUFFICES ASSUME code = "ODR_OK", ~touched
               PROVE  /\ op = "read" => /\ Len(odData) = Cardinality(Dictionary!Mine)
                                        /\ \A a \in Dictionary!Mine : odData[Dictionary!Place(a)] = memory[a]
                      /\ op = "write" => \A a \in Dictionary!Mine : memory[a] = Dictionary!Place(a)
                      /\ op = "ptr" => stream.addr \in Dictionary!Mine /\ Dictionary!Place(stream.addr) = 1
    BY SameCardinality, Zenon
  <2>1. ASSUME op \in {"read", "write", "ptr"}
        PROVE  entry # Dictionary!NoEntry /\ Located(stream) /\ stream.addr # Dictionary!NULL
    BY <2>1 DEF DictInv, TransferInv, FoundInv
  <2>2. ASSUME op \in {"read", "write", "ptr"}
        PROVE  /\ Dictionary!Mine = stream.addr .. stream.addr + stream.length - 1
               /\ Cardinality(Dictionary!Mine) = stream.length
               /\ stream.addr \in Nat /\ stream.length \in Nat
               /\ \A a \in Dictionary!Mine : /\ Dictionary!Place(a) = a - stream.addr + 1
                                             /\ Dictionary!Place(a) \in 1..stream.length
    BY <2>1, <2>2, PlaceIs, LayoutIs
  <2>3. ASSUME op \in {"read", "write"} PROVE Reached(stream.addr, op, stream.length)
    BY <2>3 DEF DictInv, TransferInv
  <2>4. ASSUME op \in {"read", "write"}, NEW a \in Dictionary!Mine
        PROVE  stream.addr + Dictionary!Place(a) - 1 = a
    BY <2>2, <2>4
  <2>5. ASSUME op = "read" PROVE /\ Len(odData) = Cardinality(Dictionary!Mine)
                                 /\ \A a \in Dictionary!Mine : odData[Dictionary!Place(a)] = memory[a]
    BY <2>2, <2>3, <2>4, <2>5 DEF Reached
  <2>6. ASSUME op = "write" PROVE \A a \in Dictionary!Mine : memory[a] = Dictionary!Place(a)
    BY <2>2, <2>3, <2>4, <2>6 DEF Reached
  <2>7. ASSUME op = "ptr" PROVE stream.addr \in Dictionary!Mine /\ Dictionary!Place(stream.addr) = 1
    <3>1. stream.length > 0
      BY <2>7 DEF DictInv, TransferInv
    <3> QED
      BY <2>2, <2>7, <3>1
  <2> QED
    BY <2>5, <2>6, <2>7
<1> QED
  BY <1>1, <1>3, <1>4, <1>5 DEF DictionaryIsSound

(* OD_find finds the entry it is asked for in at most log2(N) passes, and  *)
(* a transfer reaches every byte of the sub-object once and in its place   *)
(* and no other; for every dictionary that is ordered, every sub-object    *)
(* and every cut into pieces.                                              *)
THEOREM DictionaryIsSoundAlways == Spec => []DictionaryIsSound
<1> QED
  BY DictInvInit, DictInvStep, DictInvSuffices, PTL DEF Spec
-----------------------------------------------------------------------------
(* The objects of the stack.                                               *)

(* The blocks of CO_new, and the objects that have buffers.                *)
Blocks == {Objects!NewOrder[i] : i \in Objects!Places}
WithBuffers == {Objects!InitOrder[i] : i \in DOMAIN Objects!InitOrder} \union {"LSS_SLV"}

(* What CO_new has taken is in the heap or gone; an object that is         *)
(* initialised has its buffers; the receive buffers are empty after        *)
(* CO_CANinit, and with the LSS slave only as long as nothing else is      *)
(* initialised.                                                            *)
ObjInv ==
  /\ cfg \in Configs
  /\ heap \subseteq Blocks \union Objects!Callers
  /\ pc = "none" => heap \subseteq Objects!Callers
  /\ pc = "open" => todo \in DOMAIN Objects!InitOrder
  /\ pc \in {"none", "new", "allocated", "can"} => done = {}
  /\ DOMAIN taken = {"rx", "tx"} /\ done \subseteq WithBuffers
  /\ \A d \in {"rx", "tx"}, k \in done : \A i \in Objects!Buffers(d, k) :
       i \in DOMAIN taken[d] /\ taken[d][i] = k
  /\ pc = "can" => \A i \in DOMAIN taken.rx : taken.rx[i] = Objects!None
  /\ pc \in {"lss", "unconfigured"} =>
       \A i \in DOMAIN taken.rx : taken.rx[i] \in {Objects!None, "LSS_SLV"}

(* Its buffers are reserved for each of the twelve objects in the order.   *)
LEMMA ReservedIs ==
  ASSUME cfg \in Configs, NEW d \in {"rx", "tx"}
  PROVE  /\ DOMAIN Objects!Order(d) = 1..12 /\ Len(Objects!Order(d)) = 12
         /\ \A i \in 1..12 : LET k == Objects!Order(d)[i] IN
              /\ Objects!Takes(d, k) \in Nat /\ Objects!Reserved(d, k) \in Nat
              /\ Objects!Takes(d, k) <= Objects!Reserved(d, k)
<1>1. DOMAIN Objects!Order(d) = 1..12 /\ Len(Objects!Order(d)) = 12
  BY DEF Objects!Order
<1>2. \A k \in Objects!Kinds : cfg.n[k] \in Nat
  BY ObjectsAssumption
<1>3. Objects!Kinds = {"NMT", "HB_CONS", "EM", "SDO_SRV", "SDO_CLI", "TIME", "SYNC", "RPDO", "TPDO",
                       "LEDS", "GFC", "SRDO", "LSS_SLV", "LSS_MST", "GTWA", "TRACE"}
  BY DEF Objects!Kinds, Objects!Places, Objects!NewOrder
<1>4. ASSUME NEW i \in 1..12 PROVE Objects!Order(d)[i] \in Objects!Kinds \union {"NMT_MST"}
  BY <1>3 DEF Objects!Order
<1>5. ASSUME NEW k \in Objects!Kinds \union {"NMT_MST"}
      PROVE  /\ Objects!Takes(d, k) \in Nat /\ Objects!Reserved(d, k) \in Nat
             /\ Objects!Takes(d, k) <= Objects!Reserved(d, k)
  <2>1. Objects!N("NMT") \in Nat /\ (k # "NMT_MST" => Objects!N(k) \in Nat)
    BY <1>2, <1>3 DEF Objects!N
  <2>2. cfg.nodes \in Nat
    BY ObjectsAssumption
  <2>3. k = "HB_CONS" => Objects!N(k) * cfg.nodes \in Nat
    BY <2>1, <2>2
  <2>4. Objects!Takes(d, k) \in Nat
    BY <2>1, <2>3 DEF Objects!Takes
  <2> QED
    BY <2>4 DEF Objects!Reserved
<1> QED
  BY <1>1, <1>4, <1>5

(* The ends are the sums of what is reserved.                              *)
LEMMA EndsAre ==
  ASSUME cfg \in Configs, NEW d \in {"rx", "tx"}
  PROVE  /\ Objects!Ends(d)[0] = 0
         /\ \A i \in 1..12 : Objects!Ends(d)[i] =
              Objects!Ends(d)[i - 1] + Objects!Reserved(d, Objects!Order(d)[i])
<1> DEFINE D == 0..12
           R(i) == Objects!Reserved(d, Objects!Order(d)[i])
           B(f, n) == IF n = 0 THEN 0 ELSE f[n - 1] + R(n)
           G == [e \in D \X [D -> Nat] |-> B(e[2], e[1])]
           rank == [n \in D |-> n]
<1>0. \A i \in 1..12 : R(i) \in Nat
  BY ReservedIs
<1> HIDE DEF R
<1>1. \A n \in D : \A f \in [D -> Nat] : B(f, n) \in Nat /\ G[<<n, f>>] = B(f, n)
  <2>1. \A n \in D : n # 0 => n - 1 \in D /\ n \in 1..12
    OBVIOUS
  <2>2. \A n \in D : \A f \in [D -> Nat] : B(f, n) \in Nat
    BY <1>0, <2>1
  <2> HIDE DEF B
  <2> QED
    BY <2>2
<1>2. IsRecursion(G, D, Nat, rank)
  <2>1. rank \in [D -> Nat] /\ Nat # {}
    OBVIOUS
  <2>2. G \in [D \X [D -> Nat] -> Nat]
    <3> HIDE DEF B
    <3> QED
      BY <1>1
  <2>3. ASSUME NEW n \in D, NEW f \in [D -> Nat], NEW g \in [D -> Nat],
               \A y \in D : rank[y] < rank[n] => f[y] = g[y]
        PROVE  G[<<n, f>>] = G[<<n, g>>]
    <3>1. n # 0 => n - 1 \in D /\ n - 1 < n
      OBVIOUS
    <3>2. n # 0 => f[n - 1] = g[n - 1]
      BY <2>3, <3>1
    <3>3. B(f, n) = B(g, n)
      BY <3>2
    <3> HIDE DEF B, G
    <3> QED
      BY <1>1, <3>3
  <2> HIDE DEF B, G, rank, D
  <2> QED
    BY <2>1, <2>2, <2>3 DEF IsRecursion
<1>3. PICK f \in [D -> Nat] : \A n \in D : f[n] = G[<<n, f>>]
  <2> HIDE DEF B, G, rank, D
  <2> QED
    BY <1>2, Recursion
<1>4. f = [n \in D |-> B(f, n)]
  <2>1. \A n \in D : f[n] = B(f, n)
    <3> HIDE DEF B, G
    <3> QED
      BY <1>1, <1>3
  <2> HIDE DEF B, D
  <2> QED
    BY <1>3, <2>1
<1> DEFINE g == CHOOSE h : h = [n \in D |-> B(h, n)]
<1>5. g = [n \in D |-> B(g, n)]
  <2> HIDE DEF B, D
  <2> QED
    BY <1>4
<1>6. Objects!Ends(d) = g
  BY ReservedIs DEF Objects!Ends, R
<1> HIDE DEF g
<1>7. \A n \in D : g[n] = B(g, n)
  <2> HIDE DEF B, D
  <2> QED
    BY <1>5
<1> QED
  BY <1>6, <1>7 DEF R

(* The buffers of two objects are different ones.                          *)
LEMMA BuffersDiffer ==
  ASSUME cfg \in Configs, NEW d \in {"rx", "tx"}, NEW k \in WithBuffers, NEW l \in WithBuffers, k # l
  PROVE  Objects!Buffers(d, k) \cap Objects!Buffers(d, l) = {}
<1> DEFINE e == Objects!Ends(d)
           o == Objects!Order(d)
           R(i) == Objects!Reserved(d, o[i])
           T(i) == Objects!Takes(d, o[i])
           Of(kk, i) == o[i] = kk \/ (kk = "NMT" /\ o[i] = "NMT_MST")
<1>1. DOMAIN o = 1..12 /\ e[0] = 0
      /\ \A i \in 1..12 : e[i] = e[i - 1] + R(i) /\ T(i) \in Nat /\ R(i) \in Nat /\ T(i) <= R(i)
  BY ReservedIs, EndsAre
<1>2. ASSUME NEW kk PROVE Objects!Buffers(d, kk) =
        UNION {e[i - 1] + 1 .. e[i - 1] + T(i) : i \in {j \in 1..12 : Of(kk, j)}}
  BY <1>1 DEF Objects!Buffers
<1>3. \A i \in 1..12 : ~(Of(k, i) /\ Of(l, i))
  <2>1. k # "NMT_MST" /\ l # "NMT_MST"
    BY DEF WithBuffers, Objects!InitOrder
  <2> QED
    BY <2>1
<1> HIDE DEF e, o, R, T, Of
<1>4. \A i \in 0..12 : e[i] \in Nat
  <2> DEFINE S == {n \in Nat : n <= 12 => e[n] \in Nat}
  <2>1. 0 \in S
    BY <1>1
  <2>2. ASSUME NEW n \in Nat, n \in S PROVE n + 1 \in S
    <3>1. n + 1 <= 12 => n + 1 \in 1..12 /\ (n + 1) - 1 = n
      OBVIOUS
    <3>2. n + 1 <= 12 => e[n + 1] = e[n] + R(n + 1) /\ R(n + 1) \in Nat
      BY <1>1, <3>1
    <3> QED
      BY <2>2, <3>2
  <2> HIDE DEF S
  <2>3. Nat \subseteq S
    BY <2>1, <2>2, NaturalInduction
  <2> QED
    BY <2>3 DEF S
<1>5. \A i, j \in 0..12 : i <= j => e[i] <= e[j]
  <2> SUFFICES ASSUME NEW i \in 0..12 PROVE \A j \in 0..12 : i <= j => e[i] <= e[j]
    OBVIOUS
  <2> DEFINE S == {n \in Nat : i <= n /\ n <= 12 => e[i] <= e[n]}
  <2>1. 0 \in S
    BY <1>4
  <2>2. ASSUME NEW n \in Nat, n \in S PROVE n + 1 \in S
    <3>1. n + 1 <= 12 => n + 1 \in 1..12 /\ n \in 0..12 /\ n + 1 \in 0..12 /\ (n + 1) - 1 = n
      OBVIOUS
    <3>2. n + 1 <= 12 => e[n + 1] = e[n] + R(n + 1) /\ R(n + 1) \in Nat
      BY <1>1, <3>1
    <3>3. i = n + 1 \/ i <= n \/ ~(i <= n + 1)
      OBVIOUS
    <3>4. n + 1 <= 12 => e[n] <= e[n + 1] /\ e[n] \in Nat /\ e[n + 1] \in Nat /\ e[i] \in Nat
      BY <1>4, <3>1, <3>2
    <3> QED
      BY <2>2, <3>3, <3>4
  <2> HIDE DEF S
  <2>3. Nat \subseteq S
    BY <2>1, <2>2, NaturalInduction
  <2> QED
    BY <2>3 DEF S
<1>6. ASSUME NEW i \in 1..12, NEW j \in 1..12, i < j
      PROVE  (e[i - 1] + 1 .. e[i - 1] + T(i)) \cap (e[j - 1] + 1 .. e[j - 1] + T(j)) = {}
  <2>1. e[i - 1] + T(i) <= e[i] /\ e[i] <= e[j - 1]
    <3>1. i - 1 \in 0..12 /\ j - 1 \in 0..12 /\ i \in 0..12 /\ i <= j - 1
      BY <1>6
    <3>2. e[i] <= e[j - 1]
      BY <1>5, <3>1
    <3>3. e[i] = e[i - 1] + R(i) /\ T(i) <= R(i) /\ T(i) \in Nat /\ R(i) \in Nat
      BY <1>1
    <3>4. e[i - 1] \in Nat
      BY <1>4, <3>1
    <3> QED
      BY <3>2, <3>3, <3>4
  <2>2. e[i - 1] \in Nat /\ e[i] \in Nat /\ e[j - 1] \in Nat /\ T(i) \in Nat /\ T(j) \in Nat
    <3>1. i - 1 \in 0..12 /\ j - 1 \in 0..12 /\ i \in 0..12
      OBVIOUS
    <3> QED
      BY <1>1, <1>4, <3>1
  <2> QED
    BY <2>1, <2>2
<1>7. ASSUME NEW x, x \in Objects!Buffers(d, k), x \in Objects!Buffers(d, l) PROVE FALSE
  <2>1. PICK i \in 1..12 : Of(k, i) /\ x \in e[i - 1] + 1 .. e[i - 1] + T(i)
    BY <1>2, <1>7
  <2>2. PICK j \in 1..12 : Of(l, j) /\ x \in e[j - 1] + 1 .. e[j - 1] + T(j)
    BY <1>2, <1>7
  <2>3. i < j \/ j < i
    BY <1>3, <2>1, <2>2
  <2> QED
    BY <1>6, <2>1, <2>2, <2>3
<1> QED
  BY <1>7

(* The invariant of the objects holds before they are allocated.           *)
LEMMA ObjInvInit == Init => ObjInv
<1> SUFFICES ASSUME Objects!ObjectsInit PROVE ObjInv
  BY DEF Init
<1> QED
  BY DEF Objects!ObjectsInit, ObjInv

(* What the properties of the objects need.                                *)
LEMMA ObjInvSuffices == ObjInv => ObjectsAreWhole
<1> SUFFICES ASSUME ObjInv PROVE ObjectsAreWhole
  OBVIOUS
<1>1. Objects!NothingLeaks
  BY DEF ObjInv, Objects!NothingLeaks
<1>2. Objects!BuffersAreTheirs
  BY DEF ObjInv, Objects!BuffersAreTheirs
<1>3. Objects!OnlyLssListens
  BY DEF ObjInv, Objects!OnlyLssListens
<1> QED
  BY <1>1, <1>2, <1>3 DEF ObjectsAreWhole

(* The buffers of an object depend on the configuration only.              *)
LEMMA BuffersStay ==
  ASSUME UNCHANGED cfg
  PROVE  /\ Objects!Callers' = Objects!Callers
         /\ \A d \in {"rx", "tx"}, k \in WithBuffers : Objects!Buffers(d, k)' = Objects!Buffers(d, k)
BY DEF Objects!Callers, Objects!Buffers, Objects!Ends, Objects!Reserved, Objects!Takes, Objects!N,
   Objects!Order

(* The initialisation of an object gives it its buffers, and takes none    *)
(* from another.                                                           *)
LEMMA InitialisedHasBuffers ==
  ASSUME ObjInv, NEW k \in WithBuffers, Objects!Initialised(k), UNCHANGED cfg
  PROVE  /\ DOMAIN taken' = {"rx", "tx"} /\ done' \subseteq WithBuffers
         /\ \A d \in {"rx", "tx"}, l \in done' : \A i \in Objects!Buffers(d, l)' :
              i \in DOMAIN taken'[d] /\ taken'[d][i] = l
<1> USE DEF Objects!Initialised
<1>1. DOMAIN taken' = {"rx", "tx"} /\ done' \subseteq WithBuffers
  BY DEF ObjInv
<1>2. ASSUME NEW d \in {"rx", "tx"}, NEW l \in done', NEW i \in Objects!Buffers(d, l)
      PROVE  i \in DOMAIN taken'[d] /\ taken'[d][i] = l
  <2>1. CASE l = k
    BY <2>1
  <2>2. CASE l # k
    <3>1. l \in done /\ l \in WithBuffers
      BY <1>1, <2>2
    <3>2. i \notin Objects!Buffers(d, k)
      BY <2>2, <3>1, BuffersDiffer DEF ObjInv
    <3>3. i \in DOMAIN taken[d] /\ taken[d][i] = l
      BY <3>1 DEF ObjInv
    <3> QED
      BY <3>2, <3>3
  <2> QED
    BY <2>1, <2>2
<1>3. \A d \in {"rx", "tx"}, l \in done' : Objects!Buffers(d, l)' = Objects!Buffers(d, l)
  BY <1>1, BuffersStay
<1> QED
  BY <1>1, <1>2, <1>3

(* Every step of the objects keeps the invariant.                          *)
LEMMA ObjectsKeepObjInv == ObjInv /\ Objects!ObjectsNext => ObjInv'
<1> SUFFICES ASSUME ObjInv, Objects!ObjectsNext PROVE ObjInv'
  OBVIOUS
<1>0. UNCHANGED cfg
  BY DEF Objects!ObjectsNext, Objects!Begin, Objects!CO_new, Objects!CO_delete, Objects!CO_CANinit,
     Objects!CO_LSSinit, Objects!CO_CANopenInit, Objects!InitObject
<1>1. Objects!Callers' = Objects!Callers
      /\ \A d \in {"rx", "tx"}, k \in WithBuffers : Objects!Buffers(d, k)' = Objects!Buffers(d, k)
  BY <1>0, BuffersStay
<1>2. CASE Objects!Begin
  BY <1>0, <1>1, <1>2 DEF ObjInv, Objects!Begin
<1>3. CASE Objects!CO_new
  <2>1. PICK i \in Objects!Places : heap' = heap \union {Objects!NewOrder[i]}
    BY <1>3 DEF Objects!CO_new
  <2>2. heap' \subseteq Blocks \union Objects!Callers
    BY <2>1 DEF ObjInv, Blocks
  <2>3. /\ pc = "new" /\ pc' \in {"new", "allocated"} /\ UNCHANGED <<todo, done>>
        /\ DOMAIN taken' = {"rx", "tx"}
    BY <1>3 DEF Objects!CO_new, ObjInv
  <2> QED
    BY <1>0, <1>1, <2>2, <2>3 DEF ObjInv
<1>4. CASE Objects!CO_delete
  <2>1. heap' \subseteq Objects!Callers
    BY <1>4 DEF Objects!CO_delete, Objects!Deleted, Blocks, ObjInv
  <2>2. pc' = "none" /\ done' = {} /\ DOMAIN taken' = {"rx", "tx"}
    BY <1>4 DEF Objects!CO_delete
  <2> QED
    BY <1>0, <1>1, <2>1, <2>2 DEF ObjInv
<1>5. CASE Objects!CO_CANinit
  <2>1. /\ pc \notin {"none", "open"} /\ pc' = "can" /\ done' = {} /\ UNCHANGED heap
        /\ DOMAIN taken' = {"rx", "tx"} /\ \A i \in DOMAIN taken'.rx : taken'.rx[i] = Objects!None
    BY <1>5 DEF Objects!CO_CANinit, ObjInv
  <2> QED
    BY <1>0, <1>1, <2>1 DEF ObjInv
<1>6. CASE Objects!CO_LSSinit
  <2>1. /\ pc = "can" /\ pc' = "lss" /\ UNCHANGED <<heap, todo>> /\ Objects!Initialised("LSS_SLV")
        /\ "LSS_SLV" \in WithBuffers
    BY <1>6 DEF Objects!CO_LSSinit, WithBuffers
  <2>2. \A i \in DOMAIN taken'.rx : taken'.rx[i] \in {Objects!None, "LSS_SLV"}
    <3>1. taken'.rx = [i \in DOMAIN taken.rx |->
                         IF i \in Objects!Buffers("rx", "LSS_SLV") THEN "LSS_SLV" ELSE taken.rx[i]]
      BY <2>1 DEF Objects!Initialised
    <3> QED
      BY <2>1, <3>1 DEF ObjInv
  <2>3. /\ DOMAIN taken' = {"rx", "tx"} /\ done' \subseteq WithBuffers
        /\ \A d \in {"rx", "tx"}, l \in done' : \A i \in Objects!Buffers(d, l)' :
              i \in DOMAIN taken'[d] /\ taken'[d][i] = l
    BY <1>0, <2>1, InitialisedHasBuffers
  <2> QED
    BY <1>0, <1>1, <2>1, <2>2, <2>3 DEF ObjInv
<1>7. CASE Objects!CO_CANopenInit
  <2>1. /\ pc = "lss" \/ pc = "can"
        /\ \/ pc = "lss" /\ pc' = "unconfigured" /\ UNCHANGED todo
           \/ pc' = "open" /\ todo' = 1
        /\ UNCHANGED <<heap, taken, done>>
    BY <1>7 DEF Objects!CO_CANopenInit
  <2>2. 1 \in DOMAIN Objects!InitOrder
    BY DEF Objects!InitOrder
  <2> QED
    BY <1>0, <1>1, <2>1, <2>2 DEF ObjInv
<1>8. CASE Objects!InitObject
  <2> DEFINE k == Objects!InitOrder[todo]
  <2>1. pc = "open" /\ UNCHANGED heap /\ todo \in DOMAIN Objects!InitOrder /\ k \in WithBuffers
    BY <1>8 DEF Objects!InitObject, ObjInv, WithBuffers
  <2>2. pc' \in {"open", "running", "stopped"} /\ (pc' = "open" => todo' \in DOMAIN Objects!InitOrder)
    <3>1. DOMAIN Objects!InitOrder = 1..12 /\ Len(Objects!InitOrder) = 12
      BY DEF Objects!InitOrder
    <3> QED
      BY <1>8, <2>1, <3>1 DEF Objects!InitObject
  <2>3. UNCHANGED <<taken, done>> \/ Objects!Initialised(k)
    BY <1>8 DEF Objects!InitObject
  <2> HIDE DEF k
  <2>4. /\ DOMAIN taken' = {"rx", "tx"} /\ done' \subseteq WithBuffers
        /\ \A d \in {"rx", "tx"}, l \in done' : \A i \in Objects!Buffers(d, l)' :
              i \in DOMAIN taken'[d] /\ taken'[d][i] = l
    <3>1. CASE UNCHANGED <<taken, done>>
      BY <1>1, <3>1 DEF ObjInv
    <3>2. CASE Objects!Initialised(k)
      BY <1>0, <2>1, <3>2, InitialisedHasBuffers
    <3> QED
      BY <2>3, <3>1, <3>2
  <2> QED
    BY <1>0, <1>1, <2>1, <2>2, <2>4 DEF ObjInv
<1> QED
  BY <1>2, <1>3, <1>4, <1>5, <1>6, <1>7, <1>8 DEF Objects!ObjectsNext

(* A step of the objects, and a step of another service.                   *)
LEMMA ObjInvStep == ObjInv /\ [Next]_vars => ObjInv'
<1> SUFFICES ASSUME ObjInv, [Next]_vars PROVE ObjInv'
  OBVIOUS
<1>1. CASE UNCHANGED objectVars
  <2>1. UNCHANGED <<cfg, pc, heap, taken, todo, done>>
    BY <1>1 DEF objectVars
  <2> QED
    BY <2>1, BuffersStay DEF ObjInv
<1>2. CASE Objects!ObjectsNext
  BY <1>2, ObjectsKeepObjInv
<1> QED
  BY <1>1, <1>2 DEF Next, vars

(* CO_delete gives back all that CO_new has taken, each object that is     *)
(* initialised has its CAN buffers for itself, and without a node-ID only  *)
(* the LSS slave listens, for any number of each object.                   *)
THEOREM ObjectsAreWholeAlways == Spec => []ObjectsAreWhole
<1> QED
  BY ObjInvInit, ObjInvStep, ObjInvSuffices, PTL DEF Spec

-----------------------------------------------------------------------------
(* The LSS master and its slaves: what the frames and records hold.        *)
LssId == LssNodeIds \cup {Lss!Unconfigured}
LssRate == BitRates \cup {InitialRate}
LssFrame ==
  [cs : {"waiting", "configuration", "activate", "store"}] \cup
  [cs : {"select"}, part : Lss!Part, value : Nat] \cup
  [cs : {"fastscan"}, id : Nat, bit : Nat, sub : Lss!Part, next : Lss!Part] \cup
  [cs : {"inquire"}, part : Lss!Part] \cup [cs : {"node id"}, id : LssId] \cup
  [cs : {"bit timing"}, rate : BitRates]
LssCommand ==
  {Lss!Nothing} \cup [cs : {"switch", "store"}] \cup
  {c \in [cs : {"inquire"}, part : Lss!Part, upto : Lss!Part] : c.part <= c.upto} \cup
  [cs : {"node id"}, id : LssId] \cup [cs : {"bit timing"}, rate : BitRates] \cup
  {[cs |-> "fastscan", scan |-> x.scan, match |-> x.match] : x \in LssScans}
Alike(c, a, b) == \A p \in Lss!Part : c.scan[p] # "skip" => a[p] = b[p]
LssAnswer ==
  {Lss!Nothing} \cup [cs : {"selected", "identify"}] \cup
  [cs : {"inquire"}, part : Lss!Part, value : Lss!Number] \cup
  [cs : {"node id", "bit timing", "store"}, err : {0, 1, 255}]
LssSlave ==
  [mode : {"waiting", "configuration"}, active : LssId, pending : LssId, rate : LssRate,
   used : LssRate \cup {Lss!Unasked}, stored : {Lss!Nothing} \cup (LssId \X LssRate),
   select : [Lss!Part -> Nat], pos : Lss!Part,
   request : {Lss!Nothing} \cup {m \in LssFrame : m.cs # "configuration"}]
LssScan ==
  [state : {"none", "check", "scan", "verify"}, sub : Lss!Part, bit : 0..(LssBits - 1), id : Lss!Number]

(* The number scanned has its lower bits clear.                            *)
LssTypes ==
  /\ mState \in {"waiting", "selective", "global"} /\ command \in LssCommand /\ mailbox \in LssAnswer
  /\ fs \in LssScan /\ (fs.state = "scan" => fs.id + 2 * Lss!Twice[fs.bit] <= Lss!Twice[LssBits])
  /\ found \in [Lss!Part -> Lss!Number] /\ chosen \in [Lss!Part -> Nat \cup {Lss!Unasked}]
  /\ slave \in [LssSlaves -> LssSlave] /\ toSlaves \in Seq(LssFrame)
  /\ disturbed \in BOOLEAN
  /\ command = Lss!Nothing => mailbox = Lss!Nothing
  /\ command # Lss!Nothing => result = Lss!NoResult
  /\ command.cs = "switch" => mState = "selective"
  /\ command.cs = "fastscan" => mState = "waiting" /\ fs.state # "none" /\ command.scan[fs.sub] # "skip"
  /\ command.cs \in {"inquire", "node id", "bit timing", "store"} => mState # "waiting"

(* A slave is given a node-ID in configuration state only.                 *)
Assigned(s) ==
  /\ s.request.cs = "node id" => s.mode = "configuration"
  /\ s.mode = "waiting" /\ s.active = Lss!Unconfigured /\ s.pending # Lss!Unconfigured =>
       s.request.cs = "waiting"
AssignedInv == \A a \in LssSlaves : Assigned(slave[a])

Asleep == \A a \in LssSlaves : slave[a].request = Lss!Nothing
AllWait == \A a \in LssSlaves : slave[a].mode = "waiting"
Resets == \A a \in LssSlaves : slave[a].request.cs \in {"none", "waiting"}
Waiting == [cs |-> "waiting"]

(* Nothing was disturbed, and the master rests: all slaves wait, or are    *)
(* about to be told so.                                                    *)
RestInv ==
  \/ toSlaves = <<>> /\ AllWait /\ Resets
  \/ toSlaves = <<Waiting>> /\ Asleep

(* It has put all slaves into configuration state: the last n frames but   *)
(* those that it sent then.  Only an activation may still follow the one   *)
(* that it told last.                                                      *)
ToAll == {"inquire", "node id", "activate"}
GlobalFrames ==
  \E n \in 0..2 :
    /\ n <= Len(toSlaves)
    /\ \A i \in DOMAIN toSlaves : i > n => toSlaves[i].cs \in ToAll
    /\ n > 0 => toSlaves[n].cs = "configuration"
    /\ n = 2 => toSlaves[1] = Waiting
    /\ n = 0 => \A a \in LssSlaves : /\ slave[a].mode = "configuration"
                                     /\ slave[a].request.cs \in ToAll \cup {"none"}
GlobalInv ==
  /\ GlobalFrames
  /\ result.service.cs = "activate" =>
       \/ toSlaves # <<>> /\ toSlaves[Len(toSlaves)].cs = "activate"
       \/ /\ toSlaves = <<>>
          /\ \A a \in DOMAIN LssSupported :
               slave[a].request.cs = "activate" \/ slave[a].used = slave[a].rate

(* It selects a slave: k parts of the address have come.                   *)
SelectFrame(k) == [cs |-> "select", part |-> k - 1, value |-> chosen[k - 1]]
SelectFrames(k) == [i \in 1..(LssParts - k) |-> SelectFrame(k + i)]
SelectedTo(k) ==
  /\ k = 0 => Resets
  /\ k > 0 => Asleep
  /\ \A a \in LssSlaves : \A p \in Lss!Part : p < k => slave[a].select[p] = chosen[p]
ChosenReached ==
  /\ \A a \in LssSlaves :
       /\ slave[a].mode = "configuration" <=> a = chosen
       /\ slave[a].request # Lss!Nothing => a = chosen /\ slave[a].request = SelectFrame(LssParts)
  /\ mailbox = Lss!Nothing => chosen \notin LssSlaves \/ slave[chosen].request # Lss!Nothing
  /\ mailbox # Lss!Nothing => mailbox = [cs |-> "selected"] /\ chosen \in LssSlaves /\ Asleep
SwitchInv ==
  /\ chosen \in LssTargets
  /\ \/ toSlaves = <<Waiting>> \o SelectFrames(0) /\ Asleep /\ mailbox = Lss!Nothing
     \/ \E k \in 0..(LssParts - 1) :
          toSlaves = SelectFrames(k) /\ AllWait /\ mailbox = Lss!Nothing /\ SelectedTo(k)
     \/ toSlaves = <<>> /\ ChosenReached

(* One slave is in configuration state.  A service is with it, or under    *)
(* way to it, or its answer has come.                                      *)
ToOne(c) == c.cs \in {"inquire", "node id", "bit timing", "store"}
FrameOf(c) == IF c.cs = "inquire" THEN [cs |-> "inquire", part |-> c.part] ELSE c
ServiceDone(c, s, a) ==
  CASE c.cs = "node id" -> mailbox = [cs |-> "node id", err |-> 0] /\ s.pending = c.id
    [] c.cs = "store" -> mailbox.cs = "store" /\ (mailbox.err = 0 => s.stored = <<s.pending, s.rate>>)
    [] c.cs = "bit timing" -> IF a \in DOMAIN LssSupported
                              THEN mailbox.cs = "bit timing" /\ (mailbox.err = 0 => s.rate = c.rate)
                              ELSE mailbox = Lss!Nothing
    [] c.cs = "inquire" -> mailbox = [cs |-> "inquire", part |-> c.part, value |-> a[c.part]]
InService(c) ==
  \/ toSlaves = <<FrameOf(command)>> /\ Asleep /\ mailbox = Lss!Nothing
  \/ toSlaves = <<>> /\ slave[c].request = FrameOf(command) /\ mailbox = Lss!Nothing
  \/ toSlaves = <<>> /\ Asleep /\ ServiceDone(command, slave[c], c)
OneSelected(c) ==
  /\ Lss!Matching = {c}
  /\ \A a \in LssSlaves : /\ slave[a].mode = "configuration" <=> a = c
                          /\ slave[a].request # Lss!Nothing => a = c
SelectedInv ==
  \E c \in LssSlaves :
    /\ OneSelected(c)
    /\ IF command = Lss!Nothing THEN toSlaves = <<>> /\ Asleep ELSE InService(c)
    /\ Lss!ConfirmedByChosen

(* A slave takes part in a scan that has no node-ID yet.  Where it stands  *)
(* tells that its numbers are those found before.                          *)
TheProbe ==
  CASE fs.state = "check" -> Lss!Probe(0, Lss!Confirm, 0, 0)
    [] fs.state = "scan" -> Lss!Probe(fs.id, fs.bit, fs.sub, fs.sub)
    [] fs.state = "verify" -> Lss!Probe(fs.id, 0, fs.sub, Lss!NextSub(fs.sub))
Identified == [cs |-> "identify"]
TakesPart(s) == s.active = Lss!Unconfigured /\ s.pending = Lss!Unconfigured
Agrees(a, f, n) == \A p \in Lss!Part : p < n /\ command.scan[p] # "skip" => a[p] = f[p]
Stands(n, f) ==
  \A a \in LssSlaves :
    TakesPart(slave[a]) => slave[a].pos <= n /\ (slave[a].pos = n => Agrees(a, f, n))
FoundNow == [found EXCEPT ![fs.sub] = fs.id]
LastVerified ==
  /\ \A a \in LssSlaves : slave[a].mode = "configuration" =>
       Agrees(a, FoundNow, LssParts) /\ (slave[a].request # Lss!Nothing \/ mailbox = Identified)
  /\ mailbox = Identified \/ ~Asleep => \E a \in LssSlaves : slave[a].mode = "configuration"
Probed ==
  /\ mailbox \in {Lss!Nothing, Identified}
  /\ \A a \in LssSlaves : slave[a].request \in {Lss!Nothing, TheProbe}
  /\ fs.state = "check" => AllWait /\ \A a \in LssSlaves : TakesPart(slave[a]) => slave[a].pos = 0
  /\ fs.state = "scan" => AllWait /\ Stands(fs.sub, found)
  /\ fs.state = "verify" => IF Lss!NextSub(fs.sub) # 0
                            THEN AllWait /\ Stands(Lss!NextSub(fs.sub), FoundNow) ELSE LastVerified
ScanInv ==
  /\ fs.state = "check" => fs.sub = 0
  /\ \/ toSlaves = <<Waiting, TheProbe>> /\ fs.state = "check" /\ Asleep /\ mailbox = Lss!Nothing
     \/ /\ toSlaves = <<TheProbe>> /\ mailbox = Lss!Nothing /\ AllWait
        /\ fs.state = "check" => Resets
        /\ fs.state # "check" => Asleep /\ Stands(fs.sub, found)
     \/ toSlaves = <<>> /\ Probed

(* Unless something has been disturbed, the state of the master tells what *)
(* the slaves are in for.                                                  *)
Undisturbed ==
  /\ mState = "waiting" => IF command = Lss!Nothing THEN RestInv ELSE ScanInv
  /\ mState = "global" => GlobalInv
  /\ mState = "selective" => IF command.cs = "switch" THEN SwitchInv ELSE SelectedInv
LssInv == LssTypes /\ AssignedInv /\ (~disturbed => Undisturbed)

(* The parts and bits of an address, and the powers of two.              *)
LEMMA LssNumbers ==
  /\ Lss!Twice[0] = 1
  /\ \A n \in Nat : /\ Lss!Twice[n] \in Nat /\ Lss!Twice[n] > 0
                    /\ Lss!Twice[n + 1] = 2 * Lss!Twice[n]
  /\ LssParts \in Nat /\ LssParts > 0 /\ Lss!Part = 0..(LssParts - 1)
  /\ LssBits \in Nat /\ LssBits > 0 /\ LssBits <= 128
  /\ Lss!Number = 0..(Lss!Twice[LssBits] - 1)
<1>1. Lss!Twice = Dictionary!Twice
  BY DEF Lss!Twice, Dictionary!Twice
<1>2. LssBits \in 1..128 /\ LssParts \in Nat \ {0}
  BY LssAssumption DEF Lss!Confirm
<1> QED
  BY <1>1, <1>2, TwiceIs DEF Lss!Part, Lss!Number

(* What an LSS frame is by its command specifier.                          *)
LEMMA LssFrameIs ==
  ASSUME NEW m \in LssFrame
  PROVE  /\ m.cs \in {"waiting", "configuration", "activate", "store", "select", "fastscan", "inquire",
                      "node id", "bit timing"}
         /\ m # Lss!Nothing
         /\ m.cs = "select" => m.part \in Lss!Part /\ m.value \in Nat
         /\ m.cs = "fastscan" => /\ m.id \in Nat /\ m.bit \in Nat /\ m.sub \in Lss!Part /\ m.next \in Lss!Part
         /\ m.cs = "inquire" => m.part \in Lss!Part
         /\ m.cs = "node id" => m.id \in LssId
         /\ m.cs = "bit timing" => m.rate \in BitRates
<1> DEFINE plain == [cs : {"waiting", "configuration", "activate", "store"}]
           select == [cs : {"select"}, part : Lss!Part, value : Nat]
           fastscan == [cs : {"fastscan"}, id : Nat, bit : Nat, sub : Lss!Part, next : Lss!Part]
           inquire == [cs : {"inquire"}, part : Lss!Part]
           nodeId == [cs : {"node id"}, id : LssId]
           bitTiming == [cs : {"bit timing"}, rate : BitRates]
<1>1. m \in plain \/ m \in select \/ m \in fastscan \/ m \in inquire \/ m \in nodeId \/ m \in bitTiming
  BY DEF LssFrame
<1>2. m \in plain => m.cs \in {"waiting", "configuration", "activate", "store"}
  OBVIOUS
<1>3. m \in select => m.cs = "select" /\ m.part \in Lss!Part /\ m.value \in Nat
  OBVIOUS
<1>4. m \in fastscan => /\ m.cs = "fastscan" /\ m.id \in Nat /\ m.bit \in Nat
                       /\ m.sub \in Lss!Part /\ m.next \in Lss!Part
  OBVIOUS
<1>5. m \in inquire => m.cs = "inquire" /\ m.part \in Lss!Part
  OBVIOUS
<1>6. m \in nodeId => m.cs = "node id" /\ m.id \in LssId
  OBVIOUS
<1>7. m \in bitTiming => m.cs = "bit timing" /\ m.rate \in BitRates
  OBVIOUS
<1> HIDE DEF plain, select, fastscan, inquire, nodeId, bitTiming
<1>8. m.cs # "none"
  BY <1>1, <1>2, <1>3, <1>4, <1>5, <1>6, <1>7
<1>9. m # Lss!Nothing
  BY <1>8 DEF Lss!Nothing
<1> QED
  BY <1>1, <1>2, <1>3, <1>4, <1>5, <1>6, <1>7, <1>9

(* What an LSS slave keeps.                                                *)
LEMMA LssSlaveIs ==
  ASSUME NEW s \in LssSlave
  PROVE  /\ s.mode \in {"waiting", "configuration"} /\ s.active \in LssId /\ s.pending \in LssId
         /\ s.rate \in LssRate /\ s.used \in LssRate \cup {Lss!Unasked}
         /\ s.stored \in {Lss!Nothing} \cup (LssId \X LssRate)
         /\ s.select \in [Lss!Part -> Nat] /\ s.pos \in Lss!Part
         /\ s.request = Lss!Nothing \/ (s.request \in LssFrame /\ s.request.cs # "configuration")
BY DEF LssSlave

(* A slave that has reset its communication.                               *)
LEMMA FreshIs ==
  ASSUME NEW id \in LssId
  PROVE  Lss!Fresh(id) \in LssSlave
<1>1. [p \in Lss!Part |-> 0] \in [Lss!Part -> Nat] /\ 0 \in Lss!Part
  BY LssNumbers
<1> QED
  BY <1>1 DEF Lss!Fresh, LssSlave, LssRate

(* A slave that receives a frame.                                          *)
LEMMA ReceiveIs ==
  ASSUME NEW a \in LssSlaves, NEW s \in LssSlave, NEW m \in LssFrame
  PROVE  /\ Lss!Receive(a, s, m) \in LssSlave
         /\ Assigned(s) => Assigned(Lss!Receive(a, s, m))
<1> USE DEF Lss!Unconfigured, Assigned
<1>0. /\ s.request = Lss!Nothing => s.request.cs = "none"
      /\ [p \in Lss!Part |-> 0] \in [Lss!Part -> Nat] /\ 0 \in Lss!Part
  <2>1. 0 \in Lss!Part
    BY LssNumbers
  <2>2. s.request = Lss!Nothing => s.request.cs = "none"
    BY DEF Lss!Nothing
  <2> QED
    BY <2>1, <2>2
<1>1. ASSUME m.cs = "waiting", s.request = Lss!Nothing
      PROVE  Lss!Switched(s, m) \in LssSlave /\ (Assigned(s) => Assigned(Lss!Switched(s, m)))
  <2> DEFINE r == IF s.mode = "configuration" /\ s.active = Lss!Unconfigured
                     /\ s.pending # Lss!Unconfigured THEN m ELSE s.request
             n == Lss!Switched(s, m)
  <2>1. r \in {x \in LssFrame : x.cs # "configuration"} \cup {Lss!Nothing}
    BY <1>1, LssSlaveIs
  <2>2. /\ n \in LssSlave /\ n.mode = "waiting" /\ n.request = r /\ n.active = s.active
        /\ n.pending = s.pending
    <3> HIDE DEF r
    <3>1. Lss!Switched(s, m) = [s EXCEPT !.mode = "waiting", !.select = [p \in Lss!Part |-> 0], !.request = r]
      BY DEF Lss!Switched, r
    <3> QED
      BY <1>0, <2>1, <3>1 DEF LssSlave
  <2>3. s.mode \in {"waiting", "configuration"}
    BY LssSlaveIs
  <2>4. r.cs \in {"waiting", "none"}
    BY <1>0, <1>1
  <2>5. ASSUME Assigned(s), s.active = Lss!Unconfigured, s.pending # Lss!Unconfigured
        PROVE  r.cs = "waiting"
    BY <1>0, <1>1, <2>3, <2>5
  <2> HIDE DEF r
  <2> QED
    BY <2>2, <2>4, <2>5
<1>2. ASSUME m.cs = "select", s.mode = "waiting", s.request = Lss!Nothing
      PROVE  /\ Lss!Selected(a, s, m) \in LssSlave
             /\ Assigned(s) => Assigned(Lss!Selected(a, s, m))
  <2> DEFINE got == [s.select EXCEPT ![m.part] = m.value]
  <2>1. got \in [Lss!Part -> Nat]
    BY <1>2, LssFrameIs, LssSlaveIs
  <2>2. Lss!Selected(a, s, m) \in {[s EXCEPT !.select = got, !.mode = "configuration", !.request = m],
                                  [s EXCEPT !.select = got]}
    BY DEF Lss!Selected
  <2> HIDE DEF got
  <2>3. [s EXCEPT !.select = got] \in LssSlave
    BY <2>1 DEF LssSlave
  <2>4. [s EXCEPT !.select = got, !.mode = "configuration", !.request = m] \in LssSlave
    BY <1>2, <2>1 DEF LssSlave
  <2> QED
    BY <1>0, <1>2, <2>2, <2>3, <2>4 DEF LssSlave
<1>3. ASSUME m.cs = "fastscan", s.mode = "waiting", s.request = Lss!Nothing,
             s.active = Lss!Unconfigured /\ s.pending = Lss!Unconfigured
      PROVE  Lss!Scanned(a, s, m) \in LssSlave /\ (Assigned(s) => Assigned(Lss!Scanned(a, s, m)))
  <2>1. m.next \in Lss!Part
    BY <1>3, LssFrameIs
  <2> DEFINE sent == [s EXCEPT !.pos = 0, !.request = m]
             y == IF m.bit = 0 /\ m.next < m.sub THEN "configuration" ELSE s.mode
             passed == [s EXCEPT !.pos = m.next, !.request = m, !.mode = y]
  <2>2. sent \in LssSlave /\ sent.pending = Lss!Unconfigured /\ sent.request = m
    BY <1>0, <1>3 DEF LssSlave
  <2>3. passed \in LssSlave /\ passed.pending = Lss!Unconfigured /\ passed.request = m
    <3>1. y \in {"waiting", "configuration"}
      BY LssSlaveIs
    <3> HIDE DEF y
    <3> QED
      BY <1>3, <2>1, <3>1 DEF LssSlave
  <2>4. Lss!Scanned(a, s, m) \in {s, sent, passed}
    BY DEF Lss!Scanned
  <2> HIDE DEF sent, passed
  <2> QED
    BY <1>0, <1>3, <2>2, <2>3, <2>4
<1>4. ASSUME s.request = Lss!Nothing, m.cs = "configuration"
      PROVE  /\ [s EXCEPT !.mode = "configuration"] \in LssSlave
             /\ Assigned(s) => Assigned([s EXCEPT !.mode = "configuration"])
  BY <1>0, <1>4 DEF LssSlave
<1>5. ASSUME s.mode = "configuration", m.cs \notin {"waiting", "configuration"}
      PROVE  [s EXCEPT !.request = m] \in LssSlave /\ (Assigned(s) => Assigned([s EXCEPT !.request = m]))
  BY <1>5 DEF LssSlave
<1> HIDE DEF Assigned, Lss!Unconfigured
<1> QED
  BY <1>1, <1>2, <1>3, <1>4, <1>5 DEF Lss!Receive

(* A slave that works at its request, and what it answers.                 *)
LEMMA ServedIs ==
  ASSUME NEW a \in LssSlaves, NEW s \in LssSlave, NEW kept \in BOOLEAN, s.request # Lss!Nothing
  PROVE  /\ Lss!Served(a, s, kept) \in LssSlave
         /\ Assigned(s) => Assigned(Lss!Served(a, s, kept))
         /\ Lss!Served(a, s, kept).request = Lss!Nothing
         /\ \/ Lss!Answer(a, s, kept) = <<>>
            \/ \E x \in LssAnswer \ {Lss!Nothing} : Lss!Answer(a, s, kept) = <<x>>
<1>1. s.request \in LssFrame /\ s.request.cs # "configuration"
  BY LssSlaveIs
<1>2. a \in [Lss!Part -> Lss!Number]
  BY LssAssumption
<1>3. Lss!Nothing.cs = "none"
  BY DEF Lss!Nothing
<1>4. /\ Lss!Served(a, s, kept) \in LssSlave /\ Lss!Served(a, s, kept).request = Lss!Nothing
      /\ Assigned(s) => Assigned(Lss!Served(a, s, kept))
  <2> DEFINE idle == [s EXCEPT !.request = Lss!Nothing]
  <2>0. idle \in LssSlave
    BY DEF LssSlave
  <2>1. CASE s.request.cs = "waiting"
    <3> DEFINE f == Lss!Fresh(s.pending)
               n == [f EXCEPT !.rate = s.rate, !.used = s.used, !.stored = s.stored]
    <3>1. f \in LssSlave /\ f.active = f.pending /\ f.request = Lss!Nothing
      BY FreshIs, LssSlaveIs DEF Lss!Fresh
    <3>2. Lss!Served(a, s, kept) = n
      BY <2>1 DEF Lss!Served
    <3> HIDE DEF f
    <3>3. n \in LssSlave /\ n.active = n.pending /\ n.request = Lss!Nothing
      BY <3>1 DEF LssSlave
    <3> HIDE DEF n
    <3> QED
      BY <1>3, <3>2, <3>3 DEF Assigned
  <2>2. CASE s.request.cs = "store" /\ kept
    BY <2>2, <1>3 DEF Lss!Served, LssSlave, Assigned
  <2>3. CASE s.request.cs = "bit timing" /\ a \in DOMAIN LssSupported
    <3>1. PICK r \in LssRate : Lss!Served(a, s, kept) = [idle EXCEPT !.rate = r]
      BY <1>1, <2>3, LssFrameIs, LssSlaveIs DEF Lss!Served, LssRate
    <3> QED
      BY <1>3, <2>3, <3>1 DEF LssSlave, Assigned
  <2>4. CASE s.request.cs = "activate" /\ a \in DOMAIN LssSupported
    BY <1>3, <2>4 DEF Lss!Served, LssSlave, Assigned
  <2>5. CASE s.request.cs = "node id"
    <3>1. s.request.id \in LssId /\ Lss!Served(a, s, kept) = [idle EXCEPT !.pending = s.request.id]
      BY <1>1, <2>5, LssFrameIs DEF Lss!Served
    <3> QED
      BY <1>3, <2>5, <3>1 DEF LssSlave, Assigned
  <2>6. CASE \/ s.request.cs \notin {"waiting", "store", "bit timing", "activate", "node id"}
             \/ s.request.cs = "store" /\ ~kept
             \/ s.request.cs \in {"bit timing", "activate"} /\ a \notin DOMAIN LssSupported
    <3>1. Lss!Served(a, s, kept) = idle
      BY <2>6 DEF Lss!Served
    <3>2. Assigned(s) => Assigned(idle)
      BY <1>3, <2>6 DEF LssSlave, Assigned
    <3>3. idle.request = Lss!Nothing
      BY DEF LssSlave
    <3> HIDE DEF idle
    <3> QED
      BY <2>0, <3>1, <3>2, <3>3
  <2> QED
    BY <2>1, <2>2, <2>3, <2>4, <2>5, <2>6
<1>5. \/ Lss!Answer(a, s, kept) = <<>>
      \/ \E x \in LssAnswer \ {Lss!Nothing} : Lss!Answer(a, s, kept) = <<x>>
  <2> DEFINE answers == LssAnswer \ {Lss!Nothing}
  <2>1. \A x : x.cs # "none" => x # Lss!Nothing
    BY <1>3
  <2>2. /\ [cs |-> "selected"] \in answers /\ [cs |-> "identify"] \in answers
        /\ \A p \in Lss!Part : [cs |-> "inquire", part |-> p, value |-> a[p]] \in answers
        /\ \A e \in {0, 1, 255}, c \in {"node id", "bit timing", "store"} : [cs |-> c, err |-> e] \in answers
    <3>1. [cs |-> "selected"] \in answers /\ [cs |-> "identify"] \in answers
      BY <2>1 DEF LssAnswer
    <3>2. ASSUME NEW p \in Lss!Part PROVE [cs |-> "inquire", part |-> p, value |-> a[p]] \in answers
      BY <1>2, <2>1 DEF LssAnswer
    <3>3. ASSUME NEW e \in {0, 1, 255}, NEW c \in {"node id", "bit timing", "store"}
          PROVE  [cs |-> c, err |-> e] \in answers
      <4>1. [cs |-> c, err |-> e] \in LssAnswer
        BY DEF LssAnswer
      <4>2. [cs |-> c, err |-> e].cs # "none"
        OBVIOUS
      <4>3. [cs |-> c, err |-> e] # Lss!Nothing
        BY <1>3, <4>2
      <4> QED
        BY <4>1, <4>3
    <3> QED
      BY <3>1, <3>2, <3>3
  <2> HIDE DEF answers
  <2> DEFINE r == s.request
  <2>3. r.cs = "inquire" => r.part \in Lss!Part
    BY <1>1, LssFrameIs
  <2>4. r.cs \in {"waiting", "activate", "store", "select", "fastscan", "inquire", "node id", "bit timing"}
    BY <1>1, LssFrameIs
  <2>5. ASSUME r.cs \in {"select", "fastscan"} PROVE Lss!Answer(a, s, kept) = <<>> \/ \E x \in answers : Lss!Answer(a, s, kept) = <<x>>
    BY <1>3, <2>2, <2>5 DEF Lss!Answer
  <2>6. ASSUME r.cs = "inquire" PROVE Lss!Answer(a, s, kept) = <<>> \/ \E x \in answers : Lss!Answer(a, s, kept) = <<x>>
    BY <1>3, <2>2, <2>3, <2>6 DEF Lss!Answer
  <2>7. ASSUME r.cs \in {"node id", "store"} PROVE Lss!Answer(a, s, kept) = <<>> \/ \E x \in answers : Lss!Answer(a, s, kept) = <<x>>
    <3>1. PICK e \in {0, 1, 255} : Lss!Answer(a, s, kept) = <<[cs |-> r.cs, err |-> e]>>
      BY <2>7 DEF Lss!Answer
    <3> QED
      BY <2>2, <2>7, <3>1
  <2>8. ASSUME r.cs = "bit timing" PROVE Lss!Answer(a, s, kept) = <<>> \/ \E x \in answers : Lss!Answer(a, s, kept) = <<x>>
    <3>1. CASE a \in DOMAIN LssSupported
      <4>1. PICK e \in {0, 1, 255} : Lss!Answer(a, s, kept) = <<[cs |-> "bit timing", err |-> e]>>
        BY <2>8, <3>1 DEF Lss!Answer, Lss!RateAnswer
      <4> QED
        BY <2>2, <2>8, <4>1
    <3>2. CASE a \notin DOMAIN LssSupported
      BY <2>8, <3>2 DEF Lss!Answer, Lss!RateAnswer
    <3> QED
      BY <3>1, <3>2
  <2>9. CASE r.cs \in {"waiting", "activate"}
    BY <2>9 DEF Lss!Answer
  <2> QED
    BY <2>4, <2>5, <2>6, <2>7, <2>8, <2>9 DEF answers
<1> QED
  BY <1>4, <1>5

(* What a command of the master is by its command specifier.               *)
LEMMA LssCommandIs ==
  ASSUME NEW c \in LssCommand
  PROVE  /\ c.cs \in {"none", "switch", "store", "inquire", "node id", "bit timing", "fastscan"}
         /\ c.cs = "none" <=> c = Lss!Nothing
         /\ c.cs = "inquire" =>
              /\ c.part \in Lss!Part /\ c.upto \in Lss!Part /\ c.part <= c.upto
              /\ c = [cs |-> "inquire", part |-> c.part, upto |-> c.upto]
         /\ c.cs = "node id" => c.id \in LssId /\ c = [cs |-> "node id", id |-> c.id]
         /\ c.cs = "bit timing" => c.rate \in BitRates /\ c = [cs |-> "bit timing", rate |-> c.rate]
         /\ c.cs = "store" => c = [cs |-> "store"]
         /\ c.cs = "fastscan" =>
              /\ c.scan \in [Lss!Part -> {"scan", "match", "skip"}] /\ c.match \in [Lss!Part -> Lss!Number]
              /\ c.scan[0] # "skip" /\ \E p \in Lss!Part : p # 0 /\ c.scan[p] # "skip"
              /\ \A a, b \in LssSlaves : Alike(c, a, b) => a = b
<1> DEFINE plain == [cs : {"switch", "store"}]
           inquire == {x \in [cs : {"inquire"}, part : Lss!Part, upto : Lss!Part] : x.part <= x.upto}
           nodeId == [cs : {"node id"}, id : LssId]
           bitTiming == [cs : {"bit timing"}, rate : BitRates]
           fastscan == {[cs |-> "fastscan", scan |-> x.scan, match |-> x.match] : x \in LssScans}
<1>1. c = Lss!Nothing \/ c \in plain \/ c \in inquire \/ c \in nodeId \/ c \in bitTiming \/ c \in fastscan
  BY DEF LssCommand
<1>2. c = Lss!Nothing => c.cs = "none"
  BY DEF Lss!Nothing
<1>3. c \in plain => c.cs \in {"switch", "store"} /\ c = [cs |-> c.cs]
  OBVIOUS
<1>4. c \in inquire => /\ c.cs = "inquire" /\ c.part \in Lss!Part /\ c.upto \in Lss!Part
                       /\ c.part <= c.upto /\ c = [cs |-> "inquire", part |-> c.part, upto |-> c.upto]
  OBVIOUS
<1>5. c \in nodeId => c.cs = "node id" /\ c.id \in LssId /\ c = [cs |-> "node id", id |-> c.id]
  OBVIOUS
<1>6. c \in bitTiming => c.cs = "bit timing" /\ c.rate \in BitRates /\ c = [cs |-> "bit timing", rate |-> c.rate]
  OBVIOUS
<1>7. ASSUME c \in fastscan
      PROVE  /\ c.cs = "fastscan"
             /\ c.scan \in [Lss!Part -> {"scan", "match", "skip"}] /\ c.match \in [Lss!Part -> Lss!Number]
             /\ c.scan[0] # "skip" /\ \E p \in Lss!Part : p # 0 /\ c.scan[p] # "skip"
             /\ \A a, b \in LssSlaves : Alike(c, a, b) => a = b
  <2>1. PICK x \in LssScans : c = [cs |-> "fastscan", scan |-> x.scan, match |-> x.match]
    BY <1>7
  <2>2. x.scan \in [Lss!Part -> {"scan", "match", "skip"}] /\ x.match \in [Lss!Part -> Lss!Number]
    BY LssAssumption
  <2>3. x.scan[0] # "skip" /\ (\E p \in Lss!Part : p # 0 /\ x.scan[p] # "skip")
        /\ \A a, b \in LssSlaves :
             (\A p \in Lss!Part : x.scan[p] # "skip" => a[p] = b[p]) => a = b
    BY LssAssumption
  <2>4. c.cs = "fastscan" /\ c.scan = x.scan /\ c.match = x.match
    BY <2>1
  <2> HIDE DEF fastscan
  <2> QED
    BY <2>2, <2>3, <2>4 DEF Alike
<1> HIDE DEF plain, inquire, nodeId, bitTiming, fastscan
<1>8. \E k \in {"none", "switch", "store", "inquire", "node id", "bit timing", "fastscan"} : c.cs = k
  BY <1>1, <1>2, <1>3, <1>4, <1>5, <1>6, <1>7
<1>9. c.cs = "none" => c = Lss!Nothing
  BY <1>1, <1>3, <1>4, <1>5, <1>6, <1>7
<1> QED
  BY <1>1, <1>2, <1>3, <1>4, <1>5, <1>6, <1>7, <1>8, <1>9

(* What an answer in the mailbox of the master is.                         *)
LEMMA LssAnswerIs ==
  ASSUME NEW m \in LssAnswer
  PROVE  /\ m.cs = "none" <=> m = Lss!Nothing
         /\ m.cs \in {"none", "selected", "identify", "inquire", "node id", "bit timing", "store"}
         /\ m.cs = "inquire" => m.part \in Lss!Part /\ m.value \in Lss!Number
<1>1. m = Lss!Nothing => m.cs = "none"
  BY DEF Lss!Nothing
<1>2. \/ m = Lss!Nothing \/ m \in [cs : {"selected", "identify"}]
      \/ m \in [cs : {"inquire"}, part : Lss!Part, value : Lss!Number]
      \/ m \in [cs : {"node id", "bit timing", "store"}, err : {0, 1, 255}]
  BY DEF LssAnswer
<1> QED
  BY <1>1, <1>2

(* What the master sends is frames.                                        *)
LEMMA LssFramesAre ==
  /\ [cs |-> "waiting"] \in LssFrame /\ [cs |-> "configuration"] \in LssFrame
  /\ [cs |-> "activate"] \in LssFrame /\ [cs |-> "store"] \in LssFrame
  /\ \A p \in Lss!Part : [cs |-> "inquire", part |-> p] \in LssFrame
  /\ \A p \in Lss!Part, v \in Nat : [cs |-> "select", part |-> p, value |-> v] \in LssFrame
  /\ \A i \in LssId : [cs |-> "node id", id |-> i] \in LssFrame
  /\ \A r \in BitRates : [cs |-> "bit timing", rate |-> r] \in LssFrame
  /\ \A id, bit \in Nat, sub, next \in Lss!Part : Lss!Probe(id, bit, sub, next) \in LssFrame
BY DEF LssFrame, Lss!Probe

(* The least part, bit and number, and the last part.                      *)
LEMMA LssZeros ==
  /\ 0 \in Lss!Part /\ LssParts - 1 \in Lss!Part /\ 0 \in 0..(LssBits - 1) /\ LssBits - 1 \in 0..(LssBits - 1)
  /\ 0 \in Lss!Number /\ Lss!Part \subseteq Nat /\ Lss!Number \subseteq Nat
<1>1. LssBits \in Nat /\ LssBits > 0 /\ Lss!Twice[LssBits] \in Nat /\ Lss!Twice[LssBits] > 0
  BY LssNumbers
<1>2. Lss!Part = 0..(LssParts - 1) /\ LssParts \in Nat /\ LssParts > 0
  BY LssNumbers
<1>3. Lss!Number = 0..(Lss!Twice[LssBits] - 1)
  BY LssNumbers
<1>4. 0 \in Lss!Number
  BY <1>1, <1>3
<1>5. 0 \in Lss!Part /\ LssParts - 1 \in Lss!Part
  BY <1>2
<1>6. Lss!Part \subseteq Nat
  BY <1>2
<1>7. Lss!Number \subseteq Nat
  BY <1>1, <1>3
<1> QED
  BY <1>1, <1>4, <1>5, <1>6, <1>7

(* A service that begins keeps the types.                                  *)
LEMMA StartKeepsLssTypes ==
  ASSUME LssTypes, NEW state \in {"waiting", "selective", "global"}, NEW service \in LssCommand,
         NEW frames \in Seq(LssFrame), Lss!Start(state, service, frames),
         service.cs = "switch" => state = "selective",
         service.cs \in {"inquire", "node id", "bit timing", "store"} => state # "waiting",
         IF service.cs = "fastscan" THEN fs' = [Lss!NoScan EXCEPT !.state = "check"] /\ state = "waiting" ELSE UNCHANGED fs,
         chosen' \in [Lss!Part -> Nat \cup {Lss!Unasked}], disturbed' \in BOOLEAN
  PROVE  LssTypes'
<1>1. /\ mState' = state /\ command' = service /\ mailbox' = Lss!Nothing
      /\ toSlaves' = toSlaves \o frames /\ UNCHANGED <<found, slave>>
      /\ service # Lss!Nothing => result' = Lss!NoResult
  BY DEF Lss!Start
<1>2. toSlaves' \in Seq(LssFrame)
  <2>1. toSlaves \in Seq(LssFrame)
    BY DEF LssTypes
  <2> QED
    BY <1>1, <2>1, ConcatProperties
<1>3. fs' \in LssScan /\ (fs'.state = "scan" => fs'.id + 2 * Lss!Twice[fs'.bit] <= Lss!Twice[LssBits])
  <2>1. CASE service.cs = "fastscan"
    <3>1. fs' = [state |-> "check", sub |-> 0, bit |-> 0, id |-> 0]
      BY <2>1 DEF Lss!NoScan
    <3>2. 0 \in Lss!Part /\ 0 \in 0..(LssBits - 1) /\ 0 \in Lss!Number
      BY LssZeros
    <3> QED
      BY <3>1, <3>2 DEF LssScan
  <2>2. CASE service.cs # "fastscan"
    BY <2>2 DEF LssTypes
  <2> QED
    BY <2>1, <2>2
<1>4. service.cs = "fastscan" => state = "waiting" /\ fs'.state # "none" /\ service.scan[fs'.sub] # "skip"
  BY LssCommandIs DEF Lss!NoScan
<1>5. Lss!Nothing \in LssAnswer
  BY DEF LssAnswer
<1> QED
  BY <1>1, <1>2, <1>3, <1>4, <1>5 DEF LssTypes

(* Starting a service, whichever it is, keeps the types.                   *)
LEMMA StartsKeepLssTypes ==
  ASSUME LssTypes,
         \/ \E t \in LssTargets : Lss!Select(t)
         \/ Lss!SelectAll \/ Lss!Deselect \/ Lss!ConfigureStore \/ Lss!ActivateBit
         \/ \E rate \in BitRates : Lss!ConfigureBitTiming(rate)
         \/ \E n \in LssNodeIds \cup {Lss!Unconfigured} : Lss!ConfigureNodeId(n)
         \/ \E p \in Lss!Part : Lss!Inquire(p, p) \/ Lss!Inquire(0, LssParts - 1)
         \/ \E x \in LssScans : Lss!Fastscan(x)
  PROVE  LssTypes'
<1>1. /\ Lss!Nothing \in LssCommand /\ [cs |-> "switch"] \in LssCommand /\ [cs |-> "store"] \in LssCommand
      /\ \A p, q \in Lss!Part : p <= q => [cs |-> "inquire", part |-> p, upto |-> q] \in LssCommand
      /\ \A i \in LssId : [cs |-> "node id", id |-> i] \in LssCommand
      /\ \A r \in BitRates : [cs |-> "bit timing", rate |-> r] \in LssCommand
      /\ \A x \in LssScans : [cs |-> "fastscan", scan |-> x.scan, match |-> x.match] \in LssCommand
  BY DEF LssCommand
<1>2. /\ Lss!Nothing.cs = "none" /\ mState \in {"waiting", "selective", "global"}
      /\ chosen \in [Lss!Part -> Nat \cup {Lss!Unasked}] /\ disturbed \in BOOLEAN
  BY DEF Lss!Nothing, LssTypes
<1>3. \A m \in LssFrame : <<m>> \in Seq(LssFrame)
  OBVIOUS
<1>4. LssParts - 1 \in Lss!Part /\ 0 \in Lss!Part /\ 0 <= LssParts - 1 /\ \A p \in Lss!Part : p <= p
  BY LssNumbers
<1>5. ASSUME NEW t \in LssTargets, Lss!Select(t) PROVE LssTypes'
  <2> DEFINE frames == [k \in 1..LssParts |-> [cs |-> "select", part |-> k - 1, value |-> t[k - 1]]]
  <2>1. t \in [Lss!Part -> Nat]
    BY LssAssumption
  <2>2. \A k \in 1..LssParts : k - 1 \in Lss!Part
    BY LssNumbers
  <2>3. frames \in Seq(LssFrame)
    <3>1. \A k \in 1..LssParts : [cs |-> "select", part |-> k - 1, value |-> t[k - 1]] \in LssFrame
      BY <2>1, <2>2, LssFramesAre
    <3>2. LssParts \in Nat
      BY LssNumbers
    <3> QED
      BY <3>1, <3>2
  <2>4. /\ Lss!Start("selective", [cs |-> "switch"], frames) /\ chosen' = t
        /\ UNCHANGED <<fs, disturbed>>
    BY <1>5 DEF Lss!Select
  <2> HIDE DEF frames
  <2> QED
    BY <1>1, <1>2, <2>1, <2>3, <2>4, StartKeepsLssTypes
<1>6. ASSUME Lss!SelectAll PROVE LssTypes'
  <2>1. chosen' \in [Lss!Part -> Nat \cup {Lss!Unasked}]
    BY <1>6 DEF Lss!SelectAll
  <2> QED
    BY <1>1, <1>2, <1>3, <1>6, <2>1, LssFramesAre, StartKeepsLssTypes DEF Lss!SelectAll
<1>7. ASSUME Lss!Deselect PROVE LssTypes'
  BY <1>1, <1>2, <1>3, <1>7, LssFramesAre, StartKeepsLssTypes DEF Lss!Deselect, Lss!Quiet
<1>8. ASSUME Lss!ConfigureStore PROVE LssTypes'
  BY <1>1, <1>2, <1>3, <1>8, LssFramesAre, StartKeepsLssTypes DEF Lss!ConfigureStore
<1>9. ASSUME Lss!ActivateBit PROVE LssTypes'
  BY <1>1, <1>2, <1>3, <1>9, LssFramesAre, StartKeepsLssTypes DEF Lss!ActivateBit
<1>10. ASSUME NEW rate \in BitRates, Lss!ConfigureBitTiming(rate) PROVE LssTypes'
  BY <1>1, <1>2, <1>3, <1>10, LssFramesAre, StartKeepsLssTypes DEF Lss!ConfigureBitTiming
<1>11. ASSUME NEW n \in LssNodeIds \cup {Lss!Unconfigured}, Lss!ConfigureNodeId(n) PROVE LssTypes'
  BY <1>1, <1>2, <1>3, <1>11, LssFramesAre, StartKeepsLssTypes DEF Lss!ConfigureNodeId, LssId
<1>12. ASSUME NEW p \in Lss!Part, NEW q \in Lss!Part, p <= q, Lss!Inquire(p, q) PROVE LssTypes'
  BY <1>1, <1>2, <1>3, <1>12, LssFramesAre, StartKeepsLssTypes DEF Lss!Inquire
<1>13. ASSUME NEW x \in LssScans, Lss!Fastscan(x) PROVE LssTypes'
  <2>1. 0 \in Nat /\ Lss!Confirm \in Nat
    BY DEF Lss!Confirm
  <2> QED
    BY <1>1, <1>2, <1>3, <1>4, <1>13, <2>1, LssFramesAre, StartKeepsLssTypes DEF Lss!Fastscan
<1> QED
  BY <1>4, <1>5, <1>6, <1>7, <1>8, <1>9, <1>10, <1>11, <1>12, <1>13

(* The frames and requests of the slaves keep the types.                   *)
LEMMA SlavesKeepLssTypes ==
  ASSUME LssTypes,
         \/ Lss!Deliver \/ Lss!LoseFrame
         \/ \E a \in LssSlaves, kept \in BOOLEAN : Lss!CO_LSSslave_process(a, kept)
  PROVE  LssTypes'
<1>0. toSlaves \in Seq(LssFrame) /\ slave \in [LssSlaves -> LssSlave]
  BY DEF LssTypes
<1>1. CASE Lss!Deliver
  <2>1. Head(toSlaves) \in LssFrame /\ Tail(toSlaves) \in Seq(LssFrame)
    BY <1>0, <1>1 DEF Lss!Deliver
  <2>2. slave' = [a \in LssSlaves |-> Lss!Receive(a, slave[a], Head(toSlaves))]
    BY <1>1 DEF Lss!Deliver
  <2>3. slave' \in [LssSlaves -> LssSlave]
    BY <1>0, <2>1, <2>2, ReceiveIs
  <2>4. disturbed' \in BOOLEAN /\ toSlaves' = Tail(toSlaves)
        /\ UNCHANGED <<mState, command, mailbox, fs, found, chosen, result>>
    BY <1>1 DEF Lss!Deliver, Lss!masterVars
  <2> QED
    BY <2>1, <2>3, <2>4 DEF LssTypes
<1>2. CASE Lss!LoseFrame
  <2>1. Tail(toSlaves) \in Seq(LssFrame)
    BY <1>0, <1>2 DEF Lss!LoseFrame
  <2>2. disturbed' \in BOOLEAN /\ toSlaves' = Tail(toSlaves)
        /\ UNCHANGED <<mState, command, mailbox, fs, found, chosen, result, slave>>
    BY <1>2 DEF Lss!LoseFrame, Lss!masterVars
  <2> QED
    BY <2>1, <2>2 DEF LssTypes
<1>3. ASSUME NEW a \in LssSlaves, NEW kept \in BOOLEAN, Lss!CO_LSSslave_process(a, kept)
      PROVE  LssTypes'
  <2> DEFINE s == slave[a]
  <2>1. s \in LssSlave /\ s.request # Lss!Nothing
    BY <1>0, <1>3 DEF Lss!CO_LSSslave_process
  <2>2. slave' \in [LssSlaves -> LssSlave]
    <3>1. slave' = [slave EXCEPT ![a] = Lss!Served(a, s, kept)]
      BY <1>3 DEF Lss!CO_LSSslave_process
    <3> QED
      BY <1>0, <2>1, <3>1, ServedIs
  <2>3. mailbox' \in LssAnswer /\ (command = Lss!Nothing => mailbox' = mailbox) /\ disturbed' \in BOOLEAN
    <3>1. \/ Lss!Reply(Lss!Answer(a, s, kept)) /\ disturbed' = disturbed
          \/ mailbox' = mailbox /\ disturbed' = TRUE
      BY <1>3 DEF Lss!CO_LSSslave_process
    <3>2. Lss!Answer(a, s, kept) # <<>> => Lss!Answer(a, s, kept)[1] \in LssAnswer
      BY <2>1, ServedIs
    <3> QED
      BY <3>1, <3>2 DEF Lss!Reply, LssTypes
  <2>4. UNCHANGED <<mState, command, fs, found, chosen, result, toSlaves>>
    BY <1>3 DEF Lss!CO_LSSslave_process
  <2> QED
    BY <2>2, <2>3, <2>4 DEF LssTypes
<1> QED
  BY <1>1, <1>2, <1>3

(* A confirmed service that goes on, ends or is given up keeps the types.  *)
LEMMA ConfirmedKeepsLssTypes ==
  ASSUME LssTypes, Lss!Confirmed \/ Lss!Expire
  PROVE  LssTypes'
<1>0. /\ command \in LssCommand /\ mailbox \in LssAnswer /\ Lss!Nothing \in LssCommand
      /\ Lss!Nothing \in LssAnswer /\ Lss!Nothing.cs = "none" /\ toSlaves \in Seq(LssFrame)
  BY DEF LssTypes, LssCommand, LssAnswer, Lss!Nothing
<1>1. CASE Lss!Expire
  <2>1. /\ command' = Lss!Nothing /\ mailbox = Lss!Nothing /\ disturbed' \in BOOLEAN
        /\ mState' \in {"waiting", mState} /\ UNCHANGED <<mailbox, fs, found, chosen, slave, toSlaves>>
    BY <1>1 DEF Lss!Expire, Lss!Return, Lss!TimeOut, Lss!Quiet
  <2> QED
    BY <1>0, <2>1 DEF LssTypes
<1>2. CASE Lss!Confirmed
  <2>1. /\ mailbox' = Lss!Nothing /\ command # Lss!Nothing /\ mailbox # Lss!Nothing
        /\ UNCHANGED <<mState, fs, chosen, slave, disturbed>>
    BY <1>2 DEF Lss!Confirmed
  <2>2. found' \in [Lss!Part -> Lss!Number]
    <3>1. found' = found \/ /\ command.cs = "inquire" /\ mailbox.cs = "inquire"
                            /\ found' = [found EXCEPT ![command.part] = mailbox.value]
      BY <1>2 DEF Lss!Confirmed, Lss!Expected
    <3>2. found \in [Lss!Part -> Lss!Number]
      BY DEF LssTypes
    <3> QED
      BY <1>0, <3>1, <3>2, LssAnswerIs
  <2>3. CASE UNCHANGED <<command, result, toSlaves>>
    BY <1>0, <2>1, <2>2, <2>3 DEF LssTypes
  <2>4. CASE command' = Lss!Nothing /\ UNCHANGED toSlaves
    BY <1>0, <2>1, <2>2, <2>4 DEF LssTypes
  <2>5. CASE /\ command.cs = "inquire" /\ command.part < command.upto
             /\ command' = [command EXCEPT !.part = @ + 1] /\ UNCHANGED result
             /\ toSlaves' = Append(toSlaves, [cs |-> "inquire", part |-> command.part + 1])
    <3>1. /\ command.part \in Lss!Part /\ command.upto \in Lss!Part
          /\ command = [cs |-> "inquire", part |-> command.part, upto |-> command.upto]
      BY <1>0, <2>5, LssCommandIs
    <3>2. command.part + 1 \in Lss!Part /\ command.part + 1 <= command.upto
      BY <2>5, <3>1, LssNumbers
    <3>3. command' = [cs |-> "inquire", part |-> command.part + 1, upto |-> command.upto]
      BY <2>5, <3>1
    <3>4. command' \in LssCommand /\ command'.cs = "inquire"
      BY <3>1, <3>2, <3>3 DEF LssCommand
    <3>5. toSlaves' \in Seq(LssFrame)
      BY <1>0, <2>5, <3>2, LssFramesAre, AppendProperties
    <3> QED
      BY <1>0, <2>1, <2>2, <2>5, <3>4, <3>5 DEF LssTypes
  <2> QED
    BY <1>2, <2>3, <2>4, <2>5 DEF Lss!Confirmed, Lss!Return
<1> QED
  BY <1>1, <1>2

(* The part of an address that is scanned next.                            *)
LEMMA NextSubIs ==
  ASSUME NEW sub \in Lss!Part
  PROVE  /\ Lss!NextSub(sub) \in Lss!Part
         /\ Lss!NextSub(sub) = 0 => \A p \in Lss!Part : p > sub => command.scan[p] = "skip"
         /\ Lss!NextSub(sub) # 0 =>
              /\ Lss!NextSub(sub) > sub /\ command.scan[Lss!NextSub(sub)] # "skip"
              /\ \A p \in Lss!Part : p > sub /\ p < Lss!NextSub(sub) => command.scan[p] = "skip"
<1> DEFINE rest == {p \in Lss!Part : p > sub /\ command.scan[p] # "skip"}
           n == Lss!NextSub(sub)
<1>0. Lss!Part \subseteq Nat /\ 0 \in Lss!Part
  BY LssNumbers, LssZeros
<1>1. n = IF rest = {} THEN 0 ELSE CHOOSE p \in rest : \A q \in rest : p <= q
  BY DEF Lss!NextSub
<1> HIDE DEF n
<1>2. CASE rest = {}
  <2>1. n = 0
    BY <1>1, <1>2
  <2>2. \A p \in Lss!Part : p > sub => command.scan[p] = "skip"
    BY <1>2
  <2> QED
    BY <1>0, <2>1, <2>2 DEF n
<1>3. CASE rest # {}
  <2>1. \E p \in rest : \A q \in rest : p <= q
    <3>1. rest \subseteq Nat
      BY <1>0
    <3> HIDE DEF rest
    <3> QED
      BY <1>3, <3>1, LeastNatural
  <2>2. n \in rest /\ \A q \in rest : n <= q
    <3> HIDE DEF rest
    <3> QED
      BY <1>1, <1>3, <2>1
  <2>3. n \in Lss!Part /\ n > sub /\ command.scan[n] # "skip"
    BY <2>2
  <2>4. ASSUME NEW p \in Lss!Part, p > sub, p < n PROVE command.scan[p] = "skip"
    <3>1. p \in Nat /\ n \in Nat
      BY <1>0, <2>3
    <3>2. p \notin rest
      <4> HIDE DEF rest
      <4> QED
        BY <2>2, <2>4, <3>1
    <3> QED
      BY <2>4, <3>2
  <2>5. n # 0
    BY <1>0, <2>3
  <2> QED
    BY <2>3, <2>4, <2>5 DEF n
<1> QED
  BY <1>2, <1>3 DEF n

(* What a probe leaves in the state of the scan.                           *)
LEMMA ProbeIsScan ==
  ASSUME LssTypes, command.cs = "fastscan", NEW sub \in Lss!Part, NEW state \in {"scan", "verify"},
         NEW bit \in 0..(LssBits - 1), NEW id \in Lss!Number, NEW next \in Lss!Part,
         Lss!SendProbe(state, sub, bit, id, next), command.scan[sub] # "skip",
         state = "scan" => id + 2 * Lss!Twice[bit] <= Lss!Twice[LssBits],
         found' \in [Lss!Part -> Lss!Number], mailbox' = Lss!Nothing, disturbed' \in BOOLEAN,
         UNCHANGED slave
  PROVE  LssTypes'
<1>1. fs' = [state |-> state, sub |-> sub, bit |-> bit, id |-> id]
      /\ toSlaves' = Append(toSlaves, Lss!Probe(id, bit, sub, next))
      /\ UNCHANGED <<mState, command, result, chosen>>
  BY DEF Lss!SendProbe
<1>2. fs' \in LssScan /\ fs'.state = state /\ fs'.sub = sub /\ fs'.bit = bit /\ fs'.id = id
  BY <1>1 DEF LssScan
<1>3. toSlaves' \in Seq(LssFrame)
  <2>1. id \in Nat
    BY LssNumbers
  <2>2. bit \in Nat
    BY LssNumbers
  <2>3. toSlaves \in Seq(LssFrame) /\ Lss!Probe(id, bit, sub, next) \in LssFrame
    BY <2>1, <2>2, LssFramesAre DEF LssTypes
  <2> QED
    BY <1>1, <2>3, AppendProperties
<1>4. Lss!Nothing \in LssAnswer
  BY DEF LssAnswer
<1> QED
  BY <1>1, <1>2, <1>3, <1>4 DEF LssTypes

(* The scan of a part begins at its highest bit, or it is verified.        *)
LEMMA ScanPartIs ==
  ASSUME LssTypes, command.cs = "fastscan", NEW sub \in Lss!Part, command.scan[sub] # "skip",
         Lss!ScanPart(sub), found' \in [Lss!Part -> Lss!Number], mailbox' = Lss!Nothing,
         disturbed' \in BOOLEAN, UNCHANGED slave
  PROVE  LssTypes'
<1>1. command.match \in [Lss!Part -> Lss!Number]
  BY LssCommandIs DEF LssTypes
<1>2. CASE Lss!Verify(sub, command.match[sub])
  <2>1. Lss!SendProbe("verify", sub, 0, command.match[sub], Lss!NextSub(sub))
    BY <1>2 DEF Lss!Verify
  <2> QED
    BY <1>1, <2>1, NextSubIs, LssZeros, ProbeIsScan
<1>3. CASE Lss!SendProbe("scan", sub, LssBits - 1, 0, sub)
  <2>1. 0 + 2 * Lss!Twice[LssBits - 1] <= Lss!Twice[LssBits]
    <3>1. LssBits - 1 \in Nat /\ (LssBits - 1) + 1 = LssBits
      BY LssNumbers
    <3>2. Lss!Twice[LssBits] = 2 * Lss!Twice[LssBits - 1] /\ Lss!Twice[LssBits] \in Nat
      BY <3>1, LssNumbers
    <3>3. Lss!Twice[LssBits - 1] \in Nat
      BY <3>1, LssNumbers
    <3> QED
      BY <3>2, <3>3
  <2> QED
    BY <1>3, <2>1, LssZeros, ProbeIsScan
<1> QED
  BY <1>2, <1>3 DEF Lss!ScanPart

(* The number that a bit of the scan gives.                                *)
ScannedId == IF mailbox.cs = "identify" THEN fs.id ELSE fs.id + Lss!Twice[fs.bit]
LEMMA ScannedIdIs ==
  ASSUME LssTypes, fs.state = "scan"
  PROVE  /\ fs.bit \in Nat /\ ScannedId \in Lss!Number
         /\ fs.bit # 0 => /\ fs.bit - 1 \in 0..(LssBits - 1)
                          /\ ScannedId + 2 * Lss!Twice[fs.bit - 1] <= Lss!Twice[LssBits]
<1>1. fs.bit \in 0..(LssBits - 1) /\ LssBits \in Nat /\ fs.id \in Lss!Number
      /\ fs.id + 2 * Lss!Twice[fs.bit] <= Lss!Twice[LssBits]
  BY LssNumbers DEF LssTypes, LssScan
<1>2. fs.bit \in Nat
  BY <1>1
<1>3. Lss!Twice[fs.bit] \in Nat /\ Lss!Twice[fs.bit] > 0 /\ Lss!Twice[LssBits] \in Nat
      /\ Lss!Number = 0..(Lss!Twice[LssBits] - 1)
  BY <1>1, <1>2, LssNumbers
<1>4. ScannedId \in Nat /\ ScannedId + Lss!Twice[fs.bit] <= Lss!Twice[LssBits]
  BY <1>1, <1>3 DEF ScannedId
<1>5. ASSUME fs.bit # 0
      PROVE  fs.bit - 1 \in 0..(LssBits - 1) /\ ScannedId + 2 * Lss!Twice[fs.bit - 1] <= Lss!Twice[LssBits]
  <2>1. fs.bit - 1 \in Nat /\ (fs.bit - 1) + 1 = fs.bit
    BY <1>2, <1>5
  <2>2. Lss!Twice[fs.bit] = 2 * Lss!Twice[fs.bit - 1]
    BY <2>1, LssNumbers
  <2>3. fs.bit - 1 \in 0..(LssBits - 1)
    BY <1>1, <1>5
  <2> QED
    BY <1>4, <2>2, <2>3
<1> QED
  BY <1>2, <1>3, <1>4, <1>5

(* A step of the scan keeps the types.                                     *)
LEMMA ScanKeepsLssTypes ==
  ASSUME LssTypes, Lss!FsExpire
  PROVE  LssTypes'
<1> DEFINE ack == mailbox.cs = "identify"
           wrong == mailbox # Lss!Nothing /\ ~ack
<1>0. /\ command.cs = "fastscan" /\ command # Lss!Nothing /\ mailbox' = Lss!Nothing
      /\ UNCHANGED slave /\ disturbed' \in BOOLEAN
      /\ command \in LssCommand /\ fs \in LssScan /\ found \in [Lss!Part -> Lss!Number]
  BY DEF Lss!FsExpire, Lss!TimeOut, Lss!Quiet, LssTypes
<1>1. /\ fs.sub \in Lss!Part /\ fs.id \in Lss!Number /\ fs.bit \in 0..(LssBits - 1)
      /\ command.scan[fs.sub] # "skip" /\ command.scan[0] # "skip"
  BY <1>0, LssCommandIs DEF LssTypes, LssScan
<1>2. Lss!Nothing \in LssCommand /\ Lss!Nothing \in LssAnswer /\ Lss!Nothing.cs = "none"
  BY DEF LssCommand, LssAnswer, Lss!Nothing
<1>3. ASSUME NEW ret, Lss!GiveUp(ret), found' \in [Lss!Part -> Lss!Number] PROVE LssTypes'
  BY <1>0, <1>2, <1>3 DEF Lss!GiveUp, Lss!Return, LssTypes
<1>4. CASE found' = [p \in Lss!Part |-> 0] /\ Lss!ScanPart(0)
  <2>1. found' \in [Lss!Part -> Lss!Number]
    BY <1>4, LssZeros
  <2> QED
    BY <1>0, <1>1, <1>4, <2>1, LssZeros, ScanPartIs
<1>5. CASE UNCHANGED found /\ \E ret : Lss!GiveUp(ret)
  BY <1>0, <1>3, <1>5
<1>6. CASE /\ fs.state = "scan" /\ UNCHANGED found
           /\ IF fs.bit = 0 THEN Lss!Verify(fs.sub, ScannedId)
              ELSE Lss!SendProbe("scan", fs.sub, fs.bit - 1, ScannedId, fs.sub)
  <2>1. CASE fs.bit = 0
    <3>1. Lss!SendProbe("verify", fs.sub, 0, ScannedId, Lss!NextSub(fs.sub))
      BY <1>6, <2>1 DEF Lss!Verify
    <3>2. ScannedId \in Lss!Number /\ Lss!NextSub(fs.sub) \in Lss!Part
      BY <1>1, <1>6, NextSubIs, ScannedIdIs
    <3> QED
      BY <1>0, <1>1, <1>6, <3>1, <3>2, LssZeros, ProbeIsScan
  <2>2. CASE fs.bit # 0
    BY <1>0, <1>1, <1>6, <2>2, ScannedIdIs, ProbeIsScan
  <2> QED
    BY <2>1, <2>2
<1>7. CASE found' = [found EXCEPT ![fs.sub] = 0] /\ \E ret : Lss!GiveUp(ret)
  <2>1. found' \in [Lss!Part -> Lss!Number]
    BY <1>0, <1>1, <1>7, LssZeros
  <2> QED
    BY <1>3, <1>7, <2>1
<1>8. CASE /\ found' = [found EXCEPT ![fs.sub] = fs.id]
           /\ IF Lss!NextSub(fs.sub) # 0 THEN Lss!ScanPart(Lss!NextSub(fs.sub))
              ELSE /\ Lss!Return("ok") /\ mState' = "selective"
                   /\ chosen' = [p \in Lss!Part |->
                                   IF command.scan[p] = "skip" THEN Lss!Unasked ELSE found'[p]]
                   /\ UNCHANGED <<fs, toSlaves>>
  <2>1. found' \in [Lss!Part -> Lss!Number]
    BY <1>0, <1>1, <1>8
  <2>2. CASE Lss!NextSub(fs.sub) # 0
    BY <1>0, <1>1, <1>8, <2>1, <2>2, NextSubIs, ScanPartIs
  <2>3. CASE Lss!NextSub(fs.sub) = 0
    <3>1. chosen' \in [Lss!Part -> Nat \cup {Lss!Unasked}]
      <4>1. \A p \in Lss!Part : found'[p] \in Nat
        BY <2>1, LssZeros
      <4> QED
        BY <1>8, <2>3, <4>1
    <3> QED
      BY <1>0, <1>2, <1>8, <2>1, <2>3, <3>1 DEF Lss!Return, LssTypes
  <2> QED
    BY <2>2, <2>3
<1> QED
  BY <1>4, <1>5, <1>6, <1>7, <1>8 DEF Lss!FsExpire, ScannedId

(* No slave leaves configuration state with a node-ID that it does not     *)
(* take up.                                                                *)
LEMMA AssignedStep ==
  ASSUME LssTypes, AssignedInv, Lss!LssNext
  PROVE  AssignedInv'
<1>0. toSlaves \in Seq(LssFrame) /\ slave \in [LssSlaves -> LssSlave]
  BY DEF LssTypes
<1>1. CASE Lss!Deliver
  <2>1. Head(toSlaves) \in LssFrame
    BY <1>0, <1>1 DEF Lss!Deliver
  <2>2. slave' = [a \in LssSlaves |-> Lss!Receive(a, slave[a], Head(toSlaves))]
    BY <1>1 DEF Lss!Deliver
  <2>3. \A a \in LssSlaves : Assigned(slave'[a])
    BY <1>0, <2>1, <2>2, ReceiveIs DEF AssignedInv
  <2> QED
    BY <2>3 DEF AssignedInv, Assigned
<1>2. ASSUME NEW a \in LssSlaves, NEW kept \in BOOLEAN, Lss!CO_LSSslave_process(a, kept)
      PROVE  AssignedInv'
  <2>1. slave[a] \in LssSlave /\ slave[a].request # Lss!Nothing
        /\ slave' = [slave EXCEPT ![a] = Lss!Served(a, slave[a], kept)]
    BY <1>0, <1>2 DEF Lss!CO_LSSslave_process
  <2>2. \A b \in LssSlaves : Assigned(slave'[b])
    BY <1>0, <2>1, ServedIs DEF AssignedInv
  <2> QED
    BY <2>2 DEF AssignedInv, Assigned
<1>3. CASE UNCHANGED slave
  BY <1>3 DEF AssignedInv, Assigned
<1> QED
  BY <1>1, <1>2, <1>3 DEF Lss!LssNext, Lss!LoseFrame, Lss!Select, Lss!SelectAll, Lss!Deselect,
     Lss!ConfigureStore, Lss!ActivateBit, Lss!ConfigureBitTiming, Lss!ConfigureNodeId, Lss!Inquire,
     Lss!Fastscan, Lss!Start, Lss!Confirmed, Lss!Expire, Lss!FsExpire

(* What becomes of a slave without a request when a frame comes.           *)
LEMMA AsleepReceives ==
  ASSUME NEW a \in LssSlaves, NEW s \in LssSlave, NEW m \in LssFrame, s.request = Lss!Nothing,
         NEW r, r = Lss!Receive(a, s, m)
  PROVE  /\ m.cs = "waiting" => r.mode = "waiting" /\ r.request \in {Lss!Nothing, m}
         /\ m.cs = "configuration" => r.mode = "configuration" /\ r.request = Lss!Nothing
         /\ m.cs \notin {"waiting", "configuration"} /\ s.mode = "configuration" =>
              /\ r.mode = "configuration" /\ r.request = m
         /\ m.cs \notin {"waiting", "configuration", "select", "fastscan"} /\ s.mode = "waiting" => r = s
<1>1. m.cs = "waiting" => r.mode = "waiting" /\ r.request \in {Lss!Nothing, m}
  BY DEF Lss!Receive, Lss!Switched, LssSlave
<1>2. m.cs = "configuration" => r.mode = "configuration" /\ r.request = Lss!Nothing
  BY DEF Lss!Receive, LssSlave
<1>3. m.cs \notin {"waiting", "configuration"} /\ s.mode = "configuration" =>
        r.mode = "configuration" /\ r.request = m
  BY DEF Lss!Receive, LssSlave
<1>4. m.cs \notin {"waiting", "configuration", "select", "fastscan"} /\ s.mode = "waiting" => r = s
  BY DEF Lss!Receive
<1> QED
  BY <1>1, <1>2, <1>3, <1>4

(* A part of an address comes to a slave that waits.                       *)
LEMMA PartComes ==
  ASSUME NEW a \in LssSlaves, NEW s \in LssSlave, NEW m \in LssFrame, s.request = Lss!Nothing,
         s.mode = "waiting", m.cs = "select", NEW r, r = Lss!Receive(a, s, m)
  PROVE  /\ r.select = [s.select EXCEPT ![m.part] = m.value]
         /\ IF m.part = LssParts - 1 /\ r.select = a
            THEN r.mode = "configuration" /\ r.request = m
            ELSE r.mode = "waiting" /\ r.request = Lss!Nothing
<1> DEFINE got == [s.select EXCEPT ![m.part] = m.value]
<1>1. r = IF m.part = LssParts - 1 /\ got = a
          THEN [s EXCEPT !.select = got, !.mode = "configuration", !.request = m]
          ELSE [s EXCEPT !.select = got]
  BY DEF Lss!Receive, Lss!Selected
<1> HIDE DEF got
<1>2. r.select = got
  BY <1>1 DEF LssSlave
<1>3. IF m.part = LssParts - 1 /\ got = a
      THEN r.mode = "configuration" /\ r.request = m ELSE r.mode = "waiting" /\ r.request = Lss!Nothing
  BY <1>1 DEF LssSlave
<1> QED
  BY <1>2, <1>3 DEF got

(* A probe comes to a slave that waits.                                    *)
LEMMA ProbeComes ==
  ASSUME NEW a \in LssSlaves, NEW s \in LssSlave, NEW m \in LssFrame, s.request = Lss!Nothing,
         s.mode = "waiting", m.cs = "fastscan", NEW r, r = Lss!Receive(a, s, m)
  PROVE  /\ TakesPart(r) <=> TakesPart(s)
         /\ \/ r = s /\ (TakesPart(s) => m.bit # Lss!Confirm /\ ~(s.pos = m.sub /\ Lss!Same(a[m.sub], m.id, m.bit)))
            \/ TakesPart(s) /\ m.bit = Lss!Confirm /\ r.pos = 0 /\ r.request = m /\ r.mode = "waiting"
            \/ /\ TakesPart(s) /\ m.bit # Lss!Confirm /\ s.pos = m.sub /\ Lss!Same(a[m.sub], m.id, m.bit)
               /\ r.pos = m.next /\ r.request = m
               /\ r.mode = IF m.bit = 0 /\ m.next < m.sub THEN "configuration" ELSE "waiting"
<1>1. CASE ~TakesPart(s)
  BY <1>1 DEF TakesPart, Lss!Receive
<1>2. CASE TakesPart(s)
  <2>1. r = Lss!Scanned(a, s, m)
    BY <1>2 DEF TakesPart, Lss!Receive
  <2>2. CASE m.bit = Lss!Confirm
    <3>1. r = [s EXCEPT !.pos = 0, !.request = m]
      BY <2>1, <2>2 DEF Lss!Scanned
    <3>2. r.pos = 0 /\ r.request = m /\ r.mode = s.mode /\ r.active = s.active /\ r.pending = s.pending
      BY <3>1 DEF LssSlave
    <3> QED
      BY <1>2, <2>2, <3>2 DEF TakesPart
  <2>3. CASE m.bit # Lss!Confirm /\ s.pos = m.sub /\ Lss!Same(a[m.sub], m.id, m.bit)
    <3> DEFINE y == IF m.bit = 0 /\ m.next < m.sub THEN "configuration" ELSE s.mode
    <3>1. r = [s EXCEPT !.pos = m.next, !.request = m, !.mode = y]
      BY <2>1, <2>3 DEF Lss!Scanned
    <3> HIDE DEF y
    <3>2. r.pos = m.next /\ r.request = m /\ r.mode = y /\ r.active = s.active /\ r.pending = s.pending
      BY <3>1 DEF LssSlave
    <3> QED
      BY <1>2, <2>3, <3>2 DEF TakesPart, y
  <2>4. CASE m.bit # Lss!Confirm /\ ~(s.pos = m.sub /\ Lss!Same(a[m.sub], m.id, m.bit))
    BY <1>2, <2>1, <2>4 DEF Lss!Scanned
  <2> QED
    BY <2>2, <2>3, <2>4
<1> QED
  BY <1>1, <1>2

(* A slave that resets its communication waits.                            *)
LEMMA ServedResets ==
  ASSUME NEW a \in LssSlaves, NEW s \in LssSlave, NEW kept \in BOOLEAN, s.request.cs = "waiting"
  PROVE  Lss!Served(a, s, kept).mode = "waiting" /\ Lss!Answer(a, s, kept) = <<>>
<1>1. Lss!Served(a, s, kept) = [Lss!Fresh(s.pending) EXCEPT !.rate = s.rate, !.used = s.used, !.stored = s.stored]
  BY DEF Lss!Served
<1>2. Lss!Fresh(s.pending) \in LssSlave /\ Lss!Fresh(s.pending).mode = "waiting"
  BY LssSlaveIs, FreshIs DEF Lss!Fresh
<1>3. Lss!Served(a, s, kept).mode = "waiting"
  BY <1>1, <1>2 DEF LssSlave
<1>4. Lss!Answer(a, s, kept) = <<>>
  BY DEF Lss!Answer
<1> QED
  BY <1>3, <1>4

(* What a slave keeps when it works at another request.                    *)
LEMMA ServedKeeps ==
  ASSUME NEW a \in LssSlaves, NEW s \in LssSlave, NEW kept \in BOOLEAN, s.request # Lss!Nothing,
         s.request.cs # "waiting"
  PROVE  /\ Lss!Served(a, s, kept).mode = s.mode
         /\ Lss!Served(a, s, kept).pos = s.pos
         /\ Lss!Served(a, s, kept).active = s.active
         /\ s.request.cs # "node id" => Lss!Served(a, s, kept).pending = s.pending
         /\ s.request.cs \in {"inquire", "node id"} => Lss!Served(a, s, kept).used = s.used
         /\ s.request.cs \in {"inquire", "node id", "activate"} => Lss!Served(a, s, kept).rate = s.rate
         /\ s.request.cs = "activate" /\ a \in DOMAIN LssSupported => Lss!Served(a, s, kept).used = s.rate
<1>0. PICK r : r = Lss!Served(a, s, kept)
  OBVIOUS
<1> DEFINE Kept ==
  /\ r.mode = s.mode
  /\ r.pos = s.pos
  /\ r.active = s.active
  /\ s.request.cs # "node id" => r.pending = s.pending
  /\ s.request.cs \in {"inquire", "node id"} => r.used = s.used
  /\ s.request.cs \in {"inquire", "node id", "activate"} => r.rate = s.rate
  /\ s.request.cs = "activate" /\ a \in DOMAIN LssSupported => r.used = s.rate
<1>1. CASE s.request.cs = "store" /\ kept
  BY <1>0, <1>1 DEF Lss!Served, LssSlave
<1>2. CASE s.request.cs = "bit timing" /\ a \in DOMAIN LssSupported
  <2>1. PICK x : r = [s EXCEPT !.request = Lss!Nothing, !.rate = x]
    BY <1>0, <1>2 DEF Lss!Served, LssSlave
  <2>2. Kept
    BY <1>2, <2>1 DEF LssSlave
  <2> QED
    BY <1>0, <2>2
<1>3. CASE s.request.cs = "activate" /\ a \in DOMAIN LssSupported
  BY <1>0, <1>3 DEF Lss!Served, LssSlave
<1>4. CASE s.request.cs = "node id"
  BY <1>0, <1>4 DEF Lss!Served, LssSlave
<1>5. CASE \/ s.request.cs \notin {"store", "bit timing", "activate", "node id"}
           \/ s.request.cs = "store" /\ ~kept
           \/ s.request.cs \in {"bit timing", "activate"} /\ a \notin DOMAIN LssSupported
  <2>1. r = [s EXCEPT !.request = Lss!Nothing]
    BY <1>0, <1>5 DEF Lss!Served
  <2>2. Kept
    BY <1>5, <2>1 DEF LssSlave
  <2> QED
    BY <1>0, <2>2
<1> QED
  BY <1>1, <1>2, <1>3, <1>4, <1>5

(* What the bus holds when the master has sent a frame.                    *)
LEMMA FrameAdded ==
  ASSUME NEW S, NEW s \in Seq(S), NEW x \in S
  PROVE  /\ s \o <<x>> \in Seq(S) /\ s \o <<x>> # <<>> /\ Append(s, x) = s \o <<x>>
         /\ Len(s \o <<x>>) = Len(s) + 1 /\ Len(s) \in Nat /\ DOMAIN s = 1..Len(s)
         /\ DOMAIN (s \o <<x>>) = 1..(Len(s) + 1)
         /\ \A i \in DOMAIN s : (s \o <<x>>)[i] = s[i]
         /\ (s \o <<x>>)[Len(s) + 1] = x
<1>1. <<x>> \in Seq(S) /\ Len(<<x>>) = 1 /\ <<x>>[1] = x
  OBVIOUS
<1> DEFINE t == <<x>>
<1> HIDE DEF t
<1>2. /\ s \o t \in Seq(S) /\ Len(s \o t) = Len(s) + 1
      /\ \A i \in 1..(Len(s) + 1) : (s \o t)[i] = IF i <= Len(s) THEN s[i] ELSE t[i - Len(s)]
  BY <1>1, ConcatProperties DEF t
<1>3. Len(s) \in Nat /\ DOMAIN s = 1..Len(s) /\ DOMAIN (s \o t) = 1..(Len(s) + 1)
  BY <1>2, LenProperties
<1>4. (s \o t)[Len(s) + 1] = x
  BY <1>1, <1>2, <1>3 DEF t
<1>5. \A i \in DOMAIN s : (s \o t)[i] = s[i]
  BY <1>2, <1>3
<1>6. s \o t # <<>>
  BY <1>2, <1>3, EmptySeq
<1>7. Append(s, x) = s \o t
  BY AppendIsConcat DEF t
<1> QED
  BY <1>2, <1>3, <1>4, <1>5, <1>6, <1>7 DEF t

(* The frames that follow the first one.                                   *)
LEMMA TwoFrames ==
  ASSUME NEW x, NEW y
  PROVE  <<>> \o <<x>> = <<x>> /\ <<x>> \o <<y>> = <<x, y>>
<1>1. <<>> \o <<x>> = <<x>>
  <2>1. <<x>> \in Seq({x})
    OBVIOUS
  <2> QED
    BY <2>1, ConcatEmptySeq
<1>2. <<x>> \o <<y>> = <<x, y>>
  <2>1. <<x>> \in Seq({x, y}) /\ y \in {x, y}
    OBVIOUS
  <2>2. <<y>> \in Seq({x, y}) /\ Len(<<x>>) = 1 /\ Len(<<y>>) = 1 /\ <<x>>[1] = x /\ <<y>>[1] = y
    OBVIOUS
  <2> DEFINE t == <<x>> \o <<y>>
             u == <<x, y>>
  <2>3. t \in Seq({x, y}) /\ Len(t) = 2 /\ t[1] = x /\ t[2] = y
    BY <2>1, <2>2, ConcatProperties
  <2>4. u \in Seq({x, y}) /\ Len(u) = 2 /\ u[1] = x /\ u[2] = y
    OBVIOUS
  <2> HIDE DEF t, u
  <2>5. \A i \in 1..Len(t) : t[i] = u[i]
    BY <2>3, <2>4
  <2>6. t = u
    BY <2>3, <2>4, <2>5, SeqEqual
  <2> QED
    BY <2>6 DEF t, u
<1> QED
  BY <1>1, <1>2
(* A deselection after which nothing is under way.                         *)
LEMMA DeselectUndisturbed ==
  ASSUME LssTypes, Lss!Deselect, ~disturbed'
  PROVE  Undisturbed'
<1>1. /\ mState' = "waiting" /\ command' = Lss!Nothing /\ toSlaves' = toSlaves \o <<Waiting>>
      /\ toSlaves = <<>> /\ (\A a \in LssSlaves : slave[a].request = Lss!Nothing) /\ slave' = slave
  BY DEF Lss!Deselect, Lss!Start, Lss!Quiet, Waiting
<1>2. toSlaves' = <<Waiting>> /\ Asleep'
  BY <1>1 DEF Asleep
<1> QED
  BY <1>1, <1>2 DEF Undisturbed, RestInv, Waiting

(* When the master rests, each slave waits or is told so first.            *)
LEMMA SelectUndisturbed ==
  ASSUME LssTypes, Undisturbed, NEW t \in LssTargets, Lss!Select(t)
  PROVE  Undisturbed'
<1> DEFINE frames == [k \in 1..LssParts |-> [cs |-> "select", part |-> k - 1, value |-> t[k - 1]]]
<1>1. /\ mState = "waiting" /\ command = Lss!Nothing /\ mState' = "selective"
      /\ command' = [cs |-> "switch"] /\ mailbox' = Lss!Nothing
      /\ toSlaves' = toSlaves \o frames /\ chosen' = t /\ UNCHANGED slave
  BY DEF Lss!Select, Lss!Start
<1>2. LssParts \in Nat /\ LssParts > 0
  BY LssNumbers
<1>3. frames = SelectFrames(0)'
  <2>1. \A k \in 1..LssParts : 0 + k = k
    OBVIOUS
  <2>2. 1..(LssParts - 0) = 1..LssParts
    BY <1>2
  <2>3. SelectFrames(0)' = [k \in 1..LssParts |-> [cs |-> "select", part |-> k - 1, value |-> chosen'[k - 1]]]
    BY <2>1, <2>2 DEF SelectFrames, SelectFrame
  <2> QED
    BY <1>1, <2>3
<1>4. frames \in Seq(LssFrame)
  <2>1. t \in [Lss!Part -> Nat]
    BY LssAssumption
  <2>2. \A k \in 1..LssParts : k - 1 \in Lss!Part
    BY LssNumbers
  <2>3. \A k \in 1..LssParts : [cs |-> "select", part |-> k - 1, value |-> t[k - 1]] \in LssFrame
    BY <2>1, <2>2, LssFramesAre
  <2> QED
    BY <1>2, <2>3
<1> HIDE DEF frames
<1>5. <<>> \o frames = frames
  BY <1>4
<1>6. SwitchInv'
  <2>1. CASE toSlaves = <<>> /\ AllWait /\ Resets
    <3>1. toSlaves' = SelectFrames(0)'
      BY <1>1, <1>3, <1>5, <2>1
    <3>2. AllWait' /\ SelectedTo(0)' /\ 0 \in 0..(LssParts - 1)
      BY <1>1, <1>2, <2>1 DEF AllWait, SelectedTo, Resets, Lss!Part
    <3> QED
      BY <1>1, <3>1, <3>2 DEF SwitchInv
  <2>2. CASE toSlaves = <<Waiting>> /\ Asleep
    BY <1>1, <1>3, <2>2 DEF SwitchInv, Asleep, Waiting
  <2> QED
    BY <1>1, <2>1, <2>2 DEF Undisturbed, RestInv
<1> QED
  BY <1>1, <1>6 DEF Undisturbed

(* All slaves are told to go into configuration state.                     *)
LEMMA SelectAllUndisturbed ==
  ASSUME LssTypes, Undisturbed, Lss!SelectAll
  PROVE  Undisturbed'
<1> DEFINE m == [cs |-> "configuration"]
<1>1. /\ mState = "waiting" /\ command = Lss!Nothing /\ mState' = "global"
      /\ toSlaves' = toSlaves \o <<m>> /\ result' = [service |-> m, ret |-> "ok"]
  BY DEF Lss!SelectAll, Lss!Start
<1>2. toSlaves \in {<<>>, <<Waiting>>}
  BY <1>1 DEF Undisturbed, RestInv
<1> HIDE DEF m
<1>3. toSlaves' = <<m>> \/ toSlaves' = <<Waiting, m>>
  BY <1>1, <1>2, TwoFrames
<1>4. m.cs = "configuration" /\ result'.service.cs = "configuration"
  BY <1>1 DEF m
<1>5. ASSUME NEW n \in 1..2, toSlaves' = IF n = 1 THEN <<m>> ELSE <<Waiting, m>> PROVE GlobalInv'
  <2>1. /\ n \in 0..2 /\ n > 0 /\ n <= Len(toSlaves') /\ toSlaves'[n] = m
        /\ n = 2 => toSlaves'[1] = Waiting
        /\ DOMAIN toSlaves' = 1..n
    <3>1. CASE n = 1
      BY <1>5, <3>1
    <3>2. CASE n = 2
      BY <1>5, <3>2
    <3> QED
      BY <3>1, <3>2
  <2>2. \A i \in DOMAIN toSlaves' : ~(i > n)
    BY <2>1
  <2> QED
    BY <1>4, <2>1, <2>2 DEF GlobalInv, GlobalFrames, Waiting
<1>6. GlobalInv'
  <2>1. 1 \in 1..2 /\ 2 \in 1..2 /\ 1 # 2
    OBVIOUS
  <2> QED
    BY <1>3, <1>5, <2>1
<1> QED
  BY <1>1, <1>6 DEF Undisturbed

(* A scan begins.                                                          *)
LEMMA FastscanUndisturbed ==
  ASSUME LssTypes, Undisturbed, NEW x \in LssScans, Lss!Fastscan(x)
  PROVE  Undisturbed'
<1> DEFINE m == Lss!Probe(0, Lss!Confirm, 0, 0)
<1>1. /\ mState = "waiting" /\ command = Lss!Nothing /\ mState' = "waiting"
      /\ command' = [cs |-> "fastscan", scan |-> x.scan, match |-> x.match] /\ mailbox' = Lss!Nothing
      /\ toSlaves' = toSlaves \o <<m>> /\ UNCHANGED slave
      /\ fs' = [state |-> "check", sub |-> 0, bit |-> 0, id |-> 0]
  BY DEF Lss!Fastscan, Lss!Start, Lss!NoScan
<1>2. command'.cs = "fastscan" /\ command' # Lss!Nothing /\ TheProbe' = m /\ fs'.state = "check" /\ fs'.sub = 0
  BY <1>1 DEF TheProbe, Lss!Nothing
<1>3. CASE toSlaves = <<>> /\ AllWait /\ Resets
  <2>1. toSlaves' = <<m>> /\ AllWait' /\ Resets'
    BY <1>1, <1>3 DEF AllWait, Resets
  <2> QED
    BY <1>1, <1>2, <2>1 DEF Undisturbed, ScanInv
<1>4. CASE toSlaves = <<Waiting>> /\ Asleep
  <2>1. toSlaves' = <<Waiting, m>> /\ Asleep'
    BY <1>1, <1>4, TwoFrames DEF Asleep
  <2> QED
    BY <1>1, <1>2, <2>1 DEF Undisturbed, ScanInv, Waiting
<1> QED
  BY <1>1, <1>3, <1>4 DEF Undisturbed, RestInv

(* One more frame for all of them.                                         *)
LEMMA ToAllAdded ==
  ASSUME toSlaves \in Seq(LssFrame), GlobalFrames, NEW m \in LssFrame, m.cs \in ToAll,
         toSlaves' = toSlaves \o <<m>>, slave' = slave
  PROVE  GlobalFrames' /\ toSlaves' # <<>> /\ toSlaves'[Len(toSlaves')] = m
<1>1. PICK n \in 0..2 :
        /\ n <= Len(toSlaves)
        /\ \A i \in DOMAIN toSlaves : i > n => toSlaves[i].cs \in ToAll
        /\ n > 0 => toSlaves[n].cs = "configuration"
        /\ n = 2 => toSlaves[1] = Waiting
        /\ n = 0 => \A a \in LssSlaves : /\ slave[a].mode = "configuration"
                                         /\ slave[a].request.cs \in ToAll \cup {"none"}
  BY DEF GlobalFrames
<1>2. /\ Len(toSlaves') = Len(toSlaves) + 1 /\ DOMAIN toSlaves' = 1..Len(toSlaves')
      /\ \A i \in DOMAIN toSlaves : toSlaves'[i] = toSlaves[i] /\ toSlaves' # <<>>
      /\ toSlaves'[Len(toSlaves) + 1] = m /\ DOMAIN toSlaves = 1..Len(toSlaves) /\ Len(toSlaves) \in Nat
      /\ toSlaves' # <<>>
  BY FrameAdded
<1>3. \A i \in DOMAIN toSlaves' : i > n => toSlaves'[i].cs \in ToAll
  BY <1>1, <1>2
<1>4. (n \in DOMAIN toSlaves \/ n = 0) /\ (n = 2 => 1 \in DOMAIN toSlaves) /\ n <= Len(toSlaves')
  BY <1>1, <1>2
<1>5. /\ n > 0 => toSlaves'[n].cs = "configuration"
      /\ n = 2 => toSlaves'[1] = Waiting
  BY <1>1, <1>2, <1>4
<1> QED
  BY <1>1, <1>2, <1>3, <1>4, <1>5 DEF GlobalFrames, Waiting, ToAll

(* A service for the slave that is selected, or for all of them.           *)
LEMMA ServiceUndisturbed ==
  ASSUME LssTypes, Undisturbed, mState # "waiting", command = Lss!Nothing,
         NEW c \in LssCommand, c.cs \in {"inquire", "node id", "bit timing", "store"},
         mState = "global" => c.cs \in {"inquire", "node id"},
         Lss!Start(mState, c, <<FrameOf(c)>>), UNCHANGED <<fs, chosen, disturbed>>
  PROVE  Undisturbed'
<1> DEFINE m == FrameOf(c)
<1>1. /\ mState' = mState /\ command' = c /\ mailbox' = Lss!Nothing /\ UNCHANGED <<found, slave>>
      /\ toSlaves' = toSlaves \o <<m>> /\ (c # Lss!Nothing => result' = Lss!NoResult)
  BY DEF Lss!Start
<1>2. c # Lss!Nothing /\ Lss!Nothing.cs = "none" /\ c.cs # "switch" /\ m.cs = c.cs
      /\ Lss!NoResult.service.cs = "none"
  <2>1. Lss!Nothing.cs = "none" /\ Lss!NoResult.service = Lss!Nothing
    BY DEF Lss!Nothing, Lss!NoResult
  <2>2. m.cs = c.cs
    BY DEF FrameOf
  <2> QED
    BY <2>1, <2>2
<1>3. mState \in {"waiting", "selective", "global"} /\ toSlaves \in Seq(LssFrame)
  BY DEF LssTypes
<1>4. CASE mState = "global"
  <2>1. GlobalFrames
    BY <1>4 DEF Undisturbed, GlobalInv
  <2> HIDE DEF m
  <2>2. m \in LssFrame
    <3>1. c.cs = "inquire" => m = [cs |-> "inquire", part |-> c.part] /\ c.part \in Lss!Part
      BY LssCommandIs DEF m, FrameOf
    <3>2. c.cs = "node id" => m = c /\ c = [cs |-> "node id", id |-> c.id] /\ c.id \in LssId
      BY LssCommandIs DEF m, FrameOf
    <3> QED
      BY <1>4, <3>1, <3>2, LssFramesAre
  <2>3. m.cs \in ToAll
    BY <1>2, <1>4 DEF ToAll
  <2>4. GlobalFrames'
    BY <1>1, <1>3, <2>1, <2>2, <2>3, ToAllAdded
  <2>5. GlobalInv'
    BY <1>1, <1>2, <2>4 DEF GlobalInv
  <2> QED
    BY <1>1, <1>4, <2>5 DEF Undisturbed
<1>5. CASE mState = "selective"
  <2>1. PICK d \in LssSlaves : OneSelected(d) /\ toSlaves = <<>> /\ Asleep
    BY <1>2, <1>5 DEF Undisturbed, SelectedInv
  <2>2. toSlaves' = <<FrameOf(command')>> /\ Asleep' /\ mailbox' = Lss!Nothing
    <3>1. Asleep'
      BY <1>1, <2>1 DEF Asleep
    <3> HIDE DEF m
    <3>2. toSlaves' = <<m>>
      BY <1>1, <2>1, TwoFrames
    <3> QED
      BY <1>1, <3>1, <3>2 DEF m
  <2>3. OneSelected(d)'
    BY <1>1, <2>1 DEF OneSelected, Lss!Matching
  <2>4. Lss!ConfirmedByChosen'
    BY <1>1, <1>2 DEF Lss!ConfirmedByChosen
  <2>5. SelectedInv'
    BY <1>1, <1>2, <2>2, <2>3, <2>4 DEF SelectedInv, InService
  <2> QED
    BY <1>1, <1>2, <1>5, <2>5 DEF Undisturbed
<1> QED
  BY <1>3, <1>4, <1>5

(* An activation for all of them.                                          *)
LEMMA ActivateUndisturbed ==
  ASSUME LssTypes, Undisturbed, Lss!ActivateBit
  PROVE  Undisturbed'
<1> DEFINE m == [cs |-> "activate"]
<1>1. /\ mState = "global" /\ mState' = mState /\ UNCHANGED <<found, slave>>
      /\ toSlaves' = toSlaves \o <<m>>
  BY DEF Lss!ActivateBit, Lss!Start
<1>2. toSlaves \in Seq(LssFrame) /\ m \in LssFrame
  BY LssFramesAre DEF LssTypes
<1>3. GlobalFrames
  BY <1>1 DEF Undisturbed, GlobalInv
<1>4. m.cs = "activate" /\ m.cs \in ToAll
  BY DEF ToAll
<1> HIDE DEF m
<1>5. GlobalInv'
  BY <1>1, <1>2, <1>3, <1>4, ToAllAdded DEF GlobalInv
<1> QED
  BY <1>1, <1>5 DEF Undisturbed

(* A command that is confirmed has come to its slave as a frame.           *)
LEMMA FrameOfIs ==
  ASSUME NEW c \in LssCommand, ToOne(c)
  PROVE  /\ FrameOf(c) \in LssFrame /\ FrameOf(c).cs = c.cs
         /\ c.cs = "inquire" => FrameOf(c).part = c.part
         /\ c.cs # "inquire" => FrameOf(c) = c
<1>1. CASE c.cs = "inquire"
  BY <1>1, LssCommandIs, LssFramesAre DEF FrameOf
<1>2. CASE c.cs # "inquire"
  BY <1>2, LssCommandIs, LssFramesAre DEF FrameOf, ToOne
<1> QED
  BY <1>1, <1>2 DEF ToOne

(* An answer comes into the empty mailbox of a master that waits for it.   *)
LEMMA ReplyIs ==
  ASSUME NEW x, Lss!Reply(<<x>>), mailbox = Lss!Nothing, command # Lss!Nothing
  PROVE  mailbox' = x
<1>1. <<x>> # <<>> /\ <<x>>[1] = x
  OBVIOUS
<1> QED
  BY <1>1 DEF Lss!Reply

(* The slave that serves a confirmed service has done what it answers.     *)
LEMMA ServiceIsDone ==
  ASSUME NEW a \in LssSlaves, NEW s \in LssSlave, NEW kept \in BOOLEAN, NEW r, NEW c \in LssCommand,
         ToOne(c), s.request = FrameOf(c),
         r = Lss!Served(a, s, kept), command = c, mailbox = Lss!Nothing, Lss!Reply(Lss!Answer(a, s, kept))
  PROVE  ServiceDone(c, r, a)'
<1>0. s.request.cs = c.cs /\ c # Lss!Nothing
  BY FrameOfIs, LssCommandIs DEF ToOne
<1>1. CASE c.cs = "node id"
  <2>1. Lss!Answer(a, s, kept) = <<[cs |-> "node id", err |-> 0]>>
    BY <1>0, <1>1 DEF Lss!Answer
  <2>2. mailbox' = [cs |-> "node id", err |-> 0]
    BY <1>0, <2>1, ReplyIs
  <2>3. r.pending = c.id
    BY <1>0, <1>1, FrameOfIs DEF Lss!Served, LssSlave
  <2> QED
    BY <1>1, <2>2, <2>3 DEF ServiceDone
<1>2. CASE c.cs = "store"
  <2>1. Lss!Answer(a, s, kept) = <<[cs |-> "store", err |-> IF kept THEN 0 ELSE 1]>>
    BY <1>0, <1>2 DEF Lss!Answer
  <2>2. mailbox' = [cs |-> "store", err |-> IF kept THEN 0 ELSE 1]
    BY <1>0, <2>1, ReplyIs
  <2>3. kept => r.stored = <<s.pending, s.rate>> /\ r.pending = s.pending /\ r.rate = s.rate
    BY <1>0, <1>2 DEF Lss!Served, LssSlave
  <2> QED
    BY <1>2, <2>2, <2>3 DEF ServiceDone
<1>3. CASE c.cs = "bit timing"
  <2>1. CASE a \in DOMAIN LssSupported
    <3>1. Lss!Answer(a, s, kept) =
            <<[cs |-> "bit timing", err |-> IF c.rate \in LssSupported[a] THEN 0 ELSE 255]>>
      BY <1>0, <1>3, <2>1, FrameOfIs DEF Lss!Answer, Lss!RateAnswer
    <3> DEFINE e == IF c.rate \in LssSupported[a] THEN 0 ELSE 255
    <3>2. mailbox' = [cs |-> "bit timing", err |-> e]
      BY <1>0, <3>1, ReplyIs
    <3>3. c.rate \in LssSupported[a] => r.rate = c.rate
      BY <1>0, <1>3, <2>1, FrameOfIs DEF Lss!Served, LssSlave
    <3>4. mailbox'.cs = "bit timing" /\ mailbox'.err = e
      <4> HIDE DEF e
      <4> QED
        BY <3>2
    <3>5. mailbox'.err = 0 => r.rate = c.rate
      <4>1. CASE c.rate \in LssSupported[a]
        BY <3>3, <4>1
      <4>2. CASE c.rate \notin LssSupported[a]
        <5>1. mailbox'.err = 255
          BY <3>4, <4>2
        <5> HIDE DEF e
        <5> QED
          BY <5>1
      <4> QED
        BY <4>1, <4>2
    <3> HIDE DEF e
    <3> QED
      BY <1>3, <2>1, <3>4, <3>5 DEF ServiceDone
  <2>2. CASE a \notin DOMAIN LssSupported
    <3>1. Lss!Answer(a, s, kept) = <<>>
      BY <1>0, <1>3, <2>2 DEF Lss!Answer, Lss!RateAnswer
    <3> QED
      BY <1>3, <2>2, <3>1 DEF Lss!Reply, ServiceDone
  <2> QED
    BY <2>1, <2>2
<1>4. CASE c.cs = "inquire"
  <2>1. Lss!Answer(a, s, kept) = <<[cs |-> "inquire", part |-> c.part, value |-> a[c.part]]>>
    BY <1>0, <1>4, FrameOfIs DEF Lss!Answer
  <2>2. mailbox' = [cs |-> "inquire", part |-> c.part, value |-> a[c.part]]
    BY <1>0, <2>1, ReplyIs
  <2> QED
    BY <1>4, <2>2 DEF ServiceDone
<1> QED
  BY <1>1, <1>2, <1>3, <1>4 DEF ToOne

(* A slave that has been scanned identifies itself.                        *)
LEMMA IdentifyUndisturbed ==
  ASSUME LssTypes, ScanInv, command.cs = "fastscan", NEW a \in LssSlaves, NEW kept \in BOOLEAN,
         Lss!CO_LSSslave_process(a, kept), ~disturbed'
  PROVE  ScanInv'
<1> DEFINE s == slave[a]
<1>0. PICK r : r = Lss!Served(a, s, kept)
  OBVIOUS
<1>1. /\ slave \in [LssSlaves -> LssSlave] /\ s \in LssSlave /\ s.request # Lss!Nothing /\ ~Asleep
      /\ slave' = [slave EXCEPT ![a] = r] /\ Lss!Reply(Lss!Answer(a, s, kept))
      /\ UNCHANGED <<mState, command, fs, found, chosen, result, toSlaves>>
  BY <1>0 DEF Lss!CO_LSSslave_process, LssTypes, Asleep
<1>2. \A b \in LssSlaves : slave'[b] = IF b = a THEN r ELSE slave[b]
  BY <1>1
<1> HIDE DEF s
<1>3. /\ r.request = Lss!Nothing
      /\ s.request.cs = "waiting" => r.mode = "waiting" /\ Lss!Answer(a, s, kept) = <<>>
      /\ s.request.cs = "fastscan" =>
           /\ r.mode = s.mode /\ r.pos = s.pos /\ r.active = s.active /\ r.pending = s.pending
           /\ Lss!Answer(a, s, kept) = <<[cs |-> "identify"]>>
  <2>1. s \in LssSlave /\ s.request # Lss!Nothing /\ r = Lss!Served(a, s, kept)
    BY <1>0, <1>1 DEF s
  <2>2. r.request = Lss!Nothing
    BY <2>1, ServedIs
  <2>3. s.request.cs = "waiting" => r.mode = "waiting" /\ Lss!Answer(a, s, kept) = <<>>
    BY <2>1, ServedResets
  <2>4. s.request.cs = "fastscan" =>
          r.mode = s.mode /\ r.pos = s.pos /\ r.active = s.active /\ r.pending = s.pending
    BY <2>1, ServedKeeps
  <2>5. s.request.cs = "fastscan" => Lss!Answer(a, s, kept) = <<[cs |-> "identify"]>>
    BY DEF Lss!Answer
  <2> QED
    BY <2>2, <2>3, <2>4, <2>5
<1>4. Lss!Nothing.cs = "none" /\ s.request.cs # "none" /\ r.request.cs = "none" /\ command # Lss!Nothing
  <2>1. s.request \in LssFrame
    BY <1>1, LssSlaveIs
  <2>2. Lss!Nothing.cs = "none"
    BY DEF Lss!Nothing
  <2> QED
    BY <1>3, <2>1, <2>2, LssFrameIs
<1>5. TheProbe' = TheProbe
  BY <1>1 DEF TheProbe, Lss!NextSub
<1>6. CASE toSlaves = <<TheProbe>> /\ mailbox = Lss!Nothing /\ AllWait /\ fs.state = "check" /\ Resets
  <2>1. s.request.cs = "waiting"
    BY <1>4, <1>6 DEF Resets, s
  <2>2. AllWait' /\ Resets' /\ mailbox' = Lss!Nothing
    BY <1>1, <1>2, <1>3, <1>4, <1>6, <2>1 DEF AllWait, Resets, Lss!Reply
  <2>3. (fs.state = "check" => fs.sub = 0)'
    BY <1>1 DEF ScanInv
  <2> QED
    BY <1>1, <1>5, <1>6, <2>2, <2>3 DEF ScanInv
<1>7. CASE toSlaves = <<>> /\ Probed
  <2>1. s.request = TheProbe /\ fs.state \in {"check", "scan", "verify"} /\ s.request.cs = "fastscan"
    <3>1. s.request = TheProbe
      BY <1>1, <1>7 DEF Probed, s
    <3>2. fs.state \in {"check", "scan", "verify"}
      BY <1>4 DEF LssTypes, LssScan
    <3> QED
      BY <3>1, <3>2 DEF TheProbe, Lss!Probe
  <2>2. mailbox' = Identified
    <3>1. mailbox = Lss!Nothing => mailbox' = [cs |-> "identify"]
      BY <1>1, <1>3, <1>4, <2>1, ReplyIs
    <3>2. mailbox # Lss!Nothing => mailbox' = mailbox
      BY <1>1 DEF Lss!Reply
    <3> QED
      BY <1>7, <3>1, <3>2 DEF Probed, Identified
  <2>3. /\ \A b \in LssSlaves : slave'[b].mode = slave[b].mode
        /\ \A b \in LssSlaves : slave'[b].pos = slave[b].pos
        /\ \A b \in LssSlaves : slave'[b].request \in {Lss!Nothing, slave[b].request}
        /\ \A b \in LssSlaves : slave'[b].active = slave[b].active /\ slave'[b].pending = slave[b].pending
    BY <1>2, <1>3, <2>1 DEF s
  <2>4. \A n, f : Stands(n, f) => Stands(n, f)'
    BY <1>1, <2>3 DEF Stands, Agrees, TakesPart
  <2>5. AllWait => AllWait'
    BY <2>3 DEF AllWait
  <2>6. FoundNow' = FoundNow /\ Lss!NextSub(fs.sub)' = Lss!NextSub(fs.sub)
    BY <1>1 DEF FoundNow, Lss!NextSub
  <2>7. fs.state = "verify" /\ Lss!NextSub(fs.sub) # 0 => AllWait' /\ Stands(Lss!NextSub(fs.sub), FoundNow)'
    <3> SUFFICES ASSUME fs.state = "verify", Lss!NextSub(fs.sub) # 0
                 PROVE  AllWait' /\ Stands(Lss!NextSub(fs.sub), FoundNow)'
      OBVIOUS
    <3>1. PICK n, f : n = Lss!NextSub(fs.sub) /\ f = FoundNow
      OBVIOUS
    <3>2. AllWait /\ Stands(n, f)
      BY <1>7, <3>1 DEF Probed
    <3>3. Stands(n, f)'
      BY <2>4, <3>2
    <3> QED
      BY <2>5, <2>6, <3>1, <3>2, <3>3 DEF Stands, Agrees
  <2>8. fs.state = "scan" => AllWait' /\ Stands(fs.sub, found)'
    <3> SUFFICES ASSUME fs.state = "scan" PROVE AllWait' /\ Stands(fs.sub, found)'
      OBVIOUS
    <3>1. PICK n, f : n = fs.sub /\ f = found
      OBVIOUS
    <3>2. AllWait /\ Stands(n, f)
      BY <1>7, <3>1 DEF Probed
    <3>3. Stands(n, f)'
      BY <2>4, <3>2
    <3> QED
      BY <1>1, <2>5, <3>1, <3>2, <3>3 DEF Stands, Agrees
  <2>9. fs.state = "verify" /\ Lss!NextSub(fs.sub) = 0 => LastVerified'
    <3> SUFFICES ASSUME fs.state = "verify", Lss!NextSub(fs.sub) = 0 PROVE LastVerified'
      OBVIOUS
    <3>1. LastVerified
      BY <1>7 DEF Probed
    <3>2. \E b \in LssSlaves : slave'[b].mode = "configuration"
      BY <1>1, <2>3, <3>1 DEF LastVerified
    <3>3. \A b \in LssSlaves : slave'[b].mode = "configuration" => Agrees(b, FoundNow, LssParts)'
      BY <1>1, <2>3, <2>6, <3>1 DEF LastVerified, Agrees
    <3> QED
      BY <2>2, <3>2, <3>3 DEF LastVerified, Identified
  <2>10. fs.state = "check" => AllWait' /\ \A b \in LssSlaves : TakesPart(slave'[b]) => slave'[b].pos = 0
    BY <1>7, <2>3, <2>5 DEF Probed, TakesPart
  <2>11. \A b \in LssSlaves : slave'[b].request \in {Lss!Nothing, TheProbe'}
    BY <1>5, <1>7, <2>3 DEF Probed
  <2>12. Probed'
    BY <1>1, <2>2, <2>6, <2>7, <2>8, <2>9, <2>10, <2>11 DEF Probed, TakesPart, Identified
  <2>13. (fs.state = "check" => fs.sub = 0)'
    BY <1>1 DEF ScanInv
  <2> QED
    BY <1>1, <1>7, <2>12, <2>13 DEF ScanInv
<1> QED
  BY <1>1, <1>6, <1>7 DEF ScanInv

(* A slave works at its request and nothing is lost.                       *)
LEMMA ProcessUndisturbed ==
  ASSUME LssTypes, Undisturbed, NEW a \in LssSlaves, NEW kept \in BOOLEAN,
         Lss!CO_LSSslave_process(a, kept), ~disturbed'
  PROVE  Undisturbed'
<1> DEFINE s == slave[a]
           r == Lss!Served(a, s, kept)
<1>1. /\ slave \in [LssSlaves -> LssSlave] /\ s \in LssSlave /\ s.request # Lss!Nothing /\ ~Asleep
      /\ slave' = [slave EXCEPT ![a] = r] /\ Lss!Reply(Lss!Answer(a, s, kept))
      /\ UNCHANGED <<mState, command, fs, found, chosen, result, toSlaves>>
  BY DEF Lss!CO_LSSslave_process, LssTypes, Asleep
<1>2. \A b \in LssSlaves : slave'[b] = IF b = a THEN r ELSE slave[b]
  BY <1>1
<1>3. /\ r.request = Lss!Nothing
      /\ s.request.cs = "waiting" => r.mode = "waiting" /\ Lss!Answer(a, s, kept) = <<>>
      /\ s.request.cs # "waiting" => r.mode = s.mode
      /\ s.request.cs \in {"inquire", "node id"} => r.used = s.used
      /\ s.request.cs \in {"inquire", "node id", "activate"} => r.rate = s.rate
      /\ s.request.cs = "activate" /\ a \in DOMAIN LssSupported => r.used = s.rate
  <2>1. s \in LssSlave /\ s.request # Lss!Nothing
    BY <1>1
  <2> HIDE DEF s
  <2>2. r.request = Lss!Nothing
    BY <2>1, ServedIs
  <2>3. s.request.cs = "waiting" => r.mode = "waiting" /\ Lss!Answer(a, s, kept) = <<>>
    BY <2>1, ServedResets
  <2>4. s.request.cs # "waiting" => r.mode = s.mode
    BY <2>1, ServedKeeps
  <2>5. /\ s.request.cs \in {"inquire", "node id"} => r.used = s.used
        /\ s.request.cs \in {"inquire", "node id", "activate"} => r.rate = s.rate
        /\ s.request.cs = "activate" /\ a \in DOMAIN LssSupported => r.used = s.rate
    BY <2>1, ServedKeeps
  <2> QED
    BY <2>2, <2>3, <2>4, <2>5
<1>4. Lss!Nothing.cs = "none" /\ s.request.cs # "none" /\ r.request.cs = "none"
  <2> HIDE DEF s, r
  <2>1. s.request \in LssFrame
    BY <1>1, LssSlaveIs
  <2>2. Lss!Nothing.cs = "none"
    BY DEF Lss!Nothing
  <2> QED
    BY <1>3, <2>1, <2>2, LssFrameIs
<1>5. mState \in {"waiting", "selective", "global"} /\ command \in LssCommand /\ mailbox \in LssAnswer
  BY DEF LssTypes
<1> HIDE DEF s, r
<1>6. CASE mState = "waiting" /\ command = Lss!Nothing
  <2>1. toSlaves = <<>> /\ AllWait /\ Resets
    BY <1>1, <1>6 DEF Undisturbed, RestInv
  <2>2. s.request.cs = "waiting"
    BY <1>4, <2>1 DEF Resets, s
  <2>3. AllWait' /\ Resets'
    BY <1>2, <1>3, <1>4, <2>1, <2>2 DEF AllWait, Resets
  <2> QED
    BY <1>1, <1>6, <2>1, <2>3 DEF Undisturbed, RestInv
<1>7. CASE mState = "waiting" /\ command # Lss!Nothing
  <2>1. ScanInv /\ command.cs = "fastscan"
    BY <1>5, <1>7, LssCommandIs DEF Undisturbed, LssTypes
  <2>2. ScanInv'
    BY <2>1, IdentifyUndisturbed
  <2> QED
    BY <1>1, <1>7, <2>2 DEF Undisturbed
<1>8. CASE mState = "global"
  <2>1. PICK n \in 0..2 :
          /\ n <= Len(toSlaves)
          /\ \A i \in DOMAIN toSlaves : i > n => toSlaves[i].cs \in ToAll
          /\ n > 0 => toSlaves[n].cs = "configuration"
          /\ n = 2 => toSlaves[1] = Waiting
          /\ n = 0 => \A b \in LssSlaves : /\ slave[b].mode = "configuration"
                                           /\ slave[b].request.cs \in ToAll \cup {"none"}
    BY <1>8 DEF Undisturbed, GlobalInv, GlobalFrames
  <2>2. n = 0 => /\ s.request.cs \in ToAll
                 /\ \A b \in LssSlaves : /\ slave'[b].mode = "configuration"
                                         /\ slave'[b].request.cs \in ToAll \cup {"none"}
    <3> SUFFICES ASSUME n = 0
                 PROVE  /\ s.request.cs \in ToAll
                        /\ \A b \in LssSlaves : /\ slave'[b].mode = "configuration"
                                                /\ slave'[b].request.cs \in ToAll \cup {"none"}
      OBVIOUS
    <3>1. s.request.cs \in ToAll /\ s.request.cs # "waiting" /\ s.mode = "configuration"
      BY <1>4, <2>1 DEF ToAll, s
    <3> QED
      BY <1>2, <1>3, <1>4, <2>1, <3>1
  <2>3. GlobalFrames'
    BY <1>1, <2>1, <2>2 DEF GlobalFrames, Waiting, ToAll
  <2>4. result.service.cs = "activate" /\ toSlaves = <<>> =>
          \A b \in DOMAIN LssSupported : slave'[b].request.cs = "activate" \/ slave'[b].used = slave'[b].rate
    <3> SUFFICES ASSUME result.service.cs = "activate", toSlaves = <<>>, NEW b \in DOMAIN LssSupported
                 PROVE  slave'[b].request.cs = "activate" \/ slave'[b].used = slave'[b].rate
      OBVIOUS
    <3>1. n = 0
      BY <2>1
    <3>2. slave[b].request.cs = "activate" \/ slave[b].used = slave[b].rate
      BY <1>8 DEF Undisturbed, GlobalInv
    <3>3. b \in LssSlaves
      BY LssAssumption
    <3>4. s.request.cs \in {"inquire", "node id", "activate"}
      BY <2>2, <3>1 DEF ToAll
    <3> QED
      BY <1>2, <1>3, <3>2, <3>3, <3>4 DEF s
  <2>5. GlobalInv'
    BY <1>1, <1>8, <2>3, <2>4 DEF Undisturbed, GlobalInv
  <2> QED
    BY <1>1, <1>8, <2>5 DEF Undisturbed
<1>9. CASE mState = "selective" /\ command.cs = "switch"
  <2>0. SwitchInv /\ command # Lss!Nothing
    BY <1>4, <1>9 DEF Undisturbed
  <2>1. ASSUME NEW k \in 0..(LssParts - 1), toSlaves = SelectFrames(k), AllWait, mailbox = Lss!Nothing, SelectedTo(k)
        PROVE  SwitchInv'
    <3>1. k = 0 /\ Resets
      BY <1>1, <2>1 DEF SelectedTo
    <3>2. s.request.cs = "waiting"
      BY <1>4, <3>1 DEF Resets, s
    <3>3. AllWait' /\ Resets' /\ mailbox' = Lss!Nothing
      BY <1>1, <1>2, <1>3, <1>4, <2>1, <3>1, <3>2 DEF AllWait, Resets, Lss!Reply
    <3>4. SelectedTo(k)'
      BY <3>1, <3>3, LssZeros DEF SelectedTo
    <3>5. toSlaves' = SelectFrames(k)'
      BY <1>1, <2>1 DEF SelectFrames, SelectFrame
    <3> QED
      BY <1>1, <2>0, <3>3, <3>4, <3>5 DEF SwitchInv
  <2>2. ASSUME toSlaves = <<>>, ChosenReached PROVE SwitchInv'
    <3>1. a = chosen /\ s.request = SelectFrame(LssParts) /\ mailbox = Lss!Nothing
      BY <1>1, <2>2 DEF ChosenReached, s
    <3>2. s.request.cs = "select" /\ s.request.part = LssParts - 1
      BY <3>1 DEF SelectFrame
    <3>3. Lss!Answer(a, s, kept) = <<[cs |-> "selected"]>>
      BY <3>2 DEF Lss!Answer
    <3>4. mailbox' = [cs |-> "selected"]
      BY <1>1, <2>0, <3>1, <3>3 DEF Lss!Reply
    <3>5. mailbox' # Lss!Nothing
      BY <3>4 DEF Lss!Nothing
    <3>6. \A b \in LssSlaves : slave'[b].request = Lss!Nothing /\ (slave'[b].mode = "configuration" <=> b = chosen)
      BY <1>1, <1>2, <1>3, <2>2, <3>1, <3>2 DEF ChosenReached, s
    <3>7. ChosenReached'
      BY <1>1, <3>1, <3>4, <3>5, <3>6 DEF ChosenReached, Asleep
    <3> QED
      BY <1>1, <2>0, <2>2, <3>7 DEF SwitchInv
  <2>3. SwitchInv'
    BY <1>1, <2>0, <2>1, <2>2 DEF SwitchInv
  <2> QED
    BY <1>1, <1>9, <2>3 DEF Undisturbed
<1>10. CASE mState = "selective" /\ command.cs # "switch"
  <2>1. PICK c \in LssSlaves :
          /\ OneSelected(c)
          /\ IF command = Lss!Nothing THEN toSlaves = <<>> /\ Asleep ELSE InService(c)
    BY <1>10 DEF Undisturbed, SelectedInv
  <2>2. command # Lss!Nothing /\ toSlaves = <<>> /\ slave[c].request = FrameOf(command) /\ mailbox = Lss!Nothing
    BY <1>1, <2>1 DEF InService
  <2>3. a = c
    BY <1>1, <2>1 DEF OneSelected, s
  <2>4. ToOne(command) /\ command.cs # "waiting"
    BY <1>5, <1>10, <2>2, LssCommandIs DEF LssTypes, ToOne
  <2>5. s.request.cs = command.cs
    BY <1>5, <2>2, <2>3, <2>4, FrameOfIs DEF s
  <2>6. PICK v, d : v = r /\ d = command /\ ServiceDone(d, v, a)'
    <3>1. PICK v, d : v = r /\ d = command
      OBVIOUS
    <3>2. s.request = FrameOf(d) /\ v = Lss!Served(a, s, kept)
      BY <2>2, <2>3, <3>1 DEF s, r
    <3>3. ServiceDone(d, v, a)'
      BY <1>1, <1>5, <2>2, <2>4, <3>1, <3>2, ServiceIsDone
    <3> QED
      BY <3>1, <3>3
  <2>7. InService(c)'
    <3>1. Asleep'
      BY <1>1, <1>2, <1>3, <2>1, <2>3 DEF Asleep, OneSelected
    <3>2. command' = d /\ slave'[c] = v
      BY <1>1, <1>2, <2>3, <2>6
    <3>3. ServiceDone(command, slave[c], c)'
      BY <2>3, <2>6, <3>2 DEF ServiceDone
    <3> QED
      BY <1>1, <2>2, <3>1, <3>3 DEF InService
  <2>8. OneSelected(c)'
    <3>1. Lss!Matching' = Lss!Matching
      BY <1>1 DEF Lss!Matching
    <3>2. r.mode = s.mode
      BY <1>3, <2>4, <2>5
    <3> QED
      BY <1>1, <1>2, <1>3, <2>1, <2>3, <3>1, <3>2 DEF OneSelected, s
  <2>9. Lss!ConfirmedByChosen'
    BY <1>1, <2>2 DEF Lss!ConfirmedByChosen
  <2>10. SelectedInv'
    BY <1>1, <2>2, <2>7, <2>8, <2>9 DEF SelectedInv
  <2> QED
    BY <1>1, <1>10, <2>10 DEF Undisturbed
<1> QED
  BY <1>5, <1>6, <1>7, <1>8, <1>9, <1>10

(* A confirmed service of the master has no scan, and one of the chosen.   *)
LEMMA ConfirmableIs ==
  ASSUME LssTypes, command # Lss!Nothing, command.cs # "fastscan"
  PROVE  /\ command \in LssCommand /\ (mState = "global" \/ mState = "selective")
         /\ command.cs # "activate" /\ command.cs # "none"
         /\ command.cs # "switch" => ToOne(command)
         /\ command.cs = "switch" => mState = "selective"
<1>1. command \in LssCommand /\ mState \in {"waiting", "selective", "global"}
  BY DEF LssTypes
<1>2. command.cs \in {"switch", "store", "inquire", "node id", "bit timing"}
  BY <1>1, LssCommandIs
<1>3. command.cs = "switch" => mState = "selective"
  BY DEF LssTypes
<1>4. command.cs # "switch" => mState # "waiting"
  BY <1>2 DEF LssTypes
<1> QED
  BY <1>1, <1>2, <1>3, <1>4 DEF ToOne

(* Only the slave with an address that was asked for in full matches it.   *)
LEMMA MatchingChosen ==
  ASSUME chosen \in LssTargets, chosen \in LssSlaves
  PROVE  Lss!Matching = {chosen}
<1>1. \A p \in Lss!Part : chosen[p] # Lss!Unasked
  <2>1. chosen \in [Lss!Part -> Nat] /\ Lss!Unasked \notin Nat
    BY LssAssumption DEF Lss!Unasked
  <2> QED
    BY <2>1
<1>2. \A a \in LssSlaves : (\A p \in Lss!Part : chosen[p] = a[p]) => a = chosen
  <2>1. LssSlaves \subseteq [Lss!Part -> Lss!Number]
    BY LssAssumption
  <2> QED
    BY <2>1
<1>3. \A a : a \in Lss!Matching <=> a \in LssSlaves /\ \A p \in Lss!Part : chosen[p] = a[p]
  BY <1>1 DEF Lss!Matching
<1> QED
  BY <1>2, <1>3

(* The master takes the answer to a confirmed service.                     *)
LEMMA ConfirmedUndisturbed ==
  ASSUME LssTypes, Undisturbed, Lss!Confirmed
  PROVE  Undisturbed'
<1>1. /\ command # Lss!Nothing /\ command.cs # "fastscan" /\ mailbox # Lss!Nothing
      /\ mailbox' = Lss!Nothing /\ UNCHANGED <<mState, fs, chosen, slave>>
  BY DEF Lss!Confirmed
<1>2. /\ command \in LssCommand /\ (mState = "global" \/ mState = "selective")
      /\ command.cs # "activate" /\ command.cs # "none"
      /\ command.cs # "switch" => ToOne(command)
      /\ command.cs = "switch" => mState = "selective"
  BY <1>1, ConfirmableIs
<1>3. Lss!Nothing.cs = "none"
  BY DEF Lss!Nothing
<1>4. \/ UNCHANGED <<command, result, toSlaves, found>> /\ ~Lss!Expected(mailbox)
      \/ /\ Lss!Expected(mailbox) /\ command.cs = "inquire" /\ command.part < command.upto /\ UNCHANGED result
         /\ command' = [command EXCEPT !.part = @ + 1]
         /\ toSlaves' = Append(toSlaves, [cs |-> "inquire", part |-> command.part + 1])
      \/ /\ Lss!Expected(mailbox) /\ command' = Lss!Nothing /\ UNCHANGED toSlaves
         /\ result' = [service |-> command, ret |-> Lss!Outcome(mailbox)]
         /\ found' = IF command.cs = "inquire" THEN [found EXCEPT ![command.part] = mailbox.value] ELSE found
  BY DEF Lss!Confirmed, Lss!Return
<1>5. ASSUME command.cs = "inquire", command.part < command.upto,
             command' = [command EXCEPT !.part = @ + 1]
      PROVE  /\ command.part + 1 \in Lss!Part /\ command'.cs = "inquire" /\ command'.part = command.part + 1
             /\ command' # Lss!Nothing
  <2>1. /\ command.part \in Lss!Part /\ command.upto \in Lss!Part
        /\ command = [cs |-> "inquire", part |-> command.part, upto |-> command.upto]
    BY <1>2, <1>5, LssCommandIs
  <2>2. command' = [cs |-> "inquire", part |-> command.part + 1, upto |-> command.upto]
    BY <1>5, <2>1
  <2>3. command.part + 1 \in Lss!Part
    BY <1>5, <2>1, LssNumbers
  <2>4. command'.cs = "inquire" /\ command'.part = command.part + 1
    BY <2>2
  <2> QED
    BY <1>3, <2>3, <2>4
<1>6. CASE mState = "global"
  <2>1. GlobalInv /\ toSlaves \in Seq(LssFrame) /\ result = Lss!NoResult
    BY <1>1, <1>6 DEF Undisturbed, LssTypes
  <2>2. Lss!NoResult.service.cs = "none"
    <3>1. Lss!NoResult.service = Lss!Nothing
      BY DEF Lss!NoResult
    <3> QED
      BY <1>3, <3>1
  <2>3. GlobalFrames'
    <3>1. CASE UNCHANGED toSlaves
      BY <1>1, <2>1, <3>1 DEF GlobalInv, GlobalFrames, ToAll, Waiting
    <3>2. CASE /\ command.cs = "inquire" /\ command.part < command.upto
               /\ command' = [command EXCEPT !.part = @ + 1]
               /\ toSlaves' = Append(toSlaves, [cs |-> "inquire", part |-> command.part + 1])
      <4> DEFINE m == [cs |-> "inquire", part |-> command.part + 1]
      <4>1. m \in LssFrame /\ m.cs \in ToAll
        BY <1>5, <3>2, LssFramesAre DEF ToAll
      <4> HIDE DEF m
      <4>2. toSlaves' = toSlaves \o <<m>>
        BY <2>1, <3>2, <4>1, FrameAdded DEF m
      <4> QED
        BY <1>1, <2>1, <4>1, <4>2, ToAllAdded DEF GlobalInv
    <3> QED
      BY <1>4, <3>1, <3>2
  <2>4. result'.service.cs # "activate"
    BY <1>2, <1>4, <2>1, <2>2
  <2>5. GlobalInv'
    BY <2>3, <2>4 DEF GlobalInv
  <2> QED
    BY <1>1, <1>6, <2>5 DEF Undisturbed
<1>7. CASE mState = "selective" /\ command.cs = "switch"
  <2>1. chosen \in LssTargets /\ toSlaves = <<>> /\ ChosenReached
    BY <1>1, <1>7 DEF Undisturbed, SwitchInv
  <2>2. mailbox = [cs |-> "selected"] /\ chosen \in LssSlaves /\ Asleep
    BY <1>1, <2>1 DEF ChosenReached
  <2>3. Lss!Expected(mailbox)
    BY <1>7, <2>2 DEF Lss!Expected
  <2>4. command' = Lss!Nothing /\ toSlaves' = <<>> /\ result'.service.cs = "switch"
    BY <1>4, <1>7, <2>1, <2>3
  <2>5. OneSelected(chosen)'
    <3>1. Lss!Matching' = Lss!Matching
      BY <1>1 DEF Lss!Matching
    <3>2. Lss!Matching = {chosen}
      BY <2>1, <2>2, MatchingChosen
    <3> QED
      BY <1>1, <2>1, <2>2, <3>1, <3>2 DEF OneSelected, ChosenReached, Asleep
  <2>6. Asleep'
    BY <1>1, <2>2 DEF Asleep
  <2>7. Lss!ConfirmedByChosen'
    BY <2>4 DEF Lss!ConfirmedByChosen
  <2>8. SelectedInv'
    BY <1>1, <2>2, <2>4, <2>5, <2>6, <2>7 DEF SelectedInv
  <2> QED
    BY <1>1, <1>3, <1>7, <2>4, <2>8 DEF Undisturbed
<1>8. CASE mState = "selective" /\ command.cs # "switch"
  <2>1. PICK c \in LssSlaves : OneSelected(c) /\ InService(c)
    BY <1>1, <1>8 DEF Undisturbed, SelectedInv
  <2>2. toSlaves = <<>> /\ Asleep /\ ServiceDone(command, slave[c], c) /\ ToOne(command)
    BY <1>1, <1>2, <1>8, <2>1 DEF InService
  <2>3. Lss!Expected(mailbox)
    <3>1. \/ command.cs = "inquire" \/ command.cs = "node id" \/ command.cs = "bit timing" \/ command.cs = "store"
      BY <2>2 DEF ToOne
    <3>2. command.cs = "inquire" => mailbox = [cs |-> "inquire", part |-> command.part, value |-> c[command.part]]
      BY <2>2 DEF ServiceDone
    <3>3. command.cs = "node id" => mailbox = [cs |-> "node id", err |-> 0]
      BY <2>2 DEF ServiceDone
    <3>4. command.cs = "bit timing" => mailbox.cs = "bit timing"
      BY <1>1, <2>2 DEF ServiceDone
    <3>5. command.cs = "store" => mailbox.cs = "store"
      BY <2>2 DEF ServiceDone
    <3>6. command.cs = "inquire" => mailbox.cs = "inquire" /\ mailbox.part = command.part
      BY <3>2
    <3>7. command.cs = "node id" => mailbox.cs = "node id"
      <4>1. [cs |-> "node id", err |-> 0].cs = "node id"
        OBVIOUS
      <4> QED
        BY <3>3, <4>1
    <3> QED
      BY <3>1, <3>4, <3>5, <3>6, <3>7 DEF Lss!Expected
  <2>4. OneSelected(c)' /\ Asleep' /\ Lss!Matching' = {c}
    BY <1>1, <2>1, <2>2 DEF OneSelected, Lss!Matching, Asleep
  <2>5. CASE /\ command.cs = "inquire" /\ command.part < command.upto
             /\ command' = [command EXCEPT !.part = @ + 1]
             /\ toSlaves' = Append(toSlaves, [cs |-> "inquire", part |-> command.part + 1])
    <3>1. command'.cs = "inquire" /\ command'.part = command.part + 1 /\ command' # Lss!Nothing
      BY <1>5, <2>5
    <3> DEFINE m == [cs |-> "inquire", part |-> command.part + 1]
    <3>2. FrameOf(command)' = m
      BY <3>1 DEF FrameOf
    <3> HIDE DEF m
    <3>3. toSlaves' = <<m>>
      BY <2>2, <2>5 DEF m
    <3>4. Lss!ConfirmedByChosen'
      BY <3>1 DEF Lss!ConfirmedByChosen
    <3>5. InService(c)'
      BY <1>1, <2>4, <3>2, <3>3 DEF InService
    <3>6. SelectedInv'
      BY <2>4, <3>1, <3>4, <3>5 DEF SelectedInv
    <3> QED
      BY <1>1, <1>8, <3>1, <3>6 DEF Undisturbed
  <2>6. CASE /\ command' = Lss!Nothing /\ UNCHANGED toSlaves
             /\ result' = [service |-> command, ret |-> Lss!Outcome(mailbox)]
             /\ found' = IF command.cs = "inquire" THEN [found EXCEPT ![command.part] = mailbox.value] ELSE found
    <3>1. result'.service = command /\ result'.ret = Lss!Outcome(mailbox)
      BY <2>6
    <3>2. command.cs = "node id" => slave'[c].pending = command.id
      BY <1>1, <2>2 DEF ServiceDone
    <3>3. mailbox.cs \in {"bit timing", "store"} /\ Lss!Outcome(mailbox) = "ok" => mailbox.err = 0
      BY DEF Lss!Outcome
    <3>4. command.cs = "bit timing" /\ Lss!Outcome(mailbox) = "ok" => slave'[c].rate = command.rate
      BY <1>1, <2>2, <3>3 DEF ServiceDone
    <3>5. command.cs = "store" /\ Lss!Outcome(mailbox) = "ok" =>
            slave'[c].stored = <<slave'[c].pending, slave'[c].rate>>
      BY <1>1, <2>2, <3>3 DEF ServiceDone
    <3>6. command.cs = "inquire" => found'[command.part] = c[command.part]
      <4>1. command.cs = "inquire" => mailbox = [cs |-> "inquire", part |-> command.part, value |-> c[command.part]]
        BY <2>2 DEF ServiceDone
      <4>2. command.cs = "inquire" => command.part \in Lss!Part
        BY <1>2, LssCommandIs
      <4>3. found \in [Lss!Part -> Lss!Number]
        BY DEF LssTypes
      <4> QED
        BY <2>6, <4>1, <4>2, <4>3
    <3>7. Lss!ConfirmedByChosen'
      <4>1. CASE command.cs = "node id"
        BY <2>4, <3>1, <3>2, <4>1 DEF Lss!ConfirmedByChosen
      <4>2. CASE command.cs = "bit timing"
        BY <2>4, <3>1, <3>4, <4>2 DEF Lss!ConfirmedByChosen
      <4>3. CASE command.cs = "store"
        BY <2>4, <3>1, <3>5, <4>3 DEF Lss!ConfirmedByChosen
      <4>4. CASE command.cs = "inquire"
        BY <2>4, <3>1, <3>6, <4>4 DEF Lss!ConfirmedByChosen
      <4> QED
        BY <2>2, <4>1, <4>2, <4>3, <4>4 DEF ToOne
    <3>8. SelectedInv'
      BY <2>2, <2>4, <2>6, <3>7 DEF SelectedInv
    <3> QED
      BY <1>1, <1>3, <1>8, <2>6, <3>8 DEF Undisturbed
  <2> QED
    BY <1>4, <2>3, <2>5, <2>6
<1> QED
  BY <1>2, <1>6, <1>7, <1>8

(* A confirmed service stays without an answer.                            *)
LEMMA ExpireUndisturbed ==
  ASSUME LssTypes, Undisturbed, Lss!Expire, ~disturbed'
  PROVE  Undisturbed'
<1>1. /\ command # Lss!Nothing /\ command.cs # "fastscan" /\ mailbox = Lss!Nothing /\ command' = Lss!Nothing
      /\ result' = [service |-> command, ret |-> "timeout"]
      /\ mState' = (IF command.cs = "switch" THEN "waiting" ELSE mState)
      /\ UNCHANGED <<mailbox, fs, found, chosen, slave, toSlaves>>
  BY DEF Lss!Expire, Lss!Return
<1>2. toSlaves = <<>> /\ Asleep
  BY DEF Lss!Expire, Lss!TimeOut, Lss!Quiet, Asleep
<1>3. /\ command \in LssCommand /\ (mState = "global" \/ mState = "selective")
      /\ command.cs # "activate" /\ command.cs # "none"
      /\ command.cs # "switch" => ToOne(command)
      /\ command.cs = "switch" => mState = "selective"
  BY <1>1, ConfirmableIs
<1>4. Lss!Nothing.cs = "none" /\ result'.service = command /\ result'.ret = "timeout"
  BY <1>1 DEF Lss!Nothing
<1>5. CASE mState = "global"
  <2>1. GlobalFrames'
    BY <1>1, <1>5 DEF Undisturbed, GlobalInv, GlobalFrames, ToAll, Waiting
  <2>2. GlobalInv'
    BY <1>3, <1>4, <2>1 DEF GlobalInv
  <2> QED
    BY <1>1, <1>3, <1>5, <2>2 DEF Undisturbed
<1>6. CASE command.cs = "switch"
  <2>1. SwitchInv
    BY <1>3, <1>6 DEF Undisturbed
  <2>2. \A k \in 0..(LssParts - 1) : SelectFrames(k) # <<>>
    <3> SUFFICES ASSUME NEW k \in 0..(LssParts - 1) PROVE SelectFrames(k) # <<>>
      OBVIOUS
    <3>1. 1 \in 1..(LssParts - k)
      BY LssNumbers
    <3> DEFINE f == SelectFrames(k)
    <3>2. 1 \in DOMAIN f
      BY <3>1 DEF SelectFrames
    <3> HIDE DEF f
    <3>3. DOMAIN <<>> = {}
      OBVIOUS
    <3> QED
      BY <3>2, <3>3 DEF f
  <2>3. toSlaves # <<Waiting>> \o SelectFrames(0)
    <3>1. 0 \in 0..(LssParts - 1) /\ LssParts \in Nat
      BY LssNumbers
    <3>2. SelectFrames(0) \in Seq({SelectFrame(0 + i) : i \in 1..(LssParts - 0)} \cup {Waiting})
      <4> DEFINE S == {SelectFrame(0 + i) : i \in 1..(LssParts - 0)} \cup {Waiting}
      <4>1. \A i \in 1..(LssParts - 0) : SelectFrame(0 + i) \in S
        OBVIOUS
      <4> HIDE DEF S
      <4> QED
        BY <3>1, <4>1 DEF SelectFrames
    <3> DEFINE S == {SelectFrame(0 + i) : i \in 1..(LssParts - 0)} \cup {Waiting}
    <3>3. <<Waiting>> \in Seq(S) /\ Len(<<Waiting>>) = 1
      OBVIOUS
    <3> HIDE DEF S
    <3>4. Len(<<Waiting>> \o SelectFrames(0)) = 1 + Len(SelectFrames(0)) /\ Len(SelectFrames(0)) \in Nat
      BY <3>2, <3>3, ConcatProperties, LenProperties DEF S
    <3>5. Len(<<>>) = 0
      OBVIOUS
    <3>6. Len(<<Waiting>> \o SelectFrames(0)) # 0
      BY <3>4
    <3> QED
      BY <1>2, <3>5, <3>6
  <2>4. ChosenReached
    BY <1>2, <2>1, <2>2, <2>3 DEF SwitchInv
  <2>5. AllWait'
    <3>1. \A a \in LssSlaves : slave[a].mode = "waiting" \/ slave[a].mode = "configuration"
      <4>1. slave \in [LssSlaves -> LssSlave]
        BY DEF LssTypes
      <4> QED
        BY <4>1, LssSlaveIs
    <3>2. chosen \notin LssSlaves
      BY <1>1, <1>2, <2>4 DEF ChosenReached, Asleep
    <3> QED
      BY <1>1, <2>4, <3>1, <3>2 DEF AllWait, ChosenReached
  <2>6. Resets'
    BY <1>1, <1>2, <1>4 DEF Resets, Asleep
  <2> QED
    BY <1>1, <1>2, <1>6, <2>5, <2>6 DEF Undisturbed, RestInv
<1>7. CASE mState = "selective" /\ command.cs # "switch"
  <2>1. PICK c \in LssSlaves : OneSelected(c)
    BY <1>7 DEF Undisturbed, SelectedInv
  <2>2. OneSelected(c)' /\ Asleep'
    BY <1>1, <1>2, <2>1 DEF OneSelected, Lss!Matching, Asleep
  <2>3. Lss!ConfirmedByChosen'
    BY <1>4 DEF Lss!ConfirmedByChosen
  <2>4. SelectedInv'
    BY <1>1, <1>2, <2>2, <2>3 DEF SelectedInv
  <2> QED
    BY <1>1, <1>4, <1>7, <2>4 DEF Undisturbed
<1> QED
  BY <1>3, <1>5, <1>6, <1>7

(* What the delivery of a frame does when no slave has a request.          *)
LEMMA DeliverIs ==
  ASSUME LssTypes, Lss!Deliver, ~disturbed'
  PROVE  /\ Asleep /\ toSlaves # <<>> /\ toSlaves \in Seq(LssFrame) /\ Head(toSlaves) \in LssFrame
         /\ toSlaves' = Tail(toSlaves)
         /\ UNCHANGED <<mState, command, mailbox, fs, found, chosen, result>>
         /\ \A a \in LssSlaves : slave[a] \in LssSlave
         /\ \A a \in LssSlaves : slave[a].request = Lss!Nothing
         /\ \A a \in LssSlaves : slave[a].mode = "waiting" \/ slave[a].mode = "configuration"
         /\ \A a \in LssSlaves : slave'[a] = Lss!Receive(a, slave[a], Head(toSlaves))
<1>1. toSlaves \in Seq(LssFrame) /\ slave \in [LssSlaves -> LssSlave]
  BY DEF LssTypes
<1>2. /\ toSlaves # <<>> /\ toSlaves' = Tail(toSlaves)
      /\ UNCHANGED <<mState, command, mailbox, fs, found, chosen, result>>
      /\ \A a \in LssSlaves : slave'[a] = Lss!Receive(a, slave[a], Head(toSlaves))
      /\ \A a \in LssSlaves : slave[a].request = Lss!Nothing
  BY DEF Lss!Deliver, Lss!masterVars
<1>3. \A a \in LssSlaves : slave[a] \in LssSlave
  BY <1>1
<1>4. \A a \in LssSlaves : slave[a].mode = "waiting" \/ slave[a].mode = "configuration"
  BY <1>3, LssSlaveIs
<1>5. Head(toSlaves) \in LssFrame
  BY <1>1, <1>2, HeadTailProperties
<1> QED
  BY <1>1, <1>2, <1>3, <1>4, <1>5 DEF Asleep

(* All slaves are told to wait.                                            *)
LEMMA WaitingDelivered ==
  ASSUME LssTypes, Lss!Deliver, ~disturbed', Head(toSlaves) = Waiting
  PROVE  AllWait' /\ Resets'
<1>0. Waiting.cs = "waiting" /\ Lss!Nothing.cs = "none"
  BY DEF Waiting, Lss!Nothing
<1>1. \A a \in LssSlaves : slave'[a].mode = "waiting" /\ slave'[a].request \in {Lss!Nothing, Waiting}
  BY <1>0, DeliverIs, AsleepReceives
<1> QED
  BY <1>0, <1>1 DEF AllWait, Resets

(* A frame for all of them, or the one that puts them into configuration   *)
(* state.                                                                  *)
LEMMA GlobalDelivered ==
  ASSUME LssTypes, GlobalInv, Lss!Deliver, ~disturbed'
  PROVE  GlobalInv'
<1> DEFINE m == Head(toSlaves)
<1>1. /\ Asleep /\ toSlaves # <<>> /\ toSlaves \in Seq(LssFrame) /\ m \in LssFrame
      /\ toSlaves' = Tail(toSlaves) /\ result' = result
  BY DeliverIs
<1>2. /\ Len(toSlaves) \in Nat /\ Len(toSlaves) > 0 /\ Len(toSlaves') = Len(toSlaves) - 1
      /\ DOMAIN toSlaves = 1..Len(toSlaves) /\ DOMAIN toSlaves' = 1..(Len(toSlaves) - 1)
      /\ \A i \in DOMAIN toSlaves' : toSlaves'[i] = toSlaves[i + 1]
      /\ m = toSlaves[1]
  <2>1. Tail(toSlaves) \in Seq(LssFrame) /\ Len(Tail(toSlaves)) = Len(toSlaves) - 1
        /\ \A i \in 1..Len(Tail(toSlaves)) : Tail(toSlaves)[i] = toSlaves[i + 1]
    BY <1>1, HeadTailProperties
  <2>2. Len(toSlaves) \in Nat /\ Len(toSlaves) > 0
    BY <1>1, EmptySeq
  <2> QED
    BY <1>1, <2>1, <2>2, LenProperties
<1>3. PICK n \in 0..2 :
        /\ n <= Len(toSlaves)
        /\ \A i \in DOMAIN toSlaves : i > n => toSlaves[i].cs \in ToAll
        /\ n > 0 => toSlaves[n].cs = "configuration"
        /\ n = 2 => toSlaves[1] = Waiting
        /\ n = 0 => \A a \in LssSlaves : /\ slave[a].mode = "configuration"
                                         /\ slave[a].request.cs \in ToAll \cup {"none"}
  BY DEF GlobalInv, GlobalFrames
<1>4. \A x \in ToAll : x # "configuration" /\ x # "waiting"
  BY DEF ToAll
<1>5. /\ Lss!Nothing.cs = "none" /\ \A a \in LssSlaves : slave[a] \in LssSlave
      /\ \A a \in LssSlaves : slave[a].request = Lss!Nothing
      /\ \A a \in LssSlaves : slave'[a] = Lss!Receive(a, slave[a], m)
  BY DeliverIs DEF Lss!Nothing
<1> HIDE DEF m
<1>6. n = 0 => /\ m.cs \in ToAll
               /\ \A a \in LssSlaves : slave'[a].mode = "configuration" /\ slave'[a].request = m
  <2> SUFFICES ASSUME n = 0
               PROVE  /\ m.cs \in ToAll
                      /\ \A a \in LssSlaves : slave'[a].mode = "configuration" /\ slave'[a].request = m
    OBVIOUS
  <2>1. m.cs \in ToAll
    BY <1>2, <1>3
  <2> QED
    BY <1>1, <1>3, <1>4, <1>5, <2>1, AsleepReceives
<1>7. n = 1 => \A a \in LssSlaves : slave'[a].mode = "configuration" /\ slave'[a].request = Lss!Nothing
  <2> SUFFICES ASSUME n = 1
               PROVE  \A a \in LssSlaves : slave'[a].mode = "configuration" /\ slave'[a].request = Lss!Nothing
    OBVIOUS
  <2>1. m.cs = "configuration"
    BY <1>2, <1>3
  <2> QED
    BY <1>1, <1>5, <2>1, AsleepReceives
<1>8. GlobalFrames'
  <2> DEFINE k == IF n = 0 THEN 0 ELSE n - 1
  <2>1. k \in 0..2 /\ k # 2 /\ k <= Len(toSlaves') /\ \A i \in DOMAIN toSlaves' : i > k => i + 1 > n
    BY <1>2, <1>3
  <2>2. \A i \in DOMAIN toSlaves' : i > k => toSlaves'[i].cs \in ToAll
    <3> SUFFICES ASSUME NEW i \in DOMAIN toSlaves', i > k PROVE toSlaves'[i].cs \in ToAll
      OBVIOUS
    <3>1. i + 1 \in DOMAIN toSlaves /\ i + 1 > n
      BY <1>2, <2>1
    <3> QED
      BY <1>2, <1>3, <3>1
  <2>3. k > 0 => toSlaves'[k].cs = "configuration"
    <3> SUFFICES ASSUME k > 0 PROVE toSlaves'[k].cs = "configuration"
      OBVIOUS
    <3>1. n = 2 /\ k = 1 /\ k \in DOMAIN toSlaves' /\ k + 1 = n
      BY <1>2, <1>3
    <3> QED
      BY <1>2, <1>3, <3>1
  <2>4. k = 0 => \A a \in LssSlaves : /\ slave'[a].mode = "configuration"
                                      /\ slave'[a].request.cs \in ToAll \cup {"none"}
    <3>1. k = 0 => n = 0 \/ n = 1
      OBVIOUS
    <3> QED
      BY <1>5, <1>6, <1>7, <3>1
  <2> HIDE DEF k
  <2> QED
    BY <2>1, <2>2, <2>3, <2>4 DEF GlobalFrames, ToAll, Waiting
<1>9. ASSUME result.service.cs = "activate"
      PROVE  \/ toSlaves' # <<>> /\ toSlaves'[Len(toSlaves')].cs = "activate"
             \/ /\ toSlaves' = <<>>
                /\ \A a \in DOMAIN LssSupported : slave'[a].request.cs = "activate"
  <2>1. toSlaves[Len(toSlaves)].cs = "activate"
    BY <1>1, <1>9 DEF GlobalInv
  <2>2. CASE Len(toSlaves) = 1
    <3>1. m.cs = "activate"
      BY <1>2, <2>1, <2>2
    <3>2. n = 0
      <4>1. n = 0 \/ n = 1
        BY <1>3, <2>2
      <4>2. n # 1
        BY <1>2, <1>3, <3>1
      <4> QED
        BY <4>1, <4>2
    <3>3. toSlaves' = <<>>
      <4>1. Len(toSlaves') = 0 /\ toSlaves' \in Seq(LssFrame)
        BY <1>1, <1>2, <2>2, HeadTailProperties
      <4> QED
        BY <4>1, EmptySeq
    <3>4. DOMAIN LssSupported \subseteq LssSlaves
      BY LssAssumption
    <3> QED
      BY <1>6, <3>1, <3>2, <3>3, <3>4
  <2>3. CASE Len(toSlaves) # 1
    <3>1. Len(toSlaves') \in DOMAIN toSlaves' /\ Len(toSlaves') + 1 = Len(toSlaves)
      BY <1>2, <2>3
    <3>2. toSlaves'[Len(toSlaves')].cs = "activate"
      BY <1>2, <2>1, <3>1
    <3>3. toSlaves' # <<>>
      <4>1. DOMAIN <<>> = {}
        OBVIOUS
      <4> QED
        BY <3>1, <4>1
    <3> QED
      BY <3>2, <3>3
  <2> QED
    BY <2>2, <2>3
<1> QED
  BY <1>1, <1>8, <1>9 DEF GlobalInv

(* A service reaches the slave that is selected.                           *)
LEMMA ServiceDelivered ==
  ASSUME LssTypes, SelectedInv, Lss!Deliver, ~disturbed', command.cs # "switch", mState = "selective"
  PROVE  SelectedInv'
<1>1. /\ Asleep /\ toSlaves # <<>> /\ toSlaves' = Tail(toSlaves)
      /\ UNCHANGED <<mState, command, mailbox, fs, found, chosen, result>>
  BY DeliverIs
<1>2. PICK c \in LssSlaves : OneSelected(c) /\ command # Lss!Nothing /\ InService(c)
  BY <1>1 DEF SelectedInv
<1>3. ToOne(command) /\ command \in LssCommand
  BY <1>2, ConfirmableIs DEF LssTypes
<1>4. toSlaves = <<FrameOf(command)>> /\ mailbox = Lss!Nothing
  BY <1>1, <1>2 DEF InService
<1> DEFINE m == FrameOf(command)
<1>5. toSlaves' = <<>> /\ Head(toSlaves) = m
  BY <1>1, <1>4
<1>6. m \in LssFrame /\ m.cs = command.cs
  BY <1>3, FrameOfIs
<1>7. m.cs # "waiting" /\ m.cs # "configuration" /\ m.cs # "select" /\ m.cs # "fastscan"
  BY <1>3, <1>6 DEF ToOne
<1> HIDE DEF m
<1>8. /\ \A a \in LssSlaves : slave[a] \in LssSlave
      /\ \A a \in LssSlaves : slave[a].request = Lss!Nothing
      /\ \A a \in LssSlaves : slave[a].mode = "waiting" \/ slave[a].mode = "configuration"
      /\ \A a \in LssSlaves : slave'[a] = Lss!Receive(a, slave[a], m)
  BY <1>5, DeliverIs
<1>9. ASSUME NEW a \in LssSlaves
      PROVE  /\ slave'[a].mode = slave[a].mode
             /\ a = c => slave'[a].request = m
             /\ a # c => slave'[a].request = Lss!Nothing
  <2>1. slave[a].mode = "configuration" <=> a = c
    BY <1>2 DEF OneSelected
  <2>2. CASE a = c
    BY <1>6, <1>7, <1>8, <2>1, <2>2, AsleepReceives
  <2>3. CASE a # c
    <3>1. slave[a].mode = "waiting"
      BY <1>8, <2>1, <2>3
    <3>2. slave'[a] = slave[a]
      BY <1>6, <1>7, <1>8, <3>1, AsleepReceives
    <3> QED
      BY <1>8, <2>3, <3>2
  <2> QED
    BY <2>2, <2>3
<1>10. OneSelected(c)'
  <2>1. Lss!Matching' = Lss!Matching
    BY <1>1 DEF Lss!Matching
  <2> QED
    BY <1>2, <1>9, <2>1 DEF OneSelected
<1>11. InService(c)'
  <2>1. FrameOf(command)' = m
    BY <1>1 DEF m, FrameOf
  <2> QED
    BY <1>1, <1>4, <1>5, <1>9, <2>1 DEF InService
<1>12. Lss!ConfirmedByChosen'
  BY <1>1, <1>2 DEF Lss!ConfirmedByChosen
<1> QED
  BY <1>1, <1>2, <1>10, <1>11, <1>12 DEF SelectedInv

(* The frames behind the first one.                                        *)
LEMMA FirstFrame ==
  ASSUME NEW S, NEW s \in Seq(S), NEW x \in S
  PROVE  /\ <<x>> \o s \in Seq(S) /\ <<x>> \o s # <<>>
         /\ Head(<<x>> \o s) = x /\ Tail(<<x>> \o s) = s
<1>1. <<x>> \in Seq(S) /\ Len(<<x>>) = 1 /\ <<x>>[1] = x
  OBVIOUS
<1> DEFINE u == <<x>>
           t == u \o s
<1> HIDE DEF u
<1>2. /\ t \in Seq(S) /\ Len(t) = 1 + Len(s) /\ Len(s) \in Nat
      /\ \A i \in 1..(1 + Len(s)) : t[i] = IF i <= 1 THEN u[i] ELSE s[i - 1]
  BY <1>1, ConcatProperties, LenProperties DEF u
<1> HIDE DEF t
<1>3. t # <<>>
  BY <1>2, EmptySeq
<1>4. Head(t) = x
  <2>1. 1 \in 1..(1 + Len(s))
    BY <1>2
  <2>2. t[1] = x
    BY <1>1, <1>2, <2>1 DEF u
  <2> QED
    BY <1>2, <1>3, <2>2
<1>5. Tail(t) = s
  <2> DEFINE r == Tail(t)
  <2>1. r \in Seq(S) /\ Len(r) = Len(s) /\ \A i \in 1..Len(r) : r[i] = t[i + 1]
    BY <1>2, <1>3, HeadTailProperties
  <2> HIDE DEF r
  <2>2. ASSUME NEW i \in 1..Len(r) PROVE r[i] = s[i]
    <3>1. i + 1 \in 1..(1 + Len(s)) /\ ~(i + 1 <= 1) /\ (i + 1) - 1 = i
      BY <1>2, <2>1
    <3> QED
      BY <1>2, <2>1, <3>1
  <2>3. r = s
    BY <2>1, <2>2, SeqEqual
  <2> QED
    BY <2>3 DEF r
<1> QED
  BY <1>2, <1>3, <1>4, <1>5 DEF t, u

(* The frames that are left after k parts of the address.                  *)
LEMMA SelectFramesAre ==
  ASSUME chosen \in [Lss!Part -> Nat], NEW k \in 0..(LssParts - 1)
  PROVE  /\ SelectFrames(k) \in Seq(LssFrame) /\ SelectFrames(k) # <<>>
         /\ Head(SelectFrames(k)) = SelectFrame(k + 1)
         /\ Tail(SelectFrames(k)) = SelectFrames(k + 1)
         /\ k + 1 = LssParts => SelectFrames(k + 1) = <<>>
<1> DEFINE s == SelectFrames(k)  n == LssParts - k
<1>0. LssParts \in Nat /\ k \in Nat /\ n \in Nat /\ n > 0
  BY LssNumbers
<1>1. \A i \in 1..n : SelectFrame(k + i) \in LssFrame
  <2> SUFFICES ASSUME NEW i \in 1..n PROVE SelectFrame(k + i) \in LssFrame
    OBVIOUS
  <2>1. (k + i) - 1 \in Lss!Part
    BY <1>0, LssNumbers
  <2>2. chosen[(k + i) - 1] \in Nat
    BY <2>1
  <2> QED
    BY <2>1, <2>2, LssFramesAre DEF SelectFrame
<1>2. s = [i \in 1..n |-> SelectFrame(k + i)]
  BY DEF SelectFrames
<1>3. s \in Seq(LssFrame) /\ Len(s) = n /\ DOMAIN s = 1..n
  <2>1. s \in [1..n -> LssFrame]
    <3> HIDE DEF s
    <3> QED
      BY <1>1, <1>2
  <2>2. s \in Seq(LssFrame)
    <3> HIDE DEF s, n
    <3> QED
      BY <1>0, <2>1, SeqDef
  <2>3. DOMAIN s = 1..n
    BY <1>2
  <2> HIDE DEF s, n
  <2> QED
    BY <1>0, <2>2, <2>3, LenProperties
<1>4. s # <<>>
  <2> HIDE DEF s, n
  <2> QED
    BY <1>0, <1>3, EmptySeq
<1>5. Head(s) = SelectFrame(k + 1)
  <2>1. 1 \in 1..n
    BY <1>0
  <2> HIDE DEF s, n
  <2> QED
    BY <1>2, <1>3, <1>4, <2>1, HeadTailProperties
<1>6. Tail(s) = SelectFrames(k + 1)
  <2> DEFINE t == Tail(s)
  <2>1. t \in Seq(LssFrame) /\ Len(t) = n - 1 /\ \A i \in 1..Len(t) : t[i] = s[i + 1]
    <3> HIDE DEF s, n
    <3> QED
      BY <1>3, <1>4, HeadTailProperties
  <2>2. t \in [1..(n - 1) -> LssFrame]
    <3> HIDE DEF t, n
    <3> QED
      BY <2>1, LenProperties
  <2>3. \A i \in 1..(n - 1) : t[i] = SelectFrame((k + 1) + i)
    <3> SUFFICES ASSUME NEW i \in 1..(n - 1) PROVE t[i] = SelectFrame((k + 1) + i)
      OBVIOUS
    <3>1. i + 1 \in 1..n /\ k + (i + 1) = (k + 1) + i
      BY <1>0
    <3>2. t[i] = s[i + 1]
      <4> HIDE DEF s, n, t
      <4> QED
        BY <2>1
    <3> HIDE DEF s, n, t
    <3> QED
      BY <1>2, <3>1, <3>2
  <2>4. SelectFrames(k + 1) = [i \in 1..(LssParts - (k + 1)) |-> SelectFrame((k + 1) + i)]
    BY DEF SelectFrames
  <2>5. LssParts - (k + 1) = n - 1
    BY <1>0
  <2> HIDE DEF s, t, n
  <2>6. t = [i \in 1..(n - 1) |-> SelectFrame((k + 1) + i)]
    BY <2>2, <2>3
  <2> QED
    BY <2>4, <2>5, <2>6 DEF t
<1>7. k + 1 = LssParts => SelectFrames(k + 1) = <<>>
  <2> SUFFICES ASSUME k + 1 = LssParts PROVE SelectFrames(k + 1) = <<>>
    OBVIOUS
  <2>1. n = 1
    BY <1>0
  <2> HIDE DEF s, n
  <2>2. Tail(s) \in Seq(LssFrame) /\ Len(Tail(s)) = 0
    BY <1>3, <1>4, <2>1, HeadTailProperties
  <2>3. Tail(s) = <<>>
    BY <2>2, EmptySeq
  <2> QED
    BY <1>6, <2>3
<1> QED
  BY <1>3, <1>4, <1>5, <1>6, <1>7

(* A part of the address comes to the slaves, which all wait.              *)
LEMMA PartDelivered ==
  ASSUME LssTypes, Lss!Deliver, ~disturbed', mState = "selective", chosen \in LssTargets,
         NEW k \in 0..(LssParts - 1), toSlaves = SelectFrames(k), AllWait, mailbox = Lss!Nothing, SelectedTo(k)
  PROVE  /\ toSlaves' = SelectFrames(k + 1)
         /\ k + 1 < LssParts => AllWait' /\ SelectedTo(k + 1)'
         /\ k + 1 = LssParts => ChosenReached'
<1> DEFINE m == SelectFrame(k + 1)
<1>0. /\ LssParts \in Nat /\ k \in Nat /\ (k + 1) - 1 = k /\ k \in Lss!Part /\ Lss!Part = 0..(LssParts - 1)
      /\ LssTargets \subseteq [Lss!Part -> Nat] /\ chosen \in [Lss!Part -> Nat]
  <2>1. LssTargets \subseteq [Lss!Part -> Nat]
    BY LssAssumption
  <2>2. /\ LssParts \in Nat /\ k \in Nat /\ (k + 1) - 1 = k /\ k \in Lss!Part /\ Lss!Part = 0..(LssParts - 1)
    BY LssNumbers
  <2> QED
    BY <2>1, <2>2
<1>1. Head(toSlaves) = m /\ toSlaves' = SelectFrames(k + 1)
  BY <1>0, SelectFramesAre, DeliverIs
<1>2. m.cs = "select" /\ m.part = k /\ m.value = chosen[k] /\ m \in LssFrame
  <2>1. m.cs = "select" /\ m.part = k /\ m.value = chosen[k]
    BY <1>0 DEF SelectFrame
  <2>2. m \in LssFrame
    BY <1>1, DeliverIs
  <2> QED
    BY <2>1, <2>2
<1> HIDE DEF m
<1>3. ASSUME NEW a \in LssSlaves
      PROVE  /\ slave[a] \in LssSlave /\ slave[a].request = Lss!Nothing /\ slave[a].mode = "waiting"
             /\ slave'[a] = Lss!Receive(a, slave[a], m)
  BY <1>1, DeliverIs DEF AllWait
<1>4. UNCHANGED <<chosen, mailbox>>
  BY DeliverIs
<1>5. ASSUME NEW a \in LssSlaves
      PROVE  /\ slave'[a].select = [slave[a].select EXCEPT ![k] = chosen[k]]
             /\ slave[a].select \in [Lss!Part -> Nat]
             /\ IF k = LssParts - 1 /\ slave'[a].select = a
                THEN slave'[a].mode = "configuration" /\ slave'[a].request = m
                ELSE slave'[a].mode = "waiting" /\ slave'[a].request = Lss!Nothing
  <2>1. PICK s, r : s = slave[a] /\ r = slave'[a]
    OBVIOUS
  <2>2. s \in LssSlave /\ s.request = Lss!Nothing /\ s.mode = "waiting" /\ r = Lss!Receive(a, s, m)
    BY <1>3, <2>1
  <2>3. s.select \in [Lss!Part -> Nat]
    BY <2>2, LssSlaveIs
  <2>4. /\ r.select = [s.select EXCEPT ![m.part] = m.value]
        /\ IF m.part = LssParts - 1 /\ r.select = a
           THEN r.mode = "configuration" /\ r.request = m
           ELSE r.mode = "waiting" /\ r.request = Lss!Nothing
    BY <1>2, <2>2, PartComes
  <2> QED
    BY <1>2, <2>1, <2>3, <2>4
<1>6. ASSUME NEW a \in LssSlaves
      PROVE  /\ slave'[a].select \in [Lss!Part -> Nat]
             /\ \A p \in Lss!Part : p < k + 1 => slave'[a].select[p] = chosen[p]
  <2>1. PICK f, g : f = slave[a].select /\ g = slave'[a].select
    OBVIOUS
  <2>2. f \in [Lss!Part -> Nat] /\ g = [f EXCEPT ![k] = chosen[k]]
    BY <1>5, <2>1
  <2>3. g \in [Lss!Part -> Nat]
    BY <1>0, <2>2
  <2>4. ASSUME NEW p \in Lss!Part, p < k + 1 PROVE g[p] = chosen[p]
    <3>1. CASE p = k
      BY <1>0, <2>2, <3>1
    <3>2. CASE p # k
      <4>1. p < k
        BY <1>0, <2>4, <3>2
      <4>2. f[p] = chosen[p]
        BY <2>1, <4>1 DEF SelectedTo
      <4> QED
        BY <2>2, <3>2, <4>2
    <3> QED
      BY <3>1, <3>2
  <2> QED
    BY <2>1, <2>3, <2>4
<1>7. ASSUME k + 1 < LssParts PROVE AllWait' /\ SelectedTo(k + 1)'
  <2>1. k # LssParts - 1 /\ k + 1 # 0 /\ k + 1 > 0
    BY <1>0, <1>7
  <2>2. \A a \in LssSlaves : slave'[a].mode = "waiting" /\ slave'[a].request = Lss!Nothing
    BY <1>5, <2>1
  <2> QED
    BY <1>4, <1>6, <2>1, <2>2 DEF AllWait, SelectedTo, Asleep
<1>8. ASSUME k + 1 = LssParts PROVE ChosenReached'
  <2>1. k = LssParts - 1 /\ \A p \in Lss!Part : p < k + 1
    BY <1>0, <1>8
  <2>2. ASSUME NEW a \in LssSlaves PROVE slave'[a].select = chosen
    <3>1. PICK f, g : f = chosen /\ g = slave'[a].select
      OBVIOUS
    <3>2. f \in [Lss!Part -> Nat] /\ g \in [Lss!Part -> Nat]
      BY <1>0, <1>6, <3>1
    <3>3. \A p \in Lss!Part : g[p] = f[p]
      BY <1>6, <2>1, <3>1
    <3>4. g = f
      BY <3>2, <3>3
    <3> QED
      BY <3>1, <3>4
  <2>3. ASSUME NEW a \in LssSlaves
        PROVE  IF a = chosen THEN slave'[a].mode = "configuration" /\ slave'[a].request = m
               ELSE slave'[a].mode = "waiting" /\ slave'[a].request = Lss!Nothing
    BY <1>5, <2>1, <2>2
  <2>4. m # Lss!Nothing /\ m = SelectFrame(LssParts)'
    <3>1. Lss!Nothing.cs = "none"
      BY DEF Lss!Nothing
    <3>2. m = SelectFrame(LssParts)
      BY <1>8 DEF m
    <3> QED
      BY <1>2, <1>4, <3>1, <3>2 DEF SelectFrame
  <2> QED
    BY <1>4, <2>3, <2>4 DEF ChosenReached
<1> QED
  BY <1>1, <1>7, <1>8

(* The address of the slave that is selected.                              *)
LEMMA SwitchDelivered ==
  ASSUME LssTypes, SwitchInv, Lss!Deliver, ~disturbed', mState = "selective"
  PROVE  SwitchInv'
<1>0. /\ LssParts \in Nat /\ LssParts > 0 /\ 0 \in 0..(LssParts - 1)
      /\ chosen \in LssTargets /\ chosen \in [Lss!Part -> Nat]
  BY LssNumbers, LssAssumption DEF SwitchInv
<1>1. toSlaves' = Tail(toSlaves) /\ toSlaves # <<>> /\ UNCHANGED <<chosen, mailbox>>
  BY DeliverIs
<1>2. \A k : SelectFrames(k)' = SelectFrames(k)
  BY <1>1 DEF SelectFrames, SelectFrame
<1>3. CASE toSlaves = <<Waiting>> \o SelectFrames(0) /\ Asleep /\ mailbox = Lss!Nothing
  <2>1. SelectFrames(0) \in Seq(LssFrame)
    BY <1>0, SelectFramesAre
  <2>2. Waiting \in LssFrame
    BY LssFramesAre DEF Waiting
  <2>3. Head(toSlaves) = Waiting /\ Tail(toSlaves) = SelectFrames(0)
    BY <1>3, <2>1, <2>2, FirstFrame
  <2>4. AllWait' /\ Resets'
    BY <2>3, WaitingDelivered
  <2>5. SelectedTo(0)'
    <3>1. \A p \in Lss!Part : ~(p < 0)
      BY LssNumbers
    <3> QED
      BY <2>4, <3>1 DEF SelectedTo
  <2> QED
    BY <1>0, <1>1, <1>2, <1>3, <2>3, <2>4, <2>5 DEF SwitchInv
<1>4. CASE \E k \in 0..(LssParts - 1) :
             toSlaves = SelectFrames(k) /\ AllWait /\ mailbox = Lss!Nothing /\ SelectedTo(k)
  <2>1. PICK k \in 0..(LssParts - 1) :
          toSlaves = SelectFrames(k) /\ AllWait /\ mailbox = Lss!Nothing /\ SelectedTo(k)
    BY <1>4
  <2>2. /\ toSlaves' = SelectFrames(k + 1)
        /\ k + 1 < LssParts => AllWait' /\ SelectedTo(k + 1)'
        /\ k + 1 = LssParts => ChosenReached'
    BY <1>0, <2>1, PartDelivered
  <2>3. CASE k + 1 < LssParts
    <3>1. k + 1 \in 0..(LssParts - 1)
      BY <1>0, <2>3
    <3> QED
      BY <1>0, <1>1, <1>2, <2>1, <2>2, <2>3, <3>1 DEF SwitchInv
  <2>4. CASE k + 1 = LssParts
    <3>1. toSlaves' = <<>>
      BY <1>0, <2>2, <2>4, SelectFramesAre
    <3> QED
      BY <1>0, <1>1, <2>2, <2>4, <3>1 DEF SwitchInv
  <2>5. k + 1 < LssParts \/ k + 1 = LssParts
    BY <1>0
  <2> QED
    BY <2>3, <2>4, <2>5
<1> QED
  BY <1>1, <1>3, <1>4 DEF SwitchInv

(* The frame of a probe, by the state of the scan.                         *)
LEMMA TheProbeIs ==
  ASSUME LssTypes, command.cs = "fastscan", ScanInv
  PROVE  /\ fs.state = "check" \/ fs.state = "scan" \/ fs.state = "verify"
         /\ fs.sub \in Lss!Part /\ fs.id \in Nat /\ Lss!NextSub(fs.sub) \in Lss!Part
         /\ TheProbe \in LssFrame /\ TheProbe.cs = "fastscan"
         /\ fs.state = "check" => TheProbe.bit = Lss!Confirm /\ fs.sub = 0
         /\ fs.state = "scan" => /\ TheProbe.bit # Lss!Confirm
                                 /\ TheProbe.sub = fs.sub /\ TheProbe.next = fs.sub
         /\ fs.state = "verify" => /\ TheProbe.bit = 0 /\ TheProbe.bit # Lss!Confirm /\ TheProbe.id = fs.id
                                   /\ TheProbe.sub = fs.sub /\ TheProbe.next = Lss!NextSub(fs.sub)
<1>1. fs \in LssScan /\ fs.state # "none"
  BY DEF LssTypes
<1>2. (fs.state = "check" \/ fs.state = "scan" \/ fs.state = "verify") /\ fs.sub \in Lss!Part
      /\ fs.id \in Lss!Number /\ fs.bit \in 0..(LssBits - 1)
  BY <1>1 DEF LssScan
<1>3. fs.id \in Nat /\ fs.bit \in Nat /\ fs.bit # Lss!Confirm /\ 0 # Lss!Confirm /\ Lss!Confirm \in Nat
  <2>1. Lss!Number \subseteq Nat /\ fs.id \in Lss!Number
    BY <1>2, LssZeros
  <2>2. LssBits \in Nat /\ LssBits <= 128 /\ fs.bit \in 0..(LssBits - 1)
    BY <1>2, LssNumbers
  <2>3. fs.bit \in Nat /\ fs.bit # 128
    BY <2>2
  <2>4. Lss!Confirm = 128
    BY DEF Lss!Confirm
  <2>5. fs.id \in Nat
    BY <2>1
  <2>6. 0 # 128 /\ 128 \in Nat
    OBVIOUS
  <2> QED
    BY <2>3, <2>4, <2>5, <2>6
<1>4. Lss!NextSub(fs.sub) \in Lss!Part /\ 0 \in Lss!Part
  BY <1>2, NextSubIs, LssZeros
<1>5. \A id, bit \in Nat, sub, next \in Lss!Part :
        /\ Lss!Probe(id, bit, sub, next) \in LssFrame /\ Lss!Probe(id, bit, sub, next).cs = "fastscan"
        /\ Lss!Probe(id, bit, sub, next).bit = bit /\ Lss!Probe(id, bit, sub, next).id = id
        /\ Lss!Probe(id, bit, sub, next).sub = sub /\ Lss!Probe(id, bit, sub, next).next = next
  BY LssFramesAre DEF Lss!Probe
<1>6. CASE fs.state = "check"
  <2>1. TheProbe = Lss!Probe(0, Lss!Confirm, 0, 0)
    BY <1>6 DEF TheProbe
  <2>2. fs.sub = 0
    BY <1>6 DEF ScanInv
  <2> QED
    BY <1>2, <1>3, <1>4, <1>5, <1>6, <2>1, <2>2
<1>7. CASE fs.state = "scan"
  <2>1. TheProbe = Lss!Probe(fs.id, fs.bit, fs.sub, fs.sub)
    BY <1>7 DEF TheProbe
  <2> QED
    BY <1>2, <1>3, <1>4, <1>5, <1>7, <2>1
<1>8. CASE fs.state = "verify"
  <2>1. TheProbe = Lss!Probe(fs.id, 0, fs.sub, Lss!NextSub(fs.sub))
    BY <1>8 DEF TheProbe
  <2> QED
    BY <1>2, <1>3, <1>4, <1>5, <1>8, <2>1
<1> QED
  BY <1>2, <1>6, <1>7, <1>8

(* With all its bits, a number is the same only when it is equal.          *)
LEMMA SameIs ==
  ASSUME NEW x \in Nat, NEW y \in Nat
  PROVE  Lss!Same(x, y, 0) => x = y
<1>1. Lss!Twice[0] = 1
  BY LssNumbers
<1>2. x \div 1 = x /\ y \div 1 = y
  OBVIOUS
<1> QED
  BY <1>1, <1>2 DEF Lss!Same

(* What becomes of a waiting slave that the probe of the master reaches.   *)
LEMMA SlaveProbed ==
  ASSUME LssTypes, command.cs = "fastscan", ScanInv, NEW a \in LssSlaves, NEW s \in LssSlave,
         s.request = Lss!Nothing, s.mode = "waiting", NEW r, r = Lss!Receive(a, s, TheProbe)
  PROVE  /\ r.request = Lss!Nothing \/ r.request = TheProbe
         /\ TakesPart(r) <=> TakesPart(s)
         /\ fs.state = "check" => r.mode = "waiting" /\ (TakesPart(r) => r.pos = 0)
         /\ fs.state = "scan" => r.mode = "waiting" /\ r.pos = s.pos
         /\ fs.state = "verify" /\ Lss!NextSub(fs.sub) # 0 =>
              /\ r.mode = "waiting"
              /\ \/ r.pos = s.pos /\ (TakesPart(s) => s.pos # fs.sub \/ a[fs.sub] # fs.id)
                 \/ r.pos = Lss!NextSub(fs.sub) /\ s.pos = fs.sub /\ a[fs.sub] = fs.id
         /\ fs.state = "verify" /\ Lss!NextSub(fs.sub) = 0 =>
              \/ r.mode = "waiting" /\ r.request = Lss!Nothing
              \/ /\ r.mode = "configuration" /\ r.request = TheProbe
                 /\ TakesPart(s) /\ s.pos = fs.sub /\ a[fs.sub] = fs.id
<1> DEFINE m == TheProbe
           n == Lss!NextSub(fs.sub)
<1> HIDE DEF m, n
<1>1. /\ fs.state = "check" \/ fs.state = "scan" \/ fs.state = "verify"
      /\ fs.sub \in Lss!Part /\ fs.id \in Nat /\ n \in Lss!Part
      /\ m \in LssFrame /\ m.cs = "fastscan"
      /\ fs.state = "check" => m.bit = Lss!Confirm /\ fs.sub = 0
      /\ fs.state = "scan" => m.bit # Lss!Confirm /\ m.sub = fs.sub /\ m.next = fs.sub
      /\ fs.state = "verify" => m.bit = 0 /\ m.bit # Lss!Confirm /\ m.id = fs.id /\ m.sub = fs.sub /\ m.next = n
  BY TheProbeIs DEF m, n
<1>2. /\ TakesPart(r) <=> TakesPart(s)
      /\ \/ r = s /\ (TakesPart(s) => m.bit # Lss!Confirm /\ ~(s.pos = m.sub /\ Lss!Same(a[m.sub], m.id, m.bit)))
         \/ TakesPart(s) /\ m.bit = Lss!Confirm /\ r.pos = 0 /\ r.request = m /\ r.mode = "waiting"
         \/ /\ TakesPart(s) /\ m.bit # Lss!Confirm /\ s.pos = m.sub /\ Lss!Same(a[m.sub], m.id, m.bit)
            /\ r.pos = m.next /\ r.request = m
            /\ r.mode = IF m.bit = 0 /\ m.next < m.sub THEN "configuration" ELSE "waiting"
  BY <1>1, ProbeComes DEF m
<1>3. fs.sub \in Nat /\ n \in Nat /\ ~(fs.sub < fs.sub) /\ a[fs.sub] \in Nat
  <2>1. Lss!Part \subseteq Nat /\ Lss!Number \subseteq Nat
    BY LssZeros
  <2>2. a \in [Lss!Part -> Lss!Number]
    BY LssAssumption
  <2>3. fs.sub \in Nat /\ n \in Nat /\ a[fs.sub] \in Nat
    BY <1>1, <2>1, <2>2
  <2> QED
    BY <2>3
<1>4. r.request = Lss!Nothing \/ r.request = m
  BY <1>2
<1>5. fs.state = "check" => r.mode = "waiting" /\ (TakesPart(r) => r.pos = 0)
  BY <1>1, <1>2
<1>6. fs.state = "scan" => r.mode = "waiting" /\ r.pos = s.pos
  BY <1>1, <1>2, <1>3
<1>7. n # 0 => n > fs.sub /\ ~(n < fs.sub)
  <2>1. n # 0 => n > fs.sub
    BY <1>1, NextSubIs DEF n
  <2> QED
    BY <1>3, <2>1
<1>8. n = 0 => fs.sub # 0 /\ n < fs.sub
  <2> SUFFICES ASSUME n = 0 PROVE fs.sub # 0 /\ n < fs.sub
    OBVIOUS
  <2>1. \A p \in Lss!Part : p > fs.sub => command.scan[p] = "skip"
    BY <1>1, NextSubIs DEF n
  <2>2. PICK p \in Lss!Part : p # 0 /\ command.scan[p] # "skip"
    BY LssCommandIs DEF LssTypes
  <2>3. p \in Nat /\ ~(p > fs.sub)
    BY <2>1, <2>2, LssZeros
  <2> QED
    BY <1>3, <2>2, <2>3
<1>9. fs.state = "verify" => (Lss!Same(a[m.sub], m.id, m.bit) <=> a[fs.sub] = fs.id)
  <2> SUFFICES ASSUME fs.state = "verify" PROVE Lss!Same(a[m.sub], m.id, m.bit) <=> a[fs.sub] = fs.id
    OBVIOUS
  <2>1. m.sub = fs.sub /\ m.id = fs.id /\ m.bit = 0
    BY <1>1
  <2>2. Lss!Same(a[fs.sub], fs.id, 0) => a[fs.sub] = fs.id
    BY <1>1, <1>3, SameIs
  <2>3. a[fs.sub] = fs.id => Lss!Same(a[fs.sub], fs.id, 0)
    BY DEF Lss!Same
  <2> QED
    BY <2>1, <2>2, <2>3
<1>10. fs.state = "verify" =>
         \/ r = s /\ (TakesPart(s) => s.pos # fs.sub \/ a[fs.sub] # fs.id)
         \/ /\ TakesPart(s) /\ s.pos = fs.sub /\ a[fs.sub] = fs.id /\ r.pos = n /\ r.request = m
            /\ r.mode = IF n < fs.sub THEN "configuration" ELSE "waiting"
  BY <1>1, <1>2, <1>9
<1>11. fs.state = "verify" /\ n # 0 =>
         /\ r.mode = "waiting"
         /\ \/ r.pos = s.pos /\ (TakesPart(s) => s.pos # fs.sub \/ a[fs.sub] # fs.id)
            \/ r.pos = n /\ s.pos = fs.sub /\ a[fs.sub] = fs.id
  BY <1>7, <1>10
<1>12. fs.state = "verify" /\ n = 0 =>
         \/ r.mode = "waiting" /\ r.request = Lss!Nothing
         \/ /\ r.mode = "configuration" /\ r.request = m
            /\ TakesPart(s) /\ s.pos = fs.sub /\ a[fs.sub] = fs.id
  BY <1>8, <1>10
<1> QED
  BY <1>2, <1>4, <1>5, <1>6, <1>11, <1>12 DEF m, n

(* Who agreed up to a part, and has the number found for it, agrees up to  *)
(* the next one, or to the end.                                            *)
LEMMA AgreesFurther ==
  ASSUME LssTypes, fs.sub \in Lss!Part, NEW a \in LssSlaves, Agrees(a, found, fs.sub), a[fs.sub] = fs.id
  PROVE  IF Lss!NextSub(fs.sub) = 0 THEN Agrees(a, FoundNow, LssParts)
         ELSE Agrees(a, FoundNow, Lss!NextSub(fs.sub))
<1> DEFINE n == Lss!NextSub(fs.sub)
<1>0. Lss!Part \subseteq Nat /\ found \in [Lss!Part -> Lss!Number] /\ n \in Lss!Part
  BY LssZeros, NextSubIs DEF LssTypes
<1>1. ASSUME NEW p \in Lss!Part, command.scan[p] # "skip", p <= fs.sub
      PROVE  a[p] = FoundNow[p]
  <2>1. CASE p = fs.sub
    BY <1>0, <2>1 DEF FoundNow
  <2>2. CASE p # fs.sub
    <3>1. p < fs.sub
      <4>1. p \in Nat /\ fs.sub \in Nat
        BY <1>0
      <4> QED
        BY <1>1, <2>2, <4>1
    <3>2. FoundNow[p] = found[p]
      BY <1>0, <2>2 DEF FoundNow
    <3> QED
      BY <1>1, <3>1, <3>2 DEF Agrees
  <2> QED
    BY <2>1, <2>2
<1>2. CASE n = 0
  <2>1. \A p \in Lss!Part : p > fs.sub => command.scan[p] = "skip"
    BY <1>2, NextSubIs
  <2>2. \A p \in Lss!Part : command.scan[p] # "skip" => p <= fs.sub
    BY <1>0, <2>1
  <2>3. Agrees(a, FoundNow, LssParts)
    BY <1>1, <2>2 DEF Agrees
  <2> QED
    BY <1>2, <2>3
<1>3. CASE n # 0
  <2>1. \A p \in Lss!Part : p > fs.sub /\ p < n => command.scan[p] = "skip"
    BY <1>3, NextSubIs
  <2> HIDE DEF n
  <2>2. \A p \in Lss!Part : command.scan[p] # "skip" /\ p < n => p <= fs.sub
    BY <1>0, <2>1
  <2>3. Agrees(a, FoundNow, n)
    BY <1>1, <2>2 DEF Agrees
  <2> QED
    BY <1>3, <2>3 DEF n
<1> QED
  BY <1>2, <1>3

(* The probe reaches the slaves, which all wait.                           *)
LEMMA SlavesProbed ==
  ASSUME LssTypes, command.cs = "fastscan", ScanInv, Lss!Deliver, ~disturbed',
         toSlaves = <<TheProbe>>, mailbox = Lss!Nothing, AllWait
  PROVE  toSlaves' = <<>> /\ Probed'
<1> DEFINE m == TheProbe
           n == Lss!NextSub(fs.sub)
<1>1. /\ Asleep /\ toSlaves' = Tail(toSlaves)
      /\ UNCHANGED <<mState, command, mailbox, fs, found, chosen, result>>
  BY DeliverIs
<1>2. toSlaves' = <<>> /\ Head(toSlaves) = m
  BY <1>1
<1>3. /\ fs.state = "check" \/ fs.state = "scan" \/ fs.state = "verify"
      /\ fs.sub \in Lss!Part /\ n \in Lss!Part
      /\ fs.state = "check" => fs.sub = 0
  BY TheProbeIs
<1>4. TheProbe' = m /\ Lss!NextSub(fs.sub)' = n /\ FoundNow' = FoundNow
  BY <1>1 DEF TheProbe, Lss!NextSub, FoundNow
<1>5. \A a \in LssSlaves : /\ slave[a] \in LssSlave /\ slave[a].request = Lss!Nothing
                           /\ slave[a].mode = "waiting"
                           /\ slave'[a] = Lss!Receive(a, slave[a], m)
  BY <1>2, DeliverIs DEF AllWait
<1> HIDE DEF m, n
<1>6. ASSUME NEW a \in LssSlaves, NEW s, NEW r, s = slave[a], r = slave'[a]
      PROVE  /\ r.request = Lss!Nothing \/ r.request = m
             /\ TakesPart(r) <=> TakesPart(s)
             /\ fs.state = "check" => r.mode = "waiting" /\ (TakesPart(r) => r.pos = 0)
             /\ fs.state = "scan" => r.mode = "waiting" /\ r.pos = s.pos
             /\ fs.state = "verify" /\ n # 0 =>
                  /\ r.mode = "waiting"
                  /\ \/ r.pos = s.pos /\ (TakesPart(s) => s.pos # fs.sub \/ a[fs.sub] # fs.id)
                     \/ r.pos = n /\ s.pos = fs.sub /\ a[fs.sub] = fs.id
             /\ fs.state = "verify" /\ n = 0 =>
                  \/ r.mode = "waiting" /\ r.request = Lss!Nothing
                  \/ /\ r.mode = "configuration" /\ r.request = m
                     /\ TakesPart(s) /\ s.pos = fs.sub /\ a[fs.sub] = fs.id
  <2>1. s \in LssSlave /\ s.request = Lss!Nothing /\ s.mode = "waiting" /\ r = Lss!Receive(a, s, TheProbe)
    BY <1>5, <1>6 DEF m
  <2> QED
    BY <2>1, SlaveProbed DEF m, n
<1>7. \A a \in LssSlaves : slave'[a].request \in {Lss!Nothing, m}
  BY <1>6
<1>8. fs.state = "check" => AllWait' /\ \A a \in LssSlaves : TakesPart(slave'[a]) => slave'[a].pos = 0
  BY <1>6 DEF AllWait
<1>9. fs.state # "check" => Stands(fs.sub, found)
  <2>1. toSlaves # <<Waiting, TheProbe>> /\ toSlaves # <<>>
    OBVIOUS
  <2> QED
    BY <2>1 DEF ScanInv
<1>10. fs.state = "scan" => AllWait' /\ Stands(fs.sub, found)'
  <2> SUFFICES ASSUME fs.state = "scan" PROVE AllWait' /\ Stands(fs.sub, found)'
    OBVIOUS
  <2>1. AllWait'
    BY <1>6 DEF AllWait
  <2>2. \A a \in LssSlaves : TakesPart(slave'[a]) => TakesPart(slave[a]) /\ slave'[a].pos = slave[a].pos
    BY <1>6
  <2>3. Stands(fs.sub, found)'
    BY <1>1, <1>9, <2>2 DEF Stands, Agrees
  <2> QED
    BY <2>1, <2>3
<1>11. fs.state = "verify" /\ n # 0 => AllWait' /\ Stands(n, FoundNow)'
  <2> SUFFICES ASSUME fs.state = "verify", n # 0 PROVE AllWait' /\ Stands(n, FoundNow)'
    OBVIOUS
  <2>1. AllWait'
    BY <1>6 DEF AllWait
  <2>2. n > fs.sub /\ n \in Nat /\ fs.sub \in Nat
    <3>1. n > fs.sub
      BY <1>3, NextSubIs DEF n
    <3> QED
      BY <1>3, <3>1, LssZeros
  <2>3. ASSUME NEW a \in LssSlaves, TakesPart(slave'[a])
        PROVE  slave'[a].pos <= n /\ (slave'[a].pos = n => Agrees(a, FoundNow, n))
    <3>1. PICK s, r : s = slave[a] /\ r = slave'[a]
      OBVIOUS
    <3>2. /\ TakesPart(s)
          /\ \/ r.pos = s.pos
             \/ r.pos = n /\ s.pos = fs.sub /\ a[fs.sub] = fs.id
      BY <1>6, <2>3, <3>1
    <3>3. s.pos \in Lss!Part
      BY <1>5, <3>1, LssSlaveIs
    <3>4. s.pos \in Nat
      BY <3>3, LssZeros
    <3>5. s.pos <= fs.sub /\ (s.pos = fs.sub => Agrees(a, found, fs.sub))
      BY <1>9, <3>1, <3>2 DEF Stands
    <3>6. CASE r.pos = s.pos
      <4>1. r.pos < n
        BY <2>2, <3>4, <3>5, <3>6
      <4>2. r.pos <= n /\ r.pos # n
        BY <2>2, <3>4, <3>6, <4>1
      <4> QED
        BY <3>1, <4>2
    <3>7. CASE r.pos = n /\ s.pos = fs.sub /\ a[fs.sub] = fs.id
      <4>1. Agrees(a, FoundNow, n)
        BY <1>3, <3>5, <3>7, AgreesFurther DEF n
      <4> QED
        BY <2>2, <3>1, <3>7, <4>1
    <3> QED
      BY <3>2, <3>6, <3>7
  <2>4. PICK v, f : v = n /\ f = FoundNow
    OBVIOUS
  <2>5. \A a \in LssSlaves : Agrees(a, f, v) => Agrees(a, f, v)'
    BY <1>1 DEF Agrees
  <2>6. Stands(v, f)'
    BY <2>3, <2>4, <2>5 DEF Stands
  <2> QED
    BY <1>4, <2>1, <2>4, <2>6 DEF Stands, Agrees, n
<1>12. fs.state = "verify" /\ n = 0 => LastVerified'
  <2> SUFFICES ASSUME fs.state = "verify", n = 0 PROVE LastVerified'
    OBVIOUS
  <2>1. ASSUME NEW a \in LssSlaves
        PROVE  \/ slave'[a].mode = "waiting" /\ slave'[a].request = Lss!Nothing
               \/ /\ slave'[a].mode = "configuration" /\ slave'[a].request = m
                  /\ Agrees(a, FoundNow, LssParts)
    <3>1. PICK s, r : s = slave[a] /\ r = slave'[a]
      OBVIOUS
    <3>2. \/ r.mode = "waiting" /\ r.request = Lss!Nothing
          \/ /\ r.mode = "configuration" /\ r.request = m
             /\ TakesPart(s) /\ s.pos = fs.sub /\ a[fs.sub] = fs.id
      BY <1>6, <3>1
    <3>3. TakesPart(s) /\ s.pos = fs.sub => Agrees(a, found, fs.sub)
      BY <1>9, <3>1 DEF Stands
    <3> QED
      BY <1>3, <3>1, <3>2, <3>3, AgreesFurther DEF n
  <2>2. \A a \in LssSlaves : Agrees(a, FoundNow, LssParts) => Agrees(a, FoundNow, LssParts)'
    BY <1>1, <1>4 DEF Agrees
  <2>3. m # Lss!Nothing
    BY TheProbeIs, LssFrameIs DEF m
  <2>4. mailbox' # Identified
    <3>1. Lss!Nothing.cs = "none" /\ Identified.cs = "identify"
      BY DEF Lss!Nothing, Identified
    <3> QED
      BY <1>1, <3>1
  <2>5. \A a \in LssSlaves : slave'[a].mode = "configuration" =>
          Agrees(a, FoundNow, LssParts)' /\ slave'[a].request # Lss!Nothing
    BY <2>1, <2>2, <2>3
  <2>6. ~Asleep' => \E a \in LssSlaves : slave'[a].mode = "configuration"
    BY <2>1 DEF Asleep
  <2> QED
    BY <2>4, <2>5, <2>6 DEF LastVerified, Identified
<1>13. Probed'
  BY <1>1, <1>4, <1>7, <1>8, <1>10, <1>11, <1>12 DEF Probed, TakesPart, n
<1> QED
  BY <1>2, <1>13

(* The call and the probe of a scan.                                       *)
LEMMA ProbeDelivered ==
  ASSUME LssTypes, command.cs = "fastscan", ScanInv, Lss!Deliver, ~disturbed'
  PROVE  ScanInv'
<1>1. /\ toSlaves # <<>> /\ toSlaves' = Tail(toSlaves)
      /\ UNCHANGED <<mState, command, mailbox, fs, found, chosen, result>>
  BY DeliverIs
<1>2. TheProbe' = TheProbe /\ (fs.state = "check" => fs.sub = 0)'
  BY <1>1 DEF TheProbe, Lss!NextSub, ScanInv
<1>3. CASE toSlaves = <<Waiting, TheProbe>> /\ fs.state = "check" /\ Asleep /\ mailbox = Lss!Nothing
  <2>1. toSlaves' = <<TheProbe>> /\ Head(toSlaves) = Waiting
    BY <1>1, <1>3
  <2>2. AllWait' /\ Resets'
    BY <2>1, WaitingDelivered
  <2> QED
    BY <1>1, <1>2, <1>3, <2>1, <2>2 DEF ScanInv
<1>4. CASE toSlaves = <<TheProbe>> /\ mailbox = Lss!Nothing /\ AllWait
  <2>1. toSlaves' = <<>> /\ Probed'
    BY <1>4, SlavesProbed
  <2> QED
    BY <1>2, <2>1 DEF ScanInv
<1> QED
  BY <1>1, <1>3, <1>4 DEF ScanInv

(* A frame is delivered while no slave has a request.                      *)
LEMMA DeliverUndisturbed ==
  ASSUME LssTypes, Undisturbed, Lss!Deliver, ~disturbed'
  PROVE  Undisturbed'
<1>1. /\ toSlaves # <<>> /\ toSlaves' = Tail(toSlaves)
      /\ UNCHANGED <<mState, command, mailbox, fs, found, chosen, result>>
  BY DeliverIs
<1>2. mState = "waiting" \/ mState = "selective" \/ mState = "global"
  BY DEF LssTypes
<1>3. CASE mState = "waiting" /\ command = Lss!Nothing
  <2>1. toSlaves = <<Waiting>>
    BY <1>1, <1>3 DEF Undisturbed, RestInv
  <2>2. toSlaves' = <<>> /\ Head(toSlaves) = Waiting
    BY <1>1, <2>1
  <2>3. RestInv'
    BY <2>2, WaitingDelivered DEF RestInv
  <2> QED
    BY <1>1, <1>3, <2>3 DEF Undisturbed
<1>4. CASE mState = "waiting" /\ command # Lss!Nothing
  <2>1. command.cs = "fastscan"
    BY <1>4, ConfirmableIs
  <2>2. ScanInv'
    BY <1>4, <2>1, ProbeDelivered DEF Undisturbed
  <2> QED
    BY <1>1, <1>4, <2>2 DEF Undisturbed
<1>5. CASE mState = "global"
  <2>1. GlobalInv'
    BY <1>5, GlobalDelivered DEF Undisturbed
  <2> QED
    BY <1>1, <1>5, <2>1 DEF Undisturbed
<1>6. CASE mState = "selective" /\ command.cs = "switch"
  <2>1. SwitchInv'
    BY <1>6, SwitchDelivered DEF Undisturbed
  <2> QED
    BY <1>1, <1>6, <2>1 DEF Undisturbed
<1>7. CASE mState = "selective" /\ command.cs # "switch"
  <2>1. SelectedInv'
    BY <1>7, ServiceDelivered DEF Undisturbed
  <2> QED
    BY <1>1, <1>7, <2>1 DEF Undisturbed
<1> QED
  BY <1>2, <1>3, <1>4, <1>5, <1>6, <1>7

(* The next probe of a scan is sent.                                       *)
LEMMA ProbeSent ==
  ASSUME command # Lss!Nothing, mState = "waiting", NEW sub, NEW bit, NEW id, NEW state, NEW f,
         state = "scan" \/ state = "verify",
         state = "scan" => Lss!SendProbe(state, sub, bit, id, sub),
         state = "verify" => bit = 0 /\ Lss!SendProbe(state, sub, bit, id, Lss!NextSub(sub)),
         toSlaves = <<>>, Asleep, AllWait, mailbox' = Lss!Nothing, slave' = slave, found' = f, Stands(sub, f)
  PROVE  Undisturbed'
<1> DEFINE m == Lss!Probe(id, bit, sub, IF state = "scan" THEN sub ELSE Lss!NextSub(sub))
<1>1. /\ fs' = [state |-> state, sub |-> sub, bit |-> bit, id |-> id]
      /\ toSlaves' = Append(toSlaves, m) /\ UNCHANGED <<mState, command, result, chosen>>
  BY DEF Lss!SendProbe
<1>2. fs'.state = state /\ fs'.sub = sub /\ fs'.bit = bit /\ fs'.id = id
  BY <1>1
<1>3. TheProbe' = m
  <2>1. Lss!NextSub(sub)' = Lss!NextSub(sub)
    BY <1>1 DEF Lss!NextSub
  <2>2. CASE state = "scan"
    BY <1>2, <2>2 DEF TheProbe, Lss!Probe
  <2>3. CASE state = "verify"
    BY <1>2, <2>1, <2>3 DEF TheProbe, Lss!Probe
  <2> QED
    BY <2>2, <2>3
<1> HIDE DEF m
<1>4. toSlaves' = <<TheProbe'>>
  BY <1>1, <1>3
<1>5. AllWait' /\ Asleep'
  BY DEF AllWait, Asleep
<1>6. Stands(fs.sub, found)'
  BY <1>1, <1>2 DEF Stands, Agrees, TakesPart
<1>7. ScanInv'
  BY <1>2, <1>4, <1>5, <1>6 DEF ScanInv
<1> QED
  BY <1>1, <1>7 DEF Undisturbed

(* The first probe of a part, or the one that verifies a number to match.  *)
LEMMA PartSent ==
  ASSUME command # Lss!Nothing, mState = "waiting", NEW sub, Lss!ScanPart(sub), NEW f,
         toSlaves = <<>>, Asleep, AllWait, mailbox' = Lss!Nothing, slave' = slave, found' = f, Stands(sub, f)
  PROVE  Undisturbed'
<1>1. CASE command.scan[sub] = "match"
  BY <1>1, ProbeSent DEF Lss!ScanPart, Lss!Verify
<1>2. CASE command.scan[sub] # "match"
  <2>1. Lss!SendProbe("scan", sub, LssBits - 1, 0, sub)
    BY <1>2 DEF Lss!ScanPart
  <2> QED
    BY <2>1, ProbeSent
<1> QED
  BY <1>1, <1>2

(* The scan ends without a slave.                                          *)
LEMMA GivenUp ==
  ASSUME mState = "waiting", NEW ret, Lss!GiveUp(ret), toSlaves = <<>>, Asleep, AllWait, slave' = slave
  PROVE  Undisturbed'
<1>1. command' = Lss!Nothing /\ UNCHANGED <<mState, toSlaves>>
  BY DEF Lss!GiveUp, Lss!Return
<1>2. AllWait' /\ Resets'
  <2>1. Lss!Nothing.cs = "none"
    BY DEF Lss!Nothing
  <2> QED
    BY <2>1 DEF AllWait, Resets, Asleep
<1> QED
  BY <1>1, <1>2 DEF Undisturbed, RestInv

(* The scan ends with a slave that has all the numbers found.              *)
LEMMA ScannedSelected ==
  ASSUME LssTypes, command.cs = "fastscan", fs.sub \in Lss!Part, toSlaves = <<>>, Asleep, LastVerified,
         mailbox = Identified, slave' = slave, UNCHANGED toSlaves,
         Lss!Return("ok"), mState' = "selective", found' = FoundNow,
         chosen' = [p \in Lss!Part |-> IF command.scan[p] = "skip" THEN Lss!Unasked ELSE found'[p]]
  PROVE  Undisturbed'
<1>0. /\ command' = Lss!Nothing /\ result' = [service |-> command, ret |-> "ok"]
      /\ command \in LssCommand /\ Lss!Nothing.cs = "none"
  BY DEF Lss!Return, LssTypes, Lss!Nothing
<1>1. PICK f : f = FoundNow
  OBVIOUS
<1>2. \A p \in Lss!Part : f[p] # Lss!Unasked
  <2>1. found \in [Lss!Part -> Lss!Number] /\ fs.id \in Lss!Number /\ Lss!Number \subseteq Nat
    BY LssZeros DEF LssTypes, LssScan
  <2>2. f \in [Lss!Part -> Nat]
    BY <1>1, <2>1 DEF FoundNow
  <2>3. -1 \notin Nat
    OBVIOUS
  <2> QED
    BY <2>2, <2>3 DEF Lss!Unasked
<1>3. PICK d : d = chosen'
  OBVIOUS
<1>4. \A p \in Lss!Part : d[p] = IF command.scan[p] = "skip" THEN Lss!Unasked ELSE f[p]
  BY <1>1, <1>3
<1>5. PICK c \in LssSlaves : slave[c].mode = "configuration"
  BY DEF LastVerified
<1>6. \A a \in LssSlaves : slave[a].mode = "configuration" =>
        \A p \in Lss!Part : command.scan[p] # "skip" => a[p] = f[p]
  <2>1. \A p \in Lss!Part : p < LssParts
    BY LssNumbers
  <2> QED
    BY <1>1, <2>1 DEF LastVerified, Agrees
<1>7. \A p \in Lss!Part : command.scan[p] # "skip" => c[p] = f[p]
  BY <1>5, <1>6
<1>8. \A a \in LssSlaves : (\A p \in Lss!Part : command.scan[p] # "skip" => a[p] = c[p]) => a = c
  BY <1>0, LssCommandIs DEF Alike
<1>9. \A a \in LssSlaves : slave[a].mode = "configuration" <=> a = c
  BY <1>5, <1>6, <1>7, <1>8
<1>10. Lss!Matching' = {c}
  <2>1. ASSUME NEW a \in LssSlaves, \A p \in Lss!Part : d[p] \in {Lss!Unasked, a[p]} PROVE a = c
    <3>1. \A p \in Lss!Part : command.scan[p] # "skip" => a[p] = c[p]
      BY <1>2, <1>4, <1>7, <2>1
    <3> QED
      BY <1>8, <3>1
  <2>2. \A p \in Lss!Part : d[p] \in {Lss!Unasked, c[p]}
    BY <1>4, <1>7
  <2>3. Lss!Matching' = {a \in LssSlaves : \A p \in Lss!Part : d[p] \in {Lss!Unasked, a[p]}}
    BY <1>3 DEF Lss!Matching
  <2> QED
    BY <2>1, <2>2, <2>3
<1>11. OneSelected(c)'
  BY <1>9, <1>10 DEF OneSelected, Asleep
<1>12. Lss!ConfirmedByChosen'
  <2>1. result'.service.cs = "fastscan"
    BY <1>0
  <2> QED
    BY <2>1 DEF Lss!ConfirmedByChosen
<1>13. SelectedInv'
  BY <1>0, <1>11, <1>12 DEF SelectedInv, Asleep
<1> QED
  BY <1>0, <1>13 DEF Undisturbed

(* A step of the scan, once its time is over.                              *)
LEMMA FsExpireUndisturbed ==
  ASSUME LssTypes, Undisturbed, Lss!FsExpire, ~disturbed'
  PROVE  Undisturbed'
<1>0. /\ command # Lss!Nothing /\ command.cs = "fastscan" /\ mailbox' = Lss!Nothing /\ slave' = slave
      /\ toSlaves = <<>> /\ Asleep
  BY DEF Lss!FsExpire, Lss!TimeOut, Lss!Quiet, Asleep
<1>1. mState = "waiting" /\ fs.sub \in Lss!Part /\ Lss!NextSub(fs.sub) \in Lss!Part
  <2>1. mState = "waiting" /\ fs.sub \in Lss!Part
    BY <1>0 DEF LssTypes, LssScan
  <2> QED
    BY <2>1, NextSubIs
<1>2. Probed
  <2>1. ScanInv
    BY <1>0, <1>1 DEF Undisturbed
  <2>2. toSlaves # <<TheProbe>> /\ toSlaves # <<Waiting, TheProbe>>
    BY <1>0
  <2> QED
    BY <2>1, <2>2 DEF ScanInv
<1>3. (mailbox.cs = "identify" <=> mailbox = Identified) /\ (mailbox.cs # "identify" <=> mailbox = Lss!Nothing)
  <2>1. Lss!Nothing.cs = "none" /\ Identified.cs = "identify"
    BY DEF Lss!Nothing, Identified
  <2> QED
    BY <1>2, <2>1 DEF Probed
<1>4. CASE fs.state = "check" /\ found' = [p \in Lss!Part |-> 0] /\ Lss!ScanPart(0)
  <2>1. AllWait /\ \A a \in LssSlaves : TakesPart(slave[a]) => slave[a].pos = 0
    BY <1>2, <1>4 DEF Probed
  <2>2. PICK f : f = found'
    OBVIOUS
  <2>3. Stands(0, f)
    <3>1. 0 <= 0 /\ \A p \in Lss!Part : ~(p < 0)
      BY LssNumbers
    <3> QED
      BY <2>1, <3>1 DEF Stands, Agrees
  <2> QED
    BY <1>0, <1>1, <1>4, <2>1, <2>2, <2>3, PartSent
<1>5. CASE fs.state = "check" /\ \E ret : Lss!GiveUp(ret)
  <2>1. AllWait
    BY <1>2, <1>5 DEF Probed
  <2> QED
    BY <1>0, <1>1, <1>5, <2>1, GivenUp
<1>6. CASE /\ fs.state = "scan" /\ UNCHANGED found
           /\ IF fs.bit = 0 THEN Lss!Verify(fs.sub, ScannedId)
              ELSE Lss!SendProbe("scan", fs.sub, fs.bit - 1, ScannedId, fs.sub)
  <2>1. AllWait /\ Stands(fs.sub, found)
    BY <1>2, <1>6 DEF Probed
  <2>2. PICK f, sub : f = found' /\ sub = fs.sub
    OBVIOUS
  <2>3. Stands(sub, f)
    BY <1>6, <2>1, <2>2
  <2>4. CASE fs.bit = 0
    <3>1. Lss!SendProbe("verify", sub, 0, ScannedId, Lss!NextSub(sub))
      BY <1>6, <2>2, <2>4 DEF Lss!Verify
    <3> QED
      BY <1>0, <1>1, <2>1, <2>2, <2>3, <3>1, ProbeSent
  <2>5. CASE fs.bit # 0
    <3>1. Lss!SendProbe("scan", sub, fs.bit - 1, ScannedId, sub)
      BY <1>6, <2>2, <2>5
    <3> QED
      BY <1>0, <1>1, <2>1, <2>2, <2>3, <3>1, ProbeSent
  <2> QED
    BY <2>4, <2>5
<1>7. CASE fs.state = "scan" /\ mailbox # Lss!Nothing /\ mailbox.cs # "identify"
  BY <1>3, <1>7
<1>8. CASE fs.state = "verify" /\ mailbox.cs # "identify" /\ \E ret : Lss!GiveUp(ret)
  <2>1. AllWait
    <3>1. CASE Lss!NextSub(fs.sub) # 0
      BY <1>2, <1>8, <3>1 DEF Probed
    <3>2. CASE Lss!NextSub(fs.sub) = 0
      <4>1. LastVerified /\ mailbox # Identified
        BY <1>2, <1>3, <1>8, <3>2 DEF Probed
      <4>2. \A a \in LssSlaves : slave[a].mode # "configuration"
        BY <1>0, <4>1 DEF LastVerified, Asleep
      <4>3. \A a \in LssSlaves : slave[a].mode = "waiting" \/ slave[a].mode = "configuration"
        <5>1. slave \in [LssSlaves -> LssSlave]
          BY DEF LssTypes
        <5> QED
          BY <5>1, LssSlaveIs
      <4> QED
        BY <4>2, <4>3 DEF AllWait
    <3> QED
      BY <3>1, <3>2
  <2> QED
    BY <1>0, <1>1, <1>8, <2>1, GivenUp
<1>9. CASE /\ fs.state = "verify" /\ mailbox.cs = "identify" /\ found' = [found EXCEPT ![fs.sub] = fs.id]
           /\ Lss!NextSub(fs.sub) # 0 /\ Lss!ScanPart(Lss!NextSub(fs.sub))
  <2>1. AllWait /\ Stands(Lss!NextSub(fs.sub), FoundNow)
    BY <1>2, <1>9 DEF Probed
  <2>2. PICK f, sub : f = found' /\ sub = Lss!NextSub(fs.sub)
    OBVIOUS
  <2>3. Stands(sub, f) /\ Lss!ScanPart(sub)
    BY <1>9, <2>1, <2>2 DEF FoundNow
  <2> QED
    BY <1>0, <1>1, <2>1, <2>2, <2>3, PartSent
<1>10. CASE /\ fs.state = "verify" /\ mailbox.cs = "identify" /\ found' = [found EXCEPT ![fs.sub] = fs.id]
            /\ Lss!NextSub(fs.sub) = 0
            /\ Lss!Return("ok") /\ mState' = "selective"
            /\ chosen' = [p \in Lss!Part |-> IF command.scan[p] = "skip" THEN Lss!Unasked ELSE found'[p]]
            /\ UNCHANGED <<fs, toSlaves>>
  <2>1. LastVerified /\ found' = FoundNow /\ mailbox = Identified
    BY <1>2, <1>3, <1>10 DEF Probed, FoundNow
  <2> QED
    BY <1>0, <1>1, <1>10, <2>1, ScannedSelected
<1> QED
  BY <1>4, <1>5, <1>6, <1>7, <1>8, <1>9, <1>10 DEF Lss!FsExpire, ScannedId

(* The initial state.                                                      *)
LEMMA LssInvInit == Init => LssInv
<1> SUFFICES ASSUME Lss!LssInit PROVE LssInv
  BY DEF Init
<1>1. /\ mState = "waiting" /\ command = Lss!Nothing /\ mailbox = Lss!Nothing /\ fs = Lss!NoScan
      /\ found = [p \in Lss!Part |-> 0] /\ chosen = [p \in Lss!Part |-> Lss!Unasked]
      /\ result = Lss!NoResult /\ slave = [a \in LssSlaves |-> Lss!Fresh(Lss!Unconfigured)]
      /\ toSlaves = <<>> /\ disturbed = FALSE /\ Lss!Nothing.cs = "none"
  BY DEF Lss!LssInit, Lss!Nothing
<1>2. /\ Lss!Fresh(Lss!Unconfigured) \in LssSlave /\ Lss!Fresh(Lss!Unconfigured).mode = "waiting"
      /\ Lss!Fresh(Lss!Unconfigured).request = Lss!Nothing
      /\ Lss!Fresh(Lss!Unconfigured).pending = Lss!Unconfigured
  <2>1. Lss!Unconfigured \in LssId
    BY DEF LssId
  <2> QED
    BY <2>1, FreshIs DEF Lss!Fresh
<1>3. LssTypes
  <2>1. found \in [Lss!Part -> Lss!Number] /\ chosen \in [Lss!Part -> Nat \cup {Lss!Unasked}]
    BY <1>1, LssZeros
  <2>2. fs \in LssScan /\ fs.state = "none"
    BY <1>1, LssZeros DEF Lss!NoScan, LssScan
  <2>3. Lss!Nothing \in LssCommand /\ Lss!Nothing \in LssAnswer
    BY DEF LssCommand, LssAnswer
  <2>4. slave \in [LssSlaves -> LssSlave] /\ toSlaves \in Seq(LssFrame)
    BY <1>1, <1>2
  <2> QED
    BY <1>1, <2>1, <2>2, <2>3, <2>4 DEF LssTypes
<1>4. AssignedInv
  BY <1>1, <1>2 DEF AssignedInv, Assigned
<1>5. Undisturbed
  BY <1>1, <1>2 DEF Undisturbed, RestInv, AllWait, Resets
<1> QED
  BY <1>3, <1>4, <1>5 DEF LssInv

(* The types are kept by every step.                                       *)
LEMMA LssTypesStep ==
  ASSUME LssTypes, Lss!LssNext
  PROVE  LssTypes'
BY StartsKeepLssTypes, SlavesKeepLssTypes, ConfirmedKeepsLssTypes, ScanKeepsLssTypes DEF Lss!LssNext

(* A service of the master for the slaves in configuration state.          *)
LEMMA ServicesUndisturbed ==
  ASSUME LssTypes, Undisturbed,
         \/ Lss!ConfigureStore \/ \E rate \in BitRates : Lss!ConfigureBitTiming(rate)
         \/ \E n \in LssNodeIds \cup {Lss!Unconfigured} : Lss!ConfigureNodeId(n)
         \/ \E p \in Lss!Part : Lss!Inquire(p, p) \/ Lss!Inquire(0, LssParts - 1)
  PROVE  Undisturbed'
<1>1. CASE Lss!ConfigureStore
  <2> DEFINE c == [cs |-> "store"]
  <2>1. c \in LssCommand /\ c.cs = "store" /\ FrameOf(c) = c
    BY DEF LssCommand, FrameOf
  <2>2. /\ mState = "selective" /\ command = Lss!Nothing /\ Lss!Start(mState, c, <<c>>)
        /\ UNCHANGED <<fs, chosen, disturbed>>
    BY <1>1 DEF Lss!ConfigureStore
  <2> HIDE DEF c
  <2> QED
    BY <2>1, <2>2, ServiceUndisturbed
<1>2. ASSUME NEW rate \in BitRates, Lss!ConfigureBitTiming(rate) PROVE Undisturbed'
  <2> DEFINE c == [cs |-> "bit timing", rate |-> rate]
  <2>1. c \in LssCommand /\ c.cs = "bit timing" /\ FrameOf(c) = c
    BY DEF LssCommand, FrameOf
  <2>2. /\ mState = "selective" /\ command = Lss!Nothing /\ Lss!Start(mState, c, <<c>>)
        /\ UNCHANGED <<fs, chosen, disturbed>>
    BY <1>2 DEF Lss!ConfigureBitTiming
  <2> HIDE DEF c
  <2> QED
    BY <2>1, <2>2, ServiceUndisturbed
<1>3. ASSUME NEW n \in LssNodeIds \cup {Lss!Unconfigured}, Lss!ConfigureNodeId(n) PROVE Undisturbed'
  <2> DEFINE c == [cs |-> "node id", id |-> n]
  <2>1. c \in LssCommand /\ c.cs = "node id" /\ FrameOf(c) = c
    BY DEF LssCommand, LssId, FrameOf
  <2>2. /\ mState = "selective" \/ mState = "global"
        /\ command = Lss!Nothing /\ Lss!Start(mState, c, <<c>>)
        /\ UNCHANGED <<fs, chosen, disturbed>>
    BY <1>3 DEF Lss!ConfigureNodeId
  <2> HIDE DEF c
  <2> QED
    BY <2>1, <2>2, ServiceUndisturbed
<1>4. ASSUME NEW p \in Lss!Part, NEW q \in Lss!Part, p <= q, Lss!Inquire(p, q) PROVE Undisturbed'
  <2> DEFINE c == [cs |-> "inquire", part |-> p, upto |-> q]
  <2>1. c \in LssCommand /\ c.cs = "inquire" /\ FrameOf(c) = [cs |-> "inquire", part |-> p]
    BY <1>4 DEF LssCommand, FrameOf
  <2>2. /\ mState # "waiting" /\ command = Lss!Nothing
        /\ Lss!Start(mState, c, <<[cs |-> "inquire", part |-> p]>>)
        /\ UNCHANGED <<fs, chosen, disturbed>>
    BY <1>4 DEF Lss!Inquire
  <2> HIDE DEF c
  <2> QED
    BY <2>1, <2>2, ServiceUndisturbed
<1>5. LssParts - 1 \in Lss!Part /\ 0 \in Lss!Part /\ 0 <= LssParts - 1 /\ \A p \in Lss!Part : p <= p
  BY LssNumbers
<1> QED
  BY <1>1, <1>2, <1>3, <1>4, <1>5

(* A step that leaves nothing disturbed.                                   *)
LEMMA UndisturbedStep ==
  ASSUME LssTypes, ~disturbed => Undisturbed, Lss!LssNext, ~disturbed'
  PROVE  Undisturbed'
<1>1. CASE Lss!Deselect
  BY <1>1, DeselectUndisturbed
<1>2. ~Lss!Deselect => ~disturbed
  BY DEF Lss!LssNext, Lss!Deliver, Lss!LoseFrame, Lss!CO_LSSslave_process, Lss!Select, Lss!SelectAll,
     Lss!ConfigureStore, Lss!ActivateBit, Lss!ConfigureBitTiming, Lss!ConfigureNodeId, Lss!Inquire,
     Lss!Fastscan, Lss!Confirmed, Lss!Expire, Lss!FsExpire, Lss!TimeOut
<1> SUFFICES ASSUME ~Lss!Deselect, Undisturbed PROVE Undisturbed'
  BY <1>1, <1>2
<1>3. ~Lss!LoseFrame
  BY DEF Lss!LoseFrame
<1>4. CASE Lss!Deliver
  BY <1>4, DeliverUndisturbed
<1>5. CASE \E a \in LssSlaves, kept \in BOOLEAN : Lss!CO_LSSslave_process(a, kept)
  BY <1>5, ProcessUndisturbed
<1>6. CASE (\E t \in LssTargets : Lss!Select(t)) \/ Lss!SelectAll \/ Lss!ActivateBit
           \/ \E x \in LssScans : Lss!Fastscan(x)
  BY <1>6, SelectUndisturbed, SelectAllUndisturbed, ActivateUndisturbed, FastscanUndisturbed
<1>7. CASE \/ Lss!ConfigureStore \/ \E rate \in BitRates : Lss!ConfigureBitTiming(rate)
           \/ \E n \in LssNodeIds \cup {Lss!Unconfigured} : Lss!ConfigureNodeId(n)
           \/ \E p \in Lss!Part : Lss!Inquire(p, p) \/ Lss!Inquire(0, LssParts - 1)
  BY <1>7, ServicesUndisturbed
<1>8. CASE Lss!Confirmed \/ Lss!Expire \/ Lss!FsExpire
  BY <1>8, ConfirmedUndisturbed, ExpireUndisturbed, FsExpireUndisturbed
<1> QED
  BY <1>3, <1>4, <1>5, <1>6, <1>7, <1>8 DEF Lss!LssNext

(* The services of others leave the LSS alone.                             *)
LEMMA LssStays ==
  ASSUME LssInv, UNCHANGED lssVars
  PROVE  LssInv'
<1>1. UNCHANGED <<mState, command, mailbox, fs, found, chosen, result, slave, toSlaves, disturbed>>
  BY DEF lssVars
<1>2. LssTypes'
  BY <1>1 DEF LssInv, LssTypes
<1>3. AssignedInv'
  BY <1>1 DEF LssInv, AssignedInv, Assigned
<1>4. RestInv => RestInv'
  BY <1>1 DEF RestInv, AllWait, Asleep, Resets, Waiting
<1>5. /\ \A n, f, a : Agrees(a, f, n) => Agrees(a, f, n)'
      /\ \A n, f : Stands(n, f) => Stands(n, f)'
  BY <1>1 DEF Stands, Agrees, TakesPart
<1>6. ScanInv => ScanInv'
  <2> SUFFICES ASSUME ScanInv PROVE ScanInv'
    OBVIOUS
  <2>0. TheProbe' = TheProbe /\ FoundNow' = FoundNow /\ Lss!NextSub(fs.sub)' = Lss!NextSub(fs.sub)
    BY <1>1 DEF TheProbe, FoundNow, Lss!NextSub
  <2>1. Stands(fs.sub, found) => Stands(fs.sub, found)'
    BY <1>1 DEF Stands, Agrees, TakesPart
  <2>2. PICK n, f : n = Lss!NextSub(fs.sub) /\ f = FoundNow
    OBVIOUS
  <2>3. Stands(Lss!NextSub(fs.sub), FoundNow) => Stands(Lss!NextSub(fs.sub), FoundNow)'
    <3>1. Stands(n, f) => Stands(n, f)'
      BY <1>5
    <3> QED
      BY <1>1, <2>0, <2>2, <3>1 DEF Stands, Agrees
  <2>4. LastVerified => LastVerified'
    BY <1>1, <2>0 DEF LastVerified, Agrees, Asleep, Identified
  <2>5. Probed => Probed'
    <3>1. (\A a \in LssSlaves : slave[a].request \in {Lss!Nothing, TheProbe}) =>
             (\A a \in LssSlaves : slave[a].request \in {Lss!Nothing, TheProbe})'
      BY <1>1, <2>0
    <3>2. AllWait => AllWait'
      BY <1>1 DEF AllWait
    <3> QED
      BY <1>1, <2>0, <2>1, <2>3, <2>4, <3>1, <3>2 DEF Probed, TakesPart, Identified
  <2>6. (AllWait => AllWait') /\ (Resets => Resets') /\ (Asleep => Asleep')
    BY <1>1 DEF AllWait, Resets, Asleep
  <2> QED
    BY <1>1, <2>0, <2>1, <2>5, <2>6 DEF ScanInv, Waiting
<1>7. GlobalInv => GlobalInv'
  BY <1>1 DEF GlobalInv, GlobalFrames, ToAll, Waiting
<1>8. SwitchInv => SwitchInv'
  <2>1. \A k : SelectFrames(k)' = SelectFrames(k) /\ (SelectedTo(k) => SelectedTo(k)')
    BY <1>1 DEF SelectFrames, SelectFrame, SelectedTo, Asleep, Resets
  <2>2. ChosenReached => ChosenReached'
    BY <1>1 DEF ChosenReached, SelectFrame, Asleep
  <2> QED
    BY <1>1, <2>1, <2>2 DEF SwitchInv, Waiting, AllWait, Asleep
<1>9. SelectedInv => SelectedInv'
  <2>1. Lss!ConfirmedByChosen => Lss!ConfirmedByChosen'
    BY <1>1 DEF Lss!ConfirmedByChosen, Lss!Matching
  <2>2. \A c \in LssSlaves : OneSelected(c) => OneSelected(c)'
    BY <1>1 DEF OneSelected, Lss!Matching
  <2>3. \A c \in LssSlaves : ServiceDone(command, slave[c], c) => ServiceDone(command, slave[c], c)'
    BY <1>1 DEF ServiceDone
  <2>4. \A c \in LssSlaves : InService(c) => InService(c)'
    BY <1>1, <2>3 DEF InService, FrameOf, Asleep
  <2> QED
    BY <1>1, <2>1, <2>2, <2>4 DEF SelectedInv, Asleep
<1>10. Undisturbed => Undisturbed'
  BY <1>1, <1>4, <1>6, <1>7, <1>8, <1>9 DEF Undisturbed
<1> QED
  BY <1>1, <1>2, <1>3, <1>10 DEF LssInv

(* A step of the LSS, and a step of another service.                       *)
LEMMA LssInvStep == LssInv /\ [Next]_vars => LssInv'
<1> SUFFICES ASSUME LssInv, [Next]_vars PROVE LssInv'
  OBVIOUS
<1>1. CASE UNCHANGED lssVars
  BY <1>1, LssStays
<1>2. CASE Lss!LssNext
  BY <1>2, LssTypesStep, AssignedStep, UndisturbedStep DEF LssInv
<1> QED
  BY <1>1, <1>2 DEF Next, vars

(* What the invariant of the LSS says of the slaves that were chosen.      *)
LEMMA LssInvSuffices == LssInv => LssReachesChosen /\ Lss!LssTypeOK
<1> SUFFICES ASSUME LssInv PROVE LssReachesChosen /\ Lss!LssTypeOK
  OBVIOUS
<1>0. LssTypes /\ AssignedInv /\ (~disturbed => Undisturbed) /\ Lss!Nothing.cs = "none"
  BY DEF LssInv, Lss!Nothing
<1>1. Lss!SelectedAreChosen
  <2> SUFFICES ASSUME ~disturbed, mState = "selective", command.cs # "switch"
               PROVE  Lss!InConfiguration = Lss!Matching /\ Lss!Matching # {}
    BY DEF Lss!SelectedAreChosen
  <2>1. PICK c \in LssSlaves : OneSelected(c)
    BY <1>0 DEF Undisturbed, SelectedInv
  <2> QED
    BY <2>1 DEF OneSelected, Lss!InConfiguration
<1>2. Lss!ConfirmedByChosen
  <2>1. CASE ~disturbed /\ mState = "selective" /\ command = Lss!Nothing
    <3>1. command.cs # "switch"
      BY <1>0, <2>1
    <3> QED
      BY <1>0, <2>1, <3>1 DEF Undisturbed, SelectedInv
  <2>2. CASE ~(~disturbed /\ mState = "selective" /\ command = Lss!Nothing)
    BY <2>2 DEF Lss!ConfirmedByChosen
  <2> QED
    BY <2>1, <2>2
<1>3. Lss!ActivatedUsePending
  <2> SUFFICES ASSUME ~disturbed, mState = "global", result.service.cs = "activate", Lss!Quiet,
                      NEW a \in DOMAIN LssSupported
               PROVE  slave[a].used = slave[a].rate
    BY DEF Lss!ActivatedUsePending
  <2>1. GlobalInv /\ toSlaves = <<>> /\ a \in LssSlaves
    BY <1>0, LssAssumption DEF Undisturbed, Lss!Quiet
  <2>2. slave[a].request.cs # "activate"
    BY <1>0, <2>1 DEF Lss!Quiet
  <2> QED
    BY <2>1, <2>2 DEF GlobalInv
<1>4. Lss!AssignedBecomesActive
  BY <1>0 DEF AssignedInv, Assigned, Lss!AssignedBecomesActive
<1>5. Lss!LssTypeOK
  <2>1. /\ mState \in {"waiting", "selective", "global"} /\ \A p \in Lss!Part : found[p] \in Lss!Number
        /\ fs.bit \in 0..(LssBits - 1) /\ fs.sub \in Lss!Part
    BY <1>0 DEF LssTypes, LssScan
  <2>2. \A a \in LssSlaves : slave[a] \in LssSlave
    BY <1>0 DEF LssTypes
  <2>3. \A a \in LssSlaves :
          /\ slave[a].mode \in {"waiting", "configuration"} /\ slave[a].pos \in Lss!Part
          /\ {slave[a].active, slave[a].pending} \subseteq LssNodeIds \cup {Lss!Unconfigured}
          /\ slave[a].rate \in BitRates \cup {InitialRate}
    BY <2>2, LssSlaveIs DEF LssId, LssRate
  <2> QED
    BY <2>1, <2>3 DEF Lss!LssTypeOK
<1> QED
  BY <1>1, <1>2, <1>3, <1>4, <1>5 DEF LssReachesChosen

(* Unless a frame was lost, the slaves in configuration state are the ones *)
(* that the master selected or found, and what a confirmed service or an   *)
(* activation reports is so in them, for any slaves and addresses, numbers *)
(* of any width, any scan that tells the slaves apart, and any number of   *)
(* services.                                                               *)
THEOREM LssReachesChosenAlways == Spec => []LssReachesChosen
<1> QED
  BY LssInvInit, LssInvStep, LssInvSuffices, PTL DEF Spec
=============================================================================
