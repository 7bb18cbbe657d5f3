------------------------ MODULE ShoppingAgentProofs ------------------------
(***************************************************************************)
(* Proofs about the shopping agent, for any catalogue, messages, changes   *)
(* during a run and number of turns: what a conversation remembers, what a *)
(* run recommends, what its status says of it, and how products are        *)
(* ranked.                                                                 *)
(***************************************************************************)
EXTENDS ShoppingAgent, SumLemmas

-----------------------------------------------------------------------------
(* Orders                                                                  *)

\* What comes before x in S by the pairs of R.
Below(x, S, R) == {y \in S : <<y, x>> \in R}

StrictOrder(S, R) ==
    /\ \A x \in S : <<x, x>> \notin R
    /\ \A x, y, z \in S : <<x, y>> \in R /\ <<y, z>> \in R => <<x, z>> \in R
    /\ \A x, y \in S : x # y => <<x, y>> \in R \/ <<y, x>> \in R

\* In a strict order of a finite set every rank is taken, by one element.
LEMMA Ranks ==
    ASSUME NEW S, IsFiniteSet(S), NEW R, StrictOrder(S, R)
    PROVE  /\ \A x \in S : Cardinality(Below(x, S, R)) \in 0 .. Cardinality(S) - 1
           /\ \A x, y \in S : <<x, y>> \in R =>
                Cardinality(Below(x, S, R)) < Cardinality(Below(y, S, R))
           /\ \A n \in 1 .. Cardinality(S) : \E x \in S : Cardinality(Below(x, S, R)) = n - 1
<1> DEFINE B(x) == Below(x, S, R)
<1> DEFINE k == Cardinality(S)
<1>1. k \in Nat
    BY FS_CardinalityType
<1>2. \A x \in S : B(x) \in SUBSET S /\ B(x) # S /\ x \notin B(x)
    BY DEF Below, StrictOrder
<1>3. ASSUME NEW x \in S PROVE IsFiniteSet(B(x)) /\ Cardinality(B(x)) \in 0 .. k - 1
  <2>1. IsFiniteSet(B(x)) /\ Cardinality(B(x)) <= k /\ Cardinality(B(x)) # k
      BY <1>2, FS_Subset
  <2>2. Cardinality(B(x)) \in Nat
      BY <2>1, FS_CardinalityType
  <2> QED
      BY <1>1, <2>1, <2>2
<1>4. ASSUME NEW x \in S, NEW y \in S, <<x, y>> \in R
      PROVE  Cardinality(B(x)) < Cardinality(B(y))
  <2>1. B(x) \in SUBSET B(y)
      BY <1>4 DEF Below, StrictOrder
  <2>2. x \in B(y) /\ x \notin B(x)
      BY <1>2, <1>4 DEF Below
  <2>3. Cardinality(B(x)) <= Cardinality(B(y)) /\ Cardinality(B(x)) # Cardinality(B(y))
      BY <1>3, <2>1, <2>2, FS_Subset
  <2>4. Cardinality(B(x)) \in Int /\ Cardinality(B(y)) \in Int
      BY <1>3
  <2> QED
      BY <2>3, <2>4
<1> DEFINE f == [x \in S |-> Cardinality(B(x)) + 1]
<1>5. f \in [S -> 1 .. k]
  <2>1. \A x \in S : Cardinality(B(x)) + 1 \in 1 .. k
      BY <1>1, <1>3
  <2> QED
      BY <2>1
<1>6. ASSUME NEW x \in S, NEW y \in S, f[x] = f[y] PROVE x = y
  <2>1. Cardinality(B(x)) = Cardinality(B(y))
    <3>1. Cardinality(B(x)) \in Int /\ Cardinality(B(y)) \in Int
        BY <1>3
    <3>2. Cardinality(B(x)) + 1 = Cardinality(B(y)) + 1
        BY <1>6
    <3> QED
        BY <3>1, <3>2
  <2>2. <<x, y>> \notin R /\ <<y, x>> \notin R
    <3>1. Cardinality(B(x)) \in Int
        BY <1>3
    <3> HIDE DEF B
    <3> QED
        BY <1>4, <2>1, <3>1
  <2> QED
      BY <2>2 DEF StrictOrder
<1>7. f \in Injection(S, 1 .. k)
    BY <1>5, <1>6 DEF Injection, IsInjective
<1>8. IsFiniteSet(1 .. k) /\ Cardinality(1 .. k) = k
  <2>1. IsFiniteSet(1 .. k) /\ Cardinality(1 .. k) = IF 1 > k THEN 0 ELSE k - 1 + 1
      BY <1>1, FS_Interval
  <2> QED
      BY <1>1, <2>1
<1>9. f \in Surjection(S, 1 .. k)
    BY <1>7, <1>8, FS_Injection
<1>10. ASSUME NEW n \in 1 .. k PROVE \E x \in S : Cardinality(B(x)) = n - 1
  <2>1. PICK x \in S : f[x] = n
      BY <1>9 DEF Surjection
  <2>2. Cardinality(B(x)) + 1 = n /\ Cardinality(B(x)) \in Int
      BY <1>3, <2>1
  <2>3. Cardinality(B(x)) = n - 1
      BY <1>1, <2>2
  <2> QED
      BY <2>3
<1> QED
    BY <1>3, <1>4, <1>10

\* A finite set that is not empty has a first element.
LEMMA FirstElement ==
    ASSUME NEW S, IsFiniteSet(S), S # {}, NEW R, StrictOrder(S, R)
    PROVE  \E x \in S : \A y \in S \ {x} : <<x, y>> \in R
<1>1. Cardinality(S) \in Nat \ {0}
    BY FS_CardinalityType, FS_EmptySet
<1>2. 1 \in 1 .. Cardinality(S) /\ 1 - 1 = 0
    BY <1>1
<1>3. PICK x \in S : Cardinality(Below(x, S, R)) = 0
    BY <1>2, Ranks
<1>4. IsFiniteSet(Below(x, S, R))
  <2>1. Below(x, S, R) \in SUBSET S
      BY DEF Below
  <2> QED
      BY <2>1, FS_Subset
<1>5. Below(x, S, R) = {}
    BY <1>3, <1>4, FS_EmptySet
<1> QED
    BY <1>5 DEF Below, StrictOrder

\* Less compares tuples of numbers from their first place on.
LEMMA LessSix ==
    ASSUME NEW a, NEW b, DOMAIN a = 1 .. 6,
           \A n \in 1 .. 6 : a[n] \in Int /\ b[n] \in Int
    PROVE  Less(a, b) <=>
             \/ a[1] < b[1]
             \/ a[1] = b[1] /\ a[2] < b[2]
             \/ a[1] = b[1] /\ a[2] = b[2] /\ a[3] < b[3]
             \/ a[1] = b[1] /\ a[2] = b[2] /\ a[3] = b[3] /\ a[4] < b[4]
             \/ a[1] = b[1] /\ a[2] = b[2] /\ a[3] = b[3] /\ a[4] = b[4] /\ a[5] < b[5]
             \/ a[1] = b[1] /\ a[2] = b[2] /\ a[3] = b[3] /\ a[4] = b[4] /\ a[5] = b[5] /\ a[6] < b[6]
<1> DEFINE At(n) == a[n] < b[n] /\ \A m \in 1 .. n - 1 : a[m] = b[m]
<1>1. Less(a, b) <=> \E n \in 1 .. 6 : At(n)
    BY DEF Less
<1>2. /\ 1 .. 1 - 1 = {}
      /\ 1 .. 2 - 1 = {1}
      /\ 1 .. 3 - 1 = {1, 2}
      /\ 1 .. 4 - 1 = {1, 2, 3}
      /\ 1 .. 5 - 1 = {1, 2, 3, 4}
      /\ 1 .. 6 - 1 = {1, 2, 3, 4, 5}
    OBVIOUS
<1>3. At(1) <=> a[1] < b[1]
    BY <1>2
<1>4. At(2) <=> a[1] = b[1] /\ a[2] < b[2]
    BY <1>2
<1>5. At(3) <=> a[1] = b[1] /\ a[2] = b[2] /\ a[3] < b[3]
    BY <1>2
<1>6. At(4) <=> a[1] = b[1] /\ a[2] = b[2] /\ a[3] = b[3] /\ a[4] < b[4]
    BY <1>2
<1>7. At(5) <=> a[1] = b[1] /\ a[2] = b[2] /\ a[3] = b[3] /\ a[4] = b[4] /\ a[5] < b[5]
    BY <1>2
<1>8. At(6) <=> a[1] = b[1] /\ a[2] = b[2] /\ a[3] = b[3] /\ a[4] = b[4] /\ a[5] = b[5] /\ a[6] < b[6]
    BY <1>2
<1> HIDE DEF At
<1>9. Less(a, b) <=> At(1) \/ At(2) \/ At(3) \/ At(4) \/ At(5) \/ At(6)
  <2>1. 1 .. 6 = {1, 2, 3, 4, 5, 6}
      OBVIOUS
  <2> QED
      BY <1>1, <2>1
<1> QED
    BY <1>3, <1>4, <1>5, <1>6, <1>7, <1>8, <1>9

LEMMA LessFour ==
    ASSUME NEW a, NEW b, DOMAIN a = 1 .. 4,
           \A n \in 1 .. 4 : a[n] \in Int /\ b[n] \in Int
    PROVE  Less(a, b) <=>
             \/ a[1] < b[1]
             \/ a[1] = b[1] /\ a[2] < b[2]
             \/ a[1] = b[1] /\ a[2] = b[2] /\ a[3] < b[3]
             \/ a[1] = b[1] /\ a[2] = b[2] /\ a[3] = b[3] /\ a[4] < b[4]
<1> DEFINE At(n) == a[n] < b[n] /\ \A m \in 1 .. n - 1 : a[m] = b[m]
<1>1. Less(a, b) <=> \E n \in 1 .. 4 : At(n)
    BY DEF Less
<1>2. /\ 1 .. 1 - 1 = {}
      /\ 1 .. 2 - 1 = {1}
      /\ 1 .. 3 - 1 = {1, 2}
      /\ 1 .. 4 - 1 = {1, 2, 3}
    OBVIOUS
<1>3. At(1) <=> a[1] < b[1]
    BY <1>2
<1>4. At(2) <=> a[1] = b[1] /\ a[2] < b[2]
    BY <1>2
<1>5. At(3) <=> a[1] = b[1] /\ a[2] = b[2] /\ a[3] < b[3]
    BY <1>2
<1>6. At(4) <=> a[1] = b[1] /\ a[2] = b[2] /\ a[3] = b[3] /\ a[4] < b[4]
    BY <1>2
<1> HIDE DEF At
<1>7. Less(a, b) <=> At(1) \/ At(2) \/ At(3) \/ At(4)
  <2>1. 1 .. 4 = {1, 2, 3, 4}
      OBVIOUS
  <2> QED
      BY <1>1, <2>1
<1> QED
    BY <1>3, <1>4, <1>5, <1>6, <1>7

\* What the keys of a scored candidate are made of.
IsScored(x) ==
    /\ x.overall \in Int /\ x.value \in Int
    /\ x.score.specification \in Int /\ x.score.rating \in Int
    /\ x.candidate.id \in Int /\ x.candidate.price \in Int /\ x.candidate.days \in Int

\* The pool of a ranking: a finite set of scored candidates, one of each product.
IsPool(S) ==
    /\ IsFiniteSet(S)
    /\ \A x \in S : IsScored(x)
    /\ \A x, y \in S : x.candidate.id = y.candidate.id => x = y

OverallOrder(S)  == {p \in S \X S : Less(OverallKey(p[1]), OverallKey(p[2]))}
ValueOrder(S)    == {p \in S \X S : Less(ValueKey(p[1]), ValueKey(p[2]))}
DeliveryOrder(S) == {p \in S \X S : Less(DeliveryKey(p[1]), DeliveryKey(p[2]))}

LEMMA OverallLess ==
    ASSUME NEW x, IsScored(x), NEW y, IsScored(y)
    PROVE  /\ KnownDays(x.candidate) \in Int /\ KnownDays(y.candidate) \in Int
           /\ Less(OverallKey(x), OverallKey(y)) <=>
                \/ x.overall > y.overall
                \/ x.overall = y.overall /\ x.score.specification > y.score.specification
                \/ x.overall = y.overall /\ x.score.specification = y.score.specification
                   /\ x.score.rating > y.score.rating
                \/ x.overall = y.overall /\ x.score.specification = y.score.specification
                   /\ x.score.rating = y.score.rating
                   /\ KnownDays(x.candidate) < KnownDays(y.candidate)
                \/ x.overall = y.overall /\ x.score.specification = y.score.specification
                   /\ x.score.rating = y.score.rating
                   /\ KnownDays(x.candidate) = KnownDays(y.candidate)
                   /\ x.candidate.price < y.candidate.price
                \/ x.overall = y.overall /\ x.score.specification = y.score.specification
                   /\ x.score.rating = y.score.rating
                   /\ KnownDays(x.candidate) = KnownDays(y.candidate)
                   /\ x.candidate.price = y.candidate.price
                   /\ x.candidate.id < y.candidate.id
<1>1. KnownDays(x.candidate) \in Int /\ KnownDays(y.candidate) \in Int
    BY DEF KnownDays, IsScored
<1>2. PICK xo \in Int, xs \in Int, xr \in Int, xd \in Int, xp \in Int, xi \in Int :
        /\ xo = x.overall /\ xs = x.score.specification /\ xr = x.score.rating
        /\ xd = KnownDays(x.candidate) /\ xp = x.candidate.price /\ xi = x.candidate.id
    BY <1>1 DEF IsScored
<1>3. PICK yo \in Int, ys \in Int, yr \in Int, yd \in Int, yp \in Int, yi \in Int :
        /\ yo = y.overall /\ ys = y.score.specification /\ yr = y.score.rating
        /\ yd = KnownDays(y.candidate) /\ yp = y.candidate.price /\ yi = y.candidate.id
    BY <1>1 DEF IsScored
<1>4. /\ OverallKey(x) = <<-xo, -xs, -xr, xd, xp, xi>>
      /\ OverallKey(y) = <<-yo, -ys, -yr, yd, yp, yi>>
    BY <1>2, <1>3 DEF OverallKey
<1>5. PICK mo \in Int, ms \in Int, mr \in Int, no \in Int, ns \in Int, nr \in Int :
        /\ mo = -xo /\ ms = -xs /\ mr = -xr
        /\ no = -yo /\ ns = -ys /\ nr = -yr
    OBVIOUS
<1>6. /\ mo < no <=> xo > yo
      /\ mo = no <=> xo = yo
      /\ ms < ns <=> xs > ys
      /\ ms = ns <=> xs = ys
      /\ mr < nr <=> xr > yr
      /\ mr = nr <=> xr = yr
    BY <1>5
<1>7. Less(<<mo, ms, mr, xd, xp, xi>>, <<no, ns, nr, yd, yp, yi>>) <=>
        \/ mo < no
        \/ mo = no /\ ms < ns
        \/ mo = no /\ ms = ns /\ mr < nr
        \/ mo = no /\ ms = ns /\ mr = nr /\ xd < yd
        \/ mo = no /\ ms = ns /\ mr = nr /\ xd = yd /\ xp < yp
        \/ mo = no /\ ms = ns /\ mr = nr /\ xd = yd /\ xp = yp /\ xi < yi
  <2>1. PICK a, b : a = <<mo, ms, mr, xd, xp, xi>> /\ b = <<no, ns, nr, yd, yp, yi>>
      OBVIOUS
  <2>2. /\ a[1] = mo /\ a[2] = ms /\ a[3] = mr /\ a[4] = xd /\ a[5] = xp /\ a[6] = xi
        /\ b[1] = no /\ b[2] = ns /\ b[3] = nr /\ b[4] = yd /\ b[5] = yp /\ b[6] = yi
      BY <2>1
  <2>3. DOMAIN a = 1 .. 6
      BY <2>1
  <2>4. \A n \in 1 .. 6 : a[n] \in Int /\ b[n] \in Int
    <3>1. 1 .. 6 = {1, 2, 3, 4, 5, 6}
        OBVIOUS
    <3> QED
        BY <2>2, <3>1
  <2> QED
      BY <2>1, <2>2, <2>3, <2>4, LessSix
<1>8. Less(<<mo, ms, mr, xd, xp, xi>>, <<no, ns, nr, yd, yp, yi>>) <=>
        \/ xo > yo
        \/ xo = yo /\ xs > ys
        \/ xo = yo /\ xs = ys /\ xr > yr
        \/ xo = yo /\ xs = ys /\ xr = yr /\ xd < yd
        \/ xo = yo /\ xs = ys /\ xr = yr /\ xd = yd /\ xp < yp
        \/ xo = yo /\ xs = ys /\ xr = yr /\ xd = yd /\ xp = yp /\ xi < yi
    BY <1>6, <1>7, Zenon
<1>9. /\ OverallKey(x) = <<mo, ms, mr, xd, xp, xi>>
      /\ OverallKey(y) = <<no, ns, nr, yd, yp, yi>>
    BY <1>4, <1>5
<1> QED
    BY <1>1, <1>2, <1>3, <1>8, <1>9

LEMMA ValueLess ==
    ASSUME NEW x, IsScored(x), NEW y, IsScored(y)
    PROVE  Less(ValueKey(x), ValueKey(y)) <=>
             \/ x.value > y.value
             \/ x.value = y.value /\ x.candidate.price < y.candidate.price
             \/ x.value = y.value /\ x.candidate.price = y.candidate.price
                /\ x.score.specification > y.score.specification
             \/ x.value = y.value /\ x.candidate.price = y.candidate.price
                /\ x.score.specification = y.score.specification
                /\ x.candidate.id < y.candidate.id
<1>1. PICK xv \in Int, xp \in Int, xs \in Int, xi \in Int :
        /\ xv = x.value /\ xp = x.candidate.price
        /\ xs = x.score.specification /\ xi = x.candidate.id
    BY DEF IsScored
<1>2. PICK yv \in Int, yp \in Int, ys \in Int, yi \in Int :
        /\ yv = y.value /\ yp = y.candidate.price
        /\ ys = y.score.specification /\ yi = y.candidate.id
    BY DEF IsScored
<1>3. PICK mv \in Int, ms \in Int, nv \in Int, ns \in Int :
        mv = -xv /\ ms = -xs /\ nv = -yv /\ ns = -ys
    OBVIOUS
<1>4. /\ mv < nv <=> xv > yv
      /\ mv = nv <=> xv = yv
      /\ ms < ns <=> xs > ys
      /\ ms = ns <=> xs = ys
    BY <1>3
<1>5. Less(<<mv, xp, ms, xi>>, <<nv, yp, ns, yi>>) <=>
        \/ mv < nv
        \/ mv = nv /\ xp < yp
        \/ mv = nv /\ xp = yp /\ ms < ns
        \/ mv = nv /\ xp = yp /\ ms = ns /\ xi < yi
  <2>1. PICK a, b : a = <<mv, xp, ms, xi>> /\ b = <<nv, yp, ns, yi>>
      OBVIOUS
  <2>2. /\ a[1] = mv /\ a[2] = xp /\ a[3] = ms /\ a[4] = xi
        /\ b[1] = nv /\ b[2] = yp /\ b[3] = ns /\ b[4] = yi
      BY <2>1
  <2>3. DOMAIN a = 1 .. 4
      BY <2>1
  <2>4. \A n \in 1 .. 4 : a[n] \in Int /\ b[n] \in Int
    <3>1. 1 .. 4 = {1, 2, 3, 4}
        OBVIOUS
    <3> QED
        BY <2>2, <3>1
  <2> QED
      BY <2>1, <2>2, <2>3, <2>4, LessFour
<1>6. ValueKey(x) = <<mv, xp, ms, xi>> /\ ValueKey(y) = <<nv, yp, ns, yi>>
    BY <1>1, <1>2, <1>3 DEF ValueKey
<1>7. Less(<<mv, xp, ms, xi>>, <<nv, yp, ns, yi>>) <=>
        \/ xv > yv
        \/ xv = yv /\ xp < yp
        \/ xv = yv /\ xp = yp /\ xs > ys
        \/ xv = yv /\ xp = yp /\ xs = ys /\ xi < yi
    BY <1>4, <1>5, Zenon
<1> QED
    BY <1>1, <1>2, <1>6, <1>7

LEMMA DeliveryLess ==
    ASSUME NEW x, IsScored(x), NEW y, IsScored(y)
    PROVE  Less(DeliveryKey(x), DeliveryKey(y)) <=>
             \/ x.candidate.days < y.candidate.days
             \/ x.candidate.days = y.candidate.days /\ x.overall > y.overall
             \/ x.candidate.days = y.candidate.days /\ x.overall = y.overall
                /\ x.candidate.price < y.candidate.price
             \/ x.candidate.days = y.candidate.days /\ x.overall = y.overall
                /\ x.candidate.price = y.candidate.price
                /\ x.candidate.id < y.candidate.id
<1>1. PICK xd \in Int, xo \in Int, xp \in Int, xi \in Int :
        /\ xd = x.candidate.days /\ xo = x.overall
        /\ xp = x.candidate.price /\ xi = x.candidate.id
    BY DEF IsScored
<1>2. PICK yd \in Int, yo \in Int, yp \in Int, yi \in Int :
        /\ yd = y.candidate.days /\ yo = y.overall
        /\ yp = y.candidate.price /\ yi = y.candidate.id
    BY DEF IsScored
<1>3. PICK mo \in Int, no \in Int : mo = -xo /\ no = -yo
    OBVIOUS
<1>4. /\ mo < no <=> xo > yo
      /\ mo = no <=> xo = yo
    BY <1>3
<1>5. Less(<<xd, mo, xp, xi>>, <<yd, no, yp, yi>>) <=>
        \/ xd < yd
        \/ xd = yd /\ mo < no
        \/ xd = yd /\ mo = no /\ xp < yp
        \/ xd = yd /\ mo = no /\ xp = yp /\ xi < yi
  <2>1. PICK a, b : a = <<xd, mo, xp, xi>> /\ b = <<yd, no, yp, yi>>
      OBVIOUS
  <2>2. /\ a[1] = xd /\ a[2] = mo /\ a[3] = xp /\ a[4] = xi
        /\ b[1] = yd /\ b[2] = no /\ b[3] = yp /\ b[4] = yi
      BY <2>1
  <2>3. DOMAIN a = 1 .. 4
      BY <2>1
  <2>4. \A n \in 1 .. 4 : a[n] \in Int /\ b[n] \in Int
    <3>1. 1 .. 4 = {1, 2, 3, 4}
        OBVIOUS
    <3> QED
        BY <2>2, <3>1
  <2> QED
      BY <2>1, <2>2, <2>3, <2>4, LessFour
<1>6. DeliveryKey(x) = <<xd, mo, xp, xi>> /\ DeliveryKey(y) = <<yd, no, yp, yi>>
    BY <1>1, <1>2, <1>3 DEF DeliveryKey
<1>7. Less(<<xd, mo, xp, xi>>, <<yd, no, yp, yi>>) <=>
        \/ xd < yd
        \/ xd = yd /\ xo > yo
        \/ xd = yd /\ xo = yo /\ xp < yp
        \/ xd = yd /\ xo = yo /\ xp = yp /\ xi < yi
    BY <1>4, <1>5, Zenon
<1> QED
    BY <1>1, <1>2, <1>6, <1>7

\* The three keys order a pool strictly: an id ends every tie.
LEMMA PoolsAreOrdered ==
    ASSUME NEW S, IsPool(S)
    PROVE  /\ StrictOrder(S, OverallOrder(S))
           /\ StrictOrder(S, ValueOrder(S))
           /\ StrictOrder(S, DeliveryOrder(S))
<1>1. \A x \in S : IsScored(x)
    BY DEF IsPool
<1>2. StrictOrder(S, OverallOrder(S))
  <2>1. \A x, y \in S : <<x, y>> \in OverallOrder(S) <=> Less(OverallKey(x), OverallKey(y))
      BY DEF OverallOrder
  <2>2. \A x \in S : ~Less(OverallKey(x), OverallKey(x))
      BY <1>1, OverallLess DEF IsScored
  <2>3. ASSUME NEW x \in S, NEW y \in S, NEW z \in S,
               Less(OverallKey(x), OverallKey(y)), Less(OverallKey(y), OverallKey(z))
        PROVE  Less(OverallKey(x), OverallKey(z))
    <3>1. IsScored(x) /\ IsScored(y) /\ IsScored(z)
        BY <1>1
    <3>2. KnownDays(x.candidate) \in Int /\ KnownDays(y.candidate) \in Int
          /\ KnownDays(z.candidate) \in Int
        BY <3>1, OverallLess
    <3> QED
        BY <2>3, <3>1, <3>2, OverallLess DEF IsScored
  <2>4. ASSUME NEW x \in S, NEW y \in S, x # y
        PROVE  Less(OverallKey(x), OverallKey(y)) \/ Less(OverallKey(y), OverallKey(x))
    <3>1. IsScored(x) /\ IsScored(y) /\ x.candidate.id # y.candidate.id
        BY <1>1, <2>4 DEF IsPool
    <3> QED
        BY <3>1, OverallLess DEF IsScored
  <2> QED
      BY <2>1, <2>2, <2>3, <2>4 DEF StrictOrder
<1>3. StrictOrder(S, ValueOrder(S))
  <2>1. \A x, y \in S : <<x, y>> \in ValueOrder(S) <=> Less(ValueKey(x), ValueKey(y))
      BY DEF ValueOrder
  <2>2. \A x \in S : ~Less(ValueKey(x), ValueKey(x))
      BY <1>1, ValueLess DEF IsScored
  <2>3. ASSUME NEW x \in S, NEW y \in S, NEW z \in S,
               Less(ValueKey(x), ValueKey(y)), Less(ValueKey(y), ValueKey(z))
        PROVE  Less(ValueKey(x), ValueKey(z))
    <3>1. IsScored(x) /\ IsScored(y) /\ IsScored(z)
        BY <1>1
    <3> QED
        BY <2>3, <3>1, ValueLess DEF IsScored
  <2>4. ASSUME NEW x \in S, NEW y \in S, x # y
        PROVE  Less(ValueKey(x), ValueKey(y)) \/ Less(ValueKey(y), ValueKey(x))
    <3>1. IsScored(x) /\ IsScored(y) /\ x.candidate.id # y.candidate.id
        BY <1>1, <2>4 DEF IsPool
    <3> QED
        BY <3>1, ValueLess DEF IsScored
  <2> QED
      BY <2>1, <2>2, <2>3, <2>4 DEF StrictOrder
<1>4. StrictOrder(S, DeliveryOrder(S))
  <2>1. \A x, y \in S : <<x, y>> \in DeliveryOrder(S) <=> Less(DeliveryKey(x), DeliveryKey(y))
      BY DEF DeliveryOrder
  <2>2. \A x \in S : ~Less(DeliveryKey(x), DeliveryKey(x))
      BY <1>1, DeliveryLess DEF IsScored
  <2>3. ASSUME NEW x \in S, NEW y \in S, NEW z \in S,
               Less(DeliveryKey(x), DeliveryKey(y)), Less(DeliveryKey(y), DeliveryKey(z))
        PROVE  Less(DeliveryKey(x), DeliveryKey(z))
    <3>1. IsScored(x) /\ IsScored(y) /\ IsScored(z)
        BY <1>1
    <3> QED
        BY <2>3, <3>1, DeliveryLess DEF IsScored
  <2>4. ASSUME NEW x \in S, NEW y \in S, x # y
        PROVE  Less(DeliveryKey(x), DeliveryKey(y)) \/ Less(DeliveryKey(y), DeliveryKey(x))
    <3>1. IsScored(x) /\ IsScored(y) /\ x.candidate.id # y.candidate.id
        BY <1>1, <2>4 DEF IsPool
    <3> QED
        BY <3>1, DeliveryLess DEF IsScored
  <2> QED
      BY <2>1, <2>2, <2>3, <2>4 DEF StrictOrder
<1> QED
    BY <1>2, <1>3, <1>4

LEMMA PartOfPool ==
    ASSUME NEW S, IsPool(S), NEW T \in SUBSET S
    PROVE  IsPool(T)
BY FS_Subset DEF IsPool

\* The sorted pool is a list of its members without a later one before an
\* earlier one.
LEMMA SortedPool ==
    ASSUME NEW S, IsPool(S), NEW r, r = Sorted(S, OverallKey)
    PROVE  /\ Cardinality(S) \in Nat /\ r \in [1 .. Cardinality(S) -> S]
           /\ \A n, m \in DOMAIN r : n < m => ~Less(OverallKey(r[m]), OverallKey(r[n]))
<1> DEFINE R == OverallOrder(S)
<1> DEFINE k == Cardinality(S)
<1>1. k \in Nat /\ StrictOrder(S, R)
    BY FS_CardinalityType, PoolsAreOrdered DEF IsPool
<1>2. ASSUME NEW x \in S
      PROVE  {y \in S : Less(OverallKey(y), OverallKey(x))} = Below(x, S, R)
    BY DEF Below, OverallOrder
<1>3. r = [n \in 1 .. k |-> CHOOSE x \in S :
                Cardinality({y \in S : Less(OverallKey(y), OverallKey(x))}) = n - 1]
    BY DEF Sorted
<1>4. IsFiniteSet(S)
    BY DEF IsPool
<1> HIDE DEF R, k
<1>5. ASSUME NEW n \in 1 .. k
      PROVE  r[n] \in S /\ Cardinality(Below(r[n], S, R)) = n - 1
  <2>1. \E x \in S : Cardinality(Below(x, S, R)) = n - 1
      BY <1>1, <1>4, Ranks DEF k
  <2>2. \E x \in S : Cardinality({y \in S : Less(OverallKey(y), OverallKey(x))}) = n - 1
      BY <1>2, <2>1
  <2> DEFINE c == CHOOSE x \in S :
                Cardinality({y \in S : Less(OverallKey(y), OverallKey(x))}) = n - 1
  <2>3. c \in S /\ Cardinality({y \in S : Less(OverallKey(y), OverallKey(c))}) = n - 1
      BY <2>2
  <2>4. r[n] = c
      BY <1>3
  <2> HIDE DEF c
  <2> QED
      BY <1>2, <2>3, <2>4
<1>6. r \in [1 .. k -> S]
    BY <1>3, <1>5
<1>7. ASSUME NEW n \in 1 .. k, NEW m \in 1 .. k, n < m, Less(OverallKey(r[m]), OverallKey(r[n]))
      PROVE  FALSE
  <2>1. r[n] \in S /\ r[m] \in S
      BY <1>5
  <2>2. <<r[m], r[n]>> \in R
      BY <1>7, <2>1 DEF R, OverallOrder
  <2>3. Cardinality(Below(r[m], S, R)) < Cardinality(Below(r[n], S, R))
      BY <1>1, <1>4, <2>1, <2>2, Ranks
  <2>4. m - 1 < n - 1
      BY <1>5, <2>3
  <2> QED
      BY <1>1, <1>7, <2>4
<1> QED
    BY <1>1, <1>6, <1>7 DEF k

\* The best value and the fastest delivery of a pool are of the pool.
LEMMA FirstsOfPool ==
    ASSUME NEW S, IsPool(S), S # {}
    PROVE  FirstBy(S, ValueKey) \in S /\ FirstBy(S, DeliveryKey) \in S
<1>1. IsFiniteSet(S)
    BY DEF IsPool
<1>2. PICK x \in S : \A y \in S \ {x} : <<x, y>> \in ValueOrder(S)
    BY <1>1, PoolsAreOrdered, FirstElement
<1>3. \A y \in S \ {x} : Less(ValueKey(x), ValueKey(y))
    BY <1>2 DEF ValueOrder
<1>4. PICK z \in S : \A y \in S \ {z} : <<z, y>> \in DeliveryOrder(S)
    BY <1>1, PoolsAreOrdered, FirstElement
<1>5. \A y \in S \ {z} : Less(DeliveryKey(z), DeliveryKey(y))
    BY <1>4 DEF DeliveryOrder
<1>6. FirstBy(S, ValueKey) \in S
  <2>1. FirstBy(S, ValueKey) = CHOOSE c \in S : \A y \in S \ {c} : Less(ValueKey(c), ValueKey(y))
      BY DEF FirstBy
  <2> QED
      BY <1>2, <1>3, <2>1
<1>7. FirstBy(S, DeliveryKey) \in S
  <2>1. FirstBy(S, DeliveryKey) =
          CHOOSE c \in S : \A y \in S \ {c} : Less(DeliveryKey(c), DeliveryKey(y))
      BY DEF FirstBy
  <2> QED
      BY <1>4, <1>5, <2>1
<1> QED
    BY <1>6, <1>7

-----------------------------------------------------------------------------
(* Scores                                                                  *)

\* Rounding keeps the order of the amounts it rounds.
LEMMA RoundedKeepsOrder ==
    ASSUME NEW a \in Int, NEW b \in Int, NEW k \in Int, k > 0
    PROVE  /\ Rounded(a, k) \in Int
           /\ a <= b => Rounded(a, k) <= Rounded(b, k)
<1> DEFINE d == 2 * k
           x == 2 * a + k
           y == 2 * b + k
           p == x \div d
           q == y \div d
<1>1. d \in Int /\ d > 0 /\ x \in Int /\ y \in Int
    OBVIOUS
<1>2. Rounded(a, k) = p /\ Rounded(b, k) = q
    BY DEF Rounded
<1>3. a <= b => x <= y
    OBVIOUS
<1> HIDE DEF d, x, y
<1>4. p \in Int /\ q \in Int
    BY <1>1
<1>5. d * p <= x /\ y < d * q + d
    BY <1>1
<1> HIDE DEF p, q
<1>6. ASSUME x <= y, p > q PROVE FALSE
  <2>1. p >= q + 1
      BY <1>4, <1>6
  <2>2. d * p >= d * (q + 1)
      BY <1>1, <1>4, <2>1
  <2>3. d * (q + 1) = d * q + d
      BY <1>1, <1>4
  <2>4. PICK e \in Int, g \in Int : e = d * p /\ g = d * q
      BY <1>1, <1>4
  <2> QED
      BY <1>1, <1>5, <1>6, <2>2, <2>3, <2>4
<1> QED
    BY <1>2, <1>3, <1>4, <1>6

\* The numbers of a candidate, and of an intent.
IsCandidate(c) ==
    /\ c.id \in Int /\ c.price \in Int /\ c.base \in Int /\ c.discount \in Int
    /\ c.quantity \in Nat /\ c.inStock \in BOOLEAN
    /\ c.days \in Int /\ c.rating \in Int /\ c.reviews \in Int

IsIntent(i) ==
    /\ i.quantity \in Nat \ {0}
    /\ i.budgetMax \in Int \union {None} /\ i.budgetMin \in Int \union {None}
    /\ Demands(i.specs)
    /\ i.requireStock \in BOOLEAN /\ i.ambiguous \in BOOLEAN
    /\ i.objective \in Objectives

LEMMA PriceScoreFits ==
    ASSUME NEW c, IsCandidate(c), NEW i, IsIntent(i),
           NEW low \in Int, NEW high \in Int
    PROVE  PriceScore(c, i, low, high) \in Int
<1>1. CASE high > low
  <2>1. PICK k \in Int, a \in Int :
          k = high - low /\ k > 0 /\ a = 5000 * (high - c.price)
      BY <1>1 DEF IsCandidate
  <2>2. Rounded(a, k) \in Int
      BY <2>1, RoundedKeepsOrder
  <2>3. PriceScore(c, i, low, high) = 5000 + Rounded(a, k)
      BY <1>1, <2>1 DEF PriceScore
  <2> QED
      BY <2>2, <2>3
<1>2. CASE ~(high > low) /\ i.budgetMax # None /\ i.budgetMax > 0 /\ c.price <= i.budgetMax
  <2>1. PICK k \in Int, a \in Int :
          k = i.budgetMax /\ k > 0 /\ a = 2000 * (i.budgetMax - c.price)
      BY <1>2 DEF IsCandidate, IsIntent
  <2>2. Rounded(a, k) \in Int
      BY <2>1, RoundedKeepsOrder
  <2>3. PriceScore(c, i, low, high) = Capped(8000 + Rounded(a, k))
      BY <1>2, <2>1 DEF PriceScore
  <2> QED
      BY <2>2, <2>3 DEF Capped
<1>3. CASE ~(high > low) /\ ~(i.budgetMax # None /\ i.budgetMax > 0 /\ c.price <= i.budgetMax)
    BY <1>3 DEF PriceScore
<1> QED
    BY <1>1, <1>2, <1>3

LEMMA DiscountScoreFits ==
    ASSUME NEW c, IsCandidate(c)
    PROVE  DiscountScore(c) \in Int
<1>1. CASE c.discount > 0
    BY <1>1 DEF DiscountScore, Capped, IsCandidate
<1>2. CASE ~(c.discount > 0) /\ Reduced(c)
  <2>1. PICK k \in Int, a \in Int : k = c.base /\ k > 0 /\ a = 25000 * (c.base - c.price)
      BY <1>2 DEF IsCandidate, Reduced
  <2>2. Rounded(a, k) \in Int
      BY <2>1, RoundedKeepsOrder
  <2>3. DiscountScore(c) = Capped(Rounded(a, k))
      BY <1>2, <2>1 DEF DiscountScore
  <2> QED
      BY <2>2, <2>3 DEF Capped
<1>3. CASE ~(c.discount > 0) /\ ~Reduced(c)
    BY <1>3 DEF DiscountScore
<1> QED
    BY <1>1, <1>2, <1>3

LEMMA SpecificationScoreFits ==
    ASSUME NEW c, NEW i
    PROVE  SpecificationScore(c, i) \in Int
<1>1. GpuBonus(c.specs) \in Int
    BY DEF GpuBonus, ChipBonus
<1>2. RamBonus(Number(c.specs, "ram_gb", 16)) \in Int
    BY DEF RamBonus
<1>3. SsdBonus(Number(c.specs, "ssd_gb", 512)) \in Int
    BY DEF SsdBonus
<1>4. PICK g \in Int, r \in Int, s \in Int :
        /\ g = GpuBonus(c.specs) /\ r = RamBonus(Number(c.specs, "ram_gb", 16))
        /\ s = SsdBonus(Number(c.specs, "ssd_gb", 512))
    BY <1>1, <1>2, <1>3
<1>5. PICK b \in Int, m \in Int :
        /\ b = (IF c.brand \in i.brands THEN 5 ELSE 0)
        /\ m = (IF c.merchant \in i.merchants THEN 5 ELSE 0)
    OBVIOUS
<1>6. SpecificationScore(c, i) = Capped(100 * (60 + g + r + s + b + m))
    BY <1>4, <1>5 DEF SpecificationScore
<1> QED
    BY <1>6 DEF Capped

LEMMA OtherScoresFit ==
    ASSUME NEW c, IsCandidate(c)
    PROVE  DeliveryScore(c.days) \in Int /\ RatingScore(c) \in Int /\ InventoryScore(c) \in Int
BY DEF DeliveryScore, RatingScore, ReviewBonus, InventoryScore, Capped, IsCandidate

IsScore(s) ==
    /\ s.price \in Int /\ s.specification \in Int /\ s.delivery \in Int
    /\ s.rating \in Int /\ s.discount \in Int /\ s.inventory \in Int

\* No objective weighs a score against a product.
LEMMA WeightsFit ==
    ASSUME NEW o \in Objectives
    PROVE  LET w == Weights(o) IN
           /\ w.price \in Nat /\ w.specification \in Nat /\ w.delivery \in Nat
           /\ w.rating \in Nat /\ w.discount \in Nat /\ w.inventory \in Nat
BY DEF Objectives, Weights, Weigh

\* A weighted score, rounded, grows with the score.
LEMMA PartGrows ==
    ASSUME NEW a \in Int, NEW b \in Int, a <= b, NEW w \in Nat
    PROVE  /\ Rounded(a * w, 100) \in Int /\ Rounded(b * w, 100) \in Int
           /\ Rounded(a * w, 100) <= Rounded(b * w, 100)
<1>1. PICK p \in Int, q \in Int : p = a * w /\ q = b * w
    OBVIOUS
<1>2. p <= q
  <2>1. a * w <= b * w
      OBVIOUS
  <2> QED
      BY <1>1, <2>1
<1>3. Rounded(p, 100) \in Int /\ Rounded(q, 100) \in Int /\ Rounded(p, 100) <= Rounded(q, 100)
    BY <1>2, RoundedKeepsOrder
<1> QED
    BY <1>1, <1>3

\* And so does the sum of the six.
LEMMA CompositeGrows ==
    ASSUME NEW s, IsScore(s), NEW t, IsScore(t), NEW o \in Objectives,
           s.price <= t.price, s.specification <= t.specification,
           s.delivery <= t.delivery, s.rating <= t.rating,
           s.discount <= t.discount, s.inventory <= t.inventory
    PROVE  /\ Composite(s, Weights(o)) \in Int /\ Composite(t, Weights(o)) \in Int
           /\ Composite(s, Weights(o)) <= Composite(t, Weights(o))
<1> DEFINE w == Weights(o)
<1>1. /\ w.price \in Nat /\ w.specification \in Nat /\ w.delivery \in Nat
      /\ w.rating \in Nat /\ w.discount \in Nat /\ w.inventory \in Nat
    BY WeightsFit
<1> HIDE DEF w
<1>2. PICK p1 \in Int, p2 \in Int : p1 <= p2
        /\ p1 = Rounded(s.price * w.price, 100) /\ p2 = Rounded(t.price * w.price, 100)
    BY <1>1, PartGrows, ZenonT(40) DEF IsScore
<1>3. PICK q1 \in Int, q2 \in Int : q1 <= q2
        /\ q1 = Rounded(s.specification * w.specification, 100)
        /\ q2 = Rounded(t.specification * w.specification, 100)
    BY <1>1, PartGrows, ZenonT(40) DEF IsScore
<1>4. PICK d1 \in Int, d2 \in Int : d1 <= d2
        /\ d1 = Rounded(s.delivery * w.delivery, 100)
        /\ d2 = Rounded(t.delivery * w.delivery, 100)
    BY <1>1, PartGrows, ZenonT(40) DEF IsScore
<1>5. PICK r1 \in Int, r2 \in Int : r1 <= r2
        /\ r1 = Rounded(s.rating * w.rating, 100) /\ r2 = Rounded(t.rating * w.rating, 100)
    BY <1>1, PartGrows DEF IsScore
<1>6. PICK e1 \in Int, e2 \in Int : e1 <= e2
        /\ e1 = Rounded(s.discount * w.discount, 100)
        /\ e2 = Rounded(t.discount * w.discount, 100)
    BY <1>1, PartGrows DEF IsScore
<1>7. PICK i1 \in Int, i2 \in Int : i1 <= i2
        /\ i1 = Rounded(s.inventory * w.inventory, 100)
        /\ i2 = Rounded(t.inventory * w.inventory, 100)
    BY <1>1, PartGrows, ZenonT(40) DEF IsScore
<1>8. /\ Composite(s, w) = Capped(p1 + q1 + d1 + r1 + e1 + i1)
      /\ Composite(t, w) = Capped(p2 + q2 + d2 + r2 + e2 + i2)
    BY <1>2, <1>3, <1>4, <1>5, <1>6, <1>7 DEF Composite
<1>9. p1 + q1 + d1 + r1 + e1 + i1 <= p2 + q2 + d2 + r2 + e2 + i2
    BY <1>2, <1>3, <1>4, <1>5, <1>6, <1>7
<1>10. PICK a \in Int, b \in Int : a <= b
         /\ a = p1 + q1 + d1 + r1 + e1 + i1 /\ b = p2 + q2 + d2 + r2 + e2 + i2
    BY <1>9
<1>11. Capped(a) \in Int /\ Capped(b) \in Int /\ Capped(a) <= Capped(b)
    BY <1>10 DEF Capped
<1> QED
    BY <1>8, <1>10, <1>11 DEF w

\* The scores of a candidate within a range of prices.
LEMMA ScoredFits ==
    ASSUME NEW c, IsCandidate(c), NEW i, IsIntent(i), NEW low \in Int, NEW high \in Int,
           NEW x, x = Scored(c, i, low, high)
    PROVE  /\ x.candidate = c /\ IsScore(x.score) /\ IsScored(x)
           /\ x.overall = Composite(x.score, Weights(i.objective))
           /\ x.score.price = PriceScore(c, i, low, high)
           /\ x.score.delivery = DeliveryScore(c.days)
           /\ x.score.rating = RatingScore(c)
           /\ x.score.inventory = InventoryScore(c)
           /\ x = [candidate |-> c, score |-> x.score, overall |-> x.overall, value |-> x.value]
           /\ x.score \in [price : Int, specification : Int, delivery : Int, rating : Int,
                           discount : Int, inventory : Int]
<1> DEFINE s == [price |-> PriceScore(c, i, low, high),
                 specification |-> SpecificationScore(c, i),
                 delivery |-> DeliveryScore(c.days), rating |-> RatingScore(c),
                 discount |-> DiscountScore(c), inventory |-> InventoryScore(c)]
           v == Rounded(35 * s.specification + 45 * s.price
                          + 10 * s.rating + 10 * s.discount, 100)
           o == Composite(s, Weights(i.objective))
<1>1. x = [candidate |-> c, score |-> s, overall |-> o, value |-> v]
    BY DEF Scored
<1>2. s \in [price : Int, specification : Int, delivery : Int, rating : Int,
             discount : Int, inventory : Int]
    BY PriceScoreFits, SpecificationScoreFits, OtherScoresFit, DiscountScoreFits
<1>3. /\ s.price = PriceScore(c, i, low, high) /\ s.delivery = DeliveryScore(c.days)
      /\ s.rating = RatingScore(c) /\ s.inventory = InventoryScore(c)
    OBVIOUS
<1> HIDE DEF s
<1>4. IsScore(s)
    BY <1>2 DEF IsScore
<1>5. v \in Int
  <2>1. PICK a \in Int : a = 35 * s.specification + 45 * s.price + 10 * s.rating + 10 * s.discount
      BY <1>4 DEF IsScore
  <2>2. Rounded(a, 100) \in Int
      BY RoundedKeepsOrder
  <2> QED
      BY <2>1, <2>2
<1>6. o \in Int
  <2>1. i.objective \in Objectives
      BY DEF IsIntent
  <2>2. s.price <= s.price /\ s.specification <= s.specification /\ s.delivery <= s.delivery
        /\ s.rating <= s.rating /\ s.discount <= s.discount /\ s.inventory <= s.inventory
      BY <1>4 DEF IsScore
  <2> QED
      BY <1>4, <2>1, <2>2, CompositeGrows
<1> HIDE DEF v, o
<1>7. x.candidate = c /\ x.score = s /\ x.overall = o /\ x.value = v
    BY <1>1
<1>8. IsScored(x)
    BY <1>4, <1>5, <1>6, <1>7 DEF IsScored, IsScore, IsCandidate
<1> QED
    BY <1>1, <1>2, <1>3, <1>4, <1>7, <1>8 DEF o

\* A product that dominates another one comes before it.
LEMMA DominatingIsLess ==
    ASSUME NEW c, IsCandidate(c), NEW d, IsCandidate(d), NEW i, IsIntent(i),
           NEW low \in Int, NEW high \in Int,
           low <= c.price, c.price <= high, low <= d.price, d.price <= high,
           NEW x, x = Scored(c, i, low, high), NEW y, y = Scored(d, i, low, high),
           Dominates(c, d),
           x.score.specification >= y.score.specification,
           x.score.discount >= y.score.discount
    PROVE  Less(OverallKey(x), OverallKey(y))
<1>1. /\ x.candidate = c /\ IsScore(x.score) /\ IsScored(x)
      /\ x.overall = Composite(x.score, Weights(i.objective))
      /\ x.score.price = PriceScore(c, i, low, high)
      /\ x.score.delivery = DeliveryScore(c.days)
      /\ x.score.rating = RatingScore(c)
      /\ x.score.inventory = InventoryScore(c)
    BY ScoredFits
<1>2. /\ y.candidate = d /\ IsScore(y.score) /\ IsScored(y)
      /\ y.overall = Composite(y.score, Weights(i.objective))
      /\ y.score.price = PriceScore(d, i, low, high)
      /\ y.score.delivery = DeliveryScore(d.days)
      /\ y.score.rating = RatingScore(d)
      /\ y.score.inventory = InventoryScore(d)
    BY ScoredFits
<1>3. /\ c.price <= d.price /\ 0 < c.days /\ c.days <= d.days /\ c.rating >= d.rating
      /\ c.reviews >= d.reviews /\ c.quantity >= d.quantity /\ (d.inStock => c.inStock)
      /\ c.price < d.price \/ c.days < d.days
    BY DEF Dominates
<1>4. y.score.price <= x.score.price
  <2>1. CASE high > low
    <3>1. PICK k \in Int, a \in Int, b \in Int :
            /\ k = high - low /\ k > 0 /\ a = 5000 * (high - d.price)
            /\ b = 5000 * (high - c.price) /\ a <= b
        BY <1>3, <2>1 DEF IsCandidate
    <3>2. k > 0 /\ a <= b
        BY <3>1
    <3>3. Rounded(a, k) \in Int /\ Rounded(b, k) \in Int /\ Rounded(a, k) <= Rounded(b, k)
        BY <3>2, RoundedKeepsOrder
    <3>4. y.score.price = 5000 + Rounded(a, k) /\ x.score.price = 5000 + Rounded(b, k)
        BY <1>1, <1>2, <2>1, <3>1 DEF PriceScore
    <3> QED
        BY <3>3, <3>4
  <2>2. CASE ~(high > low)
    <3>1. c.price = d.price
        BY <2>2 DEF IsCandidate
    <3>2. x.score.price = y.score.price
        BY <1>1, <1>2, <2>2, <3>1 DEF PriceScore
    <3> QED
        BY <1>1, <3>2 DEF IsScore
  <2> QED
      BY <2>1, <2>2
<1>5. y.score.delivery <= x.score.delivery
    BY <1>1, <1>2, <1>3 DEF DeliveryScore, IsCandidate
<1>6. y.score.rating <= x.score.rating
  <2>1. PICK e \in Int, f \in Int : e = ReviewBonus(d.reviews) /\ f = ReviewBonus(c.reviews) /\ e <= f
    <3>1. PICK m \in Int, n \in Int : m = d.reviews /\ n = c.reviews /\ m <= n
        BY <1>3 DEF IsCandidate
    <3>2. \A r \in Int : ReviewBonus(r) =
            IF r >= 1000 THEN 1000 ELSE IF r >= 500 THEN 700 ELSE IF r >= 100 THEN 400
            ELSE IF r >= 10 THEN 200 ELSE 0
        BY SMTT(40) DEF ReviewBonus
    <3>3. ReviewBonus(m) \in Int /\ ReviewBonus(n) \in Int
        BY <3>2
    <3>4. ReviewBonus(m) <= ReviewBonus(n)
        BY <3>1, <3>2
    <3> QED
        BY <3>1, <3>2, <3>3, <3>4
  <2>2. 180 * d.rating + e <= 180 * c.rating + f
      BY <1>3, <2>1 DEF IsCandidate
  <2>3. Capped(180 * d.rating + e) <= Capped(180 * c.rating + f)
      BY <2>2 DEF Capped, IsCandidate
  <2> QED
      BY <1>1, <1>2, <2>1, <2>3 DEF RatingScore
<1>7. y.score.inventory <= x.score.inventory
    BY <1>1, <1>2, <1>3 DEF InventoryScore, IsCandidate
<1>8. y.score.specification <= x.score.specification /\ y.score.discount <= x.score.discount
    BY <1>1, <1>2 DEF IsScore
<1>9. y.overall <= x.overall
  <2>1. i.objective \in Objectives
      BY DEF IsIntent
  <2> QED
      BY <1>1, <1>2, <1>4, <1>5, <1>6, <1>7, <1>8, <2>1, CompositeGrows
<1>10. KnownDays(x.candidate) = c.days /\ KnownDays(y.candidate) = d.days
    BY <1>1, <1>2, <1>3 DEF KnownDays, IsCandidate
<1>11. c.days <= d.days /\ c.price <= d.price /\ (c.price < d.price \/ c.days < d.days)
    BY <1>3
<1>12. /\ x.overall \in Int /\ y.overall \in Int
       /\ x.score.specification \in Int /\ y.score.specification \in Int
       /\ x.score.rating \in Int /\ y.score.rating \in Int
       /\ c.days \in Int /\ d.days \in Int /\ c.price \in Int /\ d.price \in Int
    BY <1>1, <1>2 DEF IsScored, IsCandidate
<1> QED
    BY <1>1, <1>2, <1>6, <1>8, <1>9, <1>10, <1>11, <1>12, OverallLess

-----------------------------------------------------------------------------
(* Candidates                                                              *)

LEMMA LeastAndGreatest ==
    ASSUME NEW S \in SUBSET Int, IsFiniteSet(S), S # {}
    PROVE  /\ Least(S) \in S /\ \A x \in S : Least(S) <= x
           /\ \E g \in S : /\ g = CHOOSE p \in S : \A q \in S : q <= p
                           /\ \A x \in S : x <= g
<1> DEFINE Up   == {p \in S \X S : p[1] < p[2]}
           Down == {p \in S \X S : p[2] < p[1]}
<1>1. \A x, y \in S : (<<x, y>> \in Up <=> x < y) /\ (<<x, y>> \in Down <=> y < x)
    OBVIOUS
<1> HIDE DEF Up, Down
<1>2. \A x \in S : x \in Int
    OBVIOUS
<1>3. StrictOrder(S, Up)
    BY <1>1, <1>2 DEF StrictOrder
<1>4. StrictOrder(S, Down)
    BY <1>1, <1>2 DEF StrictOrder
<1>5. \E l \in S : \A y \in S : l <= y
  <2>1. PICK l \in S : \A y \in S \ {l} : <<l, y>> \in Up
      BY <1>3, FirstElement
  <2>2. ASSUME NEW y \in S PROVE l <= y
    <3>1. y \in Int /\ l \in Int
        BY <1>2
    <3>2. CASE y = l
        BY <3>1, <3>2
    <3>3. CASE y # l
      <4>1. <<l, y>> \in Up
          BY <2>1, <3>3
      <4> QED
          BY <1>1, <3>1, <4>1
    <3> QED
        BY <3>2, <3>3
  <2> QED
      BY <2>2
<1>6. \E g \in S : \A y \in S : y <= g
  <2>1. PICK g \in S : \A y \in S \ {g} : <<g, y>> \in Down
      BY <1>4, FirstElement
  <2>2. ASSUME NEW y \in S PROVE y <= g
    <3>1. y \in Int /\ g \in Int
        BY <1>2
    <3>2. CASE y = g
        BY <3>1, <3>2
    <3>3. CASE y # g
      <4>1. <<g, y>> \in Down
          BY <2>1, <3>3
      <4> QED
          BY <1>1, <3>1, <4>1
    <3> QED
        BY <3>2, <3>3
  <2> QED
      BY <2>2
<1>7. Least(S) \in S /\ \A x \in S : Least(S) <= x
    BY <1>5 DEF Least
<1> DEFINE h == CHOOSE p \in S : \A q \in S : q <= p
<1>8. h \in S /\ \A x \in S : x <= h
    BY <1>6
<1> QED
    BY <1>7, <1>8

\* Ratings, in tenths.
Stars == 0 .. 50

\* What a request reads of the catalogue is a candidate with its product's id,
\* merchant and words, and the row's price and stock.
LEMMA CandidatesFit ==
    ASSUME NEW p \in Products, NEW v \in Shelves[p],
           NEW c \in {OfSummary(Row(p, v)), OfDetail(Row(p, v))}
    PROVE  /\ IsCandidate(c) /\ c \in Candidates /\ c.rating \in Stars
           /\ c.id = p /\ c.merchant = Listing[p].merchant /\ c.price = v.price
           /\ c.specs = Listing[p].specs /\ c.words = Listing[p].words
           /\ c.quantity = (IF v.stock = None THEN 0 ELSE v.stock.quantity)
           /\ c.state = (IF v.stock = None THEN "IN_STOCK" ELSE v.stock.state)
           /\ c.inStock <=> /\ c.state # "OUT_OF_STOCK"
                            /\ c.quantity > 0 \/ c.state = "IN_STOCK"
<1> DEFINE r == Row(p, v)
<1>1. /\ r.id = p /\ r.merchant = Listing[p].merchant /\ r.base = Listing[p].base
      /\ r.rating = Listing[p].rating /\ r.reviews = Listing[p].reviews
      /\ r.specs = Listing[p].specs /\ r.words = Listing[p].words
      /\ r.price = v.price /\ r.stock = v.stock
    BY DEF Row
<1> HIDE DEF r
<1>2. /\ r.id \in Int /\ r.price \in Int /\ r.base \in Int /\ r.rating \in Int
      /\ r.reviews \in Int /\ r.merchant \in Merchants
      /\ r.stock # None => r.stock.quantity \in Nat
    BY <1>1, DiscoveryAssumption, ShelvesAssumption
<1>3. Quantity(r) \in Nat /\ InStock(r) \in BOOLEAN
    BY <1>2 DEF Quantity, InStock
<1>4. Rating(r) \in Stars
    BY <1>2 DEF Rating, Stars
<1>5. \A o \in SUBSET Int : IsFiniteSet(o) =>
        (IF o = {} THEN DefaultDays(r.merchant) ELSE Least(o)) \in Int
    BY LeastAndGreatest DEF DefaultDays
<1>6. {} \in SUBSET Int /\ IsFiniteSet({})
    BY FS_EmptySet
<1>7. Options[r.merchant] \in SUBSET Int /\ IsFiniteSet(Options[r.merchant])
    BY <1>2, DiscoveryAssumption
<1>8. (IF Reduced(r) THEN Rounded(1000 * (r.base - r.price), r.base) ELSE 0) \in Int
  <2>1. CASE Reduced(r)
    <3>1. PICK a \in Int, k \in Int : a = 1000 * (r.base - r.price) /\ k = r.base /\ k > 0
        BY <1>2, <2>1 DEF Reduced
    <3>2. Rounded(a, k) \in Int
        BY <3>1, RoundedKeepsOrder
    <3> QED
        BY <2>1, <3>1, <3>2
  <2>2. CASE ~Reduced(r)
      BY <2>2
  <2> QED
      BY <2>1, <2>2
<1> DEFINE n == IF r.reviews < 0 THEN 0 ELSE r.reviews
<1>15. n \in Int /\ BasePrice(r) \in Int
    BY <1>2 DEF BasePrice
<1> HIDE DEF n
<1>9. ASSUME NEW o \in SUBSET Int, IsFiniteSet(o), NEW d \in Int, c = Candidate(r, o, d)
      PROVE  /\ IsCandidate(c) /\ c.rating \in Stars
             /\ c.id = r.id /\ c.merchant = r.merchant /\ c.price = r.price
             /\ c.specs = r.specs /\ c.words = r.words
             /\ c.quantity = Quantity(r) /\ c.state = State(r)
             /\ c.inStock = InStock(r)
  <2>1. /\ c.id = r.id /\ c.price = r.price /\ c.base = BasePrice(r) /\ c.discount = d
        /\ c.quantity = Quantity(r) /\ c.inStock = InStock(r)
        /\ c.days = (IF o = {} THEN DefaultDays(r.merchant) ELSE Least(o))
        /\ c.rating = Rating(r) /\ c.reviews = n /\ c.merchant = r.merchant
        /\ c.specs = r.specs /\ c.words = r.words /\ c.state = State(r)
      BY <1>9 DEF Candidate, n
  <2>2. c.days \in Int
      BY <1>5, <1>9, <2>1
  <2>3. IsCandidate(c)
    <3>1. Rating(r) \in Int
        BY <1>4 DEF Stars
    <3> QED
        BY <1>2, <1>3, <1>9, <1>15, <2>1, <2>2, <3>1 DEF IsCandidate
  <2> QED
      BY <1>4, <2>1, <2>3
<1>10. c = OfSummary(r) \/ c = OfDetail(r)
    BY DEF r
<1>11. \E o \in SUBSET Int, d \in Int : IsFiniteSet(o) /\ c = Candidate(r, o, d)
    BY <1>6, <1>7, <1>8, <1>10 DEF OfSummary, OfDetail
<1>12. /\ IsCandidate(c) /\ c.rating \in Stars
       /\ c.id = r.id /\ c.merchant = r.merchant /\ c.price = r.price
       /\ c.specs = r.specs /\ c.words = r.words
       /\ c.quantity = Quantity(r) /\ c.state = State(r)
       /\ c.inStock = InStock(r)
    BY <1>9, <1>11
<1>13. c \in Candidates
    BY DEF Candidates
<1>14. c.inStock <=> /\ c.state # "OUT_OF_STOCK"
                     /\ c.quantity > 0 \/ c.state = "IN_STOCK"
  <2>1. InStock(r) <=> State(r) # "OUT_OF_STOCK" /\ (Quantity(r) > 0 \/ State(r) = "IN_STOCK")
      BY DEF InStock
  <2>2. c.inStock <=> InStock(r)
      BY <1>12
  <2> QED
      BY <1>12, <2>1, <2>2
<1> QED
    BY <1>1, <1>12, <1>13, <1>14 DEF Quantity, State

\* The products of a run: candidates, one of each product.
IsChoice(P) ==
    /\ IsFiniteSet(P)
    /\ \A c \in P : IsCandidate(c) /\ c \in Candidates /\ c.rating \in Stars
    /\ \A c, d \in P : c.id = d.id => c = d

LEMMA ScoredAllIsPool ==
    ASSUME NEW P, IsChoice(P), NEW i, IsIntent(i)
    PROVE  /\ IsPool(ScoredAll(P, i))
           /\ \A x \in ScoredAll(P, i) : x \in ScoreRows /\ x.candidate \in P
           /\ \A c \in P : c.price >= 0 => \E x \in ScoredAll(P, i) : x.candidate = c
           /\ \E low \in Int, high \in Int : \A x \in ScoredAll(P, i) :
                /\ x = Scored(x.candidate, i, low, high)
                /\ low <= x.candidate.price /\ x.candidate.price <= high
<1> DEFINE V == {c \in P : c.price >= 0 /\ c.rating \in 0 .. 50}
           prices == {c.price : c \in V}
           low == Least(prices)
           high == CHOOSE p \in prices : \A q \in prices : q <= p
           S == {Scored(c, i, low, high) : c \in V}
<1>1. ScoredAll(P, i) = S
    BY DEF ScoredAll
<1>2. IsFiniteSet(V) /\ V \in SUBSET P
    BY FS_Subset DEF IsChoice
<1>3. \A c \in V : IsCandidate(c) /\ c.price \in Int
    BY DEF IsChoice, IsCandidate
<1>4. IsFiniteSet(prices)
  <2> DEFINE f == [c \in V |-> c.price]
  <2>1. f \in Surjection(V, prices)
      BY DEF Surjection
  <2> HIDE DEF f, V, prices
  <2> QED
      BY <1>2, <2>1, FS_Surjection
<1>5. IsFiniteSet(S)
  <2> DEFINE f == [c \in V |-> Scored(c, i, low, high)]
  <2>1. f \in Surjection(V, S)
      BY DEF Surjection
  <2> HIDE DEF f, V, S
  <2> QED
      BY <1>2, <2>1, FS_Surjection
<1>6. CASE V = {}
  <2>1. S = {}
      BY <1>6
  <2>2. \A c \in P : ~(c.price >= 0)
      BY <1>6 DEF IsChoice, Stars
  <2> HIDE DEF S
  <2> QED
      BY <1>1, <1>5, <2>1, <2>2 DEF IsPool
<1>7. CASE V # {}
  <2>1. prices \in SUBSET Int /\ prices # {}
      BY <1>3, <1>7
  <2> HIDE DEF prices
  <2>2. /\ low \in Int /\ high \in Int
        /\ \A p \in prices : low <= p /\ p <= high
      BY <1>4, <2>1, LeastAndGreatest
  <2> HIDE DEF low, high
  <2> USE DEF prices
  <2>3. ASSUME NEW c \in V, NEW x, x = Scored(c, i, low, high)
        PROVE  /\ x.candidate = c /\ IsScored(x) /\ x \in ScoreRows
               /\ low <= x.candidate.price /\ x.candidate.price <= high
    <3>1. /\ x.candidate = c /\ IsScored(x)
          /\ x = [candidate |-> c, score |-> x.score, overall |-> x.overall, value |-> x.value]
          /\ x.score \in [price : Int, specification : Int, delivery : Int, rating : Int,
                          discount : Int, inventory : Int]
        BY <1>3, <2>2, <2>3, ScoredFits
    <3>2. c \in Candidates
        BY DEF IsChoice
    <3>3. x \in ScoreRows
        BY <3>1, <3>2 DEF ScoreRows, IsScored
    <3> QED
        BY <2>2, <3>1, <3>3
  <2> HIDE DEF V
  <2>4. \A x \in S : \E c \in V : x = Scored(c, i, low, high)
      OBVIOUS
  <2>5. \A c \in V : Scored(c, i, low, high) \in S
      OBVIOUS
  <2> HIDE DEF S
  <2>6. \A x \in S : /\ x.candidate \in V /\ x = Scored(x.candidate, i, low, high)
                     /\ IsScored(x) /\ x \in ScoreRows
                     /\ low <= x.candidate.price /\ x.candidate.price <= high
      BY <2>3, <2>4
  <2>7. \A x, y \in S : x.candidate.id = y.candidate.id => x = y
    <3>1. \A c, d \in V : c.id = d.id => c = d
        BY <1>2 DEF IsChoice
    <3> QED
        BY <2>6, <3>1
  <2>8. IsPool(S)
      BY <1>5, <2>6, <2>7 DEF IsPool
  <2>9. ASSUME NEW c \in P, c.price >= 0
        PROVE  \E x \in S : x.candidate = c
    <3>1. c \in V
        BY <2>9 DEF V, IsChoice, Stars
    <3> QED
        BY <2>3, <2>5, <3>1
  <2> QED
      BY <1>1, <1>2, <2>2, <2>6, <2>8, <2>9
<1> QED
    BY <1>6, <1>7

-----------------------------------------------------------------------------
(* Intents and filters                                                     *)

\* What the parser makes of a message, if anything, is an intent.
LEMMA IntentsFit ==
    ASSUME NEW m \in Messages, NEW previous, IsIntent(previous),
           parse_intent(m, previous) # None
    PROVE  /\ IsIntent(parse_intent(m, previous))
           /\ parse_intent(m, previous) = IF m.greeting THEN Unclear ELSE Refined(m, previous)
           /\ ~m.greeting => ~parse_intent(m, previous).ambiguous
<1>1. /\ m.greeting \in BOOLEAN /\ m.negative \in BOOLEAN /\ m.anyAvailability \in BOOLEAN
      /\ m.quantity \in (Nat \ {0}) \union {None}
      /\ m.budgetMax \in Int \union {None} /\ m.budgetMin \in Int \union {None}
      /\ m.objective \in Objectives /\ Demands(m.specs)
    BY MessagesAssumption
<1>2. /\ parse_intent(m, previous) = IF m.greeting THEN Unclear ELSE Refined(m, previous)
  <2>1. ~m.negative
      BY <1>1 DEF parse_intent
  <2> QED
      BY <1>1, <2>1 DEF parse_intent
<1>3. IsIntent(Unclear)
  <2>1. /\ Unclear.quantity = 1 /\ Unclear.budgetMax = None /\ Unclear.budgetMin = None
        /\ Unclear.specs = <<>> /\ Unclear.objective = "BEST_VALUE"
      BY DEF Unclear, NoWishes
  <2>2. Demands(<<>>)
      BY DEF Demands
  <2>3. Demands(Unclear.specs)
      BY <2>1, <2>2
  <2>4. Unclear.objective \in Objectives
      BY <2>1 DEF Objectives
  <2>5. /\ Unclear.quantity \in Nat \ {0}
        /\ Unclear.budgetMax \in Int \union {None} /\ Unclear.budgetMin \in Int \union {None}
      BY <2>1
  <2>6. Unclear.requireStock \in BOOLEAN /\ Unclear.ambiguous \in BOOLEAN
      BY DEF Unclear, NoWishes
  <2> QED
      BY <2>3, <2>4, <2>5, <2>6 DEF IsIntent
<1>4. IsIntent(Refined(m, previous)) /\ ~Refined(m, previous).ambiguous
  <2> DEFINE i == Refined(m, previous)
  <2>1. /\ i.quantity = Either(m.quantity, previous.quantity)
        /\ i.budgetMax = Either(m.budgetMax, Kept(previous.budgetMax))
        /\ i.budgetMin = Either(m.budgetMin, Kept(previous.budgetMin))
        /\ i.specs = (IF DOMAIN m.specs # {} \/ m.soft THEN m.specs ELSE previous.specs)
        /\ i.requireStock = ~m.anyAvailability
        /\ i.objective = (IF m.objective = "BEST_VALUE" THEN previous.objective ELSE m.objective)
        /\ i.ambiguous = FALSE
      BY DEF Refined
  <2> HIDE DEF i
  <2>2. i.quantity \in Nat \ {0} /\ i.budgetMax \in Int \union {None}
        /\ i.budgetMin \in Int \union {None}
      BY <1>1, <2>1 DEF Either, Kept, IsIntent
  <2>3. Demands(i.specs)
      BY <1>1, <2>1 DEF IsIntent
  <2>4. i.requireStock \in BOOLEAN /\ i.ambiguous \in BOOLEAN /\ i.objective \in Objectives
      BY <1>1, <2>1 DEF IsIntent
  <2> QED
      BY <2>1, <2>2, <2>3, <2>4 DEF IsIntent, i
<1> QED
    BY <1>1, <1>2, <1>3, <1>4

LEMMA NoWishesFits == IsIntent(NoWishes) /\ ~NoWishes.ambiguous
<1>1. Demands(<<>>)
    BY DEF Demands
<1> QED
    BY <1>1 DEF NoWishes, IsIntent, Objectives

\* The merchants asked are those named, or some of the list, each once.
LEMMA AskedOnce ==
    ASSUME NEW i, NEW named \in Named \union {<<>>}
    PROVE  /\ Asked(i, named) \in Seq(Merchants)
           /\ \A n, m \in DOMAIN Asked(i, named) :
                Asked(i, named)[n] = Asked(i, named)[m] => n = m
<1>13. CASE named # <<>>
  <2>1. Asked(i, named) = named /\ named \in Named
      BY <1>13 DEF Asked
  <2> QED
      BY <2>1, OrderAssumption
<1> SUFFICES ASSUME named = <<>>
             PROVE  /\ Asked(i, named) \in Seq(Merchants)
                    /\ \A n, m \in DOMAIN Asked(i, named) :
                         Asked(i, named)[n] = Asked(i, named)[m] => n = m
    BY <1>13
<1> DEFINE k == Len(MerchantOrder)
           chosen == Targets(i)
           Next1(g, n) == IF n = 0 THEN <<>>
                          ELSE IF MerchantOrder[n] \in chosen
                               THEN Append(g[n - 1], MerchantOrder[n])
                          ELSE g[n - 1]
           R(g, m) == g = [n \in 0 .. m |-> Next1(g, n)]
           Has(m) == \E g : R(g, m)
           Q == {m \in Nat : m <= k => Has(m)}
<1>1. /\ k \in Nat /\ \A n \in 1 .. k : MerchantOrder[n] \in Merchants
      /\ \A n, m \in 1 .. k : MerchantOrder[n] = MerchantOrder[m] => n = m
    BY OrderAssumption
<1> HIDE DEF k, chosen
<1>2. Has(0)
  <2>1. R([n \in 0 .. 0 |-> <<>>], 0)
      OBVIOUS
  <2> QED
      BY <2>1
<1>3. ASSUME NEW m \in Nat, Has(m) PROVE Has(m + 1)
  <2>1. PICK g : R(g, m)
      BY <1>3
  <2> DEFINE h == [n \in 0 .. m + 1 |-> Next1(g, n)]
  <2>2. \A n \in 0 .. m : h[n] = g[n]
    <3>1. \A n \in 0 .. m : n \in 0 .. m + 1
        OBVIOUS
    <3> QED
        BY <2>1, <3>1
  <2>3. \A n \in 0 .. m + 1 : n # 0 => h[n - 1] = g[n - 1]
    <3>1. \A n \in 0 .. m + 1 : n # 0 => n - 1 \in 0 .. m
        OBVIOUS
    <3> QED
        BY <2>2, <3>1
  <2>4. h = [n \in 0 .. m + 1 |-> Next1(h, n)]
      BY <2>3
  <2> HIDE DEF h
  <2> QED
      BY <2>4
<1> HIDE DEF Has
<1>4. 0 \in Q /\ \A m \in Nat : m \in Q => m + 1 \in Q
  <2>1. ASSUME NEW m \in Nat, m \in Q PROVE m + 1 \in Q
    <3>1. m + 1 \in Nat /\ (m + 1 <= k => m <= k)
        BY <1>1
    <3> QED
        BY <1>3, <2>1, <3>1
  <2> QED
      BY <1>2, <2>1
<1> HIDE DEF Q
<1>5. Has(k)
  <2>1. k \in Q
      BY <1>1, <1>4, CountingUp
  <2> QED
      BY <1>1, <2>1 DEF Q
<1>6. PICK g : R(g, k)
    BY <1>5 DEF Has
<1> DEFINE f == CHOOSE h : R(h, k)
<1>7. Asked(i, named) = f[k]
    BY DEF Asked, k, chosen
<1>8. R(f, k)
  <2> HIDE DEF R
  <2> QED
      BY <1>6
<1> HIDE DEF f
<1> DEFINE Listed(q, m) == \A n \in 1 .. Len(q) : \E l \in 1 .. m : q[n] = MerchantOrder[l]
           Once(q) == \A n, l \in 1 .. Len(q) : q[n] = q[l] => n = l
           T == {m \in Nat : m <= k =>
                   f[m] \in Seq(Merchants) /\ Listed(f[m], m) /\ Once(f[m])}
<1>9. 0 \in T
  <2>1. f[0] = <<>>
      BY <1>1, <1>8
  <2>2. <<>> \in Seq(Merchants) /\ 1 .. Len(<<>>) = {}
      OBVIOUS
  <2>3. f[0] \in Seq(Merchants) /\ 1 .. Len(f[0]) = {}
      BY <2>1, <2>2
  <2>4. Listed(f[0], 0) /\ Once(f[0])
      BY <2>3
  <2> QED
      BY <2>3, <2>4
<1>10. ASSUME NEW m \in Nat, m \in T PROVE m + 1 \in T
  <2> SUFFICES ASSUME m + 1 <= k
               PROVE  f[m + 1] \in Seq(Merchants) /\ Listed(f[m + 1], m + 1) /\ Once(f[m + 1])
      OBVIOUS
  <2>1. m + 1 \in 0 .. k /\ m + 1 \in 1 .. k /\ m <= k /\ (m + 1) - 1 = m /\ m + 1 # 0
      BY <1>1
  <2>2. PICK q \in Seq(Merchants) : q = f[m] /\ Listed(q, m) /\ Once(q)
      BY <1>10, <2>1
  <2>3. PICK x \in Merchants : x = MerchantOrder[m + 1]
      BY <1>1, <2>1
  <2>4. f[m + 1] = q \/ f[m + 1] = Append(q, x)
    <3>1. f[m + 1] = IF MerchantOrder[m + 1] \in chosen
                     THEN Append(f[m], MerchantOrder[m + 1]) ELSE f[m]
        BY <1>8, <2>1
    <3> QED
        BY <2>2, <2>3, <3>1
  <2>5. \A l \in 1 .. m : l \in 1 .. k /\ l \in 1 .. m + 1 /\ l # m + 1
      BY <1>1, <2>1
  <2>6. CASE f[m + 1] = q
      BY <2>2, <2>5, <2>6
  <2>7. CASE f[m + 1] = Append(q, x)
    <3> DEFINE z == Append(q, x)
    <3>1. /\ z \in Seq(Merchants) /\ Len(q) \in Nat /\ Len(z) = Len(q) + 1
          /\ z[Len(q) + 1] = x /\ \A n \in 1 .. Len(q) : z[n] = q[n]
        BY <2>2
    <3> HIDE DEF z
    <3>2. \A n \in 1 .. Len(z) : n \in 1 .. Len(q) \/ n = Len(q) + 1
        BY <3>1
    <3>3. \A n \in 1 .. Len(q) : q[n] # x
        BY <1>1, <2>1, <2>2, <2>3, <2>5
    <3>4. m + 1 \in 1 .. m + 1
        OBVIOUS
    <3>5. Listed(z, m + 1)
        BY <2>2, <2>3, <2>5, <3>1, <3>2, <3>4
    <3>6. Once(z)
      <4>1. ASSUME NEW n \in 1 .. Len(z), NEW l \in 1 .. Len(z), z[n] = z[l] PROVE n = l
        <5>1. CASE n \in 1 .. Len(q) /\ l \in 1 .. Len(q)
          <6>1. q[n] = q[l]
              BY <3>1, <4>1, <5>1
          <6> QED
              BY <2>2, <5>1, <6>1
        <5>2. CASE n \in 1 .. Len(q) /\ l = Len(q) + 1
            BY <3>1, <3>3, <4>1, <5>2
        <5>3. CASE n = Len(q) + 1 /\ l \in 1 .. Len(q)
            BY <3>1, <3>3, <4>1, <5>3
        <5>4. CASE n = Len(q) + 1 /\ l = Len(q) + 1
            BY <5>4
        <5> QED
            BY <3>2, <5>1, <5>2, <5>3, <5>4
      <4> QED
          BY <4>1
    <3> QED
        BY <2>7, <3>1, <3>5, <3>6, SMTT(30) DEF z
  <2> QED
      BY <2>4, <2>6, <2>7
<1> HIDE DEF T
<1>11. k \in T
    BY <1>1, <1>9, <1>10, CountingUp
<1>12. Asked(i, named) \in Seq(Merchants) /\ Once(Asked(i, named))
    BY <1>1, <1>7, <1>11 DEF T
<1> QED
    BY <1>12

\* A hard constraint is met or violated as Fits says.
LEMMA SpecificationMatters ==
    ASSUME NEW p \in Products, NEW c, c.specs = Listing[p].specs,
           NEW specs, Demands(specs), NEW key \in DOMAIN specs
    PROVE  Specification(c, key, specs[key]) = {} <=> Fits(specs[key], key, Listing[p].specs)
<1> DEFINE x == specs[key]
           d == Listing[p].specs
<1>1. /\ x.hard
      /\ \/ key \in {"ram_gb", "ssd_gb"} /\ x.target \in Nat
         \/ key = "gpu" /\ x.target.family \in {"any", "rtx"} /\ x.target.number \in Nat
         \/ key = "chip" /\ x.operator = "CONTAINS"
    BY DEF Demands
<1>2. /\ \A k \in {"ram_gb", "ssd_gb"} \intersect DOMAIN d : d[k] \in Int \union {Garbled}
      /\ "gpu" \in DOMAIN d => d["gpu"].number \in Nat /\ d["gpu"] # Garbled
    BY DiscoveryAssumption DEF Specifications
<1> HIDE DEF x, d
<1>3. CASE key \in {"ram_gb", "ssd_gb"} /\ x.target \in Nat
  <2>1. \A code : AtLeast(c, key, x.target, code) = {}
                  <=> key \in DOMAIN d /\ d[key] # Garbled /\ d[key] >= x.target
      BY <1>2, <1>3 DEF AtLeast, Flag, d
  <2>2. \E code : Specification(c, key, x) = AtLeast(c, key, x.target, code)
    <3>1. CASE key = "ram_gb"
        BY <1>1, <3>1 DEF Specification
    <3>2. CASE key = "ssd_gb"
        BY <1>1, <3>2 DEF Specification
    <3> QED
        BY <1>3, <3>1, <3>2
  <2>3. Fits(x, key, d) <=> key \in DOMAIN d /\ d[key] # Garbled /\ d[key] >= x.target
      BY <1>3 DEF Fits
  <2> QED
      BY <2>1, <2>2, <2>3 DEF x, d
<1>4. CASE key = "gpu" /\ x.target.family \in {"any", "rtx"} /\ x.target.number \in Nat
  <2>1. Specification(c, key, x) = Gpu(c, x.target)
      BY <1>1, <1>4 DEF Specification
  <2>2. Gpu(c, x.target) = {} <=> "gpu" \in DOMAIN d /\ GpuSatisfies(d["gpu"], x.target)
      BY DEF Gpu, Flag, d
  <2>3. CASE x.target.family = "any"
    <3>1. GpuSatisfies(d["gpu"], x.target) <=> d["gpu"].number = x.target.number
        BY <2>3 DEF GpuSatisfies
    <3>2. Fits(x, key, d) <=> "gpu" \in DOMAIN d /\ d["gpu"].number = x.target.number
        BY <1>2, <1>4, <2>3 DEF Fits
    <3> QED
        BY <2>1, <2>2, <3>1, <3>2 DEF x, d
  <2>4. CASE x.target.family = "rtx"
    <3>1. GpuSatisfies(d["gpu"], x.target)
            <=> d["gpu"].family = "rtx" /\ d["gpu"].number >= x.target.number
        BY <2>4 DEF GpuSatisfies
    <3>2. Fits(x, key, d) <=> "gpu" \in DOMAIN d /\ d["gpu"].family = "rtx"
                                                  /\ d["gpu"].number >= x.target.number
        BY <1>2, <1>4, <2>4 DEF Fits
    <3> QED
        BY <2>1, <2>2, <3>1, <3>2 DEF x, d
  <2> QED
      BY <1>4, <2>3, <2>4
<1>5. CASE key = "chip" /\ x.operator = "CONTAINS"
  <2>1. Specification(c, key, x) = Generic(c, key, x)
      BY <1>1, <1>5 DEF Specification
  <2>2. Generic(c, key, x) = {} <=> key \in DOMAIN d /\ Holds(d[key], x)
      BY DEF Generic, Flag, d
  <2>3. Holds(d[key], x) <=> d[key] # Garbled /\ x.target \in d[key]
      BY <1>5 DEF Holds
  <2>4. Fits(x, key, d) <=> key \in DOMAIN d /\ d[key] # Garbled /\ x.target \in d[key]
      BY <1>5 DEF Fits
  <2> QED
      BY <2>1, <2>2, <2>3, <2>4 DEF x, d
<1> QED
    BY <1>1, <1>3, <1>4, <1>5

\* The filter keeps what met every hard constraint, and of what the graph and
\* /discover found it drops nothing else.
LEMMA FilterDecides ==
    ASSUME NEW p \in Products, NEW v \in Shelves[p], v.active, v.price >= 0,
           NEW c \in {OfSummary(Row(p, v)), OfDetail(Row(p, v))},
           NEW i, IsIntent(i), NEW kind
    PROVE  /\ (kind # "query" /\ i.requireStock => Quantity(Row(p, v)) > 0) =>
                (evaluate_candidate(c, i) = {} => Eligible(i, p, v, kind))
           /\ kind # "query" =>
                (evaluate_candidate(c, i) # {} => ~Eligible(i, p, v, kind))
<1>1. /\ IsCandidate(c) /\ c.price = v.price
      /\ c.specs = Listing[p].specs /\ c.words = Listing[p].words
      /\ c.quantity = (IF v.stock = None THEN 0 ELSE v.stock.quantity)
      /\ c.state = (IF v.stock = None THEN "IN_STOCK" ELSE v.stock.state)
      /\ c.inStock <=> /\ c.state # "OUT_OF_STOCK"
                       /\ c.quantity > 0 \/ c.state = "IN_STOCK"
    BY CandidatesFit
<1>2. /\ v.price \in Int
      /\ v.stock # None => v.stock.quantity \in Nat
                           /\ v.stock.state = compute_state(v.stock.quantity)
    BY ShelvesAssumption
<1> DEFINE units == IF v.stock = None THEN 0 ELSE v.stock.quantity
<1>3. units \in Nat /\ c.quantity = units
    BY <1>1, <1>2
<1>4. Quantity(Row(p, v)) = units
  <2>1. Row(p, v).stock = v.stock
      BY DEF Row
  <2> QED
      BY <2>1 DEF Quantity
<1>5. v.stock # None => /\ v.stock.state = "OUT_OF_STOCK" <=> units = 0
                        /\ v.stock.state = "IN_STOCK" => units > 0
    BY <1>2 DEF compute_state
<1> HIDE DEF units
<1>6. evaluate_candidate(c, i) = {} <=>
        /\ Availability(c, i) = {} /\ Budget(c, i) = {} /\ Words(c, i) = {}
        /\ \A key \in DOMAIN i.specs : Specification(c, key, i.specs[key]) = {}
  <2> DEFINE U == UNION {Specification(c, key, i.specs[key]) : key \in DOMAIN i.specs}
             F == Flag(c.price < 0, "INVALID_PRODUCT_DATA")
  <2>1. F = {}
      BY <1>1, <1>2 DEF Flag
  <2>2. U = {} <=> \A key \in DOMAIN i.specs : Specification(c, key, i.specs[key]) = {}
      OBVIOUS
  <2>3. evaluate_candidate(c, i)
          = F \union Availability(c, i) \union Budget(c, i) \union U \union Words(c, i)
      BY DEF evaluate_candidate
  <2> HIDE DEF U, F
  <2>4. evaluate_candidate(c, i) = {} <=>
          Availability(c, i) = {} /\ Budget(c, i) = {} /\ U = {} /\ Words(c, i) = {}
      BY <2>1, <2>3
  <2> QED
      BY <2>2, <2>4
<1>7. Budget(c, i) = {} <=> /\ i.budgetMax # None => v.price <= i.budgetMax
                            /\ i.budgetMin # None => v.price >= i.budgetMin
    BY <1>1, <1>2 DEF Budget, Flag, IsIntent
<1>8. Words(c, i) = {} <=> /\ i.keywords \subseteq Listing[p].words
                           /\ i.exclusions \intersect Listing[p].words = {}
  <2>1. Words(c, i) = {} <=> /\ i.keywords \subseteq c.words
                             /\ i.exclusions \intersect c.words = {}
      BY DEF Words, Flag
  <2> QED
      BY <1>1, <2>1
<1>9. (\A key \in DOMAIN i.specs : Specification(c, key, i.specs[key]) = {})
        <=> \A key \in DOMAIN i.specs : Fits(i.specs[key], key, Listing[p].specs)
  <2>1. Demands(i.specs)
      BY DEF IsIntent
  <2> QED
      BY <1>1, <2>1, SpecificationMatters
<1>10. Availability(c, i) = {} <=>
         i.requireStock => /\ c.inStock /\ c.state # "OUT_OF_STOCK"
                           /\ i.quantity > 1 => units >= i.quantity
  <2>1. i.quantity \in Nat /\ i.requireStock \in BOOLEAN /\ c.inStock \in BOOLEAN
      BY <1>1 DEF IsIntent, IsCandidate
  <2> QED
      BY <1>3, <2>1 DEF Availability, Flag
<1>11. Availability(c, i) # {} <=>
         /\ i.requireStock
         /\ \/ ~c.inStock \/ c.state = "OUT_OF_STOCK"
            \/ i.quantity > 1 /\ ~(units >= i.quantity)
  <2>1. i.quantity \in Nat /\ i.requireStock \in BOOLEAN /\ c.inStock \in BOOLEAN
      BY <1>1 DEF IsIntent, IsCandidate
  <2> QED
      BY <1>3, <2>1 DEF Availability, Flag
<1>12. Supplied(i, v, kind) <=>
         \/ ~i.requireStock \/ units >= i.quantity
         \/ kind = "query" /\ i.quantity = 1 /\ (v.stock = None \/ v.stock.state = "IN_STOCK")
    BY DEF Supplied, units
<1>13. (kind # "query" /\ i.requireStock => units > 0) =>
         (Availability(c, i) = {} => Supplied(i, v, kind))
  <2> SUFFICES ASSUME i.requireStock, kind # "query" => units > 0,
                      c.inStock, i.quantity > 1 => units >= i.quantity
               PROVE  \/ units >= i.quantity
                      \/ /\ kind = "query" /\ i.quantity = 1
                         /\ v.stock = None \/ v.stock.state = "IN_STOCK"
      BY <1>10, <1>12
  <2>1. i.quantity \in Nat \ {0}
      BY DEF IsIntent
  <2>2. c.quantity > 0 \/ c.state = "IN_STOCK"
      BY <1>1
  <2>3. CASE i.quantity > 1
      BY <2>3
  <2>4. CASE i.quantity = 1 /\ units > 0
      BY <1>3, <2>4
  <2>5. CASE i.quantity = 1 /\ units = 0
      BY <1>1, <1>3, <2>2, <2>5
  <2> QED
      BY <1>3, <2>1, <2>3, <2>4, <2>5
<1>14. kind # "query" => (Availability(c, i) # {} => ~Supplied(i, v, kind))
  <2> SUFFICES ASSUME kind # "query", Availability(c, i) # {}
               PROVE  ~Supplied(i, v, kind)
      OBVIOUS
  <2>0. /\ i.requireStock
        /\ \/ ~c.inStock \/ c.state = "OUT_OF_STOCK"
           \/ i.quantity > 1 /\ ~(units >= i.quantity)
      BY <1>11
  <2>1. i.quantity \in Nat \ {0}
      BY DEF IsIntent
  <2>2. SUFFICES ~(units >= i.quantity)
      BY <1>12, <2>0
  <2>3. CASE ~c.inStock \/ c.state = "OUT_OF_STOCK"
    <3>1. v.stock # None
      <4>1. c.state = "OUT_OF_STOCK" \/ c.state # "IN_STOCK"
          BY <1>1, <2>3
      <4> QED
          BY <1>1, <4>1
    <3>2. units = 0
      <4>1. c.state = "OUT_OF_STOCK" \/ ~(units > 0)
          BY <1>1, <1>3, <2>3
      <4>2. c.state = v.stock.state
          BY <1>1, <3>1
      <4> QED
          BY <1>3, <1>5, <3>1, <4>1, <4>2
    <3> QED
        BY <2>1, <3>2
  <2> QED
      BY <2>0, <2>3
<1>15. Eligible(i, p, v, kind) <=>
         /\ Supplied(i, v, kind) /\ Budget(c, i) = {} /\ Words(c, i) = {}
         /\ \A key \in DOMAIN i.specs : Specification(c, key, i.specs[key]) = {}
    BY <1>7, <1>8, <1>9 DEF Eligible
<1> QED
    BY <1>4, <1>6, <1>13, <1>14, <1>15

-----------------------------------------------------------------------------
(* Rankings and recommendations                                            *)

Fair(r) ==
    \A n \in DOMAIN r : \A m \in n + 1 .. Len(r) :
        ~( /\ Dominates(r[m].candidate, r[n].candidate)
           /\ r[m].score.specification >= r[n].score.specification
           /\ r[m].score.discount >= r[n].score.discount )

\* A ranking names some of the products, each with a price it can have, and
\* leaves out only those with another.
LEMMA RankingFits ==
    ASSUME NEW P, IsChoice(P), NEW i, IsIntent(i), NEW r, r = rank_products(P, i)
    PROVE  /\ r \in Seq(ScoreRows) /\ r # None
           /\ \A x \in Elements(r) : x # None /\ x.candidate \in P
           /\ IsPool(Elements(r))
           /\ r = <<>> => \A c \in P : ~(c.price >= 0)
           /\ Fair(r)
<1> DEFINE S == ScoredAll(P, i)
           k == Cardinality(S)
<1>1. /\ IsPool(S)
      /\ \A x \in S : x \in ScoreRows /\ x.candidate \in P
      /\ \A c \in P : c.price >= 0 => \E x \in S : x.candidate = c
    BY ScoredAllIsPool
<1>2. PICK low \in Int, high \in Int : \A x \in S :
        /\ x = Scored(x.candidate, i, low, high)
        /\ low <= x.candidate.price /\ x.candidate.price <= high
    BY ScoredAllIsPool
<1>3. r = Sorted(S, OverallKey)
    BY DEF rank_products
<1> HIDE DEF S
<1>4. /\ k \in Nat /\ r \in [1 .. k -> S]
      /\ \A n, m \in DOMAIN r : n < m => ~Less(OverallKey(r[m]), OverallKey(r[n]))
    BY <1>1, <1>3, SortedPool
<1> HIDE DEF k
<1>5. r \in Seq(S) /\ Len(r) = k /\ DOMAIN r = 1 .. k
    BY <1>4
<1>6. r \in Seq(ScoreRows) /\ r # None
  <2>1. r \in [1 .. k -> ScoreRows]
      BY <1>1, <1>4
  <2>2. r \in Seq(ScoreRows)
      BY <1>4, <2>1
  <2> QED
      BY <2>2, NoneAssumption
<1>7. Elements(r) \in SUBSET S
    BY <1>4 DEF Elements
<1>8. \A x \in Elements(r) : x # None /\ x.candidate \in P
    BY <1>1, <1>7, NoneAssumption
<1>9. IsPool(Elements(r))
    BY <1>1, <1>7, PartOfPool
<1>10. ASSUME r = <<>>, NEW c \in P, c.price >= 0 PROVE FALSE
  <2>1. k = 0
      BY <1>5, <1>10
  <2>2. S = {}
      BY <1>1, <2>1, FS_EmptySet DEF k, IsPool
  <2> QED
      BY <1>1, <1>10, <2>2
<1>11. ASSUME NEW n \in DOMAIN r, NEW m \in n + 1 .. Len(r),
              Dominates(r[m].candidate, r[n].candidate),
              r[m].score.specification >= r[n].score.specification,
              r[m].score.discount >= r[n].score.discount
       PROVE  FALSE
  <2>1. n \in 1 .. k /\ m \in 1 .. k /\ n < m
      BY <1>4, <1>5
  <2>2. PICK x \in S, y \in S : x = r[n] /\ y = r[m]
      BY <1>4, <2>1
  <2>3. x.candidate \in P /\ y.candidate \in P
      BY <1>1
  <2>4. IsCandidate(x.candidate) /\ IsCandidate(y.candidate)
      BY <2>3 DEF IsChoice
  <2>5. /\ x = Scored(x.candidate, i, low, high) /\ y = Scored(y.candidate, i, low, high)
        /\ low <= x.candidate.price /\ x.candidate.price <= high
        /\ low <= y.candidate.price /\ y.candidate.price <= high
      BY <1>2
  <2>6. PICK c, d : c = y.candidate /\ d = x.candidate
      OBVIOUS
  <2>7. /\ Dominates(c, d) /\ y.score.specification >= x.score.specification
        /\ y.score.discount >= x.score.discount
      BY <1>11, <2>2, <2>6
  <2>8. /\ IsCandidate(c) /\ IsCandidate(d)
        /\ y = Scored(c, i, low, high) /\ x = Scored(d, i, low, high)
        /\ low <= c.price /\ c.price <= high /\ low <= d.price /\ d.price <= high
      BY <2>4, <2>5, <2>6
  <2>9. Less(OverallKey(y), OverallKey(x))
      BY <2>7, <2>8, DominatingIsLess
  <2> QED
      BY <1>4, <2>1, <2>2, <2>9
<1>12. Fair(r)
    BY <1>11 DEF Fair
<1> QED
    BY <1>6, <1>8, <1>9, <1>10, <1>12

\* What is recommended was ranked; nothing is only of an empty ranking.
LEMMA AdviceFits ==
    ASSUME NEW s, NEW r, s.ranked = r, r \in Seq(ScoreRows), r # None,
           IsPool(Elements(r)), \A x \in Elements(r) : x # None,
           NEW a, a = build_recommendation_result(s)
    PROVE  /\ Picks(a) \subseteq Elements(r)
           /\ a.top = None <=> r = <<>>
<1>1. CASE r = <<>>
  <2>1. a = NoAdvice
      BY <1>1 DEF build_recommendation_result
  <2>2. a.top = None /\ a.value = None /\ a.fastest = None /\ a.others = <<>>
      BY <2>1 DEF NoAdvice
  <2> QED
      BY <1>1, <2>2 DEF Picks, Elements
<1>2. CASE r # <<>>
  <2> DEFINE E == Elements(r)
             fastest == FastestDelivery(r)
             last == IF s.kind = "query" \/ Len(r) < 6 THEN Len(r) ELSE 6
  <2>1. a = [top |-> r[1], value |-> BestValue(r),
             fastest |-> IF fastest = None /\ s.kind = "query" THEN r[1] ELSE fastest,
             others |-> SubSeq(r, 2, last), authorization |-> TRUE]
      BY <1>2 DEF build_recommendation_result
  <2>2. Len(r) \in Nat \ {0} /\ DOMAIN r = 1 .. Len(r)
      BY <1>2
  <2>3. r[1] \in E
      BY <2>2 DEF Elements
  <2> HIDE DEF E
  <2>4. BestValue(r) \in E
      BY <2>3, FirstsOfPool DEF BestValue, E
  <2>5. fastest = None \/ fastest \in E
    <3> DEFINE known == {x \in E : x.candidate.days > 0}
    <3>1. known \in SUBSET E
        OBVIOUS
    <3>2. IsPool(known)
        BY <3>1, PartOfPool DEF E
    <3>3. fastest = IF known = {} THEN None ELSE FirstBy(known, DeliveryKey)
        BY DEF FastestDelivery, E
    <3> HIDE DEF known, fastest
    <3>4. known # {} => FirstBy(known, DeliveryKey) \in known
        BY <3>2, FirstsOfPool
    <3> QED
        BY <3>1, <3>3, <3>4
  <2> HIDE DEF fastest
  <2>6. Elements(SubSeq(r, 2, last)) \subseteq E
    <3>1. last \in Nat /\ last <= Len(r)
        BY <2>2
    <3> HIDE DEF last
    <3>2. ASSUME NEW n \in DOMAIN SubSeq(r, 2, last) PROVE SubSeq(r, 2, last)[n] \in E
      <4>1. n \in 1 .. last - 1 /\ SubSeq(r, 2, last)[n] = r[n + 1]
          BY <2>2, <3>1, <3>2
      <4>2. n + 1 \in DOMAIN r
          BY <2>2, <3>1, <4>1
      <4> QED
          BY <4>1, <4>2 DEF E, Elements
    <3> QED
        BY <3>2 DEF Elements
  <2> HIDE DEF last
  <2>7. /\ a.top = r[1] /\ a.value = BestValue(r) /\ a.others = SubSeq(r, 2, last)
        /\ a.fastest \in {r[1], fastest}
    <3>1. PICK t, b, f, o :
            /\ t = r[1] /\ b = BestValue(r) /\ o = SubSeq(r, 2, last)
            /\ f = IF fastest = None /\ s.kind = "query" THEN r[1] ELSE fastest
        OBVIOUS
    <3>2. a = [top |-> t, value |-> b, fastest |-> f, others |-> o, authorization |-> TRUE]
        BY <2>1, <3>1
    <3>3. a.top = t /\ a.value = b /\ a.fastest = f /\ a.others = o
        BY <3>2
    <3> QED
        BY <3>1, <3>3
  <2>8. a.top # None
      BY <2>3, <2>7 DEF E
  <2>9. Picks(a) \subseteq E
      BY <2>3, <2>4, <2>5, <2>6, <2>7 DEF Picks
  <2> QED
      BY <1>2, <2>8, <2>9 DEF E
<1> QED
    BY <1>1, <1>2

-----------------------------------------------------------------------------
(* The invariant of a run.  h is the history of the catalogue, past.       *)

Fields ==
    {"kind", "stage", "intent", "status", "plan", "done", "planStatus", "pending", "answered",
     "down", "retries", "products", "ranked", "advice", "errors", "result"}

Early == {"discover", "search", "details", "filter", "rank"}
Late  == {"recommend", "answer", "answered"}

\* The versions of a product that a candidate of it may have been read from.
Origins(c, h, i, kind) ==
    {v \in h[c.id] :
        /\ v.active /\ v.price >= 0
        /\ c \in {OfSummary(Row(c.id, v)), OfDetail(Row(c.id, v))}
        /\ kind # "query" /\ i.requireStock => Quantity(Row(c.id, v)) > 0}

\* A candidate with a version of its product that met every hard constraint.
Fit(c, h, i, kind) == \E v \in h[c.id] : v.price = c.price /\ Eligible(i, c.id, v, kind)

HistoryOK(h) == \A p \in Products : h[p] \subseteq Shelves[p]

\* A run's products were read from the catalogue, each once.
ProductsOK(s, h) ==
    /\ IsChoice(s.products)
    /\ \A c \in s.products : c.id \in Products /\ Origins(c, h, s.intent, s.kind) # {}

\* Of the products of the merchants that answered none is missing but for a
\* reason.
NoneMissing(s, h) ==
    s.kind \in Graph =>
        \A p \in Products :
            \/ Listing[p].merchant \notin s.answered
            \/ CutOff(p, s.intent, h) \/ Refused(p)
            \/ \E v \in h[p] : ~Eligible(s.intent, p, v, s.kind)
            \/ \E c \in s.products : c.id = p

\* No merchant is asked twice, and no row read twice.
MerchantsOK(s) ==
    /\ s.kind # "query" => \A c \in s.products : c.merchant \in s.answered
    /\ s.stage = "discover" =>
        /\ s.kind # "query" /\ s.pending \in Seq(Merchants)
        /\ \A n \in DOMAIN s.pending : s.pending[n] \notin s.answered
        /\ \A n, m \in DOMAIN s.pending : s.pending[n] = s.pending[m] => n = m

\* The rows that a search may have returned.
ActiveRows(h) == UNION {{Row(p, v) : v \in {w \in h[p] : w.active}} : p \in Products}

DetailsOK(s, h) ==
    /\ s.stage \in {"search", "details"} => s.kind = "query"
    /\ s.stage = "search" => s.products = {}
    /\ s.stage = "details" =>
        /\ s.pending \in Seq(ActiveRows(h))
        /\ \A n \in DOMAIN s.pending : \A c \in s.products : c.id # s.pending[n].id
        /\ \A n, m \in DOMAIN s.pending : s.pending[n].id = s.pending[m].id => n = m

\* What was ranked and is recommended, was filtered.
FilteredOK(s, h) ==
    s.stage \in {"rank", "recommend", "answer"} \/ s.ranked # None \/ s.advice # None =>
        \/ "CONSTRAINT_FILTER_FAILED" \in s.errors
        \/ \A c \in s.products : Fit(c, h, s.intent, s.kind)

RankedOK(s) ==
    /\ s.stage \in Early => s.ranked = None
    /\ s.ranked # None => s.ranked = rank_products(s.products, s.intent)
    /\ s.advice \in {None, build_recommendation_result(s)}
    /\ s.stage \in Early \union {"recommend"} => s.advice = None

Fatal == {"INTENT_INVALID", "DISCOVERY_FAILED"}

\* A run of the graph that neither failed nor asks back: its plan.
SearchOK(s) ==
    /\ s.plan = Steps
    /\ s.stage \in (Early \union Late) \ {"discover"} => {"DISCOVER", "NORMALIZE"} \subseteq s.done
    /\ s.stage \in {"rank"} \union Late =>
         "APPLY_CONSTRAINTS" \in s.done \/ "CONSTRAINT_FILTER_FAILED" \in s.errors
    /\ s.stage \in Late =>
         \/ "RANK" \in s.done /\ s.ranked = rank_products(s.products, s.intent)
         \/ "RANKING_FAILED" \in s.errors
    /\ s.stage \in {"answer", "answered"} =>
         "RECOMMEND" \in s.done \/ "RECOMMENDATION_FAILED" \in s.errors

StatusOK(s) ==
    s.kind \in Graph =>
        /\ (s.status = "CLARIFICATION_REQUIRED") <=> s.intent.ambiguous
        /\ (s.status = "FAILED") <=> s.errors \intersect Fatal # {}
        /\ s.status = "FAILED" => s.stage \in {"answer", "answered"}
        /\ s.intent.ambiguous => s.stage \in Late
        /\ s.status \in {"FAILED", "CLARIFICATION_REQUIRED"} => s.products = {} /\ s.ranked = None
        /\ s.status = "NO_MATCH" =>
             s.stage \in {"answer", "answered"} /\ build_recommendation_result(s).top = None
        /\ s.status \notin {"FAILED", "CLARIFICATION_REQUIRED"} => SearchOK(s)

ResultOK(s) ==
    /\ s.planStatus \in {"PLANNED", "COMPLETED"}
    /\ s.planStatus = "COMPLETED" =>
         /\ s.kind \in Graph /\ s.stage = "answered"
         /\ s.status \notin {"FAILED", "CLARIFICATION_REQUIRED"}
    /\ s.stage # "answered" => s.result = None
    /\ s.kind = "shopping" /\ s.result \notin {None, "ERROR"} =>
         s.result = FinalStatus(s) /\ s.advice = build_recommendation_result(s)
    /\ s.kind = "sessions" => s.result \in {None, s.status}
    /\ s.kind \notin Graph => s.result \in {None, "ERROR", "ANSWERED"}

RunOK(s, h) ==
    /\ DOMAIN s = Fields
    /\ s.kind \in Graph \union {"query", "client"} /\ s.stage \in Early \union Late
    /\ IsIntent(s.intent)
    /\ ProductsOK(s, h) /\ NoneMissing(s, h) /\ MerchantsOK(s) /\ DetailsOK(s, h)
    /\ FilteredOK(s, h) /\ RankedOK(s) /\ StatusOK(s) /\ ResultOK(s)

AgentInv ==
    /\ IsIntent(talk.intent)
    /\ DOMAIN shelf = Products
    /\ \A p \in Products : shelf[p] \in Shelves[p]
    /\ DOMAIN past = Products /\ HistoryOK(past)
    /\ run # None => /\ \A p \in Products : shelf[p] \in past[p]
                     /\ RunOK(run, past)

\* A run that has no products yet.
LEMMA EmptyRun ==
    ASSUME NEW s, NEW h, DOMAIN s = Fields,
           s.kind \in Graph \union {"query", "client"}, s.stage \in Early \union Late,
           IsIntent(s.intent), s.products = {}, s.answered = {}, s.ranked = None,
           s.advice \in {None, NoAdvice},
           s.stage \in Early \union {"recommend"} => s.advice = None,
           MerchantsOK(s), DetailsOK(s, h), StatusOK(s), ResultOK(s)
    PROVE  RunOK(s, h)
<1>1. ProductsOK(s, h)
    BY FS_EmptySet DEF ProductsOK, IsChoice
<1>2. NoneMissing(s, h)
    BY DEF NoneMissing
<1>3. FilteredOK(s, h)
    BY DEF FilteredOK
<1>4. RankedOK(s)
    BY DEF RankedOK, build_recommendation_result
<1> QED
    BY <1>1, <1>2, <1>3, <1>4 DEF RunOK

LEMMA NothingAdvised == NoAdvice.top = None
BY DEF NoAdvice

LEMMA InitialState ==
    ASSUME NEW kind, NEW s, s = create_initial_state(kind)
    PROVE  /\ DOMAIN s = Fields
           /\ s.kind = kind /\ s.stage = "discover" /\ s.intent = NoWishes
           /\ s.status = "PENDING" /\ s.plan = <<>> /\ s.done = {}
           /\ s.planStatus = "PLANNED" /\ s.pending = <<>> /\ s.answered = {}
           /\ s.products = {} /\ s.ranked = None /\ s.advice = None
           /\ s.errors = {} /\ s.result = None
BY DEF create_initial_state, Fields

\* What starts on the routes of the graph.
LEMMA GraphStarts ==
    ASSUME NEW kind \in Graph, NEW m \in Messages, NEW h,
           NEW t, t = route_plan_node(plan_node(validate_intent_node(create_initial_state(kind), m)))
    PROVE  RunOK(t, h)
<1> DEFINE i == parse_intent(m, NoWishes)
<1>1. PICK s : s = create_initial_state(kind)
    OBVIOUS
<1>2. /\ DOMAIN s = Fields
      /\ s.kind = kind /\ s.stage = "discover" /\ s.intent = NoWishes
      /\ s.status = "PENDING" /\ s.plan = <<>> /\ s.done = {}
      /\ s.planStatus = "PLANNED" /\ s.pending = <<>> /\ s.answered = {}
      /\ s.products = {} /\ s.ranked = None /\ s.advice = None
      /\ s.errors = {} /\ s.result = None
    BY <1>1, InitialState
<1>3. kind \in {"shopping", "sessions"} /\ kind # "query"
    BY DEF Graph
<1> HIDE DEF i
<1>4. CASE i = None
  <2>1. PICK u : u = [s EXCEPT !.errors = {"INTENT_INVALID"}, !.status = "FAILED"]
      OBVIOUS
  <2>2. u = validate_intent_node(s, m)
      BY <1>4, <2>1 DEF validate_intent_node, i
  <2>3. u.status = "FAILED" /\ plan_node(u) = u
      BY <1>2, <2>1 DEF plan_node, Fields
  <2>4. t = [u EXCEPT !.stage = "answer"]
    <3>1. u.plan = <<>>
        BY <1>2, <2>1 DEF Fields
    <3>2. <<>> # Steps
      <4>1. Len(<<>>) # Len(Steps)
          BY DEF Steps
      <4> QED
          BY <4>1
    <3> QED
        BY <1>1, <2>2, <2>3, <3>1, <3>2 DEF route_plan_node
  <2>5. /\ DOMAIN t = Fields /\ t.kind = kind /\ t.stage = "answer" /\ t.intent = NoWishes
        /\ t.status = "FAILED" /\ t.planStatus = "PLANNED" /\ t.answered = {}
        /\ t.products = {} /\ t.ranked = None /\ t.advice = None
        /\ t.errors = {"INTENT_INVALID"} /\ t.result = None
      BY <1>2, <2>1, <2>4 DEF Fields
  <2>6. MerchantsOK(t) /\ DetailsOK(t, h)
      BY <1>3, <2>5 DEF MerchantsOK, DetailsOK
  <2>7. StatusOK(t)
      BY <1>3, <2>5, NoWishesFits DEF StatusOK, Fatal, Late
  <2>8. ResultOK(t)
      BY <1>3, <2>5 DEF ResultOK, Graph
  <2> QED
      BY <1>3, <2>5, <2>6, <2>7, <2>8, NoWishesFits, EmptyRun DEF Late, Early
<1>5. CASE i # None
  <2>1. IsIntent(i)
      BY <1>5, IntentsFit, NoWishesFits DEF i
  <2>2. PICK u : u = [s EXCEPT !.intent = i, !.status = "VALIDATED"]
      OBVIOUS
  <2>3. u = validate_intent_node(s, m)
      BY <1>5, <2>2 DEF validate_intent_node, i
  <2>4. PICK w : w = [u EXCEPT !.status = "PLANNING",
                               !.plan = IF u.intent.ambiguous THEN <<"REQUEST_CLARIFICATION">>
                                                              ELSE Steps]
      OBVIOUS
  <2>5. u.status = "VALIDATED" /\ u.intent = i /\ DOMAIN u = Fields
      BY <1>2, <2>2 DEF Fields
  <2>6. w = plan_node(u)
      BY <2>4, <2>5 DEF plan_node
  <2>7. /\ DOMAIN w = Fields /\ w.kind = kind /\ w.stage = "discover" /\ w.intent = i
        /\ w.status = "PLANNING" /\ w.planStatus = "PLANNED" /\ w.answered = {}
        /\ w.products = {} /\ w.ranked = None /\ w.advice = None
        /\ w.errors = {} /\ w.result = None
        /\ w.plan = IF i.ambiguous THEN <<"REQUEST_CLARIFICATION">> ELSE Steps
    <3>1. /\ DOMAIN u = Fields /\ u.kind = kind /\ u.stage = "discover"
          /\ u.planStatus = "PLANNED" /\ u.answered = {}
          /\ u.products = {} /\ u.ranked = None /\ u.advice = None
          /\ u.errors = {} /\ u.result = None
        BY <1>2, <2>2 DEF Fields
    <3> QED
        BY <2>4, <2>5, <3>1 DEF Fields
  <2>8. t = route_plan_node(w)
      BY <1>1, <2>3, <2>6
  <2>9. CASE i.ambiguous
    <3>1. <<"REQUEST_CLARIFICATION">> # Steps
      <4>1. Len(<<"REQUEST_CLARIFICATION">>) # Len(Steps)
          BY DEF Steps
      <4> QED
          BY <4>1
    <3>2. PICK c : c = [w EXCEPT !.status = "CLARIFICATION_REQUIRED",
                                 !.done = {"REQUEST_CLARIFICATION"}]
        OBVIOUS
    <3>3. t = [c EXCEPT !.stage = "recommend"]
        BY <2>7, <2>8, <2>9, <3>1, <3>2 DEF route_plan_node, clarification_node
    <3>4. /\ DOMAIN t = Fields /\ t.kind = kind /\ t.stage = "recommend" /\ t.intent = i
          /\ t.status = "CLARIFICATION_REQUIRED" /\ t.planStatus = "PLANNED" /\ t.answered = {}
          /\ t.products = {} /\ t.ranked = None /\ t.advice = None
          /\ t.errors = {} /\ t.result = None
        BY <2>7, <3>2, <3>3 DEF Fields
    <3>5. MerchantsOK(t) /\ DetailsOK(t, h)
        BY <1>3, <3>4 DEF MerchantsOK, DetailsOK
    <3>6. StatusOK(t)
        BY <1>3, <2>9, <3>4 DEF StatusOK, Fatal, Late
    <3>7. ResultOK(t)
        BY <1>3, <3>4 DEF ResultOK, Graph
    <3> QED
        BY <1>3, <2>1, <3>4, <3>5, <3>6, <3>7, EmptyRun DEF Late, Early
  <2>10. CASE ~i.ambiguous
    <3>1. t = [w EXCEPT !.pending = Asked(w.intent, <<>>)]
        BY <2>7, <2>8, <2>10 DEF route_plan_node
    <3>2. /\ DOMAIN t = Fields /\ t.kind = kind /\ t.stage = "discover" /\ t.intent = i
          /\ t.status = "PLANNING" /\ t.planStatus = "PLANNED" /\ t.answered = {}
          /\ t.products = {} /\ t.ranked = None /\ t.advice = None
          /\ t.errors = {} /\ t.result = None /\ t.pending = Asked(w.intent, <<>>)
          /\ t.plan = Steps
        BY <2>7, <2>10, <3>1 DEF Fields
    <3>3. MerchantsOK(t) /\ DetailsOK(t, h)
        BY <1>3, <3>2, AskedOnce DEF MerchantsOK, DetailsOK
    <3>4. StatusOK(t)
        BY <1>3, <2>10, <3>2 DEF StatusOK, SearchOK, Fatal, Late, Early
    <3>5. ResultOK(t)
        BY <1>3, <3>2 DEF ResultOK, Graph
    <3> QED
        BY <1>3, <2>1, <3>2, <3>3, <3>4, <3>5, EmptyRun DEF Late, Early
  <2> QED
      BY <2>9, <2>10
<1> QED
    BY <1>4, <1>5

\* What starts on /agent/query.
LEMMA QueryStarts ==
    ASSUME NEW m \in Messages, NEW h, NEW s, s = create_initial_state("query"),
           NEW i, i = parse_intent(m, NoWishes),
           NEW t,
           \/ i = None /\ t = Raised(s, "INTENT_INVALID", "answered")
           \/ i # None /\ i.ambiguous
              /\ t = [s EXCEPT !.intent = i, !.advice = NoAdvice,
                               !.stage = "answered", !.result = "ANSWERED"]
           \/ i # None /\ ~i.ambiguous /\ t = [s EXCEPT !.intent = i, !.stage = "search"]
    PROVE  RunOK(t, h)
<1>1. /\ DOMAIN s = Fields
      /\ s.kind = "query" /\ s.stage = "discover" /\ s.intent = NoWishes
      /\ s.planStatus = "PLANNED" /\ s.pending = <<>> /\ s.answered = {}
      /\ s.products = {} /\ s.ranked = None /\ s.advice = None
      /\ s.errors = {} /\ s.result = None
    BY InitialState
<1>2. "query" \notin Graph
    BY DEF Graph
<1>3. i # None => IsIntent(i)
    BY IntentsFit, NoWishesFits
<1>4. /\ DOMAIN t = Fields /\ t.kind = "query" /\ IsIntent(t.intent)
      /\ t.planStatus = "PLANNED" /\ t.answered = {} /\ t.products = {} /\ t.ranked = None
      /\ \/ t.stage = "answered" /\ t.advice \in {None, NoAdvice} /\ t.result \in {"ERROR", "ANSWERED"}
         \/ t.stage = "search" /\ t.advice = None /\ t.result = None
  <2>1. CASE t = [s EXCEPT !.stage = "answered", !.result = "ERROR"]
      BY <1>1, <2>1, NoWishesFits DEF Fields
  <2>2. CASE i # None /\ t = [s EXCEPT !.intent = i, !.advice = NoAdvice,
                                       !.stage = "answered", !.result = "ANSWERED"]
      BY <1>1, <1>3, <2>2 DEF Fields
  <2>3. CASE i # None /\ t = [s EXCEPT !.intent = i, !.stage = "search"]
      BY <1>1, <1>3, <2>3 DEF Fields
  <2>4. Raised(s, "INTENT_INVALID", "answered") = [s EXCEPT !.stage = "answered", !.result = "ERROR"]
      BY <1>1, <1>2 DEF Raised
  <2> QED
      BY <2>1, <2>2, <2>3, <2>4
<1>5. MerchantsOK(t) /\ DetailsOK(t, h)
    BY <1>4 DEF MerchantsOK, DetailsOK
<1>6. StatusOK(t)
    BY <1>2, <1>4 DEF StatusOK
<1>7. ResultOK(t)
    BY <1>2, <1>4 DEF ResultOK
<1> QED
    BY <1>4, <1>5, <1>6, <1>7, EmptyRun DEF Early, Late

\* What starts with a client's /agent/discover.
LEMMA ClientStarts ==
    ASSUME NEW i, IsIntent(i), NEW named \in Named, NEW h,
           NEW t, t = [create_initial_state("client") EXCEPT !.intent = i, !.pending = Asked(i, named)]
    PROVE  RunOK(t, h)
<1>1. PICK s : s = create_initial_state("client")
    OBVIOUS
<1>2. /\ DOMAIN s = Fields
      /\ s.kind = "client" /\ s.stage = "discover"
      /\ s.planStatus = "PLANNED" /\ s.answered = {}
      /\ s.products = {} /\ s.ranked = None /\ s.advice = None
      /\ s.result = None
    BY <1>1, InitialState
<1>3. t = [s EXCEPT !.intent = i, !.pending = Asked(i, named)]
    BY <1>1
<1>4. /\ DOMAIN t = Fields /\ t.kind = "client" /\ t.stage = "discover" /\ t.intent = i
      /\ t.pending = Asked(i, named) /\ t.planStatus = "PLANNED" /\ t.answered = {}
      /\ t.products = {} /\ t.ranked = None /\ t.advice = None /\ t.result = None
    BY <1>2, <1>3 DEF Fields
<1>5. "client" \notin Graph
    BY DEF Graph
<1>6. MerchantsOK(t) /\ DetailsOK(t, h)
    BY <1>4, AskedOnce DEF MerchantsOK, DetailsOK
<1>7. StatusOK(t)
    BY <1>4, <1>5 DEF StatusOK
<1>8. ResultOK(t)
    BY <1>4, <1>5 DEF ResultOK
<1> QED
    BY <1>4, <1>6, <1>7, <1>8, EmptyRun DEF Early, Late

-----------------------------------------------------------------------------
(* Reading the catalogue                                                   *)

\* What was beyond the page, remains so as the history grows.
LEMMA CutOffRemains ==
    ASSUME NEW p \in Products, NEW i, NEW h, NEW g, \A q \in Products : h[q] \subseteq g[q],
           CutOff(p, i, h)
    PROVE  CutOff(p, i, g)
<1> DEFINE Others(k, v) ==
             {q \in Products \ {p} :
                /\ Listing[q].merchant = Listing[p].merchant
                /\ \E w \in k[q] :
                      Matching({Row(q, w)}, i) # {} /\ ~Before(Row(p, v), Row(q, w))}
<1>1. PICK v \in h[p] : Cardinality(Others(h, v)) >= PageSize
    BY DEF CutOff
<1>2. v \in g[p] /\ Others(h, v) \subseteq Others(g, v) /\ Others(g, v) \subseteq Products
    OBVIOUS
<1> HIDE DEF Others
<1>3. IsFiniteSet(Others(g, v))
    BY <1>2, DiscoveryAssumption, FS_Subset
<1>4. Cardinality(Others(h, v)) <= Cardinality(Others(g, v)) /\ IsFiniteSet(Others(h, v))
    BY <1>2, <1>3, FS_Subset
<1>5. Cardinality(Others(h, v)) \in Nat /\ Cardinality(Others(g, v)) \in Nat /\ PageSize \in Nat
    BY <1>3, <1>4, FS_CardinalityType, DiscoveryAssumption
<1>6. Cardinality(Others(g, v)) >= PageSize
    BY <1>1, <1>4, <1>5
<1> QED
    BY <1>2, <1>6 DEF CutOff, Others

\* A longer history explains what a shorter one does.
LEMMA HistoryGrows ==
    ASSUME NEW s, NEW h, RunOK(s, h), NEW g, \A p \in Products : h[p] \subseteq g[p]
    PROVE  RunOK(s, g)
<1>1. \A c \in s.products : c.id \in Products
    BY DEF RunOK, ProductsOK
<1>2. ProductsOK(s, g)
    BY DEF RunOK, ProductsOK, Origins
<1>3. NoneMissing(s, g)
  <2>1. \A p \in Products : CutOff(p, s.intent, h) => CutOff(p, s.intent, g)
      BY CutOffRemains
  <2> QED
      BY <2>1 DEF RunOK, NoneMissing
<1>4. DetailsOK(s, g)
  <2>1. ActiveRows(h) \subseteq ActiveRows(g)
      BY DEF ActiveRows
  <2>2. s.pending \in Seq(ActiveRows(h)) => s.pending \in Seq(ActiveRows(g))
      BY <2>1
  <2> QED
      BY <2>2 DEF RunOK, DetailsOK
<1>5. FilteredOK(s, g)
  <2>1. \A c \in s.products : Fit(c, h, s.intent, s.kind) => Fit(c, g, s.intent, s.kind)
      BY <1>1 DEF Fit
  <2> QED
      BY <2>1 DEF RunOK, FilteredOK
<1> QED
    BY <1>2, <1>3, <1>4, <1>5 DEF RunOK

\* The rows of P that a search returns and that do not come after p's.
Rivals(p, P, rows, i) ==
    {q \in P \ {p} : /\ Row(q, shelf[q]) \in Matching(rows, i)
                     /\ ~Before(Row(p, shelf[p]), Row(q, shelf[q]))}

\* A page of rows holds each of a set of products once, and leaves out none
\* that matches but for as many others as it holds.
LEMMA PagesFit ==
    ASSUME NEW P \in SUBSET Products, NEW i,
           NEW rows, rows = {Row(p, shelf[p]) : p \in P}, NEW page \in Pages(rows, i)
    PROVE  /\ IsFiniteSet(page)
           /\ \A r \in page : /\ r.id \in P /\ r = Row(r.id, shelf[r.id]) /\ r.active
                              /\ i.requireStock => Quantity(r) > 0
           /\ \A p \in P : Row(p, shelf[p]) \in Matching(rows, i) =>
                Row(p, shelf[p]) \in page \/ Cardinality(Rivals(p, P, rows, i)) >= PageSize
<1> DEFINE all == Matching(rows, i)
<1>1. IsFiniteSet(P)
    BY DiscoveryAssumption, FS_Subset
<1>2. IsFiniteSet(rows)
  <2> DEFINE f == [p \in P |-> Row(p, shelf[p])]
  <2>1. f \in Surjection(P, rows)
      BY DEF Surjection
  <2> HIDE DEF f
  <2> QED
      BY <1>1, <2>1, FS_Surjection
<1>3. all \in SUBSET rows /\ \A r \in all : r.active /\ (i.requireStock => Quantity(r) > 0)
    BY DEF Matching
<1> HIDE DEF all
<1>4. /\ page \in SUBSET all
      /\ Cardinality(page) = IF Cardinality(all) < PageSize THEN Cardinality(all) ELSE PageSize
      /\ \A x \in page, y \in all \ page : ~Before(y, x)
    BY DEF Pages, all
<1>5. IsFiniteSet(all)
    BY <1>2, <1>3, FS_Subset
<1>6. IsFiniteSet(page)
    BY <1>4, <1>5, FS_Subset
<1>7. \A p \in P : Row(p, shelf[p]).id = p
    BY DEF Row
<1>8. \A r \in rows : r.id \in P /\ r = Row(r.id, shelf[r.id])
    BY <1>7
<1>9. ASSUME NEW p \in P, Row(p, shelf[p]) \in all, Row(p, shelf[p]) \notin page
      PROVE  Cardinality(Rivals(p, P, rows, i)) >= PageSize
  <2> DEFINE B == Rivals(p, P, rows, i)
             f == [x \in page |-> x.id]
  <2>1. Cardinality(page) = PageSize
    <3>1. page # all
        BY <1>9
    <3>2. Cardinality(page) # Cardinality(all)
        BY <1>4, <1>5, <3>1, FS_Subset
    <3> QED
        BY <1>4, <3>2
  <2>2. ASSUME NEW x \in page PROVE x.id \in B
    <3>1. x \in all /\ x.id \in P /\ x = Row(x.id, shelf[x.id])
        BY <1>3, <1>4, <1>8
    <3>2. x.id # p
        BY <1>9, <3>1
    <3>3. ~Before(Row(p, shelf[p]), x)
        BY <1>4, <1>9
    <3> QED
        BY <3>1, <3>2, <3>3 DEF Rivals, all
  <2>3. \A x, y \in page : x.id = y.id => x = y
      BY <1>3, <1>4, <1>8
  <2> HIDE DEF B
  <2>4. f \in Injection(page, B)
      BY <2>2, <2>3 DEF Injection, IsInjective
  <2>5. IsFiniteSet(B)
      BY <1>1, FS_Subset DEF B, Rivals
  <2> HIDE DEF f
  <2>6. Cardinality(page) <= Cardinality(B)
      BY <2>4, <2>5, FS_Injection
  <2>7. Cardinality(page) \in Nat /\ Cardinality(B) \in Nat
      BY <1>6, <2>5, FS_CardinalityType
  <2>8. Cardinality(B) >= PageSize
      BY <2>1, <2>6, <2>7
  <2> QED
      BY <2>8 DEF B
<1> QED
    BY <1>3, <1>4, <1>6, <1>8, <1>9 DEF all

LEMMA SameAdvice ==
    ASSUME NEW s, NEW t, t.ranked = s.ranked, t.kind = s.kind
    PROVE  build_recommendation_result(t) = build_recommendation_result(s)
BY DEF build_recommendation_result

\* A step that reads the catalogue touches products and merchants alone.
LEMMA ReadingStep ==
    ASSUME NEW s, NEW h, RunOK(s, h), s.stage \in Early,
           NEW t, DOMAIN t = Fields, t.kind = s.kind, t.intent = s.intent,
           t.stage = s.stage \/ (t.kind = "query" /\ t.stage \in Early \ {"rank"}),
           s.stage # "rank",
           t.ranked = s.ranked, t.advice = s.advice, t.result = s.result,
           t.status = s.status, t.plan = s.plan, t.done = s.done,
           t.planStatus = s.planStatus, t.errors = s.errors,
           ProductsOK(t, h), NoneMissing(t, h), MerchantsOK(t), DetailsOK(t, h)
    PROVE  RunOK(t, h)
<1>1. /\ s.kind \in Graph \union {"query", "client"} /\ IsIntent(s.intent)
      /\ RankedOK(s) /\ StatusOK(s) /\ ResultOK(s)
    BY DEF RunOK
<1>2. s.ranked = None /\ s.advice = None /\ s.result = None /\ t.stage \in Early \ {"rank"}
    BY <1>1 DEF RankedOK, ResultOK, Early
<1>3. t.stage \notin {"rank", "recommend", "answer", "answered"} /\ s.stage \notin Late
    BY <1>2 DEF Early, Late
<1>4. FilteredOK(t, h)
    BY <1>2, <1>3 DEF FilteredOK
<1>5. RankedOK(t)
    BY <1>2 DEF RankedOK
<1>6. ResultOK(t)
    BY <1>1, <1>2, <1>3 DEF ResultOK, Late
<1>7. StatusOK(t)
  <2>1. CASE t.kind = "query"
      BY <2>1 DEF StatusOK, Graph
  <2>2. CASE t.stage = s.stage
    <3> SUFFICES ASSUME t.kind \in Graph
                 PROVE  StatusOK(t)
        BY DEF StatusOK
    <3>1. s.status \notin {"FAILED", "CLARIFICATION_REQUIRED", "NO_MATCH"} /\ SearchOK(s)
        BY <1>1, <1>3 DEF StatusOK, Late, Early
    <3>2. SearchOK(t)
        BY <1>2, <1>3, <2>2, <3>1 DEF SearchOK, Late
    <3> QED
        BY <1>1, <2>2, <3>1, <3>2, SameAdvice DEF StatusOK
  <2> QED
      BY <2>1, <2>2
<1> QED
    BY <1>1, <1>2, <1>4, <1>5, <1>6, <1>7 DEF RunOK

\* What a search with the bounds of an intent passes over is not eligible.
LEMMA PassedOver ==
    ASSUME NEW p \in Products, NEW v \in Shelves[p], NEW i, IsIntent(i), NEW kind, kind # "query",
           NEW rows, Row(p, v) \in rows, Row(p, v) \notin Matching(rows, i)
    PROVE  ~Eligible(i, p, v, kind)
<1>1. Row(p, v).active = v.active /\ Row(p, v).price = v.price /\ Row(p, v).stock = v.stock
    BY DEF Row
<1>2. ~( /\ v.active
         /\ i.budgetMin # None => v.price >= i.budgetMin
         /\ i.budgetMax # None => v.price <= i.budgetMax
         /\ i.requireStock => Quantity(Row(p, v)) > 0)
    BY <1>1 DEF Matching
<1>3. CASE ~(i.requireStock => Quantity(Row(p, v)) > 0)
  <2>1. Quantity(Row(p, v)) = IF v.stock = None THEN 0 ELSE v.stock.quantity
      BY <1>1 DEF Quantity
  <2>2. PICK units \in Nat : units = Quantity(Row(p, v))
      BY <2>1, ShelvesAssumption
  <2>3. i.quantity \in Nat \ {0} /\ i.requireStock
      BY <1>3 DEF IsIntent
  <2>4. ~(units >= i.quantity)
      BY <1>3, <2>2, <2>3
  <2>5. ~Supplied(i, v, kind)
      BY <2>1, <2>2, <2>3, <2>4 DEF Supplied
  <2> QED
      BY <2>5 DEF Eligible
<1>4. CASE i.requireStock => Quantity(Row(p, v)) > 0
    BY <1>2, <1>4 DEF Eligible
<1> QED
    BY <1>3, <1>4

\* Whatever a product was read from, its merchant is the listing's.
LEMMA ProductsAreListed ==
    ASSUME NEW s, NEW h, ProductsOK(s, h), HistoryOK(h), NEW c \in s.products
    PROVE  /\ c.id \in Products /\ c.merchant = Listing[c.id].merchant
           /\ \E v \in Origins(c, h, s.intent, s.kind) : v \in Shelves[c.id] /\ c.price = v.price
<1>1. PICK v \in Origins(c, h, s.intent, s.kind) : c.id \in Products
    BY DEF ProductsOK
<1>2. /\ v \in Shelves[c.id]
      /\ c \in {OfSummary(Row(c.id, v)), OfDetail(Row(c.id, v))}
    BY <1>1 DEF Origins, HistoryOK
<1> QED
    BY <1>1, <1>2, CandidatesFit

\* Enough rivals of one merchant are a reason to be beyond its page.
LEMMA RivalsCutOff ==
    ASSUME NEW p \in Products, NEW i, NEW h, \A q \in Products : shelf[q] \in h[q],
           NEW P, P = {q \in Products : Listing[q].merchant = Listing[p].merchant}, NEW rows,
           Cardinality(Rivals(p, P, rows, i)) >= PageSize
    PROVE  CutOff(p, i, h)
<1> DEFINE B == Rivals(p, P, rows, i)
           v == shelf[p]
           C == {q \in Products \ {p} :
                   /\ Listing[q].merchant = Listing[p].merchant
                   /\ \E w \in h[q] :
                         Matching({Row(q, w)}, i) # {} /\ ~Before(Row(p, v), Row(q, w))}
<1>1. ASSUME NEW q \in B PROVE q \in C
  <2>1. /\ q \in Products \ {p} /\ Listing[q].merchant = Listing[p].merchant
        /\ Row(q, shelf[q]) \in Matching(rows, i) /\ ~Before(Row(p, v), Row(q, shelf[q]))
      BY <1>1 DEF Rivals
  <2>2. Row(q, shelf[q]) \in Matching({Row(q, shelf[q])}, i)
      BY <2>1 DEF Matching
  <2>3. shelf[q] \in h[q] /\ Matching({Row(q, shelf[q])}, i) # {}
      BY <2>1, <2>2
  <2> QED
      BY <2>1, <2>3
<1>2. v \in h[p] /\ C \subseteq Products
    OBVIOUS
<1>3. Cardinality(B) >= PageSize
    OBVIOUS
<1>4. CutOff(p, i, h) <=> \E w \in h[p] : Cardinality({q \in Products \ {p} :
          /\ Listing[q].merchant = Listing[p].merchant
          /\ \E x \in h[q] :
                Matching({Row(q, x)}, i) # {} /\ ~Before(Row(p, w), Row(q, x))}) >= PageSize
    BY DEF CutOff
<1>5. Cardinality(C) >= PageSize => CutOff(p, i, h)
    BY <1>2, <1>4
<1> HIDE DEF B, C
<1>6. IsFiniteSet(C) /\ B \subseteq C
    BY <1>1, <1>2, DiscoveryAssumption, FS_Subset
<1>7. Cardinality(B) <= Cardinality(C) /\ IsFiniteSet(B)
    BY <1>6, FS_Subset
<1>8. Cardinality(B) \in Nat /\ Cardinality(C) \in Nat /\ PageSize \in Nat
    BY <1>6, <1>7, FS_CardinalityType, DiscoveryAssumption
<1>9. Cardinality(C) >= PageSize
    BY <1>3, <1>7, <1>8
<1> QED
    BY <1>5, <1>9

\* A merchant that answers adds its page.
LEMMA MerchantAnswers ==
    ASSUME NEW s, NEW h, RunOK(s, h), HistoryOK(h), \A p \in Products : shelf[p] \in h[p],
           s.stage = "discover", s.pending # <<>>, NEW m, m = Head(s.pending),
           NEW page \in Pages(RowsOf({m}), s.intent),
           NEW t, t = [s EXCEPT !.pending = Tail(s.pending),
                                !.answered = s.answered \union {m},
                                !.products = s.products \union Normalized(page)]
    PROVE  RunOK(t, h)
<1> DEFINE P == {q \in Products : Listing[q].merchant = m}
           N == Normalized(page)
<1>1. /\ DOMAIN s = Fields /\ s.kind \in Graph \union {"query", "client"} /\ IsIntent(s.intent)
      /\ ProductsOK(s, h) /\ NoneMissing(s, h) /\ MerchantsOK(s) /\ DetailsOK(s, h)
    BY DEF RunOK
<1>2. /\ DOMAIN t = Fields /\ t.kind = s.kind /\ t.intent = s.intent /\ t.stage = s.stage
      /\ t.ranked = s.ranked /\ t.advice = s.advice /\ t.result = s.result
      /\ t.status = s.status /\ t.plan = s.plan /\ t.done = s.done
      /\ t.planStatus = s.planStatus /\ t.errors = s.errors
      /\ t.pending = Tail(s.pending) /\ t.answered = s.answered \union {m}
      /\ t.products = s.products \union N
    BY <1>1 DEF Fields
<1>3. /\ s.kind # "query" /\ s.pending \in Seq(Merchants)
      /\ \A c \in s.products : c.merchant \in s.answered
      /\ \A n \in DOMAIN s.pending : s.pending[n] \notin s.answered
      /\ \A n, k \in DOMAIN s.pending : s.pending[n] = s.pending[k] => n = k
    BY <1>1 DEF MerchantsOK
<1>4. m \in Merchants /\ m \notin s.answered
  <2>1. 1 \in DOMAIN s.pending /\ m = s.pending[1]
      BY <1>3
  <2> QED
      BY <1>3, <2>1
<1>5. RowsOf({m}) = {Row(p, shelf[p]) : p \in P} /\ P \in SUBSET Products
    BY DEF RowsOf
<1>6. /\ IsFiniteSet(page)
      /\ \A r \in page : /\ r.id \in P /\ r = Row(r.id, shelf[r.id]) /\ r.active
                         /\ s.intent.requireStock => Quantity(r) > 0
      /\ \A p \in P : Row(p, shelf[p]) \in Matching(RowsOf({m}), s.intent) =>
           \/ Row(p, shelf[p]) \in page
           \/ Cardinality(Rivals(p, P, RowsOf({m}), s.intent)) >= PageSize
    BY <1>5, PagesFit
<1>7. IsFiniteSet(N)
  <2> DEFINE D == {r \in page : ~Malformed(r)}
             f == [r \in D |-> OfSummary(r)]
  <2>1. IsFiniteSet(D)
      BY <1>6, FS_Subset
  <2>2. f \in Surjection(D, N)
      BY DEF Surjection, Normalized
  <2> HIDE DEF f, D, N
  <2> QED
      BY <2>1, <2>2, FS_Surjection
<1>8. ASSUME NEW c \in N
      PROVE  /\ c.id \in P /\ c = OfSummary(Row(c.id, shelf[c.id])) /\ c.merchant = m
             /\ IsCandidate(c) /\ c \in Candidates /\ c.rating \in Stars
             /\ Origins(c, h, s.intent, s.kind) # {}
  <2>1. PICK r \in page : c = OfSummary(r) /\ ~Malformed(r)
      BY DEF Normalized
  <2>2. PICK p, v : p \in P /\ p = r.id /\ v = shelf[p] /\ r = Row(p, v) /\ r.active
                          /\ (s.intent.requireStock => Quantity(r) > 0)
      BY <1>6
  <2>3. p \in Products /\ v \in h[p] /\ v \in Shelves[p] /\ Listing[p].merchant = m
      BY <2>2 DEF HistoryOK
  <2>4. /\ IsCandidate(c) /\ c \in Candidates /\ c.rating \in Stars
        /\ c.id = p /\ c.merchant = m
    <3>1. c \in {OfSummary(Row(p, v)), OfDetail(Row(p, v))}
        BY <2>1, <2>2
    <3>2. c.merchant = Listing[p].merchant /\ c.id = p
        BY <2>3, <3>1, CandidatesFit
    <3>3. IsCandidate(c) /\ c \in Candidates /\ c.rating \in Stars
        BY <2>3, <3>1, CandidatesFit
    <3> QED
        BY <2>3, <3>2, <3>3
  <2>5. v.active /\ v.price >= 0
    <3>1. Row(p, v).active = v.active /\ Row(p, v).price = v.price
        BY DEF Row
    <3>2. v.price \in Int
        BY <2>3, ShelvesAssumption
    <3>3. ~(v.price < 0)
        BY <2>1, <2>2, <3>1 DEF Malformed
    <3> QED
        BY <2>2, <3>1, <3>2, <3>3
  <2>6. v \in Origins(c, h, s.intent, s.kind)
      BY <2>1, <2>2, <2>3, <2>4, <2>5 DEF Origins
  <2> QED
      BY <2>1, <2>2, <2>4, <2>6
<1> HIDE DEF N
<1>9. IsChoice(t.products)
  <2>1. IsChoice(s.products)
      BY <1>1 DEF ProductsOK
  <2>2. IsFiniteSet(s.products \union N)
      BY <1>7, <2>1, FS_Union DEF IsChoice
  <2>3. \A c, d \in N : c.id = d.id => c = d
      BY <1>8
  <2>4. ASSUME NEW c \in N, NEW d \in s.products PROVE c.id # d.id
    <3>1. d.merchant = Listing[d.id].merchant /\ d.merchant \in s.answered
        BY <1>1, <1>3, ProductsAreListed
    <3>2. Listing[c.id].merchant = m
        BY <1>8
    <3> QED
        BY <1>4, <3>1, <3>2
  <2> QED
      BY <1>2, <1>8, <2>1, <2>2, <2>3, <2>4, ZenonT(40) DEF IsChoice
<1>10. ProductsOK(t, h)
    BY <1>1, <1>2, <1>8, <1>9 DEF ProductsOK
<1>11. NoneMissing(t, h)
  <2> SUFFICES ASSUME s.kind \in Graph, NEW p \in Products, Listing[p].merchant \in t.answered,
                      ~CutOff(p, s.intent, h), ~Refused(p),
                      \A v \in h[p] : Eligible(s.intent, p, v, s.kind)
               PROVE  \E c \in t.products : c.id = p
      BY <1>2 DEF NoneMissing
  <2>1. CASE Listing[p].merchant \in s.answered
      BY <1>1, <1>2, <2>1 DEF NoneMissing
  <2>2. CASE Listing[p].merchant = m
    <3>1. p \in P /\ Row(p, shelf[p]) \in RowsOf({m})
        BY <1>5, <2>2
    <3>2. shelf[p] \in h[p] /\ shelf[p] \in Shelves[p]
        BY DEF HistoryOK
    <3>3. Eligible(s.intent, p, shelf[p], s.kind)
        BY <3>2
    <3>4. Row(p, shelf[p]) \in Matching(RowsOf({m}), s.intent)
        BY <1>1, <1>3, <3>1, <3>2, <3>3, PassedOver
    <3>5. ~(Cardinality(Rivals(p, P, RowsOf({m}), s.intent)) >= PageSize)
        BY <2>2, <3>2, RivalsCutOff
    <3>6. Row(p, shelf[p]) \in page
        BY <1>6, <3>1, <3>4, <3>5
    <3>7. ~Malformed(Row(p, shelf[p]))
      <4>1. /\ Row(p, shelf[p]).price = shelf[p].price /\ shelf[p].price \in Int
            /\ Row(p, shelf[p]).base = Listing[p].base /\ Listing[p].base \in Int
          BY <3>2, ShelvesAssumption, DiscoveryAssumption DEF Row
      <4>2. shelf[p].price >= 0
          BY <3>3 DEF Eligible
      <4>3. Listing[p].base >= 0
          BY <4>1 DEF Refused
      <4> QED
          BY <4>1, <4>2, <4>3 DEF Malformed, BasePrice
    <3>8. OfSummary(Row(p, shelf[p])) \in N
        BY <3>6, <3>7 DEF N, Normalized
    <3>9. OfSummary(Row(p, shelf[p])).id = p
        BY <3>2, CandidatesFit
    <3> QED
        BY <1>2, <3>8, <3>9
  <2> QED
      BY <1>2, <2>1, <2>2
<1>12. MerchantsOK(t)
  <2>1. /\ t.pending \in Seq(Merchants)
        /\ DOMAIN t.pending = 1 .. Len(s.pending) - 1
        /\ \A n \in 1 .. Len(s.pending) - 1 :
             t.pending[n] = s.pending[n + 1] /\ n + 1 \in DOMAIN s.pending
      BY <1>2, <1>3
  <2>2. 1 \in DOMAIN s.pending /\ m = s.pending[1]
      BY <1>3
  <2>3. \A n \in DOMAIN t.pending : t.pending[n] \notin t.answered
      BY <1>2, <1>3, <2>1, <2>2
  <2>4. \A n, k \in DOMAIN t.pending : t.pending[n] = t.pending[k] => n = k
    <3> SUFFICES ASSUME NEW n \in DOMAIN t.pending, NEW k \in DOMAIN t.pending,
                        t.pending[n] = t.pending[k]
                 PROVE  n = k
        OBVIOUS
    <3>1. n + 1 = k + 1
        BY <1>3, <2>1
    <3>2. n \in Int /\ k \in Int
        BY <2>1
    <3> QED
        BY <3>1, <3>2
  <2>5. \A c \in t.products : c.merchant \in t.answered
      BY <1>2, <1>3, <1>8
  <2> QED
      BY <1>2, <1>3, <2>1, <2>3, <2>4, <2>5 DEF MerchantsOK
<1>13. DetailsOK(t, h)
    BY <1>2 DEF DetailsOK
<1>14. s.stage \in Early /\ s.stage # "rank"
    BY DEF Early
<1> QED
    BY <1>2, <1>10, <1>11, <1>12, <1>13, <1>14, ReadingStep

\* A merchant that does not answer is only noted.
LEMMA MerchantFails ==
    ASSUME NEW s, NEW h, RunOK(s, h), s.stage = "discover", s.pending # <<>>, NEW down,
           NEW t, t = [s EXCEPT !.pending = Tail(s.pending), !.down = down]
    PROVE  RunOK(t, h)
<1>1. /\ DOMAIN s = Fields /\ ProductsOK(s, h) /\ NoneMissing(s, h) /\ MerchantsOK(s)
    BY DEF RunOK
<1>2. /\ DOMAIN t = Fields /\ t.kind = s.kind /\ t.intent = s.intent /\ t.stage = s.stage
      /\ t.ranked = s.ranked /\ t.advice = s.advice /\ t.result = s.result
      /\ t.status = s.status /\ t.plan = s.plan /\ t.done = s.done
      /\ t.planStatus = s.planStatus /\ t.errors = s.errors
      /\ t.pending = Tail(s.pending) /\ t.answered = s.answered /\ t.products = s.products
    BY <1>1 DEF Fields
<1>3. ProductsOK(t, h) /\ NoneMissing(t, h) /\ DetailsOK(t, h)
    BY <1>1, <1>2 DEF ProductsOK, NoneMissing, DetailsOK
<1>4. MerchantsOK(t)
  <2>1. /\ s.pending \in Seq(Merchants) /\ s.kind # "query"
        /\ \A c \in s.products : c.merchant \in s.answered
        /\ \A n \in DOMAIN s.pending : s.pending[n] \notin s.answered
        /\ \A n, k \in DOMAIN s.pending : s.pending[n] = s.pending[k] => n = k
      BY <1>1 DEF MerchantsOK
  <2>2. /\ t.pending \in Seq(Merchants)
        /\ DOMAIN t.pending = 1 .. Len(s.pending) - 1
        /\ \A n \in 1 .. Len(s.pending) - 1 :
             t.pending[n] = s.pending[n + 1] /\ n + 1 \in DOMAIN s.pending
      BY <1>2, <2>1
  <2>3. \A n, k \in DOMAIN t.pending : t.pending[n] = t.pending[k] => n = k
    <3> SUFFICES ASSUME NEW n \in DOMAIN t.pending, NEW k \in DOMAIN t.pending,
                        t.pending[n] = t.pending[k]
                 PROVE  n = k
        OBVIOUS
    <3>1. n + 1 = k + 1
        BY <2>1, <2>2
    <3>2. n \in Int /\ k \in Int
        BY <2>2
    <3> QED
        BY <3>1, <3>2
  <2> QED
      BY <1>2, <2>1, <2>2, <2>3 DEF MerchantsOK
<1>5. s.stage \in Early /\ s.stage # "rank"
    BY DEF Early
<1> QED
    BY <1>2, <1>3, <1>4, <1>5, ReadingStep

\* Before the products are ranked there is neither ranking, advice nor answer,
\* and a run of the graph neither failed nor asked back.
LEMMA EarlyRun ==
    ASSUME NEW s, NEW h, RunOK(s, h), s.stage \in Early
    PROVE  /\ s.ranked = None /\ s.advice = None /\ s.result = None
           /\ s.planStatus = "PLANNED"
           /\ s.kind \in Graph =>
                /\ s.status \notin {"FAILED", "CLARIFICATION_REQUIRED", "NO_MATCH"} /\ SearchOK(s)
                /\ ~s.intent.ambiguous /\ s.errors \intersect Fatal = {}
<1>1. RankedOK(s) /\ StatusOK(s) /\ ResultOK(s)
    BY DEF RunOK
<1>2. s.stage \notin Late /\ s.stage # "answered" /\ s.stage # "answer"
    BY DEF Early, Late
<1>3. s.ranked = None /\ s.advice = None /\ s.result = None /\ s.planStatus = "PLANNED"
    BY <1>1, <1>2 DEF RankedOK, ResultOK
<1>4. s.kind \in Graph =>
        /\ s.status \notin {"FAILED", "CLARIFICATION_REQUIRED", "NO_MATCH"} /\ SearchOK(s)
        /\ ~s.intent.ambiguous /\ s.errors \intersect Fatal = {}
    BY <1>1, <1>2 DEF StatusOK
<1> QED
    BY <1>3, <1>4

\* Outside the graph an exception fails the request.
LEMMA RequestFails ==
    ASSUME NEW s, NEW h, RunOK(s, h), s.kind \notin Graph,
           NEW t, t = [s EXCEPT !.stage = "answered", !.result = "ERROR"]
    PROVE  RunOK(t, h)
<1>1. /\ DOMAIN s = Fields /\ s.kind \in Graph \union {"query", "client"} /\ IsIntent(s.intent)
      /\ ProductsOK(s, h) /\ NoneMissing(s, h) /\ MerchantsOK(s) /\ DetailsOK(s, h)
      /\ FilteredOK(s, h) /\ RankedOK(s) /\ StatusOK(s) /\ ResultOK(s)
    BY DEF RunOK
<1>2. /\ DOMAIN t = Fields /\ t.kind = s.kind /\ t.intent = s.intent /\ t.stage = "answered"
      /\ t.ranked = s.ranked /\ t.advice = s.advice /\ t.result = "ERROR"
      /\ t.planStatus = s.planStatus /\ t.errors = s.errors
      /\ t.answered = s.answered /\ t.products = s.products
    BY <1>1 DEF Fields
<1>3. ProductsOK(t, h) /\ NoneMissing(t, h)
    BY <1>1, <1>2 DEF ProductsOK, NoneMissing
<1>4. MerchantsOK(t) /\ DetailsOK(t, h)
    BY <1>1, <1>2 DEF MerchantsOK, DetailsOK
<1>5. FilteredOK(t, h)
    BY <1>1, <1>2 DEF FilteredOK
<1>6. RankedOK(t)
  <2>1. build_recommendation_result(t) = build_recommendation_result(s)
      BY <1>2, SameAdvice
  <2>2. "answered" \notin Early \union {"recommend"}
      BY DEF Early
  <2> QED
      BY <1>1, <1>2, <2>1, <2>2 DEF RankedOK
<1>7. StatusOK(t)
    BY <1>2 DEF StatusOK
<1>8. ResultOK(t)
    BY <1>1, <1>2 DEF ResultOK, Graph
<1>9. t.stage \in Early \union Late
    BY <1>2 DEF Late
<1> QED
    BY <1>1, <1>2, <1>3, <1>4, <1>5, <1>6, <1>7, <1>8, <1>9 DEF RunOK

\* Discovery ends, is repeated, or fails.
LEMMA DiscoveryEnds ==
    ASSUME NEW s, NEW h, RunOK(s, h), s.stage = "discover", NEW raises \in BOOLEAN,
           NEW t, t = EndOfDiscovery(s, raises)
    PROVE  RunOK(t, h)
<1>1. /\ DOMAIN s = Fields /\ s.kind \in Graph \union {"query", "client"} /\ IsIntent(s.intent)
      /\ ProductsOK(s, h) /\ NoneMissing(s, h) /\ MerchantsOK(s) /\ StatusOK(s) /\ ResultOK(s)
    BY DEF RunOK
<1>2. s.kind # "query" /\ \A c \in s.products : c.merchant \in s.answered
    BY <1>1 DEF MerchantsOK
<1>3. /\ s.ranked = None /\ s.advice = None /\ s.result = None
      /\ s.planStatus = "PLANNED"
      /\ s.kind \in Graph =>
           /\ s.status \notin {"FAILED", "CLARIFICATION_REQUIRED", "NO_MATCH"} /\ SearchOK(s)
           /\ ~s.intent.ambiguous /\ s.errors \intersect Fatal = {}
  <2>1. s.stage \in Early
      BY DEF Early
  <2> QED
      BY <2>1, EarlyRun
<1>4. CASE ~raises
  <2>1. PICK u : u = Completed(s, {"DISCOVER", "NORMALIZE"})
      OBVIOUS
  <2>2. t = [u EXCEPT !.status = "DISCOVERING", !.stage = "filter"]
      BY <1>4, <2>1 DEF EndOfDiscovery
  <2>3. /\ DOMAIN u = Fields /\ u.kind = s.kind /\ u.intent = s.intent
        /\ u.ranked = s.ranked /\ u.advice = s.advice /\ u.result = s.result
        /\ u.plan = s.plan /\ u.planStatus = s.planStatus /\ u.errors = s.errors
        /\ u.answered = s.answered /\ u.products = s.products
        /\ s.kind \in Graph => {"DISCOVER", "NORMALIZE"} \subseteq u.done
      BY <1>1, <2>1 DEF Completed, Fields
  <2>4. /\ DOMAIN t = Fields /\ t.kind = s.kind /\ t.intent = s.intent /\ t.stage = "filter"
        /\ t.ranked = None /\ t.advice = None /\ t.result = None
        /\ t.plan = s.plan /\ t.planStatus = "PLANNED" /\ t.errors = s.errors
        /\ t.answered = s.answered /\ t.products = s.products /\ t.status = "DISCOVERING"
        /\ s.kind \in Graph => {"DISCOVER", "NORMALIZE"} \subseteq t.done
      BY <1>3, <2>2, <2>3 DEF Fields
  <2>5. ProductsOK(t, h) /\ NoneMissing(t, h)
      BY <1>1, <2>4 DEF ProductsOK, NoneMissing
  <2>6. MerchantsOK(t) /\ DetailsOK(t, h)
      BY <1>2, <2>4 DEF MerchantsOK, DetailsOK
  <2>7. FilteredOK(t, h) /\ RankedOK(t)
      BY <2>4 DEF FilteredOK, RankedOK
  <2>8. StatusOK(t)
    <3>1. s.kind \in Graph => SearchOK(t)
        BY <1>3, <2>4 DEF SearchOK, Late
    <3> QED
        BY <1>3, <2>4, <3>1 DEF StatusOK
  <2>9. ResultOK(t)
      BY <2>4 DEF ResultOK
  <2>10. t.stage \in Early \union Late
      BY <2>4 DEF Early
  <2> QED
      BY <1>1, <2>4, <2>5, <2>6, <2>7, <2>8, <2>9, <2>10 DEF RunOK
<1>5. CASE raises /\ s.kind \notin Graph
  <2>1. t = Raised(s, "DISCOVERY_FAILED", "answered")
      BY <1>5 DEF EndOfDiscovery
  <2>2. t = [s EXCEPT !.stage = "answered", !.result = "ERROR"]
      BY <1>5, <2>1 DEF Raised
  <2> QED
      BY <1>5, <2>2, RequestFails
<1>6. CASE raises /\ s.kind \in Graph
  <2>1. PICK u : u = [s EXCEPT !.retries = s.retries + 1, !.products = {}, !.answered = {},
                               !.down = {}]
      OBVIOUS
  <2>2. t = IF u.retries <= MaxRetries
            THEN [u EXCEPT !.pending = Asked(s.intent, <<>>)]
            ELSE [Raised(u, "DISCOVERY_FAILED", "answer") EXCEPT !.status = "FAILED"]
      BY <1>6, <2>1 DEF EndOfDiscovery
  <2>3. /\ DOMAIN u = Fields /\ u.kind = s.kind /\ u.intent = s.intent /\ u.stage = "discover"
        /\ u.ranked = None /\ u.advice = None /\ u.result = None
        /\ u.plan = s.plan /\ u.planStatus = "PLANNED" /\ u.errors = s.errors
        /\ u.answered = {} /\ u.products = {} /\ u.status = s.status
      BY <1>1, <1>3, <2>1 DEF Fields
  <2>4. CASE t = [u EXCEPT !.pending = Asked(s.intent, <<>>)]
    <3>1. /\ DOMAIN t = Fields /\ t.kind = s.kind /\ t.intent = s.intent /\ t.stage = "discover"
          /\ t.ranked = None /\ t.advice = None /\ t.result = None
          /\ t.plan = s.plan /\ t.planStatus = "PLANNED" /\ t.errors = s.errors
          /\ t.answered = {} /\ t.products = {} /\ t.status = s.status
          /\ t.pending = Asked(s.intent, <<>>)
        BY <2>3, <2>4 DEF Fields
    <3>2. MerchantsOK(t) /\ DetailsOK(t, h)
        BY <1>2, <3>1, AskedOnce DEF MerchantsOK, DetailsOK
    <3>3. SearchOK(t)
        BY <1>3, <1>6, <3>1 DEF SearchOK, Late
    <3>4. s.status = "NO_MATCH" => build_recommendation_result(t).top = None
        BY <3>1, NothingAdvised DEF build_recommendation_result
    <3>5. StatusOK(t)
        BY <1>3, <1>6, <3>1, <3>3, <3>4 DEF StatusOK
    <3>6. ResultOK(t)
        BY <3>1 DEF ResultOK
    <3>7. t.stage \in Early \union Late /\ t.stage # "recommend"
        BY <3>1 DEF Early
    <3> QED
        BY <1>1, <3>1, <3>2, <3>5, <3>6, <3>7, EmptyRun
  <2>5. CASE t = [Raised(u, "DISCOVERY_FAILED", "answer") EXCEPT !.status = "FAILED"]
    <3>1. PICK w : w = [u EXCEPT !.errors = u.errors \union {"DISCOVERY_FAILED"},
                                 !.stage = "answer"]
        OBVIOUS
    <3>2. t = [w EXCEPT !.status = "FAILED"]
        BY <1>6, <2>3, <2>5, <3>1 DEF Raised
    <3>3. /\ DOMAIN t = Fields /\ t.kind = s.kind /\ t.intent = s.intent /\ t.stage = "answer"
          /\ t.ranked = None /\ t.advice = None /\ t.result = None
          /\ t.planStatus = "PLANNED" /\ "DISCOVERY_FAILED" \in t.errors
          /\ t.answered = {} /\ t.products = {} /\ t.status = "FAILED"
        BY <2>3, <3>1, <3>2 DEF Fields
    <3>4. MerchantsOK(t) /\ DetailsOK(t, h)
        BY <3>3 DEF MerchantsOK, DetailsOK
    <3>5. StatusOK(t)
        BY <1>3, <1>6, <3>3 DEF StatusOK, Fatal
    <3>6. ResultOK(t)
        BY <3>3 DEF ResultOK
    <3>7. t.stage \in Early \union Late /\ t.stage \notin Early \union {"recommend"}
        BY <3>3 DEF Early, Late
    <3> QED
        BY <1>1, <3>3, <3>4, <3>5, <3>6, <3>7, EmptyRun
  <2> QED
      BY <2>2, <2>4, <2>5
<1> QED
    BY <1>4, <1>5, <1>6

\* A finite set as a list has each of its members once.
LEMMA ListedOnce ==
    ASSUME NEW S, IsFiniteSet(S), NEW l, l = Lists!SetToSeq(S)
    PROVE  /\ l \in Seq(S) /\ DOMAIN l = 1 .. Len(l)
           /\ \A n, m \in DOMAIN l : l[n] = l[m] => n = m
<1> DEFINE k == Cardinality(S)
<1>1. k \in Nat /\ ExistsBijection(1 .. k, S)
    BY FS_CardinalityType
<1>2. PICK f : f \in Bijection(1 .. k, S)
    BY <1>1 DEF ExistsBijection
<1>3. f \in [1 .. k -> S] /\ \A a, b \in DOMAIN f : f[a] = f[b] => a = b
    BY <1>2 DEF Bijection, Injection, IsInjective
<1>4. Lists!IsInjective(f)
    BY <1>3 DEF Lists!IsInjective
<1>5. Lists!Cardinality(S) = k
    BY DEF Lists!Cardinality, Cardinality
<1>6. l \in [1 .. k -> S] /\ Lists!IsInjective(l)
    BY <1>3, <1>4, <1>5 DEF Lists!SetToSeq
<1> HIDE DEF k
<1>7. \A n, m \in DOMAIN l : l[n] = l[m] => n = m
    BY <1>6 DEF Lists!IsInjective
<1>8. l \in Seq(S) /\ DOMAIN l = 1 .. Len(l)
    BY <1>1, <1>6
<1> QED
    BY <1>7, <1>8

LEMMA RowFields ==
    ASSUME NEW p, NEW v
    PROVE  /\ Row(p, v).id = p /\ Row(p, v).active = v.active /\ Row(p, v).price = v.price
           /\ Row(p, v).stock = v.stock
BY DEF Row

\* The runner's search lists active rows, each once.
LEMMA SearchReturns ==
    ASSUME NEW s, NEW h, RunOK(s, h), \A p \in Products : shelf[p] \in h[p],
           s.stage = "search", NEW page \in Pages(RowsOf(Merchants), Unbounded),
           NEW t, t = [s EXCEPT !.pending = Lists!SetToSeq(page), !.stage = "details"]
    PROVE  RunOK(t, h)
<1> DEFINE P == {q \in Products : Listing[q].merchant \in Merchants}
           l == Lists!SetToSeq(page)
<1>1. /\ DOMAIN s = Fields /\ ProductsOK(s, h) /\ NoneMissing(s, h)
      /\ s.kind = "query" /\ s.products = {}
    BY DEF RunOK, DetailsOK
<1>2. /\ IsFiniteSet(page)
      /\ \A r \in page : /\ r.id \in P /\ r = Row(r.id, shelf[r.id]) /\ r.active
    BY PagesFit DEF RowsOf
<1>3. /\ l \in Seq(page) /\ DOMAIN l = 1 .. Len(l)
      /\ \A n, m \in DOMAIN l : l[n] = l[m] => n = m
    BY <1>2, ListedOnce
<1> HIDE DEF l
<1>4. /\ DOMAIN t = Fields /\ t.kind = s.kind /\ t.intent = s.intent /\ t.stage = "details"
      /\ t.ranked = s.ranked /\ t.advice = s.advice /\ t.result = s.result
      /\ t.status = s.status /\ t.plan = s.plan /\ t.done = s.done
      /\ t.planStatus = s.planStatus /\ t.errors = s.errors
      /\ t.pending = l /\ t.answered = s.answered /\ t.products = s.products
    BY <1>1 DEF Fields, l
<1>5. page \subseteq ActiveRows(h)
  <2> SUFFICES ASSUME NEW r \in page
               PROVE  r \in ActiveRows(h)
      OBVIOUS
  <2>1. r.id \in Products /\ r = Row(r.id, shelf[r.id]) /\ r.active
      BY <1>2
  <2>2. shelf[r.id] \in {w \in h[r.id] : w.active}
      BY <2>1, RowFields
  <2> QED
      BY <2>1, <2>2 DEF ActiveRows
<1>6. \A n, m \in DOMAIN l : l[n].id = l[m].id => n = m
  <2>1. \A n \in DOMAIN l : l[n] \in page
      BY <1>3
  <2> QED
      BY <1>2, <1>3, <2>1
<1>7. ProductsOK(t, h) /\ NoneMissing(t, h) /\ MerchantsOK(t)
    BY <1>1, <1>4 DEF ProductsOK, NoneMissing, MerchantsOK, Graph
<1>8. DetailsOK(t, h)
  <2>1. l \in Seq(ActiveRows(h))
      BY <1>3, <1>5
  <2> QED
      BY <1>1, <1>4, <1>6, <2>1 DEF DetailsOK
<1>9. s.stage \in Early /\ s.stage # "rank" /\ t.stage \in Early \ {"rank"}
    BY <1>4, SMTT(40) DEF Early
<1> QED
    BY <1>1, <1>4, <1>7, <1>8, <1>9, ReadingStep

\* The detail of the next item is read, or its summary stands in for it.
LEMMA DetailIsRead ==
    ASSUME NEW s, NEW h, RunOK(s, h), HistoryOK(h), \A p \in Products : shelf[p] \in h[p],
           s.stage = "details", s.pending # <<>>,
           NEW item, item = Head(s.pending),
           NEW now, now = Row(item.id, shelf[item.id]),
           NEW row, row = item \/ (row = now /\ now.active),
           NEW c, c = (IF now.active THEN OfDetail(row) ELSE OfSummary(row)),
           ~Malformed(row),
           NEW t, t = [s EXCEPT !.pending = Tail(s.pending), !.products = s.products \union {c}]
    PROVE  RunOK(t, h)
<1>1. /\ DOMAIN s = Fields /\ ProductsOK(s, h) /\ NoneMissing(s, h) /\ DetailsOK(s, h)
    BY DEF RunOK
<1>2. /\ DOMAIN t = Fields /\ t.kind = s.kind /\ t.intent = s.intent /\ t.stage = s.stage
      /\ t.ranked = s.ranked /\ t.advice = s.advice /\ t.result = s.result
      /\ t.status = s.status /\ t.plan = s.plan /\ t.done = s.done
      /\ t.planStatus = s.planStatus /\ t.errors = s.errors
      /\ t.pending = Tail(s.pending) /\ t.answered = s.answered
      /\ t.products = s.products \union {c}
    BY <1>1 DEF Fields
<1>3. /\ s.kind = "query" /\ s.pending \in Seq(ActiveRows(h))
      /\ \A n \in DOMAIN s.pending : \A d \in s.products : d.id # s.pending[n].id
      /\ \A n, m \in DOMAIN s.pending : s.pending[n].id = s.pending[m].id => n = m
    BY <1>1 DEF DetailsOK
<1>4. 1 \in DOMAIN s.pending /\ item = s.pending[1] /\ item \in ActiveRows(h)
    BY <1>3
<1>5. PICK p \in Products : item \in {Row(p, v) : v \in {w \in h[p] : w.active}}
    BY <1>4 DEF ActiveRows
<1>6. PICK u \in h[p] : u.active /\ item = Row(p, u)
    BY <1>5
<1>7. item.id = p /\ shelf[p] \in h[p] /\ h[p] \subseteq Shelves[p]
    BY <1>6, RowFields, SMTT(40) DEF HistoryOK
<1>8. PICK v \in h[p] : /\ v.active /\ v.price >= 0
                        /\ c \in {OfSummary(Row(p, v)), OfDetail(Row(p, v))}
  <2>1. CASE row = now /\ now.active
    <3>1. row = Row(p, shelf[p]) /\ c = OfDetail(row) /\ ~Malformed(row)
        BY <1>7, <2>1
    <3>2. shelf[p].active /\ shelf[p].price >= 0
      <4>1. shelf[p].price \in Int
          BY <1>7, ShelvesAssumption, SMTT(40)
      <4> QED
          BY <2>1, <3>1, <4>1, RowFields DEF Malformed
    <3> QED
        BY <1>7, <3>1, <3>2
  <2>2. CASE row = item
    <3>1. item = Row(p, u) /\ c \in {OfSummary(item), OfDetail(item)} /\ ~Malformed(item)
        BY <1>6, <2>2
    <3>2. u.active /\ u.price >= 0
      <4>1. u.price \in Int
          BY <1>6, <1>7, ShelvesAssumption
      <4> QED
          BY <1>6, <3>1, <4>1, RowFields DEF Malformed
    <3> QED
        BY <1>6, <3>1, <3>2
  <2> QED
      BY <2>1, <2>2, SMTT(40)
<1>9. c.id = p /\ IsCandidate(c) /\ c \in Candidates /\ c.rating \in Stars
    BY <1>7, <1>8, CandidatesFit, SMTT(40)
<1>10. ProductsOK(t, h)
  <2>1. IsChoice(s.products) /\ \A d \in s.products : d.id # p
      BY <1>1, <1>3, <1>4, <1>7 DEF ProductsOK
  <2>2. IsFiniteSet(s.products \union {c})
      BY <2>1, FS_AddElement DEF IsChoice
  <2>3. IsChoice(t.products)
      BY <1>2, <1>9, <2>1, <2>2, ZenonT(60) DEF IsChoice
  <2>4. v \in Origins(c, h, s.intent, s.kind)
      BY <1>3, <1>8, <1>9 DEF Origins
  <2> QED
      BY <1>1, <1>2, <1>9, <2>3, <2>4 DEF ProductsOK
<1>11. NoneMissing(t, h) /\ MerchantsOK(t)
  <2>1. t.kind = "query" /\ t.stage # "discover"
      BY <1>2, <1>3
  <2>2. "query" \notin Graph
      BY DEF Graph
  <2> QED
      BY <2>1, <2>2 DEF NoneMissing, MerchantsOK
<1>12. DetailsOK(t, h)
  <2>1. /\ t.pending \in Seq(ActiveRows(h))
        /\ DOMAIN t.pending = 1 .. Len(s.pending) - 1
        /\ \A n \in 1 .. Len(s.pending) - 1 :
             t.pending[n] = s.pending[n + 1] /\ n + 1 \in DOMAIN s.pending
      BY <1>2, <1>3
  <2>2. \A n \in DOMAIN t.pending : t.pending[n].id # p
    <3> SUFFICES ASSUME NEW n \in DOMAIN t.pending, t.pending[n].id = p
                 PROVE  FALSE
        OBVIOUS
    <3>1. n + 1 = 1 /\ n \in Nat /\ n >= 1
        BY <1>3, <1>4, <1>7, <2>1, SMTT(40)
    <3> QED
        BY <3>1
  <2>3. \A n \in DOMAIN t.pending : \A d \in t.products : d.id # t.pending[n].id
    <3> SUFFICES ASSUME NEW n \in DOMAIN t.pending, NEW d \in t.products
                 PROVE  d.id # t.pending[n].id
        OBVIOUS
    <3>1. t.pending[n] = s.pending[n + 1] /\ n + 1 \in DOMAIN s.pending
        BY <2>1
    <3>2. CASE d \in s.products
        BY <1>3, <3>1, <3>2, SMTT(30)
    <3>3. CASE d = c
        BY <1>9, <2>2, <3>3
    <3>4. d \in s.products \/ d = c
        BY <1>2
    <3> QED
        BY <3>2, <3>3, <3>4, SMTT(30)
  <2>4. \A n, m \in DOMAIN t.pending : t.pending[n].id = t.pending[m].id => n = m
    <3> SUFFICES ASSUME NEW n \in DOMAIN t.pending, NEW m \in DOMAIN t.pending,
                        t.pending[n].id = t.pending[m].id
                 PROVE  n = m
        OBVIOUS
    <3>1. n + 1 = m + 1
        BY <1>3, <2>1
    <3>2. n \in Int /\ m \in Int
        BY <2>1
    <3> QED
        BY <3>1, <3>2
  <2> QED
      BY <1>2, <1>3, <2>1, <2>3, <2>4 DEF DetailsOK
<1>13. s.stage \in Early /\ s.stage # "rank"
    BY DEF Early
<1> QED
    BY <1>2, <1>10, <1>11, <1>12, <1>13, ReadingStep

LEMMA DetailsEnd ==
    ASSUME NEW s, NEW h, RunOK(s, h), s.stage = "details",
           NEW t, t = [s EXCEPT !.stage = "filter"]
    PROVE  RunOK(t, h)
<1>1. DOMAIN s = Fields /\ ProductsOK(s, h) /\ NoneMissing(s, h) /\ s.kind = "query"
    BY DEF RunOK, DetailsOK
<1>2. /\ DOMAIN t = Fields /\ t.kind = s.kind /\ t.intent = s.intent /\ t.stage = "filter"
      /\ t.ranked = s.ranked /\ t.advice = s.advice /\ t.result = s.result
      /\ t.status = s.status /\ t.plan = s.plan /\ t.done = s.done
      /\ t.planStatus = s.planStatus /\ t.errors = s.errors
      /\ t.answered = s.answered /\ t.products = s.products
    BY <1>1 DEF Fields
<1>3. ProductsOK(t, h) /\ NoneMissing(t, h) /\ MerchantsOK(t) /\ DetailsOK(t, h)
    BY <1>1, <1>2 DEF ProductsOK, NoneMissing, MerchantsOK, DetailsOK
<1>4. s.stage \in Early /\ s.stage # "rank" /\ t.stage \in Early \ {"rank"}
    BY <1>2 DEF Early
<1> QED
    BY <1>1, <1>2, <1>3, <1>4, ReadingStep

-----------------------------------------------------------------------------
(* From the filter to the answer                                           *)

\* The filter keeps what fits, and what it drops was not eligible.
LEMMA FilterKeeps ==
    ASSUME NEW s, NEW h, RunOK(s, h), HistoryOK(h),
           NEW F, F = filter_products(s.products, s.intent)
    PROVE  /\ F \subseteq s.products /\ IsChoice(F)
           /\ \A c \in F : Fit(c, h, s.intent, s.kind)
           /\ \A c \in s.products \ F : s.kind # "query" =>
                \E v \in h[c.id] : ~Eligible(s.intent, c.id, v, s.kind)
<1>1. ProductsOK(s, h) /\ IsIntent(s.intent)
    BY DEF RunOK
<1>2. /\ F \subseteq s.products
      /\ \A c \in s.products : c \in F <=> evaluate_candidate(c, s.intent) = {}
    BY DEF filter_products
<1>3. IsChoice(F)
    BY <1>1, <1>2, FS_Subset DEF IsChoice, ProductsOK
<1>4. ASSUME NEW c \in s.products
      PROVE  \E v \in h[c.id] :
                /\ c \in F => v.price = c.price /\ Eligible(s.intent, c.id, v, s.kind)
                /\ c \notin F /\ s.kind # "query" => ~Eligible(s.intent, c.id, v, s.kind)
  <2>1. c.id \in Products /\ Origins(c, h, s.intent, s.kind) # {}
      BY <1>1 DEF ProductsOK
  <2>2. PICK v \in h[c.id] :
          /\ v.active /\ v.price >= 0
          /\ c \in {OfSummary(Row(c.id, v)), OfDetail(Row(c.id, v))}
          /\ s.kind # "query" /\ s.intent.requireStock => Quantity(Row(c.id, v)) > 0
      BY <2>1 DEF Origins
  <2>3. v \in Shelves[c.id]
      BY <2>1, <2>2 DEF HistoryOK
  <2>4. c.price = v.price
      BY <2>1, <2>2, <2>3, CandidatesFit
  <2>5. /\ evaluate_candidate(c, s.intent) = {} => Eligible(s.intent, c.id, v, s.kind)
        /\ s.kind # "query" =>
             (evaluate_candidate(c, s.intent) # {} => ~Eligible(s.intent, c.id, v, s.kind))
      BY <1>1, <2>1, <2>2, <2>3, FilterDecides
  <2> QED
      BY <1>2, <2>4, <2>5
<1> QED
    BY <1>2, <1>3, <1>4 DEF Fit

LEMMA FilterStep ==
    ASSUME NEW s, NEW h, RunOK(s, h), HistoryOK(h), s.stage = "filter", NEW raises \in BOOLEAN,
           NEW t, t = apply_hard_constraints_node(s, raises)
    PROVE  RunOK(t, h)
<1>1. /\ DOMAIN s = Fields /\ s.kind \in Graph \union {"query", "client"} /\ IsIntent(s.intent)
      /\ ProductsOK(s, h) /\ NoneMissing(s, h) /\ MerchantsOK(s)
    BY DEF RunOK
<1>2. /\ s.ranked = None /\ s.advice = None /\ s.result = None
      /\ s.planStatus = "PLANNED"
      /\ s.kind \in Graph =>
           /\ s.status \notin {"FAILED", "CLARIFICATION_REQUIRED", "NO_MATCH"} /\ SearchOK(s)
           /\ ~s.intent.ambiguous /\ s.errors \intersect Fatal = {}
    BY EarlyRun DEF Early
<1>3. s.kind \in Graph => s.plan = Steps /\ {"DISCOVER", "NORMALIZE"} \subseteq s.done
    BY <1>2 DEF SearchOK, Early
<1>4. CASE raises /\ s.kind \in Graph
  <2>1. t = [s EXCEPT !.errors = s.errors \union {"CONSTRAINT_FILTER_FAILED"}, !.stage = "rank"]
      BY <1>4 DEF apply_hard_constraints_node, Raised
  <2>2. /\ DOMAIN t = Fields /\ t.kind = s.kind /\ t.intent = s.intent /\ t.stage = "rank"
        /\ t.ranked = None /\ t.advice = None /\ t.result = None
        /\ t.status = s.status /\ t.plan = s.plan /\ t.done = s.done
        /\ t.planStatus = "PLANNED"
        /\ t.errors = s.errors \union {"CONSTRAINT_FILTER_FAILED"}
        /\ t.answered = s.answered /\ t.products = s.products
      BY <1>1, <1>2, <2>1 DEF Fields
  <2>3. ProductsOK(t, h) /\ NoneMissing(t, h)
      BY <1>1, <2>2 DEF ProductsOK, NoneMissing
  <2>4. MerchantsOK(t) /\ DetailsOK(t, h)
      BY <1>1, <2>2 DEF MerchantsOK, DetailsOK
  <2>5. FilteredOK(t, h) /\ RankedOK(t)
      BY <2>2 DEF FilteredOK, RankedOK
  <2>6. StatusOK(t)
    <3>1. SearchOK(t)
        BY <1>3, <1>4, <2>2 DEF SearchOK, Late
    <3>2. t.errors \intersect Fatal = {}
        BY <1>2, <1>4, <2>2 DEF Fatal
    <3> QED
        BY <1>2, <1>4, <2>2, <3>1, <3>2 DEF StatusOK
  <2>7. ResultOK(t)
      BY <2>2 DEF ResultOK
  <2>8. t.stage \in Early \union Late
      BY <2>2 DEF Early
  <2> QED
      BY <1>1, <2>2, <2>3, <2>4, <2>5, <2>6, <2>7, <2>8 DEF RunOK
<1>5. CASE raises /\ s.kind \notin Graph
  <2>1. t = [s EXCEPT !.stage = "answered", !.result = "ERROR"]
      BY <1>5 DEF apply_hard_constraints_node, Raised
  <2> QED
      BY <1>5, <2>1, RequestFails
<1>6. CASE ~raises
  <2>1. PICK F : F = filter_products(s.products, s.intent)
      OBVIOUS
  <2>2. PICK u : u = Completed(s, {"APPLY_CONSTRAINTS"})
      OBVIOUS
  <2>3. t = [u EXCEPT !.products = F, !.stage = "rank"]
      BY <1>6, <2>1, <2>2 DEF apply_hard_constraints_node
  <2>4. /\ DOMAIN u = Fields /\ u.kind = s.kind /\ u.intent = s.intent
        /\ u.ranked = s.ranked /\ u.advice = s.advice /\ u.result = s.result
        /\ u.status = s.status
        /\ u.plan = s.plan /\ u.planStatus = s.planStatus /\ u.errors = s.errors
        /\ u.answered = s.answered
        /\ s.kind \in Graph => u.done = s.done \union {"APPLY_CONSTRAINTS"}
      BY <1>1, <2>2 DEF Completed, Fields
  <2>5. /\ DOMAIN t = Fields /\ t.kind = s.kind /\ t.intent = s.intent /\ t.stage = "rank"
        /\ t.ranked = None /\ t.advice = None /\ t.result = None
        /\ t.status = s.status /\ t.plan = s.plan
        /\ t.planStatus = "PLANNED" /\ t.errors = s.errors
        /\ t.answered = s.answered /\ t.products = F
        /\ s.kind \in Graph => t.done = s.done \union {"APPLY_CONSTRAINTS"}
      BY <1>2, <2>3, <2>4 DEF Fields
  <2>6. /\ F \subseteq s.products /\ IsChoice(F)
        /\ \A c \in F : Fit(c, h, s.intent, s.kind)
        /\ \A c \in s.products \ F : s.kind # "query" =>
             \E v \in h[c.id] : ~Eligible(s.intent, c.id, v, s.kind)
      BY <2>1, FilterKeeps
  <2>7. ProductsOK(t, h)
      BY <1>1, <2>5, <2>6 DEF ProductsOK
  <2>8. NoneMissing(t, h)
    <3> SUFFICES ASSUME s.kind \in Graph, NEW p \in Products, Listing[p].merchant \in s.answered,
                        ~CutOff(p, s.intent, h), ~Refused(p),
                        \A v \in h[p] : Eligible(s.intent, p, v, s.kind)
                 PROVE  \E c \in F : c.id = p
        BY <2>5 DEF NoneMissing
    <3>1. PICK c \in s.products : c.id = p
        BY <1>1 DEF NoneMissing
    <3>2. s.kind # "query"
        BY DEF Graph
    <3> QED
        BY <2>6, <3>1, <3>2
  <2>9. MerchantsOK(t) /\ DetailsOK(t, h)
      BY <1>1, <2>5, <2>6 DEF MerchantsOK, DetailsOK
  <2>10. FilteredOK(t, h) /\ RankedOK(t)
      BY <2>5, <2>6 DEF FilteredOK, RankedOK
  <2>11. StatusOK(t)
    <3>1. s.kind \in Graph => SearchOK(t)
        BY <1>3, <2>5 DEF SearchOK, Late
    <3> QED
        BY <1>2, <2>5, <3>1 DEF StatusOK
  <2>12. ResultOK(t)
      BY <2>5 DEF ResultOK
  <2>13. t.stage \in Early \union Late
      BY <2>5 DEF Early
  <2> QED
      BY <1>1, <2>5, <2>7, <2>8, <2>9, <2>10, <2>11, <2>12, <2>13 DEF RunOK
<1> QED
    BY <1>4, <1>5, <1>6

\* The ranking succeeds, or fails as a whole.
LEMMA RankStep ==
    ASSUME NEW s, NEW h, RunOK(s, h), s.stage = "rank", NEW t, t = rank_products_node(s)
    PROVE  RunOK(t, h)
<1>1. /\ DOMAIN s = Fields /\ s.kind \in Graph \union {"query", "client"} /\ IsIntent(s.intent)
      /\ ProductsOK(s, h) /\ NoneMissing(s, h) /\ MerchantsOK(s)
    BY DEF RunOK
<1>2. /\ s.ranked = None /\ s.advice = None /\ s.result = None
      /\ s.planStatus = "PLANNED"
      /\ s.kind \in Graph =>
           /\ s.status \notin {"FAILED", "CLARIFICATION_REQUIRED", "NO_MATCH"} /\ SearchOK(s)
           /\ ~s.intent.ambiguous /\ s.errors \intersect Fatal = {}
    BY EarlyRun DEF Early
<1>3. s.kind \in Graph =>
        /\ s.plan = Steps /\ {"DISCOVER", "NORMALIZE"} \subseteq s.done
        /\ "APPLY_CONSTRAINTS" \in s.done \/ "CONSTRAINT_FILTER_FAILED" \in s.errors
    BY <1>2 DEF SearchOK, Early
<1>4. \/ "CONSTRAINT_FILTER_FAILED" \in s.errors
      \/ \A c \in s.products : Fit(c, h, s.intent, s.kind)
    BY DEF RunOK, FilteredOK
<1>5. CASE Unrankable(s.products) /\ s.kind \in Graph
  <2>1. t = [s EXCEPT !.errors = s.errors \union {"RANKING_FAILED"}, !.stage = "recommend"]
      BY <1>5 DEF rank_products_node, Raised
  <2>2. /\ DOMAIN t = Fields /\ t.kind = s.kind /\ t.intent = s.intent /\ t.stage = "recommend"
        /\ t.ranked = None /\ t.advice = None /\ t.result = None
        /\ t.status = s.status /\ t.plan = s.plan /\ t.done = s.done
        /\ t.planStatus = "PLANNED" /\ t.errors = s.errors \union {"RANKING_FAILED"}
        /\ t.answered = s.answered /\ t.products = s.products
      BY <1>1, <1>2, <2>1 DEF Fields
  <2>3. ProductsOK(t, h) /\ NoneMissing(t, h)
      BY <1>1, <2>2 DEF ProductsOK, NoneMissing
  <2>4. MerchantsOK(t) /\ DetailsOK(t, h)
      BY <1>1, <2>2 DEF MerchantsOK, DetailsOK
  <2>5. FilteredOK(t, h) /\ RankedOK(t)
      BY <1>4, <2>2 DEF FilteredOK, RankedOK
  <2>6. StatusOK(t)
    <3>1. SearchOK(t)
        BY <1>3, <1>5, <2>2 DEF SearchOK
    <3>2. t.errors \intersect Fatal = {}
        BY <1>2, <1>5, <2>2 DEF Fatal
    <3> QED
        BY <1>2, <1>5, <2>2, <3>1, <3>2 DEF StatusOK
  <2>7. ResultOK(t)
      BY <2>2 DEF ResultOK
  <2>8. t.stage \in Early \union Late
      BY <2>2 DEF Late
  <2> QED
      BY <1>1, <2>2, <2>3, <2>4, <2>5, <2>6, <2>7, <2>8 DEF RunOK
<1>6. CASE Unrankable(s.products) /\ s.kind \notin Graph
  <2>1. t = [s EXCEPT !.stage = "answered", !.result = "ERROR"]
      BY <1>6 DEF rank_products_node, Raised
  <2> QED
      BY <1>6, <2>1, RequestFails
<1>7. CASE ~Unrankable(s.products)
  <2>1. PICK r : r = rank_products(s.products, s.intent)
      OBVIOUS
  <2>2. PICK u : u = Completed(s, {"RANK"})
      OBVIOUS
  <2>3. t = [u EXCEPT !.ranked = r, !.stage = "recommend"]
      BY <1>7, <2>1, <2>2 DEF rank_products_node
  <2>4. /\ DOMAIN u = Fields /\ u.kind = s.kind /\ u.intent = s.intent
        /\ u.advice = s.advice /\ u.result = s.result
        /\ u.status = s.status
        /\ u.plan = s.plan /\ u.planStatus = s.planStatus /\ u.errors = s.errors
        /\ u.answered = s.answered /\ u.products = s.products
        /\ s.kind \in Graph => u.done = s.done \union {"RANK"}
      BY <1>1, <2>2 DEF Completed, Fields
  <2>5. /\ DOMAIN t = Fields /\ t.kind = s.kind /\ t.intent = s.intent /\ t.stage = "recommend"
        /\ t.ranked = r /\ t.advice = None /\ t.result = None
        /\ t.status = s.status /\ t.plan = s.plan
        /\ t.planStatus = "PLANNED" /\ t.errors = s.errors
        /\ t.answered = s.answered /\ t.products = s.products
        /\ s.kind \in Graph => t.done = s.done \union {"RANK"}
      BY <1>2, <2>3, <2>4 DEF Fields
  <2>6. ProductsOK(t, h) /\ NoneMissing(t, h)
      BY <1>1, <2>5 DEF ProductsOK, NoneMissing
  <2>7. MerchantsOK(t) /\ DetailsOK(t, h)
      BY <1>1, <2>5 DEF MerchantsOK, DetailsOK
  <2>8. FilteredOK(t, h)
      BY <1>4, <2>5 DEF FilteredOK
  <2>9. RankedOK(t)
      BY <2>1, <2>5 DEF RankedOK, Early
  <2>10. StatusOK(t)
    <3>1. s.kind \in Graph => SearchOK(t)
        BY <1>3, <2>1, <2>5 DEF SearchOK
    <3> QED
        BY <1>2, <2>5, <3>1 DEF StatusOK, Late
  <2>11. ResultOK(t)
      BY <2>5 DEF ResultOK
  <2>12. t.stage \in Early \union Late
      BY <2>5 DEF Late
  <2> QED
      BY <1>1, <2>5, <2>6, <2>7, <2>8, <2>9, <2>10, <2>11, <2>12 DEF RunOK
<1> QED
    BY <1>5, <1>6, <1>7

\* The recommendation is built from the ranking, or fails.
LEMMA RecommendStep ==
    ASSUME NEW s, NEW h, RunOK(s, h), s.stage = "recommend", NEW raises \in BOOLEAN,
           NEW t, t = generate_recommendation_node(s, raises)
    PROVE  RunOK(t, h)
<1>1. /\ DOMAIN s = Fields /\ s.kind \in Graph \union {"query", "client"} /\ IsIntent(s.intent)
      /\ ProductsOK(s, h) /\ NoneMissing(s, h) /\ MerchantsOK(s)
      /\ RankedOK(s) /\ StatusOK(s) /\ ResultOK(s)
    BY DEF RunOK
<1>2. s.advice = None /\ s.result = None /\ s.planStatus = "PLANNED"
    BY <1>1 DEF RankedOK, ResultOK
<1>3. s.kind \in Graph =>
        /\ (s.status = "CLARIFICATION_REQUIRED") <=> s.intent.ambiguous
        /\ s.status \notin {"FAILED", "NO_MATCH"} /\ s.errors \intersect Fatal = {}
        /\ s.status = "CLARIFICATION_REQUIRED" => s.products = {} /\ s.ranked = None
        /\ s.status # "CLARIFICATION_REQUIRED" => SearchOK(s)
    BY <1>1 DEF StatusOK
<1>4. s.kind \in Graph /\ s.status # "CLARIFICATION_REQUIRED" =>
        /\ s.plan = Steps /\ {"DISCOVER", "NORMALIZE"} \subseteq s.done
        /\ "APPLY_CONSTRAINTS" \in s.done \/ "CONSTRAINT_FILTER_FAILED" \in s.errors
        /\ \/ "RANK" \in s.done /\ s.ranked = rank_products(s.products, s.intent)
           \/ "RANKING_FAILED" \in s.errors
    BY <1>3 DEF SearchOK, Late
<1>5. \/ "CONSTRAINT_FILTER_FAILED" \in s.errors
      \/ \A c \in s.products : Fit(c, h, s.intent, s.kind)
    BY DEF RunOK, FilteredOK
<1>6. s.ranked # None => s.ranked = rank_products(s.products, s.intent)
    BY <1>1 DEF RankedOK
<1>7. CASE raises /\ s.kind \in Graph
  <2>1. t = [s EXCEPT !.errors = s.errors \union {"RECOMMENDATION_FAILED"}, !.stage = "answer"]
      BY <1>7 DEF generate_recommendation_node, Raised
  <2>2. /\ DOMAIN t = Fields /\ t.kind = s.kind /\ t.intent = s.intent /\ t.stage = "answer"
        /\ t.ranked = s.ranked /\ t.advice = None /\ t.result = None
        /\ t.status = s.status /\ t.plan = s.plan /\ t.done = s.done
        /\ t.planStatus = "PLANNED" /\ t.errors = s.errors \union {"RECOMMENDATION_FAILED"}
        /\ t.answered = s.answered /\ t.products = s.products
      BY <1>1, <1>2, <2>1 DEF Fields
  <2>3. ProductsOK(t, h) /\ NoneMissing(t, h)
      BY <1>1, <2>2 DEF ProductsOK, NoneMissing
  <2>4. MerchantsOK(t) /\ DetailsOK(t, h)
      BY <1>1, <2>2 DEF MerchantsOK, DetailsOK
  <2>5. FilteredOK(t, h) /\ RankedOK(t)
      BY <1>5, <1>6, <2>2 DEF FilteredOK, RankedOK, Early
  <2>6. StatusOK(t)
    <3>1. s.status # "CLARIFICATION_REQUIRED" => SearchOK(t)
        BY <1>4, <1>7, <2>2 DEF SearchOK
    <3>2. t.errors \intersect Fatal = {}
        BY <1>3, <1>7, <2>2 DEF Fatal
    <3> QED
        BY <1>3, <1>7, <2>2, <3>1, <3>2 DEF StatusOK, Late
  <2>7. ResultOK(t)
      BY <2>2 DEF ResultOK
  <2>8. t.stage \in Early \union Late
      BY <2>2 DEF Late
  <2> QED
      BY <1>1, <2>2, <2>3, <2>4, <2>5, <2>6, <2>7, <2>8 DEF RunOK
<1>8. CASE raises /\ s.kind \notin Graph
  <2>1. t = [s EXCEPT !.stage = "answered", !.result = "ERROR"]
      BY <1>8 DEF generate_recommendation_node, Raised
  <2> QED
      BY <1>8, <2>1, RequestFails
<1>9. CASE ~raises
  <2>1. PICK a : a = build_recommendation_result(s)
      OBVIOUS
  <2>2. PICK step : step = IF s.status = "CLARIFICATION_REQUIRED" THEN "REQUEST_CLARIFICATION"
                                                                  ELSE "RECOMMEND"
      OBVIOUS
  <2>3. PICK u : u = Completed(s, {step})
      OBVIOUS
  <2>4. PICK status : status = IF a.top = None /\ u.status # "CLARIFICATION_REQUIRED"
                               THEN "NO_MATCH" ELSE u.status
      OBVIOUS
  <2>5. t = [u EXCEPT !.advice = a, !.stage = "answer", !.status = status]
      BY <1>9, <2>1, <2>2, <2>3, <2>4 DEF generate_recommendation_node
  <2>6. /\ DOMAIN u = Fields /\ u.kind = s.kind /\ u.intent = s.intent
        /\ u.ranked = s.ranked /\ u.result = s.result
        /\ u.status = s.status
        /\ u.plan = s.plan /\ u.planStatus = s.planStatus /\ u.errors = s.errors
        /\ u.answered = s.answered /\ u.products = s.products
        /\ s.kind \in Graph => u.done = s.done \union {step}
      BY <1>1, <2>3 DEF Completed, Fields
  <2>7. /\ DOMAIN t = Fields /\ t.kind = s.kind /\ t.intent = s.intent /\ t.stage = "answer"
        /\ t.ranked = s.ranked /\ t.advice = a /\ t.result = None
        /\ t.status = status /\ t.plan = s.plan
        /\ t.planStatus = "PLANNED" /\ t.errors = s.errors
        /\ t.answered = s.answered /\ t.products = s.products
        /\ s.kind \in Graph => t.done = s.done \union {step}
      BY <1>2, <2>5, <2>6 DEF Fields
  <2>8. ProductsOK(t, h) /\ NoneMissing(t, h)
      BY <1>1, <2>7 DEF ProductsOK, NoneMissing
  <2>9. MerchantsOK(t) /\ DetailsOK(t, h)
      BY <1>1, <2>7 DEF MerchantsOK, DetailsOK
  <2>10. build_recommendation_result(t) = a
      BY <2>1, <2>7, SameAdvice
  <2>11. FilteredOK(t, h) /\ RankedOK(t)
      BY <1>5, <1>6, <2>7, <2>10 DEF FilteredOK, RankedOK, Early
  <2>12. StatusOK(t)
    <3> SUFFICES ASSUME s.kind \in Graph
                 PROVE  StatusOK(t)
        BY <2>7 DEF StatusOK
    <3>1. CASE s.status = "CLARIFICATION_REQUIRED"
      <4>1. t.status = "CLARIFICATION_REQUIRED"
          BY <2>4, <2>6, <2>7, <3>1
      <4> QED
          BY <1>3, <2>7, <3>1, <4>1 DEF StatusOK, Late
    <3>2. CASE s.status # "CLARIFICATION_REQUIRED"
      <4>1. /\ step = "RECOMMEND" /\ t.status \notin {"FAILED", "CLARIFICATION_REQUIRED"}
            /\ t.status = "NO_MATCH" => a.top = None
          BY <1>3, <2>2, <2>4, <2>6, <2>7, <3>2
      <4>2. SearchOK(t)
          BY <1>4, <2>7, <3>2, <4>1 DEF SearchOK
      <4> QED
          BY <1>3, <2>7, <2>10, <3>2, <4>1, <4>2 DEF StatusOK
    <3> QED
        BY <3>1, <3>2
  <2>13. ResultOK(t)
      BY <2>7 DEF ResultOK
  <2>14. t.stage \in Early \union Late
      BY <2>7 DEF Late
  <2> QED
      BY <1>1, <2>7, <2>8, <2>9, <2>11, <2>12, <2>13, <2>14 DEF RunOK
<1> QED
    BY <1>7, <1>8, <1>9

\* Any answer that takes its status from the run and its advice from the
\* ranking.
LEMMA Answered ==
    ASSUME NEW s, NEW h, RunOK(s, h), s.stage = "answer",
           NEW t, DOMAIN t = Fields, t.kind = s.kind, t.intent = s.intent, t.stage = "answered",
           t.ranked = s.ranked, t.products = s.products, t.answered = s.answered,
           t.errors = s.errors, t.plan = s.plan, t.done = s.done,
           t.advice \in {s.advice, build_recommendation_result(s)},
           \/ t.status = s.status /\ t.planStatus = s.planStatus
           \/ /\ s.status \notin {"FAILED", "CLARIFICATION_REQUIRED", "NO_MATCH"}
              /\ s.kind \in Graph /\ t.status = "COMPLETED" /\ t.planStatus = "COMPLETED",
           ResultOK(t)
    PROVE  RunOK(t, h)
<1>1. /\ s.kind \in Graph \union {"query", "client"} /\ IsIntent(s.intent)
      /\ ProductsOK(s, h) /\ NoneMissing(s, h) /\ MerchantsOK(s)
      /\ FilteredOK(s, h) /\ RankedOK(s) /\ StatusOK(s)
    BY DEF RunOK
<1>2. ProductsOK(t, h) /\ NoneMissing(t, h)
    BY <1>1 DEF ProductsOK, NoneMissing
<1>3. MerchantsOK(t) /\ DetailsOK(t, h)
    BY <1>1 DEF MerchantsOK, DetailsOK
<1>4. build_recommendation_result(t) = build_recommendation_result(s)
    BY SameAdvice
<1>5. FilteredOK(t, h) /\ RankedOK(t)
    BY <1>1, <1>4 DEF FilteredOK, RankedOK, Early
<1>6. StatusOK(t)
  <2> SUFFICES ASSUME s.kind \in Graph
               PROVE  StatusOK(t)
      BY DEF StatusOK
  <2>1. SearchOK(s) => SearchOK(t)
      BY DEF SearchOK, Late
  <2>2. CASE t.status = s.status
      BY <1>1, <1>4, <2>1, <2>2 DEF StatusOK, Late
  <2>3. CASE t.status = "COMPLETED" /\ s.status \notin {"FAILED", "CLARIFICATION_REQUIRED", "NO_MATCH"}
      BY <1>1, <1>4, <2>1, <2>3 DEF StatusOK, Late
  <2> QED
      BY <2>2, <2>3
<1>7. t.stage \in Early \union Late
    BY DEF Late
<1> QED
    BY <1>1, <1>2, <1>3, <1>5, <1>6, <1>7 DEF RunOK

\* The request is answered.
LEMMA AnswerStep ==
    ASSUME NEW s, NEW h, RunOK(s, h), s.stage = "answer", NEW raises \in BOOLEAN,
           raises => s.kind = "shopping",
           NEW c, c = (IF s.kind \in Graph THEN complete_node(s) ELSE s),
           NEW d, d = (IF c.advice = None THEN [c EXCEPT !.advice = build_recommendation_result(c)]
                                          ELSE c),
           NEW t, \/ raises /\ t = [c EXCEPT !.stage = "answered", !.result = "ERROR"]
                  \/ /\ ~raises /\ c.kind = "shopping"
                     /\ t = [d EXCEPT !.stage = "answered", !.result = FinalStatus(d)]
                  \/ /\ ~raises /\ c.kind = "sessions"
                     /\ t = [c EXCEPT !.stage = "answered", !.result = c.status]
                  \/ /\ c.kind \notin Graph
                     /\ t = [c EXCEPT !.stage = "answered", !.result = "ANSWERED"]
    PROVE  RunOK(t, h)
<1>1. /\ DOMAIN s = Fields /\ s.kind \in Graph \union {"query", "client"}
      /\ s.result = None /\ s.planStatus = "PLANNED"
      /\ s.advice \in {None, build_recommendation_result(s)}
    BY DEF RunOK, RankedOK, ResultOK
<1>2. /\ DOMAIN c = Fields /\ c.kind = s.kind /\ c.intent = s.intent
      /\ c.ranked = s.ranked /\ c.products = s.products /\ c.answered = s.answered
      /\ c.down = s.down
      /\ c.errors = s.errors /\ c.plan = s.plan /\ c.done = s.done /\ c.advice = s.advice
      /\ \/ c.status = s.status /\ c.planStatus = s.planStatus
         \/ /\ s.status \notin {"FAILED", "CLARIFICATION_REQUIRED", "NO_MATCH"}
            /\ s.kind \in Graph /\ c.status = "COMPLETED" /\ c.planStatus = "COMPLETED"
  <2>1. CASE c = s
      BY <1>1, <2>1
  <2>2. CASE s.kind \in Graph /\ s.status \notin {"FAILED", "CLARIFICATION_REQUIRED", "NO_MATCH"}
    <3>1. c = [s EXCEPT !.status = "COMPLETED", !.planStatus = "COMPLETED"]
        BY <2>2 DEF complete_node
    <3> QED
        BY <1>1, <2>2, <3>1 DEF Fields
  <2> QED
      BY <2>1, <2>2 DEF complete_node
<1>3. /\ c.planStatus \in {"PLANNED", "COMPLETED"}
      /\ c.planStatus = "COMPLETED" =>
           s.kind \in Graph /\ c.status \notin {"FAILED", "CLARIFICATION_REQUIRED"}
    BY <1>1, <1>2
<1>4. build_recommendation_result(c) = build_recommendation_result(s)
    BY <1>2, SameAdvice
<1>5. /\ DOMAIN d = Fields /\ d.kind = s.kind /\ d.intent = s.intent
      /\ d.ranked = s.ranked /\ d.products = s.products /\ d.answered = s.answered
      /\ d.down = s.down
      /\ d.errors = s.errors /\ d.plan = s.plan /\ d.done = s.done
      /\ d.advice = build_recommendation_result(s)
      /\ d.status = c.status /\ d.planStatus = c.planStatus
  <2>1. CASE c.advice = None
      BY <1>2, <1>4, <2>1 DEF Fields
  <2>2. CASE c.advice # None
      BY <1>1, <1>2, <2>2
  <2> QED
      BY <2>1, <2>2
<1>6. CASE raises /\ t = [c EXCEPT !.stage = "answered", !.result = "ERROR"]
  <2>1. /\ DOMAIN t = Fields /\ t.kind = s.kind /\ t.intent = s.intent /\ t.stage = "answered"
        /\ t.ranked = s.ranked /\ t.products = s.products /\ t.answered = s.answered
        /\ t.errors = s.errors /\ t.plan = s.plan /\ t.done = s.done /\ t.advice = s.advice
        /\ t.status = c.status /\ t.planStatus = c.planStatus /\ t.result = "ERROR"
      BY <1>2, <1>6 DEF Fields
  <2>2. ResultOK(t)
      BY <1>3, <1>6, <2>1 DEF ResultOK, Graph
  <2> QED
      BY <1>2, <2>1, <2>2, Answered
<1>7. CASE /\ ~raises /\ c.kind = "shopping"
           /\ t = [d EXCEPT !.stage = "answered", !.result = FinalStatus(d)]
  <2>1. PICK r : r = FinalStatus(d)
      OBVIOUS
  <2>2. /\ DOMAIN t = Fields /\ t.kind = s.kind /\ t.intent = s.intent /\ t.stage = "answered"
        /\ t.ranked = s.ranked /\ t.products = s.products /\ t.answered = s.answered
        /\ t.down = s.down
        /\ t.errors = s.errors /\ t.plan = s.plan /\ t.done = s.done
        /\ t.advice = build_recommendation_result(s)
        /\ t.status = c.status /\ t.planStatus = c.planStatus /\ t.result = r
      BY <1>5, <1>7, <2>1 DEF Fields
  <2>3. FinalStatus(t) = r
      BY <1>5, <2>1, <2>2 DEF FinalStatus, Partial
  <2>4. build_recommendation_result(t) = build_recommendation_result(s)
      BY <2>2, SameAdvice
  <2>5. ResultOK(t)
      BY <1>2, <1>3, <1>7, <2>2, <2>3, <2>4 DEF ResultOK, Graph
  <2> QED
      BY <1>2, <2>2, <2>5, Answered
<1>8. CASE /\ ~raises /\ c.kind = "sessions"
           /\ t = [c EXCEPT !.stage = "answered", !.result = c.status]
  <2>1. /\ DOMAIN t = Fields /\ t.kind = s.kind /\ t.intent = s.intent /\ t.stage = "answered"
        /\ t.ranked = s.ranked /\ t.products = s.products /\ t.answered = s.answered
        /\ t.errors = s.errors /\ t.plan = s.plan /\ t.done = s.done /\ t.advice = s.advice
        /\ t.status = c.status /\ t.planStatus = c.planStatus /\ t.result = c.status
      BY <1>2, <1>8 DEF Fields
  <2>2. ResultOK(t)
      BY <1>2, <1>3, <1>8, <2>1 DEF ResultOK, Graph
  <2> QED
      BY <1>2, <2>1, <2>2, Answered
<1>9. CASE /\ c.kind \notin Graph
            /\ t = [c EXCEPT !.stage = "answered", !.result = "ANSWERED"]
  <2>1. /\ DOMAIN t = Fields /\ t.kind = s.kind /\ t.intent = s.intent /\ t.stage = "answered"
        /\ t.ranked = s.ranked /\ t.products = s.products /\ t.answered = s.answered
        /\ t.errors = s.errors /\ t.plan = s.plan /\ t.done = s.done /\ t.advice = s.advice
        /\ t.status = c.status /\ t.planStatus = c.planStatus /\ t.result = "ANSWERED"
      BY <1>2, <1>9 DEF Fields
  <2>2. ResultOK(t)
      BY <1>2, <1>3, <1>9, <2>1 DEF ResultOK, Graph
  <2> QED
      BY <1>2, <2>1, <2>2, Answered
<1> QED
    BY <1>6, <1>7, <1>8, <1>9

-----------------------------------------------------------------------------
(* The invariant is inductive                                              *)

LEMMA AgentStarts == Init => AgentInv
<1> SUFFICES ASSUME Init
             PROVE  AgentInv
    OBVIOUS
<1>1. shelf = FirstShelf /\ talk = Silence /\ run = None /\ past = [p \in Products |-> {}]
    BY DEF Init
<1>2. IsIntent(talk.intent)
    BY <1>1, NoWishesFits DEF Silence
<1>3. \A p \in Products : shelf[p] \in Shelves[p]
    BY <1>1, ShelvesAssumption
<1>4. DOMAIN shelf = Products
    BY <1>1, ShelvesAssumption
<1>5. DOMAIN past = Products /\ HistoryOK(past)
    BY <1>1 DEF HistoryOK
<1> QED
    BY <1>1, <1>2, <1>3, <1>4, <1>5 DEF AgentInv

\* A step of a run leaves the catalogue and the conversation alone.
LEMMA RunSteps ==
    ASSUME AgentInv, run # None, UNCHANGED <<shelf, talk, past>>, RunOK(run', past)
    PROVE  AgentInv'
BY DEF AgentInv, RunOK, HistoryOK

LEMMA QueryMerchantStep ==
    ASSUME AgentInv, QueryMerchant
    PROVE  AgentInv'
<1>1. /\ run # None /\ run.stage = "discover" /\ run.pending # <<>>
      /\ RunOK(run, past) /\ HistoryOK(past) /\ \A p \in Products : shelf[p] \in past[p]
      /\ DOMAIN run = Fields
    BY DEF AgentInv, QueryMerchant, Reached, RunOK
<1>2. PICK m : m = Head(run.pending)
    OBVIOUS
<1>3. PICK next : next = [run EXCEPT !.pending = Tail(run.pending)]
    OBVIOUS
<1>4. /\ DOMAIN next = Fields /\ next.answered = run.answered /\ next.down = run.down
      /\ next.products = run.products
    BY <1>1, <1>3 DEF Fields
<1>5. CASE \E page \in Pages(RowsOf({m}), run.intent) :
              Becomes([next EXCEPT !.answered = next.answered \union {m},
                                   !.products = next.products \union Normalized(page)])
  <2>1. PICK page \in Pages(RowsOf({m}), run.intent) :
              Becomes([next EXCEPT !.answered = next.answered \union {m},
                                   !.products = next.products \union Normalized(page)])
      BY <1>5
  <2>2. PICK t : t = [run EXCEPT !.pending = Tail(run.pending),
                                 !.answered = run.answered \union {m},
                                 !.products = run.products \union Normalized(page)]
      OBVIOUS
  <2>3. t = [next EXCEPT !.answered = next.answered \union {m},
                         !.products = next.products \union Normalized(page)]
      BY <1>1, <1>3, <1>4, <2>2 DEF Fields
  <2>4. RunOK(t, past)
      BY <1>1, <1>2, <2>2, MerchantAnswers
  <2> QED
      BY <1>1, <2>1, <2>3, <2>4, RunSteps DEF Becomes
<1>6. CASE Becomes([next EXCEPT !.down = next.down \union {m}])
  <2>1. PICK down : down = next.down \union {m}
      OBVIOUS
  <2>2. PICK t : t = [run EXCEPT !.pending = Tail(run.pending), !.down = down]
      OBVIOUS
  <2>3. t = [next EXCEPT !.down = down]
      BY <1>1, <1>3, <1>4, <2>2 DEF Fields
  <2>4. RunOK(t, past)
      BY <1>1, <2>2, MerchantFails
  <2> QED
      BY <1>1, <1>6, <2>1, <2>3, <2>4, RunSteps DEF Becomes
<1> QED
    BY <1>2, <1>3, <1>5, <1>6 DEF QueryMerchant

LEMMA ReadDetailStep ==
    ASSUME AgentInv, ReadDetail
    PROVE  AgentInv'
<1>1. /\ run # None /\ run.stage = "details" /\ run.pending # <<>>
      /\ RunOK(run, past) /\ HistoryOK(past) /\ \A p \in Products : shelf[p] \in past[p]
      /\ DOMAIN run = Fields /\ run.kind = "query"
    BY DEF AgentInv, ReadDetail, Reached, RunOK, DetailsOK
<1>2. PICK item : item = Head(run.pending)
    OBVIOUS
<1>3. PICK now : now = Row(item.id, shelf[item.id])
    OBVIOUS
<1>4. PICK next : next = [run EXCEPT !.pending = Tail(run.pending)]
    OBVIOUS
<1>5. PICK row, c :
        /\ row = item \/ (row = now /\ now.active)
        /\ c = (IF now.active THEN OfDetail(row) ELSE OfSummary(row))
        /\ Becomes(IF Malformed(row) THEN Raised(run, "MALFORMED", "answered")
                   ELSE [next EXCEPT !.products = next.products \union {c}])
    BY <1>2, <1>3, <1>4 DEF ReadDetail
<1>6. DOMAIN next = Fields /\ next.products = run.products
    BY <1>1, <1>4 DEF Fields
<1>7. Becomes(IF Malformed(row) THEN Raised(run, "MALFORMED", "answered")
              ELSE [next EXCEPT !.products = next.products \union {c}])
    BY <1>5
<1>8. CASE Malformed(row)
  <2>1. PICK t : t = [run EXCEPT !.stage = "answered", !.result = "ERROR"]
      OBVIOUS
  <2>2. run.kind \notin Graph /\ Raised(run, "MALFORMED", "answered") = t
      BY <1>1, <2>1 DEF Raised, Graph
  <2>3. RunOK(t, past)
      BY <1>1, <2>1, <2>2, RequestFails
  <2> QED
      BY <1>1, <1>7, <1>8, <2>2, <2>3, RunSteps DEF Becomes
<1>9. CASE ~Malformed(row)
  <2>1. PICK t : t = [run EXCEPT !.pending = Tail(run.pending),
                                 !.products = run.products \union {c}]
      OBVIOUS
  <2>2. t = [next EXCEPT !.products = next.products \union {c}]
      BY <1>1, <1>4, <1>6, <2>1, SMTT(40) DEF Fields
  <2>3. RunOK(t, past)
      BY <1>1, <1>2, <1>3, <1>5, <1>9, <2>1, DetailIsRead
  <2> QED
      BY <1>1, <1>7, <1>9, <2>2, <2>3, RunSteps DEF Becomes
<1> QED
    BY <1>8, <1>9

LEMMA AnswerGiven ==
    ASSUME AgentInv, NEW raises \in BOOLEAN, Answer(raises)
    PROVE  AgentInv'
<1>1. run # None /\ run.stage = "answer" /\ RunOK(run, past) /\ (raises => run.kind = "shopping")
    BY DEF AgentInv, Answer, Reached
<1>2. PICK c : c = (IF run.kind \in Graph THEN complete_node(run) ELSE run)
    OBVIOUS
<1>3. PICK d : d = (IF c.advice = None THEN [c EXCEPT !.advice = build_recommendation_result(c)]
                                       ELSE c)
    OBVIOUS
<1>4. Becomes(CASE raises -> [c EXCEPT !.stage = "answered", !.result = "ERROR"]
                [] ~raises /\ c.kind = "shopping" ->
                     [d EXCEPT !.stage = "answered", !.result = FinalStatus(d)]
                [] ~raises /\ c.kind = "sessions" ->
                     [c EXCEPT !.stage = "answered", !.result = c.status]
                [] OTHER -> [c EXCEPT !.stage = "answered", !.result = "ANSWERED"])
    BY <1>2, <1>3 DEF Answer
<1>5. run' = (CASE raises -> [c EXCEPT !.stage = "answered", !.result = "ERROR"]
                [] ~raises /\ c.kind = "shopping" ->
                     [d EXCEPT !.stage = "answered", !.result = FinalStatus(d)]
                [] ~raises /\ c.kind = "sessions" ->
                     [c EXCEPT !.stage = "answered", !.result = c.status]
                [] OTHER -> [c EXCEPT !.stage = "answered", !.result = "ANSWERED"])
      /\ UNCHANGED <<shelf, talk, past>>
    BY <1>4 DEF Becomes
<1>6. \/ raises /\ run' = [c EXCEPT !.stage = "answered", !.result = "ERROR"]
      \/ /\ ~raises /\ c.kind = "shopping"
         /\ run' = [d EXCEPT !.stage = "answered", !.result = FinalStatus(d)]
      \/ /\ ~raises /\ c.kind = "sessions"
         /\ run' = [c EXCEPT !.stage = "answered", !.result = c.status]
      \/ /\ c.kind \notin Graph
         /\ run' = [c EXCEPT !.stage = "answered", !.result = "ANSWERED"]
  <2>1. CASE raises
      BY <1>5, <2>1
  <2>2. CASE ~raises /\ c.kind = "shopping"
      BY <1>5, <2>2
  <2>3. CASE ~raises /\ c.kind = "sessions"
      BY <1>5, <2>3
  <2>4. CASE ~raises /\ c.kind \notin Graph
      BY <1>5, <2>4 DEF Graph
  <2> QED
      BY <2>1, <2>2, <2>3, <2>4 DEF Graph
<1>7. PICK t : t = run'
    OBVIOUS
<1>8. RunOK(t, past)
  <2>1. CASE raises /\ t = [c EXCEPT !.stage = "answered", !.result = "ERROR"]
      BY <1>1, <1>2, <1>3, <2>1, AnswerStep, ZenonT(60)
  <2>2. CASE /\ ~raises /\ c.kind = "shopping"
             /\ t = [d EXCEPT !.stage = "answered", !.result = FinalStatus(d)]
      BY <1>1, <1>2, <1>3, <2>2, AnswerStep, ZenonT(60)
  <2>3. CASE /\ ~raises /\ c.kind = "sessions"
             /\ t = [c EXCEPT !.stage = "answered", !.result = c.status]
      BY <1>1, <1>2, <1>3, <2>3, AnswerStep, ZenonT(60)
  <2>4. CASE /\ c.kind \notin Graph
             /\ t = [c EXCEPT !.stage = "answered", !.result = "ANSWERED"]
      BY <1>1, <1>2, <1>3, <2>4, AnswerStep
  <2> QED
      BY <1>6, <1>7, <2>1, <2>2, <2>3, <2>4, SMTT(40)
<1> QED
    BY <1>1, <1>5, <1>7, <1>8, RunSteps

LEMMA AgentSteps == AgentInv /\ [Next]_vars => AgentInv'
<1> SUFFICES ASSUME AgentInv, [Next]_vars
             PROVE  AgentInv'
    OBVIOUS
<1>1. /\ IsIntent(talk.intent) /\ \A p \in Products : shelf[p] \in Shelves[p]
      /\ DOMAIN past = Products /\ HistoryOK(past)
      /\ DOMAIN shelf = Products
      /\ run # None => RunOK(run, past) /\ \A p \in Products : shelf[p] \in past[p]
    BY DEF AgentInv
<1>2. /\ DOMAIN Seen = Products /\ HistoryOK(Seen) /\ \A p \in Products : shelf[p] \in Seen[p]
    BY <1>1 DEF Seen, HistoryOK
<1>3. ASSUME NEW m \in Messages, Converse(m) PROVE AgentInv'
  <2>1. IsIntent(talk'.intent)
      BY <1>1, <1>3, IntentsFit DEF Converse
  <2>2. UNCHANGED <<shelf, run, past>> /\ run = None
      BY <1>3 DEF Converse
  <2> QED
      BY <1>1, <2>1, <2>2 DEF AgentInv, HistoryOK
<1>4. ASSUME talk' \in {Silence, talk}, UNCHANGED shelf, past' = Seen, RunOK(run', past')
      PROVE  AgentInv'
  <2>1. IsIntent(talk'.intent)
      BY <1>1, <1>4, NoWishesFits DEF Silence
  <2>2. DOMAIN past' = Products /\ HistoryOK(past') /\ \A p \in Products : shelf'[p] \in past'[p]
      BY <1>2, <1>4
  <2> QED
      BY <1>1, <1>4, <2>1, <2>2 DEF AgentInv, HistoryOK, RunOK
<1>5. ASSUME NEW kind \in Graph, NEW m \in Messages, StartGraph(kind, m) PROVE AgentInv'
  <2>1. RunOK(run', past')
      BY <1>5, GraphStarts DEF StartGraph
  <2> QED
      BY <1>4, <1>5, <2>1 DEF StartGraph
<1>6. ASSUME NEW m \in Messages, StartQuery(m) PROVE AgentInv'
  <2>1. PICK i : i = parse_intent(m, NoWishes)
      OBVIOUS
  <2>2. PICK s : s = create_initial_state("query")
      OBVIOUS
  <2>3. \/ i = None /\ run' = Raised(s, "INTENT_INVALID", "answered")
        \/ i # None /\ i.ambiguous
           /\ run' = [s EXCEPT !.intent = i, !.advice = NoAdvice,
                               !.stage = "answered", !.result = "ANSWERED"]
        \/ i # None /\ ~i.ambiguous /\ run' = [s EXCEPT !.intent = i, !.stage = "search"]
      BY <1>6, <2>1, <2>2 DEF StartQuery
  <2>4. PICK t : t = run'
      OBVIOUS
  <2>5. RunOK(t, past')
    <3>1. CASE i = None /\ t = Raised(s, "INTENT_INVALID", "answered")
        BY <2>1, <2>2, <3>1, QueryStarts
    <3>2. CASE i # None /\ i.ambiguous
               /\ t = [s EXCEPT !.intent = i, !.advice = NoAdvice,
                                !.stage = "answered", !.result = "ANSWERED"]
        BY <2>1, <2>2, <3>2, QueryStarts
    <3>3. CASE i # None /\ ~i.ambiguous /\ t = [s EXCEPT !.intent = i, !.stage = "search"]
        BY <2>1, <2>2, <3>3, QueryStarts
    <3> QED
        BY <2>3, <2>4, <3>1, <3>2, <3>3
  <2> QED
      BY <1>4, <1>6, <2>4, <2>5 DEF StartQuery
<1>7. ASSUME NEW named \in Named, StartClient(named) PROVE AgentInv'
  <2>1. RunOK(run', past')
      BY <1>1, <1>7, ClientStarts DEF StartClient
  <2> QED
      BY <1>4, <1>7, <2>1 DEF StartClient
<1>8. ASSUME Search PROVE AgentInv'
  <2>1. run # None /\ run.stage = "search"
      BY <1>8 DEF Search, Reached
  <2>2. PICK page \in Pages(RowsOf(Merchants), Unbounded) :
          Becomes([run EXCEPT !.pending = Lists!SetToSeq(page), !.stage = "details"])
      BY <1>8 DEF Search
  <2>3. PICK t : t = [run EXCEPT !.pending = Lists!SetToSeq(page), !.stage = "details"]
      OBVIOUS
  <2>4. RunOK(t, past)
      BY <1>1, <2>1, <2>3, SearchReturns
  <2> QED
      BY <2>1, <2>2, <2>3, <2>4, RunSteps DEF Becomes
<1>9. ASSUME FinishDetails PROVE AgentInv'
  <2>1. run # None /\ run.stage = "details" /\ Becomes([run EXCEPT !.stage = "filter"])
      BY <1>9 DEF FinishDetails, Reached
  <2>2. RunOK(run', past)
      BY <1>1, <2>1, DetailsEnd DEF Becomes
  <2> QED
      BY <2>1, <2>2, RunSteps DEF Becomes
<1>10. ASSUME Rank PROVE AgentInv'
  <2>1. run # None /\ run.stage = "rank" /\ Becomes(rank_products_node(run))
      BY <1>10 DEF Rank, Reached
  <2>2. RunOK(run', past)
      BY <1>1, <2>1, RankStep DEF Becomes
  <2> QED
      BY <2>1, <2>2, RunSteps DEF Becomes
<1>11. ASSUME NEW raises \in BOOLEAN, FinishDiscovery(raises) PROVE AgentInv'
  <2>1. run # None /\ run.stage = "discover" /\ Becomes(EndOfDiscovery(run, raises))
      BY <1>11 DEF FinishDiscovery, Reached
  <2>2. RunOK(run', past)
      BY <1>1, <2>1, DiscoveryEnds DEF Becomes
  <2> QED
      BY <2>1, <2>2, RunSteps DEF Becomes
<1>12. ASSUME NEW raises \in BOOLEAN, Filter(raises) PROVE AgentInv'
  <2>1. run # None /\ run.stage = "filter" /\ Becomes(apply_hard_constraints_node(run, raises))
      BY <1>12 DEF Filter, Reached
  <2>2. RunOK(run', past)
      BY <1>1, <2>1, FilterStep DEF Becomes
  <2> QED
      BY <2>1, <2>2, RunSteps DEF Becomes
<1>13. ASSUME NEW raises \in BOOLEAN, Recommend(raises) PROVE AgentInv'
  <2>1. run # None /\ run.stage = "recommend" /\ Becomes(generate_recommendation_node(run, raises))
      BY <1>13 DEF Recommend, Reached
  <2>2. RunOK(run', past)
      BY <1>1, <2>1, RecommendStep DEF Becomes
  <2> QED
      BY <2>1, <2>2, RunSteps DEF Becomes
<1>14. ASSUME NEW p \in Products, NEW v \in Shelves[p], ChangeShelf(p, v) PROVE AgentInv'
  <2>1. /\ run # None /\ UNCHANGED <<talk, run>>
        /\ shelf' = [shelf EXCEPT ![p] = v] /\ past' = [past EXCEPT ![p] = past[p] \union {v}]
      BY <1>14 DEF ChangeShelf
  <2>2. DOMAIN past' = Products /\ HistoryOK(past') /\ \A q \in Products : past[q] \subseteq past'[q]
      BY <1>1, <2>1 DEF HistoryOK
  <2>3. \A q \in Products : shelf'[q] \in Shelves[q] /\ shelf'[q] \in past'[q]
      BY <1>1, <2>1
  <2>4. DOMAIN shelf' = Products
      BY <1>1, <2>1
  <2>5. RunOK(run, past')
      BY <1>1, <2>1, <2>2, HistoryGrows
  <2>6. RunOK(run', past')
      BY <2>1, <2>5
  <2>7. IsIntent(talk'.intent)
      BY <1>1, <2>1
  <2> QED
      BY <2>2, <2>3, <2>4, <2>6, <2>7 DEF AgentInv, HistoryOK, RunOK
<1>15. CASE UNCHANGED vars
    BY <1>15 DEF vars, AgentInv, HistoryOK, RunOK
<1> QED
    BY <1>3, <1>5, <1>6, <1>7, <1>8, <1>9, <1>10, <1>11, <1>12, <1>13, <1>14, <1>15,
       QueryMerchantStep, ReadDetailStep, AnswerGiven DEF Next, Advance

-----------------------------------------------------------------------------
(* What the invariant says                                                 *)

\* A run's ranking is that of its products, and its advice names ranked ones.
LEMMA RankedRun ==
    ASSUME NEW s, NEW h, RunOK(s, h), s.ranked # None,
           NEW a, a = build_recommendation_result(s)
    PROVE  /\ Fair(s.ranked) /\ Picks(a) \subseteq Elements(s.ranked)
           /\ a.top = None <=> s.ranked = <<>>
           /\ \A x \in Elements(s.ranked) : x.candidate \in s.products
           /\ s.ranked = <<>> => s.products = {}
<1>1. /\ s.ranked = rank_products(s.products, s.intent) /\ IsIntent(s.intent)
      /\ ProductsOK(s, h) /\ IsChoice(s.products)
    BY DEF RunOK, RankedOK, ProductsOK
<1>2. /\ s.ranked \in Seq(ScoreRows)
      /\ \A x \in Elements(s.ranked) : x # None /\ x.candidate \in s.products
      /\ IsPool(Elements(s.ranked)) /\ Fair(s.ranked)
      /\ s.ranked = <<>> => \A c \in s.products : ~(c.price >= 0)
    BY <1>1, RankingFits
<1>3. Picks(a) \subseteq Elements(s.ranked) /\ (a.top = None <=> s.ranked = <<>>)
    BY <1>2, AdviceFits
<1>4. ASSUME s.ranked = <<>>, NEW c \in s.products
      PROVE  FALSE
  <2>1. c.id \in Products /\ Origins(c, h, s.intent, s.kind) # {}
      BY <1>1, <1>4 DEF ProductsOK
  <2>2. ~(c.price >= 0)
      BY <1>2, <1>4
  <2>3. PICK v \in h[c.id] :
          /\ v.price >= 0 /\ c \in {OfSummary(Row(c.id, v)), OfDetail(Row(c.id, v))}
      BY <2>1 DEF Origins
  <2>4. c.price = v.price
      BY <2>3, RowFields DEF OfSummary, OfDetail, Candidate
  <2> QED
      BY <2>2, <2>3, <2>4
<1> QED
    BY <1>2, <1>3, <1>4

\* Without a ranking nothing is recommended.
LEMMA NothingRanked ==
    ASSUME NEW s, s.ranked = None
    PROVE  /\ build_recommendation_result(s).top = None
           /\ Picks(build_recommendation_result(s)) = {}
<1>1. build_recommendation_result(s) = NoAdvice
    BY DEF build_recommendation_result
<1>2. /\ NoAdvice.top = None /\ NoAdvice.value = None /\ NoAdvice.fastest = None
      /\ NoAdvice.others = <<>>
    BY DEF NoAdvice
<1>3. Elements(<<>>) = {}
    BY DEF Elements
<1>4. Picks(NoAdvice) = {}
    BY <1>2, <1>3 DEF Picks
<1> QED
    BY <1>1, <1>2, <1>4

LEMMA InvariantHolds == Spec => []AgentInv
<1>1. Init => AgentInv
    BY AgentStarts
<1>2. AgentInv /\ [Next]_vars => AgentInv'
    BY AgentSteps
<1> QED
    BY <1>1, <1>2, PTL DEF Spec

\* Whatever the catalogue does while a run reads it, every product that is
\* recommended met, at one moment of the run and at the price shown, every hard
\* constraint of the request; or the errors say that the filter failed.
THEOREM RecommendationsFit == Spec => []RecommendedIsEligible
<1>1. AgentInv => RecommendedIsEligible
  <2> SUFFICES ASSUME AgentInv, run # None, run.advice # None,
                      "CONSTRAINT_FILTER_FAILED" \notin run.errors,
                      NEW x \in Picks(run.advice)
               PROVE  \E v \in past[x.candidate.id] :
                        /\ v.price = x.candidate.price
                        /\ Eligible(run.intent, x.candidate.id, v, run.kind)
      BY DEF RecommendedIsEligible
  <2>1. RunOK(run, past)
      BY DEF AgentInv
  <2>2. run.advice = build_recommendation_result(run)
      BY <2>1 DEF RunOK, RankedOK
  <2>3. run.ranked # None
      BY <2>2, NothingRanked
  <2>4. x.candidate \in run.products
      BY <2>1, <2>2, <2>3, RankedRun
  <2>5. Fit(x.candidate, past, run.intent, run.kind)
      BY <2>1, <2>4 DEF RunOK, FilteredOK
  <2> QED
      BY <2>5 DEF Fit
<1> QED
    BY <1>1, InvariantHolds, PTL

\* "Nothing matches", said without an error, is true: each product of a merchant
\* that answered failed a constraint at some moment of the run, or was perhaps
\* beyond the first page, or has a negative base price, and was dropped unsaid.
THEOREM NoMatchIsNone == Spec => []NoMatchMeansNone
<1>1. AgentInv => NoMatchMeansNone
  <2> SUFFICES ASSUME AgentInv, run # None, run.result = "NO_MATCH", run.errors = {},
                      NEW p \in Products
               PROVE  \/ Listing[p].merchant \notin run.answered
                      \/ CutOff(p, run.intent, past) \/ Refused(p)
                      \/ \E v \in past[p] : ~Eligible(run.intent, p, v, run.kind)
      BY DEF NoMatchMeansNone
  <2>1. RunOK(run, past) /\ NoneMissing(run, past) /\ StatusOK(run) /\ ResultOK(run)
      BY DEF AgentInv, RunOK
  <2>2. run.result # None
      BY NoneAssumption
  <2>3. run.kind \in Graph /\ run.stage = "answered"
      BY <2>1, <2>2 DEF ResultOK
  <2>4. /\ run.status \notin {"FAILED", "CLARIFICATION_REQUIRED"}
        /\ build_recommendation_result(run).top = None
    <3>1. CASE run.kind = "shopping"
      <4>1. run.result = FinalStatus(run) /\ run.advice = build_recommendation_result(run)
          BY <2>1, <2>2, <3>1 DEF ResultOK
      <4>2. run.status \notin {"FAILED", "CLARIFICATION_REQUIRED"}
          BY <4>1 DEF FinalStatus
      <4>3. run.status = "NO_MATCH" \/ run.advice.top = None
          BY <4>1, <4>2 DEF FinalStatus
      <4> QED
          BY <2>1, <2>3, <4>1, <4>2, <4>3 DEF StatusOK
    <3>2. CASE run.kind = "sessions"
      <4>1. run.status = "NO_MATCH"
          BY <2>1, <2>2, <3>2 DEF ResultOK
      <4> QED
          BY <2>1, <2>3, <4>1 DEF StatusOK
    <3> QED
        BY <2>3, <3>1, <3>2 DEF Graph
  <2>5. SearchOK(run)
      BY <2>1, <2>3, <2>4 DEF StatusOK
  <2>6. run.ranked = rank_products(run.products, run.intent)
      BY <2>3, <2>5 DEF SearchOK, Late
  <2>7. run.ranked # None
    <3>1. IsChoice(run.products) /\ IsIntent(run.intent)
        BY <2>1 DEF RunOK, ProductsOK
    <3> QED
        BY <2>6, <3>1, RankingFits
  <2>8. run.products = {}
      BY <2>1, <2>4, <2>7, RankedRun
  <2> QED
      BY <2>1, <2>3, <2>8 DEF NoneMissing
<1> QED
    BY <1>1, InvariantHolds, PTL

\* No product is ranked below one that it beats in everything that is scored,
\* whatever the objective, its weights and the roundings.
THEOREM RankingIsFair == Spec => []RankingRespectsDominance
<1>1. AgentInv => RankingRespectsDominance
  <2> SUFFICES ASSUME AgentInv, run # None, run.ranked # None
               PROVE  Fair(run.ranked)
      BY DEF RankingRespectsDominance, Fair
  <2>1. RunOK(run, past)
      BY DEF AgentInv
  <2> QED
      BY <2>1, RankedRun
<1> QED
    BY <1>1, InvariantHolds, PTL

\* An answer has a top pick and a merchant that answered.
LEMMA AnswersHaveATop ==
    ASSUME NEW s, NEW h, RunOK(s, h), s.kind = "shopping", s.result \notin {None, "ERROR"}
    PROVE  /\ s.result \in {"COMPLETED", "PARTIAL_RESULTS"} =>
                s.advice.top # None /\ s.answered # {}
           /\ s.result = "COMPLETED" => s.down = {}
           /\ s.result = "PARTIAL_RESULTS" => s.down # {}
           /\ (s.result = "NEEDS_CLARIFICATION") <=> s.status = "CLARIFICATION_REQUIRED"
           /\ (s.result = "FAILED") <=> s.status = "FAILED"
<1>1. s.result = FinalStatus(s) /\ s.advice = build_recommendation_result(s)
    BY DEF RunOK, ResultOK
<1>2. CASE s.status \in {"FAILED", "CLARIFICATION_REQUIRED"}
    BY <1>1, <1>2 DEF FinalStatus
<1>3. CASE /\ s.status \notin {"FAILED", "CLARIFICATION_REQUIRED"}
           /\ s.status = "NO_MATCH" \/ s.advice.top = None
  <2>1. FinalStatus(s) = "NO_MATCH"
      BY <1>3 DEF FinalStatus
  <2> QED
      BY <1>1, <1>3, <2>1
<1>4. CASE s.status \notin {"FAILED", "CLARIFICATION_REQUIRED", "NO_MATCH"} /\ s.advice.top # None
  <2>1. FinalStatus(s) = IF Partial(s) THEN "PARTIAL_RESULTS" ELSE "COMPLETED"
      BY <1>4 DEF FinalStatus
  <2>2. s.ranked # None
      BY <1>1, <1>4, NothingRanked
  <2>3. s.ranked # <<>>
      BY <1>1, <1>4, <2>2, RankedRun
  <2>4. s.products # {}
    <3>1. s.ranked \in Seq(ScoreRows)
        BY <2>2, RankingFits DEF RunOK, RankedOK, ProductsOK
    <3>2. s.ranked[1] \in Elements(s.ranked)
        BY <2>3, <3>1 DEF Elements
    <3> QED
        BY <1>1, <2>2, <3>2, RankedRun
  <2>5. s.answered # {}
      BY <2>4 DEF RunOK, MerchantsOK
  <2> QED
      BY <1>1, <1>4, <2>1, <2>5 DEF Partial
<1> QED
    BY <1>2, <1>3, <1>4

\* The status that a run reports agrees with its content, and a plan reported as
\* completed has each of its steps completed or its error reported.
THEOREM ReportsAreTrue == Spec => []ReportsTellTheTruth
<1>1. AgentInv => StatusTellsTheTruth
  <2> SUFFICES ASSUME AgentInv, run # None, run.kind = "shopping",
                      run.result \notin {None, "ERROR"}
               PROVE  /\ run.result \in {"COMPLETED", "PARTIAL_RESULTS"} =>
                            run.advice.top # None /\ run.answered # {}
                      /\ run.result = "COMPLETED" => run.down = {}
                      /\ run.result = "PARTIAL_RESULTS" => run.down # {}
                      /\ (run.result = "NEEDS_CLARIFICATION") <=> run.intent.ambiguous
                      /\ (run.result = "FAILED")
                            <=> run.errors \intersect {"INTENT_INVALID", "DISCOVERY_FAILED"} # {}
      BY DEF StatusTellsTheTruth
  <2>1. RunOK(run, past) /\ StatusOK(run)
      BY DEF AgentInv, RunOK
  <2>2. /\ (run.status = "CLARIFICATION_REQUIRED") <=> run.intent.ambiguous
        /\ (run.status = "FAILED")
              <=> run.errors \intersect {"INTENT_INVALID", "DISCOVERY_FAILED"} # {}
      BY <2>1 DEF StatusOK, Graph, Fatal
  <2> QED
      BY <2>1, <2>2, AnswersHaveATop
<1>2. AgentInv => PlanTellsTheTruth
  <2> SUFFICES ASSUME AgentInv, run # None, run.planStatus = "COMPLETED",
                      NEW n \in DOMAIN run.plan \ {6}
               PROVE  \/ run.plan[n] \in run.done
                      \/ /\ run.plan[n] \in DOMAIN ErrorOf
                         /\ ErrorOf[run.plan[n]] \in run.errors
      BY DEF PlanTellsTheTruth
  <2>1. StatusOK(run) /\ ResultOK(run)
      BY DEF AgentInv, RunOK
  <2>2. /\ run.kind \in Graph /\ run.stage = "answered"
        /\ run.status \notin {"FAILED", "CLARIFICATION_REQUIRED"}
      BY <2>1 DEF ResultOK
  <2>3. SearchOK(run)
      BY <2>1, <2>2 DEF StatusOK
  <2>4. /\ run.plan = Steps
        /\ {"DISCOVER", "NORMALIZE"} \subseteq run.done
        /\ "APPLY_CONSTRAINTS" \in run.done \/ "CONSTRAINT_FILTER_FAILED" \in run.errors
        /\ "RANK" \in run.done \/ "RANKING_FAILED" \in run.errors
        /\ "RECOMMEND" \in run.done \/ "RECOMMENDATION_FAILED" \in run.errors
      BY <2>2, <2>3 DEF SearchOK, Late
  <2>5. Steps[n] \in {"DISCOVER", "NORMALIZE", "APPLY_CONSTRAINTS", "RANK", "RECOMMEND"}
    <3>1. n \in {1, 2, 3, 4, 5}
        BY <2>4 DEF Steps
    <3> QED
        BY <3>1 DEF Steps
  <2>6. /\ DOMAIN ErrorOf = {"APPLY_CONSTRAINTS", "RANK", "RECOMMEND"}
        /\ ErrorOf["APPLY_CONSTRAINTS"] = "CONSTRAINT_FILTER_FAILED"
        /\ ErrorOf["RANK"] = "RANKING_FAILED"
        /\ ErrorOf["RECOMMEND"] = "RECOMMENDATION_FAILED"
      BY DEF ErrorOf
  <2> QED
      BY <2>4, <2>5, <2>6
<1>3. ReportsTellTheTruth <=> StatusTellsTheTruth /\ PlanTellsTheTruth
    BY DEF ReportsTellTheTruth
<1> QED
    BY <1>1, <1>2, <1>3, InvariantHolds, PTL

-----------------------------------------------------------------------------
(* The conversation                                                        *)

TalkInv ==
    /\ IsIntent(talk.intent) /\ talk.messages \in Seq(Messages)
    /\ ConversationRemembers

Bounds == {"budgetMax", "budgetMin"}

LEMMA MessageIsRemembered ==
    ASSUME TalkInv, NEW m \in Messages, Converse(m)
    PROVE  TalkInv'
<1> DEFINE before == talk.messages
           i == parse_intent(m, talk.intent)
<1>1. /\ before \in Seq(Messages) /\ IsIntent(talk.intent) /\ i # None
      /\ talk'.messages = Append(before, m) /\ talk'.intent = i
    BY DEF TalkInv, Converse
<1>2. IsIntent(i) /\ i = IF m.greeting THEN Unclear ELSE Refined(m, talk.intent)
    BY <1>1, IntentsFit
<1> HIDE DEF i
<1>3. /\ talk'.messages \in Seq(Messages)
      /\ Len(talk'.messages) = Len(before) + 1 /\ Len(before) \in Nat
      /\ DOMAIN talk'.messages = 1 .. Len(before) + 1 /\ DOMAIN before = 1 .. Len(before)
      /\ talk'.messages[Len(before) + 1] = m
      /\ \A n \in 1 .. Len(before) : talk'.messages[n] = before[n]
    BY <1>1
<1>4. ASSUME NEW n \in DOMAIN talk'.messages,
             ~talk'.messages[n].greeting, ~Forgotten(n)'
      PROVE  /\ talk'.messages[n].exclusions \subseteq talk'.intent.exclusions
             /\ \A bound \in Bounds :
                  talk'.messages[n][bound] # None /\ ~Renewed(n, bound)' =>
                    talk'.intent[bound] =
                      IF n < Len(talk'.messages) THEN Kept(talk'.messages[n][bound])
                                                 ELSE talk'.messages[n][bound]
  <2>1. n \in Nat /\ n >= 1 /\ n <= Len(before) + 1
      BY <1>3, <1>4
  <2>2. ~m.greeting
    <3>1. CASE n = Len(before) + 1
        BY <1>3, <1>4, <3>1
    <3>2. CASE n # Len(before) + 1
      <4>1. Len(before) + 1 \in n + 1 .. Len(talk'.messages)
          BY <1>3, <2>1, <3>2
      <4> QED
          BY <1>3, <1>4, <4>1 DEF Forgotten
    <3> QED
        BY <3>1, <3>2
  <2>3. /\ i.exclusions = m.exclusions \union talk.intent.exclusions
        /\ \A bound \in Bounds :
             i[bound] = IF m[bound] # None THEN m[bound] ELSE Kept(talk.intent[bound])
      BY <1>2, <2>2 DEF Refined, Exclusions, Either, Bounds
  <2>4. CASE n = Len(before) + 1
    <3>1. ~(n < Len(talk'.messages)) /\ talk'.messages[n] = m
        BY <1>3, <2>4
    <3> QED
        BY <1>1, <2>3, <3>1
  <2>5. CASE n # Len(before) + 1
    <3>1. n \in DOMAIN before /\ talk'.messages[n] = before[n]
        BY <1>3, <2>1, <2>5
    <3>2. \A k \in n + 1 .. Len(before) :
            k \in n + 1 .. Len(talk'.messages) /\ talk'.messages[k] = before[k]
        BY <1>3, <2>1
    <3>3. ~Forgotten(n)
        BY <1>4, <3>2 DEF Forgotten
    <3>4. /\ before[n].exclusions \subseteq talk.intent.exclusions
          /\ \A bound \in Bounds :
               before[n][bound] # None /\ ~Renewed(n, bound) =>
                 talk.intent[bound] \in {before[n][bound], Kept(before[n][bound])}
        BY <1>4, <3>1, <3>3 DEF TalkInv, ConversationRemembers, Bounds
    <3>5. \A bound \in Bounds : ~Renewed(n, bound)' => ~Renewed(n, bound) /\ m[bound] = None
      <4>1. Len(before) + 1 \in n + 1 .. Len(talk'.messages)
          BY <1>3, <2>1, <2>5
      <4> QED
          BY <1>3, <3>2, <4>1 DEF Renewed
    <3>6. ASSUME NEW bound \in Bounds, before[n][bound] # None, ~Renewed(n, bound)'
          PROVE  talk'.intent[bound] = Kept(before[n][bound])
      <4>1. \A x : Kept(Kept(x)) = Kept(x)
          BY NoneAssumption DEF Kept
      <4>2. talk'.intent[bound] = Kept(talk.intent[bound])
          BY <1>1, <2>3, <3>5, <3>6
      <4> QED
          BY <3>4, <3>5, <3>6, <4>1, <4>2
    <3>7. n < Len(talk'.messages)
        BY <1>3, <2>1, <2>5
    <3> QED
        BY <1>1, <2>3, <3>1, <3>4, <3>6, <3>7
  <2> QED
      BY <2>4, <2>5
<1>5. ConversationRemembers'
    BY <1>4 DEF ConversationRemembers, Bounds
<1> QED
    BY <1>1, <1>2, <1>3, <1>5 DEF TalkInv

\* However long the conversation: what the user excluded stays excluded, and the
\* last maximum and minimum named stay in force, until a greeting makes the
\* parser forget; but a bound of 0 is forgotten with the next message.
THEOREM TalkRemembers == Spec => []ConversationRemembers
<1>1. talk = Silence => TalkInv
  <2> SUFFICES ASSUME talk = Silence
               PROVE  TalkInv
      OBVIOUS
  <2>1. talk.messages = <<>> /\ talk.intent = NoWishes
      BY DEF Silence
  <2>2. ConversationRemembers
      BY <2>1 DEF ConversationRemembers
  <2> QED
      BY <2>1, <2>2, NoWishesFits DEF TalkInv
<1>2. Init => TalkInv
    BY <1>1 DEF Init
<1>3. (talk = Silence => TalkInv)'
    BY <1>1, PTL
<1>4. TalkInv /\ [Next]_vars => TalkInv'
  <2> SUFFICES ASSUME TalkInv, [Next]_vars
               PROVE  TalkInv'
      OBVIOUS
  <2>1. ASSUME NEW m \in Messages, Converse(m)
        PROVE  TalkInv'
      BY <2>1, MessageIsRemembered
  <2>2. ASSUME talk' = Silence
        PROVE  TalkInv'
      BY <1>3, <2>2
  <2>3. ASSUME UNCHANGED talk
        PROVE  TalkInv'
      BY <2>3 DEF TalkInv, ConversationRemembers, Forgotten, Renewed
  <2>4. \A m \in Messages : StartQuery(m) => talk' = Silence
      BY DEF StartQuery
  <2>5. \A kind \in Graph, m \in Messages : StartGraph(kind, m) => talk' = Silence
      BY DEF StartGraph
  <2>6. \A named \in Named : StartClient(named) => UNCHANGED talk
      BY DEF StartClient
  <2>7. Advance => UNCHANGED talk
      BY DEF Advance, QueryMerchant, Search, ReadDetail, FinishDetails, Rank, FinishDiscovery,
             Filter, Recommend, Answer, Becomes
  <2>8. \A p \in Products : \A v \in Shelves[p] : ChangeShelf(p, v) => UNCHANGED talk
      BY DEF ChangeShelf
  <2> QED
      BY <2>1, <2>2, <2>3, <2>4, <2>5, <2>6, <2>7, <2>8 DEF Next, vars
<1>5. TalkInv => ConversationRemembers
    BY DEF TalkInv
<1> QED
    BY <1>2, <1>4, <1>5, PTL DEF Spec
=============================================================================
