------------------------- MODULE AuditLedgerProofs --------------------------
(***************************************************************************)
(* Proofs about AuditLedger, for any number of writers and events: both    *)
(* ledgers are trees, and each implements HashChain.                       *)
(***************************************************************************)
EXTENDS AuditLedger, FiniteSetTheorems, SequenceTheorems, TLAPS

-----------------------------------------------------------------------------
(* Sets of numbers                                                         *)

\* A set of natural numbers has a least element.
LEMMA LeastElement ==
    ASSUME NEW T \in SUBSET Nat, T # {}
    PROVE  \E x \in T : \A y \in T : x <= y
  <1> DEFINE R == {ss \in Nat \X Nat : ss[1] < ss[2]}
  <1>1. IsWellFoundedOn(R, Nat)
    BY NatLessThanWellFounded DEF OpToRel
  <1>2. PICK x \in T : \A y \in T : ~ (<<y, x>> \in R)
    BY <1>1, WFMin, Zenon
  <1>3. \A y \in T : x <= y
    <2> TAKE y \in T
    <2>1. x \in Nat /\ y \in Nat
      OBVIOUS
    <2>2. CASE y < x
      <3>1. <<y, x>> \in Nat \X Nat /\ <<y, x>>[1] < <<y, x>>[2]
        BY <2>1, <2>2
      <3>2. <<y, x>> \in R
        BY <3>1, Zenon
      <3>3. QED
        BY <1>2, <3>2
    <2>3. QED
      BY <2>1, <2>2
  <1>4. QED
    BY <1>2, <1>3

\* Max is the greatest element of a bounded set.
LEMMA MaxIsGreatest ==
    ASSUME NEW n \in Nat, NEW T \in SUBSET (0..n), T # {}
    PROVE  Max(T) \in T /\ \A y \in T : y <= Max(T)
  <1> DEFINE U == {n - y : y \in T}
  <1>0. \A y \in T : y \in Nat /\ n - y \in Nat
    OBVIOUS
  <1>1. U \in SUBSET Nat /\ U # {}
    BY <1>0
  <1>2. PICK u \in U : \A z \in U : u <= z
    BY <1>1, LeastElement
  <1>3. PICK x \in T : u = n - x
    BY <1>2
  <1>4. \A y \in T : x >= y
    BY <1>0, <1>2, <1>3
  <1>5. \E z \in T : \A y \in T : z >= y
    BY <1>3, <1>4
  <1>6. Max(T) \in T /\ \A y \in T : Max(T) >= y
    BY <1>5 DEF Max
  <1>7. QED
    BY <1>0, <1>6

-----------------------------------------------------------------------------
(* Walking a set of numbers in their order                                 *)

Below(S, e) == {f \in S : f <= e}
Rank(S, e)  == Cardinality(Below(S, e))

LEMMA RankRange ==
    ASSUME NEW S \in SUBSET Nat, IsFiniteSet(S), NEW e \in S
    PROVE  /\ IsFiniteSet(Below(S, e))
           /\ Rank(S, e) \in 1..Cardinality(S)
  <1>1. Below(S, e) \in SUBSET S /\ e \in Below(S, e)
    BY DEF Below
  <1>2. IsFiniteSet(Below(S, e)) /\ Rank(S, e) <= Cardinality(S)
    BY <1>1, FS_Subset DEF Rank
  <1>3. Rank(S, e) \in Nat /\ Cardinality(S) \in Nat
    BY <1>2, FS_CardinalityType DEF Rank
  <1>4. Rank(S, e) # 0
    BY <1>1, <1>2, FS_EmptySet DEF Rank
  <1>5. QED
    BY <1>2, <1>3, <1>4

\* The rank grows with the number.
LEMMA RankGrows ==
    ASSUME NEW S \in SUBSET Nat, IsFiniteSet(S), NEW e \in S, NEW f \in S, e < f
    PROVE  Rank(S, e) < Rank(S, f)
  <1>0. e \in Nat /\ f \in Nat /\ \A x \in S : x \in Nat
    OBVIOUS
  <1>1. Below(S, e) \in SUBSET Below(S, f) /\ f \in Below(S, f) /\ f \notin Below(S, e)
    <2>1. \A x \in S : x <= e => x <= f
      BY <1>0
    <2>2. \A x \in Below(S, e) : x \in Below(S, f)
      BY <2>1 DEF Below
    <2>3. f \in Below(S, f) /\ f \notin Below(S, e)
      BY <1>0 DEF Below
    <2>4. QED
      BY <2>2, <2>3
  <1>2. IsFiniteSet(Below(S, f)) /\ Rank(S, e) \in Nat /\ Rank(S, f) \in Nat
    BY RankRange, FS_CardinalityType DEF Rank
  <1>3. Rank(S, e) <= Rank(S, f) /\ Rank(S, e) # Rank(S, f)
    BY <1>1, <1>2, FS_Subset DEF Rank
  <1>4. QED
    BY <1>2, <1>3

\* Every rank is taken.
LEMMA RankTaken ==
    ASSUME NEW S \in SUBSET Nat, IsFiniteSet(S)
    PROVE  \A i \in 1..Cardinality(S) : \E e \in S : Rank(S, e) = i
  <1> DEFINE Free == {i \in 1..Cardinality(S) : ~ \E e \in S : Rank(S, e) = i}
  <1> SUFFICES ASSUME Free # {} PROVE FALSE
    OBVIOUS
  <1>0. Free \in SUBSET Nat
    OBVIOUS
  <1>1. Cardinality(S) \in Nat
    BY FS_CardinalityType
  <1>2. PICK i \in Free : \A j \in Free : i <= j
    BY <1>0, LeastElement
  <1> DEFINE Rest == IF i = 1 THEN S ELSE {f \in S : i - 1 < Rank(S, f)}
  <1>3. PICK low \in SUBSET S : /\ IsFiniteSet(low) /\ Cardinality(low) = i - 1
                                /\ Rest = S \ low
                                /\ \A g \in low, f \in Rest : g < f
    <2>1. CASE i = 1
      <3>1. IsFiniteSet({}) /\ Cardinality({}) = i - 1
        BY <2>1, FS_EmptySet
      <3>2. QED
        BY <2>1, <3>1
    <2>2. CASE i # 1
      <3>1. i - 1 \in 1..Cardinality(S) /\ i - 1 \notin Free
        BY <1>1, <1>2, <2>2
      <3>2. PICK e \in S : Rank(S, e) = i - 1
        BY <3>1
      <3>3. IsFiniteSet(Below(S, e)) /\ Cardinality(Below(S, e)) = i - 1
        BY <3>2, RankRange DEF Rank
      <3>4. \A f \in S : f \in Below(S, e) <=> ~ (i - 1 < Rank(S, f))
        <4> TAKE f \in S
        <4>0. /\ e \in Nat /\ f \in Nat
              /\ Rank(S, e) \in 1..Cardinality(S) /\ Rank(S, f) \in 1..Cardinality(S)
          BY RankRange
        <4>1. CASE f < e
          <5>1. Rank(S, f) < Rank(S, e)
            BY <4>1, RankGrows
          <5>2. QED
            BY <5>1, <4>0, <4>1, <3>2 DEF Below
        <4>2. CASE f = e
          BY <4>0, <4>2, <3>2 DEF Below
        <4>3. CASE e < f
          <5>1. Rank(S, e) < Rank(S, f)
            BY <4>3, RankGrows
          <5>2. QED
            BY <5>1, <4>0, <4>3, <3>2 DEF Below
        <4>4. QED
          BY <4>0, <4>1, <4>2, <4>3
      <3>5. Rest = S \ Below(S, e)
        BY <2>2, <3>4
      <3>6. \A g \in Below(S, e), f \in Rest : g < f
        BY <3>5 DEF Below
      <3>7. Below(S, e) \in SUBSET S
        BY DEF Below
      <3>8. QED
        BY <3>3, <3>5, <3>6, <3>7
    <2>3. QED
      BY <2>1, <2>2
  <1>4. Rest \in SUBSET Nat /\ Rest # {}
    <2>1. low # S
      BY <1>1, <1>2, <1>3
    <2>2. QED
      BY <2>1, <1>3
  <1>5. PICK e \in Rest : \A f \in Rest : e <= f
    BY <1>4, LeastElement
  <1>6. Below(S, e) = low \union {e} /\ e \notin low /\ e \in S
    <2>1. e \in S /\ e \notin low
      BY <1>3, <1>5
    <2>2. \A f \in S : f <= e <=> (f \in low \/ f = e)
      BY <1>3, <1>5
    <2>3. QED
      BY <2>1, <2>2 DEF Below
  <1>7. Rank(S, e) = i
    BY <1>1, <1>2, <1>3, <1>6, FS_AddElement DEF Rank
  <1>8. QED
    BY <1>2, <1>6, <1>7

\* A walk visits every element, at its rank, and nothing else.
LEMMA WalkVisits ==
    ASSUME NEW S \in SUBSET Nat, IsFiniteSet(S)
    PROVE  /\ Walk(S) \in [1..Cardinality(S) -> S]
           /\ \A i \in 1..Cardinality(S) : Rank(S, Walk(S)[i]) = i
           /\ \A e \in S : Walk(S)[Rank(S, e)] = e
           /\ Cardinality(S) \in Nat
           /\ Len(Walk(S)) = Cardinality(S)
  <1>1. Cardinality(S) \in Nat
    BY FS_CardinalityType
  <1>2. \A i \in 1..Cardinality(S) : Walk(S)[i] \in S /\ Rank(S, Walk(S)[i]) = i
    <2> TAKE i \in 1..Cardinality(S)
    <2>1. \E e \in S : Cardinality({f \in S : f <= e}) = i
      BY RankTaken DEF Rank, Below
    <2>2. Walk(S)[i] = CHOOSE e \in S : Cardinality({f \in S : f <= e}) = i
      BY DEF Walk
    <2>3. Walk(S)[i] \in S /\ Cardinality({f \in S : f <= Walk(S)[i]}) = i
      BY <2>1, <2>2
    <2>4. QED
      BY <2>3 DEF Rank, Below
  <1>3. Walk(S) \in [1..Cardinality(S) -> S]
    BY <1>2 DEF Walk
  <1>4. \A e \in S : Walk(S)[Rank(S, e)] = e
    <2> TAKE e \in S
    <2>1. Rank(S, e) \in 1..Cardinality(S)
      BY RankRange
    <2> DEFINE f == Walk(S)[Rank(S, e)]
    <2>2. f \in S /\ Rank(S, f) = Rank(S, e)
      BY <1>2, <2>1
    <2>3. e \in Nat /\ f \in Nat
      BY <2>2
    <2>4. CASE e < f
      <3>1. Rank(S, e) < Rank(S, f)
        BY <2>2, <2>4, RankGrows
      <3>2. QED
        BY <3>1, <2>1, <2>2, <1>1
    <2>5. CASE f < e
      <3>1. Rank(S, f) < Rank(S, e)
        BY <2>2, <2>5, RankGrows
      <3>2. QED
        BY <3>1, <2>1, <2>2, <1>1
    <2>6. QED
      BY <2>3, <2>4, <2>5
  <1>5. Len(Walk(S)) = Cardinality(S)
    BY <1>1, <1>3, LenProperties DEF Walk
  <1>6. QED
    BY <1>1, <1>2, <1>3, <1>4, <1>5

\* What a walk visited before a new number is visited before it still.
LEMMA WalkGrows ==
    ASSUME NEW S \in SUBSET Nat, IsFiniteSet(S), NEW x \in Nat, x \notin S,
           NEW n \in 0..Cardinality(S), n > 0 => Walk(S)[n] < x
    PROVE  /\ IsFiniteSet(S \union {x})
           /\ Cardinality(S \union {x}) = Cardinality(S) + 1
           /\ \A i \in 1..n : Walk(S \union {x})[i] = Walk(S)[i]
           /\ (\A e \in S : e < x) => Walk(S \union {x})[Cardinality(S) + 1] = x
  <1> DEFINE T == S \union {x}
  <1>1. T \in SUBSET Nat /\ IsFiniteSet(T) /\ Cardinality(T) = Cardinality(S) + 1
    BY FS_AddElement
  <1>2. Cardinality(S) \in Nat
    BY FS_CardinalityType
  <1>3. \A i \in 1..n : Walk(T)[i] = Walk(S)[i]
    <2> TAKE i \in 1..n
    <2> DEFINE e == Walk(S)[i]
    <2>1. i \in 1..Cardinality(S) /\ n \in 1..Cardinality(S)
      BY <1>2
    <2>2. e \in S /\ Rank(S, e) = i /\ Walk(S)[n] \in S /\ Rank(S, Walk(S)[n]) = n
      BY <2>1, WalkVisits
    <2>3. e \in Nat /\ Walk(S)[n] \in Nat
      BY <2>2
    <2>4. ~ (Walk(S)[n] < e)
      <3> SUFFICES ASSUME Walk(S)[n] < e PROVE FALSE
        OBVIOUS
      <3>1. Rank(S, Walk(S)[n]) < Rank(S, e)
        BY <2>2, RankGrows
      <3>2. QED
        BY <3>1, <2>1, <2>2
    <2>5. e < x
      BY <2>1, <2>3, <2>4
    <2>6. Below(T, e) = Below(S, e)
      BY <2>3, <2>5 DEF Below
    <2>7. Rank(T, e) = i
      BY <2>2, <2>6 DEF Rank
    <2>8. QED
      BY <1>1, <2>2, <2>7, WalkVisits
  <1>4. ASSUME \A e \in S : e < x
        PROVE  Walk(T)[Cardinality(S) + 1] = x
    <2>1. Below(T, x) = T
      <3>1. \A f \in T : f <= x
        BY <1>1, <1>4
      <3>2. QED
        BY <3>1 DEF Below
    <2>2. Rank(T, x) = Cardinality(S) + 1
      BY <1>1, <2>1 DEF Rank
    <2>3. QED
      BY <1>1, <2>2, WalkVisits
  <1>5. QED
    BY <1>1, <1>3, <1>4

-----------------------------------------------------------------------------
(* What verification accepts                                               *)

\* It accepts as many events as have the right links, and no more.
LEMMA AcceptedPrefix ==
    ASSUME NEW E, NEW hashes \in Seq(E), NEW links
    PROVE  \E a \in 0..Len(hashes) :
             /\ Accepted(hashes, links) = SubSeq(hashes, 1, a)
             /\ Len(Accepted(hashes, links)) = a
             /\ \A i \in 1..a : Accepted(hashes, links)[i] = hashes[i]
             /\ LinksHold(hashes, links, a)
             /\ \A n \in 0..Len(hashes) : LinksHold(hashes, links, n) => n <= a
  <1> DEFINE Good == {n \in 0..Len(hashes) : LinksHold(hashes, links, n)}
             a    == Max(Good)
  <1>1. Len(hashes) \in Nat
    BY LenProperties
  <1>2. 0 \in Good
    BY <1>1 DEF LinksHold
  <1>3. a \in Good /\ \A n \in Good : n <= a
    BY <1>1, <1>2, MaxIsGreatest
  <1>4. Accepted(hashes, links) = SubSeq(hashes, 1, a)
    BY DEF Accepted
  <1>5. /\ Len(SubSeq(hashes, 1, a)) = a
        /\ \A i \in 1..a : SubSeq(hashes, 1, a)[i] = hashes[i]
    <2>1. \A i \in 1..a : hashes[i] \in E
      BY <1>1, <1>3, ElementOfSeq
    <2>2. a \in Int /\ 1 \in Int
      BY <1>1, <1>3
    <2> HIDE DEF a
    <2>3. /\ Len(SubSeq(hashes, 1, a)) = IF 1 <= a THEN a - 1 + 1 ELSE 0
          /\ \A i \in 1..a - 1 + 1 : SubSeq(hashes, 1, a)[i] = hashes[1 + i - 1]
      BY <2>1, <2>2, SubSeqProperties
    <2>4. a \in Nat
      BY <1>1, <1>3
    <2>5. QED
      BY <2>3, <2>4
  <1>6. QED
    BY <1>3, <1>4, <1>5

\* A ledger without a broken link is accepted as a whole.
LEMMA AcceptedWhole ==
    ASSUME NEW E, NEW hashes \in Seq(E), NEW links,
           LinksHold(hashes, links, Len(hashes))
    PROVE  Accepted(hashes, links) = hashes
  <1>1. PICK a \in 0..Len(hashes) :
           /\ Accepted(hashes, links) = SubSeq(hashes, 1, a)
           /\ \A n \in 0..Len(hashes) : LinksHold(hashes, links, n) => n <= a
    BY AcceptedPrefix
  <1>2. Len(hashes) \in Nat
    BY LenProperties
  <1>3. a = Len(hashes)
    BY <1>1, <1>2
  <1>4. QED
    BY <1>1, <1>3, SubSeqFull

\* One more link.
LEMMA LinksStep ==
    ASSUME NEW hashes, NEW links, NEW n \in Nat, LinksHold(hashes, links, n),
           links[n + 1] = IF n = 0 THEN GENESIS_HASH ELSE hashes[n]
    PROVE  LinksHold(hashes, links, n + 1)
  <1>1. \A i \in 1..n + 1 : i \in 1..n \/ (i = n + 1 /\ i - 1 = n /\ (i = 1 <=> n = 0))
    OBVIOUS
  <1>2. QED
    BY <1>1 DEF LinksHold

\* Two ledgers that agree on n events with the right links: both are accepted
\* so far, and verification finds the same there.
LEMMA AcceptedKeeps ==
    ASSUME NEW E, NEW hashes \in Seq(E), NEW links, NEW hashes2 \in Seq(E), NEW links2,
           NEW n \in Nat, n <= Len(hashes), n <= Len(hashes2),
           LinksHold(hashes, links, n), LinksHold(hashes2, links2, n),
           \A i \in 1..n : hashes[i] = hashes2[i]
    PROVE  /\ Len(Accepted(hashes2, links2)) >= n
           /\ SubSeq(Accepted(hashes2, links2), 1, n) = SubSeq(Accepted(hashes, links), 1, n)
           /\ Len(Accepted(hashes2, links2)) <= Len(hashes2)
  <1>1. PICK a \in 0..Len(hashes) :
           /\ Accepted(hashes, links) = SubSeq(hashes, 1, a)
           /\ Len(Accepted(hashes, links)) = a
           /\ \A i \in 1..a : Accepted(hashes, links)[i] = hashes[i]
           /\ \A m \in 0..Len(hashes) : LinksHold(hashes, links, m) => m <= a
    BY AcceptedPrefix
  <1>2. PICK b \in 0..Len(hashes2) :
           /\ Accepted(hashes2, links2) = SubSeq(hashes2, 1, b)
           /\ Len(Accepted(hashes2, links2)) = b
           /\ \A i \in 1..b : Accepted(hashes2, links2)[i] = hashes2[i]
           /\ \A m \in 0..Len(hashes2) : LinksHold(hashes2, links2, m) => m <= b
    BY AcceptedPrefix
  <1>3. Len(hashes) \in Nat /\ Len(hashes2) \in Nat
    BY LenProperties
  <1>4. n <= a /\ n <= b
    BY <1>1, <1>2, <1>3
  <1>5. Accepted(hashes, links) \in Seq(E) /\ Accepted(hashes2, links2) \in Seq(E)
    BY <1>1, <1>2, <1>3, SubSeqProperties
  <1> DEFINE X == SubSeq(Accepted(hashes, links), 1, n)
             Y == SubSeq(Accepted(hashes2, links2), 1, n)
  <1>6. X \in Seq(E) /\ Len(X) = n /\ \A i \in 1..n : X[i] = Accepted(hashes, links)[i]
    BY <1>1, <1>3, <1>4, <1>5, SubSeqProperties
  <1>7. Y \in Seq(E) /\ Len(Y) = n /\ \A i \in 1..n : Y[i] = Accepted(hashes2, links2)[i]
    BY <1>2, <1>3, <1>4, <1>5, SubSeqProperties
  <1>8. \A i \in 1..n : X[i] = Y[i]
    BY <1>1, <1>2, <1>3, <1>4, <1>6, <1>7
  <1>9. X = Y
    BY <1>6, <1>7, <1>8, SeqEqual
  <1>10. QED
    BY <1>2, <1>3, <1>4, <1>9

-----------------------------------------------------------------------------
(* Both ledgers are trees                                                  *)

BlockHashes == {block[i].current_hash : i \in DOMAIN block}

\* A hash that a writer has taken is nobody else's and is not recorded yet.
MinesAreFresh ==
    /\ \A w \in Writers : pc[w] # "idle" =>
          mine[w] \in 1..made /\ mine[w] \notin Committed /\ mine[w] \notin BlockHashes
    /\ \A v, w \in Writers :
          pc[v] # "idle" /\ pc[w] # "idle" /\ mine[v] = mine[w] => v = w
    /\ \A e \in Committed \union BlockHashes : e <= made

\* What a writer is about to chain to is recorded.
ReadsAreRecorded ==
    \A w \in Writers :
        /\ pc[w] = "commit" => seen[w].last \in Committed \union {GENESIS_HASH}
        /\ pc[w] = "append" => seen[w].last \in BlockHashes \union {GENESIS_HASH}

TreeInv == LedgerTypeOK /\ MinesAreFresh /\ ReadsAreRecorded /\ ParentsAreRecorded

LEMMA CommittedType ==
    ASSUME LedgerTypeOK
    PROVE  /\ Committed \in SUBSET Hashes /\ Committed \in SUBSET Nat
           /\ Hashes \in SUBSET Nat
           /\ IsFiniteSet(Committed) /\ Cardinality(Committed) \in Nat
  <1>1. Hashes \in SUBSET Nat /\ MaxEvents \in Nat
    BY LedgerAssumption DEF Hashes
  <1>2. IsFiniteSet(Hashes)
    BY <1>1, FS_Interval DEF Hashes
  <1>3. Committed \in SUBSET Hashes
    BY DEF Committed
  <1>4. QED
    BY <1>1, <1>2, <1>3, FS_Subset, FS_CardinalityType

\* The event that record_event chains to is recorded.
LEMMA LastEventIsRecorded ==
    ASSUME LedgerTypeOK
    PROVE  LastEvent \in Committed \union {GENESIS_HASH}
  <1>1. CASE Committed = {}
    BY <1>1 DEF LastEvent
  <1>2. CASE Committed # {}
    <2>1. Committed \in SUBSET (0..MaxEvents) /\ MaxEvents \in Nat
      BY CommittedType, LedgerAssumption DEF Hashes
    <2>2. QED
      BY <1>2, <2>1, MaxIsGreatest DEF LastEvent
  <1>3. QED
    BY <1>1, <1>2

LEMMA BlockType ==
    ASSUME LedgerTypeOK
    PROVE  /\ Len(block) \in Nat \ {0} /\ DOMAIN block = 1..Len(block)
           /\ \A i \in 1..Len(block) : block[i] \in BlockRows
           /\ BlockHashes \in SUBSET Hashes
  <1>1. block \in Seq(BlockRows) /\ block # << >>
    BY DEF LedgerTypeOK
  <1>2. Len(block) \in Nat /\ DOMAIN block = 1..Len(block)
    BY <1>1, LenProperties
  <1>3. \A i \in 1..Len(block) : block[i] \in BlockRows
    BY <1>1, ElementOfSeq
  <1>4. Len(block) # 0
    BY <1>1, EmptySeq
  <1>5. QED
    BY <1>2, <1>3, <1>4 DEF BlockHashes, BlockRows

LEMMA LastHashIsRecorded ==
    ASSUME LedgerTypeOK
    PROVE  LastHash \in BlockHashes
BY BlockType DEF LastHash, BlockHashes, LedgerTypeOK

LEMMA TreeInit ==
    ASSUME LedgerInit
    PROVE  TreeInv
  <1>1. MaxEvents \in Nat \ {0} /\ None \notin Nat /\ 1 \in Hashes
    BY LedgerAssumption DEF Hashes
  <1>2. Committed = {}
    BY DEF LedgerInit, Committed
  <1> DEFINE b == [block_index |-> 0, previous_hash |-> GENESIS_HASH, current_hash |-> 1]
  <1>3. block = <<b>> /\ b \in BlockRows
    BY <1>1 DEF LedgerInit, SystemInit, BlockRows, GENESIS_HASH
  <1>4. block \in Seq(BlockRows) /\ block # << >> /\ Len(block) = 1 /\ block[1] = b
        /\ DOMAIN block = 1..1
    BY <1>3
  <1>5. BlockHashes = {1}
    BY <1>4 DEF BlockHashes
  <1>6. LedgerTypeOK
    BY <1>1, <1>2, <1>4 DEF LedgerInit, LedgerTypeOK, Nothing, GENESIS_HASH
  <1>7. ParentsAreRecorded
    BY <1>2, <1>4 DEF ParentsAreRecorded, GENESIS_HASH
  <1>8. MinesAreFresh /\ ReadsAreRecorded
    BY <1>2, <1>5 DEF LedgerInit, MinesAreFresh, ReadsAreRecorded
  <1>9. QED
    BY <1>6, <1>7, <1>8 DEF TreeInv

\* Starting a call, in either ledger.
LEMMA TreeTakeHash ==
    ASSUME TreeInv, NEW w \in Writers, NEW place \in {"last", "count"},
           TakeHash(w), GoTo(w, place), UNCHANGED <<prev, block, seen>>,
           tableMet' \in Nat \union {None}, listMet' \in Nat \union {None}
    PROVE  TreeInv'
  <1>0. LedgerTypeOK /\ MinesAreFresh /\ ReadsAreRecorded /\ ParentsAreRecorded
    BY DEF TreeInv
  <1>1. Committed' = Committed /\ BlockHashes' = BlockHashes
    BY DEF Committed, BlockHashes
  <1>2. made' = made + 1 /\ made \in Nat /\ MaxEvents \in Nat /\ made + 1 \in Hashes
        /\ made + 1 \in 1..MaxEvents
    BY <1>0, LedgerAssumption DEF TakeHash, LedgerTypeOK, Hashes
  <1>3. /\ pc' = [pc EXCEPT ![w] = place] /\ mine' = [mine EXCEPT ![w] = made + 1]
        /\ pc' \in [Writers -> {"idle", "last", "commit", "count", "previous", "append"}]
        /\ mine' \in [Writers -> Hashes \union {None}]
    BY <1>0, <1>2 DEF TakeHash, GoTo, LedgerTypeOK
  <1>4. LedgerTypeOK'
    BY <1>0, <1>1, <1>2, <1>3 DEF LedgerTypeOK, BlockHashes
  <1>5. \A e \in Committed \union BlockHashes : e <= made /\ e \in Nat
    BY <1>0, CommittedType, BlockType DEF MinesAreFresh
  <1>6. MinesAreFresh'
    <2>1. mine'[w] = made + 1 /\ \A v \in Writers : v # w => mine'[v] = mine[v] /\ pc'[v] = pc[v]
      BY <1>0, <1>3 DEF LedgerTypeOK
    <2>2. \A v \in Writers : v # w /\ pc[v] # "idle" => mine[v] \in 1..made
      BY <1>0 DEF MinesAreFresh
    <2>3. made + 1 \notin Committed /\ made + 1 \notin BlockHashes
      BY <1>2, <1>5
    <2>4. \A v \in Writers : pc'[v] # "idle" =>
            mine'[v] \in 1..made' /\ mine'[v] \notin Committed' /\ mine'[v] \notin BlockHashes'
      BY <1>0, <1>1, <1>2, <2>1, <2>2, <2>3 DEF MinesAreFresh
    <2>5. \A u, v \in Writers : pc'[u] # "idle" /\ pc'[v] # "idle" /\ mine'[u] = mine'[v] => u = v
      BY <1>0, <1>2, <2>1, <2>2 DEF MinesAreFresh
    <2>6. \A e \in Committed' \union BlockHashes' : e <= made'
      BY <1>1, <1>2, <1>5
    <2>7. QED
      BY <2>4, <2>5, <2>6 DEF MinesAreFresh
  <1>7. ReadsAreRecorded'
    BY <1>0, <1>1, <1>3 DEF ReadsAreRecorded, LedgerTypeOK
  <1>8. ParentsAreRecorded'
    BY <1>0, <1>1 DEF ParentsAreRecorded
  <1>9. QED
    BY <1>4, <1>6, <1>7, <1>8 DEF TreeInv

\* Reading what there is to chain to, or the length of the list.
LEMMA TreeRead ==
    ASSUME TreeInv, NEW w \in Writers, NEW place \in {"commit", "previous", "append"},
           NEW now \in [last : Hashes \union {GENESIS_HASH}, index : Nat],
           pc[w] # "idle", GoTo(w, place), seen' = [seen EXCEPT ![w] = now],
           place = "commit" => now.last \in Committed \union {GENESIS_HASH},
           place = "append" => now.last \in BlockHashes \union {GENESIS_HASH},
           UNCHANGED <<prev, block, made, mine, tableMet, listMet>>
    PROVE  TreeInv'
  <1>0. LedgerTypeOK /\ MinesAreFresh /\ ReadsAreRecorded /\ ParentsAreRecorded
    BY DEF TreeInv
  <1>1. Committed' = Committed /\ BlockHashes' = BlockHashes
    BY DEF Committed, BlockHashes
  <1>2. /\ pc' \in [Writers -> {"idle", "last", "commit", "count", "previous", "append"}]
        /\ seen' \in [Writers -> [last : Hashes \union {GENESIS_HASH}, index : Nat]]
        /\ pc'[w] = place /\ seen'[w] = now
        /\ \A v \in Writers : v # w => pc'[v] = pc[v] /\ seen'[v] = seen[v]
    BY <1>0 DEF GoTo, LedgerTypeOK
  <1>3. LedgerTypeOK'
    BY <1>0, <1>1, <1>2 DEF LedgerTypeOK
  <1>4. MinesAreFresh'
    BY <1>0, <1>1, <1>2 DEF MinesAreFresh
  <1>5. ReadsAreRecorded'
    BY <1>0, <1>1, <1>2 DEF ReadsAreRecorded
  <1>6. ParentsAreRecorded'
    BY <1>0, <1>1 DEF ParentsAreRecorded
  <1>7. QED
    BY <1>3, <1>4, <1>5, <1>6 DEF TreeInv

\* What a writer that ends leaves of the threads.
LEMMA EndKeepsTypes ==
    ASSUME LedgerTypeOK, NEW w \in Writers, End(w)
    PROVE  /\ pc' \in [Writers -> {"idle", "last", "commit", "count", "previous", "append"}]
           /\ mine' \in [Writers -> Hashes \union {None}]
           /\ seen' \in [Writers -> [last : Hashes \union {GENESIS_HASH}, index : Nat]]
           /\ pc'[w] = "idle"
           /\ \A v \in Writers : v # w =>
                 pc'[v] = pc[v] /\ mine'[v] = mine[v] /\ seen'[v] = seen[v]
BY DEF End, GoTo, LedgerTypeOK, Nothing, GENESIS_HASH

LEMMA TreeLoseEvent ==
    ASSUME TreeInv, NEW w \in Writers, LoseEvent(w)
    PROVE  TreeInv'
  <1>0. LedgerTypeOK /\ MinesAreFresh /\ ReadsAreRecorded /\ ParentsAreRecorded
    BY DEF TreeInv
  <1>1. Committed' = Committed /\ BlockHashes' = BlockHashes
    BY DEF Committed, BlockHashes, LoseEvent
  <1>2. LedgerTypeOK'
    BY <1>0, <1>1, EndKeepsTypes DEF LedgerTypeOK, LoseEvent
  <1>3. MinesAreFresh'
    BY <1>0, <1>1, EndKeepsTypes DEF MinesAreFresh, LoseEvent
  <1>4. ReadsAreRecorded'
    BY <1>0, <1>1, EndKeepsTypes DEF ReadsAreRecorded, LoseEvent
  <1>5. ParentsAreRecorded'
    BY <1>0, <1>1 DEF ParentsAreRecorded, LoseEvent
  <1>6. QED
    BY <1>2, <1>3, <1>4, <1>5 DEF TreeInv

\* A commit records the writer's event, with the parent that it has read.
LEMMA CommitEffect ==
    ASSUME TreeInv, NEW w \in Writers, CommitEvent(w)
    PROVE  /\ mine[w] \in Hashes /\ mine[w] \in Nat /\ mine[w] \notin Committed
           /\ mine[w] \notin BlockHashes /\ mine[w] \in 1..made
           /\ prev' \in [Hashes -> Hashes \union {GENESIS_HASH, None}]
           /\ prev'[mine[w]] = seen[w].last /\ seen[w].last \in Committed \union {GENESIS_HASH}
           /\ \A e \in Hashes : e # mine[w] => prev'[e] = prev[e]
           /\ Committed' = Committed \union {mine[w]}
           /\ BlockHashes' = BlockHashes
  <1>0. LedgerTypeOK /\ MinesAreFresh /\ ReadsAreRecorded
    BY DEF TreeInv
  <1>1. mine[w] \in 1..made /\ mine[w] \notin Committed /\ mine[w] \notin BlockHashes
    BY <1>0 DEF MinesAreFresh, CommitEvent
  <1>2. mine[w] \in Hashes /\ mine[w] \in Nat
    BY <1>0, <1>1, LedgerAssumption DEF LedgerTypeOK, Hashes
  <1>3. seen[w].last \in Committed \union {GENESIS_HASH} /\ seen[w].last # None
        /\ seen[w].last \in Hashes \union {GENESIS_HASH}
    BY <1>0, CommittedType, LedgerAssumption DEF ReadsAreRecorded, CommitEvent, GENESIS_HASH
  <1>4. prev' = [prev EXCEPT ![mine[w]] = seen[w].last] /\ block' = block
        /\ prev \in [Hashes -> Hashes \union {GENESIS_HASH, None}]
    BY <1>0 DEF CommitEvent, LedgerTypeOK
  <1>5. Committed' = Committed \union {mine[w]}
    BY <1>2, <1>3, <1>4 DEF Committed
  <1>6. QED
    BY <1>1, <1>2, <1>3, <1>4, <1>5 DEF BlockHashes

LEMMA TreeCommitEvent ==
    ASSUME TreeInv, NEW w \in Writers, CommitEvent(w)
    PROVE  TreeInv'
  <1>0. LedgerTypeOK /\ MinesAreFresh /\ ReadsAreRecorded /\ ParentsAreRecorded
    BY DEF TreeInv
  <1> DEFINE x == mine[w]
  <1>1. /\ x \in Hashes /\ x \notin Committed /\ x \notin BlockHashes /\ x \in 1..made
        /\ prev' \in [Hashes -> Hashes \union {GENESIS_HASH, None}]
        /\ prev'[x] = seen[w].last /\ seen[w].last \in Committed \union {GENESIS_HASH}
        /\ \A e \in Hashes : e # x => prev'[e] = prev[e]
        /\ Committed' = Committed \union {x} /\ BlockHashes' = BlockHashes
    BY CommitEffect
  <1>2. pc[w] = "commit" /\ End(w) /\ UNCHANGED <<block, made, tableMet, listMet>>
    BY DEF CommitEvent
  <1>3. LedgerTypeOK'
    <2>1. (Committed \intersect BlockHashes)' = {}
      BY <1>0, <1>1 DEF LedgerTypeOK, BlockHashes
    <2>2. QED
      BY <1>0, <1>1, <1>2, <2>1, EndKeepsTypes DEF LedgerTypeOK, BlockHashes
  <1>4. MinesAreFresh'
    <2>1. \A v \in Writers : v # w /\ pc[v] # "idle" => mine[v] # x
      BY <1>0, <1>2 DEF MinesAreFresh
    <2>2. \A v \in Writers : pc'[v] # "idle" => v # w /\ pc[v] # "idle" /\ mine'[v] = mine[v]
      BY <1>0, <1>2, EndKeepsTypes
    <2>3. \A v \in Writers : pc'[v] # "idle" =>
            mine'[v] \in 1..made' /\ mine'[v] \notin Committed' /\ mine'[v] \notin BlockHashes'
      BY <1>0, <1>1, <1>2, <2>1, <2>2 DEF MinesAreFresh
    <2>4. \A u, v \in Writers : pc'[u] # "idle" /\ pc'[v] # "idle" /\ mine'[u] = mine'[v] => u = v
      BY <1>0, <2>2 DEF MinesAreFresh
    <2>5. made \in Nat
      BY <1>0 DEF LedgerTypeOK
    <2>6. \A e \in Committed' \union BlockHashes' : e <= made'
      BY <1>0, <1>1, <1>2, <2>5 DEF MinesAreFresh
    <2>7. QED
      BY <2>3, <2>4, <2>6 DEF MinesAreFresh
  <1>5. ReadsAreRecorded'
    BY <1>0, <1>1, <1>2, EndKeepsTypes DEF ReadsAreRecorded
  <1>6. ParentsAreRecorded'
    <2>1. \A e \in Committed' : prev'[e] \in Committed' \union {GENESIS_HASH}
      BY <1>0, <1>1, CommittedType DEF ParentsAreRecorded
    <2>2. QED
      BY <1>0, <1>2, <2>1 DEF ParentsAreRecorded
  <1>7. QED
    BY <1>3, <1>4, <1>5, <1>6 DEF TreeInv

\* An append records the writer's block at the end of the list.
LEMMA AppendEffect ==
    ASSUME TreeInv, NEW w \in Writers, AppendBlock(w)
    PROVE  /\ mine[w] \in Hashes /\ mine[w] \notin Committed /\ mine[w] \in 1..made
           /\ NewBlock(w) \in BlockRows /\ block' \in Seq(BlockRows) /\ block' # << >>
           /\ Len(block') = Len(block) + 1
           /\ \A i \in 1..Len(block) : block'[i] = block[i]
           /\ block'[Len(block) + 1] = NewBlock(w)
           /\ Committed' = Committed
           /\ BlockHashes' = BlockHashes \union {mine[w]}
           /\ seen[w].last \in BlockHashes \union {GENESIS_HASH}
  <1>0. LedgerTypeOK /\ MinesAreFresh /\ ReadsAreRecorded
    BY DEF TreeInv
  <1>1. mine[w] \in 1..made /\ mine[w] \notin Committed
    BY <1>0 DEF MinesAreFresh, AppendBlock
  <1>2. mine[w] \in Hashes
    BY <1>0, <1>1, LedgerAssumption DEF LedgerTypeOK, Hashes
  <1>3. NewBlock(w) \in BlockRows
    BY <1>0, <1>2 DEF NewBlock, BlockRows, LedgerTypeOK
  <1>4. block \in Seq(BlockRows) /\ block' = Append(block, NewBlock(w)) /\ prev' = prev
    BY <1>0 DEF LedgerTypeOK, AppendBlock
  <1>5. /\ block' \in Seq(BlockRows) /\ block' # << >>
        /\ Len(block') = Len(block) + 1
        /\ \A i \in 1..Len(block) : block'[i] = block[i]
        /\ block'[Len(block) + 1] = NewBlock(w)
    BY <1>3, <1>4, AppendProperties
  <1>6. DOMAIN block = 1..Len(block) /\ DOMAIN block' = 1..Len(block) + 1 /\ Len(block) \in Nat
    BY <1>4, <1>5, LenProperties
  <1>7. BlockHashes' = BlockHashes \union {mine[w]}
    <2>1. BlockHashes' = {block'[i].current_hash : i \in 1..Len(block) + 1}
      BY <1>6 DEF BlockHashes
    <2>2. BlockHashes = {block[i].current_hash : i \in 1..Len(block)}
      BY <1>6 DEF BlockHashes
    <2>3. NewBlock(w).current_hash = mine[w]
      BY DEF NewBlock
    <2>4. QED
      BY <1>5, <1>6, <2>1, <2>2, <2>3
  <1>8. Committed' = Committed
    BY <1>4 DEF Committed
  <1>9. seen[w].last \in BlockHashes \union {GENESIS_HASH}
    BY <1>0 DEF ReadsAreRecorded, AppendBlock
  <1>10. QED
    BY <1>1, <1>2, <1>3, <1>5, <1>7, <1>8, <1>9

LEMMA TreeAppendBlock ==
    ASSUME TreeInv, NEW w \in Writers, AppendBlock(w)
    PROVE  TreeInv'
  <1>0. LedgerTypeOK /\ MinesAreFresh /\ ReadsAreRecorded /\ ParentsAreRecorded
    BY DEF TreeInv
  <1> DEFINE x == mine[w]
  <1>1. /\ x \in Hashes /\ x \notin Committed /\ x \in 1..made
        /\ block' \in Seq(BlockRows) /\ block' # << >>
        /\ Len(block') = Len(block) + 1
        /\ \A i \in 1..Len(block) : block'[i] = block[i]
        /\ block'[Len(block) + 1] = NewBlock(w)
        /\ Committed' = Committed /\ BlockHashes' = BlockHashes \union {x}
        /\ seen[w].last \in BlockHashes \union {GENESIS_HASH}
    BY AppendEffect
  <1>2. pc[w] = "append" /\ End(w) /\ UNCHANGED <<prev, made, tableMet, listMet>>
    BY DEF AppendBlock
  <1>3. LedgerTypeOK'
    <2>1. (Committed \intersect BlockHashes)' = {}
      BY <1>0, <1>1 DEF LedgerTypeOK, BlockHashes
    <2>2. QED
      BY <1>0, <1>1, <1>2, <2>1, EndKeepsTypes DEF LedgerTypeOK, BlockHashes
  <1>4. MinesAreFresh'
    <2>1. \A v \in Writers : v # w /\ pc[v] # "idle" => mine[v] # x
      BY <1>0, <1>2 DEF MinesAreFresh
    <2>2. \A v \in Writers : pc'[v] # "idle" => v # w /\ pc[v] # "idle" /\ mine'[v] = mine[v]
      BY <1>0, <1>2, EndKeepsTypes
    <2>3. \A v \in Writers : pc'[v] # "idle" =>
            mine'[v] \in 1..made' /\ mine'[v] \notin Committed' /\ mine'[v] \notin BlockHashes'
      BY <1>0, <1>1, <1>2, <2>1, <2>2 DEF MinesAreFresh
    <2>4. \A u, v \in Writers : pc'[u] # "idle" /\ pc'[v] # "idle" /\ mine'[u] = mine'[v] => u = v
      BY <1>0, <2>2 DEF MinesAreFresh
    <2>5. made \in Nat
      BY <1>0 DEF LedgerTypeOK
    <2>6. \A e \in Committed' \union BlockHashes' : e <= made'
      BY <1>0, <1>1, <1>2, <2>5 DEF MinesAreFresh
    <2>7. QED
      BY <2>3, <2>4, <2>6 DEF MinesAreFresh
  <1>5. ReadsAreRecorded'
    BY <1>0, <1>1, <1>2, EndKeepsTypes DEF ReadsAreRecorded
  <1>6. ParentsAreRecorded'
    <2>1. DOMAIN block = 1..Len(block) /\ Len(block) \in Nat
      BY <1>0, BlockType
    <2>2. DOMAIN block' = 1..Len(block) + 1
      BY <1>1, LenProperties
    <2>3. ASSUME NEW i \in 1..Len(block)
          PROVE  block'[i].previous_hash \in
                   {block'[j].current_hash : j \in 1..(i - 1)} \union {GENESIS_HASH}
      <3>1. block[i].previous_hash \in
                   {block[j].current_hash : j \in 1..(i - 1)} \union {GENESIS_HASH}
        BY <1>0, <2>1 DEF ParentsAreRecorded
      <3>2. \A j \in 1..(i - 1) : block'[j] = block[j]
        BY <1>1, <2>1
      <3>3. QED
        BY <1>1, <3>1, <3>2
    <2>4. block'[Len(block) + 1].previous_hash \in
             {block'[j].current_hash : j \in 1..Len(block)} \union {GENESIS_HASH}
      <3>1. NewBlock(w).previous_hash \in BlockHashes \union {GENESIS_HASH}
        BY <1>1 DEF NewBlock
      <3>2. BlockHashes = {block[j].current_hash : j \in 1..Len(block)}
        BY <2>1 DEF BlockHashes
      <3>3. QED
        BY <1>1, <3>1, <3>2
    <2>5. \A i \in DOMAIN block' :
            block'[i].previous_hash \in
               {block'[j].current_hash : j \in 1..(i - 1)} \union {GENESIS_HASH}
      <3>1. \A i \in DOMAIN block' : i \in 1..Len(block) \/ (i = Len(block) + 1 /\ i - 1 = Len(block))
        BY <2>1, <2>2
      <3>2. QED
        BY <3>1, <2>3, <2>4
    <2>6. QED
      BY <1>0, <1>1, <1>2, <2>5 DEF ParentsAreRecorded
  <1>7. QED
    BY <1>3, <1>4, <1>5, <1>6 DEF TreeInv

\* The new process begins a list of its own.
LEMMA CrashEffect ==
    ASSUME TreeInv, Crash
    PROVE  /\ made + 1 \in Hashes /\ made' = made + 1 /\ made \in Nat
           /\ block' \in Seq(BlockRows) /\ block' # << >> /\ Len(block') = 1
           /\ DOMAIN block' = 1..1
           /\ block'[1].previous_hash = GENESIS_HASH /\ block'[1].current_hash = made + 1
           /\ BlockHashes' = {made + 1} /\ Committed' = Committed
           /\ \A w \in Writers : pc'[w] = "idle"
  <1>1. made + 1 \in Hashes /\ made' = made + 1 /\ made \in Nat
    BY LedgerAssumption DEF TreeInv, LedgerTypeOK, Crash, Hashes
  <1> DEFINE b == [block_index |-> 0, previous_hash |-> GENESIS_HASH, current_hash |-> made + 1]
  <1>2. block' = <<b>> /\ b \in BlockRows
    BY <1>1 DEF Crash, SystemInit, BlockRows, GENESIS_HASH
  <1>3. block' \in Seq(BlockRows) /\ block' # << >> /\ Len(block') = 1 /\ block'[1] = b
        /\ DOMAIN block' = 1..1
    BY <1>2
  <1>4. BlockHashes' = {made + 1}
    BY <1>3 DEF BlockHashes
  <1>5. Committed' = Committed
    BY DEF Crash, Committed
  <1>6. QED
    BY <1>1, <1>3, <1>4, <1>5 DEF Crash

LEMMA TreeCrash ==
    ASSUME TreeInv, Crash
    PROVE  TreeInv'
  <1>0. LedgerTypeOK /\ MinesAreFresh /\ ReadsAreRecorded /\ ParentsAreRecorded
    BY DEF TreeInv
  <1>1. made + 1 \notin Committed /\ \A e \in Committed : e <= made + 1
    BY <1>0, CrashEffect, CommittedType DEF MinesAreFresh
  <1>2. LedgerTypeOK'
    <2>1. (Committed \intersect BlockHashes)' = {}
      BY <1>1, CrashEffect
    <2>2. made' \in 1..MaxEvents
      BY CrashEffect DEF Hashes
    <2>3. QED
      BY <1>0, <2>1, <2>2, CrashEffect
         DEF LedgerTypeOK, Crash, BlockHashes, Nothing, GENESIS_HASH
  <1>3. MinesAreFresh'
    BY <1>1, CrashEffect DEF MinesAreFresh
  <1>4. ReadsAreRecorded'
    BY CrashEffect DEF ReadsAreRecorded
  <1>5. ParentsAreRecorded'
    <2>1. prev' = prev
      BY DEF Crash
    <2>2. QED
      BY <1>0, <2>1, CrashEffect DEF ParentsAreRecorded
  <1>6. QED
    BY <1>2, <1>3, <1>4, <1>5 DEF TreeInv

\* Starting a call of record_event or of add_audit_log.
LEMMA TreeStart ==
    ASSUME TreeInv, NEW w \in Writers, RecordEvent(w) \/ AddAuditLog(w)
    PROVE  TreeInv'
  <1>0. LedgerTypeOK
    BY DEF TreeInv
  <1>1. Cardinality(Committed) \in Nat /\ Len(block) \in Nat
    BY <1>0, CommittedType, BlockType
  <1>2. tableMet \in Nat \union {None} /\ listMet \in Nat \union {None}
    BY <1>0 DEF LedgerTypeOK
  <1>3. CASE RecordEvent(w)
    <2>1. TakeHash(w) /\ GoTo(w, "last") /\ UNCHANGED <<prev, block, seen>>
      BY <1>3 DEF RecordEvent
    <2>2. tableMet' \in Nat \union {None} /\ listMet' \in Nat \union {None}
      BY <1>1, <1>2, <1>3 DEF RecordEvent, Met
    <2>3. QED
      BY <2>1, <2>2, TreeTakeHash
  <1>4. CASE AddAuditLog(w)
    <2>1. TakeHash(w) /\ GoTo(w, "count") /\ UNCHANGED <<prev, block, seen>>
      BY <1>4 DEF AddAuditLog
    <2>2. tableMet' \in Nat \union {None} /\ listMet' \in Nat \union {None}
      BY <1>1, <1>2, <1>4 DEF AddAuditLog, Met
    <2>3. QED
      BY <2>1, <2>2, TreeTakeHash
  <1>5. QED
    BY <1>3, <1>4

\* The reads of a call: the last event, the length of the list, its last block.
LEMMA TreeReads ==
    ASSUME TreeInv, NEW w \in Writers,
           ReadLastEvent(w) \/ CountBlocks(w) \/ ReadPrevious(w)
    PROVE  TreeInv'
  <1>0. LedgerTypeOK
    BY DEF TreeInv
  <1>1. /\ LastEvent \in Committed \union {GENESIS_HASH} /\ LastEvent \in Hashes \union {GENESIS_HASH}
        /\ LastHash \in BlockHashes /\ LastHash \in Hashes
        /\ Len(block) \in Nat
    BY <1>0, LastEventIsRecorded, LastHashIsRecorded, CommittedType, BlockType
  <1>2. seen \in [Writers -> [last : Hashes \union {GENESIS_HASH}, index : Nat]]
    BY <1>0 DEF LedgerTypeOK
  <1>3. CASE ReadLastEvent(w)
    <2> DEFINE now == [seen[w] EXCEPT !.last = LastEvent]
    <2>1. now \in [last : Hashes \union {GENESIS_HASH}, index : Nat] /\ now.last = LastEvent
      BY <1>1, <1>2
    <2>2. pc[w] # "idle" /\ GoTo(w, "commit") /\ seen' = [seen EXCEPT ![w] = now]
          /\ UNCHANGED <<prev, block, made, mine, tableMet, listMet>>
      BY <1>3 DEF ReadLastEvent
    <2> HIDE DEF now
    <2>3. QED
      BY <1>1, <2>1, <2>2, TreeRead
  <1>4. CASE CountBlocks(w)
    <2> DEFINE now == [seen[w] EXCEPT !.index = Len(block)]
    <2>1. now \in [last : Hashes \union {GENESIS_HASH}, index : Nat]
      BY <1>1, <1>2
    <2>2. pc[w] # "idle" /\ GoTo(w, "previous") /\ seen' = [seen EXCEPT ![w] = now]
          /\ UNCHANGED <<prev, block, made, mine, tableMet, listMet>>
      BY <1>4 DEF CountBlocks
    <2> HIDE DEF now
    <2>3. QED
      BY <2>1, <2>2, TreeRead
  <1>5. CASE ReadPrevious(w)
    <2> DEFINE now == [seen[w] EXCEPT !.last = LastHash]
    <2>1. now \in [last : Hashes \union {GENESIS_HASH}, index : Nat] /\ now.last = LastHash
      BY <1>1, <1>2
    <2>2. pc[w] # "idle" /\ GoTo(w, "append") /\ seen' = [seen EXCEPT ![w] = now]
          /\ UNCHANGED <<prev, block, made, mine, tableMet, listMet>>
      BY <1>5 DEF ReadPrevious
    <2> HIDE DEF now
    <2>3. QED
      BY <1>1, <2>1, <2>2, TreeRead
  <1>6. QED
    BY <1>3, <1>4, <1>5

LEMMA TreeStep ==
    ASSUME TreeInv, [LedgerNext]_ledgerVars
    PROVE  TreeInv'
  <1>1. ASSUME NEW w \in Writers, RecordEvent(w) \/ AddAuditLog(w)
        PROVE  TreeInv'
    BY <1>1, TreeStart
  <1>2. ASSUME NEW w \in Writers, ReadLastEvent(w) \/ CountBlocks(w) \/ ReadPrevious(w)
        PROVE  TreeInv'
    BY <1>2, TreeReads
  <1>3. ASSUME NEW w \in Writers, CommitEvent(w) \/ LoseEvent(w) \/ AppendBlock(w)
        PROVE  TreeInv'
    BY <1>3, TreeCommitEvent, TreeLoseEvent, TreeAppendBlock
  <1>4. CASE Crash
    BY <1>4, TreeCrash
  <1>5. CASE UNCHANGED ledgerVars
    BY <1>5 DEF ledgerVars, TreeInv, LedgerTypeOK, MinesAreFresh, ReadsAreRecorded,
                ParentsAreRecorded, Committed, BlockHashes
  <1>6. QED
    BY <1>1, <1>2, <1>3, <1>4, <1>5 DEF LedgerNext

LEMMA LedgerHasTrees == LedgerSpec => []TreeInv
  <1>1. LedgerInit => TreeInv
    BY TreeInit
  <1>2. TreeInv /\ [LedgerNext]_ledgerVars => TreeInv'
    BY TreeStep
  <1>3. QED
    BY <1>1, <1>2, PTL DEF LedgerSpec

\* Whatever overlaps, fails or restarts, an event of either ledger is chained
\* to the genesis hash or to an event that was recorded before it.
THEOREM LedgersAreTrees == LedgerSpec => []ParentsAreRecorded
  <1>1. TreeInv => ParentsAreRecorded
    BY DEF TreeInv
  <1>2. QED
    BY <1>1, LedgerHasTrees, PTL

-----------------------------------------------------------------------------
(* The list keeps its promise                                              *)

HashesOf(b) == [i \in DOMAIN b |-> b[i].current_hash]
LinksOf(b)  == [i \in DOMAIN b |-> b[i].previous_hash]

\* Until two writers meet there is one writer, it chains to the last block, and
\* every link is right; the links of before hold ever after.
ListInv ==
    /\ listMet # None =>
          listMet \in 0..Len(block) /\ LinksHold(HashesOf(block), LinksOf(block), listMet)
    /\ listMet = None =>
          /\ LinksHold(HashesOf(block), LinksOf(block), Len(block))
          /\ \A v, w \in Writers : InList(v) /\ InList(w) => v = w
          /\ \A w \in Writers : pc[w] = "append" => seen[w].last = LastHash

ListRefined == [ListPromise!Next]_<<AcceptedList, Len(block), listMet>>

LEMMA ListWalk ==
    ASSUME NEW b \in Seq(BlockRows)
    PROVE  /\ HashesOf(b) \in Seq(Hashes)
           /\ Len(HashesOf(b)) = Len(b) /\ Len(b) \in Nat
           /\ \A i \in 1..Len(b) :
                 HashesOf(b)[i] = b[i].current_hash /\ LinksOf(b)[i] = b[i].previous_hash
  <1>1. DOMAIN b = 1..Len(b) /\ Len(b) \in Nat
    BY LenProperties
  <1>2. \A i \in 1..Len(b) : b[i].current_hash \in Hashes
    <2>1. \A i \in 1..Len(b) : b[i] \in BlockRows
      BY ElementOfSeq
    <2>2. QED
      BY <2>1 DEF BlockRows
  <1>3. HashesOf(b) \in [1..Len(b) -> Hashes]
    BY <1>1, <1>2 DEF HashesOf
  <1>4. HashesOf(b) \in Seq(Hashes) /\ Len(HashesOf(b)) = Len(b)
    BY <1>1, <1>3, IsASeq, LenProperties
  <1>5. QED
    BY <1>1, <1>4 DEF HashesOf, LinksOf

\* Links that hold are unaffected by what is appended.
LEMMA ListExtends ==
    ASSUME NEW b \in Seq(BlockRows), NEW c \in Seq(BlockRows), NEW n \in 0..Len(b),
           Len(c) >= Len(b), \A i \in 1..Len(b) : c[i] = b[i],
           LinksHold(HashesOf(b), LinksOf(b), n)
    PROVE  /\ LinksHold(HashesOf(c), LinksOf(c), n)
           /\ \A i \in 1..n : HashesOf(b)[i] = HashesOf(c)[i]
  <1>1. Len(b) \in Nat /\ Len(c) \in Nat
    BY ListWalk
  <1>2. \A i \in 1..n : i \in 1..Len(b) /\ i \in 1..Len(c)
    BY <1>1
  <1>3. \A i \in 1..n : HashesOf(b)[i] = HashesOf(c)[i] /\ LinksOf(b)[i] = LinksOf(c)[i]
    BY <1>2, ListWalk, ZenonT(40)
  <1>4. \A i \in 1..n : i # 1 => i - 1 \in 1..n
    BY <1>1
  <1>5. QED
    BY <1>3, <1>4 DEF LinksHold

LEMMA AcceptedListIs ==
    AcceptedList = Accepted(HashesOf(block), LinksOf(block))
BY DEF AcceptedList, HashesOf, LinksOf

\* Steps that leave the list and its history alone.
LEMMA ListIdle ==
    ASSUME LedgerTypeOK, ListInv, block' = block, listMet' = listMet,
           \A v \in Writers : InList(v)' => InList(v),
           \A v \in Writers : pc'[v] = "append" => seen'[v].last = LastHash
                                    \/ (pc[v] = "append" /\ seen'[v] = seen[v])
    PROVE  ListInv' /\ ListRefined
  <1>1. LastHash' = LastHash
    BY DEF LastHash
  <1>2. ListInv'
    BY <1>1 DEF ListInv
  <1>3. UNCHANGED <<AcceptedList, Len(block), listMet>>
    BY DEF AcceptedList
  <1>4. QED
    BY <1>2, <1>3 DEF ListRefined

LEMMA ListAddAuditLog ==
    ASSUME LedgerTypeOK, ListInv, NEW w \in Writers, AddAuditLog(w)
    PROVE  ListInv' /\ ListRefined
  <1> DEFINE inside == {v \in Writers : InList(v)}
  <1>1. /\ pc[w] = "idle" /\ pc' = [pc EXCEPT ![w] = "count"] /\ seen' = seen /\ block' = block
        /\ listMet' = Met(listMet, inside, Len(block))
    BY DEF AddAuditLog, TakeHash, GoTo
  <1>2. /\ pc'[w] = "count" /\ \A v \in Writers : v # w => pc'[v] = pc[v]
    BY <1>1 DEF LedgerTypeOK
  <1>3. LastHash' = LastHash /\ AcceptedList' = AcceptedList /\ Len(block') = Len(block)
    BY <1>1 DEF LastHash, AcceptedList
  <1>4. Len(block) \in Nat /\ Len(block) # None /\ Len(block) \in 0..Len(block)
    BY BlockType, LedgerAssumption
  <1>5. CASE listMet = None /\ inside # {}
    <2>1. listMet' = Len(block)
      BY <1>1, <1>5 DEF Met
    <2>2. ListPromise!Meet
      BY <1>3, <1>5, <2>1 DEF ListPromise!Meet
    <2>3. ListInv'
      BY <1>1, <1>4, <1>5, <2>1 DEF ListInv
    <2>4. QED
      BY <2>2, <2>3 DEF ListRefined, ListPromise!Next
  <1>6. CASE listMet = None /\ inside = {}
    <2>1. listMet' = None
      BY <1>1, <1>6 DEF Met
    <2>2. \A v \in Writers : ~ InList(v)
      BY <1>6
    <2>3. \A v \in Writers : InList(v)' => v = w
      BY <1>2, <2>2 DEF InList
    <2>4. \A v \in Writers : pc'[v] # "append"
      BY <1>2, <2>2 DEF InList
    <2>5. ListInv'
      BY <1>1, <1>6, <2>1, <2>3, <2>4 DEF ListInv
    <2>6. QED
      BY <1>3, <1>6, <2>1, <2>5 DEF ListRefined
  <1>7. CASE listMet # None
    <2>1. listMet' = listMet
      BY <1>1, <1>7 DEF Met
    <2>2. ListInv'
      BY <1>1, <1>7, <2>1 DEF ListInv
    <2>3. QED
      BY <1>3, <2>1, <2>2 DEF ListRefined
  <1>8. QED
    BY <1>5, <1>6, <1>7

LEMMA ListAppendBlock ==
    ASSUME TreeInv, ListInv, NEW w \in Writers, AppendBlock(w)
    PROVE  ListInv' /\ ListRefined
  <1>0. LedgerTypeOK
    BY DEF TreeInv
  <1> DEFINE b == block
             c == block'
             n == Len(b)
  <1>1. b \in Seq(BlockRows) /\ n \in Nat \ {0}
    BY <1>0, BlockType DEF LedgerTypeOK
  <1>2. /\ c \in Seq(BlockRows) /\ Len(c) = n + 1
        /\ \A i \in 1..n : c[i] = b[i]
        /\ c[n + 1].previous_hash = seen[w].last
    <2>1. c[n + 1] = NewBlock(w)
      BY AppendEffect
    <2>2. NewBlock(w).previous_hash = seen[w].last
      BY DEF NewBlock
    <2>3. QED
      BY <2>1, <2>2, AppendEffect
  <1>3. pc[w] = "append" /\ End(w) /\ listMet' = listMet
    BY DEF AppendBlock
  <1>4. AcceptedList = Accepted(HashesOf(b), LinksOf(b))
        /\ AcceptedList' = Accepted(HashesOf(c), LinksOf(c))
    BY DEF AcceptedList, HashesOf, LinksOf
  <1>5. /\ HashesOf(b) \in Seq(Hashes) /\ HashesOf(c) \in Seq(Hashes)
        /\ Len(HashesOf(b)) = n /\ Len(HashesOf(c)) = n + 1
    BY <1>1, <1>2, ListWalk
  <1> HIDE DEF b, c, n
  <1>6. CASE listMet = None
    <2>1. LinksHold(HashesOf(b), LinksOf(b), n) /\ seen[w].last = LastHash
          /\ \A v \in Writers : InList(v) => v = w
      BY <1>3, <1>6 DEF ListInv, InList, b, n
    <2>2. LinksHold(HashesOf(c), LinksOf(c), n)
          /\ \A i \in 1..n : HashesOf(b)[i] = HashesOf(c)[i]
      BY <1>1, <1>2, <2>1, ListExtends DEF n
    <2>3. LinksOf(c)[n + 1] = HashesOf(c)[n] /\ n + 1 # 1 /\ n + 1 - 1 = n
      <3>1. n \in 1..n /\ n + 1 \in 1..Len(c) /\ n \in 1..Len(c)
        BY <1>1, <1>2
      <3>2. LinksOf(c)[n + 1] = c[n + 1].previous_hash /\ HashesOf(c)[n] = b[n].current_hash
        BY <1>2, <3>1, ListWalk
      <3>3. LastHash = b[n].current_hash
        BY <1>0 DEF LastHash, LedgerTypeOK, b, n
      <3>4. QED
        BY <1>1, <1>2, <2>1, <3>2, <3>3
    <2>4. LinksHold(HashesOf(c), LinksOf(c), n + 1)
      BY <1>1, <2>2, <2>3, LinksStep
    <2>5. \A v \in Writers : ~ InList(v)' /\ pc'[v] # "append"
      BY <1>0, <1>3, <2>1, EndKeepsTypes DEF InList
    <2>6. ListInv'
      BY <1>2, <1>3, <1>6, <2>4, <2>5 DEF ListInv, c, n
    <2>7. AcceptedList = HashesOf(b) /\ AcceptedList' = HashesOf(c)
      BY <1>4, <1>5, <2>1, <2>4, AcceptedWhole
    <2>8. SubSeq(AcceptedList', 1, n) = SubSeq(AcceptedList, 1, n)
      BY <1>1, <1>4, <1>5, <2>1, <2>2, AcceptedKeeps
    <2>9. ListPromise!Record
      <3>1. Len(AcceptedList) = n /\ Len(AcceptedList') = n + 1 /\ n + 1 >= n
            /\ Len(block) = n /\ Len(block') = n + 1
        BY <1>1, <1>2, <1>5, <2>7 DEF n, b, c
      <3>2. QED
        BY <1>3, <1>6, <2>8, <3>1 DEF ListPromise!Record, ListPromise!Keeps
    <2>10. QED
      BY <2>6, <2>9 DEF ListRefined, ListPromise!Next
  <1>7. CASE listMet # None
    <2> DEFINE m == listMet
    <2>1. m \in 0..n /\ LinksHold(HashesOf(b), LinksOf(b), m)
      BY <1>7 DEF ListInv, b, n
    <2>2. LinksHold(HashesOf(c), LinksOf(c), m)
          /\ \A i \in 1..m : HashesOf(b)[i] = HashesOf(c)[i]
      BY <1>1, <1>2, <2>1, ListExtends DEF n
    <2>3. m \in Nat /\ m <= n /\ m <= n + 1 /\ m \in 0..(n + 1)
      BY <1>1, <2>1
    <2>4. ListInv'
      BY <1>2, <1>3, <1>7, <2>2, <2>3 DEF ListInv, c
    <2> HIDE DEF m
    <2>5. /\ Len(AcceptedList') >= m
          /\ SubSeq(AcceptedList', 1, m) = SubSeq(AcceptedList, 1, m)
          /\ Len(AcceptedList') <= n + 1
      BY <1>4, <1>5, <2>1, <2>2, <2>3, AcceptedKeeps
    <2>6. Len(block) = n /\ Len(block') = n + 1
      BY <1>2 DEF n, b, c
    <2>7. ListPromise!Disturb
      BY <1>3, <1>7, <2>5, <2>6 DEF ListPromise!Disturb, ListPromise!Keeps, m
    <2>8. QED
      BY <2>4, <2>7 DEF ListRefined, ListPromise!Next
  <1>8. QED
    BY <1>6, <1>7

\* A list of one block is the chain of a new ledger.
LEMMA NewList ==
    ASSUME NEW b \in Seq(BlockRows), Len(b) = 1, b[1].previous_hash = GENESIS_HASH
    PROVE  /\ LinksHold(HashesOf(b), LinksOf(b), 1)
           /\ Len(Accepted(HashesOf(b), LinksOf(b))) = 1
  <1>1. /\ HashesOf(b) \in Seq(Hashes) /\ Len(HashesOf(b)) = 1
        /\ LinksOf(b)[1] = GENESIS_HASH
    BY ListWalk
  <1>2. LinksHold(HashesOf(b), LinksOf(b), 1)
    BY <1>1 DEF LinksHold
  <1>3. Accepted(HashesOf(b), LinksOf(b)) = HashesOf(b)
    BY <1>1, <1>2, AcceptedWhole
  <1>4. QED
    BY <1>1, <1>2, <1>3

LEMMA ListCrash ==
    ASSUME TreeInv, ListInv, Crash
    PROVE  ListInv' /\ ListRefined
  <1>1. /\ block' \in Seq(BlockRows) /\ Len(block') = 1 /\ block'[1].previous_hash = GENESIS_HASH
        /\ \A w \in Writers : pc'[w] = "idle"
        /\ listMet' = None
    BY CrashEffect DEF Crash
  <1>2. LinksHold(HashesOf(block'), LinksOf(block'), 1)
        /\ Len(Accepted(HashesOf(block'), LinksOf(block'))) = 1
    BY <1>1, NewList
  <1>3. AcceptedList' = Accepted(HashesOf(block'), LinksOf(block'))
    BY DEF AcceptedList, HashesOf, LinksOf
  <1>4. ListInv'
    BY <1>1, <1>2 DEF ListInv, InList
  <1>5. ListPromise!Restart
    BY <1>1, <1>2, <1>3 DEF ListPromise!Restart
  <1>6. QED
    BY <1>4, <1>5 DEF ListRefined, ListPromise!Next

LEMMA ListStep ==
    ASSUME TreeInv, ListInv, [LedgerNext]_ledgerVars
    PROVE  ListInv' /\ ListRefined
  <1>0. LedgerTypeOK
    BY DEF TreeInv
  <1>1. ASSUME NEW w \in Writers, RecordEvent(w) \/ ReadLastEvent(w)
        PROVE  ListInv' /\ ListRefined
    <2>1. /\ block' = block /\ listMet' = listMet
          /\ ~ InList(w) /\ ~ InList(w)' /\ pc'[w] # "append"
          /\ \A v \in Writers : v # w => pc'[v] = pc[v] /\ seen'[v] = seen[v]
      BY <1>0, <1>1 DEF RecordEvent, TakeHash, ReadLastEvent, GoTo, InList, LedgerTypeOK
    <2>2. QED
      BY <1>0, <2>1, ListIdle DEF InList
  <1>2. ASSUME NEW w \in Writers, CommitEvent(w) \/ LoseEvent(w)
        PROVE  ListInv' /\ ListRefined
    <2>1. /\ block' = block /\ listMet' = listMet
          /\ End(w)
      BY <1>2 DEF CommitEvent, LoseEvent
    <2>2. QED
      BY <1>0, <2>1, ListIdle, EndKeepsTypes DEF InList
  <1>3. ASSUME NEW w \in Writers, CountBlocks(w) \/ ReadPrevious(w)
        PROVE  ListInv' /\ ListRefined
    <2>1. /\ block' = block /\ listMet' = listMet /\ InList(w)
          /\ \A v \in Writers : v # w => pc'[v] = pc[v] /\ seen'[v] = seen[v]
          /\ pc'[w] = "append" => seen'[w].last = LastHash
      BY <1>0, <1>3 DEF CountBlocks, ReadPrevious, GoTo, InList, LedgerTypeOK
    <2>2. QED
      BY <1>0, <2>1, ListIdle DEF InList
  <1>4. ASSUME NEW w \in Writers, AddAuditLog(w) \/ AppendBlock(w)
        PROVE  ListInv' /\ ListRefined
    BY <1>0, <1>4, ListAddAuditLog, ListAppendBlock
  <1>5. CASE Crash
    BY <1>5, ListCrash
  <1>6. CASE UNCHANGED ledgerVars
    BY <1>0, <1>6, ListIdle DEF ledgerVars, InList
  <1>7. QED
    BY <1>1, <1>2, <1>3, <1>4, <1>5, <1>6 DEF LedgerNext

LEMMA ListInit ==
    ASSUME LedgerInit
    PROVE  ListInv /\ ListPromise!Init
  <1>0. LedgerTypeOK
    BY TreeInit DEF TreeInv
  <1>1. block \in Seq(BlockRows) /\ Len(block) = 1 /\ block[1].previous_hash = GENESIS_HASH
    BY <1>0 DEF LedgerInit, SystemInit, LedgerTypeOK
  <1>2. LinksHold(HashesOf(block), LinksOf(block), 1) /\ Len(AcceptedList) = 1
    BY <1>1, NewList, AcceptedListIs
  <1>3. listMet = None /\ \A w \in Writers : pc[w] = "idle"
    BY DEF LedgerInit
  <1>4. QED
    BY <1>1, <1>2, <1>3 DEF ListInv, InList, ListPromise!Init

\* The list of the process implements HashChain: it is a chain that every
\* block extends until two calls of add_audit_log overlap, and what was
\* recorded before that still verifies, until the process ends.
THEOREM ListRefinement == LedgerSpec => ListKeepsItsPromise
  <1>1. LedgerInit => TreeInv /\ ListInv /\ ListPromise!Init
    BY TreeInit, ListInit
  <1>2. TreeInv /\ ListInv /\ [LedgerNext]_ledgerVars => ListInv'
    BY ListStep
  <1>3. TreeInv /\ ListInv /\ [LedgerNext]_ledgerVars =>
            [ListPromise!Next]_<<AcceptedList, Len(block), listMet>>
    BY ListStep DEF ListRefined
  <1>4. QED
    BY <1>1, <1>2, <1>3, LedgerHasTrees, PTL
       DEF LedgerSpec, ListKeepsItsPromise, ListPromise!Spec

-----------------------------------------------------------------------------
(* The table keeps its promise                                             *)

LinksIn(p, S) == [i \in DOMAIN Walk(S) |-> p[Walk(S)[i]]]

\* Until two writers meet there is one writer, it chains to the last event and
\* its creation time is after that of every event; the links of before hold
\* ever after, as all that commits later is created later.
TableInv ==
    /\ tableMet # None =>
          /\ tableMet \in 0..Cardinality(Committed)
          /\ LinksHold(Walk(Committed), LinksIn(prev, Committed), tableMet)
          /\ tableMet > 0 =>
                \A w \in Writers : InTable(w) => Walk(Committed)[tableMet] < mine[w]
    /\ tableMet = None =>
          /\ LinksHold(Walk(Committed), LinksIn(prev, Committed), Cardinality(Committed))
          /\ \A v, w \in Writers : InTable(v) /\ InTable(w) => v = w
          /\ \A w \in Writers : InTable(w) => \A e \in Committed : e < mine[w]
          /\ \A w \in Writers : pc[w] = "commit" => seen[w].last = LastEvent

TableRefined == [TablePromise!Next]_<<AcceptedTable, Cardinality(Committed), tableMet>>

\* The walk ends at the greatest number.
LEMMA WalkEnds ==
    ASSUME NEW m \in Nat, NEW S \in SUBSET (1..m), S # {}
    PROVE  Walk(S)[Cardinality(S)] = Max(S) /\ Max(S) \in S
  <1>1. S \in SUBSET Nat /\ S \in SUBSET (0..m) /\ IsFiniteSet(S)
    <2>1. IsFiniteSet(1..m) /\ 1..m \in SUBSET Nat /\ 1..m \in SUBSET (0..m)
      BY FS_Interval
    <2>2. QED
      BY <2>1, FS_Subset
  <1>2. Max(S) \in S /\ \A e \in S : e <= Max(S)
    BY <1>1, MaxIsGreatest
  <1>3. Below(S, Max(S)) = S
    BY <1>2 DEF Below
  <1>4. Rank(S, Max(S)) = Cardinality(S)
    BY <1>3 DEF Rank
  <1>5. QED
    BY <1>1, <1>2, <1>4, WalkVisits

\* The links of a walk are unaffected by an event created after them.
LEMMA WalkExtends ==
    ASSUME NEW S \in SUBSET Nat, IsFiniteSet(S), NEW x \in Nat, x \notin S,
           NEW p, NEW q, \A e \in S : q[e] = p[e],
           NEW n \in 0..Cardinality(S), n > 0 => Walk(S)[n] < x,
           LinksHold(Walk(S), LinksIn(p, S), n)
    PROVE  /\ LinksHold(Walk(S \union {x}), LinksIn(q, S \union {x}), n)
           /\ \A i \in 1..n : Walk(S)[i] = Walk(S \union {x})[i]
  <1> DEFINE T == S \union {x}
  <1>1. /\ T \in SUBSET Nat /\ IsFiniteSet(T) /\ Cardinality(T) = Cardinality(S) + 1
        /\ \A i \in 1..n : Walk(T)[i] = Walk(S)[i]
        /\ Cardinality(S) \in Nat
    BY WalkGrows, FS_CardinalityType
  <1>2. \A i \in 1..n : i \in 1..Cardinality(S) /\ i \in 1..Cardinality(T)
    BY <1>1
  <1>3. DOMAIN Walk(S) = 1..Cardinality(S) /\ DOMAIN Walk(T) = 1..Cardinality(T)
    BY DEF Walk
  <1>4. \A i \in 1..n : LinksIn(q, T)[i] = LinksIn(p, S)[i]
    <2> TAKE i \in 1..n
    <2>1. Walk(S)[i] \in S
      BY <1>2, WalkVisits
    <2>2. LinksIn(q, T)[i] = q[Walk(T)[i]] /\ LinksIn(p, S)[i] = p[Walk(S)[i]]
      BY <1>2, <1>3 DEF LinksIn
    <2>3. QED
      BY <1>1, <2>1, <2>2
  <1>5. \A i \in 1..n : i # 1 => i - 1 \in 1..n
    OBVIOUS
  <1> HIDE DEF T
  <1>6. LinksHold(Walk(T), LinksIn(q, T), n)
    BY <1>1, <1>4, <1>5 DEF LinksHold
  <1>7. QED
    BY <1>1, <1>6 DEF T

\* What a walk is, as a sequence.
LEMMA TableWalkType ==
    ASSUME NEW S \in SUBSET Nat, IsFiniteSet(S)
    PROVE  Walk(S) \in Seq(Nat) /\ Len(Walk(S)) = Cardinality(S) /\ Cardinality(S) \in Nat
  <1>1. Walk(S) \in [1..Cardinality(S) -> S] /\ Cardinality(S) \in Nat
        /\ Len(Walk(S)) = Cardinality(S)
    BY WalkVisits
  <1>2. Walk(S) \in Seq(S)
    BY <1>1, IsASeq
  <1>3. \A i \in 1..Len(Walk(S)) : Walk(S)[i] \in Nat
    BY <1>1
  <1>4. QED
    BY <1>1, <1>2, <1>3, SeqDef

\* Steps that leave the table and its history alone.
LEMMA TableIdle ==
    ASSUME TableInv, prev' = prev, tableMet' = tableMet,
           \A v \in Writers : InTable(v)' => InTable(v) /\ mine'[v] = mine[v],
           \A v \in Writers : pc'[v] = "commit" => seen'[v].last = LastEvent
                                    \/ (pc[v] = "commit" /\ seen'[v] = seen[v])
    PROVE  TableInv' /\ TableRefined
  <1>1. Committed' = Committed
    BY DEF Committed
  <1>2. LastEvent' = LastEvent /\ AcceptedTable' = AcceptedTable
    BY <1>1 DEF LastEvent, AcceptedTable, TableWalk
  <1>3. TableInv'
    BY <1>1, <1>2 DEF TableInv
  <1>4. UNCHANGED <<AcceptedTable, Cardinality(Committed), tableMet>>
    BY <1>1, <1>2
  <1>5. QED
    BY <1>3, <1>4 DEF TableRefined

LEMMA TableRecordEvent ==
    ASSUME TreeInv, TableInv, NEW w \in Writers, RecordEvent(w)
    PROVE  TableInv' /\ TableRefined
  <1> DEFINE inside == {v \in Writers : InTable(v)}
             n      == Cardinality(Committed)
  <1>0. LedgerTypeOK /\ MinesAreFresh
    BY DEF TreeInv
  <1>1. /\ pc[w] = "idle" /\ pc' = [pc EXCEPT ![w] = "last"] /\ seen' = seen /\ prev' = prev
        /\ mine' = [mine EXCEPT ![w] = made + 1]
        /\ tableMet' = Met(tableMet, inside, n)
    BY DEF RecordEvent, TakeHash, GoTo
  <1>2. /\ pc'[w] = "last" /\ mine'[w] = made + 1
        /\ \A v \in Writers : v # w => pc'[v] = pc[v] /\ mine'[v] = mine[v]
    BY <1>0, <1>1 DEF LedgerTypeOK
  <1>3. Committed' = Committed
    BY <1>1 DEF Committed
  <1>4. LastEvent' = LastEvent /\ AcceptedTable' = AcceptedTable
    BY <1>1, <1>3 DEF LastEvent, AcceptedTable, TableWalk
  <1>5. n \in Nat /\ n # None /\ n \in 0..n /\ IsFiniteSet(Committed)
        /\ Committed \in SUBSET Nat /\ made \in Nat
    BY <1>0, CommittedType, LedgerAssumption DEF LedgerTypeOK
  <1>6. \A e \in Committed : e < mine'[w]
    BY <1>0, <1>2, <1>5 DEF MinesAreFresh
  <1>7. \A i \in 1..n : Walk(Committed)[i] \in Committed
    BY <1>5, WalkVisits
  <1>8. CASE tableMet = None /\ inside # {}
    <2>1. tableMet' = n
      BY <1>1, <1>8 DEF Met
    <2>2. TablePromise!Meet
      BY <1>3, <1>4, <1>8, <2>1 DEF TablePromise!Meet
    <2>3. \A v \in Writers : InTable(v)' => \A e \in Committed : e < mine'[v]
      BY <1>2, <1>6, <1>8 DEF TableInv, InTable
    <2>4. n > 0 => \A v \in Writers : InTable(v)' => Walk(Committed)[n] < mine'[v]
      <3>1. n > 0 => n \in 1..n
        BY <1>5
      <3>2. QED
        BY <1>7, <2>3, <3>1
    <2>5. TableInv'
      BY <1>1, <1>3, <1>5, <1>8, <2>1, <2>4 DEF TableInv
    <2>6. QED
      BY <2>2, <2>5 DEF TableRefined, TablePromise!Next
  <1>9. CASE tableMet = None /\ inside = {}
    <2>1. tableMet' = None
      BY <1>1, <1>9 DEF Met
    <2>2. \A v \in Writers : ~ InTable(v)
      BY <1>9
    <2>3. \A v \in Writers : (InTable(v)' => v = w) /\ pc'[v] # "commit"
      BY <1>2, <2>2 DEF InTable
    <2>4. TableInv'
      BY <1>1, <1>3, <1>6, <1>9, <2>1, <2>3 DEF TableInv
    <2>5. QED
      BY <1>3, <1>4, <1>9, <2>1, <2>4 DEF TableRefined
  <1>10. CASE tableMet # None
    <2>1. tableMet' = tableMet
      BY <1>1, <1>10 DEF Met
    <2>2. tableMet \in 0..n
          /\ (tableMet > 0 =>
                \A v \in Writers : InTable(v) => Walk(Committed)[tableMet] < mine[v])
      BY <1>10 DEF TableInv
    <2>3. tableMet > 0 => \A v \in Writers : InTable(v)' => Walk(Committed)[tableMet] < mine'[v]
      <3>1. tableMet > 0 => tableMet \in 1..n
        BY <1>5, <2>2
      <3>2. tableMet > 0 => Walk(Committed)[tableMet] < mine'[w]
        BY <1>6, <1>7, <3>1
      <3>3. QED
        BY <1>2, <2>2, <3>2 DEF InTable
    <2>4. TableInv'
      BY <1>1, <1>3, <1>10, <2>1, <2>3 DEF TableInv
    <2>5. QED
      BY <1>3, <1>4, <2>1, <2>4 DEF TableRefined
  <1>11. QED
    BY <1>8, <1>9, <1>10

LEMMA TableCommitEvent ==
    ASSUME TreeInv, TableInv, NEW w \in Writers, CommitEvent(w)
    PROVE  TableInv' /\ TableRefined
  <1> DEFINE S == Committed
             x == mine[w]
             T == S \union {x}
             n == Cardinality(S)
  <1>0. LedgerTypeOK
    BY DEF TreeInv
  <1>1. S \in SUBSET Nat /\ S \in SUBSET Hashes /\ IsFiniteSet(S) /\ n \in Nat
    BY <1>0, CommittedType
  <1>2. /\ x \in Hashes /\ x \in Nat /\ x \notin S
        /\ prev'[x] = seen[w].last /\ Committed' = T
        /\ \A e \in S : prev'[e] = prev[e]
    BY <1>1, CommitEffect
  <1>3. pc[w] = "commit" /\ End(w) /\ tableMet' = tableMet
    BY DEF CommitEvent
  <1>4. T \in SUBSET Nat /\ IsFiniteSet(T) /\ Cardinality(T) = n + 1
    BY <1>1, <1>2, FS_AddElement
  <1>5. AcceptedTable = Accepted(Walk(S), LinksIn(prev, S))
        /\ AcceptedTable' = Accepted(Walk(T), LinksIn(prev', T))
    BY <1>2 DEF AcceptedTable, TableWalk, LinksIn
  <1>6. /\ Walk(S) \in Seq(Nat) /\ Len(Walk(S)) = n
        /\ Walk(T) \in Seq(Nat) /\ Len(Walk(T)) = n + 1
    BY <1>1, <1>4, TableWalkType
  <1>7. \A v \in Writers : InTable(v)' =>
            v # w /\ InTable(v) /\ mine'[v] = mine[v] /\ pc'[v] = pc[v] /\ seen'[v] = seen[v]
    BY <1>0, <1>3, EndKeepsTypes DEF InTable
  <1>8. CASE tableMet = None
    <2>1. /\ LinksHold(Walk(S), LinksIn(prev, S), n) /\ seen[w].last = LastEvent
          /\ \A v \in Writers : InTable(v) => v = w
          /\ \A e \in S : e < x
      BY <1>3, <1>8 DEF TableInv, InTable
    <2>2. n > 0 => n \in 1..n /\ Walk(S)[n] \in S /\ Walk(S)[n] < x
      <3>1. \A i \in 1..n : Walk(S)[i] \in S
        BY <1>1, WalkVisits
      <3>2. n > 0 => n \in 1..n
        BY <1>1
      <3>3. QED
        BY <2>1, <3>1, <3>2
    <2>3. /\ LinksHold(Walk(T), LinksIn(prev', T), n)
          /\ \A i \in 1..n : Walk(S)[i] = Walk(T)[i]
          /\ Walk(T)[n + 1] = x
      <3>1. n \in 0..n
        BY <1>1
      <3>2. Walk(T)[n + 1] = x
        BY <1>1, <1>2, <2>1, <2>2, <3>1, WalkGrows
      <3>3. QED
        BY <1>1, <1>2, <2>1, <2>2, <3>1, <3>2, WalkExtends
    <2>4. LinksIn(prev', T)[n + 1] = IF n = 0 THEN GENESIS_HASH ELSE Walk(T)[n]
      <3>1. DOMAIN Walk(T) = 1..(n + 1) /\ n + 1 \in 1..(n + 1)
        BY <1>1, <1>4 DEF Walk
      <3>2. LinksIn(prev', T)[n + 1] = LastEvent
        BY <1>2, <2>1, <2>3, <3>1 DEF LinksIn
      <3>3. CASE n = 0
        <4>1. S = {}
          BY <1>1, <3>3, FS_EmptySet
        <4>2. QED
          BY <3>2, <3>3, <4>1 DEF LastEvent
      <3>4. CASE n # 0
        <4>1. S # {}
          BY <3>4, FS_EmptySet
        <4>2. MaxEvents \in Nat /\ S \in SUBSET (1..MaxEvents)
          BY <1>1, LedgerAssumption DEF Hashes
        <4>3. LastEvent = Max(S) /\ Walk(S)[n] = Max(S)
          BY <4>1, <4>2, WalkEnds DEF LastEvent
        <4>4. n \in 1..n
          BY <1>1, <3>4
        <4>5. QED
          BY <3>2, <3>4, <4>3, <4>4, <2>3
      <3>5. QED
        BY <3>3, <3>4
    <2>5. LinksHold(Walk(T), LinksIn(prev', T), n + 1)
      BY <1>1, <2>3, <2>4, LinksStep
    <2>6. \A v \in Writers : ~ InTable(v)'
      BY <1>7, <2>1
    <2>7. TableInv'
      BY <1>2, <1>3, <1>4, <1>8, <2>5, <2>6 DEF TableInv, InTable
    <2>8. AcceptedTable = Walk(S) /\ AcceptedTable' = Walk(T)
      BY <1>5, <1>6, <2>1, <2>5, AcceptedWhole
    <2>9. SubSeq(AcceptedTable', 1, n) = SubSeq(AcceptedTable, 1, n)
      <3>1. n <= Len(Walk(S)) /\ n <= Len(Walk(T))
        BY <1>1, <1>6
      <3> HIDE DEF S, T, n, x
      <3>2. SubSeq(Accepted(Walk(T), LinksIn(prev', T)), 1, n)
               = SubSeq(Accepted(Walk(S), LinksIn(prev, S)), 1, n)
        BY <1>1, <1>6, <2>1, <2>3, <3>1, AcceptedKeeps
      <3>3. QED
        BY <1>5, <3>2
    <2>10. TablePromise!Record
      <3>1. Len(AcceptedTable) = n /\ Len(AcceptedTable') = n + 1 /\ n + 1 >= n
            /\ Cardinality(Committed') = n + 1
        BY <1>1, <1>2, <1>4, <1>6, <2>8
      <3>2. QED
        BY <1>3, <1>8, <2>9, <3>1 DEF TablePromise!Record, TablePromise!Keeps
    <2>11. QED
      BY <2>7, <2>10 DEF TableRefined, TablePromise!Next
  <1>9. CASE tableMet # None
    <2> DEFINE m == tableMet
    <2>1. /\ m \in 0..n /\ LinksHold(Walk(S), LinksIn(prev, S), m)
          /\ m > 0 => \A v \in Writers : InTable(v) => Walk(S)[m] < mine[v]
      BY <1>9 DEF TableInv
    <2>2. m > 0 => Walk(S)[m] < x
      BY <1>3, <2>1 DEF InTable
    <2>3. LinksHold(Walk(T), LinksIn(prev', T), m)
          /\ \A i \in 1..m : Walk(S)[i] = Walk(T)[i]
      BY <1>1, <1>2, <2>1, <2>2, WalkExtends
    <2>4. m \in Nat /\ m <= n /\ m <= n + 1 /\ m \in 0..(n + 1) /\ (m > 0 => m \in 1..m)
      BY <1>1, <2>1
    <2>5. m > 0 => \A v \in Writers : InTable(v)' => Walk(T)[m] < mine'[v]
      BY <1>7, <2>1, <2>3, <2>4
    <2>6. TableInv'
      BY <1>2, <1>3, <1>4, <1>9, <2>3, <2>4, <2>5 DEF TableInv
    <2> HIDE DEF m, S, T, n, x
    <2>7. /\ Len(AcceptedTable') >= m
          /\ SubSeq(AcceptedTable', 1, m) = SubSeq(AcceptedTable, 1, m)
          /\ Len(AcceptedTable') <= n + 1
      <3>1. m \in Nat /\ m <= Len(Walk(S)) /\ m <= Len(Walk(T))
        BY <1>6, <2>4
      <3>2. LET A == Accepted(Walk(S), LinksIn(prev, S))
                B == Accepted(Walk(T), LinksIn(prev', T))
            IN  Len(B) >= m /\ SubSeq(B, 1, m) = SubSeq(A, 1, m) /\ Len(B) <= Len(Walk(T))
        BY <1>6, <2>1, <2>3, <3>1, AcceptedKeeps, SMTT(30)
      <3>3. QED
        BY <1>5, <1>6, <3>2
    <2>8. Cardinality(Committed) = n /\ Cardinality(Committed') = n + 1
      BY <1>2, <1>4 DEF n, S
    <2>9. TablePromise!Disturb
      BY <1>3, <1>9, <2>7, <2>8 DEF TablePromise!Disturb, TablePromise!Keeps, m
    <2>10. QED
      BY <2>6, <2>9 DEF TableRefined, TablePromise!Next
  <1>10. QED
    BY <1>8, <1>9

LEMMA TableStep ==
    ASSUME TreeInv, TableInv, [LedgerNext]_ledgerVars
    PROVE  TableInv' /\ TableRefined
  <1>0. LedgerTypeOK
    BY DEF TreeInv
  <1>1. ASSUME NEW w \in Writers, RecordEvent(w) \/ CommitEvent(w)
        PROVE  TableInv' /\ TableRefined
    BY <1>1, TableRecordEvent, TableCommitEvent
  <1>2. ASSUME NEW w \in Writers, ReadLastEvent(w)
        PROVE  TableInv' /\ TableRefined
    <2>1. /\ prev' = prev /\ tableMet' = tableMet /\ InTable(w) /\ mine' = mine
          /\ \A v \in Writers : v # w => pc'[v] = pc[v] /\ seen'[v] = seen[v]
          /\ seen'[w].last = LastEvent
      BY <1>0, <1>2 DEF ReadLastEvent, GoTo, InTable, LedgerTypeOK
    <2>2. QED
      BY <2>1, TableIdle DEF InTable
  <1>3. ASSUME NEW w \in Writers, LoseEvent(w) \/ AppendBlock(w)
        PROVE  TableInv' /\ TableRefined
    <2>1. prev' = prev /\ tableMet' = tableMet /\ End(w)
      BY <1>3 DEF LoseEvent, AppendBlock
    <2>2. QED
      BY <1>0, <2>1, TableIdle, EndKeepsTypes DEF InTable
  <1>4. ASSUME NEW w \in Writers, AddAuditLog(w) \/ CountBlocks(w) \/ ReadPrevious(w)
        PROVE  TableInv' /\ TableRefined
    <2>1. /\ prev' = prev /\ tableMet' = tableMet
          /\ ~ InTable(w)' /\ pc'[w] # "commit"
          /\ \A v \in Writers : v # w =>
                pc'[v] = pc[v] /\ seen'[v] = seen[v] /\ mine'[v] = mine[v]
      BY <1>0, <1>4
         DEF AddAuditLog, TakeHash, CountBlocks, ReadPrevious, GoTo, InTable, LedgerTypeOK
    <2>2. QED
      BY <2>1, TableIdle DEF InTable
  <1>5. CASE Crash
    <2>1. prev' = prev /\ tableMet' = tableMet /\ \A v \in Writers : pc'[v] = "idle"
      BY <1>5, CrashEffect DEF Crash
    <2>2. QED
      BY <2>1, TableIdle DEF InTable
  <1>6. CASE UNCHANGED ledgerVars
    BY <1>6, TableIdle DEF ledgerVars, InTable
  <1>7. QED
    BY <1>1, <1>2, <1>3, <1>4, <1>5, <1>6 DEF LedgerNext

LEMMA TableInit ==
    ASSUME LedgerInit
    PROVE  TableInv /\ TablePromise!Init
  <1>1. Committed = {} /\ tableMet = None /\ \A w \in Writers : pc[w] = "idle"
    BY DEF LedgerInit, Committed
  <1>2. Cardinality(Committed) = 0 /\ IsFiniteSet(Committed)
    BY <1>1, FS_EmptySet
  <1>3. Walk(Committed) \in Seq(Nat) /\ Len(Walk(Committed)) = 0
    BY <1>1, <1>2, TableWalkType
  <1>4. LinksHold(Walk(Committed), LinksIn(prev, Committed), 0)
    BY DEF LinksHold
  <1>5. AcceptedTable = Walk(Committed)
    <2>1. AcceptedTable = Accepted(Walk(Committed), LinksIn(prev, Committed))
      BY DEF AcceptedTable, TableWalk, LinksIn
    <2>2. QED
      BY <1>3, <1>4, <2>1, AcceptedWhole
  <1>6. TableInv
    BY <1>1, <1>2, <1>4 DEF TableInv, InTable
  <1>7. QED
    BY <1>1, <1>2, <1>3, <1>5, <1>6 DEF TablePromise!Init

\* The table implements HashChain: it is a chain that every event extends until
\* two calls of record_event overlap, and what was recorded before that still
\* verifies, across crashes too.
THEOREM TableRefinement == LedgerSpec => TableKeepsItsPromise
  <1>1. LedgerInit => TreeInv /\ TableInv /\ TablePromise!Init
    BY TreeInit, TableInit
  <1>2. TreeInv /\ TableInv /\ [LedgerNext]_ledgerVars => TableInv'
    BY TableStep
  <1>3. TreeInv /\ TableInv /\ [LedgerNext]_ledgerVars =>
            [TablePromise!Next]_<<AcceptedTable, Cardinality(Committed), tableMet>>
    BY TableStep DEF TableRefined
  <1>4. QED
    BY <1>1, <1>2, <1>3, LedgerHasTrees, PTL
       DEF LedgerSpec, TableKeepsItsPromise, TablePromise!Spec
=============================================================================
