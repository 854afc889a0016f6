------------------------- MODULE CollectionProofs -------------------------
(***************************************************************************)
(* Theorems about Collection, for slices of any length, any elements and    *)
(* any number of calls.  What a loop computes is proved by induction over   *)
(* its steps: a set of numbers that is not empty has a least one, since the *)
(* finite sets are well-founded under inclusion.                            *)
(***************************************************************************)
EXTENDS Collection, SequenceTheorems, FiniteSetTheorems, TLAPS

\* A sequence, of whatever elements.
Sequence(s) == \E S : s \in Seq(S)

LEMMA SequenceAppend ==
  ASSUME NEW s, Sequence(s), NEW x
  PROVE  /\ Sequence(Append(s, x)) /\ Len(s) \in Nat /\ Len(Append(s, x)) = Len(s) + 1
         /\ Append(s, x)[Len(s) + 1] = x /\ \A i \in 1..Len(s) : Append(s, x)[i] = s[i]
<1>1. PICK S : s \in Seq(S)
  BY DEF Sequence
<1>2. s \in Seq(S \cup {x})
  BY <1>1, SeqDef
<1>3. Append(s, x) \in Seq(S \cup {x})
  BY <1>2
<1> QED
  BY <1>1, <1>2, <1>3 DEF Sequence

-----------------------------------------------------------------------------
(* Collection: what the calls share *)

\* Every slice is of an array there is.
CollectionInv ==
  /\ Sequence(arrays) /\ Sequence(held) /\ Sequence(sets)
  /\ \A i \in 1..Len(held) : held[i].arr \in 1..Len(arrays)

\* The sequence s with x at n.
Replaced(s, n, x) == [s EXCEPT ![n] = x]

LEMMA SequenceReplaced ==
  ASSUME NEW s, Sequence(s), NEW n \in 1..Len(s), NEW x
  PROVE  /\ Sequence(Replaced(s, n, x)) /\ Len(Replaced(s, n, x)) = Len(s)
         /\ \A i \in 1..Len(s) : i # n => Replaced(s, n, x)[i] = s[i]
<1>1. PICK S : s \in Seq(S)
  BY DEF Sequence
<1>2. s \in Seq(S \cup {x}) /\ x \in S \cup {x}
  BY <1>1
<1>3. [s EXCEPT ![n] = x] \in Seq(S \cup {x}) /\ Len([s EXCEPT ![n] = x]) = Len(s)
  BY <1>2, ExceptSeq
<1>4. \A i \in 1..Len(s) : i # n => [s EXCEPT ![n] = x][i] = s[i]
  BY <1>1
<1> QED
  BY <1>3, <1>4 DEF Sequence, Replaced

LEMMA CollectionInitInv == CollectionInit => CollectionInv
<1> SUFFICES ASSUME CollectionInit PROVE CollectionInv
  OBVIOUS
<1>1. PICK c \in Contents : arrays = <<c, <<>> >>
  BY DEF CollectionInit
<1>2. held = <<[arr |-> 1, len |-> Len(arrays[1])],
              [arr |-> 1, len |-> Len(arrays[1]) \div 2],
              [arr |-> 2, len |-> 0]>> /\ sets = <<{}>>
  BY DEF CollectionInit
<1>3. Sequence(arrays) /\ Len(arrays) = 2
  <2>1. arrays \in Seq({c, <<>>})
    BY <1>1
  <2> QED
    BY <1>1, <2>1 DEF Sequence
<1>4. Sequence(held) /\ Len(held) = 3 /\ \A i \in 1..3 : held[i].arr \in 1..2
  <2> DEFINE a == Len(arrays[1])
             b == Len(arrays[1]) \div 2
             R == {[arr |-> 1, len |-> a], [arr |-> 1, len |-> b], [arr |-> 2, len |-> 0]}
  <2> HIDE DEF a, b
  <2>1. held = <<[arr |-> 1, len |-> a], [arr |-> 1, len |-> b], [arr |-> 2, len |-> 0]>>
    BY <1>2 DEF a, b
  <2>2. held \in Seq(R) /\ Len(held) = 3
    BY <2>1
  <2>3. held[1].arr = 1 /\ held[2].arr = 1 /\ held[3].arr = 2
    BY <2>1
  <2>4. \A i \in 1..3 : i = 1 \/ i = 2 \/ i = 3
    OBVIOUS
  <2>5. \A i \in 1..3 : held[i].arr \in 1..2
    BY <2>3, <2>4
  <2>6. Sequence(held)
    BY <2>2 DEF Sequence
  <2> QED
    BY <2>2, <2>5, <2>6
<1>5. Sequence(sets)
  <2>1. sets \in Seq({{}})
    BY <1>2
  <2> QED
    BY <2>1 DEF Sequence
<1> QED
  BY <1>3, <1>4, <1>5 DEF CollectionInv

\* What every call must do.  The lemmas below go by what it does to the slices
\* and sets: nothing, a slice of a new array or one the callers hold returned, a
\* slice sorted, a set returned, a set changed.
CallOK == CollectionInv' /\ LeavesCallersAlone

LEMMA Unshared ==
  ASSUME CollectionInv, UNCHANGED <<arrays, held, sets>> PROVE CallOK
BY DEF CallOK, CollectionInv, LeavesCallersAlone, Deref

LEMMA SliceReturned ==
  ASSUME CollectionInv, NEW op, NEW s, NEW given, NEW out, ReturnsSlice(op, s, given, out)
  PROVE  CallOK
<1>1. /\ arrays' = Append(arrays, out) /\ sets' = sets
      /\ held' = Append(held, [arr |-> Len(arrays) + 1, len |-> Len(out)])
  BY DEF ReturnsSlice
<1>2. /\ Sequence(arrays') /\ Len(arrays) \in Nat /\ Len(arrays') = Len(arrays) + 1
      /\ \A i \in 1..Len(arrays) : arrays'[i] = arrays[i]
  BY <1>1, SequenceAppend DEF CollectionInv
<1>3. /\ Sequence(held') /\ Len(held) \in Nat /\ Len(held') = Len(held) + 1
      /\ held'[Len(held) + 1] = [arr |-> Len(arrays) + 1, len |-> Len(out)]
      /\ \A i \in 1..Len(held) : held'[i] = held[i]
  BY <1>1, SequenceAppend DEF CollectionInv
<1>4. \A i \in 1..Len(held) : held[i].arr \in 1..Len(arrays)
  BY DEF CollectionInv
<1>5. ASSUME NEW i \in 1..Len(held') PROVE held'[i].arr \in 1..Len(arrays')
  <2>1. CASE i \in 1..Len(held)
    BY <1>2, <1>3, <1>4, <2>1
  <2>2. CASE i = Len(held) + 1
    BY <1>2, <1>3, <2>2
  <2> QED
    BY <1>3, <2>1, <2>2
<1>6. \A i \in 1..Len(held) : Deref(held[i])' = Deref(held[i])
  BY <1>2, <1>3, <1>4 DEF Deref
<1> QED
  BY <1>1, <1>2, <1>3, <1>5, <1>6 DEF CallOK, CollectionInv, LeavesCallersAlone

LEMMA SliceSorted ==
  ASSUME CollectionInv, NEW n \in 1..Len(held), DeduplicateAndSortSlice(held[n])
  PROVE  CallOK
<1> DEFINE s == held[n]
           done == CompactFunc(SortFunc(Deref(s)))
           array == [i \in DOMAIN arrays[s.arr] |-> IF i <= s.len THEN done.array[i] ELSE arrays[s.arr][i]]
           slice == [arr |-> s.arr, len |-> Len(done.kept)]
<1>1. /\ arrays' = [arrays EXCEPT ![s.arr] = array] /\ sets' = sets /\ held' = Append(held, slice)
      /\ last'.op = "DeduplicateAndSortSlice"
  BY DEF DeduplicateAndSortSlice, Called
<1>2. \A i \in 1..Len(held) : held[i].arr \in 1..Len(arrays)
  BY DEF CollectionInv
<1>3. slice.arr = s.arr
  OBVIOUS
<1> HIDE DEF array, slice
<1>4. /\ Sequence(arrays') /\ Len(arrays') = Len(arrays)
      /\ \A i \in 1..Len(arrays) : i # s.arr => arrays'[i] = arrays[i]
  <2>1. Sequence(arrays) /\ s.arr \in 1..Len(arrays)
    BY <1>2 DEF CollectionInv
  <2>2. arrays' = Replaced(arrays, s.arr, array)
    BY <1>1 DEF Replaced
  <2> QED
    BY <2>1, <2>2, SequenceReplaced
<1>5. /\ Sequence(held') /\ Len(held) \in Nat /\ Len(held') = Len(held) + 1
      /\ held'[Len(held) + 1] = slice
      /\ \A i \in 1..Len(held) : held'[i] = held[i]
  BY <1>1, SequenceAppend DEF CollectionInv
<1>6. ASSUME NEW i \in 1..Len(held') PROVE held'[i].arr \in 1..Len(arrays')
  <2>1. CASE i \in 1..Len(held)
    BY <1>2, <1>4, <1>5, <2>1
  <2>2. CASE i = Len(held) + 1
    BY <1>2, <1>3, <1>4, <1>5, <2>2
  <2> QED
    BY <1>5, <2>1, <2>2
<1>7. \A i \in 1..Len(held) : held[i].arr # s.arr => Deref(held[i])' = Deref(held[i])
  BY <1>2, <1>4, <1>5 DEF Deref
<1>8. held'[Len(held')].arr = s.arr
  BY <1>3, <1>5
<1>9. CollectionInv'
  BY <1>1, <1>4, <1>5, <1>6 DEF CollectionInv
<1> QED
  BY <1>1, <1>7, <1>8, <1>9 DEF CallOK, LeavesCallersAlone

LEMMA SliceAgain ==
  ASSUME CollectionInv, NEW n \in 1..Len(held),
         held' = Append(held, held[n]), UNCHANGED <<arrays, sets>>
  PROVE  CallOK
<1>1. /\ Sequence(held') /\ Len(held) \in Nat /\ Len(held') = Len(held) + 1
      /\ held'[Len(held) + 1] = held[n]
      /\ \A i \in 1..Len(held) : held'[i] = held[i]
  BY SequenceAppend DEF CollectionInv
<1>2. \A i \in 1..Len(held) : held[i].arr \in 1..Len(arrays)
  BY DEF CollectionInv
<1>3. ASSUME NEW i \in 1..Len(held') PROVE held'[i].arr \in 1..Len(arrays)
  <2>1. CASE i \in 1..Len(held)
    BY <1>1, <1>2, <2>1
  <2>2. CASE i = Len(held) + 1
    BY <1>1, <1>2, <2>2
  <2> QED
    BY <1>1, <2>1, <2>2
<1>4. \A i \in 1..Len(held) : Deref(held[i])' = Deref(held[i])
  BY <1>1 DEF Deref
<1> QED
  BY <1>1, <1>3, <1>4 DEF CallOK, CollectionInv, LeavesCallersAlone

LEMMA SetReturned ==
  ASSUME CollectionInv, NEW op, NEW given, NEW made, NewSetOf(op, given, made)
  PROVE  CallOK
<1>1. sets' = Append(sets, made) /\ arrays' = arrays /\ held' = held
  BY DEF NewSetOf
<1>2. Sequence(sets') /\ \A i \in 1..Len(sets) : sets'[i] = sets[i]
  BY <1>1, SequenceAppend DEF CollectionInv
<1> QED
  BY <1>1, <1>2 DEF CallOK, CollectionInv, LeavesCallersAlone, Deref

LEMMA SetChanged ==
  ASSUME CollectionInv, NEW n \in 1..Len(sets), NEW x,
         sets' = [sets EXCEPT ![n] = x], UNCHANGED <<arrays, held>>,
         last'.op \in {"Add", "Remove"}, last'.out = n
  PROVE  CallOK
<1>1. Sequence(sets') /\ \A i \in 1..Len(sets) : i # n => sets'[i] = sets[i]
  <2>1. Sequence(sets) /\ sets' = [sets EXCEPT ![n] = x]
    BY DEF CollectionInv
  <2>2. sets' = Replaced(sets, n, x)
    BY <2>1 DEF Replaced
  <2>3. /\ Sequence(Replaced(sets, n, x))
        /\ \A i \in 1..Len(sets) : i # n => Replaced(sets, n, x)[i] = sets[i]
    BY <2>1, SequenceReplaced
  <2> QED
    BY <2>2, <2>3
<1> QED
  BY <1>1 DEF CallOK, CollectionInv, LeavesCallersAlone, Deref

LEMMA NewSliceStep == ASSUME CollectionInv, NEW s, NewSlice(s) PROVE CallOK
BY SliceReturned DEF NewSlice

LEMMA FoldStep == ASSUME CollectionInv, NEW s, Fold(s) PROVE CallOK
BY Unshared DEF Fold, ReturnsValue

LEMMA MapsStep == ASSUME CollectionInv, NEW s, Maps(s) PROVE CallOK
BY Unshared DEF Maps

LEMMA CommonStep ==
  ASSUME CollectionInv, NEW ss, Len(ss) = 1 => \E n \in 1..Len(held) : ss[1] = held[n],
         GetCommonElements(ss)
  PROVE  CallOK
<1> DEFINE lists == [i \in 1..Len(ss) |-> Deref(ss[i])]
<1>1. CASE Len(ss) = 0
  <2>1. ReturnsValue("GetCommonElements", lists, <<>>)
    BY <1>1 DEF GetCommonElements
  <2> QED
    BY <2>1, Unshared DEF ReturnsValue
<1>2. CASE Len(ss) = 1
  <2>1. held' = Append(held, ss[1]) /\ UNCHANGED <<arrays, sets, dict>>
    BY <1>2 DEF GetCommonElements
  <2> QED
    BY <1>2, <2>1, SliceAgain
<1>3. CASE Len(ss) # 0 /\ Len(ss) # 1
  <2>1. \E out \in SetToSeqs(CommonOf(lists)) : ReturnsSlice("GetCommonElements", ss[1], lists, out)
    BY <1>3 DEF GetCommonElements
  <2> QED
    BY <2>1, SliceReturned
<1> QED
  BY <1>1, <1>2, <1>3

LEMMA MapListsStep == ASSUME CollectionInv, MapLists PROVE CallOK
BY SliceReturned DEF MapLists

LEMMA SetMethodsStep == ASSUME CollectionInv, NEW n \in 1..Len(sets), SetMethods(n) PROVE CallOK
<1>1. CASE \E x \in Elems :
             \/ sets' = [sets EXCEPT ![n] = @ \cup {x}] /\ Called("Add", <<n, x>>, n)
                /\ UNCHANGED <<arrays, held, dict>>
             \/ sets' = [sets EXCEPT ![n] = @ \ {x}] /\ Called("Remove", <<n, x>>, n)
                /\ UNCHANGED <<arrays, held, dict>>
  BY <1>1, SetChanged DEF Called
<1>2. CASE \E op, given, out : ReturnsValue(op, given, out)
  BY <1>2, Unshared DEF ReturnsValue
<1>3. CASE \E op, s, given, out : ReturnsSlice(op, s, given, out)
  BY <1>3, SliceReturned
<1> QED
  BY <1>1, <1>2, <1>3 DEF SetMethods

LEMMA CollectionStep == CollectionInv /\ CollectionNext => CallOK
<1> SUFFICES ASSUME CollectionInv, CollectionNext PROVE CallOK
  OBVIOUS
<1>1. ASSUME NEW n \in 1..Len(held),
             \/ NewSlice(held[n]) \/ Fold(held[n]) \/ DeduplicateAndSortSlice(held[n]) \/ Maps(held[n])
             \/ NewSetOf("NewSet", <<Deref(held[n])>>, ToSet(Deref(held[n])))
             \/ GetCommonElements(<<held[n]>>)
      PROVE  CallOK
  <2>1. CASE GetCommonElements(<<held[n]>>)
    <3>1. <<held[n]>>[1] = held[n]
      OBVIOUS
    <3> QED
      BY <2>1, <3>1, CommonStep
  <2> QED
    BY <1>1, <2>1, NewSliceStep, FoldStep, SliceSorted, MapsStep, SetReturned
<1>2. ASSUME NEW i \in 1..Len(held), NEW j \in 1..Len(held), GetCommonElements(<<held[i], held[j]>>)
      PROVE  CallOK
  <2>1. Len(<<held[i], held[j]>>) # 1
    OBVIOUS
  <2> QED
    BY <1>2, <2>1, CommonStep
<1>3. ASSUME GetCommonElements(<<>>) \/ GetCommonElements(<<held[1], held[2], held[3]>>) PROVE CallOK
  <2>1. Len(<<>>) # 1 /\ Len(<<held[1], held[2], held[3]>>) # 1
    OBVIOUS
  <2> QED
    BY <1>3, <2>1, CommonStep
<1>4. ASSUME MapLists PROVE CallOK
  BY <1>4, MapListsStep
<1>5. ASSUME NEW i \in 1..Len(sets),
             SetMethods(i) \/ \E j \in 1..Len(sets) : SetUnion(i, j) \/ SetIntersect(i, j)
      PROVE  CallOK
  BY <1>5, SetMethodsStep, SetReturned DEF SetUnion, SetIntersect
<1> QED
  BY <1>1, <1>2, <1>3, <1>4, <1>5 DEF CollectionNext

\* No call of the package, in any sequence of calls on slices that share arrays,
\* changes a slice or a set its callers hold, except the ones documented to:
\* Add and Remove their set, DeduplicateAndSortSlice the array it sorts.
THEOREM CallersAlwaysUntouched == CollectionSpec => CallersUntouched
<1>1. CollectionInv /\ [CollectionNext]_collectionVars => CollectionInv' /\ [LeavesCallersAlone]_collectionVars
  <2> SUFFICES ASSUME CollectionInv, [CollectionNext]_collectionVars
               PROVE  CollectionInv' /\ [LeavesCallersAlone]_collectionVars
    OBVIOUS
  <2>1. CASE UNCHANGED collectionVars
    <3>1. UNCHANGED <<arrays, held, sets>>
      BY <2>1 DEF collectionVars
    <3> QED
      BY <3>1, Unshared DEF CallOK
  <2>2. CASE CollectionNext
    BY <2>2, CollectionStep DEF CallOK
  <2> QED
    BY <2>1, <2>2
<1> QED
  BY <1>1, CollectionInitInv, PTL DEF CollectionSpec, CallersUntouched
-----------------------------------------------------------------------------
(* Collection: induction and places *)

\* A set of naturals with an element has a least one.
LEMMA LeastNumber ==
  ASSUME NEW B, B \subseteq Nat, B # {}
  PROVE  \E m \in B : \A k \in B : m <= k
<1> DEFINE T == {1..n : n \in B}
<1>1. T # {}
  OBVIOUS
<1>2. T \subseteq FiniteSubsetsOf(Nat)
  <2> SUFFICES ASSUME NEW n \in B PROVE 1..n \in FiniteSubsetsOf(Nat)
    OBVIOUS
  <2> QED
    BY FS_Interval DEF FiniteSubsetsOf
<1>3. IsWellFoundedOn(StrictSubsetOrdering(Nat), FiniteSubsetsOf(Nat))
  BY FS_StrictSubsetOrderingWellFounded
<1> HIDE DEF T
<1>4. PICK x \in T : \A y \in T : ~(<<y, x>> \in StrictSubsetOrdering(Nat))
  BY <1>1, <1>2, <1>3, WFMin
<1>5. PICK m \in B : x = 1..m
  BY DEF T
<1>6. ASSUME NEW k \in B, k < m PROVE FALSE
  <2>1. 1..k \in T
    BY DEF T
  <2>2. 1..k \subseteq 1..m
    BY <1>6
  <2>3. m \in 1..m /\ m \notin 1..k
    BY <1>6
  <2>4. <<1..k, 1..m>> \in StrictSubsetOrdering(Nat)
    <3>1. 1..k \in SUBSET Nat /\ 1..m \in SUBSET Nat
      OBVIOUS
    <3> QED
      BY <2>2, <2>3, <3>1 DEF StrictSubsetOrdering
  <2> QED
    BY <2>1, <2>4, <1>4, <1>5
<1> QED
  BY <1>6

\* Induction over 0..N: B is where the claim fails.
LEMMA Induction ==
  ASSUME NEW N \in Nat, NEW B, 0 \notin B, \A n \in 1..N : n - 1 \notin B => n \notin B
  PROVE  \A n \in 0..N : n \notin B
<1> SUFFICES ASSUME NEW n \in 0..N, n \in B PROVE FALSE
  OBVIOUS
<1> DEFINE C == B \cap (0..N)
<1>1. C \subseteq Nat /\ n \in C
  OBVIOUS
<1> HIDE DEF C
<1>2. PICK m \in C : \A k \in C : m <= k
  BY <1>1, LeastNumber
<1>3. m \in 0..N /\ m \in B /\ m # 0
  BY DEF C
<1>4. m - 1 \in 0..N /\ m \in 1..N /\ m - 1 \notin C
  BY <1>2, <1>3
<1> QED
  BY <1>3, <1>4 DEF C

\* below[i] is i and what comes before it, in some total order of D.
Ordered(D, below) ==
  /\ below \in [D -> SUBSET D]
  /\ \A i \in D : i \in below[i]
  /\ \A i, j \in D :
       i # j => \/ below[i] \subseteq below[j] /\ j \notin below[i]
                \/ below[j] \subseteq below[i] /\ i \notin below[j]

\* Counting what comes before numbers D from 1 on.
Numbers(D, below) ==
  /\ \A i \in D : Cardinality(below[i]) \in 1..Cardinality(D)
  /\ \A i, j \in D : j \notin below[i] => Cardinality(below[i]) < Cardinality(below[j])
  /\ \A i, j \in D : Cardinality(below[i]) = Cardinality(below[j]) => i = j
  /\ \A n \in 1..Cardinality(D) : \E i \in D : Cardinality(below[i]) = n

\* Counting those not behind an element numbers a finite set.
LEMMA Places ==
  ASSUME NEW D, IsFiniteSet(D), NEW below, Ordered(D, below)
  PROVE  Numbers(D, below)
<1> USE DEF Ordered
<1>1. /\ Cardinality(D) \in Nat
      /\ \A i \in D : IsFiniteSet(below[i]) /\ Cardinality(below[i]) \in Nat
                      /\ Cardinality(below[i]) <= Cardinality(D)
  BY FS_Subset, FS_CardinalityType
<1>2. \A i \in D : Cardinality(below[i]) # 0
  BY <1>1, FS_EmptySet
<1>3. \A i \in D : Cardinality(below[i]) \in 1..Cardinality(D)
  BY <1>1, <1>2
<1>4. ASSUME NEW i \in D, NEW j \in D, j \notin below[i]
      PROVE  Cardinality(below[i]) < Cardinality(below[j])
  <2>1. i # j /\ j \in below[j] /\ i \in below[i]
    BY <1>4
  <2>2. below[i] \subseteq below[j] /\ below[i] # below[j]
    BY <1>4, <2>1
  <2>3. /\ Cardinality(below[i]) <= Cardinality(below[j])
        /\ Cardinality(below[i]) # Cardinality(below[j])
    BY <1>1, <2>2, FS_Subset
  <2> QED
    BY <1>1, <2>3
<1>5. ASSUME NEW i \in D, NEW j \in D, Cardinality(below[i]) = Cardinality(below[j]) PROVE i = j
  <2>1. Cardinality(below[i]) \in Int
    BY <1>3
  <2>2. ~(Cardinality(below[i]) < Cardinality(below[j])) /\ ~(Cardinality(below[j]) < Cardinality(below[i]))
    BY <1>5, <2>1
  <2>3. j \in below[i] /\ i \in below[j]
    BY <1>4, <2>2
  <2> QED
    BY <2>3
<1>6. \A n \in 1..Cardinality(D) : \E i \in D : Cardinality(below[i]) = n
  <2> DEFINE f == [i \in D |-> Cardinality(below[i])]
             R == 1..Cardinality(D)
  <2>1. f \in [D -> R]
    BY <1>3
  <2>2. IsFiniteSet(R) /\ Cardinality(R) = Cardinality(D)
    BY <1>1, FS_Interval
  <2>3. \A i, j \in D : f[i] = f[j] => i = j
    BY <1>5
  <2>4. f \in Injection(D, R)
    BY <2>1, <2>3 DEF Injection, IsInjective
  <2>5. f \in Surjection(D, R)
    BY <2>2, <2>4, FS_Injection
  <2>6. \A n \in R : \E i \in D : f[i] = n
    BY <2>5 DEF Surjection
  <2> QED
    BY <2>6
<1> QED
  BY <1>3, <1>4, <1>5, <1>6 DEF Numbers

\* Positions are finitely many.
LEMMA PositionsFinite ==
  ASSUME NEW N \in Nat, NEW I \in SUBSET (1..N)
  PROVE  IsFiniteSet(I) /\ Cardinality(I) \in 0..N
<1>1. IsFiniteSet(1..N) /\ Cardinality(1..N) = N
  BY FS_Interval
<1>2. IsFiniteSet(I) /\ Cardinality(I) <= Cardinality(1..N)
  BY <1>1, FS_Subset
<1>3. Cardinality(I) \in Nat
  BY <1>2, FS_CardinalityType
<1> QED
  BY <1>1, <1>2, <1>3

\* The place of i among the positions I.
Place(I, i) == Cardinality({j \in I : j <= i})

\* What is kept is in order and in its place.
LEMMA AtProperties ==
  ASSUME NEW S, NEW s \in Seq(S), NEW I \in SUBSET (1..Len(s))
  PROVE  /\ IsFiniteSet(I) /\ Cardinality(I) \in 0..Len(s)
         /\ At(s, I) \in Seq(S) /\ Len(At(s, I)) = Cardinality(I)
         /\ \A i \in I : Place(I, i) \in 1..Cardinality(I) /\ At(s, I)[Place(I, i)] = s[i]
         /\ \A n \in 1..Cardinality(I) : \E i \in I : Place(I, i) = n /\ At(s, I)[n] = s[i]
         /\ \A i, j \in I : i < j <=> Place(I, i) < Place(I, j)
<1>1. Len(s) \in Nat
  OBVIOUS
<1>2. IsFiniteSet(I) /\ Cardinality(I) \in 0..Len(s)
  BY <1>1, PositionsFinite
<1> DEFINE below == [i \in I |-> {j \in I : j <= i}]
<1>6. \A i \in I : i \in Int
  BY <1>1
<1>3. below \in [I -> SUBSET I] /\ \A i \in I : i \in below[i]
  BY <1>6
<1>4. \A i, j \in I : i < j => below[i] \subseteq below[j] /\ j \notin below[i]
  <2> SUFFICES ASSUME NEW i \in I, NEW j \in I, i < j
               PROVE  below[i] \subseteq below[j] /\ j \notin below[i]
    OBVIOUS
  <2>1. \A k \in I : k <= i => k <= j
    BY <1>6
  <2>2. ~(j <= i)
    BY <1>6
  <2> QED
    BY <2>1, <2>2
<1>5. \A i \in I : Place(I, i) = Cardinality(below[i])
  BY DEF Place
<1>6a. \A i, j \in I : i # j => i < j \/ j < i
  BY <1>6
<1>7. Numbers(I, below)
  <2> HIDE DEF below
  <2>1. Ordered(I, below)
    BY <1>3, <1>4, <1>6a DEF Ordered
  <2> QED
    BY <1>2, <2>1, Places
<1>8. /\ \A i \in I : Place(I, i) \in 1..Cardinality(I)
      /\ \A i, j \in I : i < j => Place(I, i) < Place(I, j)
      /\ \A i, j \in I : Place(I, i) = Place(I, j) => i = j
      /\ \A n \in 1..Cardinality(I) : \E i \in I : Place(I, i) = n
  <2> HIDE DEF below
  <2> QED
    BY <1>4, <1>5, <1>7 DEF Numbers
<1>9. \A i, j \in I : Place(I, i) < Place(I, j) => i < j
  <2>1. \A i \in I : Place(I, i) \in Int
    BY <1>8
  <2>2. \A i, j \in I : Place(I, i) < Place(I, j) => ~(Place(I, j) < Place(I, i)) /\ i # j
    BY <2>1
  <2> QED
    BY <1>6a, <1>8, <2>2
<1> DEFINE Pos(n) == CHOOSE i \in I : Place(I, i) = n
<1>10. At(s, I) = [n \in 1..Cardinality(I) |-> s[Pos(n)]]
  BY DEF At, Place
<1>11. \A n \in 1..Cardinality(I) : Pos(n) \in I /\ Place(I, Pos(n)) = n
  BY <1>8
<1> HIDE DEF Pos
<1>12. \A i \in I : Pos(Place(I, i)) = i
  BY <1>8, <1>11
<1>13. At(s, I) \in [1..Cardinality(I) -> S]
  <2>1. \A n \in 1..Cardinality(I) : Pos(n) \in 1..Len(s)
    BY <1>11
  <2>2. \A n \in 1..Cardinality(I) : s[Pos(n)] \in S
    BY <2>1
  <2> QED
    BY <1>10, <2>2
<1>14. At(s, I) \in Seq(S) /\ Len(At(s, I)) = Cardinality(I)
  BY <1>2, <1>13
<1>15. \A i \in I : At(s, I)[Place(I, i)] = s[i]
  BY <1>8, <1>10, <1>12
<1>16. \A n \in 1..Cardinality(I) : \E i \in I : Place(I, i) = n /\ At(s, I)[n] = s[i]
  BY <1>10, <1>11
<1> QED
  BY <1>2, <1>8, <1>9, <1>14, <1>15, <1>16

\* Nothing is kept of no position.
LEMMA AtEmpty == ASSUME NEW s PROVE At(s, {}) = <<>>
<1>1. Cardinality({}) = 0
  BY FS_EmptySet
<1>2. At(s, {}) = [n \in 1..0 |-> s[CHOOSE i \in {} : Cardinality({j \in {} : j <= i}) = n]]
  BY <1>1 DEF At
<1> QED
  BY <1>2

\* One position more, behind the others, is one element more.
LEMMA AtAppend ==
  ASSUME NEW S, NEW s \in Seq(S), NEW n \in 1..Len(s), NEW I \in SUBSET (1..(n - 1))
  PROVE  At(s, I \cup {n}) = Append(At(s, I), s[n])
<1> DEFINE J == I \cup {n}
           c == Cardinality(I)
<1>1. I \in SUBSET (1..Len(s)) /\ J \in SUBSET (1..Len(s)) /\ n \notin I /\ Len(s) \in Nat
  OBVIOUS
<1>2. IsFiniteSet(I) /\ c \in Nat /\ Cardinality(J) = c + 1
  <2>1. IsFiniteSet(I) /\ c \in Nat
    BY <1>1, AtProperties
  <2> QED
    BY <1>1, <2>1, FS_AddElement
<1>3. \A i \in I : Place(J, i) = Place(I, i)
  <2> SUFFICES ASSUME NEW i \in I PROVE Place(J, i) = Place(I, i)
    OBVIOUS
  <2>1. i < n
    OBVIOUS
  <2>2. {j \in J : j <= i} = {j \in I : j <= i}
    BY <2>1
  <2> QED
    BY <2>2 DEF Place
<1>4. Place(J, n) = c + 1
  <2>1. \A j \in J : j <= n
    OBVIOUS
  <2>2. {j \in J : j <= n} = J
    <3> HIDE DEF J
    <3> QED
      BY <2>1
  <2> QED
    BY <1>2, <2>2 DEF Place
<1>5. At(s, I) \in Seq(S) /\ Len(At(s, I)) = c
      /\ \A k \in 1..c : \E i \in I : Place(I, i) = k /\ At(s, I)[k] = s[i]
  BY <1>1, AtProperties
<1>6. At(s, J) \in Seq(S) /\ Len(At(s, J)) = c + 1 /\ \A i \in J : At(s, J)[Place(J, i)] = s[i]
  BY <1>1, <1>2, AtProperties
<1> HIDE DEF J, c
<1>7. At(s, J)[c + 1] = s[n]
  BY <1>4, <1>6 DEF J
<1>8. \A k \in 1..c : At(s, J)[k] = At(s, I)[k]
  <2> SUFFICES ASSUME NEW k \in 1..c PROVE At(s, J)[k] = At(s, I)[k]
    OBVIOUS
  <2>1. PICK i \in I : Place(I, i) = k /\ At(s, I)[k] = s[i]
    BY <1>5
  <2>2. i \in J
    BY DEF J
  <2> QED
    BY <1>3, <1>6, <2>1, <2>2
<1>9. s[n] \in S
  OBVIOUS
<1>10. /\ Append(At(s, I), s[n]) \in Seq(S) /\ Len(Append(At(s, I), s[n])) = c + 1
       /\ Append(At(s, I), s[n])[c + 1] = s[n]
       /\ \A k \in 1..c : Append(At(s, I), s[n])[k] = At(s, I)[k]
  BY <1>5, <1>9
<1>11. \A k \in 1..(c + 1) : At(s, J)[k] = Append(At(s, I), s[n])[k]
  <2>1. \A k \in 1..(c + 1) : k \in 1..c \/ k = c + 1
    BY <1>2
  <2> QED
    BY <1>7, <1>8, <1>10, <2>1
<1>12. At(s, J) = Append(At(s, I), s[n])
  BY <1>6, <1>10, <1>11, SeqEqual
<1> QED
  BY <1>12 DEF J
-----------------------------------------------------------------------------
(* Collection: the loops *)

LEMMA AtStep ==
  ASSUME NEW S, NEW s \in Seq(S), NEW K \in SUBSET (1..Len(s))
  PROVE  /\ At(s, K \cap (1..0)) = <<>> /\ At(s, K \cap (1..Len(s))) = At(s, K)
         /\ \A n \in 1..Len(s) :
              At(s, K \cap (1..n)) = AppendIf(n \in K, At(s, K \cap (1..(n - 1))), s[n])
<1>1. K \cap (1..0) = {} /\ K \cap (1..Len(s)) = K
  <2>1. 1..0 = {}
    OBVIOUS
  <2> QED
    BY <2>1
<1>2. ASSUME NEW n \in 1..Len(s)
      PROVE  At(s, K \cap (1..n)) = AppendIf(n \in K, At(s, K \cap (1..(n - 1))), s[n])
  <2>1. CASE n \in K
    <3>1. K \cap (1..n) = (K \cap (1..(n - 1))) \cup {n}
      BY <2>1
    <3>2. K \cap (1..(n - 1)) \in SUBSET (1..(n - 1))
      OBVIOUS
    <3> QED
      BY <2>1, <3>1, <3>2, AtAppend DEF AppendIf
  <2>2. CASE n \notin K
    <3>1. K \cap (1..n) = K \cap (1..(n - 1))
      BY <2>2
    <3> QED
      BY <2>2, <3>1 DEF AppendIf
  <2> QED
    BY <2>1, <2>2
<1> QED
  BY <1>1, <1>2, AtEmpty

\* Two loops start alike and make the same steps.
Alike(f, g, N) == f[0] = g[0] /\ \A n \in 1..N : f[n - 1] = g[n - 1] => f[n] = g[n]

LEMMA SameLoop ==
  ASSUME NEW N \in Nat, NEW f, NEW g, Alike(f, g, N)
  PROVE  \A n \in 0..N : f[n] = g[n]
<1> DEFINE B == {n \in 0..N : f[n] # g[n]}
<1>1. 0 \notin B
  BY DEF Alike
<1>2. ASSUME NEW n \in 1..N, n - 1 \notin B PROVE n \notin B
  <2>1. n - 1 \in 0..N
    OBVIOUS
  <2> QED
    BY <1>2, <2>1 DEF Alike
<1> HIDE DEF B
<1>3. \A n \in 0..N : n \notin B
  BY <1>1, <1>2, Induction
<1> QED
  BY <1>3 DEF B

\* What a mapper returns.
Mapped(T) == [item : T, ok : BOOLEAN]

LEMMA FilterSliceSelects ==
  ASSUME NEW S, NEW s \in Seq(S), NEW keep \in [S -> BOOLEAN]
  PROVE  FilterSlice(s, keep) = At(s, {i \in 1..Len(s) : keep[s[i]]})
<1> DEFINE K == {i \in 1..Len(s) : keep[s[i]]}
<1> DEFINE loop[n \in 0..Len(s)] == IF n = 0 THEN <<>> ELSE AppendIf(keep[s[n]], loop[n - 1], s[n])
           done == [n \in 0..Len(s) |-> At(s, K \cap (1..n))]
<1>1. FilterSlice(s, keep) = loop[Len(s)]
  BY DEF FilterSlice
<1>2. Len(s) \in Nat /\ K \in SUBSET (1..Len(s)) /\ \A n \in 1..Len(s) : keep[s[n]] = (n \in K)
  OBVIOUS
<1>a. At(s, K \cap (1..0)) = <<>> /\ At(s, K \cap (1..Len(s))) = At(s, K)
  BY <1>2, AtStep
<1>3. done[0] = <<>>
  BY <1>2, <1>a
<1>4. ASSUME NEW n \in 1..Len(s) PROVE done[n] = AppendIf(keep[s[n]], done[n - 1], s[n])
  <2>1. At(s, K \cap (1..n)) = AppendIf(n \in K, At(s, K \cap (1..(n - 1))), s[n])
    BY <1>2, AtStep
  <2>2. n \in 0..Len(s) /\ n - 1 \in 0..Len(s)
    BY <1>2
  <2> HIDE DEF K
  <2> QED
    BY <1>2, <2>1, <2>2
<1>5. done = [n \in 0..Len(s) |-> done[n]]
  OBVIOUS
<1> HIDE DEF done
<1>6. done = [n \in 0..Len(s) |-> IF n = 0 THEN <<>> ELSE AppendIf(keep[s[n]], done[n - 1], s[n])]
  <2>1. \A n \in 0..Len(s) : done[n] = IF n = 0 THEN <<>> ELSE AppendIf(keep[s[n]], done[n - 1], s[n])
    <3>1. \A n \in 0..Len(s) : n = 0 \/ n \in 1..Len(s)
      BY <1>2
    <3> QED
      BY <1>3, <1>4, <3>1
  <2> QED
    BY <1>5, <2>1
<1>7. \E f : f = [n \in 0..Len(s) |-> IF n = 0 THEN <<>> ELSE AppendIf(keep[s[n]], f[n - 1], s[n])]
  BY <1>6
<1>8. loop = [n \in 0..Len(s) |-> IF n = 0 THEN <<>> ELSE AppendIf(keep[s[n]], loop[n - 1], s[n])]
  BY <1>7
<1> HIDE DEF loop
<1>9. Alike(loop, done, Len(s))
  <2>1. loop[0] = done[0]
    BY <1>2, <1>3, <1>8
  <2>2. ASSUME NEW n \in 1..Len(s), loop[n - 1] = done[n - 1] PROVE loop[n] = done[n]
    <3>1. n \in 0..Len(s) /\ n # 0
      BY <1>2
    <3>2. loop[n] = AppendIf(keep[s[n]], loop[n - 1], s[n])
      BY <1>8, <3>1
    <3> QED
      BY <1>4, <2>2, <3>2
  <2> QED
    BY <2>1, <2>2 DEF Alike
<1>10. loop[Len(s)] = done[Len(s)]
  BY <1>2, <1>9, SameLoop
<1>11. done[Len(s)] = At(s, K)
  BY <1>2, <1>a DEF done
<1> QED
  BY <1>1, <1>10, <1>11

LEMMA MapAndFilterSliceSelects ==
  ASSUME NEW S, NEW s \in Seq(S), NEW T, NEW mapper \in [S -> Mapped(T)]
  PROVE  MapAndFilterSlice(s, mapper)
           = At([i \in 1..Len(s) |-> mapper[s[i]].item], {i \in 1..Len(s) : mapper[s[i]].ok})
<1> DEFINE K == {i \in 1..Len(s) : mapper[s[i]].ok}
<1> DEFINE t == [i \in 1..Len(s) |-> mapper[s[i]].item]
<1> DEFINE loop[n \in 0..Len(s)] == IF n = 0 THEN <<>> ELSE AppendIf(mapper[s[n]].ok, loop[n - 1], mapper[s[n]].item)
           done == [n \in 0..Len(s) |-> At(t, K \cap (1..n))]
<1>1. MapAndFilterSlice(s, mapper) = loop[Len(s)]
  BY DEF MapAndFilterSlice
<1>2. Len(s) \in Nat /\ K \in SUBSET (1..Len(s))
  OBVIOUS
<1>a. \A n \in 1..Len(s) : mapper[s[n]].ok = (n \in K) /\ mapper[s[n]].item = t[n] /\ t[n] \in T
  <2>1. \A n \in 1..Len(s) : mapper[s[n]] \in [item : T, ok : BOOLEAN]
    BY DEF Mapped
  <2> QED
    BY <2>1
<1>b. t \in Seq(T) /\ Len(t) = Len(s)
  BY <1>2, <1>a
<1>c. /\ At(t, K \cap (1..0)) = <<>> /\ At(t, K \cap (1..Len(s))) = At(t, K)
      /\ \A n \in 1..Len(s) : At(t, K \cap (1..n)) = AppendIf(n \in K, At(t, K \cap (1..(n - 1))), t[n])
  <2>1. K \in SUBSET (1..Len(t))
    BY <1>2, <1>b
  <2> HIDE DEF t, K
  <2>2. /\ At(t, K \cap (1..0)) = <<>> /\ At(t, K \cap (1..Len(t))) = At(t, K)
        /\ \A n \in 1..Len(t) : At(t, K \cap (1..n)) = AppendIf(n \in K, At(t, K \cap (1..(n - 1))), t[n])
    BY <1>b, <2>1, AtStep
  <2> QED
    BY <1>b, <2>2
<1>3. done[0] = <<>>
  BY <1>2, <1>c
<1>4. ASSUME NEW n \in 1..Len(s) PROVE done[n] = AppendIf(mapper[s[n]].ok, done[n - 1], mapper[s[n]].item)
  <2>1. n \in 0..Len(s) /\ n - 1 \in 0..Len(s)
    BY <1>2
  <2> HIDE DEF K, t
  <2> QED
    BY <1>a, <1>c, <2>1
<1>5. done = [n \in 0..Len(s) |-> done[n]]
  OBVIOUS
<1> HIDE DEF done
<1>6. done = [n \in 0..Len(s) |-> IF n = 0 THEN <<>> ELSE AppendIf(mapper[s[n]].ok, done[n - 1], mapper[s[n]].item)]
  <2>1. \A n \in 0..Len(s) : done[n] = IF n = 0 THEN <<>> ELSE AppendIf(mapper[s[n]].ok, done[n - 1], mapper[s[n]].item)
    <3>1. \A n \in 0..Len(s) : n = 0 \/ n \in 1..Len(s)
      BY <1>2
    <3> QED
      BY <1>3, <1>4, <3>1
  <2> QED
    BY <1>5, <2>1
<1>7. \E f : f = [n \in 0..Len(s) |-> IF n = 0 THEN <<>> ELSE AppendIf(mapper[s[n]].ok, f[n - 1], mapper[s[n]].item)]
  BY <1>6
<1>8. loop = [n \in 0..Len(s) |-> IF n = 0 THEN <<>> ELSE AppendIf(mapper[s[n]].ok, loop[n - 1], mapper[s[n]].item)]
  BY <1>7
<1> HIDE DEF loop
<1>9. Alike(loop, done, Len(s))
  <2>1. loop[0] = done[0]
    BY <1>2, <1>3, <1>8
  <2>2. ASSUME NEW n \in 1..Len(s), loop[n - 1] = done[n - 1] PROVE loop[n] = done[n]
    <3>1. n \in 0..Len(s) /\ n # 0
      BY <1>2
    <3>2. loop[n] = AppendIf(mapper[s[n]].ok, loop[n - 1], mapper[s[n]].item)
      BY <1>8, <3>1
    <3> QED
      BY <1>4, <2>2, <3>2
  <2> QED
    BY <2>1, <2>2 DEF Alike
<1>10. loop[Len(s)] = done[Len(s)]
  BY <1>2, <1>9, SameLoop
<1>11. done[Len(s)] = At(t, K)
  BY <1>2, <1>c DEF done
<1> QED
  BY <1>1, <1>10, <1>11

LEMMA ReduceSliceCopies ==
  ASSUME NEW S, NEW s \in Seq(S)
  PROVE  ReduceSlice(s, <<>>) = s
<1> DEFINE loop[n \in 0..Len(s)] == IF n = 0 THEN <<>> ELSE Push(s[n], loop[n - 1])
           done == [n \in 0..Len(s) |-> [i \in 1..n |-> s[i]]]
<1>1. ReduceSlice(s, <<>>) = loop[Len(s)]
  BY DEF ReduceSlice
<1>2. Len(s) \in Nat /\ s = [i \in 1..Len(s) |-> s[i]]
  OBVIOUS
<1>3. done[0] = <<>>
  BY <1>2
<1>4. ASSUME NEW n \in 1..Len(s) PROVE done[n] = Push(s[n], done[n - 1])
  <2> DEFINE p == [i \in 1..(n - 1) |-> s[i]]
  <2>1. p \in Seq(S) /\ Len(p) = n - 1 /\ s[n] \in S
    <3>1. n - 1 \in Nat /\ p \in [1..(n - 1) -> S]
      BY <1>2
    <3> QED
      BY <3>1
  <2>2. Append(p, s[n]) = [i \in 1..n |-> s[i]]
    BY <1>2, <2>1
  <2>3. done[n] = [i \in 1..n |-> s[i]] /\ done[n - 1] = p
    BY <1>2
  <2> HIDE DEF p, done
  <2> QED
    BY <2>2, <2>3 DEF Push
<1>5. done = [n \in 0..Len(s) |-> done[n]]
  OBVIOUS
<1> HIDE DEF done
<1>6. done = [n \in 0..Len(s) |-> IF n = 0 THEN <<>> ELSE Push(s[n], done[n - 1])]
  <2>1. \A n \in 0..Len(s) : done[n] = IF n = 0 THEN <<>> ELSE Push(s[n], done[n - 1])
    <3>1. \A n \in 0..Len(s) : n = 0 \/ n \in 1..Len(s)
      BY <1>2
    <3> QED
      BY <1>3, <1>4, <3>1
  <2> QED
    BY <1>5, <2>1
<1>7. \E f : f = [n \in 0..Len(s) |-> IF n = 0 THEN <<>> ELSE Push(s[n], f[n - 1])]
  BY <1>6
<1>8. loop = [n \in 0..Len(s) |-> IF n = 0 THEN <<>> ELSE Push(s[n], loop[n - 1])]
  BY <1>7
<1> HIDE DEF loop
<1>9. Alike(loop, done, Len(s))
  <2>1. loop[0] = done[0]
    BY <1>2, <1>3, <1>8
  <2>2. ASSUME NEW n \in 1..Len(s), loop[n - 1] = done[n - 1] PROVE loop[n] = done[n]
    <3>1. n \in 0..Len(s) /\ n # 0
      BY <1>2
    <3>2. loop[n] = Push(s[n], loop[n - 1])
      BY <1>8, <3>1
    <3> QED
      BY <1>4, <2>2, <3>2
  <2> QED
    BY <2>1, <2>2 DEF Alike
<1>10. loop[Len(s)] = done[Len(s)]
  BY <1>2, <1>9, SameLoop
<1>11. done[Len(s)] = s
  BY <1>2 DEF done
<1> QED
  BY <1>1, <1>10, <1>11

LEMMA ReduceSliceStops ==
  ASSUME NEW S, NEW s \in Seq(S)
  PROVE  ReduceSliceWithCondition(s, <<>>) = At(s, {i \in 1..Len(s) : \A j \in 1..(i - 1) : s[j] # 0})
<1> DEFINE K == {i \in 1..Len(s) : \A j \in 1..(i - 1) : s[j] # 0}
<1> DEFINE loop[n \in 0..Len(s)] == IF n = 0 THEN [r |-> <<>>, keepContinuing |-> TRUE] ELSE IF loop[n - 1].keepContinuing THEN PushToZero(s[n], loop[n - 1].r) ELSE loop[n - 1]
           done == [n \in 0..Len(s) |-> [r |-> At(s, K \cap (1..n)), keepContinuing |-> \A j \in 1..n : s[j] # 0]]
<1>1. ReduceSliceWithCondition(s, <<>>) = loop[Len(s)].r
  BY DEF ReduceSliceWithCondition
<1>2. Len(s) \in Nat /\ K \in SUBSET (1..Len(s))
  OBVIOUS
<1>a. At(s, K \cap (1..0)) = <<>> /\ At(s, K \cap (1..Len(s))) = At(s, K)
  BY <1>2, AtStep
<1>3. done[0] = [r |-> <<>>, keepContinuing |-> TRUE]
  <2>1. 0 \in 0..Len(s) /\ \A j \in 1..0 : s[j] # 0
    BY <1>2
  <2>2. done[0] = [r |-> At(s, K \cap (1..0)), keepContinuing |-> \A j \in 1..0 : s[j] # 0]
    BY <2>1
  <2> HIDE DEF K, done
  <2> QED
    BY <2>1, <2>2, <1>a
<1>4. ASSUME NEW n \in 1..Len(s) PROVE done[n] = IF done[n - 1].keepContinuing THEN PushToZero(s[n], done[n - 1].r) ELSE done[n - 1]
  <2>1. At(s, K \cap (1..n)) = AppendIf(n \in K, At(s, K \cap (1..(n - 1))), s[n])
    BY <1>2, AtStep
  <2>2. n \in 0..Len(s) /\ n - 1 \in 0..Len(s)
    BY <1>2
  <2>3. n \in K <=> \A j \in 1..(n - 1) : s[j] # 0
    OBVIOUS
  <2>4. (\A j \in 1..n : s[j] # 0) <=> (\A j \in 1..(n - 1) : s[j] # 0) /\ s[n] # 0
    <3>1. \A j \in 1..n : j \in 1..(n - 1) \/ j = n
      BY <1>2
    <3>2. n \in 1..n /\ \A j \in 1..(n - 1) : j \in 1..n
      BY <1>2
    <3> QED
      BY <3>1, <3>2
  <2>5. done[n] = [r |-> At(s, K \cap (1..n)), keepContinuing |-> \A j \in 1..n : s[j] # 0]
    BY <2>2
  <2>6. /\ done[n - 1].r = At(s, K \cap (1..(n - 1)))
        /\ done[n - 1].keepContinuing = (\A j \in 1..(n - 1) : s[j] # 0)
        /\ done[n - 1] = [r |-> At(s, K \cap (1..(n - 1))), keepContinuing |-> \A j \in 1..(n - 1) : s[j] # 0]
    BY <2>2
  <2> HIDE DEF K, done
  <2>7. CASE n \in K
    <3>1. done[n] = [r |-> Append(done[n - 1].r, s[n]), keepContinuing |-> s[n] # 0]
      BY <2>1, <2>3, <2>4, <2>5, <2>6, <2>7 DEF AppendIf
    <3> QED
      BY <2>3, <2>6, <2>7, <3>1 DEF PushToZero
  <2>8. CASE n \notin K
    BY <2>1, <2>3, <2>4, <2>5, <2>6, <2>8 DEF AppendIf
  <2> QED
    BY <2>7, <2>8
<1>5. done = [n \in 0..Len(s) |-> done[n]]
  OBVIOUS
<1> HIDE DEF done
<1>6. done = [n \in 0..Len(s) |-> IF n = 0 THEN [r |-> <<>>, keepContinuing |-> TRUE] ELSE IF done[n - 1].keepContinuing THEN PushToZero(s[n], done[n - 1].r) ELSE done[n - 1]]
  <2>1. \A n \in 0..Len(s) : done[n] = IF n = 0 THEN [r |-> <<>>, keepContinuing |-> TRUE] ELSE IF done[n - 1].keepContinuing THEN PushToZero(s[n], done[n - 1].r) ELSE done[n - 1]
    <3>1. \A n \in 0..Len(s) : n = 0 \/ n \in 1..Len(s)
      BY <1>2
    <3> QED
      BY <1>3, <1>4, <3>1
  <2> QED
    BY <1>5, <2>1
<1>7. \E f : f = [n \in 0..Len(s) |-> IF n = 0 THEN [r |-> <<>>, keepContinuing |-> TRUE] ELSE IF f[n - 1].keepContinuing THEN PushToZero(s[n], f[n - 1].r) ELSE f[n - 1]]
  BY <1>6
<1>8. loop = [n \in 0..Len(s) |-> IF n = 0 THEN [r |-> <<>>, keepContinuing |-> TRUE] ELSE IF loop[n - 1].keepContinuing THEN PushToZero(s[n], loop[n - 1].r) ELSE loop[n - 1]]
  BY <1>7
<1> HIDE DEF loop
<1>9. Alike(loop, done, Len(s))
  <2>1. loop[0] = done[0]
    BY <1>2, <1>3, <1>8
  <2>2. ASSUME NEW n \in 1..Len(s), loop[n - 1] = done[n - 1] PROVE loop[n] = done[n]
    <3>1. n \in 0..Len(s) /\ n # 0
      BY <1>2
    <3>2. loop[n] = IF loop[n - 1].keepContinuing THEN PushToZero(s[n], loop[n - 1].r) ELSE loop[n - 1]
      BY <1>8, <3>1
    <3> QED
      BY <1>4, <2>2, <3>2
  <2> QED
    BY <2>1, <2>2 DEF Alike
<1>10. loop[Len(s)] = done[Len(s)]
  BY <1>2, <1>9, SameLoop
<1>11. done[Len(s)].r = At(s, K)
  BY <1>2, <1>a DEF done
<1> QED
  BY <1>1, <1>10, <1>11

LEMMA DeduplicateByKeepsFirst ==
  ASSUME NEW S, NEW s \in Seq(S), NEW getKey, NEW exclude
  PROVE  DeduplicateBy(s, getKey, exclude)
           = At(s, {i \in 1..Len(s) : /\ s[i] \notin exclude
                                     /\ \A j \in 1..(i - 1) : s[j] \notin exclude => getKey[s[j]] # getKey[s[i]]})
<1> DEFINE K == {i \in 1..Len(s) : /\ s[i] \notin exclude
                                   /\ \A j \in 1..(i - 1) : s[j] \notin exclude => getKey[s[j]] # getKey[s[i]]}
<1> DEFINE Seen(n) == {getKey[s[j]] : j \in {j \in 1..n : s[j] \notin exclude}}
<1> DEFINE loop[n \in 0..Len(s)] == IF n = 0 THEN [seen |-> {}, result |-> <<>>] ELSE IF s[n] \in exclude THEN loop[n - 1] ELSE AddFirst(loop[n - 1], getKey[s[n]], s[n])
           done == [n \in 0..Len(s) |-> [seen |-> Seen(n), result |-> At(s, K \cap (1..n))]]
<1>1. DeduplicateBy(s, getKey, exclude) = loop[Len(s)].result
  BY DEF DeduplicateBy
<1>2. Len(s) \in Nat /\ K \in SUBSET (1..Len(s))
  OBVIOUS
<1>a. At(s, K \cap (1..0)) = <<>> /\ At(s, K \cap (1..Len(s))) = At(s, K)
  BY <1>2, AtStep
<1>b. Seen(0) = {}
  OBVIOUS
<1>3. done[0] = [seen |-> {}, result |-> <<>>]
  <2>1. 0 \in 0..Len(s)
    BY <1>2
  <2>2. done[0] = [seen |-> Seen(0), result |-> At(s, K \cap (1..0))]
    BY <2>1
  <2> QED
    BY <2>2, <1>a, <1>b
<1>4. ASSUME NEW n \in 1..Len(s) PROVE done[n] = IF s[n] \in exclude THEN done[n - 1] ELSE AddFirst(done[n - 1], getKey[s[n]], s[n])
  <2>1. At(s, K \cap (1..n)) = AppendIf(n \in K, At(s, K \cap (1..(n - 1))), s[n])
    BY <1>2, AtStep
  <2>2. n \in 0..Len(s) /\ n - 1 \in 0..Len(s)
    BY <1>2
  <2>3. n \in K <=> s[n] \notin exclude /\ getKey[s[n]] \notin Seen(n - 1)
    OBVIOUS
  <2>4. Seen(n) = IF s[n] \in exclude THEN Seen(n - 1) ELSE Seen(n - 1) \cup {getKey[s[n]]}
    <3>1. \A j : j \in 1..n <=> j \in 1..(n - 1) \/ j = n
      BY <1>2
    <3> QED
      BY <3>1
  <2>5. done[n] = [seen |-> Seen(n), result |-> At(s, K \cap (1..n))]
    BY <2>2
  <2>6. done[n - 1] = [seen |-> Seen(n - 1), result |-> At(s, K \cap (1..(n - 1)))]
    BY <2>2
  <2> HIDE DEF K, Seen, done
  <2>7. CASE s[n] \in exclude
    BY <2>1, <2>3, <2>4, <2>5, <2>6, <2>7 DEF AppendIf
  <2>8. CASE s[n] \notin exclude
    <3>1. done[n - 1].seen = Seen(n - 1) /\ done[n - 1].result = At(s, K \cap (1..(n - 1)))
      BY <2>6
    <3>2. Seen(n) = done[n - 1].seen \cup {getKey[s[n]]}
      BY <2>4, <2>8, <3>1
    <3>3. At(s, K \cap (1..n)) = AppendIf(getKey[s[n]] \notin done[n - 1].seen, done[n - 1].result, s[n])
      BY <2>1, <2>3, <2>8, <3>1 DEF AppendIf
    <3> QED
      BY <2>5, <2>8, <3>2, <3>3 DEF AddFirst
  <2> QED
    BY <2>7, <2>8
<1>5. done = [n \in 0..Len(s) |-> done[n]]
  OBVIOUS
<1> HIDE DEF done
<1>6. done = [n \in 0..Len(s) |-> IF n = 0 THEN [seen |-> {}, result |-> <<>>] ELSE IF s[n] \in exclude THEN done[n - 1] ELSE AddFirst(done[n - 1], getKey[s[n]], s[n])]
  <2>1. \A n \in 0..Len(s) : done[n] = IF n = 0 THEN [seen |-> {}, result |-> <<>>] ELSE IF s[n] \in exclude THEN done[n - 1] ELSE AddFirst(done[n - 1], getKey[s[n]], s[n])
    <3>1. \A n \in 0..Len(s) : n = 0 \/ n \in 1..Len(s)
      BY <1>2
    <3> QED
      BY <1>3, <1>4, <3>1
  <2> QED
    BY <1>5, <2>1
<1>7. \E f : f = [n \in 0..Len(s) |-> IF n = 0 THEN [seen |-> {}, result |-> <<>>] ELSE IF s[n] \in exclude THEN f[n - 1] ELSE AddFirst(f[n - 1], getKey[s[n]], s[n])]
  BY <1>6
<1>8. loop = [n \in 0..Len(s) |-> IF n = 0 THEN [seen |-> {}, result |-> <<>>] ELSE IF s[n] \in exclude THEN loop[n - 1] ELSE AddFirst(loop[n - 1], getKey[s[n]], s[n])]
  BY <1>7
<1> HIDE DEF loop
<1>9. Alike(loop, done, Len(s))
  <2>1. loop[0] = done[0]
    BY <1>2, <1>3, <1>8
  <2>2. ASSUME NEW n \in 1..Len(s), loop[n - 1] = done[n - 1] PROVE loop[n] = done[n]
    <3>1. n \in 0..Len(s) /\ n # 0
      BY <1>2
    <3>2. loop[n] = IF s[n] \in exclude THEN loop[n - 1] ELSE AddFirst(loop[n - 1], getKey[s[n]], s[n])
      BY <1>8, <3>1
    <3> QED
      BY <1>4, <2>2, <3>2
  <2> QED
    BY <2>1, <2>2 DEF Alike
<1>10. loop[Len(s)] = done[Len(s)]
  BY <1>2, <1>9, SameLoop
<1>11. done[Len(s)].result = At(s, K)
  BY <1>2, <1>a DEF done
<1> QED
  BY <1>1, <1>10, <1>11

LEMMA GreatestNumber ==
  ASSUME NEW N \in Nat, NEW B, B \subseteq 0..N, B # {}
  PROVE  \E m \in B : \A k \in B : k <= m
<1> DEFINE C == {N - k : k \in B}
<1>1. C \subseteq Nat /\ C # {}
  <2>1. \A k \in B : N - k \in Nat
    OBVIOUS
  <2> QED
    BY <2>1
<1>2. \A k \in B : N - k \in C
  OBVIOUS
<1>3. \A c \in C : \E k \in B : c = N - k
  OBVIOUS
<1> HIDE DEF C
<1>4. PICK c \in C : \A d \in C : c <= d
  BY <1>1, LeastNumber
<1>5. PICK m \in B : c = N - m
  BY <1>3
<1>6. \A k \in B : N - m <= N - k
  BY <1>2, <1>4, <1>5
<1>7. m \in Int /\ \A k \in B : k \in Int
  OBVIOUS
<1>8. \A k \in B : k <= m
  BY <1>6, <1>7
<1> QED
  BY <1>8

\* i is the last of the first n elements of s that have the key k.
IsLast(s, getKey, k, n, i) ==
  i \in 1..n /\ getKey[s[i]] = k /\ \A j \in (i + 1)..n : getKey[s[j]] # k

LastOf(s, getKey, k, n) == CHOOSE i \in 1..n : IsLast(s, getKey, k, n, i)

Keys(s, getKey, n) == {getKey[s[i]] : i \in 1..n}

LEMMA LastExists ==
  ASSUME NEW s, NEW getKey, NEW n \in Nat, NEW k \in Keys(s, getKey, n)
  PROVE  IsLast(s, getKey, k, n, LastOf(s, getKey, k, n))
<1> DEFINE B == {i \in 1..n : getKey[s[i]] = k}
<1>1. B \subseteq 0..n /\ B # {}
  BY DEF Keys
<1>2. PICK m \in B : \A i \in B : i <= m
  <2> HIDE DEF B
  <2> QED
    BY <1>1, GreatestNumber
<1>3. m \in 1..n /\ getKey[s[m]] = k
  OBVIOUS
<1>4. ASSUME NEW j \in (m + 1)..n, getKey[s[j]] = k PROVE FALSE
  <2>1. j \in B /\ ~(j <= m)
    BY <1>3, <1>4
  <2> QED
    BY <1>2, <2>1
<1>5. IsLast(s, getKey, k, n, m)
  BY <1>3, <1>4 DEF IsLast
<1> QED
  BY <1>3, <1>5 DEF LastOf

LEMMA LastUnique ==
  ASSUME NEW s, NEW getKey, NEW n \in Nat, NEW k, NEW i, IsLast(s, getKey, k, n, i)
  PROVE  LastOf(s, getKey, k, n) = i
<1>1. i \in 1..n /\ k \in Keys(s, getKey, n)
  BY DEF IsLast, Keys
<1> DEFINE m == LastOf(s, getKey, k, n)
<1>2. IsLast(s, getKey, k, n, m)
  BY <1>1, LastExists
<1> HIDE DEF m
<1>3. m \in 1..n /\ ~(m < i) /\ ~(i < m)
  <2>1. m \in 1..n
    BY <1>2 DEF IsLast
  <2>2. i < m => m \in (i + 1)..n
    BY <1>1, <2>1
  <2>3. m < i => i \in (m + 1)..n
    BY <1>1, <2>1
  <2> QED
    BY <1>2, <2>1, <2>2, <2>3 DEF IsLast
<1>4. m = i
  BY <1>1, <1>3
<1> QED
  BY <1>4 DEF m

LEMMA ListToGetterMapHasLast ==
  ASSUME NEW S, NEW s \in Seq(S), NEW getKey, NEW getValue
  PROVE  ListToGetterMap(s, getKey, getValue)
           = [k \in Keys(s, getKey, Len(s)) |-> getValue[s[LastOf(s, getKey, k, Len(s))]]]
<1> DEFINE loop[n \in 0..Len(s)] == IF n = 0 THEN <<>> ELSE Put(loop[n - 1], getKey[s[n]], getValue[s[n]])
           done == [n \in 0..Len(s) |-> [k \in Keys(s, getKey, n) |-> getValue[s[LastOf(s, getKey, k, n)]]]]
<1>1. ListToGetterMap(s, getKey, getValue) = loop[Len(s)]
  BY DEF ListToGetterMap
<1>2. Len(s) \in Nat
  OBVIOUS
<1>3. done[0] = <<>>
  <2>1. Keys(s, getKey, 0) = {} /\ 0 \in 0..Len(s)
    BY <1>2 DEF Keys
  <2>2. done[0] = [k \in {} |-> getValue[s[LastOf(s, getKey, k, 0)]]]
    BY <2>1
  <2> QED
    BY <2>2
<1>4. ASSUME NEW n \in 1..Len(s) PROVE done[n] = Put(done[n - 1], getKey[s[n]], getValue[s[n]])
  <2> DEFINE key == getKey[s[n]]
             before == [k \in Keys(s, getKey, n - 1) |-> getValue[s[LastOf(s, getKey, k, n - 1)]]]
             after == [k \in Keys(s, getKey, n) |-> getValue[s[LastOf(s, getKey, k, n)]]]
  <2>1. n \in 0..Len(s) /\ n - 1 \in 0..Len(s) /\ n \in Nat /\ n - 1 \in Nat
    BY <1>2
  <2>2. done[n] = after /\ done[n - 1] = before
    BY <2>1
  <2>3. \A j : j \in 1..n <=> j \in 1..(n - 1) \/ j = n
    BY <2>1
  <2>4. Keys(s, getKey, n) = Keys(s, getKey, n - 1) \cup {key}
    BY <2>3 DEF Keys
  <2>5. LastOf(s, getKey, key, n) = n
    <3>1. IsLast(s, getKey, key, n, n)
      BY <2>1 DEF IsLast
    <3> QED
      BY <2>1, <3>1, LastUnique
  <2>6. ASSUME NEW k \in Keys(s, getKey, n - 1), k # key
        PROVE  LastOf(s, getKey, k, n) = LastOf(s, getKey, k, n - 1)
    <3> DEFINE i == LastOf(s, getKey, k, n - 1)
    <3>1. IsLast(s, getKey, k, n - 1, i)
      BY <2>1, LastExists
    <3> HIDE DEF i
    <3>2. \A j \in (i + 1)..n : j \in (i + 1)..(n - 1) \/ j = n
      BY <2>1, <3>1 DEF IsLast
    <3>3. i \in 1..n
      BY <2>3, <3>1 DEF IsLast
    <3>4. IsLast(s, getKey, k, n, i)
      BY <2>6, <3>1, <3>2, <3>3 DEF IsLast
    <3>5. LastOf(s, getKey, k, n) = i
      BY <2>1, <3>4, LastUnique
    <3> QED
      BY <3>5 DEF i
  <2>7. after = Put(before, key, getValue[s[n]])
    <3>1. DOMAIN before = Keys(s, getKey, n - 1)
      OBVIOUS
    <3>2. \A k \in Keys(s, getKey, n) :
            getValue[s[LastOf(s, getKey, k, n)]] = IF k = key THEN getValue[s[n]] ELSE before[k]
      BY <2>4, <2>5, <2>6
    <3> HIDE DEF key, before
    <3>3. after = [k \in Keys(s, getKey, n) |-> IF k = key THEN getValue[s[n]] ELSE before[k]]
      BY <3>2
    <3> QED
      BY <2>4, <3>1, <3>3 DEF Put
  <2> HIDE DEF before, after, done
  <2> QED
    BY <2>2, <2>7
<1>5. done = [n \in 0..Len(s) |-> done[n]]
  OBVIOUS
<1> HIDE DEF done
<1>6. done = [n \in 0..Len(s) |-> IF n = 0 THEN <<>> ELSE Put(done[n - 1], getKey[s[n]], getValue[s[n]])]
  <2>1. \A n \in 0..Len(s) : done[n] = IF n = 0 THEN <<>> ELSE Put(done[n - 1], getKey[s[n]], getValue[s[n]])
    <3>1. \A n \in 0..Len(s) : n = 0 \/ n \in 1..Len(s)
      BY <1>2
    <3> QED
      BY <1>3, <1>4, <3>1
  <2> QED
    BY <1>5, <2>1
<1>7. \E f : f = [n \in 0..Len(s) |-> IF n = 0 THEN <<>> ELSE Put(f[n - 1], getKey[s[n]], getValue[s[n]])]
  BY <1>6
<1>8. loop = [n \in 0..Len(s) |-> IF n = 0 THEN <<>> ELSE Put(loop[n - 1], getKey[s[n]], getValue[s[n]])]
  BY <1>7
<1> HIDE DEF loop
<1>9. Alike(loop, done, Len(s))
  <2>1. loop[0] = done[0]
    BY <1>2, <1>3, <1>8
  <2>2. ASSUME NEW n \in 1..Len(s), loop[n - 1] = done[n - 1] PROVE loop[n] = done[n]
    <3>1. n \in 0..Len(s) /\ n # 0
      BY <1>2
    <3>2. loop[n] = Put(loop[n - 1], getKey[s[n]], getValue[s[n]])
      BY <1>8, <3>1
    <3> QED
      BY <1>4, <2>2, <3>2
  <2> QED
    BY <2>1, <2>2 DEF Alike
<1>10. loop[Len(s)] = done[Len(s)]
  BY <1>2, <1>9, SameLoop
<1>11. done[Len(s)] = [k \in Keys(s, getKey, Len(s)) |-> getValue[s[LastOf(s, getKey, k, Len(s))]]]
  BY <1>2 DEF done
<1> QED
  BY <1>1, <1>10, <1>11

LEMMA CommonElements ==
  ASSUME NEW S, NEW lists \in Seq(Seq(S)), Len(lists) >= 1
  PROVE  CommonOf(lists) = {x \in S : \A i \in 1..Len(lists) : x \in ToSet(lists[i])}
<1> DEFINE rest == Tail(lists)
<1> DEFINE loop[n \in 0..Len(rest)] == IF n = 0 THEN ToSet(lists[1]) ELSE loop[n - 1] \cap ToSet(rest[n])
           done == [n \in 0..Len(rest) |-> {x \in ToSet(lists[1]) : \A j \in 1..n : x \in ToSet(rest[j])}]
<1>1. CommonOf(lists) = IF \E i \in 1..Len(rest) : rest[i] = <<>> THEN {} ELSE loop[Len(rest)]
  BY DEF CommonOf
<1>2. /\ Len(rest) \in Nat /\ Len(lists) = Len(rest) + 1
      /\ \A i \in 1..Len(rest) : rest[i] = lists[i + 1] /\ rest[i] \in Seq(S)
  OBVIOUS
<1>a. \A l \in Seq(S) : ToSet(l) \in SUBSET S
  BY DEF ToSet
<1>3. done[0] = ToSet(lists[1])
  <2>1. 0 \in 0..Len(rest) /\ 1..0 = {}
    BY <1>2
  <2>2. done[0] = {x \in ToSet(lists[1]) : \A j \in 1..0 : x \in ToSet(rest[j])}
    BY <2>1
  <2> HIDE DEF rest
  <2> QED
    BY <2>1, <2>2
<1>4. ASSUME NEW n \in 1..Len(rest) PROVE done[n] = done[n - 1] \cap ToSet(rest[n])
  <2>1. n \in 0..Len(rest) /\ n - 1 \in 0..Len(rest)
    BY <1>2
  <2>2. \A j : j \in 1..n <=> j \in 1..(n - 1) \/ j = n
    BY <2>1
  <2>3. /\ done[n] = {x \in ToSet(lists[1]) : \A j \in 1..n : x \in ToSet(rest[j])}
        /\ done[n - 1] = {x \in ToSet(lists[1]) : \A j \in 1..(n - 1) : x \in ToSet(rest[j])}
    BY <2>1
  <2> HIDE DEF done, rest
  <2> QED
    BY <2>2, <2>3
<1>5. done = [n \in 0..Len(rest) |-> done[n]]
  OBVIOUS
<1> HIDE DEF done
<1>6. done = [n \in 0..Len(rest) |-> IF n = 0 THEN ToSet(lists[1]) ELSE done[n - 1] \cap ToSet(rest[n])]
  <2>1. \A n \in 0..Len(rest) : done[n] = IF n = 0 THEN ToSet(lists[1]) ELSE done[n - 1] \cap ToSet(rest[n])
    <3>1. \A n \in 0..Len(rest) : n = 0 \/ n \in 1..Len(rest)
      BY <1>2
    <3> QED
      BY <1>3, <1>4, <3>1
  <2> QED
    BY <1>5, <2>1
<1>7. \E f : f = [n \in 0..Len(rest) |-> IF n = 0 THEN ToSet(lists[1]) ELSE f[n - 1] \cap ToSet(rest[n])]
  BY <1>6
<1>8. loop = [n \in 0..Len(rest) |-> IF n = 0 THEN ToSet(lists[1]) ELSE loop[n - 1] \cap ToSet(rest[n])]
  BY <1>7
<1> HIDE DEF loop
<1>9. Alike(loop, done, Len(rest))
  <2>1. loop[0] = done[0]
    BY <1>2, <1>3, <1>8
  <2>2. ASSUME NEW n \in 1..Len(rest), loop[n - 1] = done[n - 1] PROVE loop[n] = done[n]
    <3>1. n \in 0..Len(rest) /\ n # 0
      BY <1>2
    <3>2. loop[n] = loop[n - 1] \cap ToSet(rest[n])
      BY <1>8, <3>1
    <3> QED
      BY <1>4, <2>2, <3>2
  <2> QED
    BY <2>1, <2>2 DEF Alike
<1>10. loop[Len(rest)] = done[Len(rest)]
  BY <1>2, <1>9, SameLoop
<1>11. done[Len(rest)] = {x \in ToSet(lists[1]) : \A j \in 1..Len(rest) : x \in ToSet(rest[j])}
  BY <1>2 DEF done
<1>12. \A x : (\A i \in 1..Len(lists) : x \in ToSet(lists[i]))
              <=> x \in ToSet(lists[1]) /\ \A j \in 1..Len(rest) : x \in ToSet(rest[j])
  <2>1. \A i \in 1..Len(lists) : i # 1 => i - 1 \in 1..Len(rest) /\ rest[i - 1] = lists[i]
    <3> HIDE DEF rest
    <3>1. \A i \in 1..Len(lists) : i # 1 => i - 1 \in 1..Len(rest) /\ (i - 1) + 1 = i
      BY <1>2
    <3> QED
      BY <1>2, <3>1
  <2>2. 1 \in 1..Len(lists) /\ \A j \in 1..Len(rest) : j + 1 \in 1..Len(lists)
    BY <1>2
  <2> HIDE DEF rest
  <2> QED
    BY <1>2, <2>1, <2>2
<1>13. ToSet(lists[1]) \in SUBSET S
  BY <1>2, <1>a
<1> HIDE DEF rest
<1>14. CASE \E i \in 1..Len(rest) : rest[i] = <<>>
  <2>1. ToSet(<<>>) = {}
    BY DEF ToSet
  <2>2. \A x : ~(\A j \in 1..Len(rest) : x \in ToSet(rest[j]))
    BY <1>14, <2>1
  <2> QED
    BY <1>1, <1>12, <1>14, <2>2
<1>15. CASE ~(\E i \in 1..Len(rest) : rest[i] = <<>>)
  BY <1>1, <1>10, <1>11, <1>12, <1>13, <1>15
<1> QED
  BY <1>14, <1>15
-----------------------------------------------------------------------------
(* Collection: sorting *)

LEMMA SortFuncSorts ==
  ASSUME NEW S, S \subseteq Nat, NEW s \in Seq(S)
  PROVE  /\ SortFunc(s) \in Seq(S) /\ Len(SortFunc(s)) = Len(s)
         /\ ToSet(SortFunc(s)) = ToSet(s)
         /\ \A n, m \in 1..Len(s) : n < m =>
              \E i, j \in 1..Len(s) : /\ i # j /\ s[i] <= s[j]
                                      /\ SortFunc(s)[n] = s[i] /\ SortFunc(s)[m] = s[j]
<1> DEFINE N == Len(s)
           D == 1..N
           UpTo(i) == {j \in D : s[j] < s[i] \/ (s[j] = s[i] /\ j <= i)}
           below == [i \in D |-> UpTo(i)]
           At_(n) == CHOOSE i \in D : Cardinality(UpTo(i)) = n
<1>1. N \in Nat /\ \A i \in D : s[i] \in Nat /\ s[i] \in S
  <2>1. \A x \in S : x \in Nat
    OBVIOUS
  <2>2. \A i \in 1..Len(s) : s[i] \in S
    OBVIOUS
  <2>3. \A i \in 1..Len(s) : s[i] \in Nat
    BY <2>1, <2>2
  <2>4. Len(s) \in Nat
    OBVIOUS
  <2> QED
    BY <2>2, <2>3, <2>4
<1>2. IsFiniteSet(D) /\ Cardinality(D) = N
  <2> HIDE DEF N
  <2> QED
    BY <1>1, FS_Interval
<1>5. SortFunc(s) = [n \in D |-> s[At_(n)]]
  BY DEF SortFunc
<1>3. /\ below \in [D -> SUBSET D] /\ \A i \in D : below[i] = UpTo(i)
      /\ \A i, j \in D : j \in below[i] <=> s[j] < s[i] \/ (s[j] = s[i] /\ j <= i)
  OBVIOUS
<1> HIDE DEF below, UpTo
<1>4. Numbers(D, below)
  <2>1. \A i \in D : i \in below[i]
    BY <1>3
  <2>2. ASSUME NEW i \in D, NEW j \in D, i # j
        PROVE  \/ below[i] \subseteq below[j] /\ j \notin below[i]
               \/ below[j] \subseteq below[i] /\ i \notin below[j]
    <3>1. s[i] \in Nat /\ s[j] \in Nat /\ i \in Nat /\ j \in Nat /\ \A k \in D : s[k] \in Nat /\ k \in Nat
      BY <1>1
    <3>2. CASE s[i] < s[j] \/ (s[i] = s[j] /\ i < j)
      <4>1. j \notin below[i]
        BY <1>3, <3>1, <3>2
      <4>2. \A k \in D : k \in below[i] => k \in below[j]
        BY <1>3, <3>1, <3>2
      <4> QED
        BY <1>3, <4>1, <4>2
    <3>3. CASE s[j] < s[i] \/ (s[i] = s[j] /\ j < i)
      <4>1. i \notin below[j]
        BY <1>3, <3>1, <3>3
      <4>2. \A k \in D : k \in below[j] => k \in below[i]
        BY <1>3, <3>1, <3>3
      <4> QED
        BY <1>3, <4>1, <4>2
    <3> QED
      BY <2>2, <3>1, <3>2, <3>3
  <2> HIDE DEF D
  <2>3. Ordered(D, below)
    BY <1>3, <2>1, <2>2 DEF Ordered
  <2> QED
    BY <1>2, <2>3, Places
<1>6. \A n \in D : At_(n) \in D /\ Cardinality(below[At_(n)]) = n
  <2>1. \A n \in D : \E i \in D : Cardinality(below[i]) = n
    BY <1>2, <1>4 DEF Numbers
  <2>2. \A n \in D : \E i \in D : Cardinality(UpTo(i)) = n
    BY <1>3, <2>1
  <2>3. \A n \in D : At_(n) \in D /\ Cardinality(UpTo(At_(n))) = n
    BY <2>2
  <2> QED
    BY <1>3, <2>3
<1> HIDE DEF At_
<1>7. \A n \in D : SortFunc(s)[n] = s[At_(n)] /\ s[At_(n)] \in S
  BY <1>1, <1>5, <1>6
<1>8. SortFunc(s) \in Seq(S) /\ Len(SortFunc(s)) = N
  <2>1. SortFunc(s) \in [1..N -> S]
    BY <1>5, <1>7
  <2> QED
    BY <1>1, <2>1
<1>9. \A i \in D : Cardinality(below[i]) \in D /\ At_(Cardinality(below[i])) = i
  BY <1>2, <1>4, <1>6 DEF Numbers
<1>10. ToSet(SortFunc(s)) = ToSet(s)
  <2>1. DOMAIN SortFunc(s) = D /\ DOMAIN s = D
    BY <1>5
  <2> HIDE DEF D
  <2>2. \A n \in D : \E i \in D : SortFunc(s)[n] = s[i]
    BY <1>6, <1>7
  <2>3. \A i \in D : \E n \in D : SortFunc(s)[n] = s[i]
    BY <1>7, <1>9
  <2> QED
    BY <2>1, <2>2, <2>3 DEF ToSet
<1>11. ASSUME NEW n \in D, NEW m \in D, n < m
       PROVE  \E i, j \in D : /\ i # j /\ s[i] <= s[j]
                              /\ SortFunc(s)[n] = s[i] /\ SortFunc(s)[m] = s[j]
  <2> DEFINE i == At_(n)
             j == At_(m)
  <2>1. i \in D /\ j \in D /\ Cardinality(below[i]) = n /\ Cardinality(below[j]) = m
    BY <1>6
  <2>2. SortFunc(s)[n] = s[i] /\ SortFunc(s)[m] = s[j]
    BY <1>7
  <2> HIDE DEF i, j
  <2>3. i # j /\ ~(m < n)
    BY <1>11, <2>1
  <2>4. i \in below[j]
    BY <1>4, <2>1, <2>3 DEF Numbers
  <2>5. s[i] <= s[j]
    BY <1>1, <1>3, <2>1, <2>4
  <2> QED
    BY <2>1, <2>2, <2>3, <2>5
<1> QED
  BY <1>8, <1>10, <1>11

\* What CompactFunc makes of a sorted slice.
LEMMA CompactFuncCompacts ==
  ASSUME NEW S, S \subseteq Nat, 0 \in S, NEW s \in Seq(S), \A i, j \in 1..Len(s) : i < j => s[i] <= s[j]
  PROVE  /\ CompactFunc(s).kept \in Seq(S) /\ CompactFunc(s).array \in Seq(S)
         /\ Len(CompactFunc(s).kept) <= Len(s) /\ Len(CompactFunc(s).array) = Len(s)
         /\ Increasing(CompactFunc(s).kept)
         /\ ToSet(CompactFunc(s).kept) = ToSet(s)
<1> DEFINE I == {i \in 1..Len(s) : i > 1 => s[i] # s[i - 1]}
           kept == At(s, I)
           zeros == [i \in 1..(Len(s) - Len(kept)) |-> 0]
<1>1. CompactFunc(s).kept = kept /\ CompactFunc(s).array = kept \o zeros
  BY DEF CompactFunc
<1>2. I \in SUBSET (1..Len(s)) /\ Len(s) \in Nat /\ \A i \in 1..Len(s) : s[i] \in Nat
  <2>1. \A x \in S : x \in Nat
    OBVIOUS
  <2>2. \A i \in 1..Len(s) : s[i] \in S
    OBVIOUS
  <2>3. \A i \in 1..Len(s) : s[i] \in Nat
    BY <2>1, <2>2
  <2>4. Len(s) \in Nat
    OBVIOUS
  <2> QED
    BY <2>2, <2>3, <2>4
<1>2a. \A i \in 1..Len(s) : i \in I <=> (i > 1 => s[i] # s[i - 1])
  OBVIOUS
<1>3. /\ Cardinality(I) \in 0..Len(s) /\ kept \in Seq(S) /\ Len(kept) = Cardinality(I)
      /\ \A i \in I : Place(I, i) \in 1..Cardinality(I) /\ kept[Place(I, i)] = s[i]
      /\ \A n \in 1..Cardinality(I) : \E i \in I : Place(I, i) = n /\ kept[n] = s[i]
      /\ \A i, j \in I : i < j <=> Place(I, i) < Place(I, j)
  <2> HIDE DEF I
  <2> QED
    BY <1>2, AtProperties
<1>4. zeros \in Seq(S) /\ Len(zeros) = Len(s) - Len(kept)
  <2> DEFINE d == Len(s) - Len(kept)
  <2>1. d \in Nat
    BY <1>2, <1>3
  <2> HIDE DEF d
  <2>2. [i \in 1..d |-> 0] \in Seq(S) /\ Len([i \in 1..d |-> 0]) = d
    BY <2>1
  <2> QED
    BY <2>2 DEF d
<1> HIDE DEF I, kept, zeros
<1>5. kept \o zeros \in Seq(S) /\ Len(kept \o zeros) = Len(s)
  <2>1. Len(kept) \in Int /\ Len(s) \in Int
    BY <1>2, <1>3
  <2>2. kept \o zeros \in Seq(S) /\ Len(kept \o zeros) = Len(kept) + Len(zeros)
    <3>1. kept \in Seq(S) /\ zeros \in Seq(S)
      BY <1>3, <1>4
    <3> QED
      BY <3>1
  <2> QED
    BY <1>4, <2>1, <2>2
<1>6. \A i, j \in I : i < j => s[i] < s[j]
  <2> SUFFICES ASSUME NEW i \in I, NEW j \in I, i < j PROVE s[i] < s[j]
    OBVIOUS
  <2>1. i \in 1..Len(s) /\ j \in 1..Len(s) /\ j - 1 \in 1..Len(s) /\ j > 1 /\ (i = j - 1 \/ i < j - 1) /\ j - 1 < j
    BY <1>2
  <2>2. s[j] # s[j - 1]
    BY <1>2a, <2>1
  <2>3. s[i] <= s[j - 1] /\ s[j - 1] <= s[j]
    BY <1>2, <2>1
  <2>4. s[i] \in Nat /\ s[j] \in Nat /\ s[j - 1] \in Nat
    BY <1>2, <2>1
  <2> QED
    BY <2>2, <2>3, <2>4
<1>7. Increasing(kept)
  <2> SUFFICES ASSUME NEW n \in 1..Cardinality(I), NEW m \in 1..Cardinality(I), n < m PROVE kept[n] < kept[m]
    BY <1>3 DEF Increasing
  <2>1. PICK i \in I : Place(I, i) = n /\ kept[n] = s[i]
    BY <1>3
  <2>2. PICK j \in I : Place(I, j) = m /\ kept[m] = s[j]
    BY <1>3
  <2>3. i < j
    BY <1>3, <2>1, <2>2
  <2> QED
    BY <1>6, <2>1, <2>2, <2>3
<1>8. ToSet(kept) = ToSet(s)
  <2>1. DOMAIN kept = 1..Cardinality(I) /\ DOMAIN s = 1..Len(s)
    BY <1>2, <1>3
  <2>2. \A n \in 1..Cardinality(I) : \E i \in 1..Len(s) : kept[n] = s[i]
    BY <1>2, <1>3
  <2>3. ASSUME NEW i \in 1..Len(s) PROVE \E n \in 1..Cardinality(I) : kept[n] = s[i]
    <3> DEFINE B == {k \in 1..Len(s) : s[k] = s[i]}
    <3>1. B \subseteq Nat /\ B # {}
      OBVIOUS
    <3>2. PICK m \in B : \A k \in B : m <= k
      <4> HIDE DEF B
      <4> QED
        BY <3>1, LeastNumber
    <3>3. m \in 1..Len(s) /\ s[m] = s[i]
      OBVIOUS
    <3>4. ASSUME m > 1, s[m] = s[m - 1] PROVE FALSE
      <4>1. m - 1 \in B /\ ~(m <= m - 1)
        BY <1>2, <3>3, <3>4
      <4> QED
        BY <3>2, <4>1
    <3>5. m \in I
      BY <1>2a, <3>3, <3>4
    <3> QED
      BY <1>3, <3>3, <3>5
  <2>4. ToSet(kept) \subseteq ToSet(s)
    BY <2>1, <2>2 DEF ToSet
  <2>5. ToSet(s) \subseteq ToSet(kept)
    BY <2>1, <2>3 DEF ToSet
  <2> QED
    BY <2>4, <2>5
<1> QED
  BY <1>1, <1>3, <1>5, <1>7, <1>8

\* Any order in which the elements of a finite set leave a map.
LEMMA SetToSeqsEnumerates ==
  ASSUME NEW S, IsFiniteSet(S), NEW out \in SetToSeqs(S)
  PROVE  /\ out \in Seq(S) /\ Len(out) = Cardinality(S) /\ ToSet(out) = S
         /\ \A i, j \in 1..Len(out) : i # j => out[i] # out[j]
<1> DEFINE D == 1..Cardinality(S)
<1>1. Cardinality(S) \in Nat
  BY FS_CardinalityType
<1>2. out \in [D -> S] /\ \A i, j \in D : i # j => out[i] # out[j]
  BY DEF SetToSeqs
<1>3. IsFiniteSet(D) /\ Cardinality(D) = Cardinality(S)
  BY <1>1, FS_Interval
<1>4. out \in Seq(S) /\ Len(out) = Cardinality(S)
  BY <1>1, <1>2
<1>5. \A x \in S : \E i \in D : out[i] = x
  <2> HIDE DEF D
  <2>1. out \in Injection(D, S)
    BY <1>2 DEF Injection, IsInjective
  <2>2. out \in Surjection(D, S)
    BY <1>3, <2>1, FS_Injection
  <2> QED
    BY <2>2 DEF Surjection
<1>6. ToSet(out) = S
  <2> HIDE DEF D
  <2> QED
    BY <1>2, <1>5 DEF ToSet
<1> QED
  BY <1>2, <1>4, <1>6
-----------------------------------------------------------------------------
(* Collection: what the calls return *)

LEMMA CallerFunctions ==
  /\ Elems \subseteq Nat /\ 0 \in Elems
  /\ Key \in [Elems -> Elems] /\ ThisElem \in [Elems -> Elems] /\ Odd \in [Elems -> BOOLEAN]
  /\ \A e \in Elems : ThisElem[e] = e
  /\ Halve \in [Elems -> [item : Elems, ok : BOOLEAN]]
  /\ \A e \in Elems : Halve[e].ok = ~Odd[e]
  /\ \A e \in Elems : ~Odd[e] => 2 * Halve[e].item = e
<1>1. Elems \subseteq Nat /\ 0 \in Elems /\ \A e \in Elems : e \div 2 \in Elems
  BY CollectionAssumption
<1>2. \A e \in Elems : e \in Nat
  BY <1>1
<1>3. Key \in [Elems -> Elems] /\ ThisElem \in [Elems -> Elems] /\ Odd \in [Elems -> BOOLEAN]
      /\ \A e \in Elems : ThisElem[e] = e
  BY <1>1 DEF Key, ThisElem, Odd
<1>4. \A e \in Elems : Halve[e].item = e \div 2 /\ Halve[e].ok = ~Odd[e]
  <2>1. ASSUME NEW e \in Elems PROVE Halve[e].item = e \div 2 /\ Halve[e].ok = ~Odd[e]
    <3> DEFINE h == e \div 2
               o == ~Odd[e]
    <3>1. Halve[e] = [item |-> h, ok |-> o]
      BY DEF Halve
    <3> HIDE DEF h, o
    <3>2. Halve[e].item = h /\ Halve[e].ok = o
      BY <3>1
    <3> QED
      BY <3>2 DEF h, o
  <2> QED
    BY <2>1
<1>5. Halve \in [Elems -> [item : Elems, ok : BOOLEAN]]
  <2>1. \A e \in Elems : Odd[e] \in BOOLEAN
    BY <1>3
  <2>2. \A e \in Elems : [item |-> e \div 2, ok |-> ~Odd[e]] \in [item : Elems, ok : BOOLEAN]
    BY <1>1, <2>1
  <2> QED
    BY <2>2 DEF Halve
<1>6. ASSUME NEW e \in Elems, ~Odd[e] PROVE 2 * Halve[e].item = e
  <2>1. e \in Nat /\ e % 2 # 1
    BY <1>2, <1>6 DEF Odd
  <2>2. 2 * (e \div 2) = e
    BY <2>1
  <2> QED
    BY <1>4, <2>2
<1>7. \A e \in Elems : Halve[e].ok = ~Odd[e]
  BY <1>4
<1> QED
  BY <1>1, <1>3, <1>5, <1>6, <1>7

\* The functions whose results the comments describe further than their names.
Described ==
  {"DeduplicateSlice", "DeduplicateSliceAndRemove", "DeduplicateSliceOfObject", "DeduplicateAndSortSlice",
   "DeduplicateAndSortSliceOfObject", "FilterSlice", "MapAndFilterSlice", "ReduceSlice",
   "ReduceSliceWithCondition", "ListToMap", "ListToGetterMap", "GetCommonElements", "Union", "Intersect"}

LEMMA NotDescribed ==
  ASSUME NEW op, NEW given, NEW out, op \notin Described PROVE Documented(op, given, out)
BY DEF Described, Documented

LEMMA DeduplicatedFirst ==
  ASSUME NEW s \in Seq(Elems), NEW getKey
  PROVE  DeduplicateBy(s, getKey, {})
           = At(s, {i \in 1..Len(s) : \A j \in 1..(i - 1) : getKey[s[j]] # getKey[s[i]]})
<1>1. {i \in 1..Len(s) : /\ s[i] \notin {}
                         /\ \A j \in 1..(i - 1) : s[j] \notin {} => getKey[s[j]] # getKey[s[i]]}
        = {i \in 1..Len(s) : \A j \in 1..(i - 1) : getKey[s[j]] # getKey[s[i]]}
  OBVIOUS
<1>2. DeduplicateBy(s, getKey, {})
        = At(s, {i \in 1..Len(s) : /\ s[i] \notin {}
                                   /\ \A j \in 1..(i - 1) : s[j] \notin {} => getKey[s[j]] # getKey[s[i]]})
  BY DeduplicateByKeepsFirst
<1> QED
  BY <1>1, <1>2

LEMMA DeduplicateDocumented ==
  ASSUME NEW s \in Seq(Elems)
  PROVE  /\ Documented("DeduplicateSlice", <<s>>, DeduplicateSlice(s)) /\ DeduplicateSlice(s) \in Seq(Elems)
         /\ Documented("DeduplicateSliceOfObject", <<s>>, DeduplicateSliceOfObject(s))
         /\ DeduplicateSliceOfObject(s) \in Seq(Elems)
<1> DEFINE First(getKey) == {i \in 1..Len(s) : \A j \in 1..(i - 1) : getKey[s[j]] # getKey[s[i]]}
<1>1. DeduplicateSlice(s) = At(s, First(ThisElem)) /\ DeduplicateSliceOfObject(s) = At(s, First(Key))
  BY DeduplicatedFirst DEF DeduplicateSlice, DeduplicateSliceOfObject
<1>2. Documented("DeduplicateSlice", <<s>>, DeduplicateSlice(s))
  BY <1>1 DEF Documented
<1>3. Documented("DeduplicateSliceOfObject", <<s>>, DeduplicateSliceOfObject(s))
  BY <1>1 DEF Documented
<1>4. First(ThisElem) \in SUBSET (1..Len(s)) /\ First(Key) \in SUBSET (1..Len(s))
  OBVIOUS
<1> HIDE DEF First
<1>5. At(s, First(ThisElem)) \in Seq(Elems) /\ At(s, First(Key)) \in Seq(Elems)
  BY <1>4, AtProperties
<1> QED
  BY <1>1, <1>2, <1>3, <1>5

LEMMA RemoveDocumented ==
  ASSUME NEW s \in Seq(Elems), NEW toRemove
  PROVE  /\ Documented("DeduplicateSliceAndRemove", <<s, toRemove>>, DeduplicateSliceAndRemove(s, toRemove))
         /\ DeduplicateSliceAndRemove(s, toRemove) \in Seq(Elems)
<1> DEFINE X == ToSet(toRemove)
           First == {i \in 1..Len(s) : \A j \in 1..(i - 1) : ThisElem[s[j]] # ThisElem[s[i]]}
           I == {i \in First : s[i] \notin X}
           K == {i \in 1..Len(s) : /\ s[i] \notin X
                                   /\ \A j \in 1..(i - 1) : s[j] \notin X => ThisElem[s[j]] # ThisElem[s[i]]}
<1>1. DeduplicateSliceAndRemove(s, toRemove) = At(s, K)
  BY DeduplicateByKeepsFirst DEF DeduplicateSliceAndRemove
<1>2. K = I
  <2>1. \A i \in 1..Len(s) : ThisElem[s[i]] = s[i]
    BY CallerFunctions
  <2>2. \A i \in 1..Len(s) : \A j \in 1..(i - 1) : j \in 1..Len(s)
    OBVIOUS
  <2> HIDE DEF X
  <2> QED
    BY <2>1, <2>2
<1>3. I \in SUBSET (1..Len(s))
  OBVIOUS
<1>4. At(s, I) \in Seq(Elems)
  <2> HIDE DEF I
  <2> QED
    BY <1>3, AtProperties
<1>5. Documented("DeduplicateSliceAndRemove", <<s, toRemove>>, At(s, I))
  BY DEF Documented
<1> QED
  BY <1>1, <1>2, <1>4, <1>5

LEMMA FilterDocumented ==
  ASSUME NEW s \in Seq(Elems)
  PROVE  Documented("FilterSlice", <<s>>, FilterSlice(s, Odd)) /\ FilterSlice(s, Odd) \in Seq(Elems)
<1> DEFINE I == {i \in 1..Len(s) : Odd[s[i]]}
<1>1. FilterSlice(s, Odd) = At(s, I) /\ I \in SUBSET (1..Len(s))
  BY CallerFunctions, FilterSliceSelects
<1>2. Documented("FilterSlice", <<s>>, At(s, I))
  BY DEF Documented
<1> HIDE DEF I
<1> QED
  BY <1>1, <1>2, AtProperties

LEMMA MapAndFilterDocumented ==
  ASSUME NEW s \in Seq(Elems)
  PROVE  Documented("MapAndFilterSlice", <<s>>, MapAndFilterSlice(s, Halve)) /\ MapAndFilterSlice(s, Halve) \in Seq(Elems)
<1> DEFINE I == {i \in 1..Len(s) : ~Odd[s[i]]}
           K == {i \in 1..Len(s) : Halve[s[i]].ok}
           t == [i \in 1..Len(s) |-> Halve[s[i]].item]
           out == At(t, I)
           even == At(s, I)
<1>1. Len(s) \in Nat /\ \A i \in 1..Len(s) : s[i] \in Elems
  OBVIOUS
<1>2. K = I
  BY <1>1, CallerFunctions
<1>3. MapAndFilterSlice(s, Halve) = At(t, K)
  <2>1. Halve \in [Elems -> Mapped(Elems)]
    BY CallerFunctions DEF Mapped
  <2> QED
    BY <2>1, MapAndFilterSliceSelects
<1>4. t \in Seq(Elems) /\ Len(t) = Len(s) /\ \A i \in 1..Len(s) : t[i] = Halve[s[i]].item
  <2>1. \A i \in 1..Len(s) : Halve[s[i]] \in [item : Elems, ok : BOOLEAN]
    BY <1>1, CallerFunctions
  <2>2. \A i \in 1..Len(s) : Halve[s[i]].item \in Elems
    BY <2>1
  <2>3. t \in [1..Len(s) -> Elems]
    BY <2>2
  <2> QED
    BY <1>1, <2>3
<1>5. I \in SUBSET (1..Len(s)) /\ \A i \in I : ~Odd[s[i]] /\ i \in 1..Len(s)
  OBVIOUS
<1> HIDE DEF I, t, K
<1>6. /\ even \in Seq(Elems) /\ Len(even) = Cardinality(I)
      /\ \A n \in 1..Cardinality(I) : \E i \in I : Place(I, i) = n /\ even[n] = s[i]
  BY <1>5, AtProperties
<1>7. out \in Seq(Elems) /\ Len(out) = Cardinality(I) /\ \A i \in I : out[Place(I, i)] = t[i]
  BY <1>4, <1>5, AtProperties
<1> HIDE DEF out, even
<1>8. \A i \in 1..Len(even) : 2 * out[i] = even[i]
  <2> SUFFICES ASSUME NEW n \in 1..Cardinality(I) PROVE 2 * out[n] = even[n]
    BY <1>6
  <2>1. PICK i \in I : Place(I, i) = n /\ even[n] = s[i]
    BY <1>6
  <2>2. out[n] = Halve[s[i]].item
    BY <1>4, <1>5, <1>7, <2>1
  <2>3. s[i] \in Elems /\ ~Odd[s[i]]
    BY <1>1, <1>5
  <2>4. 2 * Halve[s[i]].item = s[i]
    BY <2>3, CallerFunctions
  <2> QED
    BY <2>1, <2>2, <2>4
<1>9. Documented("MapAndFilterSlice", <<s>>, out)
  BY <1>6, <1>7, <1>8 DEF Documented, even, I
<1> QED
  BY <1>2, <1>3, <1>7, <1>9 DEF out

LEMMA ReduceDocumented ==
  ASSUME NEW s \in Seq(Elems)
  PROVE  /\ Documented("ReduceSlice", <<s>>, ReduceSlice(s, <<>>))
         /\ Documented("ReduceSliceWithCondition", <<s>>, ReduceSliceWithCondition(s, <<>>))
<1>1. ReduceSlice(s, <<>>) = s
  BY ReduceSliceCopies
<1>2. ReduceSliceWithCondition(s, <<>>) = At(s, {i \in 1..Len(s) : \A j \in 1..(i - 1) : s[j] # 0})
  BY ReduceSliceStops
<1>3. Documented("ReduceSlice", <<s>>, s)
  BY DEF Documented
<1>4. Documented("ReduceSliceWithCondition", <<s>>, At(s, {i \in 1..Len(s) : \A j \in 1..(i - 1) : s[j] # 0}))
  BY DEF Documented
<1> QED
  BY <1>1, <1>2, <1>3, <1>4

LEMMA MapOfList ==
  ASSUME NEW s \in Seq(Elems), NEW getKey \in [Elems -> Elems], NEW getValue \in [Elems -> Elems],
         NEW m, m = ListToGetterMap(s, getKey, getValue)
  PROVE  /\ IsMapOf(m, s, getKey, getValue)
         /\ DOMAIN m = Keys(s, getKey, Len(s)) /\ DOMAIN m \in FiniteSubsetsOf(Elems) /\ m \in [DOMAIN m -> Elems]
         /\ \A k \in DOMAIN m : \E i \in 1..Len(s) : IsLast(s, getKey, k, Len(s), i) /\ m[k] = getValue[s[i]]
<1> DEFINE N == Len(s)
           K == Keys(s, getKey, N)
<1>1. N \in Nat /\ \A i \in 1..N : s[i] \in Elems /\ getKey[s[i]] \in Elems /\ getValue[s[i]] \in Elems
  OBVIOUS
<1>2. m = [k \in K |-> getValue[s[LastOf(s, getKey, k, N)]]]
  BY ListToGetterMapHasLast
<1>3. K = {getKey[s[i]] : i \in 1..N}
  BY DEF Keys
<1>4. K \in FiniteSubsetsOf(Elems)
  <2> DEFINE f == [i \in 1..N |-> getKey[s[i]]]
  <2>1. IsFiniteSet(1..N)
    BY <1>1, FS_Interval
  <2>2. f \in Surjection(1..N, K)
    BY <1>3 DEF Surjection
  <2>3. IsFiniteSet(K)
    <3> HIDE DEF f, K, N
    <3> QED
      BY <2>1, <2>2, FS_Surjection
  <2>4. K \in SUBSET Elems
    BY <1>1, <1>3
  <2> QED
    BY <2>3, <2>4 DEF FiniteSubsetsOf
<1> HIDE DEF N, K
<1>5. DOMAIN m = K /\ \A k \in K : m[k] = getValue[s[LastOf(s, getKey, k, N)]]
  BY <1>2
<1>6. \A k \in K : LastOf(s, getKey, k, N) \in 1..N /\ IsLast(s, getKey, k, N, LastOf(s, getKey, k, N))
  BY <1>1, LastExists DEF K, IsLast
<1>7. \A k \in K : \E i \in 1..N : IsLast(s, getKey, k, N, i) /\ m[k] = getValue[s[i]]
  BY <1>5, <1>6
<1>8. m \in [K -> Elems]
  <2>1. \A k \in K : getValue[s[LastOf(s, getKey, k, N)]] \in Elems
    BY <1>1, <1>6
  <2> QED
    BY <1>2, <2>1
<1>9. ASSUME NEW i \in 1..N, \A j \in (i + 1)..N : getKey[s[j]] # getKey[s[i]]
      PROVE  m[getKey[s[i]]] = getValue[s[i]]
  <2>1. IsLast(s, getKey, getKey[s[i]], N, i)
    BY <1>9 DEF IsLast
  <2>2. LastOf(s, getKey, getKey[s[i]], N) = i
    BY <1>1, <2>1, LastUnique
  <2>3. getKey[s[i]] \in K
    BY <1>3
  <2> QED
    BY <1>5, <2>2, <2>3
<1>10. IsMapOf(m, s, getKey, getValue)
  BY <1>3, <1>5, <1>9 DEF IsMapOf, N
<1> QED
  BY <1>4, <1>5, <1>7, <1>8, <1>10 DEF K, N

LEMMA MapsDocumented ==
  ASSUME NEW s \in Seq(Elems)
  PROVE  /\ Documented("ListToMap", <<s>>, ListToMap(s))
         /\ Documented("ListToGetterMap", <<s>>, ListToGetterMap(s, ThisElem, Key))
<1>1. IsMapOf(ListToMap(s), s, Key, ThisElem) /\ IsMapOf(ListToGetterMap(s, ThisElem, Key), s, ThisElem, Key)
  BY CallerFunctions, MapOfList DEF ListToMap
<1>2. Documented("ListToMap", <<s>>, ListToMap(s))
  BY <1>1 DEF Documented
<1>3. Documented("ListToGetterMap", <<s>>, ListToGetterMap(s, ThisElem, Key))
  BY <1>1 DEF Documented
<1> QED
  BY <1>2, <1>3

LEMMA SortObjectsDocumented ==
  ASSUME NEW s \in Seq(Elems), NEW keys \in SetToSeqs(DOMAIN ListToMap(s)),
         NEW out, out = DeduplicateAndSortSliceOfObject(s, keys)
  PROVE  Documented("DeduplicateAndSortSliceOfObject", <<s>>, out) /\ out \in Seq(Elems)
<1> DEFINE m == ListToMap(s)
           K == DOMAIN m
           sorted == SortFunc(keys)
           N == Len(sorted)
           Latest == {i \in 1..Len(s) : \A j \in (i + 1)..Len(s) : Key[s[j]] # Key[s[i]]}
<1>1. /\ IsMapOf(m, s, Key, ThisElem) /\ K \in FiniteSubsetsOf(Elems) /\ m \in [K -> Elems]
      /\ \A k \in K : \E i \in 1..Len(s) : IsLast(s, Key, k, Len(s), i) /\ m[k] = ThisElem[s[i]]
  <2>1. Key \in [Elems -> Elems] /\ ThisElem \in [Elems -> Elems]
    BY CallerFunctions
  <2>2. m = ListToGetterMap(s, Key, ThisElem)
    BY DEF ListToMap
  <2> HIDE DEF m
  <2> QED
    BY <2>1, <2>2, MapOfList
<1>2. out = MapSlice(sorted, m)
  BY DEF DeduplicateAndSortSliceOfObject
<1>3. keys \in SetToSeqs(K)
  OBVIOUS
<1>4. \A i \in 1..Len(s) : s[i] \in Elems /\ ThisElem[s[i]] = s[i]
  BY CallerFunctions
<1>5. Len(s) \in Nat /\ DOMAIN s = 1..Len(s)
  OBVIOUS
<1>6. \A i : i \in Latest <=> i \in 1..Len(s) /\ \A j \in (i + 1)..Len(s) : Key[s[j]] # Key[s[i]]
  OBVIOUS
<1> HIDE DEF m, K, sorted, Latest
<1>7. IsFiniteSet(K) /\ K \subseteq Elems /\ K \subseteq Nat
  BY <1>1, CallerFunctions DEF FiniteSubsetsOf
<1>8. /\ keys \in Seq(K) /\ ToSet(keys) = K
      /\ \A i, j \in 1..Len(keys) : i # j => keys[i] # keys[j]
  BY <1>3, <1>7, SetToSeqsEnumerates
<1>9. /\ sorted \in Seq(K) /\ N = Len(keys) /\ ToSet(sorted) = K
      /\ \A n, j \in 1..Len(keys) : n < j =>
           \E i, l \in 1..Len(keys) : i # l /\ keys[i] <= keys[l] /\ sorted[n] = keys[i] /\ sorted[j] = keys[l]
  <2>1. /\ SortFunc(keys) \in Seq(K) /\ Len(SortFunc(keys)) = Len(keys) /\ ToSet(SortFunc(keys)) = ToSet(keys)
        /\ \A n, j \in 1..Len(keys) : n < j =>
             \E i, l \in 1..Len(keys) : /\ i # l /\ keys[i] <= keys[l]
                                        /\ SortFunc(keys)[n] = keys[i] /\ SortFunc(keys)[j] = keys[l]
    <3> HIDE DEF K, N
    <3>1. K \subseteq Nat /\ keys \in Seq(K)
      BY <1>7, <1>8
    <3> QED
      BY ONLY <3>1, SortFuncSorts
  <2> QED
    BY <1>8, <2>1 DEF sorted
<1>10. N \in Nat /\ \A n \in 1..N : sorted[n] \in K
  BY <1>9
<1>11. ASSUME NEW n \in 1..N, NEW j \in 1..N, n < j PROVE sorted[n] < sorted[j]
  <2>1. PICK i \in 1..Len(keys), l \in 1..Len(keys) :
          i # l /\ keys[i] <= keys[l] /\ sorted[n] = keys[i] /\ sorted[j] = keys[l]
    BY <1>9, <1>11
  <2>2. sorted[n] # sorted[j] /\ sorted[n] <= sorted[j]
    BY <1>8, <2>1
  <2>3. sorted[n] \in Nat /\ sorted[j] \in Nat
    BY <1>7, <1>10
  <2> QED
    BY <2>2, <2>3
<1> HIDE DEF N
<1>12. /\ out = [n \in 1..N |-> m[sorted[n]]]
       /\ \A n \in 1..N : out[n] = m[sorted[n]] /\ out[n] \in Elems
  BY <1>1, <1>2, <1>10 DEF MapSlice, N
<1>13. out \in Seq(Elems) /\ Len(out) = N
  <2>1. out \in [1..N -> Elems]
    BY <1>12
  <2> QED
    BY <1>10, <2>1
<1>14. \A k \in K : \E i \in Latest : Key[s[i]] = k /\ m[k] = s[i]
  <2> SUFFICES ASSUME NEW k \in K PROVE \E i \in Latest : Key[s[i]] = k /\ m[k] = s[i]
    OBVIOUS
  <2>1. PICK i \in 1..Len(s) : IsLast(s, Key, k, Len(s), i) /\ m[k] = ThisElem[s[i]]
    BY <1>1
  <2>2. i \in Latest /\ Key[s[i]] = k
    BY <1>6, <2>1 DEF IsLast
  <2> QED
    BY <1>4, <2>1, <2>2
<1>15. Increasing(MapSlice(out, Key))
  <2>1. \A n \in 1..N : Key[out[n]] = sorted[n]
    BY <1>10, <1>12, <1>14
  <2>2. MapSlice(out, Key) = [n \in 1..N |-> sorted[n]]
    BY <1>13, <2>1 DEF MapSlice
  <2>3. Len(MapSlice(out, Key)) = N /\ \A n \in 1..N : MapSlice(out, Key)[n] = sorted[n]
    BY <1>10, <2>2
  <2> QED
    BY <1>11, <2>3 DEF Increasing
<1>16. ToSet(out) = {s[i] : i \in Latest}
  <2>1. DOMAIN out = 1..N /\ DOMAIN sorted = 1..N
    BY <1>9, <1>12 DEF N
  <2>2. ASSUME NEW n \in 1..N PROVE \E i \in Latest : out[n] = s[i]
    BY <1>10, <1>12, <1>14
  <2>3. ASSUME NEW i \in Latest PROVE \E n \in 1..N : out[n] = s[i]
    <3>1. i \in 1..Len(s) /\ \A j \in (i + 1)..Len(s) : Key[s[j]] # Key[s[i]]
      BY <1>6
    <3>2. Key[s[i]] \in K /\ m[Key[s[i]]] = s[i]
      BY <1>1, <1>4, <3>1 DEF IsMapOf, K
    <3>3. PICK n \in 1..N : sorted[n] = Key[s[i]]
      BY <1>9, <2>1, <3>2 DEF ToSet
    <3> QED
      BY <1>12, <3>2, <3>3
  <2>4. ToSet(out) \subseteq {s[i] : i \in Latest}
    BY <2>1, <2>2 DEF ToSet
  <2>5. {s[i] : i \in Latest} \subseteq ToSet(out)
    BY <2>1, <2>3 DEF ToSet
  <2> QED
    BY <2>4, <2>5
<1>17. Documented("DeduplicateAndSortSliceOfObject", <<s>>, out)
  BY <1>15, <1>16 DEF Documented, Latest
<1> QED
  BY <1>13, <1>17

LEMMA SortDocumented ==
  ASSUME NEW s \in Seq(Elems), NEW done, done = CompactFunc(SortFunc(s))
  PROVE  /\ Documented("DeduplicateAndSortSlice", <<s>>, done.kept)
         /\ done.kept \in Seq(Elems) /\ done.array \in Seq(Elems)
         /\ Len(done.kept) <= Len(s) /\ Len(done.array) = Len(s)
<1> DEFINE sorted == SortFunc(s)
<1>1. /\ sorted \in Seq(Elems) /\ Len(sorted) = Len(s) /\ ToSet(sorted) = ToSet(s)
      /\ \A n, j \in 1..Len(s) : n < j =>
           \E i, l \in 1..Len(s) : i # l /\ s[i] <= s[l] /\ sorted[n] = s[i] /\ sorted[j] = s[l]
  <2>1. Elems \subseteq Nat
    BY CallerFunctions
  <2>2. /\ SortFunc(s) \in Seq(Elems) /\ Len(SortFunc(s)) = Len(s) /\ ToSet(SortFunc(s)) = ToSet(s)
        /\ \A n, j \in 1..Len(s) : n < j =>
             \E i, l \in 1..Len(s) : /\ i # l /\ s[i] <= s[l]
                                     /\ SortFunc(s)[n] = s[i] /\ SortFunc(s)[j] = s[l]
    BY <2>1, SortFuncSorts
  <2> QED
    BY <2>2
<1> HIDE DEF sorted
<1>2. \A n, j \in 1..Len(sorted) : n < j => sorted[n] <= sorted[j]
  BY <1>1
<1>3. /\ CompactFunc(sorted).kept \in Seq(Elems) /\ CompactFunc(sorted).array \in Seq(Elems)
      /\ Len(CompactFunc(sorted).kept) <= Len(sorted) /\ Len(CompactFunc(sorted).array) = Len(sorted)
      /\ Increasing(CompactFunc(sorted).kept)
      /\ ToSet(CompactFunc(sorted).kept) = ToSet(sorted)
  BY <1>1, <1>2, CallerFunctions, CompactFuncCompacts
<1>4. done = CompactFunc(sorted)
  BY DEF sorted
<1>5. Documented("DeduplicateAndSortSlice", <<s>>, done.kept)
  BY <1>1, <1>3, <1>4 DEF Documented
<1> QED
  BY <1>1, <1>3, <1>4, <1>5

LEMMA LastCall ==
  ASSUME NEW op, NEW given, NEW out, Called(op, given, out), Documented(op, given, out)
  PROVE  ResultAsDocumented'
<1>1. last' = [op |-> op, given |-> given, out |-> out]
  BY DEF Called
<1>2. last'.op = op /\ last'.given = given /\ last'.out = out
  BY <1>1
<1>3. Documented(last'.op, last'.given, last'.out)
  BY <1>2
<1> QED
  BY <1>3 DEF ResultAsDocumented

LEMMA CommonDocumented ==
  ASSUME NEW lists \in Seq(Seq(Elems)), NEW out,
         \/ lists = <<>> /\ out = <<>>
         \/ Len(lists) = 1 /\ out = lists[1]
         \/ Len(lists) >= 2 /\ out \in SetToSeqs(CommonOf(lists))
  PROVE  Documented("GetCommonElements", lists, out) /\ out \in Seq(Elems)
<1> DEFINE Common == {x \in Elems : \A l \in ToSet(lists) : x \in ToSet(l)}
<1>1. /\ Len(lists) \in Nat /\ DOMAIN lists = 1..Len(lists)
      /\ \A i \in 1..Len(lists) : lists[i] \in Seq(Elems)
  OBVIOUS
<1>2. Common = {x \in Elems : \A i \in 1..Len(lists) : x \in ToSet(lists[i])}
  BY <1>1 DEF ToSet
<1>3. SUFFICES /\ out \in Seq(Elems)
               /\ lists # <<>> => ToSet(out) = Common
               /\ Len(lists) # 1 => Cardinality(ToSet(out)) = Len(out)
  BY DEF Documented
<1> HIDE DEF Common
<1>4. CASE lists = <<>> /\ out = <<>>
  <2>1. out \in Seq(Elems) /\ Len(out) = 0 /\ ToSet(out) = {}
    BY <1>4 DEF ToSet
  <2> QED
    BY <1>4, <2>1, FS_EmptySet
<1>5. CASE Len(lists) = 1 /\ out = lists[1]
  <2>1. out \in Seq(Elems)
    BY <1>1, <1>5
  <2>2. ToSet(out) \subseteq Elems
    BY <2>1 DEF ToSet
  <2>3. ToSet(out) = Common
    BY <1>2, <1>5, <2>2
  <2> QED
    BY <1>5, <2>1, <2>3
<1>6. CASE Len(lists) >= 2 /\ out \in SetToSeqs(CommonOf(lists))
  <2>1. CommonOf(lists) = Common
    BY <1>2, <1>6, CommonElements
  <2>2. Common \subseteq ToSet(lists[1]) /\ Common \subseteq Elems
    BY <1>2, <1>1, <1>6
  <2>3. IsFiniteSet(Common)
    <3>1. lists[1] \in Seq(Elems)
      BY <1>1, <1>6
    <3>2. lists[1] \in Surjection(1..Len(lists[1]), ToSet(lists[1])) /\ Len(lists[1]) \in Nat
      BY <3>1 DEF Surjection, ToSet
    <3>3. IsFiniteSet(ToSet(lists[1]))
      BY <3>2, FS_Interval, FS_Surjection
    <3> QED
      BY <2>2, <3>3, FS_Subset
  <2>4. out \in Seq(Common) /\ Len(out) = Cardinality(Common) /\ ToSet(out) = Common
    BY <1>6, <2>1, <2>3, SetToSeqsEnumerates
  <2>5. out \in Seq(Elems)
    BY <2>2, <2>4
  <2> QED
    BY <1>6, <2>4, <2>5
<1> QED
  BY <1>4, <1>5, <1>6

LEMMA SetsDocumented ==
  ASSUME NEW A, NEW B
  PROVE  /\ Documented("Union", <<A, B>>, A \cup B)
         /\ Documented("Intersect", <<A, B>>, {k \in A : k \in B})
<1>1. Documented("Union", <<A, B>>, A \cup B)
  BY DEF Documented
<1>2. Documented("Intersect", <<A, B>>, {k \in A : k \in B})
  BY DEF Documented
<1> QED
  BY <1>1, <1>2

Slices == [arr : Nat, len : Nat]

\* Every slice is a part of an array there is, and there are three of them.
SlicesOf(a, h) ==
  /\ a \in Seq(Seq(Elems)) /\ h \in Seq(Slices) /\ Len(h) >= 3
  /\ \A i \in 1..Len(h) : h[i].arr \in 1..Len(a) /\ h[i].len \in 0..Len(a[h[i].arr])

SlicesOK == SlicesOf(arrays, held)

\* Sets and the keys of the map are finite.
SetsOK ==
  /\ sets \in Seq(FiniteSubsetsOf(Elems))
  /\ DOMAIN dict \in FiniteSubsetsOf(Elems) /\ dict \in [DOMAIN dict -> Elems]

ResultsInv == SlicesOK /\ SetsOK /\ ResultAsDocumented

\* No array gets shorter, so that every slice stays one and a part of a new one joins them.
LEMMA SliceAdded ==
  ASSUME NEW a, NEW h, SlicesOf(a, h), NEW b \in Seq(Seq(Elems)), NEW x \in Slices,
         Len(b) >= Len(a), \A i \in 1..Len(a) : Len(b[i]) = Len(a[i]),
         x.arr \in 1..Len(b), x.len \in 0..Len(b[x.arr])
  PROVE  SlicesOf(b, Append(h, x))
<1> DEFINE g == Append(h, x)
<1>1. /\ a \in Seq(Seq(Elems)) /\ h \in Seq(Slices) /\ Len(h) >= 3
      /\ \A i \in 1..Len(h) : h[i].arr \in 1..Len(a) /\ h[i].len \in 0..Len(a[h[i].arr])
  BY DEF SlicesOf
<1>2. /\ g \in Seq(Slices) /\ Len(h) \in Nat /\ Len(g) = Len(h) + 1
      /\ g[Len(h) + 1] = x /\ \A i \in 1..Len(h) : g[i] = h[i]
  BY <1>1
<1> HIDE DEF g
<1>3. ASSUME NEW i \in 1..Len(g) PROVE g[i].arr \in 1..Len(b) /\ g[i].len \in 0..Len(b[g[i].arr])
  <2>1. CASE i \in 1..Len(h)
    <3>1. g[i] = h[i] /\ h[i].arr \in 1..Len(a) /\ h[i].len \in 0..Len(a[h[i].arr])
      BY <1>1, <1>2, <2>1
    <3>2. Len(b[h[i].arr]) = Len(a[h[i].arr])
      BY <3>1
    <3>3. Len(a) \in Nat /\ Len(b) \in Nat
      BY <1>1
    <3> QED
      BY <3>1, <3>2, <3>3
  <2>2. CASE i = Len(h) + 1
    BY <1>2, <2>2
  <2>3. i \in 1..Len(h) \/ i = Len(h) + 1
    BY <1>2
  <2> QED
    BY <2>1, <2>2, <2>3
<1>4. Len(g) >= 3
  BY <1>1, <1>2
<1>5. SlicesOf(b, g)
  BY <1>2, <1>3, <1>4 DEF SlicesOf
<1> QED
  BY <1>5 DEF g

LEMMA ResultsInitInv == CollectionInit => ResultsInv
<1> SUFFICES ASSUME CollectionInit PROVE ResultsInv
  OBVIOUS
<1>1. PICK c \in Contents : arrays = <<c, <<>> >>
  BY DEF CollectionInit
<1>2. c \in Seq(Elems) /\ Len(c) \in Nat
  BY CollectionAssumption
<1>3. /\ arrays \in Seq(Seq(Elems)) /\ Len(arrays) = 2 /\ arrays[1] = c /\ arrays[2] = <<>> /\ Len(<<>>) = 0
  BY <1>1, <1>2
<1>4. SlicesOK
  <2> DEFINE n == Len(c)
             h == Len(c) \div 2
  <2>1. held = <<[arr |-> 1, len |-> n], [arr |-> 1, len |-> h], [arr |-> 2, len |-> 0]>>
    BY <1>3 DEF CollectionInit
  <2>2. n \in Nat /\ h \in Nat /\ h <= n
    BY <1>2
  <2> HIDE DEF n, h
  <2>3. /\ [arr |-> 1, len |-> n] \in Slices /\ [arr |-> 1, len |-> h] \in Slices
        /\ [arr |-> 2, len |-> 0] \in Slices
    BY <2>2 DEF Slices
  <2>4. held \in Seq(Slices) /\ Len(held) = 3
    BY <2>1, <2>3
  <2>5. /\ held[1].arr = 1 /\ held[1].len = n /\ held[2].arr = 1 /\ held[2].len = h
        /\ held[3].arr = 2 /\ held[3].len = 0
    BY <2>1
  <2>6. Len(arrays[1]) = n /\ Len(arrays[2]) = 0
    BY <1>3 DEF n
  <2>7. ASSUME NEW i \in 1..Len(held)
        PROVE  held[i].arr \in 1..Len(arrays) /\ held[i].len \in 0..Len(arrays[held[i].arr])
    <3>1. i = 1 \/ i = 2 \/ i = 3
      BY <2>4
    <3> QED
      BY <1>3, <2>2, <2>5, <2>6, <3>1
  <2> QED
    BY <1>3, <2>4, <2>7 DEF SlicesOK, SlicesOf
<1>5. SetsOK
  <2>1. sets = <<{}>> /\ dict = <<>>
    BY DEF CollectionInit
  <2>2. {} \in FiniteSubsetsOf(Elems)
    BY FS_EmptySet DEF FiniteSubsetsOf
  <2>3. DOMAIN dict = {} /\ dict \in [{} -> Elems]
    BY <2>1
  <2> QED
    BY <2>1, <2>2, <2>3 DEF SetsOK
<1>6. ResultAsDocumented
  <2>1. last.op = "none"
    BY DEF CollectionInit
  <2> QED
    BY <2>1 DEF ResultAsDocumented
<1> QED
  BY <1>4, <1>5, <1>6 DEF ResultsInv

LEMMA DerefTyped ==
  ASSUME SlicesOK, NEW n \in 1..Len(held)
  PROVE  Deref(held[n]) \in Seq(Elems) /\ Len(Deref(held[n])) = held[n].len
<1>1. /\ held[n].arr \in 1..Len(arrays) /\ held[n].len \in 0..Len(arrays[held[n].arr])
      /\ arrays[held[n].arr] \in Seq(Elems)
  <2>1. /\ arrays \in Seq(Seq(Elems))
        /\ held[n].arr \in 1..Len(arrays) /\ held[n].len \in 0..Len(arrays[held[n].arr])
    BY DEF SlicesOK, SlicesOf
  <2> QED
    BY <2>1
<1> DEFINE a == arrays[held[n].arr]
           l == held[n].len
<1> HIDE DEF a, l
<1>2. a \in Seq(Elems) /\ l \in 0..Len(a)
  BY <1>1 DEF a, l
<1>3. SubSeq(a, 1, l) \in Seq(Elems) /\ Len(SubSeq(a, 1, l)) = l
  BY <1>2
<1> QED
  BY <1>3 DEF Deref, a, l

LEMMA SliceDocumented ==
  ASSUME ResultsInv, NEW op, NEW s, NEW given, NEW out \in Seq(Elems), Documented(op, given, out),
         ReturnsSlice(op, s, given, out)
  PROVE  ResultsInv'
<1> DEFINE slice == [arr |-> Len(arrays) + 1, len |-> Len(out)]
<1>1. /\ Called(op, given, out) /\ arrays' = Append(arrays, out) /\ held' = Append(held, slice)
      /\ UNCHANGED <<sets, dict>>
  BY DEF ReturnsSlice
<1>2. SlicesOf(arrays, held) /\ arrays \in Seq(Seq(Elems))
  BY DEF ResultsInv, SlicesOK, SlicesOf
<1>3. /\ arrays' \in Seq(Seq(Elems)) /\ Len(arrays) \in Nat /\ Len(arrays') = Len(arrays) + 1
      /\ arrays'[Len(arrays) + 1] = out /\ \A i \in 1..Len(arrays) : arrays'[i] = arrays[i]
  BY <1>1, <1>2
<1>4. /\ slice \in Slices /\ slice.arr = Len(arrays) + 1 /\ slice.len = Len(out)
      /\ Len(out) \in Nat
  BY <1>3 DEF Slices
<1> HIDE DEF slice
<1>5. /\ slice.arr \in 1..Len(arrays') /\ slice.len \in 0..Len(arrays'[slice.arr])
      /\ Len(arrays') >= Len(arrays) /\ \A i \in 1..Len(arrays) : Len(arrays'[i]) = Len(arrays[i])
  BY <1>3, <1>4
<1>6. SlicesOK'
  BY <1>1, <1>2, <1>3, <1>4, <1>5, SliceAdded DEF SlicesOK
<1>7. SetsOK'
  BY <1>1 DEF ResultsInv, SetsOK
<1> QED
  BY <1>1, <1>6, <1>7, LastCall DEF ResultsInv

LEMMA ValueDocumented ==
  ASSUME ResultsInv, NEW op, NEW given, NEW out, Documented(op, given, out), ReturnsValue(op, given, out)
  PROVE  ResultsInv'
<1>1. Called(op, given, out) /\ UNCHANGED <<arrays, held, sets, dict>>
  BY DEF ReturnsValue
<1>2. SlicesOK' /\ SetsOK'
  BY <1>1 DEF ResultsInv, SlicesOK, SetsOK
<1> QED
  BY <1>1, <1>2, LastCall DEF ResultsInv

LEMMA MapDocumented ==
  ASSUME ResultsInv, NEW op, NEW given, NEW out, Documented(op, given, out), Called(op, given, out),
         DOMAIN out \in FiniteSubsetsOf(Elems), out \in [DOMAIN out -> Elems],
         dict' = out, UNCHANGED <<arrays, held, sets>>
  PROVE  ResultsInv'
<1>1. SlicesOK' /\ SetsOK'
  BY DEF ResultsInv, SlicesOK, SetsOK
<1> QED
  BY <1>1, LastCall DEF ResultsInv

LEMMA SetDocumented ==
  ASSUME ResultsInv, NEW op, NEW given, NEW made \in FiniteSubsetsOf(Elems), Documented(op, given, made),
         NewSetOf(op, given, made)
  PROVE  ResultsInv'
<1>1. Called(op, given, made) /\ sets' = Append(sets, made) /\ UNCHANGED <<arrays, held, dict>>
  BY DEF NewSetOf
<1>2. SlicesOK' /\ SetsOK'
  BY <1>1 DEF ResultsInv, SlicesOK, SetsOK
<1> QED
  BY <1>1, <1>2, LastCall DEF ResultsInv

LEMMA SetStays ==
  ASSUME ResultsInv, NEW n \in 1..Len(sets), NEW op, NEW given, op \notin Described, Called(op, given, n),
         NEW x \in FiniteSubsetsOf(Elems), sets' = [sets EXCEPT ![n] = x], UNCHANGED <<arrays, held, dict>>
  PROVE  ResultsInv'
<1>1. sets \in Seq(FiniteSubsetsOf(Elems))
  BY DEF ResultsInv, SetsOK
<1>2. sets' \in Seq(FiniteSubsetsOf(Elems))
  BY <1>1, ExceptSeq
<1>3. SlicesOK' /\ SetsOK'
  BY <1>2 DEF ResultsInv, SlicesOK, SetsOK
<1> QED
  BY <1>3, LastCall, NotDescribed DEF ResultsInv

\* GetCommonElements of one list hands the caller's slice out again.
LEMMA AgainDocumented ==
  ASSUME ResultsInv, NEW n \in 1..Len(held), NEW op, NEW given, NEW out, Documented(op, given, out),
         Called(op, given, out), held' = Append(held, held[n]), UNCHANGED <<arrays, sets, dict>>
  PROVE  ResultsInv'
<1>1. SlicesOf(arrays, held) /\ arrays \in Seq(Seq(Elems)) /\ held \in Seq(Slices)
  BY DEF ResultsInv, SlicesOK, SlicesOf
<1>2. held[n] \in Slices /\ held[n].arr \in 1..Len(arrays) /\ held[n].len \in 0..Len(arrays[held[n].arr])
  BY <1>1 DEF SlicesOf
<1>3. Len(arrays) >= Len(arrays)
  BY <1>1
<1>4. SlicesOf(arrays, Append(held, held[n]))
  BY <1>1, <1>2, <1>3, SliceAdded
<1>5. SlicesOK' /\ SetsOK'
  BY <1>4 DEF ResultsInv, SlicesOK, SetsOK
<1> QED
  BY <1>5, LastCall DEF ResultsInv

\* The array keeps its length, so every slice of it stays one.
LEMMA SortedInPlace ==
  ASSUME ResultsInv, NEW n \in 1..Len(held), DeduplicateAndSortSlice(held[n])
  PROVE  ResultsInv'
<1> DEFINE s == held[n]
           a == arrays[s.arr]
           done == CompactFunc(SortFunc(Deref(s)))
           array == [i \in DOMAIN a |-> IF i <= s.len THEN done.array[i] ELSE a[i]]
           slice == [arr |-> s.arr, len |-> Len(done.kept)]
<1>1. /\ Called("DeduplicateAndSortSlice", <<Deref(s)>>, done.kept)
      /\ arrays' = [arrays EXCEPT ![s.arr] = array] /\ held' = Append(held, slice) /\ UNCHANGED <<sets, dict>>
  BY DEF DeduplicateAndSortSlice
<1>2. SlicesOf(arrays, held) /\ arrays \in Seq(Seq(Elems)) /\ s \in Slices
  <2>1. SlicesOf(arrays, held) /\ arrays \in Seq(Seq(Elems)) /\ held \in Seq(Slices)
    BY DEF ResultsInv, SlicesOK, SlicesOf
  <2> QED
    BY <2>1
<1>3. Deref(s) \in Seq(Elems) /\ Len(Deref(s)) = s.len
  BY DerefTyped DEF ResultsInv
<1>4. /\ s.arr \in 1..Len(arrays) /\ s.len \in 0..Len(a)
  BY <1>2 DEF SlicesOf
<1>5. a \in Seq(Elems)
  BY <1>2, <1>4
<1> HIDE DEF done, s
<1>6. /\ Documented("DeduplicateAndSortSlice", <<Deref(s)>>, done.kept)
      /\ done.kept \in Seq(Elems) /\ done.array \in Seq(Elems)
      /\ Len(done.kept) <= s.len /\ Len(done.array) = s.len
  BY <1>3, SortDocumented DEF done
<1> HIDE DEF a
<1>7. array \in Seq(Elems) /\ Len(array) = Len(a)
  <2>1. DOMAIN a = 1..Len(a) /\ Len(a) \in Nat /\ \A i \in 1..Len(a) : a[i] \in Elems
    BY <1>5
  <2>2. \A i \in 1..Len(a) : i <= s.len => done.array[i] \in Elems
    BY <1>4, <1>6
  <2>3. array \in [1..Len(a) -> Elems]
    BY <2>1, <2>2
  <2> HIDE DEF array
  <2> QED
    BY <2>1, <2>3
<1>8. slice \in Slices /\ slice.arr = s.arr /\ slice.len \in 0..Len(a)
  <2>1. Len(done.kept) \in Nat
    BY <1>6
  <2>2. s.arr \in Nat /\ s.len \in Nat
    BY <1>2 DEF Slices
  <2>3. Len(a) \in Nat /\ s.len <= Len(a)
    BY <1>4, <1>5
  <2>4. slice.arr = s.arr /\ slice.len = Len(done.kept) /\ slice \in Slices
    BY <2>1, <2>2 DEF Slices
  <2> HIDE DEF slice
  <2> QED
    BY <1>6, <2>1, <2>2, <2>3, <2>4
<1> HIDE DEF array, slice
<1>9. /\ arrays' \in Seq(Seq(Elems)) /\ Len(arrays') = Len(arrays)
      /\ \A i \in 1..Len(arrays) : Len(arrays'[i]) = Len(arrays[i])
  <2>1. [arrays EXCEPT ![s.arr] = array] \in Seq(Seq(Elems))
        /\ Len([arrays EXCEPT ![s.arr] = array]) = Len(arrays)
    BY <1>2, <1>4, <1>7, ExceptSeq
  <2>2. \A i \in 1..Len(arrays) : [arrays EXCEPT ![s.arr] = array][i] = IF i = s.arr THEN array ELSE arrays[i]
    BY <1>2, <1>4
  <2> QED
    BY <1>1, <1>7, <2>1, <2>2 DEF a
<1>10. slice.arr \in 1..Len(arrays') /\ slice.len \in 0..Len(arrays'[slice.arr]) /\ Len(arrays') >= Len(arrays)
  <2>1. Len(arrays'[s.arr]) = Len(a) /\ Len(arrays) \in Nat
    BY <1>2, <1>4, <1>9 DEF a
  <2> QED
    BY <1>4, <1>8, <1>9, <2>1
<1>11. SlicesOf(arrays', Append(held, slice))
  BY <1>2, <1>8, <1>9, <1>10, SliceAdded
<1>12. SlicesOK'
  BY <1>1, <1>11 DEF SlicesOK
<1>13. SetsOK'
  BY <1>1 DEF ResultsInv, SetsOK
<1> QED
  BY <1>1, <1>6, <1>12, <1>13, LastCall DEF ResultsInv

LEMMA NewSliceDocumented ==
  ASSUME ResultsInv, NEW n \in 1..Len(held), NewSlice(held[n]) PROVE ResultsInv'
<1> DEFINE s == held[n]
           c == Deref(s)
<1>1. c \in Seq(Elems)
  BY DerefTyped DEF ResultsInv
<1>2. \/ ReturnsSlice("DeduplicateSlice", s, <<c>>, DeduplicateSlice(c))
      \/ \E toRemove \in {<<>>, <<1>>, <<0, 2>>} :
           ReturnsSlice("DeduplicateSliceAndRemove", s, <<c, toRemove>>, DeduplicateSliceAndRemove(c, toRemove))
      \/ ReturnsSlice("DeduplicateSliceOfObject", s, <<c>>, DeduplicateSliceOfObject(c))
      \/ \E keys \in SetToSeqs(DOMAIN ListToMap(c)) :
           ReturnsSlice("DeduplicateAndSortSliceOfObject", s, <<c>>, DeduplicateAndSortSliceOfObject(c, keys))
      \/ ReturnsSlice("FilterSlice", s, <<c>>, FilterSlice(c, Odd))
      \/ ReturnsSlice("MapSlice", s, <<c>>, MapSlice(c, Key))
      \/ ReturnsSlice("MapAndFilterSlice", s, <<c>>, MapAndFilterSlice(c, Halve))
  BY DEF NewSlice
<1> HIDE DEF s, c
<1>3. CASE ReturnsSlice("DeduplicateSlice", s, <<c>>, DeduplicateSlice(c))
  BY <1>1, <1>3, DeduplicateDocumented, SliceDocumented
<1>4. CASE \E toRemove \in {<<>>, <<1>>, <<0, 2>>} :
             ReturnsSlice("DeduplicateSliceAndRemove", s, <<c, toRemove>>, DeduplicateSliceAndRemove(c, toRemove))
  BY <1>1, <1>4, RemoveDocumented, SliceDocumented
<1>5. CASE ReturnsSlice("DeduplicateSliceOfObject", s, <<c>>, DeduplicateSliceOfObject(c))
  BY <1>1, <1>5, DeduplicateDocumented, SliceDocumented
<1>6. CASE \E keys \in SetToSeqs(DOMAIN ListToMap(c)) :
             ReturnsSlice("DeduplicateAndSortSliceOfObject", s, <<c>>, DeduplicateAndSortSliceOfObject(c, keys))
  BY <1>1, <1>6, SortObjectsDocumented, SliceDocumented
<1>7. CASE ReturnsSlice("FilterSlice", s, <<c>>, FilterSlice(c, Odd))
  BY <1>1, <1>7, FilterDocumented, SliceDocumented
<1>8. CASE ReturnsSlice("MapSlice", s, <<c>>, MapSlice(c, Key))
  <2>1. Key \in [Elems -> Elems]
    BY CallerFunctions
  <2>2. MapSlice(c, Key) \in Seq(Elems)
    BY <1>1, <2>1 DEF MapSlice
  <2>3. Documented("MapSlice", <<c>>, MapSlice(c, Key))
    BY NotDescribed DEF Described
  <2> QED
    BY <1>8, <2>2, <2>3, SliceDocumented
<1>9. CASE ReturnsSlice("MapAndFilterSlice", s, <<c>>, MapAndFilterSlice(c, Halve))
  BY <1>1, <1>9, MapAndFilterDocumented, SliceDocumented
<1> QED
  BY <1>2, <1>3, <1>4, <1>5, <1>6, <1>7, <1>8, <1>9

LEMMA FoldDocumented ==
  ASSUME ResultsInv, NEW n \in 1..Len(held), Fold(held[n]) PROVE ResultsInv'
<1> DEFINE c == Deref(held[n])
<1>1. c \in Seq(Elems)
  BY DerefTyped DEF ResultsInv
<1>2. \/ ReturnsValue("ReduceSlice", <<c>>, ReduceSlice(c, <<>>))
      \/ ReturnsValue("ReduceSliceWithCondition", <<c>>, ReduceSliceWithCondition(c, <<>>))
      \/ \E given, out : ReturnsValue("IsInSlice", given, out)
  BY DEF Fold
<1> HIDE DEF c
<1>3. \A given, out : Documented("IsInSlice", given, out)
  BY NotDescribed DEF Described
<1> QED
  BY <1>1, <1>2, <1>3, ReduceDocumented, ValueDocumented

LEMMA MapsStepDocumented ==
  ASSUME ResultsInv, NEW n \in 1..Len(held), Maps(held[n]) PROVE ResultsInv'
<1> DEFINE c == Deref(held[n])
<1>1. c \in Seq(Elems)
  BY DerefTyped DEF ResultsInv
<1>2. UNCHANGED <<arrays, held, sets>>
  BY DEF Maps
<1>3. \/ dict' = ListToMap(c) /\ Called("ListToMap", <<c>>, dict')
      \/ dict' = ListToGetterMap(c, ThisElem, Key) /\ Called("ListToGetterMap", <<c>>, dict')
  BY DEF Maps
<1> HIDE DEF c
<1>4. Key \in [Elems -> Elems] /\ ThisElem \in [Elems -> Elems]
  BY CallerFunctions
<1>5. CASE dict' = ListToMap(c) /\ Called("ListToMap", <<c>>, dict')
  <2>1. dict' = ListToGetterMap(c, Key, ThisElem)
    BY <1>5 DEF ListToMap
  <2>2. DOMAIN dict' \in FiniteSubsetsOf(Elems) /\ dict' \in [DOMAIN dict' -> Elems]
    BY <1>1, <1>4, <2>1, MapOfList
  <2>3. Documented("ListToMap", <<c>>, dict')
    BY <1>1, <1>5, MapsDocumented
  <2> QED
    BY <1>2, <1>5, <2>2, <2>3, MapDocumented
<1>6. CASE dict' = ListToGetterMap(c, ThisElem, Key) /\ Called("ListToGetterMap", <<c>>, dict')
  <2>1. DOMAIN dict' \in FiniteSubsetsOf(Elems) /\ dict' \in [DOMAIN dict' -> Elems]
    BY <1>1, <1>4, <1>6, MapOfList
  <2>2. Documented("ListToGetterMap", <<c>>, dict')
    BY <1>1, <1>6, MapsDocumented
  <2> QED
    BY <1>2, <1>6, <2>1, <2>2, MapDocumented
<1> QED
  BY <1>3, <1>5, <1>6

LEMMA MapListsDocumented == ASSUME ResultsInv, MapLists PROVE ResultsInv'
<1>1. DOMAIN dict \in FiniteSubsetsOf(Elems) /\ dict \in [DOMAIN dict -> Elems]
  BY DEF ResultsInv, SetsOK
<1>2. PICK keys \in SetToSeqs(DOMAIN dict) :
        \/ ReturnsSlice("MapToListKey", held[1], <<dict>>, keys)
        \/ ReturnsSlice("MapToListValue", held[1], <<dict>>, [i \in 1..Len(keys) |-> dict[keys[i]]])
  BY DEF MapLists
<1>3. IsFiniteSet(DOMAIN dict) /\ DOMAIN dict \subseteq Elems
  BY <1>1 DEF FiniteSubsetsOf
<1>4. keys \in Seq(DOMAIN dict)
  BY <1>3, SetToSeqsEnumerates
<1>5. keys \in Seq(Elems)
  BY <1>3, <1>4
<1>6. [i \in 1..Len(keys) |-> dict[keys[i]]] \in Seq(Elems)
  BY <1>1, <1>4
<1>7. \A given, out : Documented("MapToListKey", given, out) /\ Documented("MapToListValue", given, out)
  BY NotDescribed DEF Described
<1> QED
  BY <1>2, <1>5, <1>6, <1>7, SliceDocumented

LEMMA CommonStepDocumented ==
  ASSUME ResultsInv, NEW ss \in Seq(1..Len(held)),
         GetCommonElements([i \in 1..Len(ss) |-> held[ss[i]]])
  PROVE  ResultsInv'
<1> DEFINE hs == [i \in 1..Len(ss) |-> held[ss[i]]]
           lists == [i \in 1..Len(hs) |-> Deref(hs[i])]
<1>1. Len(ss) \in Nat /\ \A i \in 1..Len(ss) : ss[i] \in 1..Len(held)
  OBVIOUS
<1>2. Len(hs) = Len(ss) /\ \A i \in 1..Len(ss) : hs[i] = held[ss[i]]
  BY <1>1
<1>3. GetCommonElements(hs)
  OBVIOUS
<1> HIDE DEF hs
<1>4. \A i \in 1..Len(ss) : Deref(hs[i]) \in Seq(Elems)
  BY <1>1, <1>2, DerefTyped DEF ResultsInv
<1>5. lists \in Seq(Seq(Elems)) /\ Len(lists) = Len(ss) /\ \A i \in 1..Len(ss) : lists[i] = Deref(hs[i])
  BY <1>1, <1>2, <1>4
<1>6. CASE Len(ss) = 0
  <2>1. ReturnsValue("GetCommonElements", lists, <<>>)
    BY <1>2, <1>3, <1>6 DEF GetCommonElements
  <2> HIDE DEF lists
  <2>2. lists = <<>>
    BY <1>5, <1>6
  <2>3. Documented("GetCommonElements", lists, <<>>)
    BY <1>5, <2>2, CommonDocumented
  <2> QED
    BY <2>1, <2>3, ValueDocumented
<1>7. CASE Len(ss) = 1
  <2>1. Called("GetCommonElements", lists, lists[1]) /\ held' = Append(held, hs[1]) /\ UNCHANGED <<arrays, sets, dict>>
    BY <1>2, <1>3, <1>7 DEF GetCommonElements
  <2> HIDE DEF lists
  <2>2. Documented("GetCommonElements", lists, lists[1])
    BY <1>5, <1>7, CommonDocumented
  <2>3. ss[1] \in 1..Len(held) /\ hs[1] = held[ss[1]]
    BY <1>1, <1>2, <1>7
  <2> QED
    BY <2>1, <2>2, <2>3, AgainDocumented
<1>8. CASE Len(ss) # 0 /\ Len(ss) # 1
  <2>1. PICK out \in SetToSeqs(CommonOf(lists)) : ReturnsSlice("GetCommonElements", hs[1], lists, out)
    BY <1>2, <1>3, <1>8 DEF GetCommonElements
  <2> HIDE DEF lists
  <2>2. Len(lists) >= 2
    BY <1>1, <1>5, <1>8
  <2>3. Documented("GetCommonElements", lists, out) /\ out \in Seq(Elems)
    BY <1>5, <2>1, <2>2, CommonDocumented
  <2> QED
    BY <2>1, <2>3, SliceDocumented
<1> QED
  BY <1>6, <1>7, <1>8

LEMMA SetMethodsDocumented ==
  ASSUME ResultsInv, NEW n \in 1..Len(sets), SetMethods(n) PROVE ResultsInv'
<1>1. sets \in Seq(FiniteSubsetsOf(Elems))
  BY DEF ResultsInv, SetsOK
<1>2. sets[n] \in FiniteSubsetsOf(Elems)
  BY <1>1
<1>3. sets[n] \subseteq Elems /\ IsFiniteSet(sets[n])
  BY <1>2 DEF FiniteSubsetsOf
<1>4. ASSUME NEW x \in Elems
      PROVE  sets[n] \cup {x} \in FiniteSubsetsOf(Elems) /\ sets[n] \ {x} \in FiniteSubsetsOf(Elems)
  <2>1. IsFiniteSet(sets[n] \cup {x}) /\ IsFiniteSet(sets[n] \ {x})
    BY <1>3, FS_AddElement, FS_RemoveElement
  <2> QED
    BY <1>3, <2>1 DEF FiniteSubsetsOf
<1>5. \A op \in {"Add", "Remove", "Contains", "Len", "ToSlice"} :
        op \notin Described /\ \A given, out : Documented(op, given, out)
  BY NotDescribed DEF Described
<1>6. ASSUME NEW x \in Elems, sets' = [sets EXCEPT ![n] = @ \cup {x}], Called("Add", <<n, x>>, n),
             UNCHANGED <<arrays, held, dict>>
      PROVE  ResultsInv'
  BY <1>4, <1>5, <1>6, SetStays
<1>7. ASSUME NEW x \in Elems, sets' = [sets EXCEPT ![n] = @ \ {x}], Called("Remove", <<n, x>>, n),
             UNCHANGED <<arrays, held, dict>>
      PROVE  ResultsInv'
  BY <1>4, <1>5, <1>7, SetStays
<1>8. ASSUME NEW op \in {"Contains", "Len"}, NEW given, NEW out, ReturnsValue(op, given, out)
      PROVE  ResultsInv'
  BY <1>5, <1>8, ValueDocumented
<1>9. ASSUME NEW out \in SetToSeqs(sets[n]), ReturnsSlice("ToSlice", held[1], <<sets[n]>>, out)
      PROVE  ResultsInv'
  <2>1. out \in Seq(sets[n])
    BY <1>3, SetToSeqsEnumerates
  <2>2. out \in Seq(Elems)
    BY <1>3, <2>1
  <2> QED
    BY <1>5, <1>9, <2>2, SliceDocumented
<1> QED
  BY <1>6, <1>7, <1>8, <1>9 DEF SetMethods

LEMMA NewSetsDocumented ==
  ASSUME ResultsInv,
         \/ \E n \in 1..Len(held) : NewSetOf("NewSet", <<Deref(held[n])>>, ToSet(Deref(held[n])))
         \/ \E i, j \in 1..Len(sets) : SetUnion(i, j) \/ SetIntersect(i, j)
  PROVE  ResultsInv'
<1>1. sets \in Seq(FiniteSubsetsOf(Elems))
  BY DEF ResultsInv, SetsOK
<1>2. ASSUME NEW n \in 1..Len(held), NewSetOf("NewSet", <<Deref(held[n])>>, ToSet(Deref(held[n])))
      PROVE  ResultsInv'
  <2> DEFINE c == Deref(held[n])
  <2>1. c \in Seq(Elems)
    BY DerefTyped DEF ResultsInv
  <2>2. Documented("NewSet", <<c>>, ToSet(c))
    BY NotDescribed DEF Described
  <2>3. NewSetOf("NewSet", <<c>>, ToSet(c))
    BY <1>2
  <2> HIDE DEF c
  <2>4. ToSet(c) \in SUBSET Elems
    BY <2>1 DEF ToSet
  <2>5. c \in Surjection(1..Len(c), ToSet(c)) /\ Len(c) \in Nat
    BY <2>1 DEF Surjection, ToSet
  <2>6. IsFiniteSet(ToSet(c))
    BY <2>5, FS_Interval, FS_Surjection
  <2>7. ToSet(c) \in FiniteSubsetsOf(Elems)
    BY <2>4, <2>6 DEF FiniteSubsetsOf
  <2> QED
    BY <2>2, <2>3, <2>7, SetDocumented
<1>3. ASSUME NEW i \in 1..Len(sets), NEW j \in 1..Len(sets), SetUnion(i, j) \/ SetIntersect(i, j)
      PROVE  ResultsInv'
  <2> DEFINE A == sets[i]
             B == sets[j]
  <2>1. A \in FiniteSubsetsOf(Elems) /\ B \in FiniteSubsetsOf(Elems)
    BY <1>1
  <2>2. \/ NewSetOf("Union", <<A, B>>, A \cup B)
        \/ NewSetOf("Intersect", <<A, B>>, {k \in A : k \in B})
    BY <1>3 DEF SetUnion, SetIntersect
  <2> HIDE DEF A, B
  <2>3. IsFiniteSet(A) /\ IsFiniteSet(B) /\ A \subseteq Elems /\ B \subseteq Elems
    BY <2>1 DEF FiniteSubsetsOf
  <2>4. A \cup B \in FiniteSubsetsOf(Elems)
    <3>1. IsFiniteSet(A \cup B)
      BY <2>3, FS_Union
    <3> QED
      BY <2>3, <3>1 DEF FiniteSubsetsOf
  <2>5. {k \in A : k \in B} \in FiniteSubsetsOf(Elems)
    <3>1. {k \in A : k \in B} \subseteq A
      OBVIOUS
    <3>2. IsFiniteSet({k \in A : k \in B})
      BY <2>3, <3>1, FS_Subset
    <3> QED
      BY <2>3, <3>2 DEF FiniteSubsetsOf
  <2>6. CASE NewSetOf("Union", <<A, B>>, A \cup B)
    BY <2>4, <2>6, SetsDocumented, SetDocumented
  <2>7. CASE NewSetOf("Intersect", <<A, B>>, {k \in A : k \in B})
    BY <2>5, <2>7, SetsDocumented, SetDocumented
  <2> QED
    BY <2>2, <2>6, <2>7
<1> QED
  BY <1>2, <1>3

LEMMA ResultsStep == ASSUME ResultsInv, CollectionNext PROVE ResultsInv'
<1>1. Len(held) \in Nat /\ Len(held) >= 3
  BY DEF ResultsInv, SlicesOK, SlicesOf
<1>2. ASSUME NEW i \in 1..Len(held),
             NewSlice(held[i]) \/ Fold(held[i]) \/ DeduplicateAndSortSlice(held[i]) \/ Maps(held[i])
      PROVE  ResultsInv'
  BY <1>2, NewSliceDocumented, FoldDocumented, SortedInPlace, MapsStepDocumented
<1>3. ASSUME NEW i \in 1..Len(held), GetCommonElements(<<held[i]>>) PROVE ResultsInv'
  <2>1. <<i>> \in Seq(1..Len(held)) /\ [k \in 1..Len(<<i>>) |-> held[<<i>>[k]]] = <<held[i]>>
    OBVIOUS
  <2> QED
    BY <1>3, <2>1, CommonStepDocumented
<1>4. ASSUME NEW i \in 1..Len(held), NEW j \in 1..Len(held), GetCommonElements(<<held[i], held[j]>>)
      PROVE  ResultsInv'
  <2>1. <<i, j>> \in Seq(1..Len(held)) /\ [k \in 1..Len(<<i, j>>) |-> held[<<i, j>>[k]]] = <<held[i], held[j]>>
    OBVIOUS
  <2> QED
    BY <1>4, <2>1, CommonStepDocumented
<1>5. ASSUME GetCommonElements(<<>>) PROVE ResultsInv'
  <2>1. <<>> \in Seq(1..Len(held)) /\ [k \in 1..Len(<<>>) |-> held[<<>>[k]]] = <<>>
    OBVIOUS
  <2> QED
    BY <1>5, <2>1, CommonStepDocumented
<1>6. ASSUME GetCommonElements(<<held[1], held[2], held[3]>>) PROVE ResultsInv'
  <2>1. /\ <<1, 2, 3>> \in Seq(1..Len(held))
        /\ [k \in 1..Len(<<1, 2, 3>>) |-> held[<<1, 2, 3>>[k]]] = <<held[1], held[2], held[3]>>
    BY <1>1
  <2> QED
    BY <1>6, <2>1, CommonStepDocumented
<1> QED
  BY <1>2, <1>3, <1>4, <1>5, <1>6, MapListsDocumented, SetMethodsDocumented, NewSetsDocumented
  DEF CollectionNext

\* Whatever the callers have shared, sorted or changed before, and however long
\* their slices are, the functions that deduplicate, sort, filter, reduce, build a
\* map, intersect lists or combine sets return what their comments say.
THEOREM ResultsAlwaysDocumented == CollectionSpec => []ResultAsDocumented
<1>1. ResultsInv /\ [CollectionNext]_collectionVars => ResultsInv'
  <2> SUFFICES ASSUME ResultsInv, [CollectionNext]_collectionVars PROVE ResultsInv'
    OBVIOUS
  <2>1. CASE UNCHANGED collectionVars
    BY <2>1 DEF collectionVars, ResultsInv, SlicesOK, SetsOK, ResultAsDocumented
  <2>2. CASE CollectionNext
    BY <2>2, ResultsStep
  <2> QED
    BY <2>1, <2>2
<1>2. ResultsInv => ResultAsDocumented
  BY DEF ResultsInv
<1> QED
  BY <1>1, <1>2, ResultsInitInv, PTL DEF CollectionSpec
=============================================================================
