----------------------------- MODULE Collection -----------------------------
(***************************************************************************)
(* The collection package as its callers see it.  Slices are references:   *)
(* two of them may share an array, so the model keeps the arrays, the       *)
(* slices and sets the callers hold, and the last call with its result.     *)
(* An element is a number; as an object it has the key Key[e], shared with  *)
(* its neighbour, and 0 is the zero value of its type.                      *)
(***************************************************************************)
EXTENDS Integers, SequencesExt, Places

CONSTANTS
  Elems,      \* the elements
  Contents,   \* the contents of the callers' first array
  MaxCalls    \* bound: calls

ASSUME CollectionAssumption ==
  /\ Elems \subseteq Nat /\ 0 \in Elems /\ \A e \in Elems : e \div 2 \in Elems
  /\ Contents \subseteq Seq(Elems) /\ MaxCalls \in Nat

VARIABLES
  arrays,   \* the arrays: sequences of elements
  held,     \* the slices the callers hold: an array and a length
  sets,     \* the sets they hold
  dict,     \* the map they have built last
  last,     \* the last call: what it was given and what it returned
  calls     \* how many calls there have been

collectionVars == <<arrays, held, sets, dict, last, calls>>

Key == [e \in Elems |-> e \div 2]
ThisElem == [e \in Elems |-> e]
Deref(s) == SubSeq(arrays[s.arr], 1, s.len)
-----------------------------------------------------------------------------
(* The functions the callers pass *)

Odd == [e \in Elems |-> e % 2 = 1]
Halve == [e \in Elems |-> [item |-> e \div 2, ok |-> ~Odd[e]]]
Push(e, acc) == Append(acc, e)
PushToZero(e, acc) == [r |-> Append(acc, e), keepContinuing |-> e # 0]
-----------------------------------------------------------------------------
(* The loops *)

AppendIf(cond, s, e) == IF cond THEN Append(s, e) ELSE s

AddFirst(acc, k, e) == [seen |-> acc.seen \cup {k}, result |-> AppendIf(k \notin acc.seen, acc.result, e)]

\* The loop the three functions that keep first occurrences share.
DeduplicateBy(s, getKey, exclude) ==
  LET loop[n \in 0..Len(s)] ==
        IF n = 0 THEN [seen |-> {}, result |-> <<>>]
        ELSE IF s[n] \in exclude THEN loop[n - 1] ELSE AddFirst(loop[n - 1], getKey[s[n]], s[n])
  IN loop[Len(s)].result

DeduplicateSlice(s) == DeduplicateBy(s, ThisElem, {})
DeduplicateSliceAndRemove(s, toRemove) == DeduplicateBy(s, ThisElem, ToSet(toRemove))

\* Mutant: objects are compared, not their keys.
DeduplicateSliceOfEqual(s) == DeduplicateBy(s, ThisElem, {})

DeduplicateSliceOfObject(s) == DeduplicateBy(s, Key, {})

FilterSlice(s, keep) ==
  LET loop[n \in 0..Len(s)] == IF n = 0 THEN <<>> ELSE AppendIf(keep[s[n]], loop[n - 1], s[n])
  IN loop[Len(s)]

MapSlice(s, mapper) == [i \in 1..Len(s) |-> mapper[s[i]]]

\* mapper returns an item and whether to keep it.
MapAndFilterSlice(s, mapper) ==
  LET loop[n \in 0..Len(s)] ==
        IF n = 0 THEN <<>> ELSE AppendIf(mapper[s[n]].ok, loop[n - 1], mapper[s[n]].item)
  IN loop[Len(s)]

ReduceSlice(s, init) ==
  LET loop[n \in 0..Len(s)] == IF n = 0 THEN init ELSE Push(s[n], loop[n - 1])
  IN loop[Len(s)]

\* The reducer returns the accumulator and whether to go on.
ReduceSliceWithCondition(s, init) ==
  LET loop[n \in 0..Len(s)] ==
        IF n = 0 THEN [r |-> init, keepContinuing |-> TRUE]
        ELSE IF loop[n - 1].keepContinuing THEN PushToZero(s[n], loop[n - 1].r) ELSE loop[n - 1]
  IN loop[Len(s)].r

\* m[k] = v
Put(m, k, v) == [x \in DOMAIN m \cup {k} |-> IF x = k THEN v ELSE m[x]]

\* A later element overwrites an earlier one of its key.
ListToGetterMap(s, getKey, getValue) ==
  LET loop[n \in 0..Len(s)] ==
        IF n = 0 THEN <<>> ELSE Put(loop[n - 1], getKey[s[n]], getValue[s[n]])
  IN loop[Len(s)]

ListToMap(s) == ListToGetterMap(s, Key, ThisElem)

\* slices.SortFunc
SortFunc(s) ==
  LET place(i) == Cardinality({j \in 1..Len(s) : s[j] < s[i] \/ (s[j] = s[i] /\ j <= i)})
  IN [n \in 1..Len(s) |-> s[CHOOSE i \in 1..Len(s) : place(i) = n]]

\* slices.CompactFunc: the elements that differ from the one before them move
\* to the front, and the rest of the slice is cleared.
CompactFunc(s) ==
  LET kept == At(s, {i \in 1..Len(s) : i > 1 => s[i] # s[i - 1]})
  IN [kept |-> kept, array |-> kept \o [i \in 1..(Len(s) - Len(kept)) |-> 0]]

\* keys: the keys of the map, in the order they leave it.
DeduplicateAndSortSliceOfObject(s, keys) == MapSlice(SortFunc(keys), ListToMap(s))

\* The elements all lists have, for at least two lists.
CommonOf(lists) ==
  LET rest == Tail(lists)
      loop[n \in 0..Len(rest)] == IF n = 0 THEN ToSet(lists[1]) ELSE loop[n - 1] \cap ToSet(rest[n])
  IN IF \E i \in 1..Len(rest) : rest[i] = <<>> THEN {} ELSE loop[Len(rest)]
-----------------------------------------------------------------------------
(* The calls *)

Called(op, given, out) ==
  /\ calls < MaxCalls /\ calls' = calls + 1
  /\ last' = [op |-> op, given |-> given, out |-> out]

\* Mutant: the result is built in the argument's array (result := s[:0]).
ReturnsSliceInPlace(op, s, given, out) ==
  /\ Called(op, given, out)
  /\ arrays' = [arrays EXCEPT ![s.arr] = [i \in DOMAIN @ |-> IF i <= Len(out) THEN out[i] ELSE @[i]]]
  /\ held' = Append(held, [arr |-> s.arr, len |-> Len(out)])
  /\ UNCHANGED <<sets, dict>>

\* A call that returns a slice of its own.
ReturnsSlice(op, s, given, out) ==
  /\ Called(op, given, out)
  /\ arrays' = Append(arrays, out)
  /\ held' = Append(held, [arr |-> Len(arrays) + 1, len |-> Len(out)])
  /\ UNCHANGED <<sets, dict>>

ReturnsValue(op, given, out) == Called(op, given, out) /\ UNCHANGED <<arrays, held, sets, dict>>

NewSlice(s) ==
  LET c == Deref(s) IN
  \/ ReturnsSlice("DeduplicateSlice", s, <<c>>, DeduplicateSlice(c))
  \/ \E toRemove \in {<<>>, <<1>>, <<0, 2>>} :
       ReturnsSlice("DeduplicateSliceAndRemove", s, <<c, toRemove>>, DeduplicateSliceAndRemove(c, toRemove))
  \/ ReturnsSlice("DeduplicateSliceOfObject", s, <<c>>, DeduplicateSliceOfObject(c))
  \/ \E keys \in SetToSeqs(DOMAIN ListToMap(c)) :
       ReturnsSlice("DeduplicateAndSortSliceOfObject", s, <<c>>, DeduplicateAndSortSliceOfObject(c, keys))
  \/ ReturnsSlice("FilterSlice", s, <<c>>, FilterSlice(c, Odd))
  \/ ReturnsSlice("MapSlice", s, <<c>>, MapSlice(c, Key))
  \/ ReturnsSlice("MapAndFilterSlice", s, <<c>>, MapAndFilterSlice(c, Halve))

Fold(s) ==
  LET c == Deref(s) IN
  \/ ReturnsValue("ReduceSlice", <<c>>, ReduceSlice(c, <<>>))
  \/ ReturnsValue("ReduceSliceWithCondition", <<c>>, ReduceSliceWithCondition(c, <<>>))
  \/ \E x \in Elems : ReturnsValue("IsInSlice", <<c, x>>, \E i \in 1..Len(c) : c[i] = x)

\* Sorts and compacts the caller's own array and returns a slice of it.
DeduplicateAndSortSlice(s) ==
  LET done == CompactFunc(SortFunc(Deref(s))) IN
  /\ Called("DeduplicateAndSortSlice", <<Deref(s)>>, done.kept)
  /\ arrays' = [arrays EXCEPT ![s.arr] = [i \in DOMAIN @ |-> IF i <= s.len THEN done.array[i] ELSE @[i]]]
  /\ held' = Append(held, [arr |-> s.arr, len |-> Len(done.kept)])
  /\ UNCHANGED <<sets, dict>>

\* The elements of a set leave a map in any order.
GetCommonElements(ss) ==
  LET lists == [i \in 1..Len(ss) |-> Deref(ss[i])] IN
  CASE Len(ss) = 0 -> ReturnsValue("GetCommonElements", lists, <<>>)
    [] Len(ss) = 1 ->
         /\ Called("GetCommonElements", lists, lists[1])
         /\ held' = Append(held, ss[1])
         /\ UNCHANGED <<arrays, sets, dict>>
    [] OTHER ->
         \E out \in SetToSeqs(CommonOf(lists)) : ReturnsSlice("GetCommonElements", ss[1], lists, out)

Maps(s) ==
  LET c == Deref(s) IN
  \/ /\ dict' = ListToMap(c)
     /\ Called("ListToMap", <<c>>, dict') /\ UNCHANGED <<arrays, held, sets>>
  \/ /\ dict' = ListToGetterMap(c, ThisElem, Key)
     /\ Called("ListToGetterMap", <<c>>, dict') /\ UNCHANGED <<arrays, held, sets>>

MapLists ==
  \E keys \in SetToSeqs(DOMAIN dict) :
    \/ ReturnsSlice("MapToListKey", held[1], <<dict>>, keys)
    \/ ReturnsSlice("MapToListValue", held[1], <<dict>>, [i \in 1..Len(keys) |-> dict[keys[i]]])

\* NewSet, Union and Intersect make a set of their own.
NewSetOf(op, given, made) ==
  Called(op, given, made) /\ sets' = Append(sets, made) /\ UNCHANGED <<arrays, held, dict>>

SetUnion(i, j) == NewSetOf("Union", <<sets[i], sets[j]>>, sets[i] \cup sets[j])
SetIntersect(i, j) == NewSetOf("Intersect", <<sets[i], sets[j]>>, {k \in sets[i] : k \in sets[j]})

\* Add and Remove change the set they are called on; Add returns it again.
SetMethods(i) ==
  \/ \E x \in Elems :
       \/ /\ sets' = [sets EXCEPT ![i] = @ \cup {x}]
          /\ Called("Add", <<i, x>>, i) /\ UNCHANGED <<arrays, held, dict>>
       \/ /\ sets' = [sets EXCEPT ![i] = @ \ {x}]
          /\ Called("Remove", <<i, x>>, i) /\ UNCHANGED <<arrays, held, dict>>
       \/ ReturnsValue("Contains", <<sets[i], x>>, x \in sets[i])
  \/ ReturnsValue("Len", <<sets[i]>>, Cardinality(sets[i]))
  \/ \E out \in SetToSeqs(sets[i]) : ReturnsSlice("ToSlice", held[1], <<sets[i]>>, out)

\* The callers hold a slice, a shorter one of the same array, and an empty one.
CollectionInit ==
  /\ \E c \in Contents : arrays = <<c, <<>> >>
  /\ held = <<[arr |-> 1, len |-> Len(arrays[1])],
              [arr |-> 1, len |-> Len(arrays[1]) \div 2],
              [arr |-> 2, len |-> 0]>>
  /\ sets = <<{}>> /\ dict = <<>>
  /\ last = [op |-> "none"] /\ calls = 0

CollectionNext ==
  \/ \E i \in 1..Len(held) :
       LET s == held[i] IN
         NewSlice(s) \/ Fold(s) \/ DeduplicateAndSortSlice(s) \/ Maps(s)
         \/ NewSetOf("NewSet", <<Deref(s)>>, ToSet(Deref(s)))
         \/ GetCommonElements(<<s>>)
  \/ \E i, j \in 1..Len(held) : GetCommonElements(<<held[i], held[j]>>)
  \/ GetCommonElements(<<>>) \/ GetCommonElements(<<held[1], held[2], held[3]>>)
  \/ MapLists
  \/ \E i \in 1..Len(sets) : SetMethods(i) \/ \E j \in 1..Len(sets) : SetUnion(i, j) \/ SetIntersect(i, j)

CollectionSpec == CollectionInit /\ [][CollectionNext]_collectionVars
-----------------------------------------------------------------------------
(* Properties *)

IsMapOf(m, s, getKey, getValue) ==
  /\ DOMAIN m = {getKey[s[i]] : i \in 1..Len(s)}
  /\ \A i \in 1..Len(s) :
       (\A j \in (i + 1)..Len(s) : getKey[s[j]] # getKey[s[i]]) => m[getKey[s[i]]] = getValue[s[i]]

Increasing(s) == \A i, j \in 1..Len(s) : i < j => s[i] < s[j]

\* What the comments say of a call of op, given these arguments and returning out.
Documented(op, given, out) ==
  LET s == given[1]
      FirstOf(getKey) == {i \in 1..Len(s) : \A j \in 1..(i - 1) : getKey[s[j]] # getKey[s[i]]}
  IN
  /\ op = "DeduplicateSlice" => out = At(s, FirstOf(ThisElem))
  /\ op = "DeduplicateSliceAndRemove" => out = At(s, {i \in FirstOf(ThisElem) : s[i] \notin ToSet(given[2])})
  /\ op = "DeduplicateSliceOfObject" => out = At(s, FirstOf(Key))
  /\ op = "DeduplicateAndSortSlice" => Increasing(out) /\ ToSet(out) = ToSet(s)
  /\ op = "DeduplicateAndSortSliceOfObject" =>
       /\ Increasing(MapSlice(out, Key))
       /\ ToSet(out) = {s[i] : i \in {i \in 1..Len(s) : \A j \in (i + 1)..Len(s) : Key[s[j]] # Key[s[i]]}}
  /\ op = "FilterSlice" => out = At(s, {i \in 1..Len(s) : Odd[s[i]]})
  /\ op = "MapAndFilterSlice" =>
       LET even == At(s, {i \in 1..Len(s) : ~Odd[s[i]]}) IN
       Len(out) = Len(even) /\ \A i \in 1..Len(even) : 2 * out[i] = even[i]
  /\ op = "ReduceSlice" => out = s
  /\ op = "ReduceSliceWithCondition" => out = At(s, {i \in 1..Len(s) : \A j \in 1..(i - 1) : s[j] # 0})
  /\ op = "ListToMap" => IsMapOf(out, s, Key, ThisElem)
  /\ op = "ListToGetterMap" => IsMapOf(out, s, ThisElem, Key)
  /\ op = "GetCommonElements" =>
       /\ given # <<>> => ToSet(out) = {x \in Elems : \A l \in ToSet(given) : x \in ToSet(l)}
       /\ Len(given) # 1 => Cardinality(ToSet(out)) = Len(out)
  /\ op = "Union" => \A x \in Elems : x \in out <=> x \in s \/ x \in given[2]
  /\ op = "Intersect" => \A x \in Elems : x \in out <=> x \in s /\ x \in given[2]

\* A call of one of the functions Documented has a clause for returns what its
\* comment says, for the contents its arguments had when it was made, whatever
\* arrays and sets the calls before it have shared: deduplication keeps the first
\* element of every key and the order; sorted results are strictly increasing,
\* with the last object of every key; reduction stops behind the element that
\* ends it; a map has the last element of every key; the common elements are
\* those every list has.  The functions that are one expression have none
\* (MapSlice, IsInSlice, NewSet, MapToListKey, MapToListValue, and a set's Add,
\* Remove, Contains, Len and ToSlice), since a clause would repeat it.
ResultAsDocumented == last.op # "none" => Documented(last.op, last.given, last.out)

LeavesCallersAlone ==
  /\ \A i \in 1..Len(held) :
       Deref(held[i])' # Deref(held[i]) =>
         /\ last'.op = "DeduplicateAndSortSlice"
         /\ held[i].arr = held'[Len(held')].arr
  /\ \A i \in 1..Len(sets) :
       sets'[i] # sets[i] => last'.op \in {"Add", "Remove"} /\ last'.out = i

\* "All functions are pure", up to what the code does: no call changes a slice
\* or a set its callers hold, except Add and Remove the set they are called on
\* and DeduplicateAndSortSlice the slices of the array it sorts, the one that
\* GetCommonElements of a single list has handed out again included.
CallersUntouched == [][LeavesCallersAlone]_collectionVars
=============================================================================
