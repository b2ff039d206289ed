-------------------------- MODULE PartitionProofs --------------------------
(***************************************************************************)
(* What a cut returns, for every listing, policy and previous manifest.    *)
(*                                                                         *)
(* Numerals(Nat), that decimal numerals are strings and tell numbers       *)
(* apart, is a hypothesis wherever ids are numbered: it is a fact about    *)
(* TLC's ToString that its definition does not give.                       *)
(***************************************************************************)
EXTENDS Partition, ProofBasics, FiniteSetTheorems

----------------------------------------------------------------------------
(* Numbers *)

\* A product stays in any set of integers that holds 1 and is closed under
\* multiplication, if the factors are in it.
LEMMA ProductIn ==
  ASSUME NEW S \in SUBSET Int, 1 \in S, \A x, y \in S : x * y \in S, NEW ns \in Seq(S)
  PROVE  Product(ns) \in S
<1> DEFINE n == Len(ns)
           step == [k \in 1..n |-> [x \in S |-> x * ns[k]]]
           P(f) == f = [k \in 0..n |-> IF k = 0 THEN 1 ELSE f[k - 1] * ns[k]]
           product == CHOOSE f : P(f)
<1>1. n \in Nat /\ \A k \in 1..n : ns[k] \in S
  OBVIOUS
<1>2. Product(ns) = product[n]
  BY DEF Product
<1> HIDE DEF n
<1>3. step \in [1..n -> [S -> S]] /\ \A k \in 1..n, x \in S : step[k][x] = x * ns[k]
  BY <1>1
<1> HIDE DEF step, product
<1>4. \E f : P(f)
  <2>1. PICK f \in [0..n -> S] : Iterates(f, n, 1, step)
    BY <1>1, <1>3, IterationExists
  <2>2. f[0] = 1 /\ \A k \in 1..n : f[k] = f[k - 1] * ns[k]
    <3>1. \A k \in 1..n : k - 1 \in 0..n
      BY <1>1
    <3> QED
      BY <1>3, <2>1, <3>1, Zenon DEF Iterates
  <2>3. \A k \in 0..n : k # 0 => k \in 1..n
    BY <1>1
  <2>4. P(f)
    BY <2>1, <2>2, <2>3, Zenon
  <2> QED
    BY <2>4, Zenon
<1>5. P(product)
  BY <1>4 DEF product
<1>6. product[0] \in S /\ \A k \in 1..n : product[k] = product[k - 1] * ns[k]
  BY <1>1, <1>5
<1>7. \A k \in 0..n : product[k] \in S
  <2>1. \A k \in 1..n : product[k - 1] \in S => product[k] \in S
    BY <1>1, <1>6
  <2> QED
    BY <1>1, <1>6, <2>1, ValuesIn
<1> QED
  BY <1>1, <1>2, <1>7

\* Max and Min of two numbers.
LEMMA MaxOfTwo ==
  ASSUME NEW x \in Int, NEW y \in Int
  PROVE  Max({x, y}) \in {x, y} /\ Max({x, y}) >= x /\ Max({x, y}) >= y
<1>1. \E m \in {x, y} : \A z \in {x, y} : m >= z
  OBVIOUS
<1> QED
  BY <1>1 DEF Max

LEMMA MinOfTwo ==
  ASSUME NEW x \in Int, NEW y \in Int
  PROVE  Min({x, y}) \in {x, y} /\ Min({x, y}) <= x /\ Min({x, y}) <= y
<1>1. \E m \in {x, y} : \A z \in {x, y} : m <= z
  OBVIOUS
<1> QED
  BY <1>1 DEF Min

\* Doubling as long as it fits gives a positive width and no larger one.
LEMMA PowerOfTwoFits ==
  ASSUME NEW w \in Nat \ {0}
  PROVE  PowerOfTwoBelow(w) \in 1..w
<1> DEFINE double(x) == IF 2 * x <= w THEN 2 * x ELSE x
           step == [k \in 1..w |-> [x \in 1..w |-> double(x)]]
           P(f) == f = [k \in 0..w |-> IF k = 0 THEN 1 ELSE double(f[k - 1])]
           doubled == CHOOSE f : P(f)
<1>1. PowerOfTwoBelow(w) = doubled[w]
  BY DEF PowerOfTwoBelow
<1>2. w \in Nat /\ 1 \in 1..w /\ \A x \in 1..w : double(x) \in 1..w
  OBVIOUS
<1> HIDE DEF double
<1>3. step \in [1..w -> [1..w -> 1..w]] /\ \A k \in 1..w, x \in 1..w : step[k][x] = double(x)
  BY <1>2
<1> HIDE DEF step, doubled
<1>4. \E f : P(f)
  <2>1. PICK f \in [0..w -> 1..w] : Iterates(f, w, 1, step)
    BY <1>2, <1>3, IterationExists
  <2>2. f[0] = 1 /\ \A k \in 1..w : f[k] = double(f[k - 1])
    <3>1. \A k \in 1..w : k - 1 \in 0..w
      OBVIOUS
    <3> QED
      BY <1>3, <2>1, <3>1, Zenon DEF Iterates
  <2>3. \A k \in 0..w : k # 0 => k \in 1..w
    OBVIOUS
  <2>4. P(f)
    BY <2>1, <2>2, <2>3, Zenon
  <2> QED
    BY <2>4, Zenon
<1>5. P(doubled)
  BY <1>4 DEF doubled
<1>6. doubled[0] = 1 /\ \A k \in 1..w : doubled[k] = double(doubled[k - 1])
  BY <1>5
<1>7. \A k \in 0..w : doubled[k] \in 1..w
  <2>1. \A k \in 1..w : doubled[k - 1] \in 1..w => doubled[k] \in 1..w
    BY <1>2, <1>6
  <2> QED
    BY <1>2, <1>6, <2>1, ValuesIn
<1> QED
  BY <1>1, <1>7

\* The sizes of an array are numbers, and no stored object is empty.
LEMMA SizesOfArray ==
  ASSUME NEW arrays, IsListing(arrays), NEW a \in Range(arrays)
  PROVE  /\ NObjects(a) \in Nat
         /\ Product(ObjectShape(a)) \in Nat \ {0}
         /\ UncompressedObjectBytes(a) \in Nat \ {0}
         /\ TotalBytes(a) \in Nat
         /\ AvgObjectBytes(a) \in Nat \ {0}
<1>1. /\ a \in ArrayFields
      /\ Len(a.chunks) = Len(a.shape)
      /\ a.shards # <<>> => Len(a.shards) = Len(a.shape)
  BY DEF IsListing, Range
<1>2. /\ a.shape \in Seq(Nat) /\ a.itemsize \in Nat \ {0} /\ a.stored \in Nat /\ a.seen \in Nat
      /\ a.chunks \in Seq(Nat \ {0}) /\ a.shards \in Seq(Nat \ {0})
  BY <1>1, Zenon DEF ArrayFields
<1>3. ObjectShape(a) \in Seq(Nat \ {0}) /\ Len(ObjectShape(a)) = Len(a.shape)
  BY <1>1, <1>2, Zenon DEF ObjectShape
<1>4. ObjectGrid(a) \in Seq(Nat)
  <2>1. \A d \in 1..Len(a.shape) :
           (a.shape[d] + ObjectShape(a)[d] - 1) \div ObjectShape(a)[d] \in Nat
    <3>1. \A d \in 1..Len(a.shape) : a.shape[d] \in Nat /\ ObjectShape(a)[d] \in Nat \ {0}
      BY <1>2, <1>3
    <3>2. \A x \in Nat, y \in Nat \ {0} : (x + y - 1) \div y \in Nat
      OBVIOUS
    <3> QED
      BY <3>1, <3>2
  <2>2. Len(a.shape) \in Nat
    BY <1>2
  <2> QED
    BY <2>1, <2>2 DEF ObjectGrid
<1>5. NObjects(a) \in Nat
  BY <1>4, ProductIn DEF NObjects
<1>6. Product(ObjectShape(a)) \in Nat \ {0} /\ UncompressedObjectBytes(a) \in Nat \ {0}
  <2>1. \A x, y \in Nat \ {0} : x * y \in Nat \ {0}
    OBVIOUS
  <2>2. Product(ObjectShape(a)) \in Nat \ {0}
    BY <1>3, <2>1, ProductIn
  <2> QED
    BY <1>2, <2>1, <2>2 DEF UncompressedObjectBytes
<1>7. TotalBytes(a) \in Nat
  BY <1>2, <1>5, <1>6 DEF TotalBytes
<1>8. AvgObjectBytes(a) \in Nat \ {0}
  <2> DEFINE seen == IF a.seen # 0 THEN a.seen ELSE NObjects(a)
  <2>1. seen \in Nat
    BY <1>2, <1>5
  <2> HIDE DEF seen
  <2>2. Max({1, seen}) \in Nat \ {0}
    BY <2>1, MaxOfTwo
  <2>3. TotalBytes(a) \div Max({1, seen}) \in Int
    BY <1>7, <2>2
  <2>4. Max({1, TotalBytes(a) \div Max({1, seen})}) \in Nat \ {0}
    BY <2>3, MaxOfTwo
  <2> QED
    BY <2>4 DEF AvgObjectBytes, seen
<1> QED
  BY <1>5, <1>6, <1>7, <1>8

\* A bucket holds at least one index and, unless it holds only that, no more than
\* the clamp allows were every object as large as its shape says.
LEMMA BucketWidthFits ==
  ASSUME NEW arrays, IsListing(arrays), NEW a \in Range(arrays), NEW policy \in PolicyFields
  PROVE  /\ BucketWidth(a, policy) \in Nat \ {0}
         /\ \/ BucketWidth(a, policy) = 1
            \/ BucketWidth(a, policy) * UncompressedObjectBytes(a)
                   <= policy.width_clamp * policy.t_max
<1> DEFINE avg == AvgObjectBytes(a)
           bytes == UncompressedObjectBytes(a)
           room == policy.width_clamp * policy.t_max
           ideal == Max({1, policy.t_max \div avg})
           hard == Max({1, room \div bytes})
           width == Min({ideal, hard})
           floored == IF width >= policy.pow2_floor THEN PowerOfTwoBelow(width) ELSE width
<1>1. BucketWidth(a, policy) = floored
  BY DEF BucketWidth
<1>2. avg \in Nat \ {0} /\ bytes \in Nat \ {0}
  BY SizesOfArray
<1> HIDE DEF avg, bytes
<1>3. room \in Nat /\ policy.t_max \in Nat
  <2>1. policy.t_max \in Nat /\ policy.width_clamp \in Nat
    BY DEF PolicyFields
  <2> QED
    BY <2>1
<1>4. policy.t_max \div avg \in Nat /\ room \div bytes \in Nat
  <2> HIDE DEF room
  <2> QED
    BY <1>2, <1>3
<1>5. (room \div bytes) * bytes <= room
  <2>1. \A x \in Nat, y \in Nat \ {0} : (x \div y) * y <= x
    OBVIOUS
  <2> HIDE DEF room
  <2> QED
    BY <1>2, <1>3, <2>1
<1>6. ideal \in Nat \ {0} /\ hard \in Nat \ {0} /\ hard \in {1, room \div bytes}
  <2>1. ASSUME NEW x \in Nat
        PROVE  Max({1, x}) \in Nat \ {0} /\ Max({1, x}) \in {1, x}
    <3>1. 1 \in Int /\ x \in Int
      OBVIOUS
    <3>2. Max({1, x}) \in {1, x} /\ Max({1, x}) >= 1
      BY <3>1, MaxOfTwo, Zenon
    <3> QED
      BY <3>1, <3>2
  <2> QED
    BY <1>4, <2>1, Zenon
<1> HIDE DEF ideal, hard
<1>7. width \in Nat \ {0} /\ width <= hard
  <2>1. ideal \in Int /\ hard \in Int
    BY <1>6
  <2>2. Min({ideal, hard}) \in {ideal, hard} /\ Min({ideal, hard}) <= hard
    BY <2>1, MinOfTwo
  <2> QED
    BY <1>6, <2>2
<1> HIDE DEF width
<1>8. floored \in 1..width
  <2>1. PowerOfTwoBelow(width) \in 1..width /\ width \in 1..width
    BY <1>7, PowerOfTwoFits
  <2> QED
    BY <2>1, Zenon
<1> HIDE DEF floored, room
<1>9. floored \in Nat \ {0} /\ floored <= hard
  BY <1>6, <1>7, <1>8
<1>10. hard = room \div bytes => floored * bytes <= room
  <2>1. ASSUME NEW x \in Nat, NEW y \in Nat, NEW z \in Nat, x <= y
        PROVE  x * z <= y * z
    BY <2>1
  <2>2. hard = room \div bytes => floored * bytes <= (room \div bytes) * bytes
    BY <1>2, <1>4, <1>9, <2>1
  <2>3. floored * bytes \in Int /\ (room \div bytes) * bytes \in Int
    BY <1>2, <1>4, <1>9
  <2> QED
    BY <1>3, <1>5, <2>2, <2>3
<1>11. hard = 1 => floored = 1
  BY <1>9
<1> QED
  BY <1>1, <1>6, <1>9, <1>10, <1>11, Zenon DEF room, bytes

----------------------------------------------------------------------------
(* Ids *)

\* Sequences of strings, one after the other.
LEMMA FlattenedIn ==
  ASSUME NEW S, NEW seqs \in Seq(Seq(S))
  PROVE  /\ FlattenSeq(seqs) \in Seq(S)
         /\ seqs # <<>> /\ seqs[1] # <<>> => FlattenSeq(seqs) # <<>>
<1> DEFINE n == Len(seqs)
           P(f) == f = [i \in 1..n |-> IF i = 1 THEN seqs[i] ELSE f[i - 1] \o seqs[i]]
           flatten == CHOOSE f : P(f)
<1>1. n \in Nat /\ \A i \in 1..n : seqs[i] \in Seq(S)
  OBVIOUS
<1>2. CASE n = 0
  <2>1. seqs = <<>>
    BY <1>2
  <2>2. FlattenSeq(seqs) = seqs
    BY <1>2 DEF FlattenSeq
  <2>3. <<>> \in Seq(S)
    OBVIOUS
  <2> QED
    BY <2>1, <2>2, <2>3, Zenon
<1>3. CASE n # 0
  <2>1. FlattenSeq(seqs) = flatten[n]
    BY <1>3 DEF FlattenSeq
  <2> HIDE DEF n
  <2> DEFINE T == {s \in Seq(S) : seqs[1] # <<>> => s # <<>>}
             m == n - 1
             step == [k \in 1..m |-> [x \in T |-> x \o seqs[k + 1]]]
  <2>2. m \in Nat /\ \A k \in 1..m : k + 1 \in 1..n
    BY <1>1, <1>3
  <2>3. \A x \in T, i \in 1..n : x \o seqs[i] \in T
    BY <1>1
  <2>4. seqs[1] \in T
    BY <1>1, <1>3
  <2> HIDE DEF T
  <2>5. step \in [1..m -> [T -> T]] /\ \A k \in 1..m, x \in T : step[k][x] = x \o seqs[k + 1]
    BY <2>2, <2>3
  <2> HIDE DEF step, flatten
  <2>6. \E f : P(f)
    <3>1. PICK g \in [0..m -> T] : Iterates(g, m, seqs[1], step)
      BY <2>2, <2>4, <2>5, IterationExists
    <3>2. g[0] = seqs[1] /\ \A k \in 1..m : g[k] = g[k - 1] \o seqs[k + 1]
      <4>1. \A k \in 1..m : k - 1 \in 0..m
        BY <2>2
      <4> QED
        BY <2>5, <3>1, <4>1, Zenon DEF Iterates
    <3> DEFINE f == [i \in 1..n |-> g[i - 1]]
    <3>3. \A i \in 1..n : i # 1 => g[i - 1] = g[(i - 1) - 1] \o seqs[(i - 1) + 1]
      <4>1. \A i \in 1..n : i # 1 => i - 1 \in 1..m
        BY <1>1, <2>2
      <4> QED
        BY <3>2, <4>1, Zenon
    <3>4. \A i \in 1..n : i # 1 => (i - 1) + 1 = i /\ i - 1 \in 1..n
      BY <1>1
    <3>5. \A i \in 1..n : i # 1 => f[i] = f[i - 1] \o seqs[i]
      BY <3>3, <3>4, Zenon
    <3>6. \A i \in 1..n : i = 1 => f[i] = seqs[i]
      BY <3>2
    <3>7. f = [i \in 1..n |-> f[i]]
      OBVIOUS
    <3> HIDE DEF f
    <3>8. P(f)
      BY <3>5, <3>6, <3>7, Zenon
    <3> QED
      BY <3>8, Zenon
  <2>7. P(flatten)
    BY <2>6 DEF flatten
  <2> DEFINE h == [k \in 0..m |-> flatten[k + 1]]
  <2>8. h[0] \in T
    BY <1>1, <1>3, <2>2, <2>4, <2>7
  <2>9. \A k \in 1..m : h[k] = h[k - 1] \o seqs[k + 1]
    <3>1. \A k \in 1..m : /\ k \in 0..m /\ k - 1 \in 0..m /\ (k - 1) + 1 = k
                          /\ k + 1 \in 1..n /\ k + 1 # 1 /\ (k + 1) - 1 = k
      BY <1>1, <2>2
    <3>2. \A k \in 1..m : h[k] = flatten[k + 1] /\ h[k - 1] = flatten[k]
      BY <3>1, Zenon
    <3>3. \A i \in 1..n : i # 1 => flatten[i] = flatten[i - 1] \o seqs[i]
      BY <2>7
    <3>4. \A k \in 1..m : flatten[k + 1] = flatten[k] \o seqs[k + 1]
      BY <3>1, <3>3
    <3> QED
      BY <3>2, <3>4, Zenon
  <2>10. h[m] = flatten[n]
    BY <1>1, <2>2
  <2> HIDE DEF h
  <2>11. \A k \in 1..m : h[k - 1] \in T => h[k] \in T
    BY <2>2, <2>3, <2>9
  <2>12. h[m] \in T
    <3>1. \A k \in 0..m : h[k] \in T
      BY <2>2, <2>8, <2>11, ValuesIn
    <3> QED
      BY <2>2, <3>1
  <2> QED
    BY <2>1, <2>10, <2>12 DEF T
<1> QED
  BY <1>2, <1>3

\* No sequence, or a single one.
LEMMA FlattenedFew ==
  ASSUME NEW s
  PROVE  FlattenSeq(<<>>) = <<>> /\ FlattenSeq(<<s>>) = s
<1> DEFINE P(f) == f = [i \in 1..1 |-> IF i = 1 THEN <<s>>[i] ELSE f[i - 1] \o <<s>>[i]]
           flatten == CHOOSE f : P(f)
           one == [i \in 1..1 |-> s]
<1>1. FlattenSeq(<<>>) = <<>>
  BY DEF FlattenSeq
<1>2. FlattenSeq(<<s>>) = flatten[1]
  <2>1. Len(<<s>>) = 1
    OBVIOUS
  <2> QED
    BY <2>1 DEF FlattenSeq
<1>3. P(one)
  <2>1. \A i \in 1..1 : i = 1
    OBVIOUS
  <2>2. <<s>>[1] = s
    OBVIOUS
  <2> QED
    BY <2>1, <2>2, Zenon
<1> HIDE DEF one
<1>4. P(flatten)
  BY <1>3, Zenon
<1> HIDE DEF flatten
<1>5. flatten[1] = s
  <2>1. 1 \in 1..1 /\ <<s>>[1] = s
    OBVIOUS
  <2> QED
    BY <1>4, <2>1, Zenon
<1> QED
  BY <1>1, <1>2, <1>5

\* One element, alone or before others.
LEMMA Singleton ==
  ASSUME NEW S, NEW x \in S
  PROVE  /\ <<x>> \in Seq(S) /\ <<x>> # <<>>
         /\ \A s \in Seq(S) : <<x>> \o s \in Seq(S) /\ <<x>> \o s # <<>>
OBVIOUS

\* The words of one path, and of the paths of a group.
LEMMA IdentType ==
  ASSUME NEW path \in Seq(DOMAIN Words)
  PROVE  Ident(path) \in Seq(STRING) /\ Ident(path) # <<>>
<1> DEFINE seqs == [i \in DOMAIN path |-> Words[path[i]]]
<1>1. seqs \in Seq(Seq(STRING))
  <2>1. \A i \in DOMAIN path : Words[path[i]] \in Seq(STRING)
    BY WordsAssumption
  <2> QED
    BY <2>1
<1> HIDE DEF seqs
<1>2. FlattenSeq(seqs) \in Seq(STRING)
  BY <1>1, FlattenedIn
<1>3. <<"root">> \in Seq(STRING) /\ <<"root">> # <<>>
  <2>1. "root" \in STRING
    BY WordsAssumption
  <2> QED
    BY <2>1, Singleton, Zenon
<1> QED
  BY <1>2, <1>3, Zenon DEF Ident, seqs

LEMMA GroupIdType ==
  ASSUME NEW prefixes \in Seq(Seq(DOMAIN Words))
  PROVE  GroupId(prefixes) \in Seq(STRING) /\ GroupId(prefixes) # <<>>
<1> DEFINE seqs == [i \in DOMAIN prefixes |-> Ident(prefixes[i])]
<1>1. seqs \in Seq(Seq(STRING))
  <2>1. \A i \in DOMAIN prefixes : prefixes[i] \in Seq(DOMAIN Words)
    OBVIOUS
  <2>2. \A i \in DOMAIN prefixes : Ident(prefixes[i]) \in Seq(STRING)
    BY <2>1, IdentType
  <2>3. DOMAIN prefixes = 1..Len(prefixes) /\ Len(prefixes) \in Nat
    OBVIOUS
  <2> QED
    BY <2>2, <2>3
<1> HIDE DEF seqs
<1>2. FlattenSeq(seqs) \in Seq(STRING)
  BY <1>1, FlattenedIn
<1>3. \A s \in Seq(STRING) : <<"b">> \o s \in Seq(STRING) /\ <<"b">> \o s # <<>>
  <2>1. "b" \in STRING
    BY WordsAssumption
  <2> QED
    BY <2>1, Singleton, Zenon
<1> QED
  BY <1>2, <1>3, Zenon DEF GroupId, seqs

\* An id is never handed out twice: of the Cardinality(taken) + 1 numbers tried, one
\* is free.
LEMMA UniqIsFree ==
  ASSUME Numerals(Nat), NEW ident \in Seq(STRING), ident # <<>>,
         NEW taken, IsFiniteSet(taken)
  PROVE  /\ Uniq(ident, taken) \in Seq(STRING)
         /\ Uniq(ident, taken) # <<>>
         /\ Uniq(ident, taken) \notin taken
         /\ \/ Uniq(ident, taken) = ident
            \/ /\ ident \in taken
               /\ \E k \in Nat : Uniq(ident, taken) = Append(ident, ToString(k))
<1> DEFINE c == Cardinality(taken)
           numbers == 2..(c + 2)
           numbered(n) == Append(ident, ToString(n))
           free == {n \in numbers : numbered(n) \notin taken}
<1>1. c \in Nat
  BY FS_CardinalityType
<1> HIDE DEF c
<1>2. \A n \in numbers : /\ n \in Nat
                         /\ numbered(n) \in Seq(STRING)
                         /\ numbered(n) # <<>>
  <2>1. \A n \in numbers : n \in Nat /\ ToString(n) \in STRING
    BY <1>1 DEF Numerals
  <2>2. ASSUME NEW w \in STRING
        PROVE  Append(ident, w) \in Seq(STRING) /\ Append(ident, w) # <<>>
    BY AppendProperties
  <2> QED
    BY <2>1, <2>2, Zenon
<1>3. \A i, j \in numbers : numbered(i) = numbered(j) => i = j
  <2>1. \A v, w \in STRING : Append(ident, v) = Append(ident, w) => v = w
    <3> SUFFICES ASSUME NEW v \in STRING, NEW w \in STRING, Append(ident, v) = Append(ident, w)
                 PROVE  v = w
      OBVIOUS
    <3>1. Append(ident, v)[Len(ident) + 1] = v /\ Append(ident, w)[Len(ident) + 1] = w
      BY AppendProperties
    <3> QED
      BY <3>1
  <2>2. \A n \in numbers : n \in Nat /\ ToString(n) \in STRING
    BY <1>1 DEF Numerals
  <2> QED
    BY <2>1, <2>2, Zenon DEF Numerals
<1>4. free # {}
  <2> SUFFICES ASSUME \A n \in numbers : numbered(n) \in taken PROVE FALSE
    OBVIOUS
  <2> DEFINE f == [n \in numbers |-> numbered(n)]
  <2>1. f \in Injection(numbers, taken)
    BY <1>3, Zenon DEF Injection, IsInjective
  <2>2. Cardinality(numbers) <= c
    BY <2>1, FS_Injection DEF c
  <2>3. Cardinality(numbers) = c + 1
    BY <1>1, FS_Interval
  <2> QED
    BY <1>1, <2>2, <2>3
<1>5. Min(free) \in free
  <2>1. free \in SUBSET Nat
    BY <1>2
  <2> HIDE DEF free
  <2>2. \E x \in free : \A y \in free : x <= y
    BY <1>4, <2>1, LeastNatural
  <2> QED
    BY <2>2 DEF Min
<1>6. Uniq(ident, taken) = IF ident \notin taken THEN ident ELSE numbered(Min(free))
  BY DEF Uniq, c
<1> QED
  BY <1>2, <1>5, <1>6, Zenon

----------------------------------------------------------------------------
(* One more blob *)

Paths == Seq(DOMAIN Words)

\* A blob made from a listing.
Made(b, arrays, policy) ==
    /\ b \in BlobFields /\ WellFormed(b)
    /\ b.prefixes \in Seq(Paths)
    /\ IsBucketed(b) => \E a \in Range(arrays) :
                           /\ b.prefixes = <<ChunkPrefix(a)>>
                           /\ b.bucket = BucketFor(a, policy)

AccFields(arrays) ==
    [out: SUBSET BlobFields, latest: BlobFields, taken: SUBSET Seq(STRING),
     group: Seq(Range(arrays)), size: Nat]

\* What holds of an accumulator that began with the ids `before`.
Sane(acc, arrays, policy, before) ==
    /\ acc \in AccFields(arrays)
    /\ IsFiniteSet(acc.out) /\ IsFiniteSet(acc.taken)
    /\ \A b \in acc.out : Made(b, arrays, policy)
    /\ UniqueIds(acc.out)
    /\ before \subseteq acc.taken
    /\ \A b \in acc.out : b.id \in acc.taken \ before

\* What the bucket of a blob with these prefixes may be.
FitBucket(bucket, prefixes, arrays, policy) ==
    /\ bucket \in BucketFields
    /\ bucket.width # 0 =>
          /\ bucket.encoding \in KEY_ENCODINGS
          /\ \E a \in Range(arrays) :
                prefixes = <<ChunkPrefix(a)>> /\ bucket = BucketFor(a, policy)

\* An accumulator with a blob of these prefixes more.
Extended(new, acc, prefixes) ==
    /\ new.latest.prefixes = prefixes
    /\ new.out = acc.out \cup {new.latest}
    /\ new.group = <<>>

LEMMA PathsAreStrings ==
  Paths \subseteq Seq(STRING) /\ Seq(Paths) \subseteq Seq(Seq(STRING))
<1>1. Paths \subseteq Seq(STRING)
  <2>1. DOMAIN Words \subseteq STRING
    BY WordsAssumption
  <2> QED
    BY <2>1, SeqMonotonic DEF Paths
<1>2. ASSUME NEW s \in Seq(Paths)
      PROVE  s \in Seq(Seq(STRING))
  BY <1>1, SeqMonotonic
<1> QED
  BY <1>1, <1>2

LEMMA ChunkPrefixType ==
  ASSUME NEW arrays, IsListing(arrays), NEW a \in Range(arrays)
  PROVE  a.path \in Paths /\ ChunkPrefix(a) \in Paths
<1>1. a.path \in Paths
  BY DEF IsListing, Paths
<1>2. Append(a.path, "c") \in Paths
  <2>1. "c" \in DOMAIN Words
    BY WordsAssumption
  <2> QED
    BY <1>1, <2>1, AppendProperties DEF Paths
<1> QED
  BY <1>1, <1>2, Zenon DEF ChunkPrefix

\* An accumulator stays sane, whatever the next blob is.
LEMMA AllocateIsSane ==
  ASSUME Numerals(Nat),
         NEW arrays, NEW policy, NEW before,
         NEW acc, Sane(acc, arrays, policy, before),
         NEW ident \in Seq(STRING), ident # <<>>,
         NEW prefixes \in Seq(Paths), prefixes # <<>>,
         NEW bucket, FitBucket(bucket, prefixes, arrays, policy)
  PROVE  /\ Sane(Allocate(acc, ident, prefixes, bucket), arrays, policy, before)
         /\ Extended(Allocate(acc, ident, prefixes, bucket), acc, prefixes)
<1> DEFINE id == Uniq(ident, acc.taken)
           blob == [id |-> id, prefixes |-> prefixes, bucket |-> bucket]
           new == Allocate(acc, ident, prefixes, bucket)
<1>1. id \in Seq(STRING) /\ id # <<>> /\ id \notin acc.taken
  BY UniqIsFree DEF Sane
<1>2. new = [out |-> acc.out \cup {blob}, latest |-> blob, taken |-> acc.taken \cup {blob.id},
             group |-> <<>>, size |-> 0]
  BY Zenon DEF Allocate, Blob
<1> HIDE DEF id
<1>3. blob.id = id /\ blob.prefixes = prefixes /\ blob.bucket = bucket
  OBVIOUS
<1>4. blob \in BlobFields
  BY <1>1, PathsAreStrings DEF BlobFields, FitBucket
<1> HIDE DEF blob, new
<1>5. Made(blob, arrays, policy)
  <2>1. IsBucketed(blob) => /\ blob.bucket.encoding \in KEY_ENCODINGS
                            /\ Len(blob.prefixes) = 1
                            /\ blob.bucket.width >= 1 /\ blob.bucket.index >= 0
    <3> SUFFICES ASSUME bucket.width # 0
                 PROVE  /\ bucket.encoding \in KEY_ENCODINGS
                        /\ Len(prefixes) = 1
                        /\ bucket.width >= 1 /\ bucket.index >= 0
      BY <1>3 DEF IsBucketed
    <3>1. bucket.width \in Nat /\ bucket.index \in Nat
      BY DEF BucketFields, FitBucket
    <3>2. bucket.encoding \in KEY_ENCODINGS /\ \E a \in Range(arrays) : prefixes = <<ChunkPrefix(a)>>
      BY Zenon DEF FitBucket
    <3>3. Len(prefixes) = 1
      BY <3>2
    <3> QED
      BY <3>1, <3>2, <3>3
  <2>2. WellFormed(blob)
    BY <1>1, <1>3, <2>1, Zenon DEF WellFormed
  <2> QED
    BY <1>3, <1>4, <2>2, Zenon DEF Made, IsBucketed, FitBucket
<1>6. /\ new.out = acc.out \cup {blob} /\ new.latest = blob
      /\ new.taken = acc.taken \cup {id} /\ new.group = <<>> /\ new.size = 0
  BY <1>2, <1>3
<1>7. acc \in AccFields(arrays) /\ acc.out \subseteq BlobFields /\ acc.taken \subseteq Seq(STRING)
  BY DEF Sane, AccFields
<1>8. new \in AccFields(arrays)
  <2>1. blob.id \in Seq(STRING) /\ <<>> \in Seq(Range(arrays)) /\ 0 \in Nat
    BY <1>1, <1>3
  <2> QED
    BY <1>2, <1>4, <1>7, <2>1 DEF AccFields
<1>9. IsFiniteSet(new.out) /\ IsFiniteSet(new.taken)
  <2>1. IsFiniteSet(acc.out) /\ IsFiniteSet(acc.taken)
    BY DEF Sane
  <2>2. IsFiniteSet(acc.out \cup {blob}) /\ IsFiniteSet(acc.taken \cup {id})
    BY <2>1, FS_AddElement
  <2> QED
    BY <1>6, <2>2, Zenon
<1>10. UniqueIds(new.out)
  <2>1. UniqueIds(acc.out) /\ \A b \in acc.out : b.id \in acc.taken
    BY DEF Sane
  <2> QED
    BY <1>1, <1>3, <1>6, <2>1, Zenon DEF UniqueIds
<1>11. Sane(new, arrays, policy, before)
  <2>1. \A b \in new.out : Made(b, arrays, policy)
    BY <1>5, <1>6, Zenon DEF Sane
  <2>2. before \subseteq new.taken
    BY <1>6, Zenon DEF Sane
  <2>3. \A b \in new.out : b.id \in new.taken \ before
    BY <1>1, <1>3, <1>6, Zenon DEF Sane
  <2> QED
    BY <1>8, <1>9, <1>10, <2>1, <2>2, <2>3, Zenon DEF Sane
<1> QED
  BY <1>3, <1>6, <1>11, Zenon DEF new, Extended

PrefixesOf(blobs) == UNION {Range(b.prefixes) : b \in blobs}

\* One more blob with prefixes nobody claims.
LEMMA AddedDisjoint ==
  ASSUME NEW blobs, Disjoint(blobs), NEW b, Range(b.prefixes) \cap PrefixesOf(blobs) = {}
  PROVE  /\ Disjoint(blobs \cup {b})
         /\ PrefixesOf(blobs \cup {b}) = PrefixesOf(blobs) \cup Range(b.prefixes)
<1>1. PrefixesOf(blobs \cup {b}) = PrefixesOf(blobs) \cup Range(b.prefixes)
  BY DEF PrefixesOf
<1>2. \A d \in blobs : Range(b.prefixes) \cap Range(d.prefixes) = {}
  BY DEF PrefixesOf
<1>3. \A d \in blobs : Range(d.prefixes) \cap Range(b.prefixes) = {}
  BY <1>2
<1> QED
  BY <1>1, <1>2, <1>3, Zenon DEF Disjoint

----------------------------------------------------------------------------
(* Names *)

IdsOf(blobs) == {b.id : b \in blobs}

\* The id a blob is given unless it is in use: what it is called says what it claims.
Stem(b) ==
    LET prefix == b.prefixes[1]
        path == IF b.bucket.encoding = "v3_slash" THEN Front(prefix) ELSE prefix
    IN IF IsBucketed(b) THEN <<"b">> \o Ident(path) ELSE GroupId(b.prefixes)

\* A blob bears its preferred id, or a numbered one because that is in use.
Spelled(b, ids) ==
    \/ b.id = Stem(b)
    \/ Stem(b) \in ids /\ \E k \in Nat : b.id = Append(Stem(b), ToString(k))

AllSpelled(blobs, ids) == \A b \in blobs : Spelled(b, ids)

\* Blobs named after each other and the ids in use before.
NewlySpelled(blobs, taken) == AllSpelled(blobs, taken \cup IdsOf(blobs))

\* What holds of the names of an accumulator: even without the blob made last, whose
\* id may be given back, the others are named after what is in use.
Named(acc, before) ==
    /\ acc.taken \subseteq before \cup IdsOf(acc.out)
    /\ AllSpelled(acc.out, before \cup IdsOf(acc.out \ {acc.latest}))

LEMMA SpelledByMore ==
  ASSUME NEW blobs, NEW ids, NEW more, ids \subseteq more, AllSpelled(blobs, ids)
  PROVE  AllSpelled(blobs, more)
BY DEF AllSpelled, Spelled

LEMMA NamedIsSpelled ==
  ASSUME NEW acc, NEW before, Named(acc, before)
  PROVE  NewlySpelled(acc.out, before)
<1>1. before \cup IdsOf(acc.out \ {acc.latest}) \subseteq before \cup IdsOf(acc.out)
  BY DEF IdsOf
<1> QED
  BY <1>1, SpelledByMore DEF Named, NewlySpelled

LEMMA StartIsNamed ==
  ASSUME NEW taken
  PROVE  Named(Start(taken), taken)
<1>1. Start(taken).out = {} /\ Start(taken).taken = taken
  BY DEF Start
<1> QED
  BY <1>1 DEF Named, AllSpelled

\* One more blob is named after what is in use.
LEMMA AllocateIsNamed ==
  ASSUME Numerals(Nat),
         NEW arrays, NEW policy, NEW before,
         NEW acc, Sane(acc, arrays, policy, before),
         acc.taken \subseteq before \cup IdsOf(acc.out),
         NewlySpelled(acc.out, before),
         NEW ident \in Seq(STRING), ident # <<>>, NEW prefixes, NEW bucket,
         Stem(Allocate(acc, ident, prefixes, bucket).latest) = ident
  PROVE  Named(Allocate(acc, ident, prefixes, bucket), before)
<1> DEFINE blob == Blob(ident, prefixes, bucket, acc.taken)
           new == Allocate(acc, ident, prefixes, bucket)
<1>1. /\ new.out = acc.out \cup {blob} /\ new.latest = blob
      /\ new.taken = acc.taken \cup {blob.id} /\ blob.id = Uniq(ident, acc.taken)
  BY Zenon DEF Allocate, Blob
<1> HIDE DEF blob, new
<1>2. /\ blob.id \notin acc.taken
      /\ \/ blob.id = ident
         \/ ident \in acc.taken /\ \E k \in Nat : blob.id = Append(ident, ToString(k))
  <2> DEFINE taken == acc.taken
             id == Uniq(ident, taken)
  <2>1. IsFiniteSet(taken)
    BY DEF Sane
  <2> HIDE DEF taken
  <2>2. id \notin taken
    BY <2>1, UniqIsFree
  <2>3. id = ident \/ (ident \in taken /\ \E k \in Nat : id = Append(ident, ToString(k)))
    BY <2>1, UniqIsFree
  <2>4. id = blob.id
    BY <1>1 DEF taken
  <2> HIDE DEF id
  <2> QED
    BY <2>2, <2>3, <2>4 DEF taken
<1>3. new.out \ {new.latest} = acc.out
  <2>1. \A b \in acc.out : b.id \in acc.taken
    BY DEF Sane
  <2> QED
    BY <1>1, <1>2, <2>1
<1>4. Stem(blob) = ident
  BY <1>1 DEF new
<1>5. Spelled(blob, before \cup IdsOf(acc.out))
  BY <1>2, <1>4 DEF Spelled
<1>6. AllSpelled(new.out, before \cup IdsOf(new.out \ {new.latest}))
  BY <1>1, <1>3, <1>5 DEF AllSpelled, NewlySpelled
<1>7. new.taken \subseteq before \cup IdsOf(new.out)
  BY <1>1 DEF IdsOf
<1> QED
  BY <1>6, <1>7 DEF Named, new

----------------------------------------------------------------------------
(* Large arrays *)

LEMMA StartIsSane ==
  ASSUME NEW arrays, NEW policy, NEW taken \in SUBSET Seq(STRING), IsFiniteSet(taken)
  PROVE  Sane(Start(taken), arrays, policy, taken)
<1> DEFINE acc == Start(taken)
<1>1. acc = [out |-> {}, latest |-> NoBlob, taken |-> taken, group |-> <<>>, size |-> 0]
  BY DEF Start
<1>2. NoBlob \in BlobFields
  <2>1. /\ <<>> \in Seq(STRING) /\ <<>> \in Seq(Seq(STRING)) /\ 0 \in Nat
        /\ NoBucket.encoding \in KEY_ENCODINGS \cup {NoBucket.encoding}
    OBVIOUS
  <2>2. NoBucket \in BucketFields
    BY <2>1 DEF NoBucket, BucketFields
  <2> QED
    BY <2>1, <2>2, Zenon DEF NoBlob, BlobFields
<1>3. acc \in AccFields(arrays)
  <2>1. {} \in SUBSET BlobFields /\ <<>> \in Seq(Range(arrays)) /\ 0 \in Nat
    OBVIOUS
  <2> QED
    BY <1>1, <1>2, <2>1 DEF AccFields
<1>4. acc.out = {} /\ acc.taken = taken
  BY <1>1
<1>5. IsFiniteSet({})
  BY FS_EmptySet
<1> HIDE DEF acc
<1> QED
  BY <1>3, <1>4, <1>5, Zenon DEF Sane, UniqueIds, acc

\* The path of an array is read off the prefix of its chunk keys.
LEMMA StemOfLarge ==
  ASSUME NEW a, a.path \in Paths, NEW b, b.prefixes = <<ChunkPrefix(a)>>,
         b.bucket.encoding = a.encoding, IsBucketed(b)
  PROVE  Stem(b) = <<"b">> \o Ident(a.path)
<1> DEFINE prefix == b.prefixes[1]
           path == IF b.bucket.encoding = "v3_slash" THEN Front(prefix) ELSE prefix
<1>1. prefix = ChunkPrefix(a)
  OBVIOUS
<1>2. Front(Append(a.path, "c")) = a.path
  <2>1. /\ Len(a.path) \in Nat /\ a.path = [i \in 1..Len(a.path) |-> a.path[i]]
        /\ "c" \in DOMAIN Words
    BY WordsAssumption DEF Paths
  <2>2. /\ Len(Append(a.path, "c")) = Len(a.path) + 1
        /\ \A i \in 1..Len(a.path) : Append(a.path, "c")[i] = a.path[i]
    BY <2>1 DEF Paths
  <2>3. SubSeq(Append(a.path, "c"), 1, Len(a.path)) = a.path
    BY <2>1, <2>2 DEF Paths
  <2> QED
    BY <2>1, <2>2, <2>3 DEF Front
<1>3. path = a.path
  BY <1>1, <1>2 DEF ChunkPrefix
<1> HIDE DEF path
<1>4. Stem(b) = <<"b">> \o Ident(path)
  BY DEF Stem, path
<1> QED
  BY <1>3, <1>4

LEMMA LargeIsNamed ==
  ASSUME Numerals(Nat), NEW arrays, IsListing(arrays), NEW policy \in PolicyFields, NEW before,
         NEW acc, Sane(acc, arrays, policy, before), Named(acc, before), NEW a \in Range(arrays)
  PROVE  Named(Allocate(acc, <<"b">> \o Ident(a.path), <<ChunkPrefix(a)>>,
                        BucketFor(a, policy)), before)
<1> DEFINE ident == <<"b">> \o Ident(a.path)
           prefixes == <<ChunkPrefix(a)>>
           bucket == BucketFor(a, policy)
           b == Allocate(acc, ident, prefixes, bucket).latest
<1>1. ident \in Seq(STRING) /\ ident # <<>>
  <2>1. "b" \in STRING
    BY WordsAssumption
  <2>2. Ident(a.path) \in Seq(STRING)
    BY ChunkPrefixType, IdentType DEF Paths
  <2> QED
    BY <2>1, <2>2, Singleton
<1>2. Stem(b) = ident
  <2>1. b.prefixes = prefixes /\ b.bucket = bucket
    BY DEF Allocate, Blob
  <2>2. bucket.encoding = a.encoding /\ bucket.width = BucketWidth(a, policy)
    BY DEF BucketFor
  <2>3. BucketWidth(a, policy) # 0
    BY BucketWidthFits
  <2>4. a.path \in Paths
    BY ChunkPrefixType
  <2> HIDE DEF b, bucket
  <2>5. IsBucketed(b)
    BY <2>1, <2>2, <2>3 DEF IsBucketed
  <2> QED
    BY <2>1, <2>2, <2>4, <2>5, StemOfLarge
<1>3. /\ acc.taken \subseteq before \cup IdsOf(acc.out)
      /\ NewlySpelled(acc.out, before)
  BY NamedIsSpelled DEF Named
<1>4. Stem(Allocate(acc, ident, prefixes, bucket).latest) = ident
  BY <1>2
<1> HIDE DEF ident, prefixes, bucket, b
<1>5. Named(Allocate(acc, ident, prefixes, bucket), before)
  BY <1>1, <1>3, <1>4, AllocateIsNamed
<1> QED
  BY <1>5 DEF ident, prefixes, bucket

\* The blobs of the large arrays.
LEMMA CutLargeResult ==
  ASSUME Numerals(Nat),
         NEW arrays, IsListing(arrays), NEW policy \in PolicyFields,
         NEW large \in SUBSET Range(arrays),
         NEW taken \in SUBSET Seq(STRING), IsFiniteSet(taken)
  PROVE  LET cut == CutLarge(arrays, large, policy, taken)
         IN  /\ Sane(cut, arrays, policy, taken)
             /\ Disjoint(cut.out)
             /\ PrefixesOf(cut.out) = {ChunkPrefix(a) : a \in large}
             /\ \A b \in cut.out : IsBucketed(b)
             /\ Named(cut, taken)
<1> DEFINE n == Len(arrays)
           one(x, a) == Allocate(x, <<"b">> \o Ident(a.path), <<ChunkPrefix(a)>>,
                                 BucketFor(a, policy))
           next(x, k) == IF arrays[k] \notin large THEN x ELSE one(x, arrays[k])
           P(f) == f = [k \in 0..n |-> IF k = 0 THEN Start(taken)
                                      ELSE IF arrays[k] \notin large THEN f[k - 1]
                                      ELSE one(f[k - 1], arrays[k])]
           cut == CHOOSE f : P(f)
           S == {x \in AccFields(arrays) : Sane(x, arrays, policy, taken)}
           step == [k \in 1..n |-> [x \in S |-> next(x, k)]]
<1>1. CutLarge(arrays, large, policy, taken) = cut[n]
  BY DEF CutLarge
<1>2. n \in Nat /\ \A k \in 1..n : arrays[k] \in Range(arrays)
  BY DEF IsListing, Range
<1> HIDE DEF n
<1>3. Start(taken) \in S
  BY StartIsSane DEF Sane
<1>4. ASSUME NEW x \in S, NEW a \in Range(arrays)
      PROVE  /\ one(x, a) \in S
             /\ one(x, a).latest.prefixes = <<ChunkPrefix(a)>>
             /\ one(x, a).out = x.out \cup {one(x, a).latest}
             /\ IsBucketed(one(x, a).latest)
  <2>1. Ident(a.path) \in Seq(STRING)
    BY ChunkPrefixType, IdentType DEF Paths
  <2>2. <<"b">> \o Ident(a.path) \in Seq(STRING) /\ <<"b">> \o Ident(a.path) # <<>>
    <3>1. "b" \in STRING
      BY WordsAssumption
    <3> QED
      BY <2>1, <3>1, Singleton
  <2>3. <<ChunkPrefix(a)>> \in Seq(Paths) /\ <<ChunkPrefix(a)>> # <<>>
    BY ChunkPrefixType, Singleton
  <2>4. BucketWidth(a, policy) \in Nat
    BY BucketWidthFits
  <2>5. a.encoding \in KEY_ENCODINGS
    <3>1. a \in ArrayFields
      BY DEF IsListing, Range
    <3> QED
      BY <3>1, Zenon DEF ArrayFields
  <2>6. FitBucket(BucketFor(a, policy), <<ChunkPrefix(a)>>, arrays, policy)
    <3>1. /\ BucketFor(a, policy) \in BucketFields
          /\ BucketFor(a, policy).encoding \in KEY_ENCODINGS
      BY <2>4, <2>5 DEF BucketFor, BucketFields
    <3> QED
      BY <3>1, Zenon DEF FitBucket
  <2>7. Sane(x, arrays, policy, taken)
    OBVIOUS
  <2> HIDE DEF S
  <2>8. /\ Sane(one(x, a), arrays, policy, taken)
        /\ one(x, a).latest.prefixes = <<ChunkPrefix(a)>>
        /\ one(x, a).out = x.out \cup {one(x, a).latest}
    <3> DEFINE ident == <<"b">> \o Ident(a.path)
               prefixes == <<ChunkPrefix(a)>>
               bucket == BucketFor(a, policy)
    <3>1. /\ ident \in Seq(STRING) /\ ident # <<>>
          /\ prefixes \in Seq(Paths) /\ prefixes # <<>>
          /\ FitBucket(bucket, prefixes, arrays, policy)
      BY <2>2, <2>3, <2>6, Zenon
    <3>2. one(x, a) = Allocate(x, ident, prefixes, bucket)
      BY DEF one
    <3> HIDE DEF ident, prefixes, bucket
    <3>3. Sane(x, arrays, policy, taken) /\ Numerals(Nat)
      BY <2>7
    <3>4. /\ Sane(Allocate(x, ident, prefixes, bucket), arrays, policy, taken)
          /\ Extended(Allocate(x, ident, prefixes, bucket), x, prefixes)
      BY <3>1, <3>3, AllocateIsSane
    <3> QED
      BY <3>2, <3>4, Zenon DEF Extended, prefixes
  <2>9. IsBucketed(one(x, a).latest)
    <3>1. BucketWidth(a, policy) # 0
      BY BucketWidthFits
    <3>2. one(x, a).latest.bucket = BucketFor(a, policy)
      BY Zenon DEF Allocate, Blob
    <3> HIDE DEF one
    <3> QED
      BY <3>1, <3>2 DEF IsBucketed, BucketFor
  <2> QED
    BY <2>8, <2>9, Zenon DEF S, Sane
<1> HIDE DEF one, S
<1>5. step \in [1..n -> [S -> S]] /\ \A k \in 1..n, x \in S : step[k][x] = next(x, k)
  <2>1. \A k \in 1..n, x \in S : next(x, k) \in S
    BY <1>2, <1>4, Zenon
  <2> HIDE DEF next
  <2> QED
    BY <2>1
<1> HIDE DEF step, cut
<1>6. \E f : P(f)
  <2>1. PICK f \in [0..n -> S] : Iterates(f, n, Start(taken), step)
    BY <1>2, <1>3, <1>5, IterationExists
  <2>2. f[0] = Start(taken) /\ \A k \in 1..n : f[k] = next(f[k - 1], k)
    <3>1. \A k \in 1..n : k - 1 \in 0..n
      BY <1>2
    <3> HIDE DEF next
    <3> QED
      BY <1>5, <2>1, <3>1, Zenon DEF Iterates
  <2>3. \A k \in 0..n : k # 0 => k \in 1..n
    BY <1>2
  <2>4. P(f)
    BY <2>1, <2>2, <2>3, Zenon
  <2> QED
    BY <2>4, Zenon
<1>7. cut[0] = Start(taken) /\ \A k \in 1..n : cut[k] = next(cut[k - 1], k)
  <2>1. P(cut)
    BY <1>6 DEF cut
  <2>2. 0 \in 0..n /\ \A k \in 1..n : k \in 0..n /\ k # 0
    BY <1>2
  <2> QED
    BY <2>1, <2>2, Zenon
<1>8. \A k \in 0..n : cut[k] \in S
  <2>1. \A k \in 1..n : cut[k - 1] \in S => cut[k] \in S
    BY <1>2, <1>4, <1>7, Zenon
  <2> QED
    BY <1>2, <1>3, <1>7, <2>1, ValuesIn
<1> DEFINE met(k) == {a \in large : \E i \in 1..k : arrays[i] = a}
           T == {k \in 0..n : /\ Disjoint(cut[k].out) /\ (\A b \in cut[k].out : IsBucketed(b))
                              /\ Named(cut[k], taken)
                              /\ PrefixesOf(cut[k].out) = {ChunkPrefix(a) : a \in met(k)}}
<1>9. 0 \in T
  <2>1. cut[0].out = {}
    BY <1>7 DEF Start
  <2>2. met(0) = {} /\ 0 \in 0..n
    BY <1>2
  <2>3. Named(cut[0], taken)
    BY <1>7, StartIsNamed
  <2> HIDE DEF met
  <2> QED
    BY <2>1, <2>2, <2>3 DEF Disjoint, PrefixesOf
<1>10. ASSUME NEW k \in 1..n, k - 1 \in T
       PROVE  k \in T
  <2> DEFINE x == cut[k - 1]
             a == arrays[k]
  <2>1. k \in 0..n /\ k - 1 \in 0..n /\ x \in S /\ a \in Range(arrays)
    BY <1>2, <1>8
  <2>2. \A i \in 1..k : i = k \/ i \in 1..(k - 1)
    BY <1>2
  <2>3. CASE a \notin large
    <3>1. cut[k] = x
      BY <1>7, <2>3
    <3>2. met(k) = met(k - 1)
      BY <2>2, <2>3
    <3> HIDE DEF met
    <3> QED
      BY <1>10, <2>1, <3>1, <3>2
  <2>4. CASE a \in large
    <3>1. cut[k] = one(x, a)
      BY <1>7, <2>4
    <3>2. /\ cut[k].latest.prefixes = <<ChunkPrefix(a)>>
          /\ cut[k].out = x.out \cup {cut[k].latest}
          /\ IsBucketed(cut[k].latest)
      BY <1>4, <2>1, <3>1
    <3>3. met(k) = met(k - 1) \cup {a}
      BY <2>2, <2>4
    <3>4. ChunkPrefix(a) \notin {ChunkPrefix(d) : d \in met(k - 1)}
      <4>1. ASSUME NEW i \in 1..(k - 1)
            PROVE  ChunkPrefix(arrays[i]) # ChunkPrefix(a)
        <5>1. DOMAIN arrays = 1..n
          BY DEF IsListing, n
        <5>2. i \in DOMAIN arrays /\ k \in DOMAIN arrays /\ i # k
          BY <1>2, <5>1
        <5> QED
          BY <5>2 DEF IsListing
      <4> QED
        BY <4>1
    <3>5. Range(<<ChunkPrefix(a)>>) = {ChunkPrefix(a)}
      BY DEF Range
    <3> HIDE DEF met, a
    <3>6. Disjoint(x.out) /\ PrefixesOf(x.out) = {ChunkPrefix(d) : d \in met(k - 1)}
      BY <1>10
    <3>7. Range(cut[k].latest.prefixes) \cap PrefixesOf(x.out) = {}
      BY <3>2, <3>4, <3>5, <3>6
    <3>8. /\ Disjoint(cut[k].out)
          /\ PrefixesOf(cut[k].out) = PrefixesOf(x.out) \cup {ChunkPrefix(a)}
      <4> DEFINE b == cut[k].latest
      <4>1. Disjoint(x.out) /\ Range(b.prefixes) \cap PrefixesOf(x.out) = {}
        BY <3>6, <3>7
      <4>2. cut[k].out = x.out \cup {b} /\ Range(b.prefixes) = {ChunkPrefix(a)}
        BY <3>2, <3>5
      <4> HIDE DEF b, x
      <4>3. /\ Disjoint(x.out \cup {b})
            /\ PrefixesOf(x.out \cup {b}) = PrefixesOf(x.out) \cup Range(b.prefixes)
        BY <4>1, AddedDisjoint
      <4> QED
        BY <4>2, <4>3, Zenon
    <3>9. PrefixesOf(cut[k].out) = {ChunkPrefix(d) : d \in met(k)}
      BY <3>3, <3>6, <3>8
    <3>10. \A b \in cut[k].out : IsBucketed(b)
      BY <1>10, <3>2
    <3>11. Named(cut[k], taken)
      <4>1. Sane(x, arrays, policy, taken) /\ Named(x, taken)
        BY <1>10, <2>1 DEF S
      <4> HIDE DEF x
      <4>2. Named(one(x, a), taken)
        BY <2>1, <4>1, LargeIsNamed DEF one
      <4> QED
        BY <3>1, <4>2
    <3> QED
      BY <2>1, <3>8, <3>9, <3>10, <3>11
  <2> QED
    BY <2>3, <2>4
<1>11. n \in T
  <2> HIDE DEF T
  <2>1. \A k \in 1..n : k - 1 \in T => k \in T
    BY <1>10
  <2>2. \A k \in 0..n : k \in T
    BY <1>2, <1>9, <2>1, Reached
  <2> QED
    BY <1>2, <2>2
<1>12. met(n) = large
  BY <1>2 DEF Range, IsListing, n
<1>13. Sane(cut[n], arrays, policy, taken)
  BY <1>2, <1>8 DEF S
<1> HIDE DEF met
<1> QED
  BY <1>1, <1>11, <1>12, <1>13

----------------------------------------------------------------------------
(* Groups *)

\* Every array of a listing has chunk keys of its own.
LEMMA ChunkPrefixIdentifies ==
  ASSUME NEW arrays, IsListing(arrays), NEW a \in Range(arrays), NEW d \in Range(arrays),
         ChunkPrefix(a) = ChunkPrefix(d)
  PROVE  a = d
BY Zenon DEF IsListing, Range

LEMMA RangeOfAppend ==
  ASSUME NEW S, NEW s \in Seq(S), NEW x \in S
  PROVE  Range(Append(s, x)) = Range(s) \cup {x}
<1>1. /\ DOMAIN Append(s, x) = 1..(Len(s) + 1) /\ DOMAIN s = 1..Len(s) /\ Len(s) \in Nat
      /\ Append(s, x)[Len(s) + 1] = x
      /\ \A i \in 1..Len(s) : Append(s, x)[i] = s[i]
  OBVIOUS
<1>2. \A i \in 1..(Len(s) + 1) : i \in 1..Len(s) \/ i = Len(s) + 1
  BY <1>1
<1>3. Len(s) + 1 \in 1..(Len(s) + 1) /\ \A i \in 1..Len(s) : i \in 1..(Len(s) + 1)
  BY <1>1
<1> QED
  BY <1>1, <1>2, <1>3, Zenon DEF Range

\* The prefixes of a group of arrays.
LEMMA ChunkPrefixesType ==
  ASSUME NEW arrays, IsListing(arrays), NEW group \in Seq(Range(arrays))
  PROVE  /\ ChunkPrefixes(group) \in Seq(Paths)
         /\ group # <<>> => ChunkPrefixes(group) # <<>>
         /\ Range(ChunkPrefixes(group)) = {ChunkPrefix(a) : a \in Range(group)}
<1>1. DOMAIN group = 1..Len(group) /\ Len(group) \in Nat /\ \A i \in DOMAIN group : group[i] \in Range(arrays)
  OBVIOUS
<1>2. \A i \in DOMAIN group : ChunkPrefix(group[i]) \in Paths
  BY <1>1, ChunkPrefixType
<1>3. ChunkPrefixes(group) \in Seq(Paths)
  BY <1>1, <1>2 DEF ChunkPrefixes
<1>4. group # <<>> => ChunkPrefixes(group) # <<>>
  <2> SUFFICES ASSUME group # <<>> PROVE ChunkPrefixes(group) # <<>>
    OBVIOUS
  <2>1. DOMAIN ChunkPrefixes(group) = DOMAIN group /\ 1 \in DOMAIN group
    BY <1>1 DEF ChunkPrefixes
  <2>2. 1 \notin DOMAIN <<>>
    OBVIOUS
  <2> QED
    BY <2>1, <2>2, Zenon
<1>5. Range(ChunkPrefixes(group)) = {ChunkPrefix(a) : a \in Range(group)}
  BY Zenon DEF ChunkPrefixes, Range
<1> QED
  BY <1>3, <1>4, <1>5

LEMMA GroupBlobIsSane ==
  ASSUME Numerals(Nat),
         NEW arrays, NEW policy, NEW before,
         NEW acc, Sane(acc, arrays, policy, before),
         NEW prefixes \in Seq(Paths), prefixes # <<>>
  PROVE  /\ Sane(GroupBlob(acc, prefixes), arrays, policy, before)
         /\ Extended(GroupBlob(acc, prefixes), acc, prefixes)
<1>1. GroupId(prefixes) \in Seq(STRING) /\ GroupId(prefixes) # <<>>
  BY GroupIdType DEF Paths
<1>2. FitBucket(NoBucket, prefixes, arrays, policy)
  <2>1. NoBucket \in BucketFields /\ NoBucket.width = 0
    BY DEF NoBucket, BucketFields
  <2> QED
    BY <2>1, Zenon DEF FitBucket
<1>3. GroupBlob(acc, prefixes) = Allocate(acc, GroupId(prefixes), prefixes, NoBucket)
  BY DEF GroupBlob
<1> DEFINE ident == GroupId(prefixes)
<1> HIDE DEF ident
<1>4. /\ Sane(Allocate(acc, ident, prefixes, NoBucket), arrays, policy, before)
      /\ Extended(Allocate(acc, ident, prefixes, NoBucket), acc, prefixes)
  <2>1. ident \in Seq(STRING) /\ ident # <<>>
    BY <1>1 DEF ident
  <2> QED
    BY <1>2, <2>1, AllocateIsSane
<1> QED
  BY <1>3, <1>4, Zenon DEF ident

\* A blob taken back with its id.
LEMMA GivenBackIsSane ==
  ASSUME NEW arrays, NEW policy, NEW before, NEW acc, Sane(acc, arrays, policy, before),
         NEW l \in acc.out, l.id \notin before,
         NEW given \in AccFields(arrays),
         given.out = acc.out \ {l}, given.taken = acc.taken \ {l.id}
  PROVE  Sane(given, arrays, policy, before)
<1>1. IsFiniteSet(given.out) /\ IsFiniteSet(given.taken)
  BY FS_RemoveElement DEF Sane
<1>2. \A b \in given.out : b.id # l.id
  BY DEF Sane, UniqueIds
<1>3. UniqueIds(given.out)
  BY DEF Sane, UniqueIds
<1>4. before \subseteq given.taken
  BY DEF Sane
<1>5. \A b \in given.out : b.id \in given.taken \ before /\ Made(b, arrays, policy)
  BY <1>2 DEF Sane
<1> QED
  BY <1>1, <1>3, <1>4, <1>5, Zenon DEF Sane

\* A group is named after its prefixes.
LEMMA GroupBlobIsNamed ==
  ASSUME Numerals(Nat),
         NEW arrays, NEW policy, NEW before,
         NEW acc, Sane(acc, arrays, policy, before),
         acc.taken \subseteq before \cup IdsOf(acc.out),
         NewlySpelled(acc.out, before),
         NEW prefixes \in Seq(Paths)
  PROVE  Named(GroupBlob(acc, prefixes), before)
<1> DEFINE ident == GroupId(prefixes)
           b == Allocate(acc, ident, prefixes, NoBucket).latest
<1>1. ident \in Seq(STRING) /\ ident # <<>>
  BY GroupIdType DEF Paths
<1>2. b.prefixes = prefixes /\ ~ IsBucketed(b)
  BY DEF Allocate, Blob, IsBucketed, NoBucket
<1>3. Stem(b) = ident
  BY <1>2, Zenon DEF Stem
<1>4. GroupBlob(acc, prefixes) = Allocate(acc, ident, prefixes, NoBucket)
  BY DEF GroupBlob
<1> HIDE DEF ident
<1> QED
  BY <1>1, <1>3, <1>4, AllocateIsNamed

LEMMA JoinIsNamed ==
  ASSUME Numerals(Nat), NEW arrays, IsListing(arrays), NEW policy, NEW before,
         NEW acc, Sane(acc, arrays, policy, before), Named(acc, before), NEW a \in Range(arrays)
  PROVE  Named(Join(acc, a, policy), before)
<1> DEFINE group == Append(acc.group, a)
           size == acc.size + TotalBytes(a)
           prefixes == ChunkPrefixes(group)
<1>1. acc \in AccFields(arrays) /\ acc.group \in Seq(Range(arrays))
  BY DEF Sane, AccFields
<1>2. group \in Seq(Range(arrays))
  BY <1>1, AppendProperties
<1> HIDE DEF group, size
<1>3. CASE size >= policy.t_min
  <2>1. prefixes \in Seq(Paths)
    BY <1>2, ChunkPrefixesType
  <2>2. Join(acc, a, policy) = GroupBlob(acc, prefixes)
    BY <1>3 DEF Join, group, size
  <2>3. /\ acc.taken \subseteq before \cup IdsOf(acc.out)
        /\ NewlySpelled(acc.out, before)
    BY NamedIsSpelled DEF Named
  <2> HIDE DEF prefixes
  <2> QED
    BY <2>1, <2>2, <2>3, GroupBlobIsNamed
<1>4. CASE ~ (size >= policy.t_min)
  <2> DEFINE joined == Join(acc, a, policy)
  <2>1. joined = [acc EXCEPT !.group = group, !.size = size]
    BY <1>4 DEF Join, group, size
  <2>2. joined.out = acc.out /\ joined.latest = acc.latest /\ joined.taken = acc.taken
    BY <1>1, <2>1 DEF AccFields
  <2> QED
    BY <2>2, Zenon DEF Named
<1> QED
  BY <1>3, <1>4

\* With the latest group gone and its id given back, the others are still named after
\* what is in use.
LEMMA WithTailIsSpelled ==
  ASSUME Numerals(Nat), NEW arrays, IsListing(arrays), NEW policy, NEW before,
         NEW acc, Sane(acc, arrays, policy, before), Named(acc, before),
         acc.out # {} => acc.latest \in acc.out
  PROVE  NewlySpelled(WithTail(acc).out, before)
<1> DEFINE tail == ChunkPrefixes(acc.group)
<1>1. acc \in AccFields(arrays) /\ acc.group \in Seq(Range(arrays))
  BY DEF Sane, AccFields
<1>2. tail \in Seq(Paths)
  BY <1>1, ChunkPrefixesType
<1> HIDE DEF tail
<1>3. CASE acc.group = <<>>
  <2>1. WithTail(acc) = acc
    BY <1>3 DEF WithTail
  <2> QED
    BY <2>1, NamedIsSpelled
<1>4. CASE acc.group # <<>> /\ acc.out = {}
  <2> DEFINE new == GroupBlob(acc, tail)
  <2>1. WithTail(acc) = new
    BY <1>4 DEF WithTail, tail
  <2>2. /\ acc.taken \subseteq before \cup IdsOf(acc.out)
        /\ NewlySpelled(acc.out, before)
    BY NamedIsSpelled DEF Named
  <2>3. Named(new, before)
    BY <1>2, <2>2, GroupBlobIsNamed
  <2> HIDE DEF new
  <2> QED
    BY <2>1, <2>3, NamedIsSpelled
<1>5. CASE acc.group # <<>> /\ acc.out # {}
  <2> DEFINE l == acc.latest
             given == [acc EXCEPT !.out = @ \ {l}, !.taken = @ \ {l.id}]
             prefixes == l.prefixes \o tail
             new == GroupBlob(given, prefixes)
  <2>1. WithTail(acc) = new
    BY <1>5 DEF WithTail, tail
  <2>2. l \in acc.out
    BY <1>5
  <2>3. /\ given \in AccFields(arrays)
        /\ given.out = acc.out \ {l} /\ given.taken = acc.taken \ {l.id}
    BY <1>1 DEF AccFields
  <2>4. l.prefixes \in Seq(Paths) /\ l.id \notin before
    BY <2>2 DEF Sane, Made
  <2>5. prefixes \in Seq(Paths)
    BY <1>2, <2>4, ConcatProperties
  <2> HIDE DEF given, prefixes, l
  <2>6. Sane(given, arrays, policy, before)
    BY <2>2, <2>3, <2>4, GivenBackIsSane
  <2>7. given.taken \subseteq before \cup IdsOf(given.out)
    <3>1. acc.taken \subseteq before \cup IdsOf(acc.out)
      BY DEF Named
    <3> QED
      BY <2>3, <3>1 DEF IdsOf
  <2>8. NewlySpelled(given.out, before)
    <3>1. AllSpelled(acc.out, before \cup IdsOf(given.out))
      BY <2>3 DEF Named, l
    <3> QED
      BY <2>3, <3>1 DEF AllSpelled, NewlySpelled
  <2>9. Named(new, before)
    BY <2>5, <2>6, <2>7, <2>8, GroupBlobIsNamed
  <2> HIDE DEF new
  <2> QED
    BY <2>1, <2>9, NamedIsSpelled
<1> QED
  BY <1>3, <1>4, <1>5

GroupPrefixes(acc) == {ChunkPrefix(a) : a \in Range(acc.group)}

\* What holds of an accumulator while groups are formed, `covered` being the prefixes
\* of the arrays met so far.
Grouping(acc, covered) ==
    /\ acc.out # {} => acc.latest \in acc.out
    /\ Disjoint(acc.out)
    /\ PrefixesOf(acc.out) \cap GroupPrefixes(acc) = {}
    /\ PrefixesOf(acc.out) \cup GroupPrefixes(acc) = covered

\* One more array keeps it.
LEMMA JoinIsSane ==
  ASSUME Numerals(Nat), NEW arrays, IsListing(arrays), NEW policy, NEW before,
         NEW acc, Sane(acc, arrays, policy, before), NEW a \in Range(arrays)
  PROVE  /\ Sane(Join(acc, a, policy), arrays, policy, before)
         /\ \A covered : Grouping(acc, covered) /\ ChunkPrefix(a) \notin covered =>
               Grouping(Join(acc, a, policy), covered \cup {ChunkPrefix(a)})
<1> DEFINE group == Append(acc.group, a)
           size == acc.size + TotalBytes(a)
           joined == Join(acc, a, policy)
           prefixes == ChunkPrefixes(group)
           old == {ChunkPrefix(d) : d \in Range(acc.group)}
<1>1. acc \in AccFields(arrays) /\ acc.group \in Seq(Range(arrays)) /\ acc.size \in Nat
  BY DEF Sane, AccFields
<1>2. /\ group \in Seq(Range(arrays)) /\ group # <<>>
      /\ Range(group) = Range(acc.group) \cup {a}
  BY <1>1, AppendProperties, RangeOfAppend
<1>3. size \in Nat
  BY <1>1, SizesOfArray
<1> HIDE DEF group, size
<1>4. prefixes \in Seq(Paths) /\ prefixes # <<>> /\ Range(prefixes) = old \cup {ChunkPrefix(a)}
  <2>1. prefixes \in Seq(Paths) /\ prefixes # <<>> /\ Range(prefixes) = {ChunkPrefix(d) : d \in Range(group)}
    BY <1>2, ChunkPrefixesType
  <2> QED
    BY <1>2, <2>1
<1> HIDE DEF prefixes
<1>5. CASE size >= policy.t_min
  <2>1. joined = GroupBlob(acc, prefixes)
    BY <1>5 DEF Join, group, size, prefixes
  <2>2. Sane(joined, arrays, policy, before) /\ Extended(joined, acc, prefixes)
    BY <1>4, <2>1, GroupBlobIsSane
  <2> HIDE DEF joined
  <2>3. ASSUME NEW covered, Grouping(acc, covered), ChunkPrefix(a) \notin covered
        PROVE  Grouping(joined, covered \cup {ChunkPrefix(a)})
    <3> DEFINE b == joined.latest
    <3>1. /\ joined.out = acc.out \cup {b} /\ Range(b.prefixes) = old \cup {ChunkPrefix(a)}
          /\ joined.group = <<>>
      BY <1>4, <2>2 DEF Extended
    <3> HIDE DEF b
    <3>2. /\ Disjoint(acc.out) /\ PrefixesOf(acc.out) \cap old = {}
          /\ PrefixesOf(acc.out) \cup old = covered
      BY <2>3 DEF Grouping, GroupPrefixes
    <3> HIDE DEF old
    <3>3. Range(b.prefixes) \cap PrefixesOf(acc.out) = {}
      BY <2>3, <3>1, <3>2
    <3>4. /\ Disjoint(acc.out \cup {b})
          /\ PrefixesOf(acc.out \cup {b}) = PrefixesOf(acc.out) \cup Range(b.prefixes)
      BY <3>2, <3>3, AddedDisjoint
    <3>5. GroupPrefixes(joined) = {}
      BY <3>1 DEF GroupPrefixes, Range
    <3>6. PrefixesOf(joined.out) = covered \cup {ChunkPrefix(a)}
      BY <3>1, <3>2, <3>4
    <3> QED
      BY <3>1, <3>4, <3>5, <3>6 DEF Grouping, b
  <2> QED
    BY <2>2, <2>3 DEF joined
<1>6. CASE ~ (size >= policy.t_min)
  <2>1. joined = [acc EXCEPT !.group = group, !.size = size]
    BY <1>6 DEF Join, group, size
  <2>2. /\ joined \in AccFields(arrays)
        /\ joined.out = acc.out /\ joined.latest = acc.latest /\ joined.taken = acc.taken
        /\ joined.group = group
    BY <1>1, <1>2, <1>3, <2>1 DEF AccFields
  <2> HIDE DEF joined
  <2>3. Sane(joined, arrays, policy, before)
    BY <2>2, Zenon DEF Sane
  <2>4. ASSUME NEW covered, Grouping(acc, covered), ChunkPrefix(a) \notin covered
        PROVE  Grouping(joined, covered \cup {ChunkPrefix(a)})
    <3>1. GroupPrefixes(joined) = old \cup {ChunkPrefix(a)} /\ GroupPrefixes(acc) = old
      BY <1>2, <2>2 DEF GroupPrefixes
    <3> HIDE DEF old
    <3>2. /\ acc.out # {} => acc.latest \in acc.out
          /\ Disjoint(acc.out) /\ PrefixesOf(acc.out) \cap old = {}
          /\ PrefixesOf(acc.out) \cup old = covered
      BY <2>4, <3>1 DEF Grouping
    <3>3. /\ PrefixesOf(acc.out) \cap (old \cup {ChunkPrefix(a)}) = {}
          /\ PrefixesOf(acc.out) \cup (old \cup {ChunkPrefix(a)}) = covered \cup {ChunkPrefix(a)}
      BY <2>4, <3>2
    <3> QED
      BY <2>2, <3>1, <3>2, <3>3, Zenon DEF Grouping
  <2> QED
    BY <2>3, <2>4 DEF joined
<1> QED
  BY <1>5, <1>6

\* The tail joins the last group, or is one.
LEMMA WithTailIsSane ==
  ASSUME Numerals(Nat), NEW arrays, IsListing(arrays), NEW policy, NEW before,
         NEW acc, Sane(acc, arrays, policy, before), NEW covered, Grouping(acc, covered)
  PROVE  /\ Sane(WithTail(acc), arrays, policy, before)
         /\ Disjoint(WithTail(acc).out)
         /\ PrefixesOf(WithTail(acc).out) = covered
<1> DEFINE tail == ChunkPrefixes(acc.group)
<1>1. acc \in AccFields(arrays) /\ acc.group \in Seq(Range(arrays))
  BY DEF Sane, AccFields
<1>2. /\ tail \in Seq(Paths) /\ (acc.group # <<>> => tail # <<>>) /\ Range(tail) = GroupPrefixes(acc)
  BY <1>1, ChunkPrefixesType, Zenon DEF GroupPrefixes
<1> HIDE DEF tail
<1>3. CASE acc.group = <<>>
  <2>1. WithTail(acc) = acc
    BY <1>3 DEF WithTail
  <2>2. GroupPrefixes(acc) = {}
    BY <1>3 DEF GroupPrefixes, Range
  <2> QED
    BY <2>1, <2>2 DEF Grouping
<1>4. CASE acc.group # <<>> /\ acc.out = {}
  <2> DEFINE new == GroupBlob(acc, tail)
  <2>1. WithTail(acc) = new
    BY <1>4 DEF WithTail, tail
  <2>2. Sane(new, arrays, policy, before) /\ Extended(new, acc, tail)
    BY <1>2, <1>4, GroupBlobIsSane
  <2> HIDE DEF new
  <2>3. new.out = {new.latest} /\ Range(new.latest.prefixes) = GroupPrefixes(acc)
    BY <1>2, <1>4, <2>2 DEF Extended
  <2>4. PrefixesOf(acc.out) = {}
    BY <1>4 DEF PrefixesOf
  <2>5. covered = GroupPrefixes(acc)
    BY <2>4 DEF Grouping
  <2>6. PrefixesOf(new.out) = covered
    BY <2>3, <2>5 DEF PrefixesOf
  <2>7. Disjoint(new.out)
    BY <2>3, Zenon DEF Disjoint
  <2> QED
    BY <2>1, <2>2, <2>6, <2>7
<1>5. CASE acc.group # <<>> /\ acc.out # {}
  <2> DEFINE l == acc.latest
             given == [acc EXCEPT !.out = @ \ {l}, !.taken = @ \ {l.id}]
             prefixes == l.prefixes \o tail
             new == GroupBlob(given, prefixes)
  <2>1. WithTail(acc) = new
    BY <1>5 DEF WithTail, tail
  <2>2. l \in acc.out
    BY <1>5 DEF Grouping
  <2>3. /\ given \in AccFields(arrays)
        /\ given.out = acc.out \ {l} /\ given.taken = acc.taken \ {l.id}
    BY <1>1 DEF AccFields
  <2>4. /\ l.prefixes \in Seq(Paths)
        /\ l.id \notin before
    BY <2>2 DEF Sane, Made
  <2>5. prefixes \in Seq(Paths) /\ prefixes # <<>>
    <3>1. prefixes \in Seq(Paths)
      BY <1>2, <2>4, ConcatProperties
    <3>2. prefixes # <<>>
      BY <1>2, <1>5, <2>4, ConcatEqualIffEmpty
    <3> QED
      BY <3>1, <3>2
  <2>6. Range(prefixes) = Range(l.prefixes) \cup GroupPrefixes(acc)
    BY <1>2, <2>4, RangeConcatenation
  <2> HIDE DEF given, prefixes, l
  <2>7. Sane(given, arrays, policy, before)
    BY <2>2, <2>3, <2>4, GivenBackIsSane
  <2>8. Sane(new, arrays, policy, before) /\ Extended(new, given, prefixes)
    BY <2>5, <2>7, GroupBlobIsSane
  <2> HIDE DEF new
  <2> DEFINE b == new.latest
  <2>9. new.out = given.out \cup {b} /\ Range(b.prefixes) = Range(l.prefixes) \cup GroupPrefixes(acc)
    BY <2>6, <2>8 DEF Extended
  <2> HIDE DEF b
  <2>10. Disjoint(given.out)
    BY <2>3, Zenon DEF Disjoint, Grouping
  <2>11. /\ PrefixesOf(given.out) \cap Range(l.prefixes) = {}
         /\ PrefixesOf(given.out) \cup Range(l.prefixes) = PrefixesOf(acc.out)
    <3>1. \A d \in given.out : Range(d.prefixes) \cap Range(l.prefixes) = {}
      BY <2>2, <2>3 DEF Disjoint, Grouping
    <3>2. acc.out = given.out \cup {l}
      BY <2>2, <2>3
    <3> QED
      BY <3>1, <3>2 DEF PrefixesOf
  <2>12. /\ PrefixesOf(acc.out) \cap GroupPrefixes(acc) = {}
         /\ PrefixesOf(acc.out) \cup GroupPrefixes(acc) = covered
    BY DEF Grouping
  <2>13. Range(b.prefixes) \cap PrefixesOf(given.out) = {}
    BY <2>9, <2>11, <2>12
  <2>14. /\ Disjoint(given.out \cup {b})
         /\ PrefixesOf(given.out \cup {b}) = PrefixesOf(given.out) \cup Range(b.prefixes)
    BY <2>10, <2>13, AddedDisjoint
  <2>15. PrefixesOf(new.out) = covered
    BY <2>9, <2>11, <2>12, <2>14
  <2> QED
    BY <2>1, <2>8, <2>9, <2>14, <2>15
<1> QED
  BY <1>3, <1>4, <1>5

----------------------------------------------------------------------------
(* Sizes of groups *)

Weight(arrays) == [a \in Range(arrays) |-> TotalBytes(a)]

\* The arrays whose chunk keys a blob with these prefixes holds.
Members(prefixes, arrays) == {a \in Range(arrays) : ChunkPrefix(a) \in Range(prefixes)}

GroupBytes(prefixes, arrays) == Summed(Weight(arrays), Members(prefixes, arrays))

\* What one group, or one tail, may add to a size.
Slack(policy) == Max({0, policy.t_min - 1})

\* What holds of an accumulator while groups are formed: no group is closed before it
\* reaches t_min, nor kept open after.
Sized(acc, arrays, policy) ==
    /\ acc.size = Summed(Weight(arrays), Range(acc.group))
    /\ acc.group # <<>> => acc.size < policy.t_min
    /\ \A b \in acc.out : /\ policy.t_min <= GroupBytes(b.prefixes, arrays)
                          /\ GroupBytes(b.prefixes, arrays) <= policy.t_max + Slack(policy)

\* And of the groups in the end.
FairSizes(out, arrays, policy) ==
    \A b \in out : /\ GroupBytes(b.prefixes, arrays) <= policy.t_max + 2 * Slack(policy)
                   /\ policy.t_min <= GroupBytes(b.prefixes, arrays) \/ out = {b}

LEMMA SlackCovers ==
  ASSUME NEW policy \in PolicyFields
  PROVE  Slack(policy) \in Nat /\ Slack(policy) >= policy.t_min - 1
<1> DEFINE y == policy.t_min - 1
<1>1. 0 \in Int /\ y \in Int
  BY DEF PolicyFields
<1> HIDE DEF y
<1>2. Max({0, y}) \in {0, y} /\ Max({0, y}) >= 0 /\ Max({0, y}) >= y
  BY <1>1, MaxOfTwo
<1>3. Max({0, y}) \in Nat
  BY <1>1, <1>2
<1> QED
  BY <1>2, <1>3 DEF Slack, y

LEMMA ListingIsFinite ==
  ASSUME NEW arrays, IsListing(arrays)
  PROVE  IsFiniteSet(Range(arrays))
<1>1. arrays \in [1..Len(arrays) -> Range(arrays)] /\ Len(arrays) \in Nat
  BY DEF IsListing, Range
<1>2. arrays \in Surjection(1..Len(arrays), Range(arrays))
  BY <1>1 DEF Surjection, Range
<1>3. IsFiniteSet(1..Len(arrays))
  BY <1>1, FS_Interval
<1> QED
  BY <1>2, <1>3, FS_Surjection

\* The sums of the model are sums of weights.
LEMMA BytesAreSummed ==
  ASSUME NEW arrays, NEW S \in SUBSET Range(arrays)
  PROVE  MapThenSumSet(TotalBytes, S) = Summed(Weight(arrays), S)
<1> DEFINE w == Weight(arrays)
           step(f, s) == IF s = {} THEN 0 ELSE TotalBytes(One(s)) + f[s \ {One(s)}]
           P(f) == f = [s \in SUBSET S |-> step(f, s)]
<1>1. MapThenSumSet(TotalBytes, S) = (CHOOSE f : P(f))[S]
  BY DEF MapThenSumSet, MapThenFoldSet, One
<1>2. ASSUME NEW f, NEW s \in SUBSET S
      PROVE  step(f, s) = SumStep(w, f, s)
  <2>1. CASE s = {}
    BY <2>1 DEF SumStep
  <2>2. CASE s # {}
    <3>1. One(s) \in s
      BY <2>2 DEF One
    <3>2. w[One(s)] = TotalBytes(One(s))
      BY <3>1 DEF Weight
    <3> QED
      BY <2>2, <3>2 DEF SumStep
  <2> QED
    BY <2>1, <2>2
<1> HIDE DEF step
<1>3. \A f : P(f) <=> Summing(w, S, f)
  <2> SUFFICES ASSUME NEW f PROVE P(f) <=> Summing(w, S, f)
    OBVIOUS
  <2>1. [s \in SUBSET S |-> step(f, s)] = [s \in SUBSET S |-> SumStep(w, f, s)]
    BY <1>2
  <2> QED
    BY <2>1 DEF Summing
<1> HIDE DEF P
<1>4. (CHOOSE f : P(f)) = (CHOOSE f : Summing(w, S, f))
  BY <1>3
<1> QED
  BY <1>1, <1>4 DEF Summed

LEMMA WeightsAreNumbers ==
  ASSUME NEW arrays, IsListing(arrays)
  PROVE  \A a \in Range(arrays) : Weight(arrays)[a] = TotalBytes(a) /\ Weight(arrays)[a] \in Nat
BY SizesOfArray DEF Weight

\* The bytes of a group are those of its arrays.
LEMMA BytesOfGroup ==
  ASSUME NEW arrays, IsListing(arrays), NEW group \in Seq(Range(arrays))
  PROVE  /\ Members(ChunkPrefixes(group), arrays) = Range(group)
         /\ GroupBytes(ChunkPrefixes(group), arrays) = Summed(Weight(arrays), Range(group))
<1>1. Range(group) \in SUBSET Range(arrays)
  <2>1. \A i \in DOMAIN group : group[i] \in Range(arrays)
    OBVIOUS
  <2> QED
    BY <2>1, Zenon DEF Range
<1>2. Range(ChunkPrefixes(group)) = {ChunkPrefix(a) : a \in Range(group)}
  BY ChunkPrefixesType
<1>3. Members(ChunkPrefixes(group), arrays) = Range(group)
  BY <1>1, <1>2, ChunkPrefixIdentifies DEF Members
<1> QED
  BY <1>3 DEF GroupBytes

\* One more array, no larger than t_max and not met before.
LEMMA JoinIsSized ==
  ASSUME NEW arrays, IsListing(arrays), NEW policy \in PolicyFields,
         NEW acc \in AccFields(arrays), Sized(acc, arrays, policy),
         NEW a \in Range(arrays), TotalBytes(a) <= policy.t_max,
         ChunkPrefix(a) \notin GroupPrefixes(acc)
  PROVE  Sized(Join(acc, a, policy), arrays, policy)
<1> DEFINE w == Weight(arrays)
           group == Append(acc.group, a)
           size == acc.size + TotalBytes(a)
           prefixes == ChunkPrefixes(group)
           joined == Join(acc, a, policy)
<1>1. /\ acc.group \in Seq(Range(arrays)) /\ acc.size \in Nat
      /\ policy.t_min \in Nat /\ policy.t_max \in Nat
  BY DEF AccFields, PolicyFields
<1>2. /\ group \in Seq(Range(arrays)) /\ group # <<>>
      /\ Range(group) = Range(acc.group) \cup {a}
  BY <1>1, AppendProperties, RangeOfAppend
<1>3. Range(acc.group) \in SUBSET Range(arrays) /\ a \notin Range(acc.group)
  <2>1. \A i \in DOMAIN acc.group : acc.group[i] \in Range(arrays)
    BY <1>1
  <2>2. Range(acc.group) \in SUBSET Range(arrays)
    BY <2>1, Zenon DEF Range
  <2> QED
    BY <2>2 DEF GroupPrefixes
<1>4. size = Summed(w, Range(group)) /\ TotalBytes(a) \in Nat /\ size \in Nat
  <2>1. IsFiniteSet(Range(arrays)) /\ \A d \in Range(arrays) : w[d] = TotalBytes(d) /\ w[d] \in Nat
    BY ListingIsFinite, WeightsAreNumbers
  <2> HIDE DEF w
  <2>2. Summed(w, Range(acc.group) \cup {a}) = Summed(w, Range(acc.group)) + w[a]
    BY <1>3, <2>1, SumAdds
  <2>3. acc.size = Summed(w, Range(acc.group))
    BY DEF Sized, w
  <2> QED
    BY <1>1, <1>2, <2>1, <2>2, <2>3
<1>5. acc.size <= Slack(policy) /\ Slack(policy) \in Nat
  <2>1. Slack(policy) \in Nat /\ Slack(policy) >= policy.t_min - 1
    BY SlackCovers
  <2>2. CASE acc.group = <<>>
    <3>1. Range(acc.group) = {}
      BY <2>2 DEF Range
    <3>2. Summed(w, {}) = 0
      BY ListingIsFinite, WeightsAreNumbers, SumAdds
    <3>3. acc.size = 0
      BY <3>1, <3>2 DEF Sized
    <3> QED
      BY <1>1, <2>1, <3>3
  <2>3. CASE acc.group # <<>>
    <3>1. acc.size < policy.t_min
      BY <2>3 DEF Sized
    <3> QED
      BY <1>1, <2>1, <3>1
  <2> QED
    BY <2>2, <2>3
<1>6. GroupBytes(prefixes, arrays) = size
  BY <1>2, <1>4, BytesOfGroup
<1> HIDE DEF prefixes
<1>7. CASE size >= policy.t_min
  <2>1. joined = GroupBlob(acc, prefixes)
    BY <1>7 DEF Join, prefixes
  <2>2. /\ joined.out = acc.out \cup {joined.latest} /\ joined.latest.prefixes = prefixes
        /\ joined.group = <<>> /\ joined.size = 0
    BY <2>1 DEF GroupBlob, Allocate, Blob
  <2>3. Range(joined.group) = {}
    BY <2>2 DEF Range
  <2>4. Summed(w, {}) = 0
    BY ListingIsFinite, WeightsAreNumbers, SumAdds
  <2> HIDE DEF joined, size
  <2>5. policy.t_min <= size /\ size <= policy.t_max + Slack(policy)
    BY <1>1, <1>4, <1>5, <1>7 DEF size
  <2>6. \A b \in joined.out : /\ policy.t_min <= GroupBytes(b.prefixes, arrays)
                              /\ GroupBytes(b.prefixes, arrays) <= policy.t_max + Slack(policy)
    BY <1>6, <2>2, <2>5 DEF Sized
  <2> QED
    BY <2>2, <2>3, <2>4, <2>6 DEF Sized, joined
<1>8. CASE ~ (size >= policy.t_min)
  <2>1. joined = [acc EXCEPT !.group = group, !.size = size]
    BY <1>8 DEF Join
  <2>2. joined.out = acc.out /\ joined.group = group /\ joined.size = size
    BY <2>1 DEF AccFields
  <2> HIDE DEF joined, size, group
  <2>3. size < policy.t_min
    BY <1>1, <1>4, <1>8
  <2> QED
    BY <1>4, <2>2, <2>3 DEF Sized, joined
<1> QED
  BY <1>7, <1>8

\* The tail joins the last group, which has no array of it, or is the only one.
LEMMA WithTailIsFair ==
  ASSUME NEW arrays, IsListing(arrays), NEW policy \in PolicyFields,
         NEW acc \in AccFields(arrays), Sized(acc, arrays, policy),
         NEW covered, Grouping(acc, covered),
         \A b \in acc.out : b.prefixes \in Seq(Paths)
  PROVE  FairSizes(WithTail(acc).out, arrays, policy)
<1> DEFINE w == Weight(arrays)
           tail == ChunkPrefixes(acc.group)
           l == acc.latest
           bytes(b) == GroupBytes(b.prefixes, arrays)
<1>1. /\ acc.group \in Seq(Range(arrays)) /\ acc.size \in Nat
      /\ policy.t_min \in Nat /\ policy.t_max \in Nat
  BY DEF AccFields, PolicyFields
<1>2. Slack(policy) \in Nat /\ Slack(policy) >= policy.t_min - 1
  BY SlackCovers
<1>3. IsFiniteSet(Range(arrays)) /\ \A d \in Range(arrays) : w[d] \in Nat
  BY ListingIsFinite, WeightsAreNumbers
<1>4. \A prefixes : Members(prefixes, arrays) \in SUBSET Range(arrays)
                    /\ GroupBytes(prefixes, arrays) \in Nat
  <2> SUFFICES ASSUME NEW prefixes
               PROVE  /\ Members(prefixes, arrays) \in SUBSET Range(arrays)
                      /\ GroupBytes(prefixes, arrays) \in Nat
    OBVIOUS
  <2> DEFINE S == Members(prefixes, arrays)
  <2>1. S \in SUBSET Range(arrays)
    BY DEF Members
  <2> HIDE DEF S, w
  <2>2. IsFiniteSet(S) /\ \A d \in S : w[d] \in Nat
    BY <1>3, <2>1, FS_Subset
  <2>3. Summed(w, S) \in Nat
    BY <2>2, SumAdds
  <2> QED
    BY <2>1, <2>3 DEF GroupBytes, S, w
<1>5. \A b \in acc.out : policy.t_min <= bytes(b) /\ bytes(b) <= policy.t_max + Slack(policy)
  BY DEF Sized
<1>6. /\ Members(tail, arrays) = Range(acc.group)
      /\ GroupBytes(tail, arrays) = acc.size
      /\ Range(tail) = GroupPrefixes(acc) /\ tail \in Seq(Paths)
  <2>1. /\ Members(tail, arrays) = Range(acc.group)
        /\ GroupBytes(tail, arrays) = Summed(w, Range(acc.group))
    BY <1>1, BytesOfGroup
  <2>2. acc.size = Summed(w, Range(acc.group))
    BY DEF Sized
  <2>3. Range(tail) = {ChunkPrefix(d) : d \in Range(acc.group)} /\ tail \in Seq(Paths)
    BY <1>1, ChunkPrefixesType
  <2> QED
    BY <2>1, <2>2, <2>3 DEF GroupPrefixes
<1> HIDE DEF tail
<1>7. CASE acc.group = <<>>
  <2>1. WithTail(acc).out = acc.out
    BY <1>7 DEF WithTail
  <2>2. \A b \in acc.out : bytes(b) \in Nat
    BY <1>4
  <2> HIDE DEF bytes
  <2>3. \A b \in acc.out : bytes(b) <= policy.t_max + 2 * Slack(policy) /\ policy.t_min <= bytes(b)
    BY <1>1, <1>2, <1>5, <2>2
  <2> QED
    BY <2>1, <2>3 DEF FairSizes, bytes
<1>8. CASE acc.group # <<>> /\ acc.out = {}
  <2>1. WithTail(acc).out = {GroupBlob(acc, tail).latest} /\ GroupBlob(acc, tail).latest.prefixes = tail
    BY <1>8 DEF WithTail, GroupBlob, Allocate, Blob, tail
  <2>2. acc.size < policy.t_min
    BY <1>8 DEF Sized
  <2>3. acc.size <= policy.t_max + 2 * Slack(policy)
    BY <1>1, <1>2, <2>2
  <2> QED
    BY <1>6, <2>1, <2>3 DEF FairSizes
<1>9. CASE acc.group # <<>> /\ acc.out # {}
  <2> DEFINE given == [acc EXCEPT !.out = @ \ {l}, !.taken = @ \ {l.id}]
             prefixes == l.prefixes \o tail
             new == GroupBlob(given, prefixes)
  <2>1. WithTail(acc) = new
    BY <1>9 DEF WithTail, tail
  <2>2. l \in acc.out /\ l.prefixes \in Seq(Paths)
    BY <1>9 DEF Grouping
  <2>3. new.out = (acc.out \ {l}) \cup {new.latest} /\ new.latest.prefixes = prefixes
    <3>1. given.out = acc.out \ {l}
      BY DEF AccFields
    <3> HIDE DEF given
    <3>2. new.out = given.out \cup {new.latest} /\ new.latest.prefixes = prefixes
      BY DEF GroupBlob, Allocate, Blob
    <3> QED
      BY <3>1, <3>2
  <2>4. Range(prefixes) = Range(l.prefixes) \cup Range(tail)
    BY <1>6, <2>2, RangeConcatenation
  <2> HIDE DEF prefixes, new
  <2>5. Range(l.prefixes) \cap Range(tail) = {}
    BY <1>6, <2>2 DEF Grouping, PrefixesOf
  <2>6. /\ Members(prefixes, arrays) = Members(l.prefixes, arrays) \cup Members(tail, arrays)
        /\ Members(l.prefixes, arrays) \cap Members(tail, arrays) = {}
    BY <2>4, <2>5 DEF Members
  <2>7. GroupBytes(prefixes, arrays) = bytes(l) + acc.size
    <3> DEFINE A == Members(l.prefixes, arrays)
               B == Members(tail, arrays)
    <3>1. A \in SUBSET Range(arrays) /\ B \in SUBSET Range(arrays) /\ A \cap B = {}
      BY <1>4, <2>6
    <3>2. Members(prefixes, arrays) = A \cup B
      BY <2>6
    <3>3. bytes(l) = Summed(w, A) /\ acc.size = Summed(w, B)
      BY <1>6 DEF GroupBytes
    <3> HIDE DEF A, B, w
    <3>4. Summed(w, A \cup B) = Summed(w, A) + Summed(w, B)
      BY <1>3, <3>1, SumOfUnion
    <3> QED
      BY <3>2, <3>3, <3>4 DEF GroupBytes, w
  <2>8. acc.size < policy.t_min
    BY <1>9 DEF Sized
  <2>9. \A b \in acc.out : bytes(b) \in Nat
    BY <1>4
  <2> HIDE DEF bytes, l
  <2>10. \A b \in acc.out : bytes(b) <= policy.t_max + 2 * Slack(policy) /\ policy.t_min <= bytes(b)
    BY <1>1, <1>2, <1>5, <2>9
  <2>11. /\ bytes(l) + acc.size <= policy.t_max + 2 * Slack(policy)
         /\ policy.t_min <= bytes(l) + acc.size
    BY <1>1, <1>2, <1>5, <2>2, <2>8, <2>9
  <2> QED
    BY <2>1, <2>3, <2>7, <2>10, <2>11 DEF FairSizes, bytes
<1> QED
  BY <1>7, <1>8, <1>9

\* The blobs of the small arrays.
LEMMA CoalesceResult ==
  ASSUME Numerals(Nat),
         NEW arrays, IsListing(arrays), NEW policy \in PolicyFields,
         NEW small \in SUBSET Range(arrays), \A a \in small : TotalBytes(a) <= policy.t_max,
         NEW taken \in SUBSET Seq(STRING), IsFiniteSet(taken)
  PROVE  /\ Sane(Coalesce(arrays, small, policy, taken), arrays, policy, taken)
         /\ Disjoint(Coalesce(arrays, small, policy, taken).out)
         /\ PrefixesOf(Coalesce(arrays, small, policy, taken).out) = {ChunkPrefix(a) : a \in small}
         /\ FairSizes(Coalesce(arrays, small, policy, taken).out, arrays, policy)
         /\ NewlySpelled(Coalesce(arrays, small, policy, taken).out, taken)
<1> DEFINE n == Len(arrays)
           next(x, k) == IF arrays[k] \notin small THEN x ELSE Join(x, arrays[k], policy)
           P(f) == f = [k \in 0..n |-> IF k = 0 THEN Start(taken)
                                      ELSE IF arrays[k] \notin small THEN f[k - 1]
                                      ELSE Join(f[k - 1], arrays[k], policy)]
           joined == CHOOSE f : P(f)
           S == {x \in AccFields(arrays) : Sane(x, arrays, policy, taken)}
           step == [k \in 1..n |-> [x \in S |-> next(x, k)]]
<1>1. Coalesce(arrays, small, policy, taken) = WithTail(joined[n])
  BY DEF Coalesce
<1>2. n \in Nat /\ \A k \in 1..n : arrays[k] \in Range(arrays)
  BY DEF IsListing, Range
<1> HIDE DEF n
<1>3. Start(taken) \in S
  BY StartIsSane DEF Sane
<1>4. ASSUME NEW x \in S, NEW a \in Range(arrays)
      PROVE  Join(x, a, policy) \in S
  <2>1. Sane(Join(x, a, policy), arrays, policy, taken)
    BY JoinIsSane
  <2> QED
    BY <2>1, Zenon DEF Sane
<1> HIDE DEF S
<1>5. step \in [1..n -> [S -> S]] /\ \A k \in 1..n, x \in S : step[k][x] = next(x, k)
  <2>1. \A k \in 1..n, x \in S : next(x, k) \in S
    BY <1>2, <1>4, Zenon
  <2> HIDE DEF next
  <2> QED
    BY <2>1
<1> HIDE DEF step, joined
<1>6. \E f : P(f)
  <2>1. PICK f \in [0..n -> S] : Iterates(f, n, Start(taken), step)
    BY <1>2, <1>3, <1>5, IterationExists
  <2>2. f[0] = Start(taken) /\ \A k \in 1..n : f[k] = next(f[k - 1], k)
    <3>1. \A k \in 1..n : k - 1 \in 0..n
      BY <1>2
    <3> HIDE DEF next
    <3> QED
      BY <1>5, <2>1, <3>1, Zenon DEF Iterates
  <2>3. \A k \in 0..n : k # 0 => k \in 1..n
    BY <1>2
  <2>4. P(f)
    BY <2>1, <2>2, <2>3, Zenon
  <2> QED
    BY <2>4, Zenon
<1>7. joined[0] = Start(taken) /\ \A k \in 1..n : joined[k] = next(joined[k - 1], k)
  <2>1. P(joined)
    BY <1>6 DEF joined
  <2>2. 0 \in 0..n /\ \A k \in 1..n : k \in 0..n /\ k # 0
    BY <1>2
  <2> QED
    BY <2>1, <2>2, Zenon
<1>8. \A k \in 0..n : joined[k] \in S
  <2>1. \A k \in 1..n : joined[k - 1] \in S => joined[k] \in S
    BY <1>2, <1>4, <1>7, Zenon
  <2> QED
    BY <1>2, <1>3, <1>7, <2>1, ValuesIn
<1> DEFINE met(k) == {a \in small : \E i \in 1..k : arrays[i] = a}
           covered(k) == {ChunkPrefix(a) : a \in met(k)}
           T == {k \in 0..n : /\ Grouping(joined[k], covered(k)) /\ Sized(joined[k], arrays, policy)
                             /\ Named(joined[k], taken)}
<1>9. 0 \in T
  <2>1. joined[0].out = {} /\ joined[0].group = <<>>
    BY <1>7 DEF Start
  <2>2. covered(0) = {} /\ 0 \in 0..n
    BY <1>2
  <2> HIDE DEF covered
  <2>3. PrefixesOf(joined[0].out) = {} /\ GroupPrefixes(joined[0]) = {}
    BY <2>1 DEF PrefixesOf, GroupPrefixes, Range
  <2>4. Disjoint(joined[0].out)
    BY <2>1 DEF Disjoint
  <2>5. Sized(joined[0], arrays, policy)
    <3>1. Summed(Weight(arrays), {}) = 0
      BY ListingIsFinite, WeightsAreNumbers, SumAdds
    <3>2. Range(joined[0].group) = {} /\ joined[0].size = 0
      BY <1>7, <2>1 DEF Start, Range
    <3> QED
      BY <2>1, <3>1, <3>2 DEF Sized
  <2>6. Named(joined[0], taken)
    BY <1>7, StartIsNamed
  <2> QED
    BY <2>1, <2>2, <2>3, <2>4, <2>5, <2>6 DEF Grouping
<1>10. ASSUME NEW k \in 1..n, k - 1 \in T
       PROVE  k \in T
  <2> DEFINE x == joined[k - 1]
             a == arrays[k]
  <2>1. k \in 0..n /\ k - 1 \in 0..n /\ x \in S /\ a \in Range(arrays)
    BY <1>2, <1>8
  <2>2. \A i \in 1..k : i = k \/ i \in 1..(k - 1)
    BY <1>2
  <2>3. CASE a \notin small
    <3>1. joined[k] = x
      BY <1>7, <2>3
    <3>2. met(k) = met(k - 1)
      BY <2>2, <2>3
    <3> HIDE DEF met
    <3> QED
      BY <1>10, <2>1, <3>1, <3>2
  <2>4. CASE a \in small
    <3>1. joined[k] = Join(x, a, policy)
      BY <1>7, <2>4
    <3>2. covered(k) = covered(k - 1) \cup {ChunkPrefix(a)}
      <4>1. met(k) = met(k - 1) \cup {a}
        BY <2>2, <2>4
      <4> HIDE DEF met
      <4> QED
        BY <4>1
    <3>3. ChunkPrefix(a) \notin covered(k - 1)
      <4>1. ASSUME NEW i \in 1..(k - 1)
            PROVE  ChunkPrefix(arrays[i]) # ChunkPrefix(a)
        <5>1. DOMAIN arrays = 1..n
          BY DEF IsListing, n
        <5>2. i \in DOMAIN arrays /\ k \in DOMAIN arrays /\ i # k
          BY <1>2, <5>1
        <5> QED
          BY <5>2 DEF IsListing
      <4> QED
        BY <4>1
    <3>4. Grouping(x, covered(k - 1))
      BY <1>10
    <3> HIDE DEF a, covered
    <3>5. Sane(x, arrays, policy, taken)
      BY <2>1 DEF S
    <3>6. Grouping(Join(x, a, policy), covered(k - 1) \cup {ChunkPrefix(a)})
      BY <2>1, <3>3, <3>4, <3>5, JoinIsSane
    <3>7. Sized(Join(x, a, policy), arrays, policy)
      <4>1. x \in AccFields(arrays) /\ Sized(x, arrays, policy) /\ TotalBytes(a) <= policy.t_max
        BY <1>10, <2>1, <2>4 DEF S
      <4>2. ChunkPrefix(a) \notin GroupPrefixes(x)
        BY <3>3, <3>4 DEF Grouping
      <4> HIDE DEF x
      <4> QED
        BY <2>1, <4>1, <4>2, JoinIsSized
    <3>8. Named(Join(x, a, policy), taken)
      <4>1. Named(x, taken)
        BY <1>10
      <4> QED
        BY <2>1, <3>5, <4>1, JoinIsNamed
    <3> QED
      BY <2>1, <3>1, <3>2, <3>6, <3>7, <3>8, Zenon
  <2> QED
    BY <2>3, <2>4
<1>11. n \in T
  <2> HIDE DEF T
  <2>1. \A k \in 1..n : k - 1 \in T => k \in T
    BY <1>10
  <2>2. \A k \in 0..n : k \in T
    BY <1>2, <1>9, <2>1, Reached
  <2> QED
    BY <1>2, <2>2
<1>12. covered(n) = {ChunkPrefix(a) : a \in small}
  <2>1. met(n) = small
    BY <1>2 DEF Range, IsListing, n
  <2> HIDE DEF met
  <2> QED
    BY <2>1
<1>13. Sane(joined[n], arrays, policy, taken)
  BY <1>2, <1>8 DEF S
<1>14. /\ Grouping(joined[n], covered(n)) /\ Sized(joined[n], arrays, policy)
       /\ Named(joined[n], taken)
  BY <1>11
<1> HIDE DEF covered
<1>15. FairSizes(WithTail(joined[n]).out, arrays, policy)
  <2>1. joined[n] \in AccFields(arrays) /\ \A b \in joined[n].out : b.prefixes \in Seq(Paths)
    BY <1>13 DEF Sane, Made
  <2> QED
    BY <1>14, <2>1, WithTailIsFair
<1>16. NewlySpelled(WithTail(joined[n]).out, taken)
  <2>1. joined[n].out # {} => joined[n].latest \in joined[n].out
    BY <1>14 DEF Grouping
  <2> QED
    BY <1>13, <1>14, <2>1, WithTailIsSpelled
<1> QED
  BY <1>1, <1>12, <1>13, <1>14, <1>15, <1>16, WithTailIsSane

----------------------------------------------------------------------------
(* The cut *)

\* The blobs of one cut, next to the ids in use before it.
WellCut(blobs, arrays, policy, taken) ==
    /\ IsFiniteSet(blobs)
    /\ \A b \in blobs : Made(b, arrays, policy) /\ b.id \notin taken
    /\ UniqueIds(blobs)
    /\ Disjoint(blobs)

NoSharedId(some, more) == \A b \in some, d \in more : b.id # d.id

\* Two cuts, the later one kept off the ids and the prefixes of the earlier one.
LEMMA WellCutTogether ==
  ASSUME NEW arrays, NEW policy, NEW taken,
         NEW some, WellCut(some, arrays, policy, taken),
         NEW more, WellCut(more, arrays, policy, taken),
         NoSharedId(some, more),
         PrefixesOf(some) \cap PrefixesOf(more) = {}
  PROVE  /\ WellCut(some \cup more, arrays, policy, taken)
         /\ PrefixesOf(some \cup more) = PrefixesOf(some) \cup PrefixesOf(more)
<1>1. IsFiniteSet(some \cup more)
  BY FS_Union DEF WellCut
<1>2. \A b \in some \cup more : Made(b, arrays, policy) /\ b.id \notin taken
  BY Zenon DEF WellCut
<1>3. UniqueIds(some \cup more)
  <2>1. UniqueIds(some) /\ UniqueIds(more)
    BY DEF WellCut
  <2> QED
    BY <2>1, Zenon DEF UniqueIds, NoSharedId
<1>4. \A b \in some, d \in more : Range(b.prefixes) \cap Range(d.prefixes) = {}
  BY DEF PrefixesOf
<1>5. Disjoint(some \cup more)
  <2>1. Disjoint(some) /\ Disjoint(more)
    BY DEF WellCut
  <2>2. \A b \in some, d \in more : Range(d.prefixes) \cap Range(b.prefixes) = {}
    BY <1>4
  <2> QED
    BY <1>4, <2>1, <2>2, Zenon DEF Disjoint
<1>6. PrefixesOf(some \cup more) = PrefixesOf(some) \cup PrefixesOf(more)
  BY DEF PrefixesOf
<1> QED
  BY <1>1, <1>2, <1>3, <1>5, <1>6 DEF WellCut

\* The one blob of a scope small enough to be a single unit.
LEMMA RootBlobResult ==
  ASSUME Numerals(Nat), NEW arrays, NEW policy,
         NEW taken \in SUBSET Seq(STRING), IsFiniteSet(taken)
  PROVE  /\ WellCut({Blob(<<"b", "root">>, << <<>> >>, NoBucket, taken)}, arrays, policy, taken)
         /\ PrefixesOf({Blob(<<"b", "root">>, << <<>> >>, NoBucket, taken)}) = {<<>>}
         /\ NewlySpelled({Blob(<<"b", "root">>, << <<>> >>, NoBucket, taken)}, taken)
<1> DEFINE ident == <<"b", "root">>
           prefixes == << <<>> >>
           acc == Start(taken)
           new == Allocate(acc, ident, prefixes, NoBucket)
           b == Blob(ident, prefixes, NoBucket, taken)
<1>1. acc.out = {} /\ acc.taken = taken
  BY DEF Start
<1>2. new.out = {b}
  BY <1>1 DEF Allocate
<1>3. ident \in Seq(STRING) /\ ident # <<>>
  <2>1. "b" \in STRING /\ "root" \in STRING
    BY WordsAssumption
  <2> QED
    BY <2>1
<1>4. prefixes \in Seq(Paths) /\ prefixes # <<>>
  <2>1. <<>> \in Paths
    BY DEF Paths
  <2> QED
    BY <2>1, Singleton
<1>5. FitBucket(NoBucket, prefixes, arrays, policy)
  <2>1. NoBucket \in BucketFields /\ NoBucket.width = 0
    BY DEF NoBucket, BucketFields
  <2> QED
    BY <2>1, Zenon DEF FitBucket
<1>6. Sane(acc, arrays, policy, taken)
  BY StartIsSane
<1>7. b.prefixes = prefixes
  BY DEF Blob
<1>8. Range(prefixes) = {<<>>}
  BY DEF Range
<1>9. Stem(b) = ident
  <2>1. b.prefixes = << <<>> >> /\ ~ IsBucketed(b)
    BY DEF Blob, IsBucketed, NoBucket
  <2>2. GroupId(<< <<>> >>) = <<"b", "root">>
    <3> DEFINE words == <<"root">>
    <3>1. Ident(<<>>) = words
      <4>1. [i \in DOMAIN <<>> |-> Words[<<>>[i]]] = <<>>
        OBVIOUS
      <4> QED
        BY <4>1, FlattenedFew DEF Ident
    <3>2. [i \in DOMAIN << <<>> >> |-> Ident(<< <<>> >>[i])] = <<words>>
      BY <3>1
    <3>3. words \in Seq(STRING)
      BY WordsAssumption
    <3> HIDE DEF words
    <3>4. FlattenSeq(<<words>>) = words
      BY <3>3, FlattenedFew
    <3>5. GroupId(<< <<>> >>) = <<"b">> \o words
      BY <3>2, <3>4 DEF GroupId
    <3> QED
      BY <3>5 DEF words
  <2> QED
    BY <2>1, <2>2, Zenon DEF Stem
<1>10. b.id = Uniq(ident, taken)
  BY DEF Blob
<1> HIDE DEF acc, ident, prefixes
<1>11. Sane(new, arrays, policy, taken)
  BY <1>3, <1>4, <1>5, <1>6, AllocateIsSane
<1> HIDE DEF new, b
<1>12. IsFiniteSet({b}) /\ Made(b, arrays, policy) /\ b.id \notin taken
  BY <1>2, <1>11 DEF Sane
<1>13. UniqueIds({b}) /\ Disjoint({b})
  BY Zenon DEF UniqueIds, Disjoint
<1>14. PrefixesOf({b}) = {<<>>}
  BY <1>7, <1>8 DEF PrefixesOf
<1>15. NewlySpelled({b}, taken)
  <2> DEFINE id == Uniq(ident, taken)
  <2>1. id = ident \/ (ident \in taken /\ \E k \in Nat : id = Append(ident, ToString(k)))
    BY <1>3, UniqIsFree
  <2>2. id = b.id
    BY <1>10
  <2> HIDE DEF id
  <2> QED
    BY <1>9, <2>1, <2>2 DEF NewlySpelled, AllSpelled, Spelled
<1> QED
  BY <1>12, <1>13, <1>14, <1>15 DEF WellCut, b, ident, prefixes

\* The blobs of a cut that are groups of arrays.
GroupsOf(blobs) == {b \in blobs : ~IsBucketed(b) /\ b.prefixes # << <<>> >>}

LEMMA FairSizesOfPart ==
  ASSUME NEW out, NEW arrays, NEW policy, FairSizes(out, arrays, policy),
         NEW part \in SUBSET out
  PROVE  FairSizes(part, arrays, policy)
BY DEF FairSizes

\* What is cut is claimed, and nothing else, or the scope is a single unit.
LEMMA CutResult ==
  ASSUME Numerals(Nat), NEW arrays, IsListing(arrays), NEW policy \in PolicyFields,
         NEW todo \in SUBSET Range(arrays),
         NEW taken \in SUBSET Seq(STRING), IsFiniteSet(taken), NEW fresh
  PROVE  /\ WellCut(Cut(arrays, todo, policy, taken, fresh), arrays, policy, taken)
         /\ \/ PrefixesOf(Cut(arrays, todo, policy, taken, fresh)) = {ChunkPrefix(a) : a \in todo}
            \/ /\ fresh /\ todo # {}
               /\ PrefixesOf(Cut(arrays, todo, policy, taken, fresh)) = {<<>>}
         /\ FairSizes(GroupsOf(Cut(arrays, todo, policy, taken, fresh)), arrays, policy)
         /\ NewlySpelled(Cut(arrays, todo, policy, taken, fresh), taken)
<1> DEFINE large == {a \in todo : TotalBytes(a) > policy.t_max}
           small == todo \ large
           cut == CutLarge(arrays, large, policy, taken)
           grouped == Coalesce(arrays, small, policy, cut.taken)
           root == Blob(<<"b", "root">>, << <<>> >>, NoBucket, taken)
           blobs == Cut(arrays, todo, policy, taken, fresh)
<1>1. CASE todo = {}
  <2>1. blobs = {}
    BY <1>1 DEF Cut
  <2>2. PrefixesOf({}) = {} /\ UniqueIds({}) /\ Disjoint({}) /\ IsFiniteSet({})
    BY FS_EmptySet DEF PrefixesOf, UniqueIds, Disjoint
  <2>3. FairSizes(GroupsOf({}), arrays, policy)
    BY DEF FairSizes, GroupsOf
  <2> QED
    BY <1>1, <2>1, <2>2, <2>3 DEF WellCut, NewlySpelled, AllSpelled
<1>2. CASE todo # {} /\ fresh /\ MapThenSumSet(TotalBytes, todo) <= policy.t_max
  <2>1. blobs = {root}
    BY <1>2 DEF Cut
  <2>2. root.prefixes = << <<>> >>
    BY DEF Blob
  <2> HIDE DEF blobs
  <2>3. FairSizes(GroupsOf(blobs), arrays, policy)
    BY <2>1, <2>2 DEF FairSizes, GroupsOf
  <2> QED
    BY <1>2, <2>1, <2>3, RootBlobResult, Zenon DEF blobs
<1>3. CASE todo # {} /\ ~ (fresh /\ MapThenSumSet(TotalBytes, todo) <= policy.t_max)
  <2>1. blobs = cut.out \cup grouped.out
    BY <1>3, Zenon DEF Cut
  <2>2. /\ large \in SUBSET Range(arrays) /\ small \in SUBSET Range(arrays)
        /\ todo = large \cup small /\ large \cap small = {}
        /\ \A a \in small : TotalBytes(a) <= policy.t_max
    <3>1. policy.t_max \in Nat /\ \A a \in todo : TotalBytes(a) \in Nat
      BY SizesOfArray DEF PolicyFields
    <3> QED
      BY <3>1
  <2> HIDE DEF large, small
  <2>3. /\ Sane(cut, arrays, policy, taken)
        /\ Disjoint(cut.out)
        /\ PrefixesOf(cut.out) = {ChunkPrefix(a) : a \in large}
        /\ \A b \in cut.out : IsBucketed(b)
        /\ Named(cut, taken)
    BY <2>2, CutLargeResult
  <2> HIDE DEF cut
  <2> DEFINE used == cut.taken
  <2>4. used \in SUBSET Seq(STRING) /\ IsFiniteSet(used)
    <3>1. cut \in AccFields(arrays)
      BY <2>3 DEF Sane
    <3> QED
      BY <2>3, <3>1 DEF Sane, AccFields
  <2>5. taken \subseteq used
    BY <2>3 DEF Sane
  <2>6. WellCut(cut.out, arrays, policy, taken)
    BY <2>3, Zenon DEF Sane, WellCut
  <2>7. \A b \in cut.out : b.id \in used
    BY <2>3 DEF Sane
  <2> HIDE DEF used
  <2> DEFINE out == Coalesce(arrays, small, policy, used).out
  <2>8. /\ Sane(Coalesce(arrays, small, policy, used), arrays, policy, used)
        /\ Disjoint(out)
        /\ PrefixesOf(out) = {ChunkPrefix(a) : a \in small}
        /\ FairSizes(out, arrays, policy)
        /\ NewlySpelled(out, used)
    BY <2>2, <2>4, CoalesceResult
  <2>9. WellCut(out, arrays, policy, taken) /\ \A b \in out : b.id \notin used
    BY <2>5, <2>8, Zenon DEF Sane, WellCut
  <2>10. out = grouped.out
    BY DEF used
  <2> HIDE DEF out, blobs
  <2>11. PrefixesOf(cut.out) \cap PrefixesOf(out) = {}
    BY <2>2, <2>3, <2>8, ChunkPrefixIdentifies
  <2>12. NoSharedId(cut.out, out)
    BY <2>7, <2>9, Zenon DEF NoSharedId
  <2> DEFINE some == cut.out
  <2>13. /\ WellCut(some, arrays, policy, taken)
         /\ WellCut(out, arrays, policy, taken)
         /\ NoSharedId(some, out)
         /\ PrefixesOf(some) \cap PrefixesOf(out) = {}
    BY <2>6, <2>9, <2>11, <2>12
  <2>14. PrefixesOf(some) \cup PrefixesOf(out) = {ChunkPrefix(a) : a \in todo}
    BY <2>2, <2>3, <2>8
  <2> HIDE DEF some
  <2>15. /\ WellCut(some \cup out, arrays, policy, taken)
         /\ PrefixesOf(some \cup out) = PrefixesOf(some) \cup PrefixesOf(out)
    <3>1. WellCut(some \cup out, arrays, policy, taken)
      BY <2>13, WellCutTogether
    <3>2. PrefixesOf(some \cup out) = PrefixesOf(some) \cup PrefixesOf(out)
      BY <2>13, WellCutTogether
    <3> QED
      BY <3>1, <3>2
  <2>16. blobs = some \cup out
    BY <2>1, <2>10 DEF some
  <2>17. FairSizes(GroupsOf(blobs), arrays, policy)
    <3>1. GroupsOf(blobs) \in SUBSET out
      BY <2>3, <2>16 DEF GroupsOf, some
    <3> QED
      BY <2>8, <3>1, FairSizesOfPart
  <2>18. NewlySpelled(blobs, taken)
    <3>1. IdsOf(blobs) = IdsOf(some) \cup IdsOf(out)
      BY <2>16 DEF IdsOf
    <3>2. AllSpelled(some, taken \cup IdsOf(some)) /\ AllSpelled(out, used \cup IdsOf(out))
      BY <2>3, <2>8, NamedIsSpelled DEF some, NewlySpelled
    <3>3. used \subseteq taken \cup IdsOf(some)
      BY <2>3 DEF Named, used, some
    <3> DEFINE all == taken \cup IdsOf(blobs)
    <3>4. taken \cup IdsOf(some) \subseteq all /\ used \cup IdsOf(out) \subseteq all
      BY <3>1, <3>3
    <3> HIDE DEF all
    <3>5. AllSpelled(some, all) /\ AllSpelled(out, all)
      BY <3>2, <3>4, SpelledByMore
    <3> QED
      BY <2>16, <3>5 DEF AllSpelled, NewlySpelled, all
  <2> QED
    BY <2>14, <2>15, <2>16, <2>17, <2>18 DEF blobs
<1> QED
  BY <1>1, <1>2, <1>3

----------------------------------------------------------------------------
(* The next manifest *)

\* The manifests a run may find: what validation asks for, and no prefix twice.
SoundBlobs(blobs) ==
    /\ IsFiniteSet(blobs)
    /\ \A b \in blobs : b \in BlobFields /\ WellFormed(b)
    /\ UniqueIds(blobs)
    /\ Disjoint(blobs)

LEMMA NoBlobsAreSound ==
  SoundBlobs({})
BY FS_EmptySet, Zenon DEF SoundBlobs, UniqueIds, Disjoint

LEMMA IdsAreStrings ==
  ASSUME NEW m, SoundBlobs(m.blobs)
  PROVE  Ids(m) \in SUBSET Seq(STRING) /\ IsFiniteSet(Ids(m))
<1>1. IsFiniteSet(m.blobs)
  BY DEF SoundBlobs
<1>2. IsFiniteSet({b.id : b \in m.blobs})
  <2> DEFINE ids == {b.id : b \in m.blobs}
             f == [b \in m.blobs |-> b.id]
  <2>1. f \in Surjection(m.blobs, ids)
    BY Zenon DEF Surjection
  <2> HIDE DEF ids
  <2>2. IsFiniteSet(ids)
    BY <1>1, <2>1, FS_Surjection
  <2> QED
    BY <2>2 DEF ids
<1>3. \A b \in m.blobs : b.id \in Seq(STRING)
  BY DEF SoundBlobs, BlobFields
<1> QED
  BY <1>2, <1>3 DEF Ids

\* What one run adds.
LEMMA NewBlobsResult ==
  ASSUME Numerals(Nat), NEW arrays, IsListing(arrays), NEW policy \in PolicyFields,
         NEW previous, SoundBlobs(previous.blobs)
  PROVE  /\ WellCut(NewBlobs(arrays, policy, previous), arrays, policy, Ids(previous))
         /\ \/ PrefixesOf(NewBlobs(arrays, policy, previous))
                   = {ChunkPrefix(a) : a \in ToCut(arrays, policy, previous)}
            \/ /\ previous.blobs = {}
               /\ PrefixesOf(NewBlobs(arrays, policy, previous)) = {<<>>}
         /\ FairSizes(GroupsOf(NewBlobs(arrays, policy, previous)), arrays, policy)
         /\ NewlySpelled(NewBlobs(arrays, policy, previous), Ids(previous))
<1> DEFINE todo == ToCut(arrays, policy, previous)
           taken == Ids(previous)
           fresh == previous.blobs = {}
<1>1. NewBlobs(arrays, policy, previous) = Cut(arrays, todo, policy, taken, fresh)
  BY DEF NewBlobs
<1>2. todo \in SUBSET Range(arrays)
  BY DEF ToCut
<1>3. taken \in SUBSET Seq(STRING) /\ IsFiniteSet(taken)
  BY IdsAreStrings
<1> HIDE DEF todo, taken, fresh
<1>4. WellCut(Cut(arrays, todo, policy, taken, fresh), arrays, policy, taken)
  BY <1>2, <1>3, CutResult
<1>5. \/ PrefixesOf(Cut(arrays, todo, policy, taken, fresh)) = {ChunkPrefix(a) : a \in todo}
      \/ fresh /\ PrefixesOf(Cut(arrays, todo, policy, taken, fresh)) = {<<>>}
  BY <1>2, <1>3, CutResult
<1>6. FairSizes(GroupsOf(Cut(arrays, todo, policy, taken, fresh)), arrays, policy)
  BY <1>2, <1>3, CutResult
<1>7. NewlySpelled(Cut(arrays, todo, policy, taken, fresh), taken)
  BY <1>2, <1>3, CutResult
<1> QED
  BY <1>1, <1>4, <1>5, <1>6, <1>7 DEF todo, taken, fresh

\* Nothing is claimed at or below a prefix that was claimed before.
LEMMA NewPrefixesAreUnclaimed ==
  ASSUME Numerals(Nat), NEW arrays, IsListing(arrays), NEW policy \in PolicyFields,
         NEW previous, SoundBlobs(previous.blobs),
         NEW p \in PrefixesOf(previous.blobs),
         NEW q \in PrefixesOf(NewBlobs(arrays, policy, previous))
  PROVE  ~ IsPrefix(p, q)
<1>1. previous.blobs # {}
  BY DEF PrefixesOf
<1>2. PrefixesOf(NewBlobs(arrays, policy, previous))
        = {ChunkPrefix(a) : a \in ToCut(arrays, policy, previous)}
  BY <1>1, NewBlobsResult
<1>3. PICK a \in ToCut(arrays, policy, previous) : q = ChunkPrefix(a)
  BY <1>2
<1>4. PICK b \in previous.blobs : p \in Range(b.prefixes)
  BY DEF PrefixesOf
<1> QED
  BY <1>3, <1>4 DEF ToCut, Claimed

\* After a run every array that is not held back belongs to a blob.
LEMMA EveryArrayClaimed ==
  ASSUME Numerals(Nat), NEW arrays, IsListing(arrays), NEW policy \in PolicyFields,
         NEW previous, SoundBlobs(previous.blobs),
         NEW a \in Range(arrays), ~ Held(a, policy, previous.pinned)
  PROVE  Claimed(a, previous.blobs \cup NewBlobs(arrays, policy, previous))
<1> DEFINE new == NewBlobs(arrays, policy, previous)
<1>1. CASE Claimed(a, previous.blobs)
  BY <1>1, Zenon DEF Claimed
<1>2. CASE ~ Claimed(a, previous.blobs)
  <2>1. a \in ToCut(arrays, policy, previous)
    BY <1>2 DEF ToCut
  <2>2. ChunkPrefix(a) \in PrefixesOf(new) \/ <<>> \in PrefixesOf(new)
    BY <2>1, NewBlobsResult
  <2>3. IsPrefix(ChunkPrefix(a), ChunkPrefix(a)) /\ IsPrefix(<<>>, ChunkPrefix(a))
    BY ChunkPrefixType, PrefixOfItself DEF Paths
  <2> HIDE DEF new
  <2>4. PICK b \in new : ChunkPrefix(a) \in Range(b.prefixes) \/ <<>> \in Range(b.prefixes)
    BY <2>2 DEF PrefixesOf
  <2> QED
    BY <2>3, <2>4, Zenon DEF Claimed, new
<1> QED
  BY <1>1, <1>2

\* A run leads from sound blobs to sound blobs.
LEMMA BlobsStaySound ==
  ASSUME Numerals(Nat), NEW arrays, IsListing(arrays), NEW policy \in PolicyFields,
         NEW previous, SoundBlobs(previous.blobs)
  PROVE  SoundBlobs(previous.blobs \cup NewBlobs(arrays, policy, previous))
<1> DEFINE new == NewBlobs(arrays, policy, previous)
<1>1. WellCut(new, arrays, policy, Ids(previous))
  BY NewBlobsResult
<1>2. ASSUME NEW p \in PrefixesOf(previous.blobs), NEW q \in PrefixesOf(new)
      PROVE  p # q
  <2>1. p \in Seq(STRING)
    <3>1. PICK b \in previous.blobs : p \in Range(b.prefixes)
      BY DEF PrefixesOf
    <3>2. b.prefixes \in Seq(Seq(STRING))
      BY DEF SoundBlobs, BlobFields
    <3> QED
      BY <3>1, <3>2 DEF Range
  <2>2. IsPrefix(p, p)
    BY <2>1, PrefixOfItself
  <2> QED
    BY <2>2, NewPrefixesAreUnclaimed
<1> HIDE DEF new
<1>3. IsFiniteSet(previous.blobs \cup new)
  BY <1>1, FS_Union DEF SoundBlobs, WellCut
<1>4. \A b \in previous.blobs \cup new : b \in BlobFields /\ WellFormed(b)
  BY <1>1, Zenon DEF SoundBlobs, WellCut, Made
<1>5. UniqueIds(previous.blobs \cup new)
  <2>1. UniqueIds(previous.blobs) /\ UniqueIds(new)
    BY <1>1 DEF SoundBlobs, WellCut
  <2>2. \A b \in previous.blobs, d \in new : b.id # d.id
    BY <1>1 DEF WellCut, Ids
  <2> QED
    BY <2>1, <2>2, Zenon DEF UniqueIds
<1>6. Disjoint(previous.blobs \cup new)
  <2>1. Disjoint(previous.blobs) /\ Disjoint(new)
    BY <1>1 DEF SoundBlobs, WellCut
  <2>2. \A b \in previous.blobs, d \in new : /\ Range(b.prefixes) \cap Range(d.prefixes) = {}
                                             /\ Range(d.prefixes) \cap Range(b.prefixes) = {}
    BY <1>2 DEF PrefixesOf
  <2> QED
    BY <2>1, <2>2, Zenon DEF Disjoint
<1> QED
  BY <1>3, <1>4, <1>5, <1>6 DEF SoundBlobs, new

\* Without a previous manifest, or with one, a run changes no blob there is, and
\* finds nothing to write exactly when it cuts nothing.
LEMMA DiffOfRun ==
  ASSUME Numerals(Nat), NEW arrays, IsListing(arrays), NEW policy \in PolicyFields,
         NEW previous, SoundBlobs(previous.blobs),
         NEW next, next.blobs = previous.blobs \cup NewBlobs(arrays, policy, previous)
  PROVE  /\ IsAdditive(Diff(previous, next))
         /\ IsEmpty(Diff(previous, next)) <=> NewBlobs(arrays, policy, previous) = {}
<1> DEFINE new == NewBlobs(arrays, policy, previous)
<1>1. \A b \in new : b.id \notin Ids(previous)
  BY NewBlobsResult DEF WellCut
<1> HIDE DEF new
<1>2. next.blobs = previous.blobs \cup new
  BY DEF new
<1>3. Diff(previous, next).removed = {}
  BY <1>2, Zenon DEF Diff, Ids
<1>4. Diff(previous, next).modified = {}
  <2>1. \A b \in previous.blobs, d \in next.blobs : d.id = b.id => d = b
    <3>1. UniqueIds(previous.blobs)
      BY DEF SoundBlobs
    <3> QED
      BY <1>1, <1>2, <3>1, Zenon DEF UniqueIds, Ids
  <2> QED
    BY <2>1, Zenon DEF Diff
<1>5. Diff(previous, next).added = new
  <2>1. Diff(previous, next).added = {b \in next.blobs : b.id \notin Ids(previous)}
    BY DEF Diff
  <2>2. \A b \in previous.blobs : b.id \in Ids(previous)
    BY DEF Ids
  <2> QED
    BY <1>1, <1>2, <2>1, <2>2
<1> QED
  BY <1>3, <1>4, <1>5 DEF IsAdditive, IsEmpty, new

\* Two manifests that compare equal have the same blobs.
LEMMA EmptyDiff ==
  ASSUME NEW old, NEW new, IsEmpty(Diff(old, new))
  PROVE  new.blobs = old.blobs
<1>1. /\ \A b \in new.blobs : b.id \in Ids(old)
      /\ \A b \in old.blobs : b.id \in Ids(new)
      /\ \A b \in old.blobs, d \in new.blobs : d.id = b.id => d = b
  BY DEF IsEmpty, IsAdditive, Diff
<1>2. ASSUME NEW b \in new.blobs
      PROVE  b \in old.blobs
  <2>1. PICK d \in old.blobs : d.id = b.id
    BY <1>1, Zenon DEF Ids
  <2> QED
    BY <1>1, <2>1
<1>3. ASSUME NEW b \in old.blobs
      PROVE  b \in new.blobs
  <2>1. PICK d \in new.blobs : d.id = b.id
    BY <1>1, Zenon DEF Ids
  <2> QED
    BY <1>1, <2>1
<1> QED
  BY <1>2, <1>3

----------------------------------------------------------------------------
(* What is kept of a sequence *)

LEMMA KeptResult ==
  ASSUME NEW X, NEW given \in Seq(X), NEW members,
         \A i, j \in DOMAIN given : given[i] = given[j] => i = j
  PROVE  /\ Kept(given, members) \in Seq(X)
         /\ \A i \in DOMAIN Kept(given, members) :
               Kept(given, members)[i] \in members /\ Kept(given, members)[i] \in Range(given)
         /\ \A i, j \in DOMAIN Kept(given, members) :
               Kept(given, members)[i] = Kept(given, members)[j] => i = j
         /\ \A x \in Range(given) \cap members :
               \E i \in DOMAIN Kept(given, members) : Kept(given, members)[i] = x
<1> DEFINE n == Len(given)
           next(x, k) == IF given[k] \in members THEN Append(x, given[k]) ELSE x
           P(f) == f = [k \in 0..n |-> IF k = 0 THEN <<>>
                                      ELSE IF given[k] \in members THEN Append(f[k - 1], given[k])
                                      ELSE f[k - 1]]
           found == CHOOSE f : P(f)
           S == Seq(X)
           step == [k \in 1..n |-> [x \in S |-> next(x, k)]]
<1>1. Kept(given, members) = found[n]
  BY DEF Kept
<1>2. /\ n \in Nat /\ \A k \in 1..n : given[k] \in X
      /\ \A k, l \in 1..n : given[k] = given[l] => k = l
  OBVIOUS
<1> HIDE DEF n
<1>3. <<>> \in S
  OBVIOUS
<1>4. \A k \in 1..n, x \in S : next(x, k) \in S
  BY <1>2, AppendProperties
<1> HIDE DEF S
<1>5. step \in [1..n -> [S -> S]] /\ \A k \in 1..n, x \in S : step[k][x] = next(x, k)
  <2> HIDE DEF next
  <2> QED
    BY <1>4
<1> HIDE DEF step, found
<1>6. \E f : P(f)
  <2>1. PICK f \in [0..n -> S] : Iterates(f, n, <<>>, step)
    BY <1>2, <1>3, <1>5, IterationExists
  <2>2. f[0] = <<>> /\ \A k \in 1..n : f[k] = next(f[k - 1], k)
    <3>1. \A k \in 1..n : k - 1 \in 0..n
      BY <1>2
    <3> HIDE DEF next
    <3> QED
      BY <1>5, <2>1, <3>1, Zenon DEF Iterates
  <2>3. \A k \in 0..n : k # 0 => k \in 1..n
    BY <1>2
  <2>4. P(f)
    BY <2>1, <2>2, <2>3, Zenon
  <2> QED
    BY <2>4, Zenon
<1>7. found[0] = <<>> /\ \A k \in 1..n : found[k] = next(found[k - 1], k)
  <2>1. P(found)
    BY <1>6 DEF found
  <2>2. 0 \in 0..n /\ \A k \in 1..n : k \in 0..n /\ k # 0
    BY <1>2
  <2> QED
    BY <2>1, <2>2, Zenon
<1>8. \A k \in 0..n : found[k] \in S
  <2>1. \A k \in 1..n : found[k - 1] \in S => found[k] \in S
    BY <1>4, <1>7, Zenon
  <2> QED
    BY <1>2, <1>3, <1>7, <2>1, ValuesIn
<1> DEFINE Good(s, k) ==
               /\ \A i \in DOMAIN s : /\ s[i] \in members
                                      /\ \E l \in 1..k : s[i] = given[l]
               /\ \A i, j \in DOMAIN s : s[i] = s[j] => i = j
               /\ \A l \in 1..k : given[l] \in members => \E i \in DOMAIN s : s[i] = given[l]
           T == {k \in 0..n : Good(found[k], k)}
<1>9. 0 \in T
  <2>1. DOMAIN found[0] = {} /\ 0 \in 0..n
    BY <1>2, <1>7
  <2> QED
    BY <2>1
<1>10. ASSUME NEW k \in 1..n, k - 1 \in T
       PROVE  k \in T
  <2> DEFINE s == found[k - 1]
  <2>1. k \in 0..n /\ s \in Seq(X) /\ Good(s, k - 1)
    BY <1>2, <1>8, <1>10 DEF S
  <2>2. \A l \in 1..(k - 1) : l \in 1..k /\ l \in 1..n /\ l # k
    BY <1>2
  <2>3. k \in 1..k /\ \A l \in 1..k : l # k => l \in 1..(k - 1)
    BY <1>2
  <2>4. CASE given[k] \notin members
    <3>1. found[k] = s
      BY <1>7, <2>4
    <3>2. \A l \in 1..k : given[l] \in members => \E i \in DOMAIN s : s[i] = given[l]
      BY <2>1, <2>3, <2>4
    <3>3. Good(s, k)
      BY <2>1, <2>2, <3>2
    <3> HIDE DEF Good
    <3> QED
      BY <2>1, <3>1, <3>3
  <2>5. CASE given[k] \in members
    <3> DEFINE t == Append(s, given[k])
    <3>1. found[k] = t
      BY <1>7, <2>5
    <3>2. /\ Len(s) \in Nat /\ DOMAIN s = 1..Len(s) /\ DOMAIN t = 1..(Len(s) + 1)
          /\ t[Len(s) + 1] = given[k] /\ \A i \in DOMAIN s : t[i] = s[i]
      BY <1>2, <2>1, AppendProperties
    <3>3. \A i \in DOMAIN t : i \in DOMAIN s \/ i = Len(s) + 1
      BY <3>2
    <3>4. \A i \in DOMAIN s : s[i] # given[k]
      <4>1. \A l \in 1..(k - 1) : given[l] # given[k]
        BY <1>2, <2>2
      <4> QED
        BY <2>1, <4>1
    <3> HIDE DEF t
    <3>5. ASSUME NEW i \in DOMAIN t
          PROVE  t[i] \in members /\ \E l \in 1..k : t[i] = given[l]
      <4>1. CASE i \in DOMAIN s
        BY <2>1, <2>2, <3>2, <4>1
      <4>2. CASE i = Len(s) + 1
        BY <2>3, <2>5, <3>2, <4>2
      <4> QED
        BY <3>3, <4>1, <4>2
    <3>6. \A i, j \in DOMAIN t : t[i] = t[j] => i = j
      <4>1. \A i, j \in DOMAIN s : s[i] = s[j] => i = j
        BY <2>1
      <4> QED
        BY <3>2, <3>3, <3>4, <4>1, Zenon
    <3>7. ASSUME NEW l \in 1..k, given[l] \in members
          PROVE  \E i \in DOMAIN t : t[i] = given[l]
      <4>1. CASE l = k
        BY <3>2, <4>1
      <4>2. CASE l # k
        <5>1. PICK i \in DOMAIN s : s[i] = given[l]
          BY <2>1, <2>3, <3>7, <4>2
        <5> QED
          BY <3>2, <5>1
      <4> QED
        BY <4>1, <4>2
    <3>8. Good(t, k)
      BY <3>5, <3>6, <3>7
    <3> HIDE DEF Good
    <3> QED
      BY <2>1, <3>1, <3>8
  <2> QED
    BY <2>4, <2>5
<1>11. Good(found[n], n)
  <2> HIDE DEF T
  <2>1. \A k \in 1..n : k - 1 \in T => k \in T
    BY <1>10
  <2>2. n \in T
    <3>1. \A k \in 0..n : k \in T
      BY <1>2, <1>9, <2>1, Reached
    <3> QED
      BY <1>2, <3>1
  <2> QED
    BY <2>2 DEF T
<1>12. found[n] \in Seq(X)
  BY <1>2, <1>8 DEF S
<1>13. /\ \A l \in 1..n : given[l] \in Range(given)
       /\ \A x \in Range(given) : \E l \in 1..n : x = given[l]
  BY DEF Range, n
<1> QED
  BY <1>1, <1>11, <1>12, <1>13

----------------------------------------------------------------------------
(* Manifests *)

LEMMA NothingIsSound ==
  /\ Nothing \in ManifestFields /\ Nothing.epoch = 0 /\ Nothing.blobs = {}
  /\ Nothing.pinned = {} /\ Nothing.policy = DefaultPolicy
  /\ SoundBlobs(Nothing.blobs)
<1>1. /\ Nothing.epoch = 0 /\ Nothing.blobs = {}
      /\ Nothing.pinned = {} /\ Nothing.policy = DefaultPolicy
  BY DEF Nothing
<1>2. Nothing \in ManifestFields
  <2>1. /\ 0 \in Nat /\ {} \in SUBSET BlobFields /\ {} \in SUBSET Seq(STRING)
        /\ DefaultPolicy \in PolicyFields
    BY DefaultPolicyAssumption
  <2> QED
    BY <2>1, Zenon DEF Nothing, ManifestFields
<1> QED
  BY <1>1, <1>2, NoBlobsAreSound

LEMMA EffectivePolicyType ==
  ASSUME NEW given \in PolicyFields, NEW previous, previous.policy \in PolicyFields
  PROVE  EffectivePolicy(given, previous) \in PolicyFields
BY Zenon DEF EffectivePolicy

\* What a run computes from a sound manifest, Nothing included.
LEMMA ComputedIsSound ==
  ASSUME Numerals(Nat), NEW listing, IsListing(listing), NEW given \in PolicyFields,
         NEW previous \in ManifestFields, SoundBlobs(previous.blobs)
  PROVE  LET computed == PartitionScope(listing, given, previous)
             policy == EffectivePolicy(given, previous)
         IN  /\ computed \in ManifestFields
             /\ computed.epoch = IF Exists(previous) THEN previous.epoch ELSE 1
             /\ computed.blobs = previous.blobs \cup NewBlobs(listing, policy, previous)
             /\ computed.pinned = previous.pinned
             /\ computed.policy = policy
             /\ SoundBlobs(computed.blobs)
<1> DEFINE computed == PartitionScope(listing, given, previous)
           policy == EffectivePolicy(given, previous)
           new == NewBlobs(listing, policy, previous)
           epoch == IF Exists(previous) THEN previous.epoch ELSE 1
           hot == HotPaths(listing, policy, previous.pinned)
<1>1. computed = [epoch |-> epoch, blobs |-> previous.blobs \cup new, hot |-> hot,
                  pinned |-> previous.pinned, policy |-> policy]
  BY DEF PartitionScope
<1>2. /\ previous.epoch \in Nat /\ previous.blobs \subseteq BlobFields
      /\ previous.pinned \subseteq Seq(STRING) /\ previous.policy \in PolicyFields
  BY DEF ManifestFields
<1>3. policy \in PolicyFields
  BY <1>2, EffectivePolicyType
<1>4. hot \subseteq Seq(STRING)
  <2>1. \A a \in Range(listing) : a.path \in Seq(STRING)
    BY ChunkPrefixType, PathsAreStrings
  <2> QED
    BY <2>1 DEF HotPaths
<1>5. epoch \in Nat
  BY <1>2
<1> HIDE DEF policy, epoch, hot
<1>6. SoundBlobs(previous.blobs \cup new)
  BY <1>3, BlobsStaySound
<1>7. previous.blobs \cup new \subseteq BlobFields
  BY <1>6 DEF SoundBlobs
<1> HIDE DEF new, computed
<1>8. computed \in ManifestFields
  BY <1>1, <1>2, <1>3, <1>4, <1>5, <1>7 DEF ManifestFields
<1>9. /\ computed.epoch = epoch /\ computed.blobs = previous.blobs \cup new
      /\ computed.pinned = previous.pinned /\ computed.policy = policy
  BY <1>1
<1> QED
  BY <1>6, <1>8, <1>9 DEF computed, new, policy, epoch

LEMMA BumpedType ==
  ASSUME NEW m \in ManifestFields
  PROVE  /\ Bumped(m) \in ManifestFields
         /\ Bumped(m).epoch = m.epoch + 1 /\ Bumped(m).blobs = m.blobs
         /\ Bumped(m).pinned = m.pinned /\ Bumped(m).hot = m.hot
         /\ Bumped(m).policy = m.policy
BY DEF Bumped, ManifestFields

\* A manifest with the pins replaced.
LEMMA PinnedType ==
  ASSUME NEW m \in ManifestFields, NEW pins \in SUBSET Seq(STRING)
  PROVE  LET next == Bumped([m EXCEPT !.pinned = pins])
         IN  /\ next \in ManifestFields
             /\ next.epoch = m.epoch + 1 /\ next.blobs = m.blobs
             /\ next.pinned = pins /\ next.policy = m.policy /\ next.hot = m.hot
<1> DEFINE n == [m EXCEPT !.pinned = pins]
<1>1. /\ n \in ManifestFields
      /\ n.epoch = m.epoch /\ n.blobs = m.blobs
      /\ n.pinned = pins /\ n.policy = m.policy /\ n.hot = m.hot
  BY DEF ManifestFields
<1> HIDE DEF n
<1>2. /\ Bumped(n) \in ManifestFields
      /\ Bumped(n).epoch = n.epoch + 1 /\ Bumped(n).blobs = n.blobs
      /\ Bumped(n).pinned = n.pinned /\ Bumped(n).hot = n.hot
      /\ Bumped(n).policy = n.policy
  BY <1>1, BumpedType
<1> QED
  BY <1>1, <1>2 DEF n

\* What a reader may take for a manifest of this program.
SoundManifest(m) == m \in ManifestFields /\ SoundBlobs(m.blobs)

LEMMA NothingIsSoundManifest == SoundManifest(Nothing)
  BY NothingIsSound DEF SoundManifest
=============================================================================
