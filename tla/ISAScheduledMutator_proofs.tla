---------------------- MODULE ISAScheduledMutator_proofs ----------------------
(***************************************************************************)
(* Theorems about programs that are edited (DisasDataTable) and mutated       *)
(* (ISAScheduledMutator), for every set of kinds, sizes, reaches and programs.  *)
(* A distance in a program is a sum of sizes, a program that is written is a    *)
(* selection of its entries: what these recursive definitions give is found     *)
(* by induction over a set of numbers.                                        *)
(***************************************************************************)
EXTENDS ISAScheduledMutator, Encodings, SequenceTheorems, WellFoundedInduction, TLAPS

-----------------------------------------------------------------------------
(* Induction. *)

Less == {p \in Nat \X Nat : p[1] < p[2]}

\* The natural numbers have no infinite descent.
LEMMA LessIsWellFounded == IsWellFoundedOn(Less, Nat)
BY NatLessThanWellFounded, Zenon DEF Less, OpToRel

\* A set that has 0, and with a number the next, has all of them.
LEMMA SetInduction ==
    ASSUME NEW S, 0 \in S, \A n \in Nat : n \in S => n + 1 \in S
    PROVE  Nat \subseteq S
<1> DEFINE T == Nat \ S
<1>1. SUFFICES ASSUME T # {} PROVE FALSE
  OBVIOUS
<1>2. T \subseteq Nat
  OBVIOUS
<1> HIDE DEF T
<1>3. PICK x \in T : \A y \in T : <<y, x>> \notin Less
  BY LessIsWellFounded, <1>1, <1>2, WFMin
<1>4. x # 0 /\ x \in Nat /\ x \notin S
  BY DEF T
<1>5. x - 1 \in Nat /\ <<x - 1, x>> \in Less
  BY <1>4 DEF Less
<1>6. x - 1 \in S
  BY <1>3, <1>5 DEF T
<1> QED  BY <1>4, <1>5, <1>6

-----------------------------------------------------------------------------
(* Addresses. *)

NextAddress(f, code, i) == IF i = 1 THEN BaseAddress ELSE f[i - 1] + Size[code[i - 1].kind]
AreAddresses(f, code, n) == f = [i \in 1..(n + 1) |-> NextAddress(f, code, i)]

\* The equation of the addresses has a solution, by induction on their number.
LEMMA AddressesExist == ASSUME NEW code PROVE \A n \in Nat : \E f : AreAddresses(f, code, n)
<1> DEFINE T == {n \in Nat : \E f : AreAddresses(f, code, n)}
<1>1. 0 \in T
  <2>1. AreAddresses([i \in 1..1 |-> BaseAddress], code, 0)
    BY DEF AreAddresses, NextAddress
  <2> QED  BY <2>1
<1>2. ASSUME NEW n \in Nat, n \in T PROVE n + 1 \in T
  <2>1. PICK f : AreAddresses(f, code, n)
    BY <1>2
  <2> DEFINE g == [i \in 1..(n + 2) |-> IF i = n + 2 THEN NextAddress(f, code, i) ELSE f[i]]
  <2>2. ASSUME NEW i \in 1..(n + 2) PROVE g[i] = NextAddress(g, code, i)
    <3>1. NextAddress(g, code, i) = NextAddress(f, code, i)
      <4>1. i # 1 => g[i - 1] = f[i - 1]
        OBVIOUS
      <4> HIDE DEF g
      <4> QED  BY <4>1 DEF NextAddress
    <3>2. i # n + 2 => f[i] = NextAddress(f, code, i)
      BY <2>1 DEF AreAddresses
    <3>3. g[i] = IF i = n + 2 THEN NextAddress(f, code, i) ELSE f[i]
      OBVIOUS
    <3> HIDE DEF g
    <3> QED  BY <3>1, <3>2, <3>3
  <2>3. g = [i \in 1..(n + 2) |-> NextAddress(g, code, i)]
    BY <2>2, Zenon
  <2>4. (n + 1) + 1 = n + 2
    OBVIOUS
  <2>5. AreAddresses(g, code, n + 1)
    BY <2>3, <2>4 DEF AreAddresses
  <2> QED  BY <2>5
<1> HIDE DEF T
<1>3. Nat \subseteq T
  BY <1>1, <1>2, SetInduction
<1> QED  BY <1>3 DEF T

\* A sequence of entries that have a kind, whatever else they have.
HasKinds(code) ==
    /\ Len(code) \in Nat /\ DOMAIN code = 1..Len(code)
    /\ \A i \in 1..Len(code) : code[i].kind \in Kinds

\* So Addresses, which chooses a solution, solves it.
LEMMA AddressesDef ==
    ASSUME NEW code, HasKinds(code)
    PROVE  \A i \in 1..(Len(code) + 1) : Addresses(code)[i] = NextAddress(Addresses(code), code, i)
<1>1. Addresses(code) = CHOOSE f : AreAddresses(f, code, Len(code))
  BY Zenon DEF Addresses, AreAddresses, NextAddress
<1>2. \E f : AreAddresses(f, code, Len(code))
  BY AddressesExist DEF HasKinds
<1>3. AreAddresses(Addresses(code), code, Len(code))
  BY <1>1, <1>2, Zenon
<1> QED  BY <1>3 DEF AreAddresses

\* An instruction has two bytes or four.
LEMMA SizeType == \A k \in Kinds : Size[k] \in {2, 4}
BY DisasAssumption DEF Kinds

\* The first address is the base, and each instruction takes its size.
LEMMA AddressStep ==
    ASSUME NEW code, HasKinds(code)
    PROVE  /\ Addresses(code)[1] = BaseAddress /\ BaseAddress \in Nat
           /\ \A i \in 1..Len(code) :
                 /\ Size[code[i].kind] \in {2, 4}
                 /\ Addresses(code)[i + 1] = Addresses(code)[i] + Size[code[i].kind]
<1>1. Len(code) \in Nat
  BY DEF HasKinds
<1>2. Addresses(code)[1] = BaseAddress
  <2>1. 1 \in 1..(Len(code) + 1)
    BY <1>1
  <2>2. Addresses(code)[1] = NextAddress(Addresses(code), code, 1)
    BY <2>1, AddressesDef, Zenon
  <2> QED  BY <2>2, Zenon DEF NextAddress
<1>3. ASSUME NEW i \in 1..Len(code)
      PROVE  Addresses(code)[i + 1] = Addresses(code)[i] + Size[code[i].kind]
  <2>1. i + 1 \in 1..(Len(code) + 1) /\ (i + 1) - 1 = i /\ i + 1 # 1
    BY <1>1
  <2>2. Addresses(code)[i + 1] = NextAddress(Addresses(code), code, i + 1)
    BY <2>1, AddressesDef, Zenon
  <2> QED  BY <2>1, <2>2, Zenon DEF NextAddress
<1> QED  BY <1>2, <1>3, SizeType, DisasAssumption DEF HasKinds

\* Addresses are numbers.
LEMMA AddressType ==
    ASSUME NEW code, HasKinds(code)
    PROVE  \A i \in 1..(Len(code) + 1) : Addresses(code)[i] \in Nat
<1> DEFINE A == Addresses(code)
           T == {n \in Nat : n <= Len(code) => A[n + 1] \in Nat}
<1>1. Len(code) \in Nat
  BY DEF HasKinds
<1>2. /\ A[1] \in Nat
      /\ \A i \in 1..Len(code) : Size[code[i].kind] \in {2, 4} /\ A[i + 1] = A[i] + Size[code[i].kind]
  BY AddressStep
<1> HIDE DEF A
<1>3. 0 \in T
  BY <1>2
<1>4. ASSUME NEW n \in Nat, n \in T PROVE n + 1 \in T
  BY <1>1, <1>2, <1>4
<1> HIDE DEF T
<1>5. Nat \subseteq T
  BY <1>3, <1>4, SetInduction
<1>6. ASSUME NEW i \in 1..(Len(code) + 1) PROVE A[i] \in Nat
  <2>1. i - 1 \in T /\ i - 1 <= Len(code) /\ (i - 1) + 1 = i
    BY <1>1, <1>5
  <2> QED  BY <2>1 DEF T
<1> QED  BY <1>6 DEF A

AgreeFor(c, i, d, j, n) ==
    \A k \in 0..(n - 1) : Size[c[i + k].kind] = Size[d[j + k].kind]

\* Two programs that agree in the sizes of a stretch of instructions have the same
\* distance from its beginning to its end.
LEMMA SameWay ==
    ASSUME NEW c, HasKinds(c), NEW d, HasKinds(d),
           NEW i \in 1..(Len(c) + 1), NEW j \in 1..(Len(d) + 1), NEW n \in Nat,
           i + n <= Len(c) + 1, j + n <= Len(d) + 1,
           AgreeFor(c, i, d, j, n)
    PROVE  Addresses(c)[i + n] - Addresses(c)[i] = Addresses(d)[j + n] - Addresses(d)[j]
<1> DEFINE A == Addresses(c)
           B == Addresses(d)
           T == {m \in Nat : m <= n => A[i + m] - A[i] = B[j + m] - B[j]}
<1>1. Len(c) \in Nat /\ Len(d) \in Nat
  BY DEF HasKinds
<1>2. /\ \A k \in 1..Len(c) : Size[c[k].kind] \in {2, 4} /\ A[k + 1] = A[k] + Size[c[k].kind]
      /\ \A k \in 1..Len(d) : Size[d[k].kind] \in {2, 4} /\ B[k + 1] = B[k] + Size[d[k].kind]
      /\ \A k \in 1..(Len(c) + 1) : A[k] \in Nat
      /\ \A k \in 1..(Len(d) + 1) : B[k] \in Nat
  BY AddressStep, AddressType
<1> HIDE DEF A, B
<1>3. 0 \in T
  BY <1>2
<1>4. ASSUME NEW m \in Nat, m \in T PROVE m + 1 \in T
  <2> SUFFICES ASSUME m + 1 <= n PROVE A[i + (m + 1)] - A[i] = B[j + (m + 1)] - B[j]
    OBVIOUS
  <2>1. i + m \in 1..Len(c) /\ j + m \in 1..Len(d) /\ m \in 0..(n - 1)
    BY <1>1
  <2>2. A[i + (m + 1)] = A[i + m] + Size[c[i + m].kind]
    <3>1. A[(i + m) + 1] = A[i + m] + Size[c[i + m].kind]
      BY <1>2, <2>1, Zenon
    <3>2. (i + m) + 1 = i + (m + 1)
      OBVIOUS
    <3> QED  BY <3>1, <3>2, Zenon
  <2>3. B[j + (m + 1)] = B[j + m] + Size[d[j + m].kind]
    <3>1. B[(j + m) + 1] = B[j + m] + Size[d[j + m].kind]
      BY <1>2, <2>1, Zenon
    <3>2. (j + m) + 1 = j + (m + 1)
      OBVIOUS
    <3> QED  BY <3>1, <3>2, Zenon
  <2>4. Size[c[i + m].kind] = Size[d[j + m].kind] /\ Size[d[j + m].kind] \in Nat
    <3>1. Size[c[i + m].kind] = Size[d[j + m].kind]
      BY <2>1, Zenon DEF AgreeFor
    <3>2. Size[d[j + m].kind] \in {2, 4}
      BY <1>2, <2>1, Zenon
    <3> QED  BY <3>1, <3>2
  <2>5. A[i + m] - A[i] = B[j + m] - B[j]
    BY <1>4
  <2>6. A[i + m] \in Nat /\ A[i] \in Nat /\ B[j + m] \in Nat /\ B[j] \in Nat
    <3>1. i + m \in 1..(Len(c) + 1) /\ j + m \in 1..(Len(d) + 1)
      BY <1>1, <2>1
    <3> QED  BY <1>2, <3>1, Zenon
  <2> DEFINE s == Size[d[j + m].kind]
             a == A[i]
             b == B[j]
             x == A[i + m]
             y == B[j + m]
  <2>7. A[i + (m + 1)] = x + s /\ B[j + (m + 1)] = y + s
    BY <2>2, <2>3, <2>4, Zenon
  <2>8. s \in Int /\ a \in Int /\ b \in Int /\ x \in Int /\ y \in Int /\ x - a = y - b
    <3>1. s \in Nat /\ a \in Nat /\ b \in Nat /\ x \in Nat /\ y \in Nat /\ x - a = y - b
      BY <2>4, <2>5, <2>6, Zenon
    <3> HIDE DEF T, s, a, b, x, y
    <3> QED  BY <3>1
  <2> HIDE DEF T, s, a, b, x, y
  <2>9. (x + s) - a = (y + s) - b
    BY <2>8
  <2> QED  BY <2>7, <2>9, Zenon DEF a, b
<1> HIDE DEF T
<1>5. n \in T
  BY <1>3, <1>4, SetInduction
<1> QED  BY <1>5 DEF T, A, B

\* Addresses ascend.
LEMMA AddressesAscend ==
    ASSUME NEW code, HasKinds(code), NEW i \in 1..(Len(code) + 1),
           NEW j \in 1..(Len(code) + 1), i < j
    PROVE  Addresses(code)[i] < Addresses(code)[j]
<1> DEFINE A == Addresses(code)
           T == {n \in Nat : i + n + 1 <= Len(code) + 1 => A[i] < A[i + n + 1]}
<1>1. Len(code) \in Nat
  BY DEF HasKinds
<1>2. /\ \A k \in 1..Len(code) : Size[code[k].kind] \in {2, 4} /\ A[k + 1] = A[k] + Size[code[k].kind]
      /\ \A k \in 1..(Len(code) + 1) : A[k] \in Nat
  BY AddressStep, AddressType
<1> HIDE DEF A
<1>3. 0 \in T
  <2>1. i + 0 + 1 = i + 1 /\ i + 1 <= Len(code) + 1 => i \in 1..Len(code)
    BY <1>1
  <2>2. ASSUME i \in 1..Len(code) PROVE A[i] < A[i + 1]
    <3>1. A[i] \in Nat /\ Size[code[i].kind] \in {2, 4} /\ A[i + 1] = A[i] + Size[code[i].kind]
      BY <1>1, <1>2, <2>2
    <3> HIDE DEF T
    <3> QED  BY <3>1
  <2> QED  BY <2>1, <2>2
<1>4. ASSUME NEW n \in Nat, n \in T PROVE n + 1 \in T
  <2> SUFFICES ASSUME i + (n + 1) + 1 <= Len(code) + 1 PROVE A[i] < A[i + (n + 1) + 1]
    OBVIOUS
  <2>1. i + n + 1 \in 1..Len(code)
    BY <1>1
  <2>2. A[i] < A[i + n + 1] /\ A[i] \in Nat /\ A[i + n + 1] \in Nat
    BY <1>1, <1>2, <1>4, <2>1
  <2>3. A[(i + n + 1) + 1] = A[i + n + 1] + Size[code[i + n + 1].kind]
    BY <1>2, <2>1
  <2>4. Size[code[i + n + 1].kind] \in {2, 4}
    BY <1>2, <2>1
  <2>5. (i + n + 1) + 1 = i + (n + 1) + 1
    OBVIOUS
  <2> QED  BY <2>2, <2>3, <2>4, <2>5
<1> HIDE DEF T
<1>5. j - i - 1 \in T
  BY <1>1, <1>3, <1>4, SetInduction
<1>6. i + (j - i - 1) + 1 = j
  BY <1>1
<1>7. i + (j - i - 1) + 1 <= Len(code) + 1
  BY <1>1
<1>8. A[i] < A[i + (j - i - 1) + 1]
  BY <1>5, <1>7 DEF T
<1> QED  BY <1>6, <1>8 DEF A

-----------------------------------------------------------------------------
(* Selections in ascending order. *)

NextInOrder(g, S, i) ==
    IF i = 0 THEN <<>> ELSE IF i \in S THEN Append(g[i - 1], i) ELSE g[i - 1]
AreInOrder(g, S, n) == g = [i \in 0..n |-> NextInOrder(g, S, i)]

\* The equation of InOrder has a solution up to any number.
LEMMA InOrderExists == ASSUME NEW S PROVE \A n \in Nat : \E g : AreInOrder(g, S, n)
<1> DEFINE T == {n \in Nat : \E g : AreInOrder(g, S, n)}
<1>1. 0 \in T
  <2>1. AreInOrder([i \in 0..0 |-> <<>>], S, 0)
    BY DEF AreInOrder, NextInOrder
  <2> QED  BY <2>1
<1>2. ASSUME NEW n \in Nat, n \in T PROVE n + 1 \in T
  <2>1. PICK f : AreInOrder(f, S, n)
    BY <1>2
  <2> DEFINE g == [i \in 0..(n + 1) |-> IF i = n + 1 THEN NextInOrder(f, S, i) ELSE f[i]]
  <2>2. ASSUME NEW i \in 0..(n + 1) PROVE g[i] = NextInOrder(g, S, i)
    <3>1. NextInOrder(g, S, i) = NextInOrder(f, S, i)
      <4>1. i # 0 => g[i - 1] = f[i - 1]
        OBVIOUS
      <4> HIDE DEF g
      <4> QED  BY <4>1 DEF NextInOrder
    <3>2. i # n + 1 => f[i] = NextInOrder(f, S, i)
      BY <2>1 DEF AreInOrder
    <3>3. g[i] = IF i = n + 1 THEN NextInOrder(f, S, i) ELSE f[i]
      OBVIOUS
    <3> HIDE DEF g
    <3> QED  BY <3>1, <3>2, <3>3
  <2>3. g = [i \in 0..(n + 1) |-> NextInOrder(g, S, i)]
    BY <2>2, Zenon
  <2>4. AreInOrder(g, S, n + 1)
    BY <2>3 DEF AreInOrder
  <2> QED  BY <2>4
<1> HIDE DEF T
<1>3. Nat \subseteq T
  BY <1>1, <1>2, SetInduction
<1> QED  BY <1>3 DEF T

\* A selection up to n + 1 is that up to n, and n + 1 if it is selected.
LEMMA InOrderStep ==
    ASSUME NEW S
    PROVE  /\ InOrder(S, 0) = <<>>
           /\ \A n \in Nat : InOrder(S, n + 1) =
                 IF n + 1 \in S THEN Append(InOrder(S, n), n + 1) ELSE InOrder(S, n)
<1> DEFINE G(n) == CHOOSE g : AreInOrder(g, S, n)
<1>1. ASSUME NEW n \in Nat PROVE InOrder(S, n) = G(n)[n] /\ AreInOrder(G(n), S, n)
  <2>1. InOrder(S, n) = G(n)[n]
    BY Zenon DEF InOrder, AreInOrder, NextInOrder
  <2>2. \E g : AreInOrder(g, S, n)
    BY InOrderExists
  <2> QED  BY <2>1, <2>2, Zenon
<1> HIDE DEF G
<1>2. \A n \in Nat : \A i \in 0..n : G(n)[i] = NextInOrder(G(n), S, i)
  <2> SUFFICES ASSUME NEW n \in Nat, NEW i \in 0..n PROVE G(n)[i] = NextInOrder(G(n), S, i)
    OBVIOUS
  <2>1. AreInOrder(G(n), S, n)
    BY <1>1
  <2> QED  BY <2>1 DEF AreInOrder
<1>3. ASSUME NEW n \in Nat PROVE \A i \in 0..n : G(n + 1)[i] = G(n)[i]
  <2> DEFINE T == {i \in Nat : i <= n => G(n + 1)[i] = G(n)[i]}
  <2>1. n + 1 \in Nat
    OBVIOUS
  <2>2. 0 \in T
    <3>1. 0 \in 0..n /\ 0 \in 0..(n + 1)
      OBVIOUS
    <3>2. G(n)[0] = <<>> /\ G(n + 1)[0] = <<>>
      BY <1>2, <2>1, <3>1 DEF NextInOrder
    <3> QED  BY <3>2
  <2>3. ASSUME NEW i \in Nat, i \in T PROVE i + 1 \in T
    <3> SUFFICES ASSUME i + 1 <= n PROVE G(n + 1)[i + 1] = G(n)[i + 1]
      OBVIOUS
    <3>1. i + 1 \in 0..n /\ i + 1 \in 0..(n + 1) /\ i + 1 # 0 /\ (i + 1) - 1 = i
      OBVIOUS
    <3>2. G(n + 1)[i] = G(n)[i]
      BY <2>3
    <3>3. G(n)[i + 1] = NextInOrder(G(n), S, i + 1)
      BY <1>2, <3>1
    <3>4. G(n + 1)[i + 1] = NextInOrder(G(n + 1), S, i + 1)
      BY <1>2, <2>1, <3>1
    <3> HIDE DEF T
    <3> QED  BY <3>1, <3>2, <3>3, <3>4 DEF NextInOrder
  <2> HIDE DEF T
  <2>4. Nat \subseteq T
    BY <2>2, <2>3, SetInduction
  <2>5. ASSUME NEW i \in 0..n PROVE G(n + 1)[i] = G(n)[i]
    <3>1. i \in T /\ i <= n
      BY <2>4
    <3> QED  BY <3>1 DEF T
  <2> QED  BY <2>5
<1>4. InOrder(S, 0) = <<>>
  <2>1. InOrder(S, 0) = G(0)[0]
    BY <1>1
  <2>2. G(0)[0] = NextInOrder(G(0), S, 0)
    BY <1>2
  <2> QED  BY <2>1, <2>2 DEF NextInOrder
<1>5. ASSUME NEW n \in Nat
      PROVE  InOrder(S, n + 1) =
                 IF n + 1 \in S THEN Append(InOrder(S, n), n + 1) ELSE InOrder(S, n)
  <2>1. n + 1 \in Nat /\ n + 1 \in 0..(n + 1) /\ n \in 0..n /\ n + 1 # 0 /\ (n + 1) - 1 = n
    OBVIOUS
  <2>2. InOrder(S, n + 1) = G(n + 1)[n + 1] /\ InOrder(S, n) = G(n)[n]
    BY <1>1, <2>1
  <2>3. G(n + 1)[n + 1] = NextInOrder(G(n + 1), S, n + 1)
    BY <1>2, <2>1
  <2>4. G(n + 1)[n] = G(n)[n]
    BY <1>3, <2>1
  <2> QED  BY <2>1, <2>2, <2>3, <2>4, Zenon DEF NextInOrder
<1> QED  BY <1>4, <1>5

\* Where a number that is selected comes in the selection.
Place(S, i) == Len(InOrder(S, i))

\* A selection has what is selected, each once, at its place.
LEMMA InOrderPlaces ==
    ASSUME NEW S, NEW n \in Nat
    PROVE  /\ InOrder(S, n) \in Seq(Nat)
           /\ \A m \in 1..Len(InOrder(S, n)) :
                 /\ InOrder(S, n)[m] \in S \cap (1..n)
                 /\ Place(S, InOrder(S, n)[m]) = m
           /\ \A i \in S \cap (1..n) :
                 /\ Place(S, i) \in 1..Len(InOrder(S, n))
                 /\ InOrder(S, n)[Place(S, i)] = i
<1> DEFINE Seen(m) == InOrder(S, m)
           P(m) == /\ Seen(m) \in Seq(Nat)
                   /\ \A k \in 1..Len(Seen(m)) : Seen(m)[k] \in S \cap (1..m) /\ Len(Seen(Seen(m)[k])) = k
                   /\ \A i \in S \cap (1..m) : Len(Seen(i)) \in 1..Len(Seen(m)) /\ Seen(m)[Len(Seen(i))] = i
           T == {m \in Nat : P(m)}
<1>1. /\ Seen(0) = <<>>
      /\ \A m \in Nat : Seen(m + 1) = IF m + 1 \in S THEN Append(Seen(m), m + 1) ELSE Seen(m)
  BY InOrderStep
<1> HIDE DEF Seen
<1>2. P(0)
  <2>1. Seen(0) \in Seq(Nat) /\ Len(Seen(0)) = 0
    BY <1>1, EmptySeq
  <2>2. 1..0 = {} /\ S \cap (1..0) = {}
    OBVIOUS
  <2> QED  BY <2>1, <2>2
<1>3. ASSUME NEW m \in Nat, P(m) PROVE P(m + 1)
  <2>1. CASE m + 1 \notin S
    <3>1. Seen(m + 1) = Seen(m)
      BY <1>1, <2>1
    <3>2. S \cap (1..(m + 1)) = S \cap (1..m)
      BY <2>1
    <3> QED  BY <1>3, <3>1, <3>2
  <2>2. CASE m + 1 \in S
    <3>1. Seen(m + 1) = Append(Seen(m), m + 1)
      BY <1>1, <2>2
    <3>2. Seen(m) \in Seq(Nat) /\ Len(Seen(m)) \in Nat
      BY <1>3
    <3>3. /\ Seen(m + 1) \in Seq(Nat) /\ Len(Seen(m + 1)) = Len(Seen(m)) + 1
          /\ \A k \in 1..Len(Seen(m)) : Seen(m + 1)[k] = Seen(m)[k]
          /\ Seen(m + 1)[Len(Seen(m)) + 1] = m + 1
      <4>1. PICK s \in Seq(Nat), e \in Nat : s = Seen(m) /\ e = m + 1
        BY <3>2
      <4>2. /\ Append(s, e) \in Seq(Nat) /\ Len(Append(s, e)) = Len(s) + 1
            /\ \A k \in 1..Len(s) : Append(s, e)[k] = s[k]
            /\ Append(s, e)[Len(s) + 1] = e
        BY AppendProperties
      <4> QED  BY <3>1, <4>1, <4>2, Zenon
    <3>4. ASSUME NEW k \in 1..Len(Seen(m + 1))
          PROVE  Seen(m + 1)[k] \in S \cap (1..(m + 1)) /\ Len(Seen(Seen(m + 1)[k])) = k
      <4>1. CASE k \in 1..Len(Seen(m))
        <5>1. Seen(m + 1)[k] = Seen(m)[k]
          BY <3>3, <4>1
        <5>2. Seen(m)[k] \in S \cap (1..m) /\ Len(Seen(Seen(m)[k])) = k
          BY <1>3, <4>1
        <5> QED  BY <5>1, <5>2
      <4>2. CASE k = Len(Seen(m)) + 1
        <5>1. Seen(m + 1)[k] = m + 1 /\ Len(Seen(m + 1)) = k
          BY <3>3, <4>2
        <5> QED  BY <2>2, <5>1
      <4> QED  BY <3>2, <3>3, <4>1, <4>2
    <3>5. ASSUME NEW i \in S \cap (1..(m + 1))
          PROVE  Len(Seen(i)) \in 1..Len(Seen(m + 1)) /\ Seen(m + 1)[Len(Seen(i))] = i
      <4>1. CASE i \in 1..m
        <5>1. Len(Seen(i)) \in 1..Len(Seen(m)) /\ Seen(m)[Len(Seen(i))] = i
          BY <1>3, <4>1
        <5>2. Len(Seen(i)) \in 1..Len(Seen(m + 1))
          BY <3>2, <3>3, <5>1
        <5>3. Seen(m + 1)[Len(Seen(i))] = Seen(m)[Len(Seen(i))]
          BY <3>3, <5>1, Zenon
        <5> QED  BY <5>1, <5>2, <5>3, Zenon
      <4>2. CASE i = m + 1
        BY <3>2, <3>3, <4>2
      <4> QED  BY <4>1, <4>2
    <3> QED  BY <3>3, <3>4, <3>5
  <2> QED  BY <2>1, <2>2
<1> HIDE DEF P
<1>4. n \in T
  <2>1. 0 \in T
    BY <1>2
  <2>2. \A m \in Nat : m \in T => m + 1 \in T
    BY <1>3
  <2> HIDE DEF T
  <2> QED  BY <2>1, <2>2, SetInduction
<1> QED  BY <1>4 DEF P, Seen, Place

\* What is selected next to each other comes next to each other.
LEMMA PlaceStep ==
    ASSUME NEW S, NEW i \in Nat, i + 1 \in S
    PROVE  Place(S, i + 1) = Place(S, i) + 1 /\ Place(S, i) \in Nat
<1>1. InOrder(S, i + 1) = Append(InOrder(S, i), i + 1)
  BY InOrderStep
<1>2. InOrder(S, i) \in Seq(Nat)
  BY InOrderPlaces
<1> QED  BY <1>1, <1>2, AppendProperties DEF Place

\* Where everything in between is selected, places are as far apart as numbers.
LEMMA PlacesApart ==
    ASSUME NEW S, NEW i \in Nat, NEW n \in Nat, \A k \in (i + 1)..(i + n) : k \in S
    PROVE  Place(S, i + n) = Place(S, i) + n
<1> DEFINE T == {m \in Nat : m <= n => Place(S, i + m) = Place(S, i) + m}
<1>1. Place(S, i) \in Nat
  <2>1. InOrder(S, i) \in Seq(Nat)
    BY InOrderPlaces
  <2> QED  BY <2>1 DEF Place
<1>2. 0 \in T
  BY <1>1
<1>3. ASSUME NEW m \in Nat, m \in T PROVE m + 1 \in T
  <2> SUFFICES ASSUME m + 1 <= n PROVE Place(S, i + (m + 1)) = Place(S, i) + (m + 1)
    OBVIOUS
  <2>1. i + m \in Nat /\ (i + m) + 1 \in (i + 1)..(i + n) /\ i + (m + 1) = (i + m) + 1
    OBVIOUS
  <2>2. Place(S, (i + m) + 1) = Place(S, i + m) + 1
    BY <2>1, PlaceStep
  <2>3. Place(S, i + m) = Place(S, i) + m
    BY <1>3
  <2> HIDE DEF T
  <2> QED  BY <1>1, <2>1, <2>2, <2>3
<1> HIDE DEF T
<1>4. n \in T
  BY <1>2, <1>3, SetInduction
<1> QED  BY <1>4 DEF T

\* Where everything is selected, each number comes at its own place.
LEMMA AllInPlace ==
    ASSUME NEW S, NEW n \in Nat, \A k \in 1..n : k \in S
    PROVE  Place(S, n) = n
<1>1. Place(S, 0) = 0
  BY InOrderStep DEF Place
<1>2. 0 + n = n /\ \A k \in (0 + 1)..(0 + n) : k \in S
  OBVIOUS
<1>3. Place(S, 0 + n) = Place(S, 0) + n
  BY <1>2, PlacesApart
<1> QED  BY <1>1, <1>2, <1>3

-----------------------------------------------------------------------------
(* Sequences that are edited. *)

\* What is left when the entry at i is taken out.
LEMMA RemovedProperties ==
    ASSUME NEW T, NEW s \in Seq(T), NEW i \in 1..Len(s)
    PROVE  /\ RemovedAt(s, i) \in Seq(T) /\ Len(RemovedAt(s, i)) = Len(s) - 1
           /\ \A k \in 1..(Len(s) - 1) :
                 RemovedAt(s, i)[k] = IF k < i THEN s[k] ELSE s[k + 1]
<1> DEFINE before == SubSeq(s, 1, i - 1)
           behind == SubSeq(s, i + 1, Len(s))
<1>1. Len(s) \in Nat /\ \A k \in 1..Len(s) : s[k] \in T
  OBVIOUS
<1>2. /\ before \in Seq(T) /\ Len(before) = i - 1
      /\ \A k \in 1..(i - 1) : before[k] = s[k]
  <2>1. \A k \in 1..(i - 1) : s[k] \in T
    BY <1>1
  <2>2. 1 \in Int /\ i - 1 \in Int /\ (i - 1) - 1 + 1 = i - 1
    OBVIOUS
  <2> QED  BY <2>1, <2>2, SubSeqProperties
<1>3. /\ behind \in Seq(T) /\ Len(behind) = Len(s) - i
      /\ \A k \in 1..(Len(s) - i) : behind[k] = s[i + k]
  <2>1. \A k \in (i + 1)..Len(s) : s[k] \in T
    BY <1>1
  <2>2. i + 1 \in Int /\ Len(s) \in Int
    BY <1>1
  <2>3. /\ behind \in Seq(T)
        /\ Len(behind) = IF i + 1 <= Len(s) THEN Len(s) - (i + 1) + 1 ELSE 0
        /\ \A k \in 1..(Len(s) - (i + 1) + 1) : behind[k] = s[(i + 1) + k - 1]
    BY <2>1, <2>2, SubSeqProperties
  <2> HIDE DEF behind
  <2>4. ASSUME NEW k \in 1..(Len(s) - i) PROVE behind[k] = s[i + k]
    <3>1. k \in 1..(Len(s) - (i + 1) + 1) /\ (i + 1) + k - 1 = i + k
      BY <1>1
    <3> QED  BY <2>3, <3>1
  <2>5. Len(behind) = Len(s) - i
    BY <1>1, <2>3
  <2> QED  BY <2>3, <2>4, <2>5
<1>4. RemovedAt(s, i) = before \o behind
  BY DEF RemovedAt
<1> HIDE DEF before, behind
<1>5. /\ RemovedAt(s, i) \in Seq(T)
      /\ Len(RemovedAt(s, i)) = (i - 1) + (Len(s) - i)
      /\ \A k \in 1..((i - 1) + (Len(s) - i)) :
            RemovedAt(s, i)[k] = IF k <= i - 1 THEN before[k] ELSE behind[k - (i - 1)]
  <2>1. /\ RemovedAt(s, i) \in Seq(T)
        /\ Len(RemovedAt(s, i)) = Len(before) + Len(behind)
        /\ \A k \in 1..(Len(before) + Len(behind)) :
              RemovedAt(s, i)[k] = IF k <= Len(before) THEN before[k] ELSE behind[k - Len(before)]
    <3>1. before \in Seq(T) /\ behind \in Seq(T)
      BY <1>2, <1>3
    <3>2. /\ before \o behind \in Seq(T) /\ Len(before \o behind) = Len(before) + Len(behind)
          /\ \A k \in 1..(Len(before) + Len(behind)) :
                (before \o behind)[k] =
                    IF k <= Len(before) THEN before[k] ELSE behind[k - Len(before)]
      BY <3>1, ConcatProperties
    <3> QED  BY <1>4, <3>2, Zenon
  <2> QED  BY <1>2, <1>3, <2>1, Zenon
<1>6. (i - 1) + (Len(s) - i) = Len(s) - 1
  BY <1>1
<1>7. ASSUME NEW k \in 1..(Len(s) - 1)
      PROVE  RemovedAt(s, i)[k] = IF k < i THEN s[k] ELSE s[k + 1]
  <2>1. CASE k < i
    BY <1>1, <1>2, <1>5, <1>6, <2>1
  <2>2. CASE ~(k < i)
    <3>1. k - (i - 1) \in 1..(Len(s) - i) /\ i + (k - (i - 1)) = k + 1 /\ ~(k <= i - 1)
      BY <1>1, <2>2
    <3>2. RemovedAt(s, i)[k] = behind[k - (i - 1)]
      BY <1>5, <1>6, <3>1
    <3> QED  BY <1>3, <2>2, <3>1, <3>2
  <2> QED  BY <2>1, <2>2
<1> QED  BY <1>5, <1>6, <1>7

\* What there is when an entry is put in at i.
LEMMA InsertedProperties ==
    ASSUME NEW T, NEW s \in Seq(T), NEW i \in 1..(Len(s) + 1), NEW e \in T
    PROVE  /\ InsertedAt(s, i, e) \in Seq(T) /\ Len(InsertedAt(s, i, e)) = Len(s) + 1
           /\ \A k \in 1..(Len(s) + 1) :
                 InsertedAt(s, i, e)[k] = IF k < i THEN s[k] ELSE IF k = i THEN e ELSE s[k - 1]
<1> DEFINE before == SubSeq(s, 1, i - 1)
           behind == SubSeq(s, i, Len(s))
<1>1. Len(s) \in Nat /\ \A k \in 1..Len(s) : s[k] \in T
  OBVIOUS
<1>2. /\ before \in Seq(T) /\ Len(before) = i - 1
      /\ \A k \in 1..(i - 1) : before[k] = s[k]
  <2>1. \A k \in 1..(i - 1) : s[k] \in T
    BY <1>1
  <2>2. 1 \in Int /\ i - 1 \in Int /\ (i - 1) - 1 + 1 = i - 1
    BY <1>1
  <2> QED  BY <2>1, <2>2, SubSeqProperties
<1>3. /\ behind \in Seq(T) /\ Len(behind) = Len(s) - i + 1
      /\ \A k \in 1..(Len(s) - i + 1) : behind[k] = s[i + k - 1]
  <2>1. \A k \in i..Len(s) : s[k] \in T
    BY <1>1
  <2>2. i \in Int /\ Len(s) \in Int
    BY <1>1
  <2>3. /\ behind \in Seq(T)
        /\ Len(behind) = IF i <= Len(s) THEN Len(s) - i + 1 ELSE 0
        /\ \A k \in 1..(Len(s) - i + 1) : behind[k] = s[i + k - 1]
    BY <2>1, <2>2, SubSeqProperties
  <2> HIDE DEF behind
  <2> QED  BY <1>1, <2>2, <2>3
<1>4. InsertedAt(s, i, e) = (before \o <<e>>) \o behind
  BY DEF InsertedAt
<1> HIDE DEF before, behind
<1>5. <<e>> \in Seq(T) /\ Len(<<e>>) = 1 /\ <<e>>[1] = e
  OBVIOUS
<1> DEFINE upTo == before \o <<e>>
<1>6. /\ upTo \in Seq(T) /\ Len(upTo) = i
      /\ \A k \in 1..i : upTo[k] = IF k < i THEN s[k] ELSE e
  <2>1. /\ upTo \in Seq(T) /\ Len(upTo) = (i - 1) + 1
        /\ \A k \in 1..((i - 1) + 1) :
              upTo[k] = IF k <= i - 1 THEN before[k] ELSE <<e>>[k - (i - 1)]
    BY <1>2, <1>5, ConcatProperties
  <2> HIDE DEF upTo
  <2>2. (i - 1) + 1 = i
    BY <1>1
  <2>3. ASSUME NEW k \in 1..i PROVE upTo[k] = IF k < i THEN s[k] ELSE e
    <3>1. CASE k < i
      BY <1>1, <1>2, <2>1, <2>2, <3>1
    <3>2. CASE k = i
      <4>1. i - (i - 1) = 1 /\ ~(i <= i - 1)
        BY <1>1
      <4> QED  BY <1>5, <2>1, <2>2, <3>2, <4>1
    <3> QED  BY <1>1, <3>1, <3>2
  <2> QED  BY <2>1, <2>2, <2>3
<1>7. InsertedAt(s, i, e) = upTo \o behind
  BY <1>4
<1> HIDE DEF upTo
<1>8. /\ InsertedAt(s, i, e) \in Seq(T)
      /\ Len(InsertedAt(s, i, e)) = i + (Len(s) - i + 1)
      /\ \A k \in 1..(i + (Len(s) - i + 1)) :
            InsertedAt(s, i, e)[k] = IF k <= i THEN upTo[k] ELSE behind[k - i]
  <2>1. /\ upTo \o behind \in Seq(T) /\ Len(upTo \o behind) = Len(upTo) + Len(behind)
        /\ \A k \in 1..(Len(upTo) + Len(behind)) :
              (upTo \o behind)[k] = IF k <= Len(upTo) THEN upTo[k] ELSE behind[k - Len(upTo)]
    BY <1>3, <1>6, ConcatProperties
  <2> QED  BY <1>3, <1>6, <1>7, <2>1, Zenon
<1>9. i + (Len(s) - i + 1) = Len(s) + 1
  BY <1>1
<1>10. ASSUME NEW k \in 1..(Len(s) + 1)
       PROVE  InsertedAt(s, i, e)[k] = IF k < i THEN s[k] ELSE IF k = i THEN e ELSE s[k - 1]
  <2>1. CASE k <= i
    BY <1>1, <1>6, <1>8, <1>9, <2>1
  <2>2. CASE ~(k <= i)
    <3>1. k - i \in 1..(Len(s) - i + 1) /\ i + (k - i) - 1 = k - 1 /\ ~(k < i) /\ k # i
      BY <1>1, <2>2
    <3>2. InsertedAt(s, i, e)[k] = behind[k - i]
      BY <1>8, <1>9, <2>2
    <3> QED  BY <1>3, <3>1, <3>2
  <2> QED  BY <2>1, <2>2
<1> QED  BY <1>8, <1>9, <1>10

-----------------------------------------------------------------------------
(* Tables of entries whose ids are distinct. *)

Entries == [id : Nat, kind : Kinds]
OneEach(t) == \A i, j \in 1..Len(t) : t[i].id = t[j].id => i = j

\* An entry is found by its id.
LEMMA FoundById ==
    ASSUME NEW T, NEW t \in Seq(T), OneEach(t), NEW i \in 1..Len(t)
    PROVE  IndexOf(t, t[i].id) = i
<1>1. DOMAIN t = 1..Len(t)
  OBVIOUS
<1>2. \E k \in DOMAIN t : t[k].id = t[i].id
  BY <1>1
<1>3. IndexOf(t, t[i].id) \in DOMAIN t /\ t[IndexOf(t, t[i].id)].id = t[i].id
  BY <1>2, Zenon DEF IndexOf
<1> QED  BY <1>1, <1>3 DEF OneEach

\* Every id of a table is that of some entry, where it is found.
LEMMA IdHasIndex ==
    ASSUME NEW T, NEW t \in Seq(T), NEW id \in Ids(t)
    PROVE  IndexOf(t, id) \in 1..Len(t) /\ t[IndexOf(t, id)].id = id
<1>1. DOMAIN t = 1..Len(t)
  OBVIOUS
<1>2. \E k \in DOMAIN t : t[k].id = id
  BY DEF Ids
<1> QED  BY <1>1, <1>2, Zenon DEF IndexOf

\* Taking an entry out by its id leaves the others.
LEMMA WithoutProperties ==
    ASSUME NEW t \in Seq(Entries), OneEach(t), NEW id
    PROVE  /\ Without(t, id) \in Seq(Entries) /\ OneEach(Without(t, id))
           /\ Ids(Without(t, id)) = Ids(t) \ {id}
           /\ \A k \in 1..Len(Without(t, id)) : \E j \in 1..Len(t) : Without(t, id)[k] = t[j]
           /\ id \notin Ids(t) => Without(t, id) = t
<1>1. DOMAIN t = 1..Len(t) /\ Len(t) \in Nat
  OBVIOUS
<1>2. CASE id \notin Ids(t)
  <2>1. Without(t, id) = t
    BY <1>2, Zenon DEF Without
  <2> QED  BY <1>2, <2>1
<1>3. CASE id \in Ids(t)
  <2>1. PICK i \in 1..Len(t) : i = IndexOf(t, id) /\ t[i].id = id
    BY <1>3, IdHasIndex
  <2> DEFINE w == RemovedAt(t, i)
  <2>2. Without(t, id) = w
    BY <1>3, <2>1, Zenon DEF Without
  <2>3. /\ w \in Seq(Entries) /\ Len(w) = Len(t) - 1
        /\ \A k \in 1..(Len(t) - 1) : w[k] = IF k < i THEN t[k] ELSE t[k + 1]
    BY RemovedProperties
  <2> HIDE DEF w
  <2>4. DOMAIN w = 1..Len(w)
    BY <2>3
  <2>5. ASSUME NEW k \in 1..Len(w)
        PROVE  \E j \in 1..Len(t) : j # i /\ w[k] = t[j] /\ j = IF k < i THEN k ELSE k + 1
    BY <1>1, <2>3
  <2>6. OneEach(w)
    <3> SUFFICES ASSUME NEW k \in 1..Len(w), NEW l \in 1..Len(w), w[k].id = w[l].id
                 PROVE  k = l
      BY DEF OneEach
    <3>1. PICK m \in 1..Len(t) : w[k] = t[m] /\ m = IF k < i THEN k ELSE k + 1
      BY <2>5
    <3>2. PICK n \in 1..Len(t) : w[l] = t[n] /\ n = IF l < i THEN l ELSE l + 1
      BY <2>5
    <3>3. m = n
      BY <3>1, <3>2 DEF OneEach
    <3> QED  BY <2>3, <3>1, <3>2, <3>3
  <2>7. Ids(w) \subseteq Ids(t) \ {id}
    <3> SUFFICES ASSUME NEW k \in 1..Len(w) PROVE w[k].id \in Ids(t) \ {id}
      BY <2>4 DEF Ids
    <3>1. PICK m \in 1..Len(t) : m # i /\ w[k] = t[m]
      BY <2>5
    <3>2. t[m].id # id
      BY <2>1, <3>1 DEF OneEach
    <3> QED  BY <1>1, <3>1, <3>2 DEF Ids
  <2>8. Ids(t) \ {id} \subseteq Ids(w)
    <3> SUFFICES ASSUME NEW m \in 1..Len(t), t[m].id # id PROVE t[m].id \in Ids(w)
      BY <1>1 DEF Ids
    <3>1. m # i
      BY <2>1
    <3>2. PICK k \in 1..(Len(t) - 1) : k = IF m < i THEN m ELSE m - 1
      BY <1>1, <3>1
    <3>3. w[k] = t[m]
      BY <1>1, <2>3, <3>1, <3>2
    <3> QED  BY <2>3, <2>4, <3>2, <3>3 DEF Ids
  <2>9. \A k \in 1..Len(w) : \E j \in 1..Len(t) : w[k] = t[j]
    BY <2>5
  <2> QED  BY <1>3, <2>2, <2>3, <2>6, <2>7, <2>8, <2>9
<1> QED  BY <1>2, <1>3

\* Putting in an entry with an id of its own keeps the others.
LEMMA InsertedIds ==
    ASSUME NEW t \in Seq(Entries), OneEach(t), NEW i \in 1..(Len(t) + 1),
           NEW e \in Entries, e.id \notin Ids(t)
    PROVE  LET w == InsertedAt(t, i, e) IN
           /\ w \in Seq(Entries) /\ Len(w) = Len(t) + 1 /\ OneEach(w)
           /\ Ids(w) = Ids(t) \cup {e.id}
           /\ \A k \in 1..Len(w) : w[k] = e \/ \E j \in 1..Len(t) : w[k] = t[j]
<1> DEFINE w == InsertedAt(t, i, e)
<1>1. DOMAIN t = 1..Len(t) /\ Len(t) \in Nat
  OBVIOUS
<1>2. /\ w \in Seq(Entries) /\ Len(w) = Len(t) + 1
      /\ \A k \in 1..(Len(t) + 1) : w[k] = IF k < i THEN t[k] ELSE IF k = i THEN e ELSE t[k - 1]
  <2>1. w \in Seq(Entries) /\ Len(w) = Len(t) + 1
    BY InsertedProperties
  <2>2. ASSUME NEW k \in 1..(Len(t) + 1)
        PROVE  w[k] = IF k < i THEN t[k] ELSE IF k = i THEN e ELSE t[k - 1]
    BY InsertedProperties
  <2> HIDE DEF w
  <2> QED  BY <2>1, <2>2
<1> HIDE DEF w
<1>3. DOMAIN w = 1..Len(w)
  BY <1>2
<1>4. ASSUME NEW k \in 1..Len(w), k # i
      PROVE  \E j \in 1..Len(t) : w[k] = t[j] /\ j = IF k < i THEN k ELSE k - 1
  BY <1>1, <1>2, <1>4
<1>5. i \in 1..Len(w) /\ w[i] = e
  BY <1>1, <1>2
<1>6. ASSUME NEW k \in 1..Len(w), k # i PROVE w[k].id \in Ids(t)
  BY <1>1, <1>4, <1>6 DEF Ids
<1>7. OneEach(w)
  <2> SUFFICES ASSUME NEW k \in 1..Len(w), NEW l \in 1..Len(w), w[k].id = w[l].id
               PROVE  k = l
    BY DEF OneEach
  <2>1. CASE k # i /\ l # i
    <3>1. PICK m \in 1..Len(t) : w[k] = t[m] /\ m = IF k < i THEN k ELSE k - 1
      BY <1>4, <2>1
    <3>2. PICK n \in 1..Len(t) : w[l] = t[n] /\ n = IF l < i THEN l ELSE l - 1
      BY <1>4, <2>1
    <3>3. m = n
      BY <3>1, <3>2 DEF OneEach
    <3> QED  BY <1>1, <1>2, <2>1, <3>1, <3>2, <3>3
  <2> QED  BY <1>5, <1>6, <2>1
<1>8. Ids(w) = Ids(t) \cup {e.id}
  <2>1. Ids(w) \subseteq Ids(t) \cup {e.id}
    <3> SUFFICES ASSUME NEW k \in 1..Len(w) PROVE w[k].id \in Ids(t) \cup {e.id}
      BY <1>3 DEF Ids
    <3> QED  BY <1>5, <1>6
  <2>2. e.id \in Ids(w)
    BY <1>3, <1>5 DEF Ids
  <2>3. ASSUME NEW m \in 1..Len(t) PROVE t[m].id \in Ids(w)
    <3>1. PICK k \in 1..Len(w) : k = IF m < i THEN m ELSE m + 1
      BY <1>1, <1>2
    <3>2. w[k] = t[m]
      BY <1>1, <1>2, <3>1
    <3> QED  BY <1>3, <3>2 DEF Ids
  <2>4. Ids(t) \subseteq Ids(w)
    BY <1>1, <2>3 DEF Ids
  <2> QED  BY <2>1, <2>2, <2>4
<1>9. \A k \in 1..Len(w) : w[k] = e \/ \E j \in 1..Len(t) : w[k] = t[j]
  BY <1>4, <1>5
<1> QED  BY <1>2, <1>7, <1>8, <1>9 DEF w

\* shift_insert puts in an entry under the next id, in the place of one that had it.
LEMMA ShiftInserted ==
    ASSUME table \in Seq(Entries), OneEach(table), cur_id \in Nat,
           NEW i \in 1..(Len(table) + 1), NEW kind \in Kinds, ShiftInsert(i, kind)
    PROVE  /\ table' \in Seq(Entries) /\ OneEach(table') /\ cur_id' = cur_id + 1
           /\ pc' \in {"ready", "panicked"}
           /\ Ids(table) \subseteq Ids(table') /\ Ids(table') \subseteq Ids(table) \cup {cur_id + 1}
           /\ \A k \in 1..Len(table') :
                 \/ table'[k] = [id |-> cur_id + 1, kind |-> kind]
                 \/ \E j \in 1..Len(table) : table'[k] = table[j]
           /\ cur_id + 1 \notin Ids(table) =>
                 /\ pc' = "ready"
                 /\ table' = InsertedAt(table, i, [id |-> cur_id + 1, kind |-> kind])
<1> DEFINE id == cur_id + 1
           e == [id |-> id, kind |-> kind]
           rest == Without(table, id)
<1>1. /\ rest \in Seq(Entries) /\ OneEach(rest) /\ Ids(rest) = Ids(table) \ {id}
      /\ \A k \in 1..Len(rest) : \E j \in 1..Len(table) : rest[k] = table[j]
      /\ id \notin Ids(table) => rest = table
  BY WithoutProperties
<1>2. /\ cur_id' = id
      /\ \/ i <= Len(rest) + 1 /\ table' = InsertedAt(rest, i, e) /\ pc' = "ready"
         \/ ~(i <= Len(rest) + 1) /\ pc' = "panicked" /\ table' = table
  BY Zenon DEF ShiftInsert
<1>3. e \in Entries /\ e.id = id
  BY DEF Entries
<1> HIDE DEF id, e, rest
<1>4. CASE i <= Len(rest) + 1 /\ table' = InsertedAt(rest, i, e) /\ pc' = "ready"
  <2>1. i \in 1..(Len(rest) + 1) /\ e.id \notin Ids(rest)
    BY <1>1, <1>3, <1>4
  <2>2. /\ table' \in Seq(Entries) /\ OneEach(table') /\ Ids(table') = Ids(rest) \cup {id}
        /\ \A k \in 1..Len(table') : table'[k] = e \/ \E j \in 1..Len(rest) : table'[k] = rest[j]
    BY <1>1, <1>3, <1>4, <2>1, InsertedIds
  <2>3. \A k \in 1..Len(table') : table'[k] = e \/ \E j \in 1..Len(table) : table'[k] = table[j]
    BY <1>1, <2>2
  <2>4. id \notin Ids(table) => table' = InsertedAt(table, i, e)
    BY <1>1, <1>4
  <2> QED  BY <1>1, <1>2, <1>4, <2>2, <2>3, <2>4 DEF id, e
<1>5. CASE ~(i <= Len(rest) + 1) /\ pc' = "panicked" /\ table' = table
  <2>1. id \in Ids(table)
    BY <1>1, <1>5
  <2> QED  BY <1>2, <1>5, <2>1 DEF id
<1> QED  BY <1>2, <1>4, <1>5

-----------------------------------------------------------------------------
(* What is written of a table. *)

WhatIsWritten(safe) == {i \in 1..Len(table) : IsWritten(i, safe)}

\* A table is a program like others.
LEMMA TableHasKinds ==
    ASSUME NEW t \in Seq(Entries)
    PROVE  HasKinds(t) /\ \A i \in 1..Len(t) : t[i].id \in Nat /\ t[i].kind \in Kinds
<1>1. \A e \in Entries : e.id \in Nat /\ e.kind \in Kinds
  BY DEF Entries
<1>2. Len(t) \in Nat /\ DOMAIN t = 1..Len(t) /\ \A i \in 1..Len(t) : t[i] \in Entries
  OBVIOUS
<1>3. \A i \in 1..Len(t) : t[i].id \in Nat /\ t[i].kind \in Kinds
  BY <1>1, <1>2, Zenon
<1> QED  BY <1>2, <1>3, Zenon DEF HasKinds

\* The code has the entries that are written, each at its place, where it is found.
LEMMA CodeProperties ==
    ASSUME table \in Seq(Entries), OneEach(table), NEW safe, NEW code, code = CodeOf(safe)
    PROVE  LET S == WhatIsWritten(safe) IN
           /\ HasKinds(code) /\ Len(code) = Place(S, Len(table))
           /\ \A k \in 1..Len(code) : \E i \in S : code[k] = WrittenAs(i)
           /\ \A i \in S : /\ Place(S, i) \in 1..Len(code)
                           /\ code[Place(S, i)] = WrittenAs(i)
                           /\ IndexOf(code, table[i].id) = Place(S, i)
           /\ Ids(code) = {table[i].id : i \in S}
<1> DEFINE S == WhatIsWritten(safe)
           n == Len(table)
           kept == InOrder(S, n)
<1>1. DOMAIN table = 1..n /\ n \in Nat
  OBVIOUS
<1>2. code = [k \in DOMAIN kept |-> WrittenAs(kept[k])]
  BY <1>1, Zenon DEF CodeOf, WhatIsWritten
<1>3. S \subseteq 1..n /\ \A i \in S : table[i].id \in Nat /\ table[i].kind \in Kinds
  <2>1. S \subseteq 1..n
    BY DEF WhatIsWritten
  <2>2. \A i \in 1..n : table[i].id \in Nat /\ table[i].kind \in Kinds
    BY TableHasKinds
  <2> HIDE DEF S, n
  <2> QED  BY <2>1, <2>2
<1>4. /\ kept \in Seq(Nat)
      /\ \A m \in 1..Len(kept) : kept[m] \in S \cap (1..n) /\ Place(S, kept[m]) = m
      /\ \A i \in S \cap (1..n) : Place(S, i) \in 1..Len(kept) /\ kept[Place(S, i)] = i
  BY <1>1, InOrderPlaces
<1>5. Len(kept) = Place(S, n)
  BY DEF Place
<1> HIDE DEF S, n, kept
<1>6. DOMAIN kept = 1..Len(kept) /\ Len(kept) \in Nat
  BY <1>4
<1>7. /\ DOMAIN code = 1..Len(kept) /\ Len(code) = Len(kept)
      /\ \A k \in 1..Len(kept) : code[k] = WrittenAs(kept[k])
  <2>1. code = [k \in 1..Len(kept) |-> WrittenAs(kept[k])]
    BY <1>2, <1>6
  <2> QED  BY <1>6, <2>1
<1>8. \A i \in S : /\ WrittenAs(i).id = table[i].id
                   /\ WrittenAs(i).kind = table[i].kind
  BY DEF WrittenAs
<1>9. \A k \in 1..Len(code) : kept[k] \in S /\ code[k] = WrittenAs(kept[k])
  BY <1>4, <1>7
<1>10. HasKinds(code)
  <2>1. \A k \in 1..Len(code) : code[k].kind \in Kinds
    BY <1>3, <1>8, <1>9
  <2> QED  BY <1>6, <1>7, <2>1 DEF HasKinds
<1>11. ASSUME NEW i \in S
       PROVE  /\ Place(S, i) \in 1..Len(code) /\ code[Place(S, i)] = WrittenAs(i)
              /\ IndexOf(code, table[i].id) = Place(S, i)
  <2>1. Place(S, i) \in 1..Len(code) /\ kept[Place(S, i)] = i
    BY <1>3, <1>4, <1>7
  <2>2. code[Place(S, i)] = WrittenAs(i) /\ code[Place(S, i)].id = table[i].id
    BY <1>7, <1>8, <2>1
  <2>3. ASSUME NEW k \in DOMAIN code, code[k].id = table[i].id PROVE k = Place(S, i)
    <3>1. k \in 1..Len(kept) /\ kept[k] \in S /\ code[k].id = table[kept[k]].id
      BY <1>7, <1>8, <1>9
    <3>2. kept[k] = i
      BY <1>3, <2>3, <3>1 DEF OneEach, n
    <3> QED  BY <1>4, <3>1, <3>2
  <2>4. \E k \in DOMAIN code : code[k].id = table[i].id
    BY <1>7, <2>1, <2>2
  <2>5. /\ IndexOf(code, table[i].id) \in DOMAIN code
        /\ code[IndexOf(code, table[i].id)].id = table[i].id
    BY <2>4, Zenon DEF IndexOf
  <2>6. IndexOf(code, table[i].id) = Place(S, i)
    BY <2>3, <2>5
  <2> QED  BY <2>1, <2>2, <2>6
<1>12. Ids(code) = {table[i].id : i \in S}
  <2>1. \A k \in DOMAIN code : \E i \in S : code[k].id = table[i].id
    BY <1>7, <1>8, <1>9
  <2>2. \A i \in S : \E k \in DOMAIN code : code[k].id = table[i].id
    BY <1>7, <1>8, <1>11
  <2> QED  BY <2>1, <2>2 DEF Ids
<1>13. \A k \in 1..Len(code) : \E i \in S : code[k] = WrittenAs(i)
  BY <1>9
<1> QED  BY <1>5, <1>7, <1>10, <1>11, <1>12, <1>13 DEF S, n

\* The way between two entries is the same in the code if all in between is written.
LEMMA WayOn ==
    ASSUME table \in Seq(Entries), OneEach(table), NEW safe, out = CodeOf(safe),
           NEW i \in WhatIsWritten(safe), NEW j \in WhatIsWritten(safe), i <= j,
           \A k \in i..(j - 1) : k \in WhatIsWritten(safe)
    PROVE  LET S == WhatIsWritten(safe) IN
           Addresses(out)[Place(S, j)] - Addresses(out)[Place(S, i)] =
               Addresses(table)[j] - Addresses(table)[i]
<1> DEFINE S == WhatIsWritten(safe)
           n == j - i
           p == Place(S, i)
<1>1. Len(table) \in Nat /\ i \in 1..Len(table) /\ j \in 1..Len(table)
  BY DEF WhatIsWritten
<1>2. /\ HasKinds(out)
      /\ \A k \in S : /\ Place(S, k) \in 1..Len(out)
                      /\ out[Place(S, k)] = WrittenAs(k)
  BY CodeProperties
<1>3. HasKinds(table)
  BY TableHasKinds
<1>4. i \in S /\ j \in S /\ \A k \in i..j : k \in S
  <2>1. ASSUME NEW k \in i..j PROVE k \in S
    <3>1. k = j \/ k \in i..(j - 1)
      BY <1>1
    <3> QED  BY <3>1
  <2> QED  BY <2>1
<1> HIDE DEF S
<1>5. n \in Nat /\ i + n = j
  BY <1>1
<1>6. ASSUME NEW m \in 0..n PROVE i + m \in S /\ Place(S, i + m) = p + m
  <2>1. m \in Nat /\ i + m \in i..j /\ i \in Nat
    BY <1>1, <1>5
  <2>2. ASSUME NEW k \in (i + 1)..(i + m) PROVE k \in S
    <3>1. k \in i..j
      BY <1>1, <1>5
    <3> QED  BY <1>4, <3>1
  <2>3. Place(S, i + m) = Place(S, i) + m
    BY <2>1, <2>2, PlacesApart
  <2>4. i + m \in S
    BY <1>4, <2>1
  <2> QED  BY <2>3, <2>4
<1>7. p \in 1..Len(out) /\ Len(out) \in Nat
  BY <1>2, <1>4 DEF HasKinds
<1> HIDE DEF p
<1>8. Place(S, j) = p + n /\ p + n \in 1..Len(out)
  BY <1>2, <1>4, <1>5, <1>6
<1>9. AgreeFor(out, p, table, i, n)
  <2> SUFFICES ASSUME NEW m \in 0..(n - 1)
               PROVE  Size[out[p + m].kind] = Size[table[i + m].kind]
    BY Zenon DEF AgreeFor
  <2>1. i + m \in S /\ Place(S, i + m) = p + m
    BY <1>5, <1>6
  <2>2. out[p + m] = WrittenAs(i + m)
    BY <1>2, <2>1
  <2> QED  BY <2>2 DEF WrittenAs
<1> HIDE DEF n
<1>10. /\ p \in 1..(Len(out) + 1) /\ i \in 1..(Len(table) + 1)
       /\ p + n <= Len(out) + 1 /\ i + n <= Len(table) + 1
  BY <1>1, <1>5, <1>7, <1>8
<1>11. Addresses(out)[p + n] - Addresses(out)[p] = Addresses(table)[i + n] - Addresses(table)[i]
  BY <1>2, <1>3, <1>5, <1>9, <1>10, SameWay
<1> QED  BY <1>5, <1>8, <1>11 DEF S, p

\* The same in either direction.
LEMMA WayBetween ==
    ASSUME table \in Seq(Entries), OneEach(table), NEW safe, out = CodeOf(safe),
           NEW i \in WhatIsWritten(safe), NEW j \in WhatIsWritten(safe),
           \A k \in Between(i, j) : k \in WhatIsWritten(safe)
    PROVE  LET S == WhatIsWritten(safe) IN
           /\ Addresses(out)[Place(S, i)] \in Nat /\ Addresses(out)[Place(S, j)] \in Nat
           /\ Addresses(out)[Place(S, i)] + (Addresses(table)[j] - Addresses(table)[i]) =
                  Addresses(out)[Place(S, j)]
<1> DEFINE S == WhatIsWritten(safe)
           a == Addresses(table)[i]
           b == Addresses(table)[j]
           x == Addresses(out)[Place(S, i)]
           y == Addresses(out)[Place(S, j)]
<1>1. Len(table) \in Nat /\ i \in 1..Len(table) /\ j \in 1..Len(table)
  BY DEF WhatIsWritten
<1>2. /\ HasKinds(out) /\ Len(out) \in Nat
      /\ Place(S, i) \in 1..Len(out) /\ Place(S, j) \in 1..Len(out)
  BY CodeProperties DEF HasKinds
<1>3. a \in Nat /\ b \in Nat
  <2>1. i \in 1..(Len(table) + 1) /\ j \in 1..(Len(table) + 1) /\ HasKinds(table)
    BY <1>1, TableHasKinds
  <2> QED  BY <2>1, AddressType
<1>4. x \in Nat /\ y \in Nat
  <2>1. Place(S, i) \in 1..(Len(out) + 1) /\ Place(S, j) \in 1..(Len(out) + 1)
    BY <1>2
  <2> QED  BY <1>2, <2>1, AddressType
<1>5. y - x = b - a \/ x - y = a - b
  <2>1. CASE i < j
    <3>1. i <= j /\ \A k \in i..(j - 1) : k \in WhatIsWritten(safe)
      BY <1>1, <2>1 DEF Between
    <3>2. y - x = b - a
      BY <3>1, WayOn
    <3> QED  BY <3>2
  <2>2. CASE ~(i < j)
    <3>1. j <= i /\ \A k \in j..(i - 1) : k \in WhatIsWritten(safe)
      BY <1>1, <2>2 DEF Between
    <3>2. x - y = a - b
      BY <3>1, WayOn
    <3> QED  BY <3>2
  <2> QED  BY <2>1, <2>2
<1> HIDE DEF a, b, x, y
<1>6. x + (b - a) = y
  BY <1>3, <1>4, <1>5
<1> QED  BY <1>4, <1>6 DEF a, b, x, y

\* An entry with nothing left out up to it keeps its address.
LEMMA WayFromStart ==
    ASSUME table \in Seq(Entries), OneEach(table), NEW safe, out = CodeOf(safe),
           NEW i \in 1..Len(table), \A k \in 1..i : k \in WhatIsWritten(safe)
    PROVE  Addresses(out)[Place(WhatIsWritten(safe), i)] = Addresses(table)[i]
<1> DEFINE S == WhatIsWritten(safe)
<1>1. Len(table) \in Nat /\ i \in Nat /\ 1 \in 1..i /\ i \in 1..i /\ \A k \in 1..i : k \in S
  OBVIOUS
<1>2. Place(S, 1) = 1
  <2>1. \A k \in 1..1 : k \in S
    BY <1>1
  <2> QED  BY <2>1, AllInPlace
<1>3. 1 \in S /\ i \in S /\ 1 <= i /\ \A k \in 1..(i - 1) : k \in S
  BY <1>1
<1>4. Addresses(out)[Place(S, i)] - Addresses(out)[Place(S, 1)] =
          Addresses(table)[i] - Addresses(table)[1]
  BY <1>3, WayOn
<1>5. HasKinds(out) /\ HasKinds(table) /\ Place(S, i) \in 1..Len(out) /\ Len(out) \in Nat
  <2>1. HasKinds(out) /\ Place(S, i) \in 1..Len(out)
    BY <1>3, CodeProperties
  <2> QED  BY <2>1, TableHasKinds DEF HasKinds
<1>6. Addresses(out)[1] = BaseAddress /\ Addresses(table)[1] = BaseAddress /\ BaseAddress \in Nat
  BY <1>5, AddressStep
<1>7. Addresses(out)[Place(S, i)] \in Nat /\ Addresses(table)[i] \in Nat
  <2>1. Place(S, i) \in 1..(Len(out) + 1) /\ i \in 1..(Len(table) + 1)
    BY <1>1, <1>5
  <2> QED  BY <1>5, <2>1, AddressType
<1> DEFINE a == Addresses(out)[Place(S, i)]
           b == Addresses(table)[i]
<1>8. a - BaseAddress = b - BaseAddress
  BY <1>2, <1>4, <1>6
<1>9. a \in Nat /\ b \in Nat
  BY <1>7
<1> HIDE DEF a, b
<1>10. a = b
  BY <1>6, <1>8, <1>9
<1> QED  BY <1>10 DEF a, b

-----------------------------------------------------------------------------
(* Programs that are loaded. *)

\* What can be encoded has a kind and an offset that fits it.
LEMMA EncodableType ==
    \A x \in Encodable : x.kind \in Kinds /\ x.offset \in Offsets(x.kind) /\ x.offset \in Int
<1> SUFFICES ASSUME NEW x \in Encodable
             PROVE  x.kind \in Kinds /\ x.offset \in Offsets(x.kind) /\ x.offset \in Int
  OBVIOUS
<1>1. x \in Instructions /\ x.offset \in Offsets(x.kind)
  BY DEF Encodable
<1>2. x.kind \in Kinds
  BY <1>1 DEF Instructions
<1>3. \A k \in Kinds : Offsets(k) \subseteq Int
  BY DisasAssumption DEF Offsets
<1> QED  BY <1>1, <1>2, <1>3

\* Where the branches of a program lead to: an entry that starts there, or an address.
AreResolved(R, t, program) ==
    LET Begin == Addresses(t)
        Goal(i) == Begin[i] + program[i].offset
    IN /\ \A i \in 1..Len(t) : t[i].kind \in Branches => t[i].id \in DOMAIN R
       /\ \A b \in DOMAIN R : \E i \in 1..Len(t) :
             /\ b = t[i].id /\ t[i].kind \in Branches
             /\ \/ \E j \in 1..Len(t) : R[b] = ToId(t[j].id) /\ Begin[j] = Goal(i)
                \/ /\ R[b] = ToAddress(Goal(i)) /\ Goal(i) \in Int
                   /\ \A j \in 1..Len(t) : Begin[j] # Goal(i)

\* populate_cofi_map resolves them.
LEMMA ResolvedProperties ==
    ASSUME NEW t \in Seq(Entries), OneEach(t),
           NEW program \in Seq(Encodable), Len(program) = Len(t)
    PROVE  AreResolved(Resolved(t, program), t, program)
<1> DEFINE R == Resolved(t, program)
           Begin == Addresses(t)
           D == {t[i].id : i \in {j \in DOMAIN t : t[j].kind \in Branches}}
           Goal(i) == Begin[i] + program[i].offset
           L == Layout(t)
<1>1. DOMAIN t = 1..Len(t) /\ Len(t) \in Nat
  OBVIOUS
<1>2. R = [id \in D |-> IF Goal(IndexOf(t, id)) \in DOMAIN L
                        THEN ToId(L[Goal(IndexOf(t, id))]) ELSE ToAddress(Goal(IndexOf(t, id)))]
  BY Zenon DEF Resolved
<1>3. L = [a \in {Begin[i] : i \in DOMAIN t} |-> t[CHOOSE i \in DOMAIN t : Begin[i] = a].id]
  BY Zenon DEF Layout
<1> HIDE DEF L
<1>4. ASSUME NEW a \in DOMAIN L PROVE \E j \in 1..Len(t) : L[a] = t[j].id /\ Begin[j] = a
  <2>1. \E j \in DOMAIN t : Begin[j] = a
    BY <1>3, <1>4
  <2> DEFINE j == CHOOSE k \in DOMAIN t : Begin[k] = a
  <2>2. j \in DOMAIN t /\ Begin[j] = a
    BY <2>1, Zenon
  <2>3. L[a] = t[j].id
    BY <1>3, <1>4
  <2> QED  BY <1>1, <2>2, <2>3
<1>5. \A j \in 1..Len(t) : Begin[j] \in DOMAIN L
  BY <1>1, <1>3
<1>6. ASSUME NEW i \in 1..Len(t) PROVE Goal(i) \in Int
  <2>1. i \in 1..(Len(t) + 1) /\ HasKinds(t)
    BY <1>1, TableHasKinds
  <2>2. Begin[i] \in Nat
    BY <2>1, AddressType
  <2>3. program[i] \in Encodable
    OBVIOUS
  <2>4. program[i].offset \in Int
    BY <2>3, EncodableType
  <2> HIDE DEF Begin
  <2> QED  BY <2>2, <2>4
<1>7. \A i \in 1..Len(t) : t[i].kind \in Branches => t[i].id \in D
  BY <1>1
<1>8. ASSUME NEW b \in D
      PROVE  \E i \in 1..Len(t) :
                /\ b = t[i].id /\ t[i].kind \in Branches
                /\ \/ \E j \in 1..Len(t) : R[b] = ToId(t[j].id) /\ Begin[j] = Goal(i)
                   \/ /\ R[b] = ToAddress(Goal(i)) /\ Goal(i) \in Int
                      /\ \A j \in 1..Len(t) : Begin[j] # Goal(i)
  <2>1. PICK i \in 1..Len(t) : b = t[i].id /\ t[i].kind \in Branches
    BY <1>1
  <2>2. IndexOf(t, b) = i
    BY <2>1, FoundById
  <2>3. R[b] = IF Goal(i) \in DOMAIN L THEN ToId(L[Goal(i)]) ELSE ToAddress(Goal(i))
    BY <1>2, <2>2, Zenon
  <2> HIDE DEF R, Goal, Begin, D
  <2>4. CASE Goal(i) \in DOMAIN L
    <3>1. PICK j \in 1..Len(t) : L[Goal(i)] = t[j].id /\ Begin[j] = Goal(i)
      BY <1>4, <2>4
    <3> QED  BY <2>1, <2>3, <2>4, <3>1
  <2>5. CASE Goal(i) \notin DOMAIN L
    BY <1>5, <1>6, <2>1, <2>3, <2>5
  <2> QED  BY <2>4, <2>5
<1>9. DOMAIN R = D
  BY <1>2
<1> HIDE DEF R, D
<1> QED  BY <1>7, <1>8, <1>9, Zenon DEF R, Begin, Goal, AreResolved

-----------------------------------------------------------------------------
(* The invariant of a table. *)

\* Of every table, whatever it was made of.
TableInv ==
    /\ table \in Seq(Entries) /\ OneEach(table) /\ cur_id \in Nat
    /\ \A i \in 1..Len(table) : IsBranch(i) => table[i].id \in DOMAIN cofi_table
    /\ \A b \in DOMAIN cofi_table : cofi_table[b][1] # "id" => cofi_table[b][2] \in Int
    /\ map_updated \in BOOLEAN /\ LookupsAreCurrent

\* Of a table that knows how many ids it gave out: no id comes again, and what is
\* led to is there or was removed.
FreshInv ==
    /\ \A id \in Ids(table) : id <= cur_id
    /\ \A b \in DOMAIN cofi_table :
          cofi_table[b][1] = "id" => cofi_table[b][2] \in Ids(table) \cup removed

\* Of what was written: it is of the table as it still is.
WrittenInv ==
    pc = "written" =>
        /\ \E safe \in BOOLEAN : out = CodeOf(safe)
        /\ \A i \in 1..Len(table) : IsBranch(i) => ~Dangling(table[i].id)

DInv ==
    /\ TableInv /\ WrittenInv /\ PanicsOnlyForTheRemoved
    /\ origin # "elf" => FreshInv

\* An empty table.
LEMMA EmptyInv ==
    (table = <<>> /\ cofi_table = <<>> /\ cur_id = 0 /\ map_updated = FALSE) =>
        TableInv /\ FreshInv
<1> SUFFICES ASSUME table = <<>>, cofi_table = <<>>, cur_id = 0, map_updated = FALSE
             PROVE  TableInv /\ FreshInv
  OBVIOUS
<1>1. table \in Seq(Entries) /\ Len(table) = 0 /\ DOMAIN table = {} /\ DOMAIN cofi_table = {}
  BY EmptySeq
<1>2. 1..0 = {} /\ Ids(table) = {}
  BY <1>1 DEF Ids
<1> QED  BY <1>1, <1>2 DEF TableInv, FreshInv, OneEach, LookupsAreCurrent

\* A table that was made of a program.
LEMMA Loaded ==
    ASSUME NEW program \in Seq(Encodable), Load(program), cur_id' \in Nat
    PROVE  /\ TableInv' /\ Len(table') = Len(program)
           /\ \A i \in 1..Len(program) : table'[i] = [id |-> i, kind |-> program[i].kind]
           /\ Ids(table') = 1..Len(program)
           /\ \A b \in DOMAIN cofi_table' :
                 cofi_table'[b][1] = "id" => cofi_table'[b][2] \in Ids(table')
           /\ pc' = "ready" /\ removed' = {} /\ edits' = 0 /\ loaded' = program
<1> DEFINE n == Len(program)
<1>1. n \in Nat /\ DOMAIN program = 1..n /\ \A i \in 1..n : program[i] \in Encodable
  OBVIOUS
<1>2. \A i \in 1..n : program[i].kind \in Kinds
  BY <1>1, EncodableType
<1>3. table' = [i \in 1..n |-> [id |-> i, kind |-> program[i].kind]]
  BY <1>1 DEF Load
<1>4. table' \in Seq(Entries) /\ Len(table') = n /\ DOMAIN table' = 1..n
  <2>1. \A i \in 1..n : [id |-> i, kind |-> program[i].kind] \in Entries
    BY <1>1, <1>2 DEF Entries
  <2>2. table' \in [1..n -> Entries]
    BY <1>3, <2>1
  <2> QED  BY <1>1, <1>3, <2>2
<1>5. \A i \in 1..n : table'[i] = [id |-> i, kind |-> program[i].kind] /\ table'[i].id = i
  BY <1>3
<1>6. OneEach(table')
  BY <1>4, <1>5 DEF OneEach
<1>7. Ids(table') = 1..n
  BY <1>4, <1>5 DEF Ids
<1>8. cofi_table' = Resolved(table', program)
  BY DEF Load
<1> DEFINE Begin == Addresses(table')
           G(i) == Begin[i] + program[i].offset
<1>9. /\ \A i \in 1..Len(table') : table'[i].kind \in Branches => table'[i].id \in DOMAIN cofi_table'
      /\ \A b \in DOMAIN cofi_table' : \E i \in 1..Len(table') :
            \/ \E j \in 1..Len(table') : cofi_table'[b] = ToId(table'[j].id)
            \/ cofi_table'[b] = ToAddress(G(i)) /\ G(i) \in Int
  <2> HIDE DEF G, Begin
  <2>1. /\ \A i \in 1..Len(table') : table'[i].kind \in Branches => table'[i].id \in DOMAIN cofi_table'
        /\ \A b \in DOMAIN cofi_table' : \E i \in 1..Len(table') :
              /\ b = table'[i].id /\ table'[i].kind \in Branches
              /\ \/ \E j \in 1..Len(table') : /\ cofi_table'[b] = ToId(table'[j].id)
                                              /\ Begin[j] = G(i)
                 \/ /\ cofi_table'[b] = ToAddress(G(i)) /\ G(i) \in Int
                    /\ \A j \in 1..Len(table') : Begin[j] # G(i)
    <3>1. table' \in Seq(Entries) /\ OneEach(table') /\ Len(program) = Len(table')
      BY <1>4, <1>6, Zenon
    <3>2. AreResolved(cofi_table', table', program)
      BY <1>8, <3>1, ResolvedProperties, Zenon
    <3> QED  BY <3>2, Zenon DEF G, Begin, AreResolved
  <2> QED  BY <2>1
<1> HIDE DEF n, G, Begin
<1>10. ASSUME NEW b \in DOMAIN cofi_table'
       PROVE  /\ cofi_table'[b][1] # "id" => cofi_table'[b][2] \in Int
              /\ cofi_table'[b][1] = "id" => cofi_table'[b][2] \in Ids(table')
  <2>1. PICK i \in 1..Len(table') :
            \/ \E j \in 1..Len(table') : cofi_table'[b] = ToId(table'[j].id)
            \/ cofi_table'[b] = ToAddress(G(i)) /\ G(i) \in Int
    BY <1>9
  <2>2. CASE \E j \in 1..Len(table') : cofi_table'[b] = ToId(table'[j].id)
    <3>1. PICK j \in 1..Len(table') : cofi_table'[b] = ToId(table'[j].id)
      BY <2>2
    <3>2. cofi_table'[b][1] = "id" /\ cofi_table'[b][2] = table'[j].id
      BY <3>1 DEF ToId
    <3> QED  BY <1>4, <3>2 DEF Ids
  <2>3. CASE cofi_table'[b] = ToAddress(G(i)) /\ G(i) \in Int
    <3>1. cofi_table'[b][1] = "address" /\ cofi_table'[b][2] = G(i)
      BY <2>3 DEF ToAddress
    <3> QED  BY <2>3, <3>1
  <2> QED  BY <2>1, <2>2, <2>3
<1>11. map_updated' \in BOOLEAN /\ (map_updated' => map' = Layout(table'))
  BY DEF Load
<1>12. TableInv'
  BY <1>4, <1>6, <1>9, <1>10, <1>11 DEF TableInv, IsBranch, LookupsAreCurrent
<1>13. pc' = "ready" /\ removed' = {} /\ edits' = 0 /\ loaded' = program
  BY DEF Load
<1> QED  BY <1>4, <1>5, <1>7, <1>10, <1>12, <1>13 DEF n

\* The next id is free, where the ids were counted.
LEMMA NextIdIsFree ==
    ASSUME TableInv, FreshInv
    PROVE  cur_id + 1 \notin Ids(table)
BY DEF TableInv, FreshInv

\* Adding an instruction that is no branch.
LEMMA AddPlainInv ==
    ASSUME DInv, NEW i \in 1..(Len(table) + 1), NEW kind, AddInstruction(i, kind)
    PROVE  DInv'
<1>1. /\ kind \in Kinds /\ kind \notin Branches /\ ShiftInsert(i, kind)
      /\ map_updated' = FALSE /\ cofi_table' = cofi_table /\ removed' = removed
      /\ origin' = origin
  BY DEF AddInstruction, Edit, Plain
<1>2. table \in Seq(Entries) /\ OneEach(table) /\ cur_id \in Nat
  BY DEF DInv, TableInv
<1>3. /\ table' \in Seq(Entries) /\ OneEach(table') /\ cur_id' = cur_id + 1
      /\ pc' \in {"ready", "panicked"}
      /\ Ids(table) \subseteq Ids(table') /\ Ids(table') \subseteq Ids(table) \cup {cur_id + 1}
      /\ \A k \in 1..Len(table') :
            \/ table'[k] = [id |-> cur_id + 1, kind |-> kind]
            \/ \E j \in 1..Len(table) : table'[k] = table[j]
      /\ cur_id + 1 \notin Ids(table) => pc' = "ready"
  BY <1>1, <1>2, ShiftInserted
<1>4. TableInv'
  <2>1. ASSUME NEW k \in 1..Len(table'), table'[k].kind \in Branches
        PROVE  table'[k].id \in DOMAIN cofi_table'
    <3>1. table'[k] # [id |-> cur_id + 1, kind |-> kind]
      BY <1>1, <2>1
    <3>2. PICK j \in 1..Len(table) : table'[k] = table[j]
      BY <1>3, <3>1
    <3> QED  BY <1>1, <2>1, <3>2 DEF DInv, TableInv, IsBranch
  <2>2. \A b \in DOMAIN cofi_table' : cofi_table'[b][1] # "id" => cofi_table'[b][2] \in Int
    BY <1>1 DEF DInv, TableInv
  <2>3. cur_id' \in Nat
    BY <1>2, <1>3
  <2> QED  BY <1>1, <1>3, <2>1, <2>2, <2>3 DEF TableInv, IsBranch, LookupsAreCurrent
<1>5. WrittenInv'
  BY <1>3 DEF WrittenInv
<1>6. ASSUME origin' # "elf" PROVE FreshInv' /\ pc' = "ready"
  <2>1. FreshInv /\ TableInv
    BY <1>1, <1>6 DEF DInv
  <2>2. cur_id + 1 \notin Ids(table)
    BY <2>1, NextIdIsFree
  <2>3. \A id \in Ids(table') : id <= cur_id'
    <3>1. \A id \in Ids(table) : id \in Nat /\ id <= cur_id
      BY <1>2, <2>1, TableHasKinds DEF FreshInv, Ids
    <3> QED  BY <1>2, <1>3, <3>1
  <2> QED  BY <1>1, <1>3, <2>1, <2>2, <2>3 DEF FreshInv
<1>7. PanicsOnlyForTheRemoved'
  BY <1>6 DEF PanicsOnlyForTheRemoved
<1> QED  BY <1>4, <1>5, <1>6, <1>7 DEF DInv

\* Adding a branch that leads to an entry or to an address.
LEMMA AddCofiInv ==
    ASSUME DInv, NEW i, NEW target, NEW kind, AddCofi(i, target, kind),
           target[1] # "id" => target[2] \in Int
    PROVE  /\ DInv' /\ cur_id' = cur_id + 1 /\ origin' = origin /\ loaded' = loaded
           /\ removed' = removed /\ edits' = edits + 1
           /\ DOMAIN cofi_table' = DOMAIN cofi_table \cup {cur_id + 1}
           /\ cofi_table'[cur_id + 1] = target
           /\ \A b \in DOMAIN cofi_table : b # cur_id + 1 => cofi_table'[b] = cofi_table[b]
           /\ cur_id + 1 \notin Ids(table) =>
                 /\ pc' = "ready"
                 /\ table' = InsertedAt(table, i, [id |-> cur_id + 1, kind |-> kind])
<1>1. /\ i \in 1..(Len(table) + 1) /\ kind \in Branches /\ ShiftInsert(i, kind)
      /\ target[1] = "id" => target[2] \in Ids(table)
      /\ map_updated' = FALSE /\ removed' = removed
      /\ origin' = origin /\ loaded' = loaded /\ edits' = edits + 1
  BY DEF AddCofi, Edit
<1>2. table \in Seq(Entries) /\ OneEach(table) /\ cur_id \in Nat /\ kind \in Kinds
  BY <1>1, DisasAssumption DEF DInv, TableInv
<1>3. /\ table' \in Seq(Entries) /\ OneEach(table') /\ cur_id' = cur_id + 1
      /\ pc' \in {"ready", "panicked"}
      /\ Ids(table) \subseteq Ids(table') /\ Ids(table') \subseteq Ids(table) \cup {cur_id + 1}
      /\ \A k \in 1..Len(table') :
            \/ table'[k] = [id |-> cur_id + 1, kind |-> kind]
            \/ \E j \in 1..Len(table) : table'[k] = table[j]
      /\ cur_id + 1 \notin Ids(table) =>
            /\ pc' = "ready"
            /\ table' = InsertedAt(table, i, [id |-> cur_id + 1, kind |-> kind])
  BY <1>1, <1>2, ShiftInserted
<1>4. cofi_table' = [id \in DOMAIN cofi_table \cup {cur_id + 1} |->
                        IF id = cur_id + 1 THEN target ELSE cofi_table[id]]
  BY <1>3 DEF AddCofi
<1>5. /\ DOMAIN cofi_table' = DOMAIN cofi_table \cup {cur_id + 1}
      /\ cofi_table'[cur_id + 1] = target
      /\ \A b \in DOMAIN cofi_table : b # cur_id + 1 => cofi_table'[b] = cofi_table[b]
  BY <1>4
<1>6. TableInv'
  <2>1. ASSUME NEW k \in 1..Len(table'), table'[k].kind \in Branches
        PROVE  table'[k].id \in DOMAIN cofi_table'
    <3>1. CASE table'[k] = [id |-> cur_id + 1, kind |-> kind]
      BY <1>5, <3>1
    <3>2. CASE \E j \in 1..Len(table) : table'[k] = table[j]
      <4>1. PICK j \in 1..Len(table) : table'[k] = table[j]
        BY <3>2
      <4>2. table[j].id \in DOMAIN cofi_table
        BY <2>1, <4>1 DEF DInv, TableInv, IsBranch
      <4> QED  BY <1>5, <4>1, <4>2
    <3> QED  BY <1>3, <3>1, <3>2
  <2>2. ASSUME NEW b \in DOMAIN cofi_table', cofi_table'[b][1] # "id"
        PROVE  cofi_table'[b][2] \in Int
    <3>1. CASE b = cur_id + 1
      BY <1>5, <2>2, <3>1
    <3>2. CASE b # cur_id + 1
      <4>1. b \in DOMAIN cofi_table /\ cofi_table'[b] = cofi_table[b]
        BY <1>5, <3>2
      <4> QED  BY <2>2, <4>1 DEF DInv, TableInv
    <3> QED  BY <3>1, <3>2
  <2>3. cur_id' \in Nat
    BY <1>2, <1>3
  <2> QED  BY <1>1, <1>3, <2>1, <2>2, <2>3 DEF TableInv, IsBranch, LookupsAreCurrent
<1>7. WrittenInv'
  BY <1>3 DEF WrittenInv
<1>8. ASSUME origin' # "elf" PROVE FreshInv' /\ pc' = "ready"
  <2>1. FreshInv /\ TableInv
    BY <1>1, <1>8 DEF DInv
  <2>2. cur_id + 1 \notin Ids(table)
    BY <2>1, NextIdIsFree
  <2>3. \A id \in Ids(table') : id <= cur_id'
    <3>1. \A id \in Ids(table) : id \in Nat /\ id <= cur_id
      BY <1>2, <2>1, TableHasKinds DEF FreshInv, Ids
    <3> QED  BY <1>2, <1>3, <3>1
  <2>4. ASSUME NEW b \in DOMAIN cofi_table', cofi_table'[b][1] = "id"
        PROVE  cofi_table'[b][2] \in Ids(table') \cup removed'
    <3>1. CASE b = cur_id + 1
      BY <1>1, <1>3, <1>5, <2>4, <3>1
    <3>2. CASE b # cur_id + 1
      <4>1. b \in DOMAIN cofi_table /\ cofi_table'[b] = cofi_table[b]
        BY <1>5, <3>2
      <4> QED  BY <1>1, <1>3, <2>1, <2>4, <4>1 DEF FreshInv
    <3> QED  BY <3>1, <3>2
  <2> QED  BY <1>3, <2>2, <2>3, <2>4 DEF FreshInv
<1>9. PanicsOnlyForTheRemoved'
  BY <1>8 DEF PanicsOnlyForTheRemoved
<1>10. DInv'
  BY <1>6, <1>7, <1>8, <1>9 DEF DInv
<1> QED  BY <1>1, <1>3, <1>5, <1>10

\* Removing an instruction; what led to it is remembered as removed.
LEMMA RemoveInv == ASSUME DInv, NEW id, RemoveInstruction(id) PROVE DInv'
<1>1. /\ table' = Without(table, id) /\ removed' = removed \cup {id}
      /\ cofi_table' = [b \in DOMAIN cofi_table \ {id} |-> cofi_table[b]]
      /\ map_updated' = FALSE /\ pc' = "ready" /\ cur_id' = cur_id /\ origin' = origin
  BY DEF RemoveInstruction, Edit
<1>2. table \in Seq(Entries) /\ OneEach(table) /\ cur_id \in Nat
  BY DEF DInv, TableInv
<1>3. /\ table' \in Seq(Entries) /\ OneEach(table') /\ Ids(table') = Ids(table) \ {id}
      /\ \A k \in 1..Len(table') : \E j \in 1..Len(table) : table'[k] = table[j]
  BY <1>1, <1>2, WithoutProperties
<1>4. /\ DOMAIN cofi_table' = DOMAIN cofi_table \ {id}
      /\ \A b \in DOMAIN cofi_table' : b \in DOMAIN cofi_table /\ cofi_table'[b] = cofi_table[b]
  BY <1>1
<1>5. TableInv'
  <2>1. ASSUME NEW k \in 1..Len(table'), table'[k].kind \in Branches
        PROVE  table'[k].id \in DOMAIN cofi_table'
    <3>1. PICK j \in 1..Len(table) : table'[k] = table[j]
      BY <1>3
    <3>2. table[j].id \in DOMAIN cofi_table
      BY <2>1, <3>1 DEF DInv, TableInv, IsBranch
    <3>3. DOMAIN table' = 1..Len(table')
      BY <1>3
    <3>4. table'[k].id \in Ids(table')
      BY <3>3 DEF Ids
    <3> QED  BY <1>3, <1>4, <3>1, <3>2, <3>4
  <2>2. \A b \in DOMAIN cofi_table' : cofi_table'[b][1] # "id" => cofi_table'[b][2] \in Int
    BY <1>4 DEF DInv, TableInv
  <2> QED  BY <1>1, <1>2, <1>3, <2>1, <2>2 DEF TableInv, IsBranch, LookupsAreCurrent
<1>6. WrittenInv' /\ PanicsOnlyForTheRemoved'
  BY <1>1 DEF WrittenInv, PanicsOnlyForTheRemoved
<1>7. ASSUME origin' # "elf" PROVE FreshInv'
  <2>1. FreshInv
    BY <1>1, <1>7 DEF DInv
  <2>2. \A b \in DOMAIN cofi_table' :
           cofi_table'[b][1] = "id" => cofi_table'[b][2] \in Ids(table) \cup removed
    BY <1>4, <2>1 DEF FreshInv
  <2> QED  BY <1>1, <1>3, <2>1, <2>2 DEF FreshInv
<1> QED  BY <1>5, <1>6, <1>7 DEF DInv

\* A table that stays is written as before.
LEMMA CodeStays ==
    ASSUME table' = table, cofi_table' = cofi_table, NEW safe
    PROVE  CodeOf(safe)' = CodeOf(safe)
<1>1. \A i : Distance(i)' = Distance(i)
  BY DEF Distance
<1>2. \A i : Given(i)' = Given(i)
  BY <1>1 DEF Given
<1>3. \A i : WrittenAs(i)' = WrittenAs(i)
  BY <1>2 DEF WrittenAs, Field, IsBranch
<1>4. \A i : IsWritten(i, safe)' <=> IsWritten(i, safe)
  BY <1>2 DEF IsWritten, InReach, IsBranch
<1>5. {i \in DOMAIN table' : IsWritten(i, safe)'} = {i \in DOMAIN table : IsWritten(i, safe)}
  BY <1>4
<1>6. PICK kept : kept = InOrder({i \in DOMAIN table : IsWritten(i, safe)}, Len(table))
  OBVIOUS
<1>7. CodeOf(safe) = [k \in DOMAIN kept |-> WrittenAs(kept[k])]
  BY <1>6, Zenon DEF CodeOf
<1>8. CodeOf(safe)' = [k \in DOMAIN kept |-> WrittenAs(kept[k])']
  BY <1>5, <1>6, Zenon DEF CodeOf
<1> QED  BY <1>3, <1>7, <1>8

\* Looking up an address makes the map that of the table.
LEMMA LookupInv == ASSUME DInv, Lookup PROVE DInv'
<1>1. /\ map' = Layout(table) /\ map_updated' = TRUE
      /\ UNCHANGED <<table, cofi_table, cur_id, pc, out, origin, loaded, removed, edits>>
  BY DEF Lookup, tableVars, historyVars
<1>2. TableInv'
  BY <1>1 DEF DInv, TableInv, IsBranch, LookupsAreCurrent
<1>3. WrittenInv'
  <2>1. ASSUME NEW safe PROVE CodeOf(safe)' = CodeOf(safe)
    BY <1>1, CodeStays
  <2>2. \A id : Dangling(id)' = Dangling(id)
    BY <1>1, Zenon DEF Dangling
  <2> QED  BY <1>1, <2>1, <2>2 DEF DInv, WrittenInv, IsBranch
<1>4. PanicsOnlyForTheRemoved'
  BY <1>1 DEF DInv, PanicsOnlyForTheRemoved, Dangling
<1>5. origin' # "elf" => FreshInv'
  BY <1>1 DEF DInv, FreshInv
<1> QED  BY <1>2, <1>3, <1>4, <1>5 DEF DInv

\* Writing ends in code, or at a branch whose target is gone.
LEMMA SerializeInv == ASSUME DInv, NEW safe \in BOOLEAN, Serialize(safe) PROVE DInv'
<1>1. /\ UNCHANGED <<table, cofi_table, cur_id, map, map_updated, origin, loaded, removed, edits>>
      /\ IF \E i \in DOMAIN table : IsBranch(i) /\ Dangling(table[i].id)
         THEN pc' = "panicked"
         ELSE pc' = "written" /\ out' = CodeOf(safe)
  BY DEF Serialize, tableVars, cacheVars, historyVars
<1>2. TableInv'
  BY <1>1 DEF DInv, TableInv, IsBranch, LookupsAreCurrent
<1>3. origin' # "elf" => FreshInv'
  BY <1>1 DEF DInv, FreshInv
<1>4. DOMAIN table = 1..Len(table)
  BY DEF DInv, TableInv
<1>5. CASE \E i \in DOMAIN table : IsBranch(i) /\ Dangling(table[i].id)
  <2>1. pc' = "panicked"
    BY <1>1, <1>5
  <2>2. PICK i \in 1..Len(table) : IsBranch(i) /\ Dangling(table[i].id)
    BY <1>4, <1>5
  <2>3. table[i].id \in DOMAIN cofi_table
    BY <2>2 DEF DInv, TableInv
  <2>4. origin' # "elf" => cofi_table[table[i].id][2] \in removed
    BY <1>1, <2>2, <2>3 DEF DInv, FreshInv, Dangling
  <2>5. PanicsOnlyForTheRemoved'
    BY <1>1, <2>2, <2>3, <2>4 DEF PanicsOnlyForTheRemoved, Dangling
  <2> QED  BY <1>2, <1>3, <2>1, <2>5 DEF DInv, WrittenInv
<1>6. CASE ~\E i \in DOMAIN table : IsBranch(i) /\ Dangling(table[i].id)
  <2>1. pc' = "written" /\ out' = CodeOf(safe)
    BY <1>1, <1>6
  <2>2. CodeOf(safe)' = CodeOf(safe)
    BY <1>1, CodeStays
  <2>3. \A i \in 1..Len(table) : IsBranch(i) => ~Dangling(table[i].id)
    BY <1>4, <1>6
  <2>4. WrittenInv'
    BY <1>1, <2>1, <2>2, <2>3 DEF WrittenInv, IsBranch, Dangling
  <2> QED  BY <1>2, <1>3, <2>1, <2>4 DEF DInv, PanicsOnlyForTheRemoved
<1> QED  BY <1>5, <1>6

\* A number that fits is not changed by being cut.
LEMMA FittingIsKept ==
    ASSUME NEW d \in Int, NEW half \in Nat, -half <= d, d < half
    PROVE  Wrapped(d, half) = d
<1>1. d + half \in Nat /\ 2 * half \in Nat /\ d + half < 2 * half
  OBVIOUS
<1>2. \A q, m \in Nat : q < m => q % m = q
  OBVIOUS
<1>3. (d + half) % (2 * half) = d + half
  BY <1>1, <1>2
<1> QED  BY <1>3 DEF Wrapped

\* An offset that a branch has room for is written as it is.
LEMMA OffsetFits ==
    ASSUME NEW k \in Branches, NEW d \in Offsets(k)
    PROVE  /\ d \in Int /\ Wrapped(d, Reach[k]) = d
           /\ Size[k] = 2 => Wrapped(d, HalfI16) = d
<1>1. Reach[k] \in Nat /\ HalfI16 \in Nat /\ (Size[k] = 2 => Reach[k] <= HalfI16)
  BY DisasAssumption
<1>2. d \in (-Reach[k])..(Reach[k] - 2)
  BY DEF Offsets
<1>3. d \in Int /\ -Reach[k] <= d /\ d < Reach[k]
  BY <1>1, <1>2
<1>4. Wrapped(d, Reach[k]) = d
  BY <1>1, <1>3, FittingIsKept
<1>5. Size[k] = 2 => Wrapped(d, HalfI16) = d
  <2> SUFFICES ASSUME Size[k] = 2 PROVE Wrapped(d, HalfI16) = d
    OBVIOUS
  <2>1. -HalfI16 <= d /\ d < HalfI16
    BY <1>1, <1>3
  <2> QED  BY <1>1, <1>3, <2>1, FittingIsKept
<1> QED  BY <1>3, <1>4, <1>5

\* What a branch that is written leads to, by its offset: the place of its target in
\* the code, or the address, if nothing on the way was left out.
LEMMA WrittenBranchLeads ==
    ASSUME table \in Seq(Entries), OneEach(table), NEW safe, out = CodeOf(safe),
           NEW i \in WhatIsWritten(safe), WrittenAs(i).offset = Distance(i),
           cofi_table[table[i].id][1] = "id" => cofi_table[table[i].id][2] \in Ids(table),
           cofi_table[table[i].id][1] # "id" => cofi_table[table[i].id][2] \in Int,
           WholeWay(i)
    PROVE  LET at == Addresses(out)
               k == Position(table[i].id)
               target == cofi_table[table[i].id]
           IN at[k] + out[k].offset =
                  IF target[1] = "id" THEN at[Position(target[2])] ELSE target[2]
<1> DEFINE S == WhatIsWritten(safe)
           at == Addresses(out)
           k == Position(table[i].id)
           target == cofi_table[table[i].id]
<1>1. /\ S \subseteq 1..Len(table)
      /\ \A m \in S : /\ out[Place(S, m)] = WrittenAs(m)
                      /\ Position(table[m].id) = Place(S, m)
      /\ WrittenIds = {table[m].id : m \in S}
  <2>1. S \subseteq 1..Len(table)
    BY DEF WhatIsWritten
  <2>2. /\ \A m \in S : /\ out[Place(S, m)] = WrittenAs(m)
                        /\ Position(table[m].id) = Place(S, m)
        /\ WrittenIds = {table[m].id : m \in S}
    BY CodeProperties, Zenon DEF Position, WrittenIds
  <2> QED  BY <2>1, <2>2
<1>2. i \in S
  OBVIOUS
<1>3. k = Place(S, i) /\ out[k].offset = Distance(i)
  BY <1>1, <1>2
<1>4. ASSUME NEW m \in 1..Len(table), table[m].id \in WrittenIds PROVE m \in S
  <2>1. PICK n \in S : table[n].id = table[m].id
    BY <1>1, <1>4
  <2> QED  BY <1>1, <2>1 DEF OneEach
<1>5. CASE target[1] = "id"
  <2>1. PICK j \in 1..Len(table) : j = IndexOf(table, target[2]) /\ table[j].id = target[2]
    BY <1>5, IdHasIndex
  <2>2. /\ target[2] \in WrittenIds
        /\ \A m \in Between(i, j) : table[m].id \in WrittenIds
    BY <1>5, <2>1 DEF WholeWay
  <2>3. j \in S
    BY <1>4, <2>1, <2>2
  <2>4. ASSUME NEW m \in Between(i, j) PROVE m \in S
    <3>1. m \in 1..Len(table)
      BY <1>1, <1>2 DEF Between
    <3> QED  BY <1>4, <2>2, <3>1
  <2>5. at[Place(S, i)] + (Addresses(table)[j] - Addresses(table)[i]) = at[Place(S, j)]
    <3>1. \A m \in Between(i, j) : m \in WhatIsWritten(safe)
      BY <2>4
    <3> QED  BY <2>3, <3>1, WayBetween
  <2>6. Distance(i) = Addresses(table)[j] - Addresses(table)[i]
    BY <1>5, <2>1 DEF Distance
  <2>7. Position(target[2]) = Place(S, j)
    BY <1>1, <2>1, <2>3
  <2> HIDE DEF S, at, k, target
  <2>8. at[k] + out[k].offset = at[Position(target[2])]
    BY <1>3, <2>5, <2>6, <2>7, Zenon
  <2> QED  BY <1>5, <2>8 DEF at, k, target
<1>6. CASE target[1] # "id"
  <2>1. \A m \in 1..i : table[m].id \in WrittenIds
    BY <1>6 DEF WholeWay
  <2>2. ASSUME NEW m \in 1..i PROVE m \in WhatIsWritten(safe)
    <3>1. m \in 1..Len(table)
      BY <1>1, <1>2
    <3> QED  BY <1>4, <2>1, <3>1
  <2>3. i \in 1..Len(table)
    BY <1>1, <1>2
  <2>4. at[Place(S, i)] = Addresses(table)[i]
    BY <2>2, <2>3, WayFromStart
  <2>5. Distance(i) = target[2] - Addresses(table)[i]
    BY <1>6 DEF Distance
  <2>6. target[2] \in Int /\ Addresses(table)[i] \in Nat
    <3>1. i \in 1..(Len(table) + 1) /\ HasKinds(table)
      BY <2>3, TableHasKinds
    <3> QED  BY <1>6, <3>1, AddressType
  <2> DEFINE a == Addresses(table)[i]
  <2>7. at[k] = a /\ out[k].offset = target[2] - a /\ a \in Nat
    BY <1>3, <2>4, <2>5, <2>6
  <2> HIDE DEF S, at, k, target, a
  <2>8. at[k] + out[k].offset = target[2]
    BY <2>6, <2>7 DEF target
  <2> QED  BY <1>6, <2>8 DEF at, k, target
<1> QED  BY <1>5, <1>6

\* So the invariant says of written code what is to hold of it.
LEMMA WrittenLeads == DInv => BranchesLeadToTheirTargets
<1> SUFFICES ASSUME DInv, pc = "written",
                    NEW i \in DOMAIN table, IsBranch(i), CanReach(i)
             PROVE  /\ table[i].id \in WrittenIds
                    /\ WholeWay(i) =>
                        LET at == Addresses(out)
                            k == Position(table[i].id)
                            target == cofi_table[table[i].id]
                        IN at[k] + out[k].offset =
                               IF target[1] = "id" THEN at[Position(target[2])] ELSE target[2]
  BY Zenon DEF BranchesLeadToTheirTargets
<1>1. PICK safe \in BOOLEAN : out = CodeOf(safe)
  BY DEF DInv, WrittenInv
<1>2. table \in Seq(Entries) /\ OneEach(table) /\ i \in 1..Len(table)
  BY DEF DInv, TableInv
<1>3. /\ cofi_table[table[i].id][1] = "id" => cofi_table[table[i].id][2] \in Ids(table)
      /\ cofi_table[table[i].id][1] # "id" => cofi_table[table[i].id][2] \in Int
  BY <1>2 DEF DInv, TableInv, WrittenInv, Dangling
<1>4. table[i].kind \in Branches /\ Distance(i) \in Offsets(table[i].kind)
  BY DEF IsBranch, CanReach
<1>5. Given(i) = Distance(i) /\ Wrapped(Distance(i), Reach[table[i].kind]) = Distance(i)
  BY <1>4, OffsetFits DEF Given
<1>6. InReach(i) /\ WrittenAs(i).offset = Distance(i)
  BY <1>4, <1>5 DEF InReach, WrittenAs, Field, IsBranch
<1>7. i \in WhatIsWritten(safe)
  BY <1>2, <1>6 DEF WhatIsWritten, IsWritten
<1>8. table[i].id \in WrittenIds
  <2>1. WrittenIds = {table[m].id : m \in WhatIsWritten(safe)}
    BY <1>1, <1>2, CodeProperties DEF WrittenIds
  <2> QED  BY <1>7, <2>1
<1>9. ASSUME WholeWay(i)
      PROVE  LET at == Addresses(out)
                 k == Position(table[i].id)
                 target == cofi_table[table[i].id]
             IN at[k] + out[k].offset =
                    IF target[1] = "id" THEN at[Position(target[2])] ELSE target[2]
  BY <1>1, <1>2, <1>3, <1>6, <1>7, <1>9, WrittenBranchLeads
<1> QED  BY <1>8, <1>9

-----------------------------------------------------------------------------
(* Theorems about DisasDataTable. *)

\* A new table.
LEMMA DInit == Init => DInv
<1> SUFFICES ASSUME Init PROVE DInv
  OBVIOUS
<1>1. TableInv /\ FreshInv
  BY EmptyInv DEF Init
<1> QED  BY <1>1 DEF Init, DInv, WrittenInv, PanicsOnlyForTheRemoved

\* A table that is made of a list of instructions, or of an ELF file.
LEMMA MakeInv ==
    ASSUME NEW program \in Seq(Encodable), FromRiscvIns(program) \/ FromElf(program)
    PROVE  DInv'
<1>1. Load(program) /\ cur_id' \in Nat
  BY DEF FromRiscvIns, FromElf
<1>2. /\ TableInv' /\ Ids(table') = 1..Len(program) /\ pc' = "ready"
      /\ \A b \in DOMAIN cofi_table' :
            cofi_table'[b][1] = "id" => cofi_table'[b][2] \in Ids(table')
  BY <1>1, Loaded
<1>3. origin' # "elf" => cur_id' = Len(program)
  BY DEF FromRiscvIns, FromElf
<1>4. origin' # "elf" => FreshInv'
  BY <1>2, <1>3 DEF FreshInv
<1> QED  BY <1>2, <1>4 DEF DInv, WrittenInv, PanicsOnlyForTheRemoved

\* Every insertion.
LEMMA InsertInv == ASSUME DInv, Insert PROVE DInv'
<1>1. CASE \E i \in Places, kind \in Plain : AddInstructionAtIndex(i, kind)
  <2>1. PICK i \in Places, kind \in Plain : AddInstructionAtIndex(i, kind)
    BY <1>1
  <2> QED  BY <2>1, AddPlainInv DEF AddInstructionAtIndex
<1>2. CASE \E a \in DOMAIN LookupMap, kind \in Plain : AddInstructionByAddress(a, kind)
  <2>1. PICK a \in DOMAIN LookupMap, kind \in Plain : AddInstructionByAddress(a, kind)
    BY <1>2
  <2>2. LookupMap[a] \in Ids(table) /\ AddInstruction(IndexOf(table, LookupMap[a]), kind)
    BY <2>1 DEF AddInstructionByAddress
  <2>3. table \in Seq(Entries)
    BY DEF DInv, TableInv
  <2>4. IndexOf(table, LookupMap[a]) \in 1..Len(table)
    BY <2>2, <2>3, IdHasIndex
  <2>5. IndexOf(table, LookupMap[a]) \in 1..(Len(table) + 1)
    BY <2>3, <2>4
  <2> QED  BY <2>2, <2>5, AddPlainInv
<1>3. CASE \E i \in Places, target \in Targets, kind \in Branches : AddCofi(i, target, kind)
  <2>1. PICK i \in Places, target \in Targets, kind \in Branches : AddCofi(i, target, kind)
    BY <1>3
  <2>2. target[1] # "id" => target[2] \in Int
    BY DisasAssumption DEF Targets, ToId, ToAddress
  <2> QED  BY <2>1, <2>2, AddCofiInv
<1> QED  BY <1>1, <1>2, <1>3 DEF Insert

\* Every step.
LEMMA DNext == ASSUME DInv, [Next]_vars PROVE DInv'
<1>1. CASE MakeTable
  <2>1. PICK program \in Programs : FromRiscvIns(program) \/ FromElf(program)
    BY <1>1 DEF MakeTable
  <2>2. program \in Seq(Encodable)
    BY DisasAssumption
  <2> QED  BY <2>1, <2>2, MakeInv
<1>2. CASE Insert
  BY <1>2, InsertInv
<1>3. CASE RemoveAny
  BY <1>3, RemoveInv DEF RemoveAny, RemoveInstructionByIndex, RemoveInstructionByAddress
<1>4. CASE Lookup
  BY <1>4, LookupInv
<1>5. CASE \E safe \in BOOLEAN : Serialize(safe)
  BY <1>5, SerializeInv
<1>6. CASE UNCHANGED vars
  <2>1. /\ UNCHANGED <<table, cofi_table, cur_id, map, map_updated>>
        /\ UNCHANGED <<pc, out, origin, loaded, removed, edits>>
    BY <1>6 DEF vars, tableVars, cacheVars, historyVars
  <2>2. \A safe : CodeOf(safe)' = CodeOf(safe)
    BY <2>1, CodeStays
  <2>3. WrittenInv'
    BY <2>1, <2>2 DEF DInv, WrittenInv, IsBranch, Dangling
  <2>4. TableInv'
    BY <2>1 DEF DInv, TableInv, IsBranch, LookupsAreCurrent
  <2>5. PanicsOnlyForTheRemoved'
    BY <2>1 DEF DInv, PanicsOnlyForTheRemoved, Dangling
  <2>6. origin' # "elf" => FreshInv'
    BY <2>1 DEF DInv, FreshInv
  <2> QED  BY <2>3, <2>4, <2>5, <2>6 DEF DInv
<1> QED  BY <1>1, <1>2, <1>3, <1>4, <1>5, <1>6 DEF Next

\* The invariant of a table holds however it is edited.
THEOREM TableInvariance == Spec => []DInv
<1> QED  BY DInit, DNext, PTL DEF Spec

\* The map of addresses is never used stale (get_lookup_map, update_map), in programs
\* of any length and through any number of edits.
THEOREM LookupsAlwaysCurrent == Spec => []LookupsAreCurrent
<1>1. DInv => LookupsAreCurrent
  BY DEF DInv, TableInv
<1> QED  BY <1>1, TableInvariance, PTL

\* Writing a program panics for no other reason than that what a branch leads to was
\* removed (serialize), unless the table was made by from_elf.
THEOREM PanicsAlwaysForTheRemoved == Spec => []PanicsOnlyForTheRemoved
<1>1. DInv => PanicsOnlyForTheRemoved
  BY DEF DInv
<1> QED  BY <1>1, TableInvariance, PTL

\* What is written leads where it is meant to (populate_cofi_map, _serialize), whatever
\* the sizes and reaches of instructions are.
THEOREM BranchesAlwaysLeadToTheirTargets == Spec => []BranchesLeadToTheirTargets
<1> QED  BY WrittenLeads, TableInvariance, PTL

-----------------------------------------------------------------------------
(* Sizes of programs. *)

\* Programs with the same kinds have the same addresses.
LEMMA SameAddresses ==
    ASSUME NEW c, HasKinds(c), NEW d, HasKinds(d), Len(c) = Len(d),
           \A k \in 1..Len(c) : Size[c[k].kind] = Size[d[k].kind],
           NEW i \in 1..(Len(c) + 1)
    PROVE  Addresses(c)[i] = Addresses(d)[i]
<1>1. Len(c) \in Nat
  BY DEF HasKinds
<1> DEFINE n == i - 1
<1>2. /\ n \in Nat /\ 1 + n = i /\ 1 \in 1..(Len(c) + 1) /\ 1 \in 1..(Len(d) + 1)
      /\ 1 + n <= Len(c) + 1 /\ 1 + n <= Len(d) + 1
  BY <1>1
<1>3. AgreeFor(c, 1, d, 1, n)
  <2> SUFFICES ASSUME NEW k \in 0..(n - 1) PROVE Size[c[1 + k].kind] = Size[d[1 + k].kind]
    BY Zenon DEF AgreeFor
  <2>1. 1 + k \in 1..Len(c)
    BY <1>1
  <2> QED  BY <2>1
<1> HIDE DEF n
<1>4. Addresses(c)[1 + n] - Addresses(c)[1] = Addresses(d)[1 + n] - Addresses(d)[1]
  BY <1>2, <1>3, SameWay
<1>5. Addresses(c)[1] = BaseAddress /\ Addresses(d)[1] = BaseAddress /\ BaseAddress \in Nat
  BY AddressStep
<1>6. Addresses(c)[i] \in Nat /\ Addresses(d)[i] \in Nat
  <2>1. i \in 1..(Len(d) + 1)
    OBVIOUS
  <2> QED  BY <2>1, AddressType
<1> DEFINE a == Addresses(c)[i]
           b == Addresses(d)[i]
<1>7. a - BaseAddress = b - BaseAddress
  BY <1>2, <1>4, <1>5
<1>8. a \in Nat /\ b \in Nat
  BY <1>6
<1> HIDE DEF a, b
<1>9. a = b
  BY <1>5, <1>7, <1>8
<1> QED  BY <1>9 DEF a, b

\* The entries of a program lie within its size.
LEMMA WithinSize ==
    ASSUME NEW c, HasKinds(c)
    PROVE  /\ SizeOf(c) \in Nat
           /\ \A i \in 1..Len(c) : \E n \in Nat :
                 Addresses(c)[i] = BaseAddress + n /\ n < SizeOf(c)
<1> DEFINE A == Addresses(c)
           e == Len(c) + 1
<1>1. Len(c) \in Nat /\ e \in 1..(Len(c) + 1) /\ 1 \in 1..(Len(c) + 1)
  BY DEF HasKinds
<1>2. A[1] = BaseAddress /\ BaseAddress \in Nat
  BY AddressStep
<1>3. \A i \in 1..(Len(c) + 1) : A[i] \in Nat
  BY AddressType
<1>4. \A i, j \in 1..(Len(c) + 1) : i < j => A[i] < A[j]
  BY AddressesAscend
<1>5. SizeOf(c) = A[e] - BaseAddress
  BY DEF SizeOf
<1> HIDE DEF A, e
<1>6. ASSUME NEW i \in 1..(Len(c) + 1) PROVE BaseAddress <= A[i] /\ A[i] \in Nat
  <2>1. CASE i = 1
    BY <1>2, <2>1
  <2>2. CASE 1 < i
    <3>1. A[1] < A[i]
      BY <1>1, <1>4, <2>2
    <3> QED  BY <1>2, <1>3, <3>1
  <2> QED  BY <1>1, <2>1, <2>2
<1>7. SizeOf(c) \in Nat
  <2>1. BaseAddress <= A[e] /\ A[e] \in Nat
    BY <1>1, <1>6
  <2> QED  BY <1>2, <1>5, <2>1
<1>8. ASSUME NEW i \in 1..Len(c)
      PROVE  \E n \in Nat : A[i] = BaseAddress + n /\ n < SizeOf(c)
  <2>1. i \in 1..(Len(c) + 1) /\ i < e
    BY <1>1 DEF e
  <2>2. A[i] < A[e] /\ A[e] \in Nat
    BY <1>1, <1>3, <1>4, <2>1
  <2>3. BaseAddress <= A[i] /\ A[i] \in Nat
    BY <1>6, <2>1
  <2>4. PICK n \in Nat : n = A[i] - BaseAddress
    BY <1>2, <2>3
  <2> QED  BY <1>2, <1>5, <2>2, <2>3, <2>4
<1> QED  BY <1>7, <1>8 DEF A

AgreeButFor(c, d, i) ==
    /\ \A k \in 1..(i - 1) : Size[c[k].kind] = Size[d[k].kind]
    /\ \A k \in i..Len(c) : Size[c[k].kind] = Size[d[k + 1].kind]

\* A program that is another with one instruction put in is longer by that.
LEMMA OneMore ==
    ASSUME NEW c, HasKinds(c), NEW d, HasKinds(d), Len(d) = Len(c) + 1,
           NEW i \in 1..Len(d),
           AgreeButFor(c, d, i)
    PROVE  SizeOf(d) = SizeOf(c) + Size[d[i].kind]
<1> DEFINE A == Addresses(c)
           B == Addresses(d)
           n == i - 1
           m == Len(c) - i + 1
           s == Size[d[i].kind]
<1>1. /\ Len(c) \in Nat /\ n \in Nat /\ m \in Nat /\ i \in 1..(Len(c) + 1) /\ i + 1 \in 1..(Len(d) + 1)
      /\ 1 + n = i /\ i + m = Len(c) + 1 /\ (i + 1) + m = Len(d) + 1
      /\ 1 \in 1..(Len(c) + 1) /\ 1 \in 1..(Len(d) + 1)
      /\ 1 + n <= Len(c) + 1 /\ 1 + n <= Len(d) + 1
      /\ i + m <= Len(c) + 1 /\ (i + 1) + m <= Len(d) + 1
  BY DEF HasKinds
<1>2. AgreeFor(c, 1, d, 1, n)
  <2> SUFFICES ASSUME NEW k \in 0..(n - 1) PROVE Size[c[1 + k].kind] = Size[d[1 + k].kind]
    BY Zenon DEF AgreeFor
  <2>1. 1 + k \in 1..(i - 1)
    BY <1>1
  <2> QED  BY <2>1 DEF AgreeButFor
<1>3. AgreeFor(c, i, d, i + 1, m)
  <2> SUFFICES ASSUME NEW k \in 0..(m - 1)
               PROVE  Size[c[i + k].kind] = Size[d[(i + 1) + k].kind]
    BY Zenon DEF AgreeFor
  <2>1. i + k \in i..Len(c) /\ (i + k) + 1 = (i + 1) + k
    BY <1>1
  <2>2. Size[c[i + k].kind] = Size[d[(i + k) + 1].kind]
    BY <2>1 DEF AgreeButFor
  <2> QED  BY <2>1, <2>2, Zenon
<1>4. A[1] = BaseAddress /\ B[1] = BaseAddress /\ BaseAddress \in Nat
  BY AddressStep
<1>5. B[i + 1] = B[i] + s /\ s \in {2, 4}
  BY AddressStep
<1>6. /\ A[i] \in Nat /\ A[i + m] \in Nat
      /\ B[i] \in Nat /\ B[i + 1] \in Nat /\ B[(i + 1) + m] \in Nat
  <2>1. \A k \in 1..(Len(c) + 1) : A[k] \in Nat
    BY AddressType
  <2>2. \A k \in 1..(Len(d) + 1) : B[k] \in Nat
    BY AddressType
  <2>3. i + m \in 1..(Len(c) + 1) /\ i \in 1..(Len(d) + 1) /\ (i + 1) + m \in 1..(Len(d) + 1)
    BY <1>1
  <2> HIDE DEF A, B, m
  <2> QED  BY <1>1, <2>1, <2>2, <2>3
<1> HIDE DEF n, m
<1>7. A[1 + n] - A[1] = B[1 + n] - B[1]
  BY <1>1, <1>2, SameWay
<1>8. A[i + m] - A[i] = B[(i + 1) + m] - B[i + 1]
  BY <1>1, <1>3, SameWay
<1>9. SizeOf(c) = A[i + m] - BaseAddress /\ SizeOf(d) = B[(i + 1) + m] - BaseAddress
  BY <1>1 DEF SizeOf
<1> DEFINE u == A[i]
           v == A[i + m]
           x == B[i]
           y == B[i + 1]
           z == B[(i + 1) + m]
<1>10. u - BaseAddress = x - BaseAddress /\ v - u = z - y /\ y = x + s
  BY <1>1, <1>4, <1>5, <1>7, <1>8
<1>11. u \in Nat /\ v \in Nat /\ x \in Nat /\ y \in Nat /\ z \in Nat /\ s \in Nat
  BY <1>5, <1>6
<1>12. SizeOf(c) = v - BaseAddress /\ SizeOf(d) = z - BaseAddress
  BY <1>9
<1> HIDE DEF u, v, x, y, z, s
<1>13. z - BaseAddress = (v - BaseAddress) + s
  BY <1>4, <1>10, <1>11
<1>14. SizeOf(d) = SizeOf(c) + s
  BY <1>12, <1>13, Zenon
<1> QED  BY <1>14 DEF s

-----------------------------------------------------------------------------
(* Lists of instructions. *)

IsaEntries ==
    {e \in [meta : Known, word : Words] : e.word.kind \in Known /\ Size[e.word.kind] = Size[e.meta]}

\* What an entry of a list is.
LEMMA IsaEntryType ==
    \A e \in IsaEntries : /\ e.meta \in Known /\ e.word \in Encodable /\ e.word.kind \in Known
                          /\ Size[e.word.kind] = Size[e.meta]
                          /\ Known \subseteq Kinds /\ Size[e.meta] \in {2, 4}
<1>1. Known \subseteq Kinds
  BY MutatorAssumption
<1>2. \A e \in IsaEntries : e.meta \in Known /\ e.word \in Encodable
  BY DEF IsaEntries, Words
<1>3. \A e \in IsaEntries : e.word.kind \in Known /\ Size[e.word.kind] = Size[e.meta]
  BY DEF IsaEntries
<1> QED  BY <1>1, <1>2, <1>3, SizeType

\* The words of a list are a program.
LEMMA CodeType ==
    ASSUME NEW list \in Seq(IsaEntries)
    PROVE  /\ Code(list) \in Seq(Encodable) /\ Len(Code(list)) = Len(list) /\ HasKinds(Code(list))
           /\ \A i \in 1..Len(list) : Code(list)[i] = list[i].word
           /\ SizeOf(Code(list)) \in Nat
<1>1. /\ DOMAIN list = 1..Len(list) /\ Len(list) \in Nat
      /\ \A i \in 1..Len(list) : list[i] \in IsaEntries
  OBVIOUS
<1>2. Code(list) = [i \in 1..Len(list) |-> list[i].word]
  BY <1>1 DEF Code
<1>3. \A i \in 1..Len(list) : list[i].word \in Encodable
  BY <1>1, IsaEntryType
<1>4. Code(list) \in [1..Len(list) -> Encodable]
  BY <1>2, <1>3
<1>5. Code(list) \in Seq(Encodable) /\ Len(Code(list)) = Len(list)
  BY <1>1, <1>2, <1>4
<1>6. \A i \in 1..Len(list) : Code(list)[i] = list[i].word
  BY <1>2
<1>7. HasKinds(Code(list))
  <2>1. \A i \in 1..Len(list) : Code(list)[i].kind \in Kinds
    BY <1>3, <1>6, EncodableType
  <2>2. DOMAIN Code(list) = 1..Len(list)
    BY <1>2
  <2> QED  BY <1>1, <1>5, <2>1, <2>2 DEF HasKinds
<1> QED  BY <1>5, <1>6, <1>7, WithinSize

\* What is read of words: those that are known, with nothing else changed.
LEMMA ReadProperties ==
    ASSUME NEW code \in Seq(Encodable)
    PROVE  /\ Read(code) \in Seq(IsaEntries)
           /\ (\A i \in 1..Len(code) : code[i].kind \in Known) =>
                 /\ Len(Read(code)) = Len(code)
                 /\ \A i \in 1..Len(code) : Read(code)[i].word = code[i]
<1> DEFINE S == {i \in 1..Len(code) : code[i].kind \in Known}
           n == Len(code)
           known == InOrder(S, n)
<1>1. DOMAIN code = 1..n /\ n \in Nat /\ \A i \in 1..n : code[i] \in Encodable
  OBVIOUS
<1>2. Read(code) = [k \in DOMAIN known |-> [meta |-> code[known[k]].kind, word |-> code[known[k]]]]
  BY <1>1, Zenon DEF Read
<1>3. /\ known \in Seq(Nat)
      /\ \A m \in 1..Len(known) : known[m] \in S \cap (1..n) /\ Place(S, known[m]) = m
  BY <1>1, InOrderPlaces
<1>4. \A i \in S : /\ i \in 1..n
                   /\ [meta |-> code[i].kind, word |-> code[i]] \in IsaEntries
  BY <1>1, MutatorAssumption DEF IsaEntries, Words
<1>5. Len(known) = Place(S, n)
  BY DEF Place
<1> HIDE DEF known
<1>6. DOMAIN known = 1..Len(known) /\ Len(known) \in Nat
  BY <1>3
<1>7. Read(code) \in [1..Len(known) -> IsaEntries]
  <2>1. \A k \in 1..Len(known) :
           [meta |-> code[known[k]].kind, word |-> code[known[k]]] \in IsaEntries
    BY <1>3, <1>4
  <2>2. Read(code) =
           [k \in 1..Len(known) |-> [meta |-> code[known[k]].kind, word |-> code[known[k]]]]
    BY <1>2, <1>6
  <2> HIDE DEF S
  <2> QED  BY <2>1, <2>2
<1>8. Read(code) \in Seq(IsaEntries) /\ Len(Read(code)) = Len(known)
  BY <1>6, <1>7
<1>9. ASSUME \A i \in 1..n : code[i].kind \in Known
      PROVE  /\ Len(Read(code)) = n
             /\ \A i \in 1..n : Read(code)[i].word = code[i]
  <2>1. \A i \in 1..n : i \in S
    BY <1>9
  <2>2. ASSUME NEW i \in 0..n PROVE Place(S, i) = i
    <3>1. i \in Nat /\ \A k \in 1..i : k \in S
      BY <1>1, <2>1
    <3> QED  BY <3>1, AllInPlace
  <2>3. Len(known) = n
    BY <1>1, <1>5, <2>2
  <2>4. ASSUME NEW i \in 1..n PROVE Read(code)[i].word = code[i]
    <3>1. known[i] \in 1..n /\ Place(S, known[i]) = i
      BY <1>3, <2>3
    <3>2. known[i] = i
      BY <1>1, <2>2, <3>1
    <3> QED  BY <1>2, <1>6, <2>3, <3>2
  <2> QED  BY <1>8, <2>3, <2>4
<1> QED  BY <1>8, <1>9

-----------------------------------------------------------------------------
(* Lists that are mutated. *)

\* An entry that is put in adds its size.
LEMMA ListGrows ==
    ASSUME NEW list \in Seq(IsaEntries), NEW i \in 1..(Len(list) + 1), NEW e \in IsaEntries
    PROVE  /\ InsertedAt(list, i, e) \in Seq(IsaEntries)
           /\ SizeOf(Code(InsertedAt(list, i, e))) = SizeOf(Code(list)) + Size[e.meta]
<1> DEFINE longer == InsertedAt(list, i, e)
           c == Code(list)
           d == Code(longer)
<1>1. /\ longer \in Seq(IsaEntries) /\ Len(longer) = Len(list) + 1
      /\ \A k \in 1..(Len(list) + 1) :
            longer[k] = IF k < i THEN list[k] ELSE IF k = i THEN e ELSE list[k - 1]
  <2>1. longer \in Seq(IsaEntries) /\ Len(longer) = Len(list) + 1
    BY InsertedProperties
  <2>2. ASSUME NEW k \in 1..(Len(list) + 1)
        PROVE  longer[k] = IF k < i THEN list[k] ELSE IF k = i THEN e ELSE list[k - 1]
    BY InsertedProperties
  <2> HIDE DEF longer
  <2> QED  BY <2>1, <2>2
<1> HIDE DEF longer
<1>2. /\ Len(c) = Len(list) /\ HasKinds(c) /\ Len(list) \in Nat
      /\ \A k \in 1..Len(list) : c[k] = list[k].word
  BY CodeType
<1>3. /\ Len(d) = Len(longer) /\ HasKinds(d)
      /\ \A k \in 1..Len(longer) : d[k] = longer[k].word
  BY <1>1, CodeType
<1> HIDE DEF c, d
<1>4. d[i] = e.word /\ i \in 1..Len(d) /\ Len(d) = Len(c) + 1
  BY <1>1, <1>2, <1>3
<1>5. AgreeButFor(c, d, i)
  <2>1. ASSUME NEW k \in 1..(i - 1) PROVE Size[c[k].kind] = Size[d[k].kind]
    <3>1. c[k] = d[k]
      BY <1>1, <1>2, <1>3
    <3> QED  BY <3>1
  <2>2. ASSUME NEW k \in i..Len(c) PROVE Size[c[k].kind] = Size[d[k + 1].kind]
    <3>1. k \in 1..Len(list) /\ k + 1 \in 1..(Len(list) + 1) /\ ~(k + 1 < i) /\ k + 1 # i /\ (k + 1) - 1 = k
      BY <1>2
    <3>2. longer[k + 1] = list[k]
      BY <1>1, <3>1
    <3>3. c[k] = d[k + 1]
      BY <1>1, <1>2, <1>3, <3>1, <3>2
    <3> QED  BY <3>3
  <2> QED  BY <2>1, <2>2, Zenon DEF AgreeButFor
<1>6. SizeOf(d) = SizeOf(c) + Size[d[i].kind]
  <2>1. HasKinds(c) /\ HasKinds(d) /\ Len(d) = Len(c) + 1 /\ i \in 1..Len(d)
    BY <1>2, <1>3, <1>4, Zenon
  <2> QED  BY <1>5, <2>1, OneMore
<1>7. Size[d[i].kind] = Size[e.meta]
  BY <1>4, IsaEntryType
<1> QED  BY <1>1, <1>6, <1>7 DEF longer, c, d

\* A list is no longer without an entry.
LEMMA ListShrinks ==
    ASSUME NEW list \in Seq(IsaEntries), NEW i \in 1..Len(list)
    PROVE  /\ RemovedAt(list, i) \in Seq(IsaEntries)
           /\ SizeOf(Code(RemovedAt(list, i))) <= SizeOf(Code(list))
<1> DEFINE shorter == RemovedAt(list, i)
           c == Code(shorter)
           d == Code(list)
<1>1. /\ shorter \in Seq(IsaEntries) /\ Len(shorter) = Len(list) - 1
      /\ \A k \in 1..(Len(list) - 1) : shorter[k] = IF k < i THEN list[k] ELSE list[k + 1]
  <2>1. shorter \in Seq(IsaEntries) /\ Len(shorter) = Len(list) - 1
    BY RemovedProperties
  <2>2. ASSUME NEW k \in 1..(Len(list) - 1)
        PROVE  shorter[k] = IF k < i THEN list[k] ELSE list[k + 1]
    BY RemovedProperties
  <2> HIDE DEF shorter
  <2> QED  BY <2>1, <2>2
<1> HIDE DEF shorter
<1>2. /\ Len(c) = Len(shorter) /\ HasKinds(c) /\ SizeOf(c) \in Nat
      /\ \A k \in 1..Len(shorter) : c[k] = shorter[k].word
  BY <1>1, CodeType
<1>3. /\ Len(d) = Len(list) /\ HasKinds(d) /\ Len(list) \in Nat
      /\ \A k \in 1..Len(list) : d[k] = list[k].word
  BY CodeType
<1> HIDE DEF c, d
<1>4. i \in 1..Len(d) /\ Len(d) = Len(c) + 1
  BY <1>1, <1>2, <1>3
<1>5. AgreeButFor(c, d, i)
  <2>1. ASSUME NEW k \in 1..(i - 1) PROVE Size[c[k].kind] = Size[d[k].kind]
    <3>1. c[k] = d[k]
      BY <1>1, <1>2, <1>3
    <3> QED  BY <3>1
  <2>2. ASSUME NEW k \in i..Len(c) PROVE Size[c[k].kind] = Size[d[k + 1].kind]
    <3>1. k \in 1..(Len(list) - 1) /\ k + 1 \in 1..Len(list) /\ ~(k < i)
      BY <1>1, <1>2, <1>3
    <3>2. shorter[k] = list[k + 1]
      BY <1>1, <3>1
    <3>3. c[k] = d[k + 1]
      BY <1>1, <1>2, <1>3, <3>1, <3>2
    <3> QED  BY <3>3
  <2> QED  BY <2>1, <2>2, Zenon DEF AgreeButFor
<1>6. SizeOf(d) = SizeOf(c) + Size[d[i].kind]
  <2>1. HasKinds(c) /\ HasKinds(d) /\ Len(d) = Len(c) + 1 /\ i \in 1..Len(d)
    BY <1>2, <1>3, <1>4, Zenon
  <2> QED  BY <1>5, <2>1, OneMore
<1>7. Size[d[i].kind] \in {2, 4}
  BY <1>3, <1>4, SizeType DEF HasKinds
<1>8. SizeOf(c) <= SizeOf(d)
  BY <1>2, <1>6, <1>7
<1> QED  BY <1>1, <1>8 DEF shorter, c, d

\* An entry that is replaced by one of its size leaves the size as it was.
LEMMA ListReplaced ==
    ASSUME NEW list \in Seq(IsaEntries), NEW i \in 1..Len(list), NEW e \in IsaEntries,
           Size[e.meta] = Size[list[i].meta]
    PROVE  /\ [list EXCEPT ![i] = e] \in Seq(IsaEntries)
           /\ SizeOf(Code([list EXCEPT ![i] = e])) = SizeOf(Code(list))
<1> DEFINE other == [list EXCEPT ![i] = e]
           c == Code(list)
           d == Code(other)
<1>1. /\ other \in Seq(IsaEntries) /\ Len(other) = Len(list) /\ Len(list) \in Nat
      /\ \A k \in 1..Len(list) : other[k] = IF k = i THEN e ELSE list[k]
  OBVIOUS
<1> HIDE DEF other
<1>2. /\ Len(c) = Len(list) /\ HasKinds(c)
      /\ \A k \in 1..Len(list) : c[k] = list[k].word
  BY CodeType
<1>3. /\ Len(d) = Len(other) /\ HasKinds(d)
      /\ \A k \in 1..Len(other) : d[k] = other[k].word
  BY <1>1, CodeType
<1> HIDE DEF c, d
<1>4. ASSUME NEW k \in 1..Len(c) PROVE Size[c[k].kind] = Size[d[k].kind]
  <2>1. list[k] \in IsaEntries /\ c[k] = list[k].word /\ d[k] = other[k].word
    BY <1>1, <1>2, <1>3
  <2>2. CASE k = i
    BY <1>1, <1>2, <2>1, <2>2, IsaEntryType
  <2>3. CASE k # i
    BY <1>1, <1>2, <2>1, <2>3
  <2> QED  BY <2>2, <2>3
<1>5. Len(c) + 1 \in 1..(Len(c) + 1) /\ Len(c) = Len(d)
  BY <1>1, <1>2, <1>3
<1>6. Addresses(c)[Len(c) + 1] = Addresses(d)[Len(c) + 1]
  BY <1>2, <1>3, <1>4, <1>5, SameAddresses
<1>7. SizeOf(c) = SizeOf(d)
  BY <1>5, <1>6 DEF SizeOf
<1> QED  BY <1>1, <1>7 DEF other, c, d

\* What the mutators build is an entry, however it will be read.
LEMMA BuiltAreEntries ==
    /\ BuiltEntries \subseteq IsaEntries
    /\ \A m \in Known : \A w \in Built[m] : [meta |-> m, word |-> w] \in IsaEntries
<1>1. ASSUME NEW m \in Known, NEW w \in Built[m]
      PROVE  w \in Words /\ w.kind \in Known /\ Size[w.kind] = Size[m]
  BY MutatorAssumption
<1>2. ASSUME NEW e \in BuiltEntries PROVE e \in IsaEntries
  <2>1. e \in [meta : Known, word : Words] /\ e.meta \in Known /\ e.word \in Built[e.meta]
    BY DEF BuiltEntries
  <2>2. e.word.kind \in Known /\ Size[e.word.kind] = Size[e.meta]
    BY <1>1, <2>1
  <2> QED  BY <2>1, <2>2 DEF IsaEntries
<1>3. ASSUME NEW m \in Known, NEW w \in Built[m] PROVE [meta |-> m, word |-> w] \in IsaEntries
  BY <1>1, <1>3 DEF IsaEntries
<1> QED  BY <1>2, <1>3

\* A first index exists where there is one at all.
LEMMA FirstOfSome ==
    ASSUME NEW S, S \subseteq Nat, S # {}
    PROVE  First(S) \in S
<1>1. PICK i \in S : \A j \in S : <<j, i>> \notin Less
  BY LessIsWellFounded, WFMin
<1>2. ASSUME NEW j \in S PROVE i <= j
  <2>1. <<j, i>> \notin Less /\ i \in Nat /\ j \in Nat
    BY <1>1
  <2>2. ~(j < i)
    BY <2>1 DEF Less
  <2> QED  BY <2>1, <2>2
<1>3. \E k \in S : \A j \in S : k <= j
  BY <1>2
<1> QED  BY <1>3, Zenon DEF First

-----------------------------------------------------------------------------
(* The invariant of the mutator. *)

\* The lists and the input.
ListsInv ==
    /\ input.code \in Seq(Words) /\ (input \in Seeds \/ input.rest = "none")
    /\ isa \in Seq(IsaEntries) /\ read \in Seq(IsaEntries)
    /\ SizeIsKept
    /\ step = "panicked" => input \in Seeds /\ input.rest = "half"
    /\ pc # "panicked"

\* A branch of the program leads to the entry it led to.
StillLeads(i) ==
    loaded[i].kind \in Branches =>
        \A j \in LeadsTo(loaded, i) : i \in DOMAIN cofi_table /\ cofi_table[i] = ToId(j)

\* The program that was loaded is still in the table.
LoadedInv ==
    /\ loaded \in Seq(Encodable) /\ Len(loaded) <= cur_id
    /\ \A m \in 1..Len(table) :
          /\ table[m].kind \in Known
          /\ table[m].id \in 1..Len(loaded) => table[m].kind = loaded[table[m].id].kind
    /\ \A i \in 1..Len(loaded) : StillLeads(i)

\* While branches are added, and none was removed.
BranchingInv ==
    /\ DInv /\ LoadedInv
    /\ origin = "instructions" /\ removed = {} /\ pc = "ready"
    /\ edits \in Nat /\ Len(table) = Len(isa) + edits

\* When the code is written, and was read again as it is.
WritingInv ==
    /\ TableInv /\ LoadedInv
    /\ out = CodeOf(TRUE)
    /\ Len(isa) = Len(out)
    /\ \A k \in 1..Len(out) : isa[k].word = [kind |-> out[k].kind, offset |-> out[k].offset]

MutatorInv ==
    /\ ListsInv
    /\ step = "branching" => BranchingInv
    /\ step = "writing" => WritingInv

\* A seed, and an empty table.
LEMMA MInit == MutatorInit => MutatorInv
<1> SUFFICES ASSUME MutatorInit PROVE MutatorInv
  OBVIOUS
<1>1. /\ input \in Seeds /\ isa = <<>> /\ read = <<>> /\ step = "done" /\ pc = "ready"
  BY DEF MutatorInit, Constructed, Init
<1>2. input.code \in Seq(Words)
  BY <1>1, MutatorAssumption
<1>3. isa \in Seq(IsaEntries) /\ read \in Seq(IsaEntries)
  BY <1>1, EmptySeq
<1> QED  BY <1>1, <1>2, <1>3 DEF MutatorInv, ListsInv, SizeIsKept

\* What is read is no larger than itself.
LEMMA StartInv == ASSUME MutatorInv, NEW n, Start(n) PROVE MutatorInv'
<1>1. /\ step = "done" /\ UNCHANGED <<input, pc>>
      /\ IF input.rest = "half"
         THEN step' = "panicked" /\ UNCHANGED <<isa, read>>
         ELSE step' = "mutating" /\ isa' = Read(input.code) /\ read' = isa'
  BY DEF Start, tableAll
<1>2. input.code \in Seq(Encodable)
  BY DEF MutatorInv, ListsInv, Words
<1>3. Read(input.code) \in Seq(IsaEntries)
  BY <1>2, ReadProperties
<1>4. SizeOf(Code(Read(input.code))) \in Nat
  BY <1>3, CodeType
<1>5. CASE input.rest = "half"
  <2>1. input \in Seeds
    BY <1>5 DEF MutatorInv, ListsInv
  <2> QED  BY <1>1, <1>5, <2>1 DEF MutatorInv, ListsInv, SizeIsKept
<1>6. CASE input.rest # "half"
  <2>1. SizeIsKept'
    BY <1>1, <1>4, <1>6 DEF SizeIsKept, Bytes
  <2> QED  BY <1>1, <1>3, <1>6, <2>1 DEF MutatorInv, ListsInv
<1> QED  BY <1>5, <1>6

\* A mutation that makes a list of entries which is no larger, or not too large.
LEMMA IterateInv ==
    ASSUME MutatorInv, NEW outcome, Iterate(outcome), isa' \in Seq(IsaEntries),
           SizeOf(Code(isa')) <= SizeOf(Code(isa)) \/ SizeOf(Code(isa')) < MaxSize
    PROVE  MutatorInv'
<1>1. step = "mutating" /\ UNCHANGED <<input, step, read, pc>>
  BY DEF Iterate, tableAll
<1>2. SizeOf(Code(isa)) \in Nat /\ SizeOf(Code(isa')) \in Nat /\ SizeOf(Code(read)) \in Nat
  BY CodeType DEF MutatorInv, ListsInv
<1>3. MaxSize \in Nat
  BY MutatorAssumption
<1>4. SizeOf(Code(isa)) < MaxSize \/ SizeOf(Code(isa)) <= SizeOf(Code(read))
  BY <1>1 DEF MutatorInv, ListsInv, SizeIsKept, Bytes
<1> DEFINE a == SizeOf(Code(isa))
           b == SizeOf(Code(isa'))
           c == SizeOf(Code(read))
<1>5. b < MaxSize \/ b <= c
  <2> HIDE DEF a, b, c
  <2>1. a \in Nat /\ b \in Nat /\ c \in Nat
    BY <1>2 DEF a, b, c
  <2>2. (a < MaxSize \/ a <= c) /\ (b <= a \/ b < MaxSize)
    BY <1>4 DEF a, b, c
  <2> QED  BY <1>3, <2>1, <2>2
<1>6. SizeIsKept'
  BY <1>1, <1>5, Zenon DEF SizeIsKept, Bytes
<1> QED  BY <1>1, <1>6 DEF MutatorInv, ListsInv

\* Nothing is mutated.
LEMMA SkipInv == ASSUME MutatorInv, Skip PROVE MutatorInv'
<1>1. Iterate("Skipped") /\ isa' = isa /\ isa \in Seq(IsaEntries)
  BY DEF Skip, MutatorInv, ListsInv
<1>2. SizeOf(Code(isa)) \in Nat
  BY <1>1, CodeType
<1>3. isa' \in Seq(IsaEntries) /\ SizeOf(Code(isa')) <= SizeOf(Code(isa))
  BY <1>1, <1>2
<1> QED  BY <1>1, <1>3, IterateInv

\* Every mutation keeps the size, or adds to one that is small enough.
LEMMA MutationInv ==
    ASSUME MutatorInv, InstDelete \/ Operand \/ AppendInst \/ Opcode
    PROVE  MutatorInv'
<1>1. isa \in Seq(IsaEntries) /\ DOMAIN isa = 1..Len(isa) /\ Len(isa) \in Nat
  BY DEF MutatorInv, ListsInv
<1>2. SizeOf(Code(isa)) \in Nat
  BY <1>1, CodeType
<1>3. CASE InstDelete
  <2>1. CASE isa = <<>>
    BY <1>3, <2>1, SkipInv DEF InstDelete
  <2>2. CASE isa # <<>>
    <3>1. PICK i \in 1..Len(isa) : Iterate("Mutated") /\ isa' = RemovedAt(isa, i)
      BY <1>1, <1>3, <2>2 DEF InstDelete
    <3>2. isa' \in Seq(IsaEntries) /\ SizeOf(Code(isa')) <= SizeOf(Code(isa))
      BY <1>1, <3>1, ListShrinks
    <3> QED  BY <3>1, <3>2, IterateInv
  <2> QED  BY <2>1, <2>2
<1>4. CASE Operand
  <2>1. CASE Bytes <= 4
    BY <1>4, <2>1, SkipInv DEF Operand
  <2>2. CASE ~(Bytes <= 4)
    <3>1. PICK i \in DOMAIN isa : \E w \in Built[isa[i].meta] :
             Iterate("Mutated") /\ isa' = Replaced(i, [isa[i] EXCEPT !.word = w])
      BY <1>4, <2>2 DEF Operand
    <3>2. i \in 1..Len(isa) /\ isa[i] \in IsaEntries
      BY <1>1
    <3>8. PICK w \in Built[isa[i].meta] :
             Iterate("Mutated") /\ isa' = Replaced(i, [isa[i] EXCEPT !.word = w])
      BY <3>1
    <3>3. isa[i].meta \in Known /\ [isa[i] EXCEPT !.word = w] = [meta |-> isa[i].meta, word |-> w]
      BY <3>2 DEF IsaEntries
    <3> DEFINE e == [meta |-> isa[i].meta, word |-> w]
    <3>4. e \in IsaEntries /\ e.meta = isa[i].meta
      BY <3>3, BuiltAreEntries
    <3>5. isa' = [isa EXCEPT ![i] = e]
      BY <3>3, <3>8 DEF Replaced
    <3> HIDE DEF e
    <3>6. isa' \in Seq(IsaEntries) /\ SizeOf(Code(isa')) = SizeOf(Code(isa))
      BY <1>1, <3>2, <3>4, <3>5, ListReplaced
    <3>7. SizeOf(Code(isa')) <= SizeOf(Code(isa))
      BY <1>2, <3>6
    <3> QED  BY <3>6, <3>7, <3>8, IterateInv
  <2> QED  BY <2>1, <2>2
<1>5. CASE AppendInst
  <2>1. CASE Bytes + 4 >= MaxSize
    BY <1>5, <2>1, SkipInv DEF AppendInst
  <2>2. CASE ~(Bytes + 4 >= MaxSize)
    <3>1. PICK e \in BuiltEntries, i \in DOMAIN isa \cup {1} :
             Iterate("Mutated") /\ isa' = InsertedAt(isa, i, e)
      BY <1>5, <2>2 DEF AppendInst
    <3>2. i \in 1..(Len(isa) + 1) /\ e \in IsaEntries
      BY <1>1, <3>1, BuiltAreEntries
    <3>3. isa' \in Seq(IsaEntries) /\ SizeOf(Code(isa')) = SizeOf(Code(isa)) + Size[e.meta]
      BY <1>1, <3>1, <3>2, ListGrows
    <3>4. Size[e.meta] \in {2, 4}
      BY <3>2, IsaEntryType
    <3>5. SizeOf(Code(isa')) < MaxSize
      BY <1>2, <2>2, <3>3, <3>4, MutatorAssumption DEF Bytes
    <3> QED  BY <3>1, <3>3, <3>5, IterateInv
  <2> QED  BY <2>1, <2>2
<1>6. CASE Opcode
  <2>1. CASE Bytes <= 4
    BY <1>6, <2>1, SkipInv DEF Opcode
  <2>2. CASE ~(Bytes <= 4)
    <3>1. PICK e \in BuiltEntries, drawn \in DOMAIN isa :
             IF SameLength(e) = {}
             THEN Skip
             ELSE /\ Iterate("Mutated")
                  /\ isa' = Replaced(IF drawn \in SameLength(e)
                                     THEN drawn ELSE First(SameLength(e)), e)
      BY <1>6, <2>2 DEF Opcode
    <3>2. CASE SameLength(e) = {}
      BY <3>1, <3>2, SkipInv
    <3>3. CASE SameLength(e) # {}
      <4>1. PICK i : /\ i = IF drawn \in SameLength(e) THEN drawn ELSE First(SameLength(e))
                     /\ Iterate("Mutated") /\ isa' = Replaced(i, e)
        BY <3>1, <3>3
      <4>2. SameLength(e) \subseteq Nat
        BY <1>1 DEF SameLength
      <4>3. i \in SameLength(e)
        BY <3>3, <4>1, <4>2, FirstOfSome
      <4>4. i \in 1..Len(isa) /\ Size[e.meta] = Size[isa[i].meta]
        BY <1>1, <4>3 DEF SameLength
      <4>5. e \in IsaEntries
        BY BuiltAreEntries
      <4>6. isa' \in Seq(IsaEntries) /\ SizeOf(Code(isa')) = SizeOf(Code(isa))
        BY <1>1, <4>1, <4>4, <4>5, ListReplaced DEF Replaced
      <4>7. SizeOf(Code(isa')) <= SizeOf(Code(isa))
        BY <1>2, <4>6
      <4> QED  BY <4>1, <4>6, <4>7, IterateInv
    <3> QED  BY <3>2, <3>3
  <2> QED  BY <2>1, <2>2
<1> QED  BY <1>3, <1>4, <1>5, <1>6

\* The branches of a program that is loaded lead where they led.
LEMMA LoadedLeads ==
    ASSUME NEW program \in Seq(Encodable), Load(program), cur_id' = Len(program),
           \A i \in 1..Len(program) : program[i].kind \in Known
    PROVE  LoadedInv'
<1>1. /\ TableInv' /\ Len(table') = Len(program) /\ loaded' = program
      /\ \A i \in 1..Len(program) : table'[i] = [id |-> i, kind |-> program[i].kind]
  BY Loaded
<1>2. Len(program) \in Nat /\ DOMAIN program = 1..Len(program)
  OBVIOUS
<1>3. table' \in Seq(Entries) /\ OneEach(table')
  BY <1>1 DEF TableInv
<1>4. ASSUME NEW i \in 1..Len(program)
      PROVE  table'[i].id = i /\ table'[i].kind = program[i].kind
  <2>1. table'[i] = [id |-> i, kind |-> program[i].kind]
    BY <1>1
  <2> QED  BY <2>1
<1>5. HasKinds(program) /\ HasKinds(table')
  <2>1. \A i \in 1..Len(program) : program[i] \in Encodable
    OBVIOUS
  <2>2. \A i \in 1..Len(program) : program[i].kind \in Kinds
    BY <2>1, EncodableType
  <2> QED  BY <1>2, <1>3, <2>2, TableHasKinds DEF HasKinds
<1> DEFINE A == Addresses(program)
           B == Addresses(table')
           R == Resolved(table', program)
           G(i) == B[i] + program[i].offset
<1>6. ASSUME NEW i \in 1..Len(program) PROVE A[i] = B[i]
  <2>1. i \in 1..(Len(program) + 1) /\ \A k \in 1..Len(program) : Size[program[k].kind] = Size[table'[k].kind]
    BY <1>2, <1>4
  <2> QED  BY <1>1, <1>5, <2>1, SameAddresses
<1>7. cofi_table' = R
  BY DEF Load
<1>8. /\ \A i \in 1..Len(table') : table'[i].kind \in Branches => table'[i].id \in DOMAIN R
      /\ \A b \in DOMAIN R : \E i \in 1..Len(table') :
            /\ b = table'[i].id /\ table'[i].kind \in Branches
            /\ \/ \E j \in 1..Len(table') : R[b] = ToId(table'[j].id) /\ B[j] = G(i)
               \/ \A j \in 1..Len(table') : B[j] # G(i)
  <2> HIDE DEF B, G
  <2>2. Len(program) = Len(table')
    BY <1>1, Zenon
  <2>1. /\ \A i \in 1..Len(table') : table'[i].kind \in Branches => table'[i].id \in DOMAIN R
        /\ \A b \in DOMAIN R : \E i \in 1..Len(table') :
              /\ b = table'[i].id /\ table'[i].kind \in Branches
              /\ \/ \E j \in 1..Len(table') : /\ R[b] = ToId(table'[j].id)
                                              /\ B[j] = G(i)
                 \/ /\ R[b] = ToAddress(G(i)) /\ G(i) \in Int
                    /\ \A j \in 1..Len(table') : B[j] # G(i)
    <3>1. AreResolved(R, table', program)
      BY <1>3, <2>2, ResolvedProperties, Zenon
    <3> HIDE DEF R
    <3> QED  BY <3>1, Zenon DEF G, B, AreResolved
  <2> HIDE DEF R
  <2> QED  BY <2>1
<1>9. ASSUME NEW i \in 1..Len(program), program[i].kind \in Branches, NEW j \in LeadsTo(program, i)
      PROVE  i \in DOMAIN cofi_table' /\ cofi_table'[i] = ToId(j)
  <2>1. j \in 1..Len(program) /\ A[j] = A[i] + program[i].offset
    BY <1>2 DEF LeadsTo
  <2>2. i \in DOMAIN R
    BY <1>1, <1>4, <1>8, <1>9
  <2> HIDE DEF R, A, B, G
  <2>3. B[j] = G(i)
    BY <1>6, <2>1 DEF G
  <2>4. PICK m \in 1..Len(table') : R[i] = ToId(table'[m].id) /\ B[m] = G(i)
    <3>1. PICK k \in 1..Len(table') :
             /\ i = table'[k].id
             /\ \/ \E m \in 1..Len(table') : R[i] = ToId(table'[m].id) /\ B[m] = G(k)
                \/ \A m \in 1..Len(table') : B[m] # G(k)
      BY <1>8, <2>2
    <3>2. k = i
      BY <1>1, <1>4, <3>1
    <3> QED  BY <1>1, <2>1, <2>3, <3>1, <3>2
  <2>5. m = j
    <3>1. \A k, l \in 1..(Len(table') + 1) : k < l => B[k] < B[l]
      BY <1>5, AddressesAscend DEF B
    <3>2. B[m] = B[j] /\ m \in 1..(Len(table') + 1) /\ j \in 1..(Len(table') + 1)
      BY <1>1, <1>2, <2>1, <2>3, <2>4
    <3>3. B[m] \in Nat
      BY <1>5, <3>2, AddressType DEF B
    <3> QED  BY <3>1, <3>2, <3>3
  <2> QED  BY <1>1, <1>4, <1>7, <2>1, <2>2, <2>4, <2>5
<1> HIDE DEF A, B, R, G
<1>10. \A i \in 1..Len(program) : StillLeads(i)'
  BY <1>1, <1>9 DEF StillLeads
<1>11. \A m \in 1..Len(table') :
          /\ table'[m].kind \in Known
          /\ table'[m].id \in 1..Len(loaded') => table'[m].kind = loaded'[table'[m].id].kind
  BY <1>1, <1>4
<1> QED  BY <1>1, <1>2, <1>10, <1>11 DEF LoadedInv

\* The list becomes a program.
LEMMA StartBranchesInv == ASSUME MutatorInv, NEW n, StartBranches(n) PROVE MutatorInv'
<1>1. FromRiscvIns(Code(isa)) /\ step' = "branching" /\ UNCHANGED <<input, isa, read>>
  BY DEF StartBranches
<1>2. isa \in Seq(IsaEntries)
  BY DEF MutatorInv, ListsInv
<1> DEFINE program == Code(isa)
<1>3. program \in Seq(Encodable) /\ Len(program) = Len(isa) /\ \A i \in 1..Len(isa) : program[i] = isa[i].word
  BY <1>2, CodeType
<1>4. \A i \in 1..Len(program) : program[i].kind \in Known
  <2>1. \A i \in 1..Len(isa) : isa[i] \in IsaEntries
    BY <1>2
  <2> HIDE DEF program
  <2> QED  BY <1>3, <2>1, IsaEntryType
<1>5. Load(program) /\ cur_id' = Len(program) /\ origin' = "instructions"
  BY <1>1 DEF FromRiscvIns
<1> HIDE DEF program
<1>6. /\ Len(table') = Len(program) /\ pc' = "ready" /\ removed' = {} /\ edits' = 0
  <2>1. cur_id' \in Nat
    BY <1>3, <1>5
  <2> QED  BY <1>3, <1>5, <2>1, Loaded
<1>7. DInv'
  BY <1>1, <1>3, MakeInv DEF program
<1>8. LoadedInv'
  BY <1>3, <1>4, <1>5, LoadedLeads
<1>9. BranchingInv'
  <2>1. Len(table') = Len(isa') + edits'
    BY <1>1, <1>2, <1>3, <1>6
  <2> QED  BY <1>5, <1>6, <1>7, <1>8, <2>1 DEF BranchingInv
<1> QED  BY <1>1, <1>6, <1>9 DEF MutatorInv, ListsInv, SizeIsKept

\* The entries that are drawn are there, since each branch makes the table longer by one.
LEMMA AddBranchInv ==
    ASSUME MutatorInv, NEW t, NEW i, NEW kind \in Branches, AddBranch(t, i, kind)
    PROVE  MutatorInv'
<1>1. /\ step = "branching" /\ {t, i} \subseteq Drawn /\ UNCHANGED <<input, isa, read>>
      /\ BranchingInv
  BY DEF AddBranch, MutatorInv
<1>2. /\ DInv /\ TableInv /\ FreshInv /\ table \in Seq(Entries) /\ LoadedInv /\ cur_id \in Nat
      /\ origin = "instructions" /\ removed = {} /\ edits \in Nat
      /\ Len(table) = Len(isa) + edits
  BY <1>1 DEF BranchingInv, DInv, TableInv
<1>3. t \in 1..Len(table) /\ i \in 1..Len(table) /\ DOMAIN table = 1..Len(table)
  BY <1>1, <1>2 DEF Drawn
<1>4. AddCofi(i, ToId(table[t].id), kind) /\ step' = "branching"
  BY <1>1, <1>3 DEF AddBranch
<1>5. cur_id + 1 \notin Ids(table)
  BY <1>2, NextIdIsFree
<1> DEFINE target == ToId(table[t].id)
           e == [id |-> cur_id + 1, kind |-> kind]
<1>6. target[1] # "id" => target[2] \in Int
  BY DEF ToId
<1> HIDE DEF target
<1>7. /\ DInv' /\ cur_id' = cur_id + 1 /\ origin' = origin /\ loaded' = loaded
      /\ removed' = removed /\ edits' = edits + 1
      /\ DOMAIN cofi_table' = DOMAIN cofi_table \cup {cur_id + 1}
      /\ \A b \in DOMAIN cofi_table : b # cur_id + 1 => cofi_table'[b] = cofi_table[b]
      /\ pc' = "ready" /\ table' = InsertedAt(table, i, e)
  BY <1>2, <1>4, <1>5, <1>6, AddCofiInv DEF target
<1>8. e \in Entries /\ kind \in Known
  BY <1>2, MutatorAssumption DEF Entries
<1>9. i \in 1..(Len(table) + 1) /\ e.id = cur_id + 1 /\ e.kind = kind
  BY <1>2, <1>3
<1>10. OneEach(table)
  BY <1>2 DEF TableInv
<1> HIDE DEF e
<1>11. /\ Len(table') = Len(table) + 1
       /\ \A k \in 1..Len(table') : table'[k] = e \/ \E j \in 1..Len(table) : table'[k] = table[j]
  BY <1>2, <1>5, <1>7, <1>8, <1>9, <1>10, InsertedIds
<1>12. LoadedInv'
  <2>1. loaded \in Seq(Encodable) /\ Len(loaded) \in Nat /\ Len(loaded) <= cur_id
    BY <1>2 DEF LoadedInv
  <2>2. ASSUME NEW k \in 1..Len(table')
        PROVE  /\ table'[k].kind \in Known
               /\ table'[k].id \in 1..Len(loaded) => table'[k].kind = loaded[table'[k].id].kind
    <3>1. CASE table'[k] = e
      <4>1. e.id \notin 1..Len(loaded)
        BY <1>2, <1>9, <2>1
      <4> QED  BY <1>8, <1>9, <3>1, <4>1
    <3>2. CASE \E j \in 1..Len(table) : table'[k] = table[j]
      BY <1>2, <3>2 DEF LoadedInv
    <3> QED  BY <1>11, <3>1, <3>2
  <2>3. ASSUME NEW k \in 1..Len(loaded), loaded[k].kind \in Branches, NEW j \in LeadsTo(loaded, k)
        PROVE  k \in DOMAIN cofi_table' /\ cofi_table'[k] = ToId(j)
    <3>1. k \in DOMAIN cofi_table /\ cofi_table[k] = ToId(j)
      BY <1>2, <2>3 DEF LoadedInv, StillLeads
    <3>2. k # cur_id + 1
      BY <1>2, <2>1
    <3> QED  BY <1>7, <3>1, <3>2
  <2>4. \A k \in 1..Len(loaded) : StillLeads(k)'
    BY <1>7, <2>3 DEF StillLeads
  <2>5. Len(loaded) <= cur_id + 1
    BY <1>2, <2>1
  <2> QED  BY <1>7, <2>1, <2>2, <2>4, <2>5 DEF LoadedInv
<1>13. BranchingInv'
  <2>1. edits + 1 \in Nat /\ Len(table') = Len(isa') + edits'
    <3>1. Len(isa) \in Nat
      BY DEF MutatorInv, ListsInv
    <3> QED  BY <1>1, <1>2, <1>7, <1>11, <3>1
  <2> QED  BY <1>2, <1>7, <1>12, <2>1 DEF BranchingInv
<1> QED  BY <1>1, <1>4, <1>7, <1>13 DEF MutatorInv, ListsInv, SizeIsKept

\* Safe code is made of words that can be encoded and are known.
LEMMA SafeWords ==
    ASSUME TableInv, LoadedInv, \A i \in 1..Len(table) : IsBranch(i) => ~Dangling(table[i].id),
           NEW safe \in BOOLEAN, safe, NEW i \in WhatIsWritten(safe)
    PROVE  /\ [kind |-> WrittenAs(i).kind, offset |-> WrittenAs(i).offset] \in Encodable
           /\ WrittenAs(i).kind \in Known
<1>1. /\ table \in Seq(Entries) /\ i \in 1..Len(table)
      /\ IsBranch(i) => InReach(i)
  BY DEF TableInv, WhatIsWritten, IsWritten
<1>2. table[i].kind \in Known /\ table[i].kind \in Kinds
  BY <1>1, MutatorAssumption DEF LoadedInv
<1> DEFINE k == table[i].kind
           d == WrittenAs(i).offset
<1>3. WrittenAs(i).kind = k /\ d = IF k \in Branches THEN Field(i) ELSE 0
  BY DEF WrittenAs, IsBranch
<1>4. d \in Offsets(k)
  <2>1. CASE k \in Branches
    <3>1. Given(i) \in Offsets(k)
      BY <1>1, <2>1 DEF InReach, IsBranch
    <3>2. Wrapped(Given(i), Reach[k]) = Given(i)
      BY <2>1, <3>1, OffsetFits
    <3> QED  BY <1>3, <2>1, <3>1, <3>2 DEF Field
  <2>2. CASE k \notin Branches
    BY <1>3, <2>2 DEF Offsets
  <2> QED  BY <2>1, <2>2
<1> HIDE DEF k, d
<1>5. [kind |-> k, offset |-> d] \in Instructions
  BY <1>2, <1>4 DEF Instructions, k
<1>6. [kind |-> k, offset |-> d] \in Encodable
  BY <1>4, <1>5 DEF Encodable
<1> QED  BY <1>2, <1>3, <1>6 DEF k, d

\* Nothing was removed: the code is written, and read as it is.
LEMMA EndBranchesInv == ASSUME MutatorInv, EndBranches PROVE MutatorInv'
<1> DEFINE words(code) == [k \in DOMAIN code |-> [kind |-> code[k].kind, offset |-> code[k].offset]]
<1>1. /\ step = "branching" /\ Serialize(TRUE) /\ step' = "writing"
      /\ isa' = Read(words(out')) /\ UNCHANGED <<input, read>>
  BY DEF EndBranches
<1>2. /\ BranchingInv /\ TableInv /\ FreshInv /\ LoadedInv /\ removed = {} /\ pc = "ready"
      /\ table \in Seq(Entries) /\ OneEach(table) /\ DOMAIN table = 1..Len(table)
  BY <1>1 DEF MutatorInv, BranchingInv, DInv, TableInv
<1>3. \A i \in 1..Len(table) : IsBranch(i) => ~Dangling(table[i].id)
  BY <1>2 DEF TableInv, FreshInv, Dangling
<1>4. /\ pc' = "written" /\ out' = CodeOf(TRUE)
      /\ UNCHANGED <<table, cofi_table, cur_id, map, map_updated, origin, loaded, removed, edits>>
  BY <1>1, <1>2, <1>3 DEF Serialize, tableVars, cacheVars, historyVars
<1>17. PICK safe \in BOOLEAN : safe = TRUE
  OBVIOUS
<1>5. PICK code : code = CodeOf(safe)
  OBVIOUS
<1>18. code = CodeOf(TRUE)
  BY <1>5, <1>17, Zenon
<1>6. /\ Len(code) \in Nat /\ DOMAIN code = 1..Len(code)
      /\ \A k \in 1..Len(code) : \E i \in WhatIsWritten(safe) : code[k] = WrittenAs(i)
  <2>1. /\ HasKinds(code)
        /\ \A k \in 1..Len(code) : \E i \in WhatIsWritten(safe) : code[k] = WrittenAs(i)
    BY <1>2, <1>5, CodeProperties
  <2> QED  BY <2>1 DEF HasKinds
<1>7. ASSUME NEW k \in 1..Len(code)
      PROVE  [kind |-> code[k].kind, offset |-> code[k].offset] \in Encodable /\ code[k].kind \in Known
  <2>1. PICK i \in WhatIsWritten(safe) : code[k] = WrittenAs(i)
    BY <1>6
  <2>2. /\ [kind |-> WrittenAs(i).kind, offset |-> WrittenAs(i).offset] \in Encodable
        /\ WrittenAs(i).kind \in Known
    BY <1>2, <1>3, <1>17, SafeWords
  <2> QED  BY <2>1, <2>2, Zenon
<1>8. PICK w : w = words(code)
  OBVIOUS
<1>9. /\ w \in Seq(Encodable) /\ Len(w) = Len(code)
      /\ \A k \in 1..Len(code) : w[k] = [kind |-> code[k].kind, offset |-> code[k].offset]
  <2>1. w = [k \in 1..Len(code) |-> [kind |-> code[k].kind, offset |-> code[k].offset]]
    BY <1>6, <1>8
  <2>2. w \in [1..Len(code) -> Encodable]
    BY <1>7, <2>1
  <2>3. w \in Seq(Encodable) /\ Len(w) = Len(code)
    BY <1>6, <2>1, <2>2
  <2> QED  BY <2>1, <2>3
<1>10. ASSUME NEW k \in 1..Len(w) PROVE w[k].kind \in Known
  <2>1. k \in 1..Len(code) /\ w[k] = [kind |-> code[k].kind, offset |-> code[k].offset]
    BY <1>9
  <2>2. w[k].kind = code[k].kind
    BY <2>1
  <2> QED  BY <1>7, <2>1, <2>2
<1>11. isa' = Read(w) /\ out' = code
  BY <1>1, <1>4, <1>8, <1>18
<1>12. /\ isa' \in Seq(IsaEntries) /\ Len(isa') = Len(code)
       /\ \A k \in 1..Len(code) : isa'[k].word = w[k]
  BY <1>9, <1>10, <1>11, ReadProperties
<1>13. TableInv'
  BY <1>2, <1>4 DEF TableInv, IsBranch, LookupsAreCurrent
<1>14. LoadedInv'
  BY <1>2, <1>4 DEF LoadedInv, StillLeads
<1>15. CodeOf(TRUE)' = CodeOf(TRUE)
  BY <1>4, CodeStays
<1>16. WritingInv'
  BY <1>4, <1>9, <1>11, <1>12, <1>13, <1>14, <1>15 DEF WritingInv
<1> QED  BY <1>1, <1>4, <1>12, <1>16 DEF MutatorInv, ListsInv, SizeIsKept

\* What is written is the next input.
LEMMA WriteInv == ASSUME MutatorInv, Write PROVE MutatorInv'
<1>1. /\ input' = [code |-> Code(isa), rest |-> "none"] /\ step' = "done" /\ pc' = "ready"
      /\ UNCHANGED <<isa, read>>
  BY DEF Write, Drop
<1>2. Code(isa) \in Seq(Words)
  BY CodeType DEF MutatorInv, ListsInv, Words
<1>3. input'.code = Code(isa) /\ input'.rest = "none"
  BY <1>1
<1> QED  BY <1>1, <1>2, <1>3 DEF MutatorInv, ListsInv, SizeIsKept

\* Every step of the mutator.
LEMMA MNext == ASSUME MutatorInv, [MutatorNext]_allVars PROVE MutatorInv'
<1>1. CASE \E n \in Iterations : Start(n)
  BY <1>1, StartInv
<1>2. CASE InstDelete \/ Operand \/ AppendInst \/ Opcode
  BY <1>2, MutationInv
<1>3. CASE \E n \in 0..MaxBranches : StartBranches(n)
  BY <1>3, StartBranchesInv
<1>4. CASE \E target, i \in Drawn, kind \in Branches : AddBranch(target, i, kind)
  BY <1>4, AddBranchInv
<1>5. CASE EndBranches
  BY <1>5, EndBranchesInv
<1>6. CASE Write
  BY <1>6, WriteInv
<1>7. CASE UNCHANGED allVars
  <2>1. /\ UNCHANGED <<table, cofi_table, cur_id, map, map_updated>>
        /\ UNCHANGED <<pc, out, origin, loaded, removed, edits>>
        /\ UNCHANGED <<input, isa, step, read>>
    BY <1>7 DEF allVars, tableAll, mutatorVars, tableVars, cacheVars, historyVars
  <2>2. \A safe : CodeOf(safe)' = CodeOf(safe)
    BY <2>1, CodeStays
  <2>3. ListsInv'
    BY <2>1 DEF MutatorInv, ListsInv, SizeIsKept, Bytes
  <2>4. LoadedInv <=> LoadedInv'
    BY <2>1 DEF LoadedInv, StillLeads
  <2>5. TableInv <=> TableInv'
    BY <2>1 DEF TableInv, IsBranch, LookupsAreCurrent
  <2>6. DInv => DInv'
    <3>1. vars' = vars
      BY <2>1 DEF vars, tableVars, cacheVars, historyVars
    <3> QED  BY <3>1, DNext
  <2>7. BranchingInv => BranchingInv'
    BY <2>1, <2>4, <2>6 DEF BranchingInv
  <2>8. WritingInv => WritingInv'
    <3>1. CodeOf(TRUE)' = CodeOf(TRUE)
      BY <2>2
    <3> QED  BY <2>1, <2>4, <2>5, <3>1 DEF WritingInv
  <2> QED  BY <2>1, <2>3, <2>7, <2>8 DEF MutatorInv
<1> QED  BY <1>1, <1>2, <1>3, <1>4, <1>5, <1>6, <1>7 DEF MutatorNext

\* A branch that is in safe code has the whole distance to its target, in a program
\* that is no longer than a distance of a compressed branch can be.
LEMMA WrittenWhole ==
    ASSUME TableInv, SizeOf(table) <= HalfI16,
           NEW safe \in BOOLEAN, safe, NEW p \in WhatIsWritten(safe), IsBranch(p),
           NEW q \in 1..Len(table), cofi_table[table[p].id] = ToId(table[q].id)
    PROVE  WrittenAs(p).offset = Addresses(table)[q] - Addresses(table)[p]
<1> DEFINE a == Addresses(table)[p]
           b == Addresses(table)[q]
           k == table[p].kind
<1>1. /\ table \in Seq(Entries) /\ OneEach(table) /\ p \in 1..Len(table) /\ InReach(p)
      /\ HasKinds(table) /\ k \in Branches
  BY TableHasKinds DEF TableInv, WhatIsWritten, IsWritten, IsBranch
<1>2. Distance(p) = b - a
  <2>1. IndexOf(table, table[q].id) = q
    BY <1>1, FoundById
  <2>2. cofi_table[table[p].id][1] = "id" /\ cofi_table[table[p].id][2] = table[q].id
    BY DEF ToId
  <2> HIDE DEF k
  <2> QED  BY <2>1, <2>2 DEF Distance
<1>3. PICK m \in Nat : a = BaseAddress + m /\ m < SizeOf(table)
  BY <1>1, WithinSize
<1>4. PICK n \in Nat : b = BaseAddress + n /\ n < SizeOf(table)
  BY <1>1, WithinSize
<1>5. SizeOf(table) \in Nat /\ BaseAddress \in Nat /\ HalfI16 \in Nat
  BY <1>1, WithinSize, DisasAssumption
<1> HIDE DEF a, b
<1>6. b - a \in Int /\ -HalfI16 <= b - a /\ b - a < HalfI16
  BY <1>3, <1>4, <1>5
<1>7. Wrapped(b - a, HalfI16) = b - a
  BY <1>5, <1>6, FittingIsKept
<1>8. Given(p) = b - a
  BY <1>2, <1>7 DEF Given
<1>9. Wrapped(Given(p), Reach[k]) = Given(p)
  BY <1>1, OffsetFits DEF InReach
<1> QED  BY <1>1, <1>8, <1>9 DEF WrittenAs, IsBranch, Field, a, b, k

\* So branches of the input lead to what they led to.
LEMMA LoadedBranchIsKept ==
    ASSUME WritingInv, isa \in Seq(IsaEntries), SizeOf(table) <= HalfI16,
           NEW i \in 1..Len(loaded), i \in WrittenIds, loaded[i].kind \in Branches,
           NEW j \in LeadsTo(loaded, i), j \in WrittenIds, WrittenBetween(i, j)
    PROVE  Position(j) \in LeadsTo(Code(isa), Position(i))
<1>1. /\ TableInv /\ LoadedInv /\ table \in Seq(Entries) /\ OneEach(table)
      /\ DOMAIN table = 1..Len(table)
  BY DEF WritingInv, TableInv
<1>2. PICK safe \in BOOLEAN : safe = TRUE
  OBVIOUS
<1>3. out = CodeOf(safe)
  BY <1>2, Zenon DEF WritingInv
<1> DEFINE S == WhatIsWritten(safe)
           A == Addresses(table)
           B == Addresses(out)
<1>4. /\ HasKinds(out) /\ WrittenIds = {table[m].id : m \in S}
      /\ \A m \in S : /\ Place(S, m) \in 1..Len(out) /\ out[Place(S, m)] = WrittenAs(m)
                      /\ Position(table[m].id) = Place(S, m)
  BY <1>1, <1>3, CodeProperties DEF WrittenIds, Position
<1>5. S \subseteq 1..Len(table)
  BY DEF WhatIsWritten
<1>6. ASSUME NEW m \in 1..Len(table), table[m].id \in WrittenIds PROVE m \in S
  <2>1. PICK n \in S : table[n].id = table[m].id
    BY <1>4, <1>6
  <2> QED  BY <1>1, <1>5, <2>1 DEF OneEach
<1>7. PICK p \in S : table[p].id = i
  BY <1>4
<1>8. PICK q \in S : table[q].id = j
  BY <1>4
<1>9. IndexOf(table, i) = p /\ IndexOf(table, j) = q
  BY <1>1, <1>5, <1>7, <1>8, FoundById
<1>10. ASSUME NEW k \in Between(p, q) PROVE k \in S
  <2>1. table[k].id \in WrittenIds
    BY <1>9, <1>10 DEF WrittenBetween
  <2>2. k \in 1..Len(table)
    BY <1>5 DEF Between
  <2> QED  BY <1>6, <2>1, <2>2
<1>11. IsBranch(p) /\ cofi_table[table[p].id] = ToId(table[q].id)
  BY <1>1, <1>5, <1>7, <1>8 DEF LoadedInv, StillLeads, IsBranch
<1>12. WrittenAs(p).offset = A[q] - A[p]
  BY <1>1, <1>2, <1>5, <1>11, WrittenWhole
<1>13. B[Place(S, p)] + (A[q] - A[p]) = B[Place(S, q)]
  <2>1. \A k \in Between(p, q) : k \in WhatIsWritten(safe)
    BY <1>10
  <2> QED  BY <1>1, <1>3, <1>7, <1>8, <2>1, WayBetween
<1> DEFINE x == Position(i)
           y == Position(j)
<1>14. /\ x \in 1..Len(out) /\ y \in 1..Len(out) /\ x = Place(S, p) /\ y = Place(S, q)
       /\ out[x].offset = A[q] - A[p]
  BY <1>4, <1>7, <1>8, <1>12
<1> HIDE DEF S, A, B, x, y
<1>15. B[y] = B[x] + out[x].offset
  BY <1>13, <1>14
<1> DEFINE c == Code(isa)
<1>16. /\ HasKinds(c) /\ Len(c) = Len(out) /\ Len(out) \in Nat /\ DOMAIN c = 1..Len(out)
       /\ \A k \in 1..Len(out) : c[k] = [kind |-> out[k].kind, offset |-> out[k].offset]
  <2>1. Len(c) = Len(isa) /\ HasKinds(c) /\ \A k \in 1..Len(isa) : c[k] = isa[k].word
    BY CodeType
  <2> HIDE DEF c
  <2> QED  BY <2>1 DEF WritingInv, HasKinds
<1> HIDE DEF c
<1>17. ASSUME NEW k \in 1..Len(out) PROVE c[k].kind = out[k].kind /\ c[k].offset = out[k].offset
  <2>1. c[k] = [kind |-> out[k].kind, offset |-> out[k].offset]
    BY <1>16
  <2> QED  BY <2>1
<1>18. ASSUME NEW k \in 1..Len(out) PROVE Addresses(c)[k] = B[k]
  <2>1. k \in 1..(Len(c) + 1) /\ \A l \in 1..Len(c) : Size[c[l].kind] = Size[out[l].kind]
    BY <1>16, <1>17
  <2>2. HasKinds(c) /\ HasKinds(out) /\ Len(c) = Len(out)
    BY <1>4, <1>16, Zenon
  <2>3. Addresses(c)[k] = Addresses(out)[k]
    BY <2>1, <2>2, SameAddresses
  <2> QED  BY <2>3, Zenon DEF B
<1>19. y \in DOMAIN c /\ Addresses(c)[y] = Addresses(c)[x] + c[x].offset
  BY <1>14, <1>15, <1>16, <1>17, <1>18
<1>20. y \in LeadsTo(c, x)
  BY <1>19, Zenon DEF LeadsTo
<1> QED  BY <1>20 DEF c, x, y

\* What is written is what the invariant says.
LEMMA InputIsKept ==
    ASSUME MutatorInv, SizeOf(table) <= HalfI16
    PROVE  BranchesOfTheInputAreKept
<1> SUFFICES ASSUME step = "writing"
             PROVE  /\ Len(isa) = Len(out)
                    /\ \A i \in DOMAIN loaded \cap WrittenIds :
                           loaded[i].kind \in Branches =>
                               \A j \in LeadsTo(loaded, i) \cap WrittenIds :
                                   WrittenBetween(i, j) =>
                                       Position(j) \in LeadsTo(Code(isa), Position(i))
  BY Zenon DEF BranchesOfTheInputAreKept
<1>1. WritingInv /\ isa \in Seq(IsaEntries) /\ loaded \in Seq(Encodable)
  BY DEF MutatorInv, ListsInv, WritingInv, LoadedInv
<1>2. Len(isa) = Len(out) /\ DOMAIN loaded = 1..Len(loaded)
  BY <1>1 DEF WritingInv
<1> QED  BY <1>1, <1>2, LoadedBranchIsKept

-----------------------------------------------------------------------------
(* Theorems about ISAScheduledMutator. *)

\* The invariant of the mutator holds whatever is mutated, and however often.
THEOREM MutatorInvariance == MutatorSpec => []MutatorInv
<1> QED  BY MInit, MNext, PTL DEF MutatorSpec

\* Mutations stack up to no more than the size the state allows (scheduled_mutate,
\* ISAAppendInst, ISAOpcode and the others), whatever the sizes of the instructions.
THEOREM SizeAlwaysKept == MutatorSpec => []SizeIsKept
<1>1. MutatorInv => SizeIsKept
  BY DEF MutatorInv, ListsInv
<1> QED  BY <1>1, MutatorInvariance, PTL

\* The mutator panics on half an instruction of a seed and on nothing it has written
\* itself, and the branch mutator never does (get_id_by_index, add_branch_instruction_by_index).
THEOREM PanicsAlwaysOnSeeds == MutatorSpec => []PanicsOnlyOnSeeds
<1>1. MutatorInv => PanicsOnlyOnSeeds
  BY DEF MutatorInv, ListsInv, PanicsOnlyOnSeeds
<1> QED  BY <1>1, MutatorInvariance, PTL

\* The branches of a testcase lead to the same instructions of it after others were added
\* before, behind and between them (add_branches, serialize_safe), as long as no two
\* entries of the table are further apart than an i16 can say: a longer distance is cut
\* (serialize_cofi), and may be written as another that fits.
THEOREM InputBranchesAlwaysKept ==
    MutatorSpec => [](SizeOf(table) <= HalfI16 => BranchesOfTheInputAreKept)
<1> QED  BY InputIsKept, MutatorInvariance, PTL

-----------------------------------------------------------------------------
(* Reading bytes. *)

\* Induction from the end of a string of bytes.
LEMMA DownInduction ==
    ASSUME NEW n \in Nat, NEW S,
           \A k \in 1..(n + 3) : k >= n => k \in S,
           \A k \in 1..(n - 1) : (\A j \in (k + 1)..(n + 3) : j \in S) => k \in S
    PROVE  1..(n + 3) \subseteq S
<1> DEFINE T == {m \in Nat : \A k \in 1..(n + 3) : k + m >= n => k \in S}
<1>1. 0 \in T
  OBVIOUS
<1>2. ASSUME NEW m \in Nat, m \in T PROVE m + 1 \in T
  <2> SUFFICES ASSUME NEW k \in 1..(n + 3), k + (m + 1) >= n PROVE k \in S
    OBVIOUS
  <2>1. \A j \in (k + 1)..(n + 3) : j \in S
    BY <1>2
  <2> QED  BY <2>1
<1>3. n \in T
  <2> HIDE DEF T
  <2> QED  BY <1>1, <1>2, SetInduction
<1> QED  BY <1>3

AfterThis(f, n, got, stride, k) == IF k >= n THEN <<>> ELSE got[k] \o f[k + stride[k]]
Steps(stride, n) == \A k \in 1..(n - 1) : stride[k] \in {2, 4}
Reads(got, stride, n, S) == Steps(stride, n) /\ \A k \in 1..(n - 1) : got[k] \in Seq(S)
AreRead(f, n, got, stride) == f = [k \in 1..(n + 3) |-> AfterThis(f, n, got, stride, k)]

\* The equation of what is read has a solution, by induction from the end.
LEMMA ReadExists ==
    ASSUME NEW n \in Nat, NEW got, NEW stride, \A k \in 1..(n - 1) : stride[k] \in {2, 4}
    PROVE  \E f : AreRead(f, n, got, stride)
<1> DEFINE Eq(f, k) == AfterThis(f, n, got, stride, k)
           Upto(f, m) == f = [k \in 1..(n + 3) |-> IF k + m >= n THEN Eq(f, k) ELSE <<>>]
           T == {m \in Nat : \E f : Upto(f, m)}
<1>1. 0 \in T
  <2> DEFINE f == [k \in 1..(n + 3) |-> <<>>]
  <2>1. \A k \in 1..(n + 3) : f[k] = IF k + 0 >= n THEN Eq(f, k) ELSE <<>>
    BY DEF AfterThis
  <2>2. f = [k \in 1..(n + 3) |-> IF k + 0 >= n THEN Eq(f, k) ELSE <<>>]
    BY <2>1, Zenon
  <2> QED  BY <2>2
<1>2. ASSUME NEW m \in Nat, m \in T PROVE m + 1 \in T
  <2>1. PICK f : Upto(f, m)
    BY <1>2
  <2> DEFINE g == [k \in 1..(n + 3) |-> IF k + m + 1 = n THEN Eq(f, k) ELSE f[k]]
  <2>2. ASSUME NEW k \in 1..(n + 3)
        PROVE  g[k] = IF k + (m + 1) >= n THEN Eq(g, k) ELSE <<>>
    <3>1. CASE k + (m + 1) >= n
      <4>1. Eq(g, k) = Eq(f, k)
        <5>1. CASE k >= n
          BY <5>1 DEF AfterThis
        <5>2. CASE k < n
          <6>1. stride[k] \in {2, 4} /\ k + stride[k] \in 1..(n + 3)
            BY <5>2
          <6>2. g[k + stride[k]] = f[k + stride[k]]
            BY <6>1, <3>1
          <6> QED  BY <6>2 DEF AfterThis
        <5> QED  BY <5>1, <5>2
      <4>2. g[k] = Eq(f, k)
        <5>1. CASE k + m + 1 = n
          BY <5>1
        <5>2. CASE k + m + 1 # n
          <6>1. k + m >= n
            BY <3>1, <5>2
          <6>2. f[k] = Eq(f, k)
            BY <2>1, <6>1
          <6> QED  BY <5>2, <6>2
        <5> QED  BY <5>1, <5>2
      <4> QED  BY <3>1, <4>1, <4>2
    <3>2. CASE ~(k + (m + 1) >= n)
      BY <2>1, <3>2
    <3> QED  BY <3>1, <3>2
  <2>3. Upto(g, m + 1)
    BY <2>2, Zenon
  <2> HIDE DEF Upto
  <2> QED  BY <2>3
<1>3. n \in T
  <2> HIDE DEF T
  <2> QED  BY <1>1, <1>2, SetInduction
<1>4. PICK f : Upto(f, n)
  BY <1>3
<1>5. f = [k \in 1..(n + 3) |-> Eq(f, k)]
  BY <1>4
<1> QED  BY <1>5 DEF AreRead

\* What is read from a place on is what is read there, and from where that ends.
LEMMA ReadFromDef ==
    ASSUME NEW n \in Nat, NEW got, NEW stride, Steps(stride, n)
    PROVE  LET f == ReadFrom(n, got, stride)
           IN \A k \in 1..(n + 3) : f[k] = AfterThis(f, n, got, stride, k)
<1>1. ReadFrom(n, got, stride) = CHOOSE f : AreRead(f, n, got, stride)
  BY Zenon DEF ReadFrom, AreRead, AfterThis
<1>2. \A k \in 1..(n - 1) : stride[k] \in {2, 4}
  BY Zenon DEF Steps
<1>3. AreRead(ReadFrom(n, got, stride), n, got, stride)
  BY <1>1, <1>2, ReadExists, Zenon
<1> QED  BY <1>3, Zenon DEF AreRead

\* Reading what has a type gives a sequence of that type.
LEMMA ReadFromType ==
    ASSUME NEW n \in Nat, NEW got, NEW stride, NEW S, Reads(got, stride, n, S)
    PROVE  \A k \in 1..(n + 3) : ReadFrom(n, got, stride)[k] \in Seq(S)
<1> DEFINE f == ReadFrom(n, got, stride)
           T == {k \in 1..(n + 3) : f[k] \in Seq(S)}
<1>1. \A k \in 1..(n + 3) : f[k] = AfterThis(f, n, got, stride, k)
  BY ReadFromDef, Zenon DEF Reads
<1> HIDE DEF f
<1>2. \A k \in 1..(n + 3) : k >= n => k \in T
  <2> SUFFICES ASSUME NEW k \in 1..(n + 3), k >= n PROVE f[k] \in Seq(S)
    OBVIOUS
  <2>1. f[k] = <<>>
    BY <1>1 DEF AfterThis
  <2> QED  BY <2>1, EmptySeq
<1>3. ASSUME NEW k \in 1..(n - 1), \A j \in (k + 1)..(n + 3) : j \in T PROVE k \in T
  <2>1. k + stride[k] \in (k + 1)..(n + 3)
    BY DEF Reads, Steps
  <2>2. f[k + stride[k]] \in Seq(S)
    BY <1>3, <2>1
  <2>3. k \in 1..(n + 3) /\ ~(k >= n)
    OBVIOUS
  <2>4. f[k] = got[k] \o f[k + stride[k]]
    BY <1>1, <2>3, Zenon DEF AfterThis
  <2>5. got[k] \in Seq(S)
    BY Zenon DEF Reads
  <2> HIDE DEF T
  <2>6. f[k] \in Seq(S)
    <3>1. \A s, t \in Seq(S) : s \o t \in Seq(S)
      OBVIOUS
    <3> QED  BY <2>2, <2>4, <2>5, <3>1, Zenon
  <2> QED  BY <2>3, <2>6 DEF T
<1>4. 1..(n + 3) \subseteq T
  <2> HIDE DEF T
  <2> QED  BY <1>2, <1>3, DownInduction
<1> QED  BY <1>4 DEF f

-----------------------------------------------------------------------------
(* A program as bytes. *)

\* The bytes up to the end of the i-th instruction.
BytesUpto(f, q, i) == IF i = 1 THEN q[i] ELSE f[i - 1] \o q[i]

\* Where each instruction of a program begins in its bytes.
AreStarts(at, q, bytes) ==
    /\ at \in [1..(Len(q) + 1) -> Nat \ {0}]
    /\ at[1] = 1 /\ at[Len(q) + 1] = Len(bytes) + 1
    /\ \A i \in 1..Len(q) :
          /\ at[i + 1] = at[i] + Len(q[i]) /\ at[i + 1] <= Len(bytes) + 1
          /\ \A j \in 1..Len(q[i]) : bytes[at[i] + j - 1] = q[i][j]

\* What is put together from the first i instructions, for each i.
ArePrefixes(f, q, n, B) ==
    /\ \A i \in 0..n : f[i] \in Seq(B)
    /\ \A i \in 1..n : q[i] \in Seq(B) /\ f[i] = f[i - 1] \o q[i]
Begins(s, t) == Len(s) <= Len(t) /\ \A j \in 1..Len(s) : t[j] = s[j]

\* The equation of FlattenSeq has a solution.
LEMMA FlattenExists ==
    ASSUME NEW q
    PROVE  \A n \in Nat : \E f : f = [i \in 1..n |-> BytesUpto(f, q, i)]
<1> DEFINE Sol(f, n) == f = [i \in 1..n |-> BytesUpto(f, q, i)]
           T == {n \in Nat : \E f : Sol(f, n)}
<1>1. 0 \in T
  <2>1. Sol([i \in 1..0 |-> <<>>], 0)
    OBVIOUS
  <2> HIDE DEF Sol
  <2> QED  BY <2>1
<1>2. ASSUME NEW n \in Nat, n \in T PROVE n + 1 \in T
  <2>1. PICK f : Sol(f, n)
    BY <1>2
  <2> DEFINE g == [i \in 1..(n + 1) |-> IF i = n + 1 THEN BytesUpto(f, q, i) ELSE f[i]]
  <2>2. ASSUME NEW i \in 1..(n + 1) PROVE g[i] = BytesUpto(g, q, i)
    <3>1. BytesUpto(g, q, i) = BytesUpto(f, q, i)
      <4>1. i # 1 => g[i - 1] = f[i - 1]
        OBVIOUS
      <4> HIDE DEF g
      <4> QED  BY <4>1 DEF BytesUpto
    <3>2. i # n + 1 => f[i] = BytesUpto(f, q, i)
      BY <2>1
    <3>3. g[i] = IF i = n + 1 THEN BytesUpto(f, q, i) ELSE f[i]
      OBVIOUS
    <3> HIDE DEF g
    <3> QED  BY <3>1, <3>2, <3>3
  <2>3. Sol(g, n + 1)
    BY <2>2, Zenon
  <2> HIDE DEF Sol
  <2> QED  BY <2>3
<1>3. Nat \subseteq T
  <2> HIDE DEF T
  <2> QED  BY <1>1, <1>2, SetInduction
<1> QED  BY <1>3

\* The bytes of a program are those of its instructions, one behind the other.
LEMMA FlattenDef ==
    ASSUME NEW B, NEW q \in Seq(Seq(B))
    PROVE  \E f \in [0..Len(q) -> Seq(B)] :
               /\ f[0] = <<>> /\ FlattenSeq(q) = f[Len(q)]
               /\ \A i \in 1..Len(q) : f[i] = f[i - 1] \o q[i]
<1> DEFINE n == Len(q)
           Sol(f) == f = [i \in 1..n |-> BytesUpto(f, q, i)]
           g == CHOOSE f : Sol(f)
           h == [i \in 0..n |-> IF i = 0 THEN <<>> ELSE g[i]]
<1>1. n \in Nat
  OBVIOUS
<1>2. Sol(g)
  <2>1. \E f : Sol(f)
    BY <1>1, FlattenExists
  <2> HIDE DEF Sol
  <2> QED  BY <2>1, Zenon
<1>3. FlattenSeq(q) = IF n = 0 THEN q ELSE g[n]
  BY Zenon DEF FlattenSeq, BytesUpto
<1> HIDE DEF g
<1>4. \A i \in 1..n : g[i] = BytesUpto(g, q, i)
  BY <1>2
<1>5. FlattenSeq(q) = h[n]
  BY <1>1, <1>3
<1>6. h[0] = <<>> /\ \A i \in 1..n : h[i] = g[i]
  BY <1>1
<1> HIDE DEF h
<1>7. ASSUME NEW i \in 1..n PROVE h[i] = h[i - 1] \o q[i]
  <2>1. CASE i = 1
    <3>1. h[i] = q[i] /\ h[i - 1] = <<>> /\ q[i] \in Seq(B)
      BY <1>4, <1>6, <2>1 DEF BytesUpto
    <3> QED  BY <3>1, ConcatEmptySeq
  <2>2. CASE i # 1
    <3>1. i - 1 \in 1..n
      BY <1>1, <2>2
    <3>2. g[i] = g[i - 1] \o q[i]
      BY <1>4, <2>2 DEF BytesUpto
    <3> QED  BY <1>6, <3>1, <3>2
  <2> QED  BY <2>1, <2>2
<1>8. \A i \in 0..n : h[i] \in Seq(B)
  <2> DEFINE T == {i \in Nat : i <= n => h[i] \in Seq(B)}
  <2>1. 0 \in T
    BY <1>6, EmptySeq
  <2>2. ASSUME NEW i \in Nat, i \in T PROVE i + 1 \in T
    <3>1. SUFFICES ASSUME i + 1 <= n PROVE h[i + 1] \in Seq(B)
      OBVIOUS
    <3>2. i + 1 \in 1..n /\ (i + 1) - 1 = i
      BY <1>1, <3>1
    <3>3. h[i + 1] = h[i] \o q[i + 1]
      BY <1>7, <3>2
    <3>4. h[i] \in Seq(B) /\ q[i + 1] \in Seq(B)
      BY <2>2, <3>2
    <3>5. h[i] \o q[i + 1] \in Seq(B)
      BY <3>4, ConcatProperties
    <3> QED  BY <3>3, <3>5
  <2>3. Nat \subseteq T
    <3> HIDE DEF T
    <3> QED  BY <2>1, <2>2, SetInduction
  <2> SUFFICES ASSUME NEW i \in 0..n PROVE h[i] \in Seq(B)
    OBVIOUS
  <2>4. i \in T /\ i <= n
    BY <1>1, <2>3
  <2> QED  BY <2>4
<1>9. h \in [0..n -> Seq(B)]
  BY <1>8 DEF h
<1> QED  BY <1>5, <1>6, <1>7, <1>9

\* The bytes of a program up to any instruction are the first of all its bytes.
LEMMA PrefixKept ==
    ASSUME NEW B, NEW n \in Nat, NEW q, NEW f,
           ArePrefixes(f, q, n, B)
    PROVE  \A i \in 0..n : Begins(f[i], f[n])
<1> USE DEF ArePrefixes, Begins
<1> DEFINE Kept(i) == Begins(f[i], f[n])
           T == {d \in Nat : d <= n => Kept(n - d)}
<1>1. ASSUME NEW i \in 1..n, Kept(i) PROVE Kept(i - 1)
  <2> DEFINE s == f[i - 1]
             t == q[i]
             whole == f[n]
  <2>1. i - 1 \in 0..n /\ n \in 0..n
    OBVIOUS
  <2>2. s \in Seq(B) /\ t \in Seq(B) /\ whole \in Seq(B)
    BY <2>1, Zenon
  <2>3. f[i] = s \o t
    BY Zenon
  <2>4. Len(s \o t) <= Len(whole) /\ \A j \in 1..Len(s \o t) : whole[j] = (s \o t)[j]
    BY <1>1, <2>3, Zenon
  <2> HIDE DEF s, t, whole
  <2>5. /\ Len(s \o t) = Len(s) + Len(t)
        /\ \A j \in 1..Len(s) : (s \o t)[j] = s[j]
    BY <2>2
  <2>6. Len(s) \in Nat /\ Len(t) \in Nat /\ Len(whole) \in Nat
    BY <2>2
  <2>7. Len(s) <= Len(whole) /\ \A j \in 1..Len(s) : whole[j] = s[j]
    BY <2>4, <2>5, <2>6
  <2> QED  BY <2>7, Zenon DEF s, whole
<1>2. Kept(n)
  <2>1. f[n] \in Seq(B)
    OBVIOUS
  <2>2. Len(f[n]) \in Nat
    BY <2>1
  <2> QED  BY <2>2
<1> HIDE DEF Kept
<1>3. 0 \in T
  BY <1>2
<1>4. ASSUME NEW d \in Nat, d \in T PROVE d + 1 \in T
  <2> SUFFICES ASSUME d + 1 <= n PROVE Kept(n - (d + 1))
    OBVIOUS
  <2>1. n - d \in 1..n /\ n - (d + 1) = (n - d) - 1 /\ d <= n
    OBVIOUS
  <2>2. Kept(n - d)
    BY <1>4, <2>1
  <2>3. Kept((n - d) - 1)
    BY <1>1, <2>1, <2>2, Zenon
  <2> QED  BY <2>1, <2>3, Zenon
<1>5. Nat \subseteq T
  <2> HIDE DEF T
  <2> QED  BY <1>3, <1>4, SetInduction
<1>6. ASSUME NEW i \in 0..n PROVE Kept(i)
  <2>1. n - i \in Nat /\ n - i <= n /\ n - (n - i) = i
    OBVIOUS
  <2>2. Kept(n - (n - i))
    BY <1>5, <2>1, Zenon
  <2> QED  BY <2>1, <2>2, Zenon
<1> QED  BY <1>6, Zenon DEF Kept

\* So each of them has a place.
LEMMA StartsExist ==
    ASSUME NEW B, NEW q \in Seq(Seq(B))
    PROVE  FlattenSeq(q) \in Seq(B) /\ \E at : AreStarts(at, q, FlattenSeq(q))
<1>1. PICK f \in [0..Len(q) -> Seq(B)] :
          /\ f[0] = <<>> /\ FlattenSeq(q) = f[Len(q)]
          /\ \A i \in 1..Len(q) : f[i] = f[i - 1] \o q[i]
  BY FlattenDef
<1> DEFINE n == Len(q)
           bytes == FlattenSeq(q)
           at == [i \in 1..(n + 1) |-> Len(f[i - 1]) + 1]
<1>2. n \in Nat /\ \A i \in 1..n : q[i] \in Seq(B)
  OBVIOUS
<1>3. \A i \in 0..n : f[i] \in Seq(B)
  BY <1>1, Zenon
<1>4. \A i \in 1..n : f[i] = f[i - 1] \o q[i]
  BY <1>1, Zenon
<1>5. bytes = f[n] /\ f[0] = <<>>
  BY <1>1, Zenon
<1> HIDE DEF n, bytes
<1>6. n \in 0..n /\ bytes \in Seq(B)
  BY <1>2, <1>3, <1>5
<1>7. \A i \in 0..n : Len(f[i]) \in Nat
  BY <1>3
<1>8. \A i \in 0..n : Len(f[i]) <= Len(bytes) /\ \A j \in 1..Len(f[i]) : bytes[j] = f[i][j]
  <2>1. ArePrefixes(f, q, n, B)
    BY <1>2, <1>3, <1>4, Zenon DEF ArePrefixes
  <2>2. n \in Nat
    BY <1>2
  <2>3. \A i \in 0..n : Begins(f[i], f[n])
    BY <2>1, <2>2, PrefixKept, Zenon
  <2> QED  BY <1>5, <2>3, Zenon DEF Begins
<1>9. \A i \in 1..(n + 1) : i - 1 \in 0..n /\ at[i] = Len(f[i - 1]) + 1
  BY <1>2
<1>10. at \in [1..(n + 1) -> Nat \ {0}]
  BY <1>7, <1>9
<1> HIDE DEF at
<1>11. at[1] = 1 /\ at[n + 1] = Len(bytes) + 1
  <2>1. 1 \in 1..(n + 1) /\ n + 1 \in 1..(n + 1) /\ 1 - 1 = 0 /\ (n + 1) - 1 = n
    BY <1>2
  <2>2. at[1] = Len(f[0]) + 1 /\ at[n + 1] = Len(f[n]) + 1
    BY <1>9, <2>1
  <2>3. Len(f[0]) = 0
    BY <1>5
  <2> QED  BY <1>5, <2>2, <2>3
<1>12. ASSUME NEW i \in 1..n
       PROVE  /\ at[i + 1] = at[i] + Len(q[i]) /\ at[i + 1] <= Len(bytes) + 1
              /\ \A j \in 1..Len(q[i]) : bytes[at[i] + j - 1] = q[i][j]
  <2> DEFINE s == f[i - 1]
             t == q[i]
  <2>1. /\ i \in 0..n /\ i - 1 \in 0..n /\ i \in 1..(n + 1)
        /\ i + 1 \in 1..(n + 1) /\ (i + 1) - 1 = i
    BY <1>2
  <2>2. s \in Seq(B) /\ t \in Seq(B)
    BY <1>2, <1>3, <2>1, Zenon
  <2>3. f[i] = s \o t
    BY <1>4, Zenon
  <2>4. Len(s \o t) <= Len(bytes) /\ \A j \in 1..Len(s \o t) : bytes[j] = (s \o t)[j]
    BY <1>8, <2>1, <2>3, Zenon
  <2>5. at[i] = Len(s) + 1
    BY <1>9, <2>1, Zenon
  <2>6. at[i + 1] = Len(s \o t) + 1
    BY <1>9, <2>1, <2>3, Zenon
  <2> HIDE DEF s, t
  <2>7. Len(s) \in Nat /\ Len(t) \in Nat /\ Len(bytes) \in Nat /\ Len(s \o t) = Len(s) + Len(t)
    BY <1>6, <2>2
  <2>8. \A j \in 1..Len(t) : (s \o t)[Len(s) + j] = t[j]
    BY <2>2, <2>7
  <2>9. ASSUME NEW j \in 1..Len(t) PROVE bytes[at[i] + j - 1] = t[j]
    <3>1. at[i] + j - 1 = Len(s) + j /\ Len(s) + j \in 1..Len(s \o t)
      BY <2>5, <2>7
    <3> QED  BY <2>4, <2>8, <3>1
  <2>10. at[i + 1] = at[i] + Len(t) /\ at[i + 1] <= Len(bytes) + 1
    BY <2>4, <2>5, <2>6, <2>7
  <2> QED  BY <2>9, <2>10, Zenon DEF t
<1>13. AreStarts(at, q, bytes)
  BY <1>10, <1>11, <1>12, Zenon DEF AreStarts, n
<1>14. bytes = FlattenSeq(q)
  BY Zenon DEF bytes
<1> QED  BY <1>6, <1>13, <1>14, Zenon

-----------------------------------------------------------------------------
(* A program read from its bytes. *)

\* Where the instructions of a program lie in n bytes.
Lies(q, at, n) ==
    /\ at \in [1..(Len(q) + 1) -> Nat \ {0}]
    /\ at[1] = 1 /\ at[Len(q) + 1] = n + 1
    /\ \A i \in 1..Len(q) :
          Len(q[i]) \in {2, 4} /\ at[i + 1] = at[i] + Len(q[i]) /\ at[i + 1] <= n + 1
Joined(whole, before, rest) == whole = before \o rest

\* The first m instructions are read where they lie.
AreReadThere(q, at, got, stride, m) ==
    \A i \in 1..m : got[at[i]] = <<q[i]>> /\ stride[at[i]] = Len(q[i])

Associates(r, t, u) == (r \o t) \o u = r \o (t \o u)
LEMMA Associative == \A S : \A r, t, u \in Seq(S) : Associates(r, t, u)
BY ConcatAssociative, SMT DEF Associates

LEMMA StartsBetween ==
    ASSUME NEW n \in Nat, NEW a \in Nat \ {0}, NEW b \in Nat, NEW l \in {2, 4},
           b = a + l, b <= n + 1
    PROVE  a \in 1..(n - 1) /\ a \in 1..(n + 3) /\ b \in 1..(n + 3) /\ ~(a >= n)
OBVIOUS

\* Each instruction lies among the bytes.
LEMMA LiesThere ==
    ASSUME NEW q, NEW n \in Nat, NEW at, Lies(q, at, n), Len(q) \in Nat, NEW i \in 1..Len(q)
    PROVE  /\ at[i] \in 1..(n - 1) /\ at[i] \in 1..(n + 3) /\ at[i + 1] \in 1..(n + 3)
           /\ ~(at[i] >= n)
<1> DEFINE l == Len(q[i])
<1>1. i \in 1..(Len(q) + 1) /\ i + 1 \in 1..(Len(q) + 1)
  OBVIOUS
<1>2. at[i] \in Nat \ {0} /\ at[i + 1] \in Nat \ {0}
  BY <1>1, Zenon DEF Lies
<1>3. l \in {2, 4} /\ at[i + 1] = at[i] + l /\ at[i + 1] <= n + 1
  BY Zenon DEF Lies
<1> HIDE DEF l
<1> QED  BY <1>2, <1>3, StartsBetween

\* As long as each instruction is read where it lies, the program is what has been read.
LEMMA ReadsProgram ==
    ASSUME NEW S, NEW q \in Seq(S), NEW n \in Nat, NEW at, NEW got, NEW stride,
           Lies(q, at, n), Reads(got, stride, n, S), NEW m \in 1..(Len(q) + 1),
           AreReadThere(q, at, got, stride, m - 1)
    PROVE  LET f == ReadFrom(n, got, stride)
           IN Joined(f[1], SubSeq(q, 1, m - 1), f[at[m]])
<1> DEFINE f == ReadFrom(n, got, stride)
           Done(i) == Joined(f[1], SubSeq(q, 1, i - 1), f[at[i]])
           T == {d \in Nat : d + 1 <= m => Done(d + 1)}
<1>1. \A k \in 1..(n + 3) : f[k] = AfterThis(f, n, got, stride, k)
  BY ReadFromDef, Zenon DEF Reads
<1>2. \A k \in 1..(n + 3) : f[k] \in Seq(S)
  BY ReadFromType, Zenon DEF Reads
<1> USE DEF Joined
<1> HIDE DEF f
<1>3. Len(q) \in Nat /\ m \in Nat
  OBVIOUS
<1>4. \A i \in 1..Len(q) : at[i] \in 1..(n + 3) /\ at[i + 1] \in 1..(n + 3) /\ ~(at[i] >= n)
  BY <1>3, LiesThere, Zenon
<1>6. Done(1)
  <2>1. at[1] = 1 /\ 1 \in 1..(n + 3)
    BY DEF Lies
  <2>2. SubSeq(q, 1, 1 - 1) = <<>>
    BY SubSeqEmpty
  <2>3. f[1] \in Seq(S)
    BY <1>2, <2>1, Zenon
  <2>4. <<>> \o f[1] = f[1]
    BY <2>3, ConcatEmptySeq, Zenon
  <2> QED  BY <2>1, <2>2, <2>4, Zenon
<1>7. ASSUME NEW i \in 1..Len(q), i + 1 <= m, Done(i) PROVE Done(i + 1)
  <2> DEFINE before == SubSeq(q, 1, i - 1)
             rest == f[at[i + 1]]
  <2>1. i \in 1..(m - 1) /\ (i + 1) - 1 = i
    BY <1>3, <1>7
  <2>2. got[at[i]] = <<q[i]>> /\ at[i] + stride[at[i]] = at[i + 1]
    BY <2>1, Zenon DEF Lies, AreReadThere
  <2>3. at[i] \in 1..(n + 3) /\ ~(at[i] >= n) /\ at[i + 1] \in 1..(n + 3)
    BY <1>4, Zenon
  <2>4. f[at[i]] = <<q[i]>> \o rest
    BY <1>1, <2>2, <2>3, Zenon DEF AfterThis
  <2>5. rest \in Seq(S)
    BY <1>2, <2>3, Zenon
  <2>6. SubSeq(q, 1, i) = before \o <<q[i]>>
    BY SubSeqRecursiveSecond
  <2>7. before \in Seq(S) /\ <<q[i]>> \in Seq(S)
    OBVIOUS
  <2> HIDE DEF before, rest
  <2>8. (before \o <<q[i]>>) \o rest = before \o (<<q[i]>> \o rest)
    <3> DEFINE one == <<q[i]>>
    <3>1. one \in Seq(S)
      BY <2>7
    <3> HIDE DEF one
    <3>2. before \in Seq(S)
      BY <2>7
    <3>3. Associates(before, one, rest)
      BY <2>5, <3>1, <3>2, Associative, Zenon
    <3>4. (before \o one) \o rest = before \o (one \o rest)
      BY <3>3, Zenon DEF Associates
    <3> QED  BY <3>4, Zenon DEF one
  <2>9. f[1] = before \o f[at[i]]
    BY <1>7, Zenon DEF before
  <2> QED  BY <2>1, <2>4, <2>6, <2>8, <2>9, Zenon DEF rest
<1> HIDE DEF Done
<1>8. 0 \in T
  BY <1>6
<1>9. ASSUME NEW d \in Nat, d \in T PROVE d + 1 \in T
  <2> SUFFICES ASSUME (d + 1) + 1 <= m PROVE Done((d + 1) + 1)
    OBVIOUS
  <2>1. d + 1 \in 1..Len(q) /\ d + 1 <= m
    BY <1>3
  <2> QED  BY <1>7, <1>9, <2>1
<1>10. Nat \subseteq T
  <2> HIDE DEF T
  <2> QED  BY <1>8, <1>9, SetInduction
<1>11. Done(m)
  <2>1. m - 1 \in T /\ (m - 1) + 1 = m
    BY <1>3, <1>10
  <2> QED  BY <1>3, <2>1
<1> QED  BY <1>11, Zenon DEF Done, f

AllAreRead(n, got, stride, q) == ReadFrom(n, got, stride)[1] = q

\* So all of them make the program, ...
LEMMA ReadsAll ==
    ASSUME NEW S, NEW q \in Seq(S), NEW n \in Nat, NEW at, NEW got, NEW stride,
           Lies(q, at, n), Reads(got, stride, n, S),
           AreReadThere(q, at, got, stride, Len(q))
    PROVE  AllAreRead(n, got, stride, q)
<1> DEFINE f == ReadFrom(n, got, stride)
           m == Len(q) + 1
<1>1. Len(q) \in Nat /\ m \in 1..(Len(q) + 1) /\ m - 1 = Len(q)
  OBVIOUS
<1>2. AreReadThere(q, at, got, stride, m - 1)
  BY <1>1, Zenon
<1>3. Joined(f[1], SubSeq(q, 1, m - 1), f[at[m]])
  <2> HIDE DEF m
  <2> QED  BY <1>1, <1>2, ReadsProgram, Zenon
<1>4. Steps(stride, n)
  BY Zenon DEF Reads
<1>5. f[n + 1] = <<>>
  <2>1. n + 1 \in 1..(n + 3) /\ n + 1 >= n
    OBVIOUS
  <2>2. f[n + 1] = AfterThis(f, n, got, stride, n + 1)
    BY <1>4, <2>1, ReadFromDef, Zenon
  <2> QED  BY <2>1, <2>2, Zenon DEF AfterThis
<1>6. at[m] = n + 1
  BY Zenon DEF Lies
<1>7. SubSeq(q, 1, m - 1) = q
  BY <1>1, SubSeqFull, Zenon
<1>8. q \o <<>> = q
  BY ConcatEmptySeq, Zenon
<1> QED  BY <1>3, <1>5, <1>6, <1>7, <1>8, Zenon DEF Joined, AllAreRead

\* ... and the first that is read as another one makes another program.
LEMMA ReadsAnother ==
    ASSUME NEW S, NEW q \in Seq(S), NEW n \in Nat, NEW at, NEW got, NEW stride,
           Lies(q, at, n), Reads(got, stride, n, S), NEW m \in 1..Len(q),
           AreReadThere(q, at, got, stride, m - 1),
           NEW x \in S, got[at[m]] = <<x>>, x # q[m]
    PROVE  ReadFrom(n, got, stride)[1] # q
<1> DEFINE f == ReadFrom(n, got, stride)
           before == SubSeq(q, 1, m - 1)
           rest == f[at[m] + stride[at[m]]]
<1>1. Len(q) \in Nat /\ m \in 1..(Len(q) + 1)
  OBVIOUS
<1>2. Joined(f[1], before, f[at[m]])
  BY <1>1, ReadsProgram, Zenon
<1>3. at[m] \in 1..(n - 1) /\ at[m] \in 1..(n + 3) /\ ~(at[m] >= n)
  BY <1>1, LiesThere, Zenon
<1>6. stride[at[m]] \in {2, 4} /\ Steps(stride, n)
  BY <1>3, Zenon DEF Reads, Steps
<1>7. at[m] + stride[at[m]] \in 1..(n + 3)
  BY <1>3, <1>6
<1>9. f[at[m]] = <<x>> \o rest
  <2>1. \A k \in 1..(n + 3) : f[k] = AfterThis(f, n, got, stride, k)
    BY <1>6, ReadFromDef, Zenon
  <2> HIDE DEF f
  <2>2. f[at[m]] = AfterThis(f, n, got, stride, at[m])
    BY <1>3, <2>1, Zenon
  <2> QED  BY <1>3, <2>2, Zenon DEF AfterThis
<1>10. rest \in Seq(S)
  BY <1>7, ReadFromType, Zenon
<1>11. before \in Seq(S) /\ Len(before) = m - 1
  BY <1>1
<1> HIDE DEF f, before, rest
<1>12. <<x>> \o rest \in Seq(S) /\ Len(<<x>> \o rest) = 1 + Len(rest) /\ (<<x>> \o rest)[1] = x
  BY <1>10
<1> DEFINE tail == <<x>> \o rest
<1>13. Len(tail) \in Nat /\ Len(tail) >= 1 /\ tail \in Seq(S)
  BY <1>10, <1>12
<1> HIDE DEF tail
<1>14. (before \o tail)[m] = tail[1]
  BY <1>1, <1>11, <1>13
<1>15. f[1][m] = x
  BY <1>2, <1>9, <1>12, <1>14, Zenon DEF tail, Joined
<1> QED  BY <1>15, Zenon DEF f

-----------------------------------------------------------------------------
(* The readers. *)

Octets == SUBSET (0..7)

\* What the mutators and the generators write: instructions of two and of four
\* bytes, of which the first one tells the length; and those INSTRUCTIONS has.
Written == {ins \in Seq(Octets) : Len(ins) \in {2, 4} /\ (Long(ins[1]) <=> Len(ins) = 4)}
WrittenKnown == {ins \in Written : IsKnown(WordOfBytes(ins))}

\* A program whose instructions lie in the bytes as those of another order.
IsLaid(p, r, at, bytes) ==
    /\ Lies(p, at, Len(bytes)) /\ Len(p) \in Nat /\ Len(bytes) \in Nat
    /\ \A i \in 1..Len(p) :
          /\ Len(p[i]) \in {2, 4} /\ p[i] \in Seq(Octets) /\ (Long(p[i][1]) <=> Len(p[i]) = 4)
          /\ Chunk(bytes, at[i], Len(p[i])) = r[i]
          /\ \A j \in 1..Len(p[i]) : bytes[at[i] + j - 1] = r[i][j]

LEMMA ChunkOf ==
    ASSUME NEW B, NEW bytes \in Seq(B), NEW k \in Nat \ {0}, NEW r \in Seq(B),
           k + Len(r) <= Len(bytes) + 1,
           \A j \in 1..Len(r) : bytes[k + j - 1] = r[j]
    PROVE  Chunk(bytes, k, Len(r)) = r
<1>1. Len(r) \in Nat /\ Len(bytes) \in Nat
  OBVIOUS
<1> DEFINE l == Len(r)
           s == SubSeq(bytes, k, k + l - 1)
<1>2. \A i \in k..(k + l - 1) : bytes[i] \in B
  BY <1>1
<1>3. k \in Int /\ k + l - 1 \in Int /\ (IF k <= k + l - 1 THEN (k + l - 1) - k + 1 ELSE 0) = l
  BY <1>1
<1>4. s \in Seq(B) /\ Len(s) = l /\ \A i \in 1..l : s[i] = bytes[k + i - 1]
  BY <1>1, <1>2, <1>3
<1> HIDE DEF s
<1>5. s = r
  BY <1>4, SeqEqual
<1> QED  BY <1>5 DEF Chunk, s

LEMMA Laid ==
    ASSUME NEW p \in Seq(Written), NEW r \in Seq(Seq(Octets)), Len(r) = Len(p),
           \A i \in 1..Len(p) : Len(r[i]) = Len(p[i])
    PROVE  FlattenSeq(r) \in Seq(Octets) /\ \E at : IsLaid(p, r, at, FlattenSeq(r))
<1> DEFINE bytes == FlattenSeq(r)
<1>1. bytes \in Seq(Octets) /\ \E at : AreStarts(at, r, bytes)
  BY StartsExist, Zenon
<1>2. PICK at : AreStarts(at, r, bytes)
  BY <1>1
<1> HIDE DEF bytes
<1>3. Len(p) \in Nat /\ Len(bytes) \in Nat
  BY <1>1
<1>4. ASSUME NEW i \in 1..Len(p)
      PROVE  Len(p[i]) \in {2, 4} /\ p[i] \in Seq(Octets) /\ (Long(p[i][1]) <=> Len(p[i]) = 4)
  <2>1. p[i] \in Written
    OBVIOUS
  <2> QED  BY <2>1, Zenon DEF Written
<1>5. ASSUME NEW i \in 1..Len(p)
      PROVE  /\ at[i + 1] = at[i] + Len(p[i]) /\ at[i + 1] <= Len(bytes) + 1
             /\ \A j \in 1..Len(p[i]) : bytes[at[i] + j - 1] = r[i][j]
  BY <1>2, Zenon DEF AreStarts
<1>6. Lies(p, at, Len(bytes))
  BY <1>2, <1>4, <1>5, Zenon DEF Lies, AreStarts
<1>7. ASSUME NEW i \in 1..Len(p) PROVE Chunk(bytes, at[i], Len(p[i])) = r[i]
  <2> DEFINE t == r[i]
             k == at[i]
  <2>1. t \in Seq(Octets) /\ Len(t) = Len(p[i])
    OBVIOUS
  <2>2. k \in Nat \ {0}
    <3>1. i \in 1..(Len(p) + 1)
      BY <1>3
    <3> QED  BY <1>6, <3>1, Zenon DEF Lies
  <2>3. k + Len(t) <= Len(bytes) + 1 /\ \A j \in 1..Len(t) : bytes[k + j - 1] = t[j]
    BY <1>5, <2>1, Zenon
  <2> HIDE DEF t, k
  <2>4. Chunk(bytes, k, Len(t)) = t
    BY <1>1, <2>1, <2>2, <2>3, ChunkOf, Zenon
  <2> QED  BY <2>1, <2>4, Zenon DEF t, k
<1>8. IsLaid(p, r, at, bytes)
  BY <1>3, <1>4, <1>5, <1>6, <1>7, Zenon DEF IsLaid
<1> QED  BY <1>1, <1>8, Zenon DEF bytes

\* What a reader that takes one instruction at a time may read.
TakesOne(got, n) == \A k \in 1..(n - 1) : got[k] = <<>> \/ \E x : got[k] = <<x>>
ReadThings(got, n) == {got[k][1] : k \in 1..(n - 1)}

LEMMA TakesThings ==
    ASSUME NEW got, NEW stride, NEW n \in Nat, NEW S, Steps(stride, n),
           TakesOne(got, n), ReadThings(got, n) \subseteq S
    PROVE  Reads(got, stride, n, S)
<1> SUFFICES ASSUME NEW k \in 1..(n - 1) PROVE got[k] \in Seq(S)
  BY Zenon DEF Reads
<1>1. CASE got[k] = <<>>
  BY <1>1
<1>2. CASE \E x : got[k] = <<x>>
  <2>1. PICK x : got[k] = <<x>>
    BY <1>2
  <2>2. got[k][1] = x
    BY <2>1
  <2>3. got[k][1] \in S
    BY Zenon DEF ReadThings
  <2> QED  BY <2>1, <2>2, <2>3
<1> QED  BY <1>1, <1>2, Zenon DEF TakesOne

\* An instruction in memory order is found by its first byte.
LEMMA LengthThere ==
    ASSUME NEW p, NEW at, NEW bytes, IsLaid(p, p, at, bytes), NEW i \in 1..Len(p)
    PROVE  /\ at[i] \in Cursors(bytes)
           /\ Long(bytes[at[i]]) <=> Len(p[i]) = 4
           /\ HasFour(bytes, at[i], at[i]) <=> Len(p[i]) = 4
<1> DEFINE k == at[i]
<1>1. Len(p) \in Nat /\ Len(bytes) \in Nat /\ Lies(p, at, Len(bytes))
  BY Zenon DEF IsLaid
<1>2. at[i] \in 1..(Len(bytes) - 1)
  BY <1>1, LiesThere, Zenon
<1>3. /\ Len(p[i]) \in {2, 4} /\ (Long(p[i][1]) <=> Len(p[i]) = 4)
      /\ \A j \in 1..Len(p[i]) : bytes[at[i] + j - 1] = p[i][j]
  BY Zenon DEF IsLaid
<1>4. at[i] + Len(p[i]) <= Len(bytes) + 1
  BY <1>1, Zenon DEF Lies
<1>5. bytes[at[i]] = p[i][1]
  <2>1. 1 \in 1..Len(p[i]) /\ at[i] + 1 - 1 = at[i]
    BY <1>2, <1>3
  <2> QED  BY <1>3, <2>1
<1>6. Long(bytes[at[i]]) <=> Len(p[i]) = 4
  BY <1>3, <1>5, Zenon
<1>7. Len(p[i]) = 4 => at[i] + 3 <= Len(bytes)
  BY <1>1, <1>2, <1>4
<1>8. HasFour(bytes, at[i], at[i]) <=> Len(p[i]) = 4
  BY <1>6, <1>7, Zenon DEF HasFour
<1> QED  BY <1>2, <1>6, <1>8, Zenon DEF Cursors

LEMMA WrittenSequences ==
    ASSUME NEW p \in Seq(Written)
    PROVE  p \in Seq(Seq(Octets)) /\ Len(p) \in Nat
<1>1. Written \subseteq Seq(Octets)
  BY Zenon DEF Written
<1> QED  BY <1>1, SeqMonotonic

\* from_le gets back what was written, ...
LEMMA LeReads ==
    ASSUME NEW p \in Seq(Written)
    PROVE  from_le(serialize(p)) = p
<1> DEFINE bytes == FlattenSeq(p)
           n == Len(bytes)
           stride == LeStep(bytes)
           got == [k \in Cursors(bytes) |-> <<Chunk(bytes, k, stride[k])>>]
           S == Written \cup ReadThings(got, n)
<1>1. p \in Seq(Seq(Octets))
  BY WrittenSequences
<1>2. PICK at : bytes \in Seq(Octets) /\ IsLaid(p, p, at, bytes)
  BY <1>1, Laid, Zenon
<1> HIDE DEF bytes
<1>3. n \in Nat /\ Lies(p, at, n)
  BY <1>2, Zenon DEF IsLaid
<1>4. \A k \in Cursors(bytes) : stride[k] = IF HasFour(bytes, k, k) THEN 4 ELSE 2
  BY DEF LeStep
<1> HIDE DEF stride
<1>5. \A k \in Cursors(bytes) : got[k] = <<Chunk(bytes, k, stride[k])>>
  OBVIOUS
<1> HIDE DEF got
<1>6. Reads(got, stride, n, S)
  <2>1. Steps(stride, n)
    BY <1>4 DEF Steps, Cursors
  <2>2. TakesOne(got, n)
    BY <1>5, Zenon DEF TakesOne, Cursors
  <2> QED  BY <1>3, <2>1, <2>2, TakesThings, Zenon
<1>7. ASSUME NEW i \in 1..Len(p) PROVE got[at[i]] = <<p[i]>> /\ stride[at[i]] = Len(p[i])
  <2>1. at[i] \in Cursors(bytes) /\ (HasFour(bytes, at[i], at[i]) <=> Len(p[i]) = 4)
    BY <1>2, LengthThere, Zenon
  <2>2. Len(p[i]) \in {2, 4} /\ Chunk(bytes, at[i], Len(p[i])) = p[i]
    BY <1>2, Zenon DEF IsLaid
  <2>3. stride[at[i]] = Len(p[i])
    BY <1>4, <2>1, <2>2, Zenon
  <2> QED  BY <1>5, <2>1, <2>2, <2>3, Zenon
<1>8. AreReadThere(p, at, got, stride, Len(p))
  BY <1>7, Zenon DEF AreReadThere
<1>9. p \in Seq(S)
  BY SeqMonotonic
<1>10. AllAreRead(n, got, stride, p)
  <2> HIDE DEF S, n
  <2> QED  BY <1>3, <1>6, <1>8, <1>9, ReadsAll, Zenon
<1> QED  BY <1>10, Zenon DEF AllAreRead, from_le, serialize, Divided, bytes, n, stride, got

\* ... and ISAInput::new does, if INSTRUCTIONS has all of it.
LEMMA ParsedReads ==
    ASSUME NEW p \in Seq(WrittenKnown)
    PROVE  Parsed(serialize(p)) = p
<1> DEFINE bytes == FlattenSeq(p)
           n == Len(bytes)
           stride == [k \in Cursors(bytes) |-> IF Long(bytes[k]) THEN 4 ELSE 2]
           Ins(k) == Chunk(bytes, k, stride[k])
           got == [k \in Cursors(bytes) |-> IF IsKnown(WordOfBytes(Ins(k))) THEN <<Ins(k)>> ELSE <<>>]
           S == Written \cup ReadThings(got, n)
<1>1. p \in Seq(Written) /\ \A i \in 1..Len(p) : IsKnown(WordOfBytes(p[i]))
  <2>1. WrittenKnown \subseteq Written /\ \A x \in WrittenKnown : IsKnown(WordOfBytes(x))
    BY Zenon DEF WrittenKnown
  <2>2. \A i \in 1..Len(p) : p[i] \in WrittenKnown
    OBVIOUS
  <2>3. p \in Seq(Written)
    BY <2>1, SeqMonotonic, Zenon
  <2> QED  BY <2>1, <2>2, <2>3, Zenon
<1>2. PICK at : bytes \in Seq(Octets) /\ IsLaid(p, p, at, bytes)
  BY <1>1, WrittenSequences, Laid, Zenon
<1> HIDE DEF bytes
<1>3. n \in Nat /\ Lies(p, at, n)
  BY <1>2, Zenon DEF IsLaid
<1>4. \A k \in Cursors(bytes) : stride[k] = IF Long(bytes[k]) THEN 4 ELSE 2
  OBVIOUS
<1> HIDE DEF stride
<1>5. \A k \in Cursors(bytes) :
         got[k] = IF IsKnown(WordOfBytes(Ins(k))) THEN <<Ins(k)>> ELSE <<>>
  BY Zenon
<1> HIDE DEF got
<1>6. Reads(got, stride, n, S)
  <2>1. Steps(stride, n)
    BY <1>4, Zenon DEF Steps, Cursors
  <2>2. TakesOne(got, n)
    BY <1>5, Zenon DEF TakesOne, Cursors
  <2> QED  BY <1>3, <2>1, <2>2, TakesThings, Zenon
<1>7. ASSUME NEW i \in 1..Len(p) PROVE got[at[i]] = <<p[i]>> /\ stride[at[i]] = Len(p[i])
  <2>1. at[i] \in Cursors(bytes) /\ (Long(bytes[at[i]]) <=> Len(p[i]) = 4)
    BY <1>2, LengthThere, Zenon
  <2>2. Len(p[i]) \in {2, 4} /\ Chunk(bytes, at[i], Len(p[i])) = p[i]
    BY <1>2, Zenon DEF IsLaid
  <2>3. stride[at[i]] = Len(p[i])
    BY <1>4, <2>1, <2>2, Zenon
  <2>4. Ins(at[i]) = p[i]
    BY <2>2, <2>3, Zenon
  <2> QED  BY <1>1, <1>5, <2>1, <2>3, <2>4, Zenon
<1>8. AreReadThere(p, at, got, stride, Len(p))
  BY <1>7, Zenon DEF AreReadThere
<1>9. p \in Seq(S)
  BY <1>1, SeqMonotonic
<1>10. AllAreRead(n, got, stride, p)
  <2> HIDE DEF S, n
  <2> QED  BY <1>3, <1>6, <1>8, <1>9, ReadsAll, Zenon
<1> QED  BY <1>10, Zenon DEF AllAreRead, Parsed, serialize, Divided, bytes, n, stride, got

LEMMA NeverPanics ==
    ASSUME NEW p \in Seq(Written)
    PROVE  ~Panics(serialize(p))
<1> DEFINE last == IF p = <<>> THEN <<{}>> ELSE Last(p)
<1>1. Panics(serialize(p)) <=> Long(last[1]) /\ Len(last) = 2
  BY LeReads, Zenon DEF Panics
<1>2. CASE p = <<>>
  <2>1. last[1] = {}
    BY <1>2
  <2>2. ~Long(last[1])
    BY <2>1 DEF Long
  <2> QED  BY <1>1, <2>2, Zenon
<1>3. CASE p # <<>>
  <2>1. Len(p) \in 1..Len(p)
    BY <1>3, EmptySeq
  <2>2. last \in Written
    BY <1>3, <2>1 DEF Last
  <2> HIDE DEF last
  <2>3. Long(last[1]) <=> Len(last) = 4
    BY <2>2, Zenon DEF Written
  <2>4. 4 # 2
    OBVIOUS
  <2>5. ~(Long(last[1]) /\ Len(last) = 2)
    BY <2>3, <2>4, Zenon
  <2> QED  BY <1>1, <2>5, Zenon
<1> QED  BY <1>2, <1>3

LEMMA ReverseOf ==
    ASSUME NEW B, NEW s \in Seq(B)
    PROVE  /\ Reverse(s) \in Seq(B) /\ Len(Reverse(s)) = Len(s)
           /\ \A j \in 1..Len(s) : Reverse(s)[j] = s[(Len(s) - j) + 1]
           /\ Reverse(Reverse(s)) = s
<1> DEFINE r == Reverse(s)
<1>1. Len(s) \in Nat /\ \A j \in 1..Len(s) : s[j] \in B
  OBVIOUS
<1>2. r = [j \in 1..Len(s) |-> s[(Len(s) - j) + 1]]
  BY Zenon DEF Reverse
<1>3. \A j \in 1..Len(s) : (Len(s) - j) + 1 \in 1..Len(s)
  BY <1>1
<1>4. \A j \in 1..Len(s) : r[j] = s[(Len(s) - j) + 1] /\ r[j] \in B
  BY <1>1, <1>2, <1>3
<1>5. r \in Seq(B) /\ Len(r) = Len(s)
  BY <1>1, <1>2, <1>3
<1> HIDE DEF r
<1>6. Reverse(r) = [j \in 1..Len(s) |-> r[(Len(s) - j) + 1]]
  <2>1. Reverse(r) = [j \in 1..Len(r) |-> r[(Len(r) - j) + 1]]
    BY Zenon DEF Reverse
  <2> QED  BY <1>5, <2>1
<1>7. \A j \in 1..Len(s) : r[(Len(s) - j) + 1] = s[j]
  <2> SUFFICES ASSUME NEW j \in 1..Len(s) PROVE r[(Len(s) - j) + 1] = s[j]
    OBVIOUS
  <2>1. (Len(s) - ((Len(s) - j) + 1)) + 1 = j
    BY <1>1
  <2> QED  BY <1>3, <1>4, <2>1
<1>8. [j \in 1..Len(s) |-> r[(Len(s) - j) + 1]] = [j \in 1..Len(s) |-> s[j]]
  BY <1>7, Zenon
<1>9. [j \in 1..Len(s) |-> s[j]] = s
  OBVIOUS
<1> QED  BY <1>4, <1>5, <1>6, <1>8, <1>9, Zenon DEF r

LEMMA ReversedLaid ==
    ASSUME NEW p \in Seq(Written)
    PROVE  \E at : IsLaid(p, Reversed(p), at, FlattenSeq(Reversed(p)))
<1> DEFINE r == Reversed(p)
<1>1. Len(p) \in Nat /\ DOMAIN p = 1..Len(p) /\ \A i \in 1..Len(p) : p[i] \in Seq(Octets)
  <2>1. p \in Seq(Seq(Octets)) /\ Len(p) \in Nat
    BY WrittenSequences
  <2> QED  BY <2>1
<1>2. r = [i \in 1..Len(p) |-> Reverse(p[i])]
  BY <1>1, Zenon DEF Reversed
<1>3. \A i \in 1..Len(p) : Reverse(p[i]) \in Seq(Octets) /\ Len(Reverse(p[i])) = Len(p[i])
  BY <1>1, ReverseOf, Zenon
<1>4. r \in Seq(Seq(Octets)) /\ Len(r) = Len(p) /\ \A i \in 1..Len(p) : r[i] = Reverse(p[i])
  BY <1>1, <1>2, <1>3
<1> HIDE DEF r
<1>5. \A i \in 1..Len(p) : Len(r[i]) = Len(p[i])
  BY <1>3, <1>4, Zenon
<1>6. \E at : IsLaid(p, r, at, FlattenSeq(r))
  BY <1>4, <1>5, Laid, Zenon
<1> QED  BY <1>6, Zenon DEF r

\* Two bytes are taken for four, with the instruction behind them.
MisreadAt(p, i) == i + 1 \in 1..Len(p) /\ Len(p[i]) = 2 /\ Len(p[i + 1]) = 4 /\ Long(p[i + 1][3])

Backwards(p, at, bytes, i) ==
    \A j \in 1..Len(p[i]) : bytes[at[i] + j - 1] = p[i][(Len(p[i]) - j) + 1]

LEMMA ReversedThere ==
    ASSUME NEW p, NEW at, NEW bytes, IsLaid(p, Reversed(p), at, bytes), NEW i \in 1..Len(p),
           DOMAIN p = 1..Len(p)
    PROVE  /\ at[i] \in Cursors(bytes) /\ at[i] \in Nat
           /\ Reverse(Chunk(bytes, at[i], Len(p[i]))) = p[i]
           /\ Backwards(p, at, bytes, i)
           /\ at[i + 1] = at[i] + Len(p[i]) /\ at[i + 1] <= Len(bytes) + 1
<1>1. Len(p) \in Nat /\ Len(bytes) \in Nat /\ Lies(p, at, Len(bytes))
  BY Zenon DEF IsLaid
<1>2. at[i] \in 1..(Len(bytes) - 1)
  BY <1>1, LiesThere, Zenon
<1>3. /\ p[i] \in Seq(Octets) /\ Chunk(bytes, at[i], Len(p[i])) = Reversed(p)[i]
      /\ \A j \in 1..Len(p[i]) : bytes[at[i] + j - 1] = Reversed(p)[i][j]
  BY Zenon DEF IsLaid
<1>4. Reversed(p)[i] = Reverse(p[i])
  BY Zenon DEF Reversed
<1>5. \A j \in 1..Len(p[i]) : Reverse(p[i])[j] = p[i][(Len(p[i]) - j) + 1]
  BY <1>3, ReverseOf, Zenon
<1>6. Reverse(Reverse(p[i])) = p[i]
  BY <1>3, ReverseOf, Zenon
<1>7. at[i + 1] = at[i] + Len(p[i]) /\ at[i + 1] <= Len(bytes) + 1
  BY <1>1, Zenon DEF Lies
<1>8. at[i] \in Nat
  BY <1>1, <1>2
<1> QED  BY <1>2, <1>3, <1>4, <1>5, <1>6, <1>7, <1>8, Zenon DEF Cursors, Backwards

\* Whether four bytes are there is asked of the first byte, if it is the fourth; or
\* of one of the next instruction, if there is one.
LEMMA FourthByte ==
    ASSUME NEW p, NEW at, NEW bytes, IsLaid(p, Reversed(p), at, bytes), NEW i \in 1..Len(p),
           DOMAIN p = 1..Len(p)
    PROVE  /\ HasFour(bytes, at[i], at[i] + 3) <=> Len(p[i]) = 4 \/ MisreadAt(p, i)
           /\ Long(bytes[at[i] + 1]) => Len(p[i]) = 4 \/ MisreadAt(p, i)
<1> DEFINE k == at[i]
           l == Len(p[i])
           n == Len(bytes)
<1>1. /\ k \in Nat /\ at[i + 1] = k + l /\ k + l <= n + 1
      /\ \A j \in 1..l : bytes[k + j - 1] = p[i][(l - j) + 1]
  <2>1. at[i + 1] = k + l /\ at[i + 1] <= n + 1 /\ k \in Nat /\ Backwards(p, at, bytes, i)
    BY ReversedThere, Zenon
  <2>2. k + l <= n + 1
    BY <2>1
  <2> QED  BY <2>1, <2>2, Zenon DEF Backwards
<1>2. l \in {2, 4} /\ (Long(p[i][1]) <=> l = 4) /\ n \in Nat
  BY Zenon DEF IsLaid
<1>0. Len(p) \in Nat /\ i \in Nat
  BY DEF IsLaid
<1>3. at[Len(p) + 1] = n + 1
  BY Zenon DEF IsLaid, Lies
<1> HIDE DEF k, l, n
<1>4. CASE l = 4
  <2>1. bytes[k + 4 - 1] = p[i][(4 - 4) + 1]
    BY <1>1, <1>4
  <2>2. k + 4 - 1 = k + 3 /\ (4 - 4) + 1 = 1 /\ k + 3 <= n
    BY <1>1, <1>2, <1>4
  <2>3. bytes[k + 3] = p[i][1]
    BY <2>1, <2>2
  <2>4. HasFour(bytes, k, k + 3)
    BY <1>2, <1>4, <2>2, <2>3, Zenon DEF HasFour, n
  <2> QED  BY <1>4, <2>4, Zenon DEF k, l
<1>5. CASE l = 2
  <2>1. ~Long(bytes[k + 1])
    <3>1. bytes[k + 2 - 1] = p[i][(2 - 2) + 1]
      BY <1>1, <1>5
    <3>2. k + 2 - 1 = k + 1 /\ (2 - 2) + 1 = 1 /\ l # 4
      BY <1>1, <1>5
    <3>3. bytes[k + 1] = p[i][1]
      BY <3>1, <3>2
    <3> QED  BY <1>2, <3>2, <3>3, Zenon
  <2>2. l # 4
    BY <1>5
  <2>3. CASE i = Len(p)
    <3>1. ~(k + 3 <= n)
      BY <1>1, <1>2, <1>3, <1>5, <2>3
    <3>2. ~HasFour(bytes, k, k + 3)
      BY <3>1, Zenon DEF HasFour, n
    <3>3. ~(i + 1 \in 1..Len(p))
      BY <1>0, <2>3
    <3> QED  BY <2>1, <2>2, <3>2, <3>3, Zenon DEF MisreadAt, k, l
  <2>4. CASE i # Len(p)
    <3> DEFINE h == i + 1
               e == Len(p[h])
    <3>1. h \in 1..Len(p)
      <4> DEFINE m == Len(p)
      <4>1. m \in Nat /\ i \in 1..m /\ i # m
        BY <1>0, <2>4, Zenon
      <4> HIDE DEF m
      <4>2. h \in 1..m
        BY <4>1
      <4> QED  BY <4>2, Zenon DEF m
    <3>2. /\ at[h] \in Nat /\ at[h] + e <= n + 1
          /\ \A j \in 1..e : bytes[at[h] + j - 1] = p[h][(e - j) + 1]
      <4>1. at[h + 1] = at[h] + e /\ at[h + 1] <= n + 1
        <5> HIDE DEF h
        <5> QED  BY <3>1, ReversedThere, Zenon DEF n
      <4> HIDE DEF h
      <4>2. at[h] \in Nat /\ Backwards(p, at, bytes, h)
        BY <3>1, ReversedThere, Zenon
      <4>3. \A j \in 1..e : bytes[at[h] + j - 1] = p[h][(e - j) + 1]
        BY <4>2, Zenon DEF Backwards
      <4> QED  BY <4>1, <4>2, <4>3
    <3>3. e \in {2, 4} /\ (Long(p[h][1]) <=> e = 4)
      <4> HIDE DEF h
      <4> QED  BY <3>1, Zenon DEF IsLaid
    <3>4. at[h] = k + 2
      BY <1>1, <1>5
    <3> HIDE DEF h, e
    <3>5. k + 3 <= n /\ 2 \in 1..e
      BY <1>1, <1>2, <3>2, <3>3, <3>4
    <3>6. bytes[k + 3] = p[h][(e - 2) + 1]
      <4>1. bytes[at[h] + 2 - 1] = p[h][(e - 2) + 1]
        BY <3>2, <3>5
      <4>2. at[h] + 2 - 1 = k + 3
        BY <1>1, <3>4
      <4> QED  BY <4>1, <4>2
    <3>7. Long(bytes[k + 3]) <=> e = 4 /\ Long(p[h][3])
      <4>1. CASE e = 4
        <5>1. (e - 2) + 1 = 3
          BY <4>1
        <5> QED  BY <3>6, <4>1, <5>1
      <4>2. CASE e = 2
        <5>1. (e - 2) + 1 = 1 /\ e # 4
          BY <4>2
        <5> QED  BY <3>3, <3>6, <5>1
      <4> QED  BY <3>3, <4>1, <4>2
    <3>8. HasFour(bytes, k, k + 3) <=> e = 4 /\ Long(p[h][3])
      BY <3>5, <3>7, Zenon DEF HasFour, n
    <3>9. MisreadAt(p, i) <=> e = 4 /\ Long(p[h][3])
      BY <1>5, <3>1, Zenon DEF MisreadAt, h, e, l
    <3> QED  BY <2>1, <2>2, <3>8, <3>9, Zenon DEF k, l
  <2> QED  BY <2>3, <2>4
<1> QED  BY <1>2, <1>4, <1>5

\* The first that is misread, if there is one.
LEMMA FirstMisread ==
    ASSUME NEW p, Len(p) \in Nat
    PROVE  /\ Misread(p) => \E m \in 1..Len(p) :
                  MisreadAt(p, m) /\ \A i \in 1..(m - 1) : ~MisreadAt(p, i)
           /\ ~Misread(p) => \A i \in 1..Len(p) : ~MisreadAt(p, i)
<1> DEFINE T == {i \in Nat : i \in 1..Len(p) /\ MisreadAt(p, i)}
<1>1. Misread(p) <=> T # {}
  <2>1. ASSUME Misread(p) PROVE T # {}
    <3>1. PICK i \in 2..Len(p) : Len(p[i - 1]) = 2 /\ Len(p[i]) = 4 /\ Long(p[i][3])
      BY <2>1, Zenon DEF Misread
    <3>2. i - 1 \in Nat /\ i - 1 \in 1..Len(p) /\ (i - 1) + 1 = i /\ i \in 1..Len(p)
      OBVIOUS
    <3>3. MisreadAt(p, i - 1)
      BY <3>1, <3>2, Zenon DEF MisreadAt
    <3> QED  BY <3>2, <3>3, Zenon
  <2>2. ASSUME NEW i \in T PROVE Misread(p)
    <3>1. i + 1 \in 2..Len(p) /\ (i + 1) - 1 = i
      BY DEF MisreadAt
    <3>2. Len(p[i]) = 2 /\ Len(p[i + 1]) = 4 /\ Long(p[i + 1][3])
      BY Zenon DEF MisreadAt
    <3> QED  BY <3>1, <3>2, Zenon DEF Misread
  <2> QED  BY <2>1, <2>2, Zenon
<1>2. ASSUME T # {}
      PROVE  \E m \in 1..Len(p) : MisreadAt(p, m) /\ \A i \in 1..(m - 1) : ~MisreadAt(p, i)
  <2>1. T \subseteq Nat
    OBVIOUS
  <2>2. PICK m \in T : \A y \in T : <<y, m>> \notin Less
    <3> HIDE DEF T
    <3> QED  BY LessIsWellFounded, <1>2, <2>1, WFMin
  <2>3. ASSUME NEW i \in 1..(m - 1), MisreadAt(p, i) PROVE FALSE
    <3>1. i \in T /\ <<i, m>> \in Less
      BY <2>3 DEF Less
    <3> QED  BY <2>2, <3>1
  <2> QED  BY <2>2, <2>3, Zenon
<1>3. ASSUME T = {} PROVE \A i \in 1..Len(p) : ~MisreadAt(p, i)
  BY <1>3
<1> QED  BY <1>1, <1>2, <1>3, Zenon

\* What the two readers read at a place, and how far they go.
LEMMA ReadThere ==
    ASSUME NEW bytes, NEW k \in Cursors(bytes)
    PROVE  LET four == HasFour(bytes, k, k + 3)
               halves == HasFour(bytes, k, k + 1)
               long == Long(bytes[k + 1])
               both == Reverse(Chunk(bytes, k, 4))
               two == Reverse(Chunk(bytes, k, 2))
               swapped == two \o Reverse(Chunk(bytes, k + 2, 2))
           IN /\ LossyStep(bytes)[k] = IF four \/ halves THEN 4 ELSE 2
              /\ four => LossyRead(bytes)[k] = <<both>>
              /\ ~four /\ ~long => LossyRead(bytes)[k] = <<two>>
              /\ ~four /\ long /\ halves => LossyRead(bytes)[k] = <<swapped>>
              /\ ~four /\ long /\ ~halves => LossyRead(bytes)[k] = <<>>
              /\ halves => long
              /\ BeStep(bytes)[k] = IF four THEN 4 ELSE 2
<1> DEFINE four == HasFour(bytes, k, k + 3)
           halves == HasFour(bytes, k, k + 1)
           long == Long(bytes[k + 1])
           both == Reverse(Chunk(bytes, k, 4))
           two == Reverse(Chunk(bytes, k, 2))
           swapped == two \o Reverse(Chunk(bytes, k + 2, 2))
           got == LossyRead(bytes)
<1>1. got[k] = CASE four -> <<both>>
                  [] ~four /\ ~long -> <<two>>
                  [] ~four /\ halves -> <<swapped>>
                  [] OTHER -> <<>>
  BY Zenon DEF LossyRead
<1>2. LossyStep(bytes)[k] = IF four \/ halves THEN 4 ELSE 2
  BY Zenon DEF LossyStep
<1>3. halves => long
  BY Zenon DEF HasFour
<1>4. BeStep(bytes)[k] = IF four THEN 4 ELSE 2
  BY Zenon DEF BeStep
<1> HIDE DEF four, halves, long, both, two, swapped, got
<1>5. /\ four => got[k] = <<both>>
      /\ ~four /\ ~long => got[k] = <<two>>
      /\ ~four /\ long /\ halves => got[k] = <<swapped>>
      /\ ~four /\ long /\ ~halves => got[k] = <<>>
  BY <1>1, <1>3
<1> QED  BY <1>2, <1>3, <1>4, <1>5, Zenon DEF four, halves, long, both, two, swapped, got

\* What is not misread is read, with from_be ...
LEMMA BeReads ==
    ASSUME NEW p \in Seq(Written), ~Misread(p)
    PROVE  DividedBe(FlattenSeq(Reversed(p))) = p
<1> DEFINE bytes == FlattenSeq(Reversed(p))
           n == Len(bytes)
           stride == BeStep(bytes)
           got == [k \in Cursors(bytes) |-> <<Reverse(Chunk(bytes, k, stride[k]))>>]
           S == Written \cup ReadThings(got, n)
<1>1. Len(p) \in Nat /\ DOMAIN p = 1..Len(p)
  OBVIOUS
<1>2. PICK at : IsLaid(p, Reversed(p), at, bytes)
  BY ReversedLaid, Zenon
<1> HIDE DEF bytes
<1>3. n \in Nat /\ Lies(p, at, n)
  BY <1>2, Zenon DEF IsLaid
<1>4. \A k \in Cursors(bytes) : stride[k] = IF HasFour(bytes, k, k + 3) THEN 4 ELSE 2
  BY DEF BeStep
<1> HIDE DEF stride
<1>5. \A k \in Cursors(bytes) : got[k] = <<Reverse(Chunk(bytes, k, stride[k]))>>
  OBVIOUS
<1> HIDE DEF got
<1>6. Reads(got, stride, n, S)
  <2>1. Steps(stride, n)
    BY <1>4, Zenon DEF Steps, Cursors
  <2>2. TakesOne(got, n)
    BY <1>5, Zenon DEF TakesOne, Cursors
  <2> QED  BY <1>3, <2>1, <2>2, TakesThings, Zenon
<1>7. ASSUME NEW i \in 1..Len(p) PROVE got[at[i]] = <<p[i]>> /\ stride[at[i]] = Len(p[i])
  <2>1. at[i] \in Cursors(bytes) /\ Reverse(Chunk(bytes, at[i], Len(p[i]))) = p[i]
    BY <1>1, <1>2, ReversedThere, Zenon
  <2>2. ~MisreadAt(p, i)
    BY <1>1, FirstMisread, Zenon
  <2>3. HasFour(bytes, at[i], at[i] + 3) <=> Len(p[i]) = 4
    BY <1>1, <1>2, <2>2, FourthByte, Zenon
  <2>4. Len(p[i]) \in {2, 4}
    BY <1>2, Zenon DEF IsLaid
  <2>5. Len(p[i]) # 4 => Len(p[i]) = 2
    BY <2>4, Zenon
  <2>6. stride[at[i]] = Len(p[i])
    <3>1. stride[at[i]] = IF HasFour(bytes, at[i], at[i] + 3) THEN 4 ELSE 2
      BY <1>4, <2>1, Zenon
    <3>2. Len(p[i]) = 4 => stride[at[i]] = 4
      BY <2>3, <3>1, Zenon
    <3>3. Len(p[i]) # 4 => stride[at[i]] = 2
      BY <2>3, <3>1, Zenon
    <3> QED  BY <2>5, <3>2, <3>3, Zenon
  <2> QED  BY <1>5, <2>1, <2>6, Zenon
<1>8. AreReadThere(p, at, got, stride, Len(p))
  BY <1>7, Zenon DEF AreReadThere
<1>9. p \in Seq(S)
  BY SeqMonotonic
<1>10. AllAreRead(n, got, stride, p)
  <2> HIDE DEF S, n
  <2> QED  BY <1>3, <1>6, <1>8, <1>9, ReadsAll, Zenon
<1> QED  BY <1>10, Zenon DEF AllAreRead, DividedBe, Divided, bytes, n, stride, got

\* A chunk of four has four bytes.
LEMMA FourOfChunk ==
    ASSUME NEW bytes, NEW k \in Nat
    PROVE  Len(Chunk(bytes, k, 4)) = 4
<1>1. (k + 4 - 1) - k + 1 = 4
  OBVIOUS
<1>2. Chunk(bytes, k, 4) = [j \in 1..((k + 4 - 1) - k + 1) |-> bytes[k + j - 1]]
  BY DEF Chunk
<1> QED  BY <1>1, <1>2

\* ... as with from_be_lossy; and what is misread is not.
LEMMA LossyReads ==
    ASSUME NEW p \in Seq(Written)
    PROVE  from_be_lossy(FlattenSeq(Reversed(p))) = p <=> ~Misread(p)
<1> DEFINE bytes == FlattenSeq(Reversed(p))
           n == Len(bytes)
           stride == LossyStep(bytes)
           got == LossyRead(bytes)
           S == Written \cup ReadThings(got, n)
<1>1. Len(p) \in Nat /\ DOMAIN p = 1..Len(p)
  OBVIOUS
<1>2. PICK at : IsLaid(p, Reversed(p), at, bytes)
  BY ReversedLaid, Zenon
<1> HIDE DEF bytes
<1>3. n \in Nat /\ Lies(p, at, n)
  BY <1>2, Zenon DEF IsLaid
<1>4. \A k \in Cursors(bytes) :
         /\ stride[k] = IF HasFour(bytes, k, k + 3) \/ HasFour(bytes, k, k + 1) THEN 4 ELSE 2
         /\ HasFour(bytes, k, k + 3) => got[k] = <<Reverse(Chunk(bytes, k, 4))>>
         /\ ~HasFour(bytes, k, k + 3) /\ ~Long(bytes[k + 1])
                => got[k] = <<Reverse(Chunk(bytes, k, 2))>>
         /\ got[k] = <<>> \/ \E x : got[k] = <<x>>
  BY ReadThere, Zenon
<1> HIDE DEF stride, got
<1>6. Reads(got, stride, n, S)
  <2>1. Steps(stride, n)
    BY <1>4, Zenon DEF Steps, Cursors
  <2>2. TakesOne(got, n)
    BY <1>4, Zenon DEF TakesOne, Cursors
  <2> QED  BY <1>3, <2>1, <2>2, TakesThings, Zenon
<1>7. ASSUME NEW i \in 1..Len(p), ~MisreadAt(p, i)
      PROVE  got[at[i]] = <<p[i]>> /\ stride[at[i]] = Len(p[i])
  <2>1. at[i] \in Cursors(bytes) /\ Reverse(Chunk(bytes, at[i], Len(p[i]))) = p[i]
    BY <1>1, <1>2, ReversedThere, Zenon
  <2>2. /\ HasFour(bytes, at[i], at[i] + 3) <=> Len(p[i]) = 4
        /\ Long(bytes[at[i] + 1]) => Len(p[i]) = 4
    BY <1>1, <1>2, <1>7, FourthByte, Zenon
  <2>3. Len(p[i]) \in {2, 4}
    BY <1>2, Zenon DEF IsLaid
  <2>4. CASE Len(p[i]) = 4
    BY <1>4, <2>1, <2>2, <2>4, Zenon
  <2>5. CASE Len(p[i]) = 2
    <3>1. Len(p[i]) # 4
      BY <2>5
    <3>2. ~HasFour(bytes, at[i], at[i] + 3) /\ ~Long(bytes[at[i] + 1])
      BY <2>2, <3>1, Zenon
    <3>3. ~HasFour(bytes, at[i], at[i] + 1)
      BY <3>2, Zenon DEF HasFour
    <3>4. stride[at[i]] = 2 /\ got[at[i]] = <<Reverse(Chunk(bytes, at[i], 2))>>
      BY <1>4, <2>1, <3>2, <3>3, Zenon
    <3> QED  BY <2>1, <2>5, <3>4, Zenon
  <2> QED  BY <2>3, <2>4, <2>5, Zenon
<1>9. p \in Seq(S)
  BY SeqMonotonic
<1>10. CASE ~Misread(p)
  <2>1. AreReadThere(p, at, got, stride, Len(p))
    BY <1>1, <1>7, <1>10, FirstMisread, Zenon DEF AreReadThere
  <2>2. AllAreRead(n, got, stride, p)
    <3> HIDE DEF S, n
    <3> QED  BY <1>3, <1>6, <1>9, <2>1, ReadsAll, Zenon
  <2> QED  BY <1>10, <2>2, Zenon DEF AllAreRead, from_be_lossy, Divided, bytes, n, stride, got
<1>11. CASE Misread(p)
  <2>1. PICK m \in 1..Len(p) : MisreadAt(p, m) /\ \A i \in 1..(m - 1) : ~MisreadAt(p, i)
    BY <1>1, <1>11, FirstMisread, Zenon
  <2>2. \A i \in 1..(m - 1) : i \in 1..Len(p)
    BY <1>1
  <2>3. AreReadThere(p, at, got, stride, m - 1)
    BY <1>7, <2>1, <2>2, Zenon DEF AreReadThere
  <2> DEFINE x == Reverse(Chunk(bytes, at[m], 4))
  <2>4. at[m] \in Cursors(bytes) /\ HasFour(bytes, at[m], at[m] + 3)
    BY <1>1, <1>2, <2>1, ReversedThere, FourthByte, Zenon
  <2>5. got[at[m]] = <<x>>
    BY <1>4, <2>4, Zenon
  <2>6. x # p[m]
    <3>1. Len(p[m]) = 2
      BY <2>1, Zenon DEF MisreadAt
    <3>2. Len(Chunk(bytes, at[m], 4)) = 4
      <4>1. at[m] \in Nat
        BY <1>1, <1>2, ReversedThere, Zenon
      <4> QED  BY <4>1, FourOfChunk, Zenon
    <3>3. Len(x) = 4
      <4>1. x = [j \in 1..4 |-> Chunk(bytes, at[m], 4)[(4 - j) + 1]]
        BY <3>2, Zenon DEF Reverse
      <4> QED  BY <4>1
    <3> QED  BY <3>1, <3>3
  <2>7. x \in S
    <3>1. got[at[m]][1] = x
      BY <2>5
    <3>2. at[m] \in 1..(n - 1)
      BY <2>4, Zenon DEF Cursors
    <3> QED  BY <3>1, <3>2, Zenon DEF ReadThings
  <2>8. ReadFrom(n, got, stride)[1] # p
    <3> HIDE DEF S, n, x
    <3> QED  BY <1>3, <1>6, <1>9, <2>3, <2>5, <2>6, <2>7, ReadsAnother, Zenon
  <2> QED  BY <1>11, <2>8, Zenon DEF from_be_lossy, Divided, bytes, n, stride, got
<1> QED  BY <1>10, <1>11, Zenon

LEMMA ChunkThere ==
    ASSUME NEW bytes \in Seq(Octets), NEW k \in Cursors(bytes), NEW l \in {2, 4},
           l = 2 \/ k + 3 <= Len(bytes)
    PROVE  /\ Reverse(Chunk(bytes, k, l)) \in Seq(Octets) /\ Len(Reverse(Chunk(bytes, k, l))) = l
           /\ Reverse(Chunk(bytes, k, l))[1] = bytes[k + l - 1]
<1> DEFINE n == Len(bytes)
           c == Chunk(bytes, k, l)
<1>1. n \in Nat /\ k \in 1..(n - 1)
  BY DEF Cursors
<1>2. \A i \in k..(k + l - 1) : bytes[i] \in Octets
  <2>1. \A i \in k..(k + l - 1) : i \in 1..n
    BY <1>1
  <2>2. \A i \in 1..n : bytes[i] \in Octets
    OBVIOUS
  <2> QED  BY <2>1, <2>2, Zenon
<1>3. c = SubSeq(bytes, k, k + l - 1)
  BY Zenon DEF Chunk
<1> HIDE DEF n, c
<1>4. c \in Seq(Octets) /\ Len(c) = IF k <= k + l - 1 THEN (k + l - 1) - k + 1 ELSE 0
  <2>1. k \in Int /\ k + l - 1 \in Int
    BY <1>1
  <2> QED  BY <1>2, <1>3, <2>1, SubSeqProperties
<1>5. \A i \in 1..((k + l - 1) - k + 1) : c[i] = bytes[k + i - 1]
  <2>1. k \in Int /\ k + l - 1 \in Int
    BY <1>1
  <2> QED  BY <1>2, <1>3, <2>1, SubSeqProperties
<1>6. Len(c) = l
  BY <1>1, <1>4
<1>7. c[l] = bytes[k + l - 1]
  <2>1. l \in 1..((k + l - 1) - k + 1)
    BY <1>1
  <2> QED  BY <1>5, <2>1, Zenon
<1>8. /\ Reverse(c) \in Seq(Octets) /\ Len(Reverse(c)) = l
      /\ \A j \in 1..Len(c) : Reverse(c)[j] = c[(Len(c) - j) + 1]
  BY <1>4, <1>6, ReverseOf
<1>9. Reverse(c)[1] = c[l]
  <2>1. 1 \in 1..Len(c) /\ (Len(c) - 1) + 1 = l
    BY <1>6
  <2>2. Reverse(c)[1] = c[(Len(c) - 1) + 1]
    BY <1>8, <2>1
  <2> QED  BY <2>1, <2>2, Zenon
<1> QED  BY <1>7, <1>8, <1>9, Zenon DEF c

IsTogether(s, t, joined) ==
    Len(joined) = Len(s) + Len(t) /\ \A j \in 1..Len(s) : joined[j] = s[j]

LEMMA Together ==
    ASSUME NEW B, NEW s \in Seq(B), NEW t \in Seq(B)
    PROVE  s \o t \in Seq(B) /\ IsTogether(s, t, s \o t)
BY DEF IsTogether

\* from_be_lossy makes no instruction that contradicts its own length.
LEMMA LossySane ==
    ASSUME NEW bytes \in Seq(Octets)
    PROVE  from_be_lossy(bytes) \in Seq(Written) /\ IsSane(from_be_lossy(bytes))
<1> DEFINE n == Len(bytes)
           stride == LossyStep(bytes)
           got == LossyRead(bytes)
<1>1. n \in Nat
  OBVIOUS
<1>2. ASSUME NEW k \in Cursors(bytes) PROVE stride[k] \in {2, 4} /\ got[k] \in Seq(Written)
  <2> DEFINE four == HasFour(bytes, k, k + 3)
             halves == HasFour(bytes, k, k + 1)
             long == Long(bytes[k + 1])
             both == Reverse(Chunk(bytes, k, 4))
             two == Reverse(Chunk(bytes, k, 2))
             next == Reverse(Chunk(bytes, k + 2, 2))
  <2>1. /\ stride[k] = IF four \/ halves THEN 4 ELSE 2
        /\ four => got[k] = <<both>>
        /\ ~four /\ ~long => got[k] = <<two>>
        /\ ~four /\ long /\ halves => got[k] = <<two \o next>>
        /\ ~four /\ long /\ ~halves => got[k] = <<>>
    BY ReadThere, Zenon
  <2>2. k \in 1..(n - 1) /\ k \in Nat
    BY <1>1 DEF Cursors
  <2>3. /\ four => k + 3 <= n /\ Long(bytes[k + 3])
        /\ halves => k + 3 <= n /\ Long(bytes[k + 1])
    BY Zenon DEF HasFour
  <2>4. two \in Seq(Octets) /\ Len(two) = 2 /\ two[1] = bytes[k + 1]
    <3>1. k + 2 - 1 = k + 1 /\ 2 \in {2, 4}
      BY <2>2
    <3>2. two[1] = bytes[k + 2 - 1] /\ two \in Seq(Octets) /\ Len(two) = 2
      BY <3>1, ChunkThere, Zenon
    <3> QED  BY <3>1, <3>2, Zenon
  <2>5. four => both \in Seq(Octets) /\ Len(both) = 4 /\ both[1] = bytes[k + 3]
    <3> SUFFICES ASSUME four PROVE both \in Seq(Octets) /\ Len(both) = 4 /\ both[1] = bytes[k + 3]
      OBVIOUS
    <3>1. k + 4 - 1 = k + 3 /\ 4 \in {2, 4} /\ k + 3 <= Len(bytes)
      BY <2>2, <2>3
    <3>2. both[1] = bytes[k + 4 - 1] /\ both \in Seq(Octets) /\ Len(both) = 4
      BY <3>1, ChunkThere, Zenon
    <3> QED  BY <3>1, <3>2, Zenon
  <2>6. halves => next \in Seq(Octets) /\ Len(next) = 2
    <3> SUFFICES ASSUME halves PROVE next \in Seq(Octets) /\ Len(next) = 2
      OBVIOUS
    <3>1. k + 2 \in Cursors(bytes) /\ 2 \in {2, 4}
      BY <1>1, <2>2, <2>3 DEF Cursors
    <3> QED  BY <3>1, ChunkThere, Zenon
  <2> HIDE DEF four, halves, both, two, next, stride, got, n
  <2>7. stride[k] \in {2, 4}
    BY <2>1, Zenon
  <2>12. \A x \in Written : <<x>> \in Seq(Written)
    OBVIOUS
  <2>8. CASE four
    <3>1. both \in Written
      BY <2>3, <2>5, <2>8 DEF Written
    <3> QED  BY <2>1, <2>7, <2>8, <2>12, <3>1, Zenon
  <2>9. CASE ~four /\ ~long
    <3>1. two \in Written
      BY <2>4, <2>9 DEF Written
    <3> QED  BY <2>1, <2>7, <2>9, <2>12, <3>1, Zenon
  <2>10. CASE ~four /\ long /\ halves
    <3> DEFINE joined == two \o next
    <3>1. joined \in Seq(Octets) /\ Len(joined) = 4 /\ joined[1] = two[1]
      <4>1. two \in Seq(Octets) /\ next \in Seq(Octets) /\ Len(two) = 2 /\ Len(next) = 2
        BY <2>4, <2>6, <2>10, Zenon
      <4>2. joined \in Seq(Octets)
        BY <4>1, Together, Zenon
      <4>3. IsTogether(two, next, joined)
        BY <4>1, Together, Zenon
      <4> HIDE DEF joined
      <4>4. 1 \in 1..Len(two) /\ Len(two) + Len(next) = 4
        BY <4>1
      <4> QED  BY <4>2, <4>3, <4>4, Zenon DEF IsTogether
    <3> HIDE DEF joined
    <3>2. joined \in Written
      BY <2>4, <2>10, <3>1 DEF Written
    <3>3. got[k] = <<joined>>
      BY <2>1, <2>10, Zenon DEF joined
    <3> QED  BY <2>7, <2>12, <3>2, <3>3, Zenon
  <2>11. CASE ~four /\ long /\ ~halves
    <3>1. got[k] = <<>>
      BY <2>1, <2>11, Zenon
    <3> QED  BY <2>7, <3>1
  <2> QED  BY <2>8, <2>9, <2>10, <2>11, Zenon
<1>3. Reads(got, stride, n, Written)
  BY <1>2, Zenon DEF Reads, Steps, Cursors
<1> DEFINE f == ReadFrom(n, got, stride)
<1>4. f[1] \in Seq(Written)
  <2>1. 1 \in 1..(n + 3)
    BY <1>1
  <2> HIDE DEF n, stride, got
  <2> QED  BY <1>1, <1>3, <2>1, ReadFromType, Zenon
<1>5. from_be_lossy(bytes) = f[1]
  BY Zenon DEF from_be_lossy, Divided
<1> HIDE DEF f
<1>6. IsSane(f[1])
  <2> SUFFICES ASSUME NEW i \in DOMAIN f[1] PROVE Long(f[1][i][1]) <=> Len(f[1][i]) = 4
    BY Zenon DEF IsSane
  <2>1. f[1][i] \in Written
    BY <1>4
  <2> QED  BY <2>1, Zenon DEF Written
<1> QED  BY <1>4, <1>5, <1>6, Zenon

\* What from_be accepts, from_be_lossy divides alike.
LEMMA BeThenLossy ==
    ASSUME NEW bytes \in Seq(Octets), from_be(bytes) # ErrBytes
    PROVE  from_be(bytes) = from_be_lossy(bytes)
<1> DEFINE n == Len(bytes)
           stride == BeStep(bytes)
           got == [k \in Cursors(bytes) |-> <<Reverse(Chunk(bytes, k, stride[k]))>>]
           f == ReadFrom(n, got, stride)
           lstep == LossyStep(bytes)
           lread == LossyRead(bytes)
           g == ReadFrom(n, lread, lstep)
           T == {k \in 1..(n + 3) : IsSane(f[k]) => g[k] = f[k]}
<1>1. from_be(bytes) = f[1] /\ from_be_lossy(bytes) = g[1] /\ IsSane(f[1])
  BY Zenon DEF from_be, from_be_lossy, DividedBe, Divided
<1>2. n \in Nat
  OBVIOUS
<1>3. \A k \in Cursors(bytes) : got[k] = <<Reverse(Chunk(bytes, k, stride[k]))>>
  OBVIOUS
<1>4. Steps(stride, n) /\ Steps(lstep, n)
  <2>1. ASSUME NEW k \in Cursors(bytes) PROVE stride[k] \in {2, 4} /\ lstep[k] \in {2, 4}
    BY ReadThere, Zenon
  <2> QED  BY <2>1, Zenon DEF Steps, Cursors
<1>5. \A k \in 1..(n + 3) : /\ f[k] = AfterThis(f, n, got, stride, k)
                            /\ g[k] = AfterThis(g, n, lread, lstep, k)
  <2> HIDE DEF n, stride, got, lstep, lread
  <2> QED  BY <1>2, <1>4, ReadFromDef, Zenon
<1> DEFINE S == ReadThings(got, n)
<1>6. \A k \in 1..(n + 3) : f[k] \in Seq(S)
  <2>1. TakesOne(got, n)
    BY <1>3, Zenon DEF TakesOne, Cursors
  <2>2. Reads(got, stride, n, S)
    <3> HIDE DEF n, stride, got
    <3> QED  BY <1>2, <1>4, <2>1, TakesThings, Zenon
  <2> HIDE DEF n, stride, got
  <2> QED  BY <1>2, <2>2, ReadFromType, Zenon
<1>7. \A k \in Cursors(bytes) :
         /\ stride[k] = IF HasFour(bytes, k, k + 3) THEN 4 ELSE 2
         /\ lstep[k] = IF HasFour(bytes, k, k + 3) \/ HasFour(bytes, k, k + 1) THEN 4 ELSE 2
         /\ HasFour(bytes, k, k + 3) => lread[k] = <<Reverse(Chunk(bytes, k, 4))>>
         /\ ~HasFour(bytes, k, k + 3) /\ ~Long(bytes[k + 1])
                => lread[k] = <<Reverse(Chunk(bytes, k, 2))>>
         /\ HasFour(bytes, k, k + 1) => Long(bytes[k + 1])
  BY ReadThere, Zenon
<1> HIDE DEF f, g, got, stride, lread, lstep, S
<1>8. \A k \in 1..(n + 3) : k >= n => k \in T
  <2> SUFFICES ASSUME NEW k \in 1..(n + 3), k >= n PROVE g[k] = f[k]
    OBVIOUS
  <2> QED  BY <1>5, Zenon DEF AfterThis
<1>9. ASSUME NEW k \in 1..(n - 1), \A j \in (k + 1)..(n + 3) : j \in T PROVE k \in T
  <2>1. k \in Cursors(bytes) /\ k \in 1..(n + 3) /\ ~(k >= n) /\ k \in Nat
    BY <1>2 DEF Cursors
  <2> SUFFICES ASSUME IsSane(f[k]) PROVE g[k] = f[k]
    BY <2>1
  <2> DEFINE l == stride[k]
             x == Reverse(Chunk(bytes, k, l))
             rest == f[k + l]
  <2>2. l \in {2, 4} /\ k + l \in 1..(n + 3) /\ k + l \in (k + 1)..(n + 3)
    <3>1. l \in {2, 4}
      BY <1>7, <2>1, Zenon
    <3> HIDE DEF l
    <3> QED  BY <1>2, <3>1
  <2>3. f[k] = <<x>> \o rest
    BY <1>3, <1>5, <2>1, Zenon DEF AfterThis
  <2>4. rest \in Seq(S) /\ x \in S
    <3>1. got[k] = <<x>>
      BY <1>3, <2>1, Zenon
    <3>2. got[k][1] = x
      BY <3>1
    <3>3. x \in S
      BY <3>2, Zenon DEF ReadThings, S
    <3> QED  BY <1>6, <2>2, <3>3, Zenon
  <2>5. IsSane(<<x>> \o rest)
    BY <2>3, Zenon
  <2> HIDE DEF x, rest
  <2>6. (Long(x[1]) <=> Len(x) = 4) /\ IsSane(rest)
    <3> DEFINE whole == <<x>> \o rest
    <3>1. /\ DOMAIN whole = 1..(1 + Len(rest)) /\ whole[1] = x
          /\ \A i \in 1..Len(rest) : whole[i + 1] = rest[i]
      BY <2>4
    <3>2. Len(rest) \in Nat /\ DOMAIN rest = 1..Len(rest)
      BY <2>4
    <3> HIDE DEF whole
    <3>3. \A i \in DOMAIN whole : Long(whole[i][1]) <=> Len(whole[i]) = 4
      BY <2>5, Zenon DEF IsSane, whole
    <3>4. Long(x[1]) <=> Len(x) = 4
      <4>1. 1 \in DOMAIN whole
        BY <3>1, <3>2
      <4> QED  BY <3>1, <3>3, <4>1, Zenon
    <3>5. ASSUME NEW i \in DOMAIN rest PROVE Long(rest[i][1]) <=> Len(rest[i]) = 4
      <4>1. i + 1 \in DOMAIN whole /\ whole[i + 1] = rest[i]
        BY <3>1, <3>2
      <4> QED  BY <3>3, <4>1, Zenon
    <3> QED  BY <3>4, <3>5, Zenon DEF IsSane
  <2>7. g[k + l] = rest
    <3>1. k + l \in T
      BY <1>9, <2>2, Zenon
    <3> QED  BY <2>6, <3>1, Zenon DEF rest
  <2>8. lstep[k] = l /\ lread[k] = <<x>>
    <3>1. CASE HasFour(bytes, k, k + 3)
      BY <1>7, <2>1, <3>1, Zenon DEF x
    <3>2. CASE ~HasFour(bytes, k, k + 3)
      <4>1. l = 2
        BY <1>7, <2>1, <3>2, Zenon
      <4>2. Len(x) = 2 /\ x[1] = bytes[k + 2 - 1]
        <5>1. 2 \in {2, 4} /\ 2 = 2
          OBVIOUS
        <5> HIDE DEF l
        <5>2. x = Reverse(Chunk(bytes, k, 2))
          BY <4>1, Zenon DEF x
        <5> QED  BY <2>1, <5>1, <5>2, ChunkThere, Zenon
      <4>3. k + 2 - 1 = k + 1 /\ 2 # 4
        BY <2>1
      <4>4. ~Long(bytes[k + 1])
        BY <2>6, <4>2, <4>3, Zenon
      <4>5. lstep[k] = 2
        BY <1>7, <2>1, <3>2, <4>4, Zenon
      <4>6. lread[k] = <<Reverse(Chunk(bytes, k, 2))>>
        BY <1>7, <2>1, <3>2, <4>4, Zenon
      <4> QED  BY <4>1, <4>5, <4>6, Zenon DEF x
    <3> QED  BY <3>1, <3>2
  <2>9. g[k] = lread[k] \o g[k + lstep[k]]
    BY <1>5, <2>1, Zenon DEF AfterThis
  <2> QED  BY <2>3, <2>7, <2>8, <2>9, Zenon
<1>10. 1..(n + 3) \subseteq T
  <2> HIDE DEF T, n
  <2> QED  BY <1>2, <1>8, <1>9, DownInduction
<1>11. 1 \in T
  <2>1. 1 \in 1..(n + 3)
    BY <1>2
  <2> QED  BY <1>10, <2>1, Zenon
<1> QED  BY <1>1, <1>11, Zenon

-----------------------------------------------------------------------------
\* However long it is, a program of instructions of the table is read back from its
\* bytes (ISAInput::new, from_le), and from its reversed instructions exactly if
\* none is misread (from_be_lossy, from_be); and whatever the bytes, the two readers
\* of the other byte order never contradict each other.
THEOREM ReadersAlwaysDivideAlike ==
    ASSUME case.of = "program" => case.program \in Seq(WrittenKnown),
           case.of = "bytes" => case.bytes \in Seq(Octets)
    PROVE  ReadersDivideAlike
<1>1. ASSUME case.of = "program"
      PROVE  LET bytes == serialize(case.program)
                 reversed == FlattenSeq(Reversed(case.program))
             IN /\ from_le(bytes) = case.program /\ Parsed(bytes) = case.program /\ ~Panics(bytes)
                /\ from_be_lossy(reversed) = case.program <=> ~Misread(case.program)
                /\ ~Misread(case.program) => from_be(reversed) = case.program
  <2> DEFINE p == case.program
  <2>1. p \in Seq(WrittenKnown)
    BY <1>1
  <2>2. p \in Seq(Written)
    BY <2>1, SeqMonotonic DEF WrittenKnown
  <2> HIDE DEF p
  <2>3. IsSane(p)
    <3> SUFFICES ASSUME NEW i \in DOMAIN p PROVE Long(p[i][1]) <=> Len(p[i]) = 4
      BY Zenon DEF IsSane
    <3>1. p[i] \in Written
      BY <2>2
    <3> QED  BY <3>1, Zenon DEF Written
  <2>4. ~Misread(p) => from_be(FlattenSeq(Reversed(p))) = p
    BY <2>2, <2>3, BeReads, Zenon DEF from_be
  <2> QED  BY <2>1, <2>2, <2>4, LeReads, ParsedReads, NeverPanics, LossyReads, Zenon DEF p
<1>2. ASSUME case.of = "bytes"
      PROVE  /\ IsSane(from_be_lossy(case.bytes))
             /\ from_be(case.bytes) # ErrBytes => from_be(case.bytes) = from_be_lossy(case.bytes)
  BY <1>2, LossySane, BeThenLossy, Zenon
<1> QED  BY <1>1, <1>2, Zenon DEF ReadersDivideAlike

-----------------------------------------------------------------------------
(* Words. *)

\* An operand stays in its field, whatever it is.
LEMMA OperandInField ==
    ASSUME NEW value, NEW lsb \in Nat, NEW msb \in Nat
    PROVE  build_operand(value, lsb, msb) \subseteq lsb..msb
<1>1. \A n \in 0..((msb - lsb + 1) - 1) : lsb + n \in lsb..msb
  OBVIOUS
<1> QED  BY <1>1, Zenon DEF build_operand, Placed

LEMMA WordOfIsFixed ==
    ASSUME NEW entry \in InstructionSet, NEW values
    PROVE  LET word == WordOf(entry, values)
           IN /\ word \cap entry.mmatch = entry.mask
              /\ word \subseteq 0..(8 * entry.length - 1)
<1> DEFINE word == WordOf(entry, values)
           places == 0..(8 * entry.length - 1)
           InPlace(i) == entry.operands[i][1]..entry.operands[i][2]
           Part1(i) == build_operand(values[i], entry.operands[i][1], entry.operands[i][2])
<1>1. IsEntry(entry)
  BY ProfileAssumption, Zenon
<1>2. /\ entry.mask \subseteq entry.mmatch /\ entry.mmatch \subseteq places
      /\ entry.length \in {2, 4}
  BY <1>1, Zenon DEF IsEntry
<1>3. ASSUME NEW i \in DOMAIN entry.operands
      PROVE  Part1(i) \subseteq places /\ Part1(i) \cap entry.mmatch = {}
  <2> DEFINE lsb == entry.operands[i][1]
             msb == entry.operands[i][2]
  <2>1. lsb \in places /\ msb \in places /\ (lsb..msb) \cap entry.mmatch = {}
    BY <1>1, Zenon DEF IsEntry
  <2> HIDE DEF lsb, msb
  <2>2. lsb \in Nat /\ msb \in Nat /\ lsb..msb \subseteq places
    BY <1>2, <2>1
  <2>3. build_operand(values[i], lsb, msb) \subseteq lsb..msb
    BY <2>2, OperandInField, Zenon
  <2>4. Part1(i) \subseteq lsb..msb
    BY <2>3, Zenon DEF lsb, msb
  <2> HIDE DEF Part1, places
  <2> QED  BY <2>1, <2>2, <2>4, Zenon
<1>4. word = entry.mask \cup UNION {Part1(i) : i \in DOMAIN entry.operands}
  BY Zenon DEF WordOf
<1> HIDE DEF word, Part1, places
<1>5. word \subseteq places
  BY <1>2, <1>3, <1>4, Zenon
<1>6. word \cap entry.mmatch = entry.mask
  BY <1>2, <1>3, <1>4, Zenon
<1> QED  BY <1>5, <1>6, Zenon DEF word, places

\* What matches an entry has its length.
LEMMA MatchingLength ==
    ASSUME NEW entry \in InstructionSet, NEW word, word \cap entry.mmatch = entry.mask
    PROVE  entry.length = LengthOf(word)
<1>1. /\ entry.length \in {2, 4} /\ (entry.length = 4 <=> {0, 1} \subseteq entry.mask)
      /\ {0, 1} \subseteq entry.mmatch
  BY ProfileAssumption, Zenon DEF IsEntry
<1>2. {0, 1} \subseteq entry.mask <=> {0, 1} \subseteq word
  BY <1>1, Zenon
<1> QED  BY <1>1, <1>2 DEF LengthOf

\* What is known is decoded as an entry it matches.
LEMMA DecodedMatches ==
    ASSUME NEW word, IsKnown(word)
    PROVE  /\ Decoded(word) \in InstructionSet
           /\ word \cap Decoded(word).mmatch = Decoded(word).mask
<1> DEFINE M == Matching(word)
           i == CHOOSE i \in M : \A j \in M : i <= j
<1>1. M \subseteq Nat /\ M # {}
  <2>1. DOMAIN INSTRUCTIONS \subseteq Nat
    BY ProfileAssumption
  <2>2. M \subseteq DOMAIN INSTRUCTIONS
    BY Zenon DEF Matching
  <2>3. M # {}
    BY Zenon DEF IsKnown
  <2> QED  BY <2>1, <2>2, <2>3, Zenon
<1> HIDE DEF M
<1>2. \E k \in M : \A j \in M : k <= j
  <2>1. PICK k \in M : \A y \in M : <<y, k>> \notin Less
    BY LessIsWellFounded, <1>1, WFMin
  <2>2. ASSUME NEW j \in M PROVE k <= j
    <3>1. k \in Nat /\ j \in Nat /\ <<j, k>> \notin Less
      BY <1>1, <2>1
    <3> QED  BY <3>1 DEF Less
  <2> QED  BY <2>2
<1>3. i \in M
  BY <1>2, Zenon
<1>4. Decoded(word) = INSTRUCTIONS[i]
  BY Zenon DEF Decoded, M
<1> HIDE DEF i
<1> QED  BY <1>3, <1>4, Zenon DEF M, Matching, InstructionSet

\* Whatever the operands of an entry are, and not only those a mutator may draw, the
\* word (build_operand) keeps the entry's fixed bits, and is read again (decode) as an
\* entry of the same length.
THEOREM WhateverTheOperands ==
    ASSUME case.of = "word" =>
               case.entry \in InstructionSet /\ \E values : case.word = WordOf(case.entry, values)
    PROVE  EveryBuiltWordIsReadAgain
<1> SUFFICES ASSUME case.of = "word"
             PROVE  /\ case.word \cap case.entry.mmatch = case.entry.mask
                    /\ IsKnown(case.word)
                    /\ case.entry.length = LengthOf(case.word)
                    /\ Decoded(case.word).length = LengthOf(case.word)
  BY Zenon DEF EveryBuiltWordIsReadAgain
<1> DEFINE entry == case.entry
           word == case.word
<1>1. entry \in InstructionSet /\ \E values : word = WordOf(entry, values)
  OBVIOUS
<1> HIDE DEF entry, word
<1>2. word \cap entry.mmatch = entry.mask
  BY <1>1, WordOfIsFixed, Zenon
<1>3. IsKnown(word)
  BY <1>1, <1>2, Zenon DEF IsKnown, Matching, InstructionSet
<1>4. entry.length = LengthOf(word) /\ Decoded(word).length = LengthOf(word)
  BY <1>1, <1>2, <1>3, MatchingLength, DecodedMatches, Zenon
<1> QED  BY <1>2, <1>3, <1>4, Zenon DEF entry, word

\* And as bytes it is an instruction of the programs that the readers agree on.
LEMMA BytesOfWord ==
    ASSUME NEW word, NEW length \in {2, 4}, word \subseteq 0..(8 * length - 1)
    PROVE  /\ BytesOf(word, length) \in Seq(Octets) /\ Len(BytesOf(word, length)) = length
           /\ WordOfBytes(BytesOf(word, length)) = word
           /\ Long(BytesOf(word, length)[1]) <=> {0, 1} \subseteq word
<1> DEFINE bytes == BytesOf(word, length)
<1>1. \A k \in 1..length : \A b \in ByteOf(word, k - 1) :
          b \in 0..7 /\ b + 8 * (k - 1) \in word
  BY DEF ByteOf
<1>2. bytes = [k \in 1..length |-> ByteOf(word, k - 1)]
  BY Zenon DEF BytesOf
<1>3. \A k \in 1..length : ByteOf(word, k - 1) \in Octets
  BY <1>1, Zenon DEF Octets
<1>4. bytes \in Seq(Octets) /\ Len(bytes) = length /\ DOMAIN bytes = 1..length
      /\ \A k \in 1..length : bytes[k] = ByteOf(word, k - 1)
  BY <1>2, <1>3
<1> HIDE DEF bytes
<1>5. WordOfBytes(bytes) \subseteq word
  <2> SUFFICES ASSUME NEW n \in WordOfBytes(bytes) PROVE n \in word
    OBVIOUS
  <2>1. PICK k \in DOMAIN bytes : n \in {b + 8 * (k - 1) : b \in bytes[k]}
    BY Zenon DEF WordOfBytes
  <2>2. PICK b \in bytes[k] : n = b + 8 * (k - 1)
    BY <2>1
  <2> QED  BY <1>1, <1>4, <2>2, Zenon
<1>6. ASSUME NEW n \in word PROVE n \in WordOfBytes(bytes)
  <2> DEFINE k == (n \div 8) + 1
             b == n - 8 * (n \div 8)
  <2>1. n \in Nat /\ n <= 8 * length - 1
    OBVIOUS
  <2>2. k \in 1..length /\ n \div 8 = k - 1 /\ b + 8 * (k - 1) = n
    BY <2>1
  <2>3. b \in ByteOf(word, k - 1)
    BY <2>2, Zenon DEF ByteOf
  <2> HIDE DEF k, b
  <2>4. b \in bytes[k]
    BY <1>4, <2>2, <2>3, Zenon
  <2>5. k \in DOMAIN bytes /\ n \in {c + 8 * (k - 1) : c \in bytes[k]}
    BY <1>4, <2>2, <2>4, Zenon
  <2> QED  BY <2>5, Zenon DEF WordOfBytes
<1>7. Long(bytes[1]) <=> {0, 1} \subseteq word
  <2>1. bytes[1] = ByteOf(word, 0)
    BY <1>4
  <2>2. 0 \in ByteOf(word, 0) <=> 0 \in word
    BY DEF ByteOf
  <2>3. 1 \in ByteOf(word, 0) <=> 1 \in word
    BY DEF ByteOf
  <2> QED  BY <2>1, <2>2, <2>3, Zenon DEF Long
<1> QED  BY <1>4, <1>5, <1>6, <1>7, Zenon DEF bytes

\* What the mutators build is what ReadersAlwaysDivideAlike is about: its bytes
\* (ISAInput's) are an instruction of the table that tells its own length.
THEOREM BuiltIsWritten ==
    ASSUME NEW entry \in InstructionSet, NEW values
    PROVE  BytesOf(WordOf(entry, values), entry.length) \in WrittenKnown
<1> DEFINE word == WordOf(entry, values)
           length == entry.length
<1>1. word \cap entry.mmatch = entry.mask /\ word \subseteq 0..(8 * length - 1)
  BY WordOfIsFixed, Zenon
<1> HIDE DEF word
<1>2. length \in {2, 4}
  BY ProfileAssumption, Zenon DEF IsEntry
<1>3. length = LengthOf(word)
  BY <1>1, MatchingLength, Zenon
<1>4. IsKnown(word)
  BY <1>1, Zenon DEF IsKnown, Matching, InstructionSet
<1> HIDE DEF length
<1>5. /\ BytesOf(word, length) \in Seq(Octets) /\ Len(BytesOf(word, length)) = length
      /\ WordOfBytes(BytesOf(word, length)) = word
      /\ Long(BytesOf(word, length)[1]) <=> {0, 1} \subseteq word
  BY <1>1, <1>2, BytesOfWord, Zenon
<1>6. {0, 1} \subseteq word <=> length = 4
  BY <1>3 DEF LengthOf
<1>7. BytesOf(word, length) \in WrittenKnown
  BY <1>2, <1>4, <1>5, <1>6, Zenon DEF WrittenKnown, Written
<1> QED  BY <1>7, Zenon DEF word, length

-----------------------------------------------------------------------------
(* Offsets. *)

Doubled(f, word, lsb, width, n) ==
    IF n = 0 THEN 0 ELSE 2 * f[n - 1] + Bit(word, lsb + width - n)

IsDoubled(f, word, lsb, width, n) == f = [i \in 0..n |-> Doubled(f, word, lsb, width, i)]

\* The equation of Part has a solution, ...
LEMMA DoubledExists ==
    ASSUME NEW word, NEW lsb, NEW width
    PROVE  \A n \in Nat : \E f : IsDoubled(f, word, lsb, width, n)
<1> USE DEF IsDoubled
<1> DEFINE Sol(f, n) == f = [i \in 0..n |-> Doubled(f, word, lsb, width, i)]
           T == {n \in Nat : \E f : Sol(f, n)}
<1>1. 0 \in T
  <2> DEFINE f == [i \in 0..0 |-> 0]
  <2>1. \A i \in 0..0 : f[i] = Doubled(f, word, lsb, width, i)
    BY DEF Doubled
  <2>2. Sol(f, 0)
    BY <2>1, Zenon
  <2> HIDE DEF Sol
  <2> QED  BY <2>2
<1>2. ASSUME NEW n \in Nat, n \in T PROVE n + 1 \in T
  <2>1. PICK f : Sol(f, n)
    BY <1>2
  <2> DEFINE g == [i \in 0..(n + 1) |-> IF i = n + 1 THEN Doubled(f, word, lsb, width, i) ELSE f[i]]
  <2>2. ASSUME NEW i \in 0..(n + 1) PROVE g[i] = Doubled(g, word, lsb, width, i)
    <3>1. Doubled(g, word, lsb, width, i) = Doubled(f, word, lsb, width, i)
      <4>1. i # 0 => g[i - 1] = f[i - 1]
        OBVIOUS
      <4> HIDE DEF g
      <4> QED  BY <4>1, Zenon DEF Doubled
    <3>2. i # n + 1 => f[i] = Doubled(f, word, lsb, width, i)
      BY <2>1
    <3>3. g[i] = IF i = n + 1 THEN Doubled(f, word, lsb, width, i) ELSE f[i]
      BY Zenon
    <3> HIDE DEF g
    <3> QED  BY <3>1, <3>2, <3>3, Zenon
  <2>3. Sol(g, n + 1)
    BY <2>2, Zenon
  <2> HIDE DEF Sol
  <2> QED  BY <2>3
<1>3. Nat \subseteq T
  <2> HIDE DEF T
  <2> QED  BY <1>1, <1>2, SetInduction
<1> QED  BY <1>3

IsPart(f, word, lsb, width) ==
    /\ Part(word, lsb, width) = f[width] /\ f[0] = 0
    /\ \A n \in 1..width : f[n] = 2 * f[n - 1] + Bit(word, lsb + width - n)

\* ... so a part of a word is doubled for each of its bits.
LEMMA PartDef ==
    ASSUME NEW word, NEW lsb, NEW width \in Nat
    PROVE  \E f : IsPart(f, word, lsb, width)
<1> DEFINE g == CHOOSE f : IsDoubled(f, word, lsb, width, width)
<1>1. IsDoubled(g, word, lsb, width, width)
  BY DoubledExists, Zenon
<1>2. Part(word, lsb, width) = g[width]
  BY Zenon DEF Part, Doubled, IsDoubled
<1> HIDE DEF g
<1>3. \A n \in 0..width : g[n] = Doubled(g, word, lsb, width, n)
  BY <1>1, Zenon DEF IsDoubled
<1>4. g[0] = 0
  BY <1>3 DEF Doubled
<1>5. ASSUME NEW n \in 1..width PROVE g[n] = 2 * g[n - 1] + Bit(word, lsb + width - n)
  <2>1. n \in 0..width /\ n # 0
    OBVIOUS
  <2> QED  BY <1>3, <2>1, Zenon DEF Doubled
<1> QED  BY <1>2, <1>4, <1>5, Zenon DEF IsPart

LEMMA BitType == \A word, b : Bit(word, b) \in {0, 1}
BY DEF Bit

LEMMA PartOfOne ==
    ASSUME NEW word, NEW l \in Nat
    PROVE  Part(word, l, 1) =
                Bit(word, l)
<1>1. PICK f : IsPart(f, word, l, 1)
  <2>1. 1 \in Nat
    OBVIOUS
  <2> QED  BY <2>1, PartDef, Zenon
<1>2. /\ f[1] = 2 * f[0] + Bit(word, l)
  BY <1>1 DEF IsPart
<1>3. Part(word, l, 1) = f[1] /\ f[0] = 0
  BY <1>1, Zenon DEF IsPart
<1> QED  BY <1>2, <1>3, BitType

LEMMA PartOfTwo ==
    ASSUME NEW word, NEW l \in Nat
    PROVE  Part(word, l, 2) =
                Bit(word, l) + 2 * Bit(word, l + 1)
<1>1. PICK f : IsPart(f, word, l, 2)
  <2>1. 2 \in Nat
    OBVIOUS
  <2> QED  BY <2>1, PartDef, Zenon
<1>2. /\ f[1] = 2 * f[0] + Bit(word, l + 1)
      /\ f[2] = 2 * f[1] + Bit(word, l)
  BY <1>1 DEF IsPart
<1>3. Part(word, l, 2) = f[2] /\ f[0] = 0
  BY <1>1, Zenon DEF IsPart
<1> QED  BY <1>2, <1>3, BitType

LEMMA PartOfThree ==
    ASSUME NEW word, NEW l \in Nat
    PROVE  Part(word, l, 3) =
                Bit(word, l) + 2 * Bit(word, l + 1) + 4 * Bit(word, l + 2)
<1>1. PICK f : IsPart(f, word, l, 3)
  <2>1. 3 \in Nat
    OBVIOUS
  <2> QED  BY <2>1, PartDef, Zenon
<1>2. /\ f[1] = 2 * f[0] + Bit(word, l + 2)
      /\ f[2] = 2 * f[1] + Bit(word, l + 1)
      /\ f[3] = 2 * f[2] + Bit(word, l)
  BY <1>1 DEF IsPart
<1>3. Part(word, l, 3) = f[3] /\ f[0] = 0
  BY <1>1, Zenon DEF IsPart
<1> QED  BY <1>2, <1>3, BitType

LEMMA PartOfFour ==
    ASSUME NEW word, NEW l \in Nat
    PROVE  Part(word, l, 4) =
                Bit(word, l) + 2 * Bit(word, l + 1) + 4 * Bit(word, l + 2) +
                8 * Bit(word, l + 3)
<1>1. PICK f : IsPart(f, word, l, 4)
  <2>1. 4 \in Nat
    OBVIOUS
  <2> QED  BY <2>1, PartDef, Zenon
<1>2. /\ f[1] = 2 * f[0] + Bit(word, l + 3)
      /\ f[2] = 2 * f[1] + Bit(word, l + 2)
      /\ f[3] = 2 * f[2] + Bit(word, l + 1)
      /\ f[4] = 2 * f[3] + Bit(word, l)
  BY <1>1 DEF IsPart
<1>3. Part(word, l, 4) = f[4] /\ f[0] = 0
  BY <1>1, Zenon DEF IsPart
<1> QED  BY <1>2, <1>3, BitType

LEMMA PartOfSix ==
    ASSUME NEW word, NEW l \in Nat
    PROVE  Part(word, l, 6) =
                Bit(word, l) + 2 * Bit(word, l + 1) + 4 * Bit(word, l + 2) +
                8 * Bit(word, l + 3) + 16 * Bit(word, l + 4) + 32 * Bit(word, l + 5)
<1>1. PICK f : IsPart(f, word, l, 6)
  <2>1. 6 \in Nat
    OBVIOUS
  <2> QED  BY <2>1, PartDef, Zenon
<1>2. /\ f[1] = 2 * f[0] + Bit(word, l + 5)
      /\ f[2] = 2 * f[1] + Bit(word, l + 4)
      /\ f[3] = 2 * f[2] + Bit(word, l + 3)
      /\ f[4] = 2 * f[3] + Bit(word, l + 2)
      /\ f[5] = 2 * f[4] + Bit(word, l + 1)
      /\ f[6] = 2 * f[5] + Bit(word, l)
  BY <1>1 DEF IsPart
<1>3. Part(word, l, 6) = f[6] /\ f[0] = 0
  BY <1>1, Zenon DEF IsPart
<1> QED  BY <1>2, <1>3, BitType

LEMMA PartOfEight ==
    ASSUME NEW word, NEW l \in Nat
    PROVE  Part(word, l, 8) =
                Bit(word, l) + 2 * Bit(word, l + 1) + 4 * Bit(word, l + 2) +
                8 * Bit(word, l + 3) + 16 * Bit(word, l + 4) + 32 * Bit(word, l + 5) +
                64 * Bit(word, l + 6) + 128 * Bit(word, l + 7)
<1>1. PICK f : IsPart(f, word, l, 8)
  <2>1. 8 \in Nat
    OBVIOUS
  <2> QED  BY <2>1, PartDef, Zenon
<1>2. /\ f[1] = 2 * f[0] + Bit(word, l + 7)
      /\ f[2] = 2 * f[1] + Bit(word, l + 6)
      /\ f[3] = 2 * f[2] + Bit(word, l + 5)
      /\ f[4] = 2 * f[3] + Bit(word, l + 4)
      /\ f[5] = 2 * f[4] + Bit(word, l + 3)
      /\ f[6] = 2 * f[5] + Bit(word, l + 2)
      /\ f[7] = 2 * f[6] + Bit(word, l + 1)
      /\ f[8] = 2 * f[7] + Bit(word, l)
  BY <1>1 DEF IsPart
<1>3. Part(word, l, 8) = f[8] /\ f[0] = 0
  BY <1>1, Zenon DEF IsPart
<1> QED  BY <1>2, <1>3, BitType

LEMMA PartOfTen ==
    ASSUME NEW word, NEW l \in Nat
    PROVE  Part(word, l, 10) =
                Bit(word, l) + 2 * Bit(word, l + 1) + 4 * Bit(word, l + 2) +
                8 * Bit(word, l + 3) + 16 * Bit(word, l + 4) + 32 * Bit(word, l + 5) +
                64 * Bit(word, l + 6) + 128 * Bit(word, l + 7) + 256 * Bit(word, l + 8) +
                512 * Bit(word, l + 9)
<1>1. PICK f : IsPart(f, word, l, 10)
  <2>1. 10 \in Nat
    OBVIOUS
  <2> QED  BY <2>1, PartDef, Zenon
<1>2. /\ f[1] = 2 * f[0] + Bit(word, l + 9)
      /\ f[2] = 2 * f[1] + Bit(word, l + 8)
      /\ f[3] = 2 * f[2] + Bit(word, l + 7)
      /\ f[4] = 2 * f[3] + Bit(word, l + 6)
      /\ f[5] = 2 * f[4] + Bit(word, l + 5)
      /\ f[6] = 2 * f[5] + Bit(word, l + 4)
      /\ f[7] = 2 * f[6] + Bit(word, l + 3)
      /\ f[8] = 2 * f[7] + Bit(word, l + 2)
      /\ f[9] = 2 * f[8] + Bit(word, l + 1)
      /\ f[10] = 2 * f[9] + Bit(word, l)
  BY <1>1 DEF IsPart
<1>3. Part(word, l, 10) = f[10] /\ f[0] = 0
  BY <1>1, Zenon DEF IsPart
<1> QED  BY <1>2, <1>3, BitType

-----------------------------------------------------------------------------
\* An offset bit by bit: what is above a bit, and the bit.
Above(o, k) == o \div 2^k
Digit(o, k) == Above(o, k) % 2

IsHalved(o, k, h) ==
    /\ Above(o, k) \in Int /\ Above(o, h) \in Int /\ Digit(o, k) \in {0, 1}
    /\ Above(o, k) = 2 * Above(o, h) + Digit(o, k)

LEMMA Halved ==
    ASSUME NEW o \in Int
    PROVE  /\ Above(o, 0) = o /\ Digit(o, 0) = o % 2
           /\ IsHalved(o, 0, 1) /\ IsHalved(o, 1, 2) /\ IsHalved(o, 2, 3)
           /\ IsHalved(o, 3, 4) /\ IsHalved(o, 4, 5) /\ IsHalved(o, 5, 6)
           /\ IsHalved(o, 6, 7) /\ IsHalved(o, 7, 8) /\ IsHalved(o, 8, 9)
           /\ IsHalved(o, 9, 10) /\ IsHalved(o, 10, 11) /\ IsHalved(o, 11, 12)
           /\ IsHalved(o, 12, 13) /\ IsHalved(o, 13, 14) /\ IsHalved(o, 14, 15)
           /\ IsHalved(o, 15, 16) /\ IsHalved(o, 16, 17) /\ IsHalved(o, 17, 18)
           /\ IsHalved(o, 18, 19) /\ IsHalved(o, 19, 20) /\ IsHalved(o, 20, 21)
<1> USE DEF IsHalved, Above, Digit
<1>0. Above(o, 0) = o /\ Digit(o, 0) = o % 2
  OBVIOUS
<1>1. IsHalved(o, 0, 1)
  OBVIOUS
<1>2. IsHalved(o, 1, 2)
  OBVIOUS
<1>3. IsHalved(o, 2, 3)
  OBVIOUS
<1>4. IsHalved(o, 3, 4)
  OBVIOUS
<1>5. IsHalved(o, 4, 5)
  OBVIOUS
<1>6. IsHalved(o, 5, 6)
  OBVIOUS
<1>7. IsHalved(o, 6, 7)
  OBVIOUS
<1>8. IsHalved(o, 7, 8)
  OBVIOUS
<1>9. IsHalved(o, 8, 9)
  OBVIOUS
<1>10. IsHalved(o, 9, 10)
  OBVIOUS
<1>11. IsHalved(o, 10, 11)
  OBVIOUS
<1>12. IsHalved(o, 11, 12)
  OBVIOUS
<1>13. IsHalved(o, 12, 13)
  OBVIOUS
<1>14. IsHalved(o, 13, 14)
  OBVIOUS
<1>15. IsHalved(o, 14, 15)
  OBVIOUS
<1>16. IsHalved(o, 15, 16)
  OBVIOUS
<1>17. IsHalved(o, 16, 17)
  OBVIOUS
<1>18. IsHalved(o, 17, 18)
  OBVIOUS
<1>19. IsHalved(o, 18, 19)
  OBVIOUS
<1>20. IsHalved(o, 19, 20)
  OBVIOUS
<1>21. IsHalved(o, 20, 21)
  OBVIOUS
<1> HIDE DEF IsHalved, Above, Digit
<1> QED  BY <1>0, <1>1, <1>2, <1>3, <1>4, <1>5, <1>6, <1>7, <1>8, <1>9, <1>10,
            <1>11, <1>12, <1>13, <1>14, <1>15, <1>16, <1>17, <1>18, <1>19, <1>20, <1>21, Zenon

\* What is read with its highest bit for a sign is the offset, if that is even and
\* in the range.
LEMMA SignedIsExact ==
    ASSUME NEW o \in Int, NEW low \in Nat, NEW first \in {0, 1}, NEW sign \in {0, 1},
           NEW above \in Int, NEW half \in {256, 2048, 4096, 1048576},
           low <= half - 2, low % 2 = 0,
           o = first + low + half * sign + 2 * half * above
    PROVE  low - half * sign = o <=> Even(o) /\ Within(o, half)
<1>1. CASE half = 256
  BY <1>1 DEF Even, Within
<1>2. CASE half = 2048
  BY <1>2 DEF Even, Within
<1>3. CASE half = 4096
  BY <1>3 DEF Even, Within
<1>4. CASE half = 1048576
  BY <1>4 DEF Even, Within
<1> QED  BY <1>1, <1>2, <1>3, <1>4

\* The bits of what is placed.
LEMMA PlacedBit ==
    ASSUME NEW o \in Int, NEW from \in Nat, NEW width \in Nat, NEW to \in Nat, NEW p \in Nat
    PROVE  /\ p \in Placed(o, from, width, to) =>
                 to <= p /\ p < to + width /\ Digit(o, from + (p - to)) = 1
           /\ to <= p /\ p < to + width /\ Digit(o, from + (p - to)) = 1
                 => p \in Placed(o, from, width, to)
<1>1. ASSUME p \in Placed(o, from, width, to)
      PROVE  to <= p /\ p < to + width /\ Digit(o, from + (p - to)) = 1
  <2>1. PICK b \in 0..(width - 1) : (o \div 2^(from + b)) % 2 = 1 /\ p = to + b
    BY <1>1, Zenon DEF Placed
  <2>2. b = p - to /\ to <= p /\ p < to + width
    BY <2>1
  <2> QED  BY <2>1, <2>2, Zenon DEF Digit, Above
<1>2. ASSUME to <= p, p < to + width, Digit(o, from + (p - to)) = 1
      PROVE  p \in Placed(o, from, width, to)
  <2> DEFINE b == p - to
  <2>1. b \in 0..(width - 1) /\ p = to + b
    BY <1>2
  <2>2. (o \div 2^(from + b)) % 2 = 1
    BY <1>2, Zenon DEF Digit, Above
  <2> HIDE DEF b
  <2> QED  BY <2>1, <2>2, Zenon DEF Placed
<1> QED  BY <1>1, <1>2, Zenon

\* Above each bit of an offset is what is twice above the next, and the bit.
AllHalved(o) == \A k \in 0..20 : IsHalved(o, k, k + 1)

LEMMA AllAreHalved == \A o \in Int : AllHalved(o)
<1> SUFFICES ASSUME NEW o \in Int, NEW k \in 0..20
             PROVE  IsHalved(o, k, k + 1)
  BY Zenon DEF AllHalved
<1>1. CASE k <= 6
  BY <1>1, Halved
<1>2. CASE k > 6 /\ k <= 13
  BY <1>2, Halved
<1>3. CASE k > 13
  BY <1>3, Halved
<1> QED  BY <1>1, <1>2, <1>3

\* A word holds some bits of an offset in a field of its own.
Holds(w, o, from, width, to) ==
    \A p \in to..(to + width - 1) : p \in w <=> p \in Placed(o, from, width, to)

LEMMA PlacedRange ==
    ASSUME NEW o, NEW from, NEW width \in Nat, NEW to \in Nat
    PROVE  \A p \in Placed(o, from, width, to) : p \in Nat /\ to <= p /\ p < to + width
BY DEF Placed

LEMMA IsPlaced ==
    ASSUME NEW o \in Int, NEW from \in Nat, NEW width \in Nat, NEW to \in Nat, NEW p \in Nat,
           NEW k \in Nat, to <= p, p < to + width, p + from = k + to
    PROVE  p \in Placed(o, from, width, to) <=> Digit(o, k) = 1
<1>1. k = from + (p - to)
  OBVIOUS
<1> QED  BY <1>1, PlacedBit

LEMMA HoldsBits ==
    ASSUME NEW o \in Int, NEW from \in Nat, NEW width \in Nat, NEW to \in Nat, NEW w,
           Holds(w, o, from, width, to), from + width <= 21
    PROVE  \A i \in 0..(width - 1) : Bit(w, to + i) = Digit(o, from + i)
<1> SUFFICES ASSUME NEW i \in 0..(width - 1) PROVE Bit(w, to + i) = Digit(o, from + i)
  OBVIOUS
<1> DEFINE p == to + i
           k == from + i
<1>1. /\ p \in to..(to + width - 1) /\ p \in Nat /\ to <= p /\ p < to + width
      /\ k \in Nat /\ k = from + (p - to) /\ k \in 0..20
  OBVIOUS
<1> HIDE DEF p, k
<1>2. p \in w <=> p \in Placed(o, from, width, to)
  BY <1>1, Zenon DEF Holds
<1>3. p \in Placed(o, from, width, to) <=> Digit(o, k) = 1
  <2>1. /\ p \in Placed(o, from, width, to) =>
               to <= p /\ p < to + width /\ Digit(o, from + (p - to)) = 1
        /\ to <= p /\ p < to + width /\ Digit(o, from + (p - to)) = 1
               => p \in Placed(o, from, width, to)
    BY <1>1, PlacedBit, Zenon
  <2> QED  BY <1>1, <2>1, Zenon
<1>4. Digit(o, k) \in {0, 1}
  BY <1>1, AllAreHalved, Zenon DEF AllHalved, IsHalved
<1>5. Bit(w, p) = Digit(o, k)
  BY <1>2, <1>3, <1>4 DEF Bit
<1> QED  BY <1>5 DEF p, k

\* So a field of a word is read as the bits of the offset that it holds.
LEMMA FieldOfOne ==
    ASSUME NEW o \in Int, NEW k \in Nat, NEW l \in Nat, NEW w, Holds(w, o, k, 1, l),
           k + 1 <= 21
    PROVE  /\ Above(o, k) = Part(w, l, 1) + 2 * Above(o, k + 1)
           /\ Part(w, l, 1) \in 0..1
<1>1. /\ Bit(w, l) = Digit(o, k)
  <2> DEFINE n == 1
  <2>1. n \in Nat /\ 0 \in 0..(n - 1) /\ l + 0 = l /\ k + 0 = k
    OBVIOUS
  <2>2. Holds(w, o, k, n, l) /\ k + n <= 21
    OBVIOUS
  <2> HIDE DEF n
  <2>3. \A i \in 0..(n - 1) : Bit(w, l + i) = Digit(o, k + i)
    BY <2>1, <2>2, HoldsBits
  <2>4. Bit(w, l + 0) = Digit(o, k + 0)
    BY <2>1, <2>3, Zenon
  <2> QED  BY <2>1, <2>4, Zenon
<1>2. /\ IsHalved(o, k, k + 1)
  <2>1. AllHalved(o)
    BY AllAreHalved, Zenon
  <2> QED  BY <2>1 DEF AllHalved
<1> QED  BY <1>1, <1>2, PartOfOne DEF IsHalved

LEMMA FieldOfTwo ==
    ASSUME NEW o \in Int, NEW k \in Nat, NEW l \in Nat, NEW w, Holds(w, o, k, 2, l),
           k + 2 <= 21
    PROVE  /\ Above(o, k) = Part(w, l, 2) + 4 * Above(o, k + 2)
           /\ Part(w, l, 2) \in 0..3
<1>1. /\ Bit(w, l) = Digit(o, k)
      /\ Bit(w, l + 1) = Digit(o, k + 1)
  <2>1. \A i \in 0..1 : Bit(w, l + i) = Digit(o, k + i)
    BY HoldsBits
  <2> QED  BY <2>1
<1>2. /\ IsHalved(o, k, k + 1)
      /\ IsHalved(o, k + 1, k + 2)
  <2>1. AllHalved(o)
    BY AllAreHalved, Zenon
  <2> QED  BY <2>1 DEF AllHalved
<1> QED  BY <1>1, <1>2, PartOfTwo DEF IsHalved

LEMMA FieldOfThree ==
    ASSUME NEW o \in Int, NEW k \in Nat, NEW l \in Nat, NEW w, Holds(w, o, k, 3, l),
           k + 3 <= 21
    PROVE  /\ Above(o, k) = Part(w, l, 3) + 8 * Above(o, k + 3)
           /\ Part(w, l, 3) \in 0..7
<1>1. /\ Bit(w, l) = Digit(o, k)
      /\ Bit(w, l + 1) = Digit(o, k + 1)
      /\ Bit(w, l + 2) = Digit(o, k + 2)
  <2>1. \A i \in 0..2 : Bit(w, l + i) = Digit(o, k + i)
    BY HoldsBits
  <2> QED  BY <2>1
<1>2. /\ IsHalved(o, k, k + 1)
      /\ IsHalved(o, k + 1, k + 2)
      /\ IsHalved(o, k + 2, k + 3)
  <2>1. AllHalved(o)
    BY AllAreHalved, Zenon
  <2> QED  BY <2>1 DEF AllHalved
<1> QED  BY <1>1, <1>2, PartOfThree DEF IsHalved

LEMMA FieldOfFour ==
    ASSUME NEW o \in Int, NEW k \in Nat, NEW l \in Nat, NEW w, Holds(w, o, k, 4, l),
           k + 4 <= 21
    PROVE  /\ Above(o, k) = Part(w, l, 4) + 16 * Above(o, k + 4)
           /\ Part(w, l, 4) \in 0..15
<1>1. /\ Bit(w, l) = Digit(o, k)
      /\ Bit(w, l + 1) = Digit(o, k + 1)
      /\ Bit(w, l + 2) = Digit(o, k + 2)
      /\ Bit(w, l + 3) = Digit(o, k + 3)
  <2>1. \A i \in 0..3 : Bit(w, l + i) = Digit(o, k + i)
    BY HoldsBits
  <2> QED  BY <2>1
<1>2. /\ IsHalved(o, k, k + 1)
      /\ IsHalved(o, k + 1, k + 2)
      /\ IsHalved(o, k + 2, k + 3)
      /\ IsHalved(o, k + 3, k + 4)
  <2>1. AllHalved(o)
    BY AllAreHalved, Zenon
  <2> QED  BY <2>1 DEF AllHalved
<1> QED  BY <1>1, <1>2, PartOfFour DEF IsHalved

LEMMA FieldOfSix ==
    ASSUME NEW o \in Int, NEW k \in Nat, NEW l \in Nat, NEW w, Holds(w, o, k, 6, l),
           k + 6 <= 21
    PROVE  /\ Above(o, k) = Part(w, l, 6) + 64 * Above(o, k + 6)
           /\ Part(w, l, 6) \in 0..63
<1>1. /\ Bit(w, l) = Digit(o, k)
      /\ Bit(w, l + 1) = Digit(o, k + 1)
      /\ Bit(w, l + 2) = Digit(o, k + 2)
      /\ Bit(w, l + 3) = Digit(o, k + 3)
      /\ Bit(w, l + 4) = Digit(o, k + 4)
      /\ Bit(w, l + 5) = Digit(o, k + 5)
  <2>1. \A i \in 0..5 : Bit(w, l + i) = Digit(o, k + i)
    BY HoldsBits
  <2> QED  BY <2>1
<1>2. /\ IsHalved(o, k, k + 1)
      /\ IsHalved(o, k + 1, k + 2)
      /\ IsHalved(o, k + 2, k + 3)
      /\ IsHalved(o, k + 3, k + 4)
      /\ IsHalved(o, k + 4, k + 5)
      /\ IsHalved(o, k + 5, k + 6)
  <2>1. AllHalved(o)
    BY AllAreHalved, Zenon
  <2> QED  BY <2>1 DEF AllHalved
<1> QED  BY <1>1, <1>2, PartOfSix DEF IsHalved

LEMMA FieldOfEight ==
    ASSUME NEW o \in Int, NEW k \in Nat, NEW l \in Nat, NEW w, Holds(w, o, k, 8, l),
           k + 8 <= 21
    PROVE  /\ Above(o, k) = Part(w, l, 8) + 256 * Above(o, k + 8)
           /\ Part(w, l, 8) \in 0..255
<1>1. /\ Bit(w, l) = Digit(o, k)
      /\ Bit(w, l + 1) = Digit(o, k + 1)
      /\ Bit(w, l + 2) = Digit(o, k + 2)
      /\ Bit(w, l + 3) = Digit(o, k + 3)
      /\ Bit(w, l + 4) = Digit(o, k + 4)
      /\ Bit(w, l + 5) = Digit(o, k + 5)
      /\ Bit(w, l + 6) = Digit(o, k + 6)
      /\ Bit(w, l + 7) = Digit(o, k + 7)
  <2>1. \A i \in 0..7 : Bit(w, l + i) = Digit(o, k + i)
    BY HoldsBits
  <2> QED  BY <2>1
<1>2. /\ IsHalved(o, k, k + 1)
      /\ IsHalved(o, k + 1, k + 2)
      /\ IsHalved(o, k + 2, k + 3)
      /\ IsHalved(o, k + 3, k + 4)
      /\ IsHalved(o, k + 4, k + 5)
      /\ IsHalved(o, k + 5, k + 6)
      /\ IsHalved(o, k + 6, k + 7)
      /\ IsHalved(o, k + 7, k + 8)
  <2>1. AllHalved(o)
    BY AllAreHalved, Zenon
  <2> QED  BY <2>1 DEF AllHalved
<1>3. Above(o, k) =
        Digit(o, k) + 2 * Digit(o, k + 1) + 4 * Digit(o, k + 2) + 8 * Digit(o, k + 3) +
        16 * Above(o, k + 4)
  BY <1>2 DEF IsHalved
<1>4. Above(o, k + 4) =
        Digit(o, k + 4) + 2 * Digit(o, k + 5) + 4 * Digit(o, k + 6) +
        8 * Digit(o, k + 7) + 16 * Above(o, k + 8)
  BY <1>2 DEF IsHalved
<1>5. Part(w, l, 8) =
        Digit(o, k) + 2 * Digit(o, k + 1) + 4 * Digit(o, k + 2) + 8 * Digit(o, k + 3) +
        16 * Digit(o, k + 4) + 32 * Digit(o, k + 5) + 64 * Digit(o, k + 6) +
        128 * Digit(o, k + 7)
  BY <1>1, PartOfEight
<1>6. /\ Digit(o, k) \in {0, 1}
      /\ Digit(o, k + 1) \in {0, 1}
      /\ Digit(o, k + 2) \in {0, 1}
      /\ Digit(o, k + 3) \in {0, 1}
      /\ Digit(o, k + 4) \in {0, 1}
      /\ Digit(o, k + 5) \in {0, 1}
      /\ Digit(o, k + 6) \in {0, 1}
      /\ Digit(o, k + 7) \in {0, 1}
      /\ Above(o, k + 4) \in Int /\ Above(o, k + 8) \in Int
  BY <1>2, Zenon DEF IsHalved
<1>7. Part(w, l, 8) \in 0..255
  BY <1>5, <1>6
<1>8. Above(o, k) = Part(w, l, 8) + 256 * Above(o, k + 8)
  BY <1>3, <1>4, <1>5, <1>6
<1> QED  BY <1>7, <1>8

LEMMA FieldOfTen ==
    ASSUME NEW o \in Int, NEW k \in Nat, NEW l \in Nat, NEW w, Holds(w, o, k, 10, l),
           k + 10 <= 21
    PROVE  /\ Above(o, k) = Part(w, l, 10) + 1024 * Above(o, k + 10)
           /\ Part(w, l, 10) \in 0..1023
<1>1. /\ Bit(w, l) = Digit(o, k)
      /\ Bit(w, l + 1) = Digit(o, k + 1)
      /\ Bit(w, l + 2) = Digit(o, k + 2)
      /\ Bit(w, l + 3) = Digit(o, k + 3)
      /\ Bit(w, l + 4) = Digit(o, k + 4)
      /\ Bit(w, l + 5) = Digit(o, k + 5)
      /\ Bit(w, l + 6) = Digit(o, k + 6)
      /\ Bit(w, l + 7) = Digit(o, k + 7)
      /\ Bit(w, l + 8) = Digit(o, k + 8)
      /\ Bit(w, l + 9) = Digit(o, k + 9)
  <2>1. \A i \in 0..9 : Bit(w, l + i) = Digit(o, k + i)
    BY HoldsBits
  <2> QED  BY <2>1
<1>2. /\ IsHalved(o, k, k + 1)
      /\ IsHalved(o, k + 1, k + 2)
      /\ IsHalved(o, k + 2, k + 3)
      /\ IsHalved(o, k + 3, k + 4)
      /\ IsHalved(o, k + 4, k + 5)
      /\ IsHalved(o, k + 5, k + 6)
      /\ IsHalved(o, k + 6, k + 7)
      /\ IsHalved(o, k + 7, k + 8)
      /\ IsHalved(o, k + 8, k + 9)
      /\ IsHalved(o, k + 9, k + 10)
  <2>1. AllHalved(o)
    BY AllAreHalved, Zenon
  <2> QED  BY <2>1 DEF AllHalved
<1>3. Above(o, k) =
        Digit(o, k) + 2 * Digit(o, k + 1) + 4 * Digit(o, k + 2) + 8 * Digit(o, k + 3) +
        16 * Digit(o, k + 4) + 32 * Above(o, k + 5)
  BY <1>2 DEF IsHalved
<1>4. Above(o, k + 5) =
        Digit(o, k + 5) + 2 * Digit(o, k + 6) + 4 * Digit(o, k + 7) +
        8 * Digit(o, k + 8) + 16 * Digit(o, k + 9) + 32 * Above(o, k + 10)
  BY <1>2 DEF IsHalved
<1>5. Part(w, l, 10) =
        Digit(o, k) + 2 * Digit(o, k + 1) + 4 * Digit(o, k + 2) + 8 * Digit(o, k + 3) +
        16 * Digit(o, k + 4) + 32 * Digit(o, k + 5) + 64 * Digit(o, k + 6) +
        128 * Digit(o, k + 7) + 256 * Digit(o, k + 8) + 512 * Digit(o, k + 9)
  BY <1>1, PartOfTen
<1>6. /\ Digit(o, k) \in {0, 1}
      /\ Digit(o, k + 1) \in {0, 1}
      /\ Digit(o, k + 2) \in {0, 1}
      /\ Digit(o, k + 3) \in {0, 1}
      /\ Digit(o, k + 4) \in {0, 1}
      /\ Digit(o, k + 5) \in {0, 1}
      /\ Digit(o, k + 6) \in {0, 1}
      /\ Digit(o, k + 7) \in {0, 1}
      /\ Digit(o, k + 8) \in {0, 1}
      /\ Digit(o, k + 9) \in {0, 1}
      /\ Above(o, k + 5) \in Int /\ Above(o, k + 10) \in Int
  BY <1>2, Zenon DEF IsHalved
<1>7. Part(w, l, 10) \in 0..1023
  BY <1>5, <1>6
<1>8. Above(o, k) = Part(w, l, 10) + 1024 * Above(o, k + 10)
  BY <1>3, <1>4, <1>5, <1>6
<1> QED  BY <1>7, <1>8

\* A bit of a number, and which bits the opcodes have.
LEMMA BitsAre ==
    ASSUME NEW v \in Nat, NEW b \in Bits(v)
    PROVE  /\ b \in 0..15
           /\ b = 0 => (v \div 1) % 2 = 1
           /\ b = 1 => (v \div 2) % 2 = 1
           /\ b = 2 => (v \div 4) % 2 = 1
           /\ b = 3 => (v \div 8) % 2 = 1
           /\ b = 4 => (v \div 16) % 2 = 1
           /\ b = 5 => (v \div 32) % 2 = 1
           /\ b = 6 => (v \div 64) % 2 = 1
           /\ b = 7 => (v \div 128) % 2 = 1
           /\ b = 8 => (v \div 256) % 2 = 1
           /\ b = 9 => (v \div 512) % 2 = 1
           /\ b = 10 => (v \div 1024) % 2 = 1
           /\ b = 11 => (v \div 2048) % 2 = 1
           /\ b = 12 => (v \div 4096) % 2 = 1
           /\ b = 13 => (v \div 8192) % 2 = 1
           /\ b = 14 => (v \div 16384) % 2 = 1
           /\ b = 15 => (v \div 32768) % 2 = 1
<1>1. b \in 0..15 /\ (v \div 2^b) % 2 = 1
  BY DEF Bits
<1>2. ASSUME b = 0 PROVE (v \div 1) % 2 = 1
  <2>1. 2^0 = 1
    OBVIOUS
  <2> QED  BY <1>1, <1>2, <2>1, Zenon
<1>3. ASSUME b = 1 PROVE (v \div 2) % 2 = 1
  <2>1. 2^1 = 2
    OBVIOUS
  <2> QED  BY <1>1, <1>3, <2>1, Zenon
<1>4. ASSUME b = 2 PROVE (v \div 4) % 2 = 1
  <2>1. 2^2 = 4
    OBVIOUS
  <2> QED  BY <1>1, <1>4, <2>1, Zenon
<1>5. ASSUME b = 3 PROVE (v \div 8) % 2 = 1
  <2>1. 2^3 = 8
    OBVIOUS
  <2> QED  BY <1>1, <1>5, <2>1, Zenon
<1>6. ASSUME b = 4 PROVE (v \div 16) % 2 = 1
  <2>1. 2^4 = 16
    OBVIOUS
  <2> QED  BY <1>1, <1>6, <2>1, Zenon
<1>7. ASSUME b = 5 PROVE (v \div 32) % 2 = 1
  <2>1. 2^5 = 32
    OBVIOUS
  <2> QED  BY <1>1, <1>7, <2>1, Zenon
<1>8. ASSUME b = 6 PROVE (v \div 64) % 2 = 1
  <2>1. 2^6 = 64
    OBVIOUS
  <2> QED  BY <1>1, <1>8, <2>1, Zenon
<1>9. ASSUME b = 7 PROVE (v \div 128) % 2 = 1
  <2>1. 2^7 = 128
    OBVIOUS
  <2> QED  BY <1>1, <1>9, <2>1, Zenon
<1>10. ASSUME b = 8 PROVE (v \div 256) % 2 = 1
  <2>1. 2^8 = 256
    OBVIOUS
  <2> QED  BY <1>1, <1>10, <2>1, Zenon
<1>11. ASSUME b = 9 PROVE (v \div 512) % 2 = 1
  <2>1. 2^9 = 512
    OBVIOUS
  <2> QED  BY <1>1, <1>11, <2>1, Zenon
<1>12. ASSUME b = 10 PROVE (v \div 1024) % 2 = 1
  <2>1. (v \div 2^10) % 2 = 1
    BY <1>1, <1>12, Zenon
  <2> QED  BY <2>1
<1>13. ASSUME b = 11 PROVE (v \div 2048) % 2 = 1
  <2>1. (v \div 2^11) % 2 = 1
    BY <1>1, <1>13, Zenon
  <2> QED  BY <2>1
<1>14. ASSUME b = 12 PROVE (v \div 4096) % 2 = 1
  <2>1. (v \div 2^12) % 2 = 1
    BY <1>1, <1>14, Zenon
  <2> QED  BY <2>1
<1>15. ASSUME b = 13 PROVE (v \div 8192) % 2 = 1
  <2>1. (v \div 2^13) % 2 = 1
    BY <1>1, <1>15, Zenon
  <2> QED  BY <2>1
<1>16. ASSUME b = 14 PROVE (v \div 16384) % 2 = 1
  <2>1. (v \div 2^14) % 2 = 1
    BY <1>1, <1>16, Zenon
  <2> QED  BY <2>1
<1>17. ASSUME b = 15 PROVE (v \div 32768) % 2 = 1
  <2>1. (v \div 2^15) % 2 = 1
    BY <1>1, <1>17, Zenon
  <2> QED  BY <2>1
<1> QED  BY <1>1, <1>2, <1>3, <1>4, <1>5, <1>6, <1>7, <1>8, <1>9, <1>10, <1>11, <1>12,
            <1>13, <1>14, <1>15, <1>16, <1>17

LEMMA Opcode63 ==
    0 \in Word(<<0, \h63>>) /\ \A p \in Word(<<0, \h63>>) : p \in {0, 1, 5, 6}
<1>1. Bits(0) = {}
  <2>1. ASSUME NEW b \in Bits(0) PROVE FALSE
    BY <2>1, BitsAre
  <2> QED  BY <2>1
<1>2. ASSUME NEW b \in Bits(\h63) PROVE b \in {0, 1, 5, 6}
  BY <1>2, BitsAre
<1>3. 0 \in Bits(\h63)
  BY DEF Bits
<1>4. Word(<<0, \h63>>) = Bits(\h63) \cup {b + 16 : b \in Bits(0)}
  BY DEF Word
<1> QED  BY <1>1, <1>2, <1>3, <1>4

LEMMA Opcodea001 ==
    0 \in Word(<<0, \ha001>>) /\ \A p \in Word(<<0, \ha001>>) : p \in {0, 13, 15}
<1>1. Bits(0) = {}
  <2>1. ASSUME NEW b \in Bits(0) PROVE FALSE
    BY <2>1, BitsAre
  <2> QED  BY <2>1
<1>2. ASSUME NEW b \in Bits(\ha001) PROVE b \in {0, 13, 15}
  BY <1>2, BitsAre
<1>3. 0 \in Bits(\ha001)
  BY DEF Bits
<1>4. Word(<<0, \ha001>>) = Bits(\ha001) \cup {b + 16 : b \in Bits(0)}
  BY DEF Word
<1> QED  BY <1>1, <1>2, <1>3, <1>4

LEMMA Opcodec001 ==
    0 \in Word(<<0, \hc001>>) /\ \A p \in Word(<<0, \hc001>>) : p \in {0, 14, 15}
<1>1. Bits(0) = {}
  <2>1. ASSUME NEW b \in Bits(0) PROVE FALSE
    BY <2>1, BitsAre
  <2> QED  BY <2>1
<1>2. ASSUME NEW b \in Bits(\hc001) PROVE b \in {0, 14, 15}
  BY <1>2, BitsAre
<1>3. 0 \in Bits(\hc001)
  BY DEF Bits
<1>4. Word(<<0, \hc001>>) = Bits(\hc001) \cup {b + 16 : b \in Bits(0)}
  BY DEF Word
<1> QED  BY <1>1, <1>2, <1>3, <1>4

LEMMA Opcodee001 ==
    0 \in Word(<<0, \he001>>) /\ \A p \in Word(<<0, \he001>>) : p \in {0, 13, 14, 15}
<1>1. Bits(0) = {}
  <2>1. ASSUME NEW b \in Bits(0) PROVE FALSE
    BY <2>1, BitsAre
  <2> QED  BY <2>1
<1>2. ASSUME NEW b \in Bits(\he001) PROVE b \in {0, 13, 14, 15}
  BY <1>2, BitsAre
<1>3. 0 \in Bits(\he001)
  BY DEF Bits
<1>4. Word(<<0, \he001>>) = Bits(\he001) \cup {b + 16 : b \in Bits(0)}
  BY DEF Word
<1> QED  BY <1>1, <1>2, <1>3, <1>4

LEMMA Opcode6f ==
    0 \in Word(<<0, \h6f>>) /\ \A p \in Word(<<0, \h6f>>) : p \in {0, 1, 2, 3, 5, 6}
<1>1. Bits(0) = {}
  <2>1. ASSUME NEW b \in Bits(0) PROVE FALSE
    BY <2>1, BitsAre
  <2> QED  BY <2>1
<1>2. ASSUME NEW b \in Bits(\h6f) PROVE b \in {0, 1, 2, 3, 5, 6}
  BY <1>2, BitsAre
<1>3. 0 \in Bits(\h6f)
  BY DEF Bits
<1>4. Word(<<0, \h6f>>) = Bits(\h6f) \cup {b + 16 : b \in Bits(0)}
  BY DEF Word
<1> QED  BY <1>1, <1>2, <1>3, <1>4

\* gen_branch refuses what BOffset would not read.
LEMMA BranchIsExact ==
    ASSUME NEW o \in Int
    PROVE  gen_branch(1, 2, o, 0, TRUE) # Err <=> BOffset(gen_branch(1, 2, o, 0, FALSE)) = o
<1> DEFINE w == gen_branch(1, 2, o, 0, FALSE)
           base == Word(<<0, \h63>>)
           operands == Placed(0, 0, 3, 12) \cup Placed(1, 0, 5, 15) \cup Placed(2, 0, 5, 20)
           field1 == Placed(o, 1, 4, 8)
           field2 == Placed(o, 5, 6, 25)
           field3 == Placed(o, 11, 1, 7)
           field4 == Placed(o, 12, 1, 31)
           reach == 4096
<1>1. w = base \cup operands \cup field1 \cup field2 \cup field3 \cup field4
  BY DEF gen_branch, Checked
<1>2. /\ Even(o) /\ Within(o, reach) => gen_branch(1, 2, o, 0, TRUE) = w
      /\ ~(Even(o) /\ Within(o, reach)) => gen_branch(1, 2, o, 0, TRUE) = Err
  BY DEF gen_branch, Checked
<1>3. 0 \in base /\ \A p \in base : p \in {0, 1, 5, 6}
  BY Opcode63
<1>4. \A p \in operands : p \in Nat /\ 12 <= p /\ p < 25
  BY PlacedRange
<1>5. \A p \in field1 : p \in Nat /\ 8 <= p /\ p < 12
  BY PlacedRange
<1>6. \A p \in field2 : p \in Nat /\ 25 <= p /\ p < 31
  BY PlacedRange
<1>7. \A p \in field3 : p \in Nat /\ 7 <= p /\ p < 8
  BY PlacedRange
<1>8. \A p \in field4 : p \in Nat /\ 31 <= p /\ p < 32
  BY PlacedRange
<1> HIDE DEF w, base, operands, field1, field2, field3, field4, reach
<1>9. Holds(w, o, 1, 4, 8)
  <2>1. ASSUME NEW p \in Int, 8 <= p, p < 12 PROVE p \in w <=> p \in field1
    BY <2>1, <1>1, <1>3, <1>4, <1>5, <1>6, <1>7, <1>8
  <2> QED  BY <2>1 DEF Holds, field1
<1>10. Holds(w, o, 5, 6, 25)
  <2>1. ASSUME NEW p \in Int, 25 <= p, p < 31 PROVE p \in w <=> p \in field2
    BY <2>1, <1>1, <1>3, <1>4, <1>5, <1>6, <1>7, <1>8
  <2> QED  BY <2>1 DEF Holds, field2
<1>11. Holds(w, o, 11, 1, 7)
  <2>1. ASSUME NEW p \in Int, 7 <= p, p < 8 PROVE p \in w <=> p \in field3
    BY <2>1, <1>1, <1>3, <1>4, <1>5, <1>6, <1>7, <1>8
  <2> QED  BY <2>1 DEF Holds, field3
<1>12. Holds(w, o, 12, 1, 31)
  <2>1. ASSUME NEW p \in Int, 31 <= p, p < 32 PROVE p \in w <=> p \in field4
    BY <2>1, <1>1, <1>3, <1>4, <1>5, <1>6, <1>7, <1>8
  <2> QED  BY <2>1 DEF Holds, field4
<1>13. /\ Above(o, 1) = Part(w, 8, 4) + 16 * Above(o, 5)
      /\ Part(w, 8, 4) \in 0..15
  BY <1>9, FieldOfFour
<1>14. /\ Above(o, 5) = Part(w, 25, 6) + 64 * Above(o, 11)
      /\ Part(w, 25, 6) \in 0..63
  BY <1>10, FieldOfSix
<1>15. /\ Above(o, 11) = Part(w, 7, 1) + 2 * Above(o, 12)
      /\ Part(w, 7, 1) \in 0..1
  BY <1>11, FieldOfOne
<1>16. /\ Above(o, 12) = Part(w, 31, 1) + 2 * Above(o, 13)
      /\ Part(w, 31, 1) \in 0..1
  BY <1>12, FieldOfOne
<1> DEFINE part1 == Part(w, 8, 4)
           part2 == Part(w, 25, 6)
           part3 == Part(w, 7, 1)
           sign == Part(w, 31, 1)
           half == part1 + 16 * part2 + 1024 * part3
           low == 2 * half
<1>17. /\ part1 \in 0..15 /\ Above(o, 1) = part1 + 16 * Above(o, 5)
      /\ part2 \in 0..63 /\ Above(o, 5) = part2 + 64 * Above(o, 11)
      /\ part3 \in 0..1 /\ Above(o, 11) = part3 + 2 * Above(o, 12)
      /\ sign \in 0..1 /\ Above(o, 12) = sign + 2 * Above(o, 13)
  BY <1>13, <1>14, <1>15, <1>16
<1>18. BOffset(w) = low - 4096 * sign
  BY <1>13, <1>14, <1>15, <1>16 DEF BOffset
<1> HIDE DEF part1, part2, part3, sign
<1>19. half \in Nat /\ half <= 2047
  BY <1>17
<1>20. /\ o % 2 \in {0, 1} /\ o = (o % 2) + 2 * Above(o, 1)
      /\ Above(o, 1) \in Int /\ Above(o, 5) \in Int /\ Above(o, 11) \in Int
      /\ Above(o, 12) \in Int /\ Above(o, 13) \in Int
  <2>1. /\ Above(o, 0) = o /\ Digit(o, 0) = o % 2 /\ IsHalved(o, 0, 1)
        /\ IsHalved(o, 4, 5) /\ IsHalved(o, 10, 11) /\ IsHalved(o, 11, 12)
        /\ IsHalved(o, 12, 13)
    BY Halved, Zenon
  <2> QED  BY <2>1 DEF IsHalved
<1>21. o = (o % 2) + low + 4096 * sign + 8192 * Above(o, 13)
  BY <1>17, <1>20
<1> HIDE DEF half
<1>22. low \in Nat /\ low <= 4094 /\ low % 2 = 0 /\ sign \in {0, 1}
  BY <1>19, <1>17
<1> HIDE DEF low
<1>23. BOffset(w) = o <=> Even(o) /\ Within(o, reach)
  <2>1. low - 4096 * sign = o <=> Even(o) /\ Within(o, reach)
    BY <1>20, <1>22, <1>21, SignedIsExact DEF reach
  <2> QED  BY <1>18, <2>1
<1>24. w # Err
  BY <1>1, <1>3 DEF Err
<1>25. gen_branch(1, 2, o, 0, TRUE) # Err <=> BOffset(w) = o
  BY <1>2, <1>23, <1>24, Zenon
<1> QED  BY <1>25, Zenon DEF w

\* gen_cj refuses what CJOffset would not read.
LEMMA JumpIsExact ==
    ASSUME NEW o \in Int
    PROVE  gen_cj(o, TRUE) # Err <=> CJOffset(gen_cj(o, FALSE)) = o
<1> DEFINE w == gen_cj(o, FALSE)
           base == Word(<<0, \ha001>>)
           field1 == Placed(o, 1, 3, 3)
           field2 == Placed(o, 4, 1, 11)
           field3 == Placed(o, 5, 1, 2)
           field4 == Placed(o, 6, 1, 7)
           field5 == Placed(o, 7, 1, 6)
           field6 == Placed(o, 8, 2, 9)
           field7 == Placed(o, 10, 1, 8)
           field8 == Placed(o, 11, 1, 12)
           reach == 2048
<1>1. w = base \cup field1 \cup field2 \cup field3 \cup field4
           \cup field5 \cup field6 \cup field7 \cup field8
  BY DEF gen_cj, Checked
<1>2. /\ Even(o) /\ Within(o, reach) => gen_cj(o, TRUE) = w
      /\ ~(Even(o) /\ Within(o, reach)) => gen_cj(o, TRUE) = Err
  BY DEF gen_cj, Checked
<1>3. 0 \in base /\ \A p \in base : p \in {0, 13, 15}
  BY Opcodea001
<1>4. \A p \in field1 : p \in Nat /\ 3 <= p /\ p < 6
  BY PlacedRange
<1>5. \A p \in field2 : p \in Nat /\ 11 <= p /\ p < 12
  BY PlacedRange
<1>6. \A p \in field3 : p \in Nat /\ 2 <= p /\ p < 3
  BY PlacedRange
<1>7. \A p \in field4 : p \in Nat /\ 7 <= p /\ p < 8
  BY PlacedRange
<1>8. \A p \in field5 : p \in Nat /\ 6 <= p /\ p < 7
  BY PlacedRange
<1>9. \A p \in field6 : p \in Nat /\ 9 <= p /\ p < 11
  BY PlacedRange
<1>10. \A p \in field7 : p \in Nat /\ 8 <= p /\ p < 9
  BY PlacedRange
<1>11. \A p \in field8 : p \in Nat /\ 12 <= p /\ p < 13
  BY PlacedRange
<1> HIDE DEF w, base, field1, field2, field3, field4, field5, field6, field7, field8, reach
<1>12. Holds(w, o, 1, 3, 3)
  <2>1. ASSUME NEW p \in Int, 3 <= p, p < 6 PROVE p \in w <=> p \in field1
    BY <2>1, <1>1, <1>3, <1>4, <1>5, <1>6, <1>7, <1>8, <1>9, <1>10, <1>11
  <2> QED  BY <2>1 DEF Holds, field1
<1>13. Holds(w, o, 4, 1, 11)
  <2>1. ASSUME NEW p \in Int, 11 <= p, p < 12 PROVE p \in w <=> p \in field2
    BY <2>1, <1>1, <1>3, <1>4, <1>5, <1>6, <1>7, <1>8, <1>9, <1>10, <1>11
  <2> QED  BY <2>1 DEF Holds, field2
<1>14. Holds(w, o, 5, 1, 2)
  <2>1. ASSUME NEW p \in Int, 2 <= p, p < 3 PROVE p \in w <=> p \in field3
    BY <2>1, <1>1, <1>3, <1>4, <1>5, <1>6, <1>7, <1>8, <1>9, <1>10, <1>11
  <2> QED  BY <2>1 DEF Holds, field3
<1>15. Holds(w, o, 6, 1, 7)
  <2>1. ASSUME NEW p \in Int, 7 <= p, p < 8 PROVE p \in w <=> p \in field4
    BY <2>1, <1>1, <1>3, <1>4, <1>5, <1>6, <1>7, <1>8, <1>9, <1>10, <1>11
  <2> QED  BY <2>1 DEF Holds, field4
<1>16. Holds(w, o, 7, 1, 6)
  <2>1. ASSUME NEW p \in Int, 6 <= p, p < 7 PROVE p \in w <=> p \in field5
    BY <2>1, <1>1, <1>3, <1>4, <1>5, <1>6, <1>7, <1>8, <1>9, <1>10, <1>11
  <2> QED  BY <2>1 DEF Holds, field5
<1>17. Holds(w, o, 8, 2, 9)
  <2>1. ASSUME NEW p \in Int, 9 <= p, p < 11 PROVE p \in w <=> p \in field6
    BY <2>1, <1>1, <1>3, <1>4, <1>5, <1>6, <1>7, <1>8, <1>9, <1>10, <1>11
  <2> QED  BY <2>1 DEF Holds, field6
<1>18. Holds(w, o, 10, 1, 8)
  <2>1. ASSUME NEW p \in Int, 8 <= p, p < 9 PROVE p \in w <=> p \in field7
    BY <2>1, <1>1, <1>3, <1>4, <1>5, <1>6, <1>7, <1>8, <1>9, <1>10, <1>11
  <2> QED  BY <2>1 DEF Holds, field7
<1>19. Holds(w, o, 11, 1, 12)
  <2>1. ASSUME NEW p \in Int, 12 <= p, p < 13 PROVE p \in w <=> p \in field8
    BY <2>1, <1>1, <1>3, <1>4, <1>5, <1>6, <1>7, <1>8, <1>9, <1>10, <1>11
  <2> QED  BY <2>1 DEF Holds, field8
<1>20. /\ Above(o, 1) = Part(w, 3, 3) + 8 * Above(o, 4)
      /\ Part(w, 3, 3) \in 0..7
  BY <1>12, FieldOfThree
<1>21. /\ Above(o, 4) = Part(w, 11, 1) + 2 * Above(o, 5)
      /\ Part(w, 11, 1) \in 0..1
  BY <1>13, FieldOfOne
<1>22. /\ Above(o, 5) = Part(w, 2, 1) + 2 * Above(o, 6)
      /\ Part(w, 2, 1) \in 0..1
  BY <1>14, FieldOfOne
<1>23. /\ Above(o, 6) = Part(w, 7, 1) + 2 * Above(o, 7)
      /\ Part(w, 7, 1) \in 0..1
  BY <1>15, FieldOfOne
<1>24. /\ Above(o, 7) = Part(w, 6, 1) + 2 * Above(o, 8)
      /\ Part(w, 6, 1) \in 0..1
  BY <1>16, FieldOfOne
<1>25. /\ Above(o, 8) = Part(w, 9, 2) + 4 * Above(o, 10)
      /\ Part(w, 9, 2) \in 0..3
  BY <1>17, FieldOfTwo
<1>26. /\ Above(o, 10) = Part(w, 8, 1) + 2 * Above(o, 11)
      /\ Part(w, 8, 1) \in 0..1
  BY <1>18, FieldOfOne
<1>27. /\ Above(o, 11) = Part(w, 12, 1) + 2 * Above(o, 12)
      /\ Part(w, 12, 1) \in 0..1
  BY <1>19, FieldOfOne
<1> DEFINE part1 == Part(w, 3, 3)
           part2 == Part(w, 11, 1)
           part3 == Part(w, 2, 1)
           part4 == Part(w, 7, 1)
           part5 == Part(w, 6, 1)
           part6 == Part(w, 9, 2)
           part7 == Part(w, 8, 1)
           sign == Part(w, 12, 1)
           half == part1 + 8 * part2 + 16 * part3 + 32 * part4
                   + 64 * part5 + 128 * part6 + 512 * part7
           low == 2 * half
<1>28. /\ part1 \in 0..7 /\ Above(o, 1) = part1 + 8 * Above(o, 4)
      /\ part2 \in 0..1 /\ Above(o, 4) = part2 + 2 * Above(o, 5)
      /\ part3 \in 0..1 /\ Above(o, 5) = part3 + 2 * Above(o, 6)
      /\ part4 \in 0..1 /\ Above(o, 6) = part4 + 2 * Above(o, 7)
      /\ part5 \in 0..1 /\ Above(o, 7) = part5 + 2 * Above(o, 8)
      /\ part6 \in 0..3 /\ Above(o, 8) = part6 + 4 * Above(o, 10)
      /\ part7 \in 0..1 /\ Above(o, 10) = part7 + 2 * Above(o, 11)
      /\ sign \in 0..1 /\ Above(o, 11) = sign + 2 * Above(o, 12)
  BY <1>20, <1>21, <1>22, <1>23, <1>24, <1>25, <1>26, <1>27
<1>29. CJOffset(w) = low - 2048 * sign
  BY <1>20, <1>21, <1>22, <1>23, <1>24, <1>25, <1>26, <1>27 DEF CJOffset
<1> HIDE DEF part1, part2, part3, part4, part5, part6, part7, sign
<1>30. half \in Nat /\ half <= 1023
  BY <1>28
<1>31. /\ o % 2 \in {0, 1} /\ o = (o % 2) + 2 * Above(o, 1)
      /\ Above(o, 1) \in Int /\ Above(o, 4) \in Int /\ Above(o, 5) \in Int
      /\ Above(o, 6) \in Int /\ Above(o, 7) \in Int /\ Above(o, 8) \in Int
      /\ Above(o, 10) \in Int /\ Above(o, 11) \in Int /\ Above(o, 12) \in Int
  <2>1. /\ Above(o, 0) = o /\ Digit(o, 0) = o % 2 /\ IsHalved(o, 0, 1)
        /\ IsHalved(o, 3, 4) /\ IsHalved(o, 4, 5) /\ IsHalved(o, 5, 6)
        /\ IsHalved(o, 6, 7) /\ IsHalved(o, 7, 8) /\ IsHalved(o, 9, 10)
        /\ IsHalved(o, 10, 11) /\ IsHalved(o, 11, 12)
    BY Halved, Zenon
  <2> QED  BY <2>1 DEF IsHalved
<1>32. o = (o % 2) + low + 2048 * sign + 4096 * Above(o, 12)
  BY <1>28, <1>31
<1> HIDE DEF half
<1>33. low \in Nat /\ low <= 2046 /\ low % 2 = 0 /\ sign \in {0, 1}
  BY <1>30, <1>28
<1> HIDE DEF low
<1>34. CJOffset(w) = o <=> Even(o) /\ Within(o, reach)
  <2>1. low - 2048 * sign = o <=> Even(o) /\ Within(o, reach)
    BY <1>31, <1>33, <1>32, SignedIsExact DEF reach
  <2> QED  BY <1>29, <2>1
<1>35. w # Err
  BY <1>1, <1>3 DEF Err
<1>36. gen_cj(o, TRUE) # Err <=> CJOffset(w) = o
  BY <1>2, <1>34, <1>35, Zenon
<1> QED  BY <1>36, Zenon DEF w

\* gen_cbeqz refuses what CBOffset would not read.
LEMMA IfZeroIsExact ==
    ASSUME NEW o \in Int
    PROVE  gen_cbeqz(1, o, TRUE) # Err <=> CBOffset(gen_cbeqz(1, o, FALSE)) = o
<1> DEFINE w == gen_cbeqz(1, o, FALSE)
           base == Word(<<0, \hc001>>)
           operands == Placed(1, 0, 3, 7)
           field1 == Placed(o, 1, 2, 3)
           field2 == Placed(o, 3, 2, 10)
           field3 == Placed(o, 5, 1, 2)
           field4 == Placed(o, 6, 2, 5)
           field5 == Placed(o, 8, 1, 12)
           reach == 256
<1>1. w = base \cup operands \cup field1 \cup field2 \cup field3 \cup field4 \cup field5
  BY DEF gen_cbeqz, CompressedBranch, Checked
<1>2. /\ Even(o) /\ Within(o, reach) => gen_cbeqz(1, o, TRUE) = w
      /\ ~(Even(o) /\ Within(o, reach)) => gen_cbeqz(1, o, TRUE) = Err
  BY DEF gen_cbeqz, CompressedBranch, Checked
<1>3. 0 \in base /\ \A p \in base : p \in {0, 14, 15}
  BY Opcodec001
<1>4. \A p \in operands : p \in Nat /\ 7 <= p /\ p < 10
  BY PlacedRange
<1>5. \A p \in field1 : p \in Nat /\ 3 <= p /\ p < 5
  BY PlacedRange
<1>6. \A p \in field2 : p \in Nat /\ 10 <= p /\ p < 12
  BY PlacedRange
<1>7. \A p \in field3 : p \in Nat /\ 2 <= p /\ p < 3
  BY PlacedRange
<1>8. \A p \in field4 : p \in Nat /\ 5 <= p /\ p < 7
  BY PlacedRange
<1>9. \A p \in field5 : p \in Nat /\ 12 <= p /\ p < 13
  BY PlacedRange
<1> HIDE DEF w, base, operands, field1, field2, field3, field4, field5, reach
<1>10. Holds(w, o, 1, 2, 3)
  <2>1. ASSUME NEW p \in Int, 3 <= p, p < 5 PROVE p \in w <=> p \in field1
    BY <2>1, <1>1, <1>3, <1>4, <1>5, <1>6, <1>7, <1>8, <1>9
  <2> QED  BY <2>1 DEF Holds, field1
<1>11. Holds(w, o, 3, 2, 10)
  <2>1. ASSUME NEW p \in Int, 10 <= p, p < 12 PROVE p \in w <=> p \in field2
    BY <2>1, <1>1, <1>3, <1>4, <1>5, <1>6, <1>7, <1>8, <1>9
  <2> QED  BY <2>1 DEF Holds, field2
<1>12. Holds(w, o, 5, 1, 2)
  <2>1. ASSUME NEW p \in Int, 2 <= p, p < 3 PROVE p \in w <=> p \in field3
    BY <2>1, <1>1, <1>3, <1>4, <1>5, <1>6, <1>7, <1>8, <1>9
  <2> QED  BY <2>1 DEF Holds, field3
<1>13. Holds(w, o, 6, 2, 5)
  <2>1. ASSUME NEW p \in Int, 5 <= p, p < 7 PROVE p \in w <=> p \in field4
    BY <2>1, <1>1, <1>3, <1>4, <1>5, <1>6, <1>7, <1>8, <1>9
  <2> QED  BY <2>1 DEF Holds, field4
<1>14. Holds(w, o, 8, 1, 12)
  <2>1. ASSUME NEW p \in Int, 12 <= p, p < 13 PROVE p \in w <=> p \in field5
    BY <2>1, <1>1, <1>3, <1>4, <1>5, <1>6, <1>7, <1>8, <1>9
  <2> QED  BY <2>1 DEF Holds, field5
<1>15. /\ Above(o, 1) = Part(w, 3, 2) + 4 * Above(o, 3)
      /\ Part(w, 3, 2) \in 0..3
  BY <1>10, FieldOfTwo
<1>16. /\ Above(o, 3) = Part(w, 10, 2) + 4 * Above(o, 5)
      /\ Part(w, 10, 2) \in 0..3
  BY <1>11, FieldOfTwo
<1>17. /\ Above(o, 5) = Part(w, 2, 1) + 2 * Above(o, 6)
      /\ Part(w, 2, 1) \in 0..1
  BY <1>12, FieldOfOne
<1>18. /\ Above(o, 6) = Part(w, 5, 2) + 4 * Above(o, 8)
      /\ Part(w, 5, 2) \in 0..3
  BY <1>13, FieldOfTwo
<1>19. /\ Above(o, 8) = Part(w, 12, 1) + 2 * Above(o, 9)
      /\ Part(w, 12, 1) \in 0..1
  BY <1>14, FieldOfOne
<1> DEFINE part1 == Part(w, 3, 2)
           part2 == Part(w, 10, 2)
           part3 == Part(w, 2, 1)
           part4 == Part(w, 5, 2)
           sign == Part(w, 12, 1)
           half == part1 + 4 * part2 + 16 * part3 + 32 * part4
           low == 2 * half
<1>20. /\ part1 \in 0..3 /\ Above(o, 1) = part1 + 4 * Above(o, 3)
      /\ part2 \in 0..3 /\ Above(o, 3) = part2 + 4 * Above(o, 5)
      /\ part3 \in 0..1 /\ Above(o, 5) = part3 + 2 * Above(o, 6)
      /\ part4 \in 0..3 /\ Above(o, 6) = part4 + 4 * Above(o, 8)
      /\ sign \in 0..1 /\ Above(o, 8) = sign + 2 * Above(o, 9)
  BY <1>15, <1>16, <1>17, <1>18, <1>19
<1>21. CBOffset(w) = low - 256 * sign
  BY <1>15, <1>16, <1>17, <1>18, <1>19 DEF CBOffset
<1> HIDE DEF part1, part2, part3, part4, sign
<1>22. half \in Nat /\ half <= 127
  BY <1>20
<1>23. /\ o % 2 \in {0, 1} /\ o = (o % 2) + 2 * Above(o, 1)
      /\ Above(o, 1) \in Int /\ Above(o, 3) \in Int /\ Above(o, 5) \in Int
      /\ Above(o, 6) \in Int /\ Above(o, 8) \in Int /\ Above(o, 9) \in Int
  <2>1. /\ Above(o, 0) = o /\ Digit(o, 0) = o % 2 /\ IsHalved(o, 0, 1)
        /\ IsHalved(o, 2, 3) /\ IsHalved(o, 4, 5) /\ IsHalved(o, 5, 6)
        /\ IsHalved(o, 7, 8) /\ IsHalved(o, 8, 9)
    BY Halved, Zenon
  <2> QED  BY <2>1 DEF IsHalved
<1>24. o = (o % 2) + low + 256 * sign + 512 * Above(o, 9)
  BY <1>20, <1>23
<1> HIDE DEF half
<1>25. low \in Nat /\ low <= 254 /\ low % 2 = 0 /\ sign \in {0, 1}
  BY <1>22, <1>20
<1> HIDE DEF low
<1>26. CBOffset(w) = o <=> Even(o) /\ Within(o, reach)
  <2>1. low - 256 * sign = o <=> Even(o) /\ Within(o, reach)
    BY <1>23, <1>25, <1>24, SignedIsExact DEF reach
  <2> QED  BY <1>21, <2>1
<1>27. w # Err
  BY <1>1, <1>3 DEF Err
<1>28. gen_cbeqz(1, o, TRUE) # Err <=> CBOffset(w) = o
  BY <1>2, <1>26, <1>27, Zenon
<1> QED  BY <1>28, Zenon DEF w

\* gen_cbnez refuses what CBOffset would not read.
LEMMA IfNotZeroIsExact ==
    ASSUME NEW o \in Int
    PROVE  gen_cbnez(1, o, TRUE) # Err <=> CBOffset(gen_cbnez(1, o, FALSE)) = o
<1> DEFINE w == gen_cbnez(1, o, FALSE)
           base == Word(<<0, \he001>>)
           operands == Placed(1, 0, 3, 7)
           field1 == Placed(o, 1, 2, 3)
           field2 == Placed(o, 3, 2, 10)
           field3 == Placed(o, 5, 1, 2)
           field4 == Placed(o, 6, 2, 5)
           field5 == Placed(o, 8, 1, 12)
           reach == 256
<1>1. w = base \cup operands \cup field1 \cup field2 \cup field3 \cup field4 \cup field5
  BY DEF gen_cbnez, CompressedBranch, Checked
<1>2. /\ Even(o) /\ Within(o, reach) => gen_cbnez(1, o, TRUE) = w
      /\ ~(Even(o) /\ Within(o, reach)) => gen_cbnez(1, o, TRUE) = Err
  BY DEF gen_cbnez, CompressedBranch, Checked
<1>3. 0 \in base /\ \A p \in base : p \in {0, 13, 14, 15}
  BY Opcodee001
<1>4. \A p \in operands : p \in Nat /\ 7 <= p /\ p < 10
  BY PlacedRange
<1>5. \A p \in field1 : p \in Nat /\ 3 <= p /\ p < 5
  BY PlacedRange
<1>6. \A p \in field2 : p \in Nat /\ 10 <= p /\ p < 12
  BY PlacedRange
<1>7. \A p \in field3 : p \in Nat /\ 2 <= p /\ p < 3
  BY PlacedRange
<1>8. \A p \in field4 : p \in Nat /\ 5 <= p /\ p < 7
  BY PlacedRange
<1>9. \A p \in field5 : p \in Nat /\ 12 <= p /\ p < 13
  BY PlacedRange
<1> HIDE DEF w, base, operands, field1, field2, field3, field4, field5, reach
<1>10. Holds(w, o, 1, 2, 3)
  <2>1. ASSUME NEW p \in Int, 3 <= p, p < 5 PROVE p \in w <=> p \in field1
    BY <2>1, <1>1, <1>3, <1>4, <1>5, <1>6, <1>7, <1>8, <1>9
  <2> QED  BY <2>1 DEF Holds, field1
<1>11. Holds(w, o, 3, 2, 10)
  <2>1. ASSUME NEW p \in Int, 10 <= p, p < 12 PROVE p \in w <=> p \in field2
    BY <2>1, <1>1, <1>3, <1>4, <1>5, <1>6, <1>7, <1>8, <1>9
  <2> QED  BY <2>1 DEF Holds, field2
<1>12. Holds(w, o, 5, 1, 2)
  <2>1. ASSUME NEW p \in Int, 2 <= p, p < 3 PROVE p \in w <=> p \in field3
    BY <2>1, <1>1, <1>3, <1>4, <1>5, <1>6, <1>7, <1>8, <1>9
  <2> QED  BY <2>1 DEF Holds, field3
<1>13. Holds(w, o, 6, 2, 5)
  <2>1. ASSUME NEW p \in Int, 5 <= p, p < 7 PROVE p \in w <=> p \in field4
    BY <2>1, <1>1, <1>3, <1>4, <1>5, <1>6, <1>7, <1>8, <1>9
  <2> QED  BY <2>1 DEF Holds, field4
<1>14. Holds(w, o, 8, 1, 12)
  <2>1. ASSUME NEW p \in Int, 12 <= p, p < 13 PROVE p \in w <=> p \in field5
    BY <2>1, <1>1, <1>3, <1>4, <1>5, <1>6, <1>7, <1>8, <1>9
  <2> QED  BY <2>1 DEF Holds, field5
<1>15. /\ Above(o, 1) = Part(w, 3, 2) + 4 * Above(o, 3)
      /\ Part(w, 3, 2) \in 0..3
  BY <1>10, FieldOfTwo
<1>16. /\ Above(o, 3) = Part(w, 10, 2) + 4 * Above(o, 5)
      /\ Part(w, 10, 2) \in 0..3
  BY <1>11, FieldOfTwo
<1>17. /\ Above(o, 5) = Part(w, 2, 1) + 2 * Above(o, 6)
      /\ Part(w, 2, 1) \in 0..1
  BY <1>12, FieldOfOne
<1>18. /\ Above(o, 6) = Part(w, 5, 2) + 4 * Above(o, 8)
      /\ Part(w, 5, 2) \in 0..3
  BY <1>13, FieldOfTwo
<1>19. /\ Above(o, 8) = Part(w, 12, 1) + 2 * Above(o, 9)
      /\ Part(w, 12, 1) \in 0..1
  BY <1>14, FieldOfOne
<1> DEFINE part1 == Part(w, 3, 2)
           part2 == Part(w, 10, 2)
           part3 == Part(w, 2, 1)
           part4 == Part(w, 5, 2)
           sign == Part(w, 12, 1)
           half == part1 + 4 * part2 + 16 * part3 + 32 * part4
           low == 2 * half
<1>20. /\ part1 \in 0..3 /\ Above(o, 1) = part1 + 4 * Above(o, 3)
      /\ part2 \in 0..3 /\ Above(o, 3) = part2 + 4 * Above(o, 5)
      /\ part3 \in 0..1 /\ Above(o, 5) = part3 + 2 * Above(o, 6)
      /\ part4 \in 0..3 /\ Above(o, 6) = part4 + 4 * Above(o, 8)
      /\ sign \in 0..1 /\ Above(o, 8) = sign + 2 * Above(o, 9)
  BY <1>15, <1>16, <1>17, <1>18, <1>19
<1>21. CBOffset(w) = low - 256 * sign
  BY <1>15, <1>16, <1>17, <1>18, <1>19 DEF CBOffset
<1> HIDE DEF part1, part2, part3, part4, sign
<1>22. half \in Nat /\ half <= 127
  BY <1>20
<1>23. /\ o % 2 \in {0, 1} /\ o = (o % 2) + 2 * Above(o, 1)
      /\ Above(o, 1) \in Int /\ Above(o, 3) \in Int /\ Above(o, 5) \in Int
      /\ Above(o, 6) \in Int /\ Above(o, 8) \in Int /\ Above(o, 9) \in Int
  <2>1. /\ Above(o, 0) = o /\ Digit(o, 0) = o % 2 /\ IsHalved(o, 0, 1)
        /\ IsHalved(o, 2, 3) /\ IsHalved(o, 4, 5) /\ IsHalved(o, 5, 6)
        /\ IsHalved(o, 7, 8) /\ IsHalved(o, 8, 9)
    BY Halved, Zenon
  <2> QED  BY <2>1 DEF IsHalved
<1>24. o = (o % 2) + low + 256 * sign + 512 * Above(o, 9)
  BY <1>20, <1>23
<1> HIDE DEF half
<1>25. low \in Nat /\ low <= 254 /\ low % 2 = 0 /\ sign \in {0, 1}
  BY <1>22, <1>20
<1> HIDE DEF low
<1>26. CBOffset(w) = o <=> Even(o) /\ Within(o, reach)
  <2>1. low - 256 * sign = o <=> Even(o) /\ Within(o, reach)
    BY <1>23, <1>25, <1>24, SignedIsExact DEF reach
  <2> QED  BY <1>21, <2>1
<1>27. w # Err
  BY <1>1, <1>3 DEF Err
<1>28. gen_cbnez(1, o, TRUE) # Err <=> CBOffset(w) = o
  BY <1>2, <1>26, <1>27, Zenon
<1> QED  BY <1>28, Zenon DEF w

\* gen_jal refuses what JOffset would not read.
LEMMA JumpAndLinkIsExact ==
    ASSUME NEW o \in Int
    PROVE  gen_jal(1, o, TRUE) # Err <=> JOffset(gen_jal(1, o, FALSE)) = o
<1> DEFINE w == gen_jal(1, o, FALSE)
           base == Word(<<0, \h6f>>)
           operands == Placed(1, 0, 5, 7)
           field1 == Placed(o, 1, 10, 21)
           field2 == Placed(o, 11, 1, 20)
           field3 == Placed(o, 12, 8, 12)
           field4 == Placed(o, 20, 1, 31)
           reach == 2^20
<1>1. w = base \cup operands \cup field1 \cup field2 \cup field3 \cup field4
  BY DEF gen_jal, Checked
<1>2. /\ Even(o) /\ Within(o, reach) => gen_jal(1, o, TRUE) = w
      /\ ~(Even(o) /\ Within(o, reach)) => gen_jal(1, o, TRUE) = Err
  BY DEF gen_jal, Checked
<1>3. 0 \in base /\ \A p \in base : p \in {0, 1, 2, 3, 5, 6}
  BY Opcode6f
<1>4. \A p \in operands : p \in Nat /\ 7 <= p /\ p < 12
  BY PlacedRange
<1>5. \A p \in field1 : p \in Nat /\ 21 <= p /\ p < 31
  BY PlacedRange
<1>6. \A p \in field2 : p \in Nat /\ 20 <= p /\ p < 21
  BY PlacedRange
<1>7. \A p \in field3 : p \in Nat /\ 12 <= p /\ p < 20
  BY PlacedRange
<1>8. \A p \in field4 : p \in Nat /\ 31 <= p /\ p < 32
  BY PlacedRange
<1> HIDE DEF w, base, operands, field1, field2, field3, field4, reach
<1>9. Holds(w, o, 1, 10, 21)
  <2>1. ASSUME NEW p \in Int, 21 <= p, p < 31 PROVE p \in w <=> p \in field1
    BY <2>1, <1>1, <1>3, <1>4, <1>5, <1>6, <1>7, <1>8
  <2> QED  BY <2>1 DEF Holds, field1
<1>10. Holds(w, o, 11, 1, 20)
  <2>1. ASSUME NEW p \in Int, 20 <= p, p < 21 PROVE p \in w <=> p \in field2
    BY <2>1, <1>1, <1>3, <1>4, <1>5, <1>6, <1>7, <1>8
  <2> QED  BY <2>1 DEF Holds, field2
<1>11. Holds(w, o, 12, 8, 12)
  <2>1. ASSUME NEW p \in Int, 12 <= p, p < 20 PROVE p \in w <=> p \in field3
    BY <2>1, <1>1, <1>3, <1>4, <1>5, <1>6, <1>7, <1>8
  <2> QED  BY <2>1 DEF Holds, field3
<1>12. Holds(w, o, 20, 1, 31)
  <2>1. ASSUME NEW p \in Int, 31 <= p, p < 32 PROVE p \in w <=> p \in field4
    BY <2>1, <1>1, <1>3, <1>4, <1>5, <1>6, <1>7, <1>8
  <2> QED  BY <2>1 DEF Holds, field4
<1>13. /\ Above(o, 1) = Part(w, 21, 10) + 1024 * Above(o, 11)
      /\ Part(w, 21, 10) \in 0..1023
  BY <1>9, FieldOfTen
<1>14. /\ Above(o, 11) = Part(w, 20, 1) + 2 * Above(o, 12)
      /\ Part(w, 20, 1) \in 0..1
  BY <1>10, FieldOfOne
<1>15. /\ Above(o, 12) = Part(w, 12, 8) + 256 * Above(o, 20)
      /\ Part(w, 12, 8) \in 0..255
  BY <1>11, FieldOfEight
<1>16. /\ Above(o, 20) = Part(w, 31, 1) + 2 * Above(o, 21)
      /\ Part(w, 31, 1) \in 0..1
  BY <1>12, FieldOfOne
<1> DEFINE part1 == Part(w, 21, 10)
           part2 == Part(w, 20, 1)
           part3 == Part(w, 12, 8)
           sign == Part(w, 31, 1)
           half == part1 + 1024 * part2 + 2048 * part3
           low == 2 * half
<1>17. /\ part1 \in 0..1023 /\ Above(o, 1) = part1 + 1024 * Above(o, 11)
      /\ part2 \in 0..1 /\ Above(o, 11) = part2 + 2 * Above(o, 12)
      /\ part3 \in 0..255 /\ Above(o, 12) = part3 + 256 * Above(o, 20)
      /\ sign \in 0..1 /\ Above(o, 20) = sign + 2 * Above(o, 21)
  BY <1>13, <1>14, <1>15, <1>16
<1>18. JOffset(w) = low - 1048576 * sign
  <2>1. 2^20 = 1048576
    OBVIOUS
  <2>2. JOffset(w) = 2 * part1 + 2048 * part2 + 4096 * part3 - 2^20 * sign
    BY Zenon DEF JOffset
  <2> HIDE DEF part1, part2, part3, sign
  <2> QED  BY <2>1, <2>2, <1>17
<1> HIDE DEF part1, part2, part3, sign
<1>19. half \in Nat /\ half <= 524287
  BY <1>17
<1>20. /\ o % 2 \in {0, 1} /\ o = (o % 2) + 2 * Above(o, 1)
      /\ Above(o, 1) \in Int /\ Above(o, 11) \in Int /\ Above(o, 12) \in Int
      /\ Above(o, 20) \in Int /\ Above(o, 21) \in Int
  <2>1. /\ Above(o, 0) = o /\ Digit(o, 0) = o % 2 /\ IsHalved(o, 0, 1)
        /\ IsHalved(o, 10, 11) /\ IsHalved(o, 11, 12) /\ IsHalved(o, 19, 20)
        /\ IsHalved(o, 20, 21)
    BY Halved, Zenon
  <2> QED  BY <2>1 DEF IsHalved
<1>21. o = (o % 2) + low + 1048576 * sign + 2097152 * Above(o, 21)
  BY <1>17, <1>20
<1> HIDE DEF half
<1>22. low \in Nat /\ low <= 1048574 /\ low % 2 = 0 /\ sign \in {0, 1}
  BY <1>19, <1>17
<1> HIDE DEF low
<1>23. JOffset(w) = o <=> Even(o) /\ Within(o, reach)
  <2>1. low - 1048576 * sign = o <=> Even(o) /\ Within(o, reach)
    BY <1>20, <1>22, <1>21, SignedIsExact DEF reach
  <2> QED  BY <1>18, <2>1
<1>24. w # Err
  BY <1>1, <1>3 DEF Err
<1>25. gen_jal(1, o, TRUE) # Err <=> JOffset(w) = o
  BY <1>2, <1>23, <1>24, Zenon
<1> QED  BY <1>25, Zenon DEF w

-----------------------------------------------------------------------------
\* Whatever the offset, a generator that is to be safe refuses it exactly if the
\* branch would lead elsewhere (gen.rs), not only those that a run tries.
THEOREM SafeIsExact ==
    ASSUME case.of = "offset" => case.offset \in Int
    PROVE  SafeIfAndOnlyIfExact
BY BranchIsExact, JumpIsExact, IfZeroIsExact, IfNotZeroIsExact, JumpAndLinkIsExact,
   Zenon DEF SafeIfAndOnlyIfExact

-----------------------------------------------------------------------------
(* Branches that are written again. *)

\* A part of a word is the sum of its bits, each with its weight.
LEMMA PartOfFive ==
    ASSUME NEW word, NEW l \in Nat
    PROVE  Part(word, l, 5) =
                Bit(word, l) + 2 * Bit(word, l + 1) + 4 * Bit(word, l + 2) +
                8 * Bit(word, l + 3) + 16 * Bit(word, l + 4)
<1>1. PICK f : IsPart(f, word, l, 5)
  <2>1. 5 \in Nat
    OBVIOUS
  <2> QED  BY <2>1, PartDef, Zenon
<1>2. /\ f[1] = 2 * f[0] + Bit(word, l + 4)
      /\ f[2] = 2 * f[1] + Bit(word, l + 3)
      /\ f[3] = 2 * f[2] + Bit(word, l + 2)
      /\ f[4] = 2 * f[3] + Bit(word, l + 1)
      /\ f[5] = 2 * f[4] + Bit(word, l)
  BY <1>1 DEF IsPart
<1>3. Part(word, l, 5) = f[5] /\ f[0] = 0
  BY <1>1, Zenon DEF IsPart
<1> QED  BY <1>2, <1>3, BitType

\* The lower and the upper bits of a part of a word are parts of it.
LEMMA TwoIsSplit ==
    ASSUME NEW w, NEW l \in Nat
    PROVE  /\ Part(w, l, 1) \in 0..1 /\ Part(w, l + 1, 1) \in 0..1
           /\ Part(w, l, 2) = Part(w, l, 1) + 2 * Part(w, l + 1, 1)
<1>1. Part(w, l, 2) =
          Bit(w, l) + 2 * Bit(w, l + 1)
  BY PartOfTwo, Zenon
<1>2. Part(w, l, 1) =
          Bit(w, l)
  BY PartOfOne, Zenon
<1>3. Part(w, l + 1, 1) =
          Bit(w, l + 1)
  <2>1. /\ l + 1 \in Nat
    OBVIOUS
  <2> QED  BY <2>1, PartOfOne, Zenon
<1>4. /\ Bit(w, l) \in {0, 1} /\ Bit(w, l + 1) \in {0, 1}
  BY BitType, Zenon
<1> QED  BY <1>1, <1>2, <1>3, <1>4

LEMMA ThreeIsSplit ==
    ASSUME NEW w, NEW l \in Nat
    PROVE  /\ Part(w, l, 1) \in 0..1 /\ Part(w, l + 1, 2) \in 0..3
           /\ Part(w, l, 3) = Part(w, l, 1) + 2 * Part(w, l + 1, 2)
<1>1. Part(w, l, 3) =
          Bit(w, l) + 2 * Bit(w, l + 1) + 4 * Bit(w, l + 2)
  BY PartOfThree, Zenon
<1>2. Part(w, l, 1) =
          Bit(w, l)
  BY PartOfOne, Zenon
<1>3. Part(w, l + 1, 2) =
          Bit(w, l + 1) + 2 * Bit(w, l + 2)
  <2>1. /\ l + 1 \in Nat /\ (l + 1) + 1 = l + 2
    OBVIOUS
  <2> QED  BY <2>1, PartOfTwo, Zenon
<1>4. /\ Bit(w, l) \in {0, 1} /\ Bit(w, l + 1) \in {0, 1}
      /\ Bit(w, l + 2) \in {0, 1}
  BY BitType, Zenon
<1> QED  BY <1>1, <1>2, <1>3, <1>4

LEMMA FourIsSplit ==
    ASSUME NEW w, NEW l \in Nat
    PROVE  /\ Part(w, l, 2) \in 0..3 /\ Part(w, l + 2, 2) \in 0..3
           /\ Part(w, l, 4) = Part(w, l, 2) + 4 * Part(w, l + 2, 2)
<1>1. Part(w, l, 4) =
          Bit(w, l) + 2 * Bit(w, l + 1) + 4 * Bit(w, l + 2) +
          8 * Bit(w, l + 3)
  BY PartOfFour, Zenon
<1>2. Part(w, l, 2) =
          Bit(w, l) + 2 * Bit(w, l + 1)
  BY PartOfTwo, Zenon
<1>3. Part(w, l + 2, 2) =
          Bit(w, l + 2) + 2 * Bit(w, l + 3)
  <2>1. /\ l + 2 \in Nat /\ (l + 2) + 1 = l + 3
    OBVIOUS
  <2> QED  BY <2>1, PartOfTwo, Zenon
<1>4. /\ Bit(w, l) \in {0, 1} /\ Bit(w, l + 1) \in {0, 1}
      /\ Bit(w, l + 2) \in {0, 1} /\ Bit(w, l + 3) \in {0, 1}
  BY BitType, Zenon
<1> QED  BY <1>1, <1>2, <1>3, <1>4

LEMMA FiveIsSplit ==
    ASSUME NEW w, NEW l \in Nat
    PROVE  /\ Part(w, l, 2) \in 0..3 /\ Part(w, l + 2, 3) \in 0..7
           /\ Part(w, l, 5) = Part(w, l, 2) + 4 * Part(w, l + 2, 3)
<1>1. Part(w, l, 5) =
          Bit(w, l) + 2 * Bit(w, l + 1) + 4 * Bit(w, l + 2) +
          8 * Bit(w, l + 3) + 16 * Bit(w, l + 4)
  BY PartOfFive, Zenon
<1>2. Part(w, l, 2) =
          Bit(w, l) + 2 * Bit(w, l + 1)
  BY PartOfTwo, Zenon
<1>3. Part(w, l + 2, 3) =
          Bit(w, l + 2) + 2 * Bit(w, l + 3) + 4 * Bit(w, l + 4)
  <2>1. /\ l + 2 \in Nat /\ (l + 2) + 1 = l + 3 /\ (l + 2) + 2 = l + 4
    OBVIOUS
  <2> QED  BY <2>1, PartOfThree, Zenon
<1>4. /\ Bit(w, l) \in {0, 1} /\ Bit(w, l + 1) \in {0, 1}
      /\ Bit(w, l + 2) \in {0, 1} /\ Bit(w, l + 3) \in {0, 1}
      /\ Bit(w, l + 4) \in {0, 1}
  BY BitType, Zenon
<1> QED  BY <1>1, <1>2, <1>3, <1>4

LEMMA SixIsSplit ==
    ASSUME NEW w, NEW l \in Nat
    PROVE  /\ Part(w, l, 2) \in 0..3 /\ Part(w, l + 2, 4) \in 0..15
           /\ Part(w, l, 6) = Part(w, l, 2) + 4 * Part(w, l + 2, 4)
<1>1. Part(w, l, 6) =
          Bit(w, l) + 2 * Bit(w, l + 1) + 4 * Bit(w, l + 2) +
          8 * Bit(w, l + 3) + 16 * Bit(w, l + 4) + 32 * Bit(w, l + 5)
  BY PartOfSix, Zenon
<1>2. Part(w, l, 2) =
          Bit(w, l) + 2 * Bit(w, l + 1)
  BY PartOfTwo, Zenon
<1>3. Part(w, l + 2, 4) =
          Bit(w, l + 2) + 2 * Bit(w, l + 3) + 4 * Bit(w, l + 4) +
          8 * Bit(w, l + 5)
  <2>1. /\ l + 2 \in Nat /\ (l + 2) + 1 = l + 3 /\ (l + 2) + 2 = l + 4
        /\ (l + 2) + 3 = l + 5
    OBVIOUS
  <2> QED  BY <2>1, PartOfFour, Zenon
<1>4. /\ Bit(w, l) \in {0, 1} /\ Bit(w, l + 1) \in {0, 1}
      /\ Bit(w, l + 2) \in {0, 1} /\ Bit(w, l + 3) \in {0, 1}
      /\ Bit(w, l + 4) \in {0, 1} /\ Bit(w, l + 5) \in {0, 1}
  BY BitType, Zenon
<1> QED  BY <1>1, <1>2, <1>3, <1>4

LEMMA EightIsSplit ==
    ASSUME NEW w, NEW l \in Nat
    PROVE  /\ Part(w, l, 4) \in 0..15 /\ Part(w, l + 4, 4) \in 0..15
           /\ Part(w, l, 8) = Part(w, l, 4) + 16 * Part(w, l + 4, 4)
<1>1. Part(w, l, 8) =
          Bit(w, l) + 2 * Bit(w, l + 1) + 4 * Bit(w, l + 2) +
          8 * Bit(w, l + 3) + 16 * Bit(w, l + 4) + 32 * Bit(w, l + 5) +
          64 * Bit(w, l + 6) + 128 * Bit(w, l + 7)
  BY PartOfEight, Zenon
<1>2. Part(w, l, 4) =
          Bit(w, l) + 2 * Bit(w, l + 1) + 4 * Bit(w, l + 2) +
          8 * Bit(w, l + 3)
  BY PartOfFour, Zenon
<1>3. Part(w, l + 4, 4) =
          Bit(w, l + 4) + 2 * Bit(w, l + 5) + 4 * Bit(w, l + 6) +
          8 * Bit(w, l + 7)
  <2>1. /\ l + 4 \in Nat /\ (l + 4) + 1 = l + 5 /\ (l + 4) + 2 = l + 6
        /\ (l + 4) + 3 = l + 7
    OBVIOUS
  <2> QED  BY <2>1, PartOfFour, Zenon
<1>4. /\ Bit(w, l) \in {0, 1} /\ Bit(w, l + 1) \in {0, 1}
      /\ Bit(w, l + 2) \in {0, 1} /\ Bit(w, l + 3) \in {0, 1}
      /\ Bit(w, l + 4) \in {0, 1} /\ Bit(w, l + 5) \in {0, 1}
      /\ Bit(w, l + 6) \in {0, 1} /\ Bit(w, l + 7) \in {0, 1}
  BY BitType, Zenon
<1> QED  BY <1>1, <1>2, <1>3, <1>4

LEMMA TenIsSplit ==
    ASSUME NEW w, NEW l \in Nat
    PROVE  /\ Part(w, l, 4) \in 0..15 /\ Part(w, l + 4, 6) \in 0..63
           /\ Part(w, l, 10) = Part(w, l, 4) + 16 * Part(w, l + 4, 6)
<1>1. Part(w, l, 10) =
          Bit(w, l) + 2 * Bit(w, l + 1) + 4 * Bit(w, l + 2) +
          8 * Bit(w, l + 3) + 16 * Bit(w, l + 4) + 32 * Bit(w, l + 5) +
          64 * Bit(w, l + 6) + 128 * Bit(w, l + 7) + 256 * Bit(w, l + 8) +
          512 * Bit(w, l + 9)
  BY PartOfTen
<1>2. Part(w, l, 4) =
          Bit(w, l) + 2 * Bit(w, l + 1) + 4 * Bit(w, l + 2) +
          8 * Bit(w, l + 3)
  BY PartOfFour, Zenon
<1>3. Part(w, l + 4, 6) =
          Bit(w, l + 4) + 2 * Bit(w, l + 5) + 4 * Bit(w, l + 6) +
          8 * Bit(w, l + 7) + 16 * Bit(w, l + 8) + 32 * Bit(w, l + 9)
  <2>1. /\ l + 4 \in Nat /\ (l + 4) + 1 = l + 5 /\ (l + 4) + 2 = l + 6
        /\ (l + 4) + 3 = l + 7 /\ (l + 4) + 4 = l + 8 /\ (l + 4) + 5 = l + 9
    OBVIOUS
  <2> QED  BY <2>1, PartOfSix, Zenon
<1>4. /\ Bit(w, l) \in {0, 1} /\ Bit(w, l + 1) \in {0, 1}
      /\ Bit(w, l + 2) \in {0, 1} /\ Bit(w, l + 3) \in {0, 1}
      /\ Bit(w, l + 4) \in {0, 1} /\ Bit(w, l + 5) \in {0, 1}
      /\ Bit(w, l + 6) \in {0, 1} /\ Bit(w, l + 7) \in {0, 1}
      /\ Bit(w, l + 8) \in {0, 1} /\ Bit(w, l + 9) \in {0, 1}
  BY BitType, Zenon
<1> QED  BY <1>1, <1>2, <1>3, <1>4

\* Two fields of a word side by side, that have the bits of a number, are one.
HasBits(w, o, from, width, to) ==
    \A i \in 0..(width - 1) : Bit(w, to + i) = Digit(o, from + i)

\* What has the bits of a word in two places side by side has them in both together.
LEMMA PlacesJoined ==
    ASSUME NEW o, NEW from \in Nat, NEW to \in Nat, NEW m \in Nat, NEW n \in Nat, NEW w,
           HasBits(w, o, from, m, to), HasBits(w, o, from + m, n, to + m)
    PROVE  HasBits(w, o, from, m + n, to)
<1> SUFFICES ASSUME NEW i \in 0..(m + n - 1) PROVE Bit(w, to + i) = Digit(o, from + i)
  BY DEF HasBits
<1>1. CASE i < m
  <2>1. i \in 0..(m - 1)
    BY <1>1
  <2> QED  BY <2>1, Zenon DEF HasBits
<1>2. CASE i >= m
  <2>1. i - m \in 0..(n - 1) /\ (to + m) + (i - m) = to + i /\ (from + m) + (i - m) = from + i
    BY <1>2
  <2>2. Bit(w, (to + m) + (i - m)) = Digit(o, (from + m) + (i - m))
    BY <2>1, Zenon DEF HasBits
  <2> QED  BY <2>1, <2>2, Zenon
<1> QED  BY <1>1, <1>2

\* What has the bits of a word is placed as these bits.
LEMMA BitsAreHeld ==
    ASSUME NEW o \in Int, NEW from \in Nat, NEW width \in Nat, NEW to \in Nat, NEW w,
           HasBits(w, o, from, width, to)
    PROVE  Holds(w, o, from, width, to)
<1> SUFFICES ASSUME NEW p \in to..(to + width - 1)
             PROVE  p \in w <=> p \in Placed(o, from, width, to)
  BY Zenon DEF Holds
<1> DEFINE i == p - to
           k == from + i
<1>1. /\ i \in 0..(width - 1) /\ p = to + i /\ p \in Nat /\ to <= p /\ p < to + width
      /\ k \in Nat /\ p + from = k + to /\ k = from + i
  OBVIOUS
<1>2. Bit(w, p) = Digit(o, k)
  BY <1>1, Zenon DEF HasBits
<1> HIDE DEF i, k
<1>3. p \in Placed(o, from, width, to) <=> Digit(o, k) = 1
  BY <1>1, IsPlaced
<1>4. p \in w <=> Bit(w, p) = 1
  BY DEF Bit
<1> QED  BY <1>2, <1>3, <1>4, Zenon

\* What is above a bit of a number is read as a part, below a rest: then the part has
\* the bits of the number, since it has them in one way.
IsRead(o, k, part, size, rest) == rest \in Int /\ Above(o, k) = part + size * rest

\* A number that is read of so many bits of a word has these bits.
LEMMA HeldOne ==
    ASSUME NEW o \in Int, NEW k \in 0..20, NEW l \in Nat, NEW w, NEW rest,
           IsRead(o, k, Part(w, l, 1), 2, rest)
    PROVE  HasBits(w, o, k, 1, l) /\ Above(o, k + 1) = rest
<1> DEFINE bit == Bit(w, l)
           digit == Digit(o, k)
           above == Above(o, k + 1)
<1>1. bit \in {0, 1} /\ Part(w, l, 1) = bit
  BY BitType, PartOfOne
<1>2. IsHalved(o, k, k + 1)
  BY AllAreHalved, Zenon DEF AllHalved
<1>3. digit \in {0, 1} /\ above \in Int /\ 2 * above + digit = bit + 2 * rest /\ rest \in Int
  BY <1>1, <1>2 DEF IsHalved, IsRead
<1> HIDE DEF bit, digit, above
<1>4. bit = digit /\ above = rest
  BY <1>1, <1>3
<1>5. Bit(w, l + 0) = Digit(o, k + 0)
  BY <1>4 DEF bit, digit
<1>6. HasBits(w, o, k, 1, l)
  BY <1>5 DEF HasBits
<1> QED  BY <1>4, <1>6 DEF above

LEMMA HeldTwo ==
    ASSUME NEW o \in Int, NEW k \in 0..19, NEW l \in Nat, NEW w, NEW rest,
           IsRead(o, k, Part(w, l, 2), 4, rest)
    PROVE  HasBits(w, o, k, 2, l) /\ Above(o, k + 2) = rest
<1> DEFINE low == Part(w, l, 1)
           high == Part(w, l + 1, 1)
           above == high + 2 * rest
<1>1. low \in Int /\ high \in Int /\ Part(w, l, 2) = low + 2 * high
  BY TwoIsSplit
<1>2. IsRead(o, k, low, 2, above)
  BY <1>1 DEF IsRead
<1> HIDE DEF above
<1>3. /\ k \in 0..20 /\ k + 1 \in 0..20 /\ k \in Nat /\ l + 1 \in Nat
      /\ (k + 1) + 1 = k + 2 /\ 1 + 1 = 2 /\ 1 \in Nat /\ 1 \in Nat
  OBVIOUS
<1>4. HasBits(w, o, k, 1, l) /\ Above(o, k + 1) = above
  BY <1>2, <1>3, HeldOne, Zenon DEF low
<1>5. IsRead(o, k + 1, high, 2, rest)
  BY <1>4, Zenon DEF above, IsRead
<1>6. HasBits(w, o, k + 1, 1, l + 1) /\ Above(o, (k + 1) + 1) = rest
  BY <1>3, <1>5, HeldOne, Zenon DEF high
<1>7. HasBits(w, o, k, 1 + 1, l)
  BY <1>3, <1>4, <1>6, PlacesJoined, Zenon
<1> QED  BY <1>3, <1>6, <1>7

LEMMA HeldThree ==
    ASSUME NEW o \in Int, NEW k \in 0..18, NEW l \in Nat, NEW w, NEW rest,
           IsRead(o, k, Part(w, l, 3), 8, rest)
    PROVE  HasBits(w, o, k, 3, l) /\ Above(o, k + 3) = rest
<1> DEFINE low == Part(w, l, 1)
           high == Part(w, l + 1, 2)
           above == high + 4 * rest
<1>1. low \in Int /\ high \in Int /\ Part(w, l, 3) = low + 2 * high
  BY ThreeIsSplit
<1>2. IsRead(o, k, low, 2, above)
  BY <1>1 DEF IsRead
<1> HIDE DEF above
<1>3. /\ k \in 0..20 /\ k + 1 \in 0..19 /\ k \in Nat /\ l + 1 \in Nat
      /\ (k + 1) + 2 = k + 3 /\ 1 + 2 = 3 /\ 1 \in Nat /\ 2 \in Nat
  OBVIOUS
<1>4. HasBits(w, o, k, 1, l) /\ Above(o, k + 1) = above
  BY <1>2, <1>3, HeldOne, Zenon DEF low
<1>5. IsRead(o, k + 1, high, 4, rest)
  BY <1>4, Zenon DEF above, IsRead
<1>6. HasBits(w, o, k + 1, 2, l + 1) /\ Above(o, (k + 1) + 2) = rest
  BY <1>3, <1>5, HeldTwo, Zenon DEF high
<1>7. HasBits(w, o, k, 1 + 2, l)
  BY <1>3, <1>4, <1>6, PlacesJoined, Zenon
<1> QED  BY <1>3, <1>6, <1>7

LEMMA HeldFour ==
    ASSUME NEW o \in Int, NEW k \in 0..17, NEW l \in Nat, NEW w, NEW rest,
           IsRead(o, k, Part(w, l, 4), 16, rest)
    PROVE  HasBits(w, o, k, 4, l) /\ Above(o, k + 4) = rest
<1> DEFINE low == Part(w, l, 2)
           high == Part(w, l + 2, 2)
           above == high + 4 * rest
<1>1. low \in Int /\ high \in Int /\ Part(w, l, 4) = low + 4 * high
  BY FourIsSplit
<1>2. IsRead(o, k, low, 4, above)
  BY <1>1 DEF IsRead
<1> HIDE DEF above
<1>3. /\ k \in 0..19 /\ k + 2 \in 0..19 /\ k \in Nat /\ l + 2 \in Nat
      /\ (k + 2) + 2 = k + 4 /\ 2 + 2 = 4 /\ 2 \in Nat /\ 2 \in Nat
  OBVIOUS
<1>4. HasBits(w, o, k, 2, l) /\ Above(o, k + 2) = above
  BY <1>2, <1>3, HeldTwo, Zenon DEF low
<1>5. IsRead(o, k + 2, high, 4, rest)
  BY <1>4, Zenon DEF above, IsRead
<1>6. HasBits(w, o, k + 2, 2, l + 2) /\ Above(o, (k + 2) + 2) = rest
  BY <1>3, <1>5, HeldTwo, Zenon DEF high
<1>7. HasBits(w, o, k, 2 + 2, l)
  BY <1>3, <1>4, <1>6, PlacesJoined, Zenon
<1> QED  BY <1>3, <1>6, <1>7

LEMMA HeldFive ==
    ASSUME NEW o \in Int, NEW k \in 0..16, NEW l \in Nat, NEW w, NEW rest,
           IsRead(o, k, Part(w, l, 5), 32, rest)
    PROVE  HasBits(w, o, k, 5, l) /\ Above(o, k + 5) = rest
<1> DEFINE low == Part(w, l, 2)
           high == Part(w, l + 2, 3)
           above == high + 8 * rest
<1>1. low \in Int /\ high \in Int /\ Part(w, l, 5) = low + 4 * high
  BY FiveIsSplit
<1>2. IsRead(o, k, low, 4, above)
  BY <1>1 DEF IsRead
<1> HIDE DEF above
<1>3. /\ k \in 0..19 /\ k + 2 \in 0..18 /\ k \in Nat /\ l + 2 \in Nat
      /\ (k + 2) + 3 = k + 5 /\ 2 + 3 = 5 /\ 2 \in Nat /\ 3 \in Nat
  OBVIOUS
<1>4. HasBits(w, o, k, 2, l) /\ Above(o, k + 2) = above
  BY <1>2, <1>3, HeldTwo, Zenon DEF low
<1>5. IsRead(o, k + 2, high, 8, rest)
  BY <1>4, Zenon DEF above, IsRead
<1>6. HasBits(w, o, k + 2, 3, l + 2) /\ Above(o, (k + 2) + 3) = rest
  BY <1>3, <1>5, HeldThree, Zenon DEF high
<1>7. HasBits(w, o, k, 2 + 3, l)
  BY <1>3, <1>4, <1>6, PlacesJoined, Zenon
<1> QED  BY <1>3, <1>6, <1>7

LEMMA HeldSix ==
    ASSUME NEW o \in Int, NEW k \in 0..15, NEW l \in Nat, NEW w, NEW rest,
           IsRead(o, k, Part(w, l, 6), 64, rest)
    PROVE  HasBits(w, o, k, 6, l) /\ Above(o, k + 6) = rest
<1> DEFINE low == Part(w, l, 2)
           high == Part(w, l + 2, 4)
           above == high + 16 * rest
<1>1. low \in Int /\ high \in Int /\ Part(w, l, 6) = low + 4 * high
  BY SixIsSplit
<1>2. IsRead(o, k, low, 4, above)
  BY <1>1 DEF IsRead
<1> HIDE DEF above
<1>3. /\ k \in 0..19 /\ k + 2 \in 0..17 /\ k \in Nat /\ l + 2 \in Nat
      /\ (k + 2) + 4 = k + 6 /\ 2 + 4 = 6 /\ 2 \in Nat /\ 4 \in Nat
  OBVIOUS
<1>4. HasBits(w, o, k, 2, l) /\ Above(o, k + 2) = above
  BY <1>2, <1>3, HeldTwo, Zenon DEF low
<1>5. IsRead(o, k + 2, high, 16, rest)
  BY <1>4, Zenon DEF above, IsRead
<1>6. HasBits(w, o, k + 2, 4, l + 2) /\ Above(o, (k + 2) + 4) = rest
  BY <1>3, <1>5, HeldFour, Zenon DEF high
<1>7. HasBits(w, o, k, 2 + 4, l)
  BY <1>3, <1>4, <1>6, PlacesJoined, Zenon
<1> QED  BY <1>3, <1>6, <1>7

LEMMA HeldEight ==
    ASSUME NEW o \in Int, NEW k \in 0..13, NEW l \in Nat, NEW w, NEW rest,
           IsRead(o, k, Part(w, l, 8), 256, rest)
    PROVE  HasBits(w, o, k, 8, l) /\ Above(o, k + 8) = rest
<1> DEFINE low == Part(w, l, 4)
           high == Part(w, l + 4, 4)
           above == high + 16 * rest
<1>1. low \in Int /\ high \in Int /\ Part(w, l, 8) = low + 16 * high
  BY EightIsSplit
<1>2. IsRead(o, k, low, 16, above)
  BY <1>1 DEF IsRead
<1> HIDE DEF above
<1>3. /\ k \in 0..17 /\ k + 4 \in 0..17 /\ k \in Nat /\ l + 4 \in Nat
      /\ (k + 4) + 4 = k + 8 /\ 4 + 4 = 8 /\ 4 \in Nat /\ 4 \in Nat
  OBVIOUS
<1>4. HasBits(w, o, k, 4, l) /\ Above(o, k + 4) = above
  BY <1>2, <1>3, HeldFour, Zenon DEF low
<1>5. IsRead(o, k + 4, high, 16, rest)
  BY <1>4, Zenon DEF above, IsRead
<1>6. HasBits(w, o, k + 4, 4, l + 4) /\ Above(o, (k + 4) + 4) = rest
  BY <1>3, <1>5, HeldFour, Zenon DEF high
<1>7. HasBits(w, o, k, 4 + 4, l)
  BY <1>3, <1>4, <1>6, PlacesJoined, Zenon
<1> QED  BY <1>3, <1>6, <1>7

LEMMA HeldTen ==
    ASSUME NEW o \in Int, NEW k \in 0..11, NEW l \in Nat, NEW w, NEW rest,
           IsRead(o, k, Part(w, l, 10), 1024, rest)
    PROVE  HasBits(w, o, k, 10, l) /\ Above(o, k + 10) = rest
<1> DEFINE low == Part(w, l, 4)
           high == Part(w, l + 4, 6)
           above == high + 64 * rest
<1>1. low \in Int /\ high \in Int /\ Part(w, l, 10) = low + 16 * high
  BY TenIsSplit
<1>2. IsRead(o, k, low, 16, above)
  BY <1>1 DEF IsRead
<1> HIDE DEF above
<1>3. /\ k \in 0..17 /\ k + 4 \in 0..15 /\ k \in Nat /\ l + 4 \in Nat
      /\ (k + 4) + 6 = k + 10 /\ 4 + 6 = 10 /\ 4 \in Nat /\ 6 \in Nat
  OBVIOUS
<1>4. HasBits(w, o, k, 4, l) /\ Above(o, k + 4) = above
  BY <1>2, <1>3, HeldFour, Zenon DEF low
<1>5. IsRead(o, k + 4, high, 64, rest)
  BY <1>4, Zenon DEF above, IsRead
<1>6. HasBits(w, o, k + 4, 6, l + 4) /\ Above(o, (k + 4) + 6) = rest
  BY <1>3, <1>5, HeldSix, Zenon DEF high
<1>7. HasBits(w, o, k, 4 + 6, l)
  BY <1>3, <1>4, <1>6, PlacesJoined, Zenon
<1> QED  BY <1>3, <1>6, <1>7

\* What is placed is what the word has there.
WritesAgain(w, o, from, width, to) ==
    Placed(o, from, width, to) = w \cap to..(to + width - 1)

\* A number that has the bits of a part of a word is placed as that part.
LEMMA PlacedAgain ==
    ASSUME NEW o \in Int, NEW from \in Nat, NEW width \in Nat, NEW to \in Nat, NEW w,
           HasBits(w, o, from, width, to)
    PROVE  WritesAgain(w, o, from, width, to)
<1>1. Holds(w, o, from, width, to)
  BY BitsAreHeld, Zenon
<1>2. \A p \in Placed(o, from, width, to) : p \in to..(to + width - 1)
  BY PlacedRange
<1> QED  BY <1>1, <1>2, Zenon DEF Holds, WritesAgain

\* A part of a word is a number of so many bits.
LEMMA PartType ==
    ASSUME NEW w, NEW l \in Nat
    PROVE  /\ Part(w, l, 1) \in 0..1 /\ Part(w, l, 2) \in 0..3 /\ Part(w, l, 3) \in 0..7
           /\ Part(w, l, 4) \in 0..15 /\ Part(w, l, 5) \in 0..31 /\ Part(w, l, 6) \in 0..63
           /\ Part(w, l, 8) \in 0..255 /\ Part(w, l, 10) \in 0..1023
<1>1. Part(w, l, 1) \in 0..1 /\ Part(w, l, 2) \in 0..3
  BY TwoIsSplit
<1>2. Part(w, l, 3) \in 0..7
  BY ThreeIsSplit
<1>3. Part(w, l, 4) \in 0..15
  BY FourIsSplit
<1>4. Part(w, l, 5) \in 0..31
  BY FiveIsSplit
<1>5. Part(w, l, 6) \in 0..63
  BY SixIsSplit
<1>6. Part(w, l, 8) \in 0..255
  BY EightIsSplit
<1>7. Part(w, l, 10) \in 0..1023
  BY TenIsSplit
<1> QED  BY <1>1, <1>2, <1>3, <1>4, <1>5, <1>6, <1>7

\* So what is placed of a number is what the word has there, if it is read there.
LEMMA OneAgain ==
    ASSUME NEW o \in Int, NEW from \in 0..20, NEW to \in Nat, NEW w, NEW rest,
           IsRead(o, from, Part(w, to, 1), 2, rest)
    PROVE  WritesAgain(w, o, from, 1, to) /\ Above(o, from + 1) = rest
<1>1. HasBits(w, o, from, 1, to) /\ Above(o, from + 1) = rest
  BY HeldOne, Zenon
<1>2. from \in Nat /\ 1 \in Nat
  OBVIOUS
<1> QED  BY <1>1, <1>2, PlacedAgain, Zenon

LEMMA TwoAgain ==
    ASSUME NEW o \in Int, NEW from \in 0..19, NEW to \in Nat, NEW w, NEW rest,
           IsRead(o, from, Part(w, to, 2), 4, rest)
    PROVE  WritesAgain(w, o, from, 2, to) /\ Above(o, from + 2) = rest
<1>1. HasBits(w, o, from, 2, to) /\ Above(o, from + 2) = rest
  BY HeldTwo, Zenon
<1>2. from \in Nat /\ 2 \in Nat
  OBVIOUS
<1> QED  BY <1>1, <1>2, PlacedAgain, Zenon

LEMMA ThreeAgain ==
    ASSUME NEW o \in Int, NEW from \in 0..18, NEW to \in Nat, NEW w, NEW rest,
           IsRead(o, from, Part(w, to, 3), 8, rest)
    PROVE  WritesAgain(w, o, from, 3, to) /\ Above(o, from + 3) = rest
<1>1. HasBits(w, o, from, 3, to) /\ Above(o, from + 3) = rest
  BY HeldThree, Zenon
<1>2. from \in Nat /\ 3 \in Nat
  OBVIOUS
<1> QED  BY <1>1, <1>2, PlacedAgain, Zenon

LEMMA FourAgain ==
    ASSUME NEW o \in Int, NEW from \in 0..17, NEW to \in Nat, NEW w, NEW rest,
           IsRead(o, from, Part(w, to, 4), 16, rest)
    PROVE  WritesAgain(w, o, from, 4, to) /\ Above(o, from + 4) = rest
<1>1. HasBits(w, o, from, 4, to) /\ Above(o, from + 4) = rest
  BY HeldFour, Zenon
<1>2. from \in Nat /\ 4 \in Nat
  OBVIOUS
<1> QED  BY <1>1, <1>2, PlacedAgain, Zenon

LEMMA FiveAgain ==
    ASSUME NEW o \in Int, NEW from \in 0..16, NEW to \in Nat, NEW w, NEW rest,
           IsRead(o, from, Part(w, to, 5), 32, rest)
    PROVE  WritesAgain(w, o, from, 5, to) /\ Above(o, from + 5) = rest
<1>1. HasBits(w, o, from, 5, to) /\ Above(o, from + 5) = rest
  BY HeldFive, Zenon
<1>2. from \in Nat /\ 5 \in Nat
  OBVIOUS
<1> QED  BY <1>1, <1>2, PlacedAgain, Zenon

LEMMA SixAgain ==
    ASSUME NEW o \in Int, NEW from \in 0..15, NEW to \in Nat, NEW w, NEW rest,
           IsRead(o, from, Part(w, to, 6), 64, rest)
    PROVE  WritesAgain(w, o, from, 6, to) /\ Above(o, from + 6) = rest
<1>1. HasBits(w, o, from, 6, to) /\ Above(o, from + 6) = rest
  BY HeldSix, Zenon
<1>2. from \in Nat /\ 6 \in Nat
  OBVIOUS
<1> QED  BY <1>1, <1>2, PlacedAgain, Zenon

LEMMA EightAgain ==
    ASSUME NEW o \in Int, NEW from \in 0..13, NEW to \in Nat, NEW w, NEW rest,
           IsRead(o, from, Part(w, to, 8), 256, rest)
    PROVE  WritesAgain(w, o, from, 8, to) /\ Above(o, from + 8) = rest
<1>1. HasBits(w, o, from, 8, to) /\ Above(o, from + 8) = rest
  BY HeldEight, Zenon
<1>2. from \in Nat /\ 8 \in Nat
  OBVIOUS
<1> QED  BY <1>1, <1>2, PlacedAgain, Zenon

LEMMA TenAgain ==
    ASSUME NEW o \in Int, NEW from \in 0..11, NEW to \in Nat, NEW w, NEW rest,
           IsRead(o, from, Part(w, to, 10), 1024, rest)
    PROVE  WritesAgain(w, o, from, 10, to) /\ Above(o, from + 10) = rest
<1>1. HasBits(w, o, from, 10, to) /\ Above(o, from + 10) = rest
  BY HeldTen
<1>2. from \in Nat /\ 10 \in Nat
  OBVIOUS
<1> QED  BY <1>1, <1>2, PlacedAgain, Zenon

\* A register is read as it was written.
LEMMA RegisterAgain ==
    ASSUME NEW w, NEW l \in Nat
    PROVE  /\ WritesAgain(w, Part(w, l, 5), 0, 5, l)
           /\ WritesAgain(w, Part(w, l, 3), 0, 3, l)
<1>1. WritesAgain(w, Part(w, l, 5), 0, 5, l)
  <2> DEFINE reg == Part(w, l, 5)
  <2>1. reg \in Int /\ 0 \in 0..16 /\ 0 \in Nat /\ 5 \in Nat
    BY PartType
  <2>2. Above(reg, 0) = reg
    BY <2>1, Halved, Zenon
  <2>3. IsRead(reg, 0, reg, 32, 0)
    BY <2>1, <2>2 DEF IsRead
  <2>4. HasBits(w, reg, 0, 5, l)
    BY <2>1, <2>3, HeldFive, Zenon
  <2> HIDE DEF reg
  <2>5. WritesAgain(w, reg, 0, 5, l)
    BY <2>1, <2>4, PlacedAgain, Zenon
  <2> QED  BY <2>5, Zenon DEF reg
<1>2. WritesAgain(w, Part(w, l, 3), 0, 3, l)
  <2> DEFINE reg == Part(w, l, 3)
  <2>1. reg \in Int /\ 0 \in 0..18 /\ 0 \in Nat /\ 3 \in Nat
    BY PartType
  <2>2. Above(reg, 0) = reg
    BY <2>1, Halved, Zenon
  <2>3. IsRead(reg, 0, reg, 8, 0)
    BY <2>1, <2>2 DEF IsRead
  <2>4. HasBits(w, reg, 0, 3, l)
    BY <2>1, <2>3, HeldThree, Zenon
  <2> HIDE DEF reg
  <2>5. WritesAgain(w, reg, 0, 3, l)
    BY <2>1, <2>4, PlacedAgain, Zenon
  <2> QED  BY <2>5, Zenon DEF reg
<1> QED  BY <1>1, <1>2, Zenon

\* gen_branch writes again what is read of a branch.
LEMMA BranchAgain ==
    ASSUME NEW w, NEW t, w \subseteq 0..31,
           w \cap (0..6 \cup 12..14) = Word(<<0, \h63>>) \cup Placed(t, 0, 3, 12)
    PROVE  gen_branch(Part(w, 15, 5), Part(w, 20, 5), BOffset(w), t, TRUE) = w
<1> DEFINE o == BOffset(w)
           p1 == Part(w, 8, 4)
           p2 == Part(w, 25, 6)
           p3 == Part(w, 7, 1)
           p4 == Part(w, 31, 1)
           above4 == -p4
           above3 == p4 + 2 * above4
           above2 == p3 + 2 * above3
           above1 == p2 + 64 * above2
<1>1. /\ p1 \in 0..15
      /\ p2 \in 0..63
      /\ p3 \in 0..1
      /\ p4 \in 0..1
  BY PartType
<1>2. o = 2 * p1 + 32 * p2 + 2048 * p3 - 4096 * p4
  BY <1>1 DEF BOffset
<1> HIDE DEF o, p1, p2, p3, p4
<1>3. /\ o \in Int /\ above1 \in Int /\ above2 \in Int
      /\ above3 \in Int /\ above4 \in Int
  BY <1>1, <1>2
<1>4. o = 2 * (p1 + 16 * above1)
  BY <1>1, <1>2
<1>5. Even(o) /\ Within(o, 4096)
  BY <1>1, <1>2 DEF Even, Within
<1>6. p4 + 2 * above4 = above4
  BY <1>1
<1> HIDE DEF above1, above2, above3, above4
<1>7. IsRead(o, 1, p1, 16, above1)
  <2>1. IsHalved(o, 0, 1) /\ Above(o, 0) = o
    BY <1>3, Halved, Zenon
  <2>2. /\ Above(o, 1) \in Int /\ Digit(o, 0) \in {0, 1} /\ o = 2 * Above(o, 1) + Digit(o, 0)
    BY <2>1, Zenon DEF IsHalved
  <2> QED  BY <1>1, <1>3, <1>4, <2>2 DEF IsRead
<1>8. WritesAgain(w, o, 1, 4, 8) /\ Above(o, 5) = above1
  <2>1. o \in Int /\ 1 \in 0..17 /\ 8 \in Nat /\ 1 + 4 = 5
    BY <1>3
  <2> QED  BY <2>1, <1>7, FourAgain, Zenon DEF p1
<1>9. IsRead(o, 5, p2, 64, above2)
  BY <1>3, <1>8, Zenon DEF above1, IsRead
<1>10. WritesAgain(w, o, 5, 6, 25) /\ Above(o, 11) = above2
  <2>1. o \in Int /\ 5 \in 0..15 /\ 25 \in Nat /\ 5 + 6 = 11
    BY <1>3
  <2> QED  BY <2>1, <1>9, SixAgain, Zenon DEF p2
<1>11. IsRead(o, 11, p3, 2, above3)
  BY <1>3, <1>10, Zenon DEF above2, IsRead
<1>12. WritesAgain(w, o, 11, 1, 7) /\ Above(o, 12) = above3
  <2>1. o \in Int /\ 11 \in 0..20 /\ 7 \in Nat /\ 11 + 1 = 12
    BY <1>3
  <2> QED  BY <2>1, <1>11, OneAgain, Zenon DEF p3
<1>13. IsRead(o, 12, p4, 2, above4)
  BY <1>3, <1>6, <1>12 DEF above3, IsRead
<1>14. WritesAgain(w, o, 12, 1, 31) /\ Above(o, 13) = above4
  <2>1. o \in Int /\ 12 \in 0..20 /\ 31 \in Nat /\ 12 + 1 = 13
    BY <1>3
  <2> QED  BY <2>1, <1>13, OneAgain, Zenon DEF p4
<1>15. /\ WritesAgain(w, Part(w, 15, 5), 0, 5, 15)
       /\ Part(w, 15, 5) \in 0..31
       /\ WritesAgain(w, Part(w, 20, 5), 0, 5, 20)
       /\ Part(w, 20, 5) \in 0..31
  BY RegisterAgain, PartType
<1>16. w = (w \cap (0..6 \cup 12..14)) \cup (w \cap 15..(15 + 5 - 1))
           \cup (w \cap 20..(20 + 5 - 1)) \cup (w \cap 8..(8 + 4 - 1))
           \cup (w \cap 25..(25 + 6 - 1)) \cup (w \cap 7..(7 + 1 - 1))
           \cup (w \cap 31..(31 + 1 - 1))
  <2>1. \A b \in 0..31 : b \in (0..6 \cup 12..14) 
          \/ b \in 15..(15 + 5 - 1)
          \/ b \in 20..(20 + 5 - 1)
          \/ b \in 8..(8 + 4 - 1)
          \/ b \in 25..(25 + 6 - 1)
          \/ b \in 7..(7 + 1 - 1)
          \/ b \in 31..(31 + 1 - 1)
    OBVIOUS
  <2> QED  BY <2>1
<1>17. gen_branch(Part(w, 15, 5), Part(w, 20, 5), o, t, TRUE) =
           Word(<<0, \h63>>) \cup Placed(t, 0, 3, 12)
           \cup Placed(Part(w, 15, 5), 0, 5, 15)
           \cup Placed(Part(w, 20, 5), 0, 5, 20) \cup Placed(o, 1, 4, 8)
           \cup Placed(o, 5, 6, 25) \cup Placed(o, 11, 1, 7)
           \cup Placed(o, 12, 1, 31)
  BY <1>5, <1>15 DEF gen_branch, Checked
<1> QED  BY <1>8, <1>10, <1>12, <1>14, <1>15, <1>16, <1>17, Zenon DEF o, WritesAgain

\* gen_jal, too, ...
LEMMA JumpAndLinkAgain ==
    ASSUME NEW w, w \subseteq 0..31,
           w \cap 0..6 = Word(<<0, \h6f>>)
    PROVE  gen_jal(Part(w, 7, 5), JOffset(w), TRUE) = w
<1> DEFINE o == JOffset(w)
           p1 == Part(w, 21, 10)
           p2 == Part(w, 20, 1)
           p3 == Part(w, 12, 8)
           p4 == Part(w, 31, 1)
           above4 == -p4
           above3 == p4 + 2 * above4
           above2 == p3 + 256 * above3
           above1 == p2 + 2 * above2
<1>1. /\ p1 \in 0..1023
      /\ p2 \in 0..1
      /\ p3 \in 0..255
      /\ p4 \in 0..1
  BY PartType
<1>2. o = 2 * p1 + 2048 * p2 + 4096 * p3 - 1048576 * p4
  BY <1>1 DEF JOffset
<1> HIDE DEF o, p1, p2, p3, p4
<1>3. /\ o \in Int /\ above1 \in Int /\ above2 \in Int
      /\ above3 \in Int /\ above4 \in Int
  BY <1>1, <1>2
<1>4. o = 2 * (p1 + 1024 * above1)
  BY <1>1, <1>2
<1>5. Even(o) /\ Within(o, 1048576) /\ Within(o, 2^20)
  BY <1>1, <1>2 DEF Even, Within
<1>6. p4 + 2 * above4 = above4
  BY <1>1
<1> HIDE DEF above1, above2, above3, above4
<1>7. IsRead(o, 1, p1, 1024, above1)
  <2>1. IsHalved(o, 0, 1) /\ Above(o, 0) = o
    BY <1>3, Halved, Zenon
  <2>2. /\ Above(o, 1) \in Int /\ Digit(o, 0) \in {0, 1} /\ o = 2 * Above(o, 1) + Digit(o, 0)
    BY <2>1, Zenon DEF IsHalved
  <2> QED  BY <1>1, <1>3, <1>4, <2>2 DEF IsRead
<1>8. WritesAgain(w, o, 1, 10, 21) /\ Above(o, 11) = above1
  <2>1. o \in Int /\ 1 \in 0..11 /\ 21 \in Nat /\ 1 + 10 = 11
    BY <1>3
  <2> QED  BY <2>1, <1>7, TenAgain DEF p1
<1>9. IsRead(o, 11, p2, 2, above2)
  BY <1>3, <1>8, Zenon DEF above1, IsRead
<1>10. WritesAgain(w, o, 11, 1, 20) /\ Above(o, 12) = above2
  <2>1. o \in Int /\ 11 \in 0..20 /\ 20 \in Nat /\ 11 + 1 = 12
    BY <1>3
  <2> QED  BY <2>1, <1>9, OneAgain, Zenon DEF p2
<1>11. IsRead(o, 12, p3, 256, above3)
  BY <1>3, <1>10, Zenon DEF above2, IsRead
<1>12. WritesAgain(w, o, 12, 8, 12) /\ Above(o, 20) = above3
  <2>1. o \in Int /\ 12 \in 0..13 /\ 12 \in Nat /\ 12 + 8 = 20
    BY <1>3
  <2> QED  BY <2>1, <1>11, EightAgain, Zenon DEF p3
<1>13. IsRead(o, 20, p4, 2, above4)
  BY <1>3, <1>6, <1>12 DEF above3, IsRead
<1>14. WritesAgain(w, o, 20, 1, 31) /\ Above(o, 21) = above4
  <2>1. o \in Int /\ 20 \in 0..20 /\ 31 \in Nat /\ 20 + 1 = 21
    BY <1>3
  <2> QED  BY <2>1, <1>13, OneAgain, Zenon DEF p4
<1>15. /\ WritesAgain(w, Part(w, 7, 5), 0, 5, 7)
       /\ Part(w, 7, 5) \in 0..31
  BY RegisterAgain, PartType
<1>16. w = (w \cap 0..6) \cup (w \cap 7..(7 + 5 - 1))
           \cup (w \cap 21..(21 + 10 - 1)) \cup (w \cap 20..(20 + 1 - 1))
           \cup (w \cap 12..(12 + 8 - 1)) \cup (w \cap 31..(31 + 1 - 1))
  <2>1. \A b \in 0..31 : b \in 0..6 
          \/ b \in 7..(7 + 5 - 1)
          \/ b \in 21..(21 + 10 - 1)
          \/ b \in 20..(20 + 1 - 1)
          \/ b \in 12..(12 + 8 - 1)
          \/ b \in 31..(31 + 1 - 1)
    OBVIOUS
  <2> QED  BY <2>1
<1>17. gen_jal(Part(w, 7, 5), o, TRUE) =
           Word(<<0, \h6f>>) \cup Placed(Part(w, 7, 5), 0, 5, 7)
           \cup Placed(o, 1, 10, 21) \cup Placed(o, 11, 1, 20)
           \cup Placed(o, 12, 8, 12) \cup Placed(o, 20, 1, 31)
  BY <1>5, <1>15 DEF gen_jal, Checked
<1> QED  BY <1>8, <1>10, <1>12, <1>14, <1>15, <1>16, <1>17, Zenon DEF o, WritesAgain

JumpOpcode == Word(<<0, \ha001>>)

\* ... gen_cj, ...
LEMMA JumpAgain ==
    ASSUME NEW w, w \subseteq 0..15,
           w \cap (0..1 \cup 13..15) = JumpOpcode
    PROVE  gen_cj(CJOffset(w), TRUE) = w
<1> DEFINE o == CJOffset(w)
           p1 == Part(w, 3, 3)
           p2 == Part(w, 11, 1)
           p3 == Part(w, 2, 1)
           p4 == Part(w, 7, 1)
           p5 == Part(w, 6, 1)
           p6 == Part(w, 9, 2)
           p7 == Part(w, 8, 1)
           p8 == Part(w, 12, 1)
           above8 == -p8
           above7 == p8 + 2 * above8
           above6 == p7 + 2 * above7
           above5 == p6 + 4 * above6
           above4 == p5 + 2 * above5
           above3 == p4 + 2 * above4
           above2 == p3 + 2 * above3
           above1 == p2 + 2 * above2
<1>1. /\ p1 \in 0..7
      /\ p2 \in 0..1
      /\ p3 \in 0..1
      /\ p4 \in 0..1
      /\ p5 \in 0..1
      /\ p6 \in 0..3
      /\ p7 \in 0..1
      /\ p8 \in 0..1
  BY PartType
<1>2. o = 2 * p1 + 16 * p2 + 32 * p3 + 64 * p4 + 128 * p5 + 256 * p6 + 1024 * p7 - 2048 * p8
  BY <1>1 DEF CJOffset
<1> HIDE DEF o, p1, p2, p3, p4, p5, p6, p7, p8
<1>3. /\ o \in Int /\ above1 \in Int /\ above2 \in Int /\ above3 \in Int /\ above4 \in Int
      /\ above5 \in Int /\ above6 \in Int /\ above7 \in Int /\ above8 \in Int
  BY <1>1, <1>2
<1>4. o = 2 * (p1 + 8 * above1)
  BY <1>1, <1>2
<1>5. Even(o) /\ Within(o, 2048)
  BY <1>1, <1>2 DEF Even, Within
<1>6. p8 + 2 * above8 = above8
  BY <1>1
<1> HIDE DEF above1, above2, above3, above4, above5, above6, above7, above8
<1>7. IsRead(o, 1, p1, 8, above1)
  <2>1. IsHalved(o, 0, 1) /\ Above(o, 0) = o
    BY <1>3, Halved, Zenon
  <2>2. /\ Above(o, 1) \in Int /\ Digit(o, 0) \in {0, 1} /\ o = 2 * Above(o, 1) + Digit(o, 0)
    BY <2>1, Zenon DEF IsHalved
  <2> QED  BY <1>1, <1>3, <1>4, <2>2 DEF IsRead
<1>8. WritesAgain(w, o, 1, 3, 3) /\ Above(o, 4) = above1
  <2>1. o \in Int /\ 1 \in 0..18 /\ 3 \in Nat /\ 1 + 3 = 4
    BY <1>3
  <2> QED  BY <2>1, <1>7, ThreeAgain, Zenon DEF p1
<1>9. IsRead(o, 4, p2, 2, above2)
  BY <1>3, <1>8, Zenon DEF above1, IsRead
<1>10. WritesAgain(w, o, 4, 1, 11) /\ Above(o, 5) = above2
  <2>1. o \in Int /\ 4 \in 0..20 /\ 11 \in Nat /\ 4 + 1 = 5
    BY <1>3
  <2> QED  BY <2>1, <1>9, OneAgain, Zenon DEF p2
<1>11. IsRead(o, 5, p3, 2, above3)
  BY <1>3, <1>10, Zenon DEF above2, IsRead
<1>12. WritesAgain(w, o, 5, 1, 2) /\ Above(o, 6) = above3
  <2>1. o \in Int /\ 5 \in 0..20 /\ 2 \in Nat /\ 5 + 1 = 6
    BY <1>3
  <2> QED  BY <2>1, <1>11, OneAgain, Zenon DEF p3
<1>13. IsRead(o, 6, p4, 2, above4)
  BY <1>3, <1>12, Zenon DEF above3, IsRead
<1>14. WritesAgain(w, o, 6, 1, 7) /\ Above(o, 7) = above4
  <2>1. o \in Int /\ 6 \in 0..20 /\ 7 \in Nat /\ 6 + 1 = 7
    BY <1>3
  <2> QED  BY <2>1, <1>13, OneAgain, Zenon DEF p4
<1>15. IsRead(o, 7, p5, 2, above5)
  BY <1>3, <1>14, Zenon DEF above4, IsRead
<1>16. WritesAgain(w, o, 7, 1, 6) /\ Above(o, 8) = above5
  <2>1. o \in Int /\ 7 \in 0..20 /\ 6 \in Nat /\ 7 + 1 = 8
    BY <1>3
  <2> QED  BY <2>1, <1>15, OneAgain, Zenon DEF p5
<1>17. IsRead(o, 8, p6, 4, above6)
  BY <1>3, <1>16, Zenon DEF above5, IsRead
<1>18. WritesAgain(w, o, 8, 2, 9) /\ Above(o, 10) = above6
  <2>1. o \in Int /\ 8 \in 0..19 /\ 9 \in Nat /\ 8 + 2 = 10
    BY <1>3
  <2> QED  BY <2>1, <1>17, TwoAgain, Zenon DEF p6
<1>19. IsRead(o, 10, p7, 2, above7)
  BY <1>3, <1>18, Zenon DEF above6, IsRead
<1>20. WritesAgain(w, o, 10, 1, 8) /\ Above(o, 11) = above7
  <2>1. o \in Int /\ 10 \in 0..20 /\ 8 \in Nat /\ 10 + 1 = 11
    BY <1>3
  <2> QED  BY <2>1, <1>19, OneAgain, Zenon DEF p7
<1>21. IsRead(o, 11, p8, 2, above8)
  BY <1>3, <1>6, <1>20 DEF above7, IsRead
<1>22. WritesAgain(w, o, 11, 1, 12) /\ Above(o, 12) = above8
  <2>1. o \in Int /\ 11 \in 0..20 /\ 12 \in Nat /\ 11 + 1 = 12
    BY <1>3
  <2> QED  BY <2>1, <1>21, OneAgain, Zenon DEF p8
<1>23. w = (w \cap (0..1 \cup 13..15)) \cup (w \cap 3..(3 + 3 - 1))
           \cup (w \cap 11..(11 + 1 - 1)) \cup (w \cap 2..(2 + 1 - 1))
           \cup (w \cap 7..(7 + 1 - 1)) \cup (w \cap 6..(6 + 1 - 1))
           \cup (w \cap 9..(9 + 2 - 1)) \cup (w \cap 8..(8 + 1 - 1))
           \cup (w \cap 12..(12 + 1 - 1))
  <2>1. \A b \in 0..15 : b \in (0..1 \cup 13..15) 
          \/ b \in 3..(3 + 3 - 1)
          \/ b \in 11..(11 + 1 - 1)
          \/ b \in 2..(2 + 1 - 1)
          \/ b \in 7..(7 + 1 - 1)
          \/ b \in 6..(6 + 1 - 1)
          \/ b \in 9..(9 + 2 - 1)
          \/ b \in 8..(8 + 1 - 1)
          \/ b \in 12..(12 + 1 - 1)
    OBVIOUS
  <2> QED  BY <2>1
<1>24. gen_cj(o, TRUE) =
           JumpOpcode \cup Placed(o, 1, 3, 3) \cup Placed(o, 4, 1, 11)
           \cup Placed(o, 5, 1, 2) \cup Placed(o, 6, 1, 7) \cup Placed(o, 7, 1, 6)
           \cup Placed(o, 8, 2, 9) \cup Placed(o, 10, 1, 8)
           \cup Placed(o, 11, 1, 12)
  BY <1>5, <1>3 DEF gen_cj, Checked, JumpOpcode
<1> QED  BY <1>8, <1>10, <1>12, <1>14, <1>16, <1>18, <1>20, <1>22, <1>23, <1>24,
            Zenon DEF o, WritesAgain

\* ... gen_cbeqz and gen_cbnez.
LEMMA IfZeroAgain ==
    ASSUME NEW w, NEW opcode, w \subseteq 0..15,
           w \cap (0..1 \cup 13..15) = Word(<<0, opcode>>)
    PROVE  CompressedBranch(opcode, Part(w, 7, 3), CBOffset(w), TRUE) = w
<1> DEFINE o == CBOffset(w)
           p1 == Part(w, 3, 2)
           p2 == Part(w, 10, 2)
           p3 == Part(w, 2, 1)
           p4 == Part(w, 5, 2)
           p5 == Part(w, 12, 1)
           above5 == -p5
           above4 == p5 + 2 * above5
           above3 == p4 + 4 * above4
           above2 == p3 + 2 * above3
           above1 == p2 + 4 * above2
<1>1. /\ p1 \in 0..3
      /\ p2 \in 0..3
      /\ p3 \in 0..1
      /\ p4 \in 0..3
      /\ p5 \in 0..1
  BY PartType
<1>2. o = 2 * p1 + 8 * p2 + 32 * p3 + 64 * p4 - 256 * p5
  BY <1>1 DEF CBOffset
<1> HIDE DEF o, p1, p2, p3, p4, p5
<1>3. /\ o \in Int /\ above1 \in Int /\ above2 \in Int
      /\ above3 \in Int /\ above4 \in Int /\ above5 \in Int
  BY <1>1, <1>2
<1>4. o = 2 * (p1 + 4 * above1)
  BY <1>1, <1>2
<1>5. Even(o) /\ Within(o, 256)
  BY <1>1, <1>2 DEF Even, Within
<1>6. p5 + 2 * above5 = above5
  BY <1>1
<1> HIDE DEF above1, above2, above3, above4, above5
<1>7. IsRead(o, 1, p1, 4, above1)
  <2>1. IsHalved(o, 0, 1) /\ Above(o, 0) = o
    BY <1>3, Halved, Zenon
  <2>2. /\ Above(o, 1) \in Int /\ Digit(o, 0) \in {0, 1} /\ o = 2 * Above(o, 1) + Digit(o, 0)
    BY <2>1, Zenon DEF IsHalved
  <2> QED  BY <1>1, <1>3, <1>4, <2>2 DEF IsRead
<1>8. WritesAgain(w, o, 1, 2, 3) /\ Above(o, 3) = above1
  <2>1. o \in Int /\ 1 \in 0..19 /\ 3 \in Nat /\ 1 + 2 = 3
    BY <1>3
  <2> QED  BY <2>1, <1>7, TwoAgain, Zenon DEF p1
<1>9. IsRead(o, 3, p2, 4, above2)
  BY <1>3, <1>8, Zenon DEF above1, IsRead
<1>10. WritesAgain(w, o, 3, 2, 10) /\ Above(o, 5) = above2
  <2>1. o \in Int /\ 3 \in 0..19 /\ 10 \in Nat /\ 3 + 2 = 5
    BY <1>3
  <2> QED  BY <2>1, <1>9, TwoAgain, Zenon DEF p2
<1>11. IsRead(o, 5, p3, 2, above3)
  BY <1>3, <1>10, Zenon DEF above2, IsRead
<1>12. WritesAgain(w, o, 5, 1, 2) /\ Above(o, 6) = above3
  <2>1. o \in Int /\ 5 \in 0..20 /\ 2 \in Nat /\ 5 + 1 = 6
    BY <1>3
  <2> QED  BY <2>1, <1>11, OneAgain, Zenon DEF p3
<1>13. IsRead(o, 6, p4, 4, above4)
  BY <1>3, <1>12, Zenon DEF above3, IsRead
<1>14. WritesAgain(w, o, 6, 2, 5) /\ Above(o, 8) = above4
  <2>1. o \in Int /\ 6 \in 0..19 /\ 5 \in Nat /\ 6 + 2 = 8
    BY <1>3
  <2> QED  BY <2>1, <1>13, TwoAgain, Zenon DEF p4
<1>15. IsRead(o, 8, p5, 2, above5)
  BY <1>3, <1>6, <1>14 DEF above4, IsRead
<1>16. WritesAgain(w, o, 8, 1, 12) /\ Above(o, 9) = above5
  <2>1. o \in Int /\ 8 \in 0..20 /\ 12 \in Nat /\ 8 + 1 = 9
    BY <1>3
  <2> QED  BY <2>1, <1>15, OneAgain, Zenon DEF p5
<1>17. /\ WritesAgain(w, Part(w, 7, 3), 0, 3, 7)
       /\ Part(w, 7, 3) \in 0..7
  BY RegisterAgain, PartType
<1>18. w = (w \cap (0..1 \cup 13..15)) \cup (w \cap 7..(7 + 3 - 1))
           \cup (w \cap 3..(3 + 2 - 1)) \cup (w \cap 10..(10 + 2 - 1))
           \cup (w \cap 2..(2 + 1 - 1)) \cup (w \cap 5..(5 + 2 - 1))
           \cup (w \cap 12..(12 + 1 - 1))
  <2>1. \A b \in 0..15 : b \in (0..1 \cup 13..15) 
          \/ b \in 7..(7 + 3 - 1)
          \/ b \in 3..(3 + 2 - 1)
          \/ b \in 10..(10 + 2 - 1)
          \/ b \in 2..(2 + 1 - 1)
          \/ b \in 5..(5 + 2 - 1)
          \/ b \in 12..(12 + 1 - 1)
    OBVIOUS
  <2> QED  BY <2>1
<1>19. CompressedBranch(opcode, Part(w, 7, 3), o, TRUE) =
           Word(<<0, opcode>>) \cup Placed(Part(w, 7, 3), 0, 3, 7)
           \cup Placed(o, 1, 2, 3) \cup Placed(o, 3, 2, 10) \cup Placed(o, 5, 1, 2)
           \cup Placed(o, 6, 2, 5) \cup Placed(o, 8, 1, 12)
  BY <1>5, <1>17 DEF CompressedBranch, Checked
<1> QED  BY <1>8, <1>10, <1>12, <1>14, <1>16, <1>17, <1>18, <1>19, Zenon DEF o, WritesAgain

\* A register is told by its name.
LEMMA NamesAreRead ==
    \A n \in Nat : /\ process_register(reg_to_str_spike(n)) = n
                   /\ process_register(<<"x", n>>) = n
<1> SUFFICES ASSUME NEW n \in Nat
             PROVE  /\ process_register(reg_to_str_spike(n)) = n
                    /\ process_register(<<"x", n>>) = n
  OBVIOUS
<1>1. CASE n = 1
  BY <1>1 DEF process_register, reg_to_str_spike
<1>2. CASE n = 2
  BY <1>2 DEF process_register, reg_to_str_spike
<1>3. CASE n = 3
  BY <1>3 DEF process_register, reg_to_str_spike
<1>4. CASE n = 4
  BY <1>4 DEF process_register, reg_to_str_spike
<1>5. CASE n \notin 1..4
  BY <1>5 DEF process_register, reg_to_str_spike
<1> QED  BY <1>1, <1>2, <1>3, <1>4, <1>5

Spelled(arg) ==
    IF arg[1] = "reg" /\ arg[2][1] = "x" THEN <<"reg", reg_to_str_spike(arg[2][2])>> ELSE arg

Formatted(mnemonic, args) == format_args(Text(mnemonic, args))

\* format_args spells the arguments one by one.
LEMMA SpelledNone == \A m : Formatted(m, <<>>) = Text(m, <<>>)
BY DEF Formatted, format_args, Text

LEMMA SpelledOne == \A m, arg1 : Formatted(m, <<arg1>>) = Text(m, <<Spelled(arg1)>>)
BY DEF Formatted, format_args, Text, Spelled

LEMMA SpelledTwo ==
    \A m, arg1, arg2 :
        Formatted(m, <<arg1, arg2>>) = Text(m, <<Spelled(arg1), Spelled(arg2)>>)
BY DEF Formatted, format_args, Text, Spelled

LEMMA SpelledThree ==
    \A m, arg1, arg2, arg3 :
        Formatted(m, <<arg1, arg2, arg3>>) =
            Text(m, <<Spelled(arg1), Spelled(arg2), Spelled(arg3)>>)
BY DEF Formatted, format_args, Text, Spelled

\* A branch is written as it was.
Kept(w, text, address) == RewrittenAs(InstructionType(text, address), w, text, TRUE) = w
WritesBranch(w, reg1, reg2, offset, btype) == gen_branch(reg1, reg2, offset, btype, TRUE) = w

\* What is not written from its type is left as it was.
LEMMA LeftAsItWas ==
    ASSUME NEW w, NEW text, NEW address,
           InstructionType(text, address)[1] \in {"BranchAbsoluteStore", "Normal"}
    PROVE  Kept(w, text, address)
BY DEF Kept, RewrittenAs

SpikeReg(n) == <<"reg", reg_to_str_spike(n)>>
LongText(m, n1, n2, to) == Text(m, <<SpikeReg(n1), SpikeReg(n2), to>>)
ShortText(m, n1, to) == Text(Shortened[m], <<SpikeReg(n1), to>>)
ConditionalType(reg1, reg2, distance) ==
    IF reg2 = 0 THEN <<"CondBranchRelative", reg1, distance>>
                ELSE <<"CondBranchRelativeCMP", reg1, reg2, distance>>

\* What a conditional branch is read as, and rewritten.
LEMMA ConditionIsRead ==
    ASSUME NEW w, NEW m \in DOMAIN btypes, NEW n1 \in Nat, NEW n2 \in Nat, NEW to,
           NEW address, NEW distance, process_address_format(to, address) = distance
    PROVE  /\ InstructionType(LongText(m, n1, n2, to), address) =
                  ConditionalType(n1, n2, distance)
           /\ WritesBranch(w, n1, n2, distance, btypes[m]) =>
                  Kept(w, LongText(m, n1, n2, to), address)
<1> DEFINE text == LongText(m, n1, n2, to)
           type == InstructionType(text, address)
<1>1. m \in {"beq", "bne", "blt", "bge", "bltu", "bgeu"}
  BY DEF btypes
<1>2. /\ text.mnemonic = m /\ text.args[1][2] = reg_to_str_spike(n1)
      /\ text.args[2][2] = reg_to_str_spike(n2) /\ text.args[3] = to
  BY DEF LongText, Text, SpikeReg
<1>3. /\ process_register(text.args[1][2]) = n1 /\ process_register(text.args[2][2]) = n2
      /\ process_address_format(text.args[3], address) = distance
  BY <1>2, NamesAreRead
<1> HIDE DEF text
<1>4. type = ConditionalType(n1, n2, distance)
  BY <1>1, <1>2, <1>3 DEF InstructionType, ConditionalType
<1>5. CofiType(m) = m
  BY <1>1 DEF CofiType, AsWritten, btypes
<1>6. WritesBranch(w, n1, n2, distance, btypes[m]) => Kept(w, text, address)
  <2>1. CASE n2 = 0
    <3>1. type[1] = "CondBranchRelative" /\ type[2] = n1 /\ type[3] = distance
      BY <1>4, <2>1 DEF ConditionalType
    <3> HIDE DEF type
    <3>2. RewrittenAs(type, w, text, TRUE) = gen_branch(n1, 0, distance, btypes[m], TRUE)
      BY <1>1, <1>2, <1>5, <3>1 DEF RewrittenAs, serialize_cofi
    <3> QED  BY <2>1, <3>2 DEF Kept, WritesBranch, type
  <2>2. CASE n2 # 0
    <3>1. /\ type[1] = "CondBranchRelativeCMP" /\ type[2] = n1 /\ type[3] = n2
          /\ type[4] = distance
      BY <1>4, <2>2 DEF ConditionalType
    <3> HIDE DEF type
    <3>2. RewrittenAs(type, w, text, TRUE) = gen_branch(n1, n2, distance, btypes[m], TRUE)
      BY <1>1, <1>2, <1>5, <3>1 DEF RewrittenAs, serialize_cofi
    <3> QED  BY <3>2 DEF Kept, WritesBranch, type
  <2> QED  BY <2>1, <2>2
<1> QED  BY <1>4, <1>6, Zenon DEF text, type

\* CofiType::from_str takes a short form for the branch that it stands for.
LEMMA CofiOfShort ==
    /\ Shortened["beq"] = "beqz" /\ CofiType("beqz") = "beq"
    /\ Shortened["bne"] = "bnez" /\ CofiType("bnez") = "bne"
    /\ Shortened["blt"] = "bltz" /\ CofiType("bltz") = "blt"
    /\ Shortened["bge"] = "bgez" /\ CofiType("bgez") = "bge"
<1>1. /\ Shortened["beq"] = "beqz" /\ Shortened["bne"] = "bnez"
      /\ Shortened["blt"] = "bltz" /\ Shortened["bge"] = "bgez"
  BY DEF Shortened
<1>2. CofiType("beqz") = "beq" /\ CofiType("bnez") = "bne"
  BY DEF CofiType, AsWritten, btypes
<1>3. CofiType("bltz") = "blt" /\ CofiType("bgez") = "bge"
  BY DEF CofiType, AsWritten, btypes
<1> QED  BY <1>1, <1>2, <1>3, Zenon

\* And of one that is written with a short form.
LEMMA ShortIsRead ==
    ASSUME NEW w, NEW m \in DOMAIN Shortened, NEW n1 \in Nat, NEW to,
           NEW address, NEW distance, process_address_format(to, address) = distance
    PROVE  /\ InstructionType(ShortText(m, n1, to), address) = ConditionalType(n1, 0, distance)
           /\ WritesBranch(w, n1, 0, distance, btypes[m]) =>
                  Kept(w, ShortText(m, n1, to), address)
<1> DEFINE short == Shortened[m]
           text == ShortText(m, n1, to)
           type == InstructionType(text, address)
<1>1. m \in {"beq", "bne", "blt", "bge"} /\ m \in DOMAIN btypes
  BY DEF Shortened, btypes
<1>2. short \in {"beqz", "bnez", "bltz", "bgez"} /\ CofiType(short) = m
  BY <1>1, CofiOfShort, Zenon
<1>3. text.mnemonic = short /\ text.args[1][2] = reg_to_str_spike(n1) /\ text.args[2] = to
  BY DEF ShortText, Text, SpikeReg
<1>4. /\ process_register(text.args[1][2]) = n1
      /\ process_address_format(text.args[2], address) = distance
  BY <1>3, NamesAreRead
<1> HIDE DEF text, short
<1>5. type = <<"CondBranchRelative", n1, distance>>
  BY <1>2, <1>3, <1>4 DEF InstructionType
<1>6. WritesBranch(w, n1, 0, distance, btypes[m]) => Kept(w, text, address)
  <2>1. type[1] = "CondBranchRelative" /\ type[2] = n1 /\ type[3] = distance
    BY <1>5
  <2> HIDE DEF type
  <2>2. RewrittenAs(type, w, text, TRUE) = gen_branch(n1, 0, distance, btypes[m], TRUE)
    BY <1>1, <1>2, <1>3, <2>1 DEF RewrittenAs, serialize_cofi
  <2> QED  BY <2>2 DEF Kept, WritesBranch, type
<1>7. type = ConditionalType(n1, 0, distance)
  BY <1>5 DEF ConditionalType
<1> QED  BY <1>6, <1>7, Zenon DEF text, type

\* The texts of a word that is decoded as an entry.
SpikeOf(entry, w) ==
    DisassembledAs(entry, w, reg_to_str_spike, LAMBDA offset : <<"pc", offset>>, TRUE)
ObjdumpOf(entry, w, address) ==
    DisassembledAs(entry, w, LAMBDA reg : <<"x", reg>>,
                   LAMBDA offset : <<"address", address + offset>>, FALSE)
Translated(entry, w, address) == format_args(translate_format(ObjdumpOf(entry, w, address)))

\* The texts of a word are those of the entry that it is decoded as.
LEMMA TextsAreOfAnEntry ==
    ASSUME NEW w, NEW address, IsKnown(w)
    PROVE  /\ SpikeText(w) = SpikeOf(Decoded(w).mnemonic, w)
           /\ ObjdumpText(w, address) = ObjdumpOf(Decoded(w).mnemonic, w, address)
<1>1. SpikeText(w) = SpikeOf(Decoded(w).mnemonic, w)
  BY DEF SpikeText, SpikeOf, Disassembled
<1>2. ObjdumpText(w, address) = ObjdumpOf(Decoded(w).mnemonic, w, address)
  BY DEF ObjdumpText, ObjdumpOf, Disassembled
<1> QED  BY <1>1, <1>2

\* Two texts are the same branch, which is written as it was.
Alike(w, text1, text2, address) ==
    /\ InstructionType(text1, address) = InstructionType(text2, address)
    /\ Kept(w, text1, address)
    /\ Kept(w, text2, address)

NumberedReg(n) == <<"reg", <<"x", n>>>>
PcTo(offset) == <<"pc", offset>>
AddressTo(offset, address) == <<"address", address + offset>>

\* A numbered register is spelled as spike-dasm names it; a target is left as it is.
LEMMA ArgumentsAreSpelled ==
    /\ \A n : Spelled(NumberedReg(n)) = SpikeReg(n)
    /\ \A offset, address : Spelled(AddressTo(offset, address)) = AddressTo(offset, address)
<1>1. \A n : Spelled(NumberedReg(n)) = SpikeReg(n)
  BY DEF Spelled, NumberedReg, SpikeReg
<1>2. \A offset, address : Spelled(AddressTo(offset, address)) = AddressTo(offset, address)
  BY DEF Spelled, AddressTo
<1> QED  BY <1>1, <1>2

\* A target is read as its distance, whether it is written as one or as an address.
LEMMA TargetsAreRead ==
    ASSUME NEW offset \in Int, NEW address \in Int
    PROVE  /\ process_address_format(PcTo(offset), address) = offset
           /\ process_address_format(AddressTo(offset, address), address) = offset
<1>1. process_address_format(PcTo(offset), address) = offset
  BY DEF process_address_format, PcTo
<1>2. process_address_format(AddressTo(offset, address), address) = address + offset - address
  BY DEF process_address_format, AddressTo
<1> QED  BY <1>1, <1>2

\* The offset of a branch is a whole number.
LEMMA OffsetType ==
    ASSUME NEW w
    PROVE  /\ BOffset(w) \in Int /\ JOffset(w) \in Int
           /\ CBOffset(w) \in Int /\ CJOffset(w) \in Int
<1>1. BOffset(w) \in Int
  <2>1. /\ Part(w, 8, 4) \in 0..15 /\ Part(w, 25, 6) \in 0..63 /\ Part(w, 7, 1) \in 0..1
        /\ Part(w, 31, 1) \in 0..1
    BY PartType
  <2> QED  BY <2>1 DEF BOffset
<1>2. JOffset(w) \in Int
  <2>1. /\ Part(w, 21, 10) \in 0..1023 /\ Part(w, 20, 1) \in 0..1 /\ Part(w, 12, 8) \in 0..255
        /\ Part(w, 31, 1) \in 0..1
    BY PartType
  <2>2. \A x, y \in Int : x * y \in Int
    BY SMT
  <2>3. 2^20 \in Int
    BY SMT
  <2>4. 2^20 * Part(w, 31, 1) \in Int
    <3>1. Part(w, 31, 1) \in Int
      BY <2>1, SMT
    <3> QED  BY <3>1, <2>2, <2>3, Zenon
  <2> DEFINE sign == 2^20 * Part(w, 31, 1)
  <2>5. JOffset(w) =
            2 * Part(w, 21, 10) + 2048 * Part(w, 20, 1) + 4096 * Part(w, 12, 8) - sign
    BY DEF JOffset
  <2>6. sign \in Int
    BY <2>4, Zenon
  <2> HIDE DEF sign
  <2>7. \A a, b, c, d \in Int : 2 * a + 2048 * b + 4096 * c - d \in Int
    BY SMT
  <2>8. Part(w, 21, 10) \in Int /\ Part(w, 20, 1) \in Int /\ Part(w, 12, 8) \in Int
    BY <2>1, SMT
  <2> QED  BY <2>5, <2>6, <2>7, <2>8
<1>3. CBOffset(w) \in Int
  <2>1. /\ Part(w, 3, 2) \in 0..3 /\ Part(w, 10, 2) \in 0..3 /\ Part(w, 2, 1) \in 0..1
        /\ Part(w, 5, 2) \in 0..3 /\ Part(w, 12, 1) \in 0..1
    BY PartType
  <2> QED  BY <2>1 DEF CBOffset
<1>4. CJOffset(w) \in Int
  <2>1. /\ Part(w, 3, 3) \in 0..7 /\ Part(w, 11, 1) \in 0..1 /\ Part(w, 2, 1) \in 0..1
        /\ Part(w, 7, 1) \in 0..1 /\ Part(w, 6, 1) \in 0..1 /\ Part(w, 9, 2) \in 0..3
        /\ Part(w, 8, 1) \in 0..1 /\ Part(w, 12, 1) \in 0..1
    BY PartType
  <2> QED  BY <2>1 DEF CJOffset
<1> QED  BY <1>1, <1>2, <1>3, <1>4

\* The offset of a branch of two bytes is one of 16 bits.
LEMMA SixteenBits == \A n \in Int : -4096 <= n /\ n < 4096 => I16(n) = n
<1> SUFFICES ASSUME NEW n \in Int, -4096 <= n, n < 4096
             PROVE  I16(n) = n
  OBVIOUS
<1>1. 2^15 = 32768 /\ 2^16 = 65536
  BY SMT
<1>2. (n + 32768) % 65536 = n + 32768
  BY SMT
<1> QED  BY <1>1, <1>2, SMT DEF I16

LEMMA CompressedOffsets ==
    ASSUME NEW w
    PROVE  I16(CBOffset(w)) = CBOffset(w) /\ I16(CJOffset(w)) = CJOffset(w)
<1>1. CBOffset(w) \in Int /\ -4096 <= CBOffset(w) /\ CBOffset(w) < 4096
  <2>1. /\ Part(w, 3, 2) \in 0..3 /\ Part(w, 10, 2) \in 0..3 /\ Part(w, 2, 1) \in 0..1
        /\ Part(w, 5, 2) \in 0..3 /\ Part(w, 12, 1) \in 0..1
    BY PartType
  <2> QED  BY <2>1 DEF CBOffset
<1>2. CJOffset(w) \in Int /\ -4096 <= CJOffset(w) /\ CJOffset(w) < 4096
  <2>1. /\ Part(w, 3, 3) \in 0..7 /\ Part(w, 11, 1) \in 0..1 /\ Part(w, 2, 1) \in 0..1
        /\ Part(w, 7, 1) \in 0..1 /\ Part(w, 6, 1) \in 0..1 /\ Part(w, 9, 2) \in 0..3
        /\ Part(w, 8, 1) \in 0..1 /\ Part(w, 12, 1) \in 0..1
    BY PartType
  <2> QED  BY <2>1 DEF CJOffset
<1> QED  BY <1>1, <1>2, SixteenBits

\* The conditional branches by their entries.
Stands(entry, m) ==
    <<entry, m>> \in {<<"BEQ", "beq">>, <<"BNE", "bne">>, <<"BLT", "blt">>, <<"BGE", "bge">>,
                      <<"BLTU", "bltu">>, <<"BGEU", "bgeu">>}

\* What the disassemblers write of a conditional branch.
LEMMA BranchTexts ==
    ASSUME NEW w, NEW address, NEW entry, NEW m, Stands(entry, m)
    PROVE  /\ SpikeOf(entry, w) =
                  IF Part(w, 20, 5) = 0 /\ m \in DOMAIN Shortened
                  THEN ShortText(m, Part(w, 15, 5), PcTo(BOffset(w)))
                  ELSE LongText(m, Part(w, 15, 5), Part(w, 20, 5), PcTo(BOffset(w)))
           /\ Translated(entry, w, address) =
                  LongText(m, Part(w, 15, 5), Part(w, 20, 5), AddressTo(BOffset(w), address))
<1>1. SpikeOf(entry, w) =
          IF Part(w, 20, 5) = 0 /\ m \in DOMAIN Shortened
          THEN ShortText(m, Part(w, 15, 5), PcTo(BOffset(w)))
          ELSE LongText(m, Part(w, 15, 5), Part(w, 20, 5), PcTo(BOffset(w)))
  BY DEF Stands, SpikeOf, DisassembledAs, ShortText, LongText, SpikeReg, PcTo
<1>2. ObjdumpOf(entry, w, address) =
          Text(m, <<NumberedReg(Part(w, 15, 5)), NumberedReg(Part(w, 20, 5)),
                    AddressTo(BOffset(w), address)>>)
  BY DEF Stands, ObjdumpOf, DisassembledAs, NumberedReg, AddressTo
<1> DEFINE args == <<NumberedReg(Part(w, 15, 5)), NumberedReg(Part(w, 20, 5)),
                     AddressTo(BOffset(w), address)>>
<1>3. m \in {"beq", "bne", "blt", "bge", "bltu", "bgeu"}
  BY DEF Stands
<1>4. translate_format(Text(m, args)) = Text(m, args)
  <2> HIDE DEF args
  <2> QED  BY <1>3 DEF translate_format, Text
<1>5. Translated(entry, w, address) = Formatted(m, args)
  BY <1>2, <1>4, Zenon DEF Translated, Formatted
<1>6. Formatted(m, args) =
          LongText(m, Part(w, 15, 5), Part(w, 20, 5), AddressTo(BOffset(w), address))
  <2>1. Formatted(m, args) =
            Text(m, <<Spelled(NumberedReg(Part(w, 15, 5))),
                      Spelled(NumberedReg(Part(w, 20, 5))),
                      Spelled(AddressTo(BOffset(w), address))>>)
    BY SpelledThree, Zenon
  <2>2. /\ Spelled(NumberedReg(Part(w, 15, 5))) = SpikeReg(Part(w, 15, 5))
        /\ Spelled(NumberedReg(Part(w, 20, 5))) = SpikeReg(Part(w, 20, 5))
        /\ Spelled(AddressTo(BOffset(w), address)) = AddressTo(BOffset(w), address)
    BY ArgumentsAreSpelled
  <2> QED  BY <2>1, <2>2 DEF LongText
<1> QED  BY <1>1, <1>5, <1>6, Zenon

\* A conditional branch is read alike from both texts, and written as it was.
LEMMA BranchIsKept ==
    ASSUME NEW w, w \subseteq 0..31, NEW address \in Int, NEW entry, NEW m, Stands(entry, m),
           w \cap (0..6 \cup 12..14) = Word(<<0, \h63>>) \cup Placed(btypes[m], 0, 3, 12)
    PROVE  Alike(w, SpikeOf(entry, w), Translated(entry, w, address), address)
<1> DEFINE r1 == Part(w, 15, 5)
           r2 == Part(w, 20, 5)
           o == BOffset(w)
           long == LongText(m, r1, r2, PcTo(o))
           short == ShortText(m, r1, PcTo(o))
           numbered == LongText(m, r1, r2, AddressTo(o, address))
           ahead == PcTo(o)
           there == AddressTo(o, address)
<1>1. r1 \in Nat /\ r2 \in Nat
  <2>1. r1 \in 0..31 /\ r2 \in 0..31
    BY PartType
  <2> QED  BY <2>1
<1>2. /\ process_address_format(ahead, address) = o
      /\ process_address_format(there, address) = o
  BY OffsetType, TargetsAreRead
<1>3. m \in DOMAIN btypes
  BY DEF Stands, btypes
<1>4. WritesBranch(w, r1, r2, o, btypes[m])
  BY BranchAgain DEF WritesBranch
<1>5. /\ SpikeOf(entry, w) = IF r2 = 0 /\ m \in DOMAIN Shortened THEN short ELSE long
      /\ Translated(entry, w, address) = numbered
  BY BranchTexts, Zenon
<1> HIDE DEF r1, r2, o, ahead, there
<1>6. /\ InstructionType(LongText(m, r1, r2, there), address) = ConditionalType(r1, r2, o)
      /\ Kept(w, LongText(m, r1, r2, there), address)
  BY <1>1, <1>2, <1>3, <1>4, ConditionIsRead
<1>7. /\ InstructionType(LongText(m, r1, r2, ahead), address) = ConditionalType(r1, r2, o)
      /\ Kept(w, LongText(m, r1, r2, ahead), address)
  BY <1>1, <1>2, <1>3, <1>4, ConditionIsRead
<1>8. CASE r2 = 0 /\ m \in DOMAIN Shortened
  <2>1. /\ InstructionType(ShortText(m, r1, ahead), address) = ConditionalType(r1, 0, o)
        /\ Kept(w, ShortText(m, r1, ahead), address)
    <3>1. WritesBranch(w, r1, 0, o, btypes[m])
      BY <1>4, <1>8
    <3> QED  BY <1>1, <1>2, <1>8, <3>1, ShortIsRead
  <2> QED  BY <1>5, <1>6, <1>8, <2>1, Zenon DEF Alike, ahead, there
<1>9. CASE ~(r2 = 0 /\ m \in DOMAIN Shortened)
  BY <1>5, <1>6, <1>7, <1>9, Zenon DEF Alike, ahead, there
<1> QED  BY <1>8, <1>9, Zenon

IsJumpAndLink(w, reg, offset) == gen_jal(reg, offset, TRUE) = w
IsJump(w, offset) == gen_cj(offset, TRUE) = w

\* What a jump without a register is read as, and rewritten.
JumpText(m, to) == Text(m, <<to>>)
LEMMA JumpIsRead ==
    ASSUME NEW w, NEW m \in {"j", "c.j"}, NEW to,
           NEW address, NEW distance, process_address_format(to, address) = distance
    PROVE  /\ InstructionType(JumpText(m, to), address) =
                  <<"BranchRelativeStore", 0, distance>>
           /\ m = "j" /\ IsJumpAndLink(w, 0, distance) => Kept(w, JumpText(m, to), address)
           /\ m = "c.j" /\ I16(distance) = distance /\ IsJump(w, distance) =>
                  Kept(w, JumpText(m, to), address)
<1> DEFINE text == JumpText(m, to)
           type == InstructionType(text, address)
<1>1. text.mnemonic = m /\ text.args[1] = to
  BY DEF JumpText, Text
<1> HIDE DEF text
<1>2. type = <<"BranchRelativeStore", 0, distance>>
  BY <1>1 DEF InstructionType
<1>3. CofiType(m) = m
  BY DEF CofiType, AsWritten, btypes
<1>4. type[1] = "BranchRelativeStore" /\ type[2] = 0 /\ type[3] = distance
  BY <1>2
<1>5. m = "j" /\ IsJumpAndLink(w, 0, distance) => Kept(w, text, address)
  <2> SUFFICES ASSUME m = "j", IsJumpAndLink(w, 0, distance)
               PROVE  Kept(w, text, address)
    OBVIOUS
  <2> HIDE DEF type
  <2>1. RewrittenAs(type, w, text, TRUE) = gen_jal(0, distance, TRUE)
    BY <1>1, <1>3, <1>4 DEF RewrittenAs, serialize_cofi, btypes
  <2> QED  BY <2>1 DEF Kept, IsJumpAndLink, type
<1>6. m = "c.j" /\ I16(distance) = distance /\ IsJump(w, distance) => Kept(w, text, address)
  <2> SUFFICES ASSUME m = "c.j", I16(distance) = distance, IsJump(w, distance)
               PROVE  Kept(w, text, address)
    OBVIOUS
  <2> HIDE DEF type
  <2>1. RewrittenAs(type, w, text, TRUE) = gen_cj(distance, TRUE)
    BY <1>1, <1>3, <1>4 DEF RewrittenAs, serialize_cofi, btypes
  <2> QED  BY <2>1 DEF Kept, IsJump, type
<1> QED  BY <1>2, <1>5, <1>6, Zenon DEF text, type

\* spike-dasm names no register for a jump that links to ra.
LEMMA JumpToRaIsRead ==
    ASSUME NEW w, NEW to, NEW address, NEW distance,
           process_address_format(to, address) = distance
    PROVE  /\ InstructionType(JumpText("jal", to), address) =
                  <<"BranchRelativeStore", 1, distance>>
           /\ IsJumpAndLink(w, 1, distance) => Kept(w, JumpText("jal", to), address)
<1> DEFINE text == JumpText("jal", to)
           type == InstructionType(text, address)
<1>1. text.mnemonic = "jal" /\ Len(text.args) = 1 /\ text.args[1] = to
  BY DEF JumpText, Text
<1> HIDE DEF text
<1>2. type = <<"BranchRelativeStore", 1, distance>>
  BY <1>1 DEF InstructionType
<1>3. CofiType("jal") = "jal"
  BY DEF CofiType, AsWritten, btypes
<1>4. type[1] = "BranchRelativeStore" /\ type[2] = 1 /\ type[3] = distance
  BY <1>2
<1>5. IsJumpAndLink(w, 1, distance) => Kept(w, text, address)
  <2> HIDE DEF type
  <2>1. RewrittenAs(type, w, text, TRUE) = gen_jal(1, distance, TRUE)
    BY <1>1, <1>3, <1>4 DEF RewrittenAs, serialize_cofi, btypes
  <2> QED  BY <2>1 DEF Kept, IsJumpAndLink, type
<1> QED  BY <1>2, <1>5, Zenon DEF text, type

\* What a jump with a register is read as, and rewritten.
LinkText(n, to) == Text("jal", <<SpikeReg(n), to>>)
LEMMA LinkIsRead ==
    ASSUME NEW w, NEW n \in Nat, NEW to,
           NEW address, NEW distance, process_address_format(to, address) = distance
    PROVE  /\ InstructionType(LinkText(n, to), address) =
                  <<"BranchRelativeStore", n, distance>>
           /\ IsJumpAndLink(w, n, distance) => Kept(w, LinkText(n, to), address)
<1> DEFINE text == LinkText(n, to)
           type == InstructionType(text, address)
<1>1. /\ text.mnemonic = "jal" /\ Len(text.args) = 2
      /\ text.args[1][2] = reg_to_str_spike(n) /\ text.args[2] = to
  BY DEF LinkText, Text, SpikeReg
<1>2. process_register(text.args[1][2]) = n
  BY <1>1, NamesAreRead
<1> HIDE DEF text
<1>3. type = <<"BranchRelativeStore", n, distance>>
  BY <1>1, <1>2 DEF InstructionType
<1>4. CofiType("jal") = "jal"
  BY DEF CofiType, AsWritten, btypes
<1>5. type[1] = "BranchRelativeStore" /\ type[2] = n /\ type[3] = distance
  BY <1>3
<1>6. IsJumpAndLink(w, n, distance) => Kept(w, text, address)
  <2> HIDE DEF type
  <2>1. RewrittenAs(type, w, text, TRUE) = gen_jal(n, distance, TRUE)
    BY <1>1, <1>4, <1>5 DEF RewrittenAs, serialize_cofi, btypes
  <2> QED  BY <2>1 DEF Kept, IsJumpAndLink, type
<1> QED  BY <1>3, <1>6, Zenon DEF text, type

\* So is a jump of four bytes, ...
LEMMA JumpAndLinkIsKept ==
    ASSUME NEW w, w \subseteq 0..31, NEW address \in Int, w \cap 0..6 = Word(<<0, \h6f>>)
    PROVE  Alike(w, SpikeOf("JAL", w), Translated("JAL", w, address), address)
<1> DEFINE r == Part(w, 7, 5)
           o == JOffset(w)
           ahead == PcTo(o)
           there == AddressTo(o, address)
<1>1. r \in Nat
  <2>1. r \in 0..31
    BY PartType
  <2> QED  BY <2>1
<1>2. /\ process_address_format(ahead, address) = o
      /\ process_address_format(there, address) = o
  BY OffsetType, TargetsAreRead
<1>3. IsJumpAndLink(w, r, o)
  BY JumpAndLinkAgain DEF IsJumpAndLink
<1>4. SpikeOf("JAL", w) =
          IF r \in {0, 1} THEN JumpText(IF r = 0 THEN "j" ELSE "jal", ahead)
                         ELSE LinkText(r, ahead)
  BY DEF SpikeOf, DisassembledAs, JumpText, LinkText, SpikeReg, PcTo
<1>5. ObjdumpOf("JAL", w, address) = Text("jal", <<NumberedReg(r), there>>)
  BY DEF ObjdumpOf, DisassembledAs, NumberedReg, AddressTo
<1>6. Spelled(NumberedReg(r)) = SpikeReg(r) /\ Spelled(there) = there
  BY ArgumentsAreSpelled
<1> HIDE DEF r, o, ahead, there
<1>7. CASE r = 0
  <2>1. translate_format(Text("jal", <<NumberedReg(r), there>>)) = Text("j", <<there>>)
    BY <1>7 DEF translate_format, Text, NumberedReg
  <2>2. Translated("JAL", w, address) = Formatted("j", <<there>>)
    BY <1>5, <2>1, Zenon DEF Translated, Formatted
  <2>3. Formatted("j", <<there>>) = Text("j", <<Spelled(there)>>)
    BY SpelledOne, Zenon
  <2>4. Translated("JAL", w, address) = JumpText("j", there)
    BY <1>6, <2>2, <2>3, Zenon DEF JumpText
  <2>5. \A to : process_address_format(to, address) = o =>
            /\ InstructionType(JumpText("j", to), address) = <<"BranchRelativeStore", 0, o>>
            /\ Kept(w, JumpText("j", to), address)
    BY <1>3, <1>7, JumpIsRead
  <2>6. SpikeOf("JAL", w) = JumpText("j", ahead)
    BY <1>4, <1>7
  <2> QED  BY <1>2, <2>4, <2>5, <2>6, Zenon DEF Alike
<1>8. CASE r # 0
  <2>1. translate_format(Text("jal", <<NumberedReg(r), there>>)) =
            Text("jal", <<NumberedReg(r), there>>)
    BY <1>8 DEF translate_format, Text, NumberedReg
  <2>2. Translated("JAL", w, address) = Formatted("jal", <<NumberedReg(r), there>>)
    BY <1>5, <2>1, Zenon DEF Translated, Formatted
  <2>3. Formatted("jal", <<NumberedReg(r), there>>) =
            Text("jal", <<Spelled(NumberedReg(r)), Spelled(there)>>)
    BY SpelledTwo, Zenon
  <2>4. Translated("JAL", w, address) = LinkText(r, there)
    BY <1>6, <2>2, <2>3, Zenon DEF LinkText
  <2>5. \A to : process_address_format(to, address) = o =>
            /\ InstructionType(LinkText(r, to), address) = <<"BranchRelativeStore", r, o>>
            /\ Kept(w, LinkText(r, to), address)
    BY <1>1, <1>3, LinkIsRead
  <2>6. CASE r = 1
    <3>1. /\ InstructionType(JumpText("jal", ahead), address) =
                 <<"BranchRelativeStore", r, o>>
          /\ Kept(w, JumpText("jal", ahead), address)
      BY <1>2, <1>3, <2>6, JumpToRaIsRead
    <3>2. SpikeOf("JAL", w) = JumpText("jal", ahead)
      BY <1>4, <2>6
    <3> QED  BY <1>2, <2>4, <2>5, <3>1, <3>2, Zenon DEF Alike
  <2>7. CASE r # 1
    <3>1. SpikeOf("JAL", w) = LinkText(r, ahead)
      BY <1>4, <1>8, <2>7
    <3> QED  BY <1>2, <2>4, <2>5, <3>1, Zenon DEF Alike
  <2> QED  BY <2>6, <2>7
<1> QED  BY <1>7, <1>8, Zenon

\* ... a jump of two, ...
LEMMA JumpIsKept ==
    ASSUME NEW w, w \subseteq 0..15, NEW address \in Int,
           w \cap (0..1 \cup 13..15) = JumpOpcode
    PROVE  Alike(w, SpikeOf("C_J", w), Translated("C_J", w, address), address)
<1> DEFINE o == CJOffset(w)
           ahead == PcTo(o)
           there == AddressTo(o, address)
<1>1. /\ process_address_format(ahead, address) = o
      /\ process_address_format(there, address) = o
  BY OffsetType, TargetsAreRead
<1>2. IsJump(w, o) /\ I16(o) = o
  BY JumpAgain, CompressedOffsets DEF IsJump
<1>3. SpikeOf("C_J", w) = JumpText("c.j", ahead)
  BY DEF SpikeOf, DisassembledAs, JumpText, PcTo
<1>4. ObjdumpOf("C_J", w, address) = Text("c.j", <<there>>)
  BY DEF ObjdumpOf, DisassembledAs, AddressTo
<1>5. Spelled(there) = there
  BY ArgumentsAreSpelled
<1> HIDE DEF o, ahead, there
<1>6. translate_format(Text("c.j", <<there>>)) = Text("c.j", <<there>>)
  BY DEF translate_format, Text
<1>7. Translated("C_J", w, address) = Formatted("c.j", <<there>>)
  BY <1>4, <1>6, Zenon DEF Translated, Formatted
<1>8. Formatted("c.j", <<there>>) = Text("c.j", <<Spelled(there)>>)
  BY SpelledOne, Zenon
<1>9. Translated("C_J", w, address) = JumpText("c.j", there)
  BY <1>5, <1>7, <1>8, Zenon DEF JumpText
<1>10. \A to : process_address_format(to, address) = o =>
           /\ InstructionType(JumpText("c.j", to), address) = <<"BranchRelativeStore", 0, o>>
           /\ Kept(w, JumpText("c.j", to), address)
  BY <1>2, JumpIsRead
<1> QED  BY <1>1, <1>3, <1>9, <1>10, Zenon DEF Alike

\* The compressed branches, by their entries.
IsIfEqualsZero(w, reg, offset) == gen_cbeqz(reg, offset, TRUE) = w
IsUnlessZero(w, reg, offset) == gen_cbnez(reg, offset, TRUE) = w

IfEqualsZeroOpcode == \hc001
UnlessZeroOpcode == \he001

\* gen_cbeqz and gen_cbnez by the names of their opcodes.
LEMMA CompressedBranches ==
    \A reg, offset, safe :
        /\ gen_cbeqz(reg, offset, safe) =
               CompressedBranch(IfEqualsZeroOpcode, reg, offset, safe)
        /\ gen_cbnez(reg, offset, safe) =
               CompressedBranch(UnlessZeroOpcode, reg, offset, safe)
BY DEF gen_cbeqz, gen_cbnez, IfEqualsZeroOpcode, UnlessZeroOpcode

LEMMA IfEqualsZeroAgain ==
    ASSUME NEW w, w \subseteq 0..15,
           w \cap (0..1 \cup 13..15) = Word(<<0, IfEqualsZeroOpcode>>)
    PROVE  IsIfEqualsZero(w, Part(w, 7, 3), CBOffset(w))
<1>1. CompressedBranch(IfEqualsZeroOpcode, Part(w, 7, 3), CBOffset(w), TRUE) = w
  BY IfZeroAgain, Zenon
<1> QED  BY <1>1, CompressedBranches, Zenon DEF IsIfEqualsZero

LEMMA UnlessZeroAgain ==
    ASSUME NEW w, w \subseteq 0..15,
           w \cap (0..1 \cup 13..15) = Word(<<0, UnlessZeroOpcode>>)
    PROVE  IsUnlessZero(w, Part(w, 7, 3), CBOffset(w))
<1>1. CompressedBranch(UnlessZeroOpcode, Part(w, 7, 3), CBOffset(w), TRUE) = w
  BY IfZeroAgain, Zenon
<1> QED  BY <1>1, CompressedBranches, Zenon DEF IsUnlessZero

IsIfZero(w, m, reg, offset) ==
    \/ m = "c.beqz" /\ IsIfEqualsZero(w, reg, offset)
    \/ m = "c.bnez" /\ IsUnlessZero(w, reg, offset)
StandsShort(entry, m, opcode) ==
    <<entry, m, opcode>> \in {<<"C_BEQZ", "c.beqz", IfEqualsZeroOpcode>>,
                              <<"C_BNEZ", "c.bnez", UnlessZeroOpcode>>}
IfZeroText(m, n, to) == Text(m, <<SpikeReg(n), to>>)

\* What a branch of two bytes is read as, and rewritten.
LEMMA IfZeroIsRead ==
    ASSUME NEW w, NEW entry, NEW m, NEW opcode, StandsShort(entry, m, opcode), NEW n \in Nat,
           NEW to, NEW address, NEW distance, process_address_format(to, address) = distance
    PROVE  /\ InstructionType(IfZeroText(m, n + 8, to), address) =
                  <<"CondBranchRelative", n + 8, distance>>
           /\ I16(distance) = distance /\ IsIfZero(w, m, n, distance) =>
                  Kept(w, IfZeroText(m, n + 8, to), address)
<1> DEFINE text == IfZeroText(m, n + 8, to)
           type == InstructionType(text, address)
<1>1. \/ m = "c.beqz" /\ opcode = IfEqualsZeroOpcode
      \/ m = "c.bnez" /\ opcode = UnlessZeroOpcode
  BY DEF StandsShort
<1>2. /\ text.mnemonic = m
      /\ text.args[1][2] = reg_to_str_spike(n + 8) /\ text.args[2] = to
  BY DEF IfZeroText, Text, SpikeReg
<1>3. process_register(text.args[1][2]) = n + 8
  <2>1. n + 8 \in Nat
    OBVIOUS
  <2>2. process_register(reg_to_str_spike(n + 8)) = n + 8
    BY <2>1, NamesAreRead, Zenon
  <2> QED  BY <1>2, <2>2
<1> HIDE DEF text
<1>4. type = <<"CondBranchRelative", n + 8, distance>>
  BY <1>1, <1>2, <1>3 DEF InstructionType
<1>5. CofiType(m) = m
  BY <1>1 DEF CofiType, AsWritten, btypes
<1>6. type[1] = "CondBranchRelative" /\ type[2] = n + 8 /\ type[3] = distance
  BY <1>4
<1>7. type[2] - 8 = n
  BY <1>6
<1>8. ASSUME I16(distance) = distance, IsIfZero(w, m, n, distance)
      PROVE  Kept(w, text, address)
  <2> HIDE DEF type
  <2>1. CASE m = "c.beqz" /\ opcode = IfEqualsZeroOpcode
    <3>1. type[1] = "CondBranchRelative" /\ type[3] = distance
      BY <1>6
    <3>2. CofiType(text.mnemonic) = "c.beqz"
      BY <1>2, <1>5, <2>1
    <3>3. RewrittenAs(type, w, text, TRUE) = gen_cbeqz(n, distance, TRUE)
      BY <1>7, <1>8, <3>1, <3>2 DEF RewrittenAs, serialize_cofi, btypes
    <3>4. IsIfEqualsZero(w, n, distance) => Kept(w, text, address)
      BY <3>3 DEF Kept, IsIfEqualsZero, type
    <3> QED  BY <1>8, <2>1, <3>4 DEF IsIfZero
  <2>2. CASE m = "c.bnez" /\ opcode = UnlessZeroOpcode
    <3>1. type[1] = "CondBranchRelative" /\ type[3] = distance
      BY <1>6
    <3>2. CofiType(text.mnemonic) = "c.bnez"
      BY <1>2, <1>5, <2>2
    <3>3. RewrittenAs(type, w, text, TRUE) = gen_cbnez(n, distance, TRUE)
      BY <1>7, <1>8, <3>1, <3>2 DEF RewrittenAs, serialize_cofi, btypes
    <3>4. IsUnlessZero(w, n, distance) => Kept(w, text, address)
      BY <3>3 DEF Kept, IsUnlessZero, type
    <3> QED  BY <1>8, <2>2, <3>4 DEF IsIfZero
  <2> QED  BY <1>1, <2>1, <2>2
<1> QED  BY <1>4, <1>8, Zenon DEF text, type

\* ... and a branch of two.
LEMMA IfZeroIsKept ==
    ASSUME NEW w, w \subseteq 0..15, NEW address \in Int,
           NEW entry, NEW m, NEW opcode, StandsShort(entry, m, opcode),
           w \cap (0..1 \cup 13..15) = Word(<<0, opcode>>)
    PROVE  Alike(w, SpikeOf(entry, w), Translated(entry, w, address), address)
<1> DEFINE n == Part(w, 7, 3)
           o == CBOffset(w)
           ahead == PcTo(o)
           there == AddressTo(o, address)
<1>1. n \in Nat
  <2>1. n \in 0..7
    BY PartType
  <2> QED  BY <2>1
<1>2. /\ process_address_format(ahead, address) = o
      /\ process_address_format(there, address) = o
  BY OffsetType, TargetsAreRead
<1>3. IsIfZero(w, m, n, o)
  <2>1. CASE m = "c.beqz" /\ opcode = IfEqualsZeroOpcode
    <3>1. w \cap (0..1 \cup 13..15) = Word(<<0, IfEqualsZeroOpcode>>)
      BY <2>1, Zenon
    <3>2. IsIfEqualsZero(w, n, o)
      BY <3>1, IfEqualsZeroAgain, Zenon
    <3> QED  BY <2>1, <3>2 DEF IsIfZero
  <2>2. CASE m = "c.bnez" /\ opcode = UnlessZeroOpcode
    <3>1. w \cap (0..1 \cup 13..15) = Word(<<0, UnlessZeroOpcode>>)
      BY <2>2, Zenon
    <3>2. IsUnlessZero(w, n, o)
      BY <3>1, UnlessZeroAgain, Zenon
    <3> QED  BY <2>2, <3>2 DEF IsIfZero
  <2> QED  BY <2>1, <2>2 DEF StandsShort
<1>13. I16(o) = o
  BY CompressedOffsets
<1>4. \/ entry = "C_BEQZ" /\ m = "c.beqz"
      \/ entry = "C_BNEZ" /\ m = "c.bnez"
  BY DEF StandsShort
<1>5. SpikeOf(entry, w) = IfZeroText(m, n + 8, ahead)
  BY <1>4 DEF SpikeOf, DisassembledAs, IfZeroText, SpikeReg, PcTo
<1>6. ObjdumpOf(entry, w, address) = Text(m, <<NumberedReg(n + 8), there>>)
  BY <1>4 DEF ObjdumpOf, DisassembledAs, NumberedReg, AddressTo
<1>7. Spelled(NumberedReg(n + 8)) = SpikeReg(n + 8) /\ Spelled(there) = there
  BY ArgumentsAreSpelled
<1> HIDE DEF n, o, ahead, there
<1>8. translate_format(Text(m, <<NumberedReg(n + 8), there>>)) =
          Text(m, <<NumberedReg(n + 8), there>>)
  BY <1>4 DEF translate_format, Text
<1>9. Translated(entry, w, address) = Formatted(m, <<NumberedReg(n + 8), there>>)
  BY <1>6, <1>8, Zenon DEF Translated, Formatted
<1>10. Formatted(m, <<NumberedReg(n + 8), there>>) =
           Text(m, <<Spelled(NumberedReg(n + 8)), Spelled(there)>>)
  BY SpelledTwo, Zenon
<1>11. Translated(entry, w, address) = IfZeroText(m, n + 8, there)
  BY <1>7, <1>9, <1>10, Zenon DEF IfZeroText
<1>12. \A to : process_address_format(to, address) = o =>
           /\ InstructionType(IfZeroText(m, n + 8, to), address) =
                  <<"CondBranchRelative", n + 8, o>>
           /\ Kept(w, IfZeroText(m, n + 8, to), address)
  BY <1>1, <1>3, <1>13, IfZeroIsRead
<1> QED  BY <1>2, <1>5, <1>11, <1>12, Zenon DEF Alike

\* What is no branch to a distance is left as it was.
LEMMA LeftAlike ==
    ASSUME NEW w, NEW text1, NEW text2, NEW address, NEW type,
           type[1] \in {"BranchAbsoluteStore", "Normal"},
           InstructionType(text1, address) = type, InstructionType(text2, address) = type
    PROVE  Alike(w, text1, text2, address)
<1>1. Kept(w, text1, address) /\ Kept(w, text2, address)
  BY LeftAsItWas
<1> QED  BY <1>1, Zenon DEF Alike

\* Two texts are the same branch but for the register it links to, if that is lost.
AlikeButForALink(w, text1, text2, address) ==
    /\ InstructionType(text1, address) = InstructionType(text2, address) <=> ~LosesLink(text1)
    /\ Kept(w, text1, address)
    /\ Kept(w, text2, address)

AtText(offset, n) == <<"at", offset, <<"x", n>>>>

\* What spike-dasm writes of a jump to a register that it has a short form for.
PlainText(n, base) ==
    IF n = 0 /\ base = 1 THEN Text("ret", <<>>)
    ELSE Text(IF n = 0 THEN "jr" ELSE "jalr", <<SpikeReg(base)>>)

\* It is read as if it linked to no register.
LEMMA PlainJumpIsRead ==
    ASSUME NEW n, NEW base \in Nat, NEW address
    PROVE  InstructionType(PlainText(n, base), address) =
               <<"BranchAbsoluteStore", 0, base, 0>>
<1>1. CASE n = 0 /\ base = 1
  BY <1>1 DEF PlainText, InstructionType, Text
<1>2. ASSUME NEW m \in {"jr", "jalr"}
      PROVE  InstructionType(Text(m, <<SpikeReg(base)>>), address) =
                 <<"BranchAbsoluteStore", 0, base, 0>>
  <2> DEFINE text == Text(m, <<SpikeReg(base)>>)
  <2>1. /\ text.mnemonic = m /\ Len(text.args) = 1 /\ text.args[1][1] = "reg"
        /\ text.args[1][2] = reg_to_str_spike(base)
    BY DEF Text, SpikeReg
  <2>2. process_register(text.args[1][2]) = base
    BY <2>1, NamesAreRead
  <2> HIDE DEF text
  <2>3. InstructionType(text, address) = <<"BranchAbsoluteStore", 0, base, 0>>
    BY <2>1, <2>2 DEF InstructionType
  <2> QED  BY <2>3 DEF text
<1>3. CASE ~(n = 0 /\ base = 1)
  <2>1. PlainText(n, base) = Text(IF n = 0 THEN "jr" ELSE "jalr", <<SpikeReg(base)>>)
    BY <1>3 DEF PlainText
  <2>2. CASE n = 0
    <3>1. PlainText(n, base) = Text("jr", <<SpikeReg(base)>>)
      BY <2>1, <2>2
    <3> QED  BY <1>2, <3>1
  <2>3. CASE n # 0
    <3>1. PlainText(n, base) = Text("jalr", <<SpikeReg(base)>>)
      BY <2>1, <2>3
    <3> QED  BY <1>2, <3>1
  <2> QED  BY <2>2, <2>3
<1> QED  BY <1>1, <1>3

\* jalr: objdump has jr for it if it links to x0. Both texts leave it as it was, and
\* come back as the same type but for the one in which the register it links to is lost.
LEMMA JumpToRegisterIsKept ==
    ASSUME NEW w, NEW address
    PROVE  AlikeButForALink(w, SpikeOf("JALR", w), Translated("JALR", w, address), address)
<1> DEFINE n == Part(w, 7, 5)
           base == Part(w, 15, 5)
           i == IOffset(w)
           at == AtText(i, base)
           number == <<"number", i>>
           type == <<"BranchAbsoluteStore", n, base, i>>
<1>1. n \in Nat /\ base \in Nat
  <2>1. n \in 0..31 /\ base \in 0..31
    BY PartType
  <2> QED  BY <2>1
<1>2. /\ process_register(reg_to_str_spike(n)) = n
      /\ process_register(reg_to_str_spike(base)) = base
      /\ process_register(<<"x", base>>) = base
  BY <1>1, NamesAreRead
<1>3. SpikeOf("JALR", w) =
          IF i # 0 \/ n \notin {0, 1}
          THEN Text("jalr", <<SpikeReg(n), SpikeReg(base), number>>)
          ELSE PlainText(n, base)
  BY DEF SpikeOf, DisassembledAs, SpikeReg, PlainText
<1>4. ObjdumpOf("JALR", w, address) = Text("jalr", <<NumberedReg(n), at>>)
  BY DEF ObjdumpOf, DisassembledAs, NumberedReg, AtText
<1>5. Spelled(NumberedReg(n)) = SpikeReg(n) /\ Spelled(at) = at
  <2>1. Spelled(at) = at
    BY DEF Spelled, AtText
  <2> QED  BY <2>1, ArgumentsAreSpelled
<1>6. at[1] = "at" /\ at[2] = i /\ at[3] = <<"x", base>>
  BY DEF AtText
<1> HIDE DEF n, base, i, at
<1>7. ASSUME i # 0 \/ n \notin {0, 1}
      PROVE  InstructionType(SpikeOf("JALR", w), address) = type /\ ~LosesLink(SpikeOf("JALR", w))
  <2> DEFINE text == Text("jalr", <<SpikeReg(n), SpikeReg(base), number>>)
  <2>1. /\ text.mnemonic = "jalr" /\ Len(text.args) = 3
        /\ text.args[1][2] = reg_to_str_spike(n) /\ text.args[2][2] = reg_to_str_spike(base)
        /\ text.args[3][2] = i
    BY DEF Text, SpikeReg
  <2> HIDE DEF text
  <2>2. InstructionType(text, address) = type
    BY <1>2, <2>1 DEF InstructionType
  <2>3. ~LosesLink(text)
    BY <2>1 DEF LosesLink
  <2>4. SpikeOf("JALR", w) = text
    BY <1>3, <1>7, Zenon DEF text
  <2> QED  BY <2>2, <2>3, <2>4, Zenon
<1>8. ASSUME n = 0
      PROVE  InstructionType(Translated("JALR", w, address), address) = type
  <2>1. translate_format(Text("jalr", <<NumberedReg(n), at>>)) = Text("jr", <<at>>)
    BY <1>8 DEF translate_format, Text, NumberedReg
  <2>2. Translated("JALR", w, address) = Formatted("jr", <<at>>)
    BY <1>4, <2>1, Zenon DEF Translated, Formatted
  <2>3. Formatted("jr", <<at>>) = Text("jr", <<Spelled(at)>>)
    BY SpelledOne, Zenon
  <2> DEFINE text == Text("jr", <<at>>)
  <2>4. Translated("JALR", w, address) = text
    BY <1>5, <2>2, <2>3, Zenon
  <2>5. text.mnemonic = "jr" /\ text.args[1] = at
    BY DEF Text
  <2> HIDE DEF text
  <2>6. InstructionType(text, address) = <<"BranchAbsoluteStore", 0, base, i>>
    BY <1>2, <1>6, <2>5 DEF InstructionType
  <2>7. InstructionType(Translated("JALR", w, address), address) = type
    BY <1>8, <2>4, <2>6
  <2> QED  BY <2>7
<1>9. ASSUME n # 0
      PROVE  InstructionType(Translated("JALR", w, address), address) = type
  <2>1. translate_format(Text("jalr", <<NumberedReg(n), at>>)) =
            Text("jalr", <<NumberedReg(n), at>>)
    BY <1>9 DEF translate_format, Text, NumberedReg
  <2>2. Translated("JALR", w, address) = Formatted("jalr", <<NumberedReg(n), at>>)
    BY <1>4, <2>1, Zenon DEF Translated, Formatted
  <2>3. Formatted("jalr", <<NumberedReg(n), at>>) =
            Text("jalr", <<Spelled(NumberedReg(n)), Spelled(at)>>)
    BY SpelledTwo, Zenon
  <2> DEFINE text == Text("jalr", <<SpikeReg(n), at>>)
  <2>4. Translated("JALR", w, address) = text
    BY <1>5, <2>2, <2>3, Zenon
  <2>5. /\ text.mnemonic = "jalr" /\ Len(text.args) = 2
        /\ text.args[1][2] = reg_to_str_spike(n) /\ text.args[2] = at
    BY DEF Text, SpikeReg
  <2> HIDE DEF text
  <2>6. InstructionType(text, address) = type
    BY <1>2, <1>6, <2>5 DEF InstructionType
  <2>7. InstructionType(Translated("JALR", w, address), address) = type
    BY <2>4, <2>6, Zenon
  <2> QED  BY <2>7
<1>10. InstructionType(Translated("JALR", w, address), address) = type
  BY <1>8, <1>9, Zenon
<1>11. CASE i # 0 \/ n \notin {0, 1}
  <2>1. InstructionType(SpikeOf("JALR", w), address) = type /\ ~LosesLink(SpikeOf("JALR", w))
    BY <1>7, <1>11, Zenon
  <2>2. Alike(w, SpikeOf("JALR", w), Translated("JALR", w, address), address)
    BY <1>10, <2>1, LeftAlike
  <2> QED  BY <2>1, <2>2, Zenon DEF Alike, AlikeButForALink
<1>12. CASE i = 0 /\ n \in {0, 1}
  <2> DEFINE plain == PlainText(n, base)
             unlinked == <<"BranchAbsoluteStore", 0, base, 0>>
  <2>1. SpikeOf("JALR", w) = plain
    BY <1>3, <1>12, Zenon
  <2>2. InstructionType(plain, address) = unlinked
    BY <1>1, PlainJumpIsRead
  <2>3. LosesLink(plain) <=> n = 1
    BY <1>12 DEF LosesLink, PlainText, Text
  <2>4. unlinked = type <=> n = 0
    BY <1>12
  <2>5. unlinked[1] = "BranchAbsoluteStore" /\ type[1] = "BranchAbsoluteStore"
    OBVIOUS
  <2>6. n = 0 <=> n # 1
    BY <1>12
  <2> HIDE DEF plain, unlinked, type
  <2>7. Kept(w, plain, address)
    BY <2>2, <2>5, LeftAsItWas
  <2>8. Kept(w, Translated("JALR", w, address), address)
    BY <1>10, <2>5, LeftAsItWas
  <2> QED  BY <1>10, <2>1, <2>2, <2>3, <2>4, <2>6, <2>7, <2>8, Zenon DEF AlikeButForALink
<1> QED  BY <1>11, <1>12, Zenon

\* A text of one register is translated to that with the register's name.
LEMMA OneRegister ==
    ASSUME NEW m \in {"c.jr", "c.jalr", "other"}, NEW n
    PROVE  format_args(translate_format(Text(m, <<NumberedReg(n)>>))) =
               Text(m, <<SpikeReg(n)>>)
<1>1. translate_format(Text(m, <<NumberedReg(n)>>)) = Text(m, <<NumberedReg(n)>>)
  BY DEF translate_format, Text
<1>2. Formatted(m, <<NumberedReg(n)>>) = Text(m, <<Spelled(NumberedReg(n))>>)
  BY SpelledOne, Zenon
<1>3. Spelled(NumberedReg(n)) = SpikeReg(n)
  BY ArgumentsAreSpelled
<1> QED  BY <1>1, <1>2, <1>3, Zenon DEF Formatted

\* A jump to a register is read as one without an offset.
LEMMA ToRegisterIsRead ==
    ASSUME NEW m \in {"c.jr", "c.jalr"}, NEW n \in Nat, NEW address
    PROVE  InstructionType(Text(m, <<SpikeReg(n)>>), address) =
               <<"BranchAbsoluteStore", 0, n, 0>>
<1> DEFINE text == Text(m, <<SpikeReg(n)>>)
<1>1. /\ text.mnemonic = m /\ text.args[1][1] = "reg"
      /\ text.args[1][2] = reg_to_str_spike(n)
  BY DEF Text, SpikeReg
<1>2. process_register(text.args[1][2]) = n
  BY <1>1, NamesAreRead
<1> HIDE DEF text
<1>3. InstructionType(text, address) = <<"BranchAbsoluteStore", 0, n, 0>>
  BY <1>1, <1>2 DEF InstructionType
<1> QED  BY <1>3 DEF text

LEMMA ReturnIsRead ==
    ASSUME NEW address
    PROVE  /\ InstructionType(Text("ret", <<>>), address) = <<"BranchAbsoluteStore", 0, 1, 0>>
           /\ InstructionType(Text("c.ebreak", <<>>), address) =
                  <<"BranchAbsoluteStore", 0, 0, 0>>
BY DEF InstructionType, Text

LEMMA OtherIsRead ==
    ASSUME NEW address, NEW arg
    PROVE  InstructionType(Text("other", <<arg>>), address) = <<"Normal">>
BY DEF InstructionType, Text

\* c.jr: spike-dasm has ret for it.
LEMMA ShortJumpToRegisterIsKept ==
    ASSUME NEW w, NEW address
    PROVE  Alike(w, SpikeOf("C_JR", w), Translated("C_JR", w, address), address)
<1> DEFINE n == Part(w, 7, 5)
           type == <<"BranchAbsoluteStore", 0, n, 0>>
<1>1. n \in Nat
  <2>1. n \in 0..31
    BY PartType
  <2> QED  BY <2>1
<1>2. SpikeOf("C_JR", w) = IF n = 1 THEN Text("ret", <<>>) ELSE Text("c.jr", <<SpikeReg(n)>>)
  BY DEF SpikeOf, DisassembledAs, SpikeReg
<1>3. ObjdumpOf("C_JR", w, address) = Text("c.jr", <<NumberedReg(n)>>)
  BY DEF ObjdumpOf, DisassembledAs, NumberedReg
<1> HIDE DEF n
<1>4. Translated("C_JR", w, address) = Text("c.jr", <<SpikeReg(n)>>)
  BY <1>3, OneRegister DEF Translated
<1>5. InstructionType(Text("c.jr", <<SpikeReg(n)>>), address) = type
  BY <1>1, ToRegisterIsRead
<1>6. InstructionType(SpikeOf("C_JR", w), address) = type
  <2>1. CASE n = 1
    BY <1>2, <2>1, ReturnIsRead
  <2>2. CASE n # 1
    BY <1>2, <1>5, <2>2
  <2> QED  BY <2>1, <2>2
<1>7. InstructionType(Translated("C_JR", w, address), address) = type
  BY <1>4, <1>5, Zenon
<1> QED  BY <1>6, <1>7, LeftAlike

\* c.add, whose encodings c.ebreak and c.jalr share.
LEMMA AddIsKept ==
    ASSUME NEW w, NEW address
    PROVE  Alike(w, SpikeOf("C_ADD", w), Translated("C_ADD", w, address), address)
<1> DEFINE n == Part(w, 7, 5)
<1>1. n \in Nat
  <2>1. n \in 0..31
    BY PartType
  <2> QED  BY <2>1
<1>2. CASE Part(w, 2, 5) = 0 /\ n = 0
  <2>1. SpikeOf("C_ADD", w) = Text("c.ebreak", <<>>)
    BY <1>2 DEF SpikeOf, DisassembledAs
  <2>2. ObjdumpOf("C_ADD", w, address) = Text("c.ebreak", <<>>)
    BY <1>2 DEF ObjdumpOf, DisassembledAs
  <2>3. translate_format(Text("c.ebreak", <<>>)) = Text("c.ebreak", <<>>)
    BY DEF translate_format, Text
  <2>4. Translated("C_ADD", w, address) = Text("c.ebreak", <<>>)
    BY <2>2, <2>3, SpelledNone, Zenon DEF Translated, Formatted
  <2> QED  BY <2>1, <2>4, ReturnIsRead, LeftAlike
<1>3. CASE Part(w, 2, 5) = 0 /\ n # 0
  <2>1. SpikeOf("C_ADD", w) = Text("c.jalr", <<SpikeReg(n)>>)
    BY <1>3 DEF SpikeOf, DisassembledAs, SpikeReg
  <2>2. ObjdumpOf("C_ADD", w, address) = Text("c.jalr", <<NumberedReg(n)>>)
    BY <1>3 DEF ObjdumpOf, DisassembledAs, NumberedReg
  <2>3. Translated("C_ADD", w, address) = Text("c.jalr", <<SpikeReg(n)>>)
    BY <2>2, OneRegister DEF Translated
  <2>4. InstructionType(Text("c.jalr", <<SpikeReg(n)>>), address) =
            <<"BranchAbsoluteStore", 0, n, 0>>
    BY <1>1, ToRegisterIsRead
  <2> QED  BY <2>1, <2>3, <2>4, LeftAlike
<1>4. CASE Part(w, 2, 5) # 0
  <2>1. SpikeOf("C_ADD", w) = Text("other", <<SpikeReg(n)>>)
    BY <1>4 DEF SpikeOf, DisassembledAs, SpikeReg
  <2>2. ObjdumpOf("C_ADD", w, address) = Text("other", <<NumberedReg(n)>>)
    BY <1>4 DEF ObjdumpOf, DisassembledAs, NumberedReg
  <2>3. Translated("C_ADD", w, address) = Text("other", <<SpikeReg(n)>>)
    BY <2>2, OneRegister DEF Translated
  <2> QED  BY <2>1, <2>3, OtherIsRead, LeftAlike
<1> QED  BY <1>2, <1>3, <1>4

\* The entries that a disassembler of the model writes as what they are.
BranchEntries ==
    {"none", "BEQ", "BNE", "BLT", "BGE", "BLTU", "BGEU", "JAL", "JALR", "C_J", "C_BEQZ",
     "C_BNEZ", "C_JR", "C_ADD"}

\* What is no branch at all.
LEMMA OtherIsKept ==
    ASSUME NEW w, NEW address, NEW entry, entry \notin BranchEntries
    PROVE  Alike(w, SpikeOf(entry, w), Translated(entry, w, address), address)
<1> DEFINE n == Part(w, 7, 5)
<1>1. SpikeOf(entry, w) = Text("other", <<SpikeReg(n)>>)
  BY DEF SpikeOf, DisassembledAs, SpikeReg, BranchEntries
<1>2. ObjdumpOf(entry, w, address) = Text("other", <<NumberedReg(n)>>)
  BY DEF ObjdumpOf, DisassembledAs, NumberedReg, BranchEntries
<1>3. Translated(entry, w, address) = Text("other", <<SpikeReg(n)>>)
  BY <1>2, OneRegister DEF Translated
<1> QED  BY <1>1, <1>3, OtherIsRead, LeftAlike

\* What the table has fixed of the branches.
LEMMA TableFixes ==
    ASSUME NEW entry \in InstructionSet
    PROVE  /\ entry.mnemonic = "JAL" => /\ entry.length = 4 /\ entry.mmatch = 0..6
                                        /\ entry.mask = Word(<<0, \h6f>>)
           /\ entry.mnemonic = "C_J" => /\ entry.length = 2 /\ entry.mmatch = 0..1 \cup 13..15
                                        /\ entry.mask = JumpOpcode
           /\ entry.mnemonic = "C_BEQZ" =>
                  /\ entry.length = 2 /\ entry.mmatch = 0..1 \cup 13..15
                  /\ entry.mask = Word(<<0, IfEqualsZeroOpcode>>)
           /\ entry.mnemonic = "C_BNEZ" =>
                  /\ entry.length = 2 /\ entry.mmatch = 0..1 \cup 13..15
                  /\ entry.mask = Word(<<0, UnlessZeroOpcode>>)
           /\ \A m : Stands(entry.mnemonic, m) =>
                  /\ entry.length = 4 /\ entry.mmatch = 0..6 \cup 12..14
                  /\ entry.mask = Word(<<0, \h63>>) \cup Placed(btypes[m], 0, 3, 12)
<1>1. entry.mnemonic = "JAL" => /\ entry.length = 4 /\ entry.mmatch = 0..6
                                /\ entry.mask = Word(<<0, \h6f>>)
  BY BranchAssumption DEF Fixes
<1>2. entry.mnemonic = "C_J" => /\ entry.length = 2 /\ entry.mmatch = 0..1 \cup 13..15
                                /\ entry.mask = JumpOpcode
  BY BranchAssumption DEF Fixes, JumpOpcode
<1>3. entry.mnemonic = "C_BEQZ" => /\ entry.length = 2 /\ entry.mmatch = 0..1 \cup 13..15
                                   /\ entry.mask = Word(<<0, IfEqualsZeroOpcode>>)
  BY BranchAssumption DEF Fixes, IfEqualsZeroOpcode
<1>4. entry.mnemonic = "C_BNEZ" => /\ entry.length = 2 /\ entry.mmatch = 0..1 \cup 13..15
                                   /\ entry.mask = Word(<<0, UnlessZeroOpcode>>)
  BY BranchAssumption DEF Fixes, UnlessZeroOpcode
<1>5. ASSUME NEW m, Stands(entry.mnemonic, m)
      PROVE  /\ entry.length = 4 /\ entry.mmatch = 0..6 \cup 12..14
             /\ entry.mask = Word(<<0, \h63>>) \cup Placed(btypes[m], 0, 3, 12)
  <2>1. FixesBranch(entry.mnemonic, btypes[m])
    BY <1>5, BranchAssumption DEF Stands
  <2> QED  BY <2>1 DEF FixesBranch, Fixes
<1> QED  BY <1>1, <1>2, <1>3, <1>4, <1>5, Zenon

\* What no entry matches is unknown to both.
LEMMA UnknownIsKept ==
    ASSUME NEW w, NEW address
    PROVE  Alike(w, SpikeOf("none", w), Translated("none", w, address), address)
<1>1. SpikeOf("none", w) = Text("unknown", <<>>)
  BY DEF SpikeOf, DisassembledAs
<1>2. ObjdumpOf("none", w, address) = Text(".2byte", <<>>)
  BY DEF ObjdumpOf, DisassembledAs
<1>3. translate_format(Text(".2byte", <<>>)) = Text("unknown", <<>>)
  BY DEF translate_format, Text
<1>4. Translated("none", w, address) = Text("unknown", <<>>)
  BY <1>2, <1>3, SpelledNone, Zenon DEF Translated, Formatted
<1>5. InstructionType(Text("unknown", <<>>), address) = <<"Normal">>
  BY DEF InstructionType, Text
<1> QED  BY <1>1, <1>4, <1>5, LeftAlike

\* So it is for every entry but jalr.
LEMMA EveryEntryIsKept ==
    ASSUME NEW w, NEW address \in Int, NEW entry \in InstructionSet, entry.mnemonic # "JALR",
           w \cap entry.mmatch = entry.mask, w \subseteq 0..(8 * entry.length - 1)
    PROVE  Alike(w, SpikeOf(entry.mnemonic, w), Translated(entry.mnemonic, w, address),
                 address)
<1> DEFINE name == entry.mnemonic
<1>1. entry.length = 4 => w \subseteq 0..31
  BY SMT
<1>2. entry.length = 2 => w \subseteq 0..15
  BY SMT
<1>3. CASE name = "none"
  BY <1>3, UnknownIsKept, Zenon
<1>4. CASE name = "JAL"
  BY <1>1, <1>4, TableFixes, JumpAndLinkIsKept, Zenon
<1>5. name # "JALR"
  OBVIOUS
<1>6. CASE name = "C_J"
  BY <1>2, <1>6, TableFixes, JumpIsKept, Zenon
<1>7. CASE name = "C_BEQZ"
  <2>1. StandsShort(name, "c.beqz", IfEqualsZeroOpcode)
    BY <1>7, Zenon DEF StandsShort
  <2>2. w \subseteq 0..15 /\ w \cap (0..1 \cup 13..15) = Word(<<0, IfEqualsZeroOpcode>>)
    BY <1>2, <1>7, TableFixes, Zenon
  <2> QED  BY <2>1, <2>2, IfZeroIsKept, Zenon
<1>8. CASE name = "C_BNEZ"
  <2>1. StandsShort(name, "c.bnez", UnlessZeroOpcode)
    BY <1>8, Zenon DEF StandsShort
  <2>2. w \subseteq 0..15 /\ w \cap (0..1 \cup 13..15) = Word(<<0, UnlessZeroOpcode>>)
    BY <1>2, <1>8, TableFixes, Zenon
  <2> QED  BY <2>1, <2>2, IfZeroIsKept, Zenon
<1>9. CASE name = "C_JR"
  BY <1>9, ShortJumpToRegisterIsKept, Zenon
<1>10. CASE name = "C_ADD"
  BY <1>10, AddIsKept, Zenon
<1>11. CASE \E m : Stands(name, m)
  <2>1. PICK m : Stands(name, m)
    BY <1>11, Zenon
  <2>2. /\ w \subseteq 0..31
        /\ w \cap (0..6 \cup 12..14) = Word(<<0, \h63>>) \cup Placed(btypes[m], 0, 3, 12)
    BY <1>1, <2>1, TableFixes, Zenon
  <2> QED  BY <2>1, <2>2, BranchIsKept, Zenon
<1>12. CASE name \notin BranchEntries
  BY <1>12, OtherIsKept, Zenon
<1>13. (\E m : Stands(name, m)) \/ name \notin {"BEQ", "BNE", "BLT", "BGE", "BLTU", "BGEU"}
  <2> HIDE DEF name
  <2>1. /\ Stands("BEQ", "beq") /\ Stands("BNE", "bne") /\ Stands("BLT", "blt")
        /\ Stands("BGE", "bge") /\ Stands("BLTU", "bltu") /\ Stands("BGEU", "bgeu")
    BY DEF Stands
  <2> QED  BY <2>1, Zenon
<1> HIDE DEF name
<1> QED  BY <1>3, <1>4, <1>5, <1>6, <1>7, <1>8, <1>9, <1>10, <1>11, <1>12, <1>13,
            Zenon DEF BranchEntries, name

\* spike-dasm writes no address, and has a jalr of one argument for no other entry.
Distant(arg) == arg[1] # "address"
LEMMA TextsOfDistances ==
    /\ \A m : ~Beyond(Text(m, <<>>))
    /\ \A m, a : Distant(a) => ~Beyond(Text(m, <<a>>))
    /\ \A m, a, b : Distant(a) /\ Distant(b) => ~Beyond(Text(m, <<a, b>>))
    /\ \A m, a, b, c :
           Distant(a) /\ Distant(b) /\ Distant(c) => ~Beyond(Text(m, <<a, b, c>>))
BY DEF Beyond, Text, Distant

LEMMA DistancesAreWritten ==
    /\ \A n : Distant(SpikeReg(n))
    /\ \A offset : Distant(PcTo(offset)) /\ Distant(<<"number", offset>>)
BY DEF Distant, SpikeReg, PcTo

LEMMA OnlyJalrLosesALink ==
    \A m, args : m # "jalr" => ~LosesLink(Text(m, args))
BY DEF LosesLink, Text

LEMMA SpikeTexts ==
    ASSUME NEW entry, NEW w
    PROVE  /\ ~Beyond(SpikeOf(entry, w))
           /\ entry # "JALR" => ~LosesLink(SpikeOf(entry, w))
<1> DEFINE text == SpikeOf(entry, w)
           n == Part(w, 7, 5)
<1>1. CASE \E m : Stands(entry, m)
  <2>1. PICK m : Stands(entry, m)
    BY <1>1
  <2>2. text = IF Part(w, 20, 5) = 0 /\ m \in DOMAIN Shortened
               THEN ShortText(m, Part(w, 15, 5), PcTo(BOffset(w)))
               ELSE LongText(m, Part(w, 15, 5), Part(w, 20, 5), PcTo(BOffset(w)))
    BY <2>1, BranchTexts
  <2>3. m # "jalr"
    BY <2>1 DEF Stands
  <2>4. m \in DOMAIN Shortened => Shortened[m] # "jalr"
    BY DEF Shortened
  <2>5. \A to : Distant(to) =>
            /\ ~Beyond(LongText(m, Part(w, 15, 5), Part(w, 20, 5), to))
            /\ ~LosesLink(LongText(m, Part(w, 15, 5), Part(w, 20, 5), to))
    BY <2>3, TextsOfDistances, DistancesAreWritten, OnlyJalrLosesALink, Zenon DEF LongText
  <2>6. m \in DOMAIN Shortened => \A to : Distant(to) =>
            /\ ~Beyond(ShortText(m, Part(w, 15, 5), to))
            /\ ~LosesLink(ShortText(m, Part(w, 15, 5), to))
    BY <2>4, TextsOfDistances, DistancesAreWritten, OnlyJalrLosesALink, Zenon DEF ShortText
  <2> HIDE DEF text
  <2>7. Distant(PcTo(BOffset(w)))
    BY DistancesAreWritten, Zenon
  <2>8. CASE Part(w, 20, 5) = 0 /\ m \in DOMAIN Shortened
    <3>1. text = ShortText(m, Part(w, 15, 5), PcTo(BOffset(w)))
      BY <2>2, <2>8, Zenon
    <3> QED  BY <2>6, <2>7, <2>8, <3>1, Zenon DEF text
  <2>9. CASE ~(Part(w, 20, 5) = 0 /\ m \in DOMAIN Shortened)
    <3>1. text = LongText(m, Part(w, 15, 5), Part(w, 20, 5), PcTo(BOffset(w)))
      BY <2>2, <2>9, Zenon
    <3> QED  BY <2>5, <2>7, <3>1, Zenon DEF text
  <2> QED  BY <2>8, <2>9, Zenon
<1>2. CASE entry = "JAL"
  <2>1. text = IF n \in {0, 1} THEN Text(IF n = 0 THEN "j" ELSE "jal", <<PcTo(JOffset(w))>>)
                              ELSE Text("jal", <<SpikeReg(n), PcTo(JOffset(w))>>)
    BY <1>2 DEF SpikeOf, DisassembledAs, SpikeReg, PcTo
  <2>2. \E m \in {"j", "jal"} : \/ text = Text(m, <<PcTo(JOffset(w))>>)
                                \/ text = Text(m, <<SpikeReg(n), PcTo(JOffset(w))>>)
    BY <2>1
  <2>3. "j" # "jalr" /\ "jal" # "jalr"
    OBVIOUS
  <2> HIDE DEF text, n
  <2> QED  BY <2>2, <2>3, TextsOfDistances, DistancesAreWritten, OnlyJalrLosesALink,
              Zenon DEF text
<1>3. CASE entry = "JALR"
  <2> DEFINE base == Part(w, 15, 5)
             i == IOffset(w)
  <2>1. text = IF i # 0 \/ n \notin {0, 1}
               THEN Text("jalr", <<SpikeReg(n), SpikeReg(base), <<"number", i>>>>)
               ELSE PlainText(n, base)
    BY <1>3 DEF SpikeOf, DisassembledAs, SpikeReg, PlainText
  <2>2. \E m : \/ text = Text(m, <<SpikeReg(n), SpikeReg(base), <<"number", i>>>>)
               \/ text = Text(m, <<SpikeReg(base)>>)
               \/ text = Text(m, <<>>)
    BY <2>1 DEF PlainText
  <2> HIDE DEF text, n, base, i
  <2> QED  BY <1>3, <2>2, TextsOfDistances, DistancesAreWritten, Zenon DEF text
<1>4. CASE entry \in {"C_J", "C_BEQZ", "C_BNEZ"}
  <2>1. \E m \in {"c.j", "c.beqz", "c.bnez"} :
            \/ text = Text(m, <<PcTo(CJOffset(w))>>)
            \/ text = Text(m, <<SpikeReg(Part(w, 7, 3) + 8), PcTo(CBOffset(w))>>)
    BY <1>4 DEF SpikeOf, DisassembledAs, SpikeReg, PcTo
  <2>2. "c.j" # "jalr" /\ "c.beqz" # "jalr" /\ "c.bnez" # "jalr"
    OBVIOUS
  <2> HIDE DEF text
  <2> QED  BY <2>1, <2>2, TextsOfDistances, DistancesAreWritten, OnlyJalrLosesALink,
              Zenon DEF text
<1>5. CASE entry \in {"none", "C_JR", "C_ADD"} \/ entry \notin BranchEntries
  <2>1. \E m \in {"unknown", "ret", "c.jr", "c.ebreak", "c.jalr", "other"} :
            text = Text(m, <<>>) \/ text = Text(m, <<SpikeReg(n)>>)
    BY <1>5 DEF SpikeOf, DisassembledAs, SpikeReg, BranchEntries
  <2>2. "jalr" \notin {"unknown", "ret", "c.jr", "c.ebreak", "c.jalr", "other"}
    OBVIOUS
  <2> HIDE DEF text, n
  <2> QED  BY <2>1, <2>2, TextsOfDistances, DistancesAreWritten, OnlyJalrLosesALink,
              Zenon DEF text
<1>6. (\E m : Stands(entry, m)) \/ entry \notin {"BEQ", "BNE", "BLT", "BGE", "BLTU", "BGEU"}
  <2>1. /\ Stands("BEQ", "beq") /\ Stands("BNE", "bne") /\ Stands("BLT", "blt")
        /\ Stands("BGE", "bge") /\ Stands("BLTU", "bltu") /\ Stands("BGEU", "bgeu")
    BY DEF Stands
  <2> QED  BY <2>1, Zenon
<1> QED  BY <1>1, <1>2, <1>3, <1>4, <1>5, <1>6, Zenon DEF BranchEntries

\* So it is for every word of the table, at every address.
LEMMA AtAnyAddress ==
    ASSUME NEW w, NEW address \in Int,
           \E entry \in InstructionSet :
               w \cap entry.mmatch = entry.mask /\ w \subseteq 0..(8 * entry.length - 1)
    PROVE  /\ IsKnown(w)
           /\ ~Beyond(SpikeText(w))
           /\ AlikeButForALink(w, SpikeText(w),
                               format_args(translate_format(ObjdumpText(w, address))), address)
<1>1. PICK entry \in InstructionSet :
          w \cap entry.mmatch = entry.mask /\ w \subseteq 0..(8 * entry.length - 1)
  OBVIOUS
<1>2. IsKnown(w)
  BY <1>1, Zenon DEF IsKnown, Matching, InstructionSet
<1> DEFINE decoded == Decoded(w)
<1>3. decoded \in InstructionSet /\ w \cap decoded.mmatch = decoded.mask
  BY <1>2, DecodedMatches, Zenon
<1>4. decoded.length = entry.length
  BY <1>1, <1>3, MatchingLength, Zenon
<1>5. w \subseteq 0..(8 * decoded.length - 1)
  BY <1>1, <1>4, Zenon
<1>6. /\ SpikeText(w) = SpikeOf(decoded.mnemonic, w)
      /\ ObjdumpText(w, address) = ObjdumpOf(decoded.mnemonic, w, address)
  BY <1>2, TextsAreOfAnEntry, Zenon
<1> HIDE DEF decoded
<1>7. AlikeButForALink(w, SpikeOf(decoded.mnemonic, w),
                       Translated(decoded.mnemonic, w, address), address)
  <2>1. CASE decoded.mnemonic = "JALR"
    BY <2>1, JumpToRegisterIsKept, Zenon
  <2>2. CASE decoded.mnemonic # "JALR"
    <3>1. Alike(w, SpikeOf(decoded.mnemonic, w), Translated(decoded.mnemonic, w, address),
                address)
      BY <1>3, <1>5, <2>2, EveryEntryIsKept, Zenon
    <3>2. ~LosesLink(SpikeOf(decoded.mnemonic, w))
      BY <2>2, SpikeTexts, Zenon
    <3> QED  BY <3>1, <3>2, Zenon DEF Alike, AlikeButForALink
  <2> QED  BY <2>1, <2>2, Zenon
<1>8. ~Beyond(SpikeOf(decoded.mnemonic, w))
  BY SpikeTexts, Zenon
<1> QED  BY <1>2, <1>6, <1>7, <1>8, Zenon DEF Translated

\* A text is read, and what is read of it written, if none of its targets is too far.
LEMMA ReadUnlessBeyond ==
    ASSUME NEW w, NEW text, NEW address, ~Beyond(text)
    PROVE  /\ process_branch(text, address) = InstructionType(text, address)
           /\ Rewritten(w, text, address, TRUE) = w <=> Kept(w, text, address)
<1>1. process_branch(text, address) = InstructionType(text, address)
  BY Zenon DEF process_branch
<1> QED  BY <1>1, Zenon DEF Rewritten, Kept

\* Whatever the operands of a branch, and not only those a run tries, the generators
\* write the same word again of what is read of spike-dasm's text (process_branch,
\* fetch16, fetch32), and of objdump's if its target is a u32; and the two are read as
\* the same type, unless spike-dasm has left out the register that a jalr links to.
THEOREM BranchesComeBack ==
    ASSUME case.of = "branch" =>
               \E entry \in InstructionSet :
                   /\ case.word \cap entry.mmatch = entry.mask
                   /\ case.word \subseteq 0..(8 * entry.length - 1)
    PROVE  BranchesAreWrittenAsTheyWere
<1> DEFINE w == case.word
           objdump(address) == format_args(translate_format(ObjdumpText(w, address)))
<1>1. ASSUME case.of = "branch"
      PROVE  /\ IsKnown(w)
             /\ \A address \in Int :
                    /\ Rewritten(w, SpikeText(w), address, TRUE) = w
                    /\ ~Beyond(objdump(address)) =>
                           /\ Rewritten(w, objdump(address), address, TRUE) = w
                           /\ process_branch(SpikeText(w), address) =
                                      process_branch(objdump(address), address)
                                  <=> ~LosesLink(SpikeText(w))
  <2>1. \E entry \in InstructionSet :
            w \cap entry.mmatch = entry.mask /\ w \subseteq 0..(8 * entry.length - 1)
    BY <1>1, Zenon
  <2> HIDE DEF w
  <2>2. /\ IsKnown(w) /\ ~Beyond(SpikeText(w))
        /\ \A address \in Int : AlikeButForALink(w, SpikeText(w), objdump(address), address)
    <3>1. 0 \in Int
      OBVIOUS
    <3> QED  BY <2>1, <3>1, AtAnyAddress, Zenon
  <2> HIDE DEF objdump
  <2>3. ASSUME NEW address \in Int
        PROVE  /\ Rewritten(w, SpikeText(w), address, TRUE) = w
               /\ process_branch(SpikeText(w), address) = InstructionType(SpikeText(w), address)
    BY <2>2, ReadUnlessBeyond, Zenon DEF AlikeButForALink
  <2>4. ASSUME NEW address \in Int, ~Beyond(objdump(address))
        PROVE  /\ Rewritten(w, objdump(address), address, TRUE) = w
               /\ process_branch(objdump(address), address) =
                      InstructionType(objdump(address), address)
    BY <2>2, <2>4, ReadUnlessBeyond, Zenon DEF AlikeButForALink
  <2> QED  BY <2>2, <2>3, <2>4, Zenon DEF AlikeButForALink
<1> DEFINE start == 4096
<1>2. start \in Int
  BY SMT
<1>3. BranchesAreWrittenAsTheyWere <=>
          (case.of = "branch" =>
              /\ IsKnown(w)
              /\ Rewritten(w, SpikeText(w), start, TRUE) = w
              /\ ~Beyond(objdump(start)) =>
                     /\ Rewritten(w, objdump(start), start, TRUE) = w
                     /\ process_branch(SpikeText(w), start) =
                                process_branch(objdump(start), start)
                            <=> ~LosesLink(SpikeText(w)))
  BY DEF BranchesAreWrittenAsTheyWere
<1> HIDE DEF start, objdump, w
<1> QED  BY <1>1, <1>2, <1>3, Zenon
=============================================================================
