-------------------------- MODULE VramUnitsProofs --------------------------
(* Lemmas about SumVram that the proofs of the ledger's clients rest on. *)
EXTENDS VramUnits, FiniteSetTheorems, TLAPS

\* The cells of one client are as many as its request.
LEMMA CellsOfCardinality ==
  ASSUME NEW c \in Client
  PROVE  /\ IsFiniteSet(CellsOf(c))
         /\ Cardinality(CellsOf(c)) = Vram[c]
<1> DEFINE n == Vram[c]
<1>1. n \in Nat
  BY VramUnitsAssumption
<1>2. IsFiniteSet({c}) /\ Cardinality({c}) = 1
  BY FS_Singleton
<1>3. IsFiniteSet(1 .. n) /\ Cardinality(1 .. n) = n
  <2> HIDE DEF n
  <2> QED BY <1>1, FS_Interval
<1>4. IsFiniteSet({c} \X (1 .. n)) /\ Cardinality({c} \X (1 .. n)) = 1 * n
  <2> DEFINE A == {c}
             B == 1 .. n
  <2>1. /\ IsFiniteSet(A) /\ Cardinality(A) = 1
        /\ IsFiniteSet(B) /\ Cardinality(B) = n
    BY <1>2, <1>3
  <2>2. IsFiniteSet(A \X B) /\ Cardinality(A \X B) = 1 * n
    <3> HIDE DEF A, B, n
    <3> QED BY <2>1, FS_Product
  <2> QED BY <2>2
<1> QED
  BY <1>1, <1>4 DEF CellsOf

\* A set of clients has finitely many cells, and its sum is a number.
LEMMA CellsFinite ==
  ASSUME NEW S, S \subseteq Client
  PROVE  IsFiniteSet(Cells(S)) /\ SumVram(S) \in Nat
<1> DEFINE T == {CellsOf(c) : c \in S}
           f == [c \in S |-> CellsOf(c)]
<1>1. IsFiniteSet(S)
  BY VramUnitsAssumption, FS_Subset
<1>2. f \in Surjection(S, T)
  BY DEF Surjection
<1>3. IsFiniteSet(T)
  <2> HIDE DEF f, T
  <2> QED BY <1>1, <1>2, FS_Surjection
<1>4. \A t \in T : IsFiniteSet(t)
  BY CellsOfCardinality
<1>5. IsFiniteSet(UNION T)
  <2> HIDE DEF T
  <2> QED BY <1>3, <1>4, FS_UNION
<1> QED
  BY <1>5, FS_CardinalityType DEF Cells, SumVram

\* Nobody asks for nothing.
LEMMA SumEmpty == SumVram({}) = 0
<1>1. Cells({}) = {}
  BY DEF Cells
<1> QED
  BY <1>1, FS_EmptySet DEF SumVram

\* The sum of two disjoint sets of clients.
LEMMA SumUnion ==
  ASSUME NEW S, NEW T, S \subseteq Client, T \subseteq Client, S \cap T = {}
  PROVE  SumVram(S \cup T) = SumVram(S) + SumVram(T)
<1>1. Cells(S \cup T) = Cells(S) \cup Cells(T)
  BY DEF Cells
<1>2. Cells(S) \cap Cells(T) = {}
  <2> SUFFICES ASSUME NEW x \in Cells(S), x \in Cells(T) PROVE FALSE
    OBVIOUS
  <2>1. PICK c \in S : x \in {c} \X (1 .. Vram[c])
    BY DEF Cells, CellsOf
  <2>2. PICK d \in T : x \in {d} \X (1 .. Vram[d])
    BY DEF Cells, CellsOf
  <2> QED BY <2>1, <2>2
<1>3. IsFiniteSet(Cells(S)) /\ IsFiniteSet(Cells(T))
  BY CellsFinite
<1>4. Cardinality(Cells(S) \cup Cells(T)) =
        Cardinality(Cells(S)) + Cardinality(Cells(T)) - Cardinality({})
  BY <1>2, <1>3, FS_Union
<1>5. Cardinality(Cells(S)) \in Nat /\ Cardinality(Cells(T)) \in Nat
  BY <1>3, FS_CardinalityType
<1>6. Cardinality(Cells(S) \cup Cells(T)) =
        Cardinality(Cells(S)) + Cardinality(Cells(T))
  BY <1>4, <1>5, FS_EmptySet
<1> QED
  BY <1>1, <1>6 DEF SumVram

\* One client more.
LEMMA SumAdd ==
  ASSUME NEW S, S \subseteq Client, NEW c \in Client, c \notin S
  PROVE  SumVram(S \cup {c}) = SumVram(S) + Vram[c]
<1>1. Cells({c}) = CellsOf(c)
  BY DEF Cells
<1>2. SumVram({c}) = Vram[c]
  BY <1>1, CellsOfCardinality DEF SumVram
<1> QED
  BY <1>2, SumUnion

\* One client less.
LEMMA SumRemove ==
  ASSUME NEW S, S \subseteq Client, NEW c \in S
  PROVE  SumVram(S \ {c}) = SumVram(S) - Vram[c]
<1>1. (S \ {c}) \cup {c} = S
  OBVIOUS
<1>2. SumVram(S) = SumVram(S \ {c}) + Vram[c]
  BY <1>1, SumAdd
<1>3. SumVram(S \ {c}) \in Nat /\ Vram[c] \in Nat
  BY CellsFinite, VramUnitsAssumption
<1> QED
  BY <1>2, <1>3

\* Several clients less.
LEMMA SumDifference ==
  ASSUME NEW S, S \subseteq Client, NEW T, T \subseteq S
  PROVE  SumVram(S \ T) = SumVram(S) - SumVram(T)
<1>1. (S \ T) \cup T = S
  OBVIOUS
<1>2. SumVram(S) = SumVram(S \ T) + SumVram(T)
  BY <1>1, SumUnion
<1>3. SumVram(S \ T) \in Nat /\ SumVram(T) \in Nat
  BY CellsFinite
<1> QED
  BY <1>2, <1>3

\* A subset asks for no more than the set.
LEMMA SumMonotone ==
  ASSUME NEW S, S \subseteq Client, NEW T, T \subseteq S
  PROVE  SumVram(T) <= SumVram(S)
<1>1. SumVram(S \ T) = SumVram(S) - SumVram(T)
  BY SumDifference
<1>2. SumVram(S \ T) \in Nat /\ SumVram(T) \in Nat /\ SumVram(S) \in Nat
  BY CellsFinite
<1> QED
  BY <1>1, <1>2
=============================================================================
